SPECIFICATION FairSpec
CONSTANTS
    Tabs = {t1, t2}
    Children = {h1}
    Requests = {r1}
    MaxSessions = 2
    None = None
INVARIANTS RoutedToOwner EndedSessionsRefuse ReportedSessionsServe EventsBeforeReply
PROPERTIES AnswersAreReady ImplementsSessions
CHECK_DEADLOCK FALSE
