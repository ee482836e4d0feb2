SPECIFICATION Spec
CONSTANTS
    Callers = {c1, c2}
    Closers = {p1}
    MaxID = 2
    MaxAnswers = 2
    NoOne = NoOne
INVARIANTS NoBlockedSender NoLeak ShutdownIsFinal
PROPERTIES ImplementsService
CHECK_DEADLOCK FALSE
