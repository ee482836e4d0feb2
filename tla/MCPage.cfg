CONSTANTS
    Tools = {t1, t2}
    Dialogs = {d1, d2}
    NoDialog = NoDialog
    Nodes = {1}
    MaxNavigations = 1
    MaxEvents = 1
    Uploads = {u1, u2}
    Choosers = {f1, f2, f3}
    NoChooser = NoChooser
    RequestIDs = {q1, q2}
    Unlogged = {q2}
    MaxHops = 4
    MaxSaid = 1
    MaxLoaded = 1
    MaxLines = 11
    MaxTime = 2
    Limit = 3
    Interval = 2
    CommandTimeout = 2
    Never = Never
SPECIFICATION PageSpec
SYMMETRY Symmetry
INVARIANTS DialogFollows RefsFollowNavigation ChooserFollows LogTellsTruth WindowsAreExact WaitKeepsItsTimes
CHECK_DEADLOCK FALSE
