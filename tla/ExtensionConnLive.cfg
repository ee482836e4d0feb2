SPECIFICATION FairSpec
CONSTANTS
    Callers = {c1, c2}
    Closers = {p1}
    MaxID = 2
    MaxAnswers = 1
    NoOne = NoOne
PROPERTIES ImplementsFairService LossIsHandled
CHECK_DEADLOCK FALSE
