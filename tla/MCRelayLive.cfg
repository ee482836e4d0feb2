SPECIFICATION FairSpec
CONSTANTS
    Extensions = {e1}
    Clients = {c1, c2}
    Closers = {p1}
    Callers = {r1}
    NoOne = NoOne
PROPERTIES LossBringsDownBoth CloseTerminates
CHECK_DEADLOCK FALSE
