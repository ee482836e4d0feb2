SPECIFICATION Spec
CONSTANTS
    Extensions = {e1, e2}
    Clients = {c1, c2}
    Closers = {p1, p2}
    Callers = {r1}
    NoOne = NoOne
SYMMETRY Symmetry
INVARIANTS TypeOK RegistrationsAgree CloseIsFinal OneBrowser
CHECK_DEADLOCK FALSE
