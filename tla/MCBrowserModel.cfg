SPECIFICATION Spec
CONSTANTS
    Tabs = {t1, t2}
    Clients = {k1}
    Workers = {w1, w2, w3}
    MaxOps = 2
    MaxTimeouts = 0
    MaxDetaches = 1
    NoOne = NoOne
SYMMETRY Symmetry
INVARIANTS TypeOK SingleFlight EventsAgree NoTabMissed
PROPERTIES ImplementsSessions
CHECK_DEADLOCK FALSE
