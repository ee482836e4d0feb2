CONSTANTS
    Callers = {c1, c2, c3}
    Pages = {p1}
    NoPage = NoPage
    Operations = {"NewPage", "ClosePage", "Close"}
SPECIFICATION FairSpec
INVARIANTS ClosedPagesLeave
PROPERTIES LossIsNoticed CloseFinishes
CHECK_DEADLOCK FALSE
