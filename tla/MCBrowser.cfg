CONSTANTS
    Callers = {c1, c2}
    Pages = {p1, p2}
    NoPage = NoPage
    Operations = {"NewPage", "Navigate", "run", "ClosePage", "Close", "Tabs"}
SPECIFICATION Spec
SYMMETRY Symmetry
INVARIANTS TabsAgree SessionErrorsAreFinal CloseMissesNoPage NoTabLeaked
CHECK_DEADLOCK FALSE
