CONSTANTS
    Tools = {t1}
    Dialogs = {d1}
    NoDialog = NoDialog
    Nodes = {1, 2}
    MaxNavigations = 0
    MaxEvents = 0
SPECIFICATION Spec
SYMMETRY Symmetry
INVARIANTS ReferenceIsTarget
CHECK_DEADLOCK FALSE
