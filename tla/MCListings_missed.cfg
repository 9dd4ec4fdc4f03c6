SPECIFICATION Spec
CONSTANTS
    Forms = {f1, f2}
    Checkouts = {c1, c2}
    First = First
    None = None
    MaxActors = 3
SYMMETRY Symmetry
CONSTRAINT FewActors
INVARIANT ChargesAreFlagged
CHECK_DEADLOCK FALSE
