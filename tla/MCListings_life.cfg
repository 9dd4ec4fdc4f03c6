SPECIFICATION Spec
CONSTANTS
    Forms = {f1, f2}
    Checkouts = {c1, c2, c3}
    First = First
    None = None
    MaxActors = 4
SYMMETRY Symmetry
CONSTRAINT FewActors
INVARIANTS
    PhotoStands
    SoldOnce
    ErasedOwesNothing
CHECK_DEADLOCK FALSE
