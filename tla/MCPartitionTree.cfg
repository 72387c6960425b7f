\* 3-bit slots (0..7), three partition ids, multipleSearch up to 3.
CONSTANTS
    W = 3
    Ids = {p1, p2, p3}
    MaxNum = 3
    Nil = Nil
SYMMETRY IdSymmetry
SPECIFICATION Spec
INVARIANTS
    Disjoint
    SearchCorrect
    MultipleSearchCorrect
PROPERTIES
    UpdateReplacesOverlaps
