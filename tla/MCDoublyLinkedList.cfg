CONSTANTS
    List = {l1, l2}
    Node = {n1, n2, n3}
    Data = {d1, d2}
    Null = Null
SPECIFICATION Spec
SYMMETRY Symmetry
INVARIANT WellLinked
PROPERTY IsIteratorLists
