SPECIFICATION Spec
CONSTANTS
    Node = {n1, n2, n3}
    Dormancy = 2
    MaxTime = 3
SYMMETRY MCSymmetry
INVARIANTS
    TypeOK
    TiersConsistent
    ActiveNeighbourhoodHot
PROPERTIES
    ReappearanceRehydrates
    ImplementsLedger
