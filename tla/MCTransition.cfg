SPECIFICATION Spec
CONSTANTS
    p1 = p1
    p2 = p2
    Nodes <- FourNodes
    First <- ThreeReplicas
    Pages = {p1}
    Drainable <- ThePrimary
    MaxVersion = 2
    MaxMoves = 2
    MaxFaults = 1
SYMMETRY PageSymmetry
INVARIANTS
    TransitionTypeOK
    MappedSetServes
    SourceHeld
