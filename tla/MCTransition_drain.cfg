SPECIFICATION Spec
CONSTANTS
    p1 = p1
    p2 = p2
    Nodes <- FourNodes
    First <- ThreeReplicas
    Pages = {p1}
    Drainable <- ThePrimary
    MaxVersion = 2
    MaxMoves = 1
    MaxFaults = 0
SYMMETRY PageSymmetry
INVARIANT
    AckedWritesStored
