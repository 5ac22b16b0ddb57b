SPECIFICATION Spec
CONSTANTS
    Gateways = {g1, g2}
    Hosts = {h1, h2}
    Nobody = Nobody
    Calls = {c1, c2}
    Requests = {r1, r2}
    MaxWork = 3
SYMMETRY Symmetry
INVARIANTS AttachmentTypeOK AcceptedWasAdmitted
PROPERTIES DetachTakesOwn
CHECK_DEADLOCK FALSE
