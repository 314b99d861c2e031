\* Safety of the supervisor: two streams compete for one relay.
SPECIFICATION Spec
CONSTANTS
    Streams = {1, 2}
    Sigs = {g1, g2}
    Slots = 2
    RelayOnly = FALSE
    None = None
SYMMETRY Symmetry
INVARIANTS
    TypeOK
    PinBudget
PROPERTIES
    HealthyRelayKept
