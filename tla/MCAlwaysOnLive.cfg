\* Convergence of the supervisor at the slot limit, whatever the source was.
SPECIFICATION FairSpec
CONSTANTS
    Streams = {1}
    Sigs = {g1, g2}
    Slots = 1
    RelayOnly = FALSE
    None = None
PROPERTIES
    RelaysConverge
