\* The remux manager: one stream, two sources for it, two callers, two slots;
\* no symmetry, as liveness is checked too.
SPECIFICATION FairSpec
CONSTANTS
    Streams = {s1}
    Sigs = {g1, g2}
    Jobs = {j1, j2}
    Callers = {c1, c2}
    Slots = 2
    None = None
INVARIANTS
    SlotAccounting
    RegistryCoherent
    ResourcesOwned
PROPERTIES
    DirectoryOutlivesProcess
    LiveSessionKept
    ImplementsPool
    CallsReturn
    StoppedIsCleanedUp
    CloseDrains
