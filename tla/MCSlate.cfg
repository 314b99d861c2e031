\* The slate manager: two slates compete for one encoder.
\* After Close the manager stops for good.
CHECK_DEADLOCK FALSE
SPECIFICATION FairSpec
CONSTANTS
    Generic = {g1}
    Personal = {p1}
    Temporary = {}
    Runs = {x1, x2}
    Readers = {r1}
    MaxProcesses = 1
    MaxPersonal = 1
    None = None
INVARIANTS
    TypeOK
    ProcessCap
    NothingLeaks
PROPERTIES
    RestartsPaced
    CloseDrains
