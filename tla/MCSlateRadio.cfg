\* A dead radio session stands in for another slate, which asks for ever.
\* After Close the manager stops for good.
CHECK_DEADLOCK FALSE
SPECIFICATION FairSpec
CONSTANTS
    Generic = {g1, t1}
    Personal = {}
    Temporary = {t1}
    Runs = {x1, x2}
    Readers = {r1}
    MaxProcesses = 1
    MaxPersonal = 0
    None = None
PROPERTIES
    RadioFailureAnswered
