\* Two overlapping invocations, one account, requests and faults.
SPECIFICATION FairSpec
CONSTANTS
    Procs = {p1, p2}
    Accounts = {1}
    Global = Global
    Stamps <- MCStamps
    Slow = FALSE
    MaxClicks = 2
    MaxFaults = 1
    None = None
INVARIANTS
    OneScanAtATime
PROPERTIES
    RequestKept
    AccountsScannedWhenDue
    RequestsServed
