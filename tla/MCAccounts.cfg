\* The first admin and an account that may be a user, then an admin; two parallel requests.
SPECIFICATION Spec
CONSTANTS
    Accounts = {a1, a2}
    Root = a1
    Workers = {w1, w2}
    Ips = {i1}
    Invite = Invite
    MaxPerIp = 2
    MaxPerUser = 2
    Window = 1
    MaxInvites = 2
    MaxOwned = 2
SYMMETRY Symmetry
INVARIANTS
    LastAdminKept
    ThrottleHolds
PROPERTIES
    InviteWorksOnce
