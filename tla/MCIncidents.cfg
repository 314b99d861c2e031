\* Scans against one operator, with one fault.
SPECIFICATION FairSpec
CONSTANTS
    Pub = Pub
    Priv = Priv
    Tok = Tok
    Issue = Issue
    None = None
    Garbled = Garbled
    Points = {Pub, Priv}
    Private = {Priv}
    Tokens = {Tok}
    Hits <- MCHits
    Issues = {Issue}
    Operators = {o1}
    MaxManual = 1
    MaxFaults = 1
INVARIANTS
    ConfirmedTokenRevoked
    CommentsBounded
PROPERTIES
    ClosedStaysClosed
    NoticeOnlyForDeadLink
    OnlyLeakedRevoked
    LeaksRevoked
