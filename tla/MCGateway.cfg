\* Two requests against two edits; ages count to the cache's lifetime of two.
SPECIFICATION Spec
CONSTANTS
    p1 = p1
    s1 = s1
    s2 = s2
    a1 = a1
    a2 = a2
    t1 = t1
    Requests = {q1, q2}
    Paths = {p1}
    Streams = {s1, s2}
    Points = {a1, a2}
    Tokens = {t1}
    Sources = {g1, g2}
    PrivateSources = {g1}
    Trusted = {s1}
    StreamOf <- MCStreamOf
    PathOf <- MCPathOf
    PointOf <- MCPointOf
    TTL = 2
    Patience = 1
    MaxEdits = 2
    None = None
SYMMETRY Symmetry
PROPERTIES
    ImplementsLinks
    PrivateOnlyIfRecent
