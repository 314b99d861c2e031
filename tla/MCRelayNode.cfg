SPECIFICATION FairSpec
CONSTANTS
    n1 = n1
    s1 = s1
    None = None
    Nodes = {n1}
    Streams = {s1}
    PollEvery = 1
    Timeout = 1
    MaxAge = 3
    MaxSecret = 2
INVARIANTS LostStreamsEnd
PROPERTIES Settles
