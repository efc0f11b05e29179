SPECIFICATION StreamingFairSpec
CONSTANTS
    s1 = s1
    s2 = s2
    p1 = p1
    p2 = p2
    d1 = d1
    d2 = d2
    t1 = t1
    Nil = Nil
    Sessions = {s1, s2}
    Peers = {p1, p2}
    Kinds <- MCKinds
    Deliverers = {d1}
    Topics = {t1}
    MaxSessionsPerPeer = 1
    SessionTimeout = 1
    BatchSize = 2
    ChannelBufferSize = 1
    MaxMessages = 2
    MaxTime = 2
INVARIANTS
    StreamingTypeOK
    InOrder
    StopsFlushed
    NoSendOnClosed
    IndexAgrees
PROPERTY ClosedEnds
CHECK_DEADLOCK FALSE
