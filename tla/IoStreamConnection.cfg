SPECIFICATION FairSpec
CONSTANTS
    s1 = s1  s2 = s2  u1 = u1
    Sender = {s1, s2}
    LargeSender = {s2}
    User = {u1}
    MaxSend = 1
    QueueCap = 1
    LargeSize = 2
    MergeMax = 2
INVARIANTS TypeOK WireInOrder ReportsHonest GracefulFlush DisconnectedOnce DeferredCloseNoticed
PROPERTIES DisconnectCompletes CloseCompletes
