SPECIFICATION Spec
CONSTANTS
    s1 = s1  u1 = u1
    Sender = {s1}
    LargeSender = {}
    User = {u1}
    MaxSend = 1
    QueueCap = 1
    LargeSize = 2
    MergeMax = 2
INVARIANT CancelDoesNotPanic
