SPECIFICATION FairSpec
CONSTANTS
    Event = {e1, e2}
    Ref = {}
    Owner = {o1}
    Fd = {f1}
    MaxTime = 3
    Grace = {0}
    MaxThrows = 1
    NoEvent = NoEvent
    NoRef = NoRef
    NoFd = NoFd
    NoOwner = NoOwner
PROPERTIES NoOversleep AlarmServed GarbageCollected
