SPECIFICATION Spec
CONSTANTS
    Event = {e1, e2, e3}
    Ref = {r1, r2}
    Owner = {o1}
    Fd = {f1}
    MaxTime = 1
    Grace = {0}
    MaxThrows = 1
    NoEvent = NoEvent
    NoRef = NoRef
    NoFd = NoFd
    NoOwner = NoOwner
SYMMETRY Symmetry
INVARIANTS TypeOK RefsMutual PassInBounds
PROPERTIES OncePerPass NoCallAfterRelease GarbageIsFinal CollectsExactlyGarbage
