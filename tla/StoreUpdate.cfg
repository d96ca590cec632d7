SPECIFICATION FairSpec
CONSTANTS
    r1 = r1
    r2 = r2
    r3 = r3
    r4 = r4
    p1 = p1
    p2 = p2
    None = None
    Req = {r1, r2, r3, r4}
    Proc = {p1, p2}
    Host <- MCHost
    LockErrors = TRUE
INVARIANTS CopyIsCurrent NoDeadlock
PROPERTIES ImplementsAtomicStore SomebodyGetsIn
