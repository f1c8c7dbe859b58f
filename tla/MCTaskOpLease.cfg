\* Three calls on two tasks.
SPECIFICATION FairSpec
CONSTANTS
    None = None
    Tasks = {t1, t2}
    Acqs = {a1, a2, a3}
INVARIANTS
    MutualExclusion
    NoStrandedLease
    NoLostWaiter
PROPERTIES
    NoOvertaking
    ImplementsLock
    CallsServed
