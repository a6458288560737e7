\* A ring, a batch and a drop counter small enough to wrap; two threads share
\* a file, with lists of up to one entry more than the cap; one client unlocks,
\* both lock, and two CPUs are in handlers while ac_exit() waits.
CONSTANTS
    Parts = {"ring", "snapshot", "lifecycle"}
    AC_RING_SIZE = 3
    AC_MAX_EVENTS = 2
    UINT = 3
    Callers = {c1, c2}
    MaxEmit = 8
    Thread = {h1, h2}
    State = {s1, s2, s3}
    Buffer = {b1, b2, b3}
    Source = {x1, x2}
    Cap = 1
    MaxLen = 2
    NULL = NULL
    Client = {c1, c2}
    Unlockers = {c1}
    Cpu = {u1, u2}
    Task = {t1, t2}
    MaxLocks = 2
    MaxQueued = 2
SPECIFICATION DeviceFairSpec
INVARIANTS
    FreshestKept
    DropsAccounted
    GetReadsLastBegin
    AllReachable
    RefsAccounted
    UnloadIsQuiescent
PROPERTIES
    ImplementsQueue
    UnloadCompletes
