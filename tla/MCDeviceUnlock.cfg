\* Both clients unlock.
CONSTANTS
    Parts = {"lifecycle"}
    AC_RING_SIZE = 1
    AC_MAX_EVENTS = 1
    UINT = 2
    Callers = {c1}
    MaxEmit = 1
    Thread = {h1}
    State = {s1}
    Buffer = {b1}
    Source = {x1}
    Cap = 1
    MaxLen = 1
    NULL = NULL
    Client = {c1, c2}
    Unlockers = {c1, c2}
    Cpu = {u1}
    Task = {t1}
    MaxLocks = 1
    MaxQueued = 1
SPECIFICATION DeviceSpec
INVARIANT UnlockBalances
