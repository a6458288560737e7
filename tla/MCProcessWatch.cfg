\* Each check in turn, three processes and two numbers, which are reused; a
\* table of one slot, so that it fills up.
CONSTANTS
    Proc = {p1, p2, p3}
    Pid = {n1, n2}
    NULL = NULL
    AC_MAX_PROTS = 1
    MaxCount = 2
SPECIFICATION WatchFairSpec
INVARIANTS RoomForListed WarnedOnce
PROPERTIES GrowthNotAbsorbed GrowthIsSeen 
