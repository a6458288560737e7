\* Two numbers for three tasks, so that numbers are reused.  Calls of other tasks
\* change nothing that a call reads, so one call meets all that can happen to it.
CONSTANTS
    Task = {t1, t2, t3}
    Pid = {11, 12}
    NULL = NULL
    AC_PROT_MAX = 2
    MaxCalls = 1
SPECIFICATION FairSpec
INVARIANTS  KilledAreOffenders
PROPERTIES OffenderDies
