\* Three tasks and two slots, so that a fork and an ADD_PROC may meet a full table;
\* every task may end, and then nothing is left to do.
CONSTANTS
    Task = {t1, t2, t3}
    Roots = {t1}
    Pid = {n1, n2, n3}
    Admin = {a1}
    Calls = {"add", "del"}
    AC_PROT_MAX = 2
    JitFlags = {TRUE}
    NULL = NULL
SPECIFICATION Spec
SYMMETRY Interchangeable
INVARIANTS CountExact RefsExact StaleOnlyIfLate ChildInherits
PROPERTIES ImplementsProtSet
CHECK_DEADLOCK FALSE
