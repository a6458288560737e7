\* A child that forks before its own registration.
CONSTANTS
    Task = {t1, t2, t3}
    Roots = {t1}
    Pid = {n1, n2, n3}
    Admin = {a1}
    Calls = {"add"}
    AC_PROT_MAX = 3
    JitFlags = {FALSE}
    NULL = NULL
SPECIFICATION Spec
INVARIANT ChildrenOfRegistered
CHECK_DEADLOCK FALSE
