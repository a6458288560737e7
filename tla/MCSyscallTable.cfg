\* Every image of MCSyscallTable; entries rewritten to addresses in and out of it.
CONSTANTS
    Kernel <- Kernels
    NR_syscalls = 4
    MIN_VALID = 3
    PAGE = 4
    WINDOW = 16
    SCAN = 24
    GENEROUS = 60
    ModuleArea <- Areas
    Written = {0, 2, 22, 37}
    MaxWritten = 2
SPECIFICATION TableSpec
INVARIANTS FoundIsTheTable CheckIsRight
