\* The server resets the connection of a report.
CONSTANTS
    AC_RING_SIZE = 5
    AC_MAX_EVENTS = 5
    AC_REPORT_TIMEOUT_SEC = 1
    AC_RESOLVE_MAX = 2
    MaxWrites = 2
    Check = {"scan"}
    Interval = 2
    MaxFindings = 1
    MaxDrop = 1
    Arriving = {"alert"}
SPECIFICATION FairSpec
CHECK_DEADLOCK FALSE
INVARIANT ReportNeverCrashes
