\* A second brings one event; a batch holds that event and those of the
\* resolver for the reports of one turn of the loop.  Events of others raise an
\* alert each; those that do not only take room, as the resolver's do.
CONSTANTS
    AC_RING_SIZE = 5
    AC_MAX_EVENTS = 5
    AC_REPORT_TIMEOUT_SEC = 1
    AC_RESOLVE_MAX = 2
    MaxWrites = 2
    Check = {"scan"}
    Interval = 2
    MaxFindings = 1
    MaxDrop = 1
    Arriving = {"alert"}
SPECIFICATION FairSpec
CHECK_DEADLOCK FALSE
INVARIANTS  NothingDropped PollGapBounded
PROPERTIES StopHonoured
