\* Two requests of every kind, and one kill of the process.  Six ticks are two
\* windows and their boundaries; with a limit of two, five requests can exceed it in
\* two windows in a row.
CONSTANTS
    Request = {r1, r2}
    RequestKind <- AllKinds
    None = None
    MaxCrash = 1
    tested = tested
    other = other
    Key <- Clients
    Budget <- Requests
    Thread = {h1, h2}
    limit = 2
    window = 3
    Lag = 1
    MaxTime = 5
SPECIFICATION ServerSpec
CHECK_DEADLOCK FALSE
INVARIANTS AnswerMatchesStore StatusWasTrue LimitHolds BucketsRecent
PROPERTIES ShutdownEnds 
