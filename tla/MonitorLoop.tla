----------------------------- MODULE MonitorLoop -----------------------------
(***************************************************************************)
(* The monitoring loop of the daemon (cmd_start() in                        *)
(* src/src/anticheat_daemon.c) together with the report client it calls     *)
(* from logmsg(): ac_report(), ac_resolve_timeout(), ac_connect_timeout().  *)
(* The daemon has one thread; while it waits for the report server, nobody  *)
(* takes events off the kernel's queue, which appears here as the queue     *)
(* that EventRing implements.  The daemon registers itself, so the child    *)
(* that resolves the server's name puts two events of its own on the queue. *)
(*                                                                          *)
(* Time passes in seconds, only where the code waits: in poll(), write(),   *)
(* read() and sleep(), and the events of others come as it passes; one      *)
(* second is the least time between two of them.  All times are relative to *)
(* `now`, which the loop reads just before it polls.                        *)
(***************************************************************************)
EXTENDS Integers, Sequences, FiniteSets

CONSTANTS
    AC_RING_SIZE, AC_MAX_EVENTS,
    AC_REPORT_TIMEOUT_SEC,
    AC_RESOLVE_MAX,      \* addresses tried
    MaxWrites,           \* bound: write() calls one request takes
    Check,               \* the periodic checks
    Interval,            \* seconds between two runs of a check
    MaxFindings,         \* bound: alerts one run of a check logs
    Arriving,            \* bound: kinds of the events of others
    MaxDrop              \* bound: events arrive until so many were given up

ASSUME LoopAssumption ==
    /\ {AC_RING_SIZE, AC_MAX_EVENTS, AC_REPORT_TIMEOUT_SEC, AC_RESOLVE_MAX,
        MaxWrites, Interval} \subseteq Nat \ {0}
    /\ {MaxFindings, MaxDrop} \subseteq Nat
    /\ Arriving \subseteq {"alert", "info"} /\ IsFiniteSet(Check)

VARIABLES
    queue, given_up, batch,   \* the kernel's queue; batch["daemon"] is el
    at,          \* where the loop is
    i,           \* index into el.events
    left,        \* alerts the running check has yet to log
    next,        \* check -> seconds from now until it is due, 0 when due
    rep,         \* the report in progress
    slept,       \* seconds of the current sleep(1)
    g_stop,
    set,         \* fixed at the start: whether AC_REPORT_URL and AC_REPORT_KEY are
                 \* set, whether the daemon could register itself, and whether
                 \* the server or the name service may take time
    gap,         \* seconds since the last poll
    since        \* check -> seconds since it last started, up to Interval + 1

K == INSTANCE EventQueue WITH
        Capacity <- AC_RING_SIZE, BatchSize <- AC_MAX_EVENTS,
        Callers <- {"daemon"}, Events <- {"alert", "info"}

kernel == <<queue, given_up, batch>>
timing == <<slept, gap, since>>
vars == <<kernel, at, i, left, next, rep, g_stop, set, timing>>

Settings == [self : BOOLEAN, url : BOOLEAN, hung : BOOLEAN]
NoReport == [at |-> "none", n |-> 0, writes |-> 0, spent |-> 0]   \* n addresses to try
Reporting == rep.at # "none"
Put(e) == K!PutFree(e) \/ K!PutFull(e)
el == batch["daemon"]

-----------------------------------------------------------------------------
(* ac_report(), from the caller's point of view one blocking call.           *)

\* The fork of the resolver is an event when the daemon is registered.
Resolver ==
    \/ set.self /\ Put("info")
    \/ ~set.self /\ UNCHANGED kernel

\* logmsg() at LOG_CRIT or above
Report ==
    \/ /\ set.url
       /\ rep' = [NoReport EXCEPT !.at = "resolve"]
       /\ Resolver
    \/ ~set.url /\ UNCHANGED <<rep, kernel>>

rest == <<at, i, left, next, g_stop, set, timing>>

\* The child delivers an address before the absolute deadline.
ResolveOne ==
    /\ rep.at = "resolve" /\ rep.n < AC_RESOLVE_MAX
    /\ rep.spent < AC_REPORT_TIMEOUT_SEC
    /\ rep' = [rep EXCEPT !.n = @ + 1]
    /\ UNCHANGED <<kernel, rest>>

\* The child is done, the deadline has passed or no more is wanted; the child is
\* killed and reaped, and its exit is an event.
ResolveEnd ==
    /\ rep.at = "resolve"
    /\ rep' = IF rep.n = 0 THEN NoReport
              ELSE [rep EXCEPT !.at = "connect", !.spent = 0]
    /\ Resolver
    /\ UNCHANGED rest

Connected ==
    /\ rep.at = "connect"
    /\ rep' = [NoReport EXCEPT !.at = "write"]
    /\ UNCHANGED <<kernel, rest>>

\* Refused, or not answered within the timeout: the next address.
ConnectFails ==
    /\ rep.at = "connect"
    /\ rep' = IF rep.n = 1 THEN NoReport
              ELSE [rep EXCEPT !.n = @ - 1, !.spent = 0]
    /\ UNCHANGED <<kernel, rest>>

\* A write() takes a part of the request, or all of what was left of it.
WriteSome ==
    /\ rep.at = "write" /\ rep.writes + 1 < MaxWrites
    /\ rep' = [rep EXCEPT !.writes = @ + 1, !.spent = 0]
    /\ UNCHANGED <<kernel, rest>>

WriteRest ==
    /\ rep.at = "write"
    /\ rep' = [NoReport EXCEPT !.at = "read"]
    /\ UNCHANGED <<kernel, rest>>

\* write() fails or the one read() returns, with or without a response.
ReportEnd ==
    /\ rep.at \in {"write", "read"}
    /\ rep' = NoReport
    /\ UNCHANGED <<kernel, rest>>

\* The server closed the connection and reset it: write() raises SIGPIPE, for
\* which the daemon has no handler and which no flag of the call holds back.
WriteBroken ==
    /\ rep.at = "write"
    /\ rep' = NoReport
    /\ at' = "killed"
    /\ UNCHANGED <<kernel, i, left, next, g_stop, set, timing>>

ac_report ==
    \/ ResolveOne \/ ResolveEnd \/ Connected \/ ConnectFails
    \/ WriteSome \/ WriteRest \/ WriteBroken \/ ReportEnd

-----------------------------------------------------------------------------
(* cmd_start()                                                               *)

Later(t) == IF t > gap THEN t - gap ELSE 0   \* a due time seen gap seconds later

PollWhenDue ==   \* variant: events are fetched only when a check is due as well
    /\ at = "top" /\ ~g_stop
    /\ at' = "log" /\ i' = 1
    /\ next' = [c \in Check |-> Later(next[c])]
    /\ gap' = 0
    /\ \/ (\E c \in Check : next'[c] = 0) /\ K!Take("daemon")
       \/ (\A c \in Check : next'[c] > 0) /\ UNCHANGED kernel
    /\ UNCHANGED <<left, rep, slept, g_stop, set, since>>

LeaveNever ==   \* variant: the flag is only looked at before the loop
    /\ at = "stopped"
    /\ UNCHANGED vars

\* The top of the loop: now = time(NULL) and AC_IOCTL_GET_EVENTS.
Poll ==
    /\ at = "top" /\ ~g_stop
    /\ at' = "log" /\ i' = 1
    /\ next' = [c \in Check |-> Later(next[c])]
    /\ gap' = 0
    /\ K!Take("daemon")
    /\ UNCHANGED <<left, rep, slept, g_stop, set, since>>

Leave ==
    /\ at = "top" /\ g_stop
    /\ at' = "stopped"
    /\ UNCHANGED <<kernel, i, left, next, rep, g_stop, set, timing>>

LogInfo ==
    /\ at = "log" /\ ~Reporting
    /\ i <= Len(el) /\ el[i] = "info"
    /\ i' = i + 1
    /\ UNCHANGED <<kernel, at, left, next, rep, g_stop, set, timing>>

LogAlert ==
    /\ at = "log" /\ ~Reporting
    /\ i <= Len(el) /\ el[i] = "alert"
    /\ i' = i + 1
    /\ Report
    /\ UNCHANGED <<at, left, next, g_stop, set, timing>>

LogDone ==
    /\ at = "log" /\ ~Reporting
    /\ i > Len(el)
    /\ at' = "checks" /\ i' = 1
    /\ K!Return("daemon")
    /\ UNCHANGED <<left, next, rep, g_stop, set, timing>>

RunLate(c) ==   \* variant: the next run is one second late
    /\ at = "checks" /\ ~Reporting /\ left = 0
    /\ next[c] = 0
    /\ next' = [next EXCEPT ![c] = Interval + 1]
    /\ left' \in 0 .. MaxFindings
    /\ since' = [since EXCEPT ![c] = 0]
    /\ UNCHANGED <<kernel, at, i, rep, g_stop, set, slept, gap>>

\* A check that is due runs and is due again one interval after now.
RunCheck(c) ==
    /\ at = "checks" /\ ~Reporting /\ left = 0
    /\ next[c] = 0
    /\ next' = [next EXCEPT ![c] = Interval]
    /\ left' \in 0 .. MaxFindings
    /\ since' = [since EXCEPT ![c] = 0]
    /\ UNCHANGED <<kernel, at, i, rep, g_stop, set, slept, gap>>

Finding ==
    /\ at = "checks" /\ ~Reporting /\ left > 0
    /\ left' = left - 1
    /\ Report
    /\ UNCHANGED <<at, i, next, g_stop, set, timing>>

ChecksDone ==
    /\ at = "checks" /\ ~Reporting /\ left = 0
    /\ \A c \in Check : next[c] > 0
    /\ at' = "sleep" /\ slept' = 0
    /\ UNCHANGED <<kernel, i, left, next, rep, g_stop, set, gap, since>>

\* sleep(1) is over, or a signal ends it.
Wake ==
    /\ at = "sleep"
    /\ slept = 1 \/ g_stop
    /\ at' = "top"
    /\ slept' = 0
    /\ UNCHANGED <<kernel, i, left, next, rep, g_stop, set, gap, since>>

Loop ==
    \/ Poll \/ Leave \/ LogInfo \/ LogAlert \/ LogDone
    \/ (\E c \in Check : RunCheck(c)) \/ Finding \/ ChecksDone \/ Wake

-----------------------------------------------------------------------------
\* SIGTERM, SIGINT: sig_handler()
Signal ==
    /\ ~g_stop
    /\ g_stop' = TRUE
    /\ UNCHANGED <<kernel, at, i, left, next, rep, set, timing>>

\* An event of some other process, at most one in a second.
Arrival ==
    \/ given_up < MaxDrop /\ \E e \in Arriving : Put(e)
    \/ UNCHANGED kernel

BoundedButConnect ==   \* variant: connect() blocks as long as it likes
    rep.at = "connect" \/ rep.spent < AC_REPORT_TIMEOUT_SEC

\* Every wait of ac_report() has the same timeout.
Bounded == rep.spent < AC_REPORT_TIMEOUT_SEC

\* The longest the loop may take from one poll to the next.
GapMax ==
    (AC_MAX_EVENTS + Cardinality(Check) * MaxFindings)
        * (AC_REPORT_TIMEOUT_SEC * (1 + AC_RESOLVE_MAX + MaxWrites + 1)) + 1

\* A second passes while the daemon waits.
Second ==
    /\ gap <= GapMax + 1
    /\ \/ /\ Reporting /\ set.hung /\ Bounded
          /\ rep' = [rep EXCEPT !.spent = @ + 1]
          /\ UNCHANGED slept
       \/ /\ at = "sleep" /\ slept = 0
          /\ slept' = 1
          /\ UNCHANGED rep
    /\ gap' = gap + 1
    /\ since' = [c \in Check |-> IF since[c] > Interval THEN since[c] ELSE since[c] + 1]
    /\ Arrival
    /\ UNCHANGED <<at, i, left, next, g_stop, set>>

Init ==
    /\ K!Init
    /\ at = "top" /\ i = 1 /\ left = 0
    /\ next = [c \in Check |-> 0]
    /\ rep = NoReport /\ slept = 0 /\ g_stop = FALSE
    /\ set \in Settings
    /\ gap = 0
    /\ since = [c \in Check |-> 0]

Next == ac_report \/ Loop \/ Signal \/ Second

Spec == Init /\ [][Next]_vars

\* The daemon is scheduled and time passes.
FairSpec == Spec /\ WF_vars(ac_report \/ Loop \/ Second)

-----------------------------------------------------------------------------
\* Every variable keeps its type.
TypeOK ==
    /\ queue \in Seq({"alert", "info"}) /\ Len(queue) <= AC_RING_SIZE
    /\ el \in Seq({"alert", "info"}) /\ Len(el) <= AC_MAX_EVENTS
    /\ given_up \in Nat
    /\ at \in {"top", "log", "checks", "sleep", "stopped", "killed"}
    /\ i \in 1 .. AC_MAX_EVENTS + 1 /\ left \in 0 .. MaxFindings
    /\ next \in [Check -> Nat]
    /\ rep \in [at : {"none", "resolve", "connect", "write", "read"},
                n : 0 .. AC_RESOLVE_MAX, writes : 0 .. MaxWrites, spent : Nat]
    /\ Reporting => at \in {"log", "checks"}
    /\ slept \in 0 .. 1 /\ g_stop \in BOOLEAN /\ set \in Settings
    /\ gap \in Nat /\ since \in [Check -> Nat]

\* Whatever the server and the name service do, the daemon is back at
\* AC_IOCTL_GET_EVENTS after a bounded time: the timeouts of ac_report() add up
\* over the addresses, the writes and the alerts of one turn of the loop, and
\* nothing in it can wait for longer.  Every variable has its type.
PollGapBounded == TypeOK /\ gap <= GapMax

\* While the server answers at once, every check starts again no later than its
\* interval, though the loop only looks once a second and compares with a time
\* it read before it handled the events (cmd_start).
ChecksOnTime == ~set.hung => \A c \in Check : since[c] <= Interval

\* While the server answers at once, and at a rate of events the loop keeps up
\* with, the kernel's queue never has to give one up, the events the daemon's
\* own resolver adds to it included (cmd_start, ac_report).
NothingDropped == ~set.hung => given_up = 0

\* A signal ends the daemon, also in the middle of a batch of alerts with a
\* server that does not answer (sig_handler, the condition of the loop).
StopHonoured == g_stop ~> at \in {"stopped", "killed"}

\* "a failed or partially-sent report only logs a local warning, never blocks or
\* crashes the monitoring loop" (README.md, the section on the ban pipeline).
ReportNeverCrashes == at # "killed"
=============================================================================
