----------------------------- MODULE ProcessWatch -----------------------------
(***************************************************************************)
(* The per-process checks of the monitoring daemon                          *)
(* (src/src/anticheat_daemon.c): scan_protected_periodic() with the         *)
(* anonymous-executable baseline, check_ld_preload_periodic(),              *)
(* check_vk_layers_periodic() and check_implicit_layers_periodic().         *)
(*                                                                          *)
(* Each check asks the kernel for the list of registered processes, forgets *)
(* the entries of its own table whose number is no longer listed, and then  *)
(* looks at the listed numbers one by one, while processes start, execute   *)
(* another program, change, exit and hand their numbers on.  A table is the *)
(* partial function from numbers to entries that its slots spell out; it    *)
(* has room for AC_MAX_PROTS entries.  The checks run one after the other   *)
(* and share no state, so a behaviour follows one of them, `check', and     *)
(* the others are time that passes.  What the check reads of a process (the *)
(* count of anonymous executable mappings or of unknown layers, or whether  *)
(* its variables are set) is a small number.  A read fails when the process *)
(* is gone.                                                                 *)
(***************************************************************************)
EXTENDS Integers, FiniteSets, Functions

CONSTANTS
    Proc, Pid, NULL,
    AC_MAX_PROTS,   \* slots of a table, and of the kernel's registry
    MaxCount        \* bound on a count

BaselineChecks == {"anon", "implicit"}      \* compare with a remembered count
EnvironChecks == {"preload", "vklayer"}     \* warn once

ASSUME WatchAssumption ==
    /\ NULL \notin Proc \cup Pid
    /\ AC_MAX_PROTS \in Nat \ {0} /\ MaxCount \in Nat \ {0}

VARIABLES
    life, pidof,    \* process -> its state, and the number it has or had
    listed,         \* the registered processes
    check,          \* the check that is followed
    shown,          \* process -> what the check would read
    table,          \* number -> [count], with the process it was made for as history
    at,             \* "idle", or "busy" while the check goes through the list
    pl,             \* the listed numbers it has not looked at yet
    alert,          \* the process that the last step logged, or NULL
    warned          \* history: process -> whether it was warned of

kernel == <<life, pidof, listed, shown>>
watchVars == <<kernel, check, table, at, pl, alert, warned>>

Running(k) == {p \in Proc : life[p] = "running" /\ pidof[p] = k}
Values == IF check \in EnvironChecks THEN 0 .. 1 ELSE 0 .. MaxCount
Known(k) == k \in DOMAIN table
Room == Cardinality(DOMAIN table) < AC_MAX_PROTS
With(f, k, e) == [j \in DOMAIN f \cup {k} |-> IF j = k THEN e ELSE f[j]]

-----------------------------------------------------------------------------
Spawn(p, k) ==
    /\ life[p] = "unborn" /\ Running(k) = {}
    /\ life' = [life EXCEPT ![p] = "running"]
    /\ pidof' = [pidof EXCEPT ![p] = k]
    /\ \E v \in Values : shown' = [shown EXCEPT ![p] = v]
    /\ alert' = NULL
    /\ UNCHANGED <<listed, check, table, at, pl, warned>>

\* Mappings and manifests come and go; an environ is replaced by execve(),
\* and the registry keeps the task.
Remap(p) ==
    /\ life[p] = "running"
    /\ \E v \in Values \ {shown[p]} : shown' = [shown EXCEPT ![p] = v]
    /\ alert' = NULL
    /\ UNCHANGED <<life, pidof, listed, check, table, at, pl, warned>>

Exit(p) ==
    /\ life[p] = "running"
    /\ life' = [life EXCEPT ![p] = "gone"]
    /\ listed' = listed \ {p}
    /\ alert' = NULL
    /\ UNCHANGED <<pidof, shown, check, table, at, pl, warned>>

Protect(p) ==
    /\ life[p] = "running" /\ p \notin listed
    /\ Cardinality(listed) < AC_MAX_PROTS
    /\ listed' = listed \cup {p}
    /\ warned' = [warned EXCEPT ![p] = IF @ = "never" THEN @ ELSE "earlier"]
    /\ alert' = NULL
    /\ UNCHANGED <<life, pidof, shown, check, table, at, pl>>

Unprotect(p) ==
    /\ p \in listed
    /\ listed' = listed \ {p}
    /\ alert' = NULL
    /\ UNCHANGED <<life, pidof, shown, check, table, at, pl, warned>>

-----------------------------------------------------------------------------
\* anon_baseline_forget_stale() and its three siblings
KeepAll(pids) == table   \* variant: nothing is forgotten
KeepNone(pids) == Restrict(table, {})   \* variant: every entry is forgotten

ForgetStale(pids) == Restrict(table, DOMAIN table \cap pids)

\* AC_IOCTL_LIST_PROTECTED and the forgetting, the start of every check
List ==
    LET pids == {pidof[p] : p \in listed}
    IN  /\ at = "idle"
        /\ at' = "busy"
        /\ pl' = pids
        /\ table' = ForgetStale(pids)
        /\ alert' = NULL
        /\ UNCHANGED <<kernel, check, warned>>

Done ==
    /\ at = "busy" /\ pl = {}
    /\ at' = "idle"
    /\ alert' = NULL
    /\ UNCHANGED <<kernel, check, table, pl, warned>>

\* The process is gone: ioctl() or the read of /proc fails, and the loop goes on.
Skip(k) ==
    /\ k \in pl /\ Running(k) = {}
    /\ pl' = pl \ {k}
    /\ alert' = NULL
    /\ UNCHANGED <<kernel, check, table, at, warned>>

CompareKeepsCount(k, p) ==   \* variant: the entry keeps its count after an alert
    /\ alert' = IF shown[p] > table[k].count THEN p ELSE NULL
    /\ table' = IF shown[p] > table[k].count THEN table ELSE [table EXCEPT ![k].count = shown[p]]

\* anon_baseline_check() and the body of check_implicit_layers_periodic() on a
\* number with an entry: growth is logged, and the entry takes the new count.
Compare(k, p) ==
    /\ alert' = IF shown[p] > table[k].count THEN p ELSE NULL
    /\ table' = [table EXCEPT ![k].count = shown[p]]

\* The same on a number without one: the count becomes its baseline, silently,
\* if there is a free slot.
Record(k, p) ==
    /\ alert' = NULL
    /\ table' = IF Room THEN With(table, k, [count |-> shown[p], owner |-> p]) ELSE table

Baseline(k) ==
    /\ k \in pl /\ check \in BaselineChecks
    /\ \E p \in Running(k) :
         \/ Known(k) /\ Compare(k, p)
         \/ ~Known(k) /\ Record(k, p)
    /\ pl' = pl \ {k}
    /\ UNCHANGED <<kernel, check, at, warned>>

\* preload_mark_warned(), vklayer_mark_warned()
MarkNot(k, p) == UNCHANGED table   \* variant: the mark is left out

Mark(k, p) ==
    table' = IF ~Known(k) /\ Room THEN With(table, k, [count |-> 0, owner |-> p]) ELSE table

Warn(p) ==
    /\ alert' = p
    /\ warned' = [warned EXCEPT ![p] = IF @ = "once" THEN "twice" ELSE "once"]

NoWarning == alert' = NULL /\ UNCHANGED warned

PreloadMarksAll(k, p) ==   \* variant: the number is marked whatever was found
    \/ shown[p] = 1 /\ Warn(p) /\ Mark(k, p)
    \/ shown[p] = 0 /\ NoWarning /\ Mark(k, p)

\* check_ld_preload_periodic() on a number not marked: it marks what it warned of.
Preload(k, p) ==
    \/ shown[p] = 1 /\ Warn(p) /\ Mark(k, p)
    \/ shown[p] = 0 /\ NoWarning /\ UNCHANGED table

\* check_vk_layers_periodic() on a number not marked: it marks whatever it read.
VkLayers(k, p) ==
    \/ shown[p] = 1 /\ Warn(p) /\ Mark(k, p)
    \/ shown[p] = 0 /\ NoWarning /\ Mark(k, p)

Environ(k) ==
    /\ k \in pl /\ check \in EnvironChecks
    /\ \/ Known(k) /\ NoWarning /\ UNCHANGED table
       \/ ~Known(k) /\ check = "preload" /\ \E p \in Running(k) : Preload(k, p)
       \/ ~Known(k) /\ check = "vklayer" /\ \E p \in Running(k) : VkLayers(k, p)
    /\ pl' = pl \ {k}
    /\ UNCHANGED <<kernel, check, at>>

-----------------------------------------------------------------------------
WatchInit ==
    /\ life = [p \in Proc |-> "unborn"]
    /\ pidof = [p \in Proc |-> NULL]
    /\ listed = {}
    /\ check \in BaselineChecks \cup EnvironChecks
    /\ shown = [p \in Proc |-> 0]
    /\ table = [k \in {} |-> NULL]
    /\ at = "idle" /\ pl = {} /\ alert = NULL
    /\ warned = [p \in Proc |-> "never"]

Look(k) == Skip(k) \/ Baseline(k) \/ Environ(k)

WatchNext ==
    \/ \E p \in Proc :
         (\E k \in Pid : Spawn(p, k)) \/ Remap(p) \/ Exit(p) \/ Protect(p) \/ Unprotect(p)
    \/ List \/ Done
    \/ \E k \in Pid : Look(k)

WatchSpec == WatchInit /\ [][WatchNext]_watchVars

\* The daemon runs, and the timer of the check elapses again and again.
WatchFairSpec == WatchSpec /\ WF_watchVars(List \/ Done \/ \E k \in Pid : Look(k))

-----------------------------------------------------------------------------
\* Every variable keeps its type, and the table does not outgrow its slots.
WatchTypeOK ==
    /\ life \in [Proc -> {"unborn", "running", "gone"}]
    /\ pidof \in [Proc -> Pid \cup {NULL}]
    /\ listed \subseteq Proc
    /\ check \in BaselineChecks \cup EnvironChecks
    /\ shown \in [Proc -> Values]
    /\ DOMAIN table \subseteq Pid /\ Cardinality(DOMAIN table) <= AC_MAX_PROTS
    /\ \A k \in DOMAIN table : table[k] \in [count : 0 .. MaxCount, owner : Proc]
    /\ at \in {"idle", "busy"} /\ pl \subseteq Pid
    /\ at = "idle" => pl = {}
    /\ alert \in Proc \cup {NULL}
    /\ warned \in [Proc -> {"never", "once", "earlier", "twice"}]

\* No listed process goes unwatched for want of a slot: while a check runs, each
\* number it has yet to look at has an entry or will find a free one, because
\* the forgetting before the loop keeps the table within the registry's size.
\* Every variable has its type.
RoomForListed == WatchTypeOK /\ \A k \in pl : Known(k) \/ Room

\* The LD_PRELOAD and VK-layer warnings come at most once while a process stays
\* registered, however it executes other programs and numbers are reused
\* (preload_already_warned, vklayer_already_warned).
WarnedOnce == \A p \in Proc : warned[p] # "twice"

Grown(p) ==
    /\ check \in BaselineChecks
    /\ p \in listed /\ Known(pidof[p])
    /\ table[pidof[p]].owner = p
    /\ shown[p] > table[pidof[p]].count

\* Growth is never absorbed silently: when a watched process shows more than its
\* entry says, that stays so until a check logs it, unless the process itself
\* changes or the registry does.  No forgetting, no re-recording and no entry
\* of another process may hide it (anon_baseline_check).
GrowthNotAbsorbed ==
    [][\A p \in Proc : Grown(p) /\ UNCHANGED kernel => Grown(p)' \/ alert' = p]_watchVars

\* And the check gets to it: growth that stays is looked at.
GrowthIsSeen == \A p \in Proc : Grown(p) ~> ~Grown(p)

Unreported(p) ==
    /\ p \in listed /\ shown[p] = 1 /\ warned[p] = "never"
    /\ Known(pidof[p]) => table[pidof[p]].owner = p

\* A registered process that runs with LD_PRELOAD set is warned of, also when it
\* was registered before the execve() that set it, unless its number is still
\* marked for an earlier process (check_ld_preload_periodic).
PreloadIsReported ==
    \A p \in Proc : check = "preload" /\ Unreported(p) ~> ~Unreported(p)
=============================================================================
