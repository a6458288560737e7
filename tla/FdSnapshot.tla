----------------------------- MODULE FdSnapshot -----------------------------
(***************************************************************************)
(* The snapshots an open file of /dev/anticheat carries                    *)
(* (src/src/anticheat_module.c): ac_get_fd_state() allocates the state on   *)
(* the first BEGIN, SCAN_BEGIN and MODS_BEGIN build a snapshot in it, GET  *)
(* reads one entry and END drops the snapshot.  Threads that share the     *)
(* file issue them concurrently; the last close frees everything.          *)
(*                                                                         *)
(* The allocation is stepped through, because its fast path takes no lock. *)
(* What a thread does under st->lock is one step, which waits for nobody:  *)
(* no path holds the mutex across another.                                 *)
(***************************************************************************)
EXTENDS Integers, FiniteSets

CONSTANTS
    Thread,        \* threads that share the open file
    State,         \* addresses of struct ac_fd_state
    Buffer,        \* addresses of snapshot arrays
    Source,        \* what a snapshot is taken of (a process, the module list)
    Cap,           \* AC_MAX_VMAS, AC_MAX_MODS
    MaxLen,        \* longest list a source offers
    NULL

ASSUME SnapshotAssumption ==
    /\ Cap \in Nat \ {0} /\ MaxLen \in Nat
    /\ NULL \notin Thread \cup State \cup Buffer \cup Source
    /\ NULL \notin [of : Source, len : 0 .. Cap]

VARIABLES
    opened,          \* the file is open
    private_data,    \* the published state
    alloc_lock,      \* ac_fd_state_alloc_lock: the thread that holds it
    states,          \* states allocated and not freed
    buffers,         \* arrays allocated and not freed: address -> [of, len], or NULL
    snap,            \* state -> kind -> [arr, n, truncated]
    th,              \* thread -> [at, kind, of, st]
    last             \* history: kind -> the source of the last BEGIN that was not ended

snapshotVars == <<opened, private_data, alloc_lock, states, buffers, snap, th, last>>

Kind == {"vmas", "mods"}
NoSnap == [arr |-> NULL, n |-> 0, truncated |-> FALSE]
Zeroed == [k \in Kind |-> NoSnap]
Calm == [at |-> "user", kind |-> "vmas", of |-> NULL, st |-> NULL]

InUser(t) == opened /\ th[t].at = "user"

Goto(t, at) == th' = [th EXCEPT ![t].at = at]
Done(t) == th' = [th EXCEPT ![t] = Calm]

\* kvfree()
Freed(arr) == [b \in Buffer |-> IF b = arr THEN NULL ELSE buffers[b]]

-----------------------------------------------------------------------------
OpenFile ==
    /\ ~opened
    /\ opened' = TRUE
    /\ private_data' = NULL
    /\ UNCHANGED <<alloc_lock, states, buffers, snap, th, last>>

\* ac_get_fd_state(): the fast path sees a published state; the slow path
\* looks again under the lock.
BeginFast(t, kind, of) ==
    /\ InUser(t)
    /\ th' = [th EXCEPT ![t] = [Calm EXCEPT !.kind = kind, !.of = of, !.st = private_data,
                                !.at = IF private_data = NULL THEN "slow" ELSE "build"]]
    /\ UNCHANGED <<opened, private_data, alloc_lock, states, buffers, snap, last>>

SlowLock(t) ==
    /\ th[t].at = "slow"
    /\ alloc_lock = NULL
    /\ alloc_lock' = t
    /\ Goto(t, "recheck")
    /\ UNCHANGED <<opened, private_data, states, buffers, snap, last>>

SlowNoRecheck(t) ==   \* variant: the slow path does not look again under the lock
    /\ th[t].at = "recheck"
    /\ \E s \in State \ states :
          /\ states' = states \cup {s}
          /\ snap' = [snap EXCEPT ![s] = Zeroed]
          /\ th' = [th EXCEPT ![t].st = s, ![t].at = "publish"]
    /\ UNCHANGED <<opened, private_data, alloc_lock, buffers, last>>

\* kzalloc() may fail.
SlowRecheck(t) ==
    /\ th[t].at = "recheck"
    /\ \/ /\ private_data # NULL
          /\ th' = [th EXCEPT ![t].st = private_data, ![t].at = "unlock"]
          /\ UNCHANGED <<states, snap>>
       \/ /\ private_data = NULL
          /\ \E s \in State \ states :
                /\ states' = states \cup {s}
                /\ snap' = [snap EXCEPT ![s] = Zeroed]
                /\ th' = [th EXCEPT ![t].st = s, ![t].at = "publish"]
       \/ /\ private_data = NULL
          /\ Goto(t, "unlock")
          /\ UNCHANGED <<states, snap>>
    /\ UNCHANGED <<opened, private_data, alloc_lock, buffers, last>>

SlowPublish(t) ==
    /\ th[t].at = "publish"
    /\ private_data' = th[t].st
    /\ Goto(t, "unlock")
    /\ UNCHANGED <<opened, alloc_lock, states, buffers, snap, last>>

SlowUnlock(t) ==
    /\ th[t].at = "unlock"
    /\ alloc_lock' = NULL
    /\ \/ th[t].st # NULL /\ Goto(t, "build")
       \/ th[t].st = NULL /\ Done(t)
    /\ UNCHANGED <<opened, private_data, states, buffers, snap, last>>

-----------------------------------------------------------------------------
\* ac_build_vma_snapshot() and ac_build_mod_snapshot(): the old array goes
\* first, so a lookup or an allocation that fails leaves the snapshot empty.
BuildFails(t) ==
    LET st == th[t].st  k == th[t].kind
    IN  /\ th[t].at = "build"
        /\ buffers' = Freed(snap[st][k].arr)
        /\ snap' = [snap EXCEPT ![st][k] = NoSnap]
        /\ last' = [last EXCEPT ![k] = NULL]
        /\ Done(t)
        /\ UNCHANGED <<opened, private_data, alloc_lock, states>>

BuildFills(t) ==
    LET st == th[t].st  k == th[t].kind
    IN  /\ th[t].at = "build"
        /\ \E len \in 0 .. MaxLen, b \in Buffer :
              LET n == IF len < Cap THEN len ELSE Cap
              IN  /\ Freed(snap[st][k].arr)[b] = NULL
                  /\ buffers' = [Freed(snap[st][k].arr) EXCEPT ![b] = [of |-> th[t].of, len |-> n]]
                  /\ snap' = [snap EXCEPT ![st][k] =
                                 [arr |-> b, n |-> n, truncated |-> k = "vmas" /\ len > Cap]]
        /\ last' = [last EXCEPT ![k] = th[t].of]
        /\ Done(t)
        /\ UNCHANGED <<opened, private_data, alloc_lock, states>>

\* SCAN_GET and MODS_GET: the entry is copied to the stack under the lock, and
\* to user space after it.
Get(t, kind, index) ==
    LET s == snap[private_data][kind]
    IN  /\ InUser(t)
        /\ private_data # NULL
        /\ index < s.n
        /\ Goto(t, "copy")
        /\ UNCHANGED <<opened, private_data, alloc_lock, states, buffers, snap, last>>

Copy(t) ==
    /\ th[t].at = "copy"
    /\ Done(t)
    /\ UNCHANGED <<opened, private_data, alloc_lock, states, buffers, snap, last>>

EndKeepsCount(t, kind) ==   \* variant: END frees the array and keeps the count
    /\ InUser(t)
    /\ private_data # NULL
    /\ buffers' = Freed(snap[private_data][kind].arr)
    /\ snap' = [snap EXCEPT ![private_data][kind].arr = NULL]
    /\ last' = [last EXCEPT ![kind] = NULL]
    /\ UNCHANGED <<opened, private_data, alloc_lock, states, th>>

\* SCAN_END and MODS_END
End(t, kind) ==
    /\ InUser(t)
    /\ private_data # NULL
    /\ buffers' = Freed(snap[private_data][kind].arr)
    /\ snap' = [snap EXCEPT ![private_data][kind].arr = NULL, ![private_data][kind].n = 0]
    /\ last' = [last EXCEPT ![kind] = NULL]
    /\ UNCHANGED <<opened, private_data, alloc_lock, states, th>>

\* ac_release(), once no thread is inside an ioctl on the file.  What freed
\* memory holds does not matter: kzalloc() zeroes it again.
ReleaseFile ==
    /\ opened
    /\ \A t \in Thread : th[t].at = "user"
    /\ opened' = FALSE
    /\ private_data' = NULL
    /\ states' = states \ {private_data}
    /\ buffers' = [b \in Buffer |->
                     IF private_data # NULL /\ \E k \in Kind : snap[private_data][k].arr = b
                     THEN NULL ELSE buffers[b]]
    /\ snap' = [s \in State |-> IF s = private_data THEN Zeroed ELSE snap[s]]
    /\ last' = [k \in Kind |-> NULL]
    /\ UNCHANGED <<alloc_lock, th>>

-----------------------------------------------------------------------------
SnapshotInit ==
    /\ opened = FALSE
    /\ private_data = NULL /\ alloc_lock = NULL
    /\ states = {}
    /\ buffers = [b \in Buffer |-> NULL]
    /\ snap = [s \in State |-> Zeroed]
    /\ th = [t \in Thread |-> Calm]
    /\ last = [k \in Kind |-> NULL]

Begin(t) ==
    \/ \E kind \in Kind, of \in Source : BeginFast(t, kind, of)
    \/ SlowLock(t) \/ SlowRecheck(t) \/ SlowPublish(t) \/ SlowUnlock(t)
    \/ BuildFails(t) \/ BuildFills(t)

SnapshotNext ==
    \/ OpenFile \/ ReleaseFile
    \/ \E t \in Thread :
         \/ Begin(t) \/ Copy(t)
         \/ \E kind \in Kind : End(t, kind) \/ \E i \in 0 .. Cap - 1 : Get(t, kind, i)

SnapshotSpec == SnapshotInit /\ [][SnapshotNext]_snapshotVars

-----------------------------------------------------------------------------
\* Every variable keeps its type; no snapshot is longer than its array.
SnapshotTypeOK ==
    /\ opened \in BOOLEAN
    /\ private_data \in states \cup {NULL}
    /\ alloc_lock \in Thread \cup {NULL}
    /\ states \subseteq State
    /\ buffers \in [Buffer -> [of : Source, len : 0 .. Cap] \cup {NULL}]
    /\ snap \in [State -> [Kind -> [arr : Buffer \cup {NULL}, n : 0 .. Cap,
                                   truncated : BOOLEAN]]]
    /\ th \in [Thread -> [at : {"user", "slow", "recheck", "publish", "unlock", "build", "copy"},
                          kind : Kind, of : Source \cup {NULL}, st : State \cup {NULL}]]
    /\ last \in [Kind -> Source \cup {NULL}]

\* The array of every snapshot of the file is allocated and holds as many
\* entries as n says, so an index that GET accepts is inside the array whatever
\* BEGIN or END of another thread ran in between; and what GET reads is of the
\* source of the last BEGIN that completed.  Every variable has its type.
GetReadsLastBegin ==
    /\ SnapshotTypeOK
    /\ private_data # NULL =>
        \A k \in Kind :
            LET s == snap[private_data][k]
            IN  IF s.arr = NULL THEN s.n = 0
                ELSE buffers[s.arr] # NULL /\ buffers[s.arr].len = s.n
    /\ \A k \in Kind :
        last[k] # NULL =>
            /\ private_data # NULL
            /\ snap[private_data][k].arr # NULL
            /\ buffers[snap[private_data][k].arr].of = last[k]

\* Nothing leaks: a state that is allocated is the file's, or is about to be
\* published by the thread that holds the allocation lock; an array that is
\* allocated hangs off the file's state.  Racing first BEGINs share one state.
AllReachable ==
    /\ \A s \in states :
          s = private_data \/ \E t \in Thread : alloc_lock = t /\ th[t].at = "publish" /\ th[t].st = s
    /\ \A b \in Buffer :
          buffers[b] # NULL =>
              private_data # NULL /\ \E k \in Kind : snap[private_data][k].arr = b

\* The inductive invariant behind the two: who holds the allocation lock and what
\* each thread knows of the state it works on.  The two arrays of a state differ.
ThreadsKnow ==
    /\ alloc_lock # NULL => th[alloc_lock].at \in {"recheck", "publish", "unlock"}
    /\ \A t \in Thread :
         /\ th[t].at \in {"recheck", "publish", "unlock"} => alloc_lock = t
         /\ th[t].at \in {"slow", "recheck"} => th[t].st = NULL
         /\ th[t].at = "publish" =>
              private_data = NULL /\ th[t].st \in states /\ snap[th[t].st] = Zeroed
         /\ th[t].at = "unlock" => th[t].st \in {private_data, NULL}
         /\ th[t].at = "build" => th[t].st = private_data /\ private_data # NULL
         /\ th[t].at \in {"slow", "recheck", "publish", "unlock", "build"} => th[t].of \in Source

SnapshotInv ==
    /\ GetReadsLastBegin
    /\ AllReachable
    /\ ThreadsKnow
    /\ ~opened => private_data = NULL /\ \A t \in Thread : th[t].at = "user"
    /\ private_data # NULL => \A k, l \in Kind :
          k # l /\ snap[private_data][k].arr # NULL => snap[private_data][k].arr # snap[private_data][l].arr
=============================================================================
