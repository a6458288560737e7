------------------------------ MODULE EventRing ------------------------------
(***************************************************************************)
(* The kernel event ring of src/src/anticheat_module.c: ac_emit(),         *)
(* ac_drain_events() and the two ioctls that drain it, GET_EVENTS and      *)
(* FLUSH_EVENTS.  ac_emit() and ac_drain_events() run entirely under       *)
(* ac_ring_lock, so each is one step; GET_EVENTS is two steps, because the *)
(* drained batch sits in a heap buffer that copy_to_user() may fail to     *)
(* deliver after the lock is released.                                     *)
(*                                                                         *)
(* An event is named by its emission number: event n is the n-th call of   *)
(* ac_emit() since the module was loaded.  0 is a slot never written.      *)
(* The early returns that change nothing (EPERM for a caller without       *)
(* CAP_SYS_ADMIN, ENOMEM when the batch cannot be allocated) are           *)
(* stuttering steps.                                                       *)
(***************************************************************************)
EXTENDS Integers, Sequences, FiniteSets

CONSTANTS AC_RING_SIZE,    \* slots of the ring
          AC_MAX_EVENTS,   \* events one GET_EVENTS returns
          UINT,            \* 2^32: ac_dropped is an unsigned int
          Callers,         \* threads that may be inside GET_EVENTS at once
          MaxEmit          \* bound: calls of ac_emit() explored

ASSUME RingAssumption ==
    /\ AC_RING_SIZE \in Nat \ {0}
    /\ AC_MAX_EVENTS \in Nat \ {0}
    /\ UINT \in Nat \ {0}
    /\ MaxEmit \in Nat

VARIABLES
    ac_ring,         \* slot -> event
    ac_ring_head,    \* slot the next event is written to
    ac_ring_tail,    \* slot of the oldest pending event
    ac_ring_count,   \* pending events
    ac_dropped,      \* events overwritten, as the code counts them
    el,              \* caller -> the batch its GET_EVENTS holds
    emitted,         \* history: calls of ac_emit() so far
    overwritten,     \* history: events overwritten, unbounded
    seen,            \* history: events some caller received
    lost             \* history: events drained and never received

ring_vars == <<ac_ring, ac_ring_head, ac_ring_tail, ac_ring_count, ac_dropped>>
vars == <<ring_vars, el, emitted, overwritten, seen, lost>>

Slots == 0 .. AC_RING_SIZE - 1

Idle == [live |-> FALSE, events |-> <<>>, dropped |-> 0]

\* Number of events a drain removes: the while loop of ac_drain_events() stops
\* at an empty ring or, for GET_EVENTS, at a full batch.
DrainLength(bounded) ==
    IF bounded /\ AC_MAX_EVENTS < ac_ring_count THEN AC_MAX_EVENTS ELSE ac_ring_count

\* The n oldest events, in the order the drain loop copies them.
Oldest(n) == [i \in 1 .. n |-> ac_ring[(ac_ring_tail + i - 1) % AC_RING_SIZE]]

Pending == Oldest(ac_ring_count)

ToSet(s) == {s[i] : i \in DOMAIN s}

Init ==
    /\ ac_ring = [i \in Slots |-> 0]
    /\ ac_ring_head = 0
    /\ ac_ring_tail = 0
    /\ ac_ring_count = 0
    /\ ac_dropped = 0
    /\ el = [c \in Callers |-> Idle]
    /\ emitted = 0
    /\ overwritten = 0
    /\ seen = {}
    /\ lost = {}

\* What both paths of ac_emit() do once there is room: write at head, advance.
WriteAtHead ==
    /\ ac_ring' = [ac_ring EXCEPT ![ac_ring_head] = emitted + 1]
    /\ ac_ring_head' = (ac_ring_head + 1) % AC_RING_SIZE
    /\ emitted' = emitted + 1

\* ac_emit() with a free slot.
EmitFree ==
    /\ emitted < MaxEmit
    /\ ac_ring_count < AC_RING_SIZE
    /\ WriteAtHead
    /\ ac_ring_count' = ac_ring_count + 1
    /\ UNCHANGED <<ac_ring_tail, ac_dropped, el, overwritten, seen, lost>>

EmitFullKeepTail ==   \* variant: the tail does not move past the event given up
    /\ emitted < MaxEmit
    /\ ac_ring_count >= AC_RING_SIZE
    /\ ac_dropped' = (ac_dropped + 1) % UINT
    /\ overwritten' = overwritten + 1
    /\ WriteAtHead
    /\ UNCHANGED <<ac_ring_tail, ac_ring_count, el, seen, lost>>

EmitFullUncounted ==   \* variant: the event given up is not counted
    /\ emitted < MaxEmit
    /\ ac_ring_count >= AC_RING_SIZE
    /\ ac_ring_tail' = (ac_ring_tail + 1) % AC_RING_SIZE
    /\ overwritten' = overwritten + 1
    /\ WriteAtHead
    /\ UNCHANGED <<ac_dropped, ac_ring_count, el, seen, lost>>

\* ac_emit() on a full ring: the oldest event is given up and counted first.
EmitFull ==
    /\ emitted < MaxEmit
    /\ ac_ring_count >= AC_RING_SIZE
    /\ ac_ring_tail' = (ac_ring_tail + 1) % AC_RING_SIZE
    /\ ac_dropped' = (ac_dropped + 1) % UINT
    /\ overwritten' = overwritten + 1
    /\ ac_ring_count' = (ac_ring_count - 1) + 1
    /\ WriteAtHead
    /\ UNCHANGED <<el, seen, lost>>

\* The state change of ac_drain_events() that frees the n oldest slots.
Drop(n) ==
    /\ ac_ring_tail' = (ac_ring_tail + n) % AC_RING_SIZE
    /\ ac_ring_count' = ac_ring_count - n

\* GET_EVENTS up to the unlock of ac_drain_events().
GetEvents(c) ==
    LET n == DrainLength(TRUE)
    IN  /\ ~el[c].live
        /\ el' = [el EXCEPT ![c] =
                    [live |-> TRUE, events |-> Oldest(n), dropped |-> ac_dropped]]
        /\ Drop(n)
        /\ UNCHANGED <<ac_ring, ac_ring_head, ac_dropped, emitted, overwritten, seen, lost>>

\* GET_EVENTS after the unlock, copy_to_user() succeeding.
CopyToUser(c) ==
    /\ el[c].live
    /\ seen' = seen \cup ToSet(el[c].events)
    /\ el' = [el EXCEPT ![c] = Idle]
    /\ UNCHANGED <<ring_vars, emitted, overwritten, lost>>

\* GET_EVENTS after the unlock, copy_to_user() failing: EFAULT, batch freed.
CopyFault(c) ==
    /\ el[c].live
    /\ lost' = lost \cup ToSet(el[c].events)
    /\ el' = [el EXCEPT ![c] = Idle]
    /\ UNCHANGED <<ring_vars, emitted, overwritten, seen>>

\* FLUSH_EVENTS: ac_drain_events(NULL) empties the ring.
FlushEvents ==
    /\ ac_ring_count > 0
    /\ lost' = lost \cup ToSet(Pending)
    /\ Drop(DrainLength(FALSE))
    /\ UNCHANGED <<ac_ring, ac_ring_head, ac_dropped, el, emitted, overwritten, seen>>

Next ==
    \/ EmitFree
    \/ EmitFull
    \/ \E c \in Callers : GetEvents(c) \/ CopyToUser(c) \/ CopyFault(c)
    \/ FlushEvents

Spec == Init /\ [][Next]_vars

-----------------------------------------------------------------------------
Batch == [live : BOOLEAN, events : Seq(Nat), dropped : 0 .. UINT - 1]

\* Type invariant: indices stay inside the ring, counters inside their width.
TypeOK ==
    /\ ac_ring \in [Slots -> Nat]
    /\ ac_ring_head \in Slots
    /\ ac_ring_tail \in Slots
    /\ ac_ring_count \in 0 .. AC_RING_SIZE
    /\ ac_dropped \in 0 .. UINT - 1
    /\ el \in [Callers -> Batch]
    /\ emitted \in 0 .. MaxEmit
    /\ overwritten \in Nat
    /\ seen \subseteq 1 .. emitted
    /\ lost \subseteq 1 .. emitted

\* The ring holds exactly the most recent ac_ring_count emissions, oldest at
\* tail, with head one past the newest: however emits, overwrites, drains and
\* flushes interleave, ac_emit() never overwrites an event it has not counted
\* as dropped and a drain never reads a slot that was not written.
FreshestKept ==
    /\ ac_ring_head = (ac_ring_tail + ac_ring_count) % AC_RING_SIZE
    /\ \A i \in 1 .. ac_ring_count : Pending[i] = emitted - ac_ring_count + i

InFlight == UNION {ToSet(el[c].events) : c \in Callers}

\* Everything drained so far.
Drained == seen \cup lost \cup InFlight

\* Nothing is lost silently: the events neither pending, nor in some caller's
\* batch, nor received, nor discarded by FLUSH_EVENTS or a failed copy are as
\* many as the module overwrote, and ac_dropped is that number modulo 2^32.
DropsAccounted ==
    /\ emitted = Cardinality(Drained) + ac_ring_count + overwritten
    /\ ac_dropped = overwritten % UINT

\* A batch has no holes: between two events of one GET_EVENTS no third was
\* dropped or given to another caller, so a gap can only lie between batches,
\* where the reported drop counter changes.
BatchContiguous ==
    \A c \in Callers : \A i \in 1 .. Len(el[c].events) - 1 :
        el[c].events[i + 1] = el[c].events[i] + 1

\* The inductive invariant behind the properties above: what was drained is
\* older than everything pending, and an idle caller holds nothing.
RingInv ==
    /\ TypeOK
    /\ FreshestKept
    /\ ac_ring_count <= emitted
    /\ Drained \subseteq 1 .. emitted - ac_ring_count
    /\ DropsAccounted
    /\ BatchContiguous
    /\ \A c \in Callers : ~el[c].live => el[c] = Idle

\* The drop-oldest queue the ring implements.
Q == INSTANCE EventQueue WITH
        Capacity <- AC_RING_SIZE, BatchSize <- AC_MAX_EVENTS,
        Events <- 1 .. MaxEmit, queue <- Pending, given_up <- overwritten,
        batch <- [c \in Callers |-> el[c].events]

\* Refinement: every step of the ring is a step of the bounded queue that
\* loses its oldest event when full, or changes nothing the queue shows.
ImplementsQueue == Q!Spec
=============================================================================
