----------------------------- MODULE EventQueue -----------------------------
(***************************************************************************)
(* What the kernel module promises of its event channel, without slots or  *)
(* indices: a bounded FIFO queue that gives up its OLDEST event when a new *)
(* one arrives at a full queue, counts what it gave up, and hands its      *)
(* oldest events to a caller in batches of bounded size.  EventRing shows  *)
(* that the ring buffer of src/src/anticheat_module.c implements this.     *)
(***************************************************************************)
EXTENDS Integers, Sequences

CONSTANTS Capacity,    \* events the queue can hold
          BatchSize,   \* events one call may take
          Callers,     \* threads that take events
          Events       \* what may be put

VARIABLES queue,     \* pending events, oldest first
          given_up,  \* number of events lost to the bound
          batch      \* what each caller took in its current call

qvars == <<queue, given_up, batch>>

Smaller(m, n) == IF m <= n THEN m ELSE n

Init ==
    /\ queue = <<>>
    /\ given_up = 0
    /\ batch = [c \in Callers |-> <<>>]

PutFree(e) ==
    /\ Len(queue) < Capacity
    /\ queue' = Append(queue, e)
    /\ UNCHANGED <<given_up, batch>>

PutFull(e) ==
    /\ Len(queue) = Capacity
    /\ queue' = Append(Tail(queue), e)
    /\ given_up' = given_up + 1
    /\ UNCHANGED batch

Take(c) ==
    LET n == Smaller(Len(queue), BatchSize)
    IN  /\ batch' = [batch EXCEPT ![c] = SubSeq(queue, 1, n)]
        /\ queue' = SubSeq(queue, n + 1, Len(queue))
        /\ UNCHANGED given_up

Return(c) ==
    /\ batch' = [batch EXCEPT ![c] = <<>>]
    /\ UNCHANGED <<queue, given_up>>

Discard ==
    /\ queue' = <<>>
    /\ UNCHANGED <<given_up, batch>>

Next ==
    \/ \E e \in Events : PutFree(e) \/ PutFull(e)
    \/ \E c \in Callers : Take(c) \/ Return(c)
    \/ Discard

Spec == Init /\ [][Next]_qvars

=============================================================================
