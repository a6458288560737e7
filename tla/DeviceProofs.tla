---------------------------- MODULE DeviceProofs ----------------------------
(***************************************************************************)
(* The event ring and the references of the module, for every size, batch, *)
(* counter width and number of callers, clients, CPUs, tasks and pins.     *)
(***************************************************************************)
EXTENDS EventRing, ModuleLifecycle, FiniteSetTheorems, TLAPS

-----------------------------------------------------------------------------
(* Sequences                                                                 *)
\* Sequences with the same entries are equal.
LEMMA SameEntries ==
  ASSUME NEW S, NEW s \in Seq(S), NEW t \in Seq(S), Len(s) = Len(t),
         \A i \in 1 .. Len(s) : s[i] = t[i]
  PROVE  s = t
OBVIOUS

\* The sequence of length zero.
LEMMA NoEntries ==
  ASSUME NEW S
  PROVE  << >> \in Seq(S) /\ \A s \in Seq(S) : s = << >> <=> Len(s) = 0
OBVIOUS

\* What is left when the first entry is taken.
LEMMA TailEntries ==
  ASSUME NEW S, NEW s \in Seq(S), s # << >>
  PROVE  /\ Tail(s) \in Seq(S) /\ Len(Tail(s)) = Len(s) - 1
         /\ \A i \in 1 .. Len(Tail(s)) : Tail(s)[i] = s[i + 1]
OBVIOUS

\* A sequence with one entry more.
LEMMA AppendEntries ==
  ASSUME NEW S, NEW s \in Seq(S), NEW e \in S
  PROVE  /\ Append(s, e) \in Seq(S) /\ Len(Append(s, e)) = Len(s) + 1
         /\ \A i \in 1 .. Len(s) : Append(s, e)[i] = s[i]
         /\ Append(s, e)[Len(s) + 1] = e
OBVIOUS

-----------------------------------------------------------------------------
(* EventRing, for every ring size, batch size, counter width and set of callers *)
\* Advancing an index of the ring by at most one full turn.
LEMMA ModWrap ==
    ASSUME NEW a \in Slots, NEW b \in 0 .. AC_RING_SIZE
    PROVE  (a + b) % AC_RING_SIZE
             = IF a + b < AC_RING_SIZE THEN a + b ELSE a + b - AC_RING_SIZE
BY RingAssumption DEF Slots

\* One slot further.
LEMMA NextSlot ==
    ASSUME NEW a \in Slots
    PROVE  (a + 1) % AC_RING_SIZE = IF a + 1 < AC_RING_SIZE THEN a + 1 ELSE 0
<1>1. 1 \in 0 .. AC_RING_SIZE
  BY RingAssumption
<1>2. (a + 1) % AC_RING_SIZE
        = IF a + 1 < AC_RING_SIZE THEN a + 1 ELSE a + 1 - AC_RING_SIZE
  BY <1>1, ModWrap
<1> QED BY <1>2, RingAssumption DEF Slots

\* A full turn leads back to the same slot.
LEMMA FullTurn ==
    ASSUME NEW a \in Slots
    PROVE  (a + AC_RING_SIZE) % AC_RING_SIZE = a
<1>1. AC_RING_SIZE \in 0 .. AC_RING_SIZE
  BY RingAssumption
<1>2. (a + AC_RING_SIZE) % AC_RING_SIZE
        = IF a + AC_RING_SIZE < AC_RING_SIZE THEN a + AC_RING_SIZE
          ELSE a + AC_RING_SIZE - AC_RING_SIZE
  BY <1>1, ModWrap
<1> QED BY <1>2, RingAssumption DEF Slots

\* A wrapped index is an index.
LEMMA ModSlot ==
    ASSUME NEW a \in Nat
    PROVE  a % AC_RING_SIZE \in Slots
BY RingAssumption DEF Slots

\* A counter that wraps at 2^32 agrees with the unbounded one modulo 2^32.
LEMMA CountWrap ==
    ASSUME NEW a \in Nat
    PROVE  ((a % UINT) + 1) % UINT = (a + 1) % UINT
<1> DEFINE q == a \div UINT
           r == a % UINT
<1>1. q \in Nat /\ r \in 0 .. UINT - 1 /\ a = UINT * q + r
  BY RingAssumption
<1>2. CASE r + 1 < UINT
  <2>1. a + 1 = UINT * q + (r + 1) /\ r + 1 \in 0 .. UINT - 1
    BY <1>1, <1>2, RingAssumption
  <2>2. (a + 1) % UINT = r + 1
    BY <1>1, <2>1, RingAssumption
  <2>3. (r + 1) % UINT = r + 1
    BY <2>1, RingAssumption
  <2> QED BY <2>2, <2>3
<1>3. CASE r + 1 = UINT
  <2>1. a + 1 = UINT * (q + 1) + 0
    BY <1>1, <1>3, RingAssumption
  <2>2. (a + 1) % UINT = 0
    <3> DEFINE t == (a + 1) \div UINT
               s == (a + 1) % UINT
    <3>1. t \in Nat /\ s \in 0 .. UINT - 1 /\ a + 1 = UINT * t + s
      BY RingAssumption
    <3>2. t <= q => UINT * t <= UINT * q
      BY <1>1, <3>1, RingAssumption
    <3>3. t >= q + 1 => UINT * t >= UINT * (q + 1)
      BY <1>1, <3>1, RingAssumption
    <3>4. UINT * (q + 1) = UINT * q + UINT
      BY <1>1, RingAssumption
    <3>5. UINT * t \in Int /\ UINT * q \in Int
      BY <1>1, <3>1, RingAssumption
    <3> HIDE DEF t, s, q
    <3>6. s = 0
      BY <1>1, <2>1, <3>1, <3>2, <3>3, <3>4, <3>5, RingAssumption
    <3> QED BY <3>6 DEF s
  <2>3. (r + 1) % UINT = 0
    BY <1>3, RingAssumption
  <2> QED BY <2>2, <2>3
<1> QED BY <1>1, <1>2, <1>3, RingAssumption

-----------------------------------------------------------------------------
\* A drain never asks for more than is pending.
LEMMA DrainBound ==
    ASSUME TypeOK, NEW b \in BOOLEAN
    PROVE  DrainLength(b) \in 0 .. ac_ring_count
BY RingAssumption DEF TypeOK, DrainLength

\* What a drain copies is a sequence of events.
LEMMA OldestType ==
    ASSUME TypeOK, NEW n \in 0 .. ac_ring_count
    PROVE  /\ Oldest(n) \in Seq(Nat)
           /\ Len(Oldest(n)) = n
           /\ DOMAIN Oldest(n) = 1 .. n
<1>1. \A i \in 1 .. n : ac_ring[(ac_ring_tail + i - 1) % AC_RING_SIZE] \in Nat
  <2>1. SUFFICES ASSUME NEW i \in 1 .. n
                 PROVE  ac_ring[(ac_ring_tail + i - 1) % AC_RING_SIZE] \in Nat
    OBVIOUS
  <2>2. ac_ring_tail + i - 1 \in Nat
    BY RingAssumption DEF TypeOK, Slots
  <2>3. (ac_ring_tail + i - 1) % AC_RING_SIZE \in Slots
    BY <2>2, ModSlot
  <2> QED BY <2>3 DEF TypeOK
<1>2. n \in Nat
  BY DEF TypeOK
<1> QED BY <1>1, <1>2 DEF Oldest
-----------------------------------------------------------------------------
(***************************************************************************)
(* RingInv is inductive.  One lemma per action of ac_emit() and of the two *)
(* draining ioctls.                                                        *)
(***************************************************************************)
LEMMA InitInv == Init => RingInv
<1> SUFFICES ASSUME Init PROVE RingInv
  OBVIOUS
<1>1. TypeOK
  BY RingAssumption DEF Init, TypeOK, Slots, Batch, Idle
<1>2. FreshestKept
  BY RingAssumption DEF Init, FreshestKept, Slots
<1>3. Drained = {}
  BY DEF Init, Drained, InFlight, ToSet, Idle
<1>4. DropsAccounted
  BY <1>3, FS_EmptySet, RingAssumption DEF Init, DropsAccounted
<1>5. BatchContiguous
  BY DEF Init, BatchContiguous, Idle
<1> QED BY <1>1, <1>2, <1>3, <1>4, <1>5 DEF RingInv, Init

\* What was drained is a finite set.
LEMMA DrainedFinite ==
    ASSUME RingInv
    PROVE  IsFiniteSet(Drained) /\ Cardinality(Drained) \in Nat
<1>1. emitted - ac_ring_count \in Int
  BY DEF RingInv, TypeOK
<1>2. IsFiniteSet(1 .. emitted - ac_ring_count)
  BY <1>1, FS_Interval
<1> QED BY <1>2, FS_Subset, FS_CardinalityType, Zenon DEF RingInv

\* The slot of the i-th pending event, without the remainder.
LEMMA SlotOf ==
    ASSUME TypeOK, NEW i \in 1 .. AC_RING_SIZE
    PROVE  (ac_ring_tail + i - 1) % AC_RING_SIZE
             = IF ac_ring_tail + i - 1 < AC_RING_SIZE
               THEN ac_ring_tail + i - 1 ELSE ac_ring_tail + i - 1 - AC_RING_SIZE
<1>1. i - 1 \in 0 .. AC_RING_SIZE /\ ac_ring_tail + i - 1 = ac_ring_tail + (i - 1)
  BY RingAssumption DEF TypeOK, Slots
<1> QED BY <1>1, ModWrap DEF TypeOK

\* The slots a write at head leaves alone are the pending ones.
LEMMA EmitFreeInv == RingInv /\ EmitFree => RingInv'
<1> SUFFICES ASSUME RingInv, EmitFree PROVE RingInv'
  OBVIOUS
<1>0. ac_ring_head \in Nat /\ ac_ring_head + 1 \in Nat
  BY RingAssumption DEF TypeOK, Slots, RingInv
<1>1. TypeOK'
  <2>1. ac_ring_head' \in Slots
    BY <1>0, ModSlot DEF EmitFree, WriteAtHead
  <2>2. ac_ring' \in [Slots -> Nat]
    BY DEF EmitFree, WriteAtHead, TypeOK, RingInv
  <2>3. emitted' \in 0 .. MaxEmit /\ ac_ring_count' \in 0 .. AC_RING_SIZE
    BY RingAssumption DEF EmitFree, WriteAtHead, TypeOK, RingInv
  <2>4. seen' \subseteq 1 .. emitted' /\ lost' \subseteq 1 .. emitted'
    BY DEF EmitFree, WriteAtHead, TypeOK, RingInv
  <2> QED BY <2>1, <2>2, <2>3, <2>4 DEF EmitFree, TypeOK, RingInv
<1>2. FreshestKept'
  <2>1. ac_ring_head' = (ac_ring_tail' + ac_ring_count') % AC_RING_SIZE
    <3>1. (ac_ring_head + 1) % AC_RING_SIZE
            = IF ac_ring_head + 1 < AC_RING_SIZE THEN ac_ring_head + 1 ELSE 0
      BY NextSlot DEF TypeOK, RingInv
    <3>2. ac_ring_head = IF ac_ring_tail + ac_ring_count < AC_RING_SIZE
              THEN ac_ring_tail + ac_ring_count
              ELSE ac_ring_tail + ac_ring_count - AC_RING_SIZE
      BY ModWrap, RingAssumption, Zenon DEF TypeOK, FreshestKept, RingInv
    <3>3. (ac_ring_tail + (ac_ring_count + 1)) % AC_RING_SIZE
            = IF ac_ring_tail + (ac_ring_count + 1) < AC_RING_SIZE
              THEN ac_ring_tail + (ac_ring_count + 1)
              ELSE ac_ring_tail + (ac_ring_count + 1) - AC_RING_SIZE
      BY ModWrap, RingAssumption DEF TypeOK, EmitFree, RingInv
    <3>4. ac_ring_head' = (ac_ring_tail + (ac_ring_count + 1)) % AC_RING_SIZE
      BY <3>1, <3>2, <3>3, RingAssumption DEF TypeOK, Slots, EmitFree, WriteAtHead, RingInv
    <3> QED BY <3>4 DEF EmitFree
  <2>2. ASSUME NEW i \in 1 .. ac_ring_count'
        PROVE  Pending'[i] = emitted' - ac_ring_count' + i
    <3> DEFINE k == (ac_ring_tail + i - 1) % AC_RING_SIZE
    <3>1. Pending'[i] = ac_ring'[k]
      BY DEF Pending, Oldest, EmitFree
    <3>2. k = IF ac_ring_tail + i - 1 < AC_RING_SIZE
              THEN ac_ring_tail + i - 1 ELSE ac_ring_tail + i - 1 - AC_RING_SIZE
      BY SlotOf, RingAssumption DEF TypeOK, EmitFree, RingInv
    <3>3. ac_ring_head = IF ac_ring_tail + ac_ring_count < AC_RING_SIZE
              THEN ac_ring_tail + ac_ring_count
              ELSE ac_ring_tail + ac_ring_count - AC_RING_SIZE
      BY ModWrap, RingAssumption, Zenon DEF TypeOK, FreshestKept, RingInv
    <3> HIDE DEF k
    <3>4. CASE i <= ac_ring_count
      <4>1. k # ac_ring_head /\ k \in Slots
        BY <3>2, <3>3, <3>4, RingAssumption DEF TypeOK, Slots, EmitFree, RingInv
      <4>2. ac_ring'[k] = ac_ring[k]
        BY <4>1 DEF EmitFree, WriteAtHead, TypeOK, RingInv
      <4>3. ac_ring[k] = emitted - ac_ring_count + i
        BY <3>4 DEF FreshestKept, Pending, Oldest, TypeOK, k, RingInv
      <4> QED BY <3>1, <4>2, <4>3 DEF EmitFree, WriteAtHead, TypeOK, RingInv
    <3>5. CASE i = ac_ring_count + 1
      <4>1. k = ac_ring_head
        BY <3>2, <3>3, <3>5, RingAssumption DEF TypeOK, Slots, RingInv
      <4> QED BY <3>1, <3>5, <4>1 DEF EmitFree, WriteAtHead, TypeOK, RingInv
    <3> QED BY <3>4, <3>5 DEF EmitFree, TypeOK, RingInv
  <2> QED BY <2>1, <2>2 DEF FreshestKept, RingInv
<1>3. Drained' = Drained
  BY DEF EmitFree, Drained, InFlight, ToSet, RingInv
<1>4. DropsAccounted'
  <2>1. Cardinality(Drained) \in Int
    BY DrainedFinite
  <2> QED BY <1>3, <2>1 DEF DropsAccounted, EmitFree, WriteAtHead, TypeOK, RingInv
<1>5. BatchContiguous'
  BY DEF BatchContiguous, EmitFree, RingInv
<1> QED BY <1>1, <1>2, <1>3, <1>4, <1>5 DEF EmitFree, WriteAtHead, TypeOK, RingInv

\* Overwriting the oldest event keeps the invariant.
LEMMA EmitFullInv == RingInv /\ EmitFull => RingInv'
<1> SUFFICES ASSUME RingInv, EmitFull PROVE RingInv'
  OBVIOUS
<1>0. /\ ac_ring_count = AC_RING_SIZE
      /\ ac_ring_count' = AC_RING_SIZE
      /\ ac_ring_head = ac_ring_tail
      /\ ac_ring_head' = ac_ring_tail'
      /\ ac_ring_tail' = IF ac_ring_tail + 1 < AC_RING_SIZE THEN ac_ring_tail + 1 ELSE 0
  <2>1. ac_ring_count = AC_RING_SIZE /\ ac_ring_count' = AC_RING_SIZE
    BY RingAssumption DEF EmitFull, TypeOK, RingInv
  <2>2. ac_ring_head = ac_ring_tail
    BY <2>1, FullTurn DEF FreshestKept, TypeOK, RingInv
  <2>3. ac_ring_tail' = IF ac_ring_tail + 1 < AC_RING_SIZE THEN ac_ring_tail + 1 ELSE 0
    BY NextSlot DEF EmitFull, TypeOK, RingInv
  <2> QED BY <2>1, <2>2, <2>3 DEF EmitFull, WriteAtHead
<1>1. TypeOK'
  <2>1. ac_ring_tail' \in Slots /\ ac_ring_head' \in Slots
    BY <1>0, RingAssumption DEF TypeOK, Slots, RingInv
  <2>2. ac_ring' \in [Slots -> Nat]
    BY DEF EmitFull, WriteAtHead, TypeOK, RingInv
  <2>3. emitted' \in 0 .. MaxEmit /\ ac_ring_count' \in 0 .. AC_RING_SIZE
    BY <1>0, RingAssumption DEF EmitFull, WriteAtHead, TypeOK, RingInv
  <2>4. seen' \subseteq 1 .. emitted' /\ lost' \subseteq 1 .. emitted'
    BY DEF EmitFull, WriteAtHead, TypeOK, RingInv
  <2>5. ac_dropped' \in 0 .. UINT - 1 /\ overwritten' \in Nat
    BY RingAssumption DEF EmitFull, TypeOK, RingInv
  <2> QED BY <2>1, <2>2, <2>3, <2>4, <2>5 DEF EmitFull, TypeOK, RingInv
<1>2. FreshestKept'
  <2>1. ac_ring_head' = (ac_ring_tail' + ac_ring_count') % AC_RING_SIZE
    BY <1>0, <1>1, FullTurn DEF TypeOK, RingInv
  <2>2. ASSUME NEW i \in 1 .. ac_ring_count'
        PROVE  Pending'[i] = emitted' - ac_ring_count' + i
    <3> DEFINE k == (ac_ring_tail' + i - 1) % AC_RING_SIZE
               j == (ac_ring_tail + (i + 1) - 1) % AC_RING_SIZE
    <3>1. Pending'[i] = ac_ring'[k]
      BY DEF Pending, Oldest
    <3>2. i \in 1 .. AC_RING_SIZE
      BY <1>0
    <3>3. k = IF ac_ring_tail' + i - 1 < AC_RING_SIZE
              THEN ac_ring_tail' + i - 1 ELSE ac_ring_tail' + i - 1 - AC_RING_SIZE
      <4>1. i - 1 \in 0 .. AC_RING_SIZE /\ ac_ring_tail' + i - 1 = ac_ring_tail' + (i - 1)
        BY <1>1, <3>2, RingAssumption DEF TypeOK, Slots, RingInv
      <4> QED BY <1>1, <4>1, ModWrap DEF TypeOK, RingInv
    <3>4. CASE i < AC_RING_SIZE
      <4>1. i + 1 \in 1 .. AC_RING_SIZE
        BY <3>2, <3>4, RingAssumption
      <4>2. j = IF ac_ring_tail + (i + 1) - 1 < AC_RING_SIZE
                THEN ac_ring_tail + (i + 1) - 1 ELSE ac_ring_tail + (i + 1) - 1 - AC_RING_SIZE
        BY <4>1, SlotOf DEF RingInv
      <4>3. ac_ring[j] = emitted - ac_ring_count + (i + 1)
        BY <1>0, <4>1 DEF FreshestKept, Pending, Oldest, RingInv
      <4> HIDE DEF k, j
      <4>4. k = j /\ k # ac_ring_head /\ k \in Slots
        BY <1>0, <3>2, <3>3, <3>4, <4>2, RingAssumption, SMTT(30) DEF TypeOK, Slots, RingInv
      <4>5. ac_ring'[k] = ac_ring[j]
        BY <4>4 DEF EmitFull, WriteAtHead, TypeOK, RingInv
      <4> QED BY <1>0, <3>1, <3>2, <4>3, <4>5, RingAssumption DEF EmitFull, WriteAtHead, TypeOK,
          RingInv
    <3>5. CASE i = AC_RING_SIZE
      <4> HIDE DEF k
      <4>1. k = ac_ring_head
        BY <1>0, <3>3, <3>5, RingAssumption DEF TypeOK, Slots, RingInv
      <4> QED BY <1>0, <3>1, <3>5, <4>1, RingAssumption DEF EmitFull, WriteAtHead, TypeOK, RingInv
    <3> QED BY <3>2, <3>4, <3>5, RingAssumption
  <2> QED BY <2>1, <2>2 DEF FreshestKept, RingInv
<1>3. Drained' = Drained
  BY DEF EmitFull, Drained, InFlight, ToSet, RingInv
<1>4. DropsAccounted'
  <2>1. Cardinality(Drained) \in Int
    BY DrainedFinite
  <2>2. ac_dropped' = overwritten' % UINT
    BY CountWrap DEF DropsAccounted, EmitFull, TypeOK, RingInv
  <2> QED BY <1>0, <1>3, <2>1, <2>2, RingAssumption
          DEF DropsAccounted, EmitFull, WriteAtHead, TypeOK, RingInv
<1>5. BatchContiguous'
  BY DEF BatchContiguous, EmitFull, RingInv
<1> QED BY <1>0, <1>1, <1>2, <1>3, <1>4, <1>5, RingAssumption
        DEF EmitFull, WriteAtHead, TypeOK, RingInv

\* The events a drain copies are the oldest pending ones, by their numbers.
LEMMA OldestIds ==
    ASSUME RingInv, NEW n \in 0 .. ac_ring_count
    PROVE  /\ \A i \in 1 .. n : Oldest(n)[i] = emitted - ac_ring_count + i
           /\ ToSet(Oldest(n))
                = (emitted - ac_ring_count + 1) .. (emitted - ac_ring_count + n)
<1>1. ASSUME NEW i \in 1 .. n
      PROVE  Oldest(n)[i] = emitted - ac_ring_count + i
  <2>1. i \in 1 .. ac_ring_count
    BY DEF RingInv, TypeOK
  <2>2. Oldest(n)[i] = Pending[i]
    BY <2>1 DEF Oldest, Pending
  <2> QED BY <2>1, <2>2 DEF RingInv, FreshestKept
<1>2. ToSet(Oldest(n)) = {emitted - ac_ring_count + i : i \in 1 .. n}
  <2>1. DOMAIN Oldest(n) = 1 .. n
    BY OldestType DEF RingInv
  <2> QED BY <1>1, <2>1 DEF ToSet
<1>3. {emitted - ac_ring_count + i : i \in 1 .. n}
        = (emitted - ac_ring_count + 1) .. (emitted - ac_ring_count + n)
  <2>1. emitted - ac_ring_count \in Int /\ n \in Int
    BY DEF RingInv, TypeOK
  <2>2. ASSUME NEW x \in (emitted - ac_ring_count + 1) .. (emitted - ac_ring_count + n)
        PROVE  x \in {emitted - ac_ring_count + i : i \in 1 .. n}
    <3>1. x - (emitted - ac_ring_count) \in 1 .. n
      BY <2>1
    <3>2. x = emitted - ac_ring_count + (x - (emitted - ac_ring_count))
      BY <2>1
    <3> QED BY <3>1, <3>2
  <2> QED BY <2>1, <2>2
<1> QED BY <1>1, <1>2, <1>3

\* Freeing the n oldest slots keeps the rest in place.
LEMMA DropKeeps ==
    ASSUME RingInv, NEW n \in 0 .. ac_ring_count, Drop(n),
           UNCHANGED <<ac_ring, ac_ring_head, emitted>>
    PROVE  /\ FreshestKept'
           /\ ac_ring_tail' \in Slots
           /\ ac_ring_count' \in 0 .. AC_RING_SIZE
<1>1. n \in 0 .. AC_RING_SIZE /\ n \in Nat
  BY RingAssumption DEF TypeOK, RingInv
<1>2. ac_ring_tail' = IF ac_ring_tail + n < AC_RING_SIZE
        THEN ac_ring_tail + n ELSE ac_ring_tail + n - AC_RING_SIZE
  BY <1>1, ModWrap DEF Drop, TypeOK, RingInv
<1>3. ac_ring_tail' \in Slots /\ ac_ring_count' \in 0 .. AC_RING_SIZE
  BY <1>1, <1>2, RingAssumption DEF TypeOK, Slots, Drop, RingInv
<1>4. ac_ring_head' = (ac_ring_tail' + ac_ring_count') % AC_RING_SIZE
  <2>1. ac_ring_head = IF ac_ring_tail + ac_ring_count < AC_RING_SIZE
            THEN ac_ring_tail + ac_ring_count
            ELSE ac_ring_tail + ac_ring_count - AC_RING_SIZE
    BY ModWrap DEF TypeOK, FreshestKept, RingInv
  <2>2. (ac_ring_tail' + ac_ring_count') % AC_RING_SIZE
          = IF ac_ring_tail' + ac_ring_count' < AC_RING_SIZE
            THEN ac_ring_tail' + ac_ring_count'
            ELSE ac_ring_tail' + ac_ring_count' - AC_RING_SIZE
    BY <1>3, ModWrap
  <2>3. ac_ring_count' = ac_ring_count - n
    BY DEF Drop
  <2> QED BY <1>1, <1>2, <2>1, <2>2, <2>3, RingAssumption DEF TypeOK, Slots, RingInv
<1>5. ASSUME NEW i \in 1 .. ac_ring_count'
      PROVE  Pending'[i] = emitted' - ac_ring_count' + i
  <2> DEFINE k == (ac_ring_tail' + i - 1) % AC_RING_SIZE
             j == (ac_ring_tail + (i + n) - 1) % AC_RING_SIZE
  <2>1. Pending'[i] = ac_ring[k]
    BY DEF Pending, Oldest
  <2>2. i + n \in 1 .. ac_ring_count /\ i + n \in 1 .. AC_RING_SIZE /\ i \in 1 .. AC_RING_SIZE
    BY <1>1, RingAssumption DEF Drop, TypeOK, RingInv
  <2>3. k = IF ac_ring_tail' + i - 1 < AC_RING_SIZE
            THEN ac_ring_tail' + i - 1 ELSE ac_ring_tail' + i - 1 - AC_RING_SIZE
    <3>1. i - 1 \in 0 .. AC_RING_SIZE /\ ac_ring_tail' + i - 1 = ac_ring_tail' + (i - 1)
      BY <1>3, <2>2, RingAssumption DEF Slots
    <3> QED BY <1>3, <3>1, ModWrap
  <2>4. j = IF ac_ring_tail + (i + n) - 1 < AC_RING_SIZE
            THEN ac_ring_tail + (i + n) - 1 ELSE ac_ring_tail + (i + n) - 1 - AC_RING_SIZE
    BY <2>2, SlotOf DEF RingInv
  <2>5. ac_ring[j] = emitted - ac_ring_count + (i + n)
    BY <2>2 DEF FreshestKept, Pending, Oldest, RingInv
  <2> HIDE DEF k, j
  <2>6. k = j
    BY <1>1, <1>2, <2>2, <2>3, <2>4, RingAssumption DEF TypeOK, Slots, RingInv
  <2> QED BY <1>1, <2>1, <2>5, <2>6 DEF Drop, TypeOK, RingInv
<1> QED BY <1>3, <1>4, <1>5 DEF FreshestKept, RingInv

\* Moving the n oldest events from the ring to the drained ones balances.
LEMMA DrainAccounts ==
    ASSUME RingInv, NEW n \in 0 .. ac_ring_count, Drop(n),
           UNCHANGED <<emitted, overwritten, ac_dropped>>,
           Drained' = Drained \cup ToSet(Oldest(n))
    PROVE  /\ ac_ring_count' <= emitted'
           /\ Drained' \subseteq 1 .. emitted' - ac_ring_count'
           /\ DropsAccounted'
<1> DEFINE b == emitted - ac_ring_count
           new == (b + 1) .. (b + n)
<1>1. b \in Nat /\ n \in Nat /\ ac_ring_count \in Nat /\ emitted \in Nat
  BY RingAssumption DEF RingInv, TypeOK
<1>2. ac_ring_count' = ac_ring_count - n /\ emitted' - ac_ring_count' = b + n
  BY <1>1 DEF Drop
<1>3. Drained' = Drained \cup new
  BY OldestIds, Zenon
<1>4. Drained \subseteq 1 .. b
  BY DEF RingInv
<1> HIDE DEF b
<1>5. Drained' \subseteq 1 .. b + n
  <2>1. new \subseteq 1 .. b + n /\ 1 .. b \subseteq 1 .. b + n
    BY <1>1
  <2> QED BY <1>3, <1>4, <2>1, Zenon
<1>6. Drained \cap new = {}
  BY <1>1, <1>4
<1>7. IsFiniteSet(new) /\ Cardinality(new) = n
  BY <1>1, FS_Interval
<1>8. Cardinality(Drained') = Cardinality(Drained) + n
  <2>1. IsFiniteSet(Drained) /\ Cardinality(Drained) \in Nat
    BY DrainedFinite
  <2>2. Cardinality(Drained \cup new)
          = Cardinality(Drained) + Cardinality(new) - Cardinality(Drained \cap new)
    BY <1>7, <2>1, FS_Union, Zenon
  <2>3. Cardinality(Drained \cap new) = 0
    BY <1>6, FS_EmptySet
  <2> HIDE DEF new
  <2> QED BY <1>1, <1>3, <1>7, <2>1, <2>2, <2>3
<1>9. DropsAccounted'
  <2>1. Cardinality(Drained) \in Nat
    BY DrainedFinite
  <2> QED BY <1>1, <1>2, <1>8, <2>1 DEF RingInv, DropsAccounted, TypeOK
<1> QED BY <1>1, <1>2, <1>5, <1>9 DEF RingInv

\* Taking a batch out of the ring keeps it.
LEMMA GetEventsInv ==
    ASSUME NEW c \in Callers
    PROVE  RingInv /\ GetEvents(c) => RingInv'
<1> SUFFICES ASSUME RingInv, GetEvents(c) PROVE RingInv'
  OBVIOUS
<1> DEFINE n == DrainLength(TRUE)
<1>1. n \in 0 .. ac_ring_count
  BY DrainBound, Zenon DEF RingInv
<1> HIDE DEF n
<1>2. /\ el' = [el EXCEPT ![c] =
                  [live |-> TRUE, events |-> Oldest(n), dropped |-> ac_dropped]]
      /\ Drop(n)
      /\ UNCHANGED <<ac_ring, ac_ring_head, ac_dropped, emitted, overwritten, seen, lost>>
      /\ el[c] = Idle
  BY Zenon DEF GetEvents, n, RingInv
<1>3. FreshestKept' /\ ac_ring_tail' \in Slots /\ ac_ring_count' \in 0 .. AC_RING_SIZE
  BY <1>1, <1>2, DropKeeps
<1>4. Oldest(n) \in Seq(Nat) /\ Len(Oldest(n)) = n
  BY <1>1, OldestType DEF RingInv
<1>5. TypeOK'
  <2>1. el' \in [Callers -> Batch]
    BY <1>2, <1>4, Zenon DEF RingInv, TypeOK, Batch
  <2> QED BY <1>2, <1>3, <2>1, Zenon DEF RingInv, TypeOK
<1>6. Drained' = Drained \cup ToSet(Oldest(n))
  <2>1. ToSet(el'[c].events) = ToSet(Oldest(n)) /\ ToSet(el[c].events) = {}
    BY <1>2 DEF RingInv, TypeOK, ToSet, Idle
  <2>2. \A d \in Callers \ {c} : el'[d] = el[d]
    BY <1>2 DEF RingInv, TypeOK
  <2>3. InFlight' = InFlight \cup ToSet(Oldest(n))
    <3>1. InFlight = ToSet(el[c].events)
                       \cup UNION {ToSet(el[d].events) : d \in Callers \ {c}}
      BY DEF InFlight
    <3>2. InFlight' = ToSet(el'[c].events)
                        \cup UNION {ToSet(el'[d].events) : d \in Callers \ {c}}
      BY DEF InFlight, ToSet
    <3>3. UNION {ToSet(el'[d].events) : d \in Callers \ {c}}
            = UNION {ToSet(el[d].events) : d \in Callers \ {c}}
      BY <2>2, Zenon
    <3> QED BY <2>1, <3>1, <3>2, <3>3
  <2> QED BY <1>2, <2>3 DEF Drained
<1>7. /\ ac_ring_count' <= emitted'
      /\ Drained' \subseteq 1 .. emitted' - ac_ring_count'
      /\ DropsAccounted'
  BY <1>1, <1>2, <1>6, DrainAccounts
<1>8. BatchContiguous'
  <2> SUFFICES ASSUME NEW d \in Callers, NEW i \in 1 .. Len(el'[d].events) - 1
               PROVE  el'[d].events[i + 1] = el'[d].events[i] + 1
    BY DEF BatchContiguous
  <2>1. CASE d = c
    <3>1. el'[d].events = Oldest(n)
      BY <1>2, <2>1 DEF RingInv, TypeOK
    <3>2. i \in 1 .. n /\ i + 1 \in 1 .. n
      BY <1>1, <1>4, <3>1 DEF RingInv, TypeOK
    <3>3. /\ Oldest(n)[i] = emitted - ac_ring_count + i
          /\ Oldest(n)[i + 1] = emitted - ac_ring_count + (i + 1)
      BY <1>1, <3>2, OldestIds
    <3> QED BY <3>1, <3>3 DEF RingInv, TypeOK
  <2>2. CASE d # c
    BY <1>2, <2>2 DEF RingInv, TypeOK, BatchContiguous
  <2> QED BY <2>1, <2>2
<1>9. \A d \in Callers : ~el'[d].live => el'[d] = Idle
  BY <1>2 DEF RingInv, TypeOK
<1> QED BY <1>3, <1>5, <1>7, <1>8, <1>9 DEF RingInv

\* The end of GET_EVENTS, delivered or not: the batch changes hands, and the
\* set of drained events stays what it was.
LEMMA CopyInv ==
    ASSUME NEW c \in Callers
    PROVE  RingInv /\ (CopyToUser(c) \/ CopyFault(c)) => RingInv'
<1> SUFFICES ASSUME RingInv, CopyToUser(c) \/ CopyFault(c) PROVE RingInv'
  OBVIOUS
<1> DEFINE mine == ToSet(el[c].events)
           rest == UNION {ToSet(el[d].events) : d \in Callers \ {c}}
<1>1. /\ el' = [el EXCEPT ![c] = Idle]
      /\ UNCHANGED <<ring_vars, emitted, overwritten>>
      /\ seen' \cup lost' = seen \cup lost \cup mine
  BY DEF CopyToUser, CopyFault
<1>2. Drained = seen \cup lost \cup mine \cup rest
  BY DEF Drained, InFlight
<1>3. Drained' = Drained
  <2>1. ToSet(el'[c].events) = {}
    BY <1>1 DEF RingInv, TypeOK, ToSet, Idle
  <2>2. \A d \in Callers \ {c} : el'[d] = el[d]
    BY <1>1 DEF RingInv, TypeOK
  <2>3. InFlight' = ToSet(el'[c].events)
                      \cup UNION {ToSet(el'[d].events) : d \in Callers \ {c}}
    BY DEF InFlight, ToSet
  <2>4. InFlight' = rest
    BY <2>1, <2>2, <2>3
  <2> QED BY <1>1, <1>2, <2>4 DEF Drained
<1>4. TypeOK'
  <2>1. el' \in [Callers -> Batch]
    BY <1>1, RingAssumption DEF RingInv, TypeOK, Batch, Idle
  <2>2. 1 .. emitted - ac_ring_count \subseteq 1 .. emitted
    BY RingAssumption DEF RingInv, TypeOK
  <2>3. seen' \subseteq 1 .. emitted /\ lost' \subseteq 1 .. emitted
    BY <1>1, <1>2, <2>2 DEF RingInv
  <2> QED BY <1>1, <2>1, <2>3, Zenon DEF RingInv, TypeOK, ring_vars
<1>5. FreshestKept'
  BY <1>1 DEF RingInv, FreshestKept, Pending, Oldest, ring_vars
<1>6. DropsAccounted'
  BY <1>1, <1>3 DEF RingInv, DropsAccounted, ring_vars
<1>7. \A d \in Callers : ~el'[d].live => el'[d] = Idle
  BY <1>1 DEF RingInv, TypeOK
<1>8. BatchContiguous'
  <2> SUFFICES ASSUME NEW d \in Callers, NEW i \in 1 .. Len(el'[d].events) - 1
               PROVE  el'[d].events[i + 1] = el'[d].events[i] + 1
    BY DEF BatchContiguous
  <2>1. CASE d = c
    <3>1. Len(el'[d].events) = 0
      BY <1>1, <2>1 DEF RingInv, TypeOK, Idle
    <3> QED BY <3>1
  <2>2. CASE d # c
    BY <1>1, <2>2, Zenon DEF RingInv, TypeOK, BatchContiguous
  <2> QED BY <2>1, <2>2
<1> QED BY <1>1, <1>3, <1>4, <1>5, <1>6, <1>7, <1>8 DEF RingInv, ring_vars

\* Emptying the ring keeps it.
LEMMA FlushInv == RingInv /\ FlushEvents => RingInv'
<1> SUFFICES ASSUME RingInv, FlushEvents PROVE RingInv'
  OBVIOUS
<1> DEFINE n == ac_ring_count
<1>1. n \in 0 .. ac_ring_count
  BY DEF RingInv, TypeOK
<1>2. /\ Drop(n)
      /\ lost' = lost \cup ToSet(Oldest(n))
      /\ UNCHANGED <<ac_ring, ac_ring_head, ac_dropped, el, emitted, overwritten, seen>>
  BY DEF FlushEvents, DrainLength, Pending
<1>3. FreshestKept' /\ ac_ring_tail' \in Slots /\ ac_ring_count' \in 0 .. AC_RING_SIZE
  BY <1>1, <1>2, DropKeeps
<1>4. Drained' = Drained \cup ToSet(Oldest(n))
  <2>1. InFlight' = InFlight
    BY <1>2 DEF InFlight
  <2> QED BY <1>2, <2>1 DEF Drained
<1>5. /\ ac_ring_count' <= emitted'
      /\ Drained' \subseteq 1 .. emitted' - ac_ring_count'
      /\ DropsAccounted'
  BY <1>1, <1>2, <1>4, DrainAccounts
<1>6. TypeOK'
  <2>1. emitted' \in Nat /\ ac_ring_count' = 0
    BY <1>2, RingAssumption DEF RingInv, TypeOK, Drop
  <2>2. lost' \subseteq 1 .. emitted'
    BY <1>5, <2>1 DEF Drained
  <2> QED BY <1>2, <1>3, <2>2 DEF RingInv, TypeOK
<1>7. BatchContiguous' /\ \A d \in Callers : ~el'[d].live => el'[d] = Idle
  BY <1>2 DEF RingInv, BatchContiguous
<1> QED BY <1>3, <1>5, <1>6, <1>7 DEF RingInv

\* So does a step that changes nothing.
LEMMA StutterInv == RingInv /\ UNCHANGED vars => RingInv'
<1> SUFFICES ASSUME RingInv, UNCHANGED vars PROVE RingInv'
  OBVIOUS
<1> USE DEF vars, ring_vars
<1>1. TypeOK'
  BY DEF TypeOK, RingInv
<1>2. FreshestKept'
  BY DEF FreshestKept, Pending, Oldest, RingInv
<1>3. Drained' = Drained
  BY DEF Drained, InFlight, ToSet, RingInv
<1>4. DropsAccounted'
  BY <1>3 DEF DropsAccounted, RingInv
<1>5. BatchContiguous'
  BY DEF BatchContiguous, RingInv
<1> QED BY <1>1, <1>2, <1>3, <1>4, <1>5 DEF RingInv

\* The inductive invariant holds in every behaviour of the ring.
THEOREM RingInvariant == Spec => []RingInv
<1>1. RingInv /\ [Next]_vars => RingInv'
  BY EmitFreeInv, EmitFullInv, GetEventsInv, CopyInv, FlushInv, StutterInv DEF Next
<1> QED BY <1>1, InitInv, PTL DEF Spec

\* Types: indices never leave the ring and counters never leave their width.
THEOREM TypeCorrect == Spec => []TypeOK
BY RingInvariant, PTL DEF RingInv

\* The ring always holds the most recent events in order: ac_emit() loses only
\* the oldest one, ac_drain_events() never reads an unwritten slot.
THEOREM KeepsFreshest == Spec => []FreshestKept
BY RingInvariant, PTL DEF RingInv

\* Every emitted event is pending, drained, or counted in ac_dropped.
THEOREM AccountsForDrops == Spec => []DropsAccounted
BY RingInvariant, PTL DEF RingInv

\* No batch of GET_EVENTS has a hole.
THEOREM BatchesContiguous == Spec => []BatchContiguous
BY RingInvariant, PTL DEF RingInv

-----------------------------------------------------------------------------
(***************************************************************************)
(* Refinement: the ring implements the drop-oldest queue.                  *)
(***************************************************************************)

\* The abstract queue, as the ring represents it.
PendingShape ==
    /\ Pending \in Seq(Nat)
    /\ Len(Pending) = ac_ring_count
    /\ ac_ring_count \in Nat
    /\ emitted \in Nat
    /\ \A i \in 1 .. ac_ring_count : Pending[i] = emitted - ac_ring_count + i

\* The pending events are the latest ones, in order.
LEMMA PendingIs == RingInv => PendingShape
<1> SUFFICES ASSUME RingInv PROVE PendingShape
  OBVIOUS
<1>1. ac_ring_count \in 0 .. ac_ring_count
  BY DEF RingInv, TypeOK
<1> QED BY <1>1, OldestType, RingAssumption DEF PendingShape, RingInv, TypeOK, Pending, FreshestKept

\* The empty ring is the empty queue.
LEMMA RefineInit == Init => Q!Init
<1> SUFFICES ASSUME Init PROVE Q!Init
  OBVIOUS
<1>1. Pending = <<>>
  BY DEF Init, Pending, Oldest
<1>2. [c \in Callers |-> el[c].events] = [c \in Callers |-> <<>>]
  BY DEF Init, Idle
<1> QED BY <1>1, <1>2 DEF Init, Q!Init

\* An event put into a free slot is put into the queue.
LEMMA RefineEmitFree ==
    ASSUME PendingShape, PendingShape', EmitFree
    PROVE  Q!PutFree(emitted + 1)
<1> USE DEF PendingShape
<1>1. emitted' = emitted + 1 /\ ac_ring_count' = ac_ring_count + 1
  BY DEF EmitFree, WriteAtHead
<1>2. Pending' = Append(Pending, emitted + 1)
  <2>1. Append(Pending, emitted + 1) \in Seq(Nat)
    OBVIOUS
  <2>2. Len(Append(Pending, emitted + 1)) = ac_ring_count + 1
    OBVIOUS
  <2>3. ASSUME NEW i \in 1 .. ac_ring_count + 1
        PROVE  Pending'[i] = Append(Pending, emitted + 1)[i]
    BY <1>1
  <2> QED BY <1>1, <2>1, <2>2, <2>3, SameEntries
<1> QED BY <1>2 DEF EmitFree, Q!PutFree

\* An event that takes the place of the oldest one pushes it out of the queue.
LEMMA RefineEmitFull ==
    ASSUME PendingShape, PendingShape', EmitFull, TypeOK
    PROVE  Q!PutFull(emitted + 1)
<1> USE DEF PendingShape
<1>1. /\ emitted' = emitted + 1
      /\ ac_ring_count = AC_RING_SIZE
      /\ ac_ring_count' = AC_RING_SIZE
  BY RingAssumption DEF EmitFull, WriteAtHead, TypeOK
<1>2. /\ Tail(Pending) \in Seq(Nat)
      /\ Len(Tail(Pending)) = AC_RING_SIZE - 1
      /\ \A i \in 1 .. AC_RING_SIZE - 1 : Tail(Pending)[i] = Pending[i + 1]
  <2>1. Pending # <<>>
    BY <1>1, RingAssumption
  <2> QED BY <1>1, <2>1, TailEntries
<1>3. Pending' = Append(Tail(Pending), emitted + 1)
  <2> DEFINE t == Tail(Pending)
  <2> HIDE DEF t
  <2>0. /\ t \in Seq(Nat)
        /\ Len(t) = AC_RING_SIZE - 1
        /\ \A i \in 1 .. AC_RING_SIZE - 1 : t[i] = emitted - AC_RING_SIZE + (i + 1)
    BY <1>1, <1>2, RingAssumption DEF t
  <2>1. Append(t, emitted + 1) \in Seq(Nat)
    BY <2>0
  <2>2. Len(Append(t, emitted + 1)) = AC_RING_SIZE
    BY <2>0, RingAssumption
  <2>3. ASSUME NEW i \in 1 .. AC_RING_SIZE
        PROVE  Pending'[i] = Append(t, emitted + 1)[i]
    <3>1. emitted + 1 \in Nat
      BY DEF TypeOK
    <3>2. /\ \A j \in 1 .. Len(t) : Append(t, emitted + 1)[j] = t[j]
          /\ Append(t, emitted + 1)[Len(t) + 1] = emitted + 1
      BY <2>0, <3>1, AppendEntries
    <3>3. Pending'[i] = (emitted + 1) - AC_RING_SIZE + i
      BY <1>1
    <3>4. CASE i = AC_RING_SIZE
      BY <2>0, <3>1, <3>2, <3>3, <3>4, RingAssumption
    <3>5. CASE i # AC_RING_SIZE
      <4>1. i \in 1 .. AC_RING_SIZE - 1
        BY <3>5, RingAssumption
      <4> QED BY <2>0, <3>1, <3>2, <3>3, <4>1, RingAssumption
    <3> QED BY <3>4, <3>5, Zenon
  <2>4. Pending' = Append(t, emitted + 1)
    BY <1>1, <2>1, <2>2, <2>3, SameEntries, Zenon
  <2> QED BY <2>4 DEF t
<1> QED BY <1>1, <1>3 DEF EmitFull, Q!PutFull

\* Removing the n oldest events from the ring removes the queue's prefix.
LEMMA RefineDrop ==
    ASSUME PendingShape, PendingShape', NEW n \in 0 .. ac_ring_count, Drop(n),
           UNCHANGED emitted
    PROVE  Pending' = SubSeq(Pending, n + 1, Len(Pending))
<1> USE DEF PendingShape
<1>1. ac_ring_count' = ac_ring_count - n /\ n \in Nat
  BY DEF Drop
<1>2. /\ SubSeq(Pending, n + 1, ac_ring_count) \in Seq(Nat)
      /\ Len(SubSeq(Pending, n + 1, ac_ring_count)) = ac_ring_count - n
      /\ \A i \in 1 .. ac_ring_count - n :
            SubSeq(Pending, n + 1, ac_ring_count)[i] = Pending[n + i]
  BY <1>1, SMTT(30)
<1>3. ASSUME NEW i \in 1 .. ac_ring_count - n
      PROVE  Pending'[i] = SubSeq(Pending, n + 1, ac_ring_count)[i]
  BY <1>1, <1>2
<1> QED BY <1>1, <1>2, <1>3, SameEntries

\* A batch is taken from the front of the queue.
LEMMA RefineGetEvents ==
    ASSUME PendingShape, PendingShape', TypeOK, NEW c \in Callers, GetEvents(c)
    PROVE  Q!Take(c)
<1> DEFINE n == DrainLength(TRUE)
           handed == [d \in Callers |-> el[d].events]
<1>1. n = Q!Smaller(Len(Pending), AC_MAX_EVENTS)
  BY RingAssumption DEF PendingShape, DrainLength, Q!Smaller
<1>2. n \in 0 .. ac_ring_count
  BY DrainBound, Zenon
<1> HIDE DEF n
<1>3. Drop(n) /\ UNCHANGED <<emitted, overwritten>>
  BY Zenon DEF GetEvents, n
<1>4. Pending' = SubSeq(Pending, n + 1, Len(Pending))
  BY <1>2, <1>3, RefineDrop
<1>5. Oldest(n) = SubSeq(Pending, 1, n)
  <2>1. Oldest(n) \in Seq(Nat) /\ Len(Oldest(n)) = n /\ n \in Nat
    BY <1>2, OldestType DEF TypeOK
  <2>2. /\ SubSeq(Pending, 1, n) \in Seq(Nat)
        /\ Len(SubSeq(Pending, 1, n)) = n
        /\ \A i \in 1 .. n : SubSeq(Pending, 1, n)[i] = Pending[i]
    BY <1>2, <2>1, SMTT(30) DEF PendingShape
  <2>3. ASSUME NEW i \in 1 .. n
        PROVE  Oldest(n)[i] = SubSeq(Pending, 1, n)[i]
    <3>1. i \in 1 .. ac_ring_count
      BY <1>2 DEF PendingShape
    <3>2. Oldest(n)[i] = Pending[i]
      BY <3>1 DEF Oldest, Pending
    <3> QED BY <2>2, <3>2
  <2> QED BY <2>1, <2>2, <2>3, SameEntries
<1>6. handed' = [handed EXCEPT ![c] = SubSeq(Pending, 1, n)]
  <2>1. el' = [el EXCEPT ![c] =
                  [live |-> TRUE, events |-> SubSeq(Pending, 1, n), dropped |-> ac_dropped]]
    BY <1>5, Zenon DEF GetEvents, n
  <2> QED BY <2>1, Zenon DEF TypeOK
<1> QED BY <1>1, <1>3, <1>4, <1>6 DEF Q!Take

\* The copy to user space is the answer of the queue, or its failure.
LEMMA RefineCopy ==
    ASSUME TypeOK, NEW c \in Callers, CopyToUser(c) \/ CopyFault(c)
    PROVE  Q!Return(c)
<1>1. el' = [el EXCEPT ![c] = Idle] /\ UNCHANGED <<ring_vars, overwritten>>
  BY DEF CopyToUser, CopyFault
<1>2. Pending' = Pending
  BY <1>1 DEF Pending, Oldest, ring_vars
<1>3. [d \in Callers |-> el[d].events]'
        = [[d \in Callers |-> el[d].events] EXCEPT ![c] = <<>>]
  BY <1>1, Zenon DEF TypeOK, Idle
<1> QED BY <1>1, <1>2, <1>3 DEF Q!Return

\* Emptying the ring discards what is queued.
LEMMA RefineFlush ==
    ASSUME PendingShape, PendingShape', FlushEvents
    PROVE  Q!Discard
<1>1. ac_ring_count' = 0
  BY DEF FlushEvents, Drop, DrainLength, PendingShape
<1>2. Pending' = <<>>
  BY <1>1, NoEntries DEF PendingShape
<1> QED BY <1>2 DEF FlushEvents, Q!Discard

\* Every step of the ring is a step of the queue or changes nothing of it.
LEMMA RefineStep ==
    ASSUME RingInv, PendingShape, PendingShape', [Next]_vars
    PROVE  [Q!Next]_(Q!qvars)
<1>1. CASE EmitFree
  <2>1. emitted + 1 \in 1 .. MaxEmit
    BY <1>1, RingAssumption DEF EmitFree, RingInv, TypeOK
  <2> QED BY <1>1, <2>1, RefineEmitFree, Zenon DEF Q!Next
<1>2. CASE EmitFull
  <2>1. emitted + 1 \in 1 .. MaxEmit
    BY <1>2, RingAssumption DEF EmitFull, RingInv, TypeOK
  <2> QED BY <1>2, <2>1, RefineEmitFull DEF Q!Next, RingInv
<1>3. ASSUME NEW c \in Callers, GetEvents(c) \/ CopyToUser(c) \/ CopyFault(c)
      PROVE  Q!Next
  BY <1>3, RefineGetEvents, RefineCopy DEF Q!Next, RingInv
<1>4. CASE FlushEvents
  BY <1>4, RefineFlush DEF Q!Next
<1>5. CASE UNCHANGED vars
  BY <1>5 DEF vars, ring_vars, Q!qvars, Pending, Oldest
<1> QED BY <1>1, <1>2, <1>3, <1>4, <1>5 DEF Next

\* The ring buffer of the kernel module is a FIFO queue that loses its oldest
\* event when full, counts the loss, and hands out bounded prefixes.
THEOREM RingImplementsQueue == Spec => ImplementsQueue
<1>1. Init => Q!Init
  BY RefineInit
<1>2. RingInv /\ PendingShape /\ PendingShape' /\ [Next]_vars => [Q!Next]_(Q!qvars)
  BY RefineStep
<1> QED BY <1>1, <1>2, PendingIs, RingInvariant, PTL DEF Spec, ImplementsQueue, Q!Spec

-----------------------------------------------------------------------------
(* ModuleLifecycle, as long as no two clients unlock: UnlockBalances has two *)
\* At most one client issues UNLOCK.
OneUnlocker == \A c, d \in Unlockers : c = d

\* The states of the module.
Modes == {"init", "probes", "misc", "undo_probes", "undo_wq", "failed", "live",
          "deregister", "unregister", "clear", "destroy", "gone"}

-----------------------------------------------------------------------------
\* The sets that are counted are finite.
LEMMA CountedFinite ==
    ASSUME LifecycleTypeOK
    PROVE  /\ IsFiniteSet(fd) /\ IsFiniteSet(Between) /\ IsFiniteSet(Locking)
           /\ Cardinality(fd) \in Nat /\ Cardinality(Between) \in Nat
           /\ Cardinality(Locking) \in Nat /\ Cardinality(Client) \in Nat
           /\ Cardinality(Locking) <= Cardinality(Client)
<1>1. fd \subseteq Client /\ Between \subseteq Client /\ Locking \subseteq Client
  BY DEF LifecycleTypeOK, Between, Locking
<1>2. IsFiniteSet(Client)
  BY LifecycleAssumption
<1>3. /\ IsFiniteSet(fd) /\ IsFiniteSet(Between) /\ IsFiniteSet(Locking)
      /\ Cardinality(Locking) <= Cardinality(Client)
  BY <1>1, <1>2, FS_Subset
<1> QED
  BY <1>2, <1>3, FS_CardinalityType

\* What an element more does to a count.
LEMMA OneMore ==
    ASSUME NEW S, IsFiniteSet(S), NEW x, x \notin S
    PROVE  Cardinality(S \cup {x}) = Cardinality(S) + 1
BY FS_AddElement

\* And one element less.
LEMMA OneLess ==
    ASSUME NEW S, IsFiniteSet(S), NEW x \in S
    PROVE  Cardinality(S \ {x}) = Cardinality(S) - 1
BY FS_RemoveElement

\* A step that leaves clients, references and pins alone keeps them accounted for,
\* if the module is not taken down under them.
LEMMA RefsKept ==
    ASSUME LifecycleInv, LifecycleTypeOK', UNCHANGED <<fd, op, refcnt, ac_lock_count>>,
           fd # {} \/ ac_lock_count > 0 => mod' = "live"
    PROVE  RefsAccounted' /\ ClientsHold'
BY DEF LifecycleInv, RefsAccounted, ClientsHold, Between, Locking

\* Initially there is nothing.
LEMMA LifecycleInitInv == LifecycleInit => LifecycleInv
<1> SUFFICES ASSUME LifecycleInit PROVE LifecycleInv
  OBVIOUS
<1> USE LifecycleAssumption DEF LifecycleInit
<1>1. Between = {} /\ Locking = {}
  BY DEF Between, Locking
<1>2. Cardinality(Client) \in Nat /\ Cardinality({}) = 0
  BY FS_CardinalityType, FS_EmptySet
<1>3. LifecycleTypeOK
  <2>1. misc \in BOOLEAN
    BY Zenon
  <2>2. handler \in [Cpu -> Probe \cup {"none"}]
    OBVIOUS
  <2>3. ac_lock_count \in 0 .. MaxLocks + Cardinality(Client)
    BY <1>2
  <2> QED
    BY <2>1, <2>2, <2>3 DEF LifecycleTypeOK
<1>4. RefsAccounted
  BY <1>1, <1>2, <1>3 DEF RefsAccounted
<1>5. ClientsHold
  BY <1>1, <1>2 DEF ClientsHold
<1>6. StagesHold
  BY DEF StagesHold
<1> QED
  BY <1>4, <1>5, <1>6 DEF LifecycleInv

\* ac_init(), its failure path, rmmod and ac_exit() go through their stages; rmmod
\* begins when nobody holds a reference.
LEMMA StageStepInv ==
    ASSUME LifecycleInv, Load \/ Rmmod \/ Unload
    PROVE  LifecycleInv'
<1>1. LifecycleTypeOK /\ UNCHANGED <<fd, op, refcnt, ac_lock_count>>
  BY DEF RefsAccounted, Load, Rmmod, Unload, CreateWorkqueue, RegisterKprobes, MiscRegister,
     UndoProbes, UndoWorkqueue, MiscDeregister, DisarmProbe, UnregisterProbe, UnregisterDone,
     ClearProtected, DestroyWorkqueue, device, LifecycleInv
<1>2. mod \in Modes /\ (mod = "live" => Rmmod)
  BY <1>1, Zenon DEF LifecycleTypeOK, Modes, Load, Rmmod, Unload, CreateWorkqueue, RegisterKprobes,
     MiscRegister, UndoProbes, UndoWorkqueue, MiscDeregister, DisarmProbe, UnregisterProbe,
     UnregisterDone, ClearProtected, DestroyWorkqueue
<1>3. fd = {} /\ ac_lock_count = 0
  <2>1. CASE mod # "live"
    BY <1>1, <2>1 DEF RefsAccounted, LifecycleTypeOK, LifecycleInv
  <2>2. CASE Rmmod
    <3>1. Cardinality(fd) = 0 /\ ac_lock_count = 0
      BY <1>1, <2>2, CountedFinite, SMTT(30) DEF Rmmod, RefsAccounted, LifecycleTypeOK, LifecycleInv
    <3> QED
      BY <1>1, <3>1, CountedFinite, FS_EmptySet, Zenon
  <2> QED
    BY <1>2, <2>1, <2>2, Zenon
<1>4. LifecycleTypeOK' /\ StagesHold'
  <2> USE <1>1 DEF LifecycleTypeOK, StagesHold, device, probing, work
  <2>1. CASE CreateWorkqueue
    BY <2>1, Zenon DEF CreateWorkqueue, LifecycleInv
  <2>2. CASE RegisterKprobes
    BY <2>2, Zenon DEF RegisterKprobes, LifecycleInv
  <2>3. CASE MiscRegister
    <3>1. misc' \in BOOLEAN
      BY <2>3, Zenon DEF MiscRegister
    <3> QED
      BY <2>3, <3>1 DEF MiscRegister, LifecycleInv
  <2>4. CASE UndoProbes
    BY <2>4, Zenon DEF UndoProbes, Quiet, LifecycleInv
  <2>5. CASE UndoWorkqueue
    BY <2>5 DEF UndoWorkqueue, LifecycleInv
  <2>6. CASE Rmmod
    BY <2>6 DEF Rmmod, LifecycleInv
  <2>7. CASE MiscDeregister
    BY <2>7, Zenon DEF MiscDeregister, LifecycleInv
  <2>8. CASE DisarmProbe
    BY <2>8, Zenon DEF DisarmProbe, LifecycleInv
  <2>9. CASE UnregisterProbe
    BY <2>9, Zenon DEF UnregisterProbe, Quiet, LifecycleInv
  <2>10. CASE UnregisterDone
    BY <2>10, Zenon DEF UnregisterDone, LifecycleInv
  <2>11. CASE ClearProtected
    BY <2>11, Zenon DEF ClearProtected, LifecycleInv
  <2>12. CASE DestroyWorkqueue
    BY <2>12 DEF DestroyWorkqueue, LifecycleInv
  <2> QED
    BY <2>1, <2>2, <2>3, <2>4, <2>5, <2>6, <2>7, <2>8, <2>9, <2>10, <2>11, <2>12, Zenon
       DEF Load, Unload
<1> QED
  BY <1>1, <1>3, <1>4, RefsKept DEF LifecycleInv

\* Probe handlers and the queue's worker run only between loading and unloading.
LEMMA HandlerStepInv ==
    ASSUME LifecycleInv,
           \/ KillWorker
           \/ \E cpu \in Cpu : Finish(cpu) \/ \E p \in Probe : Fire(cpu, p)
    PROVE  LifecycleInv'
<1>1. LifecycleTypeOK /\ StagesHold /\ RefsAccounted
  BY DEF RefsAccounted, LifecycleInv
<1>2. UNCHANGED <<mod, device>>
  BY Zenon DEF KillWorker, Finish, PtraceReturn, CloneReturn, ExitReturn, Fire
<1>3. LifecycleTypeOK' /\ StagesHold'
  <2> USE <1>1, LifecycleAssumption DEF LifecycleTypeOK, StagesHold, device, probing, work
  <2>1. CASE KillWorker
    BY <2>1 DEF KillWorker
  <2>2. ASSUME NEW cpu \in Cpu, PtraceReturn(cpu)
        PROVE  LifecycleTypeOK' /\ StagesHold'
    <3>1. ac_kp_ok # {} /\ mod \notin {"init", "failed", "gone"}
      BY <2>2, Zenon DEF PtraceReturn
    <3> QED
      BY <2>2, <3>1 DEF PtraceReturn, Return
  <2>3. ASSUME NEW cpu \in Cpu, NEW t \in Task, CloneReturn(cpu, t) \/ ExitReturn(cpu, t)
        PROVE  LifecycleTypeOK' /\ StagesHold'
    <3>1. /\ ac_kp_ok # {} /\ members' \subseteq Task
          /\ handler' = [handler EXCEPT ![cpu] = "none"]
          /\ UNCHANGED <<mod, device, ac_kp_ok, armed, work>>
      BY <2>3, Zenon DEF CloneReturn, ExitReturn, Return
    <3>2. mod \in {"live", "deregister", "unregister"}
      BY <2>3, <3>1, Zenon DEF CloneReturn, ExitReturn
    <3> QED
      BY <3>1, <3>2, Zenon
  <2>4. ASSUME NEW cpu \in Cpu, NEW p \in Probe, Fire(cpu, p)
        PROVE  LifecycleTypeOK' /\ StagesHold'
    BY <2>4, Zenon DEF Fire
  <2> QED
    BY <2>1, <2>2, <2>3, <2>4, Zenon DEF Finish
<1> QED
  BY <1>1, <1>2, <1>3, RefsKept DEF RefsAccounted, device, LifecycleInv

\* LOCK, UNLOCK, open and close: each takes and gives back what it counts.
LEMMA ClientStepInv ==
    ASSUME OneUnlocker, LifecycleInv, NEW c \in Client, Call(c)
    PROVE  LifecycleInv'
<1> USE LifecycleAssumption
<1>1. LifecycleTypeOK /\ StagesHold /\ RefsAccounted /\ ClientsHold
  BY Zenon DEF RefsAccounted, LifecycleInv
<1>2. /\ IsFiniteSet(fd) /\ IsFiniteSet(Between) /\ IsFiniteSet(Locking)
      /\ Cardinality(fd) \in Nat /\ Cardinality(Between) \in Nat
      /\ Cardinality(Locking) \in Nat /\ Cardinality(Client) \in Nat
      /\ Cardinality(Locking) <= Cardinality(Client)
  BY <1>1, CountedFinite
<1>3. /\ mod = "live" /\ UNCHANGED <<mod, misc, probing, work>>
      /\ members' \subseteq Task
  BY <1>1, Zenon DEF Call, OpenDevice, CloseDevice, LockGet, LockInc, UnlockRead, UnlockDec, UnlockPut,
     Change, IdleClient, ClientsHold, RefsAccounted, LifecycleTypeOK, device, LifecycleInv
<1>4. StagesHold'
  BY <1>1, <1>3, Zenon DEF StagesHold, probing, work, LifecycleInv
<1>5. ASSUME refcnt' \in Nat, fd' \subseteq Client,
             ac_lock_count' \in 0 .. MaxLocks + Cardinality(Client),
             op' \in [Client -> {"idle", "lock_inc", "unlock_dec", "unlock_put"}]
      PROVE  LifecycleTypeOK'
  BY <1>1, <1>3, <1>5 DEF LifecycleTypeOK, probing, work
<1>6. CASE OpenDevice(c)
  <2>1. /\ fd' = fd \cup {c} /\ c \notin fd /\ refcnt' = refcnt + 1
        /\ UNCHANGED <<op, ac_lock_count>>
    BY <1>6 DEF OpenDevice
  <2>2. Between' = Between /\ Locking' = Locking
    BY <2>1 DEF Between, Locking
  <2>3. Cardinality(fd') = Cardinality(fd) + 1
    BY <1>2, <2>1, OneMore, Zenon
  <2>4. LifecycleTypeOK'
    BY <1>1, <1>5, <2>1 DEF LifecycleTypeOK
  <2>5. RefsAccounted'
    BY <1>1, <1>2, <1>3, <2>1, <2>2, <2>3, <2>4 DEF RefsAccounted, LifecycleTypeOK, LifecycleInv
  <2>6. ClientsHold'
    BY <1>1, <2>1, <2>2 DEF ClientsHold, LifecycleInv
  <2> QED
    BY <1>4, <2>5, <2>6 DEF LifecycleInv
<1>7. CASE CloseDevice(c)
  <2>1. /\ fd' = fd \ {c} /\ c \in fd /\ op[c] = "idle" /\ refcnt' = refcnt - 1
        /\ UNCHANGED <<op, ac_lock_count>>
    BY <1>7 DEF CloseDevice, IdleClient
  <2>2. Between' = Between /\ Locking' = Locking
    BY <2>1, Zenon DEF Between, Locking
  <2>3. Cardinality(fd') = Cardinality(fd) - 1 /\ Cardinality(fd') \in Nat
    BY <1>2, <2>1, OneLess, FS_RemoveElement, FS_CardinalityType, Zenon
  <2>4. LifecycleTypeOK'
    <3>1. refcnt' \in Nat
      BY <1>1, <1>2, <2>1, <2>3 DEF RefsAccounted, LifecycleTypeOK, LifecycleInv
    <3> QED
      BY <1>1, <1>5, <2>1, <3>1, Zenon DEF LifecycleTypeOK
  <2>5. RefsAccounted'
    BY <1>1, <1>2, <1>3, <2>1, <2>2, <2>3, <2>4 DEF RefsAccounted, LifecycleTypeOK, LifecycleInv
  <2>6. ClientsHold'
    BY <1>1, <2>1, <2>2 DEF ClientsHold, LifecycleInv
  <2> QED
    BY <1>4, <2>5, <2>6 DEF LifecycleInv
<1>8. CASE LockGet(c)
  <2>1. /\ c \in fd /\ op[c] = "idle" /\ ac_lock_count < MaxLocks /\ refcnt' = refcnt + 1
        /\ op' = [op EXCEPT ![c] = "lock_inc"] /\ UNCHANGED <<fd, ac_lock_count>>
    BY <1>8, Zenon DEF LockGet, IdleClient
  <2>2. Between' = Between \cup {c} /\ c \notin Between
    BY <1>1, <2>1 DEF Between, LifecycleTypeOK
  <2>3. Cardinality(Between') = Cardinality(Between) + 1
    BY <1>2, <2>2, OneMore, Zenon
  <2>4. LifecycleTypeOK'
    BY <1>1, <1>5, <2>1 DEF LifecycleTypeOK
  <2>5. RefsAccounted'
    BY <1>1, <1>2, <1>3, <2>1, <2>3, <2>4 DEF RefsAccounted, LifecycleTypeOK, LifecycleInv
  <2>6. Cardinality(Locking') \in Nat /\ Cardinality(Locking') <= Cardinality(Client)
    <3>1. Locking' \subseteq Client
      BY Zenon DEF Locking
    <3> QED
      BY <3>1, FS_Subset, FS_CardinalityType
  <2>7. ClientsHold'
    <3>1. ac_lock_count' + Cardinality(Locking') <= MaxLocks + Cardinality(Client)
      BY <1>1, <1>2, <2>1, <2>6 DEF LifecycleTypeOK
    <3> QED
      BY <1>1, <2>1, <3>1, Zenon DEF ClientsHold, LifecycleTypeOK, LifecycleInv
  <2> QED
    BY <1>4, <2>5, <2>7 DEF LifecycleInv
<1>9. CASE LockInc(c)
  <2>1. /\ op[c] = "lock_inc" /\ ac_lock_count' = ac_lock_count + 1
        /\ op' = [op EXCEPT ![c] = "idle"] /\ UNCHANGED <<fd, refcnt>>
    BY <1>9, Zenon DEF LockInc
  <2>2. /\ Between' = Between \ {c} /\ c \in Between
        /\ Locking' = Locking \ {c} /\ c \in Locking
    BY <1>1, <2>1 DEF Between, Locking, LifecycleTypeOK
  <2>3. /\ Cardinality(Between') = Cardinality(Between) - 1
        /\ Cardinality(Locking') = Cardinality(Locking) - 1
    BY <1>2, <2>2, OneLess, Zenon
  <2>4. Cardinality(Locking') \in Nat
    BY <1>2, <2>2, FS_RemoveElement, FS_CardinalityType, Zenon
  <2>5. ac_lock_count' + Cardinality(Locking') <= MaxLocks + Cardinality(Client)
    BY <1>1, <1>2, <2>1, <2>3 DEF ClientsHold, LifecycleTypeOK, LifecycleInv
  <2>6. LifecycleTypeOK'
    <3>1. ac_lock_count' \in 0 .. MaxLocks + Cardinality(Client)
      BY <1>1, <1>2, <2>1, <2>4, <2>5 DEF LifecycleTypeOK
    <3> QED
      BY <1>1, <1>5, <2>1, <3>1, Zenon DEF LifecycleTypeOK
  <2>7. RefsAccounted'
    BY <1>1, <1>2, <1>3, <2>1, <2>3, <2>6 DEF RefsAccounted, LifecycleTypeOK, LifecycleInv
  <2>8. ClientsHold'
    BY <1>1, <2>1, <2>5 DEF ClientsHold, LifecycleTypeOK, LifecycleInv
  <2> QED
    BY <1>4, <2>7, <2>8 DEF LifecycleInv
<1>10. CASE UnlockRead(c)
  <2>1. /\ c \in fd /\ op[c] = "idle" /\ c \in Unlockers /\ ac_lock_count > 0
        /\ op' = [op EXCEPT ![c] = "unlock_dec"] /\ UNCHANGED <<fd, refcnt, ac_lock_count>>
    BY <1>10, Zenon DEF UnlockRead, IdleClient
  <2>2. Between' = Between /\ Locking' = Locking
    BY <1>1, <2>1, Zenon DEF Between, Locking, LifecycleTypeOK
  <2>3. LifecycleTypeOK'
    BY <1>1, <1>5, <2>1, Zenon DEF LifecycleTypeOK
  <2>4. RefsAccounted'
    BY <1>1, <1>3, <2>1, <2>2, <2>3, Zenon DEF RefsAccounted, LifecycleInv
  <2>5. ClientsHold'
    BY <1>1, <2>1, <2>2, Zenon DEF ClientsHold, LifecycleTypeOK, LifecycleInv
  <2> QED
    BY <1>4, <2>4, <2>5 DEF LifecycleInv
<1>11. CASE UnlockDec(c)
  <2>1. /\ op[c] = "unlock_dec" /\ ac_lock_count' = ac_lock_count - 1
        /\ op' = [op EXCEPT ![c] = "unlock_put"] /\ UNCHANGED <<fd, refcnt>>
    BY <1>11, Zenon DEF UnlockDec
  <2>2. /\ Between' = Between \cup {c} /\ c \notin Between /\ Locking' = Locking
    BY <1>1, <2>1, Zenon DEF Between, Locking, LifecycleTypeOK
  <2>3. Cardinality(Between') = Cardinality(Between) + 1
    BY <1>2, <2>2, OneMore, Zenon
  <2>4. ac_lock_count > 0 /\ c \in Unlockers /\ c \in fd
    BY <1>1, <2>1, Zenon DEF ClientsHold, LifecycleInv
  <2>5. LifecycleTypeOK'
    <3>1. ac_lock_count \in 0 .. MaxLocks + Cardinality(Client)
      BY <1>1, Zenon DEF LifecycleTypeOK
    <3>2. ac_lock_count' \in 0 .. MaxLocks + Cardinality(Client)
      BY <1>2, <2>1, <2>4, <3>1
    <3> QED
      BY <1>1, <1>5, <2>1, <3>2, Zenon DEF LifecycleTypeOK
  <2>6. RefsAccounted'
    BY <1>1, <1>2, <1>3, <2>1, <2>3, <2>5 DEF RefsAccounted, LifecycleTypeOK, LifecycleInv
  <2>7. \A d \in Client : op'[d] # "unlock_dec"
    BY <1>1, <2>1, <2>4, Zenon DEF ClientsHold, OneUnlocker, LifecycleTypeOK, LifecycleInv
  <2>8. ac_lock_count' + Cardinality(Locking') <= MaxLocks + Cardinality(Client)
    BY <1>1, <1>2, <2>1, <2>2 DEF ClientsHold, LifecycleTypeOK, LifecycleInv
  <2>9. ClientsHold'
    BY <1>1, <2>1, <2>4, <2>7, <2>8 DEF ClientsHold, LifecycleTypeOK, LifecycleInv
  <2> QED
    BY <1>4, <2>6, <2>9 DEF LifecycleInv
<1>12. CASE UnlockPut(c)
  <2>1. /\ op[c] = "unlock_put" /\ refcnt' = refcnt - 1
        /\ op' = [op EXCEPT ![c] = "idle"] /\ UNCHANGED <<fd, ac_lock_count>>
    BY <1>12, Zenon DEF UnlockPut
  <2>2. /\ Between' = Between \ {c} /\ c \in Between /\ Locking' = Locking
    BY <1>1, <2>1 DEF Between, Locking, LifecycleTypeOK
  <2>3. Cardinality(Between') = Cardinality(Between) - 1 /\ Cardinality(Between') \in Nat
    BY <1>2, <2>2, OneLess, FS_RemoveElement, FS_CardinalityType, Zenon
  <2>4. LifecycleTypeOK'
    <3>1. refcnt' \in Nat
      <4>1. refcnt = Cardinality(fd) + ac_lock_count + Cardinality(Between)
        BY Zenon DEF RefsAccounted, LifecycleInv
      <4>2. ac_lock_count \in Nat
        BY <1>1, <1>2 DEF LifecycleTypeOK
      <4> QED BY <1>2, <2>1, <2>3, <4>1, <4>2
    <3> QED
      BY <1>1, <1>5, <2>1, <3>1, Zenon DEF LifecycleTypeOK
  <2>5. RefsAccounted'
    BY <1>1, <1>2, <1>3, <2>1, <2>3, <2>4, SMTT(30) DEF RefsAccounted, LifecycleTypeOK, LifecycleInv
  <2>6. ClientsHold'
    BY <1>1, <2>1, <2>2 DEF ClientsHold, LifecycleTypeOK, LifecycleInv
  <2> QED
    BY <1>4, <2>5, <2>6 DEF LifecycleInv
<1>13. ASSUME NEW t \in Task, Change(c, t)
       PROVE  LifecycleInv'
  <2>1. UNCHANGED <<fd, op, refcnt, ac_lock_count>>
    BY <1>13, Zenon DEF Change, device
  <2>2. LifecycleTypeOK'
    BY <1>1, <1>5, <2>1, Zenon DEF LifecycleTypeOK
  <2> QED
    BY <1>3, <1>4, <2>1, <2>2, RefsKept DEF LifecycleInv
<1> QED
  BY <1>6, <1>7, <1>8, <1>9, <1>10, <1>11, <1>12, <1>13, Zenon DEF Call, LifecycleInv

\* The invariant gives what a module that is gone, or never came up, may not do.
LEMMA InvQuiescent == LifecycleInv => UnloadIsQuiescent
<1> SUFFICES ASSUME LifecycleInv PROVE UnloadIsQuiescent
  OBVIOUS
<1> USE DEF RefsAccounted, LifecycleTypeOK, StagesHold
<1>1. ac_wq # "up" => ac_kp_ok = {} /\ queued = 0
  BY DEF LifecycleInv
<1>2. ac_kp_ok = {} => armed = {} /\ \A p \in Probe : Quiet(p)
  BY DEF Quiet, Probe, ProbeOrder, LifecycleInv
<1>3. "ptrace" \in Probe
  BY DEF Probe, ProbeOrder
<1> QED
  BY <1>1, <1>2, <1>3 DEF UnloadIsQuiescent, LifecycleInv

\* Every step keeps the invariant.
LEMMA LifecycleStepInv ==
    ASSUME OneUnlocker, LifecycleInv, [LifecycleNext]_lifecycleVars
    PROVE  LifecycleInv'
<1>1. CASE UNCHANGED lifecycleVars
  BY <1>1, Zenon DEF lifecycleVars, device, probing, work, LifecycleInv, RefsAccounted, LifecycleTypeOK,
     ClientsHold, StagesHold, Between, Locking
<1> QED
  BY <1>1, StageStepInv, HandlerStepInv, ClientStepInv, Zenon DEF LifecycleNext, Ended

\* As long as no two clients unlock, the module's references are exactly those of
\* open files and pins, and the module stays while either is held, for any number
\* of clients (ac_open, ac_release, LOCK and UNLOCK of ac_ioctl, rmmod).
THEOREM ReferencesAccounted == OneUnlocker /\ LifecycleSpec => []RefsAccounted
<1>1. LifecycleInit => LifecycleInv
  BY LifecycleInitInv
<1>2. OneUnlocker /\ LifecycleInv /\ [LifecycleNext]_lifecycleVars => LifecycleInv'
  BY LifecycleStepInv
<1>3. LifecycleInv => RefsAccounted
  BY DEF LifecycleInv
<1>4. SUFFICES ASSUME OneUnlocker PROVE LifecycleSpec => []RefsAccounted
  OBVIOUS
<1> QED
  BY <1>1, <1>2, <1>3, <1>4, PTL DEF LifecycleSpec

\* ac_exit(), and the failure path of ac_init(), leave nothing of the module
\* running and never destroy the work queue under a handler that queues on it, for
\* any number of CPUs, tasks and queued kills.
THEOREM UnloadQuiescent == OneUnlocker /\ LifecycleSpec => []UnloadIsQuiescent
<1>1. LifecycleInit => LifecycleInv
  BY LifecycleInitInv
<1>2. OneUnlocker /\ LifecycleInv /\ [LifecycleNext]_lifecycleVars => LifecycleInv'
  BY LifecycleStepInv
<1>3. LifecycleInv => UnloadIsQuiescent
  BY InvQuiescent
<1>4. SUFFICES ASSUME OneUnlocker PROVE LifecycleSpec => []UnloadIsQuiescent
  OBVIOUS
<1> QED
  BY <1>1, <1>2, <1>3, <1>4, PTL DEF LifecycleSpec
=============================================================================
