--------------------------- MODULE RegistryProofs ---------------------------
(***************************************************************************)
(* Machine-checked facts about Registry, for every set of tasks, numbers   *)
(* and ioctl threads and every size of the table.                          *)
(***************************************************************************)
EXTENDS Registry, FiniteSetTheorems, WellFoundedInduction, TLAPS

\* What the locals of a handler and of an ioctl say about where it is: they name
\* a task exactly while they hold a reference on it.
Locals ==
    /\ \A p \in Task :
          cpu[p].child # NULL <=> cpu[p].at \in {"clone_jit", "clone_add", "clone_emit"}
    /\ \A a \in Admin : adm[a].task # NULL <=> adm[a].at # "idle"

\* The inductive invariant of the registry.
RegistryInv == TypeOK /\ Locals /\ CountExact /\ RefsExact

-----------------------------------------------------------------------------
\* Every non-empty set of naturals has a least element.
LEMMA LeastNat ==
    ASSUME NEW S, S \subseteq Nat, S # {}
    PROVE  \E x \in S : \A y \in S : x <= y
<1> DEFINE R == OpToRel(<, Nat)
<1>1. IsWellFoundedOn(R, Nat)
  BY NatLessThanWellFounded, Zenon
<1>2. \A x, y \in Nat : y < x => <<y, x>> \in R
  BY DEF OpToRel
<1> HIDE DEF R
<1>3. PICK x \in S : \A y \in S : ~ (<<y, x>> \in R)
  BY <1>1, WFMin, Zenon
<1>4. \A y \in S : ~ (y < x)
  BY <1>2, <1>3, Zenon
<1>5. \A y \in S : x <= y
  BY <1>4
<1> QED BY <1>5

\* The loop of ac_add_prot_task() finds a free slot if there is one.
LEMMA FirstFreeIsFree ==
    ASSUME Free # {}
    PROVE  FirstFree \in Free
<1>1. Free \subseteq Nat
  BY RegistryAssumption DEF Free, Slot
<1>2. \E s \in Free : \A r \in Free : s <= r
  BY <1>1, LeastNat, Zenon
<1> QED BY <1>2 DEF FirstFree

\* A registered task is in the slot that the loops find.
LEMMA SlotOfHolds ==
    ASSUME NEW t, Registered(t)
    PROVE  SlotOf(t) \in Slot /\ ac_prots[SlotOf(t)].task = t
BY DEF Registered, SlotOf

\* The sets the cardinalities are taken of are finite.
FiniteHolders ==
    /\ IsFiniteSet(Slot) /\ Cardinality(Slot) = AC_PROT_MAX
    /\ IsFiniteSet(Occupied) /\ Cardinality(Occupied) \in 0 .. AC_PROT_MAX
    /\ \A u : /\ IsFiniteSet(SlotsOf(u)) /\ Cardinality(SlotsOf(u)) \in Nat
              /\ IsFiniteSet(HandlersOn(u)) /\ Cardinality(HandlersOn(u)) \in Nat
              /\ IsFiniteSet(CallsOn(u)) /\ Cardinality(CallsOn(u)) \in Nat

\* They are, in every state.
LEMMA AllFinite == FiniteHolders
<1>1. IsFiniteSet(Slot) /\ Cardinality(Slot) = AC_PROT_MAX
  <2>1. 1 \in Int /\ AC_PROT_MAX \in Int /\ ~ (1 > AC_PROT_MAX)
    BY RegistryAssumption
  <2> QED BY <2>1, FS_Interval DEF Slot
<1>2. IsFiniteSet(Occupied) /\ Cardinality(Occupied) \in 0 .. AC_PROT_MAX
  <2>1. Occupied \in SUBSET Slot
    BY DEF Occupied
  <2>2. IsFiniteSet(Occupied) /\ Cardinality(Occupied) <= AC_PROT_MAX
    BY <1>1, <2>1, FS_Subset
  <2>3. Cardinality(Occupied) \in Nat
    BY <2>2, FS_CardinalityType
  <2> QED BY <2>2, <2>3, RegistryAssumption
<1>3. ASSUME NEW u
      PROVE  /\ IsFiniteSet(SlotsOf(u)) /\ Cardinality(SlotsOf(u)) \in Nat
             /\ IsFiniteSet(HandlersOn(u)) /\ Cardinality(HandlersOn(u)) \in Nat
             /\ IsFiniteSet(CallsOn(u)) /\ Cardinality(CallsOn(u)) \in Nat
  <2>1. SlotsOf(u) \in SUBSET Slot /\ HandlersOn(u) \in SUBSET Task /\ CallsOn(u) \in SUBSET Admin
    BY DEF SlotsOf, HandlersOn, CallsOn
  <2>2. IsFiniteSet(SlotsOf(u)) /\ IsFiniteSet(HandlersOn(u)) /\ IsFiniteSet(CallsOn(u))
    BY <1>1, <2>1, FS_Subset, RegistryAssumption
  <2> QED BY <2>2, FS_CardinalityType
<1> QED BY <1>1, <1>2, <1>3 DEF FiniteHolders

\* The same of the next state.
LEMMA AllFinitePrime == FiniteHolders'
BY AllFinite, PTL

\* The locals of a task on its CPU, and a slot of the table.
CpuRecord == [at : {"user", "clone_ret", "clone_find", "clone_jit", "clone_add", "clone_emit",
                    "exit_del"},
              pid : Pid \cup {NULL}, child : Task \cup {NULL}, jit : BOOLEAN]

SlotRecord == [task : Task \cup {NULL}, pid : Pid \cup {NULL}, jit_allowed : BOOLEAN]

\* What ac_add_prot_task(t) does to the table and to the count.
LEMMA AddEffect ==
    ASSUME TypeOK, CountExact, NEW t \in Task, NEW jit \in BOOLEAN, AddProtTask(t, jit)
    PROVE  /\ ac_prots' \in [Slot -> SlotRecord]
           /\ ac_prot_count' \in 0 .. AC_PROT_MAX
           /\ CountExact'
           /\ Cardinality(SlotsOf(t)') = Cardinality(SlotsOf(t)) + Kept(t)
           /\ \A u \in Task \ {t} : SlotsOf(u)' = SlotsOf(u)
           /\ ever' \subseteq Task /\ late' \subseteq Task
<1> USE DEF SlotRecord, FiniteHolders
<1>0. NULL \notin Task /\ t # NULL
  BY RegistryAssumption
<1>1. CASE AddKnown(t, jit)
  <2>1. SlotOf(t) \in Slot
    BY <1>1, SlotOfHolds DEF AddKnown
  <2>2. ac_prots' \in [Slot -> SlotRecord] /\ \A s \in Slot : ac_prots'[s].task = ac_prots[s].task
    BY <1>1, <2>1 DEF AddKnown, TypeOK
  <2>3. Occupied' = Occupied /\ \A u : SlotsOf(u)' = SlotsOf(u)
    BY <2>2 DEF Occupied, Free, SlotsOf
  <2>4. Kept(t) = 0
    BY <1>1 DEF AddKnown, Kept
  <2>5. CountExact'
    BY <1>1, <2>2, <2>3 DEF AddKnown, CountExact
  <2> QED BY <1>1, <2>2, <2>3, <2>4, <2>5, AllFinite DEF AddKnown, TypeOK
<1>2. CASE AddNew(t, jit)
  <2> DEFINE f == FirstFree
  <2>1. f \in Slot /\ ac_prots[f].task = NULL /\ f \notin Occupied
    BY <1>2, FirstFreeIsFree DEF AddNew, Free, Occupied
  <2> HIDE DEF f
  <2>2. ac_prots' = [ac_prots EXCEPT ![f] = [task |-> t, pid |-> pidof[t], jit_allowed |-> jit]]
    BY <1>2 DEF AddNew, f
  <2>3. /\ ac_prots' \in [Slot -> SlotRecord]
        /\ ac_prots'[f].task = t
        /\ \A s \in Slot \ {f} : ac_prots'[s].task = ac_prots[s].task
    BY <2>1, <2>2 DEF TypeOK
  <2>4. Occupied' = Occupied \cup {f}
    BY <1>0, <2>1, <2>3 DEF Occupied, Free
  <2>5. SlotsOf(t)' = SlotsOf(t) \cup {f} /\ f \notin SlotsOf(t)
    BY <1>0, <2>1, <2>3 DEF SlotsOf
  <2>6. \A u \in Task \ {t} : SlotsOf(u)' = SlotsOf(u)
    BY <1>0, <2>1, <2>3 DEF SlotsOf
  <2>7. Cardinality(SlotsOf(t)') = Cardinality(SlotsOf(t)) + 1
    BY <2>5, AllFinite, FS_AddElement, Zenon
  <2>8. Cardinality(Occupied') = Cardinality(Occupied) + 1
    BY <2>1, <2>4, AllFinite, FS_AddElement, Zenon
  <2>9. ac_prot_count' = Cardinality(Occupied')
    BY <1>2, <2>8 DEF AddNew, CountExact
  <2>10. \A r, s \in Slot : ac_prots'[r].task = ac_prots'[s].task /\ ac_prots'[r].task # NULL => r = s
    BY <1>2, <2>1, <2>3 DEF AddNew, Registered, CountExact
  <2>11. ac_prot_count' \in 0 .. AC_PROT_MAX
    <3>1. Occupied' \in SUBSET Slot /\ IsFiniteSet(Slot) /\ Cardinality(Slot) = AC_PROT_MAX
      BY <2>1, <2>4, AllFinite DEF Occupied
    <3>2. Cardinality(Occupied') <= AC_PROT_MAX
      BY <3>1, FS_Subset
    <3> QED BY <2>8, <2>9, <3>2, AllFinite, RegistryAssumption
  <2>12. Kept(t) = 1
    BY <1>2 DEF AddNew, Kept
  <2>13. ever' \subseteq Task /\ late' \subseteq Task
    BY <1>2 DEF AddNew, TypeOK
  <2>14. CountExact'
    BY <2>9, <2>10 DEF CountExact
  <2> QED BY <2>3, <2>6, <2>7, <2>11, <2>12, <2>13, <2>14
<1>3. CASE AddNoSpace(t, jit)
  <2>1. Kept(t) = 0
    BY <1>3 DEF AddNoSpace, Kept
  <2>2. UNCHANGED <<ac_prots, ac_prot_count, ever, late>>
    BY <1>3 DEF AddNoSpace
  <2>3. Occupied' = Occupied /\ \A u : SlotsOf(u)' = SlotsOf(u)
    BY <2>2 DEF Occupied, Free, SlotsOf
  <2>4. CountExact'
    BY <2>2, <2>3 DEF CountExact
  <2> QED BY <2>1, <2>2, <2>3, <2>4, AllFinite DEF TypeOK
<1> QED BY <1>1, <1>2, <1>3 DEF AddProtTask

\* What ac_del_prot_task(t) does to the table and to the count.
LEMMA DelEffect ==
    ASSUME TypeOK, CountExact, NEW t \in Task, DelProtTask(t)
    PROVE  /\ ac_prots' \in [Slot -> SlotRecord]
           /\ ac_prot_count' \in 0 .. AC_PROT_MAX
           /\ CountExact'
           /\ Cardinality(SlotsOf(t)') = Cardinality(SlotsOf(t)) - Dropped(t)
           /\ \A u \in Task \ {t} : SlotsOf(u)' = SlotsOf(u)
           /\ ~Registered(t)'
<1> USE DEF SlotRecord, FiniteHolders
<1>0. NULL \notin Task /\ t # NULL
  BY RegistryAssumption
<1>1. CASE DelKnown(t)
  <2> DEFINE f == SlotOf(t)
  <2>1. f \in Slot /\ ac_prots[f].task = t
    BY <1>1, SlotOfHolds DEF DelKnown
  <2> HIDE DEF f
  <2>2. ac_prots' = [ac_prots EXCEPT ![f].task = NULL]
    BY <1>1 DEF DelKnown, f
  <2>3. /\ ac_prots' \in [Slot -> SlotRecord]
        /\ ac_prots'[f].task = NULL
        /\ \A s \in Slot \ {f} : ac_prots'[s].task = ac_prots[s].task
    BY <2>1, <2>2 DEF TypeOK
  <2>4. Occupied' = Occupied \ {f} /\ f \in Occupied
    BY <1>0, <2>1, <2>3 DEF Occupied, Free
  <2>5. SlotsOf(t)' = SlotsOf(t) \ {f} /\ f \in SlotsOf(t)
    BY <1>0, <2>1, <2>3 DEF SlotsOf
  <2>6. \A u \in Task \ {t} : SlotsOf(u)' = SlotsOf(u)
    BY <1>0, <2>1, <2>3 DEF SlotsOf
  <2>7. Cardinality(SlotsOf(t)') = Cardinality(SlotsOf(t)) - 1
    BY <2>5, AllFinite, FS_RemoveElement, Zenon
  <2>8. Cardinality(Occupied') = Cardinality(Occupied) - 1
    BY <2>4, AllFinite, FS_RemoveElement, Zenon
  <2>9. ac_prot_count' = Cardinality(Occupied')
    BY <1>1, <2>8 DEF DelKnown, CountExact
  <2>10. \A r, s \in Slot : ac_prots'[r].task = ac_prots'[s].task /\ ac_prots'[r].task # NULL => r = s
    BY <2>1, <2>3 DEF CountExact
  <2>11. ac_prot_count' \in 0 .. AC_PROT_MAX
    <3>1. Occupied # {}
      BY <2>4
    <3>2. Cardinality(Occupied) # 0
      BY <3>1, AllFinite, FS_EmptySet
    <3> QED BY <2>8, <2>9, <3>2, AllFinite, RegistryAssumption
  <2>12. Dropped(t) = 1
    BY <1>1 DEF DelKnown, Dropped
  <2>13. ~Registered(t)'
    BY <1>0, <2>1, <2>3 DEF Registered, CountExact
  <2>14. CountExact'
    BY <2>9, <2>10 DEF CountExact
  <2> QED BY <2>3, <2>6, <2>7, <2>11, <2>12, <2>13, <2>14
<1>2. CASE DelUnknown(t)
  <2>1. Dropped(t) = 0
    BY <1>2 DEF DelUnknown, Dropped
  <2>2. UNCHANGED <<ac_prots, ac_prot_count>>
    BY <1>2 DEF DelUnknown
  <2>3. Occupied' = Occupied /\ \A u : SlotsOf(u)' = SlotsOf(u)
    BY <2>2 DEF Occupied, Free, SlotsOf
  <2>4. CountExact'
    BY <2>2, <2>3 DEF CountExact
  <2>5. ~Registered(t)'
    BY <1>2, <2>2 DEF DelUnknown, Registered
  <2> QED BY <2>1, <2>2, <2>3, <2>4, <2>5, AllFinite DEF TypeOK
<1> QED BY <1>1, <1>2 DEF DelProtTask

-----------------------------------------------------------------------------
\* A step that moves the references on t, and those alone, by as much as it moves
\* what holds them keeps the balance.
LEMMA RefsStep ==
    ASSUME TypeOK, RefsExact, NEW t \in Task, NEW d \in Int,
           refs' = [refs EXCEPT ![t] = refs[t] + d],
           \A u \in Task \ {t} : /\ SlotsOf(u)' = SlotsOf(u)
                                 /\ HandlersOn(u)' = HandlersOn(u)
                                 /\ CallsOn(u)' = CallsOn(u),
           Cardinality(SlotsOf(t)') + Cardinality(HandlersOn(t)') + Cardinality(CallsOn(t)')
             = Cardinality(SlotsOf(t)) + Cardinality(HandlersOn(t)) + Cardinality(CallsOn(t)) + d
    PROVE  RefsExact' /\ refs' \in [Task -> Nat]
<1>1. refs \in [Task -> Nat]
  BY DEF TypeOK
<1>2. refs[t] + d = Cardinality(SlotsOf(t)') + Cardinality(HandlersOn(t)') + Cardinality(CallsOn(t)')
  BY <1>1, AllFinite DEF RefsExact, FiniteHolders
<1>3. refs[t] + d \in Nat
  BY <1>2, AllFinitePrime DEF FiniteHolders
<1>4. refs' \in [Task -> Nat]
  BY <1>1, <1>3
<1>5. ASSUME NEW u \in Task
      PROVE  refs'[u] = Cardinality(SlotsOf(u)') + Cardinality(HandlersOn(u)') + Cardinality(CallsOn(u)')
  <2>1. CASE u = t
    BY <1>1, <1>2, <2>1
  <2>2. CASE u # t
    BY <1>1, <2>2 DEF RefsExact
  <2> QED BY <2>1, <2>2
<1> QED BY <1>4, <1>5 DEF RefsExact

\* A step that leaves the references and all holders alone keeps it too.
LEMMA RefsSame ==
    ASSUME TypeOK, RefsExact, UNCHANGED refs,
           \A u \in Task : /\ SlotsOf(u)' = SlotsOf(u)
                           /\ HandlersOn(u)' = HandlersOn(u)
                           /\ CallsOn(u)' = CallsOn(u)
    PROVE  RefsExact' /\ refs' \in [Task -> Nat]
BY DEF RefsExact, TypeOK

\* A step that leaves the table alone keeps the count exact.
LEMMA TableSame ==
    ASSUME CountExact, UNCHANGED <<ac_prots, ac_prot_count>>
    PROVE  CountExact' /\ \A u : SlotsOf(u)' = SlotsOf(u) /\ Registered(u)' = Registered(u)
BY DEF CountExact, Occupied, Free, SlotsOf, Registered

-----------------------------------------------------------------------------
(* The invariant, action by action.                                         *)

\* The lookup of ADD_PROC and DEL_PROC takes one reference for the ioctl.
LEMMA BeginCallStep ==
    ASSUME RegistryInv, NEW a \in Admin, NEW t \in Task, NEW at \in {"add", "del"},
           NEW jit \in BOOLEAN, BeginCall(a, t, at, jit)
    PROVE  RegistryInv'
<1>0. t # NULL
  BY RegistryAssumption
<1>1. adm' = [adm EXCEPT ![a] = [at |-> at, task |-> t, jit |-> jit]]
  BY DEF BeginCall
<1>2. adm[a].task = NULL
  BY DEF BeginCall, Locals, RegistryInv
<1>3. CallsOn(t)' = CallsOn(t) \cup {a} /\ a \notin CallsOn(t)
  BY <1>0, <1>1, <1>2 DEF CallsOn, TypeOK, RegistryInv
<1>4. \A u \in Task \ {t} : CallsOn(u)' = CallsOn(u)
  BY <1>1, <1>2, RegistryAssumption DEF CallsOn, TypeOK, RegistryInv
<1>5. \A u : HandlersOn(u)' = HandlersOn(u)
  BY DEF BeginCall, HandlersOn
<1>6. CountExact' /\ \A u : SlotsOf(u)' = SlotsOf(u)
  BY TableSame DEF BeginCall, RegistryInv
<1>7. Cardinality(CallsOn(t)') = Cardinality(CallsOn(t)) + 1
  BY <1>3, AllFinite, FS_AddElement, Zenon DEF FiniteHolders
<1>8. RefsExact' /\ refs' \in [Task -> Nat]
  <2>1. refs' = [refs EXCEPT ![t] = refs[t] + 1]
    BY DEF BeginCall
  <2>2. Cardinality(SlotsOf(t)') + Cardinality(HandlersOn(t)') + Cardinality(CallsOn(t)')
          = Cardinality(SlotsOf(t)) + Cardinality(HandlersOn(t)) + Cardinality(CallsOn(t)) + 1
    BY <1>5, <1>6, <1>7, AllFinite DEF FiniteHolders
  <2>3. \A u \in Task \ {t} : /\ SlotsOf(u)' = SlotsOf(u)
                              /\ HandlersOn(u)' = HandlersOn(u)
                              /\ CallsOn(u)' = CallsOn(u)
    BY <1>4, <1>5, <1>6
  <2>4. 1 \in Int
    OBVIOUS
  <2> QED BY <2>1, <2>2, <2>3, <2>4, RefsStep, Zenon DEF RegistryInv
<1>9. Locals'
  BY <1>0, <1>1 DEF BeginCall, Locals, TypeOK, RegistryInv
<1>10. TypeOK'
  BY <1>1, <1>8 DEF BeginCall, TypeOK, history, RegistryInv
<1> QED BY <1>6, <1>8, <1>9, <1>10 DEF RegistryInv

\* The locked section of ADD_PROC keeps the reference only for a new slot.
LEMMA AddProcStep ==
    ASSUME RegistryInv, NEW a \in Admin, AddProc(a)
    PROVE  RegistryInv'
<1>a. PICK t \in Task, jit \in BOOLEAN : t = adm[a].task /\ jit = adm[a].jit
  BY DEF AddProc, Locals, TypeOK, RegistryInv
<1>0. t # NULL
  BY RegistryAssumption
<1>1. adm' = [adm EXCEPT ![a] = NoCall]
  BY DEF AddProc
<1>2. AddProtTask(t, jit)
  BY <1>a DEF AddProc
<1>3. CallsOn(t)' = CallsOn(t) \ {a} /\ a \in CallsOn(t)
  BY <1>a, <1>0, <1>1 DEF CallsOn, TypeOK, NoCall, RegistryInv
<1>4. \A u \in Task \ {t} : CallsOn(u)' = CallsOn(u)
  BY <1>a, <1>1, RegistryAssumption DEF CallsOn, TypeOK, NoCall, RegistryInv
<1>5. \A u : HandlersOn(u)' = HandlersOn(u)
  BY DEF AddProc, HandlersOn
<1>6. refs' = [refs EXCEPT ![t] = refs[t] + Kept(t) - 1]
  BY <1>a DEF AddProc
<1>7. Locals'
  BY <1>1 DEF AddProc, Locals, TypeOK, NoCall, RegistryInv
<1>71. UNCHANGED <<life, pidof, cpu, parent>> /\ heirs' \subseteq heirs
  BY DEF AddProc, Touch
<1>8. /\ ac_prots' \in [Slot -> SlotRecord]
      /\ ac_prot_count' \in 0 .. AC_PROT_MAX
      /\ CountExact'
      /\ Cardinality(SlotsOf(t)') = Cardinality(SlotsOf(t)) + Kept(t)
      /\ \A u \in Task \ {t} : SlotsOf(u)' = SlotsOf(u)
      /\ ever' \subseteq Task /\ late' \subseteq Task
  BY <1>0, <1>2, AddEffect DEF RegistryInv
<1>9. Cardinality(CallsOn(t)') = Cardinality(CallsOn(t)) - 1
  BY <1>3, AllFinite, FS_RemoveElement, Zenon DEF FiniteHolders
<1>10. RefsExact' /\ refs' \in [Task -> Nat]
  <2>1. Kept(t) \in Int /\ Kept(t) - 1 \in Int
    BY DEF Kept
  <2>2. Cardinality(SlotsOf(t)') + Cardinality(HandlersOn(t)') + Cardinality(CallsOn(t)')
          = Cardinality(SlotsOf(t)) + Cardinality(HandlersOn(t)) + Cardinality(CallsOn(t))
            + (Kept(t) - 1)
    BY <1>5, <1>8, <1>9, <2>1, AllFinite DEF FiniteHolders
  <2>3. refs' = [refs EXCEPT ![t] = refs[t] + (Kept(t) - 1)]
    BY <1>6, <2>1 DEF TypeOK, RegistryInv
  <2>4. \A u \in Task \ {t} : /\ SlotsOf(u)' = SlotsOf(u)
                              /\ HandlersOn(u)' = HandlersOn(u)
                              /\ CallsOn(u)' = CallsOn(u)
    BY <1>4, <1>5, <1>8
  <2> QED BY <2>1, <2>2, <2>3, <2>4, RefsStep, Zenon DEF RegistryInv
<1>11. TypeOK'
  BY <1>1, <1>71, <1>8, <1>10 DEF TypeOK, NoCall, SlotRecord, RegistryInv
<1> QED BY <1>7, <1>8, <1>10, <1>11 DEF RegistryInv

\* The locked section of DEL_PROC drops the slot's reference and its own.
LEMMA DelProcStep ==
    ASSUME RegistryInv, NEW a \in Admin, DelProc(a)
    PROVE  RegistryInv'
<1>a. PICK t \in Task : t = adm[a].task
  BY DEF DelProc, Locals, TypeOK, RegistryInv
<1>0. t # NULL
  BY RegistryAssumption
<1>1. adm' = [adm EXCEPT ![a] = NoCall]
  BY DEF DelProc
<1>2. DelProtTask(t)
  BY <1>a DEF DelProc
<1>3. CallsOn(t)' = CallsOn(t) \ {a} /\ a \in CallsOn(t)
  BY <1>a, <1>0, <1>1 DEF CallsOn, TypeOK, NoCall, RegistryInv
<1>4. \A u \in Task \ {t} : CallsOn(u)' = CallsOn(u)
  BY <1>a, <1>1, RegistryAssumption DEF CallsOn, TypeOK, NoCall, RegistryInv
<1>5. \A u : HandlersOn(u)' = HandlersOn(u)
  BY DEF DelProc, HandlersOn
<1>6. refs' = [refs EXCEPT ![t] = refs[t] - Dropped(t) - 1]
  BY <1>a DEF DelProc
<1>7. Locals'
  BY <1>1, SMTT(30) DEF DelProc, Locals, TypeOK, NoCall, RegistryInv
<1>71. UNCHANGED <<life, pidof, cpu, parent, ever, late>> /\ heirs' \subseteq heirs
  BY DEF DelProc, Touch
<1>8. /\ ac_prots' \in [Slot -> SlotRecord]
      /\ ac_prot_count' \in 0 .. AC_PROT_MAX
      /\ CountExact'
      /\ Cardinality(SlotsOf(t)') = Cardinality(SlotsOf(t)) - Dropped(t)
      /\ \A u \in Task \ {t} : SlotsOf(u)' = SlotsOf(u)
  BY <1>0, <1>2, DelEffect DEF RegistryInv
<1>9. Cardinality(CallsOn(t)') = Cardinality(CallsOn(t)) - 1
  BY <1>3, AllFinite, FS_RemoveElement, Zenon DEF FiniteHolders
<1>10. RefsExact' /\ refs' \in [Task -> Nat]
  <2>1. Dropped(t) \in Int /\ 0 - Dropped(t) - 1 \in Int
    BY DEF Dropped
  <2>2. Cardinality(SlotsOf(t)') + Cardinality(HandlersOn(t)') + Cardinality(CallsOn(t)')
          = Cardinality(SlotsOf(t)) + Cardinality(HandlersOn(t)) + Cardinality(CallsOn(t))
            + (0 - Dropped(t) - 1)
    BY <1>5, <1>8, <1>9, <2>1, AllFinite DEF FiniteHolders
  <2>3. refs' = [refs EXCEPT ![t] = refs[t] + (0 - Dropped(t) - 1)]
    <3>1. refs[t] - Dropped(t) - 1 = refs[t] + (0 - Dropped(t) - 1)
      BY <2>1 DEF TypeOK, RegistryInv
    <3> QED BY <1>6, <3>1, Zenon
  <2>4. \A u \in Task \ {t} : /\ SlotsOf(u)' = SlotsOf(u)
                              /\ HandlersOn(u)' = HandlersOn(u)
                              /\ CallsOn(u)' = CallsOn(u)
    BY <1>4, <1>5, <1>8
  <2> QED BY <2>1, <2>2, <2>3, <2>4, RefsStep, Zenon DEF RegistryInv
<1>11. TypeOK'
  BY <1>1, <1>71, <1>8, <1>10 DEF TypeOK, NoCall, SlotRecord, RegistryInv
<1> QED BY <1>7, <1>8, <1>10, <1>11 DEF RegistryInv

\* The lookup of the fork handler takes a reference if it finds a task.
LEMMA CloneFindStep ==
    ASSUME RegistryInv, NEW p \in Task, CloneFind(p)
    PROVE  RegistryInv'
<1>0. cpu[p].child = NULL /\ NULL \notin Task
  BY RegistryAssumption DEF CloneFind, Locals, RegistryInv
<1>1. CountExact' /\ \A u : SlotsOf(u)' = SlotsOf(u)
  BY TableSame DEF CloneFind, RegistryInv
<1>2. \A u : CallsOn(u)' = CallsOn(u)
  BY DEF CloneFind, CallsOn
<1>3. UNCHANGED <<life, pidof, ac_prots, ac_prot_count, adm, history>>
  BY DEF CloneFind
<1>4. CASE Leave(p) /\ UNCHANGED refs
  <2>1. cpu' = [cpu EXCEPT ![p] = InUser]
    BY <1>4 DEF Leave
  <2>2. \A u \in Task : HandlersOn(u)' = HandlersOn(u)
    BY <1>0, <2>1 DEF HandlersOn, TypeOK, InUser, RegistryInv
  <2>3. RefsExact' /\ refs' \in [Task -> Nat]
    BY <1>1, <1>2, <1>4, <2>2, RefsSame DEF RegistryInv
  <2>4. Locals'
    BY <1>3, <2>1 DEF Locals, TypeOK, InUser, RegistryInv
  <2>5. TypeOK'
    BY <1>3, <2>1, <2>3, Zenon DEF TypeOK, InUser, history, RegistryInv
  <2> QED BY <1>1, <2>3, <2>4, <2>5 DEF RegistryInv
<1>5. ASSUME NEW t \in Task,
             cpu' = [cpu EXCEPT ![p].at = "clone_jit", ![p].child = t],
             refs' = [refs EXCEPT ![t] = @ + 1]
      PROVE  RegistryInv'
  <2>0. t # NULL
    BY <1>0
  <2>1. /\ cpu' \in [Task -> CpuRecord]
        /\ cpu'[p].child = t /\ cpu'[p].at = "clone_jit"
        /\ \A q \in Task \ {p} : cpu'[q] = cpu[q]
    <3> DEFINE mid == [cpu EXCEPT ![p].at = "clone_jit"]
    <3>1. cpu \in [Task -> CpuRecord]
      BY DEF TypeOK, CpuRecord, RegistryInv
    <3>2. /\ mid \in [Task -> CpuRecord] /\ mid[p].at = "clone_jit"
          /\ \A q \in Task \ {p} : mid[q] = cpu[q]
      BY <3>1 DEF CpuRecord
    <3>3. cpu' = [mid EXCEPT ![p].child = t]
      BY <1>5, <3>1
    <3> HIDE DEF mid
    <3> QED BY <3>2, <3>3 DEF CpuRecord
  <2>2. HandlersOn(t)' = HandlersOn(t) \cup {p} /\ p \notin HandlersOn(t)
    BY <1>0, <2>0, <2>1 DEF HandlersOn
  <2>3. \A u \in Task \ {t} : HandlersOn(u)' = HandlersOn(u)
    BY <1>0, <2>1 DEF HandlersOn
  <2>4. Cardinality(HandlersOn(t)') = Cardinality(HandlersOn(t)) + 1
    BY <2>2, AllFinite, FS_AddElement, Zenon DEF FiniteHolders
  <2>5. RefsExact' /\ refs' \in [Task -> Nat]
    <3>1. Cardinality(SlotsOf(t)') + Cardinality(HandlersOn(t)') + Cardinality(CallsOn(t)')
            = Cardinality(SlotsOf(t)) + Cardinality(HandlersOn(t)) + Cardinality(CallsOn(t)) + 1
      BY <1>1, <1>2, <2>4, AllFinite DEF FiniteHolders
    <3>2. \A u \in Task \ {t} : /\ SlotsOf(u)' = SlotsOf(u)
                                /\ HandlersOn(u)' = HandlersOn(u)
                                /\ CallsOn(u)' = CallsOn(u)
      BY <1>1, <1>2, <2>3
    <3>3. 1 \in Int /\ refs' = [refs EXCEPT ![t] = refs[t] + 1]
      BY <1>5
    <3> QED BY <3>1, <3>2, <3>3, RefsStep, Zenon DEF RegistryInv
  <2>6. Locals'
    BY <1>3, <2>0, <2>1 DEF Locals, RegistryInv
  <2>7. TypeOK'
    BY <1>3, <2>1, <2>5 DEF TypeOK, history, CpuRecord, RegistryInv
  <2> QED BY <1>1, <2>5, <2>6, <2>7 DEF RegistryInv
<1>6. \A t \in Found(cpu[p].pid) : t \in Task
  BY DEF Found
<1> QED BY <1>4, <1>5, <1>6 DEF CloneFind, RegistryInv

\* The add of the fork handler keeps one more reference for a new slot.
LEMMA CloneAddStep ==
    ASSUME RegistryInv, NEW p \in Task, CloneAdd(p)
    PROVE  RegistryInv'
<1>a. PICK t \in Task, jit \in BOOLEAN : t = cpu[p].child /\ jit = cpu[p].jit
  BY DEF CloneAdd, Locals, TypeOK, RegistryInv
<1>1. cpu' = [cpu EXCEPT ![p].at = "clone_emit"]
  BY DEF CloneAdd
<1>2. AddProtTask(t, jit)
  BY <1>a DEF CloneAdd
<1>4. \A u : CallsOn(u)' = CallsOn(u)
  BY DEF CloneAdd, CallsOn
<1>5. \A u : HandlersOn(u)' = HandlersOn(u)
  BY <1>1 DEF HandlersOn, TypeOK, RegistryInv
<1>6. refs' = [refs EXCEPT ![t] = refs[t] + Kept(t)]
  BY <1>a DEF CloneAdd
<1>7. Locals'
  BY <1>1 DEF CloneAdd, Locals, TypeOK, RegistryInv
<1>71. UNCHANGED <<life, pidof, adm, parent>> /\ heirs' \subseteq heirs
  BY DEF CloneAdd
<1>8. /\ ac_prots' \in [Slot -> SlotRecord]
      /\ ac_prot_count' \in 0 .. AC_PROT_MAX
      /\ CountExact'
      /\ Cardinality(SlotsOf(t)') = Cardinality(SlotsOf(t)) + Kept(t)
      /\ \A u \in Task \ {t} : SlotsOf(u)' = SlotsOf(u)
      /\ ever' \subseteq Task /\ late' \subseteq Task
  BY <1>2, AddEffect DEF RegistryInv
<1>10. RefsExact' /\ refs' \in [Task -> Nat]
  <2>1. Kept(t) \in Int
    BY DEF Kept
  <2>2. Cardinality(SlotsOf(t)') + Cardinality(HandlersOn(t)') + Cardinality(CallsOn(t)')
          = Cardinality(SlotsOf(t)) + Cardinality(HandlersOn(t)) + Cardinality(CallsOn(t)) + Kept(t)
    BY <1>4, <1>5, <1>8, <2>1, AllFinite DEF FiniteHolders
  <2>4. \A u \in Task \ {t} : /\ SlotsOf(u)' = SlotsOf(u)
                              /\ HandlersOn(u)' = HandlersOn(u)
                              /\ CallsOn(u)' = CallsOn(u)
    BY <1>4, <1>5, <1>8
  <2> QED BY <1>6, <2>1, <2>2, <2>4, RefsStep, Zenon DEF RegistryInv
<1>11. TypeOK'
  <2>1. cpu' \in [Task -> CpuRecord]
    BY <1>1, SMTT(30) DEF TypeOK, CpuRecord, RegistryInv
  <2> QED BY <1>71, <1>8, <1>10, <2>1 DEF TypeOK, SlotRecord, CpuRecord, RegistryInv
<1> QED BY <1>7, <1>8, <1>10, <1>11 DEF RegistryInv

\* The fork handler drops its reference at the end.
LEMMA CloneEmitStep ==
    ASSUME RegistryInv, NEW p \in Task, CloneEmit(p)
    PROVE  RegistryInv'
<1>a. PICK t \in Task : t = cpu[p].child
  BY DEF CloneEmit, Locals, TypeOK, RegistryInv
<1>0. NULL \notin Task
  BY RegistryAssumption
<1>1. cpu' = [cpu EXCEPT ![p] = InUser]
  BY DEF CloneEmit, Leave
<1>2. CountExact' /\ \A u : SlotsOf(u)' = SlotsOf(u)
  BY TableSame, SMTT(30) DEF CloneEmit, RegistryInv
<1>3. \A u : CallsOn(u)' = CallsOn(u)
  BY DEF CloneEmit, CallsOn
<1>4. HandlersOn(t)' = HandlersOn(t) \ {p} /\ p \in HandlersOn(t)
  BY <1>a, <1>0, <1>1 DEF HandlersOn, TypeOK, InUser, RegistryInv
<1>5. \A u \in Task \ {t} : HandlersOn(u)' = HandlersOn(u)
  BY <1>a, <1>0, <1>1 DEF HandlersOn, TypeOK, InUser, RegistryInv
<1>6. Cardinality(HandlersOn(t)') = Cardinality(HandlersOn(t)) - 1
  BY <1>4, AllFinite, FS_RemoveElement, Zenon DEF FiniteHolders
<1>7. RefsExact' /\ refs' \in [Task -> Nat]
  <2>1. Cardinality(SlotsOf(t)') + Cardinality(HandlersOn(t)') + Cardinality(CallsOn(t)')
          = Cardinality(SlotsOf(t)) + Cardinality(HandlersOn(t)) + Cardinality(CallsOn(t)) + (0 - 1)
    BY <1>2, <1>3, <1>6, AllFinite DEF FiniteHolders
  <2>2. refs' = [refs EXCEPT ![t] = refs[t] + (0 - 1)]
    <3>1. refs[t] - 1 = refs[t] + (0 - 1)
      BY DEF TypeOK, RegistryInv
    <3> QED BY <1>a, <3>1, Zenon DEF CloneEmit
  <2>3. \A u \in Task \ {t} : /\ SlotsOf(u)' = SlotsOf(u)
                              /\ HandlersOn(u)' = HandlersOn(u)
                              /\ CallsOn(u)' = CallsOn(u)
    BY <1>2, <1>3, <1>5
  <2>4. 0 - 1 \in Int
    OBVIOUS
  <2> QED BY <2>1, <2>2, <2>3, <2>4, RefsStep, Zenon DEF RegistryInv
<1>8. Locals'
  BY <1>1 DEF CloneEmit, Locals, TypeOK, InUser, RegistryInv
<1>9. TypeOK'
  BY <1>1, <1>7 DEF CloneEmit, TypeOK, InUser, history, RegistryInv
<1> QED BY <1>2, <1>7, <1>8, <1>9 DEF RegistryInv

\* The exit handler drops the reference of the slot it clears.
LEMMA ExitDelStep ==
    ASSUME RegistryInv, NEW t \in Task, ExitDel(t)
    PROVE  RegistryInv'
<1>0. cpu[t].child = NULL /\ NULL \notin Task
  BY RegistryAssumption DEF ExitDel, Locals, RegistryInv
<1>1. cpu' = [cpu EXCEPT ![t] = InUser]
  BY DEF ExitDel, Leave
<1>2. DelProtTask(t)
  BY DEF ExitDel
<1>4. \A u : CallsOn(u)' = CallsOn(u)
  BY DEF ExitDel, CallsOn
<1>5. \A u \in Task : HandlersOn(u)' = HandlersOn(u)
  BY <1>0, <1>1 DEF HandlersOn, TypeOK, InUser, RegistryInv
<1>7. Locals'
  BY <1>1 DEF ExitDel, Locals, TypeOK, InUser, RegistryInv
<1>8. /\ ac_prots' \in [Slot -> SlotRecord]
      /\ ac_prot_count' \in 0 .. AC_PROT_MAX
      /\ CountExact'
      /\ Cardinality(SlotsOf(t)') = Cardinality(SlotsOf(t)) - Dropped(t)
      /\ \A u \in Task \ {t} : SlotsOf(u)' = SlotsOf(u)
  BY <1>2, DelEffect DEF RegistryInv
<1>10. RefsExact' /\ refs' \in [Task -> Nat]
  <2>1. Dropped(t) \in Int /\ 0 - Dropped(t) \in Int
    BY SMTT(30) DEF Dropped
  <2>2. Cardinality(SlotsOf(t)') + Cardinality(HandlersOn(t)') + Cardinality(CallsOn(t)')
          = Cardinality(SlotsOf(t)) + Cardinality(HandlersOn(t)) + Cardinality(CallsOn(t))
            + (0 - Dropped(t))
    BY <1>4, <1>5, <1>8, <2>1, AllFinite DEF FiniteHolders
  <2>3. refs' = [refs EXCEPT ![t] = refs[t] + (0 - Dropped(t))]
    <3>1. refs[t] - Dropped(t) = refs[t] + (0 - Dropped(t))
      BY <2>1 DEF TypeOK, RegistryInv
    <3> QED BY <3>1, Zenon DEF ExitDel
  <2>4. \A u \in Task \ {t} : /\ SlotsOf(u)' = SlotsOf(u)
                              /\ HandlersOn(u)' = HandlersOn(u)
                              /\ CallsOn(u)' = CallsOn(u)
    BY <1>4, <1>5, <1>8, SMTT(30)
  <2> QED BY <2>1, <2>2, <2>3, <2>4, RefsStep, Zenon DEF RegistryInv
<1>11. TypeOK'
  BY <1>1, <1>8, <1>10, SMTT(30) DEF ExitDel, TypeOK, InUser, SlotRecord, history, RegistryInv
<1> QED BY <1>7, <1>8, <1>10, <1>11, SMTT(30) DEF RegistryInv

\* The fork handler holds a reference on the child.
Holding == {"clone_jit", "clone_add", "clone_emit"}

\* A step that moves no reference and leaves the table alone
LEMMA QuietKeeps ==
    ASSUME RegistryInv, UNCHANGED <<ac_prots, ac_prot_count, refs, adm>>,
           \A q \in Task : /\ cpu'[q].child = cpu[q].child
                           /\ cpu'[q].at \in Holding <=> cpu[q].at \in Holding
    PROVE  Locals' /\ CountExact' /\ RefsExact' /\ refs' \in [Task -> Nat]
<1>1. CountExact' /\ \A u : SlotsOf(u)' = SlotsOf(u)
  BY TableSame DEF RegistryInv
<1>2. \A u : HandlersOn(u)' = HandlersOn(u) /\ CallsOn(u)' = CallsOn(u)
  BY DEF HandlersOn, CallsOn
<1>3. RefsExact' /\ refs' \in [Task -> Nat]
  BY <1>1, <1>2, RefsSame DEF RegistryInv
<1>4. Locals'
  BY DEF Locals, Holding, RegistryInv
<1> QED BY <1>1, <1>3, <1>4 DEF RegistryInv

\* The steps of processes that touch neither the table nor a reference
LEMMA QuietStep ==
    ASSUME RegistryInv, NEW t \in Task,
           \/ \E c \in Task, k \in Pid : Clone(t, c, k)
           \/ CloneCheck(t) \/ CloneJit(t) \/ ExitCheck(t) \/ Reap(t)
    PROVE  RegistryInv'
<1>0. cpu \in [Task -> CpuRecord]
  BY DEF TypeOK, CpuRecord, RegistryInv
<1>1. ASSUME NEW c \in Task, NEW k \in Pid, Clone(t, c, k)
      PROVE  RegistryInv'
  <2>1. cpu' = [cpu EXCEPT ![t] = [at |-> "clone_ret", pid |-> k, child |-> NULL, jit |-> FALSE]]
    BY <1>1, SMTT(30) DEF Clone
  <2>2. cpu[t].child = NULL /\ cpu[t].at = "user"
    BY <1>1 DEF Clone, Locals, RegistryInv
  <2>3. \A q \in Task : /\ cpu'[q].child = cpu[q].child
                        /\ cpu'[q].at \in Holding <=> cpu[q].at \in Holding
    BY <1>0, <2>1, <2>2 DEF Holding
  <2>4. UNCHANGED <<ac_prots, ac_prot_count, refs, adm>>
    BY <1>1, SMTT(30) DEF Clone, table
  <2>5. Locals' /\ CountExact' /\ RefsExact' /\ refs' \in [Task -> Nat]
    BY <2>3, <2>4, QuietKeeps
  <2>6. cpu' \in [Task -> CpuRecord]
    BY <1>0, <2>1, SMTT(30) DEF CpuRecord
  <2>7. heirs' \subseteq Task
    BY <1>1, SMTT(30) DEF Clone, TypeOK, RegistryInv
  <2>8. TypeOK'
    BY <1>1, <2>4, <2>5, <2>6, <2>7 DEF Clone, TypeOK, CpuRecord, RegistryInv
  <2> QED BY <2>5, <2>8 DEF RegistryInv
<1>2. CASE CloneCheck(t)
  <2>1. cpu[t].child = NULL /\ cpu[t].at = "clone_ret"
    BY <1>2 DEF CloneCheck, Locals, RegistryInv
  <2>2. \/ cpu' = [cpu EXCEPT ![t] = InUser]
        \/ cpu' = [cpu EXCEPT ![t].at = "clone_find"]
    BY <1>2 DEF CloneCheck, Leave
  <2>3. /\ cpu' \in [Task -> CpuRecord]
        /\ \A q \in Task : /\ cpu'[q].child = cpu[q].child
                           /\ cpu'[q].at \in Holding <=> cpu[q].at \in Holding
    <3>1. CASE cpu' = [cpu EXCEPT ![t] = InUser]
      <4>1. InUser \in CpuRecord /\ InUser.child = NULL /\ InUser.at = "user"
        BY DEF InUser, CpuRecord
      <4> HIDE DEF InUser
      <4> QED BY <1>0, <2>1, <3>1, <4>1 DEF Holding
    <3>2. CASE cpu' = [cpu EXCEPT ![t].at = "clone_find"]
      BY <1>0, <2>1, <3>2 DEF Holding, CpuRecord
    <3> QED BY <2>2, <3>1, <3>2
  <2>4. UNCHANGED <<life, pidof, ac_prots, ac_prot_count, refs, adm, parent, ever, late, heirs>>
    BY <1>2, SMTT(30) DEF CloneCheck, table, history
  <2>5. Locals' /\ CountExact' /\ RefsExact' /\ refs' \in [Task -> Nat]
    BY <2>3, <2>4, QuietKeeps, SMTT(30)
  <2>6. TypeOK'
    BY <2>3, <2>4 DEF TypeOK, CpuRecord, RegistryInv
  <2> QED BY <2>5, <2>6 DEF RegistryInv
<1>3. CASE CloneJit(t)
  <2> DEFINE j == Registered(t) /\ ac_prots[SlotOf(t)].jit_allowed
             mid == [cpu EXCEPT ![t].at = "clone_add"]
  <2>1. j \in BOOLEAN
    OBVIOUS
  <2>2. cpu' = [mid EXCEPT ![t].jit = j]
    BY <1>0, <1>3 DEF CloneJit
  <2> HIDE DEF j
  <2>3. /\ mid \in [Task -> CpuRecord]
        /\ mid[t].at = "clone_add" /\ mid[t].child = cpu[t].child
        /\ \A q \in Task \ {t} : mid[q] = cpu[q]
    BY <1>0 DEF CpuRecord
  <2> HIDE DEF mid
  <2>4. /\ cpu' \in [Task -> CpuRecord]
        /\ cpu'[t].at = "clone_add" /\ cpu'[t].child = cpu[t].child
        /\ \A q \in Task \ {t} : cpu'[q] = cpu[q]
    BY <2>1, <2>2, <2>3 DEF CpuRecord
  <2>5. \A q \in Task : /\ cpu'[q].child = cpu[q].child
                        /\ cpu'[q].at \in Holding <=> cpu[q].at \in Holding
    BY <1>3, <2>4 DEF Holding, CloneJit
  <2>6. UNCHANGED <<life, pidof, ac_prots, ac_prot_count, refs, adm, parent, ever, late, heirs>>
    BY <1>3 DEF CloneJit, table, history
  <2>7. Locals' /\ CountExact' /\ RefsExact' /\ refs' \in [Task -> Nat]
    BY <2>5, <2>6, QuietKeeps
  <2>8. TypeOK'
    BY <2>4, <2>6 DEF TypeOK, CpuRecord, RegistryInv
  <2> QED BY <2>7, <2>8 DEF RegistryInv
<1>4. CASE ExitCheck(t)
  <2>1. cpu[t].at = "user"
    BY <1>4 DEF ExitCheck
  <2>2. cpu' = cpu \/ cpu' = [cpu EXCEPT ![t].at = "exit_del"]
    BY <1>4 DEF ExitCheck
  <2>3. /\ cpu' \in [Task -> CpuRecord]
        /\ \A q \in Task : /\ cpu'[q].child = cpu[q].child
                           /\ cpu'[q].at \in Holding <=> cpu[q].at \in Holding
    BY <1>0, <2>1, <2>2 DEF Holding, CpuRecord
  <2>4. UNCHANGED <<pidof, ac_prots, ac_prot_count, refs, adm, parent, ever, late, heirs>>
    BY <1>4, SMTT(30) DEF ExitCheck, table, history
  <2>5. Locals' /\ CountExact' /\ RefsExact' /\ refs' \in [Task -> Nat]
    BY <2>3, <2>4, QuietKeeps
  <2>6. life' \in [Task -> {"unborn", "running", "exited", "reaped"}]
    BY <1>4, SMTT(30) DEF ExitCheck, TypeOK, RegistryInv
  <2>7. TypeOK'
    BY <2>3, <2>4, <2>6, SMTT(30) DEF TypeOK, CpuRecord, RegistryInv
  <2> QED BY <2>5, <2>7 DEF RegistryInv
<1>5. CASE Reap(t)
  <2>1. UNCHANGED <<pidof, ac_prots, ac_prot_count, refs, cpu, adm, parent, ever, late, heirs>>
    BY <1>5 DEF Reap, table, history
  <2>2. Locals' /\ CountExact' /\ RefsExact' /\ refs' \in [Task -> Nat]
    BY <2>1, QuietKeeps, SMTT(30)
  <2>3. TypeOK'
    BY <1>5, <2>1 DEF Reap, TypeOK, RegistryInv
  <2> QED BY <2>2, <2>3 DEF RegistryInv
<1> QED BY <1>1, <1>2, <1>3, <1>4, <1>5 DEF RegistryInv

-----------------------------------------------------------------------------
\* The initial states satisfy the invariant.
LEMMA RegistryInit == Init => RegistryInv
<1> SUFFICES ASSUME Init PROVE RegistryInv
  OBVIOUS
<1>0. NULL \notin Task /\ NULL \notin Pid /\ AC_PROT_MAX \in Nat \ {0}
  BY RegistryAssumption
<1>1. TypeOK
  BY <1>0 DEF Init, TypeOK, EmptySlot, InUser, NoCall
<1>2. Locals
  BY DEF Init, Locals, InUser, NoCall
<1>3. Occupied = {} /\ \A s \in Slot : ac_prots[s].task = NULL
  BY DEF Init, Occupied, Free, EmptySlot
<1>4. CountExact
  BY <1>3, FS_EmptySet, SMTT(30) DEF Init, CountExact
<1>5. \A u \in Task : SlotsOf(u) = {} /\ HandlersOn(u) = {} /\ CallsOn(u) = {}
  BY <1>0, <1>3 DEF Init, SlotsOf, HandlersOn, CallsOn, InUser, NoCall
<1>6. RefsExact
  BY <1>5, FS_EmptySet, SMTT(30) DEF Init, RefsExact
<1> QED BY <1>1, <1>2, <1>4, <1>6 DEF RegistryInv

\* Every step keeps it.
LEMMA RegistryStep == RegistryInv /\ [Next]_vars => RegistryInv'
<1> SUFFICES ASSUME RegistryInv, [Next]_vars PROVE RegistryInv'
  OBVIOUS
<1>1. ASSUME NEW a \in Admin, NEW k \in Pid, NEW jit \in JitFlags, AddFind(a, k, jit)
      PROVE  RegistryInv'
  <2>1. PICK t \in Task : BeginCall(a, t, "add", jit)
    BY <1>1 DEF AddFind, Found
  <2>2. jit \in BOOLEAN
    BY RegistryAssumption
  <2> QED BY <2>1, <2>2, BeginCallStep
<1>2. ASSUME NEW a \in Admin, NEW k \in Pid, DelFind(a, k)
      PROVE  RegistryInv'
  <2>1. PICK t \in Task : BeginCall(a, t, "del", FALSE)
    BY <1>2, Zenon DEF DelFind, Found
  <2> QED BY <2>1, BeginCallStep, Zenon
<1>3. ASSUME NEW a \in Admin, AddProc(a) \/ DelProc(a)
      PROVE  RegistryInv'
  BY <1>3, AddProcStep, DelProcStep
<1>4. ASSUME NEW t \in Task, Process(t)
      PROVE  RegistryInv'
  BY <1>4, QuietStep, CloneFindStep, CloneAddStep, CloneEmitStep, ExitDelStep DEF Process
<1>5. CASE UNCHANGED vars
  <2>1. UNCHANGED <<life, pidof, ac_prots, ac_prot_count, refs, cpu, adm, parent, ever, late, heirs>>
    BY <1>5 DEF vars, table, history
  <2>2. Locals' /\ CountExact' /\ RefsExact'
    BY <2>1, QuietKeeps, SMTT(30)
  <2>3. TypeOK'
    BY <2>1 DEF RegistryInv, TypeOK
  <2> QED BY <2>2, <2>3 DEF RegistryInv
<1> QED BY <1>1, <1>2, <1>3, <1>4, <1>5 DEF Next, Ioctl

\* The inductive invariant holds in every reachable state.
THEOREM RegistryInvariant == Spec => []RegistryInv
BY RegistryInit, RegistryStep, PTL DEF Spec

\* The types of the registry's state are kept; in particular ac_prot_count stays
\* within the table and no reference count falls below zero.
THEOREM RegistryTypeCorrect == Spec => []TypeOK
<1>1. RegistryInv => TypeOK
  BY DEF RegistryInv
<1> QED BY <1>1, RegistryInvariant, PTL

\* ac_prot_count is the number of occupied slots and no task occupies two.
THEOREM CountsExactly == Spec => []CountExact
<1>1. RegistryInv => CountExact
  BY DEF RegistryInv
<1> QED BY <1>1, RegistryInvariant, PTL

\* get_task_struct() and put_task_struct() balance over every interleaving of the
\* ioctls with the fork and exit handlers.
THEOREM RefsBalance == Spec => []RefsExact
<1>1. RegistryInv => RefsExact
  BY DEF RegistryInv
<1> QED BY <1>1, RegistryInvariant, PTL

-----------------------------------------------------------------------------
(* The registry as a set of tasks.                                          *)

\* There are as many occupied slots as there are members.
LEMMA MembersFit ==
    ASSUME TypeOK
    PROVE  IsFiniteSet(Protected) /\ Cardinality(Protected) <= Cardinality(Occupied)
<1> DEFINE f == [t \in Protected |-> SlotOf(t)]
<1>0. NULL \notin Task
  BY RegistryAssumption
<1>1. \A t \in Protected : SlotOf(t) \in Occupied /\ ac_prots[SlotOf(t)].task = t
  BY <1>0, SlotOfHolds DEF Protected, Occupied, Free
<1>2. f \in [Protected -> Occupied]
  BY <1>1
<1>3. \A t, u \in Protected : f[t] = f[u] => t = u
  BY <1>1
<1>4. f \in Injection(Protected, Occupied)
  BY <1>2, <1>3 DEF Injection, IsInjective
<1> QED BY <1>4, AllFinite, FS_Injection DEF FiniteHolders

\* ac_add_prot_task(t) changes nothing or adds t to a set that has room, and it
\* marks as late a task that no longer runs.
LEMMA AddMembers ==
    ASSUME RegistryInv, NEW t \in Task, NEW jit \in BOOLEAN, AddProtTask(t, jit)
    PROVE  /\ late \subseteq late'
           /\ \/ Protected' = Protected
              \/ /\ P!Add(t)
                 /\ life[t] = "running" \/ t \in late'
<1>0. NULL \notin Task
  BY RegistryAssumption
<1>1. CASE AddKnown(t, jit)
  <2>1. SlotOf(t) \in Slot
    BY <1>1, SlotOfHolds DEF AddKnown
  <2>2. \A s \in Slot : ac_prots'[s].task = ac_prots[s].task
    BY <1>1, <2>1 DEF AddKnown, TypeOK, RegistryInv
  <2>3. Protected' = Protected
    BY <2>2 DEF Protected, Registered
  <2> QED BY <1>1, <2>3 DEF AddKnown
<1>2. CASE AddNew(t, jit)
  <2> DEFINE f == FirstFree
  <2>1. f \in Slot /\ ac_prots[f].task = NULL /\ f \notin Occupied
    BY <1>2, FirstFreeIsFree, SMTT(30) DEF AddNew, Free, Occupied
  <2> HIDE DEF f
  <2>2. ac_prots' = [ac_prots EXCEPT ![f] = [task |-> t, pid |-> pidof[t], jit_allowed |-> jit]]
    BY <1>2 DEF AddNew, f
  <2>3. /\ ac_prots'[f].task = t
        /\ \A s \in Slot \ {f} : ac_prots'[s].task = ac_prots[s].task
    BY <2>1, <2>2 DEF TypeOK, RegistryInv
  <2>4. Protected' = Protected \cup {t}
    BY <1>0, <2>1, <2>3, SMTT(30) DEF Protected, Registered
  <2>5. t \notin Protected
    BY <1>2 DEF AddNew, Protected
  <2>6. Cardinality(Protected) < AC_PROT_MAX
    <3>1. Occupied \in SUBSET Slot /\ Occupied # Slot
      BY <2>1 DEF Occupied
    <3>2. Cardinality(Occupied) <= AC_PROT_MAX /\ Cardinality(Occupied) # AC_PROT_MAX
      BY <3>1, AllFinite, FS_Subset DEF FiniteHolders
    <3>3. Cardinality(Protected) \in Nat /\ Cardinality(Protected) <= Cardinality(Occupied)
      BY MembersFit, FS_CardinalityType DEF RegistryInv
    <3> QED BY <3>2, <3>3, AllFinite, RegistryAssumption DEF FiniteHolders
  <2>7. P!Add(t)
    <3>1. Cardinality(Protected) = P!Cardinality(Protected)
      BY DEF Cardinality, P!Cardinality
    <3> QED BY <2>4, <2>5, <2>6, <3>1 DEF P!Add
  <2>8. late \subseteq late' /\ (life[t] = "running" \/ t \in late')
    BY <1>2 DEF AddNew
  <2> QED BY <2>7, <2>8
<1>3. CASE AddNoSpace(t, jit)
  BY <1>3 DEF AddNoSpace, Protected, Registered
<1> QED BY <1>1, <1>2, <1>3 DEF AddProtTask, RegistryInv

\* ac_del_prot_task(t) takes t out, if it is in.
LEMMA DelMembers ==
    ASSUME RegistryInv, NEW t \in Task, DelProtTask(t)
    PROVE  /\ Protected' = Protected \ {t}
           /\ Protected' = Protected \/ P!Remove(t)
<1>1. /\ \A u \in Task \ {t} : SlotsOf(u)' = SlotsOf(u)
      /\ ~Registered(t)'
  BY DelEffect DEF RegistryInv
<1>2. \A u \in Task : Registered(u) <=> SlotsOf(u) # {}
  BY DEF Registered, SlotsOf
<1>3. \A u \in Task : Registered(u)' <=> SlotsOf(u)' # {}
  BY DEF Registered, SlotsOf
<1>4. Protected' = Protected \ {t}
  BY <1>1, <1>2, <1>3 DEF Protected
<1> QED BY <1>4 DEF P!Remove, RegistryInv

\* A step that leaves the table alone leaves the members alone.
LEMMA MembersSame == UNCHANGED ac_prots => Protected' = Protected
BY DEF Protected, Registered

\* What a step of the registry does to the set of members, and to the tasks that
\* are in it though they have exited
LEMMA MembersStep ==
    ASSUME RegistryInv, StaleOnlyIfLate, [Next]_vars
    PROVE  /\ P!Next \/ Protected' = Protected
           /\ StaleOnlyIfLate'
<1>1. ASSUME NEW t \in Task, NEW jit \in BOOLEAN, AddProtTask(t, jit), UNCHANGED life
      PROVE  (P!Next \/ Protected' = Protected) /\ StaleOnlyIfLate'
  <2>1. /\ late \subseteq late'
        /\ \/ Protected' = Protected
           \/ P!Add(t) /\ (life[t] = "running" \/ t \in late')
    BY <1>1, AddMembers
  <2>2. StaleOnlyIfLate'
    BY <1>1, <2>1, SMTT(30) DEF StaleOnlyIfLate, P!Add
  <2> QED BY <2>1, <2>2 DEF P!Next
<1>2. ASSUME NEW a \in Admin, Ioctl(a)
      PROVE  (P!Next \/ Protected' = Protected) /\ StaleOnlyIfLate'
  <2>1. CASE AddProc(a)
    <3>1. adm[a].task \in Task /\ adm[a].jit \in BOOLEAN
      BY <2>1 DEF AddProc, Locals, TypeOK, RegistryInv
    <3>2. AddProtTask(adm[a].task, adm[a].jit) /\ UNCHANGED life
      BY <2>1 DEF AddProc
    <3>3. PICK t \in Task, jit \in BOOLEAN : t = adm[a].task /\ jit = adm[a].jit
      BY <3>1
    <3> QED BY <1>1, <3>2, <3>3, SMTT(30)
  <2>2. CASE DelProc(a)
    <3>1. PICK t \in Task : t = adm[a].task
      BY <2>2 DEF DelProc, Locals, TypeOK, RegistryInv
    <3>2. DelProtTask(t) /\ UNCHANGED <<life, late>>
      BY <2>2, <3>1 DEF DelProc
    <3>3. Protected' = Protected \ {t} /\ (Protected' = Protected \/ P!Remove(t))
      BY <3>2, DelMembers
    <3> QED BY <3>2, <3>3 DEF StaleOnlyIfLate, P!Next
  <2>3. CASE UNCHANGED <<ac_prots, life, late>>
    BY <2>3, MembersSame DEF StaleOnlyIfLate
  <2> QED BY <1>2, <2>1, <2>2, <2>3, SMTT(30) DEF Ioctl, AddFind, DelFind, BeginCall, history
<1>3. ASSUME NEW t \in Task, Process(t)
      PROVE  (P!Next \/ Protected' = Protected) /\ StaleOnlyIfLate'
  <2>1. CASE CloneAdd(t)
    <3>1. PICK c \in Task, jit \in BOOLEAN : c = cpu[t].child /\ jit = cpu[t].jit
      BY <2>1 DEF CloneAdd, Locals, TypeOK, RegistryInv
    <3>2. AddProtTask(c, jit) /\ UNCHANGED life
      BY <2>1, <3>1 DEF CloneAdd
    <3> QED BY <1>1, <3>2
  <2>2. CASE ExitDel(t)
    <3>1. /\ DelProtTask(t) /\ late' = late
          /\ life' = [life EXCEPT ![t] = "exited"]
      BY <2>2 DEF ExitDel, history
    <3>2. Protected' = Protected \ {t} /\ (Protected' = Protected \/ P!Remove(t))
      BY <3>1, DelMembers
    <3> QED BY <3>1, <3>2, SMTT(30) DEF StaleOnlyIfLate, P!Next, TypeOK, Protected, RegistryInv
  <2>3. ASSUME NEW c \in Task, NEW k \in Pid, Clone(t, c, k)
        PROVE  Protected' = Protected /\ StaleOnlyIfLate'
    <3>1. /\ ac_prots' = ac_prots /\ late' = late
          /\ life' = [life EXCEPT ![c] = "running"]
      BY <2>3, SMTT(30) DEF Clone, table
    <3> QED BY <3>1, MembersSame, SMTT(30) DEF StaleOnlyIfLate, TypeOK, Protected, RegistryInv
  <2>4. CASE ExitCheck(t)
    <3>1. /\ ac_prots' = ac_prots /\ late' = late
          /\ life' = life \/ (~Registered(t) /\ life' = [life EXCEPT ![t] = "exited"])
      BY <2>4, SMTT(30) DEF ExitCheck, table, history
    <3> QED BY <3>1, MembersSame DEF StaleOnlyIfLate, TypeOK, Protected, RegistryInv
  <2>5. CASE Reap(t)
    <3>1. /\ ac_prots' = ac_prots /\ late' = late
          /\ life[t] = "exited" /\ life' = [life EXCEPT ![t] = "reaped"]
      BY <2>5 DEF Reap, table, history
    <3> QED BY <3>1, MembersSame DEF StaleOnlyIfLate, TypeOK, Protected, RegistryInv
  <2>6. CASE CloneCheck(t) \/ CloneFind(t) \/ CloneJit(t) \/ CloneEmit(t)
    <3>1. UNCHANGED <<ac_prots, life, late>>
      BY <2>6 DEF CloneCheck, CloneFind, CloneJit, CloneEmit, table, history
    <3> QED BY <3>1, MembersSame DEF StaleOnlyIfLate
  <2> QED BY <1>3, <2>1, <2>2, <2>3, <2>4, <2>5, <2>6 DEF Process
<1>4. CASE UNCHANGED vars
  BY <1>4, MembersSame, SMTT(30) DEF vars, table, history, StaleOnlyIfLate
<1> QED BY <1>2, <1>3, <1>4 DEF Next, RegistryInv

\* The registry starts empty.
LEMMA MembersInit == Init => P!Init /\ StaleOnlyIfLate
BY RegistryAssumption DEF Init, P!Init, Protected, Registered, EmptySlot, StaleOnlyIfLate

\* A slot of a task that has exited was filled by an add that came late: the exit
\* handler leaves nothing behind of what was registered before it ran.
THEOREM ExitLeavesNothing == Spec => []StaleOnlyIfLate
<1>1. RegistryInv /\ StaleOnlyIfLate /\ [Next]_vars => StaleOnlyIfLate'
  BY MembersStep
<1> QED BY <1>1, MembersInit, RegistryInvariant, PTL DEF Spec

\* The slot table, with its locked loops and its separate count, implements the
\* bounded set that the handlers rely on.
THEOREM RegistryImplementsProtSet == Spec => ImplementsProtSet
<1>1. RegistryInv /\ StaleOnlyIfLate /\ [Next]_vars => [P!Next]_Protected
  BY MembersStep
<1>2. Spec => P!Init /\ [][P!Next]_Protected
  BY <1>1, MembersInit, RegistryInvariant, ExitLeavesNothing, PTL DEF Spec
<1> QED BY <1>2 DEF ImplementsProtSet, P!Spec
=============================================================================
