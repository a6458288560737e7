--------------------------- MODULE InheritProofs ---------------------------
(********************************************************************************)
(* What a child inherits, for every set of tasks, numbers and ioctl threads and *)
(* every size of the table.                                                     *)
(********************************************************************************)
EXTENDS RegistryProofs

-----------------------------------------------------------------------------
(* What a child inherits.                                                    *)

\* ac_clone_ret() is running.
Forking == {"clone_ret", "clone_find", "clone_jit", "clone_add", "clone_emit"}

\* A number is carried by one task that still has it; a fork handler keeps the number of its
\* child and, from its lookup on, works on a task that carried it.
Numbered ==
    /\ \A t \in Task : life[t] = "unborn" <=> pidof[t] = NULL
    /\ \A t, u \in Task : Attached(t) /\ Attached(u) /\ pidof[t] = pidof[u] => t = u
    /\ \A p \in Task : cpu[p].at \notin Forking => cpu[p].pid = NULL
    /\ \A p \in Task : cpu[p].at \in Holding =>
          /\ life[cpu[p].child] # "unborn" /\ pidof[cpu[p].child] = cpu[p].pid

\* The child has the flag of its parent.
SameFlag(c, p) ==
    \A s, r \in Slot : ac_prots[s].task = c /\ ac_prots[r].task = p =>
        ac_prots[s].jit_allowed = ac_prots[r].jit_allowed
\* The child is registered, or on its way out, with that flag.
Inherited(c, p) == (Registered(c) \/ cpu[c].at = "exit_del") /\ SameFlag(c, p)

\* How far the fork handler of p has come with c.
Handing(c, p) ==
    /\ cpu[p].at # "clone_emit" => Registered(p)
    /\ cpu[p].at \in Holding => cpu[p].child = c
    /\ cpu[p].at = "clone_add" =>
          \A r \in Slot : ac_prots[r].task = p => ac_prots[r].jit_allowed = cpu[p].jit
    /\ cpu[p].at = "clone_emit" => Inherited(c, p)
\* The fork handler of p has yet to finish with its child c.
Owing(c, p) == cpu[p].at \in Forking /\ cpu[p].pid = pidof[c]
\* A running child has inherited, or will when the handler is done.
HeirOK(c, p) ==
    life[c] = "running" =>
        /\ Owing(c, p) => Handing(c, p)
        /\ ~Owing(c, p) => Inherited(c, p)
\* This holds of every child that was to inherit.
Heirs ==
    \A c \in heirs : /\ life[c] # "unborn" /\ parent[c] \in Task \ {c}
                     /\ \A p \in Task : parent[c] = p => HeirOK(c, p)

\* What is added to the invariant of the registry for the inheritance.
HeirInv == Numbered /\ Heirs

\* A task that is in ac_exit_pre() has not exited yet.
Exiting == \A t \in Task : cpu[t].at = "exit_del" => life[t] = "running"

\* A step leaves u's slot alone.
Untouched(u) ==
    \A s \in Slot : /\ ac_prots'[s].task = u <=> ac_prots[s].task = u
                    /\ ac_prots[s].task = u => ac_prots'[s].jit_allowed = ac_prots[s].jit_allowed

\* ac_add_prot_task(t) leaves the slots of others alone, and gives t the flag it was called with.
LEMMA AddFlags ==
    ASSUME TypeOK, CountExact, NEW t \in Task, NEW jit \in BOOLEAN, AddProtTask(t, jit)
    PROVE  /\ \A u \in Task \ {t} : Untouched(u)
           /\ Registered(t) \/ Free # {} =>
                 Registered(t)' /\ \A s \in Slot : ac_prots'[s].task = t => ac_prots'[s].jit_allowed = jit
<1>0. t # NULL /\ NULL \notin Task /\ ac_prots \in [Slot -> SlotRecord]
  BY RegistryAssumption DEF TypeOK, SlotRecord
<1>1. CASE AddKnown(t, jit)
  <2>1. PICK f \in Slot : f = SlotOf(t) /\ ac_prots[f].task = t
    BY <1>1, SlotOfHolds DEF AddKnown
  <2>2. ac_prots' = [ac_prots EXCEPT ![f].jit_allowed = jit]
    BY <1>1, <2>1 DEF AddKnown
  <2>3. /\ ac_prots'[f].task = t /\ ac_prots'[f].jit_allowed = jit
        /\ \A s \in Slot \ {f} : ac_prots'[s] = ac_prots[s]
    BY <1>0, <2>1, <2>2 DEF SlotRecord
  <2>4. \A s \in Slot : ac_prots[s].task = t => s = f
    BY <1>0, <2>1 DEF CountExact
  <2>5. \A u \in Task \ {t} : Untouched(u)
    BY <2>1, <2>3 DEF Untouched
  <2>6. Registered(t)' /\ \A s \in Slot : ac_prots'[s].task = t => ac_prots'[s].jit_allowed = jit
    BY <2>1, <2>3, <2>4 DEF Registered
  <2> QED BY <2>5, <2>6
<1>2. CASE AddNew(t, jit)
  <2>1. PICK f \in Slot : f = FirstFree /\ ac_prots[f].task = NULL
    BY <1>2, FirstFreeIsFree DEF AddNew, Free
  <2>2. ac_prots' = [ac_prots EXCEPT ![f] = [task |-> t, pid |-> pidof[t], jit_allowed |-> jit]]
    BY <1>2, <2>1 DEF AddNew
  <2>3. /\ ac_prots'[f].task = t /\ ac_prots'[f].jit_allowed = jit
        /\ \A s \in Slot \ {f} : ac_prots'[s] = ac_prots[s]
    BY <1>0, <2>1, <2>2 DEF SlotRecord
  <2>4. \A s \in Slot : ac_prots[s].task # t
    BY <1>2 DEF AddNew, Registered
  <2>5. \A u \in Task \ {t} : Untouched(u)
    BY <1>0, <2>1, <2>3 DEF Untouched
  <2>6. Registered(t)' /\ \A s \in Slot : ac_prots'[s].task = t => ac_prots'[s].jit_allowed = jit
    BY <2>1, <2>3, <2>4 DEF Registered
  <2> QED BY <2>5, <2>6
<1>3. CASE AddNoSpace(t, jit)
  BY <1>3 DEF AddNoSpace, Untouched
<1> QED BY <1>1, <1>2, <1>3 DEF AddProtTask

\* ac_del_prot_task(t) leaves the slots of others alone, and t no slot it did not have.
LEMMA DelFlags ==
    ASSUME TypeOK, NEW t \in Task, DelProtTask(t)
    PROVE  /\ \A u \in Task \ {t} : Untouched(u)
           /\ \A s \in Slot : ac_prots'[s].task = t => ac_prots'[s] = ac_prots[s]
<1>0. t # NULL /\ NULL \notin Task /\ ac_prots \in [Slot -> SlotRecord]
  BY RegistryAssumption DEF TypeOK, SlotRecord
<1>1. CASE DelKnown(t)
  <2>1. PICK f \in Slot : f = SlotOf(t) /\ ac_prots[f].task = t
    BY <1>1, SlotOfHolds DEF DelKnown
  <2>2. ac_prots' = [ac_prots EXCEPT ![f].task = NULL]
    BY <1>1, <2>1 DEF DelKnown
  <2>3. ac_prots'[f].task = NULL /\ \A s \in Slot \ {f} : ac_prots'[s] = ac_prots[s]
    BY <1>0, <2>1, <2>2 DEF SlotRecord
  <2> QED BY <1>0, <2>1, <2>3 DEF Untouched
<1>2. CASE DelUnknown(t)
  BY <1>2 DEF DelUnknown, Untouched
<1> QED BY <1>1, <1>2 DEF DelProtTask

\* A step that touches neither the slots of c and p nor p's handler leaves c's inheritance as
\* it was.
LEMMA HeirKept ==
    ASSUME NEW c \in Task, NEW p \in Task, HeirOK(c, p), Untouched(c), Untouched(p),
           life'[c] = "running" => life[c] = "running", pidof'[c] = pidof[c], cpu'[p] = cpu[p],
           cpu[c].at = "exit_del" => cpu'[c].at = "exit_del"
    PROVE  HeirOK(c, p)'
<1>1. (Registered(c)' <=> Registered(c)) /\ (Registered(p)' <=> Registered(p))
  BY DEF Registered, Untouched
<1>2. SameFlag(c, p) => SameFlag(c, p)'
  BY DEF SameFlag, Untouched
<1>3. Inherited(c, p) => Inherited(c, p)'
  BY <1>1, <1>2 DEF Inherited
<1>4. Owing(c, p)' <=> Owing(c, p)
  BY DEF Owing
<1>5. Handing(c, p) => Handing(c, p)'
  BY <1>1, <1>3 DEF Handing, Untouched
<1> QED BY <1>3, <1>4, <1>5 DEF HeirOK

\* A table that does not change touches no slot.
LEMMA AllUntouched == UNCHANGED ac_prots => \A u : Untouched(u)
BY DEF Untouched

\* Numbers stay unambiguous in a step that starts no task and leaves every fork handler with
\* the number it had, or done.
LEMMA NumberedKept ==
    ASSUME Numbered, UNCHANGED pidof,
           \A t \in Task : /\ life'[t] = "unborn" <=> life[t] = "unborn"
                           /\ Attached(t)' => Attached(t),
           NEW q \in Task, \A u \in Task \ {q} : cpu'[u] = cpu[u],
           cpu'[q].at \notin Forking => cpu'[q].pid = NULL,
           cpu'[q].at \in Holding =>
               /\ cpu'[q].child \in Task
               /\ life[cpu'[q].child] # "unborn" /\ pidof[cpu'[q].child] = cpu'[q].pid,
           \A u \in Task : cpu[u].at \in Holding => cpu[u].child \in Task
    PROVE  Numbered'
<1>1. \A t \in Task : life'[t] = "unborn" <=> pidof'[t] = NULL
  BY DEF Numbered
<1>2. \A t, u \in Task : Attached(t)' /\ Attached(u)' /\ pidof'[t] = pidof'[u] => t = u
  BY DEF Numbered
<1>3. \A p \in Task : cpu'[p].at \notin Forking => cpu'[p].pid = NULL
  BY DEF Numbered
<1>4. \A p \in Task : cpu'[p].at \in Holding =>
          /\ life'[cpu'[p].child] # "unborn" /\ pidof'[cpu'[p].child] = cpu'[p].pid
  BY DEF Numbered
<1> QED BY <1>1, <1>2, <1>3, <1>4 DEF Numbered

\* What the children inherited is kept by a step of q outside the table, if it is kept for
\* the children of q.
LEMMA HeirsOfOthers ==
    ASSUME Heirs, heirs \subseteq Task, UNCHANGED <<ac_prots, pidof, heirs, parent>>,
           NEW q \in Task, \A u \in Task \ {q} : cpu'[u] = cpu[u], cpu[q].at # "exit_del",
           \A c \in Task : /\ life'[c] = "unborn" => life[c] = "unborn"
                           /\ life'[c] = "running" => life[c] = "running",
           \A c \in Task \ {q} : HeirOK(c, q) /\ life'[c] = "running" => HeirOK(c, q)'
    PROVE  Heirs'
<1>1. SUFFICES ASSUME NEW c \in heirs', NEW p \in Task, parent'[c] = p
               PROVE  life'[c] # "unborn" /\ parent'[c] \in Task \ {c} /\ HeirOK(c, p)'
  BY DEF Heirs
<1>2. c \in Task /\ life[c] # "unborn" /\ p # c /\ HeirOK(c, p)
  BY <1>1 DEF Heirs
<1>3. Untouched(c) /\ Untouched(p)
  BY AllUntouched
<1>4. CASE p = q
  <2>1. CASE life'[c] = "running"
    BY <1>1, <1>2, <1>4, <2>1
  <2>2. CASE life'[c] # "running"
    BY <1>1, <1>2, <2>2 DEF HeirOK
  <2> QED BY <2>1, <2>2
<1>5. CASE p # q
  <2>1. HeirOK(c, p)'
    BY <1>2, <1>3, <1>5, HeirKept
  <2> QED BY <1>1, <1>2, <2>1
<1> QED BY <1>4, <1>5

\* The registration of a child and of its parent, and their flags, read from an unchanged
\* table.
LEMMA InheritedSame ==
    ASSUME NEW c \in Task, NEW p \in Task, UNCHANGED ac_prots, cpu'[c] = cpu[c]
    PROVE  /\ Registered(p)' = Registered(p)
           /\ Inherited(c, p)' = Inherited(c, p)
BY DEF Registered, Inherited, SameFlag

\* ac_is_protected_task(current)
LEMMA CloneCheckHeirs ==
    ASSUME RegistryInv, HeirInv, NEW q \in Task, CloneCheck(q) PROVE HeirInv'
<1>1. /\ UNCHANGED <<ac_prots, life, pidof, heirs, parent>> /\ cpu[q].at = "clone_ret"
      /\ cpu \in [Task -> CpuRecord] /\ NULL \notin Pid
  BY RegistryAssumption DEF CloneCheck, table, history, TypeOK, CpuRecord, RegistryInv
<1>2. \A u \in Task \ {q} : cpu'[u] = cpu[u]
  BY <1>1 DEF CloneCheck, Leave
<1>3. \/ ~Registered(q) /\ cpu'[q] = InUser
      \/ cpu'[q].at = "clone_find" /\ cpu'[q].pid = cpu[q].pid
  BY <1>1 DEF CloneCheck, Leave, CpuRecord
<1>4. Numbered'
  <2>1. \A u \in Task : cpu[u].at \in Holding => cpu[u].child \in Task
    BY <1>1 DEF Locals, Holding, CpuRecord, RegistryInv
  <2>2. cpu'[q].at \notin Forking => cpu'[q].pid = NULL
    BY <1>3 DEF Forking, InUser
  <2>3. cpu'[q].at \notin Holding
    BY <1>3 DEF Holding, InUser
  <2>4. \A t \in Task : Attached(t)' => Attached(t)
    BY <1>1 DEF Attached
  <2> QED BY <1>1, <1>2, <2>1, <2>2, <2>3, <2>4, NumberedKept, SMTT(30) DEF HeirInv
<1>5. ASSUME NEW c \in Task \ {q}, HeirOK(c, q), life'[c] = "running" PROVE HeirOK(c, q)'
  <2>1. Registered(q)' = Registered(q) /\ Inherited(c, q)' = Inherited(c, q)
    BY <1>1, <1>2, InheritedSame
  <2>2. Owing(c, q)' => Owing(c, q) /\ cpu'[q].at = "clone_find"
    BY <1>1, <1>3 DEF Owing, Forking, InUser
  <2>3. Owing(c, q) => Registered(q) /\ Owing(c, q)'
    BY <1>1, <1>3, <1>5 DEF Owing, Forking, HeirOK, Handing
  <2>4. Owing(c, q)' => Handing(c, q)'
    BY <2>1, <2>2, <2>3 DEF Handing, Holding
  <2> QED BY <1>1, <1>5, <2>1, <2>2, <2>3, <2>4 DEF HeirOK
<1>6. Heirs'
  BY <1>1, <1>2, <1>5, HeirsOfOthers DEF TypeOK, RegistryInv, HeirInv
<1> QED BY <1>4, <1>6 DEF RegistryInv, HeirInv

\* A fork handler that holds a task holds one.
LEMMA HoldsATask ==
    ASSUME TypeOK, Locals PROVE \A u \in Task : cpu[u].at \in Holding => cpu[u].child \in Task
<1>1. cpu \in [Task -> CpuRecord]
  BY DEF TypeOK, CpuRecord
<1> QED BY <1>1 DEF Locals, Holding, CpuRecord

\* ac_find_task(child_pid): a child that runs is the task its number leads to.
LEMMA CloneFindHeirs ==
    ASSUME RegistryInv, HeirInv, NEW q \in Task, CloneFind(q) PROVE HeirInv'
<1>1. /\ UNCHANGED <<ac_prots, life, pidof, heirs, parent>> /\ cpu[q].at = "clone_find"
      /\ cpu \in [Task -> CpuRecord] /\ NULL \notin Pid
  BY RegistryAssumption DEF CloneFind, history, TypeOK, CpuRecord, RegistryInv
<1>2. \A u \in Task \ {q} : cpu'[u] = cpu[u]
  BY <1>1 DEF CloneFind, Leave
<1>3. \/ Found(cpu[q].pid) = {} /\ cpu'[q] = InUser
      \/ /\ cpu'[q].at = "clone_jit" /\ cpu'[q].pid = cpu[q].pid
         /\ cpu'[q].child \in Found(cpu[q].pid)
  <2>1. CASE Found(cpu[q].pid) = {} /\ Leave(q)
    BY <1>1, <2>1 DEF Leave
  <2>2. ASSUME NEW t \in Found(cpu[q].pid),
               cpu' = [cpu EXCEPT ![q].at = "clone_jit", ![q].child = t]
        PROVE  /\ cpu'[q].at = "clone_jit" /\ cpu'[q].pid = cpu[q].pid
               /\ cpu'[q].child \in Found(cpu[q].pid)
    BY <1>1, <2>2 DEF CpuRecord
  <2> QED BY <2>1, <2>2 DEF CloneFind
<1>4. Numbered'
  <2>1. cpu'[q].at \notin Forking => cpu'[q].pid = NULL
    BY <1>3 DEF Forking, InUser
  <2>2. cpu'[q].at \in Holding =>
            /\ cpu'[q].child \in Task
            /\ life[cpu'[q].child] # "unborn" /\ pidof[cpu'[q].child] = cpu'[q].pid
    BY <1>3 DEF Holding, InUser, Found, Attached
  <2>3. \A t \in Task : Attached(t)' => Attached(t)
    BY <1>1 DEF Attached
  <2> QED BY <1>1, <1>2, <2>1, <2>2, <2>3, NumberedKept, HoldsATask, ZenonT(60) DEF RegistryInv, HeirInv
<1>5. ASSUME NEW c \in Task \ {q}, HeirOK(c, q), life'[c] = "running" PROVE HeirOK(c, q)'
  <2>1. Registered(q)' = Registered(q) /\ Inherited(c, q)' = Inherited(c, q)
    BY <1>1, <1>2, InheritedSame
  <2>2. Owing(c, q)' => Owing(c, q) /\ cpu'[q].at = "clone_jit"
    BY <1>1, <1>3 DEF Owing, Forking, InUser
  <2>3. ASSUME Owing(c, q) PROVE Registered(q) /\ Owing(c, q)' /\ cpu'[q].child = c
    <3>1. Registered(q) /\ c \in Found(cpu[q].pid)
      BY <1>1, <1>5, <2>3, SMTT(30) DEF Owing, HeirOK, Handing, Found, Attached
    <3>2. cpu'[q].child = c
      BY <1>3, <2>3, <3>1 DEF Owing, Found, Numbered, HeirInv
    <3> QED BY <1>1, <1>3, <2>3, <3>1, <3>2, SMTT(30) DEF Owing, Forking
  <2>4. Owing(c, q)' => Handing(c, q)'
    BY <2>1, <2>2, <2>3, SMTT(30) DEF Handing, Holding
  <2> QED BY <1>1, <1>5, <2>1, <2>2, <2>3, <2>4, Zenon DEF HeirOK
<1>6. Heirs'
  BY <1>1, <1>2, <1>5, HeirsOfOthers, SMTT(30) DEF TypeOK, RegistryInv, HeirInv
<1> QED BY <1>4, <1>6 DEF RegistryInv, HeirInv

\* ac_task_jit_allowed(current): the flag of the one slot that holds the parent.
LEMMA CloneJitHeirs ==
    ASSUME RegistryInv, HeirInv, NEW q \in Task, CloneJit(q) PROVE HeirInv'
<1>1. /\ UNCHANGED <<ac_prots, life, pidof, heirs, parent>> /\ cpu[q].at = "clone_jit"
      /\ cpu \in [Task -> CpuRecord] /\ NULL \notin Pid /\ NULL \notin Task
  BY RegistryAssumption DEF CloneJit, table, history, TypeOK, CpuRecord, RegistryInv
<1>2. \A u \in Task \ {q} : cpu'[u] = cpu[u]
  BY <1>1 DEF CloneJit
<1> DEFINE flag == Registered(q) /\ ac_prots[SlotOf(q)].jit_allowed
<1>3. /\ cpu'[q].at = "clone_add" /\ cpu'[q].pid = cpu[q].pid
      /\ cpu'[q].child = cpu[q].child /\ cpu'[q].jit = flag
  <2> HIDE DEF flag
  <2>1. cpu' = [cpu EXCEPT ![q].at = "clone_add", ![q].jit = flag]
    BY DEF CloneJit, flag
  <2> QED BY <1>1, <2>1 DEF CpuRecord
<1>4. Numbered'
  <2>1. cpu'[q].at \in Forking
    BY <1>3 DEF Forking
  <2>2. /\ cpu'[q].child \in Task
        /\ life[cpu'[q].child] # "unborn" /\ pidof[cpu'[q].child] = cpu'[q].pid
    BY <1>1, <1>3, HoldsATask DEF Holding, Numbered, RegistryInv, HeirInv
  <2>3. \A t \in Task : Attached(t)' => Attached(t)
    BY <1>1 DEF Attached
  <2> QED BY <1>1, <1>2, <2>1, <2>2, <2>3, NumberedKept, HoldsATask DEF RegistryInv, HeirInv
<1>5. ASSUME NEW c \in Task \ {q}, HeirOK(c, q), life'[c] = "running" PROVE HeirOK(c, q)'
  <2>1. Registered(q)' = Registered(q) /\ Inherited(c, q)' = Inherited(c, q)
    BY <1>1, <1>2, InheritedSame
  <2>2. Owing(c, q)' <=> Owing(c, q)
    BY <1>1, <1>3, SMTT(30) DEF Owing, Forking
  <2>3. ASSUME Owing(c, q) PROVE Handing(c, q)'
    <3>1. Registered(q) /\ cpu[q].child = c
      BY <1>1, <1>5, <2>3 DEF HeirOK, Handing, Holding
    <3>2. PICK f \in Slot : f = SlotOf(q) /\ ac_prots[f].task = q
      BY <3>1, SlotOfHolds
    <3>3. ac_prots[f].jit_allowed \in BOOLEAN
      BY <3>2 DEF TypeOK, RegistryInv
    <3>4. cpu'[q].jit = ac_prots[f].jit_allowed
      BY <1>3, <3>1, <3>2, <3>3, Zenon
    <3>5. \A r \in Slot : ac_prots[r].task = q => r = f
      BY <1>1, <3>2, Zenon DEF CountExact, RegistryInv
    <3> QED BY <1>1, <1>3, <2>1, <3>1, <3>4, <3>5, Zenon DEF Handing, Holding
  <2> QED BY <1>1, <1>5, <2>1, <2>2, <2>3 DEF HeirOK
<1>6. Heirs'
  BY <1>1, <1>2, <1>5, HeirsOfOthers, SMTT(30) DEF TypeOK, RegistryInv, HeirInv
<1> QED BY <1>4, <1>6 DEF RegistryInv, HeirInv

\* ac_emit(AC_EV_FORK, ...), put_task_struct(child) and the return to the parent's program
LEMMA CloneEmitHeirs ==
    ASSUME RegistryInv, HeirInv, NEW q \in Task, CloneEmit(q) PROVE HeirInv'
<1>1. /\ UNCHANGED <<ac_prots, life, pidof, heirs, parent>> /\ cpu[q].at = "clone_emit"
      /\ cpu \in [Task -> CpuRecord] /\ NULL \notin Pid
  BY RegistryAssumption DEF CloneEmit, history, TypeOK, CpuRecord, RegistryInv
<1>2. cpu'[q] = InUser /\ \A u \in Task \ {q} : cpu'[u] = cpu[u]
  BY <1>1 DEF CloneEmit, Leave
<1>4. Numbered'
  <2>1. cpu'[q].pid = NULL /\ cpu'[q].at \notin Holding
    BY <1>2 DEF Holding, InUser
  <2>3. \A t \in Task : Attached(t)' => Attached(t)
    BY <1>1 DEF Attached
  <2> QED BY <1>1, <1>2, <2>1, <2>3, NumberedKept, HoldsATask, Zenon DEF RegistryInv, HeirInv
<1>5. ASSUME NEW c \in Task \ {q}, HeirOK(c, q), life'[c] = "running" PROVE HeirOK(c, q)'
  <2>1. Inherited(c, q)' = Inherited(c, q)
    BY <1>1, <1>2, InheritedSame, SMTT(30)
  <2>2. ~Owing(c, q)'
    BY <1>2 DEF Owing, Forking, InUser
  <2>3. Inherited(c, q)
    BY <1>1, <1>5, SMTT(30) DEF HeirOK, Handing
  <2> QED BY <2>1, <2>2, <2>3 DEF HeirOK
<1>6. Heirs'
  BY <1>1, <1>2, <1>5, HeirsOfOthers, SMTT(30) DEF TypeOK, RegistryInv, HeirInv
<1> QED BY <1>4, <1>6 DEF RegistryInv, HeirInv

\* do_exit() of an unregistered task, and of a registered one up to ac_emit()
LEMMA ExitCheckHeirs ==
    ASSUME RegistryInv, HeirInv, NEW q \in Task, ExitCheck(q) PROVE HeirInv'
<1>1. /\ UNCHANGED <<ac_prots, pidof, heirs, parent>>
      /\ cpu[q].at = "user" /\ life[q] = "running"
      /\ cpu \in [Task -> CpuRecord] /\ NULL \notin Pid
      /\ life \in [Task -> {"unborn", "running", "exited", "reaped"}]
  BY RegistryAssumption DEF ExitCheck, table, history, TypeOK, CpuRecord, RegistryInv
<1>2. /\ \A u \in Task \ {q} : cpu'[u] = cpu[u] /\ life'[u] = life[u]
      /\ cpu'[q].at \in {"user", "exit_del"} /\ cpu'[q].pid = cpu[q].pid
      /\ life'[q] \in {"running", "exited"}
  BY <1>1 DEF ExitCheck, CpuRecord
<1>4. Numbered'
  <2>1. cpu'[q].pid = NULL
    BY <1>1, <1>2 DEF Numbered, Forking, HeirInv
  <2>2. cpu'[q].at \notin Holding
    BY <1>2 DEF Holding
  <2>3. \A t \in Task : Attached(t)' => Attached(t)
    BY <1>1, <1>2 DEF Attached
  <2>4. \A t \in Task : life'[t] = "unborn" <=> life[t] = "unborn"
    BY <1>1, <1>2
  <2> QED BY <1>1, <1>2, <2>1, <2>2, <2>3, <2>4, NumberedKept, HoldsATask, ZenonT(60) DEF RegistryInv, HeirInv
<1>5. ASSUME NEW c \in Task \ {q}, HeirOK(c, q), life'[c] = "running" PROVE HeirOK(c, q)'
  <2>1. Inherited(c, q)' = Inherited(c, q)
    BY <1>1, <1>2, InheritedSame
  <2>2. ~Owing(c, q)' /\ ~Owing(c, q)
    BY <1>1, <1>2 DEF Owing, Forking
  <2>3. life[c] = "running"
    BY <1>2, <1>5
  <2> QED BY <1>5, <2>1, <2>2, <2>3 DEF HeirOK
<1>6. Heirs'
  BY <1>1, <1>2, <1>5, HeirsOfOthers, Zenon DEF TypeOK, RegistryInv, HeirInv
<1> QED BY <1>4, <1>6 DEF RegistryInv, HeirInv

\* release_task()
LEMMA ReapHeirs ==
    ASSUME RegistryInv, HeirInv, NEW q \in Task, Reap(q) PROVE HeirInv'
<1>1. /\ UNCHANGED <<ac_prots, pidof, heirs, parent, cpu>> /\ life[q] = "exited"
      /\ life \in [Task -> {"unborn", "running", "exited", "reaped"}]
      /\ life' = [life EXCEPT ![q] = "reaped"]
  BY SMTT(30) DEF Reap, table, history, TypeOK, RegistryInv
<1>2. Numbered'
  <2>1. cpu'[q].at \notin Forking => cpu'[q].pid = NULL
    BY <1>1 DEF Numbered, HeirInv
  <2>2. cpu'[q].at \in Holding =>
            /\ cpu'[q].child \in Task
            /\ life[cpu'[q].child] # "unborn" /\ pidof[cpu'[q].child] = cpu'[q].pid
    BY <1>1, HoldsATask DEF Numbered, RegistryInv, HeirInv
  <2>3. \A t \in Task : Attached(t)' => Attached(t)
    BY <1>1 DEF Attached
  <2>4. \A t \in Task : life'[t] = "unborn" <=> life[t] = "unborn"
    BY <1>1
  <2> QED BY <1>1, <2>1, <2>2, <2>3, <2>4, NumberedKept, HoldsATask, ZenonT(60) DEF RegistryInv, HeirInv
<1>3. Heirs'
  <2>1. SUFFICES ASSUME NEW c \in heirs', NEW p \in Task, parent'[c] = p
                 PROVE  life'[c] # "unborn" /\ parent'[c] \in Task \ {c} /\ HeirOK(c, p)'
    BY <1>1 DEF Heirs, HeirInv
  <2>2. c \in Task /\ life[c] # "unborn" /\ p # c /\ HeirOK(c, p)
    BY <1>1, <2>1 DEF Heirs, TypeOK, RegistryInv, HeirInv
  <2>3. Untouched(c) /\ Untouched(p)
    BY <1>1, AllUntouched
  <2>4. (life'[c] = "running" => life[c] = "running") /\ life'[c] # "unborn"
    BY <1>1, <2>2
  <2>5. HeirOK(c, p)'
    BY <1>1, <2>2, <2>3, <2>4, HeirKept
  <2> QED BY <2>1, <2>2, <2>4, <2>5, SMTT(30)
<1> QED BY <1>2, <1>3 DEF RegistryInv, HeirInv

\* kernel_clone(): the child's number is nobody else's, so the handler about to run owes
\* nothing to the parent's earlier children.
LEMMA CloneHeirs ==
    ASSUME RegistryInv, HeirInv, NEW q \in Task, NEW d \in Task, NEW k \in Pid, Clone(q, d, k)
    PROVE  HeirInv'
<1>1. /\ UNCHANGED ac_prots /\ life[d] = "unborn" /\ life[q] = "running"
      /\ cpu[q].at = "user" /\ d # q /\ k # NULL
      /\ cpu \in [Task -> CpuRecord] /\ pidof \in [Task -> Pid \cup {NULL}]
      /\ parent \in [Task -> Task \cup {NULL}]
      /\ life \in [Task -> {"unborn", "running", "exited", "reaped"}]
  BY RegistryAssumption DEF Clone, table, TypeOK, CpuRecord, RegistryInv
<1>2. /\ life'[d] = "running" /\ pidof'[d] = k /\ parent'[d] = q
      /\ \A u \in Task \ {d} :
            life'[u] = life[u] /\ pidof'[u] = pidof[u] /\ parent'[u] = parent[u]
  BY <1>1 DEF Clone
<1>3. /\ cpu'[q] = [at |-> "clone_ret", pid |-> k, child |-> NULL, jit |-> FALSE]
      /\ \A u \in Task \ {q} : cpu'[u] = cpu[u]
  BY <1>1 DEF Clone
<1>4. \A u \in Task : Attached(u) => pidof[u] # k
  BY DEF Clone, Found
<1>5. Numbered'
  <2>1. \A t \in Task : life'[t] = "unborn" <=> pidof'[t] = NULL
    BY <1>1, <1>2, SMTT(30) DEF Numbered, HeirInv
  <2>2. \A t, u \in Task : Attached(t)' /\ Attached(u)' /\ pidof'[t] = pidof'[u] => t = u
    BY <1>2, <1>4, SMTT(30) DEF Numbered, Attached, HeirInv
  <2>3. \A p \in Task : cpu'[p].at \notin Forking => cpu'[p].pid = NULL
    BY <1>3 DEF Numbered, Forking, HeirInv
  <2>4. \A p \in Task : cpu'[p].at \in Holding =>
            /\ life'[cpu'[p].child] # "unborn" /\ pidof'[cpu'[p].child] = cpu'[p].pid
    <3>1. SUFFICES ASSUME NEW p \in Task, cpu'[p].at \in Holding
                   PROVE  life'[cpu'[p].child] # "unborn" /\ pidof'[cpu'[p].child] = cpu'[p].pid
      OBVIOUS
    <3>2. p # q /\ cpu'[p] = cpu[p]
      BY <1>3, <3>1, SMTT(30) DEF Holding
    <3>3. PICK c \in Task : c = cpu[p].child /\ life[c] # "unborn" /\ pidof[c] = cpu[p].pid
      BY <3>1, <3>2, HoldsATask DEF Numbered, RegistryInv, HeirInv
    <3> QED BY <1>1, <1>2, <3>2, <3>3, SMTT(30)
  <2> QED BY <2>1, <2>2, <2>3, <2>4, Zenon DEF Numbered, HeirInv
<1>6. Heirs'
  <2>0. \A c \in heirs' : parent'[c] \in Task
    BY <1>1, <1>2, SMTT(30) DEF Heirs, Clone, TypeOK, RegistryInv, HeirInv
  <2>1. SUFFICES ASSUME NEW c \in heirs', NEW p \in Task, parent'[c] = p
                 PROVE  life'[c] # "unborn" /\ parent'[c] \in Task \ {c} /\ HeirOK(c, p)'
    BY <2>0, Zenon DEF Heirs, HeirInv
  <2>2. CASE c = d
    <3>1. Registered(q) /\ p = q
      BY <1>1, <1>2, <2>1, <2>2 DEF Clone, Heirs, HeirInv
    <3>2. Registered(q)' = Registered(q)
      BY <1>1, Zenon DEF Registered
    <3>3. Owing(c, q)' /\ Handing(c, q)'
      BY <1>2, <1>3, <2>2, <3>1, <3>2, SMTT(30) DEF Owing, Handing, Forking, Holding
    <3> QED BY <1>1, <1>2, <2>2, <3>1, <3>3, Zenon DEF HeirOK
  <2>3. CASE c # d
    <3>1. c \in heirs /\ c \in Task /\ life'[c] = life[c] /\ pidof'[c] = pidof[c] /\ parent[c] = p
      BY <1>2, <2>1, <2>3, SMTT(30) DEF Clone, TypeOK, RegistryInv
    <3>2. life[c] # "unborn" /\ p # c /\ HeirOK(c, p)
      BY <3>1, Zenon DEF Heirs, HeirInv
    <3>3. CASE p = q
      <4>1. Inherited(c, q)' = Inherited(c, q)
        BY <1>1, <1>3, <3>1, <3>2, <3>3, InheritedSame, Zenon
      <4>2. ~Owing(c, q)
        BY <1>1, Zenon DEF Owing, Forking
      <4>3. life[c] = "running" => ~Owing(c, q)'
        BY <1>3, <1>4, <3>1, SMTT(30) DEF Owing, Attached
      <4> QED BY <2>1, <3>1, <3>2, <3>3, <4>1, <4>2, <4>3, Zenon DEF HeirOK
    <3>4. CASE p # q
      <4>1. Untouched(c) /\ Untouched(p)
        BY <1>1, AllUntouched, Zenon
      <4>2. cpu[c].at = "exit_del" => cpu'[c].at = "exit_del"
        BY <1>1, <1>3, <3>1, ZenonT(60)
      <4>3. HeirOK(c, p)'
        BY <1>3, <3>1, <3>2, <3>4, <4>1, <4>2, HeirKept
      <4> QED BY <2>1, <3>1, <3>2, <4>3, SMTT(30)
    <3> QED BY <3>3, <3>4
  <2> QED BY <2>2, <2>3, Zenon
<1> QED BY <1>5, <1>6, SMTT(30) DEF RegistryInv, HeirInv

\* The locked section of ADD_PROC or DEL_PROC on t: the children it could disturb are t, if it
\* is one, and those of t, and their history ends here.
LEMMA TouchHeirs ==
    ASSUME RegistryInv, HeirInv, NEW t \in Task, \A u \in Task \ {t} : Untouched(u), Touch(t),
           UNCHANGED <<life, pidof, cpu, parent>>
    PROVE  HeirInv'
<1>1. Numbered'
  BY SMTT(30) DEF Numbered, Attached, HeirInv
<1>2. Heirs'
  <2>1. SUFFICES ASSUME NEW c \in heirs', NEW p \in Task, parent'[c] = p
                 PROVE  life'[c] # "unborn" /\ parent'[c] \in Task \ {c} /\ HeirOK(c, p)'
    BY DEF Heirs, Touch, HeirInv
  <2>2. c \in Task \ {t} /\ life[c] # "unborn" /\ p # c /\ p # t /\ HeirOK(c, p)
    BY <2>1, Zenon DEF Heirs, Touch, TypeOK, RegistryInv, HeirInv
  <2>3. HeirOK(c, p)'
    BY <2>2, HeirKept
  <2> QED BY <2>1, <2>2, <2>3, Zenon
<1> QED BY <1>1, <1>2, ZenonT(60) DEF RegistryInv, HeirInv

\* ac_add_prot_task(child, ...) hands the child of this fork the flag read before; a child
\* whose slot another fork handler wrote, through a reused number, is no longer followed.
LEMMA CloneAddHeirs ==
    ASSUME RegistryInv, HeirInv, NEW q \in Task, CloneAdd(q) PROVE HeirInv'
<1>1. /\ UNCHANGED <<life, pidof, parent>> /\ cpu[q].at = "clone_add"
      /\ cpu \in [Task -> CpuRecord] /\ NULL \notin Task
  BY RegistryAssumption DEF CloneAdd, TypeOK, CpuRecord, RegistryInv
<1>2. PICK t \in Task, jit \in BOOLEAN : t = cpu[q].child /\ jit = cpu[q].jit
  BY <1>1, HoldsATask DEF Holding, CpuRecord, RegistryInv
<1>3. /\ cpu'[q].at = "clone_emit" /\ cpu'[q].pid = cpu[q].pid /\ cpu'[q].child = t
      /\ \A u \in Task \ {q} : cpu'[u] = cpu[u]
  BY <1>1, <1>2 DEF CloneAdd, CpuRecord
<1>4. AddProtTask(t, jit)
  BY <1>2, Zenon DEF CloneAdd
<1>5. /\ \A u \in Task \ {t} : Untouched(u)
      /\ Registered(t) \/ Free # {} =>
            Registered(t)' /\ \A s \in Slot : ac_prots'[s].task = t => ac_prots'[s].jit_allowed = jit
  BY <1>4, AddFlags DEF RegistryInv
<1>6. heirs' = {c \in heirs :
                   parent[c] # t /\ (c = t => parent[c] = q /\ (Registered(t) \/ Free # {}))}
  BY <1>2 DEF CloneAdd
<1>7. life[t] # "unborn" /\ pidof[t] = cpu[q].pid
  BY <1>1, <1>2, Zenon DEF Numbered, Holding, HeirInv
<1>8. Numbered'
  <2>1. cpu'[q].at \in Forking
    BY <1>3 DEF Forking
  <2>2. /\ cpu'[q].child \in Task
        /\ life[cpu'[q].child] # "unborn" /\ pidof[cpu'[q].child] = cpu'[q].pid
    BY <1>3, <1>7
  <2>3. \A u \in Task : Attached(u)' => Attached(u)
    BY <1>1 DEF Attached
  <2> QED BY <1>1, <1>3, <2>1, <2>2, <2>3, NumberedKept, HoldsATask, ZenonT(60) DEF RegistryInv, HeirInv
<1>9. Heirs'
  <2>1. SUFFICES ASSUME NEW c \in heirs', NEW p \in Task, parent'[c] = p
                 PROVE  life'[c] # "unborn" /\ parent'[c] \in Task \ {c} /\ HeirOK(c, p)'
    BY <1>1, <1>6, SMTT(30) DEF Heirs, HeirInv
  <2>2. /\ c \in Task /\ life[c] # "unborn" /\ p # c /\ p # t /\ HeirOK(c, p)
        /\ c = t => p = q /\ (Registered(t) \/ Free # {})
    BY <1>1, <1>6, <2>1, ZenonT(60) DEF Heirs, TypeOK, RegistryInv, HeirInv
  <2>3. Untouched(p)
    BY <1>5, <2>2
  <2>4. CASE c = t
    <3>1. Owing(c, q)
      BY <1>1, <1>7, <2>4, Zenon DEF Owing, Forking
    <3>2. CASE life[c] = "running"
      <4>1. \A r \in Slot : ac_prots[r].task = q => ac_prots[r].jit_allowed = jit
        BY <1>1, <1>2, <2>2, <2>4, <3>1, <3>2, ZenonT(60) DEF HeirOK, Handing
      <4>2. Inherited(c, q)'
        BY <1>5, <2>2, <2>3, <2>4, <4>1, ZenonT(60) DEF Inherited, SameFlag, Untouched
      <4>3. Handing(c, q)'
        BY <1>3, <2>4, <4>2, Zenon DEF Handing
      <4>4. Owing(c, q)'
        BY <1>1, <1>3, <3>1, Zenon DEF Owing, Forking
      <4> QED BY <1>1, <2>1, <2>2, <2>4, <4>3, <4>4, Zenon DEF HeirOK
    <3>3. CASE life[c] # "running"
      BY <1>1, <2>1, <2>2, <3>3, Zenon DEF HeirOK
    <3> QED BY <3>2, <3>3
  <2>5. CASE c # t /\ p = q /\ life[c] = "running"
    <3>1. Untouched(c)
      BY <1>5, <2>2, <2>5
    <3>2. ~Owing(c, q)
      BY <1>1, <1>2, <2>2, <2>5, Zenon DEF HeirOK, Handing, Holding
    <3>3. ~Owing(c, q)'
      BY <1>1, <1>3, <3>2 DEF Owing, Forking
    <3>4. Inherited(c, q)
      BY <2>2, <2>5, <3>2, Zenon DEF HeirOK
    <3>5. cpu'[c] = cpu[c]
      BY <1>3, <2>2, <2>5, Zenon
    <3>6. Inherited(c, q)'
      BY <2>3, <2>5, <3>1, <3>4, <3>5, ZenonT(60) DEF Inherited, SameFlag, Registered, Untouched
    <3> QED BY <1>1, <2>1, <2>2, <2>5, <3>3, <3>6, ZenonT(60) DEF HeirOK
  <2>6. CASE c # t /\ p # q
    <3>1. Untouched(c)
      BY <1>5, <2>2, <2>6, Zenon
    <3>2. cpu[c].at = "exit_del" => cpu'[c].at = "exit_del"
      BY <1>1, <1>3, <2>2, ZenonT(60)
    <3>3. HeirOK(c, p)'
      BY <1>1, <1>3, <2>2, <2>3, <2>6, <3>1, <3>2, HeirKept, SMTT(30)
    <3> QED BY <1>1, <2>1, <2>2, <3>3, Zenon
  <2>7. CASE life[c] # "running"
    BY <1>1, <2>1, <2>2, <2>7, Zenon DEF HeirOK
  <2> QED BY <2>4, <2>5, <2>6, <2>7, ZenonT(60)
<1> QED BY <1>8, <1>9 DEF RegistryInv, HeirInv

\* ac_exit_pre() frees the slot of the exiting task alone.
LEMMA ExitDelHeirs ==
    ASSUME RegistryInv, HeirInv, Exiting, NEW q \in Task, ExitDel(q) PROVE HeirInv'
<1>1. /\ UNCHANGED <<pidof, parent, heirs>> /\ cpu[q].at = "exit_del" /\ DelProtTask(q)
      /\ life' = [life EXCEPT ![q] = "exited"] /\ Leave(q)
      /\ cpu \in [Task -> CpuRecord]
      /\ life \in [Task -> {"unborn", "running", "exited", "reaped"}]
  BY DEF ExitDel, history, TypeOK, CpuRecord, RegistryInv
<1>2. /\ cpu'[q] = InUser /\ life'[q] = "exited"
      /\ \A u \in Task \ {q} : cpu'[u] = cpu[u] /\ life'[u] = life[u]
  BY <1>1, Zenon DEF Leave
<1>3. /\ \A u \in Task \ {q} : Untouched(u)
      /\ \A s \in Slot : ac_prots'[s].task = q => ac_prots'[s] = ac_prots[s]
  BY <1>1, DelFlags DEF RegistryInv
<1>4. life[q] = "running"
  BY <1>1, Zenon DEF Exiting
<1>5. Numbered'
  <2>1. cpu'[q].pid = NULL /\ cpu'[q].at \notin Holding
    BY <1>2 DEF Holding, InUser
  <2>2. \A t \in Task : Attached(t)' => Attached(t)
    BY <1>2, <1>4 DEF Attached
  <2>3. \A t \in Task : life'[t] = "unborn" <=> life[t] = "unborn"
    BY <1>2, <1>4, SMTT(30)
  <2> QED BY <1>1, <1>2, <2>1, <2>2, <2>3, NumberedKept, HoldsATask, ZenonT(60) DEF RegistryInv, HeirInv
<1>6. Heirs'
  <2>1. SUFFICES ASSUME NEW c \in heirs', NEW p \in Task, parent'[c] = p
                 PROVE  life'[c] # "unborn" /\ parent'[c] \in Task \ {c} /\ HeirOK(c, p)'
    BY <1>1, Zenon DEF Heirs, HeirInv
  <2>2. c \in Task /\ life[c] # "unborn" /\ p # c /\ HeirOK(c, p)
    BY <1>1, <2>1, Zenon DEF Heirs, TypeOK, RegistryInv, HeirInv
  <2>3. CASE c = q
    BY <1>2, <2>1, <2>2, <2>3, Zenon DEF HeirOK
  <2>4. CASE c # q /\ p = q /\ life[c] = "running"
    <3>1. ~Owing(c, q) /\ ~Owing(c, q)'
      BY <1>1, <1>2, SMTT(30) DEF Owing, Forking, InUser
    <3>2. Inherited(c, q) /\ Untouched(c) /\ cpu'[c] = cpu[c]
      BY <1>2, <1>3, <2>2, <2>4, <3>1, Zenon DEF HeirOK
    <3>3. Inherited(c, q)'
      BY <1>3, <3>2 DEF Inherited, SameFlag, Registered, Untouched
    <3> QED BY <1>2, <2>1, <2>2, <2>4, <3>1, <3>3, Zenon DEF HeirOK
  <2>5. CASE c # q /\ p # q
    <3>1. HeirOK(c, p)'
      BY <1>1, <1>2, <1>3, <2>2, <2>5, HeirKept, Zenon
    <3> QED BY <1>2, <2>1, <2>2, <2>5, <3>1, Zenon
  <2>6. CASE c # q /\ life[c] # "running"
    BY <1>2, <2>1, <2>2, <2>6 DEF HeirOK
  <2> QED BY <2>3, <2>4, <2>5, <2>6, Zenon
<1> QED BY <1>5, <1>6 DEF RegistryInv, HeirInv

\* Only do_exit() ends a task, before its handler runs or when it is done.
LEMMA ExitingStep ==
    ASSUME RegistryInv, Exiting, [Next]_vars PROVE Exiting'
<1>0. /\ cpu \in [Task -> CpuRecord]
      /\ life \in [Task -> {"unborn", "running", "exited", "reaped"}]
  BY DEF RegistryInv, TypeOK, CpuRecord
<1>1. CASE UNCHANGED <<cpu, life>>
  BY <1>1, ZenonT(60) DEF Exiting
<1>2. ASSUME NEW a \in Admin, Ioctl(a) PROVE UNCHANGED <<cpu, life>>
  BY <1>2 DEF Ioctl, AddFind, DelFind, BeginCall, AddProc, DelProc
<1>3. ASSUME NEW q \in Task, UNCHANGED life, cpu'[q].at # "exit_del",
             \A u \in Task \ {q} : cpu'[u] = cpu[u]
      PROVE  Exiting'
  BY <1>3 DEF Exiting
<1>4. ASSUME NEW q \in Task, Process(q) PROVE Exiting'
  <2>1. ASSUME NEW d \in Task, NEW k \in Pid, Clone(q, d, k) PROVE Exiting'
    <3>1. /\ life' = [life EXCEPT ![d] = "running"] /\ cpu'[q].at = "clone_ret"
          /\ \A u \in Task \ {q} : cpu'[u] = cpu[u]
      BY <1>0, <2>1 DEF Clone
    <3> QED BY <1>0, <3>1, SMTT(30) DEF Exiting
  <2>2. CASE CloneCheck(q)
    <3>1. (\A u \in Task \ {q} : cpu'[u] = cpu[u]) /\ cpu'[q].at # "exit_del" /\ UNCHANGED life
      BY <1>0, <2>2 DEF CloneCheck, Leave, InUser, CpuRecord
    <3> QED BY <1>3, <3>1
  <2>3. CASE CloneFind(q)
    <3>1. \A u \in Task \ {q} : cpu'[u] = cpu[u]
      BY <1>0, <2>3 DEF CloneFind, Leave
    <3>2. cpu'[q].at # "exit_del" /\ UNCHANGED life
      BY <1>0, <2>3 DEF CloneFind, Leave, InUser, CpuRecord
    <3> QED BY <1>3, <3>1, <3>2
  <2>4. CASE CloneJit(q)
    <3>1. (\A u \in Task \ {q} : cpu'[u] = cpu[u]) /\ cpu'[q].at = "clone_add" /\ UNCHANGED life
      BY <1>0, <2>4 DEF CloneJit, CpuRecord
    <3> QED BY <1>3, <3>1
  <2>5. CASE CloneAdd(q)
    <3>1. (\A u \in Task \ {q} : cpu'[u] = cpu[u]) /\ cpu'[q].at = "clone_emit" /\ UNCHANGED life
      BY <1>0, <2>5 DEF CloneAdd, CpuRecord
    <3> QED BY <1>3, <3>1
  <2>6. CASE CloneEmit(q)
    <3>1. (\A u \in Task \ {q} : cpu'[u] = cpu[u]) /\ cpu'[q].at = "user" /\ UNCHANGED life
      BY <1>0, <2>6 DEF CloneEmit, Leave, InUser
    <3> QED BY <1>3, <3>1
  <2>7. CASE ExitCheck(q)
    <3>1. \A u \in Task \ {q} : cpu'[u] = cpu[u] /\ life'[u] = life[u]
      BY <1>0, <2>7 DEF ExitCheck
    <3>2. cpu'[q].at = "exit_del" => life'[q] = "running"
      BY <1>0, <2>7, SMTT(30) DEF ExitCheck, CpuRecord
    <3> QED BY <3>1, <3>2 DEF Exiting
  <2>8. CASE ExitDel(q)
    BY <1>0, <2>8 DEF ExitDel, Exiting, Leave, InUser
  <2>9. CASE Reap(q)
    BY <1>0, <2>9 DEF Reap, Exiting
  <2> QED BY <1>4, <2>1, <2>2, <2>3, <2>4, <2>5, <2>6, <2>7, <2>8, <2>9, ZenonT(60) DEF Process
<1> QED BY <1>1, <1>2, <1>4, Zenon DEF Next, vars

\* Every step keeps what the children inherited.
LEMMA HeirStep ==
    ASSUME RegistryInv, HeirInv, Exiting, [Next]_vars PROVE HeirInv'
<1>1. CASE UNCHANGED <<ac_prots, life, pidof, cpu, heirs, parent>>
  BY <1>1, SMTT(30) DEF HeirInv, Numbered, Attached, Heirs, HeirOK, Owing, Handing, Inherited, SameFlag,
              Registered, RegistryInv
<1>2. ASSUME NEW a \in Admin, Ioctl(a) PROVE HeirInv'
  <2>1. CASE AddProc(a)
    <3>1. adm[a].task \in Task /\ adm[a].jit \in BOOLEAN
      BY <2>1, SMTT(30) DEF AddProc, RegistryInv, Locals, TypeOK
    <3>2. PICK t \in Task, jit \in BOOLEAN : t = adm[a].task /\ jit = adm[a].jit
      BY <3>1, SMTT(30)
    <3>3. AddProtTask(t, jit) /\ Touch(t) /\ UNCHANGED <<life, pidof, cpu, parent>>
      BY <2>1, <3>2, SMTT(30) DEF AddProc
    <3>4. \A u \in Task \ {t} : Untouched(u)
      BY <3>3, AddFlags, SMTT(30) DEF RegistryInv
    <3> QED BY <3>3, <3>4, TouchHeirs, Zenon
  <2>2. CASE DelProc(a)
    <3>1. PICK t \in Task : t = adm[a].task
      BY <2>2, Zenon DEF DelProc, RegistryInv, Locals, TypeOK
    <3>2. DelProtTask(t) /\ Touch(t) /\ UNCHANGED <<life, pidof, cpu, parent>>
      BY <2>2, <3>1, SMTT(30) DEF DelProc
    <3>3. \A u \in Task \ {t} : Untouched(u)
      BY <3>2, DelFlags, SMTT(30) DEF RegistryInv
    <3> QED BY <3>2, <3>3, TouchHeirs, Zenon
  <2> QED BY <1>1, <1>2, <2>1, <2>2, SMTT(30) DEF Ioctl, AddFind, DelFind, BeginCall, history
<1>3. ASSUME NEW q \in Task, Process(q) PROVE HeirInv'
  BY <1>3, CloneHeirs, CloneCheckHeirs, CloneFindHeirs, CloneJitHeirs, CloneAddHeirs,
     CloneEmitHeirs, ExitCheckHeirs, ExitDelHeirs, ReapHeirs, ZenonT(60) DEF Process
<1>4. UNCHANGED vars => UNCHANGED <<ac_prots, life, pidof, cpu, heirs, parent>>
  BY DEF vars, table, history
<1> QED BY <1>1, <1>2, <1>3, <1>4, Zenon DEF Next

\* Nobody is anyone's child at first, and no handler runs.
LEMMA HeirStart == Init => HeirInv /\ Exiting
<1> SUFFICES ASSUME Init PROVE HeirInv /\ Exiting
  BY Zenon
<1>1. \A t \in Task : cpu[t].at = "user" /\ cpu[t].pid = NULL
  BY Zenon DEF Init, InUser
<1>2. Numbered
  BY <1>1, RegistryAssumption, Zenon DEF Init, Numbered, Attached, Holding
<1>3. Heirs /\ Exiting
  BY <1>1, Zenon DEF Init, Heirs, Exiting
<1> QED BY <1>2, <1>3 DEF HeirInv

\* A child whose fork handler is done has inherited what its parent has.
LEMMA HeirInherits == RegistryInv /\ HeirInv => ChildInherits
<1> SUFFICES ASSUME RegistryInv, HeirInv, NEW c \in heirs, life[c] = "running", ~ForkPending(c)
             PROVE  /\ Registered(c) \/ cpu[c].at = "exit_del"
                    /\ Registered(c) /\ Registered(parent[c]) =>
                          ac_prots[SlotOf(c)].jit_allowed = ac_prots[SlotOf(parent[c])].jit_allowed
  BY Zenon DEF ChildInherits
<1>1. PICK p \in Task : p = parent[c] /\ HeirOK(c, p)
  BY SMTT(30) DEF HeirInv, Heirs
<1>2. ~Owing(c, p)
  BY <1>1 DEF Owing, Forking, ForkPending
<1>3. Inherited(c, p)
  BY <1>1, <1>2 DEF HeirOK
<1>4. Registered(c) => SlotOf(c) \in Slot /\ ac_prots[SlotOf(c)].task = c
  BY SlotOfHolds
<1>5. Registered(p) => SlotOf(p) \in Slot /\ ac_prots[SlotOf(p)].task = p
  BY SlotOfHolds
<1> QED BY <1>1, <1>3, <1>4, <1>5, Zenon DEF Inherited, SameFlag

\* Whatever interleaves with it, a fork handler that finishes has protected the child as the
\* parent is protected, JIT flag included, for any number of tasks, callers and slots.
THEOREM ChildrenInherit == Spec => []ChildInherits
<1>1. RegistryInv /\ HeirInv /\ Exiting /\ [Next]_vars => HeirInv' /\ Exiting'
  BY HeirStep, ExitingStep
<1> QED BY <1>1, HeirStart, HeirInherits, RegistryInvariant, PTL DEF Spec
=============================================================================
