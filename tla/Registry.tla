------------------------------ MODULE Registry ------------------------------
(***************************************************************************)
(* The protected-process registry of src/src/anticheat_module.c and the    *)
(* code that changes it while processes fork and exit: the ADD_PROC and    *)
(* DEL_PROC ioctls, the kretprobe handler ac_clone_ret() and the kprobe    *)
(* handler ac_exit_pre().                                                  *)
(*                                                                         *)
(* Every access of the table holds ac_prot_lock, so one locked section is  *)
(* one step; between two locked sections of a handler any other CPU may    *)
(* run.  A task is a task_struct; it is found by number as long as its pid *)
(* is attached, that is until it is reaped.  Namespaces are abstracted:    *)
(* ac_find_task_in_ns_of() and ac_find_task() both turn a number into the  *)
(* task that carries it now.  Failing lookups and copies (ESRCH, EFAULT)   *)
(* change nothing and are stuttering steps.                                *)
(***************************************************************************)
EXTENDS Integers, FiniteSets

CONSTANTS
    Task,          \* task_structs
    Roots,         \* tasks that run from the start
    Pid,           \* pid numbers
    Admin,         \* threads that issue the ioctls
    Calls,         \* the ioctls they issue, of "add" and "del"
    AC_PROT_MAX,   \* slots of the registry
    JitFlags,      \* values of jit_allowed that ADD_PROC is called with
    NULL           \* no task

ASSUME RegistryAssumption ==
    /\ Roots \subseteq Task
    /\ AC_PROT_MAX \in Nat \ {0}
    /\ JitFlags \subseteq BOOLEAN
    /\ NULL \notin Task
    /\ NULL \notin Pid
    /\ IsFiniteSet(Task)
    /\ IsFiniteSet(Admin)

VARIABLES
    life,           \* task -> unborn, running, exited (still has its pid), reaped
    pidof,          \* task -> its number, NULL before birth
    ac_prots,       \* slot -> [task, pid, jit_allowed]
    ac_prot_count,  \* what STATUS reports
    refs,           \* task -> references this module holds on it
    cpu,            \* task -> the handler it is in, and the handler's locals
    adm,            \* admin thread -> the ioctl it is in
    parent,         \* history: task -> the task that cloned it
    ever,           \* history: tasks that were in the registry
    late,           \* history: tasks registered after their exit handler ran
    heirs           \* history: tasks cloned by a registered parent, with no
                    \* ADD_PROC or DEL_PROC on them or on the parent since, nor
                    \* a fork handler on the parent, nor another's on them (for a
                    \* child that carried their number before); not those that
                    \* found the table full

table == <<ac_prots, ac_prot_count, refs>>
history == <<parent, ever, late, heirs>>
vars == <<life, pidof, table, cpu, adm, history>>

Slot == 1 .. AC_PROT_MAX

InUser == [at |-> "user", pid |-> NULL, child |-> NULL, jit |-> FALSE]
NoCall == [at |-> "idle", task |-> NULL, jit |-> FALSE]

Registered(t) == \E s \in Slot : ac_prots[s].task = t
SlotOf(t) == CHOOSE s \in Slot : ac_prots[s].task = t
Free == {s \in Slot : ac_prots[s].task = NULL}
FirstFree == CHOOSE s \in Free : \A r \in Free : s <= r
Occupied == Slot \ Free
Protected == {t \in Task : Registered(t)}

\* A task that find_get_pid() and get_pid_task() still reach.
Attached(t) == life[t] \in {"running", "exited"}

\* ac_find_task(): the task that carries this number now.
Found(k) == {t \in Task : Attached(t) /\ pidof[t] = k}

-----------------------------------------------------------------------------
(* ac_add_prot_task() in the locked section: refs counts the reference its  *)
(* caller drops right after, so the caller says by how much they change.    *)

AddKnown(t, jit) ==
    /\ Registered(t)
    /\ ac_prots' = [ac_prots EXCEPT ![SlotOf(t)].jit_allowed = jit]
    /\ UNCHANGED <<ac_prot_count, ever, late>>

AddNewTwice(t, jit) ==   \* variant: the search for t stops at the first free slot
    /\ Free # {}
    /\ ac_prots' = [ac_prots EXCEPT ![FirstFree] =
                        [task |-> t, pid |-> pidof[t], jit_allowed |-> jit]]
    /\ ac_prot_count' = ac_prot_count + 1
    /\ ever' = ever \cup {t}
    /\ late' = late

AddNew(t, jit) ==
    /\ ~Registered(t)
    /\ Free # {}
    /\ ac_prots' = [ac_prots EXCEPT ![FirstFree] =
                        [task |-> t, pid |-> pidof[t], jit_allowed |-> jit]]
    /\ ac_prot_count' = ac_prot_count + 1
    /\ ever' = ever \cup {t}
    /\ late' = IF life[t] = "running" THEN late ELSE late \cup {t}

AddOverFirst(t, jit) ==   \* variant: slot starts at 0 instead of -1
    /\ ~Registered(t)
    /\ Free = {}
    /\ ac_prots' = [ac_prots EXCEPT ![1].task = t, ![1].jit_allowed = jit]
    /\ UNCHANGED <<ac_prot_count, ever, late>>

AddNoSpace(t, jit) ==
    /\ ~Registered(t)
    /\ Free = {}
    /\ UNCHANGED <<ac_prots, ac_prot_count, ever, late>>

AddProtTask(t, jit) ==
    \/ AddKnown(t, jit)
    \/ AddNew(t, jit)
    \/ AddNoSpace(t, jit)

KeptAlways(t) == IF Free # {} THEN 1 ELSE 0   \* variant: get_task_struct() before the search

\* The references a completed ac_add_prot_task(t) leaves on t.
Kept(t) == IF ~Registered(t) /\ Free # {} THEN 1 ELSE 0

\* ac_del_prot_task(): the rest of the slot is left as it was.
DelKnown(t) ==
    /\ Registered(t)
    /\ ac_prots' = [ac_prots EXCEPT ![SlotOf(t)].task = NULL]
    /\ ac_prot_count' = ac_prot_count - 1

DelUnknown(t) ==
    /\ ~Registered(t)
    /\ UNCHANGED <<ac_prots, ac_prot_count>>

DelProtTask(t) == DelKnown(t) \/ DelUnknown(t)

Dropped(t) == IF Registered(t) THEN 1 ELSE 0

-----------------------------------------------------------------------------
(* ADD_PROC and DEL_PROC: the lookup takes a reference, the locked section  *)
(* works on the task it found, whatever happened to it meanwhile.           *)

BeginCall(a, t, at, jit) ==
    /\ adm[a].at = "idle"
    /\ at \in Calls
    /\ adm' = [adm EXCEPT ![a] = [at |-> at, task |-> t, jit |-> jit]]
    /\ refs' = [refs EXCEPT ![t] = @ + 1]
    /\ UNCHANGED <<life, pidof, ac_prots, ac_prot_count, cpu, history>>

AddFind(a, k, jit) == \E t \in Found(k) : BeginCall(a, t, "add", jit)

DelFind(a, k) == \E t \in Found(k) : BeginCall(a, t, "del", FALSE)

\* An ioctl on t settles t's protection and that of the children it cloned.
Touch(t) == heirs' = {c \in heirs : c # t /\ parent[c] # t}

AddProc(a) ==
    LET t == adm[a].task
    IN  /\ adm[a].at = "add"
        /\ AddProtTask(t, adm[a].jit)
        /\ refs' = [refs EXCEPT ![t] = @ + Kept(t) - 1]
        /\ adm' = [adm EXCEPT ![a] = NoCall]
        /\ Touch(t)
        /\ UNCHANGED <<life, pidof, cpu, parent>>

DelProc(a) ==
    LET t == adm[a].task
    IN  /\ adm[a].at = "del"
        /\ DelProtTask(t)
        /\ refs' = [refs EXCEPT ![t] = @ - Dropped(t) - 1]
        /\ adm' = [adm EXCEPT ![a] = NoCall]
        /\ Touch(t)
        /\ UNCHANGED <<life, pidof, cpu, parent, ever, late>>

-----------------------------------------------------------------------------
(* Processes: kernel_clone(), do_exit() and reaping are the kernel's; the   *)
(* handlers hung on the first two are the module's.                         *)

\* kernel_clone() returns the child's number to the parent, and the child may
\* run from then on; the kretprobe handler of the parent is still to run.
Clone(p, c, k) ==
    /\ life[p] = "running" /\ cpu[p].at = "user"
    /\ life[c] = "unborn"
    /\ Found(k) = {}
    /\ life' = [life EXCEPT ![c] = "running"]
    /\ pidof' = [pidof EXCEPT ![c] = k]
    /\ cpu' = [cpu EXCEPT ![p] = [at |-> "clone_ret", pid |-> k, child |-> NULL, jit |-> FALSE]]
    /\ parent' = [parent EXCEPT ![c] = p]
    /\ heirs' = IF Registered(p) THEN heirs \cup {c} ELSE heirs
    /\ UNCHANGED <<table, adm, ever, late>>

Leave(p) == cpu' = [cpu EXCEPT ![p] = InUser]

\* ac_is_protected_task(current)
CloneCheck(p) ==
    /\ cpu[p].at = "clone_ret"
    /\ \/ ~Registered(p) /\ Leave(p)
       \/ Registered(p) /\ cpu' = [cpu EXCEPT ![p].at = "clone_find"]
    /\ UNCHANGED <<life, pidof, table, adm, history>>

\* ac_find_task(child_pid): the number may carry no task, or another one.
CloneFind(p) ==
    /\ cpu[p].at = "clone_find"
    /\ \/ /\ Found(cpu[p].pid) = {}
          /\ Leave(p)
          /\ UNCHANGED refs
       \/ \E t \in Found(cpu[p].pid) :
            /\ cpu' = [cpu EXCEPT ![p].at = "clone_jit", ![p].child = t]
            /\ refs' = [refs EXCEPT ![t] = @ + 1]
    /\ UNCHANGED <<life, pidof, ac_prots, ac_prot_count, adm, history>>

CloneJitReset(p) ==   \* variant: the child starts without the flag
    /\ cpu[p].at = "clone_jit"
    /\ cpu' = [cpu EXCEPT ![p].at = "clone_add", ![p].jit = FALSE]
    /\ UNCHANGED <<life, pidof, table, adm, history>>

\* ac_task_jit_allowed(current)
CloneJit(p) ==
    /\ cpu[p].at = "clone_jit"
    /\ cpu' = [cpu EXCEPT ![p].at = "clone_add",
                          ![p].jit = Registered(p) /\ ac_prots[SlotOf(p)].jit_allowed]
    /\ UNCHANGED <<life, pidof, table, adm, history>>

\* ac_add_prot_task(child, ...), whose result is ignored; a child that is
\* registered already has its flag overwritten
CloneAdd(p) ==
    LET t == cpu[p].child
    IN  /\ cpu[p].at = "clone_add"
        /\ AddProtTask(t, cpu[p].jit)
        /\ refs' = [refs EXCEPT ![t] = @ + Kept(t)]
        /\ cpu' = [cpu EXCEPT ![p].at = "clone_emit"]
        /\ heirs' = {c \in heirs :
                        parent[c] # t /\ (c = t => parent[c] = p /\ (Registered(t) \/ Free # {}))}
        /\ UNCHANGED <<life, pidof, adm, parent>>

\* ac_emit(AC_EV_FORK, ...) and put_task_struct(child)
CloneEmit(p) ==
    LET t == cpu[p].child
    IN  /\ cpu[p].at = "clone_emit"
        /\ refs' = [refs EXCEPT ![t] = @ - 1]
        /\ Leave(p)
        /\ UNCHANGED <<life, pidof, ac_prots, ac_prot_count, adm, history>>

ExitNoDel(t) ==   \* variant: ac_exit_pre() only emits
    /\ life[t] = "running" /\ cpu[t].at = "user"
    /\ life' = [life EXCEPT ![t] = "exited"]
    /\ UNCHANGED <<pidof, table, cpu, adm, history>>

\* do_exit() of an unregistered task, and of a registered one up to ac_emit()
ExitCheck(t) ==
    /\ life[t] = "running" /\ cpu[t].at = "user"
    /\ \/ ~Registered(t) /\ life' = [life EXCEPT ![t] = "exited"] /\ UNCHANGED cpu
       \/ Registered(t) /\ cpu' = [cpu EXCEPT ![t].at = "exit_del"] /\ UNCHANGED life
    /\ UNCHANGED <<pidof, table, adm, history>>

ExitDel(t) ==
    /\ cpu[t].at = "exit_del"
    /\ DelProtTask(t)
    /\ refs' = [refs EXCEPT ![t] = @ - Dropped(t)]
    /\ life' = [life EXCEPT ![t] = "exited"]
    /\ Leave(t)
    /\ UNCHANGED <<pidof, adm, history>>

\* release_task(): the number is free from here on.
Reap(t) ==
    /\ life[t] = "exited"
    /\ life' = [life EXCEPT ![t] = "reaped"]
    /\ UNCHANGED <<pidof, table, cpu, adm, history>>

-----------------------------------------------------------------------------
EmptySlot == [task |-> NULL, pid |-> NULL, jit_allowed |-> FALSE]

Init ==
    /\ life = [t \in Task |-> IF t \in Roots THEN "running" ELSE "unborn"]
    /\ pidof \in [Task -> Pid \cup {NULL}]
    /\ \A t \in Task : pidof[t] = NULL <=> t \notin Roots
    /\ \A t, u \in Roots : pidof[t] = pidof[u] => t = u
    /\ ac_prots = [s \in Slot |-> EmptySlot]
    /\ ac_prot_count = 0
    /\ refs = [t \in Task |-> 0]
    /\ cpu = [t \in Task |-> InUser]
    /\ adm = [a \in Admin |-> NoCall]
    /\ parent = [t \in Task |-> NULL]
    /\ ever = {} /\ late = {} /\ heirs = {}

Ioctl(a) ==
    \/ \E k \in Pid, jit \in JitFlags : AddFind(a, k, jit)
    \/ \E k \in Pid : DelFind(a, k)
    \/ AddProc(a)
    \/ DelProc(a)

Process(t) ==
    \/ \E c \in Task, k \in Pid : Clone(t, c, k)
    \/ CloneCheck(t) \/ CloneFind(t) \/ CloneJit(t) \/ CloneAdd(t) \/ CloneEmit(t)
    \/ ExitCheck(t) \/ ExitDel(t) \/ Reap(t)

Next == (\E a \in Admin : Ioctl(a)) \/ (\E t \in Task : Process(t))

Spec == Init /\ [][Next]_vars

-----------------------------------------------------------------------------
\* Every variable keeps its type.
TypeOK ==
    /\ life \in [Task -> {"unborn", "running", "exited", "reaped"}]
    /\ pidof \in [Task -> Pid \cup {NULL}]
    /\ ac_prots \in [Slot -> [task : Task \cup {NULL}, pid : Pid \cup {NULL},
                              jit_allowed : BOOLEAN]]
    /\ ac_prot_count \in 0 .. AC_PROT_MAX
    /\ refs \in [Task -> Nat]
    /\ cpu \in [Task -> [at : {"user", "clone_ret", "clone_find", "clone_jit", "clone_add",
                               "clone_emit", "exit_del"},
                         pid : Pid \cup {NULL}, child : Task \cup {NULL}, jit : BOOLEAN]]
    /\ adm \in [Admin -> [at : {"idle", "add", "del"}, task : Task \cup {NULL},
                          jit : BOOLEAN]]
    /\ parent \in [Task -> Task \cup {NULL}]
    /\ ever \subseteq Task /\ late \subseteq Task /\ heirs \subseteq Task

\* ac_prot_count, which STATUS reports as active_procs, is the number of
\* occupied slots, and no task occupies two: the two locked loops agree on what
\* the table holds whichever handlers interleave.
CountExact ==
    /\ ac_prot_count = Cardinality(Occupied)
    /\ \A r, s \in Slot :
          ac_prots[r].task = ac_prots[s].task /\ ac_prots[r].task # NULL => r = s

\* The places that hold a reference on t: its slot, the fork handlers and the
\* ioctls that work on it.
SlotsOf(t) == {s \in Slot : ac_prots[s].task = t}
HandlersOn(t) == {p \in Task : cpu[p].child = t}
CallsOn(t) == {a \in Admin : adm[a].task = t}

\* get_task_struct() and put_task_struct() balance: the references held on a
\* task are exactly those of its slot and of the handlers working on it, so no
\* pointer outlives its task_struct and none is leaked.
RefsExact ==
    \A t \in Task :
        refs[t] = Cardinality(SlotsOf(t)) + Cardinality(HandlersOn(t)) + Cardinality(CallsOn(t))

\* A slot of a task that has exited was filled by an add whose lookup came
\* before the exit and whose locked section came after it: ac_exit_pre() leaves
\* nothing behind of what was registered before.
StaleOnlyIfLate ==
    \A t \in Protected : life[t] \in {"exited", "reaped"} => t \in late

\* The registry as its users see it: a bounded set of tasks.
P == INSTANCE ProtSet WITH Member <- Task, Capacity <- AC_PROT_MAX, members <- Protected

\* The slot table implements a bounded set: an add that finds no room and a
\* delete of an unknown task change nothing, and no step changes two members.
ImplementsProtSet == P!Spec

ForkPending(c) ==
    \E p \in Task : cpu[p].at # "user" /\ cpu[p].pid = pidof[c] /\ parent[c] = p

\* A running task that was cloned by a registered parent is registered, with
\* the parent's JIT flag, once the parent's fork handler is done, unless the
\* table was full, an ioctl has changed its protection or the parent's since, the
\* fork handler that registers the parent has come late, or the late handler of
\* another process took it for a child that had the same number (ac_clone_ret).
ChildInherits ==
    \A c \in heirs :
        life[c] = "running" /\ ~ForkPending(c) =>
            /\ Registered(c) \/ cpu[c].at = "exit_del"
            /\ Registered(c) /\ Registered(parent[c]) =>
                  ac_prots[SlotOf(c)].jit_allowed = ac_prots[SlotOf(parent[c])].jit_allowed

\* Where no DEL_PROC is issued, the children of a child that inherited its
\* protection are registered too, once no fork handler for them is pending.
ChildrenOfRegistered ==
    \A c \in Task :
        /\ life[c] = "running" /\ parent[c] # NULL /\ ~ForkPending(c)
        /\ parent[c] \in heirs /\ Registered(parent[c])
        => Registered(c) \/ cpu[c].at = "exit_del"
=============================================================================
