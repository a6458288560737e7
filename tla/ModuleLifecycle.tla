--------------------------- MODULE ModuleLifecycle ---------------------------
(***************************************************************************)
(* Loading, pinning and unloading of src/src/anticheat_module.c: ac_init(), *)
(* ac_exit(), the open and release of /dev/anticheat, the LOCK and UNLOCK  *)
(* ioctls, and what may still run while ac_exit() takes the module down:   *)
(* probe handlers on other CPUs and the kill work queue.                   *)
(*                                                                         *)
(* The module's reference count, the work queue and the waiting that       *)
(* unregister_kprobe() and destroy_workqueue() do are the kernel's.  The   *)
(* registry is a set of tasks; a probe handler appears once it has found   *)
(* the current task in it.                                                 *)
(***************************************************************************)
EXTENDS Integers, Sequences, FiniteSets

CONSTANTS
    Client,      \* processes that open the device
    Unlockers,   \* those that issue UNLOCK
    Cpu,         \* CPUs that run probe handlers
    Task,        \* tasks that can be registered
    MaxLocks,    \* bound on the pins taken
    MaxQueued    \* bound on the queued kill requests

ASSUME LifecycleAssumption ==
    /\ Unlockers \subseteq Client
    /\ IsFiniteSet(Client)
    /\ MaxLocks \in Nat /\ MaxQueued \in Nat

VARIABLES
    mod,             \* where ac_init() or ac_exit() is
    refcnt,          \* the module's reference count
    ac_lock_count,
    misc,            \* the device is registered
    ac_kp_ok,        \* the probes that are registered
    armed,           \* the probes that still fire
    ac_wq,           \* none, up, or destroyed
    queued,          \* kill requests not yet handled
    fd,              \* clients that have the device open
    op,              \* client -> where its LOCK or UNLOCK is
    handler,         \* cpu -> the probe handler it runs
    members          \* the registered tasks

device == <<misc, fd, op, refcnt, ac_lock_count>>
probing == <<ac_kp_ok, armed, handler>>
work == <<ac_wq, queued>>
lifecycleVars == <<mod, device, probing, work, members>>

\* The probes that change state, in the order in which they are unregistered.
ProbeOrder == <<"ptrace", "exit", "clone">>
Probe == {ProbeOrder[i] : i \in 1 .. Len(ProbeOrder)}

Quiet(p) == \A c \in Cpu : handler[c] # p

-----------------------------------------------------------------------------
CreateWorkqueue ==
    /\ mod = "init"
    /\ \/ mod' = "probes" /\ ac_wq' = "up"
       \/ mod' = "failed" /\ UNCHANGED ac_wq
    /\ UNCHANGED <<device, probing, queued, members>>

\* ac_register_kprobes(): any of them may be unavailable.
RegisterKprobes ==
    /\ mod = "probes"
    /\ \E S \in SUBSET Probe : ac_kp_ok' = S /\ armed' = S
    /\ mod' = "misc"
    /\ UNCHANGED <<device, handler, work, members>>

MiscRegister ==
    /\ mod = "misc"
    /\ \/ mod' = "live" /\ misc' = TRUE
       \/ mod' = "undo_probes" /\ UNCHANGED misc
    /\ UNCHANGED <<fd, op, refcnt, ac_lock_count, probing, work, members>>

\* The failure path of ac_init()
UndoProbes ==
    /\ mod = "undo_probes"
    /\ \A p \in Probe : Quiet(p)
    /\ ac_kp_ok' = {} /\ armed' = {}
    /\ mod' = "undo_wq"
    /\ UNCHANGED <<device, handler, work, members>>

UndoWorkqueue ==
    /\ mod = "undo_wq"
    /\ queued = 0
    /\ ac_wq' = "destroyed"
    /\ mod' = "failed"
    /\ UNCHANGED <<device, probing, queued, members>>

-----------------------------------------------------------------------------
\* rmmod: the kernel refuses while anyone holds a reference.
Rmmod ==
    /\ mod = "live"
    /\ refcnt = 0
    /\ mod' = "deregister"
    /\ UNCHANGED <<device, probing, work, members>>

DestroyFirst ==   \* variant: the work queue is destroyed before the probes are gone
    /\ mod = "deregister"
    /\ queued = 0
    /\ misc' = FALSE
    /\ ac_wq' = "destroyed"
    /\ mod' = "unregister"
    /\ UNCHANGED <<fd, op, refcnt, ac_lock_count, probing, queued, members>>

MiscDeregister ==
    /\ mod = "deregister"
    /\ misc' = FALSE
    /\ mod' = "unregister"
    /\ UNCHANGED <<fd, op, refcnt, ac_lock_count, probing, work, members>>

\* unregister_kprobe() disarms a probe and waits for its running handlers.
NextProbe == CHOOSE i \in 1 .. Len(ProbeOrder) :
                /\ ProbeOrder[i] \in ac_kp_ok
                /\ \A j \in 1 .. i - 1 : ProbeOrder[j] \notin ac_kp_ok

DisarmProbe ==
    /\ mod = "unregister"
    /\ ac_kp_ok # {}
    /\ ProbeOrder[NextProbe] \in armed
    /\ armed' = armed \ {ProbeOrder[NextProbe]}
    /\ UNCHANGED <<mod, device, ac_kp_ok, handler, work, members>>

UnregisterProbe ==
    /\ mod = "unregister"
    /\ ac_kp_ok # {}
    /\ ProbeOrder[NextProbe] \notin armed
    /\ Quiet(ProbeOrder[NextProbe])
    /\ ac_kp_ok' = ac_kp_ok \ {ProbeOrder[NextProbe]}
    /\ UNCHANGED <<mod, device, armed, handler, work, members>>

ForgetCloneProbe ==   \* variant: the kretprobe is not unregistered
    /\ mod = "unregister"
    /\ ac_kp_ok \subseteq {"clone"}
    /\ mod' = "clear"
    /\ UNCHANGED <<device, probing, work, members>>

UnregisterDone ==
    /\ mod = "unregister"
    /\ ac_kp_ok = {}
    /\ mod' = "clear"
    /\ UNCHANGED <<device, probing, work, members>>

ClearRelocks ==   \* variant: spins on the lock it holds, in ac_del_prot_task()
    /\ mod = "clear"
    /\ mod' = IF members = {} THEN "destroy" ELSE "clear"
    /\ UNCHANGED <<device, probing, work, members>>

\* ac_clear_protected()
ClearProtected ==
    /\ mod = "clear"
    /\ members' = {}
    /\ mod' = "destroy"
    /\ UNCHANGED <<device, probing, work>>

\* destroy_workqueue() drains the queue first.
DestroyWorkqueue ==
    /\ mod = "destroy"
    /\ queued = 0
    /\ ac_wq' = "destroyed"
    /\ mod' = "gone"
    /\ UNCHANGED <<device, probing, queued, members>>

-----------------------------------------------------------------------------
(* Clients of the device.  An open file holds a module reference.           *)

IdleClient(c) == c \in fd /\ op[c] = "idle"

OpenDevice(c) ==
    /\ misc /\ mod = "live"
    /\ c \notin fd
    /\ fd' = fd \cup {c}
    /\ refcnt' = refcnt + 1
    /\ UNCHANGED <<mod, misc, op, ac_lock_count, probing, work, members>>

CloseUnpins(c) ==   \* variant: closing the file also drops the pin's reference
    /\ IdleClient(c)
    /\ fd' = fd \ {c}
    /\ refcnt' = IF ac_lock_count > 0 THEN refcnt - 2 ELSE refcnt - 1
    /\ UNCHANGED <<mod, misc, op, ac_lock_count, probing, work, members>>

\* ac_release(), also when the client is killed: the pin is left alone.
CloseDevice(c) ==
    /\ IdleClient(c)
    /\ fd' = fd \ {c}
    /\ refcnt' = refcnt - 1
    /\ UNCHANGED <<mod, misc, op, ac_lock_count, probing, work, members>>

\* LOCK: try_module_get(), then atomic_inc()
LockGet(c) ==
    /\ IdleClient(c)
    /\ ac_lock_count < MaxLocks
    /\ mod = "live"
    /\ refcnt' = refcnt + 1
    /\ op' = [op EXCEPT ![c] = "lock_inc"]
    /\ UNCHANGED <<mod, misc, fd, ac_lock_count, probing, work, members>>

LockInc(c) ==
    /\ op[c] = "lock_inc"
    /\ ac_lock_count' = ac_lock_count + 1
    /\ op' = [op EXCEPT ![c] = "idle"]
    /\ UNCHANGED <<mod, misc, fd, refcnt, probing, work, members>>

\* UNLOCK: atomic_read(), atomic_dec(), module_put()
UnlockRead(c) ==
    /\ IdleClient(c) /\ c \in Unlockers
    /\ ac_lock_count > 0
    /\ op' = [op EXCEPT ![c] = "unlock_dec"]
    /\ UNCHANGED <<mod, misc, fd, refcnt, ac_lock_count, probing, work, members>>

UnlockDec(c) ==
    /\ op[c] = "unlock_dec"
    /\ ac_lock_count' = ac_lock_count - 1
    /\ op' = [op EXCEPT ![c] = "unlock_put"]
    /\ UNCHANGED <<mod, misc, fd, refcnt, probing, work, members>>

UnlockPut(c) ==
    /\ op[c] = "unlock_put"
    /\ refcnt' = refcnt - 1
    /\ op' = [op EXCEPT ![c] = "idle"]
    /\ UNCHANGED <<mod, misc, fd, ac_lock_count, probing, work, members>>

\* ADD_PROC and DEL_PROC
Change(c, t) ==
    /\ IdleClient(c)
    /\ \/ members' = members \cup {t}
       \/ members' = members \ {t}
    /\ UNCHANGED <<mod, device, probing, work>>

-----------------------------------------------------------------------------
(* Probe handlers of registered tasks, and the queue's worker.              *)

Fire(cpu, p) ==
    /\ handler[cpu] = "none"
    /\ p \in armed
    /\ members # {}
    /\ handler' = [handler EXCEPT ![cpu] = p]
    /\ UNCHANGED <<mod, device, ac_kp_ok, armed, work, members>>

Return(cpu) == handler' = [handler EXCEPT ![cpu] = "none"]

PtraceReturn(cpu) ==
    /\ handler[cpu] = "ptrace"
    /\ \/ queued < MaxQueued /\ queued' = queued + 1
       \/ UNCHANGED queued
    /\ Return(cpu)
    /\ UNCHANGED <<mod, device, ac_kp_ok, armed, ac_wq, members>>

CloneReturn(cpu, t) ==
    /\ handler[cpu] = "clone"
    /\ members' = members \cup {t}
    /\ Return(cpu)
    /\ UNCHANGED <<mod, device, ac_kp_ok, armed, work>>

ExitReturn(cpu, t) ==
    /\ handler[cpu] = "exit"
    /\ members' = members \ {t}
    /\ Return(cpu)
    /\ UNCHANGED <<mod, device, ac_kp_ok, armed, work>>

KillWorker ==
    /\ queued > 0
    /\ queued' = queued - 1
    /\ UNCHANGED <<mod, device, probing, ac_wq, members>>

-----------------------------------------------------------------------------
LifecycleInit ==
    /\ mod = "init"
    /\ refcnt = 0 /\ ac_lock_count = 0
    /\ misc = FALSE /\ fd = {}
    /\ op = [c \in Client |-> "idle"]
    /\ ac_kp_ok = {} /\ armed = {}
    /\ handler = [c \in Cpu |-> "none"]
    /\ ac_wq = "none" /\ queued = 0
    /\ members = {}

Load == CreateWorkqueue \/ RegisterKprobes \/ MiscRegister \/ UndoProbes \/ UndoWorkqueue

Unload ==
    \/ MiscDeregister \/ DisarmProbe \/ UnregisterProbe \/ UnregisterDone
    \/ ClearProtected \/ DestroyWorkqueue

Call(c) ==
    \/ OpenDevice(c) \/ CloseDevice(c) \/ LockGet(c) \/ LockInc(c)
    \/ UnlockRead(c) \/ UnlockDec(c) \/ UnlockPut(c)
    \/ \E t \in Task : Change(c, t)

Finish(cpu) ==
    \/ PtraceReturn(cpu)
    \/ \E t \in Task : CloneReturn(cpu, t) \/ ExitReturn(cpu, t)

\* A module that is gone or failed to load is where a behaviour ends.
Ended == mod \in {"gone", "failed"} /\ UNCHANGED lifecycleVars

LifecycleNext ==
    \/ Load \/ Rmmod \/ Unload \/ KillWorker \/ Ended
    \/ \E c \in Client : Call(c)
    \/ \E cpu \in Cpu : Finish(cpu) \/ \E p \in Probe : Fire(cpu, p)

LifecycleSpec == LifecycleInit /\ [][LifecycleNext]_lifecycleVars

\* The thread inside ac_exit() runs, and so do probe handlers and the worker.
LifecycleFairness ==
    /\ WF_lifecycleVars(Unload)
    /\ WF_lifecycleVars(KillWorker)
    /\ \A cpu \in Cpu : WF_lifecycleVars(Finish(cpu))

LifecycleFairSpec == LifecycleSpec /\ LifecycleFairness

-----------------------------------------------------------------------------
\* Every variable keeps its type; at most MaxLocks pins and one more for each
\* client that was between the test and the increment.
LifecycleTypeOK ==
    /\ mod \in {"init", "probes", "misc", "undo_probes", "undo_wq", "failed", "live",
               "deregister", "unregister", "clear", "destroy", "gone"}
    /\ refcnt \in Nat
    /\ ac_lock_count \in 0 .. MaxLocks + Cardinality(Client)
    /\ misc \in BOOLEAN
    /\ ac_kp_ok \subseteq Probe /\ armed \subseteq ac_kp_ok
    /\ ac_wq \in {"none", "up", "destroyed"}
    /\ queued \in 0 .. MaxQueued
    /\ fd \subseteq Client
    /\ op \in [Client -> {"idle", "lock_inc", "unlock_dec", "unlock_put"}]
    /\ handler \in [Cpu -> Probe \cup {"none"}]
    /\ members \subseteq Task

\* Clients inside LOCK or UNLOCK that hold a reference the count does not show.
Between == {c \in Client : op[c] \in {"lock_inc", "unlock_put"}}

\* The module's references are exactly those of the open files and of the pins
\* that ac_lock_count shows: no LOCK or UNLOCK loses or drops one too many, and
\* the module is not taken down under a client that has the device open, nor
\* while STATUS would report it locked.  Every variable has its type.
RefsAccounted ==
    /\ LifecycleTypeOK
    /\ refcnt = Cardinality(fd) + ac_lock_count + Cardinality(Between)
    /\ fd # {} \/ ac_lock_count > 0 => mod = "live"

\* No kill request is queued on a work queue that does not exist: no ptrace
\* handler can be running by the time it is destroyed.  Once ac_exit() has
\* returned, and once a failed ac_init() has, nothing of the module can run again
\* and no task reference is left: every probe is out and no handler is inside it,
\* the queue is empty and the registry is too.
UnloadIsQuiescent ==
    /\ ac_wq # "up" => queued = 0 /\ Quiet("ptrace") /\ "ptrace" \notin armed
    /\ mod \in {"gone", "failed"} =>
        /\ ~misc /\ armed = {}
        /\ \A p \in Probe : Quiet(p)
        /\ queued = 0 /\ ac_wq # "up"
        /\ members = {}

\* The count of pins never falls below zero and the open files keep their
\* module references: every UNLOCK balances one LOCK.
UnlockBalances == ac_lock_count >= 0 /\ refcnt >= Cardinality(fd)

\* rmmod that was let in returns: ac_exit() waits for no handler that needs it.
UnloadCompletes == mod = "deregister" ~> mod = "gone"

Locking == {c \in Client : op[c] = "lock_inc"}

\* The inductive invariant behind RefsAccounted and UnloadIsQuiescent, while no two
\* clients unlock: where a client may be, and what is up at each stage of loading
\* and unloading.
ClientsHold ==
    /\ \A c \in Client :
         /\ op[c] # "idle" => c \in fd
         /\ op[c] = "unlock_dec" => c \in Unlockers /\ ac_lock_count > 0
    /\ ac_lock_count + Cardinality(Locking) <= MaxLocks + Cardinality(Client)

StagesHold ==
    /\ \A cpu \in Cpu : handler[cpu] \in ac_kp_ok \cup {"none"}
    /\ mod \in {"init", "probes", "undo_wq", "failed", "clear", "destroy", "gone"} => ac_kp_ok = {}
    /\ mod \in {"init", "probes", "misc", "undo_probes", "undo_wq", "failed", "destroy", "gone"}
         => members = {}
    /\ mod \in {"misc", "undo_probes"} => \A cpu \in Cpu : handler[cpu] = "none"
    /\ misc => mod \in {"live", "deregister"}
    /\ ac_wq = "up" <=> mod \notin {"init", "failed", "gone"}
    /\ queued > 0 => ac_wq = "up"

LifecycleInv == RefsAccounted /\ ClientsHold /\ StagesHold
=============================================================================
