----------------------------- MODULE PtraceGuard -----------------------------
(***************************************************************************)
(* The ptrace kprobe of src/src/anticheat_module.c and the work queue that *)
(* kills tracers: ac_ptrace_pre(), ac_schedule_kill(), ac_kill_worker().   *)
(*                                                                         *)
(* The registry appears as the bounded set it implements (ProtSet) and     *)
(* changes under the handler.  A call of ptrace() enters through the native *)
(* or the compat wrapper, whose arguments lie in different registers of the *)
(* frame; the pre-handler looks the target up by number, asks the registry *)
(* about the task it found and may rewrite the frame; then the kernel's    *)
(* ptrace() looks the number up again and acts on what the frame says.     *)
(* Numbers are reused once a task is reaped.                               *)
(***************************************************************************)
EXTENDS Integers, FiniteSets

CONSTANTS
    Task, Pid, NULL,
    AC_PROT_MAX,       \* capacity of the registry
    MaxCalls           \* bound on the ptrace() calls of a behaviour

ASSUME GuardAssumption ==
    /\ NULL \notin Task /\ NULL \notin Pid
    /\ AC_PROT_MAX \in Nat /\ MaxCalls \in Nat

VARIABLES
    life, pidof,       \* as in Registry
    members,           \* the registered tasks
    ac_policy,         \* bit 0: kill tracers
    frame,             \* task -> the argument registers of its call, by wrapper
    call,              \* task -> where its call is, and the task the handler found
    ac_wq,             \* queued kill requests: task of the struct pid -> how many
    killed,            \* tasks that were sent SIGKILL
    calls,             \* calls made so far
    offenders,         \* history: tasks whose request was denied under the kill policy
    since,             \* history: task -> what has been registered since its last call began
    effect             \* history: task -> what its last call took effect on

procs == <<life, pidof>>
vars == <<procs, members, ac_policy, frame, call, ac_wq, killed, calls, offenders, since, effect>>

Reg == INSTANCE ProtSet WITH Member <- Task, Capacity <- AC_PROT_MAX

Abi == {"native", "compat"}
NoArgs == [request |-> "none", target |-> NULL]
NoFrame == [a \in Abi |-> NoArgs]
NotInCall == [at |-> "user", abi |-> "native", found |-> NULL]

Attached(t) == life[t] \in {"running", "exited"}
Found(k) == {t \in Task : Attached(t) /\ pidof[t] = k}

ArgsNative(t) == frame[t]["native"]   \* variant: di, si for both probes

\* The registers the pre-handler reads: bx, cx for the compat probe and di, si
\* for the native one.
Args(t) == frame[t][call[t].abi]

-----------------------------------------------------------------------------
Enter(t, abi, request, k) ==
    /\ life[t] = "running" /\ t \notin killed
    /\ call[t].at = "user" /\ calls < MaxCalls
    /\ calls' = calls + 1
    /\ frame' = [frame EXCEPT ![t] = [NoFrame EXCEPT ![abi] = [request |-> request, target |-> k]]]
    /\ call' = [call EXCEPT ![t] = [NotInCall EXCEPT !.at = "pre", !.abi = abi]]
    /\ since' = [since EXCEPT ![t] = members]
    /\ effect' = [effect EXCEPT ![t] = NULL]
    /\ UNCHANGED <<procs, members, ac_policy, ac_wq, killed, offenders>>

\* PTRACE_TRACEME concerns current; any other request, the task its number
\* carries.  An unknown number is let through.
PreFind(t) ==
    /\ call[t].at = "pre"
    /\ \/ /\ Args(t).request = "traceme"
          /\ call' = [call EXCEPT ![t].at = "check", ![t].found = t]
       \/ /\ Args(t).request # "traceme"
          /\ \E x \in Found(Args(t).target) :
                call' = [call EXCEPT ![t].at = "check", ![t].found = x]
       \/ /\ Args(t).request # "traceme"
          /\ Found(Args(t).target) = {}
          /\ call' = [call EXCEPT ![t].at = "body"]
    /\ UNCHANGED <<procs, members, ac_policy, frame, ac_wq, killed, calls, offenders, since, effect>>

PreAllow(t) ==
    /\ call[t].at = "check"
    /\ call[t].found \notin members
    /\ call' = [call EXCEPT ![t].at = "body"]
    /\ UNCHANGED <<procs, members, ac_policy, frame, ac_wq, killed, calls, offenders, since, effect>>

\* ac_schedule_kill(current): the request pins the struct pid of current, and
\* kmalloc() may fail.
ScheduleKill(t) ==
    /\ offenders' = offenders \cup {t}
    /\ \/ ac_wq' = [ac_wq EXCEPT ![t] = @ + 1]
       \/ UNCHANGED ac_wq

NoKill == UNCHANGED <<ac_wq, offenders>>

\* ac_emit(), the kill and the neutralised request slot
PreDeny(t) ==
    /\ call[t].at = "check"
    /\ call[t].found \in members
    /\ \/ Args(t).request # "traceme" /\ ac_policy /\ ScheduleKill(t)
       \/ (Args(t).request = "traceme" \/ ~ac_policy) /\ NoKill
    /\ frame' = [frame EXCEPT ![t][call[t].abi].request = "invalid"]
    /\ call' = [call EXCEPT ![t].at = "body"]
    /\ UNCHANGED <<procs, members, ac_policy, killed, calls, since, effect>>

\* The kernel's ptrace(): it takes its arguments from the wrapper's registers,
\* rejects an invalid request, and resolves the number on its own.
BodyArgs(t) == frame[t][call[t].abi]
Target(t) == IF BodyArgs(t).request = "traceme" THEN {t} ELSE Found(BodyArgs(t).target)

Body(t) ==
    /\ call[t].at = "body"
    /\ \/ /\ BodyArgs(t).request = "invalid" \/ Target(t) = {}
          /\ UNCHANGED effect
       \/ /\ BodyArgs(t).request # "invalid"
          /\ \E x \in Target(t) : effect' = [effect EXCEPT ![t] = x]
    /\ call' = [call EXCEPT ![t] = NotInCall]
    /\ frame' = [frame EXCEPT ![t] = NoFrame]
    /\ UNCHANGED <<procs, members, ac_policy, ac_wq, killed, calls, offenders, since>>

-----------------------------------------------------------------------------
KillByNumber(t) ==   \* variant: the request keeps the number instead of the struct pid
    /\ ac_wq[t] > 0
    /\ ac_wq' = [ac_wq EXCEPT ![t] = @ - 1]
    /\ killed' = killed \cup Found(pidof[t])
    /\ UNCHANGED <<procs, members, ac_policy, frame, call, calls, offenders, since, effect>>

KillIfRegistered(t) ==   \* variant: the kill goes to the target of the request
    /\ ac_wq[t] > 0
    /\ ac_wq' = [ac_wq EXCEPT ![t] = @ - 1]
    /\ killed' = IF t \in members THEN killed \cup {t} ELSE killed
    /\ UNCHANGED <<procs, members, ac_policy, frame, call, calls, offenders, since, effect>>

\* ac_kill_worker(): a struct pid leads to its own task or, once that is
\* reaped, to none.
KillWorker(t) ==
    /\ ac_wq[t] > 0
    /\ ac_wq' = [ac_wq EXCEPT ![t] = @ - 1]
    /\ killed' = IF Attached(t) THEN killed \cup {t} ELSE killed
    /\ UNCHANGED <<procs, members, ac_policy, frame, call, calls, offenders, since, effect>>

\* The registry and the ac_policy parameter change at any time.
Register(t) ==
    /\ Attached(t)
    /\ Reg!Add(t)
    /\ UNCHANGED <<procs, ac_policy, frame, call, ac_wq, killed, calls, offenders, since, effect>>

Unregister(t) ==
    /\ Reg!Remove(t)
    /\ since' = [c \in Task |-> since[c] \ {t}]
    /\ UNCHANGED <<procs, ac_policy, frame, call, ac_wq, killed, calls, offenders, effect>>

SetPolicy ==
    /\ ac_policy' = ~ac_policy
    /\ UNCHANGED <<procs, members, frame, call, ac_wq, killed, calls, offenders, since, effect>>

Spawn(t, k) ==
    /\ life[t] = "unborn" /\ Found(k) = {}
    /\ life' = [life EXCEPT ![t] = "running"]
    /\ pidof' = [pidof EXCEPT ![t] = k]
    /\ UNCHANGED <<members, ac_policy, frame, call, ac_wq, killed, calls, offenders, since, effect>>

Exit(t) ==
    /\ life[t] = "running" /\ call[t].at = "user"
    /\ life' = [life EXCEPT ![t] = "exited"]
    /\ UNCHANGED <<pidof, members, ac_policy, frame, call, ac_wq, killed, calls, offenders, since, effect>>

Reap(t) ==
    /\ life[t] = "exited"
    /\ life' = [life EXCEPT ![t] = "reaped"]
    /\ UNCHANGED <<pidof, members, ac_policy, frame, call, ac_wq, killed, calls, offenders, since, effect>>

-----------------------------------------------------------------------------
Init ==
    /\ life \in [Task -> {"unborn", "running"}]
    /\ pidof \in [Task -> Pid \cup {NULL}]
    /\ \A t \in Task : pidof[t] = NULL <=> life[t] = "unborn"
    /\ \A t, u \in Task : pidof[t] = pidof[u] => t = u \/ pidof[t] = NULL
    /\ members = {}
    /\ ac_policy \in BOOLEAN
    /\ frame = [t \in Task |-> NoFrame]
    /\ call = [t \in Task |-> NotInCall]
    /\ ac_wq = [t \in Task |-> 0]
    /\ killed = {} /\ offenders = {} /\ calls = 0
    /\ since = [t \in Task |-> {}]
    /\ effect = [t \in Task |-> NULL]

Ptrace(t) ==
    \/ \E abi \in Abi, k \in Pid : Enter(t, abi, "attach", k)
    \/ \E abi \in Abi : Enter(t, abi, "traceme", NULL)
    \/ PreFind(t) \/ PreAllow(t) \/ PreDeny(t) \/ Body(t)

Next ==
    \/ SetPolicy
    \/ \E t \in Task :
         \/ Ptrace(t) \/ KillWorker(t)
         \/ Register(t) \/ Unregister(t)
         \/ (\E k \in Pid : Spawn(t, k)) \/ Exit(t) \/ Reap(t)

Spec == Init /\ [][Next]_vars

\* The work queue's threads run; a task inside a system call gets out of it,
\* and one that was sent SIGKILL then exits.
Fairness ==
    \A t \in Task :
        /\ WF_vars(KillWorker(t))
        /\ WF_vars(PreFind(t) \/ PreAllow(t) \/ PreDeny(t) \/ Body(t))
        /\ WF_vars(t \in killed /\ Exit(t))

FairSpec == Spec /\ Fairness

-----------------------------------------------------------------------------
\* Every variable keeps its type; the queue never holds more than the calls.
TypeOK ==
    /\ life \in [Task -> {"unborn", "running", "exited", "reaped"}]
    /\ pidof \in [Task -> Pid \cup {NULL}]
    /\ members \subseteq Task /\ Cardinality(members) <= AC_PROT_MAX
    /\ ac_policy \in BOOLEAN
    /\ frame \in [Task -> [Abi -> [request : {"none", "attach", "traceme", "invalid"},
                                  target : Pid \cup {NULL}]]]
    /\ call \in [Task -> [at : {"user", "pre", "check", "body"}, abi : Abi,
                          found : Task \cup {NULL}]]
    /\ ac_wq \in [Task -> 0 .. MaxCalls]
    /\ killed \subseteq Task /\ offenders \subseteq Task
    /\ calls \in 0 .. MaxCalls
    /\ since \in [Task -> SUBSET Task]
    /\ effect \in [Task -> Task \cup {NULL}]

\* A request never takes effect on a task that has been registered since before
\* the call began, through either wrapper, for either kind of request and however
\* numbers are reused meanwhile: the handler's lookup and the kernel's agree on
\* such a task (ac_ptrace_pre).
RegisteredIsNotTraced ==
    \A t \in Task : call[t].at = "user" => effect[t] \notin since[t]

\* Only a task whose own request against a registered task was denied under the
\* kill policy is ever sent SIGKILL: not the target, not a task that asked to be
\* traced, and not one that inherits the offender's number before the worker
\* runs (ac_schedule_kill, ac_kill_worker).  Every variable has its type.
KilledAreOffenders == TypeOK /\ killed \subseteq offenders

\* Every tracer whose kill was queued stops running.
OffenderDies == \A t \in Task : ac_wq[t] > 0 ~> life[t] # "running"
=============================================================================
