---------------------------- MODULE ProtectCommand ----------------------------
(***************************************************************************)
(* `protect --comm NAME': cmd_protect() in src/src/anticheat_daemon.c walks *)
(* through /proc, notes the numbers of the processes that have the name     *)
(* (pid_of_comm), and only then registers them one by one, by number.       *)
(* Meanwhile processes start, end, take other names, and numbers are used   *)
(* again.  The kernel's registry appears as the set that Registry is shown  *)
(* to implement; that an exit may come between the lookup and the add of    *)
(* one ADD_PROC is Registry's subject.                                      *)
(***************************************************************************)
EXTENDS Integers, Sequences, FiniteSets

CONSTANTS
    MaxPid,         \* process numbers are 1 .. MaxPid
    Comm, Wanted,   \* names of processes; the one that is asked for
    MAX_PIDS,       \* 256, the size of pids[]
    PROT_MAX,       \* AC_PROT_MAX
    MaxTasks,       \* bound on the processes that ever start
    MaxRenames,     \* bound on the changes of a name
    NoTask

TaskId == 1 .. MaxPid
Proc == 1 .. MaxTasks

ASSUME CommandAssumption ==
    /\ MaxPid \in Nat /\ MAX_PIDS \in Nat /\ PROT_MAX \in Nat
    /\ MaxTasks \in Nat /\ MaxRenames \in Nat
    /\ Wanted \in Comm /\ NoTask \notin Proc

VARIABLES
    tasks,          \* number -> the process that has it, or NoTask
    comm,           \* process -> its name
    started, renames,
    prot,           \* the registry
    command,        \* [at, next, pids]
    throughout,     \* history: the processes that have had the name since the
                    \* command started,
    full            \* and whether the registry or pids[] was

R == INSTANCE ProtSet WITH Member <- Proc, Capacity <- PROT_MAX, members <- prot

worldVars == <<tasks, comm, started, renames>>
protectVars == <<worldVars, prot, command, throughout, full>>

Alive == {tasks[p] : p \in TaskId} \ {NoTask}
Ready == [at |-> "ready", next |-> 1, pids |-> <<>>]

-----------------------------------------------------------------------------
(* Processes come and go.                                                     *)
Start(p, c) ==
    /\ tasks[p] = NoTask /\ started < MaxTasks
    /\ started' = started + 1
    /\ tasks' = [tasks EXCEPT ![p] = started']
    /\ comm' = [comm EXCEPT ![started'] = c]
    /\ UNCHANGED <<renames, prot, command, throughout, full>>

\* The exit handler of the module takes a registered process out.
Ends(p) ==
    /\ tasks[p] # NoTask
    /\ tasks' = [tasks EXCEPT ![p] = NoTask]
    /\ R!Remove(tasks[p]) \/ (tasks[p] \notin prot /\ UNCHANGED prot)
    /\ throughout' = throughout \ {tasks[p]}
    /\ UNCHANGED <<comm, started, renames, command, full>>

Rename(t, c) ==
    /\ renames < MaxRenames /\ comm[t] # c
    /\ renames' = renames + 1
    /\ comm' = [comm EXCEPT ![t] = c]
    /\ throughout' = throughout \ {t}
    /\ UNCHANGED <<tasks, started, prot, command, full>>

\* Another command, or the fork handler, registers a process.
OtherAdds(t) ==
    /\ R!Add(t)
    /\ UNCHANGED <<worldVars, command, throughout, full>>

-----------------------------------------------------------------------------
(* The command                                                                *)
CommandStep(c) ==
    /\ command' = c
    /\ UNCHANGED worldVars

\* opendir(); without it, die()
OpenProcDir ==
    /\ command.at = "ready"
    /\ \/ CommandStep([command EXCEPT !.at = "walk"])
       \/ CommandStep([command EXCEPT !.at = "died"])
    /\ throughout' = {t \in Alive : comm[t] = Wanted}
    /\ UNCHANGED <<prot, full>>

\* readdir() goes through the numbers upwards.  A process that has the number and the
\* name is noted; one that has just started may not have been listed.
LookAt ==
    /\ command.at = "walk" /\ command.next <= MaxPid
    /\ LET t == tasks[command.next]
           passed == [command EXCEPT !.next = @ + 1]
           hit == IF t = NoTask THEN FALSE ELSE comm[t] = Wanted
           room == Len(command.pids) < MAX_PIDS
       IN  /\ \/ (~hit \/ ~room \/ t \notin throughout) /\ CommandStep(passed)
              \/ hit /\ room /\ CommandStep([passed EXCEPT !.pids = Append(@, command.next)])
           /\ full' = (full \/ (hit /\ ~room))
    /\ UNCHANGED <<prot, throughout>>

WalkDone ==
    /\ command.at = "walk" /\ command.next > MaxPid
    /\ CommandStep([command EXCEPT !.at = IF command.pids = <<>> THEN "done" ELSE "add"])
    /\ UNCHANGED <<prot, throughout, full>>

AddStops ==   \* variant: the first ADD_PROC that fails ends the command
    /\ command.at = "add" /\ command.pids # <<>>
    /\ LET t == tasks[Head(command.pids)]
           passed == [command EXCEPT !.pids = Tail(@)]
       IN  \/ /\ t = NoTask
              /\ CommandStep([command EXCEPT !.at = "done"])
              /\ UNCHANGED <<prot, full>>
           \/ t # NoTask /\ t \in prot /\ CommandStep(passed) /\ UNCHANGED <<prot, full>>
           \/ t # NoTask /\ R!Add(t) /\ CommandStep(passed) /\ UNCHANGED full
           \/ /\ t # NoTask /\ t \notin prot /\ Cardinality(prot) >= PROT_MAX
              /\ full' = TRUE /\ CommandStep(passed) /\ UNCHANGED prot
    /\ UNCHANGED throughout

\* AC_IOCTL_ADD_PROC for the process that has the number now.  It fails without one
\* and when the registry is full; it succeeds for one that is registered.
AddNext ==
    /\ command.at = "add" /\ command.pids # <<>>
    /\ CommandStep([command EXCEPT !.pids = Tail(@)])
    /\ LET t == tasks[Head(command.pids)]
       IN  \/ t \in prot \cup {NoTask} /\ UNCHANGED <<prot, full>>
           \/ t \in Proc /\ R!Add(t) /\ UNCHANGED full
           \/ /\ t \in Proc \ prot /\ Cardinality(prot) >= PROT_MAX
              /\ full' = TRUE /\ UNCHANGED prot
    /\ UNCHANGED throughout

AddsDone ==
    /\ command.at = "add" /\ command.pids = <<>>
    /\ CommandStep([command EXCEPT !.at = "done"])
    /\ UNCHANGED <<prot, throughout, full>>

-----------------------------------------------------------------------------
ProtectInit ==
    /\ R!Init
    /\ tasks = [p \in TaskId |-> NoTask] /\ comm = [t \in Proc |-> Wanted]
    /\ started = 0 /\ renames = 0
    /\ command = Ready /\ throughout = {} /\ full = FALSE

ProtectNext ==
    \/ \E p \in TaskId : Ends(p) \/ \E c \in Comm : Start(p, c)
    \/ \E t \in Alive : OtherAdds(t) \/ \E c \in Comm : Rename(t, c)
    \/ OpenProcDir \/ LookAt \/ WalkDone \/ AddNext \/ AddsDone

ProtectSpec == ProtectInit /\ [][ProtectNext]_protectVars

-----------------------------------------------------------------------------
\* Every variable keeps its type.
ProtectTypeOK ==
    /\ started \in 0 .. MaxTasks
    /\ tasks \in [TaskId -> (1 .. started) \cup {NoTask}] /\ comm \in [Proc -> Comm]
    /\ prot \subseteq Alive /\ Cardinality(prot) <= PROT_MAX
    /\ throughout \subseteq Alive /\ full \in BOOLEAN
    /\ command \in [at : {"ready", "walk", "add", "done", "died"}, next : Nat \ {0}, pids : Seq(TaskId)]
    /\ Len(command.pids) <= MAX_PIDS

\* When the command has gone through all it found, every process that has had the
\* name all the time is registered, whichever others ended, changed their name or
\* got a number that was in use before; unless the registry was full, or there were
\* more of them than pids[] holds (cmd_protect, pid_of_comm).
AllOfTheNameAreProtected ==
    /\ ProtectTypeOK
    /\ command.at = "done" /\ ~full => throughout \subseteq prot

Noted == {command.pids[i] : i \in DOMAIN command.pids}

\* The inductive invariant behind it: such a process has its number ahead of the
\* walk, or in pids[], until it is registered.
NotMissed ==
    \A p \in TaskId : tasks[p] \in throughout /\ ~full =>
        /\ command.at = "walk" => command.next <= p \/ p \in Noted
        /\ command.at = "add" => tasks[p] \in prot \/ p \in Noted
        /\ command.at = "done" => tasks[p] \in prot

ProtectInv ==
    /\ ProtectTypeOK
    /\ command.at = "ready" => command.next = 1
    /\ \A t \in throughout : comm[t] = Wanted
    /\ NotMissed
=============================================================================
