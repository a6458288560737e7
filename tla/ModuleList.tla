------------------------------ MODULE ModuleList ------------------------------
(***************************************************************************)
(* The search for hidden modules: crosscheck_modules() in                   *)
(* src/src/anticheat_daemon.c compares the kernel's own list of modules,    *)
(* which ac_build_mod_snapshot() in src/src/anticheat_module.c copies at    *)
(* MODS_BEGIN, with the names that /proc/modules shows.  The kernel hands   *)
(* that file out in pieces and finds its place again by counting, while     *)
(* modules are loaded and unloaded.  `modules' and the periodic check run   *)
(* the same code.                                                           *)
(*                                                                          *)
(* A module in `concealed' has no line in the file; it has a place in the   *)
(* count.  The check's own module cannot be unloaded while the device is    *)
(* open.                                                                    *)
(***************************************************************************)
EXTENDS Integers, Sequences, FiniteSets, SequencesExt

CONSTANTS
    Module, Own,         \* the modules that come and go; the one with the device
    MAX_MODS,            \* AC_MAX_MODS
    MAX_PROC_MODS,       \* AC_MAX_PROC_MODS
    MaxLoads             \* bound on the modules loaded during a behaviour

ASSUME ModuleListAssumption ==
    /\ Own \notin Module
    /\ MAX_MODS \in Nat /\ MAX_PROC_MODS \in Nat /\ MaxLoads \in Nat

VARIABLES
    modules,        \* the kernel's list, newest first: [name, state]
    concealed,
    loads,
    cross,          \* the check: [at, mods, pos, names], and history: the concealed
                    \* modules that were live at MODS_BEGIN
    hidden,         \* its result, or -1
    unloads,        \* history: whether a module was unloaded since MODS_BEGIN,
    opened          \* and whether /proc/modules could be opened

crossVars == <<modules, concealed, loads, cross, hidden, unloads, opened>>

Idle == [at |-> "idle", mods |-> <<>>, pos |-> 0, names |-> <<>>, live |-> {}]

-----------------------------------------------------------------------------
(* The kernel loads and unloads modules; a module that is being set up is on  *)
(* the list before it is shown.                                               *)
Named(S) == {j \in DOMAIN modules : modules[j].name \in S}

Changing(list) ==
    /\ modules' = list
    /\ UNCHANGED <<concealed, cross, hidden, opened>>

Load(m) ==
    /\ loads < MaxLoads /\ Named({m}) = {}
    /\ loads' = loads + 1
    /\ Changing(<<[name |-> m, state |-> "unformed"]>> \o modules)
    /\ UNCHANGED unloads

After == [unformed |-> "coming", coming |-> "live", live |-> "going"]

Proceed(j) ==
    /\ modules[j].state # "going"
    /\ Changing([modules EXCEPT ![j].state = After[@]])
    /\ UNCHANGED <<loads, unloads>>

Unload(j) ==
    /\ modules[j].state = "going"
    /\ Changing(RemoveAt(modules, j))
    /\ unloads' = (unloads \/ cross.at \in {"open", "read"})
    /\ UNCHANGED loads

-----------------------------------------------------------------------------
(* The check                                                                  *)
SaneFormed(m) == TRUE   \* variant: whatever the state of the module

\* ac_module_sane(); the entry of the list's head is never sane.
ac_module_sane(m) == m.state = "live"

\* list_for_each_entry() from the own module's place, around the list, without it
Walk ==
    LET own == CHOOSE j \in DOMAIN modules : modules[j].name = Own
        sane == SelectSeq(SubSeq(modules, own + 1, Len(modules)) \o SubSeq(modules, 1, own - 1),
                          ac_module_sane)
    IN  SubSeq(sane, 1, IF Len(sane) < MAX_MODS THEN Len(sane) ELSE MAX_MODS)

Live == {j \in DOMAIN modules : modules[j].state = "live"}

\* AC_IOCTL_MODS_BEGIN; it fails without memory for the array.
ModsBegin ==
    /\ cross.at = "idle"
    /\ \/ cross' = cross
       \/ cross' = [Idle EXCEPT !.at = "open", !.mods = [j \in DOMAIN Walk |-> Walk[j].name],
                                !.live = {modules[j].name : j \in Live} \cap concealed]
    /\ hidden' = -1
    /\ unloads' = FALSE /\ opened' = FALSE
    /\ UNCHANGED <<modules, concealed, loads>>

\* collect_proc_modules(): a file that cannot be opened has no names.
OpenProc ==
    /\ cross.at = "open"
    /\ \E ok \in BOOLEAN : /\ cross' = [cross EXCEPT !.at = IF ok THEN "read" ELSE "compare"]
                           /\ opened' = ok
    /\ UNCHANGED <<modules, concealed, loads, hidden, unloads>>

\* The line at the place that the reader has come to; unformed modules have none.
ReadProc ==
    /\ cross.at = "read"
    /\ LET p == cross.pos + 1
           Shows(m) == m.state # "unformed" /\ m.name \notin concealed
       IN  cross' = CASE p > Len(modules) \/ Len(cross.names) = MAX_PROC_MODS ->
                           [cross EXCEPT !.at = "compare"]
                      [] ~Shows(modules[p]) -> [cross EXCEPT !.pos = p]
                      [] OTHER -> [cross EXCEPT !.pos = p, !.names = Append(@, modules[p].name)]
    /\ UNCHANGED <<modules, concealed, loads, hidden, unloads, opened>>

\* The loop over MODS_GET, and MODS_END
Compare ==
    /\ cross.at = "compare"
    /\ hidden' = Len(SelectSeq(cross.mods, LAMBDA m : ~Contains(cross.names, m)))
    /\ cross' = [cross EXCEPT !.at = "done"]
    /\ UNCHANGED <<modules, concealed, loads, unloads, opened>>

Return ==
    /\ cross.at = "done"
    /\ cross' = Idle /\ hidden' = -1
    /\ UNCHANGED <<modules, concealed, loads, unloads, opened>>

-----------------------------------------------------------------------------
\* One module, or none, was loaded before the own one.
InPlace(m) == [name |-> m, state |-> "live"]
Lists == {<<InPlace(Own)>>} \cup {<<InPlace(Own), InPlace(m)>> : m \in Module}

CrossInit ==
    /\ modules \in Lists
    /\ concealed \in SUBSET Module
    /\ loads = 0 /\ cross = Idle /\ hidden = -1
    /\ unloads = FALSE /\ opened = FALSE

CrossNext ==
    \/ \E m \in Module : Load(m)
    \/ \E j \in Named(Module) : Proceed(j) \/ Unload(j)
    \/ ModsBegin \/ OpenProc \/ ReadProc \/ Compare \/ Return

CrossSpec == CrossInit /\ [][CrossNext]_crossVars

-----------------------------------------------------------------------------
\* Every variable keeps its type.
CrossTypeOK ==
    /\ \A j \in DOMAIN modules : /\ modules[j].name \in Module \cup {Own}
                                /\ modules[j].state \in {"unformed", "coming", "live", "going"}
    /\ concealed \subseteq Module /\ loads \in 0 .. MaxLoads
    /\ cross.at \in {"idle", "open", "read", "compare", "done"}
    /\ Len(cross.mods) <= MAX_MODS /\ Len(cross.names) <= MAX_PROC_MODS
    /\ hidden \in Int /\ unloads \in BOOLEAN /\ opened \in BOOLEAN

\* A check counts every module that was live when it began and is not shown, unless
\* the copy of the list was full; and modules that are shown are counted only when
\* /proc/modules could not be opened, a module was unloaded between MODS_BEGIN and
\* the last read, or the table of names was full.  However the list grows under the
\* reader, loading a module accuses nobody (crosscheck_modules).
HiddenCountIsRight ==
    /\ CrossTypeOK
    /\ cross.at = "done" =>
         /\ Len(cross.mods) < MAX_MODS => hidden >= Cardinality(cross.live)
         /\ hidden > Cardinality(cross.live) =>
              ~opened \/ unloads \/ Len(cross.names) = MAX_PROC_MODS
=============================================================================
