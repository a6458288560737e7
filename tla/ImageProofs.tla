---------------------------- MODULE ImageProofs ----------------------------
(****************************************************************************)
(* The checks of a process image: RenderHook and Baselines for every set of *)
(* programs, files, symbol tables and events, every size and every bound.   *)
(****************************************************************************)
EXTENDS Baselines, RenderHook, NaturalsInduction, WellFoundedInduction, TLAPS

-----------------------------------------------------------------------------
(* RenderHook                                                                *)
\* A name as a line of maps gives it, a library found, and the libraries by their table entry.
LibName == [path : Path, deleted : BOOLEAN]
Lib == [base : Addr, path : LibName]
LibMap == UNION {[S -> Lib] : S \in SUBSET DOMAIN RENDER_APIS}
\* A version of a file, and what a process is made of.
Version == 1 .. MaxVersion
Image == [prog : Program, ver : [Path -> Version], dirty : SUBSET (Addr \X Offset)]
\* What render_hook_statuses_for() keeps while it runs.
Checks == [at : {"idle", "next", "mem"}, libs : LibMap, ref : Version \cup {NULL},
           window : SUBSET Int, moved : BOOLEAN, replaced : SUBSET Path, due : SUBSET Addr]

\* The types of the variables.
HookTypes ==
    /\ proc \in Image \cup {NULL}
    /\ disk \in [Path -> Version] /\ events \in 0 .. MaxEvents
    /\ dynsym \in SymTables
    /\ hook \in Checks

\* The library of k is where the snapshot found it.
InPlaceLib(l) ==
    IF There(l.base) THEN proc.prog[l.base].path = l.path.path /\ proc.prog[l.base].part = 0
    ELSE FALSE

\* What the snapshot said of library l still holds as far as nothing happened to it.
Snapshot(l) ==
    /\ ~hook.moved => InPlaceLib(l)
    /\ l.path.path \notin hook.replaced /\ ~l.path.deleted =>
          (IF proc = NULL THEN TRUE ELSE proc.ver[l.path.path] = disk[l.path.path])
    /\ l.base \in hook.due => ~l.path.deleted

\* Every library found by find_render_api_libs() is as it was found, or something happened.
Snapshots == \A k \in DOMAIN hook.libs : \A l \in Lib : hook.libs[k] = l => Snapshot(l)

\* A function that has to be reported belongs to a library that is still to come.
Remaining == \A a \in hook.due : \E k \in DOMAIN hook.libs : hook.libs[k].base = a

\* Between the file and the memory: what was read from the file is the bytes of the function.
Comparing == hook.at = "mem" =>
    /\ LibsLeft /\ ~Library.deleted
    /\ Library.path \notin hook.replaced => hook.ref = disk[Library.path]
    /\ Defined(dynsym) # {} /\ hook.window = Window(elf_find_symbol_offset)

\* A verdict "hooked" has a cause.
Reported == status # NULL /\ status.hooked =>
    \/ status.actual.dirty # {}
    \/ status.name.path \in hook.replaced
    \/ hook.moved /\ (status.actual.path # status.name.path \/ status.actual.part # 0)

\* The inductive invariant of RenderHook.
HookInv ==
    /\ HookTypes
    /\ hook.at = "idle" => ~LibsLeft
    /\ hook.due \subseteq Hooked
    /\ Snapshots /\ Remaining /\ Comparing /\ Reported

-----------------------------------------------------------------------------
\* A nonempty set of numbers has a least one.
LEMMA LeastNat ==
    ASSUME NEW S, S \subseteq Nat, S # {}
    PROVE  Lowest(S) \in S /\ \A b \in S : Lowest(S) <= b
<1> DEFINE R == OpToRel(<, Nat)
<1>1. IsWellFoundedOn(R, Nat)
  BY NatLessThanWellFounded, Zenon
<1>2. \A x, y \in Nat : y < x => <<y, x>> \in R
  BY DEF OpToRel
<1> HIDE DEF R
<1>3. PICK x \in S : \A y \in S : ~ (<<y, x>> \in R)
  BY <1>1, WFMin, Zenon
<1>4. \A y \in S : ~ (y < x)
  BY <1>2, <1>3, Zenon
<1>5. \A y \in S : x <= y
  BY <1>4
<1> QED BY <1>5, Zenon DEF Lowest

\* The records of the check with given sets for the fields.
Rec(A, L, R, W, M, Q, D) ==
    [at : A, libs : L, ref : R, window : W, moved : M, replaced : Q, due : D]

\* Updating fields of the check within their sets, and what the fields are then.
LEMMA Updated ==
    ASSUME NEW A, NEW L, NEW R, NEW W, NEW M, NEW Q, NEW D,
           NEW h \in Rec(A, L, R, W, M, Q, D),
           NEW a \in A, NEW l \in L, NEW r \in R, NEW w \in W, NEW m \in M, NEW q \in Q, NEW d \in D
    PROVE  /\ [h EXCEPT !.due = d] \in Rec(A, L, R, W, M, Q, D)
           /\ [h EXCEPT !.moved = m, !.due = d] \in Rec(A, L, R, W, M, Q, D)
           /\ [h EXCEPT !.replaced = q, !.due = d] \in Rec(A, L, R, W, M, Q, D)
           /\ [h EXCEPT !.at = a, !.libs = l, !.due = d] \in Rec(A, L, R, W, M, Q, D)
           /\ [h EXCEPT !.at = a, !.ref = r, !.window = w] \in Rec(A, L, R, W, M, Q, D)
           /\ [h EXCEPT !.libs = l, !.at = a, !.ref = r, !.window = w] \in Rec(A, L, R, W, M, Q, D)
BY Zenon DEF Rec

\* x is the check with these fields.
Is(x, a, l, r, w, m, q, d) ==
    /\ x \in Checks
    /\ x.at = a /\ x.libs = l /\ x.ref = r /\ x.window = w
    /\ x.moved = m /\ x.replaced = q /\ x.due = d

\* The check with its list of functions to report changed.
LEMMA DueForm ==
    ASSUME NEW h \in Checks, NEW d \in SUBSET Addr
    PROVE  Is([h EXCEPT !.due = d], h.at, h.libs, h.ref, h.window, h.moved, h.replaced, d)
<1>1. [h EXCEPT !.due = d] \in Checks
  BY Updated, Zenon DEF Checks, Rec
<1> QED BY <1>1 DEF Is, Checks

\* The check after the process has left the image it had.
LEMMA MovedForm ==
    ASSUME NEW h \in Checks, NEW d \in SUBSET Addr
    PROVE  Is([h EXCEPT !.moved = TRUE, !.due = d], h.at, h.libs, h.ref, h.window, TRUE, h.replaced, d)
<1>1. [h EXCEPT !.moved = TRUE, !.due = d] \in Checks
  BY Updated, Zenon DEF Checks, Rec
<1> QED BY <1>1 DEF Is, Checks

\* The check after a file has been replaced.
LEMMA ReplacedForm ==
    ASSUME NEW h \in Checks, NEW d \in SUBSET Addr, NEW q \in SUBSET Path
    PROVE  Is([h EXCEPT !.replaced = q, !.due = d], h.at, h.libs, h.ref, h.window, h.moved, q, d)
<1>1. [h EXCEPT !.replaced = q, !.due = d] \in Checks
  BY Updated, Zenon DEF Checks, Rec
<1> QED BY <1>1 DEF Is, Checks

\* The check when the libraries have been found.
LEMMA FoundForm ==
    ASSUME NEW h \in Checks, NEW d \in SUBSET Addr, NEW l \in LibMap
    PROVE  Is([h EXCEPT !.at = "next", !.libs = l, !.due = d],
              "next", l, h.ref, h.window, h.moved, h.replaced, d)
<1>1. [h EXCEPT !.at = "next", !.libs = l, !.due = d] \in Checks
  <2>1. "next" \in {"idle", "next", "mem"}
    OBVIOUS
  <2> QED BY <2>1, Updated, Zenon DEF Checks, Rec
<1> QED BY <1>1 DEF Is, Checks

\* The check when the file has been read.
LEMMA ReadForm ==
    ASSUME NEW h \in Checks, NEW r \in Version \cup {NULL}, NEW w \in SUBSET Int
    PROVE  Is([h EXCEPT !.at = "mem", !.ref = r, !.window = w],
              "mem", h.libs, r, w, h.moved, h.replaced, h.due)
<1>1. [h EXCEPT !.at = "mem", !.ref = r, !.window = w] \in Checks
  <2>1. "mem" \in {"idle", "next", "mem"}
    OBVIOUS
  <2> QED BY <2>1, Updated, Zenon DEF Checks, Rec
<1> QED BY <1>1 DEF Is, Checks

\* The check when it goes on to the next library.
LEMMA PassedForm ==
    ASSUME NEW h \in Checks, NEW l \in LibMap
    PROVE  Is([h EXCEPT !.libs = l, !.at = "next", !.ref = NULL, !.window = {}],
              "next", l, NULL, {}, h.moved, h.replaced, h.due)
<1>1. [h EXCEPT !.libs = l, !.at = "next", !.ref = NULL, !.window = {}] \in Checks
  <2>1. "next" \in {"idle", "next", "mem"} /\ NULL \in Version \cup {NULL} /\ {} \in SUBSET Int
    OBVIOUS
  <2> QED BY <2>1, Updated, Zenon DEF Checks, Rec
<1> QED BY <1>1 DEF Is, Checks

\* The check before and after its run.
LEMMA IdleForm == Is(NoHook, "idle", [k \in {} |-> NULL], NULL, {}, FALSE, {}, {})
<1>1. [k \in {} |-> NULL] \in LibMap
  <2>1. [k \in {} |-> NULL] \in [{} -> Lib]
    OBVIOUS
  <2> QED BY <2>1 DEF LibMap
<1> QED BY <1>1 DEF Is, Checks, NoHook

\* What is mapped somewhere is a part of a file.
LEMMA FileThere ==
    ASSUME proc \in Image \cup {NULL}, NEW a \in Addr, There(a)
    PROVE  /\ proc # NULL /\ proc \in Image
           /\ proc.prog[a] # NULL /\ proc.prog[a].path \in Path /\ proc.prog[a].part \in Nat
<1>1. proc # NULL /\ proc \in Image /\ proc.prog[a] # NULL
  BY DEF There
<1>2. proc.prog \in Program
  BY <1>1 DEF Image
<1>3. proc.prog[a] \in [path : Path, part : Nat] \cup {NULL}
  BY <1>2, ImageAssumption
<1> QED BY <1>1, <1>3

\* The library that is looked at.
LEMMA LibTypes ==
    ASSUME HookTypes
    PROVE  /\ DOMAIN hook.libs \subseteq Nat /\ \A k \in DOMAIN hook.libs : hook.libs[k] \in Lib
           /\ LibsLeft => /\ Api \in DOMAIN hook.libs /\ hook.libs[Api] \in Lib
                          /\ Base \in Addr /\ Library \in LibName /\ Library.path \in Path
<1>1. hook.libs \in LibMap
  BY DEF HookTypes, Checks
<1>2. PICK S \in SUBSET DOMAIN RENDER_APIS : hook.libs \in [S -> Lib]
  BY <1>1 DEF LibMap
<1>3. DOMAIN hook.libs = S /\ S \subseteq Nat /\ \A k \in DOMAIN hook.libs : hook.libs[k] \in Lib
  BY <1>2, HookAssumption
<1>4. LibsLeft => Api \in DOMAIN hook.libs
  BY <1>3, LeastNat DEF LibsLeft, Api
<1> QED BY <1>3, <1>4 DEF Base, Library, Lib, LibName

-----------------------------------------------------------------------------
\* The process executes another program, exits or hands its number on.
LEMMA LeavesStep == HookInv /\ HookLeaves => HookInv'
<1> SUFFICES ASSUME HookInv, HookLeaves PROVE HookInv'
  OBVIOUS
<1>0. HookTypes /\ hook \in Checks /\ disk \in [Path -> Version]
  BY DEF HookInv, HookTypes
<1>1. /\ disk' = disk /\ events' = events + 1 /\ events < MaxEvents /\ dynsym' = dynsym /\ status' = NULL
      /\ (proc' = NULL \/ (proc' \in Image /\ proc'.ver = disk))
  BY <1>0 DEF HookLeaves, Moves, Exec, Exit, Event, Image
<1>2. CASE hook.at = "idle"
  <2>1. hook' = hook /\ DOMAIN hook.libs = {} /\ hook.due = {}
    BY <1>2 DEF HookLeaves, HookInv, LibsLeft, Remaining
  <2>2. HookTypes'
    BY <1>0, <1>1, <2>1, ImageAssumption DEF HookTypes
  <2> QED BY <1>1, <1>2, <2>1, <2>2 DEF HookInv, LibsLeft, Snapshots, Remaining, Comparing, Reported
<1>3. CASE hook.at # "idle"
  <2>1. Is(hook', hook.at, hook.libs, hook.ref, hook.window, TRUE, hook.replaced, {})
    BY <1>0, <1>3, MovedForm, Zenon DEF HookLeaves
  <2>2. HookTypes'
    BY <1>0, <1>1, <2>1, ImageAssumption DEF HookTypes, Is
  <2>3. Snapshots'
    BY <1>1, <2>1 DEF Is, Snapshots, Snapshot
  <2>4. Comparing'
    BY <1>1, <2>1 DEF HookInv, Is, Comparing, LibsLeft, Library, Api, elf_find_symbol_offset
  <2> QED BY <1>1, <1>3, <2>1, <2>2, <2>3, <2>4 DEF HookInv, Is, Remaining, Reported
<1> QED BY <1>2, <1>3

\* A byte of a mapping changes.
LEMMA ChangesStep == HookInv /\ HookChanges => HookInv'
<1> SUFFICES ASSUME HookInv, HookChanges PROVE HookInv'
  OBVIOUS
<1>0. HookTypes /\ hook \in Checks /\ hook.due \subseteq Addr
  BY DEF HookInv, HookTypes, Checks
<1>1. /\ disk' = disk /\ events' = events + 1 /\ events < MaxEvents /\ dynsym' = dynsym /\ status' = NULL
  BY DEF HookChanges, Changes, Patch, Event
<1>2. PICK dirty \in SUBSET (Addr \X Offset) : proc' = [proc EXCEPT !.dirty = dirty]
  BY DEF HookChanges, Changes, Patch
<1>3. proc # NULL /\ proc \in Image
  BY <1>0 DEF HookTypes, HookChanges, Changes, Patch, There
<1>4. proc' \in Image /\ proc'.prog = proc.prog /\ proc'.ver = proc.ver
  BY <1>2, <1>3 DEF Image
<1>5. proc' # NULL
  BY <1>4, ImageAssumption DEF Image, Version
<1>6. PICK due \in SUBSET Addr : due = hook.due \cap Hooked'
  BY <1>0, Zenon
<1>7. Is(hook', hook.at, hook.libs, hook.ref, hook.window, hook.moved, hook.replaced, due)
  BY <1>0, <1>6, DueForm DEF HookChanges
<1>8. HookTypes'
  BY <1>0, <1>1, <1>4, <1>7, ImageAssumption DEF HookTypes, Is
<1>9. Snapshots'
  BY <1>1, <1>3, <1>4, <1>5, <1>6, <1>7 DEF Is, HookInv, Snapshots, Snapshot, InPlaceLib, There
<1>10. Comparing'
  BY <1>1, <1>7 DEF HookInv, Is, Comparing, LibsLeft, Library, Api, elf_find_symbol_offset
<1>11. Remaining' /\ hook'.due \subseteq Hooked' /\ (hook'.at = "idle" => ~LibsLeft')
  BY <1>6, <1>7 DEF HookInv, Is, Remaining, LibsLeft
<1> QED BY <1>1, <1>8, <1>9, <1>10, <1>11 DEF HookInv, Reported

\* A package update replaces a file.
LEMMA ReplacedStep == ASSUME NEW path \in Path, HookInv, HookReplaced(path) PROVE HookInv'
<1>0. HookTypes /\ hook \in Checks /\ hook.due \subseteq Addr /\ hook.replaced \subseteq Path
  BY DEF HookInv, HookTypes, Checks
<1>1. /\ events' = events + 1 /\ events < MaxEvents /\ dynsym' = dynsym /\ status' = NULL
      /\ proc' = proc /\ disk' \in [Path -> Version] /\ \A p \in Path : p # path => disk'[p] = disk[p]
  BY <1>0, ImageAssumption DEF HookReplaced, Replace, Event, HookTypes, Version
<1>2. CASE hook.at = "idle"
  <2>1. hook' = hook /\ DOMAIN hook.libs = {} /\ hook.due = {}
    BY <1>2 DEF HookReplaced, HookInv, LibsLeft, Remaining
  <2>2. HookTypes'
    BY <1>0, <1>1, <2>1, ImageAssumption DEF HookTypes
  <2> QED BY <1>1, <1>2, <2>1, <2>2 DEF HookInv, LibsLeft, Snapshots, Remaining, Comparing, Reported
<1>3. CASE hook.at # "idle"
  <2>0. PICK due \in SUBSET Addr, replaced \in SUBSET Path :
          /\ due = {a \in hook.due : proc.prog[a].path # path} /\ replaced = hook.replaced \cup {path}
    BY <1>0, Zenon
  <2>1. Is(hook', hook.at, hook.libs, hook.ref, hook.window, hook.moved, replaced, due)
    BY <1>0, <1>3, <2>0, ReplacedForm, Zenon DEF HookReplaced
  <2>2. HookTypes'
    BY <1>0, <1>1, <2>1, ImageAssumption DEF HookTypes, Is
  <2>3. Snapshots'
    BY <1>1, <2>0, <2>1 DEF Is, HookInv, Snapshots, Snapshot, InPlaceLib, There, Lib, LibName
  <2>4. Comparing'
    BY <1>0, <1>1, <2>0, <2>1, LibTypes
       DEF HookInv, Is, Comparing, LibsLeft, Library, Api, elf_find_symbol_offset
  <2>5. Remaining' /\ hook'.due \subseteq Hooked' /\ (hook'.at = "idle" => ~LibsLeft')
    BY <1>1, <2>0, <2>1, Zenon DEF HookInv, Is, Remaining, LibsLeft, Hooked, Mapped, There, Function
  <2> QED BY <1>1, <2>2, <2>3, <2>4, <2>5 DEF HookInv, Reported
<1> QED BY <1>2, <1>3

-----------------------------------------------------------------------------
\* The lowest mapping of a library is of its beginning.
LEMMA LowestLoaded ==
    ASSUME HookTypes, NEW k \in DOMAIN RENDER_APIS, Loaded(k) # {}, NEW a, a = Lowest(Loaded(k))
    PROVE  a \in Addr /\ There(a) /\ proc.prog[a].path \in Path /\ proc.prog[a].part = 0
<1>1. Loaded(k) \subseteq Addr /\ Addr \subseteq Nat
  BY ImageAssumption DEF Loaded, Mapped, Addr
<1>2. a \in Loaded(k) /\ \A b \in Loaded(k) : a <= b
  BY <1>1, LeastNat, Zenon
<1>3. a \in Addr /\ There(a) /\ proc.prog[a].path \in RENDER_APIS[k]
  BY <1>2 DEF Loaded, Mapped
<1>4. proc \in Image /\ proc # NULL /\ proc.prog[a] # NULL /\ proc.prog[a].path \in Path
  BY <1>3, FileThere DEF HookTypes
<1>5. ASSUME proc.prog[a].part # 0 PROVE FALSE
  <2>1. proc.prog \in Program
    BY <1>4 DEF Image
  <2>2. PICK b \in 1 .. a - 1 : proc.prog[b] # NULL /\ proc.prog[b].path = proc.prog[a].path
    BY <1>3, <1>4, <1>5, <2>1, LibraryAssumption
  <2>3. b \in Addr /\ b < a /\ b \in Nat
    BY <1>1, <1>3, <2>2, ImageAssumption, SMTT(30) DEF Addr
  <2>4. b \in Loaded(k)
    BY <1>3, <1>4, <2>2, <2>3 DEF Loaded, Mapped, There
  <2> QED BY <1>1, <1>2, <2>3, <2>4
<1> QED BY <1>3, <1>4, <1>5

\* What the snapshot holds of each library.
LEMMA Found ==
    ASSUME HookTypes, proc # NULL
    PROVE  /\ Libs \in LibMap
           /\ \A k \in DOMAIN Libs :
                 /\ InPlaceLib(Libs[k]) /\ Libs[k].path = Shown(Libs[k].base)
                 /\ ~Libs[k].path.deleted => proc.ver[Libs[k].path.path] = disk[Libs[k].path.path]
<1>1. \A k \in DOMAIN Libs : k \in DOMAIN RENDER_APIS /\ Loaded(k) # {}
  BY DEF Libs
<1>2. ASSUME NEW k \in DOMAIN Libs
      PROVE  /\ Libs[k] \in Lib
             /\ InPlaceLib(Libs[k]) /\ Libs[k].path = Shown(Libs[k].base)
             /\ ~Libs[k].path.deleted => proc.ver[Libs[k].path.path] = disk[Libs[k].path.path]
  <2>1. PICK a \in Addr : /\ a = Lowest(Loaded(k)) /\ There(a)
                          /\ proc.prog[a].path \in Path /\ proc.prog[a].part = 0
    BY <1>1, LowestLoaded
  <2>2. Libs[k] = [base |-> a, path |-> Shown(a)]
    BY <2>1 DEF Libs
  <2>3. Shown(a) \in LibName /\ Shown(a).path = proc.prog[a].path
        /\ (~Shown(a).deleted => proc.ver[proc.prog[a].path] = disk[proc.prog[a].path])
    BY <2>1, Zenon DEF Shown, LibName
  <2> QED BY <2>1, <2>2, <2>3 DEF InPlaceLib, Lib
<1>3. Libs \in [DOMAIN Libs -> Lib]
  BY <1>2, Zenon DEF Libs
<1>4. Libs \in LibMap
  BY <1>1, <1>3 DEF LibMap
<1> QED BY <1>2, <1>4

\* A step that changes nothing, but for the verdict that is forgotten.
LEMMA NothingHappens ==
    ASSUME HookInv, UNCHANGED <<proc, disk, events, dynsym, hook>>, status' = NULL \/ status' = status
    PROVE  HookInv'
<1>1. HookTypes'
  BY DEF HookInv, HookTypes
<1>2. (hook.at = "idle" => ~LibsLeft)'
  BY DEF HookInv, LibsLeft
<1>3. (hook.due \subseteq Hooked)'
  BY DEF HookInv, Hooked, Mapped, There, Function
<1>4. Snapshots'
  BY DEF HookInv, Snapshots, Snapshot, InPlaceLib, There
<1>5. Remaining'
  BY DEF HookInv, Remaining
<1>6. Comparing'
  BY DEF HookInv, Comparing, LibsLeft, Library, Api, elf_find_symbol_offset
<1>7. Reported'
  BY DEF HookInv, Reported
<1> QED BY <1>1, <1>2, <1>3, <1>4, <1>5, <1>6, <1>7 DEF HookInv

\* The snapshot is taken.
LEMMA FindStep == HookInv /\ FindLibs => HookInv'
<1> SUFFICES ASSUME HookInv, FindLibs PROVE HookInv'
  OBVIOUS
<1>0. HookTypes
  BY DEF HookInv
<1>1. /\ status' = NULL /\ proc' = proc /\ disk' = disk /\ events' = events /\ dynsym' = dynsym
  BY DEF FindLibs, HookStep, imageVars
<1>2. CASE hook' = hook
  BY <1>1, <1>2, NothingHappens
<1>3. CASE proc # NULL /\ hook' = [NoHook EXCEPT !.at = "next", !.libs = Libs, !.due = Overwritten]
  <2>1. PICK libs \in LibMap, due \in SUBSET Addr : libs = Libs /\ due = Overwritten
    BY <1>0, <1>3, Found, Zenon DEF Overwritten, Hooked, Mapped
  <2>2. NoHook \in Checks /\ NoHook.moved = FALSE /\ NoHook.replaced = {}
    BY IdleForm DEF Is
  <2>3. Is(hook', "next", libs, NoHook.ref, NoHook.window, FALSE, {}, due)
    BY <1>3, <2>1, <2>2, FoundForm, Zenon
  <2>4. HookTypes'
    BY <1>0, <1>1, <2>3 DEF HookTypes, Is
  <2>5. due \subseteq Hooked /\ \A a \in due : \E k \in DOMAIN libs : libs[k].base = a /\ ~libs[k].path.deleted
    BY <2>1 DEF Overwritten
  <2>6. /\ hook'.at = "next" /\ hook'.libs = libs /\ hook'.moved = FALSE /\ hook'.replaced = {}
        /\ hook'.due = due
    BY <2>3 DEF Is
  <2>7. \A k \in DOMAIN libs :
          /\ InPlaceLib(libs[k]) /\ libs[k].path = Shown(libs[k].base)
          /\ ~libs[k].path.deleted => proc.ver[libs[k].path.path] = disk[libs[k].path.path]
    BY <1>0, <1>3, <2>1, Found
  <2>8. Snapshots'
    <3> SUFFICES ASSUME NEW k \in DOMAIN libs, NEW l \in Lib, libs[k] = l PROVE Snapshot(l)'
      BY <2>6 DEF Snapshots
    <3>1. l.base \in due => ~l.path.deleted
      BY <2>5, <2>7
    <3> QED BY <1>1, <1>3, <2>6, <2>7, <3>1 DEF Snapshot, InPlaceLib, There
  <2>9. hook'.due \subseteq Hooked'
    BY <1>1, <2>5, <2>6, Zenon DEF Hooked, Mapped, There, Function
  <2> QED BY <1>1, <2>4, <2>5, <2>6, <2>8, <2>9 DEF HookInv, Remaining, Comparing, Reported
<1> QED BY <1>2, <1>3 DEF FindLibs, HookStep

-----------------------------------------------------------------------------
\* The libraries after the current one.
RestOfLibs == [k \in DOMAIN hook.libs \ {Api} |-> hook.libs[k]]

\* Past a library that is not due, or no longer, the invariant holds of the others.
LEMMA PassingOn ==
    ASSUME HookInv, hook.at # "idle", LibsLeft, UNCHANGED <<proc, disk, events, dynsym>>,
           NEW due \in SUBSET hook.due, Base \notin due,
           Is(hook', "next", RestOfLibs, NULL, {}, hook.moved, hook.replaced, due), Reported'
    PROVE  HookInv'
<1>0. HookTypes
  BY DEF HookInv
<1>1. /\ hook' \in Checks /\ hook'.at = "next" /\ hook'.libs = RestOfLibs /\ hook'.moved = hook.moved
      /\ hook'.replaced = hook.replaced /\ hook'.due = due
  BY DEF Is
<1>2. HookTypes'
  BY <1>0, <1>1 DEF HookTypes
<1>3. hook'.due \subseteq Hooked'
  BY <1>1 DEF HookInv, Hooked, Mapped, There, Function
<1>4. Snapshots'
  <2> SUFFICES ASSUME NEW k \in DOMAIN RestOfLibs, NEW l \in Lib, RestOfLibs[k] = l PROVE Snapshot(l)'
    BY <1>1 DEF Snapshots
  <2>1. k \in DOMAIN hook.libs /\ hook.libs[k] = l
    BY DEF RestOfLibs
  <2>2. Snapshot(l)
    BY <2>1 DEF HookInv, Snapshots
  <2> QED BY <1>1, <2>2 DEF Snapshot, InPlaceLib, There
<1>5. Remaining'
  <2> SUFFICES ASSUME NEW a \in due PROVE \E k \in DOMAIN RestOfLibs : RestOfLibs[k].base = a
    BY <1>1 DEF Remaining
  <2>1. PICK k \in DOMAIN hook.libs : hook.libs[k].base = a
    BY DEF HookInv, Remaining
  <2>2. k # Api
    BY <2>1 DEF Base
  <2> QED BY <2>1, <2>2 DEF RestOfLibs
<1> QED BY <1>1, <1>2, <1>3, <1>4, <1>5 DEF HookInv, Comparing

\* The record that passing over a library makes.
LEMMA PassedIs ==
    ASSUME HookTypes, LibsLeft, NEW due \in SUBSET hook.due
    PROVE  /\ Is(HookPassed, "next", RestOfLibs, NULL, {}, hook.moved, hook.replaced, hook.due)
           /\ Is([HookPassed EXCEPT !.due = due], "next", RestOfLibs, NULL, {}, hook.moved, hook.replaced, due)
<1>1. hook \in Checks /\ hook.due \subseteq Addr /\ hook.libs \in LibMap
  BY DEF HookTypes, Checks
<1>2. RestOfLibs \in LibMap
  <2>1. PICK S \in SUBSET DOMAIN RENDER_APIS : hook.libs \in [S -> Lib]
    BY <1>1 DEF LibMap
  <2>2. RestOfLibs \in [S \ {Api} -> Lib] /\ S \ {Api} \in SUBSET DOMAIN RENDER_APIS
    BY <2>1 DEF RestOfLibs
  <2> QED BY <2>2 DEF LibMap
<1>3. Is(HookPassed, "next", RestOfLibs, NULL, {}, hook.moved, hook.replaced, hook.due)
  BY <1>1, <1>2, PassedForm, Zenon DEF HookPassed, RestOfLibs
<1>4. HookPassed \in Checks /\ due \in SUBSET Addr
  BY <1>1, <1>3 DEF Is
<1>5. Is([HookPassed EXCEPT !.due = due], HookPassed.at, HookPassed.libs, HookPassed.ref, HookPassed.window,
         HookPassed.moved, HookPassed.replaced, due)
  BY <1>4, DueForm
<1> QED BY <1>3, <1>5 DEF Is

\* A library that is not due may be passed over without a verdict, and any may with an excuse.
LEMMA PassedOver ==
    ASSUME HookInv, hook.at # "idle", LibsLeft,
           (Inconclusive /\ Base \notin hook.due) \/ HookExcused
    PROVE  HookInv'
<1>0. HookTypes
  BY DEF HookInv
<1>1. UNCHANGED <<proc, disk, events, dynsym>> /\ Reported'
  BY DEF Inconclusive, HookExcused, HookStep, imageVars, Reported
<1>2. CASE Inconclusive /\ Base \notin hook.due
  <2>1. Is(hook', "next", RestOfLibs, NULL, {}, hook.moved, hook.replaced, hook.due)
    BY <1>0, <1>2, PassedIs, Zenon DEF Inconclusive, HookStep
  <2> QED BY <1>1, <1>2, <2>1, PassingOn
<1>3. CASE HookExcused
  <2>0. PICK due : due = HookPassed.due \ {Base}
    BY Zenon
  <2>1. due \in SUBSET hook.due /\ Base \notin due
    <3>1. hook.due \in SUBSET hook.due
      OBVIOUS
    <3>2. HookPassed.due = hook.due
      BY <1>0, <3>1, PassedIs, Zenon DEF Is
    <3> QED BY <2>0, <3>2
  <2>2. Is(hook', "next", RestOfLibs, NULL, {}, hook.moved, hook.replaced, due)
    BY <1>0, <1>3, <2>0, <2>1, PassedIs DEF HookExcused, HookStep
  <2> QED BY <1>1, <2>1, <2>2, PassingOn
<1> QED BY <1>2, <1>3

\* The symbol that is found is the one definition; the window covers the function.
LEMMA TheSymbol ==
    ASSUME HookTypes, Defined(dynsym) # {}
    PROVE  /\ elf_find_symbol_offset # NULL
           /\ Window(elf_find_symbol_offset) \subseteq Offset
           /\ Function \subseteq Window(elf_find_symbol_offset)
<1>0. /\ dynsym \in SymTables /\ Defined(dynsym) \subseteq Nat
      /\ \A i \in Defined(dynsym) : dynsym[i].value \in Nat /\ dynsym[i].size \in Nat /\ dynsym[i] # NULL
  BY HookAssumption DEF HookTypes, Defined
<1>1. PICK i \in Defined(dynsym) : i = Lowest(Defined(dynsym))
  BY <1>0, LeastNat
<1>2. elf_find_symbol_offset = dynsym[i]
  BY <1>1 DEF elf_find_symbol_offset
<1>3. Window(dynsym[i]) \subseteq Offset /\ \A j \in Defined(dynsym) : j = i
  BY <1>0, LibraryAssumption
<1>4. ASSUME NEW x \in Function PROVE x \in Window(dynsym[i])
  <2>1. PICK v \in Nat, n \in Nat : v = dynsym[i].value /\ n = dynsym[i].size
    BY <1>0
  <2>2. x \in Int /\ x - v \in 0 .. n - 1 /\ x - v < MAX_BYTES
    BY <1>3, <2>1, ImageAssumption DEF Function, Offset
  <2>3. CheckLen(n) \in Nat /\ (x - v < CheckLen(n))
    BY <2>2, HookAssumption DEF CheckLen
  <2> QED BY <2>1, <2>2, <2>3 DEF Window
<1> QED BY <1>0, <1>1, <1>2, <1>3, <1>4

\* The function is read from the file.
LEMMA ReadLibStep == HookInv /\ ReadLib => HookInv'
<1> SUFFICES ASSUME HookInv, ReadLib PROVE HookInv'
  OBVIOUS
<1>0. HookTypes /\ hook.at = "next" /\ hook.at # "idle" /\ LibsLeft /\ hook.due \subseteq Hooked
  BY DEF HookInv, ReadLib
<1>1. Api \in DOMAIN hook.libs /\ hook.libs[Api] \in Lib /\ Library.path \in Path /\ Snapshot(hook.libs[Api])
  BY <1>0, LibTypes DEF HookInv, Snapshots
<1>2. CASE (proc = NULL \/ Library.deleted) /\ Inconclusive
  <2>1. Base \notin hook.due
    BY <1>0, <1>1, <1>2 DEF Hooked, Mapped, There, Snapshot, Base, Library
  <2> QED BY <1>0, <1>2, <2>1, PassedOver
<1>3. CASE HookExcused
  BY <1>0, <1>3, PassedOver
<1>4. CASE /\ Inconclusive
           /\ ~ (IF elf_find_symbol_offset = NULL THEN FALSE ELSE Window(elf_find_symbol_offset) \subseteq Offset)
  <2>1. Defined(dynsym) = {}
    BY <1>0, <1>4, TheSymbol
  <2>2. Hooked = {}
    BY <2>1, SMTT(30) DEF Hooked, Function
  <2> QED BY <1>0, <1>4, <2>2, PassedOver
<1>5. CASE /\ ~Library.deleted /\ elf_find_symbol_offset # NULL
           /\ HookStep([hook EXCEPT !.at = "mem", !.ref = disk[Library.path],
                                    !.window = Window(elf_find_symbol_offset)])
  <2>1. Defined(dynsym) # {}
    BY <1>5 DEF elf_find_symbol_offset
  <2>2. PICK w \in SUBSET Int, r \in Version : w = Window(elf_find_symbol_offset) /\ r = disk[Library.path]
    <3>1. Window(elf_find_symbol_offset) \subseteq Int
      BY <1>0, <2>1, TheSymbol, ImageAssumption DEF Offset
    <3> QED BY <1>0, <1>1, <3>1 DEF HookTypes
  <2>3. Is(hook', "mem", hook.libs, r, w, hook.moved, hook.replaced, hook.due)
    BY <1>0, <1>5, <2>2, ReadForm, Zenon DEF HookStep, HookTypes
  <2>4. /\ hook' \in Checks /\ hook'.at = "mem" /\ hook'.libs = hook.libs /\ hook'.ref = r /\ hook'.window = w
        /\ hook'.moved = hook.moved /\ hook'.replaced = hook.replaced /\ hook'.due = hook.due
    BY <2>3 DEF Is
  <2>5. status' = NULL /\ proc' = proc /\ disk' = disk /\ events' = events /\ dynsym' = dynsym
    BY <1>5 DEF HookStep, imageVars
  <2>6. HookTypes'
    BY <1>0, <2>4, <2>5 DEF HookTypes
  <2>7. hook'.due \subseteq Hooked'
    BY <1>0, <2>4, <2>5, Zenon DEF Hooked, Mapped, There, Function
  <2>8. Snapshots'
    BY <2>4, <2>5 DEF HookInv, Snapshots, Snapshot, InPlaceLib, There
  <2>9. Remaining'
    BY <2>4 DEF HookInv, Remaining
  <2>10. Comparing'
    BY <1>0, <1>5, <2>1, <2>2, <2>4, <2>5 DEF Comparing, LibsLeft, Library, Api, elf_find_symbol_offset
  <2> QED BY <2>4, <2>5, <2>6, <2>7, <2>8, <2>9, <2>10 DEF HookInv, Reported
<1> QED BY <1>2, <1>3, <1>4, <1>5 DEF ReadLib

\* The function is read from the memory and compared.
LEMMA ReadMemStep == HookInv /\ ReadMem => HookInv'
<1> SUFFICES ASSUME HookInv, ReadMem PROVE HookInv'
  OBVIOUS
<1>0. /\ HookTypes /\ hook.at = "mem" /\ hook.at # "idle" /\ hook.due \subseteq Hooked /\ LibsLeft
      /\ ~Library.deleted /\ (Library.path \notin hook.replaced => hook.ref = disk[Library.path])
      /\ Defined(dynsym) # {} /\ hook.window = Window(elf_find_symbol_offset)
  BY DEF HookInv, ReadMem, Comparing
<1>1. /\ Api \in DOMAIN hook.libs /\ hook.libs[Api] \in Lib /\ Snapshot(hook.libs[Api])
      /\ Library.path \in Path /\ Base \in Addr
  BY <1>0, LibTypes DEF HookInv, Snapshots
<1>2. CASE ~There(Base) /\ Inconclusive
  <2>1. Base \notin hook.due
    BY <1>0, <1>2 DEF Hooked, Mapped
  <2> QED BY <1>0, <1>2, <2>1, PassedOver
<1>3. CASE HookExcused
  BY <1>0, <1>3, PassedOver
<1>4. ASSUME There(Base), NEW actual, NEW hooked,
             actual = Content(Base, hook.window),
             hooked = (actual # [path |-> Library.path, part |-> 0, ver |-> hook.ref, dirty |-> {}]),
             status' = [name |-> Library, actual |-> actual, hooked |-> hooked],
             hook' = [HookPassed EXCEPT !.due = IF hooked THEN @ \ {Base} ELSE @],
             UNCHANGED <<imageVars, dynsym>>
      PROVE  HookInv'
  <2>1. proc' = proc /\ disk' = disk /\ events' = events /\ dynsym' = dynsym
    BY <1>4 DEF imageVars
  <2>2. proc \in Image /\ proc # NULL
    BY <1>0, <1>1, <1>4, FileThere DEF HookTypes
  <2>3. /\ actual.path = proc.prog[Base].path /\ actual.part = proc.prog[Base].part
        /\ actual.ver = proc.ver[actual.path]
        /\ actual.dirty = {i \in hook.window : <<Base, i>> \in proc.dirty}
        /\ actual = [path |-> actual.path, part |-> actual.part, ver |-> actual.ver, dirty |-> actual.dirty]
    BY <1>4 DEF Content
  <2>4. ASSUME hooked, actual.dirty = {}, Library.path \notin hook.replaced
        PROVE  hook.moved /\ (actual.path # Library.path \/ actual.part # 0)
    <3>1. hook.ref = disk[Library.path] /\ proc.ver[Library.path] = disk[Library.path]
      BY <1>0, <1>1, <2>2, <2>4 DEF Snapshot, Library
    <3>2. actual.path # Library.path \/ actual.part # 0
      BY <1>4, <2>3, <2>4, <3>1, Zenon
    <3>3. hook.moved
      BY <1>1, <2>3, <3>2, Zenon DEF Snapshot, InPlaceLib, Library, Base
    <3> QED BY <3>2, <3>3
  <2>5. Base \in hook.due => hooked
    <3>0. actual.dirty # {} => actual # [path |-> Library.path, part |-> 0, ver |-> hook.ref, dirty |-> {}]
      OBVIOUS
    <3> SUFFICES ASSUME Base \in hook.due PROVE actual.dirty # {}
      BY <1>4, <3>0, Zenon
    <3>1. PICK i \in Function : <<Base, i>> \in proc.dirty
      BY <1>0 DEF Hooked
    <3> QED BY <1>0, <2>3, <3>1, TheSymbol
  <2>a. PICK due : due = IF hooked THEN HookPassed.due \ {Base} ELSE HookPassed.due
    BY Zenon
  <2>6. due \in SUBSET hook.due /\ Base \notin due
    <3>1. hook.due \in SUBSET hook.due
      OBVIOUS
    <3>2. HookPassed.due = hook.due
      BY <1>0, <3>1, PassedIs, Zenon DEF Is
    <3> QED BY <2>a, <2>5, <3>2
  <2>7. Is(hook', "next", RestOfLibs, NULL, {}, hook.moved, hook.replaced, due)
    BY <1>0, <1>4, <2>a, <2>6, PassedIs, Zenon
  <2>8. Reported'
    BY <1>4, <2>4, <2>7 DEF Reported, Is
  <2> QED BY <1>0, <2>1, <2>6, <2>7, <2>8, PassingOn
<1> QED BY <1>2, <1>3, <1>4, Zenon DEF ReadMem

\* The check ends.
LEMMA EndStep == HookInv /\ HookEnd => HookInv'
<1> SUFFICES ASSUME HookInv, HookEnd PROVE HookInv'
  OBVIOUS
<1>1. Is(hook', "idle", [k \in {} |-> NULL], NULL, {}, FALSE, {}, {})
  BY IdleForm, Zenon DEF HookEnd, HookStep
<1>2. hook' \in Checks /\ hook'.at = "idle" /\ DOMAIN hook'.libs = {} /\ hook'.due = {}
  BY <1>1 DEF Is
<1>3. HookTypes' /\ status' = NULL
  BY <1>2 DEF HookInv, HookTypes, HookEnd, HookStep, imageVars
<1> QED BY <1>2, <1>3 DEF HookInv, LibsLeft, Snapshots, Remaining, Comparing, Reported

\* It is inductive.
LEMMA HookStart == HookInit => HookInv
<1> SUFFICES ASSUME HookInit PROVE HookInv
  OBVIOUS
<1>1. hook \in Checks /\ hook.at = "idle" /\ DOMAIN hook.libs = {} /\ hook.due = {}
  BY IdleForm DEF HookInit, Is
<1>2. HookTypes
  BY <1>1, ImageAssumption DEF HookTypes, HookInit, ImageInit, Version
<1> QED BY <1>1, <1>2 DEF HookInv, LibsLeft, Snapshots, Remaining, Comparing, Reported, HookInit

\* The invariant is inductive.
LEMMA HookStepKeeps == HookInv /\ [HookNext]_hookVars => HookInv'
<1> SUFFICES ASSUME HookInv, [HookNext]_hookVars PROVE HookInv'
  OBVIOUS
<1>1. CASE UNCHANGED hookVars
  BY <1>1, NothingHappens DEF hookVars, imageVars
<1>2. CASE \E p \in Path : HookReplaced(p)
  BY <1>2, ReplacedStep
<1> QED
  BY <1>1, <1>2, LeavesStep, ChangesStep, FindStep, ReadLibStep, ReadMemStep, EndStep DEF HookNext

\* What the invariant says of the verdicts.
LEMMA HookInvRight == HookInv => HookVerdictIsRight
<1> SUFFICES ASSUME HookInv PROVE HookVerdictIsRight
  OBVIOUS
<1>1. ImageTypeOK
  BY DEF HookInv, HookTypes, ImageTypeOK, Image, Version
<1>2. DOMAIN hook.libs \subseteq DOMAIN RENDER_APIS
  BY DEF HookInv, HookTypes, Checks, LibMap
<1>3. HookTypeOK
  BY <1>1, <1>2 DEF HookTypeOK, HookInv, HookTypes, Checks
<1> QED BY <1>3 DEF HookInv, HookVerdictIsRight, Reported, Remaining, LibsLeft

\* A verdict of the render-hook check has a cause, and a function that stays
\* overwritten is reported by the pass that finds it so (render_hook_statuses_for()).
THEOREM HookVerdictAlways == HookSpec => []HookVerdictIsRight
BY HookStart, HookStepKeeps, HookInvRight, PTL DEF HookSpec

-----------------------------------------------------------------------------
(* Baselines                                                                 *)
\* A snapshot of maps: the names by address; and the contents that a hash stands for.
VmaMap == UNION {[S -> Names] : S \in SUBSET Addr}
Contents == [path : Path, part : Nat, ver : Version, dirty : SUBSET Offset]

\* Only one part of a file is mapped, whatever the program.  Otherwise two mappings
\* share one baseline file (UntouchedMatches).
OnePart == \A f, g \in Program : \A a, b \in Addr :
    (IF f[a] = NULL \/ g[b] = NULL THEN FALSE ELSE f[a].path = g[b].path) => f[a].part = g[b].part

\* Some program maps this part of this file.
PartOf(path, part) == \E f \in Program : \E a \in Addr :
    IF f[a] = NULL THEN FALSE ELSE f[a].path = path /\ f[a].part = part

\* The digests that a mapping may have, the lines of the baseline files, and the states
\* of the open /proc/PID/mem.
Hex == {h \in Contents : PartOf(h.path, h.part)}
Lines == {<<h>> : h \in Hex}
Mem == {"closed", "failed", "live", "gone"}

\* What the two scanners keep while they run.
DaemonAt == {"idle", "next", "mem", "hash"}
CliAt == {"idle", "open", "next", "save", "write", "check"}
DaemonType == [at : DaemonAt, vmas : VmaMap, mem : Mem, ref : Lines \cup {NULL},
               moved : BOOLEAN, late : BOOLEAN, due : SUBSET Addr]
CliType == [at : CliAt, opts : SUBSET {"save", "check"},
            vmas : VmaMap, mem : Mem, hex : Hex \cup {NULL}, moved : BOOLEAN, late : BOOLEAN]

\* The types of the variables.
BaselineTypes ==
    /\ proc \in Image \cup {NULL}
    /\ disk \in [Path -> Version] /\ events \in 0 .. MaxEvents
    /\ base \in [Names -> Lines \cup {NULL, <<>>}]
    /\ daemon \in DaemonType /\ cli \in CliType /\ saves \in 0 .. MaxSaves

\* What the pass has to report is still different from its line.
DueDiffers == \A a \in daemon.due : a \in DOMAIN daemon.vmas /\ <<a, daemon.vmas[a]>> \in Differing

\* The mappings of the snapshot are there, under their names, until the process leaves.
Seen(moved, vmas) == ~moved => \A a \in DOMAIN vmas :
    IF There(a) THEN proc.prog[a].path = vmas[a].path ELSE FALSE
\* A memory that was opened and outlived the snapshot was opened after it.
Opening(mem, moved, late) == mem = "live" /\ moved => late

\* The periodic check: where it is, the line it has read is the one of its mapping as
\* long as it has to report it.
DaemonOK ==
    /\ daemon.at = "idle" => ~More(daemon)
    /\ daemon.at \in {"mem", "hash"} =>
          /\ More(daemon) /\ daemon.ref # NULL /\ daemon.ref \in Lines
          /\ Cur(daemon) \in daemon.due => daemon.ref = base[Name(daemon)]
    /\ daemon.at = "hash" => daemon.mem \in {"live", "gone"}
    /\ daemon.mem \in {"failed", "gone"} => daemon.due = {}
    /\ Seen(daemon.moved, daemon.vmas) /\ Opening(daemon.mem, daemon.moved, daemon.late)

\* The scan command: what it hashes belongs to the name it found, or is late; the file
\* it is writing is empty until it is closed.
CliOK ==
    /\ cli.at = "idle" => ~More(cli)
    /\ cli.at \in {"save", "write", "check"} =>
          More(cli) /\ cli.hex \in Hex /\ (cli.hex.path = Name(cli).path \/ cli.late)
    /\ cli.at = "write" => base[Name(cli)] = <<>>
    /\ Seen(cli.moved, cli.vmas) /\ Opening(cli.mem, cli.moved, cli.late)

\* An alarm has a cause.
Caused == told # NULL /\ told.alarm =>
    LET ref == told.ref[1]
    IN  \/ told.hex.dirty # {} \/ ref.dirty # {} \/ told.hex.ver # ref.ver
        \/ Strange(told.hex, IF told.by = "daemon" THEN daemon ELSE cli)
        \/ ref.path # told.name.path

\* The inductive invariant of Baselines.
BaselineInv == BaselineTypes /\ DueDiffers /\ DaemonOK /\ CliOK /\ Caused

-----------------------------------------------------------------------------
\* The records of the two scanners with given sets for the fields.
DaemonRec(A, V, M, R, O, L, D) ==
    [at : A, vmas : V, mem : M, ref : R, moved : O, late : L, due : D]
CliRec(A, P, V, M, H, O, L) ==
    [at : A, opts : P, vmas : V, mem : M, hex : H, moved : O, late : L]

\* Updating fields of the check within their sets keeps it within its set.
LEMMA DaemonUpdated ==
    ASSUME NEW A, NEW V, NEW M, NEW R, NEW O, NEW L, NEW D, NEW c \in DaemonRec(A, V, M, R, O, L, D)
    PROVE  /\ \A d \in D : [c EXCEPT !.due = d] \in DaemonRec(A, V, M, R, O, L, D)
           /\ \A o \in O, m \in M : [c EXCEPT !.moved = o, !.mem = m] \in DaemonRec(A, V, M, R, O, L, D)
           /\ \A v \in V, a \in A : [c EXCEPT !.vmas = v, !.at = a] \in DaemonRec(A, V, M, R, O, L, D)
           /\ \A r \in R : [c EXCEPT !.ref = r] \in DaemonRec(A, V, M, R, O, L, D)
           /\ \A r \in R, d \in D : [c EXCEPT !.ref = r, !.due = d] \in DaemonRec(A, V, M, R, O, L, D)
           /\ \A r \in R, m \in M, d \in D : [c EXCEPT !.ref = r, !.mem = m, !.due = d] \in DaemonRec(A, V, M, R, O, L, D)
           /\ \A a \in A, d \in D, v \in V : [c EXCEPT !.at = a, !.due = d, !.vmas = v] \in DaemonRec(A, V, M, R, O, L, D)
           /\ \A a \in A, r \in R : [c EXCEPT !.at = a, !.ref = r] \in DaemonRec(A, V, M, R, O, L, D)
           /\ \A m \in M, l \in L : [c EXCEPT !.mem = m, !.late = l] \in DaemonRec(A, V, M, R, O, L, D)
           /\ \A a \in A : [c EXCEPT !.at = a] \in DaemonRec(A, V, M, R, O, L, D)
BY Zenon DEF DaemonRec

\* x is the check with these fields.
IsDaemon(x, a, v, m, r, o, l, d) ==
    /\ x \in DaemonType
    /\ x.at = a /\ x.vmas = v /\ x.mem = m /\ x.ref = r /\ x.moved = o /\ x.late = l /\ x.due = d

\* What the fields of the check are after an update.
LEMMA DaemonFields ==
    ASSUME NEW c \in DaemonType
    PROVE  /\ \A d \in SUBSET Addr :
                 IsDaemon([c EXCEPT !.due = d], c.at, c.vmas, c.mem, c.ref, c.moved, c.late, d)
           /\ \A o \in BOOLEAN, m \in Mem :
                 IsDaemon([c EXCEPT !.moved = o, !.mem = m], c.at, c.vmas, m, c.ref, o, c.late, c.due)
           /\ \A v \in VmaMap, a \in DaemonAt :
                 IsDaemon([c EXCEPT !.vmas = v, !.at = a], a, v, c.mem, c.ref, c.moved, c.late, c.due)
           /\ \A r \in Lines \cup {NULL} :
                 IsDaemon([c EXCEPT !.ref = r], c.at, c.vmas, c.mem, r, c.moved, c.late, c.due)
           /\ \A r \in Lines \cup {NULL}, d \in SUBSET Addr :
                 IsDaemon([c EXCEPT !.ref = r, !.due = d], c.at, c.vmas, c.mem, r, c.moved, c.late, d)
           /\ \A r \in Lines \cup {NULL}, m \in Mem, d \in SUBSET Addr :
                 IsDaemon([c EXCEPT !.ref = r, !.mem = m, !.due = d], c.at, c.vmas, m, r, c.moved, c.late, d)
           /\ \A a \in DaemonAt, d \in SUBSET Addr, v \in VmaMap :
                 IsDaemon([c EXCEPT !.at = a, !.due = d, !.vmas = v], a, v, c.mem, c.ref, c.moved, c.late, d)
           /\ \A a \in DaemonAt, r \in Lines \cup {NULL} :
                 IsDaemon([c EXCEPT !.at = a, !.ref = r], a, c.vmas, c.mem, r, c.moved, c.late, c.due)
           /\ \A m \in Mem, l \in BOOLEAN :
                 IsDaemon([c EXCEPT !.mem = m, !.late = l], c.at, c.vmas, m, c.ref, c.moved, l, c.due)
           /\ \A a \in DaemonAt :
                 IsDaemon([c EXCEPT !.at = a], a, c.vmas, c.mem, c.ref, c.moved, c.late, c.due)
<1>0. /\ \A d \in SUBSET Addr : [c EXCEPT !.due = d] \in DaemonType
      /\ \A o \in BOOLEAN, m \in Mem : [c EXCEPT !.moved = o, !.mem = m] \in DaemonType
      /\ \A v \in VmaMap, a \in DaemonAt : [c EXCEPT !.vmas = v, !.at = a] \in DaemonType
      /\ \A r \in Lines \cup {NULL} : [c EXCEPT !.ref = r] \in DaemonType
      /\ \A r \in Lines \cup {NULL}, d \in SUBSET Addr : [c EXCEPT !.ref = r, !.due = d] \in DaemonType
      /\ \A r \in Lines \cup {NULL}, m \in Mem, d \in SUBSET Addr : [c EXCEPT !.ref = r, !.mem = m, !.due = d] \in DaemonType
      /\ \A a \in DaemonAt, d \in SUBSET Addr, v \in VmaMap : [c EXCEPT !.at = a, !.due = d, !.vmas = v] \in DaemonType
      /\ \A a \in DaemonAt, r \in Lines \cup {NULL} : [c EXCEPT !.at = a, !.ref = r] \in DaemonType
      /\ \A m \in Mem, l \in BOOLEAN : [c EXCEPT !.mem = m, !.late = l] \in DaemonType
      /\ \A a \in DaemonAt : [c EXCEPT !.at = a] \in DaemonType
  BY DaemonUpdated, ZenonT(60) DEF DaemonType, DaemonRec
<1>1. ASSUME NEW d \in SUBSET Addr PROVE IsDaemon([c EXCEPT !.due = d], c.at, c.vmas, c.mem, c.ref, c.moved, c.late, d)
  <2>1. [c EXCEPT !.due = d] \in DaemonType
    BY <1>0, Zenon
  <2> QED BY <2>1 DEF IsDaemon, DaemonType
<1>2. ASSUME NEW o \in BOOLEAN, NEW m \in Mem PROVE IsDaemon([c EXCEPT !.moved = o, !.mem = m], c.at, c.vmas, m, c.ref, o, c.late, c.due)
  <2>1. [c EXCEPT !.moved = o, !.mem = m] \in DaemonType
    BY <1>0, Zenon
  <2> QED BY <2>1 DEF IsDaemon, DaemonType
<1>3. ASSUME NEW v \in VmaMap, NEW a \in DaemonAt PROVE IsDaemon([c EXCEPT !.vmas = v, !.at = a], a, v, c.mem, c.ref, c.moved, c.late, c.due)
  <2>1. [c EXCEPT !.vmas = v, !.at = a] \in DaemonType
    BY <1>0, Zenon
  <2> QED BY <2>1 DEF IsDaemon, DaemonType
<1>4. ASSUME NEW r \in Lines \cup {NULL} PROVE IsDaemon([c EXCEPT !.ref = r], c.at, c.vmas, c.mem, r, c.moved, c.late, c.due)
  <2>1. [c EXCEPT !.ref = r] \in DaemonType
    BY <1>0, Zenon
  <2> QED BY <2>1 DEF IsDaemon, DaemonType
<1>5. ASSUME NEW r \in Lines \cup {NULL}, NEW d \in SUBSET Addr PROVE IsDaemon([c EXCEPT !.ref = r, !.due = d], c.at, c.vmas, c.mem, r, c.moved, c.late, d)
  <2>1. [c EXCEPT !.ref = r, !.due = d] \in DaemonType
    BY <1>0, Zenon
  <2> QED BY <2>1 DEF IsDaemon, DaemonType
<1>6. ASSUME NEW r \in Lines \cup {NULL}, NEW m \in Mem, NEW d \in SUBSET Addr PROVE IsDaemon([c EXCEPT !.ref = r, !.mem = m, !.due = d], c.at, c.vmas, m, r, c.moved, c.late, d)
  <2>1. [c EXCEPT !.ref = r, !.mem = m, !.due = d] \in DaemonType
    BY <1>0, Zenon
  <2> QED BY <2>1 DEF IsDaemon, DaemonType
<1>7. ASSUME NEW a \in DaemonAt, NEW d \in SUBSET Addr, NEW v \in VmaMap PROVE IsDaemon([c EXCEPT !.at = a, !.due = d, !.vmas = v], a, v, c.mem, c.ref, c.moved, c.late, d)
  <2>1. [c EXCEPT !.at = a, !.due = d, !.vmas = v] \in DaemonType
    BY <1>0, Zenon
  <2> QED BY <2>1 DEF IsDaemon, DaemonType
<1>8. ASSUME NEW a \in DaemonAt, NEW r \in Lines \cup {NULL} PROVE IsDaemon([c EXCEPT !.at = a, !.ref = r], a, c.vmas, c.mem, r, c.moved, c.late, c.due)
  <2>1. [c EXCEPT !.at = a, !.ref = r] \in DaemonType
    BY <1>0, Zenon
  <2> QED BY <2>1 DEF IsDaemon, DaemonType
<1>9. ASSUME NEW m \in Mem, NEW l \in BOOLEAN PROVE IsDaemon([c EXCEPT !.mem = m, !.late = l], c.at, c.vmas, m, c.ref, c.moved, l, c.due)
  <2>1. [c EXCEPT !.mem = m, !.late = l] \in DaemonType
    BY <1>0, Zenon
  <2> QED BY <2>1 DEF IsDaemon, DaemonType
<1>10. ASSUME NEW a \in DaemonAt PROVE IsDaemon([c EXCEPT !.at = a], a, c.vmas, c.mem, c.ref, c.moved, c.late, c.due)
  <2>1. [c EXCEPT !.at = a] \in DaemonType
    BY <1>0, Zenon
  <2> QED BY <2>1 DEF IsDaemon, DaemonType
<1> QED BY <1>1, <1>2, <1>3, <1>4, <1>5, <1>6, <1>7, <1>8, <1>9, <1>10, Zenon

\* Updating fields of the command within their sets keeps it within its set.
LEMMA CliUpdated ==
    ASSUME NEW A, NEW P, NEW V, NEW M, NEW H, NEW O, NEW L, NEW c \in CliRec(A, P, V, M, H, O, L)
    PROVE  /\ \A o \in O, m \in M : [c EXCEPT !.moved = o, !.mem = m] \in CliRec(A, P, V, M, H, O, L)
           /\ \A v \in V, a \in A : [c EXCEPT !.vmas = v, !.at = a] \in CliRec(A, P, V, M, H, O, L)
           /\ \A h \in H : [c EXCEPT !.hex = h] \in CliRec(A, P, V, M, H, O, L)
           /\ \A a \in A, p \in P, v \in V : [c EXCEPT !.at = a, !.opts = p, !.vmas = v] \in CliRec(A, P, V, M, H, O, L)
           /\ \A a \in A, m \in M : [c EXCEPT !.at = a, !.mem = m] \in CliRec(A, P, V, M, H, O, L)
           /\ \A m \in M, l \in L : [c EXCEPT !.mem = m, !.late = l] \in CliRec(A, P, V, M, H, O, L)
           /\ \A h \in H, a \in A : [c EXCEPT !.hex = h, !.at = a] \in CliRec(A, P, V, M, H, O, L)
           /\ \A a \in A : [c EXCEPT !.at = a] \in CliRec(A, P, V, M, H, O, L)
BY Zenon DEF CliRec

\* x is the command with these fields.
IsCli(x, a, p, v, m, h, o, l) ==
    /\ x \in CliType
    /\ x.at = a /\ x.opts = p /\ x.vmas = v /\ x.mem = m /\ x.hex = h /\ x.moved = o /\ x.late = l

\* What the fields of the command are after an update.
LEMMA CliFields ==
    ASSUME NEW c \in CliType
    PROVE  /\ \A o \in BOOLEAN, m \in Mem :
                 IsCli([c EXCEPT !.moved = o, !.mem = m], c.at, c.opts, c.vmas, m, c.hex, o, c.late)
           /\ \A v \in VmaMap, a \in CliAt :
                 IsCli([c EXCEPT !.vmas = v, !.at = a], a, c.opts, v, c.mem, c.hex, c.moved, c.late)
           /\ \A h \in Hex \cup {NULL} :
                 IsCli([c EXCEPT !.hex = h], c.at, c.opts, c.vmas, c.mem, h, c.moved, c.late)
           /\ \A a \in CliAt, p \in SUBSET {"save", "check"}, v \in VmaMap :
                 IsCli([c EXCEPT !.at = a, !.opts = p, !.vmas = v], a, p, v, c.mem, c.hex, c.moved, c.late)
           /\ \A a \in CliAt, m \in Mem :
                 IsCli([c EXCEPT !.at = a, !.mem = m], a, c.opts, c.vmas, m, c.hex, c.moved, c.late)
           /\ \A m \in Mem, l \in BOOLEAN :
                 IsCli([c EXCEPT !.mem = m, !.late = l], c.at, c.opts, c.vmas, m, c.hex, c.moved, l)
           /\ \A h \in Hex \cup {NULL}, a \in CliAt :
                 IsCli([c EXCEPT !.hex = h, !.at = a], a, c.opts, c.vmas, c.mem, h, c.moved, c.late)
           /\ \A a \in CliAt :
                 IsCli([c EXCEPT !.at = a], a, c.opts, c.vmas, c.mem, c.hex, c.moved, c.late)
<1>0. /\ \A o \in BOOLEAN, m \in Mem : [c EXCEPT !.moved = o, !.mem = m] \in CliType
      /\ \A v \in VmaMap, a \in CliAt : [c EXCEPT !.vmas = v, !.at = a] \in CliType
      /\ \A h \in Hex \cup {NULL} : [c EXCEPT !.hex = h] \in CliType
      /\ \A a \in CliAt, p \in SUBSET {"save", "check"}, v \in VmaMap : [c EXCEPT !.at = a, !.opts = p, !.vmas = v] \in CliType
      /\ \A a \in CliAt, m \in Mem : [c EXCEPT !.at = a, !.mem = m] \in CliType
      /\ \A m \in Mem, l \in BOOLEAN : [c EXCEPT !.mem = m, !.late = l] \in CliType
      /\ \A h \in Hex \cup {NULL}, a \in CliAt : [c EXCEPT !.hex = h, !.at = a] \in CliType
      /\ \A a \in CliAt : [c EXCEPT !.at = a] \in CliType
  BY CliUpdated, ZenonT(60) DEF CliType, CliRec
<1>1. ASSUME NEW o \in BOOLEAN, NEW m \in Mem PROVE IsCli([c EXCEPT !.moved = o, !.mem = m], c.at, c.opts, c.vmas, m, c.hex, o, c.late)
  <2>1. [c EXCEPT !.moved = o, !.mem = m] \in CliType
    BY <1>0, Zenon
  <2> QED BY <2>1 DEF IsCli, CliType
<1>2. ASSUME NEW v \in VmaMap, NEW a \in CliAt PROVE IsCli([c EXCEPT !.vmas = v, !.at = a], a, c.opts, v, c.mem, c.hex, c.moved, c.late)
  <2>1. [c EXCEPT !.vmas = v, !.at = a] \in CliType
    BY <1>0, Zenon
  <2> QED BY <2>1 DEF IsCli, CliType
<1>3. ASSUME NEW h \in Hex \cup {NULL} PROVE IsCli([c EXCEPT !.hex = h], c.at, c.opts, c.vmas, c.mem, h, c.moved, c.late)
  <2>1. [c EXCEPT !.hex = h] \in CliType
    BY <1>0, Zenon
  <2> QED BY <2>1 DEF IsCli, CliType
<1>4. ASSUME NEW a \in CliAt, NEW p \in SUBSET {"save", "check"}, NEW v \in VmaMap PROVE IsCli([c EXCEPT !.at = a, !.opts = p, !.vmas = v], a, p, v, c.mem, c.hex, c.moved, c.late)
  <2>1. [c EXCEPT !.at = a, !.opts = p, !.vmas = v] \in CliType
    BY <1>0, Zenon
  <2> QED BY <2>1 DEF IsCli, CliType
<1>5. ASSUME NEW a \in CliAt, NEW m \in Mem PROVE IsCli([c EXCEPT !.at = a, !.mem = m], a, c.opts, c.vmas, m, c.hex, c.moved, c.late)
  <2>1. [c EXCEPT !.at = a, !.mem = m] \in CliType
    BY <1>0, Zenon
  <2> QED BY <2>1 DEF IsCli, CliType
<1>6. ASSUME NEW m \in Mem, NEW l \in BOOLEAN PROVE IsCli([c EXCEPT !.mem = m, !.late = l], c.at, c.opts, c.vmas, m, c.hex, c.moved, l)
  <2>1. [c EXCEPT !.mem = m, !.late = l] \in CliType
    BY <1>0, Zenon
  <2> QED BY <2>1 DEF IsCli, CliType
<1>7. ASSUME NEW h \in Hex \cup {NULL}, NEW a \in CliAt PROVE IsCli([c EXCEPT !.hex = h, !.at = a], a, c.opts, c.vmas, c.mem, h, c.moved, c.late)
  <2>1. [c EXCEPT !.hex = h, !.at = a] \in CliType
    BY <1>0, Zenon
  <2> QED BY <2>1 DEF IsCli, CliType
<1>8. ASSUME NEW a \in CliAt PROVE IsCli([c EXCEPT !.at = a], a, c.opts, c.vmas, c.mem, c.hex, c.moved, c.late)
  <2>1. [c EXCEPT !.at = a] \in CliType
    BY <1>0, Zenon
  <2> QED BY <2>1 DEF IsCli, CliType
<1> QED BY <1>1, <1>2, <1>3, <1>4, <1>5, <1>6, <1>7, <1>8, Zenon

-----------------------------------------------------------------------------
\* A walk over a snapshot: the mapping it is at, and the rest.
LEMMA Walk ==
    ASSUME NEW c, c.vmas \in VmaMap
    PROVE  /\ DOMAIN c.vmas \subseteq Addr /\ \A a \in DOMAIN c.vmas : c.vmas[a] \in Names
           /\ More(c) => Cur(c) \in DOMAIN c.vmas /\ Cur(c) \in Addr /\ Name(c) \in Names /\ Name(c).path \in Path
           /\ Without(c.vmas, Cur(c)) \in VmaMap
<1>1. PICK S \in SUBSET Addr : c.vmas \in [S -> Names]
  BY DEF VmaMap
<1>0. Addr \subseteq Nat
  BY ImageAssumption DEF Addr
<1>2. DOMAIN c.vmas = S /\ S \subseteq Addr /\ S \subseteq Nat /\ \A a \in DOMAIN c.vmas : c.vmas[a] \in Names
  BY <1>0, <1>1, Zenon
<1>3. More(c) => Cur(c) \in DOMAIN c.vmas
  BY <1>2, LeastNat, Zenon DEF More, Cur
<1>4. Without(c.vmas, Cur(c)) \in [S \ {Cur(c)} -> Names] /\ S \ {Cur(c)} \in SUBSET Addr
  BY <1>1, Zenon DEF Without
<1>5. Without(c.vmas, Cur(c)) \in VmaMap
  BY <1>4 DEF VmaMap
<1>6. More(c) => Name(c) \in Names /\ Cur(c) \in Addr
  BY <1>2, <1>3, Zenon DEF Name
<1> QED BY <1>2, <1>3, <1>5, <1>6 DEF Names

\* A snapshot.
LEMMA ShownNames ==
    ASSUME BaselineTypes, NEW a \in Mapped
    PROVE  Shown(a) \in Names /\ Shown(a).path = proc.prog[a].path /\ a \in Addr /\ There(a)
<1>1. a \in Addr /\ There(a)
  BY DEF Mapped
<1>2. proc.prog[a].path \in Path
  BY <1>1, FileThere DEF BaselineTypes
<1> QED BY <1>1, <1>2 DEF Shown, Names

\* What the scanners read from maps.
LEMMA SnapshotMap == BaselineTypes => [a \in Mapped |-> Shown(a)] \in VmaMap
<1> SUFFICES ASSUME BaselineTypes PROVE [a \in Mapped |-> Shown(a)] \in VmaMap
  OBVIOUS
<1>1. [a \in Mapped |-> Shown(a)] \in [Mapped -> Names] /\ Mapped \in SUBSET Addr
  BY ShownNames DEF Mapped
<1> QED BY <1>1 DEF VmaMap

\* What is hashed.
LEMMA HashIs ==
    ASSUME BaselineTypes, NEW a \in Addr, There(a)
    PROVE  Hash(a) \in Hex /\ Hash(a).path = proc.prog[a].path
<1>1. /\ proc # NULL /\ proc \in Image /\ proc.prog[a] # NULL
      /\ proc.prog[a].path \in Path /\ proc.prog[a].part \in Nat
  BY FileThere DEF BaselineTypes
<1>2. /\ Hash(a).path = proc.prog[a].path /\ Hash(a).part = proc.prog[a].part
      /\ Hash(a) \in Contents
  BY <1>1 DEF Hash, Content, Contents, HashWindow, Image
<1>3. proc.prog \in Program
  BY <1>1 DEF Image
<1>4. PartOf(Hash(a).path, Hash(a).part)
  BY <1>1, <1>2, <1>3 DEF PartOf
<1> QED BY <1>2, <1>4 DEF Hex

\* What a step does not touch stays right.
LEMMA CliSame == ASSUME CliOK, UNCHANGED <<proc, base, cli>> PROVE CliOK'
BY DEF CliOK, More, Cur, Name, Seen, Opening, There

\* What differs depends on the process and the baseline files only.
LEMMA DifferingSame == ASSUME UNCHANGED <<proc, base>> PROVE Differing' = Differing
BY DEF Differing, Mapped, There, HasLine, Hash, Content

\* The same for the periodic check.
LEMMA DaemonSame ==
    ASSUME DueDiffers, DaemonOK, UNCHANGED <<proc, base, daemon>> PROVE DueDiffers' /\ DaemonOK'
<1>1. DueDiffers'
  BY DifferingSame DEF DueDiffers
<1>2. DaemonOK'
  BY DEF DaemonOK, More, Cur, Name, Seen, Opening, There
<1> QED BY <1>1, <1>2

\* A step that changes nothing, but for the verdict that is forgotten.
LEMMA NothingChanges ==
    ASSUME BaselineInv, UNCHANGED <<proc, disk, events, base, daemon, cli, saves>>,
           told' = NULL \/ told' = told
    PROVE  BaselineInv'
<1>1. BaselineTypes'
  BY DEF BaselineInv, BaselineTypes
<1>2. Caused'
  BY DEF BaselineInv, Caused, Strange
<1> QED BY <1>1, <1>2, CliSame, DaemonSame DEF BaselineInv

-----------------------------------------------------------------------------
\* The process leaves its program.
LEMMA ProcessLeavesStep == BaselineInv /\ ProcessLeaves => BaselineInv'
<1> SUFFICES ASSUME BaselineInv, ProcessLeaves PROVE BaselineInv'
  OBVIOUS
<1>0. BaselineTypes /\ daemon \in DaemonType /\ cli \in CliType /\ DueDiffers /\ DaemonOK /\ CliOK
  BY DEF BaselineInv, BaselineTypes
<1>1. /\ disk' = disk /\ events' = events + 1 /\ events < MaxEvents /\ told' = NULL
      /\ base' = base /\ saves' = saves /\ proc' \in Image \cup {NULL}
  BY <1>0 DEF ProcessLeaves, Moves, Exec, Exit, Event, Image, BaselineTypes
<1>2. daemon' \in DaemonType /\ DueDiffers' /\ DaemonOK'
  <2>1. CASE daemon.at = "idle"
    <3>1. daemon' = daemon /\ DOMAIN daemon.vmas = {} /\ daemon.due = {}
      BY <1>0, <2>1, Zenon DEF ProcessLeaves, DaemonOK, More, DueDiffers
    <3> QED BY <1>0, <2>1, <3>1 DEF DueDiffers, DaemonOK, More, Seen, Opening
  <2>2. CASE daemon.at # "idle"
    <3>1. PICK m \in Mem : m = IF daemon.mem = "live" THEN "gone" ELSE daemon.mem
      BY <1>0 DEF DaemonType, Mem
    <3>2. IsDaemon(Left(daemon), daemon.at, daemon.vmas, m, daemon.ref, TRUE, daemon.late, daemon.due)
      BY <1>0, <3>1, DaemonFields, Zenon DEF Left
    <3>3. Left(daemon) \in DaemonType /\ {} \in SUBSET Addr
      BY <3>2 DEF IsDaemon
    <3>4. IsDaemon([Left(daemon) EXCEPT !.due = {}], Left(daemon).at, Left(daemon).vmas, Left(daemon).mem,
                   Left(daemon).ref, Left(daemon).moved, Left(daemon).late, {})
      BY <3>3, DaemonFields, Zenon
    <3>5. /\ daemon' \in DaemonType /\ daemon'.at = daemon.at /\ daemon'.vmas = daemon.vmas /\ daemon'.mem = m
          /\ daemon'.ref = daemon.ref /\ daemon'.moved = TRUE /\ daemon'.due = {}
      BY <2>2, <3>2, <3>4 DEF IsDaemon, ProcessLeaves
    <3>6. DueDiffers'
      BY <3>5, Zenon DEF DueDiffers
    <3>7. DaemonOK'
      BY <1>0, <1>1, <2>2, <3>1, <3>5 DEF DaemonOK, More, Cur, Seen, Opening
    <3> QED BY <3>5, <3>6, <3>7
  <2> QED BY <2>1, <2>2, Zenon
<1>3. cli' \in CliType /\ CliOK'
  <2>1. CASE cli.at = "idle"
    <3>1. cli' = cli /\ DOMAIN cli.vmas = {}
      BY <1>0, <2>1 DEF ProcessLeaves, CliOK, More
    <3> QED BY <1>0, <2>1, <3>1 DEF CliOK, More, Seen, Opening
  <2>2. CASE cli.at # "idle"
    <3>1. PICK m \in Mem : m = IF cli.mem = "live" THEN "gone" ELSE cli.mem
      BY <1>0 DEF CliType, Mem
    <3>2. IsCli(cli', cli.at, cli.opts, cli.vmas, m, cli.hex, TRUE, cli.late)
      BY <1>0, <2>2, <3>1, CliFields, Zenon DEF Left, ProcessLeaves
    <3>3. /\ cli' \in CliType /\ cli'.at = cli.at /\ cli'.vmas = cli.vmas /\ cli'.mem = m
          /\ cli'.hex = cli.hex /\ cli'.moved = TRUE /\ cli'.late = cli.late
      BY <3>2, Zenon DEF IsCli
    <3>4. CliOK'
      BY <1>0, <1>1, <2>2, <3>1, <3>3, Zenon DEF CliOK, More, Cur, Name, Seen, Opening
    <3> QED BY <3>3, <3>4
  <2> QED BY <2>1, <2>2, Zenon
<1>4. BaselineTypes'
  BY <1>0, <1>1, <1>2, <1>3, ImageAssumption DEF BaselineTypes
<1>5. Caused'
  BY <1>1 DEF Caused
<1> QED BY <1>2, <1>3, <1>4, <1>5 DEF BaselineInv

\* Where the same program runs, the snapshots are of it as they were.
LEMMA SeenKept ==
    ASSUME NEW moved, NEW vmas, Seen(moved, vmas), \A a : There(a)' = There(a),
           proc # NULL => proc'.prog = proc.prog
    PROVE  ~moved => \A a \in DOMAIN vmas : IF There(a)' THEN proc'.prog[a].path = vmas[a].path ELSE FALSE
BY Zenon DEF Seen, There

\* Bytes of the process change, or a file is replaced.
LEMMA ContentChangesStep == BaselineInv /\ ContentChanges => BaselineInv'
<1> SUFFICES ASSUME BaselineInv, ContentChanges PROVE BaselineInv'
  OBVIOUS
<1>0. BaselineTypes /\ daemon \in DaemonType /\ daemon.due \subseteq Addr /\ DueDiffers /\ DaemonOK /\ CliOK
  BY DEF BaselineInv, BaselineTypes, DaemonType
<1>1. /\ events' = events + 1 /\ events < MaxEvents /\ told' = NULL
      /\ base' = base /\ saves' = saves /\ cli' = cli
  BY DEF ContentChanges, Changes, Patch, Replace, Event
<1>2. /\ proc' \in Image \cup {NULL} /\ disk' \in [Path -> Version]
      /\ (\A a : There(a)' = There(a)) /\ (proc # NULL => proc'.prog = proc.prog)
  <2>1. CASE Changes
    <3>1. disk' = disk
      BY <2>1 DEF Changes, Patch
    <3>2. PICK dirty \in SUBSET (Addr \X Offset) : proc' = [proc EXCEPT !.dirty = dirty]
      BY <2>1 DEF Changes, Patch
    <3>3. proc # NULL /\ proc \in Image
      BY <1>0, <2>1 DEF BaselineTypes, Changes, Patch, There
    <3>4. proc' \in Image /\ proc'.prog = proc.prog
      BY <3>2, <3>3 DEF Image
    <3>5. proc' # NULL
      BY <3>4, ImageAssumption, Zenon DEF Image, Version
    <3> QED BY <1>0, <3>1, <3>3, <3>4, <3>5 DEF There, BaselineTypes
  <2>2. ASSUME NEW path \in Path, Replace(path)
        PROVE  /\ proc' = proc /\ disk' \in [Path -> Version]
    BY <1>0, <2>2, ImageAssumption DEF Replace, Event, BaselineTypes, Version
  <2>3. CASE \E p \in Path : Replace(p)
    <3>1. proc' = proc /\ disk' \in [Path -> Version]
      BY <2>2, <2>3
    <3> QED BY <1>0, <3>1 DEF There, BaselineTypes
  <2> QED BY <2>1, <2>3 DEF ContentChanges
<1>3. PICK due \in SUBSET Addr : due = {a \in daemon.due : <<a, daemon.vmas[a]>> \in Differing'}
  BY <1>0, Zenon
<1>4. IsDaemon(daemon', daemon.at, daemon.vmas, daemon.mem, daemon.ref, daemon.moved, daemon.late, due)
  BY <1>0, <1>3, DaemonFields, Zenon DEF ContentChanges
<1>5. /\ daemon' \in DaemonType /\ daemon'.at = daemon.at /\ daemon'.vmas = daemon.vmas
      /\ daemon'.mem = daemon.mem /\ daemon'.ref = daemon.ref /\ daemon'.moved = daemon.moved
      /\ daemon'.late = daemon.late /\ daemon'.due = due /\ due \subseteq daemon.due
  BY <1>3, <1>4 DEF IsDaemon
<1>6. DueDiffers'
  BY <1>0, <1>3, <1>5, SMTT(30) DEF DueDiffers
<1>7. Seen(daemon.moved, daemon.vmas)' /\ Seen(cli.moved, cli.vmas)'
  <2>1. Seen(daemon.moved, daemon.vmas) /\ Seen(cli.moved, cli.vmas)
    BY <1>0, Zenon DEF DaemonOK, CliOK
  <2>2. ~daemon.moved => \A a \in DOMAIN daemon.vmas :
           IF There(a)' THEN proc'.prog[a].path = daemon.vmas[a].path ELSE FALSE
    BY <1>2, <2>1, SeenKept
  <2>3. ~cli.moved => \A a \in DOMAIN cli.vmas :
           IF There(a)' THEN proc'.prog[a].path = cli.vmas[a].path ELSE FALSE
    BY <1>2, <2>1, SeenKept
  <2>4. Seen(daemon.moved, daemon.vmas)'
    BY <1>5, <2>2, Zenon DEF Seen
  <2>5. Seen(cli.moved, cli.vmas)'
    BY <1>1, <2>3, Zenon DEF Seen
  <2> QED BY <2>4, <2>5, Zenon
<1>8. DaemonOK'
  BY <1>0, <1>1, <1>5, <1>7, Zenon DEF DaemonOK, More, Cur, Name, Opening
<1>9. CliOK'
  BY <1>0, <1>1, <1>7, Zenon DEF CliOK, More, Cur, Name, Opening
<1>10. BaselineTypes'
  BY <1>0, <1>1, <1>2, <1>5, ImageAssumption DEF BaselineTypes
<1> QED BY <1>1, <1>6, <1>8, <1>9, <1>10 DEF BaselineInv, Caused

-----------------------------------------------------------------------------
\* Two hashes that differ are of something overwritten, of two versions or of two files.
LEMMA TwoHashes ==
    ASSUME OnePart, NEW h \in Hex, NEW g \in Hex, h # g
    PROVE  h.dirty # {} \/ g.dirty # {} \/ h.ver # g.ver \/ h.path # g.path
<1> SUFFICES ASSUME h.dirty = {}, g.dirty = {}, h.ver = g.ver, h.path = g.path PROVE FALSE
  OBVIOUS
<1>1. h \in Contents /\ g \in Contents /\ PartOf(h.path, h.part) /\ PartOf(g.path, g.part)
  BY DEF Hex
<1>2. h.part = g.part
  BY <1>1 DEF PartOf, OnePart
<1> QED BY <1>1, <1>2 DEF Contents

\* An alarm over a hash that is of the mapping's file, unless the memory was opened late.
LEMMA AlarmCaused ==
    ASSUME OnePart, NEW hex \in Hex, NEW ref, ref \in Lines \cup {<<>>}, ref # <<>>, ref # <<hex>>,
           NEW path, NEW late, hex.path = path \/ late
    PROVE  \/ hex.dirty # {} \/ ref[1].dirty # {} \/ hex.ver # ref[1].ver
           \/ hex.path # path /\ late
           \/ ref[1].path # path
<1>1. PICK h \in Hex : ref = <<h>>
  BY DEF Lines
<1>2. h # hex /\ ref[1] = h
  BY <1>1
<1>3. hex.dirty # {} \/ h.dirty # {} \/ hex.ver # h.ver \/ hex.path # h.path
  BY <1>2, TwoHashes, Zenon
<1> QED BY <1>2, <1>3

-----------------------------------------------------------------------------
\* Past a mapping that is not due, or no longer, the invariant holds of the others.
LEMMA WalkingOn ==
    ASSUME BaselineInv, More(daemon), UNCHANGED <<proc, disk, events, base, cli, saves>>,
           NEW mem \in Mem, mem = daemon.mem \/ mem = "failed",
           NEW due \in SUBSET daemon.due, Cur(daemon) \notin due, mem \in {"failed", "gone"} => due = {},
           IsDaemon(daemon', "next", Without(daemon.vmas, Cur(daemon)), mem, NULL,
                    daemon.moved, daemon.late, due),
           Caused'
    PROVE  BaselineInv'
<1>0. BaselineTypes /\ daemon \in DaemonType /\ DueDiffers /\ DaemonOK /\ CliOK
  BY Zenon DEF BaselineInv, BaselineTypes
<1>1. /\ daemon' \in DaemonType /\ daemon'.at = "next" /\ daemon'.vmas = Without(daemon.vmas, Cur(daemon))
      /\ daemon'.mem = mem /\ daemon'.moved = daemon.moved /\ daemon'.late = daemon.late /\ daemon'.due = due
  BY Zenon DEF IsDaemon
<1>2. /\ DOMAIN daemon'.vmas = DOMAIN daemon.vmas \ {Cur(daemon)}
      /\ \A a \in DOMAIN daemon'.vmas : daemon'.vmas[a] = daemon.vmas[a]
  BY <1>1 DEF Without
<1>3. DueDiffers'
  BY <1>0, <1>1, <1>2, DifferingSame, Zenon DEF DueDiffers
<1>4. Seen(daemon.moved, daemon.vmas)'
  BY <1>0, <1>1, <1>2, Zenon DEF DaemonOK, Seen, There
<1>5. DaemonOK'
  BY <1>0, <1>1, <1>4, Zenon DEF DaemonOK, Opening
<1>6. CliOK'
  BY <1>0, CliSame, Zenon
<1>7. BaselineTypes'
  BY <1>0, <1>1 DEF BaselineTypes
<1> QED BY <1>3, <1>5, <1>6, <1>7, Zenon DEF BaselineInv

\* The record that passing over a mapping makes.
LEMMA PassedDaemon ==
    ASSUME BaselineTypes, NEW due \in SUBSET Addr, NEW mem \in Mem
    PROVE  LET rest == Without(daemon.vmas, Cur(daemon)) IN
           /\ IsDaemon([Passed(daemon) EXCEPT !.ref = NULL],
                       "next", rest, daemon.mem, NULL, daemon.moved, daemon.late, daemon.due)
           /\ IsDaemon([Passed(daemon) EXCEPT !.ref = NULL, !.due = due],
                       "next", rest, daemon.mem, NULL, daemon.moved, daemon.late, due)
           /\ IsDaemon([Passed(daemon) EXCEPT !.ref = NULL, !.mem = mem, !.due = due],
                       "next", rest, mem, NULL, daemon.moved, daemon.late, due)
           /\ Passed(daemon).due = daemon.due
<1> DEFINE rest == Without(daemon.vmas, Cur(daemon))
<1>1. daemon \in DaemonType /\ rest \in VmaMap /\ "next" \in DaemonAt /\ NULL \in Lines \cup {NULL}
  BY Walk DEF BaselineTypes, DaemonType, DaemonAt
<1>2. Passed(daemon) = [daemon EXCEPT !.vmas = rest, !.at = "next"]
  BY DEF Passed
<1> HIDE DEF rest
<1>a. IsDaemon([daemon EXCEPT !.vmas = rest, !.at = "next"],
               "next", rest, daemon.mem, daemon.ref, daemon.moved, daemon.late, daemon.due)
  BY <1>1, DaemonFields, Zenon
<1>3. IsDaemon(Passed(daemon), "next", rest, daemon.mem, daemon.ref, daemon.moved, daemon.late, daemon.due)
  BY <1>2, <1>a, Zenon
<1>4. PICK c : c = Passed(daemon)
  OBVIOUS
<1>5. /\ c \in DaemonType /\ c.at = "next" /\ c.vmas = rest /\ c.mem = daemon.mem /\ c.moved = daemon.moved
      /\ c.late = daemon.late /\ c.due = daemon.due
  BY <1>3, <1>4 DEF IsDaemon
<1>6. /\ IsDaemon([c EXCEPT !.ref = NULL], c.at, c.vmas, c.mem, NULL, c.moved, c.late, c.due)
      /\ IsDaemon([c EXCEPT !.ref = NULL, !.due = due], c.at, c.vmas, c.mem, NULL, c.moved, c.late, due)
      /\ IsDaemon([c EXCEPT !.ref = NULL, !.mem = mem, !.due = due],
                  c.at, c.vmas, mem, NULL, c.moved, c.late, due)
  BY <1>1, <1>5, DaemonFields, Zenon
<1> QED BY <1>4, <1>5, <1>6 DEF rest

\* A mapping that is not due may be skipped, and any may be excused.
LEMMA SkipStep ==
    ASSUME BaselineInv, More(daemon), (Skip /\ Cur(daemon) \notin daemon.due) \/ Excused
    PROVE  BaselineInv'
<1>0. BaselineTypes /\ daemon.mem \in Mem /\ daemon.due \in SUBSET Addr /\ DaemonOK
  BY DEF BaselineInv, BaselineTypes, DaemonType
<1>1. UNCHANGED <<proc, disk, events, base, cli, saves>> /\ Caused'
  BY Zenon DEF Skip, Excused, DaemonStep, imageVars, Caused
<1>2. CASE Skip /\ Cur(daemon) \notin daemon.due
  <2>1. IsDaemon(daemon', "next", Without(daemon.vmas, Cur(daemon)), daemon.mem, NULL,
                 daemon.moved, daemon.late, daemon.due)
    BY <1>0, <1>2, PassedDaemon, Zenon DEF Skip, DaemonStep
  <2> QED BY <1>0, <1>1, <1>2, <2>1, WalkingOn DEF DaemonOK
<1>3. CASE Excused
  <2>1. PICK due \in SUBSET Addr : due = daemon.due \ {Cur(daemon)}
    BY <1>0, Zenon
  <2>2. Passed(daemon).due = daemon.due
    BY <1>0, PassedDaemon, Zenon
  <2>3. IsDaemon(daemon', "next", Without(daemon.vmas, Cur(daemon)), daemon.mem, NULL,
                 daemon.moved, daemon.late, due)
    BY <1>0, <1>3, <2>1, <2>2, PassedDaemon, Zenon DEF Excused, DaemonStep
  <2>4. due \in SUBSET daemon.due /\ Cur(daemon) \notin due
        /\ (daemon.mem \in {"failed", "gone"} => due = {})
    BY <1>0, <2>1, Zenon DEF DaemonOK
  <2> QED BY <1>0, <1>1, <2>3, <2>4, WalkingOn
<1> QED BY <1>2, <1>3

\* A check that has not begun.
LEMMA DaemonIdleIs == IsDaemon(DaemonIdle, "idle", NoVmas, "closed", NULL, FALSE, FALSE, {})
<1>1. NoVmas \in VmaMap
  <2>1. NoVmas \in [{} -> Names]
    BY SMTT(30) DEF NoVmas
  <2> QED BY <2>1, Zenon DEF VmaMap
<1> QED BY <1>1 DEF IsDaemon, DaemonType, DaemonIdle, DaemonAt, Mem

\* A step of the check leaves the rest right.
LEMMA OnlyDaemon ==
    ASSUME BaselineInv, NEW c, DaemonStep(c), daemon' \in DaemonType, DueDiffers', DaemonOK'
    PROVE  BaselineInv'
<1>1. UNCHANGED <<proc, disk, events, base, cli, saves>> /\ told' = NULL
  BY DEF DaemonStep, imageVars
<1>2. BaselineTypes'
  BY <1>1 DEF BaselineInv, BaselineTypes
<1> QED BY <1>1, <1>2, CliSame, Zenon DEF BaselineInv, Caused

\* The snapshot is taken.
LEMMA BeginStep == BaselineInv /\ Begin => BaselineInv'
<1> SUFFICES ASSUME BaselineInv, Begin PROVE BaselineInv'
  OBVIOUS
<1>0. BaselineTypes
  BY DEF BaselineInv
<1>1. CASE DaemonStep(daemon)
  BY <1>1, NothingChanges DEF DaemonStep, imageVars
<1>2. CASE DaemonStep([DaemonIdle EXCEPT !.at = "next",
                                        !.due = {a \in Mapped : <<a, Shown(a)>> \in Differing},
                                        !.vmas = [a \in Mapped |-> Shown(a)]])
  <2>1. PICK vmas \in VmaMap : vmas = [a \in Mapped |-> Shown(a)]
    BY <1>0, SnapshotMap
  <2>2. PICK due \in SUBSET Addr : due = {a \in Mapped : <<a, Shown(a)>> \in Differing}
    BY Zenon DEF Mapped
  <2>3. DaemonIdle \in DaemonType /\ DaemonIdle.mem = "closed" /\ DaemonIdle.moved = FALSE /\ "next" \in DaemonAt
    BY DaemonIdleIs DEF IsDaemon, DaemonAt
  <2>4. IsDaemon(daemon', "next", vmas, DaemonIdle.mem, DaemonIdle.ref, DaemonIdle.moved, DaemonIdle.late, due)
    BY <1>2, <2>1, <2>2, <2>3, DaemonFields, Zenon DEF DaemonStep
  <2>5. /\ daemon' \in DaemonType /\ daemon'.at = "next" /\ daemon'.vmas = vmas /\ daemon'.mem = "closed"
        /\ daemon'.moved = FALSE /\ daemon'.due = due
    BY <2>3, <2>4 DEF IsDaemon
  <2>6. UNCHANGED <<proc, base>>
    BY <1>2 DEF DaemonStep, imageVars
  <2>7. DueDiffers'
    BY <2>1, <2>2, <2>5, <2>6, DifferingSame, ZenonT(60) DEF DueDiffers
  <2>8. Seen(daemon.moved, daemon.vmas)'
    BY <1>0, <2>1, <2>5, <2>6, ShownNames, ZenonT(60) DEF Seen, There
  <2>9. DaemonOK'
    BY <2>5, <2>8 DEF DaemonOK, Opening
  <2> QED BY <1>2, <2>5, <2>7, <2>9, OnlyDaemon
<1> QED BY <1>1, <1>2 DEF Begin

\* The line of a mapping is read.
LEMMA ReadLineStep == BaselineInv /\ ReadLine => BaselineInv'
<1> SUFFICES ASSUME BaselineInv, ReadLine PROVE BaselineInv'
  OBVIOUS
<1>0. BaselineTypes /\ More(daemon) /\ daemon \in DaemonType /\ DaemonOK /\ DueDiffers /\ daemon.vmas \in VmaMap
  BY DEF BaselineInv, BaselineTypes, ReadLine, DaemonType
<1>1. Cur(daemon) \in DOMAIN daemon.vmas /\ Name(daemon) \in Names
  BY <1>0, Walk, Zenon
<1>2. CASE ~HasLine(Name(daemon)) /\ Skip
  <2>1. Cur(daemon) \notin daemon.due
    BY <1>0, <1>2, Zenon DEF DueDiffers, Differing, Name
  <2> QED BY <1>0, <1>2, <2>1, SkipStep
<1>3. CASE HasLine(Name(daemon)) /\ DaemonStep([daemon EXCEPT !.at = "mem", !.ref = base[Name(daemon)]])
  <2>1. PICK ref \in Lines : ref = base[Name(daemon)] /\ ref # NULL
    BY <1>0, <1>1, <1>3 DEF BaselineTypes, HasLine
  <2>2. "mem" \in DaemonAt /\ ref \in Lines \cup {NULL}
    BY DEF DaemonAt
  <2>3. IsDaemon(daemon', "mem", daemon.vmas, daemon.mem, ref, daemon.moved, daemon.late, daemon.due)
    BY <1>0, <1>3, <2>1, <2>2, DaemonFields, Zenon DEF DaemonStep
  <2>4. /\ daemon' \in DaemonType /\ daemon'.at = "mem" /\ daemon'.vmas = daemon.vmas /\ daemon'.mem = daemon.mem
        /\ daemon'.ref = ref /\ daemon'.moved = daemon.moved /\ daemon'.late = daemon.late
        /\ daemon'.due = daemon.due
    BY <2>3 DEF IsDaemon
  <2>5. UNCHANGED <<proc, base>>
    BY <1>3 DEF DaemonStep, imageVars
  <2>6. DueDiffers'
    BY <1>0, <2>4, <2>5, DifferingSame, ZenonT(60) DEF DueDiffers
  <2>7. DaemonOK'
    BY <1>0, <2>1, <2>4, <2>5 DEF DaemonOK, Opening, Seen, There, More, Cur, Name
  <2> QED BY <1>3, <2>4, <2>6, <2>7, OnlyDaemon
<1> QED BY <1>2, <1>3 DEF ReadLine

\* The memory is open, or the mapping is passed over.
LEMMA OpenMemStep == BaselineInv /\ OpenMem => BaselineInv'
<1> SUFFICES ASSUME BaselineInv, OpenMem PROVE BaselineInv'
  OBVIOUS
<1>0. /\ BaselineTypes /\ More(daemon) /\ daemon \in DaemonType /\ DaemonOK /\ DueDiffers /\ daemon.at = "mem"
      /\ daemon.ref \in Lines /\ daemon.ref # NULL
  BY Zenon DEF BaselineInv, BaselineTypes, OpenMem, DaemonOK
<1>1. CASE daemon.mem = "failed" /\ Skip
  BY <1>0, <1>1, SkipStep, ZenonT(60) DEF DaemonOK
<1>2. CASE DaemonStep([Passed(daemon) EXCEPT !.ref = NULL, !.mem = "failed", !.due = {}])
  <2>1. "failed" \in Mem /\ {} \in SUBSET Addr /\ {} \in SUBSET daemon.due /\ Cur(daemon) \notin {}
    BY DEF Mem
  <2>2. IsDaemon(daemon', "next", Without(daemon.vmas, Cur(daemon)), "failed", NULL,
                 daemon.moved, daemon.late, {})
    BY <1>0, <1>2, <2>1, PassedDaemon, Zenon DEF DaemonStep
  <2>3. UNCHANGED <<proc, disk, events, base, cli, saves>> /\ Caused'
    BY <1>2, Zenon DEF DaemonStep, imageVars, Caused
  <2> QED BY <1>0, <2>1, <2>2, <2>3, WalkingOn, Zenon
<1>3. ASSUME NEW c, DaemonStep(c), NEW mem \in {"live", "gone"}, NEW late \in BOOLEAN,
             IsDaemon(c, "hash", daemon.vmas, mem, daemon.ref, daemon.moved, late, daemon.due),
             mem = "gone" => daemon.due = {}, mem = "live" /\ daemon.moved => late
      PROVE  BaselineInv'
  <2>1. /\ daemon' \in DaemonType /\ daemon'.at = "hash" /\ daemon'.vmas = daemon.vmas /\ daemon'.mem = mem
        /\ daemon'.ref = daemon.ref /\ daemon'.moved = daemon.moved /\ daemon'.late = late
        /\ daemon'.due = daemon.due
    BY <1>3 DEF IsDaemon, DaemonStep
  <2>2. UNCHANGED <<proc, base>>
    BY <1>3 DEF DaemonStep, imageVars
  <2>3. DueDiffers'
    BY <1>0, <2>1, <2>2, DifferingSame, Zenon DEF DueDiffers
  <2>4. DaemonOK'
    BY <1>0, <1>3, <2>1, <2>2 DEF DaemonOK, Opening, Seen, There, More, Cur, Name
  <2> QED BY <1>3, <2>1, <2>3, <2>4, OnlyDaemon, Zenon
<1>4. CASE DaemonStep([Opened(daemon) EXCEPT !.at = "hash"])
  <2>1. "live" \in Mem /\ "hash" \in DaemonAt /\ daemon.moved \in BOOLEAN /\ "live" \in {"live", "gone"}
    BY <1>0 DEF Mem, DaemonAt, DaemonType
  <2>2. IsDaemon(Opened(daemon), daemon.at, daemon.vmas, "live", daemon.ref, daemon.moved, daemon.moved, daemon.due)
    BY <1>0, <2>1, DaemonFields, Zenon DEF Opened
  <2>3. PICK c : c = Opened(daemon)
    BY Zenon
  <2>4. /\ c \in DaemonType /\ c.vmas = daemon.vmas /\ c.mem = "live" /\ c.ref = daemon.ref
        /\ c.moved = daemon.moved /\ c.late = daemon.moved /\ c.due = daemon.due
    BY <2>2, <2>3 DEF IsDaemon
  <2>5. IsDaemon([c EXCEPT !.at = "hash"], "hash", c.vmas, c.mem, c.ref, c.moved, c.late, c.due)
    BY <2>1, <2>4, DaemonFields, Zenon
  <2>6. IsDaemon([c EXCEPT !.at = "hash"], "hash", daemon.vmas, "live", daemon.ref, daemon.moved, daemon.moved, daemon.due)
    BY <2>4, <2>5
  <2> QED BY <1>3, <1>4, <2>1, <2>3, <2>6
<1>5. CASE daemon.mem \in {"live", "gone"} /\ DaemonStep([daemon EXCEPT !.at = "hash"])
  <2>1. "hash" \in DaemonAt /\ daemon.late \in BOOLEAN
    BY <1>0 DEF DaemonAt, DaemonType
  <2>2. IsDaemon([daemon EXCEPT !.at = "hash"],
                 "hash", daemon.vmas, daemon.mem, daemon.ref, daemon.moved, daemon.late, daemon.due)
    BY <1>0, <2>1, DaemonFields, Zenon
  <2>3. (daemon.mem = "gone" => daemon.due = {}) /\ (daemon.mem = "live" /\ daemon.moved => daemon.late)
    BY <1>0, Zenon DEF DaemonOK, Opening
  <2> QED BY <1>3, <1>5, <2>1, <2>2, <2>3
<1> QED BY <1>1, <1>2, <1>4, <1>5 DEF OpenMem

\* What a walk reads is of the file it names, unless the memory was opened late.
LEMMA ReadsItsFile ==
    ASSUME BaselineTypes, NEW c, c.vmas \in VmaMap, More(c), Readable(c), Seen(c.moved, c.vmas),
           Opening(c.mem, c.moved, c.late)
    PROVE  Hash(Cur(c)) \in Hex /\ (Hash(Cur(c)).path = Name(c).path \/ c.late)
<1>1. Cur(c) \in DOMAIN c.vmas /\ Cur(c) \in Addr /\ There(Cur(c)) /\ c.mem = "live"
  BY Walk, Zenon DEF Readable
<1>2. Hash(Cur(c)) \in Hex /\ Hash(Cur(c)).path = proc.prog[Cur(c)].path
  BY <1>1, HashIs, Zenon
<1>3. ~c.moved => proc.prog[Cur(c)].path = Name(c).path
  BY <1>1 DEF Seen, Name
<1> QED BY <1>1, <1>2, <1>3 DEF Opening

\* The mapping is hashed and compared with its line.
LEMMA HashStep == OnePart /\ BaselineInv /\ HashAndCompare => BaselineInv'
<1> SUFFICES ASSUME OnePart, BaselineInv, HashAndCompare PROVE BaselineInv'
  OBVIOUS
<1>0. /\ BaselineTypes /\ More(daemon) /\ daemon \in DaemonType /\ DaemonOK /\ DueDiffers
      /\ daemon.ref \in Lines /\ daemon.vmas \in VmaMap /\ daemon.mem \in Mem /\ daemon.due \subseteq Addr
      /\ (Cur(daemon) \in daemon.due => daemon.ref = base[Name(daemon)]) /\ daemon.mem \in {"live", "gone"}
  BY Zenon DEF BaselineInv, BaselineTypes, HashAndCompare, DaemonOK, DaemonType
<1>1. CASE ~Readable(daemon) /\ Skip
  <2>1. Cur(daemon) \notin daemon.due
    BY <1>0, <1>1, Zenon DEF Readable, DaemonOK, DueDiffers, Differing, Mapped
  <2> QED BY <1>0, <1>1, <2>1, SkipStep
<1>2. CASE Excused
  BY <1>0, <1>2, SkipStep, Zenon
<1>3. CASE /\ Readable(daemon)
           /\ Verdict(daemon, "daemon", Hash(Cur(daemon)), daemon.ref)
           /\ daemon' = [Passed(daemon) EXCEPT !.ref = NULL,
                            !.due = IF told'.alarm THEN @ \ {Cur(daemon)} ELSE @]
           /\ UNCHANGED <<imageVars, base, cli, saves>>
  <2>0. UNCHANGED <<proc, disk, events, base, cli, saves>>
    BY <1>3 DEF imageVars
  <2>1. PICK hex : hex = Hash(Cur(daemon))
    OBVIOUS
  <2>2. hex \in Hex /\ (hex.path = Name(daemon).path \/ daemon.late)
    BY <1>0, <1>3, <2>1, ReadsItsFile DEF DaemonOK
  <2>3. /\ told'.by = "daemon" /\ told'.name = Name(daemon) /\ told'.hex = hex /\ told'.ref = daemon.ref
        /\ told'.alarm = (daemon.ref # <<>> /\ daemon.ref # <<hex>>)
    BY <1>3, <2>1 DEF Verdict
  <2>4. Cur(daemon) \in daemon.due => told'.alarm
    <3> SUFFICES ASSUME Cur(daemon) \in daemon.due PROVE daemon.ref # <<>> /\ daemon.ref # <<hex>>
      BY <2>3, Zenon
    <3>1. HasLine(Name(daemon)) /\ base[Name(daemon)] # <<hex>>
      BY <1>0, <2>1, Zenon DEF DueDiffers, Differing, Name
    <3> QED BY <1>0, <3>1 DEF HasLine
  <2>5. PICK due : due = IF told'.alarm THEN daemon.due \ {Cur(daemon)} ELSE daemon.due
    BY Zenon
  <2>6. due \in SUBSET daemon.due /\ due \in SUBSET Addr /\ Cur(daemon) \notin due
        /\ (daemon.mem \in {"failed", "gone"} => due = {})
    BY <1>0, <2>4, <2>5 DEF DaemonOK
  <2>7. Passed(daemon).due = daemon.due
    BY <1>0, <2>6, PassedDaemon, Zenon
  <2>8. IsDaemon(daemon', "next", Without(daemon.vmas, Cur(daemon)), daemon.mem, NULL,
                 daemon.moved, daemon.late, due)
    BY <1>0, <1>3, <2>5, <2>6, <2>7, PassedDaemon, Zenon
  <2>9. Caused'
    <3> SUFFICES ASSUME told'.alarm
                 PROVE  \/ hex.dirty # {} \/ daemon.ref[1].dirty # {} \/ hex.ver # daemon.ref[1].ver
                        \/ hex.path # Name(daemon).path /\ daemon.late
                        \/ daemon.ref[1].path # Name(daemon).path
      BY <2>3, <2>8 DEF Caused, Strange, IsDaemon
    <3>1. daemon.ref # <<>> /\ daemon.ref # <<hex>> /\ daemon.ref \in Lines \cup {<<>>}
      BY <1>0, <2>3, Zenon
    <3> QED BY <2>2, <3>1, AlarmCaused, Zenon
  <2> QED BY <1>0, <2>0, <2>6, <2>8, <2>9, WalkingOn
<1> QED BY <1>1, <1>2, <1>3 DEF HashAndCompare

\* The check is over.
LEMMA EndOfPass == BaselineInv /\ End => BaselineInv'
<1> SUFFICES ASSUME BaselineInv, End PROVE BaselineInv'
  OBVIOUS
<1>1. /\ daemon' \in DaemonType /\ daemon'.at = "idle" /\ DOMAIN daemon'.vmas = {} /\ daemon'.mem = "closed"
      /\ daemon'.moved = FALSE /\ daemon'.due = {}
  BY DaemonIdleIs, Zenon DEF End, DaemonStep, IsDaemon, NoVmas
<1>2. DueDiffers' /\ DaemonOK'
  BY <1>1, Zenon DEF DueDiffers, DaemonOK, More, Seen, Opening
<1> QED BY <1>1, <1>2, OnlyDaemon DEF End

-----------------------------------------------------------------------------
\* A command that has not begun.
LEMMA CliIdleIs == IsCli(CliIdle, "idle", {}, NoVmas, "closed", NULL, FALSE, FALSE)
<1>1. NoVmas \in VmaMap
  BY DaemonIdleIs DEF IsDaemon, DaemonType
<1> QED BY <1>1 DEF IsCli, CliType, CliIdle, CliAt, Mem

\* A step of the command that writes no file leaves the rest right.
LEMMA OnlyCli ==
    ASSUME BaselineInv, UNCHANGED <<proc, disk, events, base, daemon, saves>>,
           cli' \in CliType, CliOK', Caused'
    PROVE  BaselineInv'
<1>1. BaselineTypes'
  BY DEF BaselineInv, BaselineTypes
<1> QED BY <1>1, DaemonSame DEF BaselineInv

\* The record that passing over a mapping makes.
LEMMA NextVmaIs ==
    ASSUME BaselineTypes
    PROVE  IsCli(NextVma(cli), "next", cli.opts, Without(cli.vmas, Cur(cli)), cli.mem, NULL, cli.moved, cli.late)
<1> DEFINE rest == Without(cli.vmas, Cur(cli))
<1>1. cli \in CliType /\ rest \in VmaMap /\ "next" \in CliAt /\ NULL \in Hex \cup {NULL}
  BY Walk DEF BaselineTypes, CliType, CliAt
<1>2. PICK c : c = [cli EXCEPT !.vmas = rest, !.at = "next"]
  OBVIOUS
<1>3. NextVma(cli) = [c EXCEPT !.hex = NULL]
  BY <1>2 DEF NextVma, Passed
<1> HIDE DEF rest
<1>4. IsCli(c, "next", cli.opts, rest, cli.mem, cli.hex, cli.moved, cli.late)
  BY <1>1, <1>2, CliFields, Zenon
<1>5. /\ c \in CliType /\ c.at = "next" /\ c.opts = cli.opts /\ c.vmas = rest /\ c.mem = cli.mem
      /\ c.moved = cli.moved /\ c.late = cli.late
  BY <1>4 DEF IsCli
<1>6. IsCli([c EXCEPT !.hex = NULL], c.at, c.opts, c.vmas, c.mem, NULL, c.moved, c.late)
  BY <1>1, <1>5, CliFields, Zenon
<1> QED BY <1>3, <1>5, <1>6, Zenon DEF rest

\* Past a mapping the command's part holds of the others.
LEMMA CliWalksOn ==
    ASSUME BaselineTypes, CliOK, UNCHANGED proc, cli' = NextVma(cli)
    PROVE  cli' \in CliType /\ CliOK'
<1>1. /\ cli' \in CliType /\ cli'.at = "next" /\ cli'.vmas = Without(cli.vmas, Cur(cli))
      /\ cli'.mem = cli.mem /\ cli'.moved = cli.moved /\ cli'.late = cli.late
  BY NextVmaIs DEF IsCli
<1>2. /\ DOMAIN cli'.vmas = DOMAIN cli.vmas \ {Cur(cli)}
      /\ \A a \in DOMAIN cli'.vmas : cli'.vmas[a] = cli.vmas[a]
  BY <1>1, Zenon DEF Without
<1>3. Seen(cli.moved, cli.vmas)'
  BY <1>1, <1>2, Zenon DEF CliOK, Seen, There
<1> QED BY <1>1, <1>3, Zenon DEF CliOK, Opening

\* The command takes its snapshot and opens the memory.
LEMMA ScanBeginStep == ASSUME BaselineInv, NEW opts \in SUBSET {"save", "check"}, ScanBegin(opts) PROVE BaselineInv'
<1>0. BaselineTypes
  BY DEF BaselineInv
<1>1. PICK vmas \in VmaMap : vmas = [a \in Mapped |-> Shown(a)]
  BY <1>0, SnapshotMap
<1>2. CliIdle \in CliType /\ CliIdle.mem = "closed" /\ CliIdle.moved = FALSE /\ "open" \in CliAt
  BY CliIdleIs DEF IsCli, CliAt
<1>3. IsCli(cli', "open", opts, vmas, CliIdle.mem, CliIdle.hex, CliIdle.moved, CliIdle.late)
  BY <1>1, <1>2, CliFields, Zenon DEF ScanBegin, CliStep
<1>4. cli' \in CliType /\ cli'.at = "open" /\ cli'.vmas = vmas /\ cli'.mem = "closed" /\ cli'.moved = FALSE
  BY <1>2, <1>3 DEF IsCli
<1>5. UNCHANGED <<proc, disk, events, base, daemon, saves>> /\ told' = NULL
  BY DEF ScanBegin, CliStep, imageVars
<1>6. Seen(cli.moved, cli.vmas)'
  BY <1>0, <1>1, <1>4, <1>5, ShownNames, SMTT(30) DEF Seen, There
<1>7. CliOK'
  BY <1>4, <1>6, Zenon DEF CliOK, Opening
<1> QED BY <1>4, <1>5, <1>7, OnlyCli DEF Caused

\* The scan command opens the memory of the process.
LEMMA ScanOpenStep == BaselineInv /\ ScanOpen => BaselineInv'
<1> SUFFICES ASSUME BaselineInv, ScanOpen PROVE BaselineInv'
  OBVIOUS
<1>0. BaselineTypes /\ cli \in CliType /\ CliOK /\ cli.moved \in BOOLEAN /\ cli.late \in BOOLEAN
  BY DEF BaselineInv, BaselineTypes, CliType
<1>1. UNCHANGED <<proc, disk, events, base, daemon, saves>> /\ told' = NULL
  BY DEF ScanOpen, CliStep, imageVars
<1>2. "failed" \in Mem /\ "live" \in Mem /\ "next" \in CliAt
  BY DEF Mem, CliAt
<1>3. PICK mem \in {"failed", "live"}, late \in BOOLEAN :
        /\ IsCli(cli', "next", cli.opts, cli.vmas, mem, cli.hex, cli.moved, late)
        /\ mem = "live" => late = cli.moved
  <2>1. CASE CliStep([cli EXCEPT !.at = "next", !.mem = "failed"])
    <3>1. IsCli(cli', "next", cli.opts, cli.vmas, "failed", cli.hex, cli.moved, cli.late)
      BY <1>0, <1>2, <2>1, CliFields, Zenon DEF CliStep
    <3> QED BY <1>0, <3>1
  <2>2. CASE CliStep([Opened(cli) EXCEPT !.at = "next"])
    <3>1. PICK c : c = Opened(cli)
      OBVIOUS
    <3>2. IsCli(c, cli.at, cli.opts, cli.vmas, "live", cli.hex, cli.moved, cli.moved)
      BY <1>0, <1>2, <3>1, CliFields, Zenon DEF Opened
    <3>3. /\ c \in CliType /\ c.opts = cli.opts /\ c.vmas = cli.vmas /\ c.mem = "live" /\ c.hex = cli.hex
          /\ c.moved = cli.moved /\ c.late = cli.moved
      BY <3>2 DEF IsCli
    <3>4. IsCli(cli', "next", c.opts, c.vmas, c.mem, c.hex, c.moved, c.late)
      BY <1>2, <2>2, <3>1, <3>3, CliFields, Zenon DEF CliStep
    <3>5. IsCli(cli', "next", cli.opts, cli.vmas, "live", cli.hex, cli.moved, cli.moved)
      BY <3>3, <3>4
    <3> QED BY <1>0, <3>5
  <2> QED BY <2>1, <2>2 DEF ScanOpen
<1>4. /\ cli' \in CliType /\ cli'.at = "next" /\ cli'.vmas = cli.vmas /\ cli'.mem = mem
      /\ cli'.moved = cli.moved /\ cli'.late = late
  BY <1>3, Zenon DEF IsCli
<1>5. CliOK'
  BY <1>0, <1>1, <1>3, <1>4 DEF CliOK, Seen, There, Opening
<1> QED BY <1>1, <1>4, <1>5, OnlyCli, SMTT(30) DEF Caused

\* The command hashes a mapping.
LEMMA ScanHashStep == BaselineInv /\ ScanHash => BaselineInv'
<1> SUFFICES ASSUME BaselineInv, ScanHash PROVE BaselineInv'
  OBVIOUS
<1>0. BaselineTypes /\ cli \in CliType /\ CliOK /\ More(cli) /\ cli.vmas \in VmaMap
  BY DEF BaselineInv, BaselineTypes, CliType, ScanHash
<1>1. UNCHANGED <<proc, disk, events, base, daemon, saves>> /\ told' = NULL
  BY Zenon DEF ScanHash, CliStep, imageVars
<1>2. CASE CliStep(NextVma(cli))
  BY <1>0, <1>1, <1>2, CliWalksOn, OnlyCli, ZenonT(60) DEF CliStep, Caused
<1>3. CASE /\ Readable(cli)
           /\ CliStep([cli EXCEPT !.hex = Hash(Cur(cli)),
                                  !.at = IF "save" \in cli.opts THEN "save" ELSE "check"])
  <2>1. PICK hex \in Hex : hex = Hash(Cur(cli)) /\ (hex.path = Name(cli).path \/ cli.late)
    BY <1>0, <1>3, ReadsItsFile DEF CliOK
  <2>2. PICK at \in {"save", "check"} : at = IF "save" \in cli.opts THEN "save" ELSE "check"
    OBVIOUS
  <2>3. at \in CliAt /\ hex \in Hex \cup {NULL}
    BY DEF CliAt
  <2>4. IsCli(cli', at, cli.opts, cli.vmas, cli.mem, hex, cli.moved, cli.late)
    BY <1>0, <1>3, <2>1, <2>2, <2>3, CliFields, Zenon DEF CliStep
  <2>5. /\ cli' \in CliType /\ cli'.at = at /\ cli'.vmas = cli.vmas /\ cli'.mem = cli.mem /\ cli'.hex = hex
        /\ cli'.moved = cli.moved /\ cli'.late = cli.late
    BY <2>4, ZenonT(60) DEF IsCli
  <2>6. CliOK'
    BY <1>0, <1>1, <2>1, <2>5 DEF CliOK, Seen, There, Opening, More, Cur, Name
  <2> QED BY <1>1, <2>5, <2>6, OnlyCli DEF Caused
<1> QED BY <1>2, <1>3 DEF ScanHash

\* The command moves on within a mapping.
LEMMA CliAtStep ==
    ASSUME BaselineInv, NEW at \in {"write", "check"}, cli' = [cli EXCEPT !.at = at],
           UNCHANGED proc, cli.at \in {"save", "write"},
           at = "write" => base'[Name(cli)] = <<>>
    PROVE  cli' \in CliType /\ CliOK'
<1>1. cli \in CliType /\ at \in CliAt
  BY DEF BaselineInv, BaselineTypes, CliAt
<1>2. IsCli(cli', at, cli.opts, cli.vmas, cli.mem, cli.hex, cli.moved, cli.late)
  BY <1>1, CliFields, Zenon
<1>3. /\ cli' \in CliType /\ cli'.at = at /\ cli'.vmas = cli.vmas /\ cli'.mem = cli.mem /\ cli'.hex = cli.hex
      /\ cli'.moved = cli.moved /\ cli'.late = cli.late
  BY <1>2 DEF IsCli
<1> QED BY <1>3 DEF BaselineInv, CliOK, Seen, There, Opening, More, Cur, Name

\* The command empties a baseline file: nothing of its name is due any more.
LEMMA SaveOpenStep == BaselineInv /\ SaveOpen => BaselineInv'
<1> SUFFICES ASSUME BaselineInv, SaveOpen PROVE BaselineInv'
  OBVIOUS
<1>0. /\ BaselineTypes /\ cli \in CliType /\ CliOK /\ More(cli) /\ cli.vmas \in VmaMap /\ cli.at = "save"
      /\ daemon \in DaemonType /\ daemon.due \subseteq Addr /\ DaemonOK /\ DueDiffers
  BY DEF BaselineInv, BaselineTypes, CliType, SaveOpen, CliOK, DaemonType
<1>1. UNCHANGED <<proc, disk, events>> /\ told' = NULL
  BY Zenon DEF SaveOpen, CliStep, imageVars
<1>2. CASE CliStep(NextVma(cli)) /\ UNCHANGED <<base, saves>>
  BY <1>0, <1>1, <1>2, CliWalksOn, OnlyCli, Zenon DEF CliStep, Caused
<1>3. CASE /\ saves < MaxSaves /\ saves' = saves + 1
           /\ base' = [base EXCEPT ![Name(cli)] = <<>>]
           /\ cli' = [cli EXCEPT !.at = "write"]
           /\ daemon' = [daemon EXCEPT !.due = {a \in @ : <<a, daemon.vmas[a]>> \in Differing'}]
  <2>1. Name(cli) \in Names
    BY <1>0, Walk
  <2>2. /\ base' \in [Names -> Lines \cup {NULL, <<>>}] /\ base'[Name(cli)] = <<>>
        /\ \A n \in Names : n # Name(cli) => base'[n] = base[n]
    BY <1>0, <1>3, <2>1 DEF BaselineTypes
  <2>3. cli' \in CliType /\ CliOK'
    BY <1>0, <1>1, <1>3, <2>2, CliAtStep
  <2>4. PICK due \in SUBSET Addr : due = {a \in daemon.due : <<a, daemon.vmas[a]>> \in Differing'}
    BY <1>0, Zenon
  <2>5. IsDaemon(daemon', daemon.at, daemon.vmas, daemon.mem, daemon.ref, daemon.moved, daemon.late, due)
    BY <1>0, <1>3, <2>4, DaemonFields, Zenon
  <2>6. /\ daemon' \in DaemonType /\ daemon'.at = daemon.at /\ daemon'.vmas = daemon.vmas
        /\ daemon'.mem = daemon.mem /\ daemon'.ref = daemon.ref /\ daemon'.moved = daemon.moved
        /\ daemon'.late = daemon.late /\ daemon'.due = due /\ due \subseteq daemon.due
    BY <2>4, <2>5 DEF IsDaemon
  <2>7. DueDiffers'
    BY <1>0, <2>4, <2>6, Zenon DEF DueDiffers
  <2>8. ASSUME NEW a \in due PROVE base'[daemon.vmas[a]] = base[daemon.vmas[a]]
    <3>1. daemon.vmas[a] \in Names /\ base'[daemon.vmas[a]] # <<>>
      BY <2>4, ZenonT(60) DEF Differing, HasLine
    <3> QED BY <2>2, <3>1
  <2>9. DaemonOK'
    BY <1>0, <1>1, <2>6, <2>8 DEF DaemonOK, Seen, There, Opening, More, Cur, Name
  <2>10. BaselineTypes'
    BY <1>0, <1>1, <1>3, <2>2, <2>3, <2>6, BaselineAssumption, SMTT(30) DEF BaselineTypes
  <2> QED BY <1>1, <2>3, <2>7, <2>9, <2>10, Zenon DEF BaselineInv, Caused
<1> QED BY <1>2, <1>3 DEF SaveOpen

\* The line reaches the file, or does not.
LEMMA SaveCloseStep == BaselineInv /\ SaveClose => BaselineInv'
<1> SUFFICES ASSUME BaselineInv, SaveClose PROVE BaselineInv'
  OBVIOUS
<1>0. /\ BaselineTypes /\ cli \in CliType /\ CliOK /\ More(cli) /\ cli.vmas \in VmaMap /\ cli.at = "write"
      /\ cli.hex \in Hex /\ base[Name(cli)] = <<>> /\ DaemonOK /\ DueDiffers
  BY DEF BaselineInv, BaselineTypes, CliType, SaveClose, CliOK
<1>1. UNCHANGED <<proc, disk, events, daemon, saves>> /\ told' = NULL
  BY Zenon DEF SaveClose, CliStep, imageVars
<1>2. Name(cli) \in Names
  BY <1>0, Walk
<1>3. PICK line \in {<<>>, <<cli.hex>>} : base' = [base EXCEPT ![Name(cli)] = line]
  BY Zenon DEF SaveClose
<1>4. line \in Lines \cup {NULL, <<>>}
  BY <1>0 DEF Lines
<1>5. base' \in [Names -> Lines \cup {NULL, <<>>}] /\ \A n \in Names : n # Name(cli) => base'[n] = base[n]
  BY <1>0, <1>2, <1>3, <1>4 DEF BaselineTypes
<1>6. cli' \in CliType /\ CliOK'
  <2>1. CASE cli' = NextVma(cli)
    BY <1>0, <1>1, <2>1, CliWalksOn
  <2>2. CASE cli' = [cli EXCEPT !.at = "check"]
    BY <1>0, <1>1, <2>2, CliAtStep, Zenon
  <2> QED BY <2>1, <2>2, ZenonT(60) DEF SaveClose, CliStep
<1>7. ASSUME NEW a \in daemon.due PROVE base'[daemon.vmas[a]] = base[daemon.vmas[a]] /\ daemon.vmas[a] \in Names
  <2>1. daemon.vmas[a] \in Names /\ base[daemon.vmas[a]] # <<>>
    BY <1>0, Zenon DEF DueDiffers, Differing, HasLine
  <2> QED BY <1>0, <1>5, <2>1
<1>8. DueDiffers'
  <2>1. Mapped' = Mapped /\ \A a : Hash(a)' = Hash(a)
    BY <1>1, Zenon DEF Mapped, There, Hash, Content
  <2> SUFFICES ASSUME NEW a \in daemon.due PROVE <<a, daemon.vmas[a]>> \in Differing'
    BY <1>0, <1>1, Zenon DEF DueDiffers
  <2>2. PICK name \in Names : name = daemon.vmas[a]
    BY <1>7, Zenon
  <2>3. <<a, name>> \in Differing /\ base'[name] = base[name]
    BY <1>0, <1>7, <2>2, Zenon DEF DueDiffers
  <2>4. a \in Mapped /\ HasLine(name) /\ base[name] # <<Hash(a)>>
    BY <2>3, Zenon DEF Differing
  <2>5. <<a, name>> \in Differing'
    BY <2>1, <2>3, <2>4, Zenon DEF Differing, HasLine
  <2> QED BY <2>2, <2>5, Zenon
<1>9. DaemonOK'
  BY <1>0, <1>1, <1>7, Zenon DEF DaemonOK, Seen, There, Opening, More, Cur, Name
<1>10. BaselineTypes'
  BY <1>0, <1>1, <1>5, <1>6, SMTT(30) DEF BaselineTypes
<1> QED BY <1>1, <1>6, <1>8, <1>9, <1>10, Zenon DEF BaselineInv, Caused

\* The command compares with the line.
LEMMA ScanCheckStep == OnePart /\ BaselineInv /\ ScanCheck => BaselineInv'
<1> SUFFICES ASSUME OnePart, BaselineInv, ScanCheck PROVE BaselineInv'
  OBVIOUS
<1>0. /\ BaselineTypes /\ cli \in CliType /\ CliOK /\ More(cli) /\ cli.vmas \in VmaMap
      /\ cli.hex \in Hex /\ (cli.hex.path = Name(cli).path \/ cli.late)
  BY Zenon DEF BaselineInv, BaselineTypes, CliType, ScanCheck, CliOK
<1>1. UNCHANGED <<proc, disk, events, base, daemon, saves>> /\ cli' = NextVma(cli)
  BY DEF ScanCheck, imageVars
<1>2. cli' \in CliType /\ CliOK'
  BY <1>0, <1>1, CliWalksOn
<1>3. Caused'
  <2>1. CASE told' = NULL
    BY <2>1 DEF Caused
  <2>2. CASE base[Name(cli)] # NULL /\ Verdict(cli, "cli", cli.hex, base[Name(cli)])
    <3>1. PICK ref : ref = base[Name(cli)]
      BY Zenon
    <3>2. ref \in Lines \cup {<<>>}
      BY <1>0, <2>2, <3>1, Walk, Zenon DEF BaselineTypes
    <3>3. /\ told'.by = "cli" /\ told'.name = Name(cli) /\ told'.hex = cli.hex /\ told'.ref = ref
          /\ told'.alarm = (ref # <<>> /\ ref # <<cli.hex>>)
      BY <2>2, <3>1, Zenon DEF Verdict
    <3>4. cli'.late = cli.late
      BY <1>0, <1>1, NextVmaIs, Zenon DEF IsCli
    <3> SUFFICES ASSUME told'.alarm
                 PROVE  \/ cli.hex.dirty # {} \/ ref[1].dirty # {} \/ cli.hex.ver # ref[1].ver
                        \/ cli.hex.path # Name(cli).path /\ cli.late
                        \/ ref[1].path # Name(cli).path
      BY <3>3, <3>4 DEF Caused, Strange
    <3>5. ref # <<>> /\ ref # <<cli.hex>>
      BY <3>3, Zenon
    <3> QED BY <1>0, <3>2, <3>5, AlarmCaused, Zenon
  <2> QED BY <2>1, <2>2 DEF ScanCheck
<1> QED BY <1>1, <1>2, <1>3, OnlyCli, SMTT(30)

\* The command ends, or is killed.
LEMMA ScanEndsStep == BaselineInv /\ ScanEnds => BaselineInv'
<1> SUFFICES ASSUME BaselineInv, ScanEnds PROVE BaselineInv'
  OBVIOUS
<1>1. UNCHANGED <<proc, disk, events, base, daemon, saves>> /\ told' = NULL
  BY DEF ScanEnds, CliStep, imageVars
<1>2. /\ cli' \in CliType /\ cli'.at = "idle" /\ DOMAIN cli'.vmas = {} /\ cli'.mem = "closed"
      /\ cli'.moved = FALSE
  BY CliIdleIs, Zenon DEF ScanEnds, CliStep, IsCli, NoVmas
<1>3. CliOK'
  BY <1>2 DEF CliOK, More, Seen, Opening
<1> QED BY <1>1, <1>2, <1>3, OnlyCli DEF Caused

-----------------------------------------------------------------------------
\* Nothing has been checked at the start.
LEMMA BaselineStart == BaselineInit => BaselineInv
<1> SUFFICES ASSUME BaselineInit PROVE BaselineInv
  OBVIOUS
<1>1. /\ daemon \in DaemonType /\ daemon.at = "idle" /\ DOMAIN daemon.vmas = {} /\ daemon.mem = "closed"
      /\ daemon.moved = FALSE /\ daemon.due = {}
  BY DaemonIdleIs DEF BaselineInit, IsDaemon, NoVmas
<1>2. cli \in CliType /\ cli.at = "idle" /\ DOMAIN cli.vmas = {} /\ cli.mem = "closed" /\ cli.moved = FALSE
  BY CliIdleIs, Zenon DEF BaselineInit, IsCli, NoVmas
<1>3. BaselineTypes
  BY <1>1, <1>2, ImageAssumption, BaselineAssumption, SMTT(30) DEF BaselineTypes, BaselineInit, ImageInit, Version
<1>4. DueDiffers /\ DaemonOK
  BY <1>1 DEF DueDiffers, DaemonOK, More, Seen, Opening
<1>5. CliOK
  BY <1>2 DEF CliOK, More, Seen, Opening
<1> QED BY <1>3, <1>4, <1>5 DEF BaselineInv, Caused, BaselineInit

\* The invariant is inductive.
LEMMA BaselineStep == OnePart /\ BaselineInv /\ [BaselineNext]_baselineVars => BaselineInv'
<1> SUFFICES ASSUME OnePart, BaselineInv, [BaselineNext]_baselineVars PROVE BaselineInv'
  OBVIOUS
<1>1. CASE UNCHANGED baselineVars
  BY <1>1, NothingChanges DEF baselineVars, imageVars
<1>2. CASE \E opts \in (SUBSET {"save", "check"}) \ {{}} : ScanBegin(opts)
  BY <1>2, ScanBeginStep, Zenon
<1> QED
  BY <1>1, <1>2, ProcessLeavesStep, ContentChangesStep, BeginStep, ReadLineStep, OpenMemStep, HashStep,
     EndOfPass, ScanOpenStep, ScanHashStep, SaveOpenStep, SaveCloseStep, ScanCheckStep, ScanEndsStep, Zenon
     DEF BaselineNext

\* What the invariant says of the verdicts.
LEMMA BaselineInvRight == BaselineInv => BaselineVerdictIsRight
<1> SUFFICES ASSUME BaselineInv PROVE BaselineVerdictIsRight
  OBVIOUS
<1>1. BaselineTypes /\ DueDiffers /\ Caused
  BY Zenon DEF BaselineInv
<1>2. ImageTypeOK
  BY <1>1 DEF BaselineTypes, ImageTypeOK, Image, Version
<1>3. daemon.vmas \in VmaMap /\ cli.vmas \in VmaMap
  BY <1>1, Zenon DEF BaselineTypes, DaemonType, CliType
<1>4. DOMAIN daemon.vmas \subseteq Addr /\ DOMAIN cli.vmas \subseteq Addr
  BY <1>3, Walk, SMTT(30)
<1>5. BaselineTypeOK
  BY <1>1, <1>2, <1>4 DEF BaselineTypeOK, BaselineTypes, DaemonType, CliType, DaemonAt, CliAt, Mem
<1>6. ~More(daemon) => daemon.due = {}
  BY <1>1, Zenon DEF DueDiffers, More
<1> QED BY <1>1, <1>5, <1>6 DEF BaselineVerdictIsRight, Caused

\* Where a program maps one part of a file, an alarm about a baseline has a cause, and
\* a mapping that stays different from its line is reported by the pass that finds it
\* so (check_baselines_periodic(), cmd_scan()).
THEOREM BaselineVerdictAlways ==
    ASSUME OnePart PROVE BaselineSpec => []BaselineVerdictIsRight
<1>1. BaselineInit => BaselineInv
  BY BaselineStart
<1>2. BaselineInv /\ [BaselineNext]_baselineVars => BaselineInv'
  BY BaselineStep
<1>3. BaselineInv => BaselineVerdictIsRight
  BY BaselineInvRight
<1> QED BY <1>1, <1>2, <1>3, PTL DEF BaselineSpec
=============================================================================
