------------------------------ MODULE RenderHook ------------------------------
(***************************************************************************)
(* The render-hook check of src/src/anticheat_daemon.c:                     *)
(* render_hook_statuses_for(), which check_render_hooks_periodic() and      *)
(* `scan --check-hooks' share.  It finds the rendering libraries in a       *)
(* snapshot of the mappings, then for each of them reads a function from    *)
(* the library's file, by name, and the same bytes from the memory of the   *)
(* process, by address, and compares the two.                               *)
(*                                                                          *)
(* All versions of a library have the symbol table dynsym; the values in it *)
(* are file offsets and also offsets from the load address.  Whether        *)
(* elf_find_symbol_offset() makes sense of a file's headers is left open.   *)
(***************************************************************************)
EXTENDS ProcessImage

CONSTANTS
    RENDER_APIS,    \* AC_RENDER_APIS: for each, the paths whose base name has its prefix
    SymTables,      \* what .dynsym may hold: sequences of [name, value, size]
    Present,        \* the name that is looked for
    MIN_BYTES, MAX_BYTES, DEFAULT_BYTES   \* AC_HOOK_CHECK_*

ASSUME HookAssumption ==
    /\ DOMAIN RENDER_APIS \subseteq Nat
    /\ \A k \in DOMAIN RENDER_APIS : RENDER_APIS[k] \subseteq Path
    /\ \A tab \in SymTables : DOMAIN tab \subseteq Nat /\ \A i \in DOMAIN tab :
          tab[i].value \in Nat /\ tab[i].size \in Nat /\ tab[i] # NULL
    /\ MIN_BYTES \in Nat \ {0} /\ MAX_BYTES \in Nat /\ DEFAULT_BYTES \in MIN_BYTES .. MAX_BYTES

VARIABLES
    dynsym,         \* the symbol table
    hook,           \* the check: [at, libs, ref, window], and history
    status          \* of the comparison in the last step: [name, actual, hooked], or NULL

hookVars == <<imageVars, dynsym, hook, status>>

(* libs maps the APIs yet to be looked at to where their library is loaded    *)
(* and its name.  History: moved and replaced say what happened since the     *)
(* snapshot; due holds the bases of the libraries whose function has been     *)
(* overwritten ever since.                                                    *)
NoHook == [at |-> "idle", libs |-> [k \in {} |-> NULL], ref |-> NULL, window |-> {},
           moved |-> FALSE, replaced |-> {}, due |-> {}]

Api == Lowest(DOMAIN hook.libs)
Base == hook.libs[Api].base
Library == hook.libs[Api].path
LibsLeft == DOMAIN hook.libs # {}

\* elf_find_symbol_offset(): the first entry with the name that is defined here
Defined(tab) == {i \in DOMAIN tab : tab[i].name = Present /\ tab[i].value # 0}
elf_find_symbol_offset == IF Defined(dynsym) = {} THEN NULL ELSE dynsym[Lowest(Defined(dynsym))]

\* checklen of compare_render_symbol()
FixedLen(size) == IF size = 0 THEN DEFAULT_BYTES ELSE MIN_BYTES   \* variant: a fixed window

CheckLen(size) ==
    IF size = 0 THEN DEFAULT_BYTES
    ELSE IF size < MIN_BYTES THEN MIN_BYTES
    ELSE IF size > MAX_BYTES THEN MAX_BYTES ELSE size

Window(sym) == sym.value .. sym.value + CheckLen(sym.size) - 1

\* A library defines the function at most once, with enough of the file after it; the
\* loader maps the beginning of a file below the rest of it.
ASSUME LibraryAssumption ==
    /\ \A tab \in SymTables : \A i, j \in Defined(tab) : i = j /\ Window(tab[i]) \subseteq Offset
    /\ \A prog \in Program : \A a \in Addr :
          IF prog[a] = NULL THEN TRUE ELSE prog[a].part # 0 =>
              \E b \in 1 .. a - 1 : IF prog[b] = NULL THEN FALSE ELSE prog[b].path = prog[a].path

\* The part of the function that the check is to cover
Function == {i \in Offset : \E k \in Defined(dynsym) :
    /\ i - dynsym[k].value \in 0 .. dynsym[k].size - 1
    /\ i - dynsym[k].value < MAX_BYTES}
Hooked == {a \in Mapped : \E i \in Function : <<a, i>> \in proc.dirty}

\* find_libs_by_basenames(): the lowest mapping of each library that is loaded
Loaded(k) == {a \in Mapped : proc.prog[a].path \in RENDER_APIS[k]}
Libs == [k \in {j \in DOMAIN RENDER_APIS : Loaded(j) # {}} |->
            [base |-> Lowest(Loaded(k)), path |-> Shown(Lowest(Loaded(k)))]]
Overwritten == {a \in Hooked : \E k \in DOMAIN Libs : Libs[k].base = a /\ ~Libs[k].path.deleted}

-----------------------------------------------------------------------------
HookLeaves ==
    /\ Moves
    /\ hook' = IF hook.at = "idle" THEN hook ELSE [hook EXCEPT !.moved = TRUE, !.due = {}]
    /\ status' = NULL
    /\ UNCHANGED dynsym

HookChanges ==
    /\ Changes
    /\ status' = NULL
    /\ UNCHANGED dynsym
    /\ hook' = [hook EXCEPT !.due = @ \cap Hooked']

\* A file that is replaced is another reference than the one that is mapped.
HookReplaced(path) ==
    /\ Replace(path)
    /\ hook' = IF hook.at = "idle" THEN hook
               ELSE [hook EXCEPT !.replaced = @ \cup {path},
                                 !.due = {a \in @ : proc.prog[a].path # path}]
    /\ status' = NULL
    /\ UNCHANGED dynsym

-----------------------------------------------------------------------------
HookStep(h) ==
    /\ hook' = h
    /\ status' = NULL
    /\ UNCHANGED <<imageVars, dynsym>>

HookPassed == [hook EXCEPT !.libs = [k \in DOMAIN @ \ {Api} |-> @[k]], !.at = "next", !.ref = NULL, !.window = {}]

\* Status -1.  Excused is what the world did not let the check read.
Inconclusive == HookStep(HookPassed)
HookExcused == HookStep([HookPassed EXCEPT !.due = @ \ {Base}])

\* SCAN_BEGIN, SCAN_GET and SCAN_END; without a process every status is -1.
FindLibs ==
    /\ hook.at = "idle"
    /\ \/ proc = NULL /\ HookStep(hook)
       \/ /\ proc # NULL
          /\ HookStep([NoHook EXCEPT !.at = "next", !.libs = Libs, !.due = Overwritten])

\* compare_render_symbol(): the function in the file that has the name now, in the
\* root of whatever process has the number now.  No file is called "... (deleted)".
ReadLib ==
    /\ hook.at = "next" /\ LibsLeft
    /\ \/ (proc = NULL \/ Library.deleted) /\ Inconclusive
       \/ HookExcused      \* unreadable, or not an ELF file
       \/ /\ proc # NULL /\ ~Library.deleted
          /\ LET sym == elf_find_symbol_offset
                 read == IF sym = NULL THEN FALSE ELSE Window(sym) \subseteq Offset
             IN  \/ ~read /\ Inconclusive      \* no such symbol, or a short read
                 \/ read /\ HookStep([hook EXCEPT !.at = "mem", !.ref = disk[Library.path],
                                                  !.window = Window(sym)])

\* Then the bytes at the same offset from the base address, from /proc/<pid>/mem.
ReadMem ==
    /\ hook.at = "mem"
    /\ \/ ~There(Base) /\ Inconclusive
       \/ There(Base) /\ HookExcused      \* the memory cannot be opened or read
       \/ /\ There(Base)
          /\ LET actual == Content(Base, hook.window)
                 hooked == actual # [path |-> Library.path, part |-> 0, ver |-> hook.ref, dirty |-> {}]
             IN  /\ status' = [name |-> Library, actual |-> actual, hooked |-> hooked]
                 /\ hook' = [HookPassed EXCEPT !.due = IF hooked THEN @ \ {Base} ELSE @]
          /\ UNCHANGED <<imageVars, dynsym>>

HookEnd == hook.at = "next" /\ ~LibsLeft /\ HookStep(NoHook)

HookInit ==
    /\ ImageInit
    /\ dynsym \in SymTables
    /\ hook = NoHook /\ status = NULL

HookNext ==
    \/ HookLeaves \/ HookChanges \/ \E p \in Path : HookReplaced(p)
    \/ FindLibs \/ ReadLib \/ ReadMem \/ HookEnd

HookSpec == HookInit /\ [][HookNext]_hookVars

-----------------------------------------------------------------------------
\* Every variable keeps its type.
HookTypeOK ==
    /\ ImageTypeOK
    /\ dynsym \in SymTables
    /\ hook.at \in {"idle", "next", "mem"}
    /\ DOMAIN hook.libs \subseteq DOMAIN RENDER_APIS /\ hook.due \subseteq Addr /\ hook.replaced \subseteq Path

\* "Differs from a freshly-loaded reference copy" means that bytes of the function,
\* or of what follows it in a function too short for the check, were overwritten.
\* Failing that, the library was replaced while the check was under way, or the
\* process executed another program, which has something else there.  Conversely a
\* function that was overwritten when the snapshot was taken, anywhere in its first
\* AC_HOOK_CHECK_MAX_BYTES bytes, and has been ever since is reported by that pass.
HookVerdictIsRight ==
    /\ HookTypeOK
    /\ status # NULL /\ status.hooked =>
         \/ status.actual.dirty # {}
         \/ status.name.path \in hook.replaced
         \/ hook.moved /\ (status.actual.path # status.name.path \/ status.actual.part # 0)
    /\ hook.at = "next" /\ ~LibsLeft => hook.due = {}
=============================================================================
