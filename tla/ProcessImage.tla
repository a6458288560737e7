----------------------------- MODULE ProcessImage -----------------------------
(***************************************************************************)
(* What the memory checks of src/src/anticheat_daemon.c look at: the process *)
(* that has a number, its file mappings as SCAN_BEGIN shows them, and the    *)
(* files themselves.  It is the world around the checks: the process         *)
(* executes another program, exits and hands its number on, bytes of it are  *)
(* overwritten and restored, a package update replaces a file.               *)
(*                                                                           *)
(* A mapping is PartLen bytes at an address, of which `dirty' were           *)
(* overwritten.  One number is followed: checks of two share nothing.        *)
(***************************************************************************)
EXTENDS Integers

CONSTANTS
    Path, NULL,
    MaxAddr,        \* mappings start at addresses 1 .. MaxAddr
    Program,        \* programs: address -> [path, part] of a file, or NULL
    PartLen,        \* bytes of a mapping
    MaxVersion,     \* bound on the versions of a file
    MaxEvents       \* bound on the steps of this module

Addr == 1 .. MaxAddr
Offset == 0 .. PartLen - 1

ASSUME ImageAssumption ==
    /\ MaxAddr \in Nat /\ PartLen \in Nat \ {0} /\ MaxVersion \in Nat \ {0} /\ MaxEvents \in Nat
    /\ Program \subseteq [Addr -> [path : Path, part : Nat] \cup {NULL}]
    /\ NULL \notin [prog : Program, ver : [Path -> 1 .. MaxVersion], dirty : SUBSET (Addr \X Offset)]

VARIABLES
    proc,           \* what has the number: [prog, ver, dirty], or NULL
    disk,           \* path -> version of the file
    events          \* how many steps of this module were taken

imageVars == <<proc, disk, events>>

There(a) == IF proc = NULL THEN FALSE ELSE proc.prog[a] # NULL
Mapped == {a \in Addr : There(a)}
Lowest(S) == CHOOSE a \in S : \A b \in S : a <= b

\* The name of a mapping, by d_path(): that of a file which was replaced is marked.
Shown(a) ==
    LET path == proc.prog[a].path
    IN  [path |-> path, deleted |-> proc.ver[path] # disk[path]]

\* What is read at the bytes `window' of the mapping at a
Content(a, window) ==
    [path |-> proc.prog[a].path, part |-> proc.prog[a].part,
     ver |-> proc.ver[proc.prog[a].path], dirty |-> {i \in window : <<a, i>> \in proc.dirty}]

-----------------------------------------------------------------------------
Event == events < MaxEvents /\ events' = events + 1

\* execve(), or a new process that gets the number
Exec(prog) ==
    /\ Event
    /\ proc' = [prog |-> prog, ver |-> disk, dirty |-> {}]
    /\ UNCHANGED disk

Exit ==
    /\ Event /\ proc # NULL
    /\ proc' = NULL
    /\ UNCHANGED disk

\* A byte of a mapping is overwritten, or gets its old value back.
Patch(a, i) ==
    /\ Event /\ There(a)
    /\ \/ proc.dirty = {} /\ proc' = [proc EXCEPT !.dirty = {<<a, i>>}]
       \/ proc.dirty = {<<a, i>>} /\ proc' = [proc EXCEPT !.dirty = {}]
    /\ UNCHANGED disk

\* A package update puts another file in the place of path.
Replace(path) ==
    /\ Event /\ disk[path] < MaxVersion
    /\ disk' = [disk EXCEPT ![path] = @ + 1]
    /\ UNCHANGED proc

\* The address space becomes another one; it stays and its content changes.
Moves == (\E prog \in Program : Exec(prog)) \/ Exit
Changes == \E a \in Addr, i \in Offset : Patch(a, i)

ImageInit == proc = NULL /\ disk = [p \in Path |-> 1] /\ events = 0

ImageTypeOK ==
    /\ proc # NULL => /\ proc.prog \in Program /\ proc.ver \in [Path -> 1 .. MaxVersion]
                      /\ proc.dirty \subseteq Addr \X Offset
    /\ disk \in [Path -> 1 .. MaxVersion] /\ events \in 0 .. MaxEvents
=============================================================================
