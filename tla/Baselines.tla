------------------------------- MODULE Baselines -------------------------------
(***************************************************************************)
(* The hash baselines of src/src/anticheat_daemon.c.  The command            *)
(* `scan --hash --save' (cmd_scan) writes the hash of every executable file  *)
(* mapping of a process to a file named after the mapped path, `--check'     *)
(* compares with it, and so does the daemon's check_baselines_periodic().    *)
(* Both take a snapshot of the mappings first and read files and memory      *)
(* later, step by step.  An open /proc/<pid>/mem stays with the address      *)
(* space it was opened on and reads nothing once that is gone.  The command  *)
(* may be killed at any step.                                                *)
(*                                                                           *)
(* A hash is the record of what was hashed (StreamHash).  A baseline file is *)
(* NULL when it does not exist, <<>> without a line and <<hash>> with one.   *)
(***************************************************************************)
EXTENDS ProcessImage, Sequences

CONSTANTS
    HASH_CAP,       \* AC_HASH_CAP
    MaxSaves        \* bound on the lines the command writes

ASSUME BaselineAssumption == HASH_CAP \in Nat /\ MaxSaves \in Nat

VARIABLES
    base,           \* name -> baseline file
    daemon,         \* the check: [at, vmas, mem, ref], and history
    cli,            \* the command: [at, opts, vmas, mem, hex], and history
    told,           \* the verdict of the last step, or NULL
    saves

baselineVars == <<imageVars, base, daemon, cli, told, saves>>

NoVmas == [a \in {} |-> NULL]

(* vmas maps the mappings yet to be looked at to their names.  History: moved *)
(* says that the process left its program since the snapshot, late that the   *)
(* memory was opened after that, and due holds the mappings that have had     *)
(* another content than the line of their name ever since the snapshot.       *)
DaemonIdle == [at |-> "idle", vmas |-> NoVmas, mem |-> "closed", ref |-> NULL,
               moved |-> FALSE, late |-> FALSE, due |-> {}]
CliIdle == [at |-> "idle", opts |-> {}, vmas |-> NoVmas, mem |-> "closed", hex |-> NULL,
            moved |-> FALSE, late |-> FALSE]

Cur(c) == Lowest(DOMAIN c.vmas)
Name(c) == c.vmas[Cur(c)]
More(c) == DOMAIN c.vmas # {}
Without(f, a) == [b \in DOMAIN f \ {a} |-> f[b]]

\* The bytes of a mapping that hash_proc_mem() is asked for
HashWindow == {i \in Offset : i < HASH_CAP}
Hash(a) == Content(a, HashWindow)

Names == [path : Path, deleted : BOOLEAN]
HasLine(name) == base[name] \notin {NULL, <<>>}
Differing == {m \in Mapped \X Names : HasLine(m[2]) /\ base[m[2]] # <<Hash(m[1])>>}

-----------------------------------------------------------------------------
(* The process and the files change under the check and the command.          *)
Left(c) == [c EXCEPT !.moved = TRUE, !.mem = IF @ = "live" THEN "gone" ELSE @]

ProcessLeaves ==
    /\ Moves
    /\ daemon' = IF daemon.at = "idle" THEN daemon ELSE [Left(daemon) EXCEPT !.due = {}]
    /\ cli' = IF cli.at = "idle" THEN cli ELSE Left(cli)
    /\ told' = NULL
    /\ UNCHANGED <<base, saves>>

ContentChanges ==
    /\ Changes \/ \E p \in Path : Replace(p)
    /\ told' = NULL
    /\ UNCHANGED <<base, cli, saves>>
    /\ daemon' = [daemon EXCEPT !.due = {a \in @ : <<a, daemon.vmas[a]>> \in Differing'}]

-----------------------------------------------------------------------------
(* check_baselines_periodic()                                                 *)
DaemonStep(c) ==
    /\ daemon' = c
    /\ told' = NULL
    /\ UNCHANGED <<imageVars, base, cli, saves>>

Passed(c) == [c EXCEPT !.vmas = Without(@, Cur(c)), !.at = "next"]

\* `continue': the mapping is passed over.  Excused are failures of the world; any
\* other way past a mapping that is due shows in BaselineVerdictIsRight.
Skip == DaemonStep([Passed(daemon) EXCEPT !.ref = NULL])
Excused == DaemonStep([Passed(daemon) EXCEPT !.ref = NULL, !.due = @ \ {Cur(daemon)}])

\* SCAN_BEGIN fails when no process has the number; otherwise SCAN_GET will deliver
\* the mappings.
Begin ==
    /\ daemon.at = "idle"
    /\ \/ proc = NULL /\ DaemonStep(daemon)
       \/ /\ proc # NULL
          /\ DaemonStep([DaemonIdle EXCEPT !.at = "next",
                                           !.due = {a \in Mapped : <<a, Shown(a)>> \in Differing},
                                           !.vmas = [a \in Mapped |-> Shown(a)]])

ReadBreaks ==   \* variant: a mapping without a baseline ends the walk
    /\ daemon.at = "next" /\ More(daemon)
    /\ \/ ~HasLine(Name(daemon)) /\ DaemonStep([daemon EXCEPT !.vmas = NoVmas])
       \/ HasLine(Name(daemon)) /\ DaemonStep([daemon EXCEPT !.at = "mem", !.ref = base[Name(daemon)]])

\* fopen(), fgets() and sscanf(); a mapping without a line is not looked at.
ReadLine ==
    /\ daemon.at = "next" /\ More(daemon)
    /\ \/ ~HasLine(Name(daemon)) /\ Skip
       \/ HasLine(Name(daemon)) /\ DaemonStep([daemon EXCEPT !.at = "mem", !.ref = base[Name(daemon)]])

\* The memory is opened for the first mapping that has a line; a failure is remembered.
Opened(c) == [c EXCEPT !.mem = "live", !.late = c.moved]

OpenMem ==
    /\ daemon.at = "mem"
    /\ \/ daemon.mem = "failed" /\ Skip
       \/ /\ daemon.mem = "closed"
          /\ DaemonStep([Passed(daemon) EXCEPT !.ref = NULL, !.mem = "failed", !.due = {}])
       \/ /\ daemon.mem = "closed" /\ proc # NULL
          /\ DaemonStep([Opened(daemon) EXCEPT !.at = "hash"])
       \/ daemon.mem \in {"live", "gone"} /\ DaemonStep([daemon EXCEPT !.at = "hash"])

\* hash_proc_mem() succeeds on a program that runs and has something mapped there.
Readable(c) == c.mem = "live" /\ There(Cur(c))

Verdict(c, by, hex, ref) ==
    told' = [by |-> by, name |-> Name(c), hex |-> hex, ref |-> ref,
             alarm |-> ref # <<>> /\ ref # <<hex>>]

HashAndCompare ==
    /\ daemon.at = "hash"
    /\ \/ ~Readable(daemon) /\ Skip
       \/ Readable(daemon) /\ Excused      \* a page cannot be read
       \/ /\ Readable(daemon)
          /\ Verdict(daemon, "daemon", Hash(Cur(daemon)), daemon.ref)
          /\ daemon' = [Passed(daemon) EXCEPT !.ref = NULL,
                          !.due = IF told'.alarm THEN @ \ {Cur(daemon)} ELSE @]
          /\ UNCHANGED <<imageVars, base, cli, saves>>

\* SCAN_END and close(mem_fd)
End == daemon.at = "next" /\ ~More(daemon) /\ DaemonStep(DaemonIdle)

-----------------------------------------------------------------------------
(* cmd_scan() with --hash and --save, --check or both                         *)
CliStep(c) ==
    /\ cli' = c
    /\ told' = NULL
    /\ UNCHANGED <<imageVars, daemon>>

NextVma(c) == [Passed(c) EXCEPT !.hex = NULL]

ScanBegin(opts) ==
    /\ cli.at = "idle" /\ proc # NULL
    /\ CliStep([CliIdle EXCEPT !.at = "open", !.opts = opts, !.vmas = [a \in Mapped |-> Shown(a)]])
    /\ UNCHANGED <<base, saves>>

ScanOpen ==
    /\ cli.at = "open"
    /\ \/ CliStep([cli EXCEPT !.at = "next", !.mem = "failed"])
       \/ proc # NULL /\ CliStep([Opened(cli) EXCEPT !.at = "next"])
    /\ UNCHANGED <<base, saves>>

ScanHash ==
    /\ cli.at = "next" /\ More(cli)
    /\ \/ CliStep(NextVma(cli))      \* "hash failed"
       \/ /\ Readable(cli)
          /\ CliStep([cli EXCEPT !.hex = Hash(Cur(cli)),
                                 !.at = IF "save" \in cli.opts THEN "save" ELSE "check"])
    /\ UNCHANGED <<base, saves>>

\* fopen(blpath, "w") empties the file, or fails.
SaveOpen ==
    /\ cli.at = "save"
    /\ \/ CliStep(NextVma(cli)) /\ UNCHANGED <<base, saves>>
       \/ /\ saves < MaxSaves /\ saves' = saves + 1
          /\ base' = [base EXCEPT ![Name(cli)] = <<>>]
          /\ cli' = [cli EXCEPT !.at = "write"]
          /\ told' = NULL
          /\ UNCHANGED imageVars
          /\ daemon' = [daemon EXCEPT !.due = {a \in @ : <<a, daemon.vmas[a]>> \in Differing'}]

\* fclose() writes the line; nothing looks at whether it could.
SaveClose ==
    /\ cli.at = "write"
    /\ \E line \in {<<>>, <<cli.hex>>} : base' = [base EXCEPT ![Name(cli)] = line]
    /\ CliStep(IF "check" \in cli.opts THEN [cli EXCEPT !.at = "check"] ELSE NextVma(cli))
    /\ UNCHANGED saves

\* A file without a line counts as a match.
ScanCheck ==
    /\ cli.at = "check"
    /\ \/ base[Name(cli)] = NULL /\ told' = NULL
       \/ base[Name(cli)] # NULL /\ Verdict(cli, "cli", cli.hex, base[Name(cli)])
    /\ cli' = NextVma(cli)
    /\ UNCHANGED <<imageVars, base, daemon, saves>>

\* The command ends, or is killed: a file that it was writing stays as it is.
ScanEnds ==
    /\ cli.at # "idle"
    /\ CliStep(CliIdle)
    /\ UNCHANGED <<base, saves>>

-----------------------------------------------------------------------------
BaselineInit ==
    /\ ImageInit
    /\ base = [n \in Names |-> NULL]
    /\ daemon = DaemonIdle /\ cli = CliIdle
    /\ told = NULL /\ saves = 0

BaselineNext ==
    \/ ProcessLeaves \/ ContentChanges
    \/ Begin \/ ReadLine \/ OpenMem \/ HashAndCompare \/ End
    \/ \E opts \in (SUBSET {"save", "check"}) \ {{}} : ScanBegin(opts)
    \/ ScanOpen \/ ScanHash \/ SaveOpen \/ SaveClose \/ ScanCheck \/ ScanEnds

BaselineSpec == BaselineInit /\ [][BaselineNext]_baselineVars

-----------------------------------------------------------------------------
\* Every variable keeps its type.
BaselineTypeOK ==
    /\ ImageTypeOK
    /\ DOMAIN base = Names
    /\ daemon.at \in {"idle", "next", "mem", "hash"}
    /\ cli.at \in {"idle", "open", "next", "save", "write", "check"}
    /\ {daemon.mem, cli.mem} \subseteq {"closed", "failed", "live", "gone"}
    /\ DOMAIN daemon.vmas \cup DOMAIN cli.vmas \cup daemon.due \subseteq Addr
    /\ saves \in 0 .. MaxSaves

\* Where the memory was another program's when it was opened, by which time the
\* snapshot was of the past
Strange(hex, c) == hex.path # told.name.path /\ c.late

\* "Memory content differs from saved baseline" has a cause: bytes were overwritten,
\* when the line was saved or now, or the file is another version.  Failing that, the
\* process had executed another program before its memory was opened, by the check
\* or by the command that saved the line.  No other step of the process or of the
\* command, and no save that was cut short, makes a clean process suspect.
\* Conversely a mapping whose content differed from its line when the snapshot was
\* taken, and has done so ever since, is reported by that very pass: whatever the
\* other mappings are and whichever of them has no line, the pass does not end
\* before.  Excused are a memory that cannot be opened and a page that cannot be read.
BaselineVerdictIsRight ==
    /\ BaselineTypeOK
    /\ told # NULL /\ told.alarm =>
         LET ref == told.ref[1]
         IN  \/ told.hex.dirty # {} \/ ref.dirty # {} \/ told.hex.ver # ref.ver
             \/ Strange(told.hex, IF told.by = "daemon" THEN daemon ELSE cli)
             \/ ref.path # told.name.path
    /\ daemon.at = "next" /\ ~More(daemon) => daemon.due = {}

\* One hash per mapping: a process whose memory nobody touched is not reported.
UntouchedMatches ==
    told # NULL /\ told.alarm =>
        \/ told.hex.dirty # {} \/ told.ref[1].dirty # {} \/ told.hex.ver # told.ref[1].ver
        \/ daemon.late \/ cli.late
=============================================================================
