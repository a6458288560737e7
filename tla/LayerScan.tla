------------------------------ MODULE LayerScan ------------------------------
(***************************************************************************)
(* The implicit Vulkan layers that are active for a process, as             *)
(* ac_scan_active_implicit_layers() in src/src/anticheat_daemon.c finds     *)
(* them: the manifests of the user's directories, when the user is known,   *)
(* and of the system's, each read with a small extractor instead of a JSON  *)
(* parser; then, for those that a variable disables, a look at the          *)
(* environment of the process.  check_implicit_layers_periodic() counts the *)
(* ones it does not know and warns when there are more than the last time.  *)
(* Manifests come and go while it reads; any single lookup may fail.        *)
(*                                                                          *)
(* One process is followed; ProcessWatch has the tables of all of them.     *)
(***************************************************************************)
EXTENDS Integers, Sequences, FiniteSets

CONSTANTS
    UserDirs, SystemDirs,   \* sequences of directories, in the order of the scan
    FileName,               \* names of manifests
    Manifest,               \* what a manifest may say: sequences of [key, kind, text]
    KnownNames,             \* the layer names with a prefix of AC_KNOWN_LAYER_PREFIXES
    EnvVar,
    MAX_LAYERS,             \* AC_MAX_IMPLICIT_LAYERS
    NoText,
    MaxChanges, MaxScans    \* bounds

AllDirs == UserDirs \o SystemDirs
ManifestPath == {<<AllDirs[j], f>> : j \in DOMAIN AllDirs, f \in FileName}

ASSUME LayerAssumption ==
    /\ MAX_LAYERS \in Nat /\ MaxChanges \in Nat /\ MaxScans \in Nat
    /\ \A c \in Manifest : \A j \in DOMAIN c : c[j].kind \in {"string", "object"}

VARIABLES
    files,          \* <<directory, file>> -> content, for the files that exist
    environ,        \* the variables that the process has
    scan,           \* [at, dirs, seen, must, found, active]
    count,          \* the baseline of the process, or -1
    warned,         \* the verdict of the scan that has ended: 0, 1, or -1 for none
    prev, cur,      \* history of the last scan but this and of this one: what
                    \* happened since it began, and how many there were then
    changes, scans

layerVars == <<files, environ, scan, count, warned, prev, cur, changes, scans>>

Closed == [at |-> "idle", dirs |-> <<>>, seen |-> {}, must |-> {}, found |-> <<>>, active |-> <<>>]
History == [events |-> {}, truth |-> 0]

-----------------------------------------------------------------------------
(* What a manifest says                                                       *)
First(S) == CHOOSE j \in S : \A k \in S : j <= k

\* json_extract_string(): of the first key of that name that has a string
Extract(c, key) ==
    LET hits == {j \in DOMAIN c : c[j].key = key /\ c[j].kind = "string"}
    IN  IF hits = {} THEN NoText ELSE c[First(hits)].text

\* json_extract_disable_env(): the first key inside the object; a first mention that
\* is not an object is the end of it.
DisableEnv(c) ==
    LET hits == {j \in DOMAIN c : c[j].key = "disable_environment"}
    IN  IF hits = {} \/ c[First(hits)].kind # "object" THEN NoText ELSE c[First(hits)].text

Layer(c) == [name |-> Extract(c, "name"), disable_env |-> DisableEnv(c)]
Parsed(c) == NoText \notin {Extract(c, "name"), Extract(c, "library_path")}

\* ac_layer_name_known()
Unknown(layer) == layer.name \notin KnownNames

\* What the count is of
Active(layer) == layer.disable_env \notin environ
ActiveUnknown == {f \in DOMAIN files :
    Parsed(files[f]) /\ Unknown(Layer(files[f])) /\ Active(Layer(files[f]))}

-----------------------------------------------------------------------------
(* The world                                                                  *)
Note(e) == cur' = [cur EXCEPT !.events = @ \cup e]
During == IF scan.at = "idle" THEN {} ELSE {"during"}

Change ==
    /\ changes < MaxChanges /\ changes' = changes + 1
    /\ UNCHANGED <<count, warned, prev, scans>>

Install(f, c) ==
    /\ Change
    /\ files' = [g \in DOMAIN files \cup {f} |-> IF g = f THEN c ELSE files[g]]
    /\ Note(During \cup IF Parsed(c) /\ Unknown(Layer(c)) THEN {"installed"} ELSE {})
    /\ UNCHANGED <<environ, scan>>

RemoveFile(f) ==
    /\ Change
    /\ files' = [g \in DOMAIN files \ {f} |-> files[g]]
    /\ scan' = [scan EXCEPT !.must = @ \ {f}]
    /\ Note(During)
    /\ UNCHANGED environ

\* execve()
NewEnviron(vs) ==
    /\ Change
    /\ environ' = vs
    /\ Note(During \cup {"exec"})
    /\ UNCHANGED <<files, scan>>

-----------------------------------------------------------------------------
(* ac_scan_active_implicit_layers()                                           *)
ScanStep(s, e) ==
    /\ scan' = s
    /\ Note(e)
    /\ UNCHANGED <<files, environ, count, warned, prev, changes, scans>>

\* The home directory of the user is found, or is not.
ResolveHome ==
    /\ scan.at = "idle" /\ scans < MaxScans
    /\ scans' = scans + 1
    /\ prev' = cur
    /\ warned' = -1
    /\ \E home \in BOOLEAN :
         /\ scan' = [Closed EXCEPT !.at = "dir", !.dirs = IF home THEN AllDirs ELSE SystemDirs]
         /\ cur' = [events |-> IF home THEN {} ELSE {"missed"}, truth |-> Cardinality(ActiveUnknown)]
    /\ UNCHANGED <<files, environ, count, changes>>

InDir == {f \in DOMAIN files : f[1] = Head(scan.dirs)}
Full == Len(scan.found) >= MAX_LAYERS

\* ac_scan_implicit_layer_dir(): readdir() returns every file that is there all the
\* time once, in an order of its own.
OpenDir ==
    /\ scan.at = "dir" /\ scan.dirs # <<>>
    /\ \/ ScanStep([scan EXCEPT !.dirs = Tail(@)], {"missed"})
       \/ ScanStep([scan EXCEPT !.at = "file", !.seen = {}, !.must = InDir], {})

EndDir ==
    /\ scan.at = "file"
    /\ Full \/ scan.must \subseteq scan.seen
    /\ ScanStep([scan EXCEPT !.at = "dir", !.dirs = Tail(@), !.seen = {}, !.must = {}],
                IF Full THEN {"missed"} ELSE {})

ReadFile(f) ==
    /\ scan.at = "file" /\ ~Full
    /\ LET read == [scan EXCEPT !.seen = @ \cup {f}]
       IN  \/ ScanStep(read, {"missed"})      \* open(), malloc() or read() fails
           \/ /\ ~Parsed(files[f])
              /\ ScanStep(read, {})
           \/ /\ Parsed(files[f])
              /\ ScanStep([read EXCEPT !.found = Append(@, Layer(files[f]))], {})

DirsDone ==
    /\ scan.at = "dir" /\ scan.dirs = <<>>
    /\ ScanStep([scan EXCEPT !.at = "filter"], {})

FilterTrusts ==   \* variant: an environment that cannot be read disables the layer
    /\ scan.at = "filter" /\ scan.found # <<>>
    /\ LET layer == Head(scan.found)
           rest == [scan EXCEPT !.found = Tail(@)]
           kept == [rest EXCEPT !.active = Append(@, layer)]
       IN  \/ layer.disable_env # NoText /\ ScanStep(rest, {"unread"})
           \/ ScanStep(IF Active(layer) THEN kept ELSE rest, {})

\* ac_read_environ_vars() finds the variable, does not, or fails.
Filter ==
    /\ scan.at = "filter" /\ scan.found # <<>>
    /\ LET layer == Head(scan.found)
           rest == [scan EXCEPT !.found = Tail(@)]
           kept == [rest EXCEPT !.active = Append(@, layer)]
       IN  \/ layer.disable_env # NoText /\ ScanStep(kept, {"unread"})
           \/ ScanStep(IF Active(layer) THEN kept ELSE rest, {})

\* check_implicit_layers_periodic(): the first count is the baseline, and so is every
\* later one.
CountUnknown ==
    /\ scan.at = "filter" /\ scan.found = <<>>
    /\ count' = Len(SelectSeq(scan.active, Unknown))
    /\ warned' = IF count = -1 THEN -1 ELSE IF count' > count THEN 1 ELSE 0
    /\ scan' = Closed
    /\ UNCHANGED <<files, environ, prev, cur, changes, scans>>

\* implicit_layer_baseline_forget_stale(): the process was not protected for a while.
Forget ==
    /\ scan.at = "idle" /\ count # -1
    /\ count' = -1 /\ warned' = -1
    /\ UNCHANGED <<files, environ, scan, prev, cur, changes, scans>>

-----------------------------------------------------------------------------
LayerInit ==
    /\ files = [f \in {} |-> <<>>] /\ environ = {}
    /\ scan = Closed /\ count = -1 /\ warned = -1
    /\ prev = History /\ cur = History
    /\ changes = 0 /\ scans = 0

LayerNext ==
    \/ \E f \in ManifestPath, c \in Manifest : Install(f, c)
    \/ \E f \in DOMAIN files : RemoveFile(f)
    \/ \E vs \in SUBSET EnvVar : NewEnviron(vs)
    \/ ResolveHome \/ OpenDir \/ EndDir \/ DirsDone \/ Filter \/ CountUnknown \/ Forget
    \/ \E f \in (IF scan.at = "file" THEN InDir \ scan.seen ELSE {}) : ReadFile(f)

LayerSpec == LayerInit /\ [][LayerNext]_layerVars

-----------------------------------------------------------------------------
\* Every variable keeps its type.
LayerTypeOK ==
    /\ DOMAIN files \subseteq ManifestPath /\ environ \subseteq EnvVar
    /\ scan.at \in {"idle", "dir", "file", "filter"}
    /\ Len(scan.found) <= MAX_LAYERS /\ Len(scan.active) <= MAX_LAYERS
    /\ count \in -1 .. MAX_LAYERS /\ warned \in -1 .. 1

\* A warning means that a layer with an unknown name was installed, or the process
\* executed another program, since the last scan but this began; failing that, the
\* last scan missed a manifest or this one could not read the environment.  No other
\* failure and no other change of the directories raises one.  And when two scans in
\* a row read all that there is to read and nothing changed under them, the second
\* warns exactly if there are more unknown layers active than there were: a scan has
\* no other memory than the count (check_implicit_layers_periodic).
LayerWarningIsRight ==
    /\ LayerTypeOK
    /\ warned = 1 =>
         \/ {"installed", "exec"} \cap (prev.events \cup cur.events) # {}
         \/ "missed" \in prev.events
         \/ "unread" \in cur.events
    /\ warned # -1 /\ {"missed", "unread", "during"} \cap (prev.events \cup cur.events) = {} =>
         (warned = 1 <=> cur.truth > prev.truth)
=============================================================================
