------------------------------- MODULE MCScans -------------------------------
(***************************************************************************)
(* The checks and commands of the daemon that look at a process, a file or  *)
(* a list while it changes.  They share no state, apart from Baselines and  *)
(* RenderHook which look at the same kind of world, so each is explored     *)
(* alone: a behaviour follows one of them and leaves the others as they     *)
(* started.                                                                 *)
(***************************************************************************)
EXTENDS Baselines, RenderHook, StreamHash, ModuleList, LayerScan, ReportText,
        ProtectCommand

CONSTANTS Parts, game, lib, m1, m2

VARIABLE part

\* Programs: one that maps the library and its own file, one that maps the library
\* where the other has its file; and one that maps two parts of the library.
File(p, k) == [path |-> p, part |-> k]
Programs == {<<File(game, 0), File(lib, 0)>>, <<File(lib, 0), NULL>>}
TwoParts == {<<File(lib, 0), File(lib, 1)>>}

\* AC_RENDER_APIS
Apis == <<{lib}, {game}>>

\* Symbol tables: the function imported and defined, with a size or without, after
\* another function; and a table that only imports it.
Symbol(n, v, k) == [name |-> n, value |-> v, size |-> k]
Imports == <<Symbol("present", 0, 0), Symbol("other", 2, 1)>>
Tables == {Imports} \cup {Append(Imports, Symbol("present", 1, k)) : k \in 0 .. 4}

\* Manifests: of a known layer; of one that can be disabled; one in which an object
\* goes by "name" before the name does; one that names no library.
Key(k, w, t) == [key |-> k, kind |-> w, text |-> t]
Manifests == {
    <<Key("name", "string", "known"), Key("library_path", "string", "so")>>,
    <<Key("name", "string", "new"), Key("library_path", "string", "so"),
      Key("disable_environment", "object", "OFF")>>,
    <<Key("library_path", "string", "so"), Key("name", "object", "x"), Key("name", "string", "new")>>,
    <<Key("name", "string", "new")>>}
Home == <<"home">>
System == <<"etc">>

baselineOwn == <<base, daemon, cli, told, saves>>
hookOwn == <<dynsym, hook, status>>

\* What is not followed starts in one state.
Only(p, S, x) == IF part = p THEN S ELSE {x}

Init ==
    /\ part \in Parts
    /\ dynsym \in Only("hook", SymTables, Imports)
    /\ text \in Only("text", Texts, <<>>)
    /\ concealed \in Only("modules", SUBSET Module, {})
    /\ modules \in Only("modules", Lists, <<InPlace(Own)>>)
    /\ BaselineInit /\ HookInit /\ StreamInit /\ CrossInit /\ LayerInit /\ TextInit /\ ProtectInit

Next ==
    /\ UNCHANGED part
    /\ \/ /\ part = "baselines" /\ BaselineNext
          /\ UNCHANGED <<hookOwn, streamVars, crossVars, layerVars, textVars, protectVars>>
       \/ /\ part = "hook" /\ HookNext
          /\ UNCHANGED <<baselineOwn, streamVars, crossVars, layerVars, textVars, protectVars>>
       \/ /\ part = "stream" /\ StreamNext
          /\ UNCHANGED <<imageVars, baselineOwn, hookOwn, crossVars, layerVars, textVars, protectVars>>
       \/ /\ part = "modules" /\ CrossNext
          /\ UNCHANGED <<imageVars, baselineOwn, hookOwn, streamVars, layerVars, textVars, protectVars>>
       \/ /\ part = "layers" /\ LayerNext
          /\ UNCHANGED <<imageVars, baselineOwn, hookOwn, streamVars, crossVars, textVars, protectVars>>
       \/ /\ part = "text" /\ TextNext
          /\ UNCHANGED <<imageVars, baselineOwn, hookOwn, streamVars, crossVars, layerVars, protectVars>>
       \/ /\ part = "protect" /\ ProtectNext
          /\ UNCHANGED <<imageVars, baselineOwn, hookOwn, streamVars, crossVars, layerVars, textVars>>

vars == <<part, imageVars, baselineOwn, hookOwn, streamVars, crossVars, layerVars, textVars, protectVars>>

Spec == Init /\ [][Next]_vars
=============================================================================
