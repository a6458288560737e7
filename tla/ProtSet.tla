------------------------------- MODULE ProtSet -------------------------------
(***************************************************************************)
(* What the registry of src/src/anticheat_module.c promises to the rest of *)
(* the module: a set of at most Capacity members that changes one member   *)
(* at a time.                                                              *)
(***************************************************************************)
EXTENDS Integers, FiniteSets

CONSTANTS Member, Capacity

VARIABLE members

Init == members = {}

Add(m) ==
    /\ m \notin members
    /\ Cardinality(members) < Capacity
    /\ members' = members \cup {m}

Remove(m) ==
    /\ m \in members
    /\ members' = members \ {m}

Next == \E m \in Member : Add(m) \/ Remove(m)

Spec == Init /\ [][Next]_members
=============================================================================
