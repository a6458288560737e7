------------------------------ MODULE MCDevice ------------------------------
(***************************************************************************)
(* Three parts of the module that share no state, on small sets: the event *)
(* ring, the snapshots of an open file, and loading and unloading.  A      *)
(* behaviour is one of one part, so the state spaces add up and do not     *)
(* multiply.                                                               *)
(***************************************************************************)
EXTENDS EventRing, FdSnapshot, ModuleLifecycle

CONSTANT Parts   \* the parts a run explores

VARIABLE part    \* the part the behaviour is of

deviceVars == <<vars, snapshotVars, lifecycleVars, part>>

DeviceInit == part \in Parts /\ Init /\ SnapshotInit /\ LifecycleInit

DeviceNext ==
    /\ UNCHANGED part
    /\ \/ part = "ring" /\ Next /\ UNCHANGED <<snapshotVars, lifecycleVars>>
       \/ part = "snapshot" /\ SnapshotNext /\ UNCHANGED <<vars, lifecycleVars>>
       \/ part = "lifecycle" /\ LifecycleNext /\ UNCHANGED <<vars, snapshotVars>>

DeviceSpec == DeviceInit /\ [][DeviceNext]_deviceVars

DeviceFairSpec == DeviceSpec /\ LifecycleFairness
=============================================================================
