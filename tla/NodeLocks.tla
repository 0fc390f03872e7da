------------------------------ MODULE NodeLocks ------------------------------
(***************************************************************************)
(* The handlers of the node service and the in-flight table of its process *)
(* are a keyed mutex, as those of the controller are.  They take their     *)
(* locks in different places: NodePublishVolume and NodeUnpublishVolume    *)
(* first of all, NodeStageVolume and NodeUnstageVolume after they have     *)
(* looked at devices and mounts, NodeExpandVolume never.                   *)
(***************************************************************************)
EXTENDS NodeService

CONSTANT NoLock

ASSUME LocksAssumption == \A v \in Volumes : NoLock # <<Node, v>>

lockOf == [c \in Calls |-> IF Holds(c) THEN <<Node, call[c].vol>> ELSE NoLock]

Mutex == INSTANCE KeyedMutex WITH lock <- lockOf, Replicas <- {Node}, Keys <- Volumes

\* Whatever the CO gives up while it runs, and whatever fails or restarts: no
\* handler gets past Insert while another one is between Insert and its deferred
\* Delete for the same volume, and none ends the lock of another.
ImplementsMutex == Mutex!Spec

=============================================================================
