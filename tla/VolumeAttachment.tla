--------------------------- MODULE VolumeAttachment ---------------------------
(***************************************************************************)
(* What the controller promises to one node about the disks attached to    *)
(* it, and all that module NodeService relies on: disks come and go, for   *)
(* instance those CreateDisk passes through its helper; but a disk whose   *)
(* ControllerPublishVolume was answered OK does not go before the CO has   *)
(* asked for that.                                                         *)
(***************************************************************************)
CONSTANT Volumes

VARIABLES
    attached,    \* the disks the node can use
    held         \* the disks the CO holds: published to this node

Init == attached = {} /\ held = {}

Attach(v) ==
    /\ v \notin attached
    /\ attached' = attached \cup {v}
    /\ UNCHANGED held

Detach(v) ==
    /\ v \in attached \ held
    /\ attached' = attached \ {v}
    /\ UNCHANGED held

Hold(v) ==
    /\ v \in attached
    /\ held' = held \cup {v}
    /\ UNCHANGED attached

Release(v) ==
    /\ held' = held \ {v}
    /\ UNCHANGED attached

Next == \E v \in Volumes : Attach(v) \/ Detach(v) \/ Hold(v) \/ Release(v)

Spec == Init /\ [][Next]_<<attached, held>>

=============================================================================
