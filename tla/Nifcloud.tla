------------------------------ MODULE Nifcloud ------------------------------
(***************************************************************************)
(* The NIFCLOUD computing API, as far as the driver's cloud client relies  *)
(* on it (pkg/cloud/cloud.go).  The API is a service outside the           *)
(* repository: every operator here is derived from how the client calls it *)
(* and from what the client waits for.                                     *)
(*                                                                         *)
(* A disk is created attached to an instance, so the client detaches it    *)
(* before it is of any use.  Attaching, detaching and resizing take time:  *)
(* the call starts them and the cloud completes them by a step of its own. *)
(* Sizes are counted in the 100-GiB units of the API.                      *)
(***************************************************************************)
EXTENDS Naturals

CONSTANTS
    Volumes,     \* volume identifiers the cloud can hand out
    Names,       \* volume names (kept in the disk's description)
    Instances,   \* virtual machines
    MaxUnits,    \* the largest disk, in 100-GiB units
    NoName, NoInstance

ASSUME NifcloudAssumption ==
    /\ NoName \notin Names
    /\ NoInstance \notin Instances
    /\ MaxUnits \in Nat \ {0}

VARIABLE disk    \* disk[v]: what the cloud knows of volume v

Attachments == {"creating", "attaching", "attached", "resizing", "detaching"}
DiskStates  == Attachments \cup {"unused", "available", "deleted"}

DiskRecord == [st   : DiskStates,
               name : Names \cup {NoName},
               size : 0..MaxUnits,
               inst : Instances \cup {NoInstance}]

NoDisk(st) == [st |-> st, name |-> NoName, size |-> 0, inst |-> NoInstance]

DiskInit == disk = [v \in Volumes |-> NoDisk("unused")]

-----------------------------------------------------------------------------
(* What DescribeVolumes and DescribeInstanceAttribute show.                *)

Exists(v) == disk[v].st \notin {"unused", "deleted"}

\* The volume has an entry in its AttachmentSet.
HasAttachment(v) == disk[v].st \in Attachments

\* The attachment status is "attached".
IsAttached(v) == disk[v].st = "attached"

\* The volume status is "in-use", the attachment being complete.
InUse(v) == disk[v].st \in {"attached", "resizing"}

IsAvailable(v) == disk[v].st = "available"

\* The block device mapping of instance n lists v: the driver takes an entry
\* of the mapping for a usable device.
Mapped(v, n) == InUse(v) /\ disk[v].inst = n

DisksNamed(nm) == {v \in Volumes : Exists(v) /\ disk[v].name = nm}

-----------------------------------------------------------------------------
(* The calls that change a disk.  A call that is not enabled is refused.   *)

\* CreateVolume: the new disk is being attached to instance n.
CreateVolume(v, nm, n, s) ==
    /\ disk[v].st = "unused"
    /\ disk' = [disk EXCEPT ![v] =
                  [st |-> "creating", name |-> nm, size |-> s, inst |-> n]]

AttachVolume(v, n) ==
    /\ IsAvailable(v)
    /\ disk' = [disk EXCEPT ![v].st = "attaching", ![v].inst = n]

CanDetach(v, n) == IsAttached(v) /\ disk[v].inst = n

DetachVolume(v, n) ==
    /\ CanDetach(v, n)
    /\ disk' = [disk EXCEPT ![v].st = "detaching"]

DeleteVolume(v) ==
    /\ IsAvailable(v)
    /\ disk' = [disk EXCEPT ![v] = NoDisk("deleted")]

CanExtend(v) == (IsAttached(v) \/ IsAvailable(v)) /\ disk[v].size < MaxUnits

\* ExtendVolumeSize grows a disk by one unit; an attached disk is resizing
\* meanwhile.
ExtendVolumeSize(v) ==
    /\ CanExtend(v)
    /\ disk' = IF IsAttached(v)
                  THEN [disk EXCEPT ![v].st = "resizing"]
                  ELSE [disk EXCEPT ![v].size = disk[v].size + 1]

-----------------------------------------------------------------------------
(* What the cloud completes on its own.                                    *)

AttachCompletes(v) ==
    /\ disk[v].st \in {"creating", "attaching"}
    /\ disk' = [disk EXCEPT ![v].st = "attached"]

DetachCompletes(v) ==
    /\ disk[v].st = "detaching"
    /\ disk' = [disk EXCEPT ![v].st = "available", ![v].inst = NoInstance]

ResizeCompletes(v) ==
    /\ disk[v].st = "resizing"
    /\ disk' = [disk EXCEPT ![v].st = "attached", ![v].size = disk[v].size + 1]

=============================================================================
