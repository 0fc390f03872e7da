------------------------------ MODULE NodeHost ------------------------------
(***************************************************************************)
(* The machine a node service runs on: its SCSI slots, the device files    *)
(* the kernel registers for the disks in them, and the mount table.  It    *)
(* is outside the repository and modelled from how pkg/driver/node.go and  *)
(* pkg/driver/mount.go (through k8s.io/mount-utils) use it.                *)
(*                                                                         *)
(* The kernel hears nothing of a disk that is pulled: its device stays     *)
(* until it is removed by hand, and leads to whatever disk is in the slot. *)
(* A name is free again when its device is removed: whether a mount keeps  *)
(* the kernel from using it again is left open.                            *)
(***************************************************************************)
EXTENDS Naturals, Sequences

CONSTANTS
    Volumes,    \* volumes, each the disk it is
    Slots,      \* SCSI slots of the node
    Devs,       \* device names, /dev/sd...
    Targets,    \* places a volume can be published at
    Staging,    \* the place it is staged at
    NoVolume, NoSlot, NoDev

ASSUME NodeHostAssumption ==
    /\ NoVolume \notin Volumes
    /\ NoSlot \notin Slots
    /\ NoDev \notin Devs
    /\ Staging \notin Targets

VARIABLES
    slot,     \* slot[s]: the disk in the slot
    dev,      \* dev[d]: the slot the device was registered for
    mounts    \* mounts[v][p]: what is mounted at a path of v, oldest first

host == <<slot, dev, mounts>>

Places == {Staging} \cup Targets

\* A mount of a disk: the device, and the volume whose data it shows.
Entry == [dev : Devs, vol : Volumes]

\* A bind of a directory nothing is mounted at shows the node's own disk.
RootEntry == [dev |-> NoDev, vol |-> NoVolume]

HostInit ==
    /\ slot = [s \in Slots |-> NoVolume]
    /\ dev = [d \in Devs |-> NoSlot]
    /\ mounts = [v \in Volumes |-> [p \in Places |-> <<>>]]

Attached  == {slot[s] : s \in Slots} \ {NoVolume}
SlotOf(v) == CHOOSE s \in Slots : slot[s] = v

Registered(d) == dev[d] # NoSlot

\* The disk a device leads to.
DiskOf(d) == IF Registered(d) THEN slot[dev[d]] ELSE NoVolume

\* /dev/disk/by-path has a link for the slot.
HasDevice(s) == \E d \in Devs : dev[d] = s

IsMounted(v, p) == mounts[v][p] # <<>>
TopMount(v, p)  == mounts[v][p][Len(mounts[v][p])]

\* The path shows the disk of its volume, through a device that works.
Serves(v, p) ==
    /\ IsMounted(v, p)
    /\ TopMount(v, p).vol = v
    /\ DiskOf(TopMount(v, p).dev) = v

\* findmnt --target shows the mount on top or, of a path that is no mount point,
\* the enclosing one: the node's own disk.
MountSource(v, p) == IF IsMounted(v, p) THEN TopMount(v, p).dev ELSE NoDev

\* mount.GetDeviceNameFromMount takes the first entry of the mount table.
DeviceName(v, p) == IF IsMounted(v, p) THEN mounts[v][p][1].dev ELSE NoDev

\* One device registered by a write to a scan file.
Register(d, s) ==
    /\ slot[s] # NoVolume
    /\ ~HasDevice(s)
    /\ ~Registered(d)
    /\ dev' = [dev EXCEPT ![d] = s]

\* A write to /sys/block/.../device/delete; a missing one is no error.
Unregister(d) == dev' = [dev EXCEPT ![d] = NoSlot]

Push(v, p, entry) ==
    mounts' = [mounts EXCEPT ![v][p] = Append(mounts[v][p], entry)]

\* The mount of a file system succeeds only if there is a disk behind the
\* device, the bind of the device itself whatever is behind it.
MountDevice(v, p, d) ==
    /\ DiskOf(d) # NoVolume
    /\ Push(v, p, [dev |-> d, vol |-> DiskOf(d)])

BindDevice(v, p, d) ==
    /\ Registered(d)
    /\ Push(v, p, [dev |-> d, vol |-> DiskOf(d)])

BindStaging(v, p) ==
    Push(v, p, IF IsMounted(v, Staging) THEN TopMount(v, Staging) ELSE RootEntry)

\* Takes away the mount on top.
PopMount(v, p) ==
    /\ IsMounted(v, p)
    /\ mounts' = [mounts EXCEPT
                    ![v][p] = SubSeq(mounts[v][p], 1, Len(mounts[v][p]) - 1)]

=============================================================================
