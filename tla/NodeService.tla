----------------------------- MODULE NodeService -----------------------------
(***************************************************************************)
(* pkg/driver/node.go: the CSI node service of one node.  A call slot is a *)
(* goroutine of the gRPC server; a step is the code between two            *)
(* interactions with the in-flight table of the process, the devices or    *)
(* the mount table.                                                        *)
(*                                                                         *)
(* The CO (kubelet) has one request per volume at a time, but a request    *)
(* whose deadline has passed goes on in its handler, which never looks at  *)
(* the context, while the CO goes on to the next.  The ghosts are what the *)
(* CO has asked for and was told; no handler reads them.                   *)
(*                                                                         *)
(* Disks come and go as VolumeAttachment allows, which is what the         *)
(* controller guarantees (module ControllerAttachments).                   *)
(***************************************************************************)
EXTENDS NodeHost, InFlight

CONSTANTS
    Node,        \* the process, as a member of Replicas
    Blocks,      \* the volumes used as raw block devices
    Calls,       \* call slots: how many requests run at a time
    LateOps,     \* the requests the CO may give up while they run
    Faults,      \* the failures that happen
    MaxStack     \* bound: mounts on top of each other at a target

Ops        == {"stage", "unstage", "publish", "unpublish", "expand"}
FaultKinds == {"error", "lost", "restart"}

ASSUME NodeAssumption ==
    /\ Node \in Replicas
    /\ Blocks \subseteq Volumes
    /\ LateOps \subseteq Ops
    /\ Faults \subseteq FaultKinds
    /\ MaxStack \in Nat

VARIABLES
    pc,         \* pc[c]: the next step of the handler in slot c
    call,       \* call[c]: its request and its locals
    held,       \* ghost: the volumes the controller has published to the node
    staged,     \* ghost: what the CO knows of the staging path of a volume
    published   \* ghost: what it knows of each target of a volume

handlers == <<pc, call>>
ghosts   == <<held, staged, published>>
vars     == <<host, inFlight, handlers, ghosts>>

Attachment == INSTANCE VolumeAttachment WITH attached <- Attached

Belief == {"no", "maybe", "yes"}

\* slot: from the publish context.  dev: the device the handler has found.
\* late: the CO has given the request up.
CallRecord == [op    : Ops \cup {"none"},
               vol   : Volumes \cup {NoVolume},
               place : Places,
               slot  : Slots \cup {NoSlot},
               dev   : Devs \cup {NoDev},
               late  : BOOLEAN]

NoCall == [op |-> "none", vol |-> NoVolume, place |-> Staging,
           slot |-> NoSlot, dev |-> NoDev, late |-> FALSE]

Request(op, v, p) == [NoCall EXCEPT !.op = op, !.vol = v, !.place = p]

StagePCs   == {"scan", "stageLock", "find", "look", "mount"}
UnstagePCs == {"unstageLook", "unstageLock", "unmount", "remove"}
PublishPCs == {"bind", "findBlock", "bindBlock"}
ExpandPCs  == {"findmnt", "rescan", "resize"}

PCs == {"idle", "unmountTarget"} \cup StagePCs \cup UnstagePCs \cup PublishPCs
         \cup ExpandPCs

\* Between Insert and the deferred Delete.
LockedPCs == {"find", "look", "mount", "unmount", "remove", "unmountTarget"}
               \cup PublishPCs

Running(c) == pc[c] # "idle"
Holds(c)   == pc[c] \in LockedPCs

\* The CO waits for an answer about v.
Waits(v) == \E c \in Calls : Running(c) /\ call[c].vol = v /\ ~call[c].late

-----------------------------------------------------------------------------

Init ==
    /\ HostInit
    /\ NewInFlight
    /\ pc = [c \in Calls |-> "idle"]
    /\ call = [c \in Calls |-> NoCall]
    /\ held = {}
    /\ staged = [v \in Volumes |-> "no"]
    /\ published = [v \in Volumes |-> [t \in Targets |-> "no"]]

Begin(c, req, p) ==
    /\ pc[c] = "idle"
    /\ ~Waits(req.vol)
    /\ pc' = [pc EXCEPT ![c] = p]
    /\ call' = [call EXCEPT ![c] = req]
    /\ UNCHANGED host

\* The handler goes on to p with nothing changed but, maybe, its device.
Goto(c, p, d) ==
    /\ pc' = [pc EXCEPT ![c] = p]
    /\ call' = [call EXCEPT ![c].dev = d]
    /\ UNCHANGED inFlight

\* Mutant of Return: the Delete is deferred before Insert has succeeded.
ReturnUnlocking(c) ==
    /\ pc' = [pc EXCEPT ![c] = "idle"]
    /\ call' = [call EXCEPT ![c] = NoCall]
    /\ Delete(Node, call[c].vol)

Return(c) ==
    /\ pc' = [pc EXCEPT ![c] = "idle"]
    /\ call' = [call EXCEPT ![c] = NoCall]
    /\ IF Holds(c) THEN Delete(Node, call[c].vol) ELSE UNCHANGED inFlight

\* An error is no news to the CO, nor is an answer that is late or lost.
Refuse(c) == Return(c) /\ UNCHANGED ghosts

AnswerOK(c, news) ==
    /\ Return(c)
    /\ \/ ~call[c].late /\ news
       \/ (call[c].late \/ "lost" \in Faults) /\ UNCHANGED ghosts

\* Insert after the request has begun; a busy key is Aborted.
Lock(c, p) ==
    \/ /\ Insert(Node, call[c].vol)
       /\ pc' = [pc EXCEPT ![c] = p]
       /\ UNCHANGED <<call, ghosts>>
    \/ Busy(Node, call[c].vol) /\ Refuse(c)

Believe(v, b) ==
    staged' = [staged EXCEPT ![v] = b] /\ UNCHANGED <<held, published>>

BelieveAt(v, t, b) ==
    published' = [published EXCEPT ![v][t] = b] /\ UNCHANGED <<held, staged>>

-----------------------------------------------------------------------------
(* NodeStageVolume.                                                        *)

\* A volume that was staged may be staged again: the CO still counts on it.
BeginStage(c) ==
    \E v \in held :
        /\ Begin(c, [Request("stage", v, Staging) EXCEPT !.slot = SlotOf(v)], "scan")
        /\ Believe(v, IF staged[v] = "yes" THEN "yes" ELSE "maybe")
        /\ UNCHANGED inFlight

\* scanStorageDevices: one device after the other, of whatever disk is there,
\* its own included, before the lock.  Then a raw block volume is done.
StageScan(c) ==
    /\ pc[c] = "scan"
    /\ \/ /\ \E d \in Devs, s \in Slots : Register(d, s)
          /\ UNCHANGED <<slot, mounts, inFlight, handlers, ghosts>>
       \/ /\ slot[call[c].slot] # NoVolume => HasDevice(call[c].slot)
          /\ IF call[c].vol \in Blocks
               THEN AnswerOK(c, Believe(call[c].vol, "yes"))
               ELSE Goto(c, "stageLock", NoDev) /\ UNCHANGED ghosts
          /\ UNCHANGED host

StageLock(c) ==
    /\ pc[c] = "stageLock"
    /\ Lock(c, "find")
    /\ UNCHANGED host

\* Mutant of FindDevice: an expression without anchors, which other slots match.
FindAnyDevice(c, p) ==
    \/ \E d \in Devs : Registered(d) /\ Goto(c, p, d) /\ UNCHANGED ghosts
    \/ ~HasDevice(call[c].slot) /\ Refuse(c)

\* findDevicePath, from the slot of the publish context.
FindDevice(c, p) ==
    \/ \E d \in Devs : dev[d] = call[c].slot /\ Goto(c, p, d) /\ UNCHANGED ghosts
    \/ ~HasDevice(call[c].slot) /\ Refuse(c)

StageFind(c) ==
    /\ pc[c] = "find"
    /\ FindDevice(c, "look")
    /\ UNCHANGED host

\* The staging path is mounted from the device already, or it is not.
StageLook(c) ==
    /\ pc[c] = "look"
    /\ IF DeviceName(call[c].vol, Staging) = call[c].dev
         THEN AnswerOK(c, Believe(call[c].vol, "yes"))
         ELSE Goto(c, "mount", call[c].dev) /\ UNCHANGED ghosts
    /\ UNCHANGED host

\* FormatAndMount.
StageMount(c) ==
    /\ pc[c] = "mount"
    /\ \/ /\ MountDevice(call[c].vol, Staging, call[c].dev)
          /\ AnswerOK(c, Believe(call[c].vol, "yes"))
       \/ /\ DiskOf(call[c].dev) = NoVolume
          /\ Refuse(c)
          /\ UNCHANGED mounts
    /\ UNCHANGED <<slot, dev>>

-----------------------------------------------------------------------------
(* NodeUnstageVolume.                                                      *)

\* The CO unstages a volume once it is at no target.
BeginUnstage(c) ==
    \E v \in Volumes :
        /\ staged[v] # "no"
        /\ \A t \in Targets : published[v][t] = "no"
        /\ Begin(c, Request("unstage", v, Staging), "unstageLook")
        /\ Believe(v, "maybe")
        /\ UNCHANGED inFlight

\* Mutant of UnstageLook: OK, too, when the device is mounted elsewhere.
UnstageLookUnreferenced(c) ==
    /\ pc[c] = "unstageLook"
    /\ LET d == DeviceName(call[c].vol, Staging)
       IN  IF \E t \in Targets : IsMounted(call[c].vol, t) \/ d = NoDev
             THEN AnswerOK(c, Believe(call[c].vol, "no"))
             ELSE Goto(c, "unstageLock", d) /\ UNCHANGED ghosts
    /\ UNCHANGED host

\* GetDeviceName, before the lock; not mounted is OK.
UnstageLook(c) ==
    /\ pc[c] = "unstageLook"
    /\ IF IsMounted(call[c].vol, Staging)
         THEN /\ Goto(c, "unstageLock", DeviceName(call[c].vol, Staging))
              /\ UNCHANGED ghosts
         ELSE AnswerOK(c, Believe(call[c].vol, "no"))
    /\ UNCHANGED host

UnstageLock(c) ==
    /\ pc[c] = "unstageLock"
    /\ Lock(c, "unmount")
    /\ UNCHANGED host

\* Whatever else refers to the device.  mount-utils takes "not mounted" for
\* success or for an error, depending on the umount of the node.
Unmount(c, p) ==
    \/ PopMount(call[c].vol, call[c].place) /\ p
    \/ /\ ~IsMounted(call[c].vol, call[c].place)
       /\ p \/ Refuse(c)
       /\ UNCHANGED mounts

UnstageUnmount(c) ==
    /\ pc[c] = "unmount"
    /\ Unmount(c, Goto(c, "remove", call[c].dev) /\ UNCHANGED ghosts)
    /\ UNCHANGED <<slot, dev>>

\* removeStorageDevice.
UnstageRemove(c) ==
    /\ pc[c] = "remove"
    /\ Unregister(call[c].dev)
    /\ AnswerOK(c, Believe(call[c].vol, "no"))
    /\ UNCHANGED <<slot, mounts>>

-----------------------------------------------------------------------------
(* NodePublishVolume and NodeUnpublishVolume.                              *)

\* Mutant of BeginPublish: the volume is not locked.
BeginPublishUnlocked(c) ==
    \E v \in Volumes, t \in Targets :
        /\ v \in held /\ staged[v] = "yes"
        /\ Len(mounts[v][t]) < MaxStack
        /\ Begin(c, [Request("publish", v, t) EXCEPT !.slot = SlotOf(v)],
                 IF v \in Blocks THEN "findBlock" ELSE "bind")
        /\ BelieveAt(v, t, IF published[v][t] = "yes" THEN "yes" ELSE "maybe")
        /\ UNCHANGED inFlight

\* Insert comes first.  Nothing asks whether the target is mounted already.
BeginPublish(c) ==
    \E v \in Volumes, t \in Targets :
        /\ v \in held /\ staged[v] = "yes"
        /\ Len(mounts[v][t]) < MaxStack
        /\ Begin(c, [Request("publish", v, t) EXCEPT !.slot = SlotOf(v)],
                 IF v \in Blocks THEN "findBlock" ELSE "bind")
        /\ BelieveAt(v, t, IF published[v][t] = "yes" THEN "yes" ELSE "maybe")
        /\ Insert(Node, v)

\* nodePublishVolumeForFileSystem.
PublishBind(c) ==
    /\ pc[c] = "bind"
    /\ BindStaging(call[c].vol, call[c].place)
    /\ AnswerOK(c, BelieveAt(call[c].vol, call[c].place, "yes"))
    /\ UNCHANGED <<slot, dev>>

\* nodePublishVolumeForBlock.
PublishFindBlock(c) ==
    /\ pc[c] = "findBlock"
    /\ FindDevice(c, "bindBlock")
    /\ UNCHANGED host

PublishBindBlock(c) ==
    /\ pc[c] = "bindBlock"
    /\ \/ /\ BindDevice(call[c].vol, call[c].place, call[c].dev)
          /\ AnswerOK(c, BelieveAt(call[c].vol, call[c].place, "yes"))
       \/ /\ ~Registered(call[c].dev)
          /\ Refuse(c)
          /\ UNCHANGED mounts
    /\ UNCHANGED <<slot, dev>>

BeginUnpublish(c) ==
    \E v \in Volumes, t \in Targets :
        /\ published[v][t] # "no"
        /\ Begin(c, Request("unpublish", v, t), "unmountTarget")
        /\ BelieveAt(v, t, "maybe")
        /\ Insert(Node, v)

UnpublishUnmount(c) ==
    /\ pc[c] = "unmountTarget"
    /\ Unmount(c, AnswerOK(c, BelieveAt(call[c].vol, call[c].place, "no")))
    /\ UNCHANGED <<slot, dev>>

-----------------------------------------------------------------------------
(* NodeExpandVolume, at the staging path or at a target.  It takes no      *)
(* lock.                                                                   *)

BeginExpand(c) ==
    \E v \in Volumes \ Blocks, p \in Places :
        /\ IF p = Staging THEN staged[v] = "yes" ELSE published[v][p] = "yes"
        /\ Begin(c, Request("expand", v, p), "findmnt")
        /\ UNCHANGED <<inFlight, ghosts>>

\* Of a stack of mounts findmnt may show every one: several lines name no device.
ExpandFindmnt(c) ==
    LET v == call[c].vol
        p == call[c].place
    IN  /\ pc[c] = "findmnt"
        /\ \/ Goto(c, "rescan", MountSource(v, p)) /\ UNCHANGED ghosts
           \/ Len(mounts[v][p]) > 1 /\ Refuse(c)
        /\ UNCHANGED host

\* rescanStorageDevice needs the device in /sys/block, where the node's own may
\* be (a disk) or not (a partition).
ExpandRescan(c) ==
    /\ pc[c] = "rescan"
    /\ \E found \in IF call[c].dev = NoDev THEN BOOLEAN ELSE {Registered(call[c].dev)} :
         IF found
           THEN Goto(c, "resize", call[c].dev) /\ UNCHANGED ghosts
           ELSE Refuse(c)
    /\ UNCHANGED host

\* The file system on the device grows; sizes are not part of this module.
ExpandResize(c) ==
    /\ pc[c] = "resize"
    /\ Refuse(c)
    /\ UNCHANGED host

-----------------------------------------------------------------------------
(* Failures.                                                               *)

Fail(c) ==
    /\ "error" \in Faults
    /\ Running(c)
    /\ Refuse(c)
    /\ UNCHANGED host

\* The deadline passes; the handler does not notice.
GiveUp(c) ==
    /\ call[c].op \in LateOps
    /\ ~call[c].late
    /\ call' = [call EXCEPT ![c].late = TRUE]
    /\ UNCHANGED <<pc, host, inFlight, ghosts>>

\* Mounts and devices outlive the process.
Restart ==
    /\ "restart" \in Faults
    /\ Lose(Node)
    /\ pc' = [c \in Calls |-> "idle"]
    /\ call' = [c \in Calls |-> NoCall]
    /\ UNCHANGED <<host, ghosts>>

-----------------------------------------------------------------------------
(* The rest of the world.                                                  *)

AttachDisk(v) ==
    /\ \E s \in Slots : slot[s] = NoVolume /\ slot' = [slot EXCEPT ![s] = v]
    /\ Attachment!Attach(v)
    /\ UNCHANGED <<dev, mounts, inFlight, handlers, staged, published>>

DetachDisk(v) ==
    /\ \E s \in Slots : slot[s] = v /\ slot' = [slot EXCEPT ![s] = NoVolume]
    /\ Attachment!Detach(v)
    /\ UNCHANGED <<dev, mounts, inFlight, handlers, staged, published>>

HoldDisk(v) ==
    /\ UNCHANGED <<host, inFlight, handlers, staged, published>>
    /\ Attachment!Hold(v)

\* The CO lets a volume go when it knows of no place where it is in use.
ReleaseDisk(v) ==
    /\ staged[v] = "no"
    /\ \A t \in Targets : published[v][t] = "no"
    /\ ~Waits(v)
    /\ v \in held
    /\ UNCHANGED <<host, inFlight, handlers, staged, published>>
    /\ Attachment!Release(v)

-----------------------------------------------------------------------------

HandlerStep(c) ==
    \/ StageScan(c) \/ StageLock(c) \/ StageFind(c) \/ StageLook(c) \/ StageMount(c)
    \/ UnstageLook(c) \/ UnstageLock(c) \/ UnstageUnmount(c) \/ UnstageRemove(c)
    \/ PublishBind(c) \/ PublishFindBlock(c) \/ PublishBindBlock(c)
    \/ UnpublishUnmount(c)
    \/ ExpandFindmnt(c) \/ ExpandRescan(c) \/ ExpandResize(c)

BeginAny(c) ==
    \/ BeginStage(c) \/ BeginUnstage(c)
    \/ BeginPublish(c) \/ BeginUnpublish(c)
    \/ BeginExpand(c)

CloudStep(v) == AttachDisk(v) \/ DetachDisk(v) \/ HoldDisk(v) \/ ReleaseDisk(v)

Next ==
    \/ \E c \in Calls : BeginAny(c) \/ HandlerStep(c) \/ Fail(c) \/ GiveUp(c)
    \/ Restart
    \/ \E v \in Volumes : CloudStep(v)

Spec == Init /\ [][Next]_vars

-----------------------------------------------------------------------------
(* Correctness.                                                            *)

\* Types: in particular no path ever shows the node's own disk, as it would
\* if a staging path were bound to a target while nothing is mounted there.
TypeOK ==
    /\ slot \in [Slots -> Volumes \cup {NoVolume}]
    /\ dev \in [Devs -> Slots \cup {NoSlot}]
    /\ mounts \in [Volumes -> [Places -> Seq(Entry)]]
    /\ inFlight \in [Replicas -> SUBSET Volumes]
    /\ pc \in [Calls -> PCs]
    /\ call \in [Calls -> CallRecord]
    /\ held \subseteq Volumes
    /\ staged \in [Volumes -> Belief]
    /\ published \in [Volumes -> [Targets -> Belief]]

\* What NodeStageVolume and NodePublishVolume have answered OK is there until
\* the CO asks for the opposite: the path shows the disk of its own volume,
\* through a device that works, whatever the slots and device names were used
\* for before and whatever other handlers scan, unmount and remove.
OwnDiskServed ==
    \A v \in Volumes :
        /\ staged[v] = "yes" /\ v \notin Blocks => Serves(v, Staging)
        /\ \A t \in Targets : published[v][t] = "yes" => Serves(v, t)

\* A device that a handler has found and is about to mount, remove or resize
\* is none of the node's own and leads to the disk of its volume or to nothing:
\* NodeUnstageVolume reads the name before it has the lock, NodeExpandVolume
\* has none, and names and slots are used again.
DeviceInHandIsOwn ==
    \A c \in Calls :
        pc[c] \in {"look", "mount", "unmount", "remove", "bindBlock", "rescan", "resize"}
          => /\ call[c].dev \in Devs
             /\ DiskOf(call[c].dev) \in {call[c].vol, NoVolume}

\* Requests that have locked a volume exclude each other, whatever fails.
OneHandlerPerVolume ==
    \A c, d \in Calls :
        Holds(c) /\ Holds(d) /\ call[c].vol = call[d].vol => c = d

\* The table has exactly the volumes of the handlers between Insert and their
\* deferred Delete: no way out of a handler leaves a volume locked, or unlocks
\* it for another handler.
NoLockLeft ==
    inFlight[Node] = {call[c].vol : c \in {d \in Calls : Holds(d)}}

\* A volume the CO has released, after NodeUnstageVolume was answered OK, is
\* neither mounted at its staging path nor still worked on by a handler that
\* would mount it.  (A second bind mount may be left at a target, as nothing
\* stops NodePublishVolume from stacking one.)
ReleasedIsUnused ==
    \A v \in Volumes \ held :
        /\ ~IsMounted(v, Staging)
        /\ \A c \in Calls : call[c].vol # v

\* "An operation with the given Volume %s already exists": a request for a volume
\* is told of one in flight.  Hence NodeUnstageVolume answers OK only when no
\* NodeStageVolume of the volume is between its Insert and its return.
UnstageSeesOperation ==
    \A c \in Calls :
        Holds(c) /\ call[c].op = "stage" => staged[call[c].vol] # "no"

=============================================================================
