-------------------------- MODULE ControllerService --------------------------
(***************************************************************************)
(* pkg/driver/controller.go: the CSI controller service, with the calls    *)
(* its handlers make through pkg/cloud/cloud.go, running as one or more    *)
(* replicas against one NIFCLOUD account.                                  *)
(*                                                                         *)
(* A call slot is a goroutine of the gRPC server.  Each of its steps is    *)
(* the code between two interactions with shared state: the in-flight      *)
(* table of its replica, or one request to the cloud.  Steps of different  *)
(* slots, of the cloud, and failures interleave freely.                    *)
(*                                                                         *)
(* The three ghosts record what the container orchestrator (CO) may hold   *)
(* the driver to; no handler reads them.                                   *)
(***************************************************************************)
EXTENDS CloudClient, InFlight

CONSTANTS
    Calls,        \* call slots: how many requests run at a time
    Strangers,    \* node names that are no instance of the account
    Leaders,      \* Leaders[sidecar]: replicas that may receive its calls
    Ops,          \* the requests the CO issues
    Faults,       \* the failures that happen
    CreateSizes,  \* sizes asked for at creation, in units
    ExpandSizes,  \* sizes asked for at expansion, in units
    MaxExpands,   \* bound: expansions asked for per volume
    NoVolume

Operations == {"create", "delete", "publish", "unpublish", "expand"}
Sidecars   == {"provisioner", "attacher", "resizer"}
FaultKinds == {"timeout", "api", "late", "restart"}

ASSUME ControllerAssumption ==
    /\ Leaders \in [Sidecars -> SUBSET Replicas]
    /\ Ops \subseteq Operations
    /\ Faults \subseteq FaultKinds
    /\ CreateSizes \subseteq 1..MaxUnits
    /\ ExpandSizes \subseteq 1..MaxUnits
    /\ MaxExpands \in Nat
    /\ NoVolume \notin Volumes

VARIABLES
    pc,         \* pc[c]: the next step of the handler in slot c
    call,       \* call[c]: its request and its locals
    known,      \* ghost: volumes that CreateVolume answered, not yet deleted
    published,  \* ghost: <<v, n>> from the answer OK of ControllerPublishVolume
                \*        until ControllerUnpublishVolume is accepted
    asked       \* ghost: the sizes ever asked for a volume

handlers == <<pc, call>>
ghosts   == <<known, published, asked>>
vars     == <<disk, inFlight, handlers, ghosts>>

Nodes == Instances \cup Strangers
Keys  == Names \cup Volumes

SidecarOf(op) ==
    CASE op \in {"create", "delete"}     -> "provisioner"
      [] op \in {"publish", "unpublish"} -> "attacher"
      [] op = "expand"                   -> "resizer"

\* node: the node of the request, or the helper instance of CreateDisk.
\* size: the size of the request; vol: of the request, or the disk created.
CallRecord == [op   : Operations \cup {"none"},
               rep  : Replicas \cup {NoReplica},
               name : Names \cup {NoName},
               vol  : Volumes \cup {NoVolume},
               node : Nodes \cup {NoInstance},
               size : 0..MaxUnits]

NoCall == [op |-> "none", rep |-> NoReplica, name |-> NoName,
           vol |-> NoVolume, node |-> NoInstance, size |-> 0]

Request(op, r, v, n) ==
    [NoCall EXCEPT !.op = op, !.rep = r, !.vol = v, !.node = n]

-----------------------------------------------------------------------------
(* Program counters.                                                       *)

CreatePCs    == {"lookup", "create", "inUse", "detachHelper", "available"}
DeletePCs    == {"delete"}
PublishPCs   == {"instance", "volume", "lock", "attach", "attached", "device"}
UnpublishPCs == {"detach", "detached"}
ExpandPCs    == {"current", "extend", "extended", "check"}

\* "late": the handler has returned, its last request is still on its way.
PCs == {"idle", "late"} \cup CreatePCs \cup DeletePCs \cup PublishPCs
         \cup UnpublishPCs \cup ExpandPCs

\* Between Insert and the deferred Delete.
LockedPCs == CreatePCs \cup DeletePCs \cup UnpublishPCs
               \cup {"attach", "attached", "device"}

WaitPCs  == {"inUse", "available", "attached", "detached", "extended"}
WritePCs == {"create", "detachHelper", "delete", "attach", "detach", "extend"}

Running(c) == pc[c] \notin {"idle", "late"}
Holds(c)   == pc[c] \in LockedPCs

\* CreateVolume locks the name, every other handler the volume ID.
Key(c) == IF call[c].op = "create" THEN call[c].name ELSE call[c].vol

\* The volume IDs the CO may still name: after a deletion whose answer it
\* lost, it names the volume again.
Seen == known \cup {v \in Volumes : disk[v].st = "deleted"}

-----------------------------------------------------------------------------

Init ==
    /\ DiskInit
    /\ NewInFlight
    /\ pc = [c \in Calls |-> "idle"]
    /\ call = [c \in Calls |-> NoCall]
    /\ known = {}
    /\ published = {}
    /\ asked = [v \in Volumes |-> [top |-> 0, calls |-> 0]]

\* The handler goes on, holding what it holds.
Goto(c, p) ==
    /\ pc' = [pc EXCEPT ![c] = p]
    /\ UNCHANGED <<call, inFlight>>

\* Mutant of Unlock: CreateVolume, too, gives back the volume ID.
UnlockVolume(c) == IF Holds(c) THEN Delete(call[c].rep, call[c].vol) ELSE UNCHANGED inFlight

\* Mutant of Unlock: the Delete is deferred before Insert has succeeded.
UnlockAlways(c) == Delete(call[c].rep, Key(c))

\* The deferred inFlight.Delete of a handler that got as far as Insert.
Unlock(c) == IF Holds(c) THEN Delete(call[c].rep, Key(c)) ELSE UNCHANGED inFlight

Return(c) ==
    /\ pc' = [pc EXCEPT ![c] = "idle"]
    /\ call' = [call EXCEPT ![c] = NoCall]
    /\ Unlock(c)

\* A request that locks its key on entry.  If the key is busy the answer is
\* Aborted and nothing changes, which is a stuttering step.
BeginLocked(c, req, key, p) ==
    /\ pc[c] = "idle"
    /\ req.op \in Ops
    /\ req.rep \in Leaders[SidecarOf(req.op)]
    /\ Insert(req.rep, key)
    /\ pc' = [pc EXCEPT ![c] = p]
    /\ call' = [call EXCEPT ![c] = req]

\* A request that starts without a lock.
BeginUnlocked(c, req, p) ==
    /\ pc[c] = "idle"
    /\ req.op \in Ops
    /\ req.rep \in Leaders[SidecarOf(req.op)]
    /\ pc' = [pc EXCEPT ![c] = p]
    /\ call' = [call EXCEPT ![c] = req]
    /\ UNCHANGED inFlight

-----------------------------------------------------------------------------
(* CreateVolume: GetDiskByName, then CreateDisk.                           *)

BeginCreate(c) ==
    /\ \E r \in Replicas, nm \in Names, s \in CreateSizes :
          BeginLocked(c, [Request("create", r, NoVolume, NoInstance)
                             EXCEPT !.name = nm, !.size = s], nm, "lookup")
    /\ UNCHANGED <<disk, ghosts>>

\* Mutant of CreateLookup: only a disk that is ready counts as found.
CreateLookupAvailable(c) ==
    /\ pc[c] = "lookup"
    /\ LET found == {v \in DisksNamed(call[c].name) : IsAvailable(v)}
       IN  IF found = {} THEN Goto(c, "create") /\ UNCHANGED known
                         ELSE Return(c) /\ \E v \in found : known' = known \cup {v}
    /\ UNCHANGED <<disk, published, asked>>

\* GetDiskByName keeps the last disk of the list that has the name; the
\* order of the list is the cloud's.  A disk of the right size is answered
\* as it is, one of another size is AlreadyExists.
CreateLookup(c) ==
    /\ pc[c] = "lookup"
    /\ \/ /\ DisksNamed(call[c].name) = {}
          /\ Goto(c, "create")
          /\ UNCHANGED known
       \/ /\ \E v \in DisksNamed(call[c].name) :
                known' = IF SameSize(v, call[c].size) THEN known \cup {v} ELSE known
          /\ Return(c)
    /\ UNCHANGED <<disk, published, asked>>

\* The disk is created attached to an instance of the zone, the helper.  There
\* may be no instance, or no room for another disk in the account.  The list of
\* instances is read just before; in this module instances do not come and go, so
\* nothing can come between (module Provisioning has the two apart).
CreateDisk(c) ==
    /\ pc[c] = "create"
    /\ \/ \E v \in Volumes, n \in Instances :
             /\ CreateVolume(v, call[c].name, n, call[c].size)
             /\ pc' = [pc EXCEPT ![c] = "inUse"]
             /\ call' = [call EXCEPT ![c].vol = v, ![c].node = n]
             /\ asked' = [asked EXCEPT ![v].top = call[c].size]
             /\ UNCHANGED inFlight
       \/ /\ \A v \in Volumes, n \in Instances : disk[v].st # "unused"
          /\ Return(c)
          /\ UNCHANGED <<disk, asked>>
    /\ UNCHANGED <<known, published>>

\* waitForVolume "in-use"; a volume that is gone is an error.
CreateInUse(c) ==
    /\ pc[c] = "inUse"
    /\ IF Exists(call[c].vol)
         THEN VolumeStatusIs(call[c].vol, "in-use") /\ Goto(c, "detachHelper")
         ELSE Return(c)
    /\ UNCHANGED <<disk, ghosts>>

\* Any refusal of DetachVolume is an error of CreateDisk.
CreateDetachHelper(c) ==
    /\ pc[c] = "detachHelper"
    /\ IF CanDetach(call[c].vol, call[c].node)
         THEN DetachVolume(call[c].vol, call[c].node) /\ Goto(c, "available")
         ELSE Return(c) /\ UNCHANGED disk
    /\ UNCHANGED ghosts

\* waitForVolume "available", then the answer OK.
CreateAvailable(c) ==
    /\ pc[c] = "available"
    /\ IF Exists(call[c].vol)
         THEN /\ VolumeStatusIs(call[c].vol, "available")
              /\ known' = known \cup {call[c].vol}
         ELSE UNCHANGED known
    /\ Return(c)
    /\ UNCHANGED <<disk, published, asked>>

-----------------------------------------------------------------------------
(* DeleteVolume.                                                           *)

BeginDelete(c) ==
    /\ \E r \in Replicas, v \in Seen :
          BeginLocked(c, Request("delete", r, v, NoInstance), v, "delete")
    /\ UNCHANGED <<disk, ghosts>>

\* Mutant of DeleteDisk: any refusal is taken for a disk that is gone.
DeleteDiskTrusting(c) ==
    /\ pc[c] = "delete"
    /\ known' = known \ {call[c].vol}
    /\ \/ DeleteVolume(call[c].vol)
       \/ ~IsAvailable(call[c].vol) /\ UNCHANGED disk
    /\ Return(c)
    /\ UNCHANGED <<published, asked>>

\* OK when the disk is deleted or was gone already, otherwise Internal.
DeleteDisk(c) ==
    /\ pc[c] = "delete"
    /\ \/ DeleteVolume(call[c].vol) /\ known' = known \ {call[c].vol}
       \/ /\ ~Exists(call[c].vol)
          /\ known' = known \ {call[c].vol}
          /\ UNCHANGED disk
       \/ HasAttachment(call[c].vol) /\ UNCHANGED <<disk, known>>
    /\ Return(c)
    /\ UNCHANGED <<published, asked>>

-----------------------------------------------------------------------------
(* ControllerPublishVolume: two checks before the lock, then AttachDisk.   *)

BeginPublish(c) ==
    /\ \E r \in Replicas, v \in Seen, n \in Nodes :
          BeginUnlocked(c, Request("publish", r, v, n), "instance")
    /\ UNCHANGED <<disk, ghosts>>

\* Mutant of PublishInstance: the instance is not looked for.
PublishInstanceUnchecked(c) ==
    /\ pc[c] = "instance"
    /\ Goto(c, "volume")
    /\ UNCHANGED <<disk, ghosts>>

\* IsExistInstance.
PublishInstance(c) ==
    /\ pc[c] = "instance"
    /\ IF call[c].node \in Instances THEN Goto(c, "volume") ELSE Return(c)
    /\ UNCHANGED <<disk, ghosts>>

\* GetDiskByID.
PublishVolume(c) ==
    /\ pc[c] = "volume"
    /\ IF Exists(call[c].vol) THEN Goto(c, "lock") ELSE Return(c)
    /\ UNCHANGED <<disk, ghosts>>

\* Only now Insert; a busy key is Aborted.
PublishLock(c) ==
    /\ pc[c] = "lock"
    /\ \/ /\ Insert(call[c].rep, call[c].vol)
          /\ pc' = [pc EXCEPT ![c] = "attach"]
          /\ UNCHANGED call
       \/ Busy(call[c].rep, call[c].vol) /\ Return(c)
    /\ UNCHANGED <<disk, ghosts>>

\* AttachVolume.  When the cloud says AlreadyAttached, the handler goes
\* straight to the block device mapping and waits for nothing.
PublishAttach(c) ==
    /\ pc[c] = "attach"
    /\ \/ AttachVolume(call[c].vol, call[c].node) /\ Goto(c, "attached")
       \/ HasAttachment(call[c].vol) /\ Goto(c, "device") /\ UNCHANGED disk
       \/ ~Exists(call[c].vol) /\ Return(c) /\ UNCHANGED disk
    /\ UNCHANGED ghosts

\* WaitForAttachmentState "attached".
PublishAttached(c) ==
    /\ pc[c] = "attached"
    /\ IF Exists(call[c].vol)
         THEN AttachmentStateIs(call[c].vol, "attached") /\ Goto(c, "device")
         ELSE Return(c)
    /\ UNCHANGED <<disk, ghosts>>

\* Mutant of PublishDevice: AlreadyAttached is OK, whatever the instance.
PublishDeviceUnchecked(c) ==
    /\ pc[c] = "device"
    /\ published' = published \cup {<<call[c].vol, call[c].node>>}
    /\ Return(c)
    /\ UNCHANGED <<disk, known, asked>>

\* getDeviceNameFromUniqueID or getDeviceNameFromVolumeID: OK if the node's
\* mapping lists the volume, otherwise Internal.
PublishDevice(c) ==
    /\ pc[c] = "device"
    /\ published' = IF Mapped(call[c].vol, call[c].node)
                      THEN published \cup {<<call[c].vol, call[c].node>>}
                      ELSE published
    /\ Return(c)
    /\ UNCHANGED <<disk, known, asked>>

-----------------------------------------------------------------------------
(* ControllerUnpublishVolume: DetachDisk.                                  *)

\* Mutant of BeginUnpublish: the volume is not locked.
BeginUnpublishUnlocked(c) ==
    /\ \E r \in Replicas, v \in Seen, n \in Nodes :
          /\ BeginUnlocked(c, Request("unpublish", r, v, n), "detach")
          /\ published' = published \ {<<v, n>>}
    /\ UNCHANGED <<disk, known, asked>>

\* From here on the CO no longer relies on the volume at the node.
BeginUnpublish(c) ==
    /\ \E r \in Replicas, v \in Seen, n \in Nodes :
          /\ BeginLocked(c, Request("unpublish", r, v, n), v, "detach")
          /\ published' = published \ {<<v, n>>}
    /\ UNCHANGED <<disk, known, asked>>

\* DetachedFromInstance and a missing volume are OK, any other refusal is
\* Internal; the handler returns in all three cases.
UnpublishDetach(c) ==
    /\ pc[c] = "detach"
    /\ IF CanDetach(call[c].vol, call[c].node)
         THEN DetachVolume(call[c].vol, call[c].node) /\ Goto(c, "detached")
         ELSE Return(c) /\ UNCHANGED disk
    /\ UNCHANGED ghosts

\* WaitForAttachmentState "detached": OK, or an error if the volume is gone.
UnpublishDetached(c) ==
    /\ pc[c] = "detached"
    /\ Exists(call[c].vol) => AttachmentStateIs(call[c].vol, "detached")
    /\ Return(c)
    /\ UNCHANGED <<disk, ghosts>>

-----------------------------------------------------------------------------
(* ControllerExpandVolume: ResizeDisk.  It takes no lock.                  *)

BeginExpand(c) ==
    \E r \in Replicas, v \in Seen, s \in ExpandSizes :
       /\ asked[v].calls < MaxExpands
       /\ BeginUnlocked(c, [Request("expand", r, v, NoInstance) EXCEPT !.size = s],
                        "current")
       /\ asked' = [asked EXCEPT
                      ![v] = [top   |-> IF s > asked[v].top THEN s ELSE asked[v].top,
                              calls |-> asked[v].calls + 1]]
       /\ UNCHANGED <<disk, known, published>>

\* GetDiskByID and the comparison with the desired size.
ExpandCurrent(c) ==
    /\ pc[c] = "current"
    /\ IF Exists(call[c].vol)
          /\ ResizeDecision(disk[call[c].vol].size, call[c].size) = "extend"
         THEN Goto(c, "extend")
         ELSE Return(c)
    /\ UNCHANGED <<disk, ghosts>>

\* ExtendVolumeSize; a refusal is an error.
ExpandExtend(c) ==
    /\ pc[c] = "extend"
    /\ IF CanExtend(call[c].vol)
         THEN ExtendVolumeSize(call[c].vol) /\ Goto(c, "extended")
         ELSE Return(c) /\ UNCHANGED disk
    /\ UNCHANGED ghosts

\* WaitForAttachmentState "attached", on a disk that may have no attachment.
ExpandExtended(c) ==
    /\ pc[c] = "extended"
    /\ IF Exists(call[c].vol)
         THEN AttachmentStateIs(call[c].vol, "attached") /\ Goto(c, "check")
         ELSE Return(c)
    /\ UNCHANGED <<disk, ghosts>>

\* GetDiskByID again: the answer OK, or another unit.
ExpandCheck(c) ==
    /\ pc[c] = "check"
    /\ IF Exists(call[c].vol) /\ ~ResizeDone(disk[call[c].vol].size, call[c].size)
         THEN Goto(c, "extend")
         ELSE Return(c)
    /\ UNCHANGED <<disk, ghosts>>

-----------------------------------------------------------------------------
(* Failures.                                                               *)

\* A wait expires, or a request to the cloud fails (or the CO's deadline
\* cancels it): the handler returns an error and gives its key back.
Fail(c) ==
    /\ Running(c)
    /\ \/ "timeout" \in Faults /\ pc[c] \in WaitPCs
       \/ "api" \in Faults /\ pc[c] # "lock"
    /\ Return(c)
    /\ UNCHANGED <<disk, ghosts>>

\* The same, but the request that failed is still on its way to the cloud.
Abandon(c) ==
    /\ "late" \in Faults
    /\ pc[c] \in WritePCs
    /\ pc' = [pc EXCEPT ![c] = "late"]
    /\ Unlock(c)
    /\ UNCHANGED <<call, disk, ghosts>>

\* The effect of a late request, if the cloud still accepts it.  A create
\* whose call has no volume yet was abandoned at CreateVolume.
LateEffect(c) ==
    LET v == call[c].vol
        n == call[c].node
    IN  CASE call[c].op = "create" /\ v = NoVolume ->
               \E u \in Volumes, h \in Instances :
                  /\ CreateVolume(u, call[c].name, h, call[c].size)
                  /\ asked' = [asked EXCEPT ![u].top = call[c].size]
          [] call[c].op \in {"create", "unpublish"} /\ v # NoVolume ->
               DetachVolume(v, n) /\ UNCHANGED asked
          [] call[c].op = "delete"  -> DeleteVolume(v) /\ UNCHANGED asked
          [] call[c].op = "publish" -> AttachVolume(v, n) /\ UNCHANGED asked
          [] call[c].op = "expand"  -> ExtendVolumeSize(v) /\ UNCHANGED asked

LateArrives(c) ==
    /\ pc[c] = "late"
    /\ LateEffect(c)
    /\ pc' = [pc EXCEPT ![c] = "idle"]
    /\ call' = [call EXCEPT ![c] = NoCall]
    /\ UNCHANGED <<inFlight, known, published>>

LateIsLost(c) ==
    /\ pc[c] = "late"
    /\ pc' = [pc EXCEPT ![c] = "idle"]
    /\ call' = [call EXCEPT ![c] = NoCall]
    /\ UNCHANGED <<inFlight, disk, ghosts>>

\* A replica stops and starts again: its handlers and its table are gone.
Restart(r) ==
    /\ "restart" \in Faults
    /\ Lose(r)
    /\ pc' = [c \in Calls |-> IF Running(c) /\ call[c].rep = r THEN "idle" ELSE pc[c]]
    /\ call' = [c \in Calls |-> IF Running(c) /\ call[c].rep = r THEN NoCall ELSE call[c]]
    /\ UNCHANGED <<disk, ghosts>>

-----------------------------------------------------------------------------

Begin(c) ==
    \/ BeginCreate(c)
    \/ BeginDelete(c)
    \/ BeginPublish(c)
    \/ BeginUnpublish(c)
    \/ BeginExpand(c)

CreateStep(c) ==
    \/ CreateLookup(c)
    \/ CreateDisk(c)
    \/ CreateInUse(c)
    \/ CreateDetachHelper(c)
    \/ CreateAvailable(c)

PublishStep(c) ==
    \/ PublishInstance(c)
    \/ PublishVolume(c)
    \/ PublishLock(c)
    \/ PublishAttach(c)
    \/ PublishAttached(c)
    \/ PublishDevice(c)

UnpublishStep(c) ==
    \/ UnpublishDetach(c)
    \/ UnpublishDetached(c)

ExpandStep(c) ==
    \/ ExpandCurrent(c)
    \/ ExpandExtend(c)
    \/ ExpandExtended(c)
    \/ ExpandCheck(c)

HandlerStep(c) ==
    \/ CreateStep(c)
    \/ DeleteDisk(c)
    \/ PublishStep(c)
    \/ UnpublishStep(c)
    \/ ExpandStep(c)

FaultStep(c) ==
    \/ Fail(c)
    \/ Abandon(c)
    \/ LateArrives(c)
    \/ LateIsLost(c)

CloudStep(v) ==
    /\ \/ AttachCompletes(v)
       \/ DetachCompletes(v)
       \/ ResizeCompletes(v)
    /\ UNCHANGED <<inFlight, handlers, ghosts>>

Next ==
    \/ \E c \in Calls : Begin(c) \/ HandlerStep(c) \/ FaultStep(c)
    \/ \E r \in Replicas : Restart(r)
    \/ \E v \in Volumes : CloudStep(v)

Spec == Init /\ [][Next]_vars

\* Every handler that can go on does, and the cloud completes what it has
\* started.  Nothing makes a request begin or a failure happen.
Fairness ==
    /\ \A c \in Calls : WF_vars(HandlerStep(c))
    /\ \A v \in Volumes : WF_vars(CloudStep(v))

FairSpec == Spec /\ Fairness

-----------------------------------------------------------------------------
(* Correctness.                                                            *)

\* Types: in particular, only instances of the account ever get a disk attached
\* or are published to: ControllerPublishVolume turns other node names away
\* (IsExistInstance) before it attaches anything.
TypeOK ==
    /\ disk \in [Volumes -> DiskRecord]
    /\ inFlight \in [Replicas -> SUBSET Keys]
    /\ pc \in [Calls -> PCs]
    /\ call \in [Calls -> CallRecord]
    /\ known \subseteq Volumes
    /\ published \subseteq Volumes \X Instances
    /\ asked \in [Volumes -> [top : 0..MaxUnits, calls : 0..MaxExpands]]

\* Two handlers of one replica never work under the same key, whatever
\* fails in between (inflight.go: Insert, and the deferred Delete of every
\* handler of controller.go).
KeyExclusive ==
    \A c, d \in Calls :
        Holds(c) /\ Holds(d) /\ call[c].rep = call[d].rep /\ Key(c) = Key(d) => c = d

\* The table of a replica holds exactly the keys of its running handlers: no
\* path out of a handler leaves a key behind, which would answer Aborted to
\* every retry, and none removes the key of another handler.
NoLeakedKey ==
    \A r \in Replicas :
        inFlight[r] = {Key(c) : c \in {d \in Calls : Holds(d) /\ call[d].rep = r}}

\* However often CreateVolume times out, fails, is cut off by a restart and
\* is retried, a name has no more disks than there are replicas that may
\* receive the call at a time; with one leader, never two disks.  This is so as
\* long as no request reaches the cloud after its handler has returned (no
\* "late" among the faults); see MultiDisksReported for what happens then.
DisksPerNameBounded ==
    \A nm \in Names :
        Cardinality(DisksNamed(nm)) <= Cardinality(Leaders["provisioner"])

\* A volume the driver has published to a node stays attached to that node
\* until the CO asks for the opposite: neither another handler, nor what is
\* left of one that failed, nor the detaching of a new disk from its helper
\* takes it away.
PublishedStaysAttached ==
    \A v \in Volumes, n \in Instances :
        <<v, n>> \in published => InUse(v) /\ disk[v].inst = n

\* ControllerExpandVolume takes no lock and extends a disk that already has
\* the size asked for.  Still, a disk outgrows the largest size ever asked
\* for by no more than one unit for each call.
OvershootBounded ==
    \A v \in Volumes :
        Exists(v) =>
            disk[v].size + (IF disk[v].st = "resizing" THEN 1 ELSE 0)
                <= asked[v].top + asked[v].calls

\* When nothing fails, the volume CreateVolume answers is free to be
\* attached: no call answers the half-created disk of another call.
CreateAnswersAvailable ==
    [][\A v \in known' \ known : disk'[v].st = "available"]_vars

\* "ErrMultiDisks is an error that is returned when multiple disks are found
\* with the same volume name": CreateVolume answers no volume when its lookup
\* finds more than one.
MultiDisksReported ==
    [][\A c \in Calls :
          pc[c] = "lookup" /\ Cardinality(DisksNamed(call[c].name)) > 1
            => known' \subseteq known]_vars

\* "no need to resize": with nobody else at work on the disk, a request for
\* the size it has does not make it grow.
NoNeedlessExtend ==
    \A c \in Calls : pc[c] = "extend" => disk[call[c].vol].size < call[c].size

\* What the handlers wait for, by the states of a disk on the way to it.
OnTheWay ==
    [inUse     |-> {"creating", "attached", "resizing"},
     available |-> {"detaching", "available"},
     attached  |-> {"attaching", "attached", "resizing"},
     detached  |-> {"detaching", "available", "deleted"}]

\* No wait of the controller is in vain but that of ResizeDisk: what waitForVolume
\* and WaitForAttachmentState poll for is there or the cloud is about to bring it
\* about, so a wait expires only because the cloud is slow, never because another
\* handler has taken the disk elsewhere.
NoWaitInVain ==
    \A c \in Calls :
        pc[c] \in DOMAIN OnTheWay => disk[call[c].vol].st \in OnTheWay[pc[c]]

\* Every request but ControllerExpandVolume is answered.  No wait has to expire
\* for it: what a handler waits for comes and stays until the handler has seen
\* it.  ResizeDisk does wait in vain on a detached disk, so the property is one
\* for Ops without "expand".
HandlersReturn ==
    \A c \in Calls : Running(c) ~> pc[c] = "idle"

=============================================================================
