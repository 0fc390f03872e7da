------------------------ MODULE ControllerLockProofs ------------------------
(***************************************************************************)
(* Types and locks of the controller, for every value of the constants and *)
(* whatever interleaves, fails and restarts: what the locals of a handler  *)
(* are at each of its steps, and that the in-flight tables and the         *)
(* handlers are a keyed mutex.                                             *)
(***************************************************************************)
EXTENDS ControllerInvariant, TLAPS

USE NifcloudAssumption, InFlightAssumption, ControllerAssumption

\* Init sets every variable, and the locals of every slot, as their types ask.
THEOREM InitTypeInv == Init => TypeInv
<1> SUFFICES ASSUME Init PROVE TypeInv
  OBVIOUS
<1> USE DEF Init
<1>1. disk \in [Volumes -> DiskRecord] /\ RoomToGrow
  BY DEF DiskInit, NoDisk, DiskRecord, DiskStates, Attachments, RoomToGrow
<1>2. inFlight \in [Replicas -> SUBSET Keys]
  BY DEF NewInFlight
<1>3. pc \in [Calls -> PCs]
  BY DEF PCs
<1>4. call \in [Calls -> CallRecord]
  BY DEF CallRecord, NoCall
<1>5. asked \in [Volumes -> [top : 0..MaxUnits, calls : 0..MaxExpands]]
  OBVIOUS
<1>6. \A c \in Calls : CallOK(c)
  BY DEF CallOK, Running, CreatePCs, CreatedPCs, DeletePCs, PublishPCs,
         UnpublishPCs, ExpandPCs
<1> QED
  BY <1>1, <1>2, <1>3, <1>4, <1>5, <1>6 DEF TypeInv, TypeOK

-----------------------------------------------------------------------------
(* The calls to the cloud keep the disks in order.                         *)

DiskInv == disk \in [Volumes -> DiskRecord] /\ RoomToGrow

USE DEF DiskInv

\* CreateVolume of the cloud keeps the disks in order.
LEMMA CreateVolumeKeeps ==
    ASSUME DiskInv, NEW v \in Volumes, NEW nm \in Names, NEW n \in Instances,
           NEW s \in 0..MaxUnits, CreateVolume(v, nm, n, s)
    PROVE  DiskInv'
  BY DEF CreateVolume, DiskRecord, DiskStates, Attachments, RoomToGrow

\* So does AttachVolume, ...
LEMMA AttachVolumeKeeps ==
    ASSUME DiskInv, NEW v \in Volumes, NEW n \in Instances, AttachVolume(v, n)
    PROVE  DiskInv'
<1>1. [disk[v] EXCEPT !.st = "attaching", !.inst = n] \in DiskRecord
  BY DEF DiskRecord, DiskStates, Attachments
<1>2. disk' = [disk EXCEPT ![v] = [disk[v] EXCEPT !.st = "attaching", !.inst = n]]
  BY DEF AttachVolume
<1>3. disk' \in [Volumes -> DiskRecord]
  BY <1>1, <1>2
<1> QED
  BY <1>3 DEF AttachVolume, DiskRecord, RoomToGrow

\* ... DetachVolume, ...
LEMMA DetachVolumeKeeps ==
    ASSUME DiskInv, NEW v \in Volumes, NEW n, DetachVolume(v, n)
    PROVE  DiskInv'
  BY DEF DetachVolume, DiskRecord, DiskStates, Attachments, RoomToGrow

\* ... DeleteVolume, ...
LEMMA DeleteVolumeKeeps ==
    ASSUME DiskInv, NEW v \in Volumes, DeleteVolume(v)
    PROVE  DiskInv'
  BY DEF DeleteVolume, NoDisk, DiskRecord, DiskStates, Attachments, RoomToGrow

\* ... and ExtendVolumeSize, which refuses a disk without room to grow.
LEMMA ExtendVolumeSizeKeeps ==
    ASSUME DiskInv, NEW v \in Volumes, ExtendVolumeSize(v)
    PROVE  DiskInv'
  BY DEF ExtendVolumeSize, CanExtend, IsAttached, IsAvailable, DiskRecord, DiskStates,
         Attachments, RoomToGrow

\* What the cloud completes on its own keeps the disks in order: a resize ends
\* within MaxUnits.
LEMMA CloudKeeps ==
    ASSUME DiskInv, NEW v \in Volumes, CloudStep(v)
    PROVE  DiskInv'
  BY DEF CloudStep, AttachCompletes, DetachCompletes, ResizeCompletes, DiskRecord,
         DiskStates, Attachments, RoomToGrow

-----------------------------------------------------------------------------
(* The ways a handler goes on keep the handlers and the tables in order.   *)

ControlInv ==
    /\ inFlight \in [Replicas -> SUBSET Keys]
    /\ pc \in [Calls -> PCs]
    /\ call \in [Calls -> CallRecord]
    /\ \A c \in Calls : CallOK(c)

\* A slot whose program counter and call stay as they are stays in order.
LEMMA OthersKeep ==
    ASSUME NEW c, CallOK(c), pc'[c] = pc[c], call'[c] = call[c]
    PROVE  CallOK(c)'
  BY DEF CallOK, Running

\* An idle slot is in order whatever is left in its record.
LEMMA IdleIsOK ==
    ASSUME NEW c, pc'[c] = "idle"
    PROVE  CallOK(c)'
  BY DEF CallOK, Running, CreatePCs, CreatedPCs, DeletePCs, PublishPCs,
         UnpublishPCs, ExpandPCs

\* A handler that goes on keeps its control in order if its locals are set as
\* the next step needs them.
LEMMA GotoKeeps ==
    ASSUME ControlInv, NEW c \in Calls, NEW p \in PCs, Goto(c, p), CallOK(c)'
    PROVE  ControlInv'
<1>1. /\ inFlight' \in [Replicas -> SUBSET Keys]
      /\ pc' \in [Calls -> PCs]
      /\ call' \in [Calls -> CallRecord]
  BY DEF ControlInv, Goto, CallRecord
<1>2. ASSUME NEW d \in Calls \ {c} PROVE CallOK(d)'
  BY OthersKeep DEF ControlInv, Goto
<1> QED
  BY <1>1, <1>2 DEF ControlInv

\* The deferred Delete leaves a table of keys.
LEMMA UnlockKeeps ==
    ASSUME ControlInv, NEW c \in Calls, Unlock(c)
    PROVE  inFlight' \in [Replicas -> SUBSET Keys]
  BY DEF ControlInv, Unlock, Delete

\* A handler that returns leaves the controller in order.
LEMMA ReturnKeeps ==
    ASSUME ControlInv, NEW c \in Calls, Return(c)
    PROVE  ControlInv'
<1>1. NoCall \in CallRecord /\ "idle" \in PCs
  BY DEF NoCall, CallRecord, PCs
<1>2. /\ inFlight' \in [Replicas -> SUBSET Keys]
      /\ pc' \in [Calls -> PCs]
      /\ call' \in [Calls -> CallRecord]
  BY <1>1, UnlockKeeps DEF ControlInv, Return
<1>3. ASSUME NEW d \in Calls \ {c} PROVE CallOK(d)'
  BY OthersKeep DEF ControlInv, Return
<1>4. CallOK(c)'
  BY IdleIsOK DEF ControlInv, Return
<1> QED
  BY <1>2, <1>3, <1>4 DEF ControlInv

\* So does a request that begins under a lock, ...
LEMMA BeginLockedKeeps ==
    ASSUME ControlInv, NEW c \in Calls, NEW req \in CallRecord, NEW key \in Keys,
           NEW p \in PCs, req.rep \in Replicas, BeginLocked(c, req, key, p), CallOK(c)'
    PROVE  ControlInv'
<1>1. /\ inFlight' \in [Replicas -> SUBSET Keys]
      /\ pc' \in [Calls -> PCs]
      /\ call' \in [Calls -> CallRecord]
  BY DEF ControlInv, BeginLocked, Insert
<1>2. ASSUME NEW d \in Calls \ {c} PROVE CallOK(d)'
  BY OthersKeep DEF ControlInv, BeginLocked
<1> QED
  BY <1>1, <1>2 DEF ControlInv

\* ... and one that begins without.
LEMMA BeginUnlockedKeeps ==
    ASSUME ControlInv, NEW c \in Calls, NEW req \in CallRecord, NEW p \in PCs,
           BeginUnlocked(c, req, p), CallOK(c)'
    PROVE  ControlInv'
<1>1. /\ inFlight' \in [Replicas -> SUBSET Keys]
      /\ pc' \in [Calls -> PCs]
      /\ call' \in [Calls -> CallRecord]
  BY DEF ControlInv, BeginUnlocked
<1>2. ASSUME NEW d \in Calls \ {c} PROVE CallOK(d)'
  BY OthersKeep DEF ControlInv, BeginUnlocked
<1> QED
  BY <1>1, <1>2 DEF ControlInv

\* A step of the cloud does not touch the handlers.
LEMMA ControlUnchanged ==
    ASSUME ControlInv, UNCHANGED <<inFlight, handlers>>
    PROVE  ControlInv'
  BY OthersKeep DEF ControlInv, handlers

-----------------------------------------------------------------------------
(* Type correctness: one step for each action.                             *)

GhostInv ==
    /\ known \subseteq Volumes
    /\ published \subseteq Volumes \X Instances
    /\ asked \in [Volumes -> [top : 0..MaxUnits, calls : 0..MaxExpands]]

\* The invariant falls into what is of the cloud, of the handlers and of the CO.
LEMMA TypeInvParts == TypeInv <=> DiskInv /\ ControlInv /\ GhostInv
  BY DEF TypeInv, TypeOK, ControlInv, GhostInv

\* Disks that stay as they are stay in order, ...
LEMMA SameDisks == DiskInv /\ UNCHANGED disk => DiskInv'
  BY DEF RoomToGrow

\* ... and so do the ghosts.
LEMMA SameGhosts == GhostInv /\ UNCHANGED ghosts => GhostInv'
  BY DEF GhostInv, ghosts

\* The CO names volumes.
LEMMA SeenVolumes == GhostInv => Seen \subseteq Volumes
  BY DEF GhostInv, Seen

\* A request is a record of a call.
LEMMA RequestTypes ==
    ASSUME NEW op \in Operations, NEW r \in Replicas, NEW v \in Volumes \cup {NoVolume},
           NEW n \in Nodes \cup {NoInstance}
    PROVE  /\ Request(op, r, v, n) \in CallRecord
           /\ Request(op, r, v, n).op = op
           /\ Request(op, r, v, n).rep = r
           /\ Request(op, r, v, n).vol = v
           /\ Request(op, r, v, n).node = n
<1>1. 0 \in 0..MaxUnits
  OBVIOUS
<1> QED
  BY <1>1 DEF Request, NoCall, CallRecord

\* Every request of the CO begins in order.
LEMMA BeginTypes ==
    ASSUME DiskInv, ControlInv, GhostInv, NEW c \in Calls, Begin(c)
    PROVE  DiskInv' /\ ControlInv' /\ GhostInv'
<1> USE DEF PCs, CreatePCs, CreatedPCs, DeletePCs, PublishPCs, UnpublishPCs, ExpandPCs
<1> Seen \subseteq Volumes
  BY SeenVolumes
<1>1. CASE BeginCreate(c)
  <2>1. PICK r \in Replicas, nm \in Names, s \in CreateSizes :
          BeginLocked(c, [Request("create", r, NoVolume, NoInstance)
                             EXCEPT !.name = nm, !.size = s], nm, "lookup")
    BY <1>1 DEF BeginCreate
  <2> DEFINE req == [Request("create", r, NoVolume, NoInstance)
                        EXCEPT !.name = nm, !.size = s]
  <2>2. req \in CallRecord /\ req.op = "create" /\ req.rep = r /\ req.name = nm
    <3> DEFINE base == Request("create", r, NoVolume, NoInstance)
    <3>1. base \in CallRecord /\ base.op = "create" /\ base.rep = r
      BY RequestTypes DEF Operations
    <3>2. nm \in Names /\ s \in 0..MaxUnits
      OBVIOUS
    <3> HIDE DEF base
    <3>3. [base EXCEPT !.name = nm, !.size = s] \in CallRecord
      BY <3>1, <3>2 DEF CallRecord
    <3>4. /\ [base EXCEPT !.name = nm, !.size = s].op = "create"
          /\ [base EXCEPT !.name = nm, !.size = s].rep = r
          /\ [base EXCEPT !.name = nm, !.size = s].name = nm
      BY <3>1 DEF CallRecord
    <3> QED
      BY <3>3, <3>4 DEF base
  <2>3. CallOK(c)'
    BY <2>1, <2>2 DEF BeginLocked, CallOK, Running, ControlInv
  <2>4. ControlInv'
    BY <2>1, <2>2, <2>3, BeginLockedKeeps DEF Keys
  <2> QED
    BY <1>1, <2>4, SameDisks, SameGhosts DEF BeginCreate
<1>2. CASE BeginDelete(c)
  <2>1. PICK r \in Replicas, v \in Volumes :
          BeginLocked(c, Request("delete", r, v, NoInstance), v, "delete")
    BY <1>2 DEF BeginDelete
  <2> DEFINE req == Request("delete", r, v, NoInstance)
  <2>2. req \in CallRecord /\ req.op = "delete" /\ req.rep = r /\ req.vol = v
    BY RequestTypes DEF CallRecord, Operations
  <2>3. CallOK(c)'
    BY <2>1, <2>2 DEF BeginLocked, CallOK, Running, ControlInv
  <2>4. ControlInv'
    BY <2>1, <2>2, <2>3, BeginLockedKeeps DEF Keys
  <2> QED
    BY <1>2, <2>4, SameDisks, SameGhosts DEF BeginDelete
<1>3. CASE BeginPublish(c)
  <2>1. PICK r \in Replicas, v \in Volumes, n \in Nodes :
          BeginUnlocked(c, Request("publish", r, v, n), "instance")
    BY <1>3 DEF BeginPublish
  <2> DEFINE req == Request("publish", r, v, n)
  <2>2. req \in CallRecord /\ req.op = "publish" /\ req.rep = r /\ req.vol = v
    BY RequestTypes DEF CallRecord, Operations
  <2>3. CallOK(c)'
    BY <2>1, <2>2 DEF BeginUnlocked, CallOK, Running, ControlInv
  <2>4. ControlInv'
    BY <2>1, <2>2, <2>3, BeginUnlockedKeeps
  <2> QED
    BY <1>3, <2>4, SameDisks, SameGhosts DEF BeginPublish
<1>4. CASE BeginUnpublish(c)
  <2>1. PICK r \in Replicas, v \in Volumes, n \in Nodes :
          BeginLocked(c, Request("unpublish", r, v, n), v, "detach")
    BY <1>4 DEF BeginUnpublish
  <2> DEFINE req == Request("unpublish", r, v, n)
  <2>2. req \in CallRecord /\ req.op = "unpublish" /\ req.rep = r /\ req.vol = v
    BY RequestTypes DEF CallRecord, Operations
  <2>3. CallOK(c)'
    BY <2>1, <2>2 DEF BeginLocked, CallOK, Running, ControlInv
  <2>4. ControlInv'
    BY <2>1, <2>2, <2>3, BeginLockedKeeps DEF Keys
  <2>5. GhostInv'
    BY <1>4 DEF BeginUnpublish, GhostInv
  <2> QED
    BY <1>4, <2>4, <2>5, SameDisks DEF BeginUnpublish
<1>5. CASE BeginExpand(c)
  <2>1. PICK r \in Replicas, v \in Volumes, s \in ExpandSizes :
          /\ asked[v].calls < MaxExpands
          /\ BeginUnlocked(c, [Request("expand", r, v, NoInstance) EXCEPT !.size = s],
                           "current")
          /\ asked' = [asked EXCEPT
                         ![v] = [top   |-> IF s > asked[v].top THEN s ELSE asked[v].top,
                                 calls |-> asked[v].calls + 1]]
          /\ UNCHANGED <<disk, known, published>>
    BY <1>5 DEF BeginExpand
  <2> DEFINE req == [Request("expand", r, v, NoInstance) EXCEPT !.size = s]
  <2>2. req \in CallRecord /\ req.op = "expand" /\ req.rep = r /\ req.vol = v
    BY RequestTypes DEF CallRecord, Operations
  <2>3. CallOK(c)'
    BY <2>1, <2>2 DEF BeginUnlocked, CallOK, Running, ControlInv
  <2>4. ControlInv'
    BY <2>1, <2>2, <2>3, BeginUnlockedKeeps
  <2>5. GhostInv'
    <3>1. s \in 0..MaxUnits
      OBVIOUS
    <3>2. asked[v].calls + 1 \in 0..MaxExpands
      BY <2>1 DEF GhostInv
    <3> QED
      BY <2>1, <3>1, <3>2 DEF GhostInv
  <2> QED
    BY <2>1, <2>4, <2>5, SameDisks
<1> QED
  BY <1>1, <1>2, <1>3, <1>4, <1>5 DEF Begin

\* Every step of CreateVolume keeps the invariant.
LEMMA CreateTypes ==
    ASSUME DiskInv, ControlInv, GhostInv, NEW c \in Calls, CreateStep(c)
    PROVE  DiskInv' /\ ControlInv' /\ GhostInv'
<1> USE DEF PCs, CreatePCs, CreatedPCs, DeletePCs, PublishPCs, UnpublishPCs, ExpandPCs
<1>0. CallOK(c) /\ call[c] \in CallRecord
  BY DEF ControlInv
<1>1. CASE CreateLookup(c)
  <2>1. ControlInv'
    <3>1. CASE Goto(c, "create")
      <4>1. CallOK(c)'
        BY <1>0, <1>1, <3>1 DEF CreateLookup, Goto, CallOK, Running, ControlInv
      <4> QED
        BY <3>1, <4>1, GotoKeeps
    <3> QED
      BY <1>1, <3>1, ReturnKeeps DEF CreateLookup
  <2>2. GhostInv'
    BY <1>1 DEF CreateLookup, GhostInv, DisksNamed
  <2> QED
    BY <1>1, <2>1, <2>2, SameDisks DEF CreateLookup
<1>2. CASE CreateDisk(c)
  <2>1. CASE /\ Return(c)
             /\ UNCHANGED <<disk, asked>>
    BY <1>2, <2>1, ReturnKeeps, SameDisks, SameGhosts DEF CreateDisk, ghosts
  <2>2. ASSUME NEW v \in Volumes, NEW n \in Instances,
               CreateVolume(v, call[c].name, n, call[c].size),
               pc' = [pc EXCEPT ![c] = "inUse"],
               call' = [call EXCEPT ![c].vol = v, ![c].node = n],
               asked' = [asked EXCEPT ![v].top = call[c].size],
               UNCHANGED inFlight
        PROVE  DiskInv' /\ ControlInv' /\ GhostInv'
    <3>1. call[c].name \in Names /\ call[c].size \in 0..MaxUnits
      BY <1>0, <1>2 DEF CreateDisk, CallOK, CallRecord
    <3>2. DiskInv'
      BY <2>2, <3>1, CreateVolumeKeeps
    <3>3. call' \in [Calls -> CallRecord]
      <4>1. [call[c] EXCEPT !.vol = v, !.node = n] \in CallRecord
        BY <1>0 DEF CallRecord, Nodes
      <4>2. call' = [call EXCEPT ![c] = [call[c] EXCEPT !.vol = v, !.node = n]]
        BY <2>2
      <4> QED
        BY <4>1, <4>2 DEF ControlInv
    <3>4. CallOK(c)'
      <4>1. call[c].op = "create" /\ call[c].rep \in Replicas
            /\ call[c].rep \in Leaders[SidecarOf(call[c].op)]
        BY <1>0, <1>2 DEF CreateDisk, CallOK, Running
      <4>2. /\ pc'[c] = "inUse"
            /\ call'[c] = [call[c] EXCEPT !.vol = v, !.node = n]
        BY <2>2 DEF ControlInv
      <4> QED
        BY <1>0, <3>1, <4>1, <4>2 DEF CallOK, CallRecord, Running
    <3>5. ASSUME NEW d \in Calls \ {c} PROVE CallOK(d)'
      BY <2>2, OthersKeep DEF ControlInv
    <3>6. GhostInv'
      BY <1>2, <2>2, <3>1 DEF CreateDisk, GhostInv
    <3> QED
      BY <2>2, <3>2, <3>3, <3>4, <3>5, <3>6 DEF ControlInv
  <2> QED
    BY <1>2, <2>1, <2>2 DEF CreateDisk
<1>3. CASE CreateInUse(c)
  <2>1. ControlInv'
    <3>1. CASE Goto(c, "detachHelper")
      <4>1. CallOK(c)'
        BY <1>0, <1>3, <3>1 DEF CreateInUse, Goto, CallOK, Running, ControlInv
      <4> QED
        BY <3>1, <4>1, GotoKeeps
    <3> QED
      BY <1>3, <3>1, ReturnKeeps DEF CreateInUse
  <2> QED
    BY <1>3, <2>1, SameDisks, SameGhosts DEF CreateInUse
<1>4. CASE CreateDetachHelper(c)
  <2>1. ControlInv'
    <3>1. CASE Goto(c, "available")
      <4>1. CallOK(c)'
        BY <1>0, <1>4, <3>1 DEF CreateDetachHelper, Goto, CallOK, Running, ControlInv
      <4> QED
        BY <3>1, <4>1, GotoKeeps
    <3> QED
      BY <1>4, <3>1, ReturnKeeps DEF CreateDetachHelper
  <2>2. DiskInv'
    BY <1>0, <1>4, DetachVolumeKeeps, SameDisks DEF CreateDetachHelper, CallOK
  <2> QED
    BY <1>4, <2>1, <2>2, SameGhosts DEF CreateDetachHelper
<1>5. CASE CreateAvailable(c)
  <2>1. GhostInv'
    BY <1>0, <1>5 DEF CreateAvailable, GhostInv, CallOK
  <2> QED
    BY <1>5, <2>1, ReturnKeeps, SameDisks DEF CreateAvailable
<1> QED
  BY <1>1, <1>2, <1>3, <1>4, <1>5 DEF CreateStep

\* Every step of ControllerPublishVolume keeps the invariant: past the check of
\* the instance, the node of the request is an instance.
LEMMA PublishTypes ==
    ASSUME DiskInv, ControlInv, GhostInv, NEW c \in Calls, PublishStep(c)
    PROVE  DiskInv' /\ ControlInv' /\ GhostInv'
<1> USE DEF PCs, CreatePCs, CreatedPCs, DeletePCs, PublishPCs, UnpublishPCs, ExpandPCs
<1>0. CallOK(c) /\ call[c] \in CallRecord
  BY DEF ControlInv
<1>1. CASE PublishInstance(c)
  <2>1. ControlInv'
    <3>1. CASE call[c].node \in Instances
      <4>1. pc[c] = "instance" /\ Goto(c, "volume")
        BY <1>1, <3>1 DEF PublishInstance
      <4>2. CallOK(c)'
        BY <1>0, <3>1, <4>1 DEF Goto, CallOK, Running, ControlInv
      <4> QED
        BY <4>1, <4>2, GotoKeeps
    <3> QED
      BY <1>1, <3>1, ReturnKeeps DEF PublishInstance
  <2> QED
    BY <1>1, <2>1, SameDisks, SameGhosts DEF PublishInstance
<1>2. CASE PublishVolume(c)
  <2>1. ControlInv'
    <3>1. CASE Goto(c, "lock")
      <4>1. CallOK(c)'
        BY <1>0, <1>2, <3>1 DEF PublishVolume, Goto, CallOK, Running, ControlInv
      <4> QED
        BY <3>1, <4>1, GotoKeeps
    <3> QED
      BY <1>2, <3>1, ReturnKeeps DEF PublishVolume
  <2> QED
    BY <1>2, <2>1, SameDisks, SameGhosts DEF PublishVolume
<1>3. CASE PublishLock(c)
  <2>1. ControlInv'
    <3>1. CASE /\ Insert(call[c].rep, call[c].vol)
               /\ pc' = [pc EXCEPT ![c] = "attach"]
               /\ UNCHANGED call
      <4>1. CallOK(c)'
        BY <1>0, <1>3, <3>1 DEF PublishLock, CallOK, Running, ControlInv
      <4>2. ASSUME NEW d \in Calls \ {c} PROVE CallOK(d)'
        BY <3>1, OthersKeep DEF ControlInv
      <4>3. inFlight' \in [Replicas -> SUBSET Keys]
        BY <1>0, <1>3, <3>1 DEF PublishLock, ControlInv, Insert, CallOK, Keys
      <4> QED
        BY <3>1, <4>1, <4>2, <4>3 DEF ControlInv
    <3> QED
      BY <1>3, <3>1, ReturnKeeps DEF PublishLock
  <2> QED
    BY <1>3, <2>1, SameDisks, SameGhosts DEF PublishLock
<1>4. CASE PublishAttach(c)
  <2>1. call[c].vol \in Volumes /\ call[c].node \in Instances
    BY <1>0, <1>4 DEF PublishAttach, CallOK
  <2>2. ControlInv'
    <3>1. CASE Goto(c, "attached")
      <4>1. CallOK(c)'
        BY <1>0, <1>4, <3>1 DEF PublishAttach, Goto, CallOK, Running, ControlInv
      <4> QED
        BY <3>1, <4>1, GotoKeeps
    <3>2. CASE Goto(c, "device")
      <4>1. CallOK(c)'
        BY <1>0, <1>4, <3>2 DEF PublishAttach, Goto, CallOK, Running, ControlInv
      <4> QED
        BY <3>2, <4>1, GotoKeeps
    <3> QED
      BY <1>4, <3>1, <3>2, ReturnKeeps DEF PublishAttach
  <2>3. DiskInv'
    BY <1>4, <2>1, AttachVolumeKeeps, SameDisks DEF PublishAttach
  <2> QED
    BY <1>4, <2>2, <2>3, SameGhosts DEF PublishAttach
<1>5. CASE PublishAttached(c)
  <2>1. ControlInv'
    <3>1. CASE Goto(c, "device")
      <4>1. CallOK(c)'
        BY <1>0, <1>5, <3>1 DEF PublishAttached, Goto, CallOK, Running, ControlInv
      <4> QED
        BY <3>1, <4>1, GotoKeeps
    <3> QED
      BY <1>5, <3>1, ReturnKeeps DEF PublishAttached
  <2> QED
    BY <1>5, <2>1, SameDisks, SameGhosts DEF PublishAttached
<1>6. CASE PublishDevice(c)
  <2>1. GhostInv'
    BY <1>0, <1>6 DEF PublishDevice, GhostInv, CallOK
  <2> QED
    BY <1>6, <2>1, ReturnKeeps, SameDisks DEF PublishDevice
<1> QED
  BY <1>1, <1>2, <1>3, <1>4, <1>5, <1>6 DEF PublishStep

\* Every step of ControllerUnpublishVolume keeps the invariant.
LEMMA UnpublishTypes ==
    ASSUME DiskInv, ControlInv, GhostInv, NEW c \in Calls, UnpublishStep(c)
    PROVE  DiskInv' /\ ControlInv' /\ GhostInv'
<1> USE DEF PCs, CreatePCs, CreatedPCs, DeletePCs, PublishPCs, UnpublishPCs, ExpandPCs
<1>0. CallOK(c) /\ call[c] \in CallRecord
  BY DEF ControlInv
<1>1. CASE UnpublishDetach(c)
  <2>1. ControlInv'
    <3>1. CASE Goto(c, "detached")
      <4>1. CallOK(c)'
        BY <1>0, <1>1, <3>1 DEF UnpublishDetach, Goto, CallOK, Running, ControlInv
      <4> QED
        BY <3>1, <4>1, GotoKeeps
    <3> QED
      BY <1>1, <3>1, ReturnKeeps DEF UnpublishDetach
  <2>2. DiskInv'
    BY <1>0, <1>1, DetachVolumeKeeps, SameDisks DEF UnpublishDetach, CallOK
  <2> QED
    BY <1>1, <2>1, <2>2, SameGhosts DEF UnpublishDetach
<1>2. CASE UnpublishDetached(c)
  BY <1>2, ReturnKeeps, SameDisks, SameGhosts DEF UnpublishDetached
<1> QED
  BY <1>1, <1>2 DEF UnpublishStep

\* Every step of ControllerExpandVolume keeps the invariant.
LEMMA ExpandTypes ==
    ASSUME DiskInv, ControlInv, GhostInv, NEW c \in Calls, ExpandStep(c)
    PROVE  DiskInv' /\ ControlInv' /\ GhostInv'
<1> USE DEF PCs, CreatePCs, CreatedPCs, DeletePCs, PublishPCs, UnpublishPCs, ExpandPCs
<1>0. CallOK(c) /\ call[c] \in CallRecord
  BY DEF ControlInv
<1>1. CASE ExpandCurrent(c)
  <2>1. ControlInv'
    <3>1. CASE Goto(c, "extend")
      <4>1. CallOK(c)'
        BY <1>0, <1>1, <3>1 DEF ExpandCurrent, Goto, CallOK, Running, ControlInv
      <4> QED
        BY <3>1, <4>1, GotoKeeps
    <3> QED
      BY <1>1, <3>1, ReturnKeeps DEF ExpandCurrent
  <2> QED
    BY <1>1, <2>1, SameDisks, SameGhosts DEF ExpandCurrent
<1>2. CASE ExpandExtend(c)
  <2>1. ControlInv'
    <3>1. CASE Goto(c, "extended")
      <4>1. CallOK(c)'
        BY <1>0, <1>2, <3>1 DEF ExpandExtend, Goto, CallOK, Running, ControlInv
      <4> QED
        BY <3>1, <4>1, GotoKeeps
    <3> QED
      BY <1>2, <3>1, ReturnKeeps DEF ExpandExtend
  <2>2. DiskInv'
    BY <1>0, <1>2, ExtendVolumeSizeKeeps, SameDisks DEF ExpandExtend, CallOK
  <2> QED
    BY <1>2, <2>1, <2>2, SameGhosts DEF ExpandExtend
<1>3. CASE ExpandExtended(c)
  <2>1. ControlInv'
    <3>1. CASE Goto(c, "check")
      <4>1. CallOK(c)'
        BY <1>0, <1>3, <3>1 DEF ExpandExtended, Goto, CallOK, Running, ControlInv
      <4> QED
        BY <3>1, <4>1, GotoKeeps
    <3> QED
      BY <1>3, <3>1, ReturnKeeps DEF ExpandExtended
  <2> QED
    BY <1>3, <2>1, SameDisks, SameGhosts DEF ExpandExtended
<1>4. CASE ExpandCheck(c)
  <2>1. ControlInv'
    <3>1. CASE Goto(c, "extend")
      <4>1. CallOK(c)'
        BY <1>0, <1>4, <3>1 DEF ExpandCheck, Goto, CallOK, Running, ControlInv
      <4> QED
        BY <3>1, <4>1, GotoKeeps
    <3> QED
      BY <1>4, <3>1, ReturnKeeps DEF ExpandCheck
  <2> QED
    BY <1>4, <2>1, SameDisks, SameGhosts DEF ExpandCheck
<1> QED
  BY <1>1, <1>2, <1>3, <1>4 DEF ExpandStep

\* The step of DeleteVolume keeps the invariant.
LEMMA DeleteTypes ==
    ASSUME DiskInv, ControlInv, GhostInv, NEW c \in Calls, DeleteDisk(c)
    PROVE  DiskInv' /\ ControlInv' /\ GhostInv'
<1>1. CallOK(c)
  BY DEF ControlInv
<1>2. DiskInv'
  BY <1>1, DeleteVolumeKeeps, SameDisks DEF DeleteDisk, CallOK, DeletePCs
<1>3. GhostInv'
  BY DEF DeleteDisk, GhostInv
<1> QED
  BY <1>2, <1>3, ReturnKeeps DEF DeleteDisk

\* A slot that becomes idle while the tables stay as they are.
LEMMA DropKeeps ==
    ASSUME ControlInv, NEW c \in Calls, UNCHANGED inFlight,
           pc' = [pc EXCEPT ![c] = "idle"], call' = [call EXCEPT ![c] = NoCall]
    PROVE  ControlInv'
<1>1. NoCall \in CallRecord /\ "idle" \in PCs
  BY DEF NoCall, CallRecord, PCs
<1>2. ASSUME NEW d \in Calls \ {c} PROVE CallOK(d)'
  BY OthersKeep DEF ControlInv
<1>3. CallOK(c)'
  BY IdleIsOK DEF ControlInv
<1> QED
  BY <1>1, <1>2, <1>3 DEF ControlInv

\* Failures, and the requests they leave behind, keep the invariant.
LEMMA FaultTypes ==
    ASSUME DiskInv, ControlInv, GhostInv, NEW c \in Calls, FaultStep(c)
    PROVE  DiskInv' /\ ControlInv' /\ GhostInv'
<1>0. CallOK(c) /\ call[c] \in CallRecord
  BY DEF ControlInv
<1>1. CASE Fail(c)
  BY <1>1, ReturnKeeps, SameDisks, SameGhosts DEF Fail
<1>2. CASE Abandon(c)
  <2>1. CallOK(c)'
    BY <1>0, <1>2 DEF Abandon, ControlInv, WritePCs, CallOK, Running, Operations,
       CreatePCs, CreatedPCs, DeletePCs, PublishPCs, UnpublishPCs, ExpandPCs
  <2>2. ASSUME NEW d \in Calls \ {c} PROVE CallOK(d)'
    BY <1>2, OthersKeep DEF Abandon, ControlInv
  <2>3. inFlight' \in [Replicas -> SUBSET Keys]
    BY <1>2, UnlockKeeps DEF Abandon
  <2>4. pc' \in [Calls -> PCs] /\ call' \in [Calls -> CallRecord]
    BY <1>2 DEF Abandon, ControlInv, PCs
  <2> QED
    BY <1>2, <2>1, <2>2, <2>3, <2>4, SameDisks, SameGhosts DEF Abandon, ControlInv
<1>3. CASE LateArrives(c)
  <2>1. ControlInv'
    BY <1>3, DropKeeps DEF LateArrives
  <2>2. /\ pc[c] = "late"
        /\ call[c].op \in Operations
        /\ call[c].op = "create" => call[c].name \in Names
        /\ call[c].op # "create" => call[c].vol \in Volumes
        /\ call[c].op = "publish" => call[c].node \in Instances
        /\ call[c].vol \in Volumes \cup {NoVolume}
        /\ call[c].size \in 0..MaxUnits
    BY <1>0, <1>3 DEF LateArrives, CallOK, CallRecord
  <2>3. CASE call[c].op = "create" /\ call[c].vol = NoVolume
    <3>1. PICK u \in Volumes, h \in Instances :
             /\ CreateVolume(u, call[c].name, h, call[c].size)
             /\ asked' = [asked EXCEPT ![u].top = call[c].size]
      BY <1>3, <2>3 DEF LateArrives, LateEffect
    <3>2. DiskInv'
      BY <2>2, <2>3, <3>1, CreateVolumeKeeps
    <3>3. GhostInv'
      BY <1>3, <2>2, <3>1 DEF LateArrives, GhostInv
    <3> QED
      BY <2>1, <3>2, <3>3
  <2>4. CASE call[c].op \in {"create", "unpublish"} /\ call[c].vol # NoVolume
    BY <1>3, <2>1, <2>2, <2>4, DetachVolumeKeeps, SameGhosts
       DEF LateArrives, LateEffect, ghosts
  <2>5. CASE call[c].op = "delete"
    BY <1>3, <2>1, <2>2, <2>5, DeleteVolumeKeeps, SameGhosts
       DEF LateArrives, LateEffect, ghosts
  <2>6. CASE call[c].op = "publish"
    BY <1>3, <2>1, <2>2, <2>6, AttachVolumeKeeps, SameGhosts
       DEF LateArrives, LateEffect, ghosts
  <2>7. CASE call[c].op = "expand"
    BY <1>3, <2>1, <2>2, <2>7, ExtendVolumeSizeKeeps, SameGhosts
       DEF LateArrives, LateEffect, ghosts
  <2> QED
    BY <2>2, <2>3, <2>4, <2>5, <2>6, <2>7 DEF Operations
<1>4. CASE LateIsLost(c)
  BY <1>4, DropKeeps, SameDisks, SameGhosts DEF LateIsLost
<1> QED
  BY <1>1, <1>2, <1>3, <1>4 DEF FaultStep

\* A replica that restarts keeps the invariant.
LEMMA RestartTypes ==
    ASSUME DiskInv, ControlInv, GhostInv, NEW r \in Replicas, Restart(r)
    PROVE  DiskInv' /\ ControlInv' /\ GhostInv'
<1>1. NoCall \in CallRecord /\ "idle" \in PCs
  BY DEF NoCall, CallRecord, PCs
<1>2. /\ inFlight' \in [Replicas -> SUBSET Keys]
      /\ pc' \in [Calls -> PCs]
      /\ call' \in [Calls -> CallRecord]
  BY <1>1 DEF Restart, Lose, ControlInv
<1>3. ASSUME NEW d \in Calls PROVE CallOK(d)'
  <2>1. CASE Running(d) /\ call[d].rep = r
    BY <2>1, IdleIsOK DEF Restart
  <2>2. CASE ~(Running(d) /\ call[d].rep = r)
    BY <2>2, OthersKeep DEF Restart, ControlInv
  <2> QED
    BY <2>1, <2>2
<1> QED
  BY <1>2, <1>3, SameDisks, SameGhosts DEF Restart, ControlInv

\* Every step of the controller, the cloud and the failures keeps the types and
\* the locals of the handlers in order.
THEOREM NextTypeInv == TypeInv /\ [Next]_vars => TypeInv'
<1> SUFFICES ASSUME DiskInv, ControlInv, GhostInv, [Next]_vars
             PROVE  DiskInv' /\ ControlInv' /\ GhostInv'
  BY TypeInvParts DEF TypeInv, TypeOK, ControlInv, GhostInv
<1>1. CASE UNCHANGED vars
  BY <1>1, SameDisks, SameGhosts, ControlUnchanged DEF vars
<1>2. ASSUME NEW c \in Calls, Begin(c) PROVE DiskInv' /\ ControlInv' /\ GhostInv'
  BY <1>2, BeginTypes
<1>3. ASSUME NEW c \in Calls, HandlerStep(c) PROVE DiskInv' /\ ControlInv' /\ GhostInv'
  BY <1>3, CreateTypes, DeleteTypes, PublishTypes, UnpublishTypes, ExpandTypes
     DEF HandlerStep
<1>4. ASSUME NEW c \in Calls, FaultStep(c) PROVE DiskInv' /\ ControlInv' /\ GhostInv'
  BY <1>4, FaultTypes
<1>5. ASSUME NEW r \in Replicas, Restart(r) PROVE DiskInv' /\ ControlInv' /\ GhostInv'
  BY <1>5, RestartTypes
<1>6. ASSUME NEW v \in Volumes, CloudStep(v) PROVE DiskInv' /\ ControlInv' /\ GhostInv'
  BY <1>6, CloudKeeps, SameGhosts, ControlUnchanged DEF CloudStep
<1> QED
  BY <1>1, <1>2, <1>3, <1>4, <1>5, <1>6 DEF Next

\* Type correctness, with what the locals of a handler are at each program
\* counter: whatever the interleaving and the failures.
THEOREM TypeCorrect == Spec => []TypeInv
  BY InitTypeInv, NextTypeInv, PTL DEF Spec

\* The type invariant of ControllerService holds in every run of the controller.
THEOREM SpecTypeOK == Spec => []TypeOK
<1>1. TypeInv => TypeOK
  BY DEF TypeInv
<1> QED
  BY <1>1, TypeCorrect, PTL

-----------------------------------------------------------------------------
(* The locks: every step of the controller is one of four kinds.           *)

\* A slot that does not move keeps its lock.
LEMMA SlotSame ==
    ASSUME NEW d, pc'[d] = pc[d], call'[d] = call[d]
    PROVE  Same(d)
  BY DEF Same, Holds, Key

\* A handler that goes on to a step on the same side of Insert changes no lock.
LEMMA GotoStays ==
    ASSUME ControlInv, NEW c \in Calls, NEW p, Goto(c, p),
           pc[c] \in LockedPCs <=> p \in LockedPCs
    PROVE  Stay
<1>1. ASSUME NEW d \in Calls \ {c} PROVE Same(d)
  BY SlotSame DEF Goto, ControlInv
<1>2. Same(c)
  BY DEF Goto, Same, Holds, Key, ControlInv
<1> QED
  BY <1>1, <1>2 DEF Stay, Goto

\* A handler that returns gives its key back.
LEMMA ReturnLeaves ==
    ASSUME ControlInv, NEW c \in Calls, Return(c)
    PROVE  Leave(c)
<1>1. ASSUME NEW d \in Calls \ {c} PROVE Same(d)
  BY SlotSame DEF Return, ControlInv
<1>2. ~Holds(c)'
  BY DEF Return, Holds, ControlInv, LockedPCs, CreatePCs, DeletePCs, UnpublishPCs
<1> QED
  BY <1>1, <1>2 DEF Leave, Return

\* A request that begins with Insert takes its key.
LEMMA BeginLockedEnters ==
    ASSUME ControlInv, NEW c \in Calls, NEW req, NEW key, NEW p \in LockedPCs,
           BeginLocked(c, req, key, p), Key(c)' = key
    PROVE  Enter(c)
<1>1. ASSUME NEW d \in Calls \ {c} PROVE Same(d)
  BY SlotSame DEF BeginLocked, ControlInv
<1>2. ~Holds(c) /\ Holds(c)'
  BY DEF BeginLocked, Holds, ControlInv, LockedPCs, CreatePCs, DeletePCs, UnpublishPCs
<1>3. call'[c] = req
  BY DEF BeginLocked, ControlInv
<1> QED
  BY <1>1, <1>2, <1>3 DEF Enter, BeginLocked

\* A request that begins without Insert takes none.
LEMMA BeginUnlockedStays ==
    ASSUME ControlInv, NEW c \in Calls, NEW req, NEW p, p \notin LockedPCs,
           BeginUnlocked(c, req, p)
    PROVE  Stay
<1>1. ASSUME NEW d \in Calls \ {c} PROVE Same(d)
  BY SlotSame DEF BeginUnlocked, ControlInv
<1>2. Same(c)
  BY DEF BeginUnlocked, Same, Holds, ControlInv, LockedPCs, CreatePCs, DeletePCs,
         UnpublishPCs
<1> QED
  BY <1>1, <1>2 DEF Stay, BeginUnlocked

LockStep == Stay \/ (\E c \in Calls : Enter(c) \/ Leave(c)) \/ (\E r \in Replicas : StopAll(r))

\* Every request begins with one of the four kinds of step.
LEMMA BeginLocks ==
    ASSUME ControlInv, NEW c \in Calls, Begin(c)
    PROVE  LockStep
<1> USE DEF LockedPCs, CreatePCs, DeletePCs, UnpublishPCs
<1>1. CASE BeginCreate(c)
  <2>1. PICK r \in Replicas, nm \in Names, s \in CreateSizes :
          BeginLocked(c, [Request("create", r, NoVolume, NoInstance)
                             EXCEPT !.name = nm, !.size = s], nm, "lookup")
    BY <1>1 DEF BeginCreate
  <2>2. Key(c)' = nm
    BY <2>1 DEF BeginLocked, Key, Request, NoCall, ControlInv
  <2> QED
    BY <2>1, <2>2, BeginLockedEnters DEF LockStep
<1>2. CASE BeginDelete(c)
  <2>1. PICK r \in Replicas, v \in Seen :
          BeginLocked(c, Request("delete", r, v, NoInstance), v, "delete")
    BY <1>2 DEF BeginDelete
  <2>2. Key(c)' = v
    BY <2>1 DEF BeginLocked, Key, Request, NoCall, ControlInv
  <2> QED
    BY <2>1, <2>2, BeginLockedEnters DEF LockStep
<1>3. CASE BeginPublish(c)
  BY <1>3, BeginUnlockedStays DEF BeginPublish, LockStep
<1>4. CASE BeginUnpublish(c)
  <2>1. PICK r \in Replicas, v \in Seen, n \in Nodes :
          BeginLocked(c, Request("unpublish", r, v, n), v, "detach")
    BY <1>4 DEF BeginUnpublish
  <2>2. Key(c)' = v
    BY <2>1 DEF BeginLocked, Key, Request, NoCall, ControlInv
  <2> QED
    BY <2>1, <2>2, BeginLockedEnters DEF LockStep
<1>5. CASE BeginExpand(c)
  BY <1>5, BeginUnlockedStays DEF BeginExpand, LockStep
<1> QED
  BY <1>1, <1>2, <1>3, <1>4, <1>5 DEF Begin

\* Every step of a handler is of one of the four kinds.
LEMMA HandlerLocks ==
    ASSUME ControlInv, NEW c \in Calls, HandlerStep(c)
    PROVE  LockStep
<1> USE DEF LockedPCs, CreatePCs, DeletePCs, UnpublishPCs, LockStep
<1>0. CallOK(c)
  BY DEF ControlInv
<1>1. CASE CreateStep(c)
  <2>1. CASE CreateLookup(c)
    BY <2>1, GotoStays, ReturnLeaves DEF CreateLookup
  <2>2. CASE CreateDisk(c)
    <3>1. CASE Return(c)
      BY <3>1, ReturnLeaves
    <3>2. ASSUME NEW v \in Volumes, NEW n \in Instances,
                 pc' = [pc EXCEPT ![c] = "inUse"],
                 call' = [call EXCEPT ![c].vol = v, ![c].node = n],
                 UNCHANGED inFlight
          PROVE  Stay
      <4>1. ASSUME NEW d \in Calls \ {c} PROVE Same(d)
        BY <3>2, SlotSame DEF ControlInv
      <4>2. Same(c)
        <5>1. call[c].op = "create" /\ pc[c] = "create" /\ call[c] \in CallRecord
          BY <1>0, <2>2 DEF CreateDisk, CallOK, ControlInv
        <5>2. pc'[c] = "inUse" /\ call'[c] = [call[c] EXCEPT !.vol = v, !.node = n]
          BY <3>2 DEF ControlInv
        <5> QED
          BY <5>1, <5>2 DEF Same, Holds, Key, CallRecord
      <4> QED
        BY <3>2, <4>1, <4>2 DEF Stay
    <3> QED
      BY <2>2, <3>1, <3>2 DEF CreateDisk
  <2>3. CASE CreateInUse(c)
    BY <2>3, GotoStays, ReturnLeaves DEF CreateInUse
  <2>4. CASE CreateDetachHelper(c)
    BY <2>4, GotoStays, ReturnLeaves DEF CreateDetachHelper
  <2>5. CASE CreateAvailable(c)
    BY <2>5, ReturnLeaves DEF CreateAvailable
  <2> QED
    BY <1>1, <2>1, <2>2, <2>3, <2>4, <2>5 DEF CreateStep
<1>2. CASE DeleteDisk(c)
  BY <1>2, ReturnLeaves DEF DeleteDisk
<1>3. CASE PublishStep(c)
  <2>1. CASE PublishInstance(c)
    BY <2>1, GotoStays, ReturnLeaves DEF PublishInstance
  <2>2. CASE PublishVolume(c)
    BY <2>2, GotoStays, ReturnLeaves DEF PublishVolume
  <2>3. CASE PublishLock(c)
    <3>1. CASE Return(c)
      BY <3>1, ReturnLeaves
    <3>2. CASE /\ Insert(call[c].rep, call[c].vol)
               /\ pc' = [pc EXCEPT ![c] = "attach"]
               /\ UNCHANGED call
      <4>1. ASSUME NEW d \in Calls \ {c} PROVE Same(d)
        BY <3>2, SlotSame DEF ControlInv
      <4>2. ~Holds(c) /\ Holds(c)'
        BY <2>3, <3>2 DEF PublishLock, Holds, ControlInv
      <4>3. Key(c)' = call[c].vol /\ call'[c].rep = call[c].rep
        BY <1>0, <2>3, <3>2 DEF PublishLock, Key, CallOK, PublishPCs
      <4> QED
        BY <3>2, <4>1, <4>2, <4>3 DEF Enter
    <3> QED
      BY <2>3, <3>1, <3>2 DEF PublishLock
  <2>4. CASE PublishAttach(c)
    BY <2>4, GotoStays, ReturnLeaves DEF PublishAttach
  <2>5. CASE PublishAttached(c)
    BY <2>5, GotoStays, ReturnLeaves DEF PublishAttached
  <2>6. CASE PublishDevice(c)
    BY <2>6, ReturnLeaves DEF PublishDevice
  <2> QED
    BY <1>3, <2>1, <2>2, <2>3, <2>4, <2>5, <2>6 DEF PublishStep
<1>4. CASE UnpublishStep(c)
  BY <1>4, GotoStays, ReturnLeaves DEF UnpublishStep, UnpublishDetach, UnpublishDetached
<1>5. CASE ExpandStep(c)
  BY <1>5, GotoStays, ReturnLeaves
     DEF ExpandStep, ExpandCurrent, ExpandExtend, ExpandExtended, ExpandCheck
<1> QED
  BY <1>1, <1>2, <1>3, <1>4, <1>5 DEF HandlerStep

\* Every failure is: a handler that fails gives its key back, a late request
\* holds none.
LEMMA FaultLocks ==
    ASSUME ControlInv, NEW c \in Calls, FaultStep(c)
    PROVE  LockStep
<1> USE DEF LockedPCs, CreatePCs, DeletePCs, UnpublishPCs, LockStep
<1>1. CASE Fail(c)
  BY <1>1, ReturnLeaves DEF Fail
<1>2. CASE Abandon(c)
  <2>1. ASSUME NEW d \in Calls \ {c} PROVE Same(d)
    BY <1>2, SlotSame DEF Abandon, ControlInv
  <2>2. ~Holds(c)'
    BY <1>2 DEF Abandon, Holds, ControlInv
  <2> QED
    BY <1>2, <2>1, <2>2 DEF Leave, Abandon
<1>3. CASE LateArrives(c) \/ LateIsLost(c)
  <2>1. ASSUME NEW d \in Calls \ {c} PROVE Same(d)
    BY <1>3, SlotSame DEF LateArrives, LateIsLost, ControlInv
  <2>2. Same(c)
    BY <1>3 DEF LateArrives, LateIsLost, Same, Holds, ControlInv
  <2> QED
    BY <1>3, <2>1, <2>2 DEF Stay, LateArrives, LateIsLost
<1> QED
  BY <1>1, <1>2, <1>3 DEF FaultStep

\* A restart stops all the handlers of its replica.
LEMMA RestartLocks ==
    ASSUME ControlInv, NEW r \in Replicas, Restart(r)
    PROVE  LockStep
<1>1. ASSUME NEW d \in Calls
      PROVE  IF Holds(d) /\ call[d].rep = r THEN ~Holds(d)' ELSE Same(d)
  BY DEF Restart, Running, Same, Holds, Key, LockedPCs, CreatePCs, DeletePCs, UnpublishPCs
<1> QED
  BY <1>1 DEF StopAll, Restart, LockStep

\* Every step of the controller is of one of the four kinds.
LEMMA EveryLockStep == ControlInv /\ [Next]_vars => LockStep
<1> SUFFICES ASSUME ControlInv, [Next]_vars PROVE LockStep
  OBVIOUS
<1>1. CASE UNCHANGED <<inFlight, handlers>>
  BY <1>1, SlotSame DEF handlers, LockStep, Stay
<1>2. CASE Next
  BY <1>1, <1>2, BeginLocks, HandlerLocks, FaultLocks, RestartLocks DEF Next, CloudStep
<1> QED
  BY <1>1, <1>2 DEF vars

-----------------------------------------------------------------------------
(* The tables and the handlers agree.                                      *)

\* A handler that holds a key runs on a replica, and its key is a key.
LEMMA HoldersRun ==
    ASSUME ControlInv, NEW c \in Calls, Holds(c)
    PROVE  call[c].rep \in Replicas /\ Key(c) \in Keys
  BY DEF ControlInv, CallOK, Holds, Key, Keys, Running, LockedPCs, CreatePCs, DeletePCs,
         PublishPCs, UnpublishPCs

\* NoLeakedKey, key by key: ...
LEMMA HeldKeys ==
    NoLeakedKey <=>
      \A r \in Replicas :
        /\ \A c \in Calls : Holds(c) /\ call[c].rep = r => Key(c) \in inFlight[r]
        /\ \A k \in inFlight[r] : \E c \in Calls : Holds(c) /\ call[c].rep = r /\ Key(c) = k
<1>1. ASSUME NEW r \in Replicas
      PROVE  inFlight[r] = {Key(c) : c \in {d \in Calls : Holds(d) /\ call[d].rep = r}}
             <=> /\ \A c \in Calls : Holds(c) /\ call[c].rep = r => Key(c) \in inFlight[r]
                 /\ \A k \in inFlight[r] :
                       \E c \in Calls : Holds(c) /\ call[c].rep = r /\ Key(c) = k
  OBVIOUS
<1> QED
  BY <1>1 DEF NoLeakedKey

\* ... and the same of the next state.
LEMMA HeldKeysNext ==
    NoLeakedKey' <=>
      \A r \in Replicas :
        /\ \A c \in Calls : Holds(c)' /\ call'[c].rep = r => Key(c)' \in inFlight'[r]
        /\ \A k \in inFlight'[r] :
              \E c \in Calls : Holds(c)' /\ call'[c].rep = r /\ Key(c)' = k
<1>1. ASSUME NEW r \in Replicas
      PROVE  inFlight'[r] = {Key(c)' : c \in {d \in Calls : Holds(d)' /\ call'[d].rep = r}}
             <=> /\ \A c \in Calls : Holds(c)' /\ call'[c].rep = r => Key(c)' \in inFlight'[r]
                 /\ \A k \in inFlight'[r] :
                       \E c \in Calls : Holds(c)' /\ call'[c].rep = r /\ Key(c)' = k
  OBVIOUS
<1> QED
  BY <1>1 DEF NoLeakedKey

\* A step that changes no lock keeps the invariant of the locks.
LEMMA StayKeepsLocks == ControlInv /\ LockInv /\ Stay => LockInv'
  BY HeldKeys, HeldKeysNext DEF LockInv, KeyExclusive, Stay, Same

\* Taking a key that is free keeps it, ...
LEMMA EnterKeepsLocks ==
    ASSUME ControlInv, ControlInv', LockInv, NEW c \in Calls, Enter(c)
    PROVE  LockInv'
<1> DEFINE r == call'[c].rep
           k == Key(c)'
<1>1. r \in Replicas
  BY HoldersRun DEF Enter, ControlInv, CallOK, Running, Holds, LockedPCs, CreatePCs,
     DeletePCs, PublishPCs, UnpublishPCs
<1>2. k \notin inFlight[r] /\ inFlight' = [inFlight EXCEPT ![r] = inFlight[r] \cup {k}]
  BY DEF Enter, Insert, Busy
<1>3. \A d \in Calls \ {c} : Holds(d) /\ call[d].rep = r => Key(d) # k
  BY <1>1, <1>2, HeldKeys DEF LockInv
<1>4. KeyExclusive'
  BY <1>3 DEF LockInv, KeyExclusive, Enter, Same
<1>5. ASSUME NEW q \in Replicas
      PROVE  /\ \A d \in Calls : Holds(d)' /\ call'[d].rep = q => Key(d)' \in inFlight'[q]
             /\ \A x \in inFlight'[q] :
                   \E d \in Calls : Holds(d)' /\ call'[d].rep = q /\ Key(d)' = x
  <2>1. ASSUME NEW d \in Calls, Holds(d)', call'[d].rep = q PROVE Key(d)' \in inFlight'[q]
    BY <1>1, <1>2, <2>1, HeldKeys DEF LockInv, Enter, Same, ControlInv
  <2>2. ASSUME NEW x \in inFlight'[q]
        PROVE  \E d \in Calls : Holds(d)' /\ call'[d].rep = q /\ Key(d)' = x
    <3>1. CASE q = r /\ x = k
      BY <3>1 DEF Enter
    <3>2. CASE ~(q = r /\ x = k)
      <4>1. x \in inFlight[q]
        BY <1>1, <1>2, <2>2, <3>2 DEF ControlInv
      <4>2. PICK d \in Calls : Holds(d) /\ call[d].rep = q /\ Key(d) = x
        BY <4>1, HeldKeys DEF LockInv
      <4> QED
        BY <4>2 DEF Enter, Same
    <3> QED
      BY <3>1, <3>2
  <2> QED
    BY <2>1, <2>2
<1> QED
  BY <1>4, <1>5, HeldKeysNext DEF LockInv

\* ... giving one's own key back keeps it, ...
LEMMA LeaveKeepsLocks ==
    ASSUME ControlInv, LockInv, NEW c \in Calls, Leave(c)
    PROVE  LockInv'
<1>1. KeyExclusive'
  BY DEF LockInv, KeyExclusive, Leave, Same
<1>2. CASE ~Holds(c)
  BY <1>1, <1>2, HeldKeys, HeldKeysNext DEF LockInv, Leave, Same, Unlock
<1>3. CASE Holds(c)
  <2> DEFINE r == call[c].rep
             k == Key(c)
  <2>1. r \in Replicas /\ inFlight' = [inFlight EXCEPT ![r] = inFlight[r] \ {k}]
    BY <1>3, HoldersRun DEF Leave, Unlock, Delete
  <2>2. \A d \in Calls \ {c} : ~(Holds(d) /\ call[d].rep = r /\ Key(d) = k)
    BY <1>3 DEF LockInv, KeyExclusive
  <2>3. ASSUME NEW q \in Replicas
        PROVE  /\ \A d \in Calls : Holds(d)' /\ call'[d].rep = q => Key(d)' \in inFlight'[q]
               /\ \A x \in inFlight'[q] :
                     \E d \in Calls : Holds(d)' /\ call'[d].rep = q /\ Key(d)' = x
    <3>1. ASSUME NEW d \in Calls, Holds(d)', call'[d].rep = q
          PROVE  Key(d)' \in inFlight'[q]
      BY <2>1, <2>2, <3>1, HeldKeys DEF LockInv, Leave, Same, ControlInv
    <3>2. ASSUME NEW x \in inFlight'[q]
          PROVE  \E d \in Calls : Holds(d)' /\ call'[d].rep = q /\ Key(d)' = x
      <4>1. x \in inFlight[q] /\ ~(q = r /\ x = k)
        BY <2>1, <3>2 DEF ControlInv
      <4>2. PICK d \in Calls : Holds(d) /\ call[d].rep = q /\ Key(d) = x
        BY <4>1, HeldKeys DEF LockInv
      <4> QED
        BY <4>1, <4>2 DEF Leave, Same
    <3> QED
      BY <3>1, <3>2
  <2> QED
    BY <1>1, <2>3, HeldKeysNext DEF LockInv
<1> QED
  BY <1>2, <1>3

\* ... and stopping all handlers of a replica along with its table keeps it.
LEMMA StopAllKeepsLocks ==
    ASSUME ControlInv, LockInv, NEW r \in Replicas, StopAll(r)
    PROVE  LockInv'
<1>1. KeyExclusive'
  BY DEF LockInv, KeyExclusive, StopAll, Same
<1>2. inFlight' = [inFlight EXCEPT ![r] = {}]
  BY DEF StopAll, Lose
<1>3. ASSUME NEW q \in Replicas
      PROVE  /\ \A d \in Calls : Holds(d)' /\ call'[d].rep = q => Key(d)' \in inFlight'[q]
             /\ \A x \in inFlight'[q] :
                   \E d \in Calls : Holds(d)' /\ call'[d].rep = q /\ Key(d)' = x
  <2>1. CASE q = r
    BY <1>2, <2>1 DEF StopAll, Same, ControlInv
  <2>2. CASE q # r
    BY <1>2, <2>2, HeldKeys DEF StopAll, Same, ControlInv, LockInv
  <2> QED
    BY <2>1, <2>2
<1> QED
  BY <1>1, <1>3, HeldKeysNext DEF LockInv

\* Initially no handler runs and every table is empty.
THEOREM InitLockInv == Init => LockInv
  BY HeldKeys DEF Init, NewInFlight, LockInv, KeyExclusive, Holds, LockedPCs, CreatePCs,
     DeletePCs, UnpublishPCs

\* Every step keeps tables and handlers in agreement: Insert of inflight.go and
\* the deferred Delete of the handlers pair up.
THEOREM NextLockInv == TypeInv /\ LockInv /\ [Next]_vars => LockInv'
<1> SUFFICES ASSUME ControlInv, ControlInv', LockInv, [Next]_vars PROVE LockInv'
  BY NextTypeInv, TypeInvParts DEF TypeInv, TypeOK, ControlInv
<1>1. LockStep
  BY EveryLockStep
<1> QED
  BY <1>1, StayKeepsLocks, EnterKeepsLocks, LeaveKeepsLocks, StopAllKeepsLocks
     DEF LockStep

\* No two handlers of a replica work under one key, and no key is left
\* behind, whatever fails or restarts in between.
THEOREM LocksCorrect == Spec => [](KeyExclusive /\ NoLeakedKey)
<1>1. LockInv <=> KeyExclusive /\ NoLeakedKey
  BY DEF LockInv
<1> QED
  BY <1>1, InitTypeInv, InitLockInv, NextTypeInv, NextLockInv, PTL DEF Spec

\* Every key in a table is that of a handler at work: no way out of a handler
\* leaves its volume answering Aborted for ever.
THEOREM KeysGivenBack == Spec => []NoLeakedKey
  BY LocksCorrect, PTL

-----------------------------------------------------------------------------
(* The controller implements the keyed mutex.                              *)

\* What a slot has locked, and how a step changes it.
LEMMA LockIs ==
    ASSUME NEW c \in Calls
    PROVE  /\ lockOf[c] = IF Holds(c) THEN <<call[c].rep, Key(c)>> ELSE NoLock
           /\ lockOf'[c] = IF Holds(c)' THEN <<call'[c].rep, Key(c)'>> ELSE NoLock
           /\ Same(c) => lockOf'[c] = lockOf[c]
  BY DEF lockOf, Same

\* The locks are a function of the slots.
LEMMA LockShape ==
    /\ lockOf = [c \in Calls |-> lockOf[c]]
    /\ lockOf' = [c \in Calls |-> lockOf'[c]]
  BY DEF lockOf

\* A lock is not NoLock.
LEMMA HasLock ==
    ASSUME ControlInv, NEW c \in Calls, Holds(c)
    PROVE  /\ call[c].rep \in Replicas /\ Key(c) \in Keys
           /\ lockOf[c] = <<call[c].rep, Key(c)>>
           /\ lockOf[c] # NoLock
  BY HoldersRun, LockIs, LocksAssumption

\* The controller starts as the mutex does.
LEMMA InitMutex == Init => Mutex!Init
  BY DEF Init, lockOf, Holds, LockedPCs, CreatePCs, DeletePCs, UnpublishPCs, Mutex!Init

\* Every step of the controller is a step of the mutex, or none.
LEMMA NextMutex ==
    ASSUME ControlInv, ControlInv', LockInv, LockStep
    PROVE  [Mutex!Next]_lockOf
<1>1. CASE Stay
  BY <1>1, LockIs, LockShape DEF Stay
<1>2. ASSUME NEW c \in Calls, Enter(c) PROVE Mutex!Next
  <2> DEFINE r == call'[c].rep
             k == Key(c)'
  <2>1. r \in Replicas /\ k \in Keys
    BY <1>2 DEF Enter, ControlInv, CallOK, Holds, Key, Keys, Running, LockedPCs, CreatePCs,
       DeletePCs, PublishPCs, UnpublishPCs
  <2>2. ASSUME NEW d \in Calls, lockOf[d] = <<r, k>> PROVE FALSE
    <3>1. Holds(d)
      BY <2>1, <2>2, LockIs, LocksAssumption
    <3>2. call[d].rep = r /\ Key(d) = k
      BY <2>2, <3>1, HasLock
    <3>3. k \in inFlight[r]
      BY <2>1, <3>1, <3>2 DEF LockInv, NoLeakedKey
    <3> QED
      BY <1>2, <3>3 DEF Enter, Insert, Busy
  <2>3. lockOf[c] = NoLock /\ lockOf'[c] = <<r, k>>
    BY <1>2, LockIs DEF Enter
  <2>4. lockOf' = [lockOf EXCEPT ![c] = <<r, k>>]
    BY <1>2, <2>3, LockIs, LockShape DEF Enter
  <2> QED
    BY <2>1, <2>2, <2>3, <2>4 DEF Mutex!Next, Mutex!Acquire
<1>3. ASSUME NEW c \in Calls, Leave(c) PROVE [Mutex!Next]_lockOf
  <2>1. lockOf' = [lockOf EXCEPT ![c] = NoLock]
    BY <1>3, LockIs, LockShape DEF Leave
  <2>2. CASE ~Holds(c)
    BY <2>1, <2>2, LockIs, LockShape
  <2>3. CASE Holds(c)
    BY <2>1, <2>3, HasLock DEF Mutex!Next, Mutex!Release
  <2> QED
    BY <2>2, <2>3
<1>4. ASSUME NEW r \in Replicas, StopAll(r) PROVE Mutex!Next
  <2>1. ASSUME NEW d \in Calls
        PROVE  lockOf'[d] =
                 IF \E k \in Keys : lockOf[d] = <<r, k>> THEN NoLock ELSE lockOf[d]
    <3>1. CASE Holds(d) /\ call[d].rep = r
      BY <1>4, <3>1, HasLock, LockIs DEF StopAll
    <3>2. CASE Holds(d) /\ call[d].rep # r
      <4>1. lockOf'[d] = lockOf[d]
        BY <1>4, <3>2, LockIs DEF StopAll
      <4>2. \A k \in Keys : lockOf[d] # <<r, k>>
        <5>1. lockOf[d] = <<call[d].rep, Key(d)>>
          BY <3>2, HasLock
        <5> QED
          BY <3>2, <5>1
      <4> QED
        BY <4>1, <4>2
    <3>3. CASE ~Holds(d)
      BY <1>4, <3>3, LockIs, LocksAssumption DEF StopAll
    <3> QED
      BY <3>1, <3>2, <3>3
  <2>2. lockOf' = [d \in Calls |->
                     IF \E k \in Keys : lockOf[d] = <<r, k>> THEN NoLock ELSE lockOf[d]]
    BY <2>1, LockShape
  <2> QED
    BY <2>2 DEF Mutex!Next, Mutex!Stop
<1> QED
  BY <1>1, <1>2, <1>3, <1>4 DEF LockStep

\* The handlers and the in-flight tables together implement KeyedMutex.
THEOREM MutexImplemented == Spec => ImplementsMutex
<1>1. ASSUME TypeInv, TypeInv', LockInv, [Next]_vars
      PROVE  [Mutex!Next]_lockOf
  BY <1>1, NextMutex, EveryLockStep DEF TypeInv, TypeOK, ControlInv
<1> QED
  BY <1>1, InitMutex, InitTypeInv, InitLockInv, NextTypeInv, NextLockInv, PTL
     DEF Spec, ImplementsMutex, Mutex!Spec

=============================================================================
