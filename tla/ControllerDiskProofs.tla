------------------------ MODULE ControllerDiskProofs ------------------------
(***************************************************************************)
(* What one leader for a sidecar guarantees of the disks, for every value  *)
(* of the constants: no name has two, a published volume stays attached,   *)
(* and the controller implements VolumeAttachment for every instance.      *)
(***************************************************************************)
EXTENDS ControllerAttachments, ControllerNamingProofs

USE NifcloudAssumption, InFlightAssumption, ControllerAssumption, AttachmentsAssumption
USE DEF DiskInv

(* One leader for a sidecar: what holds of disks and of what the CO knows. *)

GlobalInv == OneDiskPerName /\ KnownExist /\ PublishedAreKnown /\ PublishedStaysAttached

\* The invariant is about each handler, or about all disks.
LEMMA OneLeaderParts == OneLeaderInv <=> GlobalInv /\ \A c \in Calls : LocalOK(c)
  BY DEF OneLeaderInv, GlobalInv

\* The handlers of one sidecar exclude each other.
LEMMA Excluded ==
    ASSUME OneLeaderEach, ControlInv, KeyExclusive, NEW c \in Calls, NEW d \in Calls,
           Holds(c), Holds(d), Key(c) = Key(d),
           SidecarOf(call[c].op) = SidecarOf(call[d].op),
           SidecarOf(call[c].op) \in {"provisioner", "attacher"}
    PROVE  c = d
<1>1. Running(c) /\ Running(d)
  BY DEF Running, Holds, LockedPCs, CreatePCs, DeletePCs, UnpublishPCs
<1>2. call[c].rep \in Leaders[SidecarOf(call[c].op)]
      /\ call[d].rep \in Leaders[SidecarOf(call[c].op)]
  BY <1>1 DEF ControlInv, CallOK
<1>3. PICK r \in Replicas : Leaders[SidecarOf(call[c].op)] = {r}
  BY DEF OneLeaderEach, SoleLeader
<1> QED
  BY <1>2, <1>3 DEF KeyExclusive

\* Two handlers never create a disk of one name at a time.
LEMMA CreatorsExcluded ==
    ASSUME OneLeaderEach, ControlInv, KeyExclusive, NEW c \in Calls, NEW d \in Calls,
           pc[c] \in CreatePCs, pc[d] \in CreatePCs, call[c].name = call[d].name
    PROVE  c = d
<1>1. /\ Holds(c) /\ Holds(d) /\ Key(c) = Key(d)
      /\ call[c].op = "create" /\ call[d].op = "create"
  BY DEF ControlInv, CallOK, Holds, LockedPCs, Key
<1> QED
  BY <1>1, Excluded DEF SidecarOf

\* Two handlers of the attacher never work on one volume at a time.
LEMMA AttachersExcluded ==
    ASSUME OneLeaderEach, ControlInv, KeyExclusive, NEW c \in Calls, NEW d \in Calls,
           pc[c] = "device", pc[d] = "detach", call[c].vol = call[d].vol
    PROVE  FALSE
<1>1. /\ Holds(c) /\ Holds(d) /\ Key(c) = Key(d)
      /\ call[c].op = "publish" /\ call[d].op = "unpublish"
  BY DEF ControlInv, CallOK, Holds, LockedPCs, Key, PublishPCs, UnpublishPCs
<1>2. c = d
  BY <1>1, Excluded DEF SidecarOf
<1> QED
  BY <1>2

\* An idle slot relies on nothing.
LEMMA IdleIsLocallyOK ==
    ASSUME NEW c, pc'[c] = "idle"
    PROVE  LocalOK(c)'
  BY DEF LocalOK, CreatedPCs, DeletePCs, PublishPCs, UnpublishPCs, ExpandPCs

\* A slot that does not move stays right as long as the disks keep their
\* names, the CO learns no volume and no volume gets published.
LEMMA LocalKept ==
    ASSUME ControlInv, KeepsIdentity, UNCHANGED known, published' \subseteq published,
           NEW c \in Calls, LocalOK(c), pc'[c] = pc[c], call'[c] = call[c]
    PROVE  LocalOK(c)'
<1>1. DisksNamed(call[c].name)' = DisksNamed(call[c].name)
  BY DEF DisksNamed, KeepsIdentity
<1>2. pc[c] \in CreatedPCs => call[c].vol \in Volumes
  BY DEF ControlInv, CallOK
<1> QED
  BY <1>1, <1>2, SameSeen DEF LocalOK, KeepsIdentity

\* What holds of all disks holds as long as disks keep their identity and nothing
\* published loses its attachment.
LEMMA GlobalKept ==
    ASSUME GlobalInv, GhostInv, KeepsIdentity, UNCHANGED known,
           published' \subseteq published, PublishedStaysAttached'
    PROVE  GlobalInv'
  BY DEF GlobalInv, GhostInv, KeepsIdentity, OneDiskPerName, KnownExist, PublishedAreKnown

\* Where no disk changes, nothing newly published is wrong.
LEMMA PublishedKept ==
    ASSUME PublishedStaysAttached, UNCHANGED disk, published' \subseteq published
    PROVE  PublishedStaysAttached'
  BY DEF PublishedStaysAttached, InUse

\* A step of one handler that leaves disks and volumes known alone: only
\* what that handler relies on has to be looked at.
LEMMA QuietStep ==
    ASSUME ControlInv, GhostInv, OneLeaderInv, UNCHANGED <<disk, known>>,
           published' \subseteq published, NEW c \in Calls, LocalOK(c)',
           \A d \in Calls \ {c} : pc'[d] = pc[d] /\ call'[d] = call[d]
    PROVE  OneLeaderInv'
<1>1. KeepsIdentity
  BY SameDisksKeepIdentity
<1>2. GlobalInv'
  BY <1>1, GlobalKept, PublishedKept, OneLeaderParts DEF GlobalInv
<1>3. ASSUME NEW d \in Calls \ {c} PROVE LocalOK(d)'
  BY <1>1, LocalKept, OneLeaderParts
<1> QED
  BY <1>2, <1>3 DEF OneLeaderInv, GlobalInv

\* A request begins with what it relies on: an unpublish with the CO's consent.
LEMMA BeginOneLeader ==
    ASSUME ControlInv, GhostInv, OneLeaderInv, NEW c \in Calls, Begin(c)
    PROVE  OneLeaderInv'
<1> USE DEF CreatePCs, CreatedPCs, DeletePCs, PublishPCs, UnpublishPCs, ExpandPCs
<1>1. UNCHANGED <<disk, known>> /\ published' \subseteq published
  BY DEF Begin, BeginCreate, BeginDelete, BeginPublish, BeginUnpublish, BeginExpand, ghosts
<1>2. \A d \in Calls \ {c} : pc'[d] = pc[d] /\ call'[d] = call[d]
  <2>1. \E p, req : pc' = [pc EXCEPT ![c] = p] /\ call' = [call EXCEPT ![c] = req]
    <3>1. CASE BeginCreate(c) \/ BeginDelete(c) \/ BeginUnpublish(c)
      BY <3>1 DEF BeginCreate, BeginDelete, BeginUnpublish, BeginLocked
    <3>2. CASE BeginPublish(c) \/ BeginExpand(c)
      BY <3>2 DEF BeginPublish, BeginExpand, BeginUnlocked
    <3> QED
      BY <3>1, <3>2 DEF Begin
  <2> QED
    BY <2>1 DEF ControlInv
<1>3. Seen' = Seen
  BY <1>1 DEF Seen
<1>4. LocalOK(c)'
  <2>1. CASE BeginCreate(c)
    BY <2>1 DEF BeginCreate, BeginLocked, LocalOK, ControlInv
  <2>2. CASE BeginDelete(c)
    <3>1. PICK r \in Replicas, v \in Seen :
            BeginLocked(c, Request("delete", r, v, NoInstance), v, "delete")
      BY <2>2 DEF BeginDelete
    <3>2. pc'[c] = "delete" /\ call'[c].vol = v
      BY <3>1 DEF BeginLocked, ControlInv, Request, NoCall
    <3> QED
      BY <1>3, <3>2 DEF LocalOK
  <2>3. CASE BeginPublish(c)
    <3>1. PICK r \in Replicas, v \in Seen, n \in Nodes :
            BeginUnlocked(c, Request("publish", r, v, n), "instance")
      BY <2>3 DEF BeginPublish
    <3>2. pc'[c] = "instance" /\ call'[c].vol = v
      BY <3>1 DEF BeginUnlocked, ControlInv, Request, NoCall
    <3> QED
      BY <1>3, <3>2 DEF LocalOK
  <2>4. CASE BeginUnpublish(c)
    <3>1. PICK r \in Replicas, v \in Seen, n \in Nodes :
            /\ BeginLocked(c, Request("unpublish", r, v, n), v, "detach")
            /\ published' = published \ {<<v, n>>}
      BY <2>4 DEF BeginUnpublish
    <3>2. pc'[c] = "detach" /\ call'[c].vol = v /\ call'[c].node = n
      BY <3>1 DEF BeginLocked, ControlInv, Request, NoCall
    <3> QED
      BY <1>3, <3>1, <3>2 DEF LocalOK
  <2>5. CASE BeginExpand(c)
    <3>1. PICK r \in Replicas, v \in Seen, s \in ExpandSizes :
            BeginUnlocked(c, [Request("expand", r, v, NoInstance) EXCEPT !.size = s],
                          "current")
      BY <2>5 DEF BeginExpand
    <3>2. pc'[c] = "current" /\ call'[c].vol = v
      BY <3>1 DEF BeginUnlocked, ControlInv, Request, NoCall
    <3> QED
      BY <1>3, <3>2 DEF LocalOK
  <2> QED
    BY <2>1, <2>2, <2>3, <2>4, <2>5 DEF Begin
<1> QED
  BY <1>1, <1>2, <1>4, QuietStep

\* A handler that returns, or goes on to a step that relies on no more.
LEMMA QuietReturn ==
    ASSUME ControlInv, GhostInv, OneLeaderInv, NEW c \in Calls, Return(c),
           UNCHANGED <<disk, known>>, published' \subseteq published
    PROVE  OneLeaderInv'
<1>1. \A d \in Calls \ {c} : pc'[d] = pc[d] /\ call'[d] = call[d]
  BY DEF Return, ControlInv
<1>2. LocalOK(c)'
  BY IdleIsLocallyOK DEF Return, ControlInv
<1> QED
  BY <1>1, <1>2, QuietStep

\* The same of a handler that goes on.
LEMMA QuietGoto ==
    ASSUME ControlInv, GhostInv, OneLeaderInv, NEW c \in Calls, NEW p, Goto(c, p),
           UNCHANGED <<disk, known, published>>, LocalOK(c)'
    PROVE  OneLeaderInv'
<1>1. \A d \in Calls \ {c} : pc'[d] = pc[d] /\ call'[d] = call[d]
  BY DEF Goto, ControlInv
<1> QED
  BY <1>1, QuietStep

\* A step that changes the state of a disk: nothing published may lose its
\* attachment.
LEMMA DiskStep ==
    ASSUME ControlInv, GhostInv, OneLeaderInv, NEW c \in Calls, NEW p, Goto(c, p),
           UNCHANGED <<known, published>>, KeepsIdentity, LocalOK(c)',
           PublishedStaysAttached'
    PROVE  OneLeaderInv'
<1>1. \A d \in Calls \ {c} : LocalOK(d)'
  BY LocalKept, OneLeaderParts DEF Goto, ControlInv
<1>2. GlobalInv'
  BY GlobalKept, OneLeaderParts
<1> QED
  BY <1>1, <1>2 DEF OneLeaderInv, GlobalInv

\* CreateVolume keeps the invariant: the lookup excludes a second disk of the name
\* until the creation, and the disk it detaches from the helper is not known to the
\* CO, hence published nowhere.
LEMMA CreateOneLeader ==
    ASSUME OneLeaderEach, DiskInv, ControlInv, GhostInv, KeyExclusive, OneLeaderInv,
           NEW c \in Calls, CreateStep(c)
    PROVE  OneLeaderInv'
<1> USE DEF CreatePCs, CreatedPCs, DeletePCs, PublishPCs, UnpublishPCs, ExpandPCs
<1>0. CallOK(c) /\ LocalOK(c)
  BY DEF ControlInv, OneLeaderInv
\* The CO learns of v: the disk of a handler that has just returned.
<1>k. ASSUME NEW v \in Volumes, Exists(v), pc[c] \in CreatePCs, Return(c),
             disk[v].name = call[c].name, known' = known \cup {v},
             UNCHANGED <<disk, published>>
      PROVE  OneLeaderInv'
  <2>1. ASSUME NEW d \in Calls \ {c} PROVE LocalOK(d)'
    <3>1. pc'[d] = pc[d] /\ call'[d] = call[d] /\ LocalOK(d)
      BY <1>k DEF Return, ControlInv, OneLeaderInv
    <3>2. Seen \subseteq Seen' /\ Seen' = Seen \cup {v}
      BY <1>k DEF Seen
    <3>3. pc[d] \in CreatedPCs => call[d].vol # v
      BY <1>k, <3>1, CreatorsExcluded DEF LocalOK
    <3>4. DisksNamed(call[d].name)' = DisksNamed(call[d].name)
      BY <1>k, <3>1 DEF DisksNamed, Exists
    <3> QED
      BY <1>k, <3>1, <3>2, <3>3, <3>4 DEF LocalOK, Exists
  <2>2. LocalOK(c)'
    BY <1>k, IdleIsLocallyOK DEF Return, ControlInv
  <2>3. GlobalInv'
    BY <1>k, OneLeaderParts
       DEF GlobalInv, OneDiskPerName, KnownExist, PublishedAreKnown,
           PublishedStaysAttached, Exists, InUse
  <2> QED
    BY <2>1, <2>2, <2>3 DEF OneLeaderInv, GlobalInv
<1>1. CASE CreateLookup(c)
  <2>1. CASE Goto(c, "create") /\ DisksNamed(call[c].name) = {} /\ UNCHANGED known
    <3>1. LocalOK(c)'
      BY <1>0, <1>1, <2>1 DEF CreateLookup, Goto, LocalOK, ControlInv, DisksNamed, Exists
    <3> QED
      BY <1>1, <2>1, <3>1, QuietGoto DEF CreateLookup
  <2>2. ASSUME NEW v \in DisksNamed(call[c].name), Return(c),
               known' = IF SameSize(v, call[c].size) THEN known \cup {v} ELSE known
        PROVE  OneLeaderInv'
    <3>1. CASE known' = known
      BY <1>1, <2>2, <3>1, QuietReturn DEF CreateLookup
    <3>2. CASE known' = known \cup {v}
      BY <1>1, <1>k, <2>2, <3>2 DEF CreateLookup, DisksNamed
    <3> QED
      BY <2>2, <3>1, <3>2
  <2> QED
    BY <1>1, <2>1, <2>2 DEF CreateLookup
<1>2. CASE CreateDisk(c)
  <2>1. CASE Return(c) /\ UNCHANGED disk
    BY <1>2, <2>1, QuietReturn DEF CreateDisk
  <2>2. ASSUME NEW v \in Volumes, NEW n \in Instances,
               CreateVolume(v, call[c].name, n, call[c].size),
               pc' = [pc EXCEPT ![c] = "inUse"],
               call' = [call EXCEPT ![c].vol = v, ![c].node = n]
        PROVE  OneLeaderInv'
    <3>1. /\ pc[c] = "create"
          /\ UNCHANGED <<known, published>>
          /\ disk[v].st = "unused"
          /\ disk'[v].st = "creating" /\ disk'[v].name = call[c].name
          /\ \A u \in Volumes \ {v} : disk'[u] = disk[u]
      BY <1>2, <2>2 DEF CreateDisk, CreateVolume
    <3>2. Seen' = Seen /\ v \notin Seen
      BY <3>1, OneLeaderParts DEF Seen, GlobalInv, KnownExist, Exists
    <3>3. \A u \in Volumes : Exists(u) => disk[u].name # call[c].name
      BY <1>0, <3>1 DEF LocalOK, DisksNamed
    <3>4. LocalOK(c)'
      <4>1. /\ pc'[c] = "inUse"
            /\ call'[c].vol = v
            /\ call'[c].name = call[c].name
        BY <2>2 DEF ControlInv, CallRecord
      <4> QED
        BY <3>1, <3>2, <4>1 DEF LocalOK, Exists
    <3>5. ASSUME NEW d \in Calls \ {c} PROVE LocalOK(d)'
      <4>1. pc'[d] = pc[d] /\ call'[d] = call[d] /\ LocalOK(d) /\ CallOK(d)
        BY <2>2 DEF ControlInv, OneLeaderInv
      <4>2. pc[d] = "create" => call[d].name # call[c].name
        BY <3>1, CreatorsExcluded
      <4>3. pc[d] = "create" => DisksNamed(call[d].name)' = {}
        BY <3>1, <4>1, <4>2 DEF LocalOK, DisksNamed, Exists
      <4>4. pc[d] \in CreatedPCs => call[d].vol \in Volumes \ {v}
        BY <3>1, <4>1 DEF LocalOK, CallOK, Exists
      <4> QED
        BY <3>1, <3>2, <4>1, <4>3, <4>4 DEF LocalOK, Exists
    <3>6. GlobalInv'
      <4>1. OneDiskPerName'
        BY <3>1, <3>3, OneLeaderParts DEF GlobalInv, OneDiskPerName, Exists
      <4>2. KnownExist' /\ PublishedAreKnown'
        BY <3>1, OneLeaderParts
           DEF GlobalInv, GhostInv, KnownExist, PublishedAreKnown, Exists
      <4>3. PublishedStaysAttached'
        BY <3>1, OneLeaderParts DEF GlobalInv, PublishedStaysAttached, InUse
      <4> QED
        BY <4>1, <4>2, <4>3 DEF GlobalInv
    <3> QED
      BY <3>4, <3>5, <3>6 DEF OneLeaderInv, GlobalInv
  <2> QED
    BY <1>2, <2>1, <2>2 DEF CreateDisk
<1>3. CASE CreateInUse(c)
  <2>1. CASE Goto(c, "detachHelper")
    <3>1. LocalOK(c)'
      BY <1>0, <1>3, <2>1
         DEF CreateInUse, Goto, LocalOK, ControlInv, Seen, Exists, ghosts
    <3> QED
      BY <1>3, <2>1, <3>1, QuietGoto DEF CreateInUse, ghosts
  <2> QED
    BY <1>3, <2>1, QuietReturn DEF CreateInUse, ghosts
<1>4. CASE CreateDetachHelper(c)
  <2>1. CASE DetachVolume(call[c].vol, call[c].node) /\ Goto(c, "available")
    <3> DEFINE v == call[c].vol
    <3>1. v \in Volumes /\ v \notin known /\ UNCHANGED <<known, published>>
      BY <1>0, <1>4 DEF CreateDetachHelper, CallOK, LocalOK, Seen, ghosts
    <3>2. KeepsIdentity
      BY <2>1, <3>1, DetachKeepsIdentity
    <3>3. PublishedStaysAttached'
      BY <2>1, <3>1, OneLeaderParts
         DEF DetachVolume, GlobalInv, PublishedAreKnown, PublishedStaysAttached, InUse
    <3>4. LocalOK(c)'
      BY <1>0, <1>4, <2>1, <3>1, <3>2, SameSeen
         DEF CreateDetachHelper, Goto, LocalOK, ControlInv, KeepsIdentity
    <3> QED
      BY <2>1, <3>1, <3>2, <3>3, <3>4, DiskStep
  <2> QED
    BY <1>4, <2>1, QuietReturn DEF CreateDetachHelper, ghosts
<1>5. CASE CreateAvailable(c)
  <2>1. call[c].vol \in Volumes /\ disk[call[c].vol].name = call[c].name
        /\ Exists(call[c].vol)
    BY <1>0, <1>5 DEF CreateAvailable, CallOK, LocalOK
  <2> QED
    BY <1>5, <1>k, <2>1 DEF CreateAvailable
<1> QED
  BY <1>1, <1>2, <1>3, <1>4, <1>5 DEF CreateStep

\* DeleteVolume keeps the invariant: only a disk without attachment goes, which is
\* published nowhere.
LEMMA DeleteOneLeader ==
    ASSUME DiskInv, ControlInv, GhostInv, OneLeaderInv, NEW c \in Calls, DeleteDisk(c)
    PROVE  OneLeaderInv'
<1> DEFINE v == call[c].vol
<1>0. /\ v \in Volumes /\ v \in Seen
      /\ Return(c) /\ pc[c] = "delete"
      /\ UNCHANGED published
  BY DEF DeleteDisk, ControlInv, OneLeaderInv, CallOK, LocalOK, DeletePCs
<1>1. CASE UNCHANGED <<disk, known>>
  BY <1>0, <1>1, QuietReturn
<1>2. CASE (DeleteVolume(v) \/ (~Exists(v) /\ UNCHANGED disk)) /\ known' = known \ {v}
  <2>1. /\ \A u \in Volumes \ {v} : disk'[u] = disk[u]
        /\ disk'[v].st = "deleted"
        /\ \A n \in Instances : <<v, n>> \notin published
    <3>0. ~InUse(v) => \A n \in Instances : <<v, n>> \notin published
      BY <1>0, OneLeaderParts DEF GlobalInv, PublishedStaysAttached
    <3>1. CASE DeleteVolume(v)
      <4>1. IsAvailable(v) /\ disk' = [disk EXCEPT ![v] = NoDisk("deleted")]
        BY <3>1 DEF DeleteVolume
      <4>2. /\ \A u \in Volumes \ {v} : disk'[u] = disk[u]
            /\ disk'[v].st = "deleted"
        BY <1>0, <4>1 DEF NoDisk, DiskInv
      <4> QED
        BY <3>0, <4>1, <4>2 DEF IsAvailable, InUse
    <3>2. CASE ~Exists(v) /\ UNCHANGED disk
      <4>1. disk[v].st = "deleted"
        BY <1>0, <3>2, OneLeaderParts DEF Seen, Exists, GlobalInv, KnownExist
      <4> QED
        BY <3>0, <3>2, <4>1 DEF InUse
    <3> QED
      BY <1>2, <3>1, <3>2
  <2>2. Seen' = Seen
    BY <1>0, <1>2, <2>1 DEF Seen
  <2>3. ASSUME NEW d \in Calls \ {c} PROVE LocalOK(d)'
    <3>1. pc'[d] = pc[d] /\ call'[d] = call[d] /\ LocalOK(d) /\ CallOK(d)
      BY <1>0 DEF Return, ControlInv, OneLeaderInv
    <3>2. pc[d] = "create" => DisksNamed(call[d].name)' = {}
      BY <2>1, <3>1 DEF LocalOK, DisksNamed, Exists
    <3>3. pc[d] \in CreatedPCs => call[d].vol \in Volumes \ {v}
      BY <1>0, <3>1 DEF LocalOK, CallOK
    <3> QED
      BY <1>0, <2>1, <2>2, <3>1, <3>2, <3>3 DEF LocalOK, Exists
  <2>4. LocalOK(c)'
    BY <1>0, IdleIsLocallyOK DEF Return, ControlInv
  <2>5. OneDiskPerName'
    BY <2>1, OneLeaderParts DEF GlobalInv, OneDiskPerName, Exists
  <2>6. KnownExist' /\ PublishedAreKnown'
    BY <1>0, <1>2, <2>1, OneLeaderParts
       DEF GlobalInv, GhostInv, KnownExist, PublishedAreKnown, Exists
  <2>7. PublishedStaysAttached'
    BY <1>0, <2>1, OneLeaderParts DEF GlobalInv, PublishedStaysAttached, InUse
  <2> QED
    BY <2>3, <2>4, <2>5, <2>6, <2>7 DEF OneLeaderInv
<1> QED
  BY <1>1, <1>2 DEF DeleteDisk

\* ControllerPublishVolume keeps the invariant: it publishes what the block device
\* mapping of the node shows.
LEMMA PublishOneLeader ==
    ASSUME OneLeaderEach, DiskInv, ControlInv, GhostInv, KeyExclusive, OneLeaderInv,
           NEW c \in Calls, PublishStep(c)
    PROVE  OneLeaderInv'
<1> USE DEF CreatePCs, CreatedPCs, DeletePCs, PublishPCs, UnpublishPCs, ExpandPCs
<1>0. CallOK(c) /\ LocalOK(c)
  BY DEF ControlInv, OneLeaderInv
\* Going on, the handler relies on nothing but the CO's knowing the volume.
<1>g. ASSUME NEW p \in {"volume", "lock", "device"}, pc[c] \in PublishPCs, Goto(c, p),
             UNCHANGED <<disk, ghosts>>
      PROVE  OneLeaderInv'
  <2>1. LocalOK(c)'
    BY <1>0, <1>g DEF Goto, LocalOK, ControlInv, Seen, ghosts
  <2> QED
    BY <1>g, <2>1, QuietGoto DEF ghosts
<1>r. ASSUME Return(c), UNCHANGED <<disk, ghosts>> PROVE OneLeaderInv'
  BY <1>r, QuietReturn DEF ghosts
<1>1. CASE PublishInstance(c)
  BY <1>1, <1>g, <1>r DEF PublishInstance
<1>2. CASE PublishVolume(c)
  BY <1>2, <1>g, <1>r DEF PublishVolume
<1>3. CASE PublishLock(c)
  <2>1. CASE pc' = [pc EXCEPT ![c] = "attach"] /\ UNCHANGED call
    <3>1. LocalOK(c)'
      BY <1>0, <1>3, <2>1 DEF PublishLock, LocalOK, ControlInv, Seen, ghosts
    <3>2. \A d \in Calls \ {c} : pc'[d] = pc[d] /\ call'[d] = call[d]
      BY <2>1 DEF ControlInv
    <3> QED
      BY <1>3, <3>1, <3>2, QuietStep DEF PublishLock, ghosts
  <2> QED
    BY <1>3, <1>r, <2>1 DEF PublishLock
<1>4. CASE PublishAttach(c)
  <2>1. CASE AttachVolume(call[c].vol, call[c].node) /\ Goto(c, "attached")
    <3> DEFINE v == call[c].vol
    <3>1. v \in Volumes /\ UNCHANGED <<known, published>>
      BY <1>0, <1>4 DEF PublishAttach, CallOK, ghosts
    <3>2. KeepsIdentity
      BY <2>1, <3>1, AttachKeepsIdentity
    <3>3. PublishedStaysAttached'
      BY <2>1, <3>1, OneLeaderParts
         DEF AttachVolume, IsAvailable, GlobalInv, PublishedStaysAttached, InUse
    <3>4. LocalOK(c)'
      BY <1>0, <1>4, <2>1, <3>1, <3>2, SameSeen
         DEF PublishAttach, Goto, LocalOK, ControlInv
    <3> QED
      BY <2>1, <3>1, <3>2, <3>3, <3>4, DiskStep
  <2> QED
    BY <1>4, <1>g, <1>r, <2>1 DEF PublishAttach
<1>5. CASE PublishAttached(c)
  BY <1>5, <1>g, <1>r DEF PublishAttached
<1>6. CASE PublishDevice(c)
  <2> DEFINE v == call[c].vol
             n == call[c].node
  <2>1. /\ v \in Volumes /\ n \in Instances /\ v \in Seen
        /\ Return(c) /\ pc[c] = "device"
        /\ UNCHANGED <<disk, known>>
    BY <1>0, <1>6 DEF PublishDevice, CallOK, LocalOK
  <2>2. CASE UNCHANGED published
    BY <2>1, <2>2, QuietReturn
  <2>3. CASE Mapped(v, n) /\ published' = published \cup {<<v, n>>}
    <3>1. v \in known
      BY <2>1, <2>3 DEF Mapped, InUse, Seen
    <3>2. GlobalInv'
      BY <2>1, <2>3, <3>1, OneLeaderParts
         DEF GlobalInv, OneDiskPerName, KnownExist, PublishedAreKnown,
             PublishedStaysAttached, Exists, InUse, Mapped
    <3>3. ASSUME NEW d \in Calls \ {c} PROVE LocalOK(d)'
      <4>1. pc'[d] = pc[d] /\ call'[d] = call[d] /\ LocalOK(d)
        BY <2>1 DEF Return, ControlInv, OneLeaderInv
      <4>2. pc[d] = "detach" => call[d].vol # v
        BY <2>1, AttachersExcluded
      <4>3. DisksNamed(call[d].name)' = DisksNamed(call[d].name)
        BY <2>1, <4>1 DEF DisksNamed, Exists
      <4>4. Seen' = Seen
        BY <2>1 DEF Seen
      <4> QED
        BY <2>1, <2>3, <4>1, <4>2, <4>3, <4>4 DEF LocalOK, Exists
    <3>4. LocalOK(c)'
      BY <2>1, IdleIsLocallyOK DEF Return, ControlInv
    <3> QED
      BY <3>2, <3>3, <3>4 DEF OneLeaderInv, GlobalInv
  <2> QED
    BY <1>6, <2>2, <2>3 DEF PublishDevice
<1> QED
  BY <1>1, <1>2, <1>3, <1>4, <1>5, <1>6 DEF PublishStep

\* ControllerUnpublishVolume keeps the invariant: no publish of the volume runs
\* meanwhile, so the CO's consent to the detachment stands.
LEMMA UnpublishOneLeader ==
    ASSUME DiskInv, ControlInv, GhostInv, OneLeaderInv, NEW c \in Calls, UnpublishStep(c)
    PROVE  OneLeaderInv'
<1> USE DEF CreatePCs, CreatedPCs, DeletePCs, PublishPCs, UnpublishPCs, ExpandPCs
<1>0. CallOK(c) /\ LocalOK(c)
  BY DEF ControlInv, OneLeaderInv
<1>r. ASSUME Return(c), UNCHANGED <<disk, ghosts>> PROVE OneLeaderInv'
  BY <1>r, QuietReturn DEF ghosts
<1>1. CASE UnpublishDetach(c)
  <2>1. CASE DetachVolume(call[c].vol, call[c].node) /\ Goto(c, "detached")
    <3> DEFINE v == call[c].vol
               n == call[c].node
    <3>1. v \in Volumes /\ <<v, n>> \notin published /\ UNCHANGED <<known, published>>
      BY <1>0, <1>1 DEF UnpublishDetach, CallOK, LocalOK, ghosts
    <3>2. KeepsIdentity
      BY <2>1, <3>1, DetachKeepsIdentity
    <3>3. PublishedStaysAttached'
      BY <2>1, <3>1, OneLeaderParts
         DEF DetachVolume, CanDetach, GlobalInv, PublishedStaysAttached, InUse
    <3>4. LocalOK(c)'
      BY <1>0, <1>1, <2>1, <3>1, <3>2, SameSeen
         DEF UnpublishDetach, Goto, LocalOK, ControlInv
    <3> QED
      BY <2>1, <3>1, <3>2, <3>3, <3>4, DiskStep
  <2> QED
    BY <1>1, <1>r, <2>1 DEF UnpublishDetach
<1>2. CASE UnpublishDetached(c)
  BY <1>2, <1>r DEF UnpublishDetached
<1> QED
  BY <1>1, <1>2 DEF UnpublishStep

\* ControllerExpandVolume keeps the invariant, although it takes no lock: a disk
\* that is resizing keeps its attachment.
LEMMA ExpandOneLeader ==
    ASSUME DiskInv, ControlInv, GhostInv, OneLeaderInv, NEW c \in Calls, ExpandStep(c)
    PROVE  OneLeaderInv'
<1> USE DEF CreatePCs, CreatedPCs, DeletePCs, PublishPCs, UnpublishPCs, ExpandPCs
<1>0. CallOK(c) /\ LocalOK(c)
  BY DEF ControlInv, OneLeaderInv
<1>g. ASSUME NEW p \in {"extend", "check"}, pc[c] \in ExpandPCs, Goto(c, p),
             UNCHANGED <<disk, ghosts>>
      PROVE  OneLeaderInv'
  <2>1. LocalOK(c)'
    BY <1>0, <1>g DEF Goto, LocalOK, ControlInv, Seen, ghosts
  <2> QED
    BY <1>g, <2>1, QuietGoto DEF ghosts
<1>r. ASSUME Return(c), UNCHANGED <<disk, ghosts>> PROVE OneLeaderInv'
  BY <1>r, QuietReturn DEF ghosts
<1>1. CASE ExpandCurrent(c)
  BY <1>1, <1>g, <1>r DEF ExpandCurrent
<1>2. CASE ExpandExtend(c)
  <2>1. CASE ExtendVolumeSize(call[c].vol) /\ Goto(c, "extended")
    <3> DEFINE v == call[c].vol
    <3>1. v \in Volumes /\ UNCHANGED <<known, published>>
      BY <1>0, <1>2 DEF ExpandExtend, CallOK, ghosts
    <3>2. KeepsIdentity
      BY <2>1, <3>1, ExtendKeepsIdentity
    <3>3. PublishedStaysAttached'
      BY <2>1, <3>1, OneLeaderParts
         DEF ExtendVolumeSize, IsAttached, GlobalInv, PublishedStaysAttached, InUse,
             DiskRecord
    <3>4. LocalOK(c)'
      BY <1>0, <1>2, <2>1, <3>1, <3>2, SameSeen DEF ExpandExtend, Goto, LocalOK, ControlInv
    <3> QED
      BY <2>1, <3>1, <3>2, <3>3, <3>4, DiskStep
  <2> QED
    BY <1>2, <1>r, <2>1 DEF ExpandExtend
<1>3. CASE ExpandExtended(c)
  BY <1>3, <1>g, <1>r DEF ExpandExtended
<1>4. CASE ExpandCheck(c)
  BY <1>4, <1>g, <1>r DEF ExpandCheck
<1> QED
  BY <1>1, <1>2, <1>3, <1>4 DEF ExpandStep

\* A handler that fails keeps the invariant, since no request outlives it.
LEMMA FaultOneLeader ==
    ASSUME OneLeaderEach, ControlInv, GhostInv, OneLeaderInv, NEW c \in Calls, FaultStep(c)
    PROVE  OneLeaderInv'
<1>1. Fail(c)
  BY DEF FaultStep, Abandon, LateArrives, LateIsLost, OneLeaderEach, NothingLate,
         OneLeaderInv, LocalOK
<1> QED
  BY <1>1, QuietReturn DEF Fail, ghosts

\* A replica that restarts keeps the invariant.
LEMMA RestartOneLeader ==
    ASSUME ControlInv, GhostInv, OneLeaderInv, NEW r \in Replicas, Restart(r)
    PROVE  OneLeaderInv'
<1>1. KeepsIdentity /\ UNCHANGED <<disk, known, published>>
  BY SameDisksKeepIdentity DEF Restart, ghosts
<1>2. ASSUME NEW d \in Calls PROVE LocalOK(d)'
  <2>1. CASE Running(d) /\ call[d].rep = r
    BY <2>1, IdleIsLocallyOK DEF Restart
  <2>2. CASE ~(Running(d) /\ call[d].rep = r)
    BY <1>1, <2>2, LocalKept, OneLeaderParts DEF Restart
  <2> QED
    BY <2>1, <2>2
<1>3. GlobalInv'
  BY <1>1, GlobalKept, PublishedKept, OneLeaderParts DEF GlobalInv
<1> QED
  BY <1>2, <1>3 DEF OneLeaderInv, GlobalInv

\* What the cloud completes keeps the invariant: only a detachment that a handler
\* has asked for ends an attachment.
LEMMA CloudOneLeader ==
    ASSUME DiskInv, ControlInv, GhostInv, OneLeaderInv, NEW v \in Volumes, CloudStep(v)
    PROVE  OneLeaderInv'
<1>1. UNCHANGED <<pc, call, known, published>>
  BY DEF CloudStep, handlers, ghosts
<1>2. KeepsIdentity
  BY CloudKeepsIdentity
<1>3. PublishedStaysAttached'
  BY <1>1, OneLeaderParts
     DEF CloudStep, AttachCompletes, DetachCompletes, ResizeCompletes, GlobalInv,
         PublishedStaysAttached, InUse, DiskRecord
<1>4. GlobalInv'
  BY <1>1, <1>2, <1>3, GlobalKept, OneLeaderParts
<1>5. ASSUME NEW d \in Calls PROVE LocalOK(d)'
  BY <1>1, <1>2, LocalKept, OneLeaderParts
<1> QED
  BY <1>4, <1>5 DEF OneLeaderInv, GlobalInv

\* Initially there are no disks and no handlers.
THEOREM InitOneLeaderInv == Init => OneLeaderInv
  BY DEF Init, DiskInit, NoDisk, OneLeaderInv, LocalOK, OneDiskPerName, KnownExist,
         PublishedAreKnown, PublishedStaysAttached, Exists, CreatedPCs, DeletePCs,
         PublishPCs, UnpublishPCs, ExpandPCs

\* With one leader each for provisioner and attacher and no late request, every
\* step of the controller keeps what its handlers rely on.
THEOREM NextOneLeaderInv ==
    ASSUME OneLeaderEach
    PROVE  TypeInv /\ LockInv /\ OneLeaderInv /\ [Next]_vars => OneLeaderInv'
<1> SUFFICES ASSUME DiskInv, ControlInv, GhostInv, KeyExclusive, OneLeaderInv, [Next]_vars
             PROVE  OneLeaderInv'
  BY TypeInvParts DEF LockInv
<1>1. CASE UNCHANGED vars
  <2>1. KeepsIdentity /\ UNCHANGED <<disk, known, published, pc, call>>
    BY <1>1, SameDisksKeepIdentity DEF vars, ghosts, handlers
  <2>2. GlobalInv'
    BY <2>1, GlobalKept, PublishedKept, OneLeaderParts DEF GlobalInv
  <2>3. ASSUME NEW d \in Calls PROVE LocalOK(d)'
    BY <2>1, LocalKept, OneLeaderParts
  <2> QED
    BY <2>2, <2>3 DEF OneLeaderInv, GlobalInv
<1>2. ASSUME NEW c \in Calls, Begin(c) PROVE OneLeaderInv'
  BY <1>2, BeginOneLeader
<1>3. ASSUME NEW c \in Calls, HandlerStep(c) PROVE OneLeaderInv'
  BY <1>3, CreateOneLeader, DeleteOneLeader, PublishOneLeader, UnpublishOneLeader,
     ExpandOneLeader DEF HandlerStep
<1>4. ASSUME NEW c \in Calls, FaultStep(c) PROVE OneLeaderInv'
  BY <1>4, FaultOneLeader
<1>5. ASSUME NEW r \in Replicas, Restart(r) PROVE OneLeaderInv'
  BY <1>5, RestartOneLeader
<1>6. ASSUME NEW v \in Volumes, CloudStep(v) PROVE OneLeaderInv'
  BY <1>6, CloudOneLeader
<1> QED
  BY <1>1, <1>2, <1>3, <1>4, <1>5, <1>6 DEF Next

\* The invariant holds in every run of the controller, under those assumptions.
THEOREM OneLeaderCorrect == ASSUME OneLeaderEach PROVE Spec => []OneLeaderInv
  BY InitTypeInv, InitLockInv, InitOneLeaderInv, NextTypeInv, NextLockInv,
     NextOneLeaderInv, PTL DEF Spec

\* With one leader for the provisioner and one for the attacher (not
\* necessarily the same replica) and no request outliving its handler, a
\* volume stays attached to the node it was published to until the CO asks
\* for the opposite, whatever waits expire, requests fail and replicas
\* restart.
THEOREM PublishedVolumesStayAttached ==
    ASSUME OneLeaderEach PROVE Spec => []PublishedStaysAttached
<1>1. OneLeaderInv => PublishedStaysAttached
  BY DEF OneLeaderInv
<1> QED
  BY <1>1, OneLeaderCorrect, PTL

\* Under the same assumptions no name ever has two disks.
THEOREM NoDuplicateDisks ==
    ASSUME OneLeaderEach PROVE Spec => []OneDiskPerName
<1>1. OneLeaderInv => OneDiskPerName
  BY DEF OneLeaderInv
<1> QED
  BY <1>1, OneLeaderCorrect, PTL

-----------------------------------------------------------------------------
(* What a node is promised: VolumeAttachment, for the instance Observed.   *)

\* Steps of the abstract specification, and steps that are none of its.
ViewStep == [Attachment!Next]_<<AttachedThere, HeldThere>>

\* What is mapped to the instance, by the state of the disk.
LEMMA ThereDef ==
    ASSUME NEW v \in Volumes
    PROVE  v \in AttachedThere <=> InUse(v) /\ disk[v].inst = Observed
  BY DEF AttachedThere, Mapped

\* What the CO holds does not change as long as published does not.
LEMMA SamePublished == UNCHANGED published => UNCHANGED HeldThere
  BY DEF HeldThere

LEMMA SameAttached == UNCHANGED disk => UNCHANGED AttachedThere
  BY DEF AttachedThere, Mapped, InUse

\* A step that changes one disk, and nothing of what the CO holds, is an Attach, a
\* Detach or none: what the CO holds is attached afterwards, too.
LEMMA OneDiskView ==
    ASSUME PublishedStaysAttached', NEW v \in Volumes, UNCHANGED published,
           \A u \in Volumes \ {v} : disk'[u] = disk[u]
    PROVE  ViewStep
<1>1. UNCHANGED HeldThere
  BY SamePublished
<1>2. \A u \in Volumes \ {v} : u \in AttachedThere' <=> u \in AttachedThere
  BY DEF AttachedThere, Mapped, InUse
<1>3. AttachedThere \subseteq Volumes /\ AttachedThere' \subseteq Volumes
  BY DEF AttachedThere
<1>4. v \in HeldThere => v \in AttachedThere'
  BY <1>1 DEF HeldThere, AttachedThere, PublishedStaysAttached, Mapped
<1>5. CASE v \in AttachedThere <=> v \in AttachedThere'
  <2>1. AttachedThere' = AttachedThere
    BY <1>2, <1>3, <1>5
  <2> QED
    BY <1>1, <2>1 DEF ViewStep
<1>6. CASE v \notin AttachedThere /\ v \in AttachedThere'
  <2>1. AttachedThere' = AttachedThere \cup {v}
    BY <1>2, <1>3, <1>6
  <2>2. Attachment!Attach(v)
    BY <1>1, <1>6, <2>1 DEF Attachment!Attach
  <2> QED
    BY <2>2 DEF ViewStep, Attachment!Next
<1>7. CASE v \in AttachedThere /\ v \notin AttachedThere'
  <2>1. AttachedThere' = AttachedThere \ {v}
    BY <1>2, <1>3, <1>7
  <2>2. Attachment!Detach(v)
    BY <1>1, <1>4, <1>7, <2>1 DEF Attachment!Detach
  <2> QED
    BY <2>2 DEF ViewStep, Attachment!Next
<1> QED
  BY <1>5, <1>6, <1>7

\* The requests a handler makes about its volume change no other disk.
LEMMA OwnDiskView ==
    ASSUME DiskInv, PublishedStaysAttached', NEW c \in Calls, call[c].vol \in Volumes,
           UNCHANGED published,
           \/ UNCHANGED disk
           \/ DetachVolume(call[c].vol, call[c].node)
           \/ DeleteVolume(call[c].vol)
           \/ AttachVolume(call[c].vol, call[c].node)
           \/ ExtendVolumeSize(call[c].vol)
    PROVE  ViewStep
<1>1. \A u \in Volumes \ {call[c].vol} : disk'[u] = disk[u]
  BY DEF DetachVolume, DeleteVolume, AttachVolume, ExtendVolumeSize
<1> QED
  BY <1>1, OneDiskView

\* A step that changes no disk and adds a pair of a disk and the node it is
\* mapped to is a Hold, or none.
LEMMA HoldView ==
    ASSUME UNCHANGED disk, NEW v \in Volumes, NEW n, Mapped(v, n),
           published' = published \cup {<<v, n>>}
    PROVE  ViewStep
<1>1. UNCHANGED AttachedThere
  BY SameAttached
<1>2. CASE n = Observed
  <2>1. HeldThere' = HeldThere \cup {v}
    BY <1>2 DEF HeldThere
  <2>2. v \in AttachedThere
    BY <1>2 DEF AttachedThere
  <2>3. Attachment!Hold(v)
    BY <1>1, <2>1, <2>2 DEF Attachment!Hold
  <2> QED
    BY <2>3 DEF ViewStep, Attachment!Next
<1>3. CASE n # Observed
  <2>1. HeldThere' = HeldThere
    BY <1>3 DEF HeldThere
  <2> QED
    BY <1>1, <2>1 DEF ViewStep
<1> QED
  BY <1>2, <1>3

\* A step that takes a pair away is a Release, or none.
LEMMA ReleaseView ==
    ASSUME UNCHANGED disk, NEW v \in Volumes, NEW n,
           published' = published \ {<<v, n>>}
    PROVE  ViewStep
<1>1. UNCHANGED AttachedThere
  BY SameAttached
<1>2. CASE n = Observed
  <2>1. HeldThere' = HeldThere \ {v}
    BY <1>2 DEF HeldThere
  <2>2. Attachment!Release(v)
    BY <1>1, <2>1 DEF Attachment!Release
  <2> QED
    BY <2>2 DEF ViewStep, Attachment!Next
<1>3. CASE n # Observed
  <2>1. HeldThere' = HeldThere
    BY <1>3 DEF HeldThere
  <2> QED
    BY <1>1, <2>1 DEF ViewStep
<1> QED
  BY <1>2, <1>3

\* A step that touches neither disks nor what the CO holds is none.
LEMMA QuietView == UNCHANGED <<disk, published>> => ViewStep
  BY SamePublished, SameAttached DEF ViewStep

\* Requests begin quietly, but for ControllerUnpublishVolume, which releases.
LEMMA BeginView == ASSUME GhostInv, NEW c \in Calls, Begin(c) PROVE ViewStep
<1>1. CASE BeginUnpublish(c)
  BY <1>1, SeenVolumes, ReleaseView DEF BeginUnpublish
<1>2. CASE ~BeginUnpublish(c)
  BY <1>2, QuietView
     DEF Begin, BeginCreate, BeginDelete, BeginPublish, BeginExpand, ghosts
<1> QED
  BY <1>1, <1>2

\* Every request to the cloud changes one disk.
LEMMA HandlerView ==
    ASSUME DiskInv, ControlInv, PublishedStaysAttached', NEW c \in Calls, HandlerStep(c)
    PROVE  ViewStep
<1> USE DEF CreatePCs, CreatedPCs, DeletePCs, PublishPCs, UnpublishPCs, ExpandPCs
<1>0. CallOK(c)
  BY DEF ControlInv
<1>1. CASE CreateStep(c)
  <2>1. CASE CreateDisk(c)
    <3>1. CASE UNCHANGED disk
      BY <2>1, <3>1, QuietView DEF CreateDisk
    <3>2. CASE \E v \in Volumes, n \in Instances :
                  CreateVolume(v, call[c].name, n, call[c].size)
      BY <2>1, <3>2, OneDiskView DEF CreateDisk, CreateVolume
    <3> QED
      BY <2>1, <3>1, <3>2 DEF CreateDisk
  <2>2. CASE CreateDetachHelper(c)
    BY <1>0, <2>2, OwnDiskView DEF CreateDetachHelper, CallOK, ghosts
  <2>3. CASE CreateLookup(c) \/ CreateInUse(c) \/ CreateAvailable(c)
    BY <2>3, QuietView DEF CreateLookup, CreateInUse, CreateAvailable, ghosts
  <2> QED
    BY <1>1, <2>1, <2>2, <2>3 DEF CreateStep
<1>2. CASE DeleteDisk(c)
  BY <1>0, <1>2, OwnDiskView DEF DeleteDisk, CallOK
<1>3. CASE PublishStep(c)
  <2>1. CASE PublishAttach(c)
    BY <1>0, <2>1, OwnDiskView DEF PublishAttach, CallOK, ghosts
  <2>2. CASE PublishDevice(c)
    BY <1>0, <2>2, HoldView, QuietView DEF PublishDevice, CallOK
  <2>3. CASE \/ PublishInstance(c) \/ PublishVolume(c)
             \/ PublishLock(c) \/ PublishAttached(c)
    BY <2>3, QuietView
       DEF PublishInstance, PublishVolume, PublishLock, PublishAttached, ghosts
  <2> QED
    BY <1>3, <2>1, <2>2, <2>3 DEF PublishStep
<1>4. CASE UnpublishStep(c)
  BY <1>0, <1>4, OwnDiskView
     DEF UnpublishStep, UnpublishDetach, UnpublishDetached, CallOK, ghosts
<1>5. CASE ExpandStep(c)
  <2>1. CASE ExpandExtend(c)
    BY <1>0, <2>1, OwnDiskView DEF ExpandExtend, CallOK, ghosts
  <2>2. CASE ExpandCurrent(c) \/ ExpandExtended(c) \/ ExpandCheck(c)
    BY <2>2, QuietView DEF ExpandCurrent, ExpandExtended, ExpandCheck, ghosts
  <2> QED
    BY <1>5, <2>1, <2>2 DEF ExpandStep
<1> QED
  BY <1>1, <1>2, <1>3, <1>4, <1>5 DEF HandlerStep

\* The cloud completes one thing at a time.
LEMMA CloudView ==
    ASSUME DiskInv, PublishedStaysAttached', NEW v \in Volumes, CloudStep(v)
    PROVE  ViewStep
<1>1. \A u \in Volumes \ {v} : disk'[u] = disk[u]
  BY DEF CloudStep, AttachCompletes, DetachCompletes, ResizeCompletes
<1> QED
  BY <1>1, OneDiskView DEF CloudStep, ghosts

\* Initially nothing is attached.
LEMMA InitView == Init => Attachment!Init
  BY DEF Init, DiskInit, NoDisk, Attachment!Init, AttachedThere, HeldThere, Mapped, InUse

\* Every step of the controller is one of the abstract specification, or none.
LEMMA NextView ==
    ASSUME TypeInv, OneLeaderEach, OneLeaderInv, OneLeaderInv', [Next]_vars
    PROVE  ViewStep
<1>0. DiskInv /\ ControlInv /\ GhostInv /\ PublishedStaysAttached'
  BY TypeInvParts DEF OneLeaderInv
<1>1. CASE UNCHANGED vars
  BY <1>1, QuietView DEF vars, ghosts
<1>2. ASSUME NEW c \in Calls, Begin(c) PROVE ViewStep
  BY <1>0, <1>2, BeginView
<1>3. ASSUME NEW c \in Calls, HandlerStep(c) PROVE ViewStep
  BY <1>0, <1>3, HandlerView
<1>4. ASSUME NEW c \in Calls, FaultStep(c) PROVE ViewStep
  <2>1. Fail(c)
    BY <1>4 DEF FaultStep, Abandon, LateArrives, LateIsLost, OneLeaderEach, NothingLate,
                OneLeaderInv, LocalOK
  <2> QED
    BY <2>1, QuietView DEF Fail, ghosts
<1>5. ASSUME NEW r \in Replicas, Restart(r) PROVE ViewStep
  BY <1>5, QuietView DEF Restart, ghosts
<1>6. ASSUME NEW v \in Volumes, CloudStep(v) PROVE ViewStep
  BY <1>0, <1>6, CloudView
<1> QED
  BY <1>1, <1>2, <1>3, <1>4, <1>5, <1>6 DEF Next

\* The controller keeps the promise NodeService is built on, for every instance:
\* through timeouts, failed requests and restarts a volume that was published to
\* a node does not leave it before the CO has asked for that.
THEOREM AttachmentImplemented ==
    ASSUME OneLeaderEach PROVE Spec => ImplementsAttachment
<1>1. TypeInv /\ OneLeaderInv /\ OneLeaderInv' /\ [Next]_vars => ViewStep
  BY NextView
<1> QED
  BY <1>1, InitView, TypeCorrect, OneLeaderCorrect, PTL
     DEF ImplementsAttachment, Attachment!Spec, ViewStep, Spec

-----------------------------------------------------------------------------
(* No wait is in vain: a disk is where the handler that waits for it has   *)
(* sent it, because nobody else works on it.                               *)

\* A handler of the attacher excludes the others of its volume.
LEMMA WaitersExcluded ==
    ASSUME OneLeaderEach, ControlInv, KeyExclusive, NEW c \in Calls, NEW d \in Calls,
           pc[c] \in {"attach", "detach"}, pc[d] \in {"attached", "detached"},
           call[c].vol = call[d].vol
    PROVE  FALSE
<1>1. /\ Holds(c) /\ Holds(d) /\ Key(c) = Key(d)
      /\ call[c].op \in {"publish", "unpublish"} /\ call[d].op \in {"publish", "unpublish"}
  BY DEF ControlInv, CallOK, Holds, LockedPCs, Key, PublishPCs, UnpublishPCs
<1>2. c = d
  BY <1>1, Excluded DEF SidecarOf
<1> QED
  BY <1>2

\* A handler that waits for nothing needs no disk.
LEMMA WaitsForNothing ==
    ASSUME NEW c, pc'[c] \notin {"inUse", "detachHelper", "available", "attached", "detached"}
    PROVE  WaitOK(c)'
  BY DEF WaitOK

\* The disk of a handler that waits for it is as it was.
LEMMA WaitKept ==
    ASSUME NEW d, WaitOK(d), pc'[d] = pc[d], call'[d] = call[d],
           disk'[call[d].vol] = disk[call[d].vol]
    PROVE  WaitOK(d)'
  BY DEF WaitOK, OnTheWay

\* A step of one handler that leaves all disks alone.
LEMMA QuietWaits ==
    ASSUME WaitInv, UNCHANGED disk, NEW c \in Calls, WaitOK(c)',
           \A d \in Calls \ {c} : pc'[d] = pc[d] /\ call'[d] = call[d]
    PROVE  WaitInv'
  BY WaitKept DEF WaitInv

\* A handler that returns, ...
LEMMA ReturnWaits ==
    ASSUME ControlInv, WaitInv, UNCHANGED disk, NEW c \in Calls, Return(c)
    PROVE  WaitInv'
<1>1. \A d \in Calls \ {c} : pc'[d] = pc[d] /\ call'[d] = call[d]
  BY DEF Return, ControlInv
<1>2. WaitOK(c)'
  BY WaitsForNothing DEF Return, ControlInv
<1> QED
  BY <1>1, <1>2, QuietWaits

\* ... or goes on to a step that is no wait.
LEMMA GotoWaits ==
    ASSUME ControlInv, WaitInv, UNCHANGED disk, NEW c \in Calls, NEW p, Goto(c, p),
           p \notin {"inUse", "detachHelper", "available", "attached", "detached"}
    PROVE  WaitInv'
<1>1. \A d \in Calls \ {c} : pc'[d] = pc[d] /\ call'[d] = call[d]
  BY DEF Goto, ControlInv
<1>2. WaitOK(c)'
  BY WaitsForNothing DEF Goto, ControlInv
<1> QED
  BY <1>1, <1>2, QuietWaits

\* A handler that changes its disk: of the others only those that wait
\* for the same disk have to be looked at.
LEMMA OwnDiskWaits ==
    ASSUME ControlInv, WaitInv, NEW c \in Calls, WaitOK(c)',
           \A d \in Calls \ {c} : pc'[d] = pc[d] /\ call'[d] = call[d],
           \A u \in Volumes \ {call[c].vol} : disk'[u] = disk[u],
           \A d \in Calls \ {c} : call[d].vol = call[c].vol => WaitOK(d)'
    PROVE  WaitInv'
<1>1. ASSUME NEW d \in Calls \ {c}, call[d].vol # call[c].vol PROVE WaitOK(d)'
  <2>1. pc'[d] = pc[d] /\ call'[d] = call[d] /\ WaitOK(d) /\ CallOK(d)
    BY DEF ControlInv, WaitInv
  <2>2. CASE call[d].vol \in Volumes
    BY <1>1, <2>1, <2>2, WaitKept
  <2>3. CASE call[d].vol \notin Volumes
    BY <2>1, <2>3, WaitsForNothing
       DEF CallOK, CreatedPCs, PublishPCs, UnpublishPCs
  <2> QED
    BY <2>2, <2>3
<1> QED
  BY <1>1 DEF WaitInv

\* No request begins with a wait.
LEMMA BeginWaits ==
    ASSUME ControlInv, WaitInv, NEW c \in Calls, Begin(c)
    PROVE  WaitInv'
<1>1. UNCHANGED disk
  BY DEF Begin, BeginCreate, BeginDelete, BeginPublish, BeginUnpublish, BeginExpand
<1>2. \E p \in {"lookup", "delete", "instance", "detach", "current"} : \E req :
         pc' = [pc EXCEPT ![c] = p] /\ call' = [call EXCEPT ![c] = req]
  <2>1. CASE BeginCreate(c) \/ BeginDelete(c) \/ BeginUnpublish(c)
    BY <2>1 DEF BeginCreate, BeginDelete, BeginUnpublish, BeginLocked
  <2>2. CASE BeginPublish(c) \/ BeginExpand(c)
    BY <2>2 DEF BeginPublish, BeginExpand, BeginUnlocked
  <2> QED
    BY <2>1, <2>2 DEF Begin
<1>3. /\ \A d \in Calls \ {c} : pc'[d] = pc[d] /\ call'[d] = call[d]
      /\ pc'[c] \in {"lookup", "delete", "instance", "detach", "current"}
  BY <1>2 DEF ControlInv
<1> QED
  BY <1>1, <1>3, WaitsForNothing, QuietWaits

\* CreateVolume waits for its own disk, which no other handler can name.
LEMMA CreateWaits ==
    ASSUME OneLeaderEach, DiskInv, ControlInv, KeyExclusive, OneLeaderInv, WaitInv,
           NEW c \in Calls, CreateStep(c)
    PROVE  WaitInv'
<1> USE DEF CreatePCs, CreatedPCs, OnTheWay
<1> DEFINE v == call[c].vol
<1>0. CallOK(c) /\ LocalOK(c) /\ WaitOK(c)
  BY DEF ControlInv, OneLeaderInv, WaitInv
<1>1. CASE CreateLookup(c)
  BY <1>1, GotoWaits, ReturnWaits DEF CreateLookup
<1>2. CASE CreateDisk(c)
  <2>1. CASE Return(c) /\ UNCHANGED disk
    BY <2>1, ReturnWaits
  <2>2. ASSUME NEW u \in Volumes, NEW n \in Instances,
               CreateVolume(u, call[c].name, n, call[c].size),
               pc' = [pc EXCEPT ![c] = "inUse"],
               call' = [call EXCEPT ![c].vol = u, ![c].node = n]
        PROVE  WaitInv'
    <3>1. /\ disk[u].st = "unused"
          /\ disk'[u].st = "creating" /\ disk'[u].inst = n
          /\ \A w \in Volumes \ {u} : disk'[w] = disk[w]
      BY <2>2 DEF CreateVolume
    <3>2. pc'[c] = "inUse" /\ call'[c].vol = u /\ call'[c].node = n
      BY <2>2 DEF ControlInv, CallRecord
    <3>3. WaitOK(c)'
      BY <3>1, <3>2 DEF WaitOK
    <3>4. ASSUME NEW d \in Calls \ {c} PROVE WaitOK(d)'
      <4>1. pc'[d] = pc[d] /\ call'[d] = call[d] /\ WaitOK(d) /\ CallOK(d)
        BY <2>2 DEF ControlInv, WaitInv
      <4>2. CASE call[d].vol \in Volumes \ {u}
        BY <3>1, <4>1, <4>2, WaitKept
      <4>3. CASE call[d].vol = u
        BY <3>1, <4>1, <4>3 DEF WaitOK
      <4>4. CASE call[d].vol \notin Volumes
        BY <4>1, <4>4, WaitsForNothing DEF CallOK, PublishPCs, UnpublishPCs
      <4> QED
        BY <4>2, <4>3, <4>4
    <3> QED
      BY <3>3, <3>4 DEF WaitInv
  <2> QED
    BY <1>2, <2>1, <2>2 DEF CreateDisk
<1>3. CASE CreateInUse(c)
  <2>1. CASE Goto(c, "detachHelper") /\ VolumeStatusIs(v, "in-use")
    <3>1. disk[v].st = "attached" /\ disk[v].inst = call[c].node
      BY <1>0, <1>3, <2>1 DEF CreateInUse, WaitOK, VolumeStatusIs, InUse
    <3>2. pc'[c] = "detachHelper" /\ call' = call /\ UNCHANGED disk
          /\ \A d \in Calls \ {c} : pc'[d] = pc[d]
      BY <1>3, <2>1 DEF Goto, ControlInv, CreateInUse
    <3>3. WaitOK(c)'
      BY <3>1, <3>2 DEF WaitOK
    <3> QED
      BY <3>2, <3>3, QuietWaits
  <2> QED
    BY <1>3, <2>1, ReturnWaits DEF CreateInUse
<1>4. CASE CreateDetachHelper(c)
  <2>1. CASE DetachVolume(v, call[c].node) /\ Goto(c, "available")
    <3>1. /\ v \in Volumes /\ v \notin Seen /\ disk[v].name = call[c].name
          /\ pc[c] = "detachHelper"
      BY <1>0, <1>4 DEF CreateDetachHelper, CallOK, LocalOK
    <3>2. disk'[v].st = "detaching" /\ \A u \in Volumes \ {v} : disk'[u] = disk[u]
      BY <2>1, <3>1 DEF DetachVolume
    <3>3. WaitOK(c)'
      BY <2>1, <3>2 DEF WaitOK, Goto, ControlInv
    <3>4. ASSUME NEW d \in Calls \ {c}, call[d].vol = v PROVE WaitOK(d)'
      <4>1. pc'[d] = pc[d] /\ LocalOK(d)
        BY <2>1 DEF Goto, ControlInv, OneLeaderInv
      <4>2. pc[d] \notin CreatedPCs
        BY <3>1, <3>4, <4>1, CreatorsExcluded DEF LocalOK
      <4>3. pc[d] \notin {"attached", "detached"}
        BY <3>1, <3>4, <4>1 DEF LocalOK, PublishPCs, UnpublishPCs
      <4> QED
        BY <4>1, <4>2, <4>3, WaitsForNothing
    <3>5. \A d \in Calls \ {c} : pc'[d] = pc[d] /\ call'[d] = call[d]
      BY <2>1 DEF Goto, ControlInv
    <3> QED
      BY <3>2, <3>3, <3>4, <3>5, OwnDiskWaits
  <2> QED
    BY <1>4, <2>1, ReturnWaits DEF CreateDetachHelper
<1>5. CASE CreateAvailable(c)
  BY <1>5, ReturnWaits DEF CreateAvailable
<1> QED
  BY <1>1, <1>2, <1>3, <1>4, <1>5 DEF CreateStep

\* DeleteVolume takes no disk from a handler that waits for it: the disk is
\* available, and the CO knows it.
LEMMA DeleteWaits ==
    ASSUME DiskInv, ControlInv, OneLeaderInv, WaitInv, NEW c \in Calls, DeleteDisk(c)
    PROVE  WaitInv'
<1> USE DEF CreatedPCs, OnTheWay
<1> DEFINE v == call[c].vol
<1>1. CASE UNCHANGED disk
  BY <1>1, ReturnWaits DEF DeleteDisk
<1>2. CASE DeleteVolume(v)
  <2>1. /\ v \in Volumes /\ v \in Seen
        /\ WaitOK(c)' /\ \A d \in Calls \ {c} : pc'[d] = pc[d] /\ call'[d] = call[d]
    BY WaitsForNothing
       DEF DeleteDisk, Return, ControlInv, CallOK, OneLeaderInv, LocalOK, DeletePCs
  <2>2. /\ disk[v].st = "available" /\ disk'[v].st = "deleted"
        /\ \A u \in Volumes \ {v} : disk'[u] = disk[u]
    BY <1>2, <2>1 DEF DeleteVolume, IsAvailable, NoDisk
  <2>3. ASSUME NEW d \in Calls \ {c}, call[d].vol = v PROVE WaitOK(d)'
    <3>1. pc'[d] = pc[d] /\ call'[d] = call[d] /\ WaitOK(d) /\ LocalOK(d)
      BY <2>1 DEF OneLeaderInv, WaitInv
    <3> QED
      BY <2>1, <2>2, <2>3, <3>1 DEF WaitOK, LocalOK
  <2> QED
    BY <2>1, <2>2, <2>3, OwnDiskWaits
<1> QED
  BY <1>1, <1>2 DEF DeleteDisk

\* ControllerPublishVolume attaches a disk that is available, and known to the CO:
\* only an unpublish could wait for it, which the volume's key excludes.
LEMMA PublishWaits ==
    ASSUME OneLeaderEach, DiskInv, ControlInv, KeyExclusive, OneLeaderInv, WaitInv,
           NEW c \in Calls, PublishStep(c)
    PROVE  WaitInv'
<1> USE DEF PublishPCs
<1> DEFINE v == call[c].vol
<1>1. CASE PublishInstance(c) \/ PublishVolume(c) \/ PublishAttached(c) \/ PublishDevice(c)
  BY <1>1, GotoWaits, ReturnWaits
     DEF PublishInstance, PublishVolume, PublishAttached, PublishDevice
<1>2. CASE PublishLock(c)
  <2>1. CASE pc' = [pc EXCEPT ![c] = "attach"] /\ UNCHANGED call
    <3>1. WaitOK(c)' /\ \A d \in Calls \ {c} : pc'[d] = pc[d] /\ call'[d] = call[d]
      BY <2>1, WaitsForNothing DEF ControlInv
    <3> QED
      BY <1>2, <3>1, QuietWaits DEF PublishLock
  <2> QED
    BY <1>2, <2>1, ReturnWaits DEF PublishLock
<1>3. CASE PublishAttach(c)
  <2>1. CASE AttachVolume(v, call[c].node) /\ Goto(c, "attached")
    <3>1. /\ v \in Volumes /\ v \in Seen /\ pc[c] = "attach"
          /\ pc'[c] = "attached" /\ call'[c] = call[c]
          /\ \A d \in Calls \ {c} : pc'[d] = pc[d] /\ call'[d] = call[d]
      BY <1>3, <2>1 DEF PublishAttach, Goto, ControlInv, CallOK, OneLeaderInv, LocalOK
    <3>2. /\ disk[v].st = "available" /\ disk'[v].st = "attaching"
          /\ \A u \in Volumes \ {v} : disk'[u] = disk[u]
      BY <2>1, <3>1 DEF AttachVolume, IsAvailable
    <3>3. WaitOK(c)'
      BY <3>1, <3>2 DEF WaitOK, OnTheWay
    <3>4. ASSUME NEW d \in Calls \ {c}, call[d].vol = v PROVE WaitOK(d)'
      <4>1. pc'[d] = pc[d] /\ WaitOK(d) /\ LocalOK(d)
        BY <3>1 DEF OneLeaderInv, WaitInv
      <4>2. pc[d] \notin {"attached", "detached"}
        BY <3>1, <3>4, WaitersExcluded
      <4> QED
        BY <3>1, <3>4, <4>1, <4>2, WaitsForNothing DEF LocalOK, CreatedPCs
    <3> QED
      BY <3>1, <3>2, <3>3, <3>4, OwnDiskWaits
  <2> QED
    BY <1>3, <2>1, GotoWaits, ReturnWaits DEF PublishAttach
<1> QED
  BY <1>1, <1>2, <1>3 DEF PublishStep

\* ControllerUnpublishVolume detaches a disk that is attached: only a publish could
\* wait for it, which the volume's key excludes.
LEMMA UnpublishWaits ==
    ASSUME OneLeaderEach, DiskInv, ControlInv, KeyExclusive, OneLeaderInv, WaitInv,
           NEW c \in Calls, UnpublishStep(c)
    PROVE  WaitInv'
<1> USE DEF UnpublishPCs
<1> DEFINE v == call[c].vol
<1>1. CASE UnpublishDetach(c)
  <2>1. CASE DetachVolume(v, call[c].node) /\ Goto(c, "detached")
    <3>1. /\ v \in Volumes /\ v \in Seen /\ pc[c] = "detach"
          /\ pc'[c] = "detached" /\ call'[c] = call[c]
          /\ \A d \in Calls \ {c} : pc'[d] = pc[d] /\ call'[d] = call[d]
      BY <1>1, <2>1 DEF UnpublishDetach, Goto, ControlInv, CallOK, OneLeaderInv, LocalOK
    <3>2. /\ disk'[v].st = "detaching"
          /\ \A u \in Volumes \ {v} : disk'[u] = disk[u]
      BY <2>1, <3>1 DEF DetachVolume
    <3>3. WaitOK(c)'
      BY <3>1, <3>2 DEF WaitOK, OnTheWay
    <3>4. ASSUME NEW d \in Calls \ {c}, call[d].vol = v PROVE WaitOK(d)'
      <4>1. pc'[d] = pc[d] /\ LocalOK(d)
        BY <3>1 DEF OneLeaderInv
      <4>2. pc[d] \notin {"attached", "detached"}
        BY <3>1, <3>4, WaitersExcluded
      <4> QED
        BY <3>1, <3>4, <4>1, <4>2, WaitsForNothing DEF LocalOK, CreatedPCs
    <3> QED
      BY <3>1, <3>2, <3>3, <3>4, OwnDiskWaits
  <2> QED
    BY <1>1, <2>1, ReturnWaits DEF UnpublishDetach
<1>2. CASE UnpublishDetached(c)
  BY <1>2, ReturnWaits DEF UnpublishDetached
<1> QED
  BY <1>1, <1>2 DEF UnpublishStep

\* ControllerExpandVolume takes no key.  Still, it extends only a disk that is
\* attached or available, which leaves a wait for either as it was.
LEMMA ExpandWaits ==
    ASSUME DiskInv, ControlInv, OneLeaderInv, WaitInv, NEW c \in Calls, ExpandStep(c)
    PROVE  WaitInv'
<1> USE DEF ExpandPCs
<1> DEFINE v == call[c].vol
<1>1. CASE ExpandExtend(c)
  <2>1. CASE ExtendVolumeSize(v) /\ Goto(c, "extended")
    <3>1. /\ v \in Volumes /\ v \in Seen
          /\ pc'[c] = "extended"
          /\ \A d \in Calls \ {c} : pc'[d] = pc[d] /\ call'[d] = call[d]
      BY <1>1, <2>1 DEF ExpandExtend, Goto, ControlInv, CallOK, OneLeaderInv, LocalOK
    <3>2. /\ \/ disk[v].st = "attached" /\ disk'[v].st = "resizing"
             \/ disk[v].st = "available" /\ disk'[v].st = "available"
          /\ \A u \in Volumes \ {v} : disk'[u] = disk[u]
      BY <2>1, <3>1 DEF ExtendVolumeSize, CanExtend, IsAttached, IsAvailable, DiskRecord
    <3>3. WaitOK(c)'
      BY <3>1, WaitsForNothing
    <3>4. ASSUME NEW d \in Calls \ {c}, call[d].vol = v PROVE WaitOK(d)'
      <4>1. pc'[d] = pc[d] /\ call'[d] = call[d] /\ WaitOK(d) /\ LocalOK(d)
        BY <3>1 DEF OneLeaderInv, WaitInv
      <4> QED
        BY <3>1, <3>2, <3>4, <4>1 DEF WaitOK, LocalOK, CreatedPCs, OnTheWay
    <3> QED
      BY <3>1, <3>2, <3>3, <3>4, OwnDiskWaits
  <2> QED
    BY <1>1, <2>1, ReturnWaits DEF ExpandExtend
<1>2. CASE ExpandCurrent(c) \/ ExpandExtended(c) \/ ExpandCheck(c)
  BY <1>2, GotoWaits, ReturnWaits DEF ExpandCurrent, ExpandExtended, ExpandCheck
<1> QED
  BY <1>1, <1>2 DEF ExpandStep

\* What the cloud completes is what a handler waits for, or leads there.
LEMMA CloudWaits ==
    ASSUME DiskInv, ControlInv, WaitInv, NEW v \in Volumes, CloudStep(v)
    PROVE  WaitInv'
<1>1. UNCHANGED <<pc, call>> /\ \A u \in Volumes \ {v} : disk'[u] = disk[u]
  BY DEF CloudStep, AttachCompletes, DetachCompletes, ResizeCompletes, handlers
<1>2. \/ /\ disk[v].st \in {"creating", "attaching", "resizing"}
         /\ disk'[v].st = "attached" /\ disk'[v].inst = disk[v].inst
      \/ disk[v].st = "detaching" /\ disk'[v].st = "available"
  BY DEF CloudStep, AttachCompletes, DetachCompletes, ResizeCompletes, DiskRecord
<1>3. ASSUME NEW d \in Calls PROVE WaitOK(d)'
  <2>1. WaitOK(d) /\ CallOK(d)
    BY DEF WaitInv, ControlInv
  <2>2. CASE call[d].vol = v
    BY <1>1, <1>2, <2>1, <2>2 DEF WaitOK, OnTheWay
  <2>3. CASE call[d].vol \in Volumes \ {v}
    BY <1>1, <2>1, <2>3, WaitKept
  <2>4. CASE call[d].vol \notin Volumes
    BY <1>1, <2>1, <2>4, WaitsForNothing DEF CallOK, CreatedPCs, PublishPCs, UnpublishPCs
  <2> QED
    BY <2>2, <2>3, <2>4
<1> QED
  BY <1>3 DEF WaitInv

\* Nothing is waited for initially.
THEOREM InitWaitInv == Init => WaitInv
  BY DEF Init, WaitInv, WaitOK

\* With one leader each for provisioner and attacher, no step takes a disk off the
\* way that a handler is waiting on.
THEOREM NextWaitInv ==
    ASSUME OneLeaderEach
    PROVE  TypeInv /\ LockInv /\ OneLeaderInv /\ WaitInv /\ [Next]_vars => WaitInv'
<1> SUFFICES ASSUME DiskInv, ControlInv, KeyExclusive, OneLeaderInv, WaitInv, [Next]_vars
             PROVE  WaitInv'
  BY TypeInvParts DEF LockInv
<1>1. CASE UNCHANGED vars
  BY <1>1, WaitKept DEF vars, handlers, WaitInv
<1>2. ASSUME NEW c \in Calls, Begin(c) PROVE WaitInv'
  BY <1>2, BeginWaits
<1>3. ASSUME NEW c \in Calls, HandlerStep(c) PROVE WaitInv'
  BY <1>3, CreateWaits, DeleteWaits, PublishWaits, UnpublishWaits, ExpandWaits
     DEF HandlerStep
<1>4. ASSUME NEW c \in Calls, FaultStep(c) PROVE WaitInv'
  <2>1. Fail(c)
    BY <1>4 DEF FaultStep, Abandon, LateArrives, LateIsLost, OneLeaderEach, NothingLate,
                OneLeaderInv, LocalOK
  <2> QED
    BY <2>1, ReturnWaits DEF Fail
<1>5. ASSUME NEW r \in Replicas, Restart(r) PROVE WaitInv'
  <2>1. ASSUME NEW d \in Calls PROVE WaitOK(d)'
    <3>1. CASE Running(d) /\ call[d].rep = r
      BY <1>5, <3>1, WaitsForNothing DEF Restart
    <3>2. CASE ~(Running(d) /\ call[d].rep = r)
      BY <1>5, <3>2, WaitKept DEF Restart, WaitInv
    <3> QED
      BY <3>1, <3>2
  <2> QED
    BY <2>1 DEF WaitInv
<1>6. ASSUME NEW v \in Volumes, CloudStep(v) PROVE WaitInv'
  BY <1>6, CloudWaits
<1> QED
  BY <1>1, <1>2, <1>3, <1>4, <1>5, <1>6 DEF Next

\* The invariant of the waits holds in every run, under those assumptions.
THEOREM WaitCorrect == ASSUME OneLeaderEach PROVE Spec => []WaitInv
  BY InitTypeInv, InitLockInv, InitOneLeaderInv, InitWaitInv, NextTypeInv, NextLockInv,
     NextOneLeaderInv, NextWaitInv, PTL DEF Spec

\* A wait for a disk or its attachment never expires because another handler has
\* taken the disk elsewhere, whatever other waits expire, requests fail and replicas
\* restart: what the handler waits for is there or on its way.
THEOREM WaitsNotInVain == ASSUME OneLeaderEach PROVE Spec => []NoWaitInVain
<1>1. WaitInv => NoWaitInVain
  BY DEF WaitInv, WaitOK, NoWaitInVain, OnTheWay
<1> QED
  BY <1>1, WaitCorrect, PTL

-----------------------------------------------------------------------------
(* Without failures, what CreateVolume answers is free to be attached.     *)

\* The disk is one that a handler is making.
InTheMaking(v) == \E c \in Calls : pc[c] \in CreatedPCs /\ call[c].vol = v

\* A disk that is not known is in the making.
LEMMA AccountedDef ==
    Accounted <=> \A v \in Volumes : Exists(v) => v \in known \/ InTheMaking(v)
  BY DEF Accounted, InTheMaking

\* A step that makes no disk, and in which no handler leaves the disk it is making
\* before the CO knows it.
LEMMA AccountedKept ==
    ASSUME Accounted,
           \A v \in Volumes : Exists(v)' => Exists(v) /\ (v \in known => v \in known'),
           \A c \in Calls : pc[c] \in CreatedPCs =>
              \/ pc'[c] \in CreatedPCs /\ call'[c].vol = call[c].vol
              \/ call[c].vol \in known'
    PROVE  Accounted'
<1>1. ASSUME NEW v \in Volumes, Exists(v)' PROVE v \in known' \/ InTheMaking(v)'
  <2>1. v \in known \/ InTheMaking(v)
    BY <1>1, AccountedDef
  <2>2. CASE InTheMaking(v)
    BY <2>2 DEF InTheMaking
  <2> QED
    BY <1>1, <2>1, <2>2
<1> QED
  BY <1>1 DEF Accounted, InTheMaking

\* A step of a handler that is not making a disk.
LEMMA BystanderAccounts ==
    ASSUME Accounted, NEW c \in Calls, pc[c] \notin CreatedPCs,
           \A d \in Calls \ {c} : pc'[d] = pc[d] /\ call'[d] = call[d],
           \A v \in Volumes : Exists(v)' => Exists(v) /\ (v \in known => v \in known')
    PROVE  Accounted'
<1>1. \A d \in Calls : pc[d] \in CreatedPCs =>
         pc'[d] \in CreatedPCs /\ call'[d].vol = call[d].vol
  OBVIOUS
<1> QED
  BY <1>1, AccountedKept

\* CreateVolume makes the disk its own, and hands it over.
LEMMA CreateAccounts ==
    ASSUME DiskInv, ControlInv, OneLeaderInv, WaitInv, Accounted, NEW c \in Calls,
           CreateStep(c)
    PROVE  Accounted'
<1> USE DEF CreatedPCs
<1> DEFINE v == call[c].vol
<1>0. CallOK(c) /\ LocalOK(c) /\ WaitOK(c)
  BY DEF ControlInv, OneLeaderInv, WaitInv
<1>s. ASSUME NEW p, Goto(c, p) \/ Return(c)
      PROVE  \A d \in Calls \ {c} : pc'[d] = pc[d] /\ call'[d] = call[d]
  BY <1>s DEF Goto, Return, ControlInv
\* The handler goes on with its disk.
<1>g. ASSUME NEW p \in CreatedPCs, Goto(c, p), UNCHANGED known,
             \A u \in Volumes : Exists(u)' => Exists(u)
      PROVE  Accounted'
  <2>1. \A d \in Calls : pc[d] \in CreatedPCs =>
           pc'[d] \in CreatedPCs /\ call'[d].vol = call[d].vol
    BY <1>g DEF Goto, ControlInv
  <2> QED
    BY <1>g, <2>1, AccountedKept
<1>1. CASE CreateLookup(c)
  <2>1. /\ pc[c] \notin CreatedPCs /\ known \subseteq known' /\ UNCHANGED disk
        /\ \A d \in Calls \ {c} : pc'[d] = pc[d] /\ call'[d] = call[d]
    BY <1>1, <1>s DEF CreateLookup
  <2> QED
    BY <2>1, BystanderAccounts DEF Exists
<1>2. CASE CreateDisk(c)
  <2>1. CASE Return(c) /\ UNCHANGED disk
    <3>1. pc[c] \notin CreatedPCs /\ UNCHANGED known
      BY <1>2 DEF CreateDisk
    <3> QED
      BY <1>s, <2>1, <3>1, BystanderAccounts DEF Exists
  <2>2. ASSUME NEW u \in Volumes, NEW n \in Instances,
               CreateVolume(u, call[c].name, n, call[c].size),
               pc' = [pc EXCEPT ![c] = "inUse"],
               call' = [call EXCEPT ![c].vol = u, ![c].node = n]
        PROVE  Accounted'
    <3>1. /\ pc[c] = "create" /\ UNCHANGED known
          /\ \A w \in Volumes \ {u} : Exists(w)' => Exists(w)
      BY <1>2, <2>2 DEF CreateDisk, CreateVolume, Exists
    <3>2. pc'[c] = "inUse" /\ call'[c].vol = u
      BY <2>2 DEF ControlInv, CallRecord
    <3>3. \A d \in Calls \ {c} : pc'[d] = pc[d] /\ call'[d] = call[d]
      BY <2>2 DEF ControlInv
    <3>4. ASSUME NEW w \in Volumes, Exists(w)' PROVE w \in known' \/ InTheMaking(w)'
      <4>1. CASE w = u
        BY <3>2, <4>1 DEF InTheMaking
      <4>2. CASE w # u
        BY <3>1, <3>3, <3>4, <4>2, AccountedDef DEF InTheMaking
      <4> QED
        BY <4>1, <4>2
    <3> QED
      BY <3>4 DEF Accounted, InTheMaking
  <2> QED
    BY <1>2, <2>1, <2>2 DEF CreateDisk
<1>3. CASE CreateInUse(c)
  <2>1. Exists(v)
    BY <1>0, <1>3 DEF CreateInUse, LocalOK
  <2> QED
    BY <1>3, <1>g, <2>1 DEF CreateInUse, ghosts, Exists
<1>4. CASE CreateDetachHelper(c)
  <2>1. CanDetach(v, call[c].node) /\ v \in Volumes
    BY <1>0, <1>4 DEF CreateDetachHelper, WaitOK, CallOK, CanDetach, IsAttached
  <2>2. DetachVolume(v, call[c].node) /\ Goto(c, "available") /\ UNCHANGED known
    BY <1>4, <2>1 DEF CreateDetachHelper, ghosts
  <2>3. KeepsIdentity
    BY <2>1, <2>2, DetachKeepsIdentity
  <2> QED
    BY <1>g, <2>2, <2>3 DEF KeepsIdentity
<1>5. CASE CreateAvailable(c)
  <2>1. Exists(v) /\ known' = known \cup {v} /\ Return(c) /\ UNCHANGED disk
    BY <1>0, <1>5 DEF CreateAvailable, LocalOK
  <2>2. \A d \in Calls : pc[d] \in CreatedPCs =>
           \/ pc'[d] \in CreatedPCs /\ call'[d].vol = call[d].vol
           \/ call[d].vol \in known'
    BY <1>s, <2>1
  <2> QED
    BY <2>1, <2>2, AccountedKept DEF Exists
<1> QED
  BY <1>1, <1>2, <1>3, <1>4, <1>5 DEF CreateStep

\* The other handlers leave the disks in the making alone.
LEMMA OthersAccount ==
    ASSUME DiskInv, ControlInv, Accounted, NEW c \in Calls,
           \/ DeleteDisk(c) \/ PublishStep(c) \/ UnpublishStep(c) \/ ExpandStep(c)
    PROVE  Accounted'
<1> USE DEF CreatedPCs, DeletePCs, PublishPCs, UnpublishPCs, ExpandPCs
<1> DEFINE v == call[c].vol
<1>1. CallOK(c)
  BY DEF ControlInv
<1>2. pc[c] \in DeletePCs \cup PublishPCs \cup UnpublishPCs \cup ExpandPCs
  BY DEF DeleteDisk, PublishStep, PublishInstance, PublishVolume, PublishLock, PublishAttach,
         PublishAttached, PublishDevice, UnpublishStep, UnpublishDetach, UnpublishDetached,
         ExpandStep, ExpandCurrent, ExpandExtend, ExpandExtended, ExpandCheck
<1>3. v \in Volumes /\ pc[c] \notin CreatedPCs
  BY <1>1, <1>2 DEF CallOK
<1>4. \A d \in Calls \ {c} : pc'[d] = pc[d] /\ call'[d] = call[d]
  BY DEF ControlInv, Goto, Return,
         DeleteDisk, PublishStep, PublishInstance, PublishVolume, PublishLock, PublishAttach,
         PublishAttached, PublishDevice, UnpublishStep, UnpublishDetach, UnpublishDetached,
         ExpandStep, ExpandCurrent, ExpandExtend, ExpandExtended, ExpandCheck
<1>5. CASE DeleteDisk(c)
  <2>1. \A u \in Volumes : Exists(u)' => Exists(u) /\ (u \in known => u \in known')
    BY <1>3, <1>5 DEF DeleteDisk, DeleteVolume, NoDisk, Exists
  <2> QED
    BY <1>3, <1>4, <2>1, BystanderAccounts
<1>6. CASE PublishStep(c) \/ UnpublishStep(c) \/ ExpandStep(c)
  <2>1. UNCHANGED known
    BY <1>6 DEF ghosts,
         PublishStep, PublishInstance, PublishVolume, PublishLock, PublishAttach,
         PublishAttached, PublishDevice, UnpublishStep, UnpublishDetach, UnpublishDetached,
         ExpandStep, ExpandCurrent, ExpandExtend, ExpandExtended, ExpandCheck
  <2>2. \/ UNCHANGED disk
        \/ AttachVolume(v, call[c].node) \/ DetachVolume(v, call[c].node)
        \/ ExtendVolumeSize(v)
    BY <1>6 DEF
         PublishStep, PublishInstance, PublishVolume, PublishLock, PublishAttach,
         PublishAttached, PublishDevice, UnpublishStep, UnpublishDetach, UnpublishDetached,
         ExpandStep, ExpandCurrent, ExpandExtend, ExpandExtended, ExpandCheck
  <2>3. KeepsIdentity
    BY <1>3, <2>2, SameDisksKeepIdentity, AttachKeepsIdentity, DetachKeepsIdentity,
       ExtendKeepsIdentity
  <2> QED
    BY <1>3, <1>4, <2>1, <2>3, BystanderAccounts DEF KeepsIdentity
<1> QED
  BY <1>5, <1>6

\* Without failures no step loses a disk.
THEOREM NextAccounted ==
    ASSUME OneLeaderEach, Faults = {}
    PROVE  TypeInv /\ OneLeaderInv /\ WaitInv /\ Accounted /\ [Next]_vars => Accounted'
<1> SUFFICES ASSUME DiskInv, ControlInv, OneLeaderInv, WaitInv, Accounted, [Next]_vars
             PROVE  Accounted'
  BY TypeInvParts
<1>1. CASE UNCHANGED vars
  BY <1>1, AccountedKept DEF vars, handlers, ghosts, Exists
<1>2. ASSUME NEW c \in Calls, Begin(c) PROVE Accounted'
  <2>1. UNCHANGED <<disk, known>> /\ pc[c] = "idle"
    BY <1>2 DEF Begin, BeginCreate, BeginDelete, BeginPublish, BeginUnpublish, BeginExpand,
                BeginLocked, BeginUnlocked, ghosts
  <2>2. \A d \in Calls \ {c} : pc'[d] = pc[d] /\ call'[d] = call[d]
    <3>1. CASE BeginCreate(c) \/ BeginDelete(c) \/ BeginUnpublish(c)
      BY <3>1 DEF BeginCreate, BeginDelete, BeginUnpublish, BeginLocked, ControlInv
    <3>2. CASE BeginPublish(c) \/ BeginExpand(c)
      BY <3>2 DEF BeginPublish, BeginExpand, BeginUnlocked, ControlInv
    <3> QED
      BY <1>2, <3>1, <3>2 DEF Begin
  <2> QED
    BY <2>1, <2>2, BystanderAccounts DEF CreatedPCs, Exists
<1>3. ASSUME NEW c \in Calls, HandlerStep(c) PROVE Accounted'
  BY <1>3, CreateAccounts, OthersAccount DEF HandlerStep
<1>4. ASSUME NEW c \in Calls, FaultStep(c) PROVE FALSE
  BY <1>4 DEF FaultStep, Fail, Abandon, LateArrives, LateIsLost, OneLeaderInv, LocalOK
<1>5. ASSUME NEW r \in Replicas, Restart(r) PROVE FALSE
  BY <1>5 DEF Restart
<1>6. ASSUME NEW v \in Volumes, CloudStep(v) PROVE Accounted'
  BY <1>6, CloudKeepsIdentity, AccountedKept DEF CloudStep, handlers, ghosts, KeepsIdentity
<1> QED
  BY <1>1, <1>2, <1>3, <1>4, <1>5, <1>6 DEF Next

\* What a lookup finds and the CO does not know would be in the making, by a handler
\* of the same name, which the key of the name excludes.
LEMMA FoundIsKnown ==
    ASSUME OneLeaderEach, ControlInv, KeyExclusive, OneLeaderInv, Accounted,
           NEW c \in Calls, pc[c] = "lookup", NEW v \in DisksNamed(call[c].name)
    PROVE  v \in known
<1>1. SUFFICES ASSUME v \notin known PROVE FALSE
  OBVIOUS
<1>2. PICK d \in Calls : pc[d] \in CreatedPCs /\ call[d].vol = v
  BY <1>1 DEF Accounted, DisksNamed
<1>3. call[d].name = call[c].name
  BY <1>2 DEF OneLeaderInv, LocalOK, DisksNamed
<1>4. c = d
  BY <1>2, <1>3, CreatorsExcluded DEF CreatedPCs, CreatePCs
<1> QED
  BY <1>2, <1>4 DEF CreatedPCs

\* A step tells the CO of no disk but one that is available.
LEMMA ToldIsAvailable ==
    ASSUME OneLeaderEach, TypeInv, KeyExclusive, OneLeaderInv, Accounted, [Next]_vars,
           NEW v \in known' \ known
    PROVE  disk'[v].st = "available"
<1>1. ControlInv
  BY TypeInvParts
<1>2. PICK c \in Calls : CreateLookup(c) \/ CreateAvailable(c)
  <2>1. ASSUME NEW c \in Calls, Begin(c) PROVE FALSE
    BY <2>1 DEF Begin, BeginCreate, BeginDelete, BeginPublish, BeginUnpublish, BeginExpand,
                ghosts
  <2>2. ASSUME NEW c \in Calls, HandlerStep(c)
        PROVE  CreateLookup(c) \/ CreateAvailable(c)
    BY <2>2 DEF ghosts, HandlerStep, CreateStep, CreateDisk, CreateInUse,
         CreateDetachHelper, DeleteDisk, PublishStep, PublishInstance, PublishVolume,
         PublishLock, PublishAttach, PublishAttached, PublishDevice, UnpublishStep,
         UnpublishDetach, UnpublishDetached, ExpandStep, ExpandCurrent, ExpandExtend,
         ExpandExtended, ExpandCheck
  <2>3. ASSUME NEW c \in Calls, FaultStep(c) PROVE FALSE
    BY <2>3 DEF FaultStep, Fail, Abandon, LateArrives, LateIsLost, ghosts
  <2>4. UNCHANGED known => FALSE
    OBVIOUS
  <2> QED
    BY <2>1, <2>2, <2>3, <2>4 DEF Next, Restart, CloudStep, vars, ghosts
<1>3. CASE CreateLookup(c)
  BY <1>1, <1>3, FoundIsKnown DEF CreateLookup
<1>4. CASE CreateAvailable(c)
  <2>1. v = call[c].vol /\ VolumeStatusIs(v, "available") /\ UNCHANGED disk
    BY <1>4 DEF CreateAvailable
  <2> QED
    BY <2>1 DEF VolumeStatusIs, IsAvailable
<1> QED
  BY <1>2, <1>3, <1>4

\* When nothing fails and one replica leads, CreateVolume answers only volumes that
\* are free to be attached: calls that overlap find the half-created disk of another
\* call locked away by its name.
THEOREM AnswersAvailable ==
    ASSUME OneLeaderEach, Faults = {} PROVE Spec => CreateAnswersAvailable
<1>1. Init => Accounted
  BY DEF Init, DiskInit, NoDisk, Accounted, Exists
<1>2. ASSUME TypeInv, LockInv, OneLeaderInv, Accounted, [Next]_vars
      PROVE  [\A v \in known' \ known : disk'[v].st = "available"]_vars
  BY <1>2, ToldIsAvailable DEF LockInv
<1>3. Spec => [](TypeInv /\ LockInv)
  BY InitTypeInv, InitLockInv, NextTypeInv, NextLockInv, PTL DEF Spec
<1> QED
  BY <1>1, <1>2, <1>3, NextAccounted, OneLeaderCorrect, WaitCorrect, PTL
     DEF Spec, CreateAnswersAvailable

=============================================================================
