----------------------- MODULE ControllerGrowthProofs -----------------------
(***************************************************************************)
(* How far unlocked, repeated and abandoned expansions push a disk, for    *)
(* every value of the constants, whoever leads.                            *)
(***************************************************************************)
EXTENDS ControllerLockProofs, FiniteSetTheorems

USE NifcloudAssumption, InFlightAssumption, ControllerAssumption
USE DEF DiskInv

(* The invariant is GrowthInv. *)

\* What is added up are numbers.
LEMMA GrowthNumbers ==
    ASSUME DiskInv, GhostInv, NEW v \in Volumes
    PROVE  /\ disk[v].size \in Nat /\ GrownSize(v) \in Nat
           /\ asked[v].top \in Nat /\ asked[v].calls \in Nat
<1>1. disk[v].size \in Nat
  BY DEF DiskRecord
<1>2. asked[v].top \in Nat /\ asked[v].calls \in Nat
  BY DEF GhostInv
<1> QED
  BY <1>1, <1>2 DEF GrownSize

LEMMA GrowthCounts ==
    ASSUME NEW v, IsFiniteSet(Expanding(v))
    PROVE  /\ IsFiniteSet(Moving(v)) /\ IsFiniteSet(Armed(v))
           /\ Cardinality(Armed(v)) \in Nat /\ Cardinality(Moving(v)) \in Nat
           /\ Cardinality(Expanding(v)) \in Nat
           /\ Cardinality(Armed(v)) <= Cardinality(Moving(v))
           /\ Cardinality(Moving(v)) <= Cardinality(Expanding(v))
<1>1. Moving(v) \in SUBSET Expanding(v) /\ Armed(v) \in SUBSET Moving(v)
  BY DEF Moving, Armed
<1>2. IsFiniteSet(Moving(v)) /\ Cardinality(Moving(v)) <= Cardinality(Expanding(v))
  BY <1>1, FS_Subset
<1>3. IsFiniteSet(Armed(v)) /\ Cardinality(Armed(v)) <= Cardinality(Moving(v))
  BY <1>1, <1>2, FS_Subset
<1> QED
  BY <1>2, <1>3, FS_CardinalityType

\* A slot that adds nothing to what may become of v, ...
SlotQuiet(d, v) ==
    d \in Expanding(v)' =>
        /\ d \in Expanding(v)
        /\ call'[d].size = call[d].size
        /\ d \in Armed(v)' => d \in Armed(v)
        /\ IsResizing(v)' /\ d \in Moving(v)' => d \in Moving(v)

\* ... and a disk that does not grow by more than was on its way.
DiskQuiet(v) ==
    /\ IsResizing(v)' => IsResizing(v)
    /\ Exists(v)' => Exists(v) /\ GrownSize(v)' = GrownSize(v)
    /\ disk'[v].st = "unused" => disk[v].st = "unused"

\* The CO hears only of volumes that have been made.
UnusedQuiet(v) ==
    disk'[v].st = "unused" => v \notin known' /\ \A d \in Calls : call'[d].vol # v

LEMMA QuietKeeps ==
    ASSUME DiskInv, GhostInv, NEW v \in Volumes, GrowthOK(v),
           \A d \in Calls : SlotQuiet(d, v), DiskQuiet(v), UnusedQuiet(v),
           asked'[v] = asked[v]
    PROVE  GrowthOK(v)'
<1>1. /\ Expanding(v)' \in SUBSET Expanding(v)
      /\ Armed(v)' \in SUBSET Armed(v)
      /\ IsResizing(v)' => Moving(v)' \in SUBSET Moving(v)
  BY DEF SlotQuiet, Expanding, Armed, Moving
<1>2. IsFiniteSet(Expanding(v)) /\ IsFiniteSet(Armed(v)) /\ IsFiniteSet(Moving(v))
  BY GrowthCounts DEF GrowthOK
<1>3. /\ IsFiniteSet(Expanding(v)') /\ IsFiniteSet(Armed(v)')
      /\ Cardinality(Expanding(v)') <= Cardinality(Expanding(v))
      /\ Cardinality(Armed(v)') <= Cardinality(Armed(v))
      /\ IsResizing(v)' => /\ IsFiniteSet(Moving(v)')
                           /\ Cardinality(Moving(v)') <= Cardinality(Moving(v))
  BY <1>1, <1>2, FS_Subset
<1>4. /\ Cardinality(Expanding(v)) \in Nat /\ Cardinality(Expanding(v)') \in Nat
      /\ Cardinality(Armed(v)) \in Nat /\ Cardinality(Armed(v)') \in Nat
      /\ Cardinality(Moving(v)) \in Nat
      /\ IsResizing(v)' => Cardinality(Moving(v)') \in Nat
  BY <1>2, <1>3, FS_CardinalityType
<1>5. GrownSize(v) \in Nat /\ asked[v].top \in Nat /\ asked[v].calls \in Nat
  BY GrowthNumbers
<1>6. Cardinality(Expanding(v)') <= asked'[v].calls
  BY <1>3, <1>4, <1>5 DEF GrowthOK
<1>7. IsResizing(v)' => Cardinality(Moving(v)') < asked'[v].calls
  BY <1>3, <1>4, <1>5 DEF GrowthOK, DiskQuiet
<1>8. Exists(v)' => GrownSize(v)' + Cardinality(Armed(v)')
                       <= asked'[v].top + asked'[v].calls
  BY <1>3, <1>4, <1>5 DEF GrowthOK, DiskQuiet
<1>9. \A c \in Expanding(v)' : call'[c].size <= asked'[v].top
  BY <1>1 DEF GrowthOK, SlotQuiet, Expanding
<1> QED
  BY <1>3, <1>6, <1>7, <1>8, <1>9 DEF GrowthOK, UnusedQuiet

-----------------------------------------------------------------------------
(* Steps that add nothing.                                                 *)

\* A slot that stays, ends, or is not an expansion adds nothing.
LEMMA SlotStays ==
    ASSUME NEW d, NEW v, pc'[d] = pc[d], call'[d] = call[d]
    PROVE  SlotQuiet(d, v)
  BY DEF SlotQuiet, Expanding, Armed, Moving

LEMMA SlotNotExpanding ==
    ASSUME NEW d, NEW v, call'[d].op # "expand"
    PROVE  SlotQuiet(d, v)
  BY DEF SlotQuiet, Expanding

LEMMA SlotElsewhere ==
    ASSUME NEW d, NEW v, call'[d].vol # v
    PROVE  SlotQuiet(d, v)
  BY DEF SlotQuiet, Expanding

\* A disk that stays adds nothing, ...
LEMMA DiskStays ==
    ASSUME NEW v, disk'[v] = disk[v]
    PROVE  DiskQuiet(v)
  BY DEF DiskQuiet, IsResizing, Exists, GrownSize

\* ... nor does any call to the cloud but CreateVolume and ExtendVolumeSize.
LEMMA CallsQuiet ==
    ASSUME DiskInv, NEW v \in Volumes, NEW w \in Volumes,
           \/ \E n : AttachVolume(w, n) \/ DetachVolume(w, n)
           \/ DeleteVolume(w)
           \/ CloudStep(w)
    PROVE  DiskQuiet(v)
<1>1. CASE v # w
  <2>1. disk'[v] = disk[v]
    BY <1>1 DEF AttachVolume, DetachVolume, DeleteVolume, CloudStep, AttachCompletes,
                DetachCompletes, ResizeCompletes
  <2> QED
    BY <2>1, DiskStays
<1>2. CASE v = w
  <2> USE DEF DiskQuiet, IsResizing, Exists, GrownSize
  <2>0. disk[v] \in DiskRecord /\ disk[v].size \in Nat
    BY DEF DiskRecord
  <2>1. CASE \E n : AttachVolume(v, n)
    <3>1. PICK n : AttachVolume(v, n)
      BY <2>1
    <3>2. disk' = [disk EXCEPT ![v] = [disk[v] EXCEPT !.st = "attaching", !.inst = n]]
      BY <3>1 DEF AttachVolume
    <3>3. disk'[v].st = "attaching" /\ disk'[v].size = disk[v].size
      BY <2>0, <3>2 DEF DiskRecord
    <3> QED
      BY <3>1, <3>3 DEF AttachVolume, IsAvailable
  <2>2. CASE \E n : DetachVolume(v, n)
    BY <2>0, <2>2 DEF DetachVolume, CanDetach, IsAttached, DiskRecord
  <2>3. CASE DeleteVolume(v)
    BY <2>3 DEF DeleteVolume, NoDisk
  <2>4. CASE AttachCompletes(v)
    BY <2>0, <2>4 DEF AttachCompletes, DiskRecord
  <2>5. CASE DetachCompletes(v)
    BY <2>0, <2>5 DEF DetachCompletes, DiskRecord
  <2>6. CASE ResizeCompletes(v)
    BY <2>0, <2>6 DEF ResizeCompletes, DiskRecord
  <2> QED
    BY <1>2, <2>1, <2>2, <2>3, <2>4, <2>5, <2>6 DEF CloudStep
<1> QED
  BY <1>1, <1>2

\* Of one handler's step: the others stay, the handler adds nothing, nor do the
\* disks.
LEMMA QuietStep ==
    ASSUME DiskInv, GhostInv, GrowthInv, NEW c \in Calls,
           \A d \in Calls \ {c} : pc'[d] = pc[d] /\ call'[d] = call[d],
           \A v \in Volumes : SlotQuiet(c, v),
           \A v \in Volumes : DiskQuiet(v),
           \A v \in Volumes : disk[v].st = "unused" => v \notin known' /\ call'[c].vol # v,
           UNCHANGED asked,
           pc'[c] = "idle" => call'[c] = NoCall
    PROVE  GrowthInv'
<1>1. ASSUME NEW v \in Volumes PROVE GrowthOK(v)'
  <2>1. \A d \in Calls : SlotQuiet(d, v)
    BY SlotStays
  <2>2. UnusedQuiet(v)
    BY DEF UnusedQuiet, DiskQuiet, GrowthInv, GrowthOK
  <2> QED
    BY <2>1, <2>2, QuietKeeps DEF GrowthInv
<1> QED
  BY <1>1 DEF GrowthInv

\* What the CO has not heard of has not been made.
LEMMA UnusedUnknown ==
    ASSUME GrowthInv, NEW v \in Volumes, disk[v].st = "unused"
    PROVE  v \notin known /\ \A c \in Calls : call[c].vol # v
  BY DEF GrowthInv, GrowthOK

LEMMA GotoStep ==
    ASSUME DiskInv, GhostInv, ControlInv, GrowthInv, NEW c \in Calls,
           NEW p \in PCs \ {"idle"}, Goto(c, p), call[c].op # "expand",
           \A v \in Volumes : DiskQuiet(v), UNCHANGED known, UNCHANGED asked
    PROVE  GrowthInv'
<1>1. \A d \in Calls \ {c} : pc'[d] = pc[d] /\ call'[d] = call[d]
  BY DEF Goto, ControlInv
<1>2. pc'[c] # "idle" /\ call'[c] = call[c]
  BY DEF Goto, ControlInv
<1>3. \A v \in Volumes : SlotQuiet(c, v)
  BY <1>2, SlotNotExpanding
<1> QED
  BY <1>1, <1>2, <1>3, UnusedUnknown, QuietStep

LEMMA ReturnStep ==
    ASSUME DiskInv, GhostInv, ControlInv, GrowthInv, NEW c \in Calls, Return(c),
           \A v \in Volumes : DiskQuiet(v),
           \A v \in Volumes : disk[v].st = "unused" => v \notin known',
           UNCHANGED asked
    PROVE  GrowthInv'
<1>1. \A d \in Calls \ {c} : pc'[d] = pc[d] /\ call'[d] = call[d]
  BY DEF Return, ControlInv
<1>2. call'[c] = NoCall /\ NoCall.op # "expand" /\ NoCall.vol = NoVolume
  BY DEF Return, ControlInv, NoCall
<1>3. \A v \in Volumes : SlotQuiet(c, v)
  BY <1>2, SlotNotExpanding
<1> QED
  BY <1>1, <1>2, <1>3, QuietStep

LEMMA SameDisksQuiet == UNCHANGED disk => \A v \in Volumes : DiskQuiet(v)
  BY DiskStays

\* A request other than an expansion begins with a volume the CO has heard of.
LEMMA BeginQuiet ==
    ASSUME DiskInv, GhostInv, ControlInv, GrowthInv, NEW c \in Calls, NEW req,
           NEW p \in PCs \ {"idle"}, req.op # "expand", req.vol \in Seen \cup {NoVolume},
           pc' = [pc EXCEPT ![c] = p], call' = [call EXCEPT ![c] = req],
           UNCHANGED <<disk, known, asked>>
    PROVE  GrowthInv'
<1>1. \A d \in Calls \ {c} : pc'[d] = pc[d] /\ call'[d] = call[d]
  BY DEF ControlInv
<1>2. pc'[c] # "idle" /\ call'[c] = req
  BY DEF ControlInv
<1>3. \A v \in Volumes : SlotQuiet(c, v)
  BY <1>2, SlotNotExpanding
<1>4. \A v \in Volumes : disk[v].st = "unused" => v \notin known' /\ req.vol # v
  BY UnusedUnknown DEF Seen
<1> QED
  BY <1>1, <1>2, <1>3, <1>4, SameDisksQuiet, QuietStep

LEMMA BeginGrowth ==
    ASSUME DiskInv, GhostInv, ControlInv, GrowthInv, NEW c \in Calls,
           \/ BeginCreate(c) \/ BeginDelete(c) \/ BeginPublish(c) \/ BeginUnpublish(c)
    PROVE  GrowthInv'
<1> USE DEF PCs, CreatePCs, DeletePCs, PublishPCs, UnpublishPCs, ExpandPCs, ghosts
<1> Seen \subseteq Volumes
  BY SeenVolumes
<1>1. CASE BeginCreate(c)
  <2>1. PICK r \in Replicas, nm \in Names, s \in CreateSizes :
           BeginLocked(c, [Request("create", r, NoVolume, NoInstance)
                             EXCEPT !.name = nm, !.size = s], nm, "lookup")
    BY <1>1 DEF BeginCreate
  <2> DEFINE req == [Request("create", r, NoVolume, NoInstance)
                       EXCEPT !.name = nm, !.size = s]
  <2>2. req.op = "create" /\ req.vol = NoVolume
    BY DEF Request, NoCall
  <2>3. pc' = [pc EXCEPT ![c] = "lookup"] /\ call' = [call EXCEPT ![c] = req]
    BY <2>1 DEF BeginLocked
  <2>4. UNCHANGED <<disk, known, asked>>
    BY <1>1 DEF BeginCreate
  <2> HIDE DEF req
  <2> QED
    BY <2>2, <2>3, <2>4, BeginQuiet
<1>2. CASE BeginDelete(c)
  <2>1. PICK r \in Replicas, v \in Seen :
           BeginLocked(c, Request("delete", r, v, NoInstance), v, "delete")
    BY <1>2 DEF BeginDelete
  <2> DEFINE req == Request("delete", r, v, NoInstance)
  <2>2. req.op = "delete" /\ req.vol = v
    BY DEF Request, NoCall
  <2>3. pc' = [pc EXCEPT ![c] = "delete"] /\ call' = [call EXCEPT ![c] = req]
    BY <2>1 DEF BeginLocked
  <2>4. UNCHANGED <<disk, known, asked>>
    BY <1>2 DEF BeginDelete
  <2> HIDE DEF req
  <2> QED
    BY <2>2, <2>3, <2>4, BeginQuiet
<1>3. CASE BeginPublish(c)
  <2>1. PICK r \in Replicas, v \in Seen, n \in Nodes :
           BeginUnlocked(c, Request("publish", r, v, n), "instance")
    BY <1>3 DEF BeginPublish
  <2> DEFINE req == Request("publish", r, v, n)
  <2>2. req.op = "publish" /\ req.vol = v
    BY DEF Request, NoCall
  <2>3. pc' = [pc EXCEPT ![c] = "instance"] /\ call' = [call EXCEPT ![c] = req]
    BY <2>1 DEF BeginUnlocked
  <2>4. UNCHANGED <<disk, known, asked>>
    BY <1>3 DEF BeginPublish
  <2> HIDE DEF req
  <2> QED
    BY <2>2, <2>3, <2>4, BeginQuiet
<1>4. CASE BeginUnpublish(c)
  <2>1. PICK r \in Replicas, v \in Seen, n \in Nodes :
           BeginLocked(c, Request("unpublish", r, v, n), v, "detach")
    BY <1>4 DEF BeginUnpublish
  <2> DEFINE req == Request("unpublish", r, v, n)
  <2>2. req.op = "unpublish" /\ req.vol = v
    BY DEF Request, NoCall
  <2>3. pc' = [pc EXCEPT ![c] = "detach"] /\ call' = [call EXCEPT ![c] = req]
    BY <2>1 DEF BeginLocked
  <2>4. UNCHANGED <<disk, known, asked>>
    BY <1>4 DEF BeginUnpublish
  <2> HIDE DEF req
  <2> QED
    BY <2>2, <2>3, <2>4, BeginQuiet
<1> QED
  BY <1>1, <1>2, <1>3, <1>4

\* A new disk has the size asked for, and nobody expands it yet.
LEMMA MadeGrowth ==
    ASSUME DiskInv, GhostInv, GrowthInv, NEW c \in Calls, NEW v \in Volumes,
           NEW nm, NEW n, NEW s \in 0..MaxUnits, CreateVolume(v, nm, n, s),
           asked' = [asked EXCEPT ![v].top = s], UNCHANGED known,
           \A d \in Calls \ {c} : pc'[d] = pc[d] /\ call'[d] = call[d],
           call'[c].op # "expand", call'[c].vol \in {v, NoVolume},
           pc'[c] = "idle" => call'[c] = NoCall
    PROVE  GrowthInv'
<1>0. v \notin known /\ \A d \in Calls : call[d].vol # v
  BY UnusedUnknown DEF CreateVolume
<1>1. ASSUME NEW u \in Volumes \ {v} PROVE GrowthOK(u)'
  <2>1. disk'[u] = disk[u] /\ asked'[u] = asked[u]
    BY <1>1 DEF CreateVolume, GhostInv
  <2>2. \A d \in Calls : SlotQuiet(d, u)
    BY SlotStays, SlotNotExpanding
  <2>3. UnusedQuiet(u)
    BY <1>1, <2>1, UnusedUnknown DEF UnusedQuiet
  <2> QED
    BY <2>1, <2>2, <2>3, DiskStays, QuietKeeps DEF GrowthInv
<1>2. GrowthOK(v)'
  <2>1. Expanding(v)' = {} /\ Armed(v)' = {} /\ Moving(v)' = {}
    BY <1>0 DEF Expanding, Armed, Moving
  <2>2. disk'[v].st = "creating" /\ disk'[v].size = s
    BY DEF CreateVolume
  <2>3. asked'[v].top = s /\ asked'[v].calls = asked[v].calls
    BY DEF GhostInv
  <2>4. asked[v].calls \in Nat /\ s \in Nat
    BY GrowthNumbers
  <2>5. IsFiniteSet({}) /\ Cardinality({}) = 0
    BY FS_EmptySet
  <2> QED
    BY <2>1, <2>2, <2>3, <2>4, <2>5 DEF GrowthOK, IsResizing, GrownSize, Exists
<1> QED
  BY <1>1, <1>2 DEF GrowthInv

LEMMA CreateGrowth ==
    ASSUME DiskInv, GhostInv, ControlInv, GrowthInv, NEW c \in Calls, CreateStep(c)
    PROVE  GrowthInv'
<1> USE DEF PCs, CreatePCs, CreatedPCs, ghosts
<1>0. /\ CallOK(c) /\ call[c] \in CallRecord
      /\ \A v \in Volumes : disk[v].st = "unused" => v \notin known
  BY UnusedUnknown DEF ControlInv
<1>1. CASE CreateLookup(c)
  <2>1. call[c].op # "expand"
    BY <1>0, <1>1 DEF CallOK, CreateLookup
  <2>2. \A v \in Volumes : disk[v].st = "unused" => v \notin known'
    BY <1>0, <1>1 DEF CreateLookup, DisksNamed, Exists
  <2> QED
    BY <1>1, <2>1, <2>2, SameDisksQuiet, GotoStep, ReturnStep DEF CreateLookup
<1>2. CASE CreateDisk(c)
  <2>1. CASE Return(c) /\ UNCHANGED <<disk, asked, known>>
    BY <1>0, <2>1, SameDisksQuiet, ReturnStep
  <2>2. CASE UNCHANGED known
             /\ \E v \in Volumes, n \in Instances :
                  /\ CreateVolume(v, call[c].name, n, call[c].size)
                  /\ pc' = [pc EXCEPT ![c] = "inUse"]
                  /\ call' = [call EXCEPT ![c].vol = v, ![c].node = n]
                  /\ asked' = [asked EXCEPT ![v].top = call[c].size]
    <3>1. PICK v \in Volumes, n \in Instances :
             /\ CreateVolume(v, call[c].name, n, call[c].size)
             /\ pc' = [pc EXCEPT ![c] = "inUse"]
             /\ call' = [call EXCEPT ![c].vol = v, ![c].node = n]
             /\ asked' = [asked EXCEPT ![v].top = call[c].size]
      BY <2>2
    <3>2. call' = [call EXCEPT ![c] = [call[c] EXCEPT !.vol = v, !.node = n]]
      BY <3>1
    <3>3. /\ call'[c].op = call[c].op /\ call'[c].vol = v
          /\ \A d \in Calls \ {c} : pc'[d] = pc[d] /\ call'[d] = call[d]
          /\ pc'[c] = "inUse"
      BY <1>0, <3>1, <3>2 DEF ControlInv, CallRecord
    <3>4. call[c].op = "create" /\ call[c].size \in 0..MaxUnits
      BY <1>0, <1>2 DEF CallOK, CreateDisk, CallRecord
    <3> QED
      BY <2>2, <3>1, <3>3, <3>4, MadeGrowth
  <2> QED
    BY <1>2, <2>1, <2>2 DEF CreateDisk
<1>3. CASE CreateInUse(c)
  <2>1. call[c].op # "expand"
    BY <1>0, <1>3 DEF CallOK, CreateInUse
  <2> QED
    BY <1>0, <1>3, <2>1, SameDisksQuiet, GotoStep, ReturnStep DEF CreateInUse
<1>4. CASE CreateDetachHelper(c)
  <2>1. call[c].op # "expand" /\ call[c].vol \in Volumes
    BY <1>0, <1>4 DEF CallOK, CreateDetachHelper
  <2>2. \A v \in Volumes : DiskQuiet(v)
    BY <1>4, <2>1, SameDisksQuiet, CallsQuiet DEF CreateDetachHelper
  <2> QED
    BY <1>0, <1>4, <2>1, <2>2, GotoStep, ReturnStep DEF CreateDetachHelper
<1>5. CASE CreateAvailable(c)
  <2>1. \A v \in Volumes : disk[v].st = "unused" => v \notin known'
    BY <1>0, <1>5 DEF CreateAvailable, Exists
  <2> QED
    BY <1>5, <2>1, SameDisksQuiet, ReturnStep DEF CreateAvailable
<1> QED
  BY <1>1, <1>2, <1>3, <1>4, <1>5 DEF CreateStep

LEMMA DeleteGrowth ==
    ASSUME DiskInv, GhostInv, ControlInv, GrowthInv, NEW c \in Calls, DeleteDisk(c)
    PROVE  GrowthInv'
<1>1. call[c].vol \in Volumes
  BY DEF ControlInv, CallOK, DeleteDisk, DeletePCs
<1>2. \A v \in Volumes : DiskQuiet(v)
  BY <1>1, SameDisksQuiet, CallsQuiet DEF DeleteDisk
<1>3. \A v \in Volumes : disk[v].st = "unused" => v \notin known'
  BY UnusedUnknown DEF DeleteDisk
<1> QED
  BY <1>2, <1>3, ReturnStep DEF DeleteDisk

LEMMA PublishGrowth ==
    ASSUME DiskInv, GhostInv, ControlInv, GrowthInv, NEW c \in Calls, PublishStep(c)
    PROVE  GrowthInv'
<1> USE DEF PCs, PublishPCs, ghosts
<1>0. /\ CallOK(c)
      /\ \A v \in Volumes : disk[v].st = "unused" => v \notin known
  BY UnusedUnknown DEF ControlInv
<1>1. call[c].op # "expand" /\ call[c].vol \in Volumes
  BY <1>0 DEF CallOK, PublishStep, PublishInstance, PublishVolume, PublishLock,
              PublishAttach, PublishAttached, PublishDevice
<1>2. CASE PublishInstance(c) \/ PublishVolume(c) \/ PublishAttached(c) \/ PublishDevice(c)
  BY <1>0, <1>1, <1>2, SameDisksQuiet, GotoStep, ReturnStep
     DEF PublishInstance, PublishVolume, PublishAttached, PublishDevice
<1>3. CASE PublishLock(c)
  <2>1. CASE Return(c)
    BY <1>0, <1>3, <2>1, SameDisksQuiet, ReturnStep DEF PublishLock
  <2>2. CASE pc' = [pc EXCEPT ![c] = "attach"] /\ UNCHANGED call
    <3>1. /\ \A d \in Calls \ {c} : pc'[d] = pc[d] /\ call'[d] = call[d]
          /\ pc'[c] # "idle" /\ call'[c] = call[c]
      BY <2>2 DEF ControlInv
    <3>2. \A v \in Volumes : SlotQuiet(c, v)
      BY <1>1, <3>1, SlotNotExpanding
    <3>3. UNCHANGED <<disk, known, asked>>
      BY <1>3 DEF PublishLock
    <3> QED
      BY <3>1, <3>2, <3>3, SameDisksQuiet, UnusedUnknown, QuietStep
  <2> QED
    BY <1>3, <2>1, <2>2 DEF PublishLock
<1>4. CASE PublishAttach(c)
  <2>1. \A v \in Volumes : DiskQuiet(v)
    BY <1>1, <1>4, SameDisksQuiet, CallsQuiet DEF PublishAttach
  <2> QED
    BY <1>0, <1>1, <1>4, <2>1, GotoStep, ReturnStep DEF PublishAttach
<1> QED
  BY <1>2, <1>3, <1>4 DEF PublishStep

LEMMA UnpublishGrowth ==
    ASSUME DiskInv, GhostInv, ControlInv, GrowthInv, NEW c \in Calls, UnpublishStep(c)
    PROVE  GrowthInv'
<1> USE DEF PCs, UnpublishPCs, ghosts
<1>0. /\ CallOK(c)
      /\ \A v \in Volumes : disk[v].st = "unused" => v \notin known
  BY UnusedUnknown DEF ControlInv
<1>1. call[c].op # "expand" /\ call[c].vol \in Volumes
  BY <1>0 DEF CallOK, UnpublishStep, UnpublishDetach, UnpublishDetached
<1>2. \A v \in Volumes : DiskQuiet(v)
  BY <1>1, SameDisksQuiet, CallsQuiet DEF UnpublishStep, UnpublishDetach, UnpublishDetached
<1> QED
  BY <1>0, <1>1, <1>2, GotoStep, ReturnStep
     DEF UnpublishStep, UnpublishDetach, UnpublishDetached

-----------------------------------------------------------------------------
(* The expansions themselves.                                              *)

\* At the other volumes an expansion's step adds nothing.
LEMMA ElsewhereKeeps ==
    ASSUME DiskInv, GhostInv, GrowthInv, NEW c \in Calls, NEW v \in Volumes,
           \A d \in Calls \ {c} : pc'[d] = pc[d] /\ call'[d] = call[d],
           call'[c].vol \in {v, NoVolume}, UNCHANGED known,
           \A u \in Volumes \ {v} : disk'[u] = disk[u] /\ asked'[u] = asked[u]
    PROVE  \A u \in Volumes \ {v} : GrowthOK(u)'
<1> SUFFICES ASSUME NEW u \in Volumes \ {v} PROVE GrowthOK(u)'
  OBVIOUS
<1>1. call'[c].vol # u
  OBVIOUS
<1>2. \A d \in Calls : SlotQuiet(d, u)
  BY <1>1, SlotStays, SlotElsewhere
<1>3. UnusedQuiet(u)
  BY <1>1, UnusedUnknown DEF UnusedQuiet
<1> QED
  BY <1>2, <1>3, DiskStays, QuietKeeps DEF GrowthInv

\* One more call, one more unit allowed.
LEMMA BeginExpandGrowth ==
    ASSUME DiskInv, GhostInv, ControlInv, GrowthInv, NEW c \in Calls, BeginExpand(c)
    PROVE  GrowthInv'
<1>1. PICK r \in Replicas, v \in Seen, s \in ExpandSizes :
         /\ BeginUnlocked(c, [Request("expand", r, v, NoInstance) EXCEPT !.size = s],
                          "current")
         /\ asked' = [asked EXCEPT
                        ![v] = [top   |-> IF s > asked[v].top THEN s ELSE asked[v].top,
                                calls |-> asked[v].calls + 1]]
         /\ UNCHANGED <<disk, known, published>>
  BY DEF BeginExpand
<1> DEFINE req == [Request("expand", r, v, NoInstance) EXCEPT !.size = s]
<1>2. v \in Volumes /\ disk[v].st # "unused"
  BY SeenVolumes, UnusedUnknown DEF Seen
<1>3. req.op = "expand" /\ req.vol = v /\ req.size = s
  BY DEF Request, NoCall
<1>4. /\ pc[c] = "idle" /\ pc'[c] = "current" /\ call'[c] = req
      /\ \A d \in Calls \ {c} : pc'[d] = pc[d] /\ call'[d] = call[d]
  BY <1>1 DEF BeginUnlocked, ControlInv
<1>5. /\ asked'[v].top = IF s > asked[v].top THEN s ELSE asked[v].top
      /\ asked'[v].calls = asked[v].calls + 1
  BY <1>1, <1>2 DEF GhostInv
<1> HIDE DEF req
<1>6. \A u \in Volumes \ {v} : GrowthOK(u)'
  <2>1. \A u \in Volumes \ {v} : disk'[u] = disk[u] /\ asked'[u] = asked[u]
    BY <1>1, <1>2 DEF GhostInv
  <2> QED
    BY <1>1, <1>2, <1>3, <1>4, <2>1, ElsewhereKeeps
<1>7. GrowthOK(v)'
  <2>1. c \notin Expanding(v)
    BY <1>4 DEF GrowthInv, Expanding, NoCall
  <2>2. /\ Expanding(v)' = Expanding(v) \cup {c}
        /\ Moving(v)' = Moving(v) \cup {c}
        /\ Armed(v)' = Armed(v)
    BY <1>3, <1>4, <2>1 DEF Expanding, Moving, Armed
  <2>3. GrowthOK(v)
    BY <1>2 DEF GrowthInv
  <2>4. c \notin Moving(v)
    BY <2>1 DEF Moving
  <2>5. /\ IsFiniteSet(Expanding(v)')
        /\ Cardinality(Expanding(v)') = Cardinality(Expanding(v)) + 1
        /\ Cardinality(Moving(v)') = Cardinality(Moving(v)) + 1
    <3>1. IsFiniteSet(Expanding(v)) /\ IsFiniteSet(Moving(v))
      BY <2>3, GrowthCounts DEF GrowthOK
    <3>2. /\ IsFiniteSet(Expanding(v) \cup {c})
          /\ Cardinality(Expanding(v) \cup {c}) = Cardinality(Expanding(v)) + 1
      BY <2>1, <3>1, FS_AddElement
    <3>3. Cardinality(Moving(v) \cup {c}) = Cardinality(Moving(v)) + 1
      BY <2>4, <3>1, FS_AddElement
    <3> QED
      BY <2>2, <3>2, <3>3
  <2>6. /\ Cardinality(Expanding(v)) \in Nat /\ Cardinality(Moving(v)) \in Nat
        /\ Cardinality(Armed(v)) \in Nat
        /\ GrownSize(v) \in Nat /\ asked[v].top \in Nat /\ asked[v].calls \in Nat
        /\ s \in Nat
    BY <1>2, <2>3, GrowthCounts, GrowthNumbers DEF GrowthOK
  <2>7. (IsResizing(v)' <=> IsResizing(v)) /\ (Exists(v)' <=> Exists(v))
        /\ GrownSize(v)' = GrownSize(v) /\ disk'[v].st # "unused"
    BY <1>1, <1>2 DEF IsResizing, Exists, GrownSize
  <2>8. \A d \in Expanding(v)' : call'[d].size <= asked'[v].top
    <3>1. call'[c].size <= asked'[v].top
      BY <1>3, <1>4, <1>5, <2>6
    <3>2. ASSUME NEW d \in Expanding(v) PROVE call'[d].size <= asked'[v].top
      <4>1. d \in Calls /\ d # c /\ call[d].size <= asked[v].top
        BY <2>1, <2>3 DEF GrowthOK, Expanding
      <4>2. call[d].size \in Nat
        BY <4>1 DEF ControlInv, CallRecord
      <4> QED
        BY <1>4, <1>5, <2>6, <4>1, <4>2
    <3> QED
      BY <2>2, <3>1, <3>2
  <2>9. asked[v].top <= asked'[v].top /\ asked'[v].top \in Nat
    BY <1>5, <2>6
  <2> QED
    BY <1>5, <2>2, <2>3, <2>5, <2>6, <2>7, <2>8, <2>9 DEF GrowthOK
<1>8. \A d \in Calls : pc'[d] = "idle" => call'[d] = NoCall
  BY <1>4 DEF GrowthInv
<1> QED
  BY <1>6, <1>7, <1>8 DEF GrowthInv

\* A handler that finds the disk no larger than it should be decides to extend
\* it: no more handlers have decided so than there are calls, less the one
\* whose unit is on its way.
LEMMA ArmGrowth ==
    ASSUME DiskInv, GhostInv, ControlInv, GrowthInv, NEW c \in Calls,
           NEW v \in Volumes, call[c].vol = v,
           pc[c] \in {"current", "check"}, Goto(c, "extend"), Exists(v),
           disk[v].size <= call[c].size, UNCHANGED <<disk, ghosts>>
    PROVE  GrowthInv'
<1>1. call[c].op = "expand" /\ call[c].size \in Nat
  BY DEF ControlInv, CallOK, ExpandPCs, CallRecord
<1>2. /\ pc'[c] = "extend" /\ UNCHANGED call
      /\ \A d \in Calls \ {c} : pc'[d] = pc[d]
  BY DEF Goto, ControlInv
<1>3. UNCHANGED <<disk, known, asked>>
  BY DEF ghosts
<1>4. \A u \in Volumes \ {v} : GrowthOK(u)'
  BY <1>1, <1>2, <1>3, ElsewhereKeeps
<1>5. GrowthOK(v)'
  <2>1. GrowthOK(v) /\ c \in Expanding(v) /\ c \in Moving(v) /\ c \notin Armed(v)
    BY <1>1 DEF GrowthInv, Expanding, Moving, Armed
  <2>2. /\ Expanding(v)' = Expanding(v) /\ Moving(v)' = Moving(v)
        /\ Armed(v)' = Armed(v) \cup {c}
    BY <1>1, <1>2, <2>1 DEF Expanding, Moving, Armed
  <2>3. Armed(v) \cup {c} \in SUBSET Moving(v)
    BY <2>1 DEF Moving, Armed
  <2>4. /\ IsFiniteSet(Moving(v)) /\ IsFiniteSet(Armed(v))
        /\ Cardinality(Armed(v)) \in Nat /\ Cardinality(Moving(v)) \in Nat
        /\ Cardinality(Expanding(v)) \in Nat
        /\ Cardinality(Moving(v)) <= Cardinality(Expanding(v))
    BY <2>1, GrowthCounts DEF GrowthOK
  <2>5. /\ Cardinality(Armed(v)') = Cardinality(Armed(v)) + 1
        /\ Cardinality(Armed(v)) + 1 <= Cardinality(Moving(v))
    <3>1. Cardinality(Armed(v) \cup {c}) = Cardinality(Armed(v)) + 1
      BY <2>1, <2>4, FS_AddElement
    <3>2. Cardinality(Armed(v) \cup {c}) <= Cardinality(Moving(v))
      BY <2>3, <2>4, FS_Subset
    <3> QED
      BY <2>2, <3>1, <3>2
  <2>6. disk[v].size \in Nat /\ asked[v].top \in Nat /\ asked[v].calls \in Nat
    BY <1>1, GrowthNumbers
  <2>7. disk[v].size <= asked[v].top
    BY <1>1, <2>1, <2>6 DEF GrowthOK
  <2>8. GrownSize(v) + Cardinality(Armed(v)') <= asked[v].top + asked[v].calls
    <3>1. CASE IsResizing(v)
      <4>1. Cardinality(Moving(v)) < asked[v].calls
        BY <2>1, <3>1 DEF GrowthOK
      <4> QED
        BY <2>4, <2>5, <2>6, <2>7, <3>1, <4>1 DEF GrownSize
    <3>2. CASE ~IsResizing(v)
      <4>1. Cardinality(Expanding(v)) <= asked[v].calls
        BY <2>1 DEF GrowthOK
      <4> QED
        BY <2>4, <2>5, <2>6, <2>7, <3>2, <4>1 DEF GrownSize
    <3> QED
      BY <3>1, <3>2
  <2>9. /\ IsResizing(v)' <=> IsResizing(v)
        /\ Exists(v)' <=> Exists(v)
        /\ GrownSize(v)' = GrownSize(v)
    BY <1>2, <1>3 DEF IsResizing, Exists, GrownSize
  <2> QED
    BY <1>2, <1>3, <2>1, <2>2, <2>8, <2>9 DEF GrowthOK
<1>6. \A d \in Calls : pc'[d] = "idle" => call'[d] = NoCall
  BY <1>2 DEF GrowthInv
<1> QED
  BY <1>4, <1>5, <1>6 DEF GrowthInv

\* The extension itself, by a handler that then waits for it, or by a request
\* whose handler has given up.
LEMMA ExtendGrowth ==
    ASSUME DiskInv, GhostInv, ControlInv, GrowthInv, NEW c \in Calls,
           NEW v \in Volumes, call[c].vol = v, call[c].op = "expand",
           pc[c] \in {"extend", "late"}, ExtendVolumeSize(v), UNCHANGED <<known, asked>>,
           \A d \in Calls \ {c} : pc'[d] = pc[d] /\ call'[d] = call[d],
           \/ pc'[c] = "extended" /\ call'[c] = call[c]
           \/ pc'[c] = "idle" /\ call'[c] = NoCall
    PROVE  GrowthInv'
<1>1. NoCall.vol = NoVolume /\ NoCall.op # "expand"
  BY DEF NoCall
<1>2. \A u \in Volumes \ {v} : GrowthOK(u)'
  <2>1. \A u \in Volumes \ {v} : disk'[u] = disk[u] /\ asked'[u] = asked[u]
    BY DEF ExtendVolumeSize
  <2>2. call'[c].vol \in {v, NoVolume}
    BY <1>1
  <2> QED
    BY <2>1, <2>2, ElsewhereKeeps
<1>3. GrowthOK(v)'
  <2>1. GrowthOK(v) /\ c \in Expanding(v) /\ c \in Armed(v)
    BY DEF GrowthInv, Expanding, Armed
  <2>2. /\ Expanding(v)' \in SUBSET Expanding(v)
        /\ Moving(v)' \in SUBSET (Expanding(v) \ {c})
        /\ Armed(v)' = Armed(v) \ {c}
        /\ \A d \in Expanding(v)' : call'[d].size = call[d].size
    BY <1>1, <2>1 DEF Expanding, Moving, Armed
  <2>3. IsFiniteSet(Expanding(v)) /\ IsFiniteSet(Armed(v))
    BY <2>1, GrowthCounts DEF GrowthOK
  <2>4. /\ IsFiniteSet(Expanding(v)')
        /\ Cardinality(Expanding(v)') <= Cardinality(Expanding(v))
    BY <2>2, <2>3, FS_Subset
  <2>5. /\ IsFiniteSet(Expanding(v) \ {c})
        /\ Cardinality(Expanding(v) \ {c}) = Cardinality(Expanding(v)) - 1
        /\ Cardinality(Armed(v)') = Cardinality(Armed(v)) - 1
    BY <2>1, <2>2, <2>3, FS_RemoveElement
  <2>6. /\ IsFiniteSet(Moving(v)')
        /\ Cardinality(Moving(v)') <= Cardinality(Expanding(v) \ {c})
    BY <2>2, <2>5, FS_Subset
  <2>7. /\ Cardinality(Expanding(v)) \in Nat /\ Cardinality(Armed(v)) \in Nat
        /\ Cardinality(Expanding(v)') \in Nat /\ Cardinality(Moving(v)') \in Nat
    BY <2>3, <2>4, <2>6, FS_CardinalityType
  <2>8. /\ GrownSize(v) \in Nat /\ asked[v].top \in Nat /\ asked[v].calls \in Nat
        /\ disk[v].size \in Nat
    BY GrowthNumbers
  <2>9. /\ Exists(v) /\ GrownSize(v)' = GrownSize(v) + 1
        /\ disk'[v].st # "unused"
    <3>1. disk[v] \in DiskRecord
      OBVIOUS
    <3>2. CASE IsAttached(v)
      BY <2>8, <3>1, <3>2 DEF ExtendVolumeSize, IsAttached, Exists, GrownSize, IsResizing,
                              DiskRecord
    <3>3. CASE ~IsAttached(v)
      BY <2>8, <3>1, <3>3 DEF ExtendVolumeSize, CanExtend, IsAttached, IsAvailable, Exists,
                              GrownSize, IsResizing, DiskRecord
    <3> QED
      BY <3>2, <3>3
  <2>10. GrownSize(v)' + Cardinality(Armed(v)') <= asked'[v].top + asked'[v].calls
    BY <2>1, <2>5, <2>7, <2>8, <2>9 DEF GrowthOK
  <2>11. /\ Cardinality(Expanding(v)') <= asked'[v].calls
         /\ Cardinality(Moving(v)') < asked'[v].calls
    BY <2>1, <2>4, <2>5, <2>6, <2>7, <2>8 DEF GrowthOK
  <2>12. \A d \in Expanding(v)' : call'[d].size <= asked'[v].top
    BY <2>1, <2>2 DEF GrowthOK
  <2> QED
    BY <2>4, <2>9, <2>10, <2>11, <2>12 DEF GrowthOK
<1>4. \A d \in Calls : pc'[d] = "idle" => call'[d] = NoCall
  BY DEF GrowthInv
<1> QED
  BY <1>2, <1>3, <1>4 DEF GrowthInv

\* Every step of an expansion is one of these, or adds nothing.
LEMMA ExpandGrowth ==
    ASSUME DiskInv, GhostInv, ControlInv, GrowthInv, NEW c \in Calls, ExpandStep(c)
    PROVE  GrowthInv'
<1> USE DEF PCs, ExpandPCs, ghosts
<1>0. /\ CallOK(c) /\ call[c] \in CallRecord
      /\ \A v \in Volumes : disk[v].st = "unused" => v \notin known
  BY UnusedUnknown DEF ControlInv
<1>1. PICK v \in Volumes : call[c].vol = v
  BY <1>0 DEF CallOK, ExpandStep, ExpandCurrent, ExpandExtend, ExpandExtended, ExpandCheck
<1>2. call[c].op = "expand" /\ call[c].size \in Nat /\ disk[v].size \in Nat
  BY <1>0, GrowthNumbers
     DEF CallOK, ExpandStep, ExpandCurrent, ExpandExtend, ExpandExtended, ExpandCheck,
         CallRecord
<1>3. CASE Return(c) /\ UNCHANGED <<disk, ghosts>>
  BY <1>0, <1>3, SameDisksQuiet, ReturnStep
<1>4. CASE ExpandCurrent(c)
  <2>1. CASE Goto(c, "extend") /\ Exists(v)
             /\ ResizeDecision(disk[v].size, call[c].size) = "extend"
    <3>1. disk[v].size <= call[c].size
      BY <1>2, <2>1 DEF ResizeDecision
    <3> QED
      BY <1>1, <1>4, <2>1, <3>1, ArmGrowth DEF ExpandCurrent
  <2> QED
    BY <1>1, <1>3, <1>4, <2>1 DEF ExpandCurrent
<1>5. CASE ExpandExtend(c)
  <2>1. CASE ExtendVolumeSize(v) /\ Goto(c, "extended")
    <3>1. /\ \A d \in Calls \ {c} : pc'[d] = pc[d] /\ call'[d] = call[d]
          /\ pc'[c] = "extended" /\ call'[c] = call[c]
      BY <2>1 DEF Goto, ControlInv
    <3>2. pc[c] = "extend" /\ UNCHANGED <<known, asked>>
      BY <1>5 DEF ExpandExtend
    <3> QED
      BY <1>1, <1>2, <2>1, <3>1, <3>2, ExtendGrowth
  <2> QED
    BY <1>1, <1>3, <1>5, <2>1 DEF ExpandExtend
<1>6. CASE ExpandExtended(c)
  <2>1. CASE AttachmentStateIs(v, "attached") /\ Goto(c, "check") /\ Exists(v)
    <3>1. disk[v].st = "attached" /\ UNCHANGED <<disk, known, asked>>
      BY <1>6, <2>1 DEF ExpandExtended, AttachmentStateIs, HasAttachment
    <3>2. /\ \A d \in Calls \ {c} : pc'[d] = pc[d] /\ call'[d] = call[d]
          /\ pc'[c] = "check" /\ call'[c] = call[c]
      BY <2>1 DEF Goto, ControlInv
    <3>3. \A u \in Volumes : SlotQuiet(c, u)
      BY <1>1, <3>1, <3>2 DEF SlotQuiet, Expanding, Armed, Moving, IsResizing
    <3> QED
      BY <3>1, <3>2, <3>3, SameDisksQuiet, UnusedUnknown, QuietStep
  <2> QED
    BY <1>1, <1>3, <1>6, <2>1 DEF ExpandExtended
<1>7. CASE ExpandCheck(c)
  <2>1. CASE Goto(c, "extend") /\ Exists(v) /\ ~ResizeDone(disk[v].size, call[c].size)
    <3>1. disk[v].size <= call[c].size
      BY <1>2, <2>1 DEF ResizeDone
    <3> QED
      BY <1>1, <1>7, <2>1, <3>1, ArmGrowth DEF ExpandCheck
  <2> QED
    BY <1>1, <1>3, <1>7, <2>1 DEF ExpandCheck
<1> QED
  BY <1>4, <1>5, <1>6, <1>7 DEF ExpandStep

-----------------------------------------------------------------------------
(* Failures, the cloud, and the theorem.                                   *)

LEMMA FaultGrowth ==
    ASSUME DiskInv, GhostInv, ControlInv, GrowthInv, NEW c \in Calls, FaultStep(c)
    PROVE  GrowthInv'
<1>0. /\ CallOK(c) /\ call[c] \in CallRecord
      /\ \A v \in Volumes : disk[v].st = "unused" => v \notin known /\ call[c].vol # v
  BY UnusedUnknown DEF ControlInv
<1>1. CASE Fail(c)
  BY <1>0, <1>1, SameDisksQuiet, ReturnStep DEF Fail, ghosts
<1>2. CASE Abandon(c)
  <2>1. /\ \A d \in Calls \ {c} : pc'[d] = pc[d] /\ call'[d] = call[d]
        /\ pc'[c] = "late" /\ call'[c] = call[c]
    BY <1>2 DEF Abandon, ControlInv
  <2>2. call[c].op = "expand" => pc[c] = "extend"
    BY <1>0, <1>2 DEF Abandon, WritePCs, CallOK, CreatePCs, DeletePCs, PublishPCs,
                      UnpublishPCs
  <2>3. \A v \in Volumes : SlotQuiet(c, v)
    BY <2>1, <2>2 DEF SlotQuiet, Expanding, Armed, Moving
  <2>4. UNCHANGED <<disk, known, asked>>
    BY <1>2 DEF Abandon, ghosts
  <2> QED
    BY <1>0, <2>1, <2>3, <2>4, SameDisksQuiet, QuietStep
<1>3. CASE LateArrives(c) \/ LateIsLost(c)
  <2>1. /\ \A d \in Calls \ {c} : pc'[d] = pc[d] /\ call'[d] = call[d]
        /\ pc[c] = "late" /\ pc'[c] = "idle" /\ call'[c] = NoCall
        /\ UNCHANGED known
    BY <1>3 DEF LateArrives, LateIsLost, ControlInv, ghosts
  <2>2. NoCall.op # "expand" /\ NoCall.vol = NoVolume
    BY DEF NoCall
  <2>3. ASSUME UNCHANGED asked, \A v \in Volumes : DiskQuiet(v)
        PROVE  GrowthInv'
    <3>1. \A v \in Volumes : SlotQuiet(c, v)
      BY <2>1, <2>2, SlotNotExpanding
    <3>2. \A v \in Volumes : disk[v].st = "unused" => v \notin known' /\ call'[c].vol # v
      BY <1>0, <2>1, <2>2
    <3> QED
      BY <2>1, <2>3, <3>1, <3>2, QuietStep
  <2>4. CASE LateIsLost(c)
    BY <2>3, <2>4, SameDisksQuiet DEF LateIsLost, ghosts
  <2>5. CASE LateArrives(c)
    <3>1. LateEffect(c) /\ call[c].op \in Operations
      BY <1>0, <2>1, <2>5 DEF LateArrives, CallOK
    <3>2. CASE call[c].op = "create" /\ call[c].vol = NoVolume
      <4>1. PICK u \in Volumes, h \in Instances :
               /\ CreateVolume(u, call[c].name, h, call[c].size)
               /\ asked' = [asked EXCEPT ![u].top = call[c].size]
        BY <3>1, <3>2 DEF LateEffect
      <4>2. call[c].size \in 0..MaxUnits
        BY <1>0 DEF CallRecord
      <4> QED
        BY <2>1, <2>2, <4>1, <4>2, MadeGrowth
    <3>3. CASE call[c].op \in {"create", "unpublish"} /\ call[c].vol # NoVolume
      <4>1. DetachVolume(call[c].vol, call[c].node) /\ UNCHANGED asked
        BY <3>1, <3>3 DEF LateEffect
      <4>2. call[c].vol \in Volumes
        BY <1>0, <3>3 DEF CallRecord
      <4> QED
        BY <2>3, <4>1, <4>2, CallsQuiet
    <3>4. CASE call[c].op = "delete"
      <4>1. DeleteVolume(call[c].vol) /\ UNCHANGED asked /\ call[c].vol \in Volumes
        BY <1>0, <2>1, <3>1, <3>4 DEF LateEffect, CallOK
      <4> QED
        BY <2>3, <4>1, CallsQuiet
    <3>5. CASE call[c].op = "publish"
      <4>1. /\ AttachVolume(call[c].vol, call[c].node) /\ UNCHANGED asked
            /\ call[c].vol \in Volumes
        BY <1>0, <2>1, <3>1, <3>5 DEF LateEffect, CallOK
      <4> QED
        BY <2>3, <4>1, CallsQuiet
    <3>6. CASE call[c].op = "expand"
      <4>1. PICK v \in Volumes : call[c].vol = v
        BY <1>0, <2>1, <3>6 DEF CallOK
      <4>2. ExtendVolumeSize(v) /\ UNCHANGED asked
        BY <3>1, <3>6, <4>1 DEF LateEffect
      <4> QED
        BY <2>1, <3>6, <4>1, <4>2, ExtendGrowth
    <3>7. call[c].op = "unpublish" => call[c].vol # NoVolume
      BY <1>0, <2>1 DEF CallOK
    <3> QED
      BY <3>1, <3>2, <3>3, <3>4, <3>5, <3>6, <3>7 DEF Operations
  <2> QED
    BY <1>3, <2>4, <2>5
<1> QED
  BY <1>1, <1>2, <1>3 DEF FaultStep

\* A restart, or a step of the cloud, starts no expansion.
LEMMA OthersGrowth ==
    ASSUME DiskInv, GhostInv, ControlInv, GrowthInv,
           \/ \E r \in Replicas : Restart(r)
           \/ \E v \in Volumes : CloudStep(v)
    PROVE  GrowthInv'
<1>1. UNCHANGED <<known, asked>>
  BY DEF Restart, CloudStep, ghosts
<1>2. NoCall.op # "expand" /\ NoCall.vol = NoVolume
  BY DEF NoCall
<1>3. \A d \in Calls : \/ pc'[d] = pc[d] /\ call'[d] = call[d]
                       \/ pc'[d] = "idle" /\ call'[d] = NoCall
  BY DEF Restart, CloudStep, handlers
<1>4. \A v \in Volumes : DiskQuiet(v)
  BY SameDisksQuiet, CallsQuiet DEF Restart
<1>5. ASSUME NEW v \in Volumes PROVE GrowthOK(v)'
  <2>1. \A d \in Calls : SlotQuiet(d, v)
    BY <1>2, <1>3, SlotStays, SlotNotExpanding
  <2>2. UnusedQuiet(v)
    BY <1>1, <1>2, <1>3, <1>4, UnusedUnknown DEF UnusedQuiet, DiskQuiet
  <2> QED
    BY <1>1, <1>4, <2>1, <2>2, QuietKeeps DEF GrowthInv
<1>6. \A d \in Calls : pc'[d] = "idle" => call'[d] = NoCall
  BY <1>3 DEF GrowthInv
<1> QED
  BY <1>5, <1>6 DEF GrowthInv

\* No disk, no expansion.
THEOREM InitGrowthInv == Init => GrowthInv
<1> SUFFICES ASSUME Init PROVE GrowthInv
  OBVIOUS
<1>1. ASSUME NEW v \in Volumes PROVE GrowthOK(v)
  <2>1. \A c \in Calls : call[c] = NoCall /\ NoCall.op # "expand" /\ NoCall.vol = NoVolume
    BY DEF Init, NoCall
  <2>2. Expanding(v) = {} /\ Armed(v) = {} /\ Moving(v) = {}
    BY <2>1 DEF Expanding, Armed, Moving
  <2>3. disk[v].st = "unused" /\ known = {} /\ asked[v].calls = 0
    BY DEF Init, DiskInit, NoDisk
  <2> QED
    BY <2>1, <2>2, <2>3, FS_EmptySet DEF GrowthOK, IsResizing, Exists
<1> QED
  BY <1>1 DEF GrowthInv, Init

\* Every step keeps the account of the extensions to come.
THEOREM NextGrowthInv == TypeInv /\ GrowthInv /\ [Next]_vars => GrowthInv'
<1> SUFFICES ASSUME DiskInv, ControlInv, GhostInv, GrowthInv, [Next]_vars
             PROVE  GrowthInv'
  BY TypeInvParts DEF TypeInv, TypeOK, ControlInv, GhostInv
<1>1. CASE UNCHANGED vars
  <2>1. UNCHANGED <<disk, known, asked, pc, call>>
    BY <1>1 DEF vars, handlers, ghosts
  <2>2. ASSUME NEW v \in Volumes PROVE GrowthOK(v)'
    <3>1. /\ Expanding(v)' = Expanding(v) /\ Moving(v)' = Moving(v)
          /\ Armed(v)' = Armed(v) /\ GrownSize(v)' = GrownSize(v)
          /\ IsResizing(v)' = IsResizing(v) /\ Exists(v)' = Exists(v)
      BY <2>1 DEF Expanding, Armed, Moving, IsResizing, GrownSize, Exists
    <3>2. GrowthOK(v)
      BY DEF GrowthInv
    <3> QED
      BY <2>1, <3>1, <3>2 DEF GrowthOK
  <2> QED
    BY <2>1, <2>2 DEF GrowthInv
<1>2. ASSUME NEW c \in Calls, Begin(c) \/ HandlerStep(c) \/ FaultStep(c) PROVE GrowthInv'
  BY <1>2, BeginGrowth, BeginExpandGrowth, CreateGrowth, DeleteGrowth, PublishGrowth,
     UnpublishGrowth, ExpandGrowth, FaultGrowth
     DEF Begin, HandlerStep
<1> QED
  BY <1>1, <1>2, OthersGrowth DEF Next

\* However many expansions run at once, unlocked, repeated, given up or cut off
\* by a restart, a disk outgrows the largest size asked for by at most one unit
\* for each ControllerExpandVolume, for any number of volumes, replicas and
\* requests, with any leaders and failures.
THEOREM GrowthBounded == Spec => []OvershootBounded
<1>1. DiskInv /\ GhostInv /\ GrowthInv => OvershootBounded
  <2> SUFFICES ASSUME DiskInv, GhostInv, GrowthInv, NEW v \in Volumes, Exists(v)
               PROVE  GrownSize(v) <= asked[v].top + asked[v].calls
    BY DEF OvershootBounded, GrownSize, IsResizing
  <2>1. GrowthOK(v)
    BY DEF GrowthInv
  <2>2. Cardinality(Armed(v)) \in Nat
    BY <2>1, GrowthCounts DEF GrowthOK
  <2>3. GrownSize(v) \in Nat /\ asked[v].top \in Nat /\ asked[v].calls \in Nat
    BY GrowthNumbers
  <2> QED
    BY <2>1, <2>2, <2>3 DEF GrowthOK
<1>2. TypeInv /\ GrowthInv => OvershootBounded
  BY <1>1, TypeInvParts
<1> QED
  BY <1>2, InitTypeInv, InitGrowthInv, NextTypeInv, NextGrowthInv, PTL DEF Spec

=============================================================================
