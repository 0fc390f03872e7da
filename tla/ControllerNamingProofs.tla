----------------------- MODULE ControllerNamingProofs -----------------------
(***************************************************************************)
(* What CreateVolume and DeleteVolume do to names, for every value of the  *)
(* constants and whoever leads, as long as no request outlives its         *)
(* handler: the controller implements VolumeNaming, and a name has no more *)
(* disks than the provisioner has leaders.                                 *)
(***************************************************************************)
EXTENDS ControllerNaming, ControllerLockProofs, FiniteSetTheorems

USE NifcloudAssumption, InFlightAssumption, ControllerAssumption
USE DEF DiskInv

(* Names and IDs of disks.                                                 *)

\* The disks keep their names, and none appears or goes.
KeepsIdentity ==
    \A u \in Volumes :
        /\ Exists(u)' <=> Exists(u)
        /\ disk'[u].st = "deleted" <=> disk[u].st = "deleted"
        /\ disk'[u].name = disk[u].name

\* Disks that stay as they are keep their identity.
LEMMA SameDisksKeepIdentity == UNCHANGED disk => KeepsIdentity
  BY DEF KeepsIdentity, Exists

\* The CO may name the same volumes as long as disks keep their identity.
LEMMA SameSeen == KeepsIdentity /\ UNCHANGED known => Seen' = Seen
  BY DEF KeepsIdentity, Seen

\* Attaching, ...
LEMMA AttachKeepsIdentity ==
    ASSUME DiskInv, NEW v \in Volumes, NEW n, AttachVolume(v, n)
    PROVE  KeepsIdentity
  BY DEF AttachVolume, IsAvailable, KeepsIdentity, Exists, DiskRecord

\* ... detaching ...
LEMMA DetachKeepsIdentity ==
    ASSUME DiskInv, NEW v \in Volumes, NEW n, DetachVolume(v, n)
    PROVE  KeepsIdentity
  BY DEF DetachVolume, CanDetach, IsAttached, KeepsIdentity, Exists, DiskRecord

\* ... and extending a disk change neither its name nor whether it exists.
LEMMA ExtendKeepsIdentity ==
    ASSUME DiskInv, NEW v \in Volumes, ExtendVolumeSize(v)
    PROVE  KeepsIdentity
  BY DEF ExtendVolumeSize, CanExtend, IsAttached, IsAvailable, KeepsIdentity, Exists,
         DiskRecord

\* So does what the cloud completes.
LEMMA CloudKeepsIdentity ==
    ASSUME DiskInv, NEW v \in Volumes, CloudStep(v)
    PROVE  KeepsIdentity
  BY DEF CloudStep, AttachCompletes, DetachCompletes, ResizeCompletes, KeepsIdentity,
         Exists, DiskRecord

-----------------------------------------------------------------------------
(* The handlers that make a disk.                                          *)

\* The makers of a name are leaders.
LEMMA MakersLead ==
    ASSUME ControlInv, NEW nm
    PROVE  MakersOf(nm) \subseteq Leaders["provisioner"]
<1>1. ASSUME NEW c \in Calls, pc[c] = "create"
      PROVE  call[c].rep \in Leaders["provisioner"]
  BY <1>1 DEF ControlInv, CallOK, Running, CreatePCs, SidecarOf
<1> QED
  BY <1>1 DEF MakersOf

\* The same of the next state.
LEMMA MakersLeadNext ==
    ASSUME ControlInv', NEW nm
    PROVE  MakersOf(nm)' \subseteq Leaders["provisioner"]
<1>1. ASSUME NEW c \in Calls, pc'[c] = "create"
      PROVE  call'[c].rep \in Leaders["provisioner"]
  BY <1>1 DEF ControlInv, CallOK, Running, CreatePCs, SidecarOf
<1> QED
  BY <1>1 DEF MakersOf

\* A step makes no handler a maker, abandons none, and a handler that will
\* delete has been told by the CO.
SlotQuietly(d) ==
    /\ pc'[d] = "create" => pc[d] = "create" /\ call'[d] = call[d]
    /\ pc'[d] # "late"
    /\ pc'[d] = "delete" => call'[d].vol \in Seen

NoMaker == \A d \in Calls : SlotQuietly(d)

\* A slot that does not move is quiet.
LEMMA SlotRests ==
    ASSUME NamingInv, NEW d \in Calls, pc'[d] = pc[d], call'[d] = call[d]
    PROVE  SlotQuietly(d)
  BY DEF NamingInv, SlotQuietly

\* If only one slot moves, it is the only one to look at.
LEMMA OneSlotMoves ==
    ASSUME NamingInv, NEW c \in Calls, SlotQuietly(c),
           \A d \in Calls \ {c} : pc'[d] = pc[d] /\ call'[d] = call[d]
    PROVE  NoMaker
  BY SlotRests DEF NoMaker

\* A handler that goes on, but to the creation, ...
LEMMA GotoNoMaker ==
    ASSUME NamingInv, ControlInv, NEW c \in Calls, NEW p, Goto(c, p),
           p \notin {"create", "late", "delete"}
    PROVE  NoMaker
<1>1. SlotQuietly(c) /\ \A d \in Calls \ {c} : pc'[d] = pc[d] /\ call'[d] = call[d]
  BY DEF Goto, ControlInv, SlotQuietly
<1> QED
  BY <1>1, OneSlotMoves

\* ... or returns is quiet, ...
LEMMA ReturnNoMaker ==
    ASSUME NamingInv, ControlInv, NEW c \in Calls, Return(c)
    PROVE  NoMaker
<1>1. SlotQuietly(c) /\ \A d \in Calls \ {c} : pc'[d] = pc[d] /\ call'[d] = call[d]
  BY DEF Return, ControlInv, SlotQuietly
<1> QED
  BY <1>1, OneSlotMoves

\* ... and so is a request that begins.
LEMMA BeginNoMaker ==
    ASSUME NamingInv, ControlInv, NEW c \in Calls, Begin(c)
    PROVE  NoMaker
<1>1. ASSUME NEW p, NEW req, p \notin {"create", "late"},
             p = "delete" => req.vol \in Seen,
             pc' = [pc EXCEPT ![c] = p], call' = [call EXCEPT ![c] = req]
      PROVE  NoMaker
  <2>1. SlotQuietly(c)
    BY <1>1 DEF ControlInv, SlotQuietly
  <2>2. \A d \in Calls \ {c} : pc'[d] = pc[d] /\ call'[d] = call[d]
    BY <1>1 DEF ControlInv
  <2> QED
    BY <2>1, <2>2, OneSlotMoves
<1>2. CASE BeginCreate(c)
  BY <1>1, <1>2 DEF BeginCreate, BeginLocked
<1>3. CASE BeginDelete(c)
  <2>1. PICK r \in Replicas, v \in Seen :
          BeginLocked(c, Request("delete", r, v, NoInstance), v, "delete")
    BY <1>3 DEF BeginDelete
  <2>2. Request("delete", r, v, NoInstance).vol = v
    BY DEF Request, NoCall
  <2> QED
    BY <1>1, <2>1, <2>2 DEF BeginLocked
<1>4. CASE BeginPublish(c)
  BY <1>1, <1>4 DEF BeginPublish, BeginUnlocked
<1>5. CASE BeginUnpublish(c)
  BY <1>1, <1>5 DEF BeginUnpublish, BeginLocked
<1>6. CASE BeginExpand(c)
  BY <1>1, <1>6 DEF BeginExpand, BeginUnlocked
<1> QED
  BY <1>2, <1>3, <1>4, <1>5, <1>6 DEF Begin

-----------------------------------------------------------------------------
(* What a step does to names: nothing, ...                                 *)

NamesStay == NoMaker /\ KeepsIdentity /\ UNCHANGED known

\* ... the CO is told of a disk, ...
TellsOf(v) ==
    NoMaker /\ UNCHANGED disk /\ Exists(v) /\ known' = known \cup {v}

\* ... a disk the CO knows is deleted, ...
Removes(v) ==
    /\ NoMaker
    /\ v \in known /\ Exists(v)
    /\ disk' = [disk EXCEPT ![v] = NoDisk("deleted")]
    /\ known' = known \ {v}

\* ... a handler has found no disk of its name, ...
Arms(c) ==
    /\ pc[c] = "lookup" /\ DisksNamed(call[c].name) = {}
    /\ pc' = [pc EXCEPT ![c] = "create"]
    /\ UNCHANGED <<call, disk, known>>

\* ... or a maker makes one.
Makes(c, v) ==
    /\ pc[c] = "create"
    /\ disk[v].st = "unused"
    /\ disk'[v].st = "creating" /\ disk'[v].name = call[c].name
    /\ \A u \in Volumes \ {v} : disk'[u] = disk[u]
    /\ pc'[c] = "inUse"
    /\ \A d \in Calls \ {c} : pc'[d] = pc[d] /\ call'[d] = call[d]
    /\ UNCHANGED known

NamingStep ==
    \/ NamesStay
    \/ \E v \in Volumes : TellsOf(v) \/ Removes(v)
    \/ \E c \in Calls : Arms(c) \/ \E v \in Volumes : Makes(c, v)

\* A step of a handler that touches neither disks nor what the CO knows.
LEMMA QuietNames ==
    NoMaker /\ UNCHANGED <<disk, known>> => NamingStep
  BY SameDisksKeepIdentity DEF NamingStep, NamesStay

\* CreateVolume tells, arms and makes.
LEMMA CreateNames ==
    ASSUME NamingInv, DiskInv, ControlInv, NEW c \in Calls, CreateStep(c)
    PROVE  NamingStep
<1> USE DEF ghosts, CreatedPCs, CreatePCs
<1>0. CallOK(c)
  BY DEF ControlInv
<1>1. CASE CreateLookup(c)
  <2>1. CASE DisksNamed(call[c].name) = {} /\ Goto(c, "create") /\ UNCHANGED known
    BY <1>1, <2>1 DEF CreateLookup, Goto, Arms, NamingStep
  <2>2. ASSUME NEW v \in DisksNamed(call[c].name), Return(c),
               known' = IF SameSize(v, call[c].size) THEN known \cup {v} ELSE known
        PROVE  NamingStep
    <3>1. NoMaker /\ UNCHANGED disk
      BY <1>1, <2>2, ReturnNoMaker DEF CreateLookup
    <3>2. v \in Volumes /\ Exists(v)
      BY <2>2 DEF DisksNamed
    <3>3. CASE known' = known
      BY <3>1, <3>3, QuietNames
    <3>4. CASE known' = known \cup {v}
      BY <3>1, <3>2, <3>4 DEF TellsOf, NamingStep
    <3> QED
      BY <2>2, <3>3, <3>4
  <2> QED
    BY <1>1, <2>1, <2>2 DEF CreateLookup
<1>2. CASE CreateDisk(c)
  <2>1. CASE Return(c) /\ UNCHANGED disk
    BY <1>2, <2>1, ReturnNoMaker, QuietNames DEF CreateDisk
  <2>2. ASSUME NEW v \in Volumes, NEW n \in Instances,
               CreateVolume(v, call[c].name, n, call[c].size),
               pc' = [pc EXCEPT ![c] = "inUse"],
               call' = [call EXCEPT ![c].vol = v, ![c].node = n]
        PROVE  Makes(c, v)
    BY <1>2, <2>2 DEF CreateDisk, CreateVolume, Makes, ControlInv
  <2> QED
    BY <1>2, <2>1, <2>2 DEF CreateDisk, NamingStep
<1>3. CASE CreateInUse(c)
  BY <1>3, GotoNoMaker, ReturnNoMaker, QuietNames DEF CreateInUse
<1>4. CASE CreateDetachHelper(c)
  <2>1. CASE DetachVolume(call[c].vol, call[c].node) /\ Goto(c, "available")
    BY <1>0, <1>4, <2>1, GotoNoMaker, DetachKeepsIdentity
       DEF CreateDetachHelper, CallOK, NamingStep, NamesStay
  <2>2. CASE Return(c) /\ UNCHANGED disk
    BY <1>4, <2>2, ReturnNoMaker, QuietNames DEF CreateDetachHelper
  <2> QED
    BY <1>4, <2>1, <2>2 DEF CreateDetachHelper
<1>5. CASE CreateAvailable(c)
  <2>1. NoMaker /\ UNCHANGED disk /\ call[c].vol \in Volumes
    BY <1>0, <1>5, ReturnNoMaker DEF CreateAvailable, CallOK
  <2>2. CASE Exists(call[c].vol)
    BY <1>5, <2>1, <2>2 DEF CreateAvailable, TellsOf, NamingStep
  <2>3. CASE ~Exists(call[c].vol)
    BY <1>5, <2>1, <2>3, QuietNames DEF CreateAvailable
  <2> QED
    BY <2>2, <2>3
<1> QED
  BY <1>1, <1>2, <1>3, <1>4, <1>5 DEF CreateStep

\* DeleteVolume removes a disk the CO knows of, or nothing.
LEMMA DeleteNames ==
    ASSUME NamingInv, DiskInv, ControlInv, NEW c \in Calls, DeleteDisk(c)
    PROVE  NamingStep
<1> DEFINE v == call[c].vol
<1>1. NoMaker /\ v \in Volumes /\ v \in Seen
  BY ReturnNoMaker DEF DeleteDisk, ControlInv, CallOK, DeletePCs, NamingInv
<1>2. CASE DeleteVolume(v) /\ known' = known \ {v}
  <2>1. IsAvailable(v) /\ disk' = [disk EXCEPT ![v] = NoDisk("deleted")]
    BY <1>2 DEF DeleteVolume
  <2>2. v \in known /\ Exists(v)
    BY <1>1, <2>1 DEF IsAvailable, Seen, Exists
  <2> QED
    BY <1>1, <1>2, <2>1, <2>2 DEF Removes, NamingStep
<1>3. CASE ~Exists(v) /\ known' = known \ {v} /\ UNCHANGED disk
  <2>1. known' = known
    BY <1>3 DEF NamingInv, KnownExist
  <2> QED
    BY <1>1, <1>3, <2>1, QuietNames
<1>4. CASE UNCHANGED <<disk, known>>
  BY <1>1, <1>4, QuietNames
<1> QED
  BY <1>2, <1>3, <1>4 DEF DeleteDisk

\* The attacher and the resizer leave names alone.
LEMMA OtherNames ==
    ASSUME NamingInv, DiskInv, ControlInv, NEW c \in Calls,
           PublishStep(c) \/ UnpublishStep(c) \/ ExpandStep(c)
    PROVE  NamingStep
<1> USE DEF ghosts, PublishPCs, UnpublishPCs, ExpandPCs
<1>0. CallOK(c)
  BY DEF ControlInv
<1>1. CASE PublishInstance(c) \/ PublishVolume(c) \/ PublishAttached(c) \/ PublishDevice(c)
  BY <1>1, GotoNoMaker, ReturnNoMaker, QuietNames
     DEF PublishInstance, PublishVolume, PublishAttached, PublishDevice
<1>2. CASE PublishLock(c)
  <2>1. CASE pc' = [pc EXCEPT ![c] = "attach"] /\ UNCHANGED call
    <3>1. SlotQuietly(c) /\ \A d \in Calls \ {c} : pc'[d] = pc[d] /\ call'[d] = call[d]
      BY <2>1 DEF ControlInv, SlotQuietly
    <3> QED
      BY <1>2, <3>1, OneSlotMoves, QuietNames DEF PublishLock
  <2> QED
    BY <1>2, <2>1, ReturnNoMaker, QuietNames DEF PublishLock
<1>3. CASE PublishAttach(c)
  <2>1. CASE AttachVolume(call[c].vol, call[c].node) /\ Goto(c, "attached")
    BY <1>0, <1>3, <2>1, GotoNoMaker, AttachKeepsIdentity
       DEF PublishAttach, CallOK, NamingStep, NamesStay
  <2> QED
    BY <1>3, <2>1, GotoNoMaker, ReturnNoMaker, QuietNames DEF PublishAttach
<1>4. CASE UnpublishDetach(c)
  <2>1. CASE DetachVolume(call[c].vol, call[c].node) /\ Goto(c, "detached")
    BY <1>0, <1>4, <2>1, GotoNoMaker, DetachKeepsIdentity
       DEF UnpublishDetach, CallOK, NamingStep, NamesStay
  <2> QED
    BY <1>4, <2>1, ReturnNoMaker, QuietNames DEF UnpublishDetach
<1>5. CASE UnpublishDetached(c)
  BY <1>5, ReturnNoMaker, QuietNames DEF UnpublishDetached
<1>6. CASE ExpandExtend(c)
  <2>1. CASE ExtendVolumeSize(call[c].vol) /\ Goto(c, "extended")
    BY <1>0, <1>6, <2>1, GotoNoMaker, ExtendKeepsIdentity
       DEF ExpandExtend, CallOK, NamingStep, NamesStay
  <2> QED
    BY <1>6, <2>1, ReturnNoMaker, QuietNames DEF ExpandExtend
<1>7. CASE ExpandCurrent(c) \/ ExpandExtended(c) \/ ExpandCheck(c)
  BY <1>7, GotoNoMaker, ReturnNoMaker, QuietNames
     DEF ExpandCurrent, ExpandExtended, ExpandCheck
<1> QED
  BY <1>1, <1>2, <1>3, <1>4, <1>5, <1>6, <1>7 DEF PublishStep, UnpublishStep, ExpandStep

\* Every step of the controller is of one of the five kinds.
LEMMA EveryNamingStep ==
    ASSUME NothingLate, NamingInv, DiskInv, ControlInv, [Next]_vars
    PROVE  NamingStep
<1>1. CASE UNCHANGED vars
  <2>1. UNCHANGED <<disk, known, pc, call>>
    BY <1>1 DEF vars, handlers, ghosts
  <2>2. NoMaker
    BY <2>1, SlotRests DEF NoMaker
  <2> QED
    BY <2>1, <2>2, QuietNames
<1>2. ASSUME NEW c \in Calls, Begin(c) PROVE NamingStep
  <2>1. UNCHANGED <<disk, known>>
    BY <1>2 DEF Begin, BeginCreate, BeginDelete, BeginPublish, BeginUnpublish, BeginExpand,
                ghosts
  <2> QED
    BY <1>2, <2>1, BeginNoMaker, QuietNames
<1>3. ASSUME NEW c \in Calls, HandlerStep(c) PROVE NamingStep
  BY <1>3, CreateNames, DeleteNames, OtherNames DEF HandlerStep
<1>4. ASSUME NEW c \in Calls, FaultStep(c) PROVE NamingStep
  <2>1. Fail(c)
    BY <1>4 DEF FaultStep, Abandon, LateArrives, LateIsLost, NothingLate, NamingInv
  <2> QED
    BY <2>1, ReturnNoMaker, QuietNames DEF Fail, ghosts
<1>5. ASSUME NEW r \in Replicas, Restart(r) PROVE NamingStep
  <2>1. UNCHANGED <<disk, known>>
    BY <1>5 DEF Restart, ghosts
  <2>2. ASSUME NEW d \in Calls PROVE SlotQuietly(d)
    <3>1. CASE Running(d) /\ call[d].rep = r
      BY <1>5, <3>1 DEF Restart, SlotQuietly
    <3>2. CASE ~(Running(d) /\ call[d].rep = r)
      BY <1>5, <3>2, SlotRests DEF Restart
    <3> QED
      BY <3>1, <3>2
  <2> QED
    BY <2>1, <2>2, QuietNames DEF NoMaker
<1>6. ASSUME NEW v \in Volumes, CloudStep(v) PROVE NamingStep
  <2>1. UNCHANGED <<pc, call, known>>
    BY <1>6 DEF CloudStep, handlers, ghosts
  <2>2. NoMaker
    BY <2>1, SlotRests DEF NoMaker
  <2> QED
    BY <1>6, <2>1, <2>2, CloudKeepsIdentity DEF NamingStep, NamesStay
<1> QED
  BY <1>1, <1>2, <1>3, <1>4, <1>5, <1>6 DEF Next

-----------------------------------------------------------------------------
(* The disks of a name and the makers of another one are no more than the  *)
(* leaders.                                                                *)

\* Fewer disks and fewer makers are fewer of both.
LEMMA SumShrinks ==
    ASSUME NEW D, IsFiniteSet(D), NEW M, IsFiniteSet(M),
           NEW E \in SUBSET D, NEW N \in SUBSET M
    PROVE  /\ IsFiniteSet(E)
           /\ Cardinality(E) + Cardinality(N) <= Cardinality(D) + Cardinality(M)
<1>1. IsFiniteSet(E) /\ Cardinality(E) <= Cardinality(D)
  BY FS_Subset, Zenon
<1>2. IsFiniteSet(N) /\ Cardinality(N) <= Cardinality(M)
  BY FS_Subset, Zenon
<1>3. /\ Cardinality(D) \in Nat /\ Cardinality(E) \in Nat
      /\ Cardinality(M) \in Nat /\ Cardinality(N) \in Nat
  BY <1>1, <1>2, FS_CardinalityType, Zenon
<1> QED
  BY <1>1, <1>2, <1>3

\* One disk more and one maker less are as many as before.
LEMMA SumExchanged ==
    ASSUME NEW D, IsFiniteSet(D), NEW M, IsFiniteSet(M), NEW v, NEW r \in M,
           NEW N \in SUBSET (M \ {r})
    PROVE  /\ IsFiniteSet(D \cup {v})
           /\ Cardinality(D \cup {v}) + Cardinality(N) <= Cardinality(D) + Cardinality(M)
<1> DEFINE R == M \ {r}
           E == D \cup {v}
<1>1. /\ IsFiniteSet(E)
      /\ Cardinality(E) = IF v \in D THEN Cardinality(D) ELSE Cardinality(D) + 1
  BY FS_AddElement, Zenon
<1>2. IsFiniteSet(R) /\ Cardinality(R) = Cardinality(M) - 1
  BY FS_RemoveElement
<1>3. IsFiniteSet(N) /\ Cardinality(N) <= Cardinality(R)
  <2>1. N \in SUBSET R
    OBVIOUS
  <2> HIDE DEF R
  <2> QED
    BY <1>2, <2>1, FS_Subset, Zenon
<1>4. Cardinality(D) \in Nat /\ Cardinality(M) \in Nat /\ Cardinality(N) \in Nat
  BY <1>3, FS_CardinalityType, Zenon
<1> QED
  BY <1>1, <1>2, <1>3, <1>4

\* There are finitely many makers.
LEMMA FiniteMakers ==
    ASSUME FiniteLeaders, ControlInv, NEW nm
    PROVE  IsFiniteSet(MakersOf(nm))
  BY MakersLead, FS_Subset, Zenon DEF FiniteLeaders

\* Where neither a disk of the name nor a maker is added, the bound is kept.
LEMMA FewerCopies ==
    ASSUME FiniteLeaders, ControlInv, NEW nm, CopiesOK(nm),
           DisksNamed(nm)' \subseteq DisksNamed(nm), MakersOf(nm)' \subseteq MakersOf(nm)
    PROVE  CopiesOK(nm)'
<1> DEFINE D == DisksNamed(nm)
           M == MakersOf(nm)
           L == Leaders["provisioner"]
<1>1. IsFiniteSet(D) /\ IsFiniteSet(M) /\ Cardinality(D) + Cardinality(M) <= Cardinality(L)
  BY FiniteMakers DEF CopiesOK
<1>2. IsFiniteSet(L)
  BY DEF FiniteLeaders
<1>3. /\ IsFiniteSet(D')
      /\ Cardinality(D') + Cardinality(M') <= Cardinality(D) + Cardinality(M)
  <2>1. D' \in SUBSET D /\ M' \in SUBSET M
    OBVIOUS
  <2> HIDE DEF D, M
  <2> QED
    BY <1>1, <2>1, SumShrinks
<1>4. /\ Cardinality(D) \in Nat /\ Cardinality(M) \in Nat /\ Cardinality(L) \in Nat
      /\ Cardinality(D') \in Nat /\ Cardinality(M') \in Nat
  <2>1. IsFiniteSet(M')
    BY <1>1, FS_Subset, Zenon
  <2> HIDE DEF D, M, L
  <2> QED
    BY <1>1, <1>2, <1>3, <2>1, FS_CardinalityType, Zenon
<1> QED
  BY <1>1, <1>3, <1>4 DEF CopiesOK

\* Quiet slots add no maker.
LEMMA QuietMakers == ASSUME NoMaker, NEW nm PROVE MakersOf(nm)' \subseteq MakersOf(nm)
  BY DEF NoMaker, SlotQuietly, MakersOf

\* A handler may make a disk when it has found none: then there is room for
\* as many makers as there are leaders.
LEMMA ArmedCopies ==
    ASSUME FiniteLeaders, ControlInv, ControlInv', NEW nm, CopiesOK(nm),
           NEW c \in Calls, Arms(c)
    PROVE  CopiesOK(nm)'
<1>1. DisksNamed(nm)' = DisksNamed(nm)
  BY DEF Arms, DisksNamed, Exists
<1>2. CASE call[c].name = nm
  <2> DEFINE L == Leaders["provisioner"]
             M == MakersOf(nm)'
  <2>1. DisksNamed(nm)' = {}
    BY <1>1, <1>2 DEF Arms
  <2>2. IsFiniteSet(DisksNamed(nm)') /\ Cardinality(DisksNamed(nm)') = 0
    BY <2>1, FS_EmptySet, Zenon
  <2>3. IsFiniteSet(L) /\ M \in SUBSET L
    BY MakersLeadNext DEF FiniteLeaders
  <2>4. IsFiniteSet(M) /\ Cardinality(M) <= Cardinality(L)
    <3> HIDE DEF L, M
    <3> QED
      BY <2>3, FS_Subset, Zenon
  <2>5. Cardinality(M) \in Nat /\ Cardinality(L) \in Nat
    BY <2>3, <2>4, FS_CardinalityType, Zenon
  <2> QED
    BY <2>2, <2>4, <2>5 DEF CopiesOK
<1>3. CASE call[c].name # nm
  <2>1. \A d \in Calls : call'[d] = call[d] /\ (d # c => pc'[d] = pc[d])
    BY DEF Arms, ControlInv
  <2>2. MakersOf(nm)' \subseteq MakersOf(nm)
    BY <1>3, <2>1 DEF MakersOf
  <2> QED
    BY <1>1, <2>2, FewerCopies
<1> QED
  BY <1>2, <1>3

\* No two makers of a name run on one replica.
LEMMA MakersExcluded ==
    ASSUME ControlInv, KeyExclusive, NEW c \in Calls, NEW d \in Calls,
           pc[c] = "create", pc[d] = "create", call[c].name = call[d].name,
           call[c].rep = call[d].rep
    PROVE  c = d
<1>1. call[c].op = "create" /\ call[d].op = "create" /\ Holds(c) /\ Holds(d)
  BY DEF ControlInv, CallOK, CreatePCs, Holds, LockedPCs
<1> QED
  BY <1>1 DEF KeyExclusive, Key

\* A maker that makes its disk is a maker no more.
LEMMA MadeCopies ==
    ASSUME FiniteLeaders, ControlInv, KeyExclusive, NEW nm, CopiesOK(nm),
           NEW c \in Calls, NEW v \in Volumes, Makes(c, v)
    PROVE  CopiesOK(nm)'
<1>1. MakersOf(nm)' \subseteq MakersOf(nm)
  BY DEF Makes, MakersOf
<1>2. CASE call[c].name # nm
  <2>1. DisksNamed(nm)' \subseteq DisksNamed(nm)
    BY <1>2 DEF Makes, DisksNamed, Exists
  <2> QED
    BY <1>1, <2>1, FewerCopies
<1>3. CASE call[c].name = nm
  <2> DEFINE D == DisksNamed(nm)
             M == MakersOf(nm)
             L == Leaders["provisioner"]
             N == MakersOf(nm)'
             r == call[c].rep
  <2>1. DisksNamed(nm)' = D \cup {v}
    BY <1>3 DEF Makes, DisksNamed, Exists
  <2>2. r \in M
    BY <1>3 DEF Makes, MakersOf
  <2>3. N \in SUBSET (M \ {r})
    <3>1. ASSUME NEW d \in Calls, pc'[d] = "create", call'[d].name = nm
          PROVE  call'[d].rep \in M /\ call'[d].rep # r
      <4>1. pc[d] = "create" /\ call'[d] = call[d] /\ d # c
        BY <3>1 DEF Makes
      <4>2. call[d].rep # r
        BY <1>3, <3>1, <4>1, MakersExcluded DEF Makes
      <4> QED
        BY <3>1, <4>1, <4>2 DEF MakersOf
    <3> QED
      BY <3>1 DEF MakersOf
  <2>4. /\ IsFiniteSet(D) /\ IsFiniteSet(M) /\ IsFiniteSet(L)
        /\ Cardinality(D) + Cardinality(M) <= Cardinality(L)
    BY FiniteMakers DEF CopiesOK, FiniteLeaders
  <2>5. /\ IsFiniteSet(D \cup {v})
        /\ Cardinality(D \cup {v}) + Cardinality(N) <= Cardinality(D) + Cardinality(M)
    <3> HIDE DEF D, M, N, r
    <3> QED
      BY <2>2, <2>3, <2>4, SumExchanged
  <2>6. IsFiniteSet(N)
    <3>1. N \in SUBSET M
      BY <2>3
    <3> HIDE DEF N, M
    <3> QED
      BY <2>4, <3>1, FS_Subset, Zenon
  <2>7. /\ Cardinality(D) \in Nat /\ Cardinality(M) \in Nat /\ Cardinality(L) \in Nat
        /\ Cardinality(D \cup {v}) \in Nat /\ Cardinality(N) \in Nat
    <3> HIDE DEF D, M, L, N
    <3> QED
      BY <2>4, <2>5, <2>6, FS_CardinalityType, Zenon
  <2> QED
    BY <2>1, <2>4, <2>5, <2>7 DEF CopiesOK
<1> QED
  BY <1>2, <1>3

\* Each of the five kinds of step keeps the bound, ...
LEMMA CopiesKept ==
    ASSUME FiniteLeaders, ControlInv, ControlInv', KeyExclusive, NamingStep,
           NEW nm \in Names, CopiesOK(nm)
    PROVE  CopiesOK(nm)'
<1>1. CASE NamesStay
  <2>1. DisksNamed(nm)' \subseteq DisksNamed(nm)
    BY <1>1 DEF NamesStay, KeepsIdentity, DisksNamed
  <2> QED
    BY <1>1, <2>1, QuietMakers, FewerCopies DEF NamesStay
<1>2. ASSUME NEW v \in Volumes, TellsOf(v) PROVE CopiesOK(nm)'
  <2>1. DisksNamed(nm)' \subseteq DisksNamed(nm)
    BY <1>2 DEF TellsOf, DisksNamed, Exists
  <2> QED
    BY <1>2, <2>1, QuietMakers, FewerCopies DEF TellsOf
<1>3. ASSUME NEW v \in Volumes, Removes(v) PROVE CopiesOK(nm)'
  <2>1. DisksNamed(nm)' \subseteq DisksNamed(nm)
    BY <1>3 DEF Removes, DisksNamed, Exists, NoDisk
  <2> QED
    BY <1>3, <2>1, QuietMakers, FewerCopies DEF Removes
<1> QED
  BY <1>1, <1>2, <1>3, ArmedCopies, MadeCopies DEF NamingStep

\* ... the names in the descriptions, ...
LEMMA NamesKept ==
    ASSUME DiskInv, ControlInv, NamesOK, NamingStep
    PROVE  NamesOK'
<1>1. CASE NamesStay
  BY <1>1 DEF NamesStay, KeepsIdentity, NamesOK
<1>2. ASSUME NEW v \in Volumes, TellsOf(v) PROVE NamesOK'
  BY <1>2 DEF TellsOf, NamesOK, Exists
<1>3. ASSUME NEW v \in Volumes, Removes(v) PROVE NamesOK'
  BY <1>3 DEF Removes, NamesOK, Exists, NoDisk
<1>4. ASSUME NEW c \in Calls, Arms(c) PROVE NamesOK'
  BY <1>4 DEF Arms, NamesOK, Exists
<1>5. ASSUME NEW c \in Calls, NEW v \in Volumes, Makes(c, v) PROVE NamesOK'
  <2>1. call[c].name \in Names
    BY <1>5 DEF Makes, ControlInv, CallOK, CreatePCs
  <2> QED
    BY <1>5, <2>1 DEF Makes, NamesOK, Exists
<1> QED
  BY <1>1, <1>2, <1>3, <1>4, <1>5 DEF NamingStep

\* ... what the CO knows, ...
LEMMA KnownKept ==
    ASSUME GhostInv, DiskInv, KnownExist, NamingStep
    PROVE  KnownExist' /\ Seen \subseteq Seen'
<1> USE DEF KnownExist, Seen, Exists, GhostInv
<1>1. CASE NamesStay
  BY <1>1 DEF NamesStay, KeepsIdentity
<1>2. ASSUME NEW v \in Volumes, TellsOf(v) PROVE KnownExist' /\ Seen \subseteq Seen'
  BY <1>2 DEF TellsOf
<1>3. ASSUME NEW v \in Volumes, Removes(v) PROVE KnownExist' /\ Seen \subseteq Seen'
  BY <1>3 DEF Removes, NoDisk
<1>4. ASSUME NEW c \in Calls, Arms(c) PROVE KnownExist' /\ Seen \subseteq Seen'
  BY <1>4 DEF Arms
<1>5. ASSUME NEW c \in Calls, NEW v \in Volumes, Makes(c, v)
      PROVE  KnownExist' /\ Seen \subseteq Seen'
  BY <1>5 DEF Makes
<1> QED
  BY <1>1, <1>2, <1>3, <1>4, <1>5 DEF NamingStep

\* ... and the order of the slots.
LEMMA SlotsKept ==
    ASSUME NamingInv, ControlInv, NamingStep, Seen \subseteq Seen', NEW d \in Calls
    PROVE  pc'[d] # "late" /\ (pc'[d] = "delete" => call'[d].vol \in Seen')
<1>1. CASE NoMaker
  BY <1>1 DEF NoMaker, SlotQuietly
<1>2. ASSUME NEW c \in Calls, Arms(c)
      PROVE  pc'[d] # "late" /\ (pc'[d] = "delete" => call'[d].vol \in Seen')
  BY <1>2 DEF Arms, NamingInv, ControlInv
<1>3. ASSUME NEW c \in Calls, NEW v \in Volumes, Makes(c, v)
      PROVE  pc'[d] # "late" /\ (pc'[d] = "delete" => call'[d].vol \in Seen')
  BY <1>3 DEF Makes, NamingInv
<1> QED
  BY <1>1, <1>2, <1>3 DEF NamingStep, NamesStay, TellsOf, Removes

\* Initially there are neither disks nor handlers.
THEOREM InitNamingInv == ASSUME FiniteLeaders PROVE Init => NamingInv
<1> SUFFICES ASSUME Init PROVE NamingInv
  OBVIOUS
<1>1. NamesOK /\ KnownExist
  BY DEF Init, DiskInit, NoDisk, NamesOK, KnownExist, Exists
<1>2. \A c \in Calls : pc[c] # "late" /\ (pc[c] = "delete" => call[c].vol \in Seen)
  BY DEF Init
<1>3. ASSUME NEW nm \in Names PROVE CopiesOK(nm)
  <2>1. DisksNamed(nm) = {} /\ MakersOf(nm) = {}
    BY DEF Init, DiskInit, NoDisk, DisksNamed, MakersOf, Exists
  <2>2. IsFiniteSet({}) /\ Cardinality({}) = 0
    BY FS_EmptySet, Zenon
  <2>3. Cardinality(Leaders["provisioner"]) \in Nat
    BY FS_CardinalityType, Zenon DEF FiniteLeaders
  <2> QED
    BY <2>1, <2>2, <2>3 DEF CopiesOK
<1> QED
  BY <1>1, <1>2, <1>3 DEF NamingInv

\* Every step keeps the invariant of the names: a handler that finds no disk may
\* make one, and only one, and while it may the table of its replica keeps every
\* other handler off the name.
THEOREM NextNamingInv ==
    ASSUME NothingLate, FiniteLeaders
    PROVE  TypeInv /\ TypeInv' /\ LockInv /\ NamingInv /\ [Next]_vars => NamingInv'
<1> SUFFICES ASSUME DiskInv, ControlInv, ControlInv', GhostInv, KeyExclusive, NamingInv,
                    [Next]_vars
             PROVE  NamingInv'
  BY TypeInvParts DEF LockInv, TypeInv, TypeOK, ControlInv
<1>1. NamingStep
  BY EveryNamingStep
<1>2. \A nm \in Names : CopiesOK(nm)'
  BY <1>1, CopiesKept DEF NamingInv
<1>3. NamesOK' /\ KnownExist' /\ Seen \subseteq Seen'
  BY <1>1, NamesKept, KnownKept DEF NamingInv
<1>4. \A d \in Calls : pc'[d] # "late" /\ (pc'[d] = "delete" => call'[d].vol \in Seen')
  BY <1>1, <1>3, SlotsKept
<1> QED
  BY <1>2, <1>3, <1>4 DEF NamingInv

\* The invariant of the names holds in every run in which no request outlives its
\* handler.
THEOREM NamingCorrect ==
    ASSUME NothingLate, FiniteLeaders PROVE Spec => []NamingInv
  BY InitTypeInv, InitLockInv, InitNamingInv, NextTypeInv, NextLockInv, NextNamingInv, PTL
     DEF Spec

\* However often CreateVolume is cut off, by a timeout, a failed request, a restart
\* or a change of the leader, and is retried, a name has no more disks than there
\* are replicas that may receive the call at a time.
THEOREM DisksBounded ==
    ASSUME NothingLate, FiniteLeaders PROVE Spec => []DisksPerNameBounded
<1>1. ASSUME TypeInv, NamingInv, NEW nm \in Names
      PROVE  Cardinality(DisksNamed(nm)) <= Cardinality(Leaders["provisioner"])
  <2>1. /\ IsFiniteSet(DisksNamed(nm)) /\ IsFiniteSet(MakersOf(nm))
        /\ IsFiniteSet(Leaders["provisioner"])
    BY <1>1, TypeInvParts, FiniteMakers DEF NamingInv, CopiesOK, FiniteLeaders
  <2>2. /\ Cardinality(DisksNamed(nm)) \in Nat /\ Cardinality(MakersOf(nm)) \in Nat
        /\ Cardinality(Leaders["provisioner"]) \in Nat
    BY <2>1, FS_CardinalityType, Zenon
  <2> QED
    BY <1>1, <2>2 DEF NamingInv, CopiesOK
<1>2. TypeInv /\ NamingInv => DisksPerNameBounded
  BY <1>1 DEF DisksPerNameBounded
<1> QED
  BY <1>2, TypeCorrect, NamingCorrect, PTL

-----------------------------------------------------------------------------
(* The controller implements VolumeNaming.                                 *)

\* Steps of the abstract specification, and steps that are none of its.
NamingView == [Naming!Next]_<<nameOf, unused, known>>

\* Where disks keep their identity the CO sees the same names.
LEMMA SameNames ==
    ASSUME DiskInv, DiskInv', KeepsIdentity
    PROVE  UNCHANGED <<nameOf, unused>>
<1>1. \A v \in Volumes : disk'[v].st = "unused" <=> disk[v].st = "unused"
  BY DEF KeepsIdentity, Exists
<1> QED
  BY <1>1 DEF KeepsIdentity, nameOf, unused

\* The disks of a name are those whose description holds it.
LEMMA NamedInView ==
    ASSUME NamesOK, NEW nm \in Names
    PROVE  {u \in Volumes : nameOf[u] = nm} = DisksNamed(nm)
  BY DEF NamesOK, nameOf, DisksNamed

\* The instance counts as this module does.
LEMMA SameCardinality == \A S : Naming!Cardinality(S) = Cardinality(S)
  BY DEF Naming!Cardinality, Cardinality

\* As long as a handler may still make a disk of a name, there is room for it.
LEMMA RoomForCopy ==
    ASSUME FiniteLeaders, ControlInv, NamingInv, NEW c \in Calls, pc[c] = "create",
           call[c].name \in Names
    PROVE  Cardinality(DisksNamed(call[c].name)) < Cardinality(Leaders["provisioner"])
<1> DEFINE D == DisksNamed(call[c].name)
           M == MakersOf(call[c].name)
           L == Leaders["provisioner"]
<1>1. /\ IsFiniteSet(D) /\ IsFiniteSet(M) /\ IsFiniteSet(L)
      /\ Cardinality(D) + Cardinality(M) <= Cardinality(L)
  BY FiniteMakers DEF NamingInv, CopiesOK, FiniteLeaders
<1>2. M # {}
  BY DEF MakersOf
<1>3. /\ Cardinality(D) \in Nat /\ Cardinality(M) \in Nat /\ Cardinality(L) \in Nat
      /\ Cardinality(M) # 0
  <2> HIDE DEF D, M, L
  <2> QED
    BY <1>1, <1>2, FS_CardinalityType, FS_EmptySet, Zenon
<1> QED
  BY <1>1, <1>3

\* Initially no name is in use.
LEMMA InitNaming == Init => Naming!Init
  BY DEF Init, DiskInit, NoDisk, nameOf, unused, Naming!Init

\* Each kind of step is a step of the abstract specification, or none.
LEMMA NextNaming ==
    ASSUME FiniteLeaders, DiskInv, DiskInv', ControlInv, NamingInv, NamingStep
    PROVE  NamingView
<1>1. CASE NamesStay
  BY <1>1, SameNames DEF NamesStay, NamingView
<1>2. ASSUME NEW v \in Volumes, TellsOf(v) PROVE Naming!Next
  <2>1. UNCHANGED <<nameOf, unused>>
    BY <1>2 DEF TellsOf, nameOf, unused
  <2>2. nameOf[v] # NoName
    BY <1>2 DEF TellsOf, NamingInv, NamesOK, nameOf
  <2>3. Naming!Tell(v)
    BY <1>2, <2>1, <2>2 DEF TellsOf, Naming!Tell
  <2> QED
    BY <2>3 DEF Naming!Next
<1>3. ASSUME NEW v \in Volumes, Removes(v) PROVE Naming!Next
  <2>1. nameOf' = [nameOf EXCEPT ![v] = NoName]
    BY <1>3 DEF Removes, nameOf, NoDisk
  <2>2. unused' = unused
    BY <1>3 DEF Removes, unused, NoDisk, Exists
  <2>3. Naming!Remove(v)
    BY <1>3, <2>1, <2>2 DEF Removes, Naming!Remove
  <2> QED
    BY <2>3 DEF Naming!Next
<1>4. ASSUME NEW c \in Calls, Arms(c) PROVE NamingView
  BY <1>4 DEF Arms, nameOf, unused, NamingView
<1>5. ASSUME NEW c \in Calls, NEW v \in Volumes, Makes(c, v) PROVE Naming!Next
  <2> DEFINE nm == call[c].name
  <2>1. nm \in Names /\ pc[c] = "create"
    BY <1>5 DEF Makes, ControlInv, CallOK, CreatePCs
  <2>2. nameOf' = [nameOf EXCEPT ![v] = nm]
    BY <1>5 DEF Makes, nameOf
  <2>3. v \in unused /\ unused' = unused \ {v}
    BY <1>5 DEF Makes, unused
  <2>4. Naming!Cardinality({u \in Volumes : nameOf[u] = nm})
          < Cardinality(Leaders["provisioner"])
    BY <2>1, SameCardinality, NamedInView, RoomForCopy DEF NamingInv
  <2>5. Naming!Make(v, nm)
    BY <1>5, <2>2, <2>3, <2>4 DEF Makes, Naming!Make
  <2> QED
    BY <2>1, <2>5 DEF Naming!Next
<1> QED
  BY <1>1, <1>2, <1>3, <1>4, <1>5 DEF NamingStep, NamingView

\* The controller keeps its promise about names: through overlapping calls,
\* timeouts, failed requests, restarts and changes of the leader, a name has no more
\* volumes than there are leaders, and a volume the CO has been told of goes only
\* when the CO asks for that.
THEOREM NamingImplemented ==
    ASSUME NothingLate, FiniteLeaders PROVE Spec => ImplementsNaming
<1>1. TypeInv /\ TypeInv' /\ NamingInv /\ [Next]_vars => NamingView
  BY TypeInvParts, EveryNamingStep, NextNaming DEF TypeInv, TypeOK
<1> QED
  BY <1>1, InitNaming, TypeCorrect, NamingCorrect, PTL
     DEF ImplementsNaming, Naming!Spec, NamingView, Spec

=============================================================================
