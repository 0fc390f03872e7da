---------------------------- MODULE NodeTypeProofs ----------------------------
(***************************************************************************)
(* Types and locks of the node service, whatever the CO gives up and       *)
(* whatever fails, for every value of the constants.                       *)
(***************************************************************************)
EXTENDS NodeInvariant, SequenceTheorems, TLAPS

USE NodeHostAssumption, InFlightAssumption, NodeAssumption

(* The parts of the type invariant. *)

HostTypes ==
    /\ slot \in [Slots -> Volumes \cup {NoVolume}]
    /\ dev \in [Devs -> Slots \cup {NoSlot}]
    /\ mounts \in [Volumes -> [Places -> Seq(AnyEntry)]]

ControlTypes ==
    /\ inFlight \in [Replicas -> SUBSET Volumes]
    /\ pc \in [Calls -> PCs]
    /\ call \in [Calls -> CallRecord]
    /\ \A c \in Calls : LocalsOK(c)

GhostTypes ==
    /\ held \subseteq Volumes \cap Attached
    /\ staged \in [Volumes -> Belief]
    /\ published \in [Volumes -> [Targets -> Belief]]

LEMMA TypeParts == TypeInv <=> HostTypes /\ ControlTypes /\ GhostTypes
  BY DEF TypeInv, HostTypes, ControlTypes, GhostTypes

-----------------------------------------------------------------------------
(* The mount table. *)

\* What is on top of a path is a mount, and so is what lies at the bottom.
LEMMA MountsAt ==
    ASSUME HostTypes, NEW v \in Volumes, NEW p \in Places, IsMounted(v, p)
    PROVE  /\ Len(mounts[v][p]) \in Nat \ {0}
           /\ TopMount(v, p) \in AnyEntry
           /\ mounts[v][p][1] \in AnyEntry
<1>1. mounts[v][p] \in Seq(AnyEntry) /\ mounts[v][p] # <<>>
  BY DEF HostTypes, IsMounted
<1>2. Len(mounts[v][p]) \in Nat \ {0}
  BY <1>1, EmptySeq
<1>3. \A i \in 1..Len(mounts[v][p]) : mounts[v][p][i] \in AnyEntry
  BY <1>1, ElementOfSeq
<1> QED
  BY <1>2, <1>3 DEF TopMount

LEMMA MountDevs ==
    ASSUME HostTypes, NEW v \in Volumes, NEW p \in Places
    PROVE  /\ DeviceName(v, p) \in Devs \cup {NoDev}
           /\ MountSource(v, p) \in Devs \cup {NoDev}
  BY MountsAt DEF DeviceName, MountSource, AnyEntry

LEMMA PushTypes ==
    ASSUME HostTypes, NEW v \in Volumes, NEW p \in Places, NEW e \in AnyEntry, Push(v, p, e)
    PROVE  mounts' \in [Volumes -> [Places -> Seq(AnyEntry)]]
<1>1. mounts[v][p] \in Seq(AnyEntry)
  BY DEF HostTypes
<1>2. Append(mounts[v][p], e) \in Seq(AnyEntry)
  BY <1>1
<1> QED
  BY <1>2 DEF HostTypes, Push

LEMMA PopTypes ==
    ASSUME HostTypes, NEW v \in Volumes, NEW p \in Places, PopMount(v, p)
    PROVE  mounts' \in [Volumes -> [Places -> Seq(AnyEntry)]]
<1> DEFINE s == mounts[v][p]
<1>1. s \in Seq(AnyEntry) /\ Len(s) \in Nat \ {0}
  BY MountsAt DEF HostTypes, PopMount
<1>2. \A i \in 1..(Len(s) - 1) : s[i] \in AnyEntry
  BY <1>1, ElementOfSeq
<1>3. SubSeq(s, 1, Len(s) - 1) \in Seq(AnyEntry)
  BY <1>1, <1>2, SubSeqProperties
<1> QED
  BY <1>3 DEF HostTypes, PopMount

LEMMA MountDeviceTypes ==
    ASSUME HostTypes, NEW v \in Volumes, NEW p \in Places, NEW d \in Devs,
           MountDevice(v, p, d) \/ BindDevice(v, p, d)
    PROVE  mounts' \in [Volumes -> [Places -> Seq(AnyEntry)]]
<1>1. DiskOf(d) \in Volumes \cup {NoVolume}
  BY DEF HostTypes, DiskOf, Registered
<1>2. [dev |-> d, vol |-> DiskOf(d)] \in AnyEntry
  BY <1>1 DEF AnyEntry
<1> QED
  BY <1>2, PushTypes DEF MountDevice, BindDevice

LEMMA BindTypes ==
    ASSUME HostTypes, NEW v \in Volumes, NEW p \in Places, BindStaging(v, p)
    PROVE  mounts' \in [Volumes -> [Places -> Seq(AnyEntry)]]
<1>1. Staging \in Places
  BY DEF Places
<1>2. CASE IsMounted(v, Staging)
  BY <1>1, <1>2, MountsAt, PushTypes DEF BindStaging
<1>3. CASE ~IsMounted(v, Staging)
  BY <1>3, PushTypes DEF BindStaging, AnyEntry, RootEntry
<1> QED
  BY <1>2, <1>3

-----------------------------------------------------------------------------
(* The building blocks of the handlers. *)

\* A slot that keeps its handler keeps its locals.
LEMMA SameLocals ==
    ASSUME NEW d \in Calls, LocalsOK(d), pc'[d] = pc[d], call'[d] = call[d]
    PROVE  LocalsOK(d)'
  BY DEF LocalsOK, Running

LEMMA BeginTypes ==
    ASSUME ControlTypes, NEW c \in Calls, NEW req \in CallRecord,
           NEW p \in {"scan", "unstageLook", "bind", "findBlock", "unmountTarget", "findmnt"},
           Begin(c, req, p),
           req.vol \in Volumes,
           p = "scan" => req.op = "stage" /\ req.slot \in Slots,
           p = "unstageLook" => req.op = "unstage",
           p \in {"bind", "findBlock"} => req.op = "publish",
           p = "unmountTarget" => req.op = "unpublish",
           p = "findmnt" => req.op = "expand",
           p \in {"scan", "unstageLook"} => req.place = Staging,
           p \in {"bind", "findBlock", "unmountTarget"} => req.place \in Targets,
           UNCHANGED inFlight \/ Insert(Node, req.vol)
    PROVE  ControlTypes'
<1> USE DEF StagePCs, UnstagePCs, PublishPCs, ExpandPCs
<1>1. inFlight' \in [Replicas -> SUBSET Volumes]
  BY DEF ControlTypes, Insert
<1>2. pc' \in [Calls -> PCs] /\ call' \in [Calls -> CallRecord]
  BY DEF ControlTypes, Begin, PCs
<1>3. LocalsOK(c)'
  BY DEF ControlTypes, Begin, LocalsOK, Running
<1>4. \A d \in Calls \ {c} : LocalsOK(d)'
  BY SameLocals DEF ControlTypes, Begin
<1> QED
  BY <1>1, <1>2, <1>3, <1>4 DEF ControlTypes

LEMMA GotoTypes ==
    ASSUME ControlTypes, NEW c \in Calls, NEW p \in PCs \ {"idle"},
           NEW d \in Devs \cup {NoDev},
           Goto(c, p, d),
           p \in {"look", "mount", "bindBlock"} => d \in Devs,
           \/ pc[c] \in StagePCs /\ p \in StagePCs
           \/ pc[c] \in UnstagePCs /\ p \in UnstagePCs
           \/ pc[c] \in PublishPCs /\ p \in PublishPCs
           \/ pc[c] \in ExpandPCs /\ p \in ExpandPCs
    PROVE  ControlTypes'
<1> USE DEF StagePCs, UnstagePCs, PublishPCs, ExpandPCs
<1>1. inFlight' \in [Replicas -> SUBSET Volumes]
  BY DEF ControlTypes, Goto
<1>2. pc' \in [Calls -> PCs] /\ call' \in [Calls -> CallRecord]
  BY DEF ControlTypes, Goto, CallRecord
<1>3. LocalsOK(c)'
  BY DEF ControlTypes, Goto, LocalsOK, Running, CallRecord
<1>4. \A e \in Calls \ {c} : LocalsOK(e)'
  BY SameLocals DEF ControlTypes, Goto
<1> QED
  BY <1>1, <1>2, <1>3, <1>4 DEF ControlTypes

\* An empty slot is in order.
LEMMA IdleLocals ==
    ASSUME NEW d \in Calls, pc'[d] = "idle", call'[d] = NoCall PROVE LocalsOK(d)'
  BY DEF LocalsOK, Running, StagePCs, UnstagePCs, PublishPCs, ExpandPCs

LEMMA NoCallType == NoCall \in CallRecord
  BY DEF NoCall, CallRecord, Places

LEMMA ReturnTypes ==
    ASSUME ControlTypes, NEW c \in Calls, Return(c) PROVE ControlTypes'
<1>1. inFlight' \in [Replicas -> SUBSET Volumes]
  BY DEF ControlTypes, Return, Delete
<1>2. pc' \in [Calls -> PCs] /\ call' \in [Calls -> CallRecord]
  BY NoCallType DEF ControlTypes, Return, PCs
<1>3. \A d \in Calls : LocalsOK(d)'
  BY SameLocals, IdleLocals DEF ControlTypes, Return
<1> QED
  BY <1>1, <1>2, <1>3 DEF ControlTypes

LEMMA LockTypes ==
    ASSUME ControlTypes, NEW c \in Calls, NEW p, Lock(c, p),
           \/ pc[c] = "stageLock" /\ p = "find"
           \/ pc[c] = "unstageLock" /\ p = "unmount"
    PROVE  ControlTypes'
<1>1. CASE Refuse(c)
  BY <1>1, ReturnTypes DEF Refuse
<1>2. CASE Insert(Node, call[c].vol) /\ pc' = [pc EXCEPT ![c] = p] /\ UNCHANGED call
  <2> USE DEF StagePCs, UnstagePCs, PublishPCs, ExpandPCs
  <2>1. call[c].vol \in Volumes
    BY DEF ControlTypes, LocalsOK, Running
  <2>2. inFlight' \in [Replicas -> SUBSET Volumes]
    BY <1>2, <2>1 DEF ControlTypes, Insert
  <2>3. pc' \in [Calls -> PCs] /\ call' \in [Calls -> CallRecord]
    BY <1>2 DEF ControlTypes, PCs
  <2>4. LocalsOK(c)'
    BY <1>2 DEF ControlTypes, LocalsOK, Running
  <2>5. \A d \in Calls \ {c} : LocalsOK(d)'
    BY <1>2, SameLocals DEF ControlTypes
  <2> QED
    BY <2>2, <2>3, <2>4, <2>5 DEF ControlTypes
<1> QED
  BY <1>1, <1>2 DEF Lock

\* What the CO believes is typed, and what it holds does not change with it.
Told == held' = held /\ staged' \in [Volumes -> Belief]
          /\ published' \in [Volumes -> [Targets -> Belief]]

LEMMA BelieveTypes ==
    ASSUME GhostTypes, NEW v \in Volumes, NEW t \in Places, NEW b \in Belief
    PROVE  /\ Believe(v, b) => Told
           /\ BelieveAt(v, t, b) => Told
           /\ UNCHANGED ghosts => Told
  BY DEF GhostTypes, Believe, BelieveAt, ghosts, Told

LEMMA AnswerTypes ==
    ASSUME ControlTypes, GhostTypes, NEW c \in Calls,
           NEW v \in Volumes, NEW t \in Places, NEW b \in Belief,
           AnswerOK(c, Believe(v, b)) \/ AnswerOK(c, BelieveAt(v, t, b))
    PROVE  ControlTypes' /\ Told
<1>1. Return(c)
  BY DEF AnswerOK
<1>2. Believe(v, b) \/ BelieveAt(v, t, b) \/ UNCHANGED ghosts
  BY DEF AnswerOK
<1> QED
  BY <1>1, <1>2, ReturnTypes, BelieveTypes

LEMMA RefuseTypes ==
    ASSUME ControlTypes, GhostTypes, NEW c \in Calls, Refuse(c)
    PROVE  ControlTypes' /\ Told
  BY ReturnTypes DEF Refuse, GhostTypes, ghosts, Told

\* Attached depends on the slots only.
LEMMA ToldTypes == GhostTypes /\ Told /\ UNCHANGED slot => GhostTypes'
  BY DEF GhostTypes, Told, Attached

-----------------------------------------------------------------------------
(* The steps. *)

\* What every step of a handler leaves in order; only the cloud moves disks.
Kept == HostTypes' /\ ControlTypes' /\ Told /\ UNCHANGED slot

LEMMA KeptTypes == GhostTypes /\ Kept => TypeInv'
  BY ToldTypes, TypeParts DEF Kept, TypeInv, HostTypes, ControlTypes, GhostTypes

LEMMA SameHost == HostTypes /\ UNCHANGED host => HostTypes' /\ UNCHANGED slot
  BY DEF HostTypes, host

LEMMA SameMounts ==
    HostTypes /\ UNCHANGED <<slot, dev>>
      /\ mounts' \in [Volumes -> [Places -> Seq(AnyEntry)]] => HostTypes'
  BY DEF HostTypes

LEMMA RequestType ==
    ASSUME NEW op \in Ops, NEW v \in Volumes, NEW p \in Places
    PROVE  /\ Request(op, v, p) \in CallRecord
           /\ Request(op, v, p).op = op
           /\ Request(op, v, p).vol = v
           /\ Request(op, v, p).place = p
  BY DEF Request, NoCall, CallRecord, Places

LEMMA SlotRequestType ==
    ASSUME GhostTypes, NEW op \in Ops, NEW v \in held, NEW p \in Places
    PROVE  LET req == [Request(op, v, p) EXCEPT !.slot = SlotOf(v)]
           IN  /\ req \in CallRecord
               /\ req.op = op /\ req.vol = v /\ req.place = p
               /\ req.slot \in Slots /\ slot[req.slot] = v
<1>1. v \in Volumes /\ SlotOf(v) \in Slots /\ slot[SlotOf(v)] = v
  BY DEF GhostTypes, Attached, SlotOf
<1> QED
  BY <1>1 DEF Request, NoCall, CallRecord, Places

LEMMA BeginAnyTypes ==
    ASSUME HostTypes, ControlTypes, GhostTypes, NEW c \in Calls, BeginAny(c)
    PROVE  Kept
<1> USE DEF Ops
<1>h. ASSUME NEW req, NEW p, Begin(c, req, p) PROVE HostTypes' /\ UNCHANGED slot
  BY <1>h, SameHost DEF Begin
<1>1. CASE BeginStage(c)
  <2> DEFINE req(v) == [Request("stage", v, Staging) EXCEPT !.slot = SlotOf(v)]
  <2>1. PICK v \in held : /\ Begin(c, req(v), "scan")
                          /\ Believe(v, IF staged[v] = "yes" THEN "yes" ELSE "maybe")
                          /\ UNCHANGED inFlight
    BY <1>1 DEF BeginStage
  <2>2. v \in Volumes /\ Staging \in Places
    BY DEF GhostTypes, Places
  <2>3. /\ req(v) \in CallRecord /\ req(v).op = "stage" /\ req(v).vol = v
        /\ req(v).place = Staging /\ req(v).slot \in Slots
    BY <2>2, SlotRequestType
  <2> HIDE DEF req
  <2>4. ControlTypes'
    BY <2>1, <2>2, <2>3, BeginTypes
  <2>5. Told
    BY <2>1, <2>2, BelieveTypes DEF Belief
  <2> QED
    BY <1>h, <2>1, <2>4, <2>5 DEF Kept
<1>2. CASE BeginUnstage(c)
  <2> DEFINE req(v) == Request("unstage", v, Staging)
  <2>1. PICK v \in Volumes : /\ Begin(c, req(v), "unstageLook")
                             /\ Believe(v, "maybe") /\ UNCHANGED inFlight
    BY <1>2 DEF BeginUnstage
  <2>2. Staging \in Places
    BY DEF Places
  <2>3. /\ req(v) \in CallRecord /\ req(v).op = "unstage" /\ req(v).vol = v
        /\ req(v).place = Staging
    BY <2>2, RequestType
  <2> HIDE DEF req
  <2>4. ControlTypes'
    BY <2>1, <2>3, BeginTypes
  <2>5. Told
    BY <2>1, <2>2, BelieveTypes DEF Belief
  <2> QED
    BY <1>h, <2>1, <2>4, <2>5 DEF Kept
<1>3. CASE BeginPublish(c)
  <2> DEFINE req(v, t) == [Request("publish", v, t) EXCEPT !.slot = SlotOf(v)]
  <2>1. PICK v \in held, t \in Targets :
           /\ Begin(c, req(v, t), IF v \in Blocks THEN "findBlock" ELSE "bind")
           /\ BelieveAt(v, t, IF published[v][t] = "yes" THEN "yes" ELSE "maybe")
           /\ Insert(Node, v)
    BY <1>3 DEF BeginPublish
  <2>2. v \in Volumes /\ t \in Places
    BY DEF GhostTypes, Places
  <2>3. /\ req(v, t) \in CallRecord /\ req(v, t).op = "publish" /\ req(v, t).vol = v
        /\ req(v, t).place = t
    BY <2>2, SlotRequestType
  <2> HIDE DEF req
  <2>4. ControlTypes'
    BY <2>1, <2>2, <2>3, BeginTypes
  <2>5. Told
    BY <2>1, <2>2, BelieveTypes DEF Belief
  <2> QED
    BY <1>h, <2>1, <2>4, <2>5 DEF Kept
<1>4. CASE BeginUnpublish(c)
  <2> DEFINE req(v, t) == Request("unpublish", v, t)
  <2>1. PICK v \in Volumes, t \in Targets :
           /\ Begin(c, req(v, t), "unmountTarget")
           /\ BelieveAt(v, t, "maybe") /\ Insert(Node, v)
    BY <1>4 DEF BeginUnpublish
  <2>2. t \in Places
    BY DEF Places
  <2>3. /\ req(v, t) \in CallRecord /\ req(v, t).op = "unpublish" /\ req(v, t).vol = v
        /\ req(v, t).place = t
    BY <2>2, RequestType
  <2> HIDE DEF req
  <2>4. ControlTypes'
    BY <2>1, <2>3, BeginTypes
  <2>5. Told
    BY <2>1, <2>2, BelieveTypes DEF Belief
  <2> QED
    BY <1>h, <2>1, <2>4, <2>5 DEF Kept
<1>5. CASE BeginExpand(c)
  <2> DEFINE req(v, p) == Request("expand", v, p)
  <2>1. PICK v \in Volumes, p \in Places :
           Begin(c, req(v, p), "findmnt") /\ UNCHANGED <<inFlight, ghosts>>
    BY <1>5 DEF BeginExpand
  <2>2. req(v, p) \in CallRecord /\ req(v, p).op = "expand" /\ req(v, p).vol = v
    BY RequestType
  <2> HIDE DEF req
  <2>3. ControlTypes'
    BY <2>1, <2>2, BeginTypes
  <2>4. Told
    BY <2>1, BelieveTypes DEF Belief
  <2> QED
    BY <1>h, <2>1, <2>3, <2>4 DEF Kept
<1> QED
  BY <1>1, <1>2, <1>3, <1>4, <1>5 DEF BeginAny

\* A step that only looks.
LEMMA LookTypes ==
    ASSUME HostTypes, UNCHANGED host, ControlTypes', Told PROVE Kept
  BY SameHost DEF Kept

\* A step that mounts or unmounts.
LEMMA MountTypes ==
    ASSUME HostTypes, UNCHANGED <<slot, dev>>,
           mounts' \in [Volumes -> [Places -> Seq(AnyEntry)]], ControlTypes', Told
    PROVE  Kept
  BY SameMounts DEF Kept

\* What a handler may hold its request to.
LEMMA Locals ==
    ASSUME ControlTypes, NEW c \in Calls
    PROVE  /\ Running(c) => call[c].vol \in Volumes
           /\ call[c].place \in Places
           /\ call[c].dev \in Devs \cup {NoDev}
           /\ pc[c] \in {"look", "mount", "bindBlock"} => call[c].dev \in Devs
           /\ pc[c] \in StagePCs \cup UnstagePCs => call[c].place = Staging
           /\ pc[c] \in PublishPCs \cup {"unmountTarget"} => call[c].place \in Targets
  BY DEF ControlTypes, LocalsOK, CallRecord

LEMMA FindTypes ==
    ASSUME HostTypes, ControlTypes, GhostTypes, NEW c \in Calls, NEW p,
           FindDevice(c, p),
           \/ pc[c] = "find" /\ p = "look"
           \/ pc[c] = "findBlock" /\ p = "bindBlock"
    PROVE  ControlTypes' /\ Told
<1> USE DEF StagePCs, PublishPCs, PCs
<1>1. CASE Refuse(c)
  BY <1>1, RefuseTypes
<1>2. CASE \E d \in Devs : Goto(c, p, d) /\ UNCHANGED ghosts
  <2>1. ControlTypes'
    BY <1>2, GotoTypes
  <2> QED
    BY <1>2, <2>1 DEF Told, GhostTypes, ghosts
<1> QED
  BY <1>1, <1>2 DEF FindDevice

\* A mount of the device the handler has found, or an error.
LEMMA DeviceMountTypes ==
    ASSUME HostTypes, ControlTypes, NEW c \in Calls, pc[c] \in {"mount", "bindBlock"},
           \/ MountDevice(call[c].vol, call[c].place, call[c].dev)
           \/ BindDevice(call[c].vol, call[c].place, call[c].dev)
           \/ UNCHANGED mounts
    PROVE  mounts' \in [Volumes -> [Places -> Seq(AnyEntry)]]
<1>1. call[c].vol \in Volumes /\ call[c].place \in Places /\ call[c].dev \in Devs
  BY Locals DEF Running
<1> QED
  BY <1>1, MountDeviceTypes DEF HostTypes

LEMMA UnmountTypes ==
    ASSUME HostTypes, ControlTypes, NEW c \in Calls, Running(c),
           PopMount(call[c].vol, call[c].place) \/ UNCHANGED mounts
    PROVE  mounts' \in [Volumes -> [Places -> Seq(AnyEntry)]]
<1>1. call[c].vol \in Volumes /\ call[c].place \in Places
  BY Locals
<1> QED
  BY <1>1, PopTypes DEF HostTypes

\* A handler goes on, with the device it had or another.
LEMMA GoOn ==
    ASSUME ControlTypes, GhostTypes, NEW c \in Calls, NEW d \in Devs \cup {NoDev}, NEW p,
           Goto(c, p, d) /\ UNCHANGED ghosts,
           p \in {"look", "mount", "bindBlock"} => d \in Devs,
           \/ pc[c] \in StagePCs /\ p \in StagePCs
           \/ pc[c] \in UnstagePCs /\ p \in UnstagePCs
           \/ pc[c] \in PublishPCs /\ p \in PublishPCs
           \/ pc[c] \in ExpandPCs /\ p \in ExpandPCs
    PROVE  ControlTypes' /\ Told
<1>1. p \in PCs \ {"idle"}
  BY DEF PCs, StagePCs, UnstagePCs, PublishPCs, ExpandPCs
<1> QED
  BY <1>1, GotoTypes DEF Told, GhostTypes, ghosts

LEMMA StageTypes ==
    ASSUME HostTypes, ControlTypes, GhostTypes, NEW c \in Calls,
           \/ StageScan(c) \/ StageLock(c) \/ StageFind(c) \/ StageLook(c) \/ StageMount(c)
    PROVE  Kept
<1> USE DEF StagePCs
<1>b. \A b \in {"yes", "no", "maybe"} : b \in Belief
  BY DEF Belief
<1>c. Running(c) => call[c].vol \in Volumes /\ call[c].place \in Places
  BY Locals
<1>1. CASE StageScan(c)
  <2>0. call[c].vol \in Volumes /\ call[c].place \in Places
    BY <1>1, <1>c DEF StageScan, Running
  <2>1. CASE /\ \E d \in Devs, s \in Slots : Register(d, s)
             /\ UNCHANGED <<slot, mounts, inFlight, handlers, ghosts>>
    <3>1. HostTypes'
      BY <2>1 DEF HostTypes, Register
    <3>2. ControlTypes'
      <4>1. UNCHANGED <<inFlight, pc, call>>
        BY <2>1 DEF handlers
      <4>2. \A d \in Calls : LocalsOK(d)'
        BY <4>1, SameLocals DEF ControlTypes
      <4> QED
        BY <4>1, <4>2 DEF ControlTypes
    <3>3. Told
      BY <2>1 DEF Told, GhostTypes, ghosts
    <3> QED
      BY <2>1, <3>1, <3>2, <3>3 DEF Kept
  <2>2. CASE UNCHANGED host /\ AnswerOK(c, Believe(call[c].vol, "yes"))
    BY <2>0, <2>2, <1>b, AnswerTypes, LookTypes
  <2>3. CASE UNCHANGED host /\ Goto(c, "stageLock", NoDev) /\ UNCHANGED ghosts
    BY <1>1, <2>3, GoOn, LookTypes DEF StageScan
  <2> QED
    BY <1>1, <2>1, <2>2, <2>3 DEF StageScan
<1>2. CASE StageLock(c)
  <2>1. ControlTypes'
    BY <1>2, LockTypes DEF StageLock
  <2>2. Told
    BY <1>2 DEF StageLock, Lock, Refuse, Told, GhostTypes, ghosts
  <2> QED
    BY <1>2, <2>1, <2>2, LookTypes DEF StageLock
<1>3. CASE StageFind(c)
  BY <1>3, FindTypes, LookTypes DEF StageFind
<1>4. CASE StageLook(c)
  <2>1. call[c].vol \in Volumes /\ call[c].place \in Places /\ call[c].dev \in Devs
    BY <1>4, Locals DEF StageLook, Running
  <2>2. \/ AnswerOK(c, Believe(call[c].vol, "yes"))
        \/ Goto(c, "mount", call[c].dev) /\ UNCHANGED ghosts
    BY <1>4 DEF StageLook
  <2>3. ControlTypes' /\ Told
    BY <1>4, <1>b, <2>1, <2>2, AnswerTypes, GoOn DEF StageLook
  <2> QED
    BY <1>4, <2>3, LookTypes DEF StageLook
<1>5. CASE StageMount(c)
  <2>0. call[c].vol \in Volumes /\ call[c].place \in Places /\ call[c].place = Staging
    BY <1>5, Locals DEF StageMount, Running
  <2>1. AnswerOK(c, Believe(call[c].vol, "yes")) \/ Refuse(c)
    BY <1>5 DEF StageMount
  <2>2. ControlTypes' /\ Told
    BY <1>b, <2>0, <2>1, AnswerTypes, RefuseTypes
  <2>3. MountDevice(call[c].vol, call[c].place, call[c].dev) \/ UNCHANGED mounts
    BY <1>5, <2>0 DEF StageMount
  <2> QED
    BY <1>5, <2>2, <2>3, DeviceMountTypes, MountTypes DEF StageMount
<1> QED
  BY <1>1, <1>2, <1>3, <1>4, <1>5

LEMMA UnstageTypes ==
    ASSUME HostTypes, ControlTypes, GhostTypes, NEW c \in Calls,
           UnstageLook(c) \/ UnstageLock(c) \/ UnstageUnmount(c) \/ UnstageRemove(c)
    PROVE  Kept
<1> USE DEF UnstagePCs
<1>b. "no" \in Belief
  BY DEF Belief
<1>c. /\ call[c].vol \in Volumes /\ call[c].place \in Places /\ Staging \in Places
      /\ call[c].dev \in Devs \cup {NoDev}
  BY Locals DEF Running, UnstageLook, UnstageLock, UnstageUnmount, UnstageRemove, Places
<1>1. CASE UnstageLook(c)
  <2>1. \/ AnswerOK(c, Believe(call[c].vol, "no"))
        \/ /\ Goto(c, "unstageLock", DeviceName(call[c].vol, Staging))
           /\ UNCHANGED ghosts
    BY <1>1 DEF UnstageLook
  <2>2. ControlTypes' /\ Told
    BY <1>1, <1>b, <1>c, <2>1, AnswerTypes, GoOn, MountDevs DEF UnstageLook
  <2> QED
    BY <1>1, <2>2, LookTypes DEF UnstageLook
<1>2. CASE UnstageLock(c)
  <2>1. ControlTypes'
    BY <1>2, LockTypes DEF UnstageLock
  <2>2. Told
    BY <1>2 DEF UnstageLock, Lock, Refuse, Told, GhostTypes, ghosts
  <2> QED
    BY <1>2, <2>1, <2>2, LookTypes DEF UnstageLock
<1>3. CASE UnstageUnmount(c)
  <2>1. PopMount(call[c].vol, call[c].place) \/ UNCHANGED mounts
    BY <1>3 DEF UnstageUnmount, Unmount
  <2>2. Refuse(c) \/ (Goto(c, "remove", call[c].dev) /\ UNCHANGED ghosts)
    BY <1>3 DEF UnstageUnmount, Unmount
  <2>3. ControlTypes' /\ Told
    BY <1>3, <1>c, <2>2, RefuseTypes, GoOn DEF UnstageUnmount
  <2> QED
    BY <1>3, <2>1, <2>3, UnmountTypes, MountTypes DEF UnstageUnmount, Running
<1>4. CASE UnstageRemove(c)
  <2>1. HostTypes' /\ UNCHANGED slot
    BY <1>4 DEF UnstageRemove, Unregister, HostTypes
  <2>2. ControlTypes' /\ Told
    BY <1>4, <1>b, <1>c, AnswerTypes DEF UnstageRemove
  <2> QED
    BY <2>1, <2>2 DEF Kept
<1> QED
  BY <1>1, <1>2, <1>3, <1>4

LEMMA PublishTypes ==
    ASSUME HostTypes, ControlTypes, GhostTypes, NEW c \in Calls,
           \/ PublishBind(c) \/ PublishFindBlock(c) \/ PublishBindBlock(c)
           \/ UnpublishUnmount(c)
    PROVE  Kept
<1> USE DEF PublishPCs
<1>b. "no" \in Belief /\ "yes" \in Belief
  BY DEF Belief
<1>c. Running(c) /\ call[c].vol \in Volumes /\ call[c].place \in Places
  BY Locals DEF Running, PublishBind, PublishFindBlock, PublishBindBlock, UnpublishUnmount
<1>1. CASE PublishBind(c)
  BY <1>1, <1>b, <1>c, BindTypes, AnswerTypes, MountTypes DEF PublishBind
<1>2. CASE PublishFindBlock(c)
  BY <1>2, FindTypes, LookTypes DEF PublishFindBlock
<1>3. CASE PublishBindBlock(c)
  <2>1. AnswerOK(c, BelieveAt(call[c].vol, call[c].place, "yes")) \/ Refuse(c)
    BY <1>3 DEF PublishBindBlock
  <2>2. ControlTypes' /\ Told
    BY <1>b, <1>c, <2>1, AnswerTypes, RefuseTypes
  <2>3. BindDevice(call[c].vol, call[c].place, call[c].dev) \/ UNCHANGED mounts
    BY <1>3 DEF PublishBindBlock
  <2> QED
    BY <1>3, <2>2, <2>3, DeviceMountTypes, MountTypes DEF PublishBindBlock
<1>4. CASE UnpublishUnmount(c)
  <2>1. PopMount(call[c].vol, call[c].place) \/ UNCHANGED mounts
    BY <1>4 DEF UnpublishUnmount, Unmount
  <2>2. AnswerOK(c, BelieveAt(call[c].vol, call[c].place, "no")) \/ Refuse(c)
    BY <1>4 DEF UnpublishUnmount, Unmount
  <2>3. ControlTypes' /\ Told
    BY <1>b, <1>c, <2>2, AnswerTypes, RefuseTypes
  <2> QED
    BY <1>4, <1>c, <2>1, <2>3, UnmountTypes, MountTypes DEF UnpublishUnmount
<1> QED
  BY <1>1, <1>2, <1>3, <1>4

LEMMA ExpandTypes ==
    ASSUME HostTypes, ControlTypes, GhostTypes, NEW c \in Calls,
           ExpandFindmnt(c) \/ ExpandRescan(c) \/ ExpandResize(c)
    PROVE  Kept
<1> USE DEF ExpandPCs
<1>c. /\ call[c].vol \in Volumes /\ call[c].place \in Places
      /\ call[c].dev \in Devs \cup {NoDev}
  BY Locals DEF Running, ExpandFindmnt, ExpandRescan, ExpandResize
<1>1. CASE ExpandFindmnt(c)
  BY <1>1, <1>c, MountDevs, RefuseTypes, GoOn, LookTypes DEF ExpandFindmnt
<1>2. CASE ExpandRescan(c)
  BY <1>2, <1>c, RefuseTypes, GoOn, LookTypes DEF ExpandRescan
<1>3. CASE ExpandResize(c)
  BY <1>3, RefuseTypes, LookTypes DEF ExpandResize
<1> QED
  BY <1>1, <1>2, <1>3

LEMMA HandlerTypes ==
    ASSUME HostTypes, ControlTypes, GhostTypes, NEW c \in Calls,
           BeginAny(c) \/ HandlerStep(c) \/ Fail(c)
    PROVE  Kept
<1>1. CASE Fail(c)
  BY <1>1, RefuseTypes, LookTypes DEF Fail
<1> QED
  BY <1>1, BeginAnyTypes, StageTypes, UnstageTypes, PublishTypes, ExpandTypes DEF HandlerStep

\* Requests that end, and requests given up, leave the host as it is.
LEMMA GiveUpTypes ==
    ASSUME HostTypes, ControlTypes, GhostTypes, NEW c \in Calls, GiveUp(c)
    PROVE  Kept
<1>1. pc' = pc /\ inFlight' = inFlight /\ Told
  BY DEF GiveUp, Told, GhostTypes, ghosts
<1>2. call[c].op # "none" /\ call' = [call EXCEPT ![c].late = TRUE]
  BY NodeAssumption DEF GiveUp, Ops
<1>3. call' \in [Calls -> CallRecord]
  <2>1. \A x \in CallRecord : [x EXCEPT !.late = TRUE] \in CallRecord
    BY DEF CallRecord
  <2> QED
    BY <1>2, <2>1 DEF ControlTypes
<1>4. Running(c)
  BY <1>2 DEF ControlTypes, LocalsOK, NoCall
<1>5. LocalsOK(c)'
  BY <1>1, <1>2, <1>4 DEF ControlTypes, LocalsOK, Running, CallRecord
<1>6. \A d \in Calls \ {c} : LocalsOK(d)'
  BY <1>1, <1>2, SameLocals DEF ControlTypes
<1>7. ControlTypes'
  BY <1>1, <1>3, <1>5, <1>6 DEF ControlTypes
<1> QED
  BY <1>1, <1>7, LookTypes DEF GiveUp

LEMMA RestartTypes ==
    ASSUME HostTypes, ControlTypes, GhostTypes, Restart
    PROVE  Kept
<1>1. inFlight' \in [Replicas -> SUBSET Volumes]
  BY DEF Restart, Lose, ControlTypes
<1>2. pc' \in [Calls -> PCs] /\ call' \in [Calls -> CallRecord]
  BY NoCallType DEF Restart, PCs
<1>3. \A d \in Calls : LocalsOK(d)'
  BY IdleLocals DEF Restart
<1>4. Told
  BY DEF Restart, Told, GhostTypes, ghosts
<1> QED
  BY <1>1, <1>2, <1>3, <1>4, LookTypes DEF Restart, ControlTypes

\* The world beyond the node touches slots and what the node holds.
LEMMA CloudTypes ==
    ASSUME HostTypes, ControlTypes, GhostTypes, NEW v \in Volumes, CloudStep(v)
    PROVE  TypeInv'
<1>1. ControlTypes'
  <2>1. UNCHANGED <<inFlight, pc, call>>
    BY DEF CloudStep, AttachDisk, DetachDisk, HoldDisk, ReleaseDisk, handlers
  <2>2. \A d \in Calls : LocalsOK(d)'
    BY <2>1, SameLocals DEF ControlTypes
  <2> QED
    BY <2>1, <2>2 DEF ControlTypes
<1>2. HostTypes'
  BY DEF HostTypes, CloudStep, AttachDisk, DetachDisk, HoldDisk, ReleaseDisk, host
<1>3. UNCHANGED <<staged, published>>
  BY DEF CloudStep, AttachDisk, DetachDisk, HoldDisk, ReleaseDisk
<1>4. held' \subseteq Volumes \cap Attached'
  <2>1. CASE AttachDisk(v)
    BY <2>1 DEF AttachDisk, Attachment!Attach, GhostTypes
  <2>2. CASE DetachDisk(v)
    BY <2>2 DEF DetachDisk, Attachment!Detach, GhostTypes
  <2>3. CASE HoldDisk(v)
    BY <2>3 DEF HoldDisk, Attachment!Hold, GhostTypes
  <2>4. CASE ReleaseDisk(v)
    BY <2>4 DEF ReleaseDisk, Attachment!Release, GhostTypes
  <2> QED
    BY <2>1, <2>2, <2>3, <2>4 DEF CloudStep
<1> QED
  BY <1>1, <1>2, <1>3, <1>4, TypeParts DEF TypeInv, HostTypes, ControlTypes, GhostTypes

-----------------------------------------------------------------------------

LEMMA InitTypes == Init => TypeInv
<1> SUFFICES ASSUME Init PROVE TypeInv
  OBVIOUS
<1>1. <<>> \in Seq(AnyEntry)
  OBVIOUS
<1>2. inFlight \in [Replicas -> SUBSET Volumes]
  BY DEF Init, NewInFlight
<1>3. \A c \in Calls : LocalsOK(c)
  BY DEF Init, LocalsOK, Running, StagePCs, UnstagePCs, PublishPCs, ExpandPCs
<1>4. call \in [Calls -> CallRecord]
  BY NoCallType DEF Init
<1> QED
  BY <1>1, <1>2, <1>3, <1>4 DEF Init, HostInit, TypeInv, PCs, Belief

LEMMA NextTypes == TypeInv /\ [Next]_vars => TypeInv'
<1> SUFFICES ASSUME TypeInv, [Next]_vars PROVE TypeInv'
  OBVIOUS
<1>0. HostTypes /\ ControlTypes /\ GhostTypes
  BY TypeParts
<1>1. CASE \E c \in Calls : BeginAny(c) \/ HandlerStep(c) \/ Fail(c) \/ GiveUp(c)
  BY <1>0, <1>1, HandlerTypes, GiveUpTypes, KeptTypes
<1>2. CASE Restart
  BY <1>0, <1>2, RestartTypes, KeptTypes
<1>3. CASE \E v \in Volumes : CloudStep(v)
  BY <1>0, <1>3, CloudTypes
<1>4. CASE UNCHANGED vars
  <2>1. \A d \in Calls : LocalsOK(d)'
    BY <1>0, <1>4, SameLocals DEF ControlTypes, vars, handlers
  <2> QED
    BY <1>4, <2>1 DEF TypeInv, vars, host, handlers, ghosts, Attached
<1> QED
  BY <1>1, <1>2, <1>3, <1>4 DEF Next

\* Every variable and every local of a handler is what it should be, whatever
\* requests overtake each other: a handler that mounts has a device in hand,
\* and what the controller has published to the node is in a slot.
THEOREM NodeTypes == Spec => []TypeInv
<1> QED
  BY InitTypes, NextTypes, PTL DEF Spec

-----------------------------------------------------------------------------
(* The in-flight table.  What a step does to the locks: every handler      *)
(* keeps its own, one takes its lock or gives it back, or all are gone.    *)

Keeps(d) == (Holds(d)' <=> Holds(d)) /\ (Holds(d) => call'[d].vol = call[d].vol)

Stay == UNCHANGED inFlight /\ \A d \in Calls : Keeps(d)

Enter(c) ==
    /\ ~Holds(c) /\ Holds(c)'
    /\ Insert(Node, call'[c].vol)
    /\ \A d \in Calls \ {c} : Keeps(d)

Leave(c) ==
    /\ Holds(c) /\ ~Holds(c)'
    /\ Delete(Node, call[c].vol)
    /\ \A d \in Calls \ {c} : Keeps(d)

Lost == inFlight'[Node] = {} /\ \A d \in Calls : ~Holds(d)'

LockStep == Stay \/ Lost \/ \E c \in Calls : Enter(c) \/ Leave(c)

\* Two ways for a handler to keep what it has.
LEMMA KeepsLock ==
    /\ \A d \in Calls : pc'[d] = pc[d] /\ call'[d] = call[d] => Keeps(d)
    /\ \A d \in Calls : ~Holds(d) /\ ~Holds(d)' => Keeps(d)
  BY DEF Keeps, Holds, LockedPCs, PublishPCs

\* An answer ends the lock of its handler, if it has one.
LEMMA ReturnLocks ==
    ASSUME ControlTypes, NEW c \in Calls, Return(c) PROVE LockStep
<1>1. ~Holds(c)'
  BY DEF Return, Holds, LockedPCs, PublishPCs, ControlTypes
<1>2. \A d \in Calls \ {c} : Keeps(d)
  BY KeepsLock DEF Return, ControlTypes
<1>3. CASE Holds(c)
  BY <1>1, <1>2, <1>3 DEF Return, LockStep, Leave
<1>4. CASE ~Holds(c)
  BY <1>1, <1>2, <1>4, KeepsLock DEF Return, LockStep, Stay
<1> QED
  BY <1>3, <1>4

\* A handler that goes on keeps what it has.
LEMMA GotoLocks ==
    ASSUME ControlTypes, NEW c \in Calls, NEW p, NEW d, Goto(c, p, d),
           p \in LockedPCs <=> pc[c] \in LockedPCs
    PROVE  LockStep
<1>1. \A e \in Calls : call'[e].vol = call[e].vol
  BY DEF Goto, ControlTypes, CallRecord
<1>2. \A e \in Calls : Holds(e)' <=> Holds(e)
  BY DEF Goto, ControlTypes, Holds
<1> QED
  BY <1>1, <1>2 DEF Goto, LockStep, Stay, Keeps

\* Insert takes the lock, or has the handler refuse the request.
LEMMA LockLocks ==
    ASSUME ControlTypes, NEW c \in Calls, NEW p \in LockedPCs, Lock(c, p),
           pc[c] \notin LockedPCs
    PROVE  LockStep
<1>1. CASE Refuse(c)
  BY <1>1, ReturnLocks DEF Refuse
<1>2. CASE Insert(Node, call[c].vol) /\ pc' = [pc EXCEPT ![c] = p] /\ UNCHANGED call
  <2>1. ~Holds(c) /\ Holds(c)'
    BY <1>2 DEF Holds, ControlTypes
  <2>2. \A d \in Calls \ {c} : Keeps(d)
    BY <1>2, KeepsLock DEF ControlTypes
  <2> QED
    BY <1>2, <2>1, <2>2 DEF LockStep, Enter
<1> QED
  BY <1>1, <1>2 DEF Lock

\* A request is taken in with its lock, or without one.
LEMMA BeginLocks ==
    ASSUME ControlTypes, NEW c \in Calls, NEW req, NEW p, Begin(c, req, p),
           \/ p \in LockedPCs /\ Insert(Node, req.vol)
           \/ p \notin LockedPCs /\ UNCHANGED inFlight
    PROVE  LockStep
<1>1. \A d \in Calls \ {c} : Keeps(d)
  BY KeepsLock DEF Begin, ControlTypes
<1>2. ~Holds(c) /\ pc'[c] = p /\ call'[c] = req
  BY DEF Begin, Holds, LockedPCs, PublishPCs, ControlTypes
<1>3. CASE p \in LockedPCs /\ Insert(Node, req.vol)
  BY <1>1, <1>2, <1>3 DEF Holds, LockStep, Enter
<1>4. CASE p \notin LockedPCs /\ UNCHANGED inFlight
  <2>1. ~Holds(c)'
    BY <1>2, <1>4 DEF Holds
  <2> QED
    BY <1>1, <1>2, <1>4, <2>1, KeepsLock DEF LockStep, Stay
<1> QED
  BY <1>3, <1>4

\* Every handler that begins ...
LEMMA BeginAnyLocks ==
    ASSUME ControlTypes, NEW c \in Calls, BeginAny(c)
    PROVE  LockStep
<1> USE DEF LockedPCs, PublishPCs
<1>1. CASE BeginStage(c)
  BY <1>1, BeginLocks DEF BeginStage
<1>2. CASE BeginUnstage(c)
  BY <1>2, BeginLocks DEF BeginUnstage
<1>3. CASE BeginPublish(c)
  <2>1. PICK v \in Volumes, t \in Targets :
           /\ Begin(c, [Request("publish", v, t) EXCEPT !.slot = SlotOf(v)],
                    IF v \in Blocks THEN "findBlock" ELSE "bind")
           /\ Insert(Node, v)
    BY <1>3 DEF BeginPublish
  <2>2. [Request("publish", v, t) EXCEPT !.slot = SlotOf(v)].vol = v
    BY DEF Request, NoCall
  <2> QED
    BY <2>1, <2>2, BeginLocks
<1>4. CASE BeginUnpublish(c)
  <2>1. PICK v \in Volumes, t \in Targets :
           Begin(c, Request("unpublish", v, t), "unmountTarget") /\ Insert(Node, v)
    BY <1>4 DEF BeginUnpublish
  <2>2. Request("unpublish", v, t).vol = v
    BY DEF Request, NoCall
  <2> QED
    BY <2>1, <2>2, BeginLocks
<1>5. CASE BeginExpand(c)
  BY <1>5, BeginLocks DEF BeginExpand
<1> QED
  BY <1>1, <1>2, <1>3, <1>4, <1>5 DEF BeginAny

\* ... and every step of a handler is a step of its locks.
LEMMA HandlerLocks ==
    ASSUME ControlTypes, NEW c \in Calls, HandlerStep(c) \/ Fail(c)
    PROVE  LockStep
<1> USE DEF LockedPCs, PublishPCs
\* Every answer gives the lock back.
<1>r. ASSUME Return(c) PROVE LockStep
  BY <1>r, ReturnLocks
<1>f. CASE Fail(c)
  BY <1>f, <1>r DEF Fail, Refuse
<1>1. CASE StageScan(c)
  <2>1. CASE UNCHANGED <<inFlight, handlers>>
    BY <2>1, KeepsLock DEF handlers, LockStep, Stay
  <2>3. CASE Return(c)
    BY <2>3, <1>r
  <2>4. CASE Goto(c, "stageLock", NoDev)
    BY <1>1, <2>4, GotoLocks DEF StageScan
  <2> QED
    BY <1>1, <2>1, <2>3, <2>4 DEF StageScan, AnswerOK
<1>2. CASE StageLock(c)
  BY <1>2, LockLocks DEF StageLock
<1>3. CASE StageFind(c)
  BY <1>3, <1>r, GotoLocks DEF StageFind, FindDevice, Refuse
<1>4. CASE StageLook(c)
  BY <1>4, <1>r, GotoLocks DEF StageLook, AnswerOK
<1>5. CASE StageMount(c)
  BY <1>5, <1>r DEF StageMount, AnswerOK, Refuse
<1>6. CASE UnstageLook(c)
  BY <1>6, <1>r, GotoLocks DEF UnstageLook, AnswerOK
<1>7. CASE UnstageLock(c)
  BY <1>7, LockLocks DEF UnstageLock
<1>8. CASE UnstageUnmount(c)
  BY <1>8, <1>r, GotoLocks DEF UnstageUnmount, Unmount, Refuse
<1>9. CASE UnstageRemove(c)
  BY <1>9, <1>r DEF UnstageRemove, AnswerOK
<1>10. CASE PublishBind(c)
  BY <1>10, <1>r DEF PublishBind, AnswerOK
<1>11. CASE PublishFindBlock(c)
  BY <1>11, <1>r, GotoLocks DEF PublishFindBlock, FindDevice, Refuse
<1>12. CASE PublishBindBlock(c)
  BY <1>12, <1>r DEF PublishBindBlock, AnswerOK, Refuse
<1>13. CASE UnpublishUnmount(c)
  BY <1>13, <1>r DEF UnpublishUnmount, Unmount, AnswerOK, Refuse
<1>14. CASE ExpandFindmnt(c)
  BY <1>14, <1>r, GotoLocks DEF ExpandFindmnt, Refuse
<1>15. CASE ExpandRescan(c)
  BY <1>15, <1>r, GotoLocks DEF ExpandRescan, Refuse
<1>16. CASE ExpandResize(c)
  BY <1>16, <1>r DEF ExpandResize, Refuse
<1> QED
  BY <1>f, <1>1, <1>2, <1>3, <1>4, <1>5, <1>6, <1>7, <1>8, <1>9, <1>10, <1>11,
     <1>12, <1>13, <1>14, <1>15, <1>16 DEF HandlerStep

\* So is every step of the specification: a restart loses all locks, a request
\* that is given up and a step of the cloud leave them alone.
LEMMA EveryLockStep ==
    ASSUME ControlTypes, [Next]_vars PROVE LockStep
<1>1. CASE \E c \in Calls : BeginAny(c) \/ HandlerStep(c) \/ Fail(c)
  BY <1>1, BeginAnyLocks, HandlerLocks
<1>2. CASE \E c \in Calls : GiveUp(c)
  <2>1. pc' = pc /\ inFlight' = inFlight
    BY <1>2 DEF GiveUp
  <2>2. \A d \in Calls : call'[d].vol = call[d].vol
    BY <1>2 DEF GiveUp, ControlTypes, CallRecord
  <2> QED
    BY <2>1, <2>2 DEF Holds, LockStep, Stay, Keeps
<1>3. CASE Restart
  <2>1. inFlight'[Node] = {}
    BY <1>3 DEF Restart, Lose, ControlTypes
  <2>2. \A d \in Calls : ~Holds(d)'
    BY <1>3 DEF Restart, Holds, LockedPCs, PublishPCs
  <2> QED
    BY <2>1, <2>2 DEF LockStep, Lost
<1>4. CASE UNCHANGED <<inFlight, handlers>>
  BY <1>4, KeepsLock DEF handlers, LockStep, Stay
<1>5. CASE \E v \in Volumes : CloudStep(v)
  BY <1>4, <1>5 DEF CloudStep, AttachDisk, DetachDisk, HoldDisk, ReleaseDisk
<1>6. CASE UNCHANGED vars
  BY <1>4, <1>6 DEF vars
<1> QED
  BY <1>1, <1>2, <1>3, <1>5, <1>6 DEF Next

\* Whoever enters finds its volume free, and whoever leaves gives back its own.
LEMMA EnterKeepsLocks ==
    ASSUME ControlTypes, LockInv, NEW c \in Calls, Enter(c)
    PROVE  /\ LockInv'
           /\ \A d \in Calls : Holds(d) => call[d].vol # call'[c].vol
<1> DEFINE v == call'[c].vol
<1>1. v \notin inFlight[Node] /\ inFlight'[Node] = inFlight[Node] \cup {v}
  BY DEF Enter, Insert, Busy, ControlTypes
<1>2. \A d \in Calls : Holds(d) => call[d].vol # v
  BY <1>1 DEF LockInv, NoLockLeft
<1>3. OneHandlerPerVolume'
  BY <1>2 DEF LockInv, OneHandlerPerVolume, Enter, Keeps
<1>4. NoLockLeft'
  BY <1>1 DEF LockInv, NoLockLeft, Enter, Keeps
<1> QED
  BY <1>2, <1>3, <1>4 DEF LockInv

LEMMA LeaveKeepsLocks ==
    ASSUME ControlTypes, LockInv, NEW c \in Calls, Leave(c) PROVE LockInv'
<1>1. inFlight'[Node] = inFlight[Node] \ {call[c].vol}
  BY DEF Leave, Delete, ControlTypes
<1>2. \A d \in Calls \ {c} : Holds(d) => call[d].vol # call[c].vol
  BY DEF LockInv, OneHandlerPerVolume, Leave
<1>3. OneHandlerPerVolume'
  BY DEF LockInv, OneHandlerPerVolume, Leave, Keeps
<1>4. NoLockLeft'
  BY <1>1, <1>2 DEF LockInv, NoLockLeft, Leave, Keeps
<1> QED
  BY <1>3, <1>4 DEF LockInv

\* Table and handlers agree after every step.
LEMMA NextLocks == TypeInv /\ LockInv /\ [Next]_vars => LockInv'
<1> SUFFICES ASSUME ControlTypes, LockInv, LockStep PROVE LockInv'
  BY TypeParts, EveryLockStep
<1>1. CASE Stay
  BY <1>1 DEF Stay, Keeps, LockInv, OneHandlerPerVolume, NoLockLeft
<1>2. CASE Lost
  BY <1>2 DEF Lost, LockInv, OneHandlerPerVolume, NoLockLeft
<1> QED
  BY <1>1, <1>2, EnterKeepsLocks, LeaveKeepsLocks DEF LockStep

LEMMA InitLocks == Init => LockInv
  BY DEF Init, NewInFlight, LockInv, OneHandlerPerVolume, NoLockLeft, Holds, LockedPCs,
     PublishPCs

\* Handlers that have locked a volume exclude each other, whatever the CO gives
\* up: no two of them are between Insert and the deferred Delete at once.
THEOREM VolumesExclusive == Spec => []OneHandlerPerVolume
<1> QED
  BY NodeTypes, InitLocks, NextLocks, PTL DEF Spec, LockInv

\* No way out of a handler, by an error, an answer or a restart, leaves a volume
\* locked or takes the lock of another handler.
THEOREM LocksGivenBack == Spec => []NoLockLeft
<1> QED
  BY NodeTypes, InitLocks, NextLocks, PTL DEF Spec, LockInv

-----------------------------------------------------------------------------
(* The node service implements the keyed mutex.                            *)

\* What a handler has locked, before and after a step.
LEMMA LockIs ==
    /\ lockOf = [c \in Calls |-> lockOf[c]]
    /\ lockOf' = [c \in Calls |-> lockOf'[c]]
    /\ \A c \in Calls :
          /\ lockOf[c] = IF Holds(c) THEN <<Node, call[c].vol>> ELSE NoLock
          /\ lockOf'[c] = IF Holds(c)' THEN <<Node, call'[c].vol>> ELSE NoLock
          /\ Keeps(c) => lockOf'[c] = lockOf[c]
  BY DEF lockOf, Keeps

\* A lock is that of a volume, and it is not NoLock.
LEMMA HasLock ==
    ASSUME ControlTypes, LockInv, NEW c \in Calls, Holds(c)
    PROVE  /\ call[c].vol \in Volumes
           /\ lockOf[c] = <<Node, call[c].vol>>
           /\ lockOf[c] # NoLock
<1>1. call[c].vol \in Volumes
  BY DEF LockInv, NoLockLeft, ControlTypes
<1> QED
  BY <1>1, LockIs, LocksAssumption

LEMMA InitMutex == Init => Mutex!Init
  BY DEF Init, lockOf, Holds, LockedPCs, PublishPCs, Mutex!Init

\* Every step of the node service is a step of the mutex, or none.
LEMMA NextMutex ==
    ASSUME ControlTypes, ControlTypes', LockInv, LockStep PROVE [Mutex!Next]_lockOf
<1>1. CASE Stay
  BY <1>1, LockIs DEF Stay
<1>2. ASSUME NEW c \in Calls, Enter(c) PROVE Mutex!Next
  <2> DEFINE v == call'[c].vol
  <2>1. v \in Volumes
    BY <1>2 DEF Enter, Insert, ControlTypes
  <2>2. \A d \in Calls : lockOf[d] # <<Node, v>>
    <3> SUFFICES ASSUME NEW d \in Calls, lockOf[d] = <<Node, v>> PROVE FALSE
      OBVIOUS
    <3>1. Holds(d)
      BY <2>1, LockIs, LocksAssumption
    <3> QED
      BY <1>2, <3>1, HasLock, EnterKeepsLocks
  <2>3. lockOf[c] = NoLock /\ lockOf'[c] = <<Node, v>>
    BY <1>2, LockIs DEF Enter
  <2>4. lockOf' = [lockOf EXCEPT ![c] = <<Node, v>>]
    BY <1>2, <2>3, LockIs DEF Enter
  <2> QED
    BY <2>1, <2>2, <2>3, <2>4 DEF Mutex!Next, Mutex!Acquire
<1>3. ASSUME NEW c \in Calls, Leave(c) PROVE Mutex!Next
  <2>1. lockOf' = [lockOf EXCEPT ![c] = NoLock]
    BY <1>3, LockIs DEF Leave
  <2> QED
    BY <1>3, <2>1, HasLock DEF Leave, Mutex!Next, Mutex!Release
<1>4. CASE Lost
  <2>1. ASSUME NEW d \in Calls
        PROVE  lockOf'[d] =
                 IF \E v \in Volumes : lockOf[d] = <<Node, v>> THEN NoLock ELSE lockOf[d]
    <3>1. lockOf'[d] = NoLock
      BY <1>4, LockIs DEF Lost
    <3>2. CASE Holds(d)
      BY <3>1, <3>2, HasLock
    <3>3. CASE ~Holds(d)
      BY <3>1, <3>3, LockIs
    <3> QED
      BY <3>2, <3>3
  <2>2. lockOf' = [d \in Calls |->
                     IF \E v \in Volumes : lockOf[d] = <<Node, v>> THEN NoLock ELSE lockOf[d]]
    BY <2>1, LockIs
  <2> QED
    BY <2>2 DEF Mutex!Next, Mutex!Stop
<1> QED
  BY <1>1, <1>2, <1>3, <1>4 DEF LockStep

\* Whatever overtakes what, and wherever a handler takes its lock, the handlers
\* of the node and the table of their process implement KeyedMutex.
THEOREM NodeMutexImplemented == Spec => ImplementsMutex
<1>1. ASSUME TypeInv, TypeInv', LockInv, [Next]_vars
      PROVE  [Mutex!Next]_lockOf
  BY <1>1, NextMutex, EveryLockStep DEF TypeInv, ControlTypes
<1> QED
  BY <1>1, InitMutex, NodeTypes, InitLocks, NextLocks, PTL
     DEF Spec, ImplementsMutex, Mutex!Spec

=============================================================================
