------------------------- MODULE ControllerInvariant -------------------------
(***************************************************************************)
(* Why the controller is correct: the inductive invariant behind the       *)
(* properties of ControllerService, in named parts.                        *)
(***************************************************************************)
EXTENDS ControllerLocks

\* The program counters of CreateDisk after the disk has been created.
CreatedPCs == {"inUse", "detachHelper", "available"}

\* A handler runs on a replica that its sidecar may call, and its locals are
\* set as far as its program counter tells.
CallOK(c) ==
    /\ Running(c) => /\ call[c].rep \in Replicas
                     /\ call[c].rep \in Leaders[SidecarOf(call[c].op)]
    /\ pc[c] \in CreatePCs    => call[c].op = "create" /\ call[c].name \in Names
    /\ pc[c] \in CreatedPCs   => call[c].vol \in Volumes /\ call[c].node \in Instances
    /\ pc[c] \in DeletePCs    => call[c].op = "delete" /\ call[c].vol \in Volumes
    /\ pc[c] \in PublishPCs   => call[c].op = "publish" /\ call[c].vol \in Volumes
    /\ pc[c] \in PublishPCs \ {"instance"} => call[c].node \in Instances
    /\ pc[c] \in UnpublishPCs => call[c].op = "unpublish" /\ call[c].vol \in Volumes
    /\ pc[c] \in ExpandPCs    => call[c].op = "expand" /\ call[c].vol \in Volumes
    /\ pc[c] = "late" =>
          /\ call[c].op \in Operations
          /\ call[c].op = "create" => call[c].name \in Names
          /\ call[c].op # "create" => call[c].vol \in Volumes
          /\ call[c].op = "publish" => call[c].node \in Instances

\* A disk that is growing has room to grow.
RoomToGrow == \A v \in Volumes : disk[v].st = "resizing" => disk[v].size < MaxUnits

\* The inductive type invariant: a handler never acts on a local it has not set.
TypeInv == TypeOK /\ RoomToGrow /\ \A c \in Calls : CallOK(c)

\* Tables and handlers agree.
LockInv == KeyExclusive /\ NoLeakedKey

\* What a step does to the locks: a handler keeps its own, ...
Same(d) ==
    /\ Holds(d)' <=> Holds(d)
    /\ Holds(d) => call'[d].rep = call[d].rep /\ Key(d)' = Key(d)

Stay == UNCHANGED inFlight /\ \A d \in Calls : Same(d)

\* ... one takes a key that is free, ...
Enter(c) ==
    /\ \A d \in Calls \ {c} : Same(d)
    /\ ~Holds(c) /\ Holds(c)'
    /\ Insert(call'[c].rep, Key(c)')

\* ... one gives its key back, ...
Leave(c) ==
    /\ \A d \in Calls \ {c} : Same(d)
    /\ ~Holds(c)'
    /\ Unlock(c)

\* ... or a replica stops.
StopAll(r) ==
    /\ \A d \in Calls : IF Holds(d) /\ call[d].rep = r THEN ~Holds(d)' ELSE Same(d)
    /\ Lose(r)

-----------------------------------------------------------------------------
(* How far the expansions under way may still make a disk grow: all that   *)
(* it takes is in the calls, whoever leads and whatever fails.             *)

Expanding(v) == {c \in Calls : call[c].op = "expand" /\ call[c].vol = v}

\* They will extend the disk without looking at it again.
Armed(v) == {c \in Expanding(v) : pc[c] \in {"extend", "late"}}

\* They do not wait for the end of a resize.
Moving(v) == {c \in Expanding(v) : pc[c] # "extended"}

IsResizing(v) == disk[v].st = "resizing"
GrownSize(v)  == disk[v].size + (IF IsResizing(v) THEN 1 ELSE 0)

\* A disk that is resizing is so because of an expansion that waits for it or
\* is over; so when one more finds the disk no larger than it should be, the
\* unit that is on its way is another call's.
GrowthOK(v) ==
    /\ IsFiniteSet(Expanding(v))
    /\ Cardinality(Expanding(v)) <= asked[v].calls
    /\ IsResizing(v) => Cardinality(Moving(v)) < asked[v].calls
    /\ Exists(v) => GrownSize(v) + Cardinality(Armed(v)) <= asked[v].top + asked[v].calls
    /\ \A c \in Expanding(v) : call[c].size <= asked[v].top
    /\ disk[v].st = "unused" => v \notin known /\ \A c \in Calls : call[c].vol # v

GrowthInv ==
    /\ \A v \in Volumes : GrowthOK(v)
    /\ \A c \in Calls : pc[c] = "idle" => call[c] = NoCall

-----------------------------------------------------------------------------
(* With one leader for a sidecar, the tables of the replicas exclude its   *)
(* handlers from each other as one table would; and no request outlives    *)
(* its handler.                                                            *)

SoleLeader(s) == \E r \in Replicas : Leaders[s] = {r}

NothingLate == "late" \notin Faults

OneLeaderEach ==
    SoleLeader("provisioner") /\ SoleLeader("attacher") /\ NothingLate

\* What a handler relies on.  Between its lookup and the creation there is no
\* disk of its name; the CO does not know a disk that is still being made,
\* and knows every disk that another handler works on; a handler about to
\* detach a volume from a node has the CO's consent.
LocalOK(c) ==
    /\ pc[c] # "late"
    /\ pc[c] = "create" => DisksNamed(call[c].name) = {}
    /\ pc[c] \in CreatedPCs =>
          /\ call[c].vol \notin Seen
          /\ Exists(call[c].vol)
          /\ disk[call[c].vol].name = call[c].name
    /\ pc[c] \in DeletePCs \cup PublishPCs \cup UnpublishPCs \cup ExpandPCs =>
          call[c].vol \in Seen
    /\ pc[c] = "detach" => <<call[c].vol, call[c].node>> \notin published

\* GetDiskByName never has a choice.
OneDiskPerName ==
    \A v, w \in Volumes :
        Exists(v) /\ Exists(w) /\ disk[v].name = disk[w].name => v = w

\* What CreateVolume has answered is there until DeleteVolume answers OK.
KnownExist == \A v \in known : Exists(v)

\* Only a volume that CreateVolume has answered gets published: never the disk
\* that another handler is still making.
PublishedAreKnown ==
    \A v \in Volumes, n \in Instances : <<v, n>> \in published => v \in known

\* Why, with one leader for a sidecar, CreateVolume makes no second disk of a
\* name and no detachment hits a published volume: each handler can rely on
\* what it has seen, and the CO knows no disk that is half made.
OneLeaderInv ==
    /\ \A c \in Calls : LocalOK(c)
    /\ OneDiskPerName
    /\ KnownExist
    /\ PublishedAreKnown
    /\ PublishedStaysAttached

\* With that, nobody but its handler works on a disk that is being made, and
\* no two handlers of the attacher on one disk: a disk is where the handler that
\* waits for it has sent it.
WaitOK(c) ==
    LET d == disk[call[c].vol]
    IN  /\ pc[c] = "inUse" => d.st \in {"creating", "attached"} /\ d.inst = call[c].node
        /\ pc[c] = "detachHelper" => d.st = "attached" /\ d.inst = call[c].node
        /\ pc[c] = "available" => d.st \in OnTheWay.available
        /\ pc[c] = "attached" => d.st \in OnTheWay.attached
        /\ pc[c] = "detached" => d.st \in OnTheWay.detached

WaitInv == \A c \in Calls : WaitOK(c)

\* Without failures there is no disk but those the CO knows and those under way.
Accounted ==
    \A v \in Volumes :
        Exists(v) => v \in known \/ \E c \in Calls : pc[c] \in CreatedPCs /\ call[c].vol = v

-----------------------------------------------------------------------------
(* Whoever leads, as long as no request outlives its handler: the disks of *)
(* a name and the handlers that have not found one and will make another.  *)

\* The replicas of the creations of nm that will not look again.  A replica has
\* one at most, its table having the name.
MakersOf(nm) ==
    {call[c].rep : c \in {d \in Calls : pc[d] = "create" /\ call[d].name = nm}}

FiniteLeaders == IsFiniteSet(Leaders["provisioner"])

CopiesOK(nm) ==
    /\ IsFiniteSet(DisksNamed(nm))
    /\ Cardinality(DisksNamed(nm)) + Cardinality(MakersOf(nm))
          <= Cardinality(Leaders["provisioner"])

\* The name is in the description of a disk as long as there is the disk.
NamesOK ==
    \A v \in Volumes : IF Exists(v) THEN disk[v].name \in Names ELSE disk[v].name = NoName

\* Why the controller implements VolumeNaming.
NamingInv ==
    /\ \A c \in Calls : pc[c] # "late" /\ (pc[c] = "delete" => call[c].vol \in Seen)
    /\ NamesOK
    /\ KnownExist
    /\ \A nm \in Names : CopiesOK(nm)

=============================================================================
