---------------------------- MODULE NodeInvariant ----------------------------
(***************************************************************************)
(* Why the node service is correct: the inductive invariants behind the    *)
(* properties of NodeService, in named parts.                              *)
(***************************************************************************)
EXTENDS NodeLocks

\* Which locals a handler has set; the place of a request says what it is.
LocalsOK(c) ==
    /\ Running(c) => call[c].vol \in Volumes
    /\ ~Running(c) => call[c] = NoCall
    /\ pc[c] \in StagePCs => call[c].op = "stage" /\ call[c].slot \in Slots
    /\ pc[c] \in UnstagePCs => call[c].op = "unstage"
    /\ pc[c] \in PublishPCs => call[c].op = "publish"
    /\ pc[c] = "unmountTarget" => call[c].op = "unpublish"
    /\ pc[c] \in ExpandPCs => call[c].op = "expand"
    /\ pc[c] \in StagePCs \cup UnstagePCs => call[c].place = Staging
    /\ pc[c] \in PublishPCs \cup {"unmountTarget"} => call[c].place \in Targets
    /\ pc[c] \in {"look", "mount", "bindBlock"} => call[c].dev \in Devs

\* The inductive type invariant holds whatever the CO does, so it must allow
\* for mounts of the node's own disk and of devices without a disk.
AnyEntry == [dev : Devs \cup {NoDev}, vol : Volumes \cup {NoVolume}]

TypeInv ==
    /\ slot \in [Slots -> Volumes \cup {NoVolume}]
    /\ dev \in [Devs -> Slots \cup {NoSlot}]
    /\ mounts \in [Volumes -> [Places -> Seq(AnyEntry)]]
    /\ inFlight \in [Replicas -> SUBSET Volumes]
    /\ pc \in [Calls -> PCs]
    /\ call \in [Calls -> CallRecord]
    /\ held \subseteq Volumes \cap Attached
    /\ staged \in [Volumes -> Belief]
    /\ published \in [Volumes -> [Targets -> Belief]]
    /\ \A c \in Calls : LocalsOK(c)

\* Table and handlers agree.
LockInv == OneHandlerPerVolume /\ NoLockLeft

-----------------------------------------------------------------------------
(* The CO that waits: it gives up only requests that take the lock first   *)
(* of all, so that the table makes it wait for what it has given up.       *)

PatientCO == LateOps \subseteq {"publish", "unpublish"}

\* Among the requests the CO still waits for, one per volume.
OneWaiting ==
    \A c, d \in Calls :
        /\ Running(c) /\ Running(d) /\ call[c].vol = call[d].vol
        /\ ~call[c].late /\ ~call[d].late
        => c = d

\* No disk is in two slots, no slot has two devices: a device leads to one
\* disk and no two devices lead to the same.
HostOK ==
    /\ \A s, t \in Slots : slot[s] = slot[t] /\ slot[s] # NoVolume => s = t
    /\ \A d, e \in Devs : dev[d] = dev[e] /\ dev[d] # NoSlot => d = e

\* Every mount of a stack is one of the volume, through a device.
AllOf(v, stack) == \A i \in DOMAIN stack : stack[i].dev \in Devs /\ stack[i].vol = v

\* What the CO believes of a volume is so.
VolumeOK(v) ==
    /\ v \in held => \E s \in Slots : slot[s] = v
    /\ staged[v] # "no" => v \in held
    /\ \A t \in Targets : published[v][t] # "no" => staged[v] = "yes"
    /\ \A p \in Places : AllOf(v, mounts[v][p])
    /\ IsMounted(v, Staging) =>
          /\ v \notin Blocks
          /\ staged[v] # "no"
          /\ Len(mounts[v][Staging]) = 1
          /\ DiskOf(mounts[v][Staging][1].dev) = v
    /\ staged[v] = "yes" /\ v \notin Blocks => IsMounted(v, Staging)
    /\ \A t \in Targets : published[v][t] = "yes" => Serves(v, t)

\* What a handler relies on: what it read before it took the lock, the slot
\* of the publish context, and the CO, which does nothing behind its back.
CallOK(c) ==
    LET v == call[c].vol
    IN  /\ Running(c) => v \in held
        /\ call[c].late => call[c].op \in {"publish", "unpublish"}
        /\ pc[c] \in StagePCs => staged[v] # "no" /\ slot[call[c].slot] = v
        /\ pc[c] \in StagePCs \ {"scan"} => v \notin Blocks
        /\ pc[c] \in {"look", "mount"} =>
              call[c].dev \in Devs /\ dev[call[c].dev] = call[c].slot
        /\ pc[c] = "mount" => ~IsMounted(v, Staging)
        /\ pc[c] \in UnstagePCs =>
              staged[v] = "maybe" /\ \A t \in Targets : published[v][t] = "no"
        /\ pc[c] \in {"unstageLock", "unmount"} =>
              IsMounted(v, Staging) /\ mounts[v][Staging][1].dev = call[c].dev
        /\ pc[c] = "remove" =>
              ~IsMounted(v, Staging) /\ call[c].dev \in Devs /\ DiskOf(call[c].dev) = v
        /\ pc[c] \in PublishPCs => published[v][call[c].place] # "no"
        /\ pc[c] = "bind" => v \notin Blocks
        /\ pc[c] \in {"findBlock", "bindBlock"} =>
              call[c].slot \in Slots /\ slot[call[c].slot] = v
        /\ pc[c] = "bindBlock" =>
              call[c].dev \in Devs /\ dev[call[c].dev] = call[c].slot
        /\ pc[c] = "unmountTarget" => published[v][call[c].place] = "maybe"
        /\ pc[c] \in ExpandPCs => staged[v] = "yes" /\ v \notin Blocks
        /\ pc[c] = "findmnt" =>
              call[c].place = Staging \/ published[v][call[c].place] = "yes"
        /\ pc[c] \in {"rescan", "resize"} =>
              call[c].dev \in Devs /\ DiskOf(call[c].dev) = v

\* Why, with a patient CO, every path shows its own disk: what a handler has
\* read stays true until it acts on it.
PatientInv ==
    /\ HostOK
    /\ OneWaiting
    /\ \A v \in Volumes : VolumeOK(v)
    /\ \A c \in Calls : CallOK(c)

=============================================================================
