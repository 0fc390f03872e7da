# Verification of the NIFCLOUD additional storage CSI driver

TLA+ modules, TLC configurations and TLAPS proofs for the driver in this
repository. They are about what the driver does to disks: which disk a name
gets, what it is made of and where, to which node it is attached, how large it
grows, which path of a node shows it, and when a request is answered, while
requests overlap, waits expire, calls fail and processes restart.

Paths are relative to the repository's `pkg/` unless they start otherwise.

## 1. Inventory

| Component | Source | State it keeps | Operations |
|---|---|---|---|
| controller service | `driver/controller.go` | none of its own but the in-flight table | CreateVolume, DeleteVolume, ControllerPublishVolume, ControllerUnpublishVolume, ControllerExpandVolume; read-only: ListVolumes, ControllerGetVolume, ValidateVolumeCapabilities, ControllerGetCapabilities |
| in-flight table | `driver/internal/inflight.go` | set of keys, per process, in memory | Insert, Delete |
| cloud client | `cloud/cloud.go` | none | CreateDisk, DeleteDisk, AttachDisk, DetachDisk, ResizeDisk, ListDisks, GetDiskByName, GetDiskByID, IsExistInstance, GetInstanceByName, waitForVolume, WaitForAttachmentState |
| NIFCLOUD API | external, called from `cloud/cloud.go` | disks, their attachments and sizes | CreateVolume, AttachVolume, DetachVolume, DeleteVolume, ExtendVolumeSize, Describe... |
| topology and parameters | parts of `driver/controller.go`, `cloud/cloud.go` | none | pickAvailabilityZone, isValidVolumeCapabilities, volume and accounting types, listInstancesByZone |
| capacity arithmetic | `util/util.go`, parts of the two above | none | RoundUpBytes, BytesToGiB, GiBToBytes, roundUpCapacity, getVolSizeBytes |
| node service | `driver/node.go`, `driver/mount.go` | SCSI devices and mounts of the node, an in-flight table | NodeStageVolume, NodeUnstageVolume, NodePublishVolume, NodeUnpublishVolume, NodeExpandVolume; read-only: NodeGetVolumeStats, NodeGetInfo |
| identity service | `driver/identity.go`, `version.go` | none | constant answers |
| process and server | `driver/driver.go`, `cmd/main.go` | the listener | start, one goroutine per request |
| deployment | `charts/` | the leases of the sidecars | separate leader elections of csi-provisioner, csi-attacher, csi-resizer over two replicas |

**How they interact.** The container orchestrator (CO: kubelet and the CSI
sidecars) calls the controller over gRPC; each request is a goroutine. A handler
inserts its key into the table of its process (CreateVolume the *name*, the others
the *volume ID*, ControllerExpandVolume nothing), sends a sequence of requests to
the cloud, polls until the cloud has completed what it started, and gives the key
back by a deferred Delete. The name of a volume is kept in the description of the
disk; there is no other persistent state. A new disk can only be created attached
to an instance, so CreateDisk attaches it to the first instance of the zone (the
*helper*) and detaches it again. The answer of ControllerPublishVolume carries
the SCSI slot, from which the node service finds the device.

**What is hard.**

- The creation of a disk takes three requests and two waits, none of it
  idempotent, and only an in-memory table keeps two creations apart.
- While a disk is being made it is visible under its name, and attached to an
  instance, to every other request.
- Attach, detach and resize are asynchronous; waits look at the status of *any*
  attachment and expire. `waitForVolume` ends with the context of the request,
  `WaitForAttachmentState` at its first poll after that: a sleep between two of its
  polls, of up to half an hour, is not cut short, and keeps the key.
- The tables of two replicas do not exclude each other, and the leases of the
  three sidecars move separately.
- ControllerExpandVolume takes no lock and reads a size, compares, and extends in
  three steps; the cloud grows a disk only by 100 GiB at a time.
- Sizes pass through rounding to GiB, rounding to 100 GiB, int64 and int32.
- On a node, device and reference count are read before the lock is taken, and a
  retry after half of the work sees a node that looks finished.

`PROJECT.json` lists the hazards at their lines, with the properties that would
catch each.

**What makes each component correct.** Controller: a name has one disk; a
published volume stays attached; every key is given back; every request but an
expansion is answered without any wait expiring; a disk grows no more than was
asked for, up to a bound. In-flight table: mutual exclusion per replica and key. Capacity: the least disk that is enough,
and no wrapped integer. Topology and parameters: a volume is of the type asked for
and where its pods can use it, whichever attempt has made it. Node: every path
that was answered shows the disk of its own volume, whatever slots and device
names were used for before; no handler touches another volume's device or the
node's own; a volume that is released is not mounted at its staging path and no
handler works on it.

## 2. Modules

```
Nifcloud (external API)      InFlight          KeyedMutex (abstract)
      |                          |              : implemented by
 CloudClient                     |              : ControllerLocks, NodeLocks
      \__________________________/ \
                 |                  \
         ControllerService           \
                 |                    \
          ControllerLocks              \
                 |                      \
       ControllerInvariant               \
          |            |                  |
          |     ControllerNaming . . . . .|. : implements VolumeNaming (abstract)
  ControllerAttachments . . . . . . . . . |. : implements VolumeAttachment (abstract)
          |            |                  |                        :
          MCController (TLC)              |                        : relied on by
                                          |                        :
 NodeHost (external machine) ------ NodeService . . . . . . . . . .:
                                          |
                                      NodeLocks
                                          |
                                    NodeInvariant --- MCNode (TLC)

 Provisioning --- MCProvisioning (TLC)        Capacity

 Proofs:  ControllerLockProofs --- ControllerGrowthProofs
                 |       \
                 |        ControllerNamingProofs
          ControllerDiskProofs
          NodeTypeProofs --- NodeProofs
          ProvisioningProofs      CapacityProofs
```

| Module | Models |
|---|---|
| `Nifcloud` | the state of each disk (`unused`, `creating`, `attaching`, `attached`, `resizing`, `detaching`, `available`, `deleted`), the calls the driver makes and what the cloud completes on its own |
| `InFlight` | `inflight.go`, one table per process |
| `CloudClient` | the tests of `cloud.go` on the answers of the API: one poll of each wait, the comparisons of GetDiskByName and ResizeDisk |
| `ControllerService` | the handlers with the sequences of requests of `cloud.go`, the failures, the properties |
| `KeyedMutex`, `ControllerLocks`, `NodeLocks` | what tables and handlers promise together, and the refinement mappings of controller and node |
| `VolumeNaming`, `ControllerNaming` | what the controller promises to the CO about names and volume IDs, and the refinement mapping |
| `VolumeAttachment`, `ControllerAttachments` | what the controller promises to a node about its disks, and the refinement mapping; `NodeService` has its disks come and go as the first of them says |
| `NodeHost` | the node: SCSI slots, device files, stacks of mounts, and what `node.go` and `mount.go` do to them |
| `NodeService` | the handlers of `node.go`, the CO's requests, the failures, the properties |
| `Provisioning` | capabilities, parameters, types, zone and helper of a volume that is asked for repeatedly |
| `Capacity` | the arithmetic, as the states a request goes through |
| `ControllerInvariant`, `NodeInvariant` | the inductive invariants, in named parts |
| `MCController`, `MCNode`, `MCProvisioning` | instances for TLC: who leads, zones, parameter maps, symmetry |
| `...Proofs` | the theorems |

**State and code of the controller.** `pc[c]` is the program counter of the goroutine in slot `c`,
`call[c]` its request and locals. A step is the code between two interactions
with something shared: one request to the cloud or one operation on the table.
Steps whose program counter is in `WaitPCs` are the successful last poll of a
wait; polls that do not succeed change nothing and are stuttering. A request
answered Aborted on entry changes nothing either and is stuttering too.
`disk` is the cloud, `inFlight` the tables. The ghosts `known`, `published` and
`asked` record what the CO was told or asked for; no handler reads them.

**Failures of the controller.** `Fail`: a wait expires (`timeout`) or a request fails without
effect (`api`); the handler returns an error. `Abandon` (`late`): the handler
returns while its last request is still on its way, and later `LateArrives` or
`LateIsLost`. `Restart`: a process loses its table and handlers; the requests it
had in hand stop between two interactions. Which of them a run has is its
`Faults`. The constant `Leaders` gives, for each sidecar, the replicas that may
receive its calls: one, in normal operation, or two while a lease moves.

**Assumptions about the cloud**, none of which this repository states: a call that
is not enabled in `Nifcloud` is refused and has no effect; detaching needs a
complete attachment to the instance named; a disk is deleted only when it has no
attachment; AttachVolume answers AlreadyAttached whenever the disk has any
attachment; the block device mapping of an instance lists a disk once its
attachment is complete (`cloud.go:691-732` takes an entry for a usable device);
disks that are attached or available can be extended; the cloud refuses sizes it
has no disks of; IDs are not used twice.

**State and code of the node.** A step of a handler is the code between two
interactions with the table, the devices or the mount table. NodeStageVolume is
`scan` (one device registered per step, as the kernel does while
`scanStorageDevices` goes through the hosts), `stageLock` (Insert), `find`
(findDevicePath), `look` (is the target mounted, and by which device), `mount`;
NodeUnstageVolume is `unstageLook` (device and reference count, before the lock),
`unstageLock`, `unmount`, `remove`; NodePublishVolume locks on entry and then is
`bind`, or `findBlock` and `bindBlock`; NodeUnpublishVolume is `unmountTarget`;
NodeExpandVolume, without a lock, is `findmnt` (which finds the node's own disk for
a path that is no mount point), `rescan`, `resize`. `slot[s]` is
the disk in a SCSI slot, `dev[d]` the slot a device was registered for,
`mounts[v][p]` the stack of mounts at a path. The ghosts `held`, `staged` and
`published` are what the CO has asked for and was told; `maybe` stands for a
request without an answer.

*The CO* has at most one request per volume it waits for, stages before it
publishes, and releases a volume only when no place of it is in use. A request
whose deadline has passed runs on, since the handlers never look at the context,
and the CO goes on to the next one; `LateOps` says for which requests this may
happen. A *patient* CO gives up only publish and unpublish.

*Failures of the node:* a command fails without effect (`error`), an answer is
lost (`lost`), the process restarts and loses table and handlers, but neither
devices nor mounts (`restart`).

*Assumptions about the machine:* the kernel is not told of a disk that is pulled,
so its device stays until `removeStorageDevice` and leads to whatever disk is in
the slot; the name of a removed device may be used again at once; the bind mount
of a device file works whatever is behind it, the mount of a file system needs a
disk; umount of a path that is not mounted may succeed or fail.

**State and code of Provisioning.** One name, one disk: `pc` and `local` are the
CreateVolume under way, `up` the instances that are there, `answer` the zone the
CO was told. A parameter map is read in any order, so of two spellings of a key
either may win. A topology may lack the key (`NoKey`) or have it with an empty
value (`NoZone`), which `pickAvailabilityZone` answers like that of any zone and
CreateVolume takes for the zone of the controller; the requirement allows the
disk there then (`AllowedZones`). The CO repeats its request as it was; with `Moves` it may come
back for other zones after a failure.

**Abstractions.** Sizes in `ControllerService` are counted in units of 100 GiB,
`Capacity` has the rest of the arithmetic. The helper is any instance there, and
any of the zone in `Provisioning`, since the code takes the first of a list in
the cloud's order. Capabilities, parameters and topology are left to
`Provisioning`: a request in `ControllerService` is one that validation has let
through. `CreateDisk` of `ControllerService` lists the instances and sends
CreateVolume in one step: in that module instances do not come and go, so nothing
can happen between the two; `Provisioning`, where they do, has `FindHelper` and
`CreateOnCloud`. A request to the cloud is sent once: that the SDK sends a request
again whose answer it has lost is not modelled. That a request takes effect after
its handler has given it up is (`late`), and so is the CO's retry of the handler.
Status codes, mount options, mount-point directories and the sizes of file systems
are left out. Device slots of instances are not counted.

## 3. Runs

| Run | Question | Bounds | Result |
|---|---|---|---|
| `split` | Do creation, deletion, attachment and detachment stay out of each other's way when provisioner and attacher are led by different replicas, and does a node get what it is promised? Does any wait poll for what another handler has undone? | 2 volumes, 2 names, 2 instances and one node name without instance, 3 requests at a time, faults timeout, api, restart | holds, 470,735 states |
| `failover` | How many disks may a name get while a lease moves, and does a volume the CO was told of stay? | 3 volumes, 1 name, 3 requests, two leaders | at most two; it stays, 88,836 states |
| `expand` | How far can unlocked, repeated and abandoned expansions push a disk? | 1 volume of up to 5 units, 3 requests, 3 expansions, faults timeout, late, restart | no further than one unit per call beyond the largest size asked for, 469,253 states |
| `locks` | Do handlers and tables implement a keyed mutex? | every kind of request, either replica, 2 requests, timeout, late, restart | yes, 39,847 states |
| `live` | Is every request but an expansion answered, with a volume that is free? | 2 volumes, 2 instances, 2 requests, no faults, fair | yes, 38,325 states |
| `capacity` | Does rounding give the least size that is enough? | int64 scaled down to 127, GiB to 2, unit to 5, int32 to 32 values; every request | yes, 351,220 states |
| `node` | Does every path show its own disk, although devices, slots and names are used again and requests outlive their deadlines? Do handlers and table implement a keyed mutex? | 3 volumes, one of them raw, 2 slots, 3 device names, 1 target, 3 requests at a time, stacks of 2 mounts, late publish and unpublish, all faults | holds, 315,578 states |
| `provisioning` | Is a volume made as asked and where it can be used, whichever attempt makes it? | 3 instances in 2 zones, lists of up to 2 topologies, 2 access modes, 10 parameter maps | holds, 208,368 states |
| `multi_disks` | Is a second disk of a name reported? | 2 volumes, late requests | no (finding) |
| `needless_extend` | Does a request for the present size leave a disk alone? | 1 request at a time, no faults | no (finding) |
| `node_overtake` | Does NodeUnstageVolume notice a NodeStageVolume of the volume under way? | as `node`, 2 requests, late stage, no faults | no (finding) |
| `capacity_limit` | Does an answer respect the limit? | as `capacity` | no (finding) |

**Why the bounds are enough.** Conflicts are between two requests on one key or
disk; the third slot lets a third party use what the first two have left behind,
and in `failover` makes it possible to exceed the bound of two, which a mutant
does. In `expand` the bound of the property is reached: with the three calls of
that run the disk ends three units above what was asked for. `MaxUnits` is so
large there that no disk is kept from growing by it. In `capacity` every value of
the scaled int64 is tried, at its upper end too, and the constants keep the two
relations the arithmetic depends on (`CapacityAssumption`): the GiB of the largest
int64 fit in two int32 ranges, hence a wrapped size is never a multiple of the
unit, which does not divide 2^32.

In `node` three volumes and two slots make a slot, and its device, pass from one
volume to another while the third request is in a handler; a stack of two is what
one repeated publish makes, and a third mount adds no other kind of stack. In
`provisioning` two topologies per list are enough for a preferred zone that comes
second, for one without the key or with an empty zone, and for one that differs
from the requisite ones; a zone has one or two instances, so that a zone can lose its last one.

Symmetry is declared for volumes, instances, names and call slots, on the node
for volumes of a kind, slots, devices and call slots, in runs that check
invariants and refinements, which treat them alike; `live`, with its liveness, and
`locks` have none, and `split`, whose refinement looks at one instance, keeps the
instances apart. The runs of `Capacity` do not check for deadlock
because a request ends; the other systems can always take another request.

**Mutants.** Each property of a passing run has a mutant: an operator placed
before the one it distorts (`InsertUnchecked`, `UnlockAlways`,
`CreateLookupAvailable`, `FindAnyDevice`, `pickPreferredZone`, ...), a slip one could make
in that code. With the mutant in place of the original the property is violated.

**Fairness.** `live` assumes that a handler that can take its next step does
(goroutines are scheduled, polls are repeated), and that the cloud completes what
it has started. It assumes nothing of the CO and nothing of the failures: there
are none in that run, so no wait expires, and a handler that returns does so
because what it waited for came about. Weak fairness is enough: what a handler
waits for stays until it has seen it. Expansion is left out of that run, because
ResizeDisk on a detached disk waits for an attachment nobody makes
(`cloud.go:374`) and returns only when the wait expires.

## 4. Findings

- `cloud.go:469-474` keeps the last of several disks of one name;
  `ErrMultiDisks` (`cloud.go:95-96`) is never returned for them.
- `cloud.go:354` can never be true, and a disk of exactly the size asked for is
  extended by 100 GiB: on every retry of an expansion that had succeeded.
- `controller.go:518` compares the limit with the size in GiB before it is
  rounded up to 100 GiB, and so does ControllerExpandVolume at line 410.
- `node.go:189` answers NodeUnstageVolume OK on a target that is not mounted
  before it asks the table, and so does not notice a NodeStageVolume that holds
  the key and may still mount (`inflight.go:24`: "InFlight is a struct used to
  manage in flight requests per volumeId.", and line 21: "An operation with the given
  Volume %s already exists"). The texts are an error message and the comment of a
  type and say nothing of unstage in particular. The run ends at the answer OK; the
  mount that may follow is the step after it.

More things the models show, which no text of the repository contradicts:

- A CreateVolume that is retried after its first attempt failed in one of the
  waits is answered OK with the half-made disk (`controller.go:84`): it may still
  be attached to the helper, and a publish to any other node then fails until
  somebody detaches it. `CreateAnswersAvailable` therefore holds in the run
  without faults only.
- `PublishedStaysAttached` needs one leader for the provisioner and no late
  requests: a detachment of the helper that arrives after the handler has given
  up, or from a replica that has lost its lease, may hit a volume that has been
  answered and published to the helper meanwhile.
- With a CO that gives up stage requests (`LateOps = {"stage"}`), `OwnDiskServed`
  and `DeviceInHandIsOwn` fail too: the stage that was overtaken finds, by the slot
  of its publish context, a disk that has come into the slot meanwhile and
  mounts it for its own volume, and the next stage of that volume, of another slot,
  sees a mounted target and answers OK. With `{"unstage"}`, a late unstage unmounts
  a volume that was staged again. With `{"expand"}`, `OwnDiskServed` holds, but the
  device NodeExpandVolume rescans and resizes may be another volume's. Hence the
  assumption that the CO is patient with these three.
- NodePublishVolume that is repeated stacks a second bind mount (`node.go:513`), and
  NodeUnpublishVolume takes away one. The one left keeps showing the volume's own
  disk as long as its device is there, and nothing in the driver removes it.
- In `Provisioning` with `Moves`, a creation that was cut off in one zone and is
  asked for again for another is answered with the disk in the first
  (`controller.go:84`), outside of the requirement.
- pickAvailabilityZone takes the first topology that has the key; if no instance
  runs in that zone the creation fails (`cloud.go:589`), and so does every retry,
  whatever instances the other zones have.
- `cloud.go:239` tests the zone asked for where it means the zone the cloud has
  answered, so an answer without a zone is passed on as the empty zone. The models
  assume that the cloud always answers one.
- ControllerGetCapabilities and NodeGetCapabilities append to a slice that was made
  with a length (`controller.go:280`, `node.go:397`), and answer as many empty
  entries before the real ones.

## 5. Proofs

| Theorem | States | Assumes |
|---|---|---|
| `SpecTypeOK`, `TypeCorrect` | types, and what each handler's locals are at each step | the constants' assumptions |
| `LocksCorrect`, `KeysGivenBack` | `KeyExclusive`, `NoLeakedKey` | the same |
| `MutexImplemented` | `Spec => ImplementsMutex`, the refinement of `KeyedMutex` by the controller | the same, and that `NoLock` is no lock |
| `NamingCorrect`, `DisksBounded` | the invariant `NamingInv`; `DisksPerNameBounded` | `NothingLate`, `FiniteLeaders` |
| `NamingImplemented` | `Spec => ImplementsNaming`, the refinement of `VolumeNaming` | the same |
| `OneLeaderCorrect` | the invariant `OneLeaderInv` | `OneLeaderEach` |
| `PublishedVolumesStayAttached` | `PublishedStaysAttached` | `OneLeaderEach` |
| `NoDuplicateDisks` | one disk per name | `OneLeaderEach` |
| `WaitCorrect`, `WaitsNotInVain` | the invariant `WaitInv`; `NoWaitInVain` | `OneLeaderEach` |
| `AnswersAvailable` | `CreateAnswersAvailable` | `OneLeaderEach`, no faults |
| `AttachmentImplemented` | `Spec => ImplementsAttachment`, the refinement of `VolumeAttachment` for any node | `OneLeaderEach` |
| `GrowthBounded` | `OvershootBounded` | the constants' assumptions |
| `NodeTypes` | types and locals of the node's handlers | the constants' assumptions |
| `VolumesExclusive`, `LocksGivenBack` | `OneHandlerPerVolume`, `NoLockLeft` | the same |
| `NodeMutexImplemented` | `Spec => ImplementsMutex`, the refinement of `KeyedMutex` by the node | the same, and that `NoLock` is no lock |
| `PatientNode` | the invariant `PatientInv` | `PatientCO` |
| `DisksServed`, `DevicesOwn`, `ReleasedUnused`, `NodeTypeOK` | `OwnDiskServed`, `DeviceInHandIsOwn`, `ReleasedIsUnused`, `TypeOK` | `PatientCO` |
| `Provisioned`, `AnswersAccessible`, `VolumesAsAsked` | `ProvisioningInv`, `AccessibleAsRequired`, `MadeAsAsked` | `~Moves` |
| `CapacityCorrect` | what the size in hand is at each stage | `CapacityAssumption` |
| `RoundUpCorrect`, `CreateCorrect`, `ExpandCorrect` | `RoundUpIsCeiling`, `CreateAnswersLeastDisk`, `ExpandAnswersEnough` | `CapacityAssumption` |

The theorems hold for any number of volumes, replicas, instances, requests, slots,
devices and zones, and for every width of the integers.
`OneLeaderEach` says that one replica leads for the provisioner and one for the
attacher, not necessarily the same, and that no request outlives its handler;
waits may expire, requests fail and replicas restart. `NothingLate` is the last
of these alone: any number of replicas may lead at a time; `FiniteLeaders`, that
their number is finite, gives the bound a meaning. Without these assumptions the
properties fail: `multi_disks` has one leader, but late requests, and two disks of a
name; section 4 has the detachments that come from a replica that no longer leads.

*Types.* `TypeOK` alone is not inductive: a handler uses locals that earlier steps
have set. `CallOK` says which are set at which program counter, `RoomToGrow` that
a resize ends within the largest size.

*Locks.* Every step of the controller is one of four kinds (`Stay`, `Enter`,
`Leave`, `StopAll`): none changes a lock, a handler takes a free key, a handler
gives its key back, a replica stops. The lemma `EveryLockStep` goes through the
code; what follows, that the locks are right and that they refine the mutex, looks
at the four kinds only. `KeyExclusive` is inductive only with `NoLeakedKey`, which
says that the table knows about every holder. The node has its own four kinds
(`Stay`, `Enter`, `Leave`, `Lost`) and the same abstract mutex, of one replica:
its handlers lock at their first step or later, and what they do before that
is `Stay`. The mutex has no owners: a lock is a pair of replica and key in the slot
of the call that took it, so that a deferred Delete that hits another call's lock
is no step of it.

*Names.* A step is one of five kinds (`NamingStep`): nothing happens to names, a
creation finds no disk and goes on to make one, it makes it, a volume is answered,
one the CO has been told of is deleted. `CopiesOK` counts, for each name, the disks
there are and the replicas with a creation that will not look again before it makes
one (`MakersOf`): together they are at most as many as the leaders. The lookup that
turns a creation into a maker has found no disk; the makers are replicas, not
handlers, because the table of a replica keeps a second creation of the name out
(`KeyExclusive`), and they lead; so the sum is at most the number of leaders when
a maker is added, a maker becomes a disk without changing the sum, and everything
else only lessens it, restarts included. For the refinement, `NamesOK` says that a
disk is named as long as it is there, and the first conjunct of `NamingInv` that a
handler about to delete has a volume the CO was told of.

*Disks.* `PublishedStaysAttached` depends on two detachments. That of the helper:
the disk is one the CO does not know yet, hence has not published; this holds
since no other handler can have answered it, the name being locked and the lookup
before the creation having found nothing (`LocalOK`). And that of
ControllerUnpublishVolume: the CO has asked for it, and no handler publishes the
volume again before the detachment, the volume ID being locked. Both need
exclusion across replicas, which one leader gives.

*Waits.* `WaitOK` says where the disk of a handler that waits, or is about to send
the next request of CreateDisk, can be: it is on the instance the handler has
named, or on its way there or away. It is inductive with `OneLeaderInv`: whoever
could move the disk is kept off by the volume ID or, while the disk is being made,
by the CO's not knowing it. A wait can therefore only be too short, never in vain.
ResizeDisk is left out, since it does wait in vain (`cloud.go:374`). For
`CreateAnswersAvailable`, `Accounted` says that without failures every disk is
either known to the CO or has a handler that is making it. A handler that answers
a disk it has found either finds a known one, which is no news to the CO, or one
under way; the latter cannot be, its handler having locked the same name on the same
replica. So an answer that is news comes from the handler that made the disk and has
just seen it available.

*Growth.* `OvershootBounded` says nothing of expansions that have looked at the
size and have not extended yet, which no lock keeps apart. `GrowthInv` counts them:
`Armed` are the calls that will extend without looking again, and the size a disk
has or is growing to, together with one unit for each of them, is at most the
largest size asked for and one unit for each call. A call arms itself only when
the size it sees is at most what it asks for. If the disk is growing at that
moment the size it sees is the old one, and the call that made it grow, being
counted and done with extending, makes up for the unit; if that call is over, it
is among the calls and no longer among those that can arm themselves.

*Attachments.* `AttachmentImplemented` needs of `OneLeaderInv` only that a
published disk is usable at its node and is not being detached; each step of the
cloud then maps to `Attach`, `Detach` or nothing, and the two answers of the
attacher to `Hold` and `Release`.

*Node.* The locks need no assumption about the CO: a handler locks a volume that
is free and every way out gives it back. The rest is one invariant. The disk
behind a device changes only when its slot changes hands, which needs a volume
that is not held; a handler's volume is held while the CO waits for it
(`CallOK`). What a handler reads before the lock stays true because of who else
may run: of the requests the CO waits for there is one per volume (`OneWaiting`),
and those it has given up, being publish or unpublish, hold the key from their
first step to their last, so that the lock excludes them. That step of the
argument is what a late stage breaks. A mount made by a late publish is of the
volume's own disk, since the volume cannot be unstaged before the key is free.
`HostOK`, that no two slots have one disk and no two devices one slot, is what
makes "the disk of this device" the disk of the volume.

*Provisioning.* The invariant carries what each step has found out through the
steps that follow, across changes of the instances, to the moment the disk is
made; after that the disk keeps its zone and type, and a retry finds the request
unchanged. The value picked from preferred and requisite topologies is a requisite
one, if any has the key, because the CO prefers only what it has listed.

*Capacity.* A sum of two int64 values is less than 2^64, so one that has wrapped
is negative and the test that comes after the addition sees it. `Int32Offered`
says that a multiple of the unit that int32 has cut short is no multiple of the unit
any more, since the unit does not divide 2^32 and the largest int64 has less than
two ranges of int32 of GiB: hence no other disk is created.

*Only model-checked:* the liveness property `HandlersReturn`, since fairness is
beyond the prover; `NoWaitInVain`, proved, is the half of it that is about states. The
counterexamples of section 4 are TLC's.

## 6. Not modelled

- The identity service, start-up, endpoint parsing (`ParseEndpoint`), the listener
  and logging: constants and I/O.
- Read-only requests: ListVolumes, ControllerGetVolume, ValidateVolumeCapabilities,
  NodeGetVolumeStats, NodeGetInfo and the capabilities. They change no state.
- Status codes: what a request leaves behind is modelled, not what kind of error it
  reports.
- The number of device slots of an instance: the node advertises 14
  (`node.go:39`), of which the creation of a disk may take one on a helper. Whether
  the next attachment is refused is a matter of the cloud.
- The SDK's own retries of a request to the API. One whose first sending has
  taken effect could make a second disk in one call of CreateVolume, or extend by
  two units in one pass of ResizeDisk; the properties that bound disks and sizes
  are about requests that are sent once.
- Sizes of file systems, mount options and mount-point directories on the node.
- The sidecars and kubelet beyond the requests they send.

## 7. Plan

Done: the controller with cloud client and API, its locks and their refinement;
what it promises to a node, and the node built on that promise; topology and
parameters; the arithmetic. Open:

1. Device slots of instances, in `Nifcloud` and in the helper's choice, with the
   limit of volumes per node.
2. The CO's view of a volume's life, of which `VolumeNaming` has creation and
   deletion, and `VolumeAttachment` publication, as one abstract specification.
3. What remains of the names when requests arrive late: a bound that counts them.
