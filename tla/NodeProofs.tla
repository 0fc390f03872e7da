----------------------------- MODULE NodeProofs -----------------------------
(***************************************************************************)
(* With a patient CO every path of the node shows the disk of its own      *)
(* volume, for every value of the constants.  The argument: the lock and   *)
(* the CO leave a handler alone with its volume, or in the company of a    *)
(* late publish or unpublish, which touches a target only; and the disks   *)
(* of other volumes are behind other slots and other devices.              *)
(***************************************************************************)
EXTENDS NodeTypeProofs

USE NodeHostAssumption, NodeAssumption

\* Slots and devices of a disk stay.
HostKept(v) ==
    \A s \in Slots : slot[s] = v =>
        /\ slot'[s] = v
        /\ \A d \in Devs : dev[d] = s => dev'[d] = s

\* Neither the mounts of the volume nor what the CO believes of it change.
SameVolume(v) ==
    /\ mounts'[v] = mounts[v]
    /\ staged'[v] = staged[v]
    /\ published'[v] = published[v]
    /\ v \in held' <=> v \in held

SameCall(d) == pc'[d] = pc[d] /\ call'[d] = call[d]

-----------------------------------------------------------------------------
(* Frames. *)

LEMMA DiskKept ==
    ASSUME HostTypes, NEW v \in Volumes, HostKept(v), NEW d \in Devs, DiskOf(d) = v
    PROVE  DiskOf(d)' = v
  BY DEF HostTypes, HostKept, DiskOf, Registered

\* The mount on top is one of the stack, and so is the first.
LEMMA TopOfAll ==
    ASSUME HostTypes, NEW v \in Volumes, NEW p \in Places, IsMounted(v, p),
           AllOf(v, mounts[v][p])
    PROVE  /\ TopMount(v, p).dev \in Devs /\ TopMount(v, p).vol = v
           /\ mounts[v][p][1].dev \in Devs /\ mounts[v][p][1].vol = v
<1>1. mounts[v][p] \in Seq(AnyEntry) /\ Len(mounts[v][p]) \in Nat \ {0}
  BY MountsAt DEF HostTypes
<1>2. {1, Len(mounts[v][p])} \subseteq DOMAIN mounts[v][p]
  BY <1>1
<1> QED
  BY <1>2 DEF AllOf, TopMount

LEMMA VolumeKept ==
    ASSUME HostTypes, NEW v \in Volumes, VolumeOK(v), SameVolume(v),
           v \in held => HostKept(v)
    PROVE  VolumeOK(v)'
<1>1. Staging \in Places /\ Targets \subseteq Places
  BY DEF Places
<1>2. v \in held' => \E s \in Slots : slot'[s] = v
  BY DEF VolumeOK, SameVolume, HostKept
<1>3. \A p \in Places : IsMounted(v, p)' <=> IsMounted(v, p)
  BY DEF IsMounted, SameVolume
<1>4. IsMounted(v, Staging) => DiskOf(mounts[v][Staging][1].dev)' = v
  <2>1. HAVE IsMounted(v, Staging)
  <2>2. /\ mounts[v][Staging][1].dev \in Devs
        /\ DiskOf(mounts[v][Staging][1].dev) = v /\ v \in held
    BY <2>1, <1>1, TopOfAll DEF VolumeOK
  <2>3. \A d \in Devs : DiskOf(d) = v => DiskOf(d)' = v
    BY <2>2, DiskKept
  <2> QED
    BY <2>2, <2>3 DEF SameVolume, DiskOf, Registered
<1>5. ASSUME NEW t \in Targets, published[v][t] = "yes" PROVE Serves(v, t)'
  <2>1. /\ IsMounted(v, t) /\ TopMount(v, t).dev \in Devs /\ TopMount(v, t).vol = v
        /\ DiskOf(TopMount(v, t).dev) = v /\ v \in held
    BY <1>1, <1>5, TopOfAll DEF VolumeOK, Serves
  <2>2. DiskOf(TopMount(v, t).dev)' = v
    <3>1. \A d \in Devs : DiskOf(d) = v => DiskOf(d)' = v
      BY <2>1, DiskKept
    <3>2. TopMount(v, t)' = TopMount(v, t)
      BY DEF TopMount, SameVolume
    <3> QED
      BY <2>1, <3>1, <3>2 DEF DiskOf, Registered
  <2> QED
    BY <2>1, <2>2, <1>3, <1>1 DEF Serves, TopMount, SameVolume
<1> QED
  BY <1>1, <1>2, <1>3, <1>4, <1>5 DEF VolumeOK, SameVolume

-----------------------------------------------------------------------------
(* Who works on a volume together. *)

\* Late requests have locked their volume.
LEMMA LateHolds ==
    ASSUME TypeInv, PatientInv, NEW d \in Calls, call[d].late
    PROVE  /\ Holds(d) /\ Running(d)
           /\ pc[d] \in PublishPCs \cup {"unmountTarget"}
<1>1. call[d].op \in {"publish", "unpublish"}
  BY DEF PatientInv, CallOK
<1>2. pc[d] \in PCs /\ Running(d) /\ LocalsOK(d)
  BY <1>1 DEF TypeInv, LocalsOK, NoCall
<1>3. pc[d] \notin StagePCs \cup UnstagePCs \cup ExpandPCs
  BY <1>1, <1>2 DEF LocalsOK
<1> QED
  BY <1>2, <1>3 DEF PCs, Running, Holds, LockedPCs

\* A request the CO waits for is alone once it has the lock.
LEMMA Alone ==
    ASSUME TypeInv, LockInv, PatientInv, NEW c \in Calls, Holds(c), ~call[c].late,
           NEW d \in Calls \ {c}, Running(d)
    PROVE  call[d].vol # call[c].vol
<1>1. Running(c)
  BY DEF Running, Holds, LockedPCs, PublishPCs
<1>2. CASE call[d].late
  BY <1>2, LateHolds DEF LockInv, OneHandlerPerVolume
<1>3. CASE ~call[d].late
  BY <1>1, <1>3 DEF PatientInv, OneWaiting
<1>4. call[d].late \in BOOLEAN
  BY DEF TypeInv, CallRecord
<1> QED
  BY <1>2, <1>3, <1>4

\* Before it has it, it is in the company of late ones only.
LEMMA LateCompany ==
    ASSUME TypeInv, LockInv, PatientInv, NEW c \in Calls, Running(c), ~Holds(c),
           NEW d \in Calls \ {c}, Running(d), call[d].vol = call[c].vol
    PROVE  call[d].late
<1>1. ~call[c].late
  BY LateHolds
<1> QED
  BY <1>1 DEF PatientInv, OneWaiting, TypeInv, CallRecord

\* What a handler has in hand stays good while its volume does.
LEMMA CallKept ==
    ASSUME TypeInv, NEW d \in Calls, CallOK(d), SameCall(d), Running(d),
           HostKept(call[d].vol),
           call[d].vol \in held => call[d].vol \in held',
           mounts'[call[d].vol][Staging] = mounts[call[d].vol][Staging],
           staged'[call[d].vol] = staged[call[d].vol],
           published'[call[d].vol] = published[call[d].vol]
    PROVE  CallOK(d)'
<1> DEFINE v == call[d].vol
<1>1. v \in Volumes /\ HostTypes /\ call[d].dev \in Devs \cup {NoDev}
  BY TypeParts DEF TypeInv, LocalsOK, CallRecord
<1>2. /\ call[d].dev \in Devs /\ DiskOf(call[d].dev) = call[d].vol
      => (DiskOf(call[d].dev) = call[d].vol)'
  <2>1. \A e \in Devs : DiskOf(e) = v => DiskOf(e)' = v
    BY <1>1, DiskKept
  <2> QED
    BY <2>1 DEF SameCall, DiskOf, Registered
<1>3. \A s \in Slots : slot[s] = v => slot'[s] = v
  BY DEF HostKept
<1>4. pc[d] \in StagePCs => call[d].slot \in Slots
  BY DEF TypeInv, LocalsOK
<1>5. /\ call[d].slot \in Slots /\ slot[call[d].slot] = v
      /\ call[d].dev \in Devs /\ dev[call[d].dev] = call[d].slot
      => dev'[call[d].dev] = call[d].slot
  BY DEF HostKept
<1>6. CASE pc[d] \in StagePCs
  BY <1>3, <1>4, <1>5, <1>6 DEF CallOK, SameCall, IsMounted, StagePCs, UnstagePCs,
     PublishPCs, ExpandPCs, Running
<1>7. CASE pc[d] \in UnstagePCs \cup ExpandPCs
  BY <1>2, <1>7 DEF CallOK, SameCall, IsMounted, StagePCs, UnstagePCs,
     PublishPCs, ExpandPCs, Running
<1>8. CASE pc[d] \in PublishPCs \cup {"unmountTarget"}
  BY <1>3, <1>5, <1>8 DEF CallOK, SameCall, StagePCs, UnstagePCs,
     PublishPCs, ExpandPCs, Running
<1> QED
  BY <1>6, <1>7, <1>8 DEF Running, TypeInv, PCs

\* A late publish or unpublish asks for less.
LEMMA LateKept ==
    ASSUME TypeInv, PatientInv, NEW d \in Calls, SameCall(d), call[d].late,
           HostKept(call[d].vol),
           call[d].vol \in held => call[d].vol \in held',
           published'[call[d].vol] = published[call[d].vol]
    PROVE  CallOK(d)'
<1>1. pc[d] \in PublishPCs \cup {"unmountTarget"} /\ CallOK(d)
  BY LateHolds DEF PatientInv
<1>2. \A s \in Slots : slot[s] = call[d].vol => slot'[s] = call[d].vol
  BY DEF HostKept
<1>3. /\ call[d].slot \in Slots /\ slot[call[d].slot] = call[d].vol
      /\ call[d].dev \in Devs /\ dev[call[d].dev] = call[d].slot
      => dev'[call[d].dev] = call[d].slot
  BY DEF HostKept
<1> QED
  BY <1>1, <1>2, <1>3 DEF CallOK, SameCall, StagePCs, UnstagePCs, PublishPCs,
     ExpandPCs, Running

\* An empty slot has nothing in hand.
LEMMA IdleOK ==
    ASSUME NEW d \in Calls, pc'[d] = "idle", call'[d] = NoCall PROVE CallOK(d)'
  BY DEF CallOK, NoCall, Running, StagePCs, UnstagePCs, PublishPCs, ExpandPCs

LEMMA IdleKept ==
    ASSUME TypeInv, NEW d \in Calls, SameCall(d), ~Running(d) PROVE CallOK(d)'
  BY IdleOK DEF TypeInv, LocalsOK, SameCall, Running

-----------------------------------------------------------------------------
(* One step of a handler: the volumes and handlers it leaves alone stay in *)
(* order, so that the step has to account only for its own.                *)

OnlyStep(c) ==
    /\ held' = held
    /\ \A d \in Calls \ {c} : SameCall(d)
    /\ \A w \in Volumes \ {call[c].vol} : HostKept(w) /\ SameVolume(w)

LEMMA Company ==
    ASSUME TypeInv, LockInv, PatientInv, NEW c \in Calls, Running(c), OnlyStep(c),
           NEW v \in Volumes, call[c].vol = v,
           \/ Holds(c) /\ ~call[c].late
           \/ /\ HostKept(v) /\ published'[v] = published[v]
              /\ \/ ~Holds(c)
                 \/ mounts'[v][Staging] = mounts[v][Staging] /\ staged'[v] = staged[v],
           NEW d \in Calls \ {c}
    PROVE  CallOK(d)'
<1>1. SameCall(d) /\ CallOK(d)
  BY DEF OnlyStep, PatientInv
<1>2. CASE ~Running(d)
  BY <1>1, <1>2, IdleKept
<1>3. CASE Running(d) /\ call[d].vol # v
  <2>1. HostKept(call[d].vol) /\ SameVolume(call[d].vol)
    BY <1>3 DEF OnlyStep, TypeInv, LocalsOK
  <2> QED
    BY <1>1, <1>3, <2>1, CallKept DEF SameVolume
<1>4. CASE Running(d) /\ call[d].vol = v
  <2>1. ~(Holds(c) /\ ~call[c].late)
    BY <1>4, Alone
  <2>2. HostKept(v) /\ published'[v] = published[v]
    BY <2>1
  <2>3. CASE ~Holds(c)
    BY <1>1, <1>4, <2>2, <2>3, LateCompany, LateKept DEF OnlyStep
  <2>4. CASE mounts'[v][Staging] = mounts[v][Staging] /\ staged'[v] = staged[v]
    BY <1>1, <1>4, <2>2, <2>4, CallKept DEF OnlyStep
  <2> QED
    BY <2>1, <2>3, <2>4
<1> QED
  BY <1>2, <1>3, <1>4

LEMMA StepOneWaiting ==
    ASSUME OneWaiting, NEW c \in Calls, Running(c), \A d \in Calls \ {c} : SameCall(d),
           \/ pc'[c] = "idle"
           \/ call'[c].vol = call[c].vol /\ (call[c].late => call'[c].late)
    PROVE  OneWaiting'
<1>1. \A d \in Calls \ {c} : Running(d)' <=> Running(d)
  BY DEF SameCall, Running
<1> QED
  BY <1>1 DEF OneWaiting, SameCall, Running

LEMMA Step ==
    ASSUME TypeInv, LockInv, PatientInv, NEW c \in Calls, Running(c), OnlyStep(c),
           NEW v \in Volumes, call[c].vol = v,
           \/ Holds(c) /\ ~call[c].late
           \/ /\ HostKept(v) /\ published'[v] = published[v]
              /\ \/ ~Holds(c)
                 \/ mounts'[v][Staging] = mounts[v][Staging] /\ staged'[v] = staged[v],
           \/ pc'[c] = "idle"
           \/ call'[c].vol = v /\ call'[c].late = call[c].late,
           HostOK', CallOK(c)', VolumeOK(v)'
    PROVE  PatientInv'
<1>1. OneWaiting'
  BY StepOneWaiting DEF OnlyStep, PatientInv
<1>2. \A d \in Calls : CallOK(d)'
  BY Company
<1>3. \A w \in Volumes \ {v} : VolumeOK(w)'
  BY VolumeKept, TypeParts DEF OnlyStep, PatientInv
<1> QED
  BY <1>1, <1>2, <1>3 DEF PatientInv

\* How a handler ends.
LEMMA Ends ==
    ASSUME TypeInv, NEW c \in Calls, Return(c)
    PROVE  /\ pc'[c] = "idle" /\ CallOK(c)'
           /\ \A d \in Calls \ {c} : SameCall(d)
<1>1. pc'[c] = "idle" /\ call'[c] = NoCall
  BY DEF Return, TypeInv
<1>2. \A d \in Calls \ {c} : SameCall(d)
  BY DEF Return, TypeInv, SameCall
<1> QED
  BY <1>1, <1>2, IdleOK

\* Nothing happens to a volume while the host and the ghosts stay.
LEMMA NothingKept ==
    ASSUME NEW v \in Volumes, UNCHANGED <<host, ghosts>>
    PROVE  HostKept(v) /\ SameVolume(v)
  BY DEF host, ghosts, HostKept, SameVolume

\* An error, or an answer the CO does not hear, changes nothing else.
LEMMA RefuseInv ==
    ASSUME TypeInv, LockInv, PatientInv, NEW c \in Calls, Running(c),
           Return(c), UNCHANGED <<host, ghosts>>
    PROVE  PatientInv'
<1>1. call[c].vol \in Volumes /\ HostTypes
  BY TypeParts DEF TypeInv, LocalsOK
<1>2. PICK v \in Volumes : call[c].vol = v
  BY <1>1
<1>3. \A w \in Volumes : HostKept(w) /\ SameVolume(w)
  BY NothingKept
<1>4. OnlyStep(c) /\ pc'[c] = "idle" /\ CallOK(c)'
  BY <1>3, Ends DEF OnlyStep, ghosts
<1>5. VolumeOK(v)'
  BY <1>1, <1>3, VolumeKept DEF PatientInv
<1>6. HostOK'
  BY DEF PatientInv, HostOK, host
<1> QED
  BY <1>2, <1>3, <1>4, <1>5, <1>6, Step DEF SameVolume

\* A step that goes on without touching anything has to say what it relies on.
LEMMA GotoInv ==
    ASSUME TypeInv, LockInv, PatientInv, NEW c \in Calls, Running(c),
           \A d \in Calls \ {c} : SameCall(d),
           call'[c].vol = call[c].vol, call'[c].late = call[c].late,
           UNCHANGED <<host, ghosts>>, CallOK(c)'
    PROVE  PatientInv'
<1>1. call[c].vol \in Volumes /\ HostTypes
  BY TypeParts DEF TypeInv, LocalsOK
<1>2. PICK v \in Volumes : call[c].vol = v
  BY <1>1
<1>3. \A w \in Volumes : HostKept(w) /\ SameVolume(w)
  BY NothingKept
<1>4. OnlyStep(c)
  BY <1>3 DEF OnlyStep, ghosts
<1>5. VolumeOK(v)'
  BY <1>1, <1>3, VolumeKept DEF PatientInv
<1>6. HostOK'
  BY DEF PatientInv, HostOK, host
<1> QED
  BY <1>2, <1>3, <1>4, <1>5, <1>6, Step DEF SameVolume

-----------------------------------------------------------------------------
(* Mounts, answers, new requests. *)

LEMMA Pushed ==
    ASSUME HostTypes, NEW v \in Volumes, NEW p \in Places,
           NEW e, e.dev \in Devs, e.vol = v, e \in AnyEntry,
           Push(v, p, e), AllOf(v, mounts[v][p])
    PROVE  /\ IsMounted(v, p)' /\ TopMount(v, p)' = e /\ AllOf(v, mounts'[v][p])
           /\ \A w \in Volumes \ {v} : mounts'[w] = mounts[w]
           /\ \A q \in Places \ {p} : mounts'[v][q] = mounts[v][q]
           /\ ~IsMounted(v, p) => Len(mounts'[v][p]) = 1 /\ mounts'[v][p][1] = e
<1> DEFINE s == mounts[v][p]
<1>1. s \in Seq(AnyEntry) /\ mounts'[v][p] = Append(s, e)
  BY DEF HostTypes, Push
<1>2. /\ Len(Append(s, e)) = Len(s) + 1 /\ Append(s, e)[Len(s) + 1] = e
      /\ \A i \in 1..Len(s) : Append(s, e)[i] = s[i]
      /\ DOMAIN Append(s, e) = 1..(Len(s) + 1) /\ DOMAIN s = 1..Len(s) /\ Len(s) \in Nat
      /\ Append(s, e) # <<>>
  BY <1>1
<1>3. AllOf(v, Append(s, e))
  BY <1>2 DEF AllOf
<1>4. s = <<>> => Len(s) = 0
  OBVIOUS
<1>5. /\ \A w \in Volumes \ {v} : mounts'[w] = mounts[w]
      /\ \A q \in Places \ {p} : mounts'[v][q] = mounts[v][q]
  BY DEF HostTypes, Push
<1> QED
  BY <1>1, <1>2, <1>3, <1>4, <1>5 DEF IsMounted, TopMount

LEMMA Popped ==
    ASSUME HostTypes, NEW v \in Volumes, NEW p \in Places, PopMount(v, p),
           AllOf(v, mounts[v][p])
    PROVE  /\ AllOf(v, mounts'[v][p])
           /\ \A w \in Volumes \ {v} : mounts'[w] = mounts[w]
           /\ \A q \in Places \ {p} : mounts'[v][q] = mounts[v][q]
           /\ Len(mounts[v][p]) = 1 => ~IsMounted(v, p)'
<1> DEFINE s == mounts[v][p]
<1> DEFINE r == SubSeq(s, 1, Len(s) - 1)
<1>1. s \in Seq(AnyEntry) /\ Len(s) \in Nat \ {0} /\ mounts'[v][p] = r
  BY MountsAt DEF HostTypes, PopMount
<1>2. /\ Len(r) = Len(s) - 1 /\ DOMAIN r = 1..(Len(s) - 1) /\ DOMAIN s = 1..Len(s)
      /\ \A i \in 1..(Len(s) - 1) : r[i] = s[i]
  BY <1>1
<1>3. AllOf(v, r)
  BY <1>1, <1>2 DEF AllOf
<1>4. Len(s) = 1 => r = <<>>
  BY <1>1
<1>5. /\ \A w \in Volumes \ {v} : mounts'[w] = mounts[w]
      /\ \A q \in Places \ {p} : mounts'[v][q] = mounts[v][q]
  BY DEF HostTypes, PopMount
<1> QED
  BY <1>1, <1>3, <1>4, <1>5 DEF IsMounted

\* What the CO learns of one volume it learns of that volume.
Learns(v) ==
    \/ \E b \in Belief : Believe(v, b)
    \/ \E t \in Targets, b \in Belief : BelieveAt(v, t, b)
    \/ UNCHANGED ghosts

LEMMA LearnsOthers ==
    ASSUME TypeInv, NEW v \in Volumes, Learns(v), NEW w \in Volumes \ {v},
           mounts'[w] = mounts[w]
    PROVE  SameVolume(w)
  BY DEF TypeInv, Learns, Believe, BelieveAt, ghosts, SameVolume

LEMMA LearnsHeld == ASSUME NEW v, Learns(v) PROVE held' = held
  BY DEF Learns, Believe, BelieveAt, ghosts

LEMMA SlotsKept == ASSUME NEW v, UNCHANGED <<slot, dev>> PROVE HostKept(v)
  BY DEF HostKept

LEMMA SlotsOK == HostOK /\ UNCHANGED <<slot, dev>> => HostOK'
  BY DEF HostOK

\* A handler that answers, whatever it did to its own paths.
LEMMA AnswerInv ==
    ASSUME TypeInv, LockInv, PatientInv, NEW c \in Calls, Running(c),
           NEW v \in Volumes, call[c].vol = v,
           Return(c), UNCHANGED <<slot, dev>>, Learns(v),
           \A w \in Volumes \ {v} : mounts'[w] = mounts[w],
           \/ Holds(c) /\ ~call[c].late
           \/ /\ published'[v] = published[v]
              /\ \/ ~Holds(c)
                 \/ mounts'[v][Staging] = mounts[v][Staging] /\ staged'[v] = staged[v],
           VolumeOK(v)'
    PROVE  PatientInv'
<1>1. OnlyStep(c) /\ pc'[c] = "idle" /\ CallOK(c)'
  BY Ends, LearnsOthers, LearnsHeld, SlotsKept DEF OnlyStep
<1>2. HostOK' /\ HostKept(v)
  BY SlotsOK, SlotsKept DEF PatientInv
<1> QED
  BY <1>1, <1>2, Step

\* A new request, with late ones of its volume at most.
LEMMA BeginInv ==
    ASSUME TypeInv, LockInv, PatientInv, NEW c \in Calls, NEW v \in Volumes,
           NEW req, NEW p \in PCs \ {"idle"}, Begin(c, req, p), req.vol = v, Learns(v),
           published'[v] = published[v] \/ Insert(Node, v),
           CallOK(c)', VolumeOK(v)'
    PROVE  PatientInv'
<1>1. /\ UNCHANGED host /\ pc[c] = "idle" /\ ~Waits(v)
      /\ pc'[c] = p /\ call'[c] = req /\ \A d \in Calls \ {c} : SameCall(d)
  BY DEF Begin, TypeInv, SameCall
<1>2. UNCHANGED <<slot, dev, mounts>> /\ HostOK'
  BY <1>1, SlotsOK DEF host, PatientInv
<1>3. held' = held /\ \A w \in Volumes : HostKept(w)
  BY <1>2, LearnsHeld, SlotsKept
<1>4. \A w \in Volumes \ {v} : SameVolume(w) /\ VolumeOK(w)'
  BY <1>2, <1>3, LearnsOthers, VolumeKept, TypeParts DEF PatientInv
<1>5. ASSUME NEW d \in Calls \ {c}, Running(d), call[d].vol = v
      PROVE  call[d].late /\ published'[v] = published[v]
  <2>1. call[d].late
    BY <1>1, <1>5 DEF Waits, TypeInv, CallRecord
  <2>2. v \in inFlight[Node]
    BY <1>5, <2>1, LateHolds DEF LockInv, NoLockLeft
  <2> QED
    BY <2>1, <2>2 DEF Insert, Busy
<1>6. \A d \in Calls : CallOK(d)'
  <2> SUFFICES ASSUME NEW d \in Calls \ {c} PROVE CallOK(d)'
    OBVIOUS
  <2>0. SameCall(d) /\ CallOK(d)
    BY <1>1 DEF PatientInv
  <2>1. CASE ~Running(d)
    BY <2>0, <2>1, IdleKept
  <2>2. CASE Running(d) /\ call[d].vol # v
    <3>1. HostKept(call[d].vol) /\ SameVolume(call[d].vol)
      BY <1>3, <1>4, <2>2 DEF TypeInv, LocalsOK
    <3> QED
      BY <2>0, <2>2, <3>1, CallKept DEF SameVolume
  <2>3. CASE Running(d) /\ call[d].vol = v
    BY <1>3, <1>5, <2>0, <2>3, LateKept
  <2> QED
    BY <2>1, <2>2, <2>3
<1>7. OneWaiting'
  <2>1. \A d \in Calls \ {c} : /\ Running(d)' <=> Running(d)
                               /\ Running(d) /\ call[d].vol = v => call[d].late
    BY <1>1, <1>5 DEF SameCall, Running
  <2> QED
    BY <1>1, <2>1 DEF OneWaiting, SameCall, PatientInv, Running
<1> QED
  BY <1>2, <1>4, <1>6, <1>7 DEF PatientInv

-----------------------------------------------------------------------------
(* NodeStageVolume. *)

\* The volume of a handler, and what it may rely on.
LEMMA Mine ==
    ASSUME TypeInv, PatientInv, NEW c \in Calls, Running(c)
    PROVE  /\ HostTypes /\ call[c].vol \in Volumes /\ CallOK(c)
           /\ VolumeOK(call[c].vol) /\ call[c].vol \in held
           /\ call[c].dev \in Devs \cup {NoDev}
           /\ Staging \in Places /\ Targets \subseteq Places
           /\ pc[c] \notin PublishPCs \cup {"unmountTarget"} => ~call[c].late
<1>1. call[c].vol \in Volumes /\ CallOK(c) /\ call[c].dev \in Devs \cup {NoDev}
  BY DEF TypeInv, LocalsOK, PatientInv, CallRecord
<1>2. call[c].late => pc[c] \in PublishPCs \cup {"unmountTarget"}
  BY LateHolds
<1> QED
  BY <1>1, <1>2, TypeParts DEF PatientInv, CallOK, Places

\* A volume stays in order when the CO hears that it is staged and it is.
LEMMA StagedOK ==
    ASSUME HostTypes, NEW v \in Volumes, VolumeOK(v), v \in held,
           staged \in [Volumes -> Belief], NEW b \in Belief \ {"no"},
           UNCHANGED host, Believe(v, b),
           b = "yes" => v \in Blocks \/ IsMounted(v, Staging),
           b = "maybe" => staged[v] # "yes"
    PROVE  VolumeOK(v)'
<1>1. staged'[v] = b /\ UNCHANGED <<slot, dev, mounts, held, published>>
  BY DEF Believe, host
<1>2. \A t \in Targets : Serves(v, t)' <=> Serves(v, t)
  BY <1>1 DEF Serves, IsMounted, TopMount, DiskOf, Registered
<1>3. b = "maybe" => \A t \in Targets : published[v][t] = "no"
  BY DEF VolumeOK
<1>4. b \in {"yes", "maybe"}
  BY DEF Belief
<1> QED
  BY <1>1, <1>2, <1>3, <1>4 DEF VolumeOK, IsMounted, DiskOf, Registered

LEMMA StageScanInv ==
    ASSUME TypeInv, LockInv, PatientInv, NEW c \in Calls, StageScan(c)
    PROVE  PatientInv' \/ \E d \in Devs, s \in Slots :
              Register(d, s) /\ UNCHANGED <<slot, mounts, inFlight, handlers, ghosts>>
<1> USE DEF StagePCs
<1>1. Running(c) /\ ~Holds(c) /\ pc[c] = "scan"
  BY DEF StageScan, Running, Holds, LockedPCs, PublishPCs
<1>2. PICK v \in Volumes : call[c].vol = v
  BY <1>1, Mine
<1>3. HostTypes /\ CallOK(c) /\ VolumeOK(v) /\ v \in held /\ staged[v] # "no"
  BY <1>1, <1>2, Mine DEF CallOK
<1>4. CASE UNCHANGED host /\ AnswerOK(c, Believe(v, "yes")) /\ v \in Blocks
  <2>1. Return(c) /\ (UNCHANGED ghosts \/ Believe(v, "yes"))
    BY <1>4 DEF AnswerOK
  <2>2. CASE UNCHANGED ghosts
    BY <1>1, <1>4, <2>1, <2>2, RefuseInv
  <2>3. CASE Believe(v, "yes")
    <3>1. VolumeOK(v)'
      BY <1>3, <1>4, <2>3, StagedOK DEF TypeInv, Belief
    <3>2. Learns(v) /\ published' = published /\ mounts' = mounts /\ UNCHANGED <<slot, dev>>
      BY <1>4, <2>3 DEF Learns, Believe, host, Belief
    <3> QED
      BY <1>1, <1>2, <2>1, <3>1, <3>2, AnswerInv
  <2> QED
    BY <2>1, <2>2, <2>3
<1>5. CASE UNCHANGED host /\ Goto(c, "stageLock", NoDev) /\ UNCHANGED ghosts /\ v \notin Blocks
  <2>1. /\ pc'[c] = "stageLock" /\ call'[c] = [call[c] EXCEPT !.dev = NoDev]
        /\ \A d \in Calls \ {c} : SameCall(d)
    BY <1>5 DEF Goto, TypeInv, SameCall
  <2>2. /\ call'[c].vol = v /\ call'[c].late = call[c].late /\ call'[c].slot = call[c].slot
        /\ call'[c].op = call[c].op
    BY <1>2, <2>1 DEF TypeInv, CallRecord
  <2>3. CallOK(c)'
    BY <1>1, <1>2, <1>3, <1>5, <2>1, <2>2 DEF CallOK, StagePCs, UnstagePCs, PublishPCs,
       ExpandPCs, Running, host, ghosts
  <2> QED
    BY <1>1, <1>2, <1>5, <2>1, <2>2, <2>3, GotoInv
<1> QED
  BY <1>2, <1>4, <1>5 DEF StageScan

LEMMA LockStepInv ==
    ASSUME TypeInv, LockInv, PatientInv, NEW c \in Calls,
           StageLock(c) \/ UnstageLock(c)
    PROVE  PatientInv'
<1> USE DEF StagePCs, UnstagePCs, PublishPCs, ExpandPCs
<1>1. Running(c) /\ UNCHANGED host
  BY DEF StageLock, UnstageLock, Running
<1>2. CASE Refuse(c)
  BY <1>1, <1>2, RefuseInv DEF Refuse
<1>3. CASE ~Refuse(c)
  <2>1. /\ UNCHANGED <<call, ghosts>> /\ \A d \in Calls \ {c} : pc'[d] = pc[d]
        /\ \/ pc[c] = "stageLock" /\ pc'[c] = "find"
           \/ pc[c] = "unstageLock" /\ pc'[c] = "unmount"
    BY <1>3 DEF StageLock, UnstageLock, Lock, TypeInv
  <2>2. CallOK(c)
    BY DEF PatientInv
  <2>3. CallOK(c)'
    BY <1>1, <2>1, <2>2 DEF CallOK, Running, host, ghosts, IsMounted
  <2> QED
    BY <1>1, <2>1, <2>3, GotoInv DEF SameCall
<1> QED
  BY <1>2, <1>3

\* findDevicePath: the device is the one of the slot, which has the disk.
LEMMA FindInv ==
    ASSUME TypeInv, LockInv, PatientInv, NEW c \in Calls, NEW p, FindDevice(c, p),
           UNCHANGED host,
           \/ pc[c] = "find" /\ p = "look"
           \/ pc[c] = "findBlock" /\ p = "bindBlock"
    PROVE  PatientInv'
<1> USE DEF StagePCs, UnstagePCs, PublishPCs, ExpandPCs
<1>1. Running(c)
  BY DEF Running
<1>2. CASE Refuse(c)
  BY <1>1, <1>2, RefuseInv DEF Refuse
<1>3. CASE \E d \in Devs : dev[d] = call[c].slot /\ Goto(c, p, d) /\ UNCHANGED ghosts
  <2>1. PICK d \in Devs : dev[d] = call[c].slot /\ Goto(c, p, d) /\ UNCHANGED ghosts
    BY <1>3
  <2>2. /\ pc'[c] = p /\ call'[c] = [call[c] EXCEPT !.dev = d]
        /\ \A e \in Calls \ {c} : SameCall(e)
    BY <2>1 DEF Goto, TypeInv, SameCall
  <2>3. /\ call'[c].vol = call[c].vol /\ call'[c].late = call[c].late
        /\ call'[c].slot = call[c].slot /\ call'[c].op = call[c].op
        /\ call'[c].place = call[c].place /\ call'[c].dev = d
    BY <2>2 DEF TypeInv, CallRecord
  <2>4. CallOK(c)
    BY DEF PatientInv
  <2>5. CallOK(c)'
    BY <2>1, <2>2, <2>3, <2>4 DEF CallOK, Running, host, ghosts
  <2> QED
    BY <1>1, <2>1, <2>2, <2>3, <2>5, GotoInv
<1> QED
  BY <1>2, <1>3 DEF FindDevice

\* The device found is the one the staging path is mounted from, if it is.
LEMMA StageLookInv ==
    ASSUME TypeInv, LockInv, PatientInv, NEW c \in Calls, StageLook(c)
    PROVE  PatientInv'
<1> USE DEF StagePCs, UnstagePCs, PublishPCs, ExpandPCs
<1>1. Running(c) /\ Holds(c) /\ pc[c] = "look" /\ UNCHANGED host
  BY DEF StageLook, Running, Holds, LockedPCs
<1>2. PICK v \in Volumes : call[c].vol = v
  BY <1>1, Mine
<1>3. /\ HostTypes /\ CallOK(c) /\ VolumeOK(v) /\ v \in held /\ staged[v] # "no"
      /\ ~call[c].late /\ Staging \in Places
      /\ call[c].dev \in Devs /\ dev[call[c].dev] = call[c].slot /\ slot[call[c].slot] = v
      /\ call[c].slot \in Slots /\ v \notin Blocks
  BY <1>1, <1>2, Mine DEF CallOK, TypeInv, LocalsOK
<1>4. CASE AnswerOK(c, Believe(v, "yes")) /\ DeviceName(v, Staging) = call[c].dev
  <2>1. Return(c) /\ (UNCHANGED ghosts \/ Believe(v, "yes"))
    BY <1>4 DEF AnswerOK
  <2>2. CASE UNCHANGED ghosts
    BY <1>1, <2>1, <2>2, RefuseInv
  <2>3. CASE Believe(v, "yes")
    <3>1. IsMounted(v, Staging)
      BY <1>3, <1>4 DEF DeviceName
    <3>2. VolumeOK(v)'
      BY <1>1, <1>3, <2>3, <3>1, StagedOK DEF TypeInv, Belief
    <3>3. Learns(v) /\ mounts' = mounts /\ UNCHANGED <<slot, dev>>
      BY <1>1, <2>3 DEF Learns, host, Belief
    <3> QED
      BY <1>1, <1>2, <1>3, <2>1, <3>2, <3>3, AnswerInv
  <2> QED
    BY <2>1, <2>2, <2>3
<1>5. CASE /\ Goto(c, "mount", call[c].dev) /\ UNCHANGED ghosts
           /\ DeviceName(v, Staging) # call[c].dev
  <2>1. ~IsMounted(v, Staging)
    <3> SUFFICES ASSUME IsMounted(v, Staging) PROVE FALSE
      OBVIOUS
    <3>1. /\ mounts[v][Staging][1].dev \in Devs
          /\ DiskOf(mounts[v][Staging][1].dev) = v
      BY <1>3, TopOfAll DEF VolumeOK
    <3>2. slot[dev[mounts[v][Staging][1].dev]] = v /\ dev[mounts[v][Staging][1].dev] \in Slots
      BY <1>3, <3>1 DEF DiskOf, Registered, HostTypes
    <3>3. dev[mounts[v][Staging][1].dev] = call[c].slot
      BY <1>3, <3>2 DEF PatientInv, HostOK
    <3>4. mounts[v][Staging][1].dev = call[c].dev
      BY <1>3, <3>1, <3>3 DEF PatientInv, HostOK
    <3> QED
      BY <1>5, <3>4 DEF DeviceName
  <2>2. /\ pc'[c] = "mount" /\ call'[c] = call[c] /\ \A d \in Calls \ {c} : SameCall(d)
    BY <1>5 DEF Goto, TypeInv, SameCall, CallRecord
  <2>3. CallOK(c)'
    BY <1>1, <1>2, <1>3, <1>5, <2>1, <2>2 DEF CallOK, Running, host, ghosts, IsMounted
  <2> QED
    BY <1>1, <1>5, <2>2, <2>3, GotoInv
<1> QED
  BY <1>2, <1>4, <1>5 DEF StageLook

LEMMA StageMountInv ==
    ASSUME TypeInv, LockInv, PatientInv, NEW c \in Calls, StageMount(c)
    PROVE  PatientInv'
<1> USE DEF StagePCs, UnstagePCs, PublishPCs, ExpandPCs
<1>1. Running(c) /\ Holds(c) /\ pc[c] = "mount" /\ UNCHANGED <<slot, dev>>
  BY DEF StageMount, Running, Holds, LockedPCs
<1>2. PICK v \in Volumes : call[c].vol = v
  BY <1>1, Mine
<1>3. /\ HostTypes /\ CallOK(c) /\ VolumeOK(v) /\ v \in held /\ staged[v] # "no"
      /\ ~call[c].late /\ Staging \in Places /\ Targets \subseteq Places
      /\ call[c].dev \in Devs /\ dev[call[c].dev] = call[c].slot /\ slot[call[c].slot] = v
      /\ call[c].slot \in Slots /\ v \notin Blocks /\ ~IsMounted(v, Staging)
  BY <1>1, <1>2, Mine DEF CallOK, TypeInv, LocalsOK
<1>4. CASE Refuse(c) /\ UNCHANGED mounts
  BY <1>1, <1>4, RefuseInv DEF Refuse, host
<1>5. CASE MountDevice(v, Staging, call[c].dev) /\ AnswerOK(c, Believe(v, "yes"))
  <2> DEFINE e == [dev |-> call[c].dev, vol |-> v]
  <2>1. DiskOf(call[c].dev) = v
    BY <1>3 DEF DiskOf, Registered
  <2>2. e \in AnyEntry /\ Push(v, Staging, e)
    BY <1>3, <1>5, <2>1 DEF MountDevice, AnyEntry
  <2>3. /\ IsMounted(v, Staging)' /\ AllOf(v, mounts'[v][Staging])
        /\ \A w \in Volumes \ {v} : mounts'[w] = mounts[w]
        /\ \A q \in Places \ {Staging} : mounts'[v][q] = mounts[v][q]
        /\ Len(mounts'[v][Staging]) = 1 /\ mounts'[v][Staging][1] = e
    <3> HIDE DEF e
    <3>1. AllOf(v, mounts[v][Staging]) /\ e.dev \in Devs /\ e.vol = v
      BY <1>3 DEF VolumeOK, e
    <3> QED
      BY <1>3, <2>2, <3>1, Pushed
  <2>4. /\ UNCHANGED <<held, published>> /\ Learns(v) /\ Return(c)
        /\ staged'[v] \in {staged[v], "yes"}
    BY <1>5 DEF AnswerOK, Believe, ghosts, Learns, Belief, TypeInv
  <2>5. \A t \in Targets : Serves(v, t)' <=> Serves(v, t)
    BY <1>1, <1>3, <2>3 DEF Serves, IsMounted, TopMount, DiskOf, Registered, Places
  <2>6. DiskOf(mounts[v][Staging][1].dev)' = v
    BY <1>1, <1>3, <2>3 DEF DiskOf, Registered
  <2>7. VolumeOK(v)'
    <3>1. v \in held' => \E s \in Slots : slot'[s] = v
      BY <1>1, <1>3
    <3>2. \A p \in Places : AllOf(v, mounts'[v][p])
      BY <1>3, <2>3 DEF VolumeOK
    <3> QED
      BY <1>3, <2>3, <2>4, <2>5, <2>6, <3>1, <3>2 DEF VolumeOK
  <2> QED
    BY <1>1, <1>2, <1>3, <2>3, <2>4, <2>7, AnswerInv
<1> QED
  BY <1>2, <1>4, <1>5 DEF StageMount

-----------------------------------------------------------------------------
(* NodeUnstageVolume. *)

LEMMA UnstageLookInv ==
    ASSUME TypeInv, LockInv, PatientInv, NEW c \in Calls, UnstageLook(c)
    PROVE  PatientInv'
<1> USE DEF StagePCs, UnstagePCs, PublishPCs, ExpandPCs
<1>1. Running(c) /\ ~Holds(c) /\ pc[c] = "unstageLook" /\ UNCHANGED host
  BY DEF UnstageLook, Running, Holds, LockedPCs
<1>2. PICK v \in Volumes : call[c].vol = v
  BY <1>1, Mine
<1>3. /\ HostTypes /\ CallOK(c) /\ VolumeOK(v) /\ v \in held /\ staged[v] = "maybe"
      /\ \A t \in Targets : published[v][t] = "no"
  BY <1>1, <1>2, Mine DEF CallOK
<1>4. CASE AnswerOK(c, Believe(v, "no")) /\ ~IsMounted(v, Staging)
  <2>1. Return(c) /\ Learns(v) /\ mounts' = mounts /\ UNCHANGED <<slot, dev>>
    BY <1>1, <1>4 DEF AnswerOK, Learns, host, Belief
  <2>2. UNCHANGED <<published, held>>
    BY <1>4 DEF AnswerOK, Believe, ghosts
  <2>3. VolumeOK(v)'
    <3>1. staged'[v] # "yes"
      BY <1>3, <1>4 DEF AnswerOK, Believe, ghosts, TypeInv
    <3> QED
      BY <1>3, <1>4, <2>1, <2>2, <3>1 DEF VolumeOK, IsMounted
  <2> QED
    BY <1>1, <1>2, <2>1, <2>2, <2>3, AnswerInv
<1>5. CASE /\ Goto(c, "unstageLock", DeviceName(v, Staging)) /\ UNCHANGED ghosts
           /\ IsMounted(v, Staging)
  <2>1. /\ pc'[c] = "unstageLock" /\ \A d \in Calls \ {c} : SameCall(d)
        /\ call'[c] = [call[c] EXCEPT !.dev = DeviceName(v, Staging)]
    BY <1>5 DEF Goto, TypeInv, SameCall
  <2>2. /\ call'[c].vol = v /\ call'[c].late = call[c].late /\ call'[c].op = call[c].op
        /\ call'[c].dev = mounts[v][Staging][1].dev
    BY <1>2, <1>5, <2>1 DEF TypeInv, CallRecord, DeviceName
  <2>3. CallOK(c)'
    BY <1>1, <1>2, <1>3, <1>5, <2>1, <2>2 DEF CallOK, Running, host, ghosts, IsMounted
  <2> QED
    BY <1>1, <1>2, <1>5, <2>1, <2>2, <2>3, GotoInv
<1> QED
  BY <1>2, <1>4, <1>5 DEF UnstageLook

\* The mount of the staging path goes, whoever else refers to its device.
LEMMA UnstageUnmountInv ==
    ASSUME TypeInv, LockInv, PatientInv, NEW c \in Calls, UnstageUnmount(c)
    PROVE  PatientInv'
<1> USE DEF StagePCs, UnstagePCs, PublishPCs, ExpandPCs
<1>1. Running(c) /\ Holds(c) /\ pc[c] = "unmount" /\ UNCHANGED <<slot, dev>>
  BY DEF UnstageUnmount, Running, Holds, LockedPCs
<1>2. PICK v \in Volumes : call[c].vol = v
  BY <1>1, Mine
<1>3. /\ HostTypes /\ CallOK(c) /\ VolumeOK(v) /\ v \in held /\ staged[v] = "maybe"
      /\ ~call[c].late /\ Staging \in Places /\ Targets \subseteq Places
      /\ call[c].place = Staging /\ IsMounted(v, Staging)
      /\ \A t \in Targets : published[v][t] = "no"
      /\ mounts[v][Staging][1].dev = call[c].dev
  BY <1>1, <1>2, Mine DEF CallOK, TypeInv, LocalsOK
<1>4. call[c].dev \in Devs /\ DiskOf(call[c].dev) = v /\ Len(mounts[v][Staging]) = 1
      /\ \A p \in Places : AllOf(v, mounts[v][p])
  BY <1>3, TopOfAll DEF VolumeOK
<1>5. PopMount(v, Staging) /\ Goto(c, "remove", call[c].dev) /\ UNCHANGED ghosts
  BY <1>2, <1>3 DEF UnstageUnmount, Unmount
<1>6. /\ AllOf(v, mounts'[v][Staging]) /\ ~IsMounted(v, Staging)'
      /\ \A w \in Volumes \ {v} : mounts'[w] = mounts[w]
      /\ \A q \in Places \ {Staging} : mounts'[v][q] = mounts[v][q]
  BY <1>3, <1>4, <1>5, Popped
<1>7. /\ pc'[c] = "remove" /\ call'[c] = call[c] /\ \A d \in Calls \ {c} : SameCall(d)
  BY <1>5 DEF Goto, TypeInv, SameCall, CallRecord
<1>8. CallOK(c)'
  <2>1. DiskOf(call[c].dev)' = v
    BY <1>1, <1>4, <1>7 DEF DiskOf, Registered
  <2> QED
    BY <1>2, <1>3, <1>4, <1>5, <1>6, <1>7, <2>1 DEF CallOK, Running, ghosts
<1>9. VolumeOK(v)'
  <2>1. \A p \in Places : AllOf(v, mounts'[v][p])
    BY <1>4, <1>6
  <2> QED
    BY <1>1, <1>3, <1>5, <1>6, <2>1 DEF VolumeOK, ghosts
<1>10. OnlyStep(c)
  BY <1>2, <1>1, <1>5, <1>6, <1>7, SlotsKept DEF OnlyStep, SameVolume, ghosts
<1>11. HostOK'
  BY <1>1, SlotsOK DEF PatientInv
<1> QED
  BY <1>1, <1>2, <1>3, <1>7, <1>8, <1>9, <1>10, <1>11, Step

\* The device removed leads to the disk of the volume, and nothing is left of
\* it; other disks are behind other devices.
LEMMA UnstageRemoveInv ==
    ASSUME TypeInv, LockInv, PatientInv, NEW c \in Calls, UnstageRemove(c)
    PROVE  PatientInv'
<1> USE DEF StagePCs, UnstagePCs, PublishPCs, ExpandPCs
<1>1. Running(c) /\ Holds(c) /\ pc[c] = "remove" /\ UNCHANGED <<slot, mounts>>
  BY DEF UnstageRemove, Running, Holds, LockedPCs
<1>2. PICK v \in Volumes : call[c].vol = v
  BY <1>1, Mine
<1>3. /\ HostTypes /\ CallOK(c) /\ VolumeOK(v) /\ v \in held /\ staged[v] = "maybe"
      /\ ~call[c].late /\ ~IsMounted(v, Staging)
      /\ call[c].dev \in Devs /\ DiskOf(call[c].dev) = v
      /\ \A t \in Targets : published[v][t] = "no"
  BY <1>1, <1>2, Mine DEF CallOK
<1>4. Return(c) /\ Learns(v) /\ UNCHANGED <<published, held>> /\ staged'[v] # "yes"
  BY <1>2, <1>3 DEF UnstageRemove, AnswerOK, Learns, Believe, ghosts, Belief, TypeInv
<1>5. /\ \A d \in Devs \ {call[c].dev} : dev'[d] = dev[d]
      /\ dev'[call[c].dev] = NoSlot
  BY <1>3 DEF UnstageRemove, Unregister, HostTypes
<1>6. \A w \in Volumes \ {v} : HostKept(w)
  BY <1>1, <1>3, <1>5 DEF HostKept, DiskOf, Registered
<1>7. HostOK'
  BY <1>1, <1>5 DEF PatientInv, HostOK
<1>8. VolumeOK(v)'
  BY <1>1, <1>3, <1>4 DEF VolumeOK, IsMounted
<1>9. OnlyStep(c) /\ pc'[c] = "idle" /\ CallOK(c)'
  BY <1>1, <1>2, <1>4, <1>6, Ends, LearnsOthers DEF OnlyStep
<1> QED
  BY <1>1, <1>2, <1>3, <1>7, <1>8, <1>9, Step

-----------------------------------------------------------------------------
(* NodePublishVolume, NodeUnpublishVolume and NodeExpandVolume. *)

\* The CO learns of one target, or it does not learn.
LEMMA HeardAt ==
    ASSUME TypeInv, NEW c \in Calls, NEW v \in Volumes, NEW t \in Targets, NEW b \in Belief,
           AnswerOK(c, BelieveAt(v, t, b))
    PROVE  /\ Return(c) /\ Learns(v) /\ UNCHANGED <<staged, held>>
           /\ \A u \in Targets \ {t} : published'[v][u] = published[v][u]
           /\ published'[v][t] \in {published[v][t], b}
           /\ call[c].late => published' = published
<1>1. Return(c) /\ (UNCHANGED ghosts \/ (BelieveAt(v, t, b) /\ ~call[c].late))
  BY DEF AnswerOK
<1>2. CASE UNCHANGED ghosts
  BY <1>1, <1>2 DEF ghosts, Learns
<1>3. CASE BelieveAt(v, t, b) /\ ~call[c].late
  <2>1. published'[v] = [published[v] EXCEPT ![t] = b] /\ UNCHANGED <<staged, held>>
    BY <1>3 DEF BelieveAt, TypeInv
  <2>2. published[v] \in [Targets -> Belief]
    BY DEF TypeInv
  <2>3. Learns(v)
    BY <1>3 DEF Learns
  <2> QED
    BY <1>1, <1>3, <2>1, <2>2, <2>3
<1> QED
  BY <1>1, <1>2, <1>3

\* A target at which the disk of the volume has just been mounted serves it,
\* for the CO that hears of it and for the one that has given up.
LEMMA PublishedInv ==
    ASSUME TypeInv, LockInv, PatientInv, NEW c \in Calls, Running(c), Holds(c),
           NEW v \in Volumes, call[c].vol = v,
           NEW t \in Targets, call[c].place = t, published[v][t] # "no",
           NEW d \in Devs, DiskOf(d) = v,
           Push(v, t, [dev |-> d, vol |-> v]), UNCHANGED <<slot, dev>>,
           AnswerOK(c, BelieveAt(v, t, "yes"))
    PROVE  PatientInv'
<1> DEFINE e == [dev |-> d, vol |-> v]
<1>1. /\ HostTypes /\ VolumeOK(v) /\ v \in held /\ Staging \in Places
      /\ Targets \subseteq Places /\ staged[v] = "yes" /\ t # Staging
  BY Mine DEF VolumeOK
<1>2. /\ IsMounted(v, t)' /\ TopMount(v, t)' = e /\ AllOf(v, mounts'[v][t])
      /\ \A w \in Volumes \ {v} : mounts'[w] = mounts[w]
      /\ \A q \in Places \ {t} : mounts'[v][q] = mounts[v][q]
  <2>1. e \in AnyEntry /\ e.dev \in Devs /\ e.vol = v
    BY DEF AnyEntry
  <2>2. AllOf(v, mounts[v][t]) /\ t \in Places /\ Push(v, t, e)
    BY <1>1 DEF VolumeOK
  <2> HIDE DEF e
  <2> QED
    BY <1>1, <2>1, <2>2, Pushed
<1>3. /\ Return(c) /\ Learns(v) /\ UNCHANGED <<staged, held>>
      /\ \A u \in Targets \ {t} : published'[v][u] = published[v][u]
      /\ call[c].late => published' = published
  BY HeardAt DEF Belief
<1>4. Serves(v, t)'
  <2>1. DiskOf(d)' = v
    BY DEF DiskOf, Registered
  <2> QED
    BY <1>2, <2>1 DEF Serves, DiskOf, Registered
<1>5. \A u \in Targets \ {t} : Serves(v, u)' <=> Serves(v, u)
  BY <1>1, <1>2 DEF Serves, IsMounted, TopMount, DiskOf, Registered
<1>6. VolumeOK(v)'
  <2>1. \A p \in Places : AllOf(v, mounts'[v][p])
    BY <1>1, <1>2 DEF VolumeOK
  <2>2. mounts'[v][Staging] = mounts[v][Staging]
    BY <1>1, <1>2
  <2> QED
    BY <1>1, <1>3, <1>4, <1>5, <2>1, <2>2 DEF VolumeOK, IsMounted, DiskOf, Registered
<1>7. call[c].late \in BOOLEAN /\ mounts'[v][Staging] = mounts[v][Staging]
  BY <1>1, <1>2 DEF TypeInv, CallRecord
<1> QED
  BY <1>2, <1>3, <1>6, <1>7, AnswerInv

LEMMA PublishInv ==
    ASSUME TypeInv, LockInv, PatientInv, NEW c \in Calls,
           PublishBind(c) \/ PublishBindBlock(c)
    PROVE  PatientInv'
<1> USE DEF StagePCs, UnstagePCs, PublishPCs, ExpandPCs
<1>1. Running(c) /\ Holds(c) /\ UNCHANGED <<slot, dev>>
  BY DEF PublishBind, PublishBindBlock, Running, Holds, LockedPCs
<1>2. PICK v \in Volumes, t \in Targets : call[c].vol = v /\ call[c].place = t
  BY <1>1, Mine DEF TypeInv, LocalsOK, PublishBind, PublishBindBlock
<1>3. /\ HostTypes /\ CallOK(c) /\ VolumeOK(v) /\ Staging \in Places
      /\ published[v][t] # "no"
  BY <1>1, <1>2, Mine DEF CallOK, PublishBind, PublishBindBlock
<1>4. CASE PublishBind(c)
  <2>1. /\ IsMounted(v, Staging) /\ DiskOf(mounts[v][Staging][1].dev) = v
        /\ Len(mounts[v][Staging]) = 1 /\ mounts[v][Staging][1] \in AnyEntry
        /\ mounts[v][Staging][1].dev \in Devs /\ mounts[v][Staging][1].vol = v
    BY <1>2, <1>3, <1>4, TopOfAll, MountsAt DEF VolumeOK, CallOK, PublishBind
  <2>2. mounts[v][Staging][1] = [dev |-> mounts[v][Staging][1].dev, vol |-> v]
    BY <2>1 DEF AnyEntry
  <2>3. /\ Push(v, t, mounts[v][Staging][1])
        /\ AnswerOK(c, BelieveAt(v, t, "yes"))
    BY <1>2, <1>4, <2>1 DEF PublishBind, BindStaging, TopMount
  <2>4. Push(v, t, [dev |-> mounts[v][Staging][1].dev, vol |-> v])
    BY <2>2, <2>3
  <2> QED
    BY <1>1, <1>2, <1>3, <2>1, <2>3, <2>4, PublishedInv
<1>5. CASE Refuse(c) /\ UNCHANGED mounts
  BY <1>1, <1>5, RefuseInv DEF Refuse, host
<1>6. CASE /\ PublishBindBlock(c) /\ BindDevice(v, t, call[c].dev)
           /\ AnswerOK(c, BelieveAt(v, t, "yes"))
  <2>1. call[c].dev \in Devs /\ DiskOf(call[c].dev) = v
    BY <1>2, <1>3, <1>6 DEF PublishBindBlock, CallOK, DiskOf, Registered
  <2>2. Push(v, t, [dev |-> call[c].dev, vol |-> v])
    BY <1>6, <2>1 DEF BindDevice
  <2> QED
    BY <1>1, <1>2, <1>3, <1>6, <2>1, <2>2, PublishedInv
<1> QED
  BY <1>2, <1>4, <1>5, <1>6 DEF PublishBindBlock

LEMMA UnpublishInv ==
    ASSUME TypeInv, LockInv, PatientInv, NEW c \in Calls, UnpublishUnmount(c)
    PROVE  PatientInv'
<1> USE DEF StagePCs, UnstagePCs, PublishPCs, ExpandPCs
<1>1. Running(c) /\ Holds(c) /\ pc[c] = "unmountTarget" /\ UNCHANGED <<slot, dev>>
  BY DEF UnpublishUnmount, Running, Holds, LockedPCs
<1>2. PICK v \in Volumes, t \in Targets : call[c].vol = v /\ call[c].place = t
  BY <1>1, Mine DEF TypeInv, LocalsOK
<1>3. /\ HostTypes /\ CallOK(c) /\ VolumeOK(v) /\ Staging \in Places /\ t # Staging
      /\ Targets \subseteq Places /\ published[v][t] = "maybe" /\ v \in held
  BY <1>1, <1>2, Mine DEF CallOK
<1>4. CASE Refuse(c) /\ UNCHANGED mounts
  BY <1>1, <1>4, RefuseInv DEF Refuse, host
<1>5. CASE /\ AnswerOK(c, BelieveAt(v, t, "no"))
           /\ PopMount(v, t) \/ UNCHANGED mounts
  <2>1. /\ AllOf(v, mounts'[v][t])
        /\ \A w \in Volumes \ {v} : mounts'[w] = mounts[w]
        /\ \A q \in Places \ {t} : mounts'[v][q] = mounts[v][q]
    <3>1. AllOf(v, mounts[v][t]) /\ t \in Places
      BY <1>3 DEF VolumeOK
    <3> QED
      BY <1>3, <1>5, <3>1, Popped
  <2>2. /\ Return(c) /\ Learns(v) /\ UNCHANGED <<staged, held>>
        /\ \A u \in Targets \ {t} : published'[v][u] = published[v][u]
        /\ published'[v][t] # "yes"
        /\ call[c].late => published' = published
    BY <1>3, <1>5, HeardAt DEF Belief
  <2>3. \A u \in Targets \ {t} : Serves(v, u)' <=> Serves(v, u)
    BY <1>1, <1>3, <2>1 DEF Serves, IsMounted, TopMount, DiskOf, Registered
  <2>4. VolumeOK(v)'
    <3>1. \A p \in Places : AllOf(v, mounts'[v][p])
      BY <1>3, <2>1 DEF VolumeOK
    <3>2. mounts'[v][Staging] = mounts[v][Staging]
      BY <1>3, <2>1
    <3>3. \A u \in Targets : published'[v][u] # "no" => staged'[v] = "yes"
      BY <1>3, <2>2 DEF VolumeOK
    <3> QED
      BY <1>1, <1>3, <2>2, <2>3, <3>1, <3>2, <3>3 DEF VolumeOK, IsMounted, DiskOf, Registered
  <2>5. call[c].late \in BOOLEAN /\ mounts'[v][Staging] = mounts[v][Staging]
    BY <1>3, <2>1 DEF TypeInv, CallRecord
  <2> QED
    BY <1>1, <1>2, <2>1, <2>2, <2>4, <2>5, AnswerInv
<1> QED
  BY <1>2, <1>4, <1>5 DEF UnpublishUnmount, Unmount

LEMMA ExpandInv ==
    ASSUME TypeInv, LockInv, PatientInv, NEW c \in Calls,
           ExpandFindmnt(c) \/ ExpandRescan(c) \/ ExpandResize(c)
    PROVE  PatientInv'
<1> USE DEF StagePCs, UnstagePCs, PublishPCs, ExpandPCs
<1>1. Running(c) /\ pc[c] \in ExpandPCs /\ UNCHANGED host
  BY DEF ExpandFindmnt, ExpandRescan, ExpandResize, Running
<1>2. PICK v \in Volumes : call[c].vol = v
  BY <1>1, Mine
<1>3. /\ HostTypes /\ CallOK(c) /\ VolumeOK(v) /\ Staging \in Places
      /\ Targets \subseteq Places /\ v \in held /\ staged[v] = "yes" /\ v \notin Blocks
      /\ call[c].place \in Places
  BY <1>1, <1>2, Mine DEF CallOK, TypeInv, CallRecord
<1>4. CASE Refuse(c)
  BY <1>1, <1>4, RefuseInv DEF Refuse
<1>5. CASE ~Refuse(c)
  <2>1. PICK p, d : /\ Goto(c, p, d) /\ UNCHANGED ghosts
                    /\ \/ pc[c] = "findmnt" /\ p = "rescan"
                          /\ d = MountSource(v, call[c].place)
                       \/ pc[c] = "rescan" /\ p = "resize" /\ d = call[c].dev
    BY <1>2, <1>5 DEF ExpandFindmnt, ExpandRescan, ExpandResize
  <2>2. d \in Devs /\ DiskOf(d) = v
    <3>1. CASE pc[c] = "rescan"
      BY <1>2, <1>3, <2>1, <3>1 DEF CallOK
    <3>2. CASE pc[c] = "findmnt" /\ call[c].place = Staging
      <4>1. Len(mounts[v][Staging]) = 1 /\ IsMounted(v, Staging)
        BY <1>3 DEF VolumeOK
      <4>2. d = mounts[v][Staging][1].dev
        BY <2>1, <3>2, <4>1 DEF MountSource, TopMount
      <4> QED
        BY <1>3, <4>1, <4>2, TopOfAll DEF VolumeOK
    <3>3. CASE pc[c] = "findmnt" /\ call[c].place \in Targets
      <4>1. published[v][call[c].place] = "yes"
        BY <1>2, <1>3, <3>3 DEF CallOK
      <4> QED
        BY <1>3, <2>1, <3>3, <4>1, TopOfAll DEF VolumeOK, Serves, MountSource
    <3> QED
      BY <1>3, <2>1, <3>1, <3>2, <3>3 DEF Places
  <2>3. /\ pc'[c] = p /\ p \in {"rescan", "resize"} /\ call'[c] = [call[c] EXCEPT !.dev = d]
        /\ \A e \in Calls \ {c} : SameCall(e)
    BY <2>1 DEF Goto, TypeInv, SameCall
  <2>4. /\ call'[c].vol = v /\ call'[c].late = call[c].late /\ call'[c].op = call[c].op
        /\ call'[c].dev = d
    BY <1>2, <2>3 DEF TypeInv, CallRecord
  <2>5. CallOK(c)'
    BY <1>1, <1>2, <1>3, <2>1, <2>2, <2>3, <2>4 DEF CallOK, Running, host, ghosts, DiskOf,
       Registered
  <2> QED
    BY <1>1, <1>2, <2>1, <2>3, <2>4, <2>5, GotoInv
<1> QED
  BY <1>4, <1>5

-----------------------------------------------------------------------------
(* New requests: the CO sends what it believes it may. *)

LEMMA HeldSlot ==
    ASSUME GhostTypes, NEW v \in held
    PROVE  SlotOf(v) \in Slots /\ slot[SlotOf(v)] = v
  BY DEF GhostTypes, Attached, SlotOf

LEMMA BeginAnyInv ==
    ASSUME TypeInv, LockInv, PatientInv, NEW c \in Calls, BeginAny(c)
    PROVE  PatientInv'
<1> USE DEF StagePCs, UnstagePCs, PublishPCs, ExpandPCs
<1>0. HostTypes /\ GhostTypes /\ Staging \in Places /\ Targets \subseteq Places
  BY TypeParts DEF Places
<1>1. CASE BeginStage(c)
  <2> DEFINE req(v) == [Request("stage", v, Staging) EXCEPT !.slot = SlotOf(v)]
  <2> DEFINE b(v) == IF staged[v] = "yes" THEN "yes" ELSE "maybe"
  <2>1. PICK v \in held : Begin(c, req(v), "scan") /\ Believe(v, b(v))
    BY <1>1 DEF BeginStage
  <2>2. v \in Volumes /\ VolumeOK(v)
    BY <1>0 DEF GhostTypes, PatientInv
  <2>3. /\ req(v).vol = v /\ req(v).slot \in Slots /\ slot[req(v).slot] = v
        /\ req(v).late = FALSE /\ req(v).op = "stage"
    <3>1. SlotOf(v) \in Slots /\ slot[SlotOf(v)] = v
      BY <1>0, HeldSlot
    <3> QED
      BY <3>1 DEF Request, NoCall
  <2> HIDE DEF req
  <2>4. /\ pc'[c] = "scan" /\ call'[c] = req(v) /\ UNCHANGED host
        /\ staged'[v] = b(v) /\ UNCHANGED <<held, published>>
    BY <2>1, <2>2 DEF Begin, TypeInv, Believe
  <2>5. VolumeOK(v)'
    BY <1>0, <2>1, <2>2, <2>4, StagedOK DEF TypeInv, Belief, VolumeOK
  <2>6. CallOK(c)'
    BY <2>3, <2>4 DEF CallOK, Running, host
  <2>7. Learns(v) /\ "scan" \in PCs \ {"idle"}
    BY <2>1 DEF Learns, Belief, PCs
  <2> QED
    BY <2>1, <2>2, <2>3, <2>4, <2>5, <2>6, <2>7, BeginInv
<1>2. CASE BeginUnstage(c)
  <2> DEFINE req(v) == Request("unstage", v, Staging)
  <2>1. PICK v \in Volumes :
           /\ staged[v] # "no" /\ \A t \in Targets : published[v][t] = "no"
           /\ Begin(c, req(v), "unstageLook") /\ Believe(v, "maybe")
    BY <1>2 DEF BeginUnstage
  <2>2. VolumeOK(v) /\ v \in held
    BY <2>1 DEF PatientInv, VolumeOK
  <2>3. req(v).vol = v /\ req(v).late = FALSE /\ req(v).op = "unstage"
    BY DEF Request, NoCall
  <2> HIDE DEF req
  <2>4. /\ pc'[c] = "unstageLook" /\ call'[c] = req(v) /\ UNCHANGED host
        /\ staged'[v] = "maybe" /\ UNCHANGED <<held, published>>
    BY <2>1 DEF Begin, TypeInv, Believe
  <2>5. VolumeOK(v)'
    BY <2>1, <2>2, <2>4 DEF VolumeOK, IsMounted, DiskOf, Registered, host
  <2>6. CallOK(c)'
    BY <2>1, <2>2, <2>3, <2>4 DEF CallOK, Running
  <2>7. Learns(v) /\ "unstageLook" \in PCs \ {"idle"}
    BY <2>1 DEF Learns, Belief, PCs
  <2> QED
    BY <2>1, <2>3, <2>4, <2>5, <2>6, <2>7, BeginInv
\* A target the CO publishes to, or no longer counts on.
<1>t. ASSUME NEW v \in Volumes, NEW t \in Targets, NEW b \in Belief \ {"no"},
             BelieveAt(v, t, b), UNCHANGED host, VolumeOK(v), staged[v] = "yes",
             b = "yes" => published[v][t] = "yes"
      PROVE  VolumeOK(v)' /\ Learns(v) /\ published'[v][t] = b /\ UNCHANGED <<held, staged>>
  <2>1. /\ \A u \in Targets \ {t} : published'[v][u] = published[v][u]
        /\ published'[v][t] = b /\ UNCHANGED <<held, staged>>
    <3>1. published'[v] = [published[v] EXCEPT ![t] = b] /\ UNCHANGED <<held, staged>>
      BY <1>t DEF BelieveAt, TypeInv
    <3>2. published[v] \in [Targets -> Belief]
      BY DEF TypeInv
    <3> QED
      BY <3>1, <3>2
  <2>2. \A u \in Targets : Serves(v, u)' <=> Serves(v, u)
    BY <1>t DEF Serves, IsMounted, TopMount, DiskOf, Registered, host
  <2>3. \A u \in Targets : published'[v][u] = "yes" => published[v][u] = "yes"
    BY <1>t, <2>1
  <2>4. VolumeOK(v)'
    BY <1>t, <2>1, <2>2, <2>3 DEF VolumeOK, IsMounted, DiskOf, Registered, host
  <2> QED
    BY <1>t, <2>1, <2>4 DEF Learns
<1>3. CASE BeginPublish(c)
  <2> DEFINE req(v, t) == [Request("publish", v, t) EXCEPT !.slot = SlotOf(v)]
  <2> DEFINE b(v, t) == IF published[v][t] = "yes" THEN "yes" ELSE "maybe"
  <2> DEFINE p(v) == IF v \in Blocks THEN "findBlock" ELSE "bind"
  <2>1. PICK v \in held, t \in Targets :
           /\ staged[v] = "yes" /\ Begin(c, req(v, t), p(v))
           /\ BelieveAt(v, t, b(v, t)) /\ Insert(Node, v)
    BY <1>3 DEF BeginPublish
  <2>2. v \in Volumes /\ VolumeOK(v)
    BY <1>0 DEF GhostTypes, PatientInv
  <2>3. /\ req(v, t).vol = v /\ req(v, t).slot \in Slots /\ slot[req(v, t).slot] = v
        /\ req(v, t).late = FALSE /\ req(v, t).op = "publish" /\ req(v, t).place = t
    <3>1. SlotOf(v) \in Slots /\ slot[SlotOf(v)] = v
      BY <1>0, HeldSlot
    <3> QED
      BY <3>1 DEF Request, NoCall
  <2> HIDE DEF req
  <2>4. pc'[c] = p(v) /\ call'[c] = req(v, t) /\ UNCHANGED host
    BY <2>1, <2>2 DEF Begin, TypeInv
  <2>5. b(v, t) \in Belief \ {"no"} /\ (b(v, t) = "yes" => published[v][t] = "yes")
    BY DEF Belief
  <2>6. /\ VolumeOK(v)' /\ Learns(v) /\ published'[v][t] # "no"
        /\ UNCHANGED <<held, staged>>
    BY <1>t, <2>1, <2>2, <2>4, <2>5
  <2>7. CallOK(c)'
    BY <2>1, <2>3, <2>4, <2>6 DEF CallOK, Running, host
  <2>8. p(v) \in PCs \ {"idle"}
    BY DEF PCs
  <2> QED
    BY <2>1, <2>2, <2>3, <2>6, <2>7, <2>8, BeginInv
<1>4. CASE BeginUnpublish(c)
  <2> DEFINE req(v, t) == Request("unpublish", v, t)
  <2>1. PICK v \in Volumes, t \in Targets :
           /\ published[v][t] # "no" /\ Begin(c, req(v, t), "unmountTarget")
           /\ BelieveAt(v, t, "maybe") /\ Insert(Node, v)
    BY <1>4 DEF BeginUnpublish
  <2>2. VolumeOK(v) /\ staged[v] = "yes" /\ v \in held
    BY <2>1 DEF PatientInv, VolumeOK
  <2>3. /\ req(v, t).vol = v /\ req(v, t).late = FALSE /\ req(v, t).op = "unpublish"
        /\ req(v, t).place = t
    BY DEF Request, NoCall
  <2> HIDE DEF req
  <2>4. pc'[c] = "unmountTarget" /\ call'[c] = req(v, t) /\ UNCHANGED host
    BY <2>1 DEF Begin, TypeInv
  <2>5. /\ VolumeOK(v)' /\ Learns(v) /\ published'[v][t] = "maybe"
        /\ UNCHANGED <<held, staged>>
    BY <1>t, <2>1, <2>2, <2>4 DEF Belief
  <2>6. CallOK(c)'
    BY <2>2, <2>3, <2>4, <2>5 DEF CallOK, Running
  <2>7. "unmountTarget" \in PCs \ {"idle"}
    BY DEF PCs
  <2> QED
    BY <2>1, <2>3, <2>5, <2>6, <2>7, BeginInv
<1>5. CASE BeginExpand(c)
  <2> DEFINE req(v, q) == Request("expand", v, q)
  <2>1. PICK v \in Volumes \ Blocks, q \in Places :
           /\ IF q = Staging THEN staged[v] = "yes" ELSE published[v][q] = "yes"
           /\ Begin(c, req(v, q), "findmnt") /\ UNCHANGED <<inFlight, ghosts>>
    BY <1>5 DEF BeginExpand
  <2>2. VolumeOK(v) /\ staged[v] = "yes" /\ v \in held
    BY <2>1 DEF PatientInv, VolumeOK, Places
  <2>3. /\ req(v, q).vol = v /\ req(v, q).late = FALSE /\ req(v, q).op = "expand"
        /\ req(v, q).place = q
    BY DEF Request, NoCall
  <2> HIDE DEF req
  <2>4. pc'[c] = "findmnt" /\ call'[c] = req(v, q) /\ UNCHANGED <<host, ghosts>>
    BY <2>1 DEF Begin, TypeInv
  <2>5. VolumeOK(v)'
    <3>1. SameVolume(v) /\ HostKept(v)
      BY <2>4, NothingKept
    <3> QED
      BY <1>0, <2>2, <3>1, VolumeKept
  <2>6. CallOK(c)'
    BY <2>1, <2>2, <2>3, <2>4 DEF CallOK, Running, ghosts
  <2>7. Learns(v) /\ "findmnt" \in PCs \ {"idle"} /\ published' = published
    BY <2>1 DEF Learns, ghosts, PCs
  <2> QED
    BY <2>1, <2>3, <2>5, <2>6, <2>7, BeginInv
<1> QED
  BY <1>1, <1>2, <1>3, <1>4, <1>5 DEF BeginAny

-----------------------------------------------------------------------------
(* The world beyond the handlers. *)

\* Devices are registered, disks come and go: what the CO holds stays.
LEMMA WorldInv ==
    ASSUME TypeInv, LockInv, PatientInv,
           UNCHANGED <<mounts, handlers, ghosts>>,
           \A w \in held : HostKept(w), HostOK'
    PROVE  PatientInv'
<1>1. HostTypes /\ \A w \in Volumes : SameVolume(w)
  BY TypeParts DEF SameVolume, ghosts
<1>2. \A w \in Volumes : VolumeOK(w)'
  BY <1>1, VolumeKept DEF PatientInv
<1>3. \A d \in Calls : CallOK(d)'
  <2> SUFFICES ASSUME NEW d \in Calls PROVE CallOK(d)'
    OBVIOUS
  <2>1. SameCall(d) /\ CallOK(d)
    BY DEF handlers, SameCall, PatientInv
  <2>2. CASE Running(d)
    <3>1. HostKept(call[d].vol)
      BY <2>1, <2>2 DEF CallOK
    <3> QED
      BY <2>1, <2>2, <3>1, CallKept DEF ghosts
  <2> QED
    BY <2>1, <2>2, IdleKept
<1>4. OneWaiting'
  BY DEF PatientInv, OneWaiting, handlers, Running
<1> QED
  BY <1>2, <1>3, <1>4 DEF PatientInv

LEMMA RegisterInv ==
    ASSUME TypeInv, LockInv, PatientInv, NEW d \in Devs, NEW s \in Slots, Register(d, s),
           UNCHANGED <<slot, mounts, handlers, ghosts>>
    PROVE  PatientInv'
<1>1. dev' = [dev EXCEPT ![d] = s] /\ dev[d] = NoSlot /\ \A e \in Devs : dev[e] # s
  BY DEF Register, HasDevice, Registered
<1>2. \A e \in Devs \ {d} : dev'[e] = dev[e]
  BY <1>1 DEF TypeInv
<1>3. dev'[d] = s
  BY <1>1 DEF TypeInv
<1>4. HostOK'
  BY <1>1, <1>2, <1>3 DEF PatientInv, HostOK
<1>5. \A w \in held : HostKept(w)
  BY <1>1, <1>2 DEF HostKept
<1> QED
  BY <1>4, <1>5, WorldInv

LEMMA CloudInv ==
    ASSUME TypeInv, LockInv, PatientInv, NEW v \in Volumes, CloudStep(v)
    PROVE  PatientInv'
<1>0. slot \in [Slots -> Volumes \cup {NoVolume}] /\ held \subseteq Volumes
  BY DEF TypeInv
<1>1. CASE AttachDisk(v)
  <2>1. PICK s \in Slots : slot[s] = NoVolume /\ slot' = [slot EXCEPT ![s] = v]
    BY <1>1 DEF AttachDisk
  <2>2. /\ \A t \in Slots : slot[t] # v
        /\ UNCHANGED <<dev, mounts, handlers, ghosts>>
    BY <1>1 DEF AttachDisk, Attachment!Attach, Attached, ghosts
  <2>3. slot'[s] = v /\ \A t \in Slots \ {s} : slot'[t] = slot[t]
    BY <1>0, <2>1
  <2>4. HostOK'
    BY <2>2, <2>3 DEF PatientInv, HostOK
  <2>5. \A w \in held : HostKept(w)
    BY <1>0, <2>1, <2>2, <2>3 DEF HostKept
  <2> QED
    BY <2>2, <2>4, <2>5, WorldInv
<1>2. CASE DetachDisk(v)
  <2>1. PICK s \in Slots : slot[s] = v /\ slot' = [slot EXCEPT ![s] = NoVolume]
    BY <1>2 DEF DetachDisk
  <2>2. v \notin held /\ UNCHANGED <<dev, mounts, handlers, ghosts>>
    BY <1>2 DEF DetachDisk, Attachment!Detach, ghosts
  <2>3. slot'[s] = NoVolume /\ \A t \in Slots \ {s} : slot'[t] = slot[t]
    BY <1>0, <2>1
  <2>4. HostOK'
    BY <2>2, <2>3 DEF PatientInv, HostOK
  <2>5. \A w \in held : HostKept(w)
    BY <1>0, <2>1, <2>2, <2>3 DEF HostKept
  <2> QED
    BY <2>2, <2>4, <2>5, WorldInv
\* The CO takes a volume, or lets go of one that nobody works on.
<1>3. ASSUME UNCHANGED <<host, handlers, staged, published>>,
             \A w \in held' : w \in Attached,
             \A w \in Volumes \ held' : staged[w] = "no",
             \A d \in Calls : Running(d) => call[d].vol \in held'
      PROVE  PatientInv'
  <2>1. HostOK' /\ OneWaiting'
    BY <1>3 DEF PatientInv, HostOK, OneWaiting, host, handlers, Running
  <2>2. \A w \in held' : \E s \in Slots : slot[s] = w
    BY <1>3 DEF Attached
  <2>3. ASSUME NEW w \in Volumes PROVE VolumeOK(w)'
    <3>1. VolumeOK(w) /\ UNCHANGED <<slot, dev, mounts, staged, published>>
      BY <1>3 DEF PatientInv, host
    <3>2. \A t \in Targets : Serves(w, t)' <=> Serves(w, t)
      BY <3>1 DEF Serves, IsMounted, TopMount, DiskOf, Registered
    <3>3. (w \in held' => \E s \in Slots : slot[s] = w) /\ (staged[w] # "no" => w \in held')
      BY <1>3, <2>2
    <3> QED
      BY <3>1, <3>2, <3>3 DEF VolumeOK, IsMounted, DiskOf, Registered
  <2>4. \A d \in Calls : CallOK(d)'
    BY <1>3 DEF PatientInv, CallOK, IsMounted, DiskOf, Registered, host, handlers, Running
  <2> QED
    BY <2>1, <2>3, <2>4 DEF PatientInv
<1>4. /\ \A w \in held : w \in Attached
      /\ \A w \in Volumes : staged[w] # "no" => w \in held
      /\ \A d \in Calls : Running(d) => call[d].vol \in held
  BY DEF TypeInv, PatientInv, VolumeOK, CallOK
<1>5. CASE HoldDisk(v)
  <2>1. held' = held \cup {v} /\ v \in Attached
    BY <1>5 DEF HoldDisk, Attachment!Hold
  <2>2. UNCHANGED <<host, handlers, staged, published>>
    BY <1>5 DEF HoldDisk
  <2> QED
    BY <1>3, <1>4, <2>1, <2>2
<1>6. CASE ReleaseDisk(v)
  <2>1. /\ held' = held \ {v} /\ staged[v] = "no" /\ ~Waits(v)
        /\ \A t \in Targets : published[v][t] = "no"
    BY <1>6 DEF ReleaseDisk, Attachment!Release
  <2>2. UNCHANGED <<host, handlers, staged, published>>
    BY <1>6 DEF ReleaseDisk
  <2>3. ASSUME NEW d \in Calls, Running(d) PROVE call[d].vol \in held \ {v}
    <3>1. call[d].vol \in held /\ CallOK(d) /\ call[d].late \in BOOLEAN
      BY <2>3 DEF PatientInv, CallOK, TypeInv, CallRecord
    <3>2. ASSUME call[d].vol = v PROVE FALSE
      <4>1. call[d].late
        BY <2>1, <2>3, <3>1, <3>2 DEF Waits
      <4>2. pc[d] \in PublishPCs \cup {"unmountTarget"} /\ call[d].place \in Targets
        BY <4>1, LateHolds DEF TypeInv, LocalsOK
      <4>3. published[v][call[d].place] # "no"
        BY <3>1, <3>2, <4>2 DEF CallOK
      <4> QED
        BY <2>1, <4>2, <4>3
    <3> QED
      BY <3>1, <3>2
  <2> QED
    BY <1>3, <1>4, <2>1, <2>2, <2>3
<1> QED
  BY <1>1, <1>2, <1>5, <1>6 DEF CloudStep

LEMMA GiveUpInv ==
    ASSUME TypeInv, LockInv, PatientInv, PatientCO, NEW c \in Calls, GiveUp(c)
    PROVE  PatientInv'
<1>1. /\ call[c].op \in {"publish", "unpublish"} /\ UNCHANGED <<host, ghosts, pc>>
      /\ call'[c] = [call[c] EXCEPT !.late = TRUE] /\ \A d \in Calls \ {c} : SameCall(d)
  BY DEF GiveUp, PatientCO, TypeInv, SameCall
<1>2. /\ call'[c].vol = call[c].vol /\ call'[c].op = call[c].op
      /\ call'[c].slot = call[c].slot /\ call'[c].dev = call[c].dev
      /\ call'[c].place = call[c].place /\ call'[c].late
  BY <1>1 DEF TypeInv, CallRecord
<1>3. Running(c) /\ CallOK(c)
  BY <1>1 DEF TypeInv, LocalsOK, NoCall, PatientInv
<1>4. CallOK(c)'
  BY <1>1, <1>2, <1>3 DEF CallOK, Running, host, ghosts, IsMounted, DiskOf, Registered
<1>5. HostOK' /\ OneWaiting'
  BY <1>1, <1>2, <1>3, SlotsOK, StepOneWaiting DEF PatientInv, host
<1>6. \A w \in Volumes : HostKept(w) /\ SameVolume(w)
  BY <1>1, NothingKept
<1>7. \A w \in Volumes : VolumeOK(w)'
  BY <1>6, VolumeKept, TypeParts DEF PatientInv
<1>8. ASSUME NEW d \in Calls \ {c} PROVE CallOK(d)'
  <2>1. SameCall(d) /\ CallOK(d) /\ (Running(d) => call[d].vol \in Volumes)
    BY <1>1 DEF PatientInv, TypeInv, LocalsOK
  <2>2. CASE Running(d)
    BY <1>6, <2>1, <2>2, CallKept DEF SameVolume
  <2> QED
    BY <2>1, <2>2, IdleKept
<1> QED
  BY <1>4, <1>5, <1>7, <1>8 DEF PatientInv

LEMMA RestartInv ==
    ASSUME TypeInv, LockInv, PatientInv, Restart PROVE PatientInv'
<1>1. \A d \in Calls : CallOK(d)' /\ ~Running(d)'
  BY IdleOK DEF Restart, Running
<1>2. \A w \in Volumes : HostKept(w) /\ SameVolume(w)
  BY NothingKept DEF Restart
<1>3. \A w \in Volumes : VolumeOK(w)'
  BY <1>2, VolumeKept, TypeParts DEF PatientInv
<1>4. HostOK' /\ OneWaiting'
  BY <1>1, SlotsOK DEF PatientInv, OneWaiting, Restart, host
<1> QED
  BY <1>1, <1>3, <1>4 DEF PatientInv

-----------------------------------------------------------------------------
(* Together. *)

LEMMA HandlerInv ==
    ASSUME TypeInv, LockInv, PatientInv, NEW c \in Calls, HandlerStep(c) \/ Fail(c)
    PROVE  PatientInv'
<1>1. CASE Fail(c)
  BY <1>1, RefuseInv DEF Fail, Refuse
<1>2. CASE StageScan(c)
  <2>1. CASE \E d \in Devs, s \in Slots :
                Register(d, s) /\ UNCHANGED <<slot, mounts, inFlight, handlers, ghosts>>
    BY <2>1, RegisterInv
  <2> QED
    BY <1>2, <2>1, StageScanInv
<1>3. CASE StageFind(c)
  BY <1>3, FindInv DEF StageFind
<1>4. CASE PublishFindBlock(c)
  BY <1>4, FindInv DEF PublishFindBlock
<1> QED
  BY <1>1, <1>2, <1>3, <1>4, LockStepInv, StageLookInv, StageMountInv, UnstageLookInv,
     UnstageUnmountInv, UnstageRemoveInv, PublishInv, UnpublishInv, ExpandInv
  DEF HandlerStep

LEMMA InitPatient == Init => PatientInv
<1> SUFFICES ASSUME Init PROVE PatientInv
  OBVIOUS
<1>1. HostOK /\ OneWaiting
  BY DEF Init, HostInit, HostOK, OneWaiting, Running
<1>2. Staging \in Places /\ Targets \subseteq Places
  BY DEF Places
<1>3. ASSUME NEW v \in Volumes PROVE VolumeOK(v)
  <2>1. \A p \in Places : mounts[v][p] = <<>>
    BY DEF Init, HostInit
  <2>2. AllOf(v, <<>>)
    BY DEF AllOf
  <2>3. staged[v] = "no" /\ held = {} /\ \A t \in Targets : published[v][t] = "no"
    BY DEF Init
  <2> QED
    BY <1>2, <2>1, <2>2, <2>3 DEF VolumeOK, IsMounted
<1>4. \A c \in Calls : CallOK(c)
  BY DEF Init, CallOK, NoCall, Running, StagePCs, UnstagePCs, PublishPCs, ExpandPCs
<1> QED
  BY <1>1, <1>3, <1>4 DEF PatientInv

LEMMA NextPatient ==
    PatientCO /\ TypeInv /\ LockInv /\ PatientInv /\ [Next]_vars => PatientInv'
<1> SUFFICES ASSUME PatientCO, TypeInv, LockInv, PatientInv, [Next]_vars
             PROVE  PatientInv'
  OBVIOUS
<1>1. CASE UNCHANGED vars
  BY <1>1, SlotsKept, SlotsOK, WorldInv DEF vars, host, PatientInv
<1> QED
  BY <1>1, BeginAnyInv, HandlerInv, GiveUpInv, RestartInv, CloudInv DEF Next

\* The inductive invariant, when the CO gives up only requests that hold the
\* lock of their volume.
THEOREM PatientNode == ASSUME PatientCO PROVE Spec => []PatientInv
<1>1. Init => TypeInv /\ LockInv /\ PatientInv
  BY InitTypes, InitLocks, InitPatient
<1>2. TypeInv /\ LockInv /\ PatientInv /\ [Next]_vars => (TypeInv /\ LockInv /\ PatientInv)'
  BY NextTypes, NextLocks, NextPatient
<1> QED
  BY <1>1, <1>2, PTL DEF Spec

\* What a volume was staged or published to, as far as the CO knows, shows the
\* disk of that volume through a device that works.
THEOREM DisksServed == ASSUME PatientCO PROVE Spec => []OwnDiskServed
<1>1. TypeInv /\ PatientInv => OwnDiskServed
  <2> SUFFICES ASSUME TypeInv, PatientInv, NEW v \in Volumes,
                      staged[v] = "yes", v \notin Blocks
               PROVE  Serves(v, Staging)
    BY DEF OwnDiskServed, PatientInv, VolumeOK
  <2>1. HostTypes /\ Staging \in Places /\ VolumeOK(v)
    BY TypeParts DEF Places, PatientInv
  <2>2. IsMounted(v, Staging) /\ Len(mounts[v][Staging]) = 1
        /\ DiskOf(mounts[v][Staging][1].dev) = v
    BY <2>1 DEF VolumeOK
  <2> QED
    BY <2>1, <2>2, TopOfAll DEF Serves, VolumeOK, TopMount
<1> QED
  BY <1>1, NodeTypes, PatientNode, PTL

\* A device in the hands of a handler is not the node's own and leads to the disk
\* of its volume, from the moment it is found until it is mounted, removed or
\* resized.
THEOREM DevicesOwn == ASSUME PatientCO PROVE Spec => []DeviceInHandIsOwn
<1>1. TypeInv /\ PatientInv => DeviceInHandIsOwn
  <2> SUFFICES ASSUME TypeInv, PatientInv, NEW c \in Calls,
                      pc[c] \in {"look", "mount", "unmount", "remove", "bindBlock",
                                 "rescan", "resize"}
               PROVE  call[c].dev \in Devs /\ DiskOf(call[c].dev) = call[c].vol
    BY DEF DeviceInHandIsOwn
  <2>1. Running(c) /\ HostTypes
    BY TypeParts DEF Running
  <2>2. CallOK(c) /\ VolumeOK(call[c].vol) /\ call[c].vol \in Volumes /\ Staging \in Places
    BY <2>1, Mine
  <2>3. CASE pc[c] \in {"look", "mount", "bindBlock"}
    <3>1. /\ call[c].dev \in Devs /\ dev[call[c].dev] = call[c].slot
          /\ slot[call[c].slot] = call[c].vol /\ call[c].slot \in Slots
      BY <2>2, <2>3 DEF CallOK, TypeInv, LocalsOK, StagePCs
    <3> QED
      BY <3>1 DEF DiskOf, Registered
  <2>4. CASE pc[c] = "unmount"
    <3>1. /\ IsMounted(call[c].vol, Staging) /\ Len(mounts[call[c].vol][Staging]) = 1
          /\ mounts[call[c].vol][Staging][1].dev = call[c].dev
      BY <2>2, <2>4 DEF CallOK, VolumeOK
    <3>2. mounts[call[c].vol][Staging][1].dev \in Devs
      BY <2>1, <2>2, <3>1, TopOfAll DEF VolumeOK
    <3> QED
      BY <2>2, <3>1, <3>2 DEF VolumeOK
  <2>5. CASE pc[c] \in {"remove", "rescan", "resize"}
    BY <2>2, <2>5 DEF CallOK
  <2> QED
    BY <2>3, <2>4, <2>5
<1> QED
  BY <1>1, NodeTypes, PatientNode, PTL

\* A volume the CO has released is not mounted at its staging path, and no
\* handler works on it.
THEOREM ReleasedUnused == ASSUME PatientCO PROVE Spec => []ReleasedIsUnused
<1>1. TypeInv /\ PatientInv => ReleasedIsUnused
  <2> SUFFICES ASSUME TypeInv, PatientInv, NEW v \in Volumes \ held
               PROVE  ~IsMounted(v, Staging) /\ \A c \in Calls : call[c].vol # v
    BY DEF ReleasedIsUnused
  <2>1. ~IsMounted(v, Staging)
    BY DEF PatientInv, VolumeOK
  <2>2. \A c \in Calls : Running(c) => call[c].vol # v
    BY DEF PatientInv, CallOK
  <2>3. \A c \in Calls : ~Running(c) => call[c].vol # v
    BY DEF TypeInv, LocalsOK, NoCall
  <2> QED
    BY <2>1, <2>2, <2>3
<1> QED
  BY <1>1, NodeTypes, PatientNode, PTL

\* No path ever shows the node's own disk: a publish finds its volume staged.
THEOREM NodeTypeOK == ASSUME PatientCO PROVE Spec => []TypeOK
<1>1. TypeInv /\ PatientInv => TypeOK
  <2> SUFFICES ASSUME TypeInv, PatientInv, NEW v \in Volumes, NEW p \in Places
               PROVE  mounts[v][p] \in Seq(Entry)
    BY DEF TypeOK, TypeInv
  <2> DEFINE s == mounts[v][p]
  <2>1. s \in Seq(AnyEntry) /\ AllOf(v, s)
    BY DEF TypeInv, PatientInv, VolumeOK
  <2>2. Len(s) \in Nat /\ DOMAIN s = 1..Len(s) /\ \A i \in 1..Len(s) : s[i] \in AnyEntry
    BY <2>1, ElementOfSeq
  <2>3. \A i \in 1..Len(s) : s[i] \in Entry
    BY <2>1, <2>2 DEF AllOf, AnyEntry, Entry
  <2> QED
    BY <2>1, <2>2, <2>3
<1> QED
  BY <1>1, NodeTypes, PatientNode, PTL

=============================================================================
