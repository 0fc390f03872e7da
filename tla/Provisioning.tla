----------------------------- MODULE Provisioning -----------------------------
(***************************************************************************)
(* What a volume is made of: capabilities, parameters and topology of a    *)
(* CreateVolume request, from pkg/driver/controller.go through             *)
(* pkg/cloud/cloud.go to the disk and back to the answer.  ControllerService*)
(* has requests that overlap; here one name is asked for again and again,  *)
(* while instances come and go, requests fail and the volume is deleted.   *)
(***************************************************************************)
EXTENDS Naturals, Sequences

CONSTANTS
    Instances,      \* instances of the region
    Zones,
    ZoneOf,         \* ZoneOf[i]: the zone of an instance
    Own,            \* the instance the controller runs on
    NoZone,         \* stands for "", also as the value of TopologyKey
    NoKey,          \* stands for a topology without TopologyKey
    NoDisk,
    Modes,          \* access modes of volume capabilities
    Writer,         \* SINGLE_NODE_WRITER
    Parameters,     \* parameter maps, raw keys to values
    MaxTopologies,  \* bound: topologies in a list of a requirement
    Moves           \* whether an unanswered request may come again for other zones

ASSUME ProvisioningAssumption ==
    /\ NoZone \notin Zones
    /\ NoKey \notin Zones \cup {NoZone}
    /\ ZoneOf \in [Instances -> Zones]
    /\ Own \in Instances
    /\ MaxTopologies \in Nat
    /\ Moves \in BOOLEAN

VARIABLES
    request,    \* what the CO asks for
    pc,         \* the next step of the handler
    local,      \* its locals
    up,         \* the instances that are there
    disk,       \* the disk of the name
    answer      \* ghost: the zone the CO was told, NoZone when it knows of none

vars == <<request, pc, local, up, disk, answer>>

\* strings.ToLower of the keys in use.
ToLower(key) ==
    CASE key = "Type"           -> "type"
      [] key = "accountingType" -> "accountingtype"
      [] OTHER                  -> key

KnownKeys == {"fstype", "type", "accountingtype"}

\* A map is read in any order: of two spellings of a key any may be last.
ValuesOf(params, key) ==
    LET spelt == {k \in DOMAIN params : ToLower(k) = key}
    IN  IF spelt = {} THEN {""} ELSE {params[k] : k \in spelt}

VolumeTypeMapping ==
    {"standard", "high-speed-a", "high-speed-b", "flash", "standard-flash-a",
     "standard-flash-b", "high-speed-flash-a", "high-speed-flash-b"}

\* Mutant of VolumeTypesFor: what is unknown is made of the default type.
VolumeTypesForAny(t) ==
    CASE t \in VolumeTypeMapping -> {t}
      [] t = "high-speed"        -> {"high-speed-a", "high-speed-b"}
      [] t = "standard-flash"    -> {"standard-flash-a", "standard-flash-b"}
      [] t = "high-speed-flash"  -> {"high-speed-flash-a", "high-speed-flash-b"}
      [] OTHER                   -> {"standard-flash-a"}

\* What CreateDisk may send for a type, one of two at random for some; for an
\* invalid one nothing.
VolumeTypesFor(t) ==
    CASE t \in VolumeTypeMapping -> {t}
      [] t = "high-speed"        -> {"high-speed-a", "high-speed-b"}
      [] t = "standard-flash"    -> {"standard-flash-a", "standard-flash-b"}
      [] t = "high-speed-flash"  -> {"high-speed-flash-a", "high-speed-flash-b"}
      [] t = ""                  -> {"standard-flash-a"}
      [] OTHER                   -> {}

AccountingTypes == {"monthly", "hourly"}

AccountingTypesFor(a) ==
    CASE a \in AccountingTypes -> {a}
      [] a = ""               -> {"hourly"}
      [] OTHER                -> {}

Disks == [zone : Zones, type : VolumeTypeMapping, accounting : AccountingTypes]

ASSUME NoDiskAssumption == NoDisk \notin Disks

Topologies ==
    UNION {[1..n -> Zones \cup {NoZone, NoKey}] : n \in 0..MaxTopologies}

\* The values of TopologyKey in a list.
Listed(list) == {list[i] : i \in DOMAIN list} \ {NoKey}

\* The CO prefers only what it has listed as requisite.
Requirements ==
    {r \in [preferred : Topologies, requisite : Topologies] :
        Listed(r.preferred) \subseteq Listed(r.requisite)}

Requests ==
    [modes : SUBSET Modes, parameters : Parameters, requirement : Requirements]

\* The value of the first topology of a list that has the key, be it "", and ""
\* if none has.
IsFirstZone(list, zone) ==
    \/ \E i \in DOMAIN list :
          /\ list[i] = zone /\ zone # NoKey
          /\ \A j \in 1..(i - 1) : list[j] = NoKey
    \/ zone = NoZone /\ \A i \in DOMAIN list : list[i] = NoKey

\* Mutant of pickAvailabilityZone: only what is preferred counts.
pickPreferredZone(r, zone) == IsFirstZone(r.preferred, zone)

\* What is preferred comes before the rest.
pickAvailabilityZone(r, zone) == IsFirstZone(r.preferred \o r.requisite, zone)

isValidVolumeCapabilities(modes) == modes \subseteq {Writer}

ParameterValues == {""} \cup UNION {{p[k] : k \in DOMAIN p} : p \in Parameters}

Locals == [type : ParameterValues, accounting : ParameterValues,
           zone : Zones \cup {NoZone}, helper : Instances]

NoLocal == [type |-> "", accounting |-> "", zone |-> NoZone, helper |-> Own]

-----------------------------------------------------------------------------

Init ==
    /\ request \in Requests
    /\ pc = "idle"
    /\ local = NoLocal
    /\ up \in SUBSET Instances
    /\ disk = NoDisk
    /\ answer = NoZone

\* validateCreateVolumeRequest; what it refuses changes nothing.
CreateVolume ==
    /\ pc = "idle"
    /\ request' \in
          IF Moves /\ answer = NoZone
            THEN {[request EXCEPT !.requirement = r] : r \in Requirements}
            ELSE {request}
    /\ request.modes # {}
    /\ isValidVolumeCapabilities(request.modes)
    /\ pc' = "lookup"
    /\ UNCHANGED <<local, up, disk, answer>>

Return ==
    /\ pc' = "idle"
    /\ local' = NoLocal

\* An existing disk is answered, whatever it is made of and wherever it is.
Lookup ==
    /\ pc = "lookup"
    /\ IF disk = NoDisk
         THEN pc' = "parameters" /\ UNCHANGED <<local, answer>>
         ELSE Return /\ answer' = disk.zone
    /\ UNCHANGED <<request, up, disk>>

ReadParameters ==
    /\ pc = "parameters"
    /\ \A k \in DOMAIN request.parameters : ToLower(k) \in KnownKeys
    /\ \E t \in ValuesOf(request.parameters, "type"),
          a \in ValuesOf(request.parameters, "accountingtype") :
         local' = [local EXCEPT !.type = t, !.accounting = a]
    /\ pc' = "zone"
    /\ UNCHANGED <<request, up, disk, answer>>

\* The zone of the controller's own instance is the last resort.
PickZone ==
    /\ pc = "zone"
    /\ \E zone \in Zones \cup {NoZone} :
         /\ pickAvailabilityZone(request.requirement, zone)
         /\ zone = NoZone => Own \in up
         /\ local' = [local EXCEPT
                        !.zone = IF zone = NoZone THEN ZoneOf[Own] ELSE zone]
    /\ pc' = "helper"
    /\ UNCHANGED <<request, up, disk, answer>>

\* listInstancesByZone; the first of the list is any of the zone.
FindHelper ==
    /\ pc = "helper"
    /\ \E i \in up :
         /\ ZoneOf[i] = local.zone
         /\ local' = [local EXCEPT !.helper = i]
    /\ VolumeTypesFor(local.type) # {}
    /\ AccountingTypesFor(local.accounting) # {}
    /\ pc' = "create"
    /\ UNCHANGED <<request, up, disk, answer>>

\* The cloud puts the disk where the instance is that it is attached to.
CreateOnCloud ==
    /\ pc = "create"
    /\ local.helper \in up
    /\ \E t \in VolumeTypesFor(local.type), a \in AccountingTypesFor(local.accounting) :
         disk' = [zone |-> ZoneOf[local.helper], type |-> t, accounting |-> a]
    /\ pc' = "wait"
    /\ UNCHANGED <<request, local, up, answer>>

\* After both waits the answer has the zone the cloud has told.
Answer ==
    /\ pc = "wait"
    /\ Return
    /\ answer' = disk.zone
    /\ UNCHANGED <<request, up, disk>>

\* Refused, or failed: a disk that is made already stays.
Fail ==
    /\ pc # "idle"
    /\ Return
    /\ UNCHANGED <<request, up, disk, answer>>

DeleteVolume ==
    /\ pc = "idle"
    /\ answer # NoZone
    /\ disk' = NoDisk
    /\ answer' = NoZone
    /\ UNCHANGED <<request, pc, local, up>>

\* Instances are started and stopped.
Switch(i) ==
    /\ up' = IF i \in up THEN up \ {i} ELSE up \cup {i}
    /\ UNCHANGED <<request, pc, local, disk, answer>>

Next ==
    \/ CreateVolume \/ Lookup \/ ReadParameters \/ PickZone
    \/ FindHelper \/ CreateOnCloud \/ Answer \/ Fail
    \/ DeleteVolume
    \/ \E i \in Instances : Switch(i)

Spec == Init /\ [][Next]_vars

-----------------------------------------------------------------------------
(* Correctness.                                                            *)

\* The types a volume may be made of when asked for a type, as README.md
\* lists them: itself, one of its variants, or the default.
Variants ==
    {<<"high-speed", "high-speed-a">>, <<"high-speed", "high-speed-b">>,
     <<"standard-flash", "standard-flash-a">>, <<"standard-flash", "standard-flash-b">>,
     <<"high-speed-flash", "high-speed-flash-a">>,
     <<"high-speed-flash", "high-speed-flash-b">>,
     <<"", "standard-flash-a">>}

\* However often the creation is cut off and asked for again, there is a disk
\* only if all of the request is supported, and it is of the type and accounting
\* type asked for: what is refused leaves no disk behind that a retry answers.
MadeAsAsked ==
    disk # NoDisk =>
        /\ request.modes = {Writer}
        /\ \A k \in DOMAIN request.parameters : ToLower(k) \in KnownKeys
        /\ \E t \in ValuesOf(request.parameters, "type") :
              disk.type = t \/ <<t, disk.type>> \in Variants
        /\ \E a \in ValuesOf(request.parameters, "accountingtype") :
              disk.accounting = IF a = "" THEN "hourly" ELSE a

\* Where the requirement lets the disk be: in a zone it lists, or anywhere if it
\* lists none.  The empty zone is taken for that of the controller.
AllowedZones ==
    LET zones == Listed(request.requirement.requisite)
    IN  IF zones = {} THEN Zones
        ELSE (zones \ {NoZone}) \cup (IF NoZone \in zones THEN {ZoneOf[Own]} ELSE {})

\* A volume that was answered is where the answer says, and in a zone the CO
\* has listed, if it has listed any, whichever attempt has made the disk and
\* whichever instances were there.
AccessibleAsRequired ==
    answer # NoZone =>
        /\ disk # NoDisk
        /\ disk.zone = answer
        /\ answer \in AllowedZones

CreatePCs == {"parameters", "zone", "helper", "create"}

\* Why: what the locals are at each step, and that every disk, answered or
\* not, is where the requirement allows.
ProvisioningInv ==
    /\ request \in Requests
    /\ pc \in {"idle", "lookup", "wait"} \cup CreatePCs
    /\ local \in Locals
    /\ up \subseteq Instances
    /\ answer \in Zones \cup {NoZone}
    /\ pc # "idle" => request.modes = {Writer}
    /\ pc \in CreatePCs => disk = NoDisk
    /\ pc \in {"zone", "helper", "create"} =>
          /\ \A k \in DOMAIN request.parameters : ToLower(k) \in KnownKeys
          /\ local.type \in ValuesOf(request.parameters, "type")
          /\ local.accounting \in ValuesOf(request.parameters, "accountingtype")
    /\ pc \in {"helper", "create"} => local.zone \in AllowedZones
    /\ pc = "create" => local.helper \in Instances /\ ZoneOf[local.helper] = local.zone
    /\ disk \in Disks \cup {NoDisk}
    /\ pc = "wait" => disk # NoDisk
    /\ disk # NoDisk => disk.zone \in AllowedZones
    /\ answer # NoZone => disk # NoDisk /\ disk.zone = answer
    /\ MadeAsAsked

=============================================================================
