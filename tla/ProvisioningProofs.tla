-------------------------- MODULE ProvisioningProofs --------------------------
(***************************************************************************)
(* A volume is made as it was asked for, and where the requirement allows, *)
(* for every value of the constants, with a CO that asks again for what it *)
(* has asked for.                                                          *)
(***************************************************************************)
EXTENDS Provisioning, TLAPS, SequenceTheorems

USE ProvisioningAssumption, NoDiskAssumption

-----------------------------------------------------------------------------
(* The pure parts.                                                         *)

Elements(list) == {list[i] : i \in DOMAIN list}

LEMMA ConcatElements ==
    ASSUME NEW S, NEW a \in Seq(S), NEW b \in Seq(S)
    PROVE  Elements(a \o b) = Elements(a) \cup Elements(b)
<1>1. /\ DOMAIN a = 1..Len(a) /\ Len(a) \in Nat
      /\ DOMAIN b = 1..Len(b) /\ Len(b) \in Nat
  OBVIOUS
<1>2. DOMAIN (a \o b) = 1..(Len(a) + Len(b))
  BY ConcatProperties
<1>3. \A i \in 1..(Len(a) + Len(b)) :
         (a \o b)[i] = IF i <= Len(a) THEN a[i] ELSE b[i - Len(a)]
  BY ConcatProperties
<1>4. Elements(a \o b) \subseteq Elements(a) \cup Elements(b)
  BY <1>1, <1>2, <1>3 DEF Elements
<1>5. ASSUME NEW i \in DOMAIN a
      PROVE  a[i] \in Elements(a \o b)
  BY <1>1, <1>2, <1>3 DEF Elements
<1>6. ASSUME NEW i \in DOMAIN b
      PROVE  b[i] \in Elements(a \o b)
  <2>1. i + Len(a) \in 1..(Len(a) + Len(b)) /\ ~(i + Len(a) <= Len(a))
    BY <1>1
  <2>2. (a \o b)[i + Len(a)] = b[i]
    BY <1>1, <1>3, <2>1
  <2> QED
    BY <1>2, <2>1, <2>2 DEF Elements
<1> QED
  BY <1>4, <1>5, <1>6 DEF Elements

\* The zone picked is one of the requirement, or none is listed there.
LEMMA PickedIsRequired ==
    ASSUME NEW r \in Requirements, NEW zone, pickAvailabilityZone(r, zone)
    PROVE  \/ zone \in Listed(r.requisite)
           \/ zone = NoZone /\ Listed(r.requisite) = {}
<1> DEFINE all == r.preferred \o r.requisite
<1>1. /\ r.preferred \in Seq(Zones \cup {NoZone, NoKey})
      /\ r.requisite \in Seq(Zones \cup {NoZone, NoKey})
      /\ Listed(r.preferred) \subseteq Listed(r.requisite)
  BY DEF Requirements, Topologies
<1> HIDE DEF all
<1>2. Elements(all) = Elements(r.preferred) \cup Elements(r.requisite)
  BY <1>1, ConcatElements DEF all
<1>3. IsFirstZone(all, zone)
  BY DEF pickAvailabilityZone, all
<1>4. CASE zone = NoZone /\ \A i \in DOMAIN all : all[i] = NoKey
  <2>1. Elements(all) \subseteq {NoKey}
    BY <1>4 DEF Elements
  <2> QED
    BY <1>2, <1>4, <2>1 DEF Listed, Elements
<1>5. CASE \E i \in DOMAIN all : all[i] = zone /\ zone # NoKey
  <2>1. zone \in Elements(all) /\ zone # NoKey
    BY <1>5 DEF Elements
  <2>2. zone \in Listed(r.preferred) \cup Listed(r.requisite)
    BY <1>2, <2>1 DEF Listed, Elements
  <2> QED
    BY <1>1, <2>2
<1> QED
  BY <1>3, <1>4, <1>5 DEF IsFirstZone

\* Whatever is sent to the cloud is what was asked for.
LEMMA TypeIsAsked ==
    ASSUME NEW t, NEW made \in VolumeTypesFor(t)
    PROVE  /\ made \in VolumeTypeMapping
           /\ made = t \/ <<t, made>> \in Variants
<1>1. CASE t \in VolumeTypeMapping
  <2>1. VolumeTypesFor(t) = {t}
    <3>1. t # "high-speed" /\ t # "standard-flash" /\ t # "high-speed-flash" /\ t # ""
      BY <1>1 DEF VolumeTypeMapping
    <3> QED
      BY <1>1, <3>1 DEF VolumeTypesFor
  <2> QED
    BY <1>1, <2>1
<1>2. CASE t \notin VolumeTypeMapping /\ t = "high-speed"
  <2>1. made = "high-speed-a" \/ made = "high-speed-b"
    BY <1>2 DEF VolumeTypesFor
  <2> QED
    BY <1>2, <2>1 DEF Variants, VolumeTypeMapping
<1>3. CASE t \notin VolumeTypeMapping /\ t = "standard-flash"
  <2>1. made = "standard-flash-a" \/ made = "standard-flash-b"
    BY <1>3 DEF VolumeTypesFor
  <2> QED
    BY <1>3, <2>1 DEF Variants, VolumeTypeMapping
<1>4. CASE t \notin VolumeTypeMapping /\ t = "high-speed-flash"
  <2>1. made = "high-speed-flash-a" \/ made = "high-speed-flash-b"
    BY <1>4 DEF VolumeTypesFor
  <2> QED
    BY <1>4, <2>1 DEF Variants, VolumeTypeMapping
<1>5. CASE t \notin VolumeTypeMapping /\ t = ""
  <2>1. made = "standard-flash-a"
    BY <1>5 DEF VolumeTypesFor
  <2> QED
    BY <1>5, <2>1 DEF Variants, VolumeTypeMapping
<1> QED
  BY <1>1, <1>2, <1>3, <1>4, <1>5 DEF VolumeTypesFor

LEMMA AccountingIsAsked ==
    ASSUME NEW a, NEW made \in AccountingTypesFor(a)
    PROVE  made \in AccountingTypes /\ made = IF a = "" THEN "hourly" ELSE a
<1>1. CASE a \in AccountingTypes
  <2>1. a # ""
    BY <1>1 DEF AccountingTypes
  <2> QED
    BY <1>1, <2>1 DEF AccountingTypesFor
<1>2. CASE a \notin AccountingTypes /\ a = ""
  <2>1. made = "hourly"
    BY <1>2 DEF AccountingTypesFor
  <2> QED
    BY <1>2, <2>1 DEF AccountingTypes
<1> QED
  BY <1>1, <1>2 DEF AccountingTypesFor

-----------------------------------------------------------------------------
(* The invariant.                                                          *)

\* The value of a key is one of the map, whatever its spelling, or "".
LEMMA ValuesAreGiven ==
    ASSUME NEW params \in Parameters, NEW key, NEW t \in ValuesOf(params, key)
    PROVE  t \in ParameterValues
<1> DEFINE spelt == {k \in DOMAIN params : ToLower(k) = key}
<1> HIDE DEF spelt
<1>1. spelt \subseteq DOMAIN params
  BY DEF spelt
<1>2. t \in IF spelt = {} THEN {""} ELSE {params[k] : k \in spelt}
  BY DEF ValuesOf, spelt
<1>3. CASE t = ""
  BY <1>3 DEF ParameterValues
<1>4. CASE t \in {params[k] : k \in DOMAIN params}
  <2>1. {params[k] : k \in DOMAIN params} \in {{p[k] : k \in DOMAIN p} : p \in Parameters}
    BY Zenon
  <2> QED
    BY <1>4, <2>1, Zenon DEF ParameterValues
<1> QED
  BY <1>1, <1>2, <1>3, <1>4

LEMMA NoLocalTyped == NoLocal \in Locals
  BY DEF NoLocal, Locals, ParameterValues

LEMMA InitProvisioned == Init => ProvisioningInv
<1>1. ASSUME Init PROVE request \in Requests /\ local \in Locals
  BY <1>1, NoLocalTyped DEF Init
<1> QED
  BY <1>1 DEF Init, ProvisioningInv, MadeAsAsked, CreatePCs

LEMMA NextProvisioned ==
    ASSUME ~Moves, ProvisioningInv, [Next]_vars
    PROVE  ProvisioningInv'
<1> USE DEF ProvisioningInv, CreatePCs
<1>0. NoLocal \in Locals
  BY NoLocalTyped
<1>1. CASE CreateVolume
  BY <1>1 DEF CreateVolume, MadeAsAsked, AllowedZones, isValidVolumeCapabilities
<1>2. CASE Lookup
  <2>1. disk # NoDisk => disk.zone \in Zones
    BY DEF Disks
  <2>2. CASE disk = NoDisk
    BY <1>2, <2>2 DEF Lookup, MadeAsAsked, AllowedZones
  <2>3. CASE disk # NoDisk
    BY <1>0, <1>2, <2>1, <2>3 DEF Lookup, Return, MadeAsAsked, AllowedZones
  <2> QED
    BY <2>2, <2>3
<1>3. CASE ReadParameters
  <2>1. PICK t \in ValuesOf(request.parameters, "type"),
             a \in ValuesOf(request.parameters, "accountingtype") :
           local' = [local EXCEPT !.type = t, !.accounting = a]
    BY <1>3 DEF ReadParameters
  <2>2. t \in ParameterValues /\ a \in ParameterValues
    BY ValuesAreGiven DEF Requests
  <2>3. local' \in Locals /\ local'.type = t /\ local'.accounting = a
    BY <2>1, <2>2 DEF Locals
  <2> QED
    BY <1>3, <2>3 DEF ReadParameters, MadeAsAsked, AllowedZones
<1>4. CASE PickZone
  <2>1. PICK zone \in Zones \cup {NoZone} :
           /\ pickAvailabilityZone(request.requirement, zone)
           /\ local' = [local EXCEPT
                          !.zone = IF zone = NoZone THEN ZoneOf[Own] ELSE zone]
    BY <1>4 DEF PickZone
  <2>2. \/ zone \in Listed(request.requirement.requisite)
        \/ zone = NoZone /\ Listed(request.requirement.requisite) = {}
    BY <2>1, PickedIsRequired DEF Requests
  <2>3. /\ local' \in Locals
        /\ local'.type = local.type /\ local'.accounting = local.accounting
        /\ local'.zone = IF zone = NoZone THEN ZoneOf[Own] ELSE zone
    BY <2>1 DEF Locals
  <2>4. local'.zone \in AllowedZones
    BY <2>2, <2>3 DEF AllowedZones
  <2> QED
    BY <1>4, <2>3, <2>4 DEF PickZone, MadeAsAsked, AllowedZones
<1>5. CASE FindHelper
  <2>1. PICK i \in up : ZoneOf[i] = local.zone /\ local' = [local EXCEPT !.helper = i]
    BY <1>5 DEF FindHelper
  <2>2. /\ local' \in Locals
        /\ local'.type = local.type /\ local'.accounting = local.accounting
        /\ local'.zone = local.zone /\ local'.helper = i
    BY <2>1 DEF Locals
  <2> QED
    BY <1>5, <2>1, <2>2 DEF FindHelper, MadeAsAsked, AllowedZones
<1>6. CASE CreateOnCloud
  <2>1. PICK t \in VolumeTypesFor(local.type), a \in AccountingTypesFor(local.accounting) :
           disk' = [zone |-> ZoneOf[local.helper], type |-> t, accounting |-> a]
    BY <1>6 DEF CreateOnCloud
  <2>2. t \in VolumeTypeMapping /\ (t = local.type \/ <<local.type, t>> \in Variants)
    BY TypeIsAsked
  <2>3. /\ a \in AccountingTypes
        /\ a = IF local.accounting = "" THEN "hourly" ELSE local.accounting
    BY AccountingIsAsked
  <2>4. disk' \in Disks /\ disk' # NoDisk /\ disk'.zone \in AllowedZones
    <3>1. ZoneOf[local.helper] \in Zones /\ ZoneOf[local.helper] \in AllowedZones
      BY <1>6 DEF CreateOnCloud
    <3>2. disk' \in Disks /\ disk'.zone = ZoneOf[local.helper]
      BY <2>1, <2>2, <2>3, <3>1 DEF Disks
    <3> QED
      BY <3>1, <3>2, <1>6 DEF CreateOnCloud, AllowedZones
  <2>5. MadeAsAsked'
    BY <1>6, <2>1, <2>2, <2>3 DEF CreateOnCloud, MadeAsAsked
  <2>6. answer = NoZone
    BY <1>6 DEF CreateOnCloud
  <2> QED
    BY <1>6, <2>4, <2>5, <2>6 DEF CreateOnCloud, AllowedZones
<1>7. CASE Answer
  <2>1. disk # NoDisk /\ disk.zone \in Zones
    BY <1>7 DEF Answer, Disks
  <2> QED
    BY <1>0, <1>7, <2>1 DEF Answer, Return, MadeAsAsked, AllowedZones
<1>8. CASE Fail
  BY <1>0, <1>8 DEF Fail, Return, MadeAsAsked, AllowedZones
<1>9. CASE DeleteVolume
  BY <1>9 DEF DeleteVolume, MadeAsAsked, AllowedZones
<1>10. ASSUME NEW i \in Instances, Switch(i)
       PROVE  ProvisioningInv'
  BY <1>10 DEF Switch, MadeAsAsked, AllowedZones
<1>11. CASE UNCHANGED vars
  BY <1>11 DEF vars, MadeAsAsked, AllowedZones
<1> QED
  BY <1>1, <1>2, <1>3, <1>4, <1>5, <1>6, <1>7, <1>8, <1>9, <1>10, <1>11 DEF Next

\* With a CO that keeps its requirement, every disk of the name is what the
\* request asks for and where its requirement allows, at every step of every
\* attempt.
THEOREM Provisioned == ASSUME ~Moves PROVE Spec => []ProvisioningInv
<1>1. ProvisioningInv /\ [Next]_vars => ProvisioningInv'
  BY NextProvisioned
<1> QED
  BY InitProvisioned, <1>1, PTL DEF Spec

\* A volume answered is where the answer says and the requirement allows.
THEOREM AnswersAccessible == ASSUME ~Moves PROVE Spec => []AccessibleAsRequired
<1>1. ProvisioningInv => AccessibleAsRequired
  BY DEF ProvisioningInv, AccessibleAsRequired, AllowedZones
<1> QED
  BY <1>1, Provisioned, PTL

\* A disk of the name is of the types asked for, and there is none for a request
\* that is not supported.
THEOREM VolumesAsAsked == ASSUME ~Moves PROVE Spec => []MadeAsAsked
<1>1. ProvisioningInv => MadeAsAsked
  BY DEF ProvisioningInv
<1> QED
  BY <1>1, Provisioned, PTL

=============================================================================
