---------------------------- MODULE MCProvisioning ----------------------------
(* Instances of Provisioning for TLC.                                      *)
EXTENDS Provisioning, TLC

CONSTANTS i1, i2, i3, z1, z2

\* The controller runs in the zone with one more instance.
TwoZones == i1 :> z1 @@ i2 :> z1 @@ i3 :> z2

\* A plain type, one that is a group, an unknown one; a key in two spellings;
\* a key that is unknown.
ParameterMaps ==
    {<<>>, "fstype" :> "ext4", "size" :> "1",
     "accountingType" :> "monthly", "accountingType" :> "weekly"}
      \cup {"type" :> t : t \in {"flash", "high-speed", "bogus"}}
      \cup {"type" :> t @@ "Type" :> "standard" : t \in {"high-speed-flash", "bogus"}}

=============================================================================
