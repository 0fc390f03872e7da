SPECIFICATION Spec
CONSTANTS
    r1 = r1
    r2 = r2
    Replicas = {r1, r2}
    Leaders <- AnyLeader
    Ops = {"create", "delete"}
    Faults = {"timeout", "api", "restart"}
    Volumes = {v1, v2, v3}
    Names = {pvcA}
    Instances = {n1}
    Strangers = {gone}
    Calls = {c1, c2, c3}
    MaxUnits = 2
    CreateSizes = {1, 2}
    ExpandSizes = {1}
    MaxExpands = 0
    NoName = NoName
    NoInstance = NoInstance
    NoVolume = NoVolume
    NoReplica = NoReplica
    NoLock = NoLock
    Observed = n1
SYMMETRY Symmetry
INVARIANTS
    DisksPerNameBounded
PROPERTY
    ImplementsNaming
