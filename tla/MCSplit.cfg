SPECIFICATION Spec
CONSTANTS
    r1 = r1
    r2 = r2
    Replicas = {r1, r2}
    Leaders <- SplitLeaders
    Ops = {"create", "delete", "publish", "unpublish"}
    Faults = {"timeout", "api", "restart"}
    Volumes = {v1, v2}
    Names = {pvcA, pvcB}
    Instances = {n1, n2}
    Strangers = {gone}
    Calls = {c1, c2, c3}
    MaxUnits = 1
    CreateSizes = {1}
    ExpandSizes = {1}
    MaxExpands = 0
    NoName = NoName
    NoInstance = NoInstance
    NoVolume = NoVolume
    NoReplica = NoReplica
    NoLock = NoLock
    Observed = n1
SYMMETRY SymmetryButInstances
INVARIANTS
    TypeOK
    DisksPerNameBounded
    PublishedStaysAttached
    NoWaitInVain
    OneLeaderInv
PROPERTY
    ImplementsAttachment
