SPECIFICATION Spec
CONSTANTS
    r1 = r1
    r2 = r2
    Replicas = {r1, r2}
    Leaders <- AnyLeader
    Ops = {"create", "delete", "publish", "unpublish", "expand"}
    Faults = {"timeout", "late", "restart"}
    Volumes = {v1}
    Names = {pvcA}
    Instances = {n1}
    Strangers = {}
    Calls = {c1, c2}
    MaxUnits = 2
    CreateSizes = {1}
    ExpandSizes = {2}
    MaxExpands = 1
    NoName = NoName
    NoInstance = NoInstance
    NoVolume = NoVolume
    NoReplica = NoReplica
    NoLock = NoLock
    Observed = n1
INVARIANTS
    KeyExclusive
    NoLeakedKey
PROPERTY
    ImplementsMutex
