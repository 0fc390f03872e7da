SPECIFICATION Spec
CONSTANTS
    r1 = r1
    r2 = r2
    Replicas = {r1, r2}
    Leaders <- OneLeader
    Ops = {"create"}
    Faults = {"late"}
    Volumes = {v1, v2}
    Names = {pvcA}
    Instances = {n1}
    Strangers = {}
    Calls = {c1, c2}
    MaxUnits = 1
    CreateSizes = {1}
    ExpandSizes = {1}
    MaxExpands = 0
    NoName = NoName
    NoInstance = NoInstance
    NoVolume = NoVolume
    NoReplica = NoReplica
    NoLock = NoLock
    Observed = n1
PROPERTY MultiDisksReported
