SPECIFICATION Spec
CONSTANTS
    r1 = r1
    r2 = r2
    Replicas = {r1, r2}
    Leaders <- OneLeader
    Ops = {"create", "delete", "publish", "unpublish", "expand"}
    Faults = {}
    Volumes = {v1}
    Names = {pvcA}
    Instances = {n1}
    Strangers = {}
    Calls = {c1}
    MaxUnits = 3
    CreateSizes = {1}
    ExpandSizes = {1, 2}
    MaxExpands = 2
    NoName = NoName
    NoInstance = NoInstance
    NoVolume = NoVolume
    NoReplica = NoReplica
    NoLock = NoLock
    Observed = n1
INVARIANT NoNeedlessExtend
