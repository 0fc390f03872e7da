SPECIFICATION FairSpec
CONSTANTS
    r1 = r1
    r2 = r2
    Replicas = {r1, r2}
    Leaders <- SplitLeaders
    Ops = {"create", "delete", "publish", "unpublish"}
    Faults = {}
    Volumes = {v1, v2}
    Names = {pvcA}
    Instances = {n1, n2}
    Strangers = {gone}
    Calls = {c1, c2}
    MaxUnits = 2
    CreateSizes = {1, 2}
    ExpandSizes = {1}
    MaxExpands = 0
    NoName = NoName
    NoInstance = NoInstance
    NoVolume = NoVolume
    NoReplica = NoReplica
    NoLock = NoLock
    Observed = n1
PROPERTIES
    HandlersReturn
    CreateAnswersAvailable
