SPECIFICATION Spec
CONSTANTS
    r1 = r1
    r2 = r2
    Replicas = {r1, r2}
    Leaders <- OneLeader
    Ops = {"create", "delete", "publish", "unpublish", "expand"}
    Faults = {"timeout", "late", "restart"}
    Volumes = {v1}
    Names = {pvcA}
    Instances = {n1}
    Strangers = {}
    Calls = {c1, c2, c3}
    MaxUnits = 5
    CreateSizes = {1}
    ExpandSizes = {1, 2, 3}
    MaxExpands = 3
    NoName = NoName
    NoInstance = NoInstance
    NoVolume = NoVolume
    NoReplica = NoReplica
    NoLock = NoLock
    Observed = n1
SYMMETRY Symmetry
INVARIANTS
    OvershootBounded
