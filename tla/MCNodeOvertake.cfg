SPECIFICATION Spec
CONSTANTS
    Node = node
    Replicas = {node}
    NoReplica = NoReplica
    Volumes = {v1, v2, v3}
    Blocks = {v3}
    Slots = {s1, s2}
    Devs = {sdb, sdc, sdd}
    Targets = {t1}
    Staging = Staging
    NoVolume = NoVolume
    NoSlot = NoSlot
    NoDev = NoDev
    NoLock = NoLock
    Calls = {c1, c2}
    LateOps = {"stage"}
    Faults = {}
    MaxStack = 2
SYMMETRY Symmetry
INVARIANT
    UnstageSeesOperation
