SPECIFICATION Spec
CONSTANTS
    i1 = i1
    i2 = i2
    i3 = i3
    z1 = z1
    z2 = z2
    Instances = {i1, i2, i3}
    Zones = {z1, z2}
    ZoneOf <- TwoZones
    Own = i1
    NoZone = NoZone
    NoKey = NoKey
    NoDisk = NoDisk
    Modes = {writer, reader}
    Writer = writer
    Parameters <- ParameterMaps
    MaxTopologies = 2
    Moves = FALSE
INVARIANTS
    MadeAsAsked
    AccessibleAsRequired
    ProvisioningInv
