SPECIFICATION Spec
CONSTANTS
    GiB = 2
    Unit = 5
    MaxUnits = 3
    MaxInt64 = 127
    Int32Modulus = 32
CHECK_DEADLOCK FALSE
INVARIANTS
    RoundUpIsCeiling
    CreateAnswersLeastDisk
    ExpandAnswersEnough
