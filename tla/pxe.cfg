SPECIFICATION Spec
CONSTANTS
    b1 = b1
    b2 = b2
    b3 = b3
    cos = cos
    ubuntu = ubuntu
    NoPick = NoPick
    NoBoot = NoBoot
    Boots = {b1, b2, b3}
    Images = {cos, ubuntu}
    MaxFaults = 1
INVARIANTS PxeTypeOK Exclusive BootsThePick PutBack
SYMMETRY PxeSymmetry
CHECK_DEADLOCK FALSE
