SPECIFICATION Spec
CONSTANTS
    Key <- Keys
    Split = {s1, s2, s3, s4, s5}
    NULL = NULL
    MaxBlocks = 1
    MaxHeld = 4
INVARIANTS KeyPointersLive
