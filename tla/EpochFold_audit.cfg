SPECIFICATION Spec
CONSTANTS
    K = 2
    SeenCap = 3
    ByteMod = 4
    PulseEvery = 2
    WireDecree = {1, 2}
    Runt = {2}
    HighDecree = {1}
    HighClaim = {2}
    WireHeader = {1}
    MaxWork = 2
    MaxEpoch = 2
INVARIANTS
    EveryClaimAudited
