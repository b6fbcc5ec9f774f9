SPECIFICATION LiveSpec
CONSTANTS
    K = 10
    SeenCap = 256
    ByteMod = 256
    PulseEvery = 1
    WireDecree = {}
    Runt = {}
    HighDecree = {}
    HighClaim = {}
    WireHeader = {}
    MaxWork = 0
    MaxEpoch = 30
PROPERTIES
    PulseAdvances
