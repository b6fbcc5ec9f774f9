SPECIFICATION Spec
CONSTANTS
    Peer = {2, 3}
    Byzantine = {3}
    Pref = {0, 1, 2}
    SelfWeight = 6
    Static <- MCStatic
    SeedPeer = {2}
    DefaultWeight = 3
    Fds = {4, 5}
    PortOf <- MCPortOf
    MaxPeers = 2
    MsgsPerWindow = 1
    Alpha = 7500
    Phi = 5000
    Beta = 2
    StallLimit = 2
    Wrap = 256
    MaxRound = 3
    MaxEpoch = 1
    Statements <- MCStatements
    MaxOpens = 1
    StatedRounds = {0, 1}
    Announced = {3}
    Reporter = {2}
    LegacyVoter = {3}
    BatchCap = 1
CHECK_DEADLOCK FALSE
INVARIANTS TypeOK TeardownForgets SlashSound TotalExact VoiceCurrent BatchesMatch ReceiptsDistinct SuspensionEnds
