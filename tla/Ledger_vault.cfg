SPECIFICATION Spec
CONSTANTS
    Key = {1, 2, 3, 5}
    index_of <- MCIndex
    Depth = 2
    SegSlots = 1000
    BalCap = 16
    BalMax = 15
    U128 = 64
    NonceMod = 8
    Genesis <- MCGenesis
    Entry <- MCEntry
    Tx <- MCTx
    TxRank <- MCTxRank
    RingSize = 2
    MaxFolds = 2
    MaxCommits = 2
    MaxQueue = 2
CHECK_DEADLOCK FALSE
INVARIANTS TypeOK Conserved ReplayOnce OpeningsDecide
PROPERTIES CommittedImmutable VaultIsMap
