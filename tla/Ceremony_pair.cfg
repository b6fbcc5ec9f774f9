SPECIFICATION CrashSpec
CONSTANTS
  Node = {1, 2}
  SelfMember <- PortMember
  Envelope = {1, 2}
  Decree = {101}
  Seed <- SeedAnchor
  Public = {1}
  Mirror <- NoMirror
  MaxPeers = 32
  K = 2
  T = 2
  SortKey <- BeaconKey
  SeenCap = 8
  MaxEpoch = 2
  MaxFaults = 1
INVARIANT TypeOK
INVARIANT KnowledgeAfterCommit
INVARIANT PoolOfThisEpoch
