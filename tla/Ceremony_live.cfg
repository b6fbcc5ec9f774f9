SPECIFICATION LiveSpec
CONSTANTS
  Node = {1, 2, 3}
  SelfMember <- PortMember
  Envelope = {1}
  Decree = {}
  Seed <- SeedAnchor
  Public = {}
  Mirror <- NoMirror
  MaxPeers = 32
  K = 1
  T = 2
  SortKey <- BeaconKey
  SeenCap = 8
  MaxEpoch = 1
  MaxFaults = 0
PROPERTY CeremonyCompletes
CHECK_DEADLOCK FALSE
