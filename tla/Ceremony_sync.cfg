SPECIFICATION Spec
CONSTANTS
  Node = {1, 2}
  SelfMember <- PortMember
  Envelope = {1}
  Decree = {101}
  Seed <- SeedAnchor
  Public = {}
  Mirror <- NoMirror
  MaxPeers = 32
  K = 1
  T = 2
  SortKey <- BeaconKey
  SeenCap = 8
  MaxEpoch = 1
  MaxFaults = 1
PROPERTY SharesUnderLock
