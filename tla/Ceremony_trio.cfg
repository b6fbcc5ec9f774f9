SPECIFICATION Spec
CONSTANTS
  Node = {1, 2, 3}
  SelfMember <- PortMember
  Envelope = {1, 2}
  Decree = {}
  Seed <- SeedAnchor
  Public = {}
  Mirror <- NoMirror
  MaxPeers = 32
  K = 1
  T = 2
  SortKey <- BeaconKey
  SeenCap = 8
  MaxEpoch = 1
  MaxFaults = 0
INVARIANT NoTwoOrders
INVARIANT LockIntegrity
INVARIANT LockOfProcesses
INVARIANT LockAgreement
PROPERTY LockStable
CHECK_DEADLOCK FALSE
