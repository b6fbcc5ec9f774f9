SPECIFICATION Spec
PROPERTIES
  ArithmeticExact
  ThresholdShares
  ProofsExact
  FoldsExact
  CircuitsExact
  WorkProven
  EnvelopesOpen
  WireExact
  SamplingExact
