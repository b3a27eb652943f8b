CONSTANTS
  Missing = Missing
  None = None
  c = c
  Media = {a, b, c}
  Hardware <- MCHardware
  Partitions <- MCPartitions
  Files = {f1, f2}
  FirstImages <- MCFirstImages
  FirstMedia <- MCFirstMedia
  Targets <- MCTargets
  NewKey = "k3"
  MaxExchanges = 2
  MaxMeddles = 1
  MaxOperations = 2

SPECIFICATION Spec

SYMMETRY Symmetry

PROPERTIES PlainRestoreClearsProtocol

CHECK_DEADLOCK FALSE
