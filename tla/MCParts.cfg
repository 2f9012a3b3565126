SPECIFICATION MCSpec
CONSTANTS
  p1 = p1
  p2 = p2
  p3 = p3
  p4 = p4
  v = v
  w = w
  NoVault = NoVault
  NoProcess = NoProcess
SYMMETRY Symmetry
CONSTRAINT BytesBound
INVARIANTS
  UploadsSurvive
  PairingsAgree
  HoldersHaveTheLock
  ClipsArrive
  LimitsHold
  OpenIsStored
  SharesArrive
  PreviewsHold
PROPERTIES
  EpochsAndDeletions
  ImportsAreSafe
CHECK_DEADLOCK FALSE
