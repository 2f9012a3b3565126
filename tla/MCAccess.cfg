SPECIFICATION RoomyOrTight
CONSTANTS
  Null = Null
  Devices = {d1, d2, d3}
  Services = {s1, s2}
  Pairings = {p1, p2}
  Tokens = {t1, t2, t3}
  MaxDevices = 3
  MaxServices = 1
  MaxPending = 2
  PairingTtl = 1
  ReceiptTtl = 2
  MaxTime = 2
  MaxInFlight = 2
SYMMETRY Alike
INVARIANTS
  CountsHoldTight
  LineageHolds
  IdsReserved
  TokensUnique
  ConsumeIsRepeatable
PROPERTIES
  OnlyRecoveryReopens
