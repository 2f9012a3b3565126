SPECIFICATION ReplicaSpec
CONSTANTS
  n1 = n1
  n2 = n2
  d1 = d1
  reader = reader
  plain = plain
  withA = withA
  bad = bad
  Null = Null
  Notes <- TwoNotes
  Attachments <- OneAttachment
  Mutations <- FourMutations
  Credentials <- Both
  ReadOnly = {reader}
  Envelopes <- AllEnvelopes
  Size <- Sizes
  NullSize = 1
  Requests <- LifeRequests
  Limits <- Roomy
  StageTtl = 1
  BundleLife = 2
  ReceiptTtl = 1
  MaxReceipts = 9
  MaxCompound = 1
  MaxTime = 0
  MaxInFlight = 1
  Reader = reader
  Images <- ImagesOf
  Unreadable = {bad}
  PageLimit = 2
  MaxStops = 1
INVARIANTS
  AcknowledgedIsApplied
  BasesAreCurrent
  ListedBytesAreStored
PROPERTIES
  CatchesUp
