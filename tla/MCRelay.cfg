SPECIFICATION MCSpec
CONSTANTS
  n1 = n1
  d1 = d1
  d2 = d2
  ro = ro
  e1 = e1
  e2 = e2
  Null = Null
  Notes <- OneNote
  Attachments <- TwoAttachments
  Mutations <- ThreeMutations
  Credentials <- AllCredentials
  ReadOnly = {ro}
  Envelopes = {e1, e2}
  Size <- Sizes
  NullSize = 1
  Requests <- EveryRequest
  Limits <- EveryLimit
  StageTtl = 2
  BundleLife = 3
  ReceiptTtl = 1
  MaxReceipts = 2
  MaxCompound = 2
  MaxTime = 3
  MaxInFlight = 1
INVARIANTS
  RevisionsUnique
  OneAnswer
  AttachmentsHaveNotes
  BundlesWhole
  StagesAgree
PROPERTIES
  WritersAreAuthorized
  ReceiptsRetained
  QuotaHolds
  ImplementsVault
SYMMETRY Symmetry
