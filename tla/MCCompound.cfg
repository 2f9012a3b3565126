SPECIFICATION CompoundSpec
CONSTANTS
  t1 = t1
  t2 = t2
  note = note
  laptop = laptop
  d1 = d1
  d2 = d2
  s1 = s1
  s2 = s2
  other = other
  null = null
  Notes <- MCNotes
  Attachments <- MCAttachments
  Mutations <- MCMutations
  Credentials <- MCCredentials
  ReadOnly = {}
  Envelopes <- MCEnvelopes
  Size <- MCSize
  NullSize = 1
  Requests <- MCRequests
  Limits <- MCLimits
  StageTtl = 1
  BundleLife = 1
  ReceiptTtl = 2
  MaxReceipts = 9
  MaxCompound = 2
  Null = null
  MaxTime = 1
  MaxInFlight = 1
  Tabs = {t1}
  Key = note
  Owners <- MCOwners
  Drafts <- MCDrafts
  Lists <- MCLists
  Seals = {s1, s2}
  Drawable <- MCDrawable
  MaxStops = 1
INVARIANTS
  ResentExactly
  FinalizingRemains
  LetGoIsStored
CONSTRAINT FewFaults
SYMMETRY SealSymmetry
CHECK_DEADLOCK FALSE
