SPECIFICATION CompoundSpec
CONSTANTS
  t1 = t1
  t2 = t2
  note = note
  laptop = laptop
  d1 = d1
  d2 = d2
  s1 = s1
  s2 = s2
  other = other
  null = null
  Notes <- MCNotes
  Attachments = {11}
  Mutations <- MCMutations
  Credentials <- MCCredentials
  ReadOnly = {}
  Envelopes <- MCEnvelopes
  Size <- MCSize
  NullSize = 1
  Requests <- MCRequests
  Limits <- MCLimits
  StageTtl = 1
  BundleLife = 1
  ReceiptTtl = 2
  MaxReceipts = 9
  MaxCompound = 2
  Null = null
  MaxTime = 0
  MaxInFlight = 1
  Tabs = {t1, t2}
  Key = note
  Owners = {1}
  Drafts <- MCDrafts
  Lists <- MCOneAttachment
  Seals = {s1, s2}
  Drawable <- MCDrawable
  MaxStops = 0
INVARIANT EditsAreDelivered
SYMMETRY TabSymmetry
CHECK_DEADLOCK FALSE
