SPECIFICATION SyncSpec
CONSTANTS
  t1 = t1
  t2 = t2
  note = note
  laptop = laptop
  e1 = e1
  e2 = e2
  e3 = e3
  null = null
  Notes <- MCNotes
  Attachments = {}
  Mutations <- MCMutations
  Credentials <- MCCredentials
  ReadOnly = {}
  Envelopes <- MCEnvelopes
  Size <- MCSize
  NullSize = 1
  Requests <- MCFewRequests
  Limits <- MCLimits
  StageTtl = 1
  BundleLife = 1
  ReceiptTtl = 1
  MaxReceipts = 9
  MaxCompound = 1
  Null = null
  MaxTime = 0
  MaxInFlight = 1
  Tabs = {t1, t2}
  Key = note
  Owners <- MCOwners
  Drafts = {e1}
  Drawable <- MCDrawable
  MaxStops = 1
INVARIANT UnresolvedRemainPending
SYMMETRY TabSymmetry
