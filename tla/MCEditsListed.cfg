\* One tab and no fault, against the promise without a condition.
SPECIFICATION EditsSpec
CONSTANTS
  t1 = t1
  Tabs = {t1}
  MaxEdits = 2
  MaxForeign = 0
  MaxFaults = 0
  MaxEvents = 4
  Faults = {}
INVARIANT SavedEditsAlwaysKept
CHECK_DEADLOCK FALSE
