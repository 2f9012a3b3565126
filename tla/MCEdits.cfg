\* One tab and two, all faults (MCEdits.Reduced trims two tabs).
SPECIFICATION EditsSpec
CONSTANTS
  t1 = t1
  t2 = t2
  Tabs = {t1, t2}
  MaxEdits = 2
  MaxForeign = 1
  MaxFaults = 1
  MaxEvents = 4
  Faults = {"save", "copy", "push", "close", "leave"}
INVARIANTS
  SavedEditsKept
PROPERTY NothingOverwritten
CHECK_DEADLOCK FALSE
SYMMETRY TabsSymmetric
CONSTRAINTS
  Reduced
  Asked
