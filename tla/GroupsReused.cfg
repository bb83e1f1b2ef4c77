SPECIFICATION Spec
CONSTANTS
  Procs = {p1}
  Ids = {g1}
  Phrases = {w1}
  MaxIndex = 1
  MaxScan = 2
  Labels = {"name"}
  MaxMishaps = 1
  MaxRenaming = 2
  NoRecord = NoRecord
  NoRow = NoRow
  Ungrouped = Ungrouped
  Unminted = Unminted
INVARIANTS NeverReused
