SPECIFICATION Spec
CONSTANTS
  a1 = a1
  g1 = g1
  n1 = n1
  Accounts = {a1}
  Groups = {g1}
  Imports = {n1}
  Nothing = Nothing
  Procs = {p1, p2}
  Paths <- SomePaths
  MaxEvents = 2
  NoCall = NoCall
SYMMETRY ProcSymmetry
INVARIANTS NothingHidden WorstCaseAssumed OwnWritesExplained
PROPERTIES AccountsSpared StagedKept NoDeadEnd
