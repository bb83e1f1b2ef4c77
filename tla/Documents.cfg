SPECIFICATION FairSpec
CONSTANTS
  Procs = {p1, p2}
  Docs = {d1}
  Marks = {m1, m2}
  MaxMishaps = 2
  Missing = Missing
  Torn = Torn
  Damaged = Damaged
  NoFile = NoFile
  Nobody = Nobody
INVARIANTS Exclusive WholeDocuments AcceptedIsCommitted
PROPERTIES UpdatesEnd DamagedIsKept KeepsPromise
