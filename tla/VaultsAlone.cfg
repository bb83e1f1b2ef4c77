SPECIFICATION Spec
CONSTANTS
  Procs = {p1}
  Addresses = {a1}
  Passwords = {w1, w2}
  Nonces = {n1, n2, n3}
  Ops <- EveryOp
  MaxMishaps = 2
  NoFile = NoFile
  NoStage = NoStage
  Torn = Torn
  Absent = Absent
  Nobody = Nobody
INVARIANTS WholeVaults QuietTold RowsFollow SettleCleans
PROPERTIES KeepsPromise
