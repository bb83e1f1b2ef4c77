SPECIFICATION PeersSpec
CONSTANTS
  Procs = {p1, p2}
  Addresses = {a1}
  Passwords = {w1, w2}
  Nonces = {}
  Ops <- Changes
  MaxMishaps = 1
  NoFile = NoFile
  NoStage = NoStage
  Torn = Torn
  Absent = Absent
  Nobody = Nobody
INVARIANTS QuietTold QuietClean
SYMMETRY AnyProc
PROPERTY CallsEnd
