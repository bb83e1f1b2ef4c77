SPECIFICATION Spec
CONSTANTS
  U64 = 2
  U128 = 3
  U256 = 4
  Requests <- SomeRequests
  Hardened = 3
  Purpose = 1
  CoinType = 2
  Texts <- SomeTexts
  MaxLogN = 3
  MaxR = 9
  MaxP = 3
  MaxC = 3
  MaxMemory = 144
  Block = 2
  Top = 255
  Numbers = {0, 1, 3, 4, 8, 9, 10, 16, 32}
INVARIANTS ScreenMeansPayload CommitmentBinds PathsNameTheirKey WorkIsBounded
