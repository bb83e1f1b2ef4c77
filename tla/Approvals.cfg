SPECIFICATION Spec
CONSTANTS
  signerUi = signerUi
  terminal = terminal
  wallet = wallet
  dapp = dapp
  Names = {signerUi, terminal, wallet, dapp}
  Blank = Blank
  DefaultApprover = signerUi
  DefaultCustodian = signerUi
  Documents <- TwoSurfaces
  TierACallers <- TwoApprovers
  TierBCallers <- TwoRequesters
  Handles = {h1, h2}
  Bundles = {b1, b2}
  NoBundle = NoBundle
  OfferTTL = 1
  Retention = 1
  RequesterCap = 1
  TotalCap = 2
CHECK_DEADLOCK FALSE
SYMMETRY Symmetric
INVARIANTS TypeOK OnlyTheScreenIsRendered CapsHold
PROPERTIES SignsWhatIsOnScreen SignaturesSurvive AnswerIsKept KeepsPromise
