SPECIFICATION FairSpec
CONSTANTS
  signerUi = signerUi
  terminal = terminal
  wallet = wallet
  dapp = dapp
  Names = {signerUi, wallet}
  Blank = Blank
  DefaultApprover = signerUi
  DefaultCustodian = signerUi
  Documents <- NobodyApproves
  TierACallers <- OneApprover
  TierBCallers <- OneRequester
  Handles = {h1, h2}
  Bundles = {b1}
  NoBundle = NoBundle
  OfferTTL = 1
  Retention = 1
  RequesterCap = 2
  TotalCap = 1
CHECK_DEADLOCK FALSE
PROPERTIES OfferIsAnswered OutcomeIsForgotten
