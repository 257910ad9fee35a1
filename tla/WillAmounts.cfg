SPECIFICATION Spec
SYMMETRY Same
INVARIANTS AllAndNoMore FixedHeirsKept Settles ReasonGiven
CONSTANTS
  ann = ann
  bob = bob
  cora = cora
  Names = {ann, bob, cora}
  Shares <- MCShares
  Wallets <- MCWallets
  Choices <- MCChoices
  FeeRate = 1
  Dust = 3
  Precision = 40
  MaxRounds = 10
CHECK_DEADLOCK FALSE
