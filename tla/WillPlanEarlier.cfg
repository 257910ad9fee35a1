SPECIFICATION Spec
INVARIANTS EarlierTxIsVoid
CONSTANTS
  heir1 = heir1
  heir2 = heir2
  we1 = we1
  we2 = we2
  fee1 = fee1
  fee2 = fee2
  NoExecutor = NoExecutor
  HeirSets <- OneOrBoth
  Executors = {we1}
  Recipes <- LateDates
  FeeRates = {fee1}
  MaxDay = 0
  MaxCoins = 3
  MaxEdits = 2
  MaxElsewhere = 0
  MaxRuns = 3
  MaxMenu = 0
SYMMETRY Symmetry
CHECK_DEADLOCK FALSE
