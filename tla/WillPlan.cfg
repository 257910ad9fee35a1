SPECIFICATION Spec
INVARIANTS PlanInOrder
PROPERTIES OkMeansHeirsPaid PostponedMeansMoved
CONSTANTS
  heir1 = heir1
  heir2 = heir2
  we1 = we1
  we2 = we2
  fee1 = fee1
  fee2 = fee2
  NoExecutor = NoExecutor
  HeirSets <- OneOrBoth
  Executors = {we1}
  Recipes <- BothKinds
  FeeRates = {fee1,fee2}
  MaxDay = 1
  MaxCoins = 2
  MaxEdits = 1
  MaxElsewhere = 1
  MaxRuns = 3
  MaxMenu = 1
SYMMETRY Symmetry
CONSTRAINT Few
CHECK_DEADLOCK FALSE
