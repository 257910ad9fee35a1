SPECIFICATION FairSpec
INVARIANTS CheckedIsStored PushedIsStored WizardMarksAll PushFailHasCause
PROPERTIES OperationsEnd
CONSTANTS
  item1 = item1
  item2 = item2
  we1 = we1
  we2 = we2
  Items = {item1, item2}
  Servers = {we1}
  ServerOf <- OneServer
  Selected <- AllSelected
  Paying = {item1}
  PushRetries = 1
  CheckRetries = 0
  MaxWorkers = 1
  MaxOps = 2
  MaxFaults = 2
CHECK_DEADLOCK FALSE
