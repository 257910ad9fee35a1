SPECIFICATION Spec
CONSTANTS
    Txs = {first, second}
    Root = first
    Keys = {here, there}
    Mine = {here}
    MaxExports = 1
    MaxSteps = 6
INVARIANTS CompleteIsTrue ValidChildOfInvalid
PROPERTIES CommittedIsKept ImportedByMerge
CHECK_DEADLOCK FALSE
