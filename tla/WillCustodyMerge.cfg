SPECIFICATION Spec
CONSTANTS
    Txs = {first, second}
    Root = first
    Keys = {cold}
    Mine = {}
    MaxExports = 1
    MaxSteps = 6
CHECK_DEADLOCK FALSE
PROPERTY MergeKeepsSigned
