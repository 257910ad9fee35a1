SPECIFICATION Spec
CONSTANTS
    Urls = {shippedOne, other}
    Defaults = {shippedOne}
    Offered = {shippedOne, other}
    MaxCells = 8
    MaxSteps = 3
CHECK_DEADLOCK FALSE
INVARIANTS ShownIsTrue
PROPERTIES NoSharedEntry DownloadKeepsChoice AutoSelectsAnswered
