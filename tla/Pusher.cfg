SPECIFICATION FairSpec
INVARIANTS FailedHasCause StatsUpToDate
PROPERTIES ImplementsLifecycle EveryDueTxDecided
CONSTANTS
  parent = parent
  child = child
  Txids = {parent, child}
  Parents <- MCParents
  Locktime <- MCLocktime
  Threshold = 5
  StartHeight = 1
  StartTime = 6
  MaxHeight = 3
  MaxMedian = 8
  MaxInbox = 1
  MaxLost = 1
  MaxFailures = 1
  MaxCrashes = 1
CHECK_DEADLOCK FALSE
