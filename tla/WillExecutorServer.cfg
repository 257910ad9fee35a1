SPECIFICATION ServerSpec
CONSTANTS
  r1 = r1
  r2 = r2
  p1 = p1
  p2 = p2
  t1 = t1
  t2 = t2
  t3 = t3
  alice = alice
  None = None
  Networks <- MCNetworks
  Enabled <- MCNetworks
  XpubNetworks <- WithXpub
  Hrp <- MCHrp
  Keys <- MCKeys
  Accounts <- MCAccounts
  Account <- MCAccount
  Configs <- MCConfigs
  Clients = {alice}
  Infos = {r1, r2}
  MaxIndex = 1
  MaxTime = 0
  MaxFaults = 0
  MaxRestarts = 1
  Pushes = {p1, p2}
  Txs = {t1, t2, t3}
  Outputs <- MCOutputs
  Bodies <- MCBodies
  FixedFee <- MCFixedFee
  MaxPushFaults = 1
SYMMETRY Symmetry
INVARIANTS
  ThxMeansStored
  BatchStoredWhole
  StoredPaysUs
  OnlyARivalRejects
CHECK_DEADLOCK FALSE
