SPECIFICATION InfoSpec
CONSTANTS
  r1 = r1
  r2 = r2
  r3 = r3
  alice = alice
  bob = bob
  None = None
  Networks <- MCNetworks
  Enabled <- MCEnabled
  XpubNetworks <- WithXpub
  Hrp <- MCHrp
  Keys <- MCKeys
  Accounts <- MCAccounts
  Account <- MCAccount
  Configs <- Rotating
  Clients = {alice, bob}
  Infos = {r1, r2, r3}
  MaxIndex = 1
  MaxTime = 1
  MaxFaults = 1
  MaxRestarts = 1
SYMMETRY Symmetry
INVARIANTS
  AddressNotShared
  OfferedIsRecognised
  AnsweredClientKeepsAddress
CHECK_DEADLOCK FALSE
