SPECIFICATION Spec
CONSTANTS
  n1 = n1  n2 = n2
  update = update  deploy = deploy
  dust = dust  params = params
  c1 = c1  c2 = c2  c3 = c3
  Nodes = {n1, n2}
  Validators = {n1}
  Txs = {update, deploy}
  SystemTxs = {}
  Overwrites = {}
  Coins = {c1, c2, c3}
  GenesisCoins = {c1}
  Spends <- MCSpends
  Creates <- MCCreates
  Ctime <- MCCtime
  Unpriced <- DeployUnpriced
  Operations <- MCOperations
  TxFilter <- FilteringRelay
  Grace = 3
  Slot = 1
  MaxSkippedSlots = 1
  MaxTime = 2
  MaxHeight = 1
  MaxBody = 2
  MaxFlushed = 3
  None = None
INVARIANTS
  TypeOK
  BestStateOnDisk
  OnlyTheWindowDivides
