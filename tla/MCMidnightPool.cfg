SPECIFICATION FairSpec
CONSTANTS
  n1 = n1  n2 = n2
  update = update  deploy = deploy
  dust = dust  params = params
  c1 = c1  c2 = c2  c3 = c3
  Nodes = {n1, n2}
  Validators = {n1}
  Txs = {update, deploy}
  SystemTxs = {params, dust}
  Overwrites = {params}
  Coins = {c1, c2, c3}
  GenesisCoins = {c1}
  Spends <- MCSpends
  Creates <- MCCreates
  Ctime <- MCCtime
  Unpriced = {}
  Operations <- MCOperations
  TxFilter <- FilteringValidator
  Grace = 3
  Slot = 1
  MaxSkippedSlots = 1
  MaxTime = 1
  MaxHeight = 1
  MaxBody = 1
  MaxFlushed = 2
  None = None
PROPERTIES
  SpentLeavesPool
