INIT BridgeInit
NEXT BridgeNext
CONSTANTS
    a1 = a1
    a2 = a2
    k1 = k1
    k2 = k2
    c1 = c1
    Addrs = {a1}
    Keys = {k1, k2}
    ValidKeys = {k1}
    NoKey = NoKey
    Contracts = {c1}
    GenesisContract = c1
    LongAddresses = {}
    TxCapacity = 2
    UtxoPerTx = 1
    Batches = {}
    Positions = {}
    Nodes = {n1, n2}
    NoProposal = NoProposal
    Idle = Idle
    MaxBlocks = 3
    MaxBlockTxs = 2
    Txs <- SkippedTxs
    Inputs <- SkippedInputs
    Outputs <- SkippedOutputs
    HashRank <- MCHashRank
    Utxos <- SkippedUtxos
    GenesisPosition <- MCGenesisPosition
    GenesisMappings <- MCGenesisMappings
    GenesisOwners <- MCGenesisOwners
    GenesisDust <- MCGenesisDust
INVARIANT UpToDate
CHECK_DEADLOCK FALSE
