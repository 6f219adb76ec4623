SPECIFICATION BridgeSpecification
CONSTANTS
    a1 = a1
    a2 = a2
    k1 = k1
    k2 = k2
    c1 = c1
    Addrs = {a1, a2}
    Keys = {k1, k2}
    ValidKeys = {k1}
    NoKey = NoKey
    Contracts = {c1}
    GenesisContract = c1
    LongAddresses = {}
    TxCapacity = 2
    UtxoPerTx = 3
    Batches = {}
    Positions = {}
    Nodes = {n1, n2}
    NoProposal = NoProposal
    Idle = Idle
    MaxBlocks = 2
    MaxBlockTxs = 2
    Txs <- MCTxs
    Inputs <- MCInputs
    Outputs <- MCOutputs
    HashRank <- MCHashRank
    Utxos <- MCUtxos
    GenesisPosition <- MCGenesisPosition
    GenesisMappings <- MCGenesisMappings
    GenesisOwners <- MCGenesisOwners
    GenesisDust <- MCGenesisDust
INVARIANTS
    MappingsFaithful
    NodesAgree
PROPERTIES
    KeepsPromise
    HonestInherentSucceeds
    EverythingObserved
CHECK_DEADLOCK FALSE
