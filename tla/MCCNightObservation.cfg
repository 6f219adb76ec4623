SPECIFICATION Spec
CONSTANTS
    u1 = u1
    u2 = u2
    k1 = k1
    Addrs = {a1}
    Keys = {k1, k2}
    ValidKeys = {k1}
    NoKey = NoKey
    Utxos = {u1, u2}
    Contracts = {c1, c2}
    GenesisContract = c1
    LongAddresses = {c3}
    TxCapacity = 1
    UtxoPerTx = 2
    MaxBatch = 2
    MaxMappings = 2
    GenesisPosition <- MCGenesisPosition
    GenesisMappings <- MCGenesisMappings
    GenesisOwners <- MCGenesisOwners
    GenesisDust <- MCGenesisDust
    Positions <- MCPositions
    Batches <- MCBatches
CONSTRAINT MappingsBounded
INVARIANTS
    TypeOK
    EventsTellRegistration
    OwnersMatchLedger
PROPERTIES
    PositionNeverRegresses
    InherentOncePerBlock
