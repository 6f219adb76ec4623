SPECIFICATION FairSpec
CONSTANTS
    Sessions = {s1}
    FetchWorkers = {w1, w2}
    ComputeWorkers = {c1}
    Chains = {left, right}
    BLOCKS_PER_JOB = 2
    LeastPerJob = 1
    MaxHeight = 5
INVARIANTS
    TypeOK
    VerifiedIsAChain
PROPERTIES
    VerifiedStays
    RunsEnd
