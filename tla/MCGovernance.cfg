SPECIFICATION Spec
CONSTANTS
  AccountIds = {1, 2, 3, 4}
  Publications <- MCPublications
  CardanoBlocks <- MCCardanoBlocks
  Undecodable = Undecodable
  Addresses = {"script1", "script2"}
  PolicyIds = {"token"}
  GenesisDatum <- MCGenesisDatum
  GenesisLocation <- MCGenesisLocation
  MaxMembers = 3
  MembershipMax = 3
  MaxTip = 1
  NoCall = NoCall
  Calls = {relocate}
  Fragile = {relocate}
  MaxBodies = 2
  MotionDuration = 1
  ProportionN = 1
  ProportionD = 1
  NoMotion = NoMotion
  Relocation = relocate
  NewAddress = "script2"
  Thresholds = {2}
  NoProposal = NoProposal
INVARIANTS
  TypeOK
  VotesFromMembers
PROPERTIES
  BackedByTwoThirds
  RootFromBothBodies
