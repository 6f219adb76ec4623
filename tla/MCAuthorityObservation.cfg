SPECIFICATION FairSpec
CONSTANTS
  AccountIds = {1, 2, 3}
  Publications <- MCPublications
  CardanoBlocks <- MCCardanoBlocks
  Undecodable = Undecodable
  Addresses = {"script1", "script2"}
  PolicyIds = {"token", "other"}
  GenesisDatum <- MCGenesisDatum
  GenesisLocation <- MCGenesisLocation
  MaxMembers = 2
  MembershipMax = 2
  MaxTip = 2
  NoCall = NoCall
INVARIANTS
  TypeOK
  PairsKept
  SufficientsCount
  ImportersAgree
PROPERTIES
  MembersFollow
