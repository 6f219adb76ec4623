------------------------ MODULE AuthorityObservation ------------------------
(***************************************************************************)
(* How the members of the two governance bodies follow Cardano.            *)
(*                                                                         *)
(* The datum of a governance output on Cardano lists pairs of a Midnight   *)
(* account and a Cardano key hash (the mainchain member).  The author of a *)
(* block looks the outputs up as of the block's Cardano reference block    *)
(* and puts the pairs into the inherent call reset_members of              *)
(* pallet-federated-authority-observation.  That call hands the accounts   *)
(* to pallet-membership, which tells pallet-collective and the account     *)
(* system (MembershipHandler), and keeps the mainchain members itself, in  *)
(* the order of the accounts.                                              *)
(*                                                                         *)
(* Accounts are numbers, in the order of their ids.  A Cardano block holds *)
(* transactions that create governance outputs; whether an output has been *)
(* spent since does not matter to the code.                                *)
(***************************************************************************)
EXTENDS Naturals, Sequences, FiniteSets, TLC

CONSTANTS
  AccountIds,       \* the Midnight accounts, a set of numbers
  Publications,     \* what may be published on Cardano: a datum, which is a
                    \* list of <<account, mainchain member>> or Undecodable,
                    \* and the address and policy id it is found at
  CardanoBlocks,    \* what a block may publish: per transaction, a set
  Undecodable,      \* a datum decode_governance_datum rejects
  Addresses,        \* Cardano script addresses
  PolicyIds,
  GenesisDatum,     \* the datums the genesis configuration was made from
  GenesisLocation,  \* and where they were found, per body
  MaxMembers,       \* CouncilMaxMembers, TechnicalCommitteeMaxMembers
  MembershipMax,    \* MaxMembers of the pallet_membership instances
  MaxTip,           \* bound: Cardano blocks
  NoCall

Bodies == {"council", "technical_committee"}

Locations == [address : Addresses, policy : PolicyIds]

Sites == {p.at : p \in Publications}
Datums == {p.datum : p \in Publications}

(* "spending governance UTXO is always replacement and never removal": the *)
(* token of a policy is in one output, so no transaction creates two at    *)
(* one place, and the order of the query leaves nothing open.              *)
ASSUME ReplacementAssumption ==
  /\ CardanoBlocks \subseteq Seq(SUBSET Publications)
  /\ \A txs \in CardanoBlocks : \A i \in DOMAIN txs :
       \A p, q \in txs[i] : p.at = q.at => p = q

ASSUME AccountsAssumption == AccountIds \subseteq Nat
ASSUME GenesisAssumption ==
  /\ \A b \in Bodies :
       /\ [at |-> GenesisLocation[b], datum |-> GenesisDatum[b]] \in Publications
       /\ GenesisDatum[b] # Undecodable
  /\ Sites \subseteq Locations

(* The runtime's comment: "Should be same as its pallet_membership         *)
(* instance".                                                              *)
ASSUME BoundsAssumption == MaxMembers \in Nat /\ MembershipMax = MaxMembers

VARIABLES
  tip,          \* the number of the newest Cardano block
  outputs,      \* the governance outputs ever created on Cardano
  location,     \* per body, the address and policy id the runtime stores
  members,      \* per body, Members of pallet_membership (sorted)
  collective,   \* per body, Members of pallet_collective
  mainchain,    \* CouncilMainchainMembers, TechnicalCommitteeMainchainMembers
  sufficients,  \* frame_system: the sufficients of each account
  executed,     \* InherentExecutedThisBlock
  open,         \* a block is being executed
  block,        \* the last block: its inherent call and what it was made from
  observed      \* history: per body, the pairs last handed to reset_members

chainVars == <<tip, outputs>>
memberVars == <<members, collective, mainchain, sufficients, observed>>
vars == <<tip, outputs, location, members, collective, mainchain, sufficients,
          executed, open, block, observed>>

-----------------------------------------------------------------------------
(* The data source. *)

(* get_governance_body_utxo: the newest output at the address with a token *)
(* of the policy, by block and by the transaction's index in it, among the *)
(* blocks up to the given one; spent or not.                               *)
CreatedAt(at) == {o \in outputs : o.at = at}
Newest(found) ==
  {o \in found :
     \A p \in found : p.created < o.created \/ (p.created = o.created /\ p.index <= o.index)}

QueryNewest(at, number) == Newest(CreatedAt(at))

GovernanceBodyUtxo(at, number) == Newest({o \in CreatedAt(at) : o.created <= number})

(* decode_governance_datum: a datum is a list of pairs, in the order of    *)
(* its map, or an error.  An error and a missing output both give the      *)
(* empty list.                                                             *)
Decoded(datum) == IF datum = Undecodable THEN <<>> ELSE datum

Authorities(at, number) ==
  LET utxo == GovernanceBodyUtxo(at, number)
  IN  IF utxo = {} THEN <<>> ELSE Decoded((CHOOSE o \in utxo : TRUE).datum)

(* get_federated_authority_data *)
FederatedAuthorityData(at, number) ==
  [b \in Bodies |-> Authorities(at[b], number)]

-----------------------------------------------------------------------------
(* The inherent. *)

AccountsOf(pairs) == [i \in DOMAIN pairs |-> pairs[i][1]]
MainchainOf(pairs) == [i \in DOMAIN pairs |-> pairs[i][2]]

HasDuplicatedMembers(pairs) ==
  Cardinality({pairs[i][1] : i \in DOMAIN pairs}) # Len(pairs)

(* decode_auth_members: every 32-byte key is an account, but the list must *)
(* fit.                                                                    *)
DecodeAuthMembers(pairs) == Len(pairs) <= MaxMembers

(* create_inherent; before it, two faulty forms. *)
CreateInherentUnbounded(data) ==
  IF \A b \in Bodies : data[b] # <<>> /\ ~HasDuplicatedMembers(data[b])
    THEN data
    ELSE NoCall

CreateInherentWithDuplicates(data) ==
  IF \A b \in Bodies : DecodeAuthMembers(data[b]) /\ data[b] # <<>>
    THEN data
    ELSE NoCall

CreateInherent(data) ==
  IF \A b \in Bodies :
       /\ DecodeAuthMembers(data[b])
       /\ data[b] # <<>>
       /\ ~HasDuplicatedMembers(data[b])
    THEN data
    ELSE NoCall

(* check_inherent of a call that is in the block. *)
CheckInherent(call, data) ==
  \A b \in Bodies : DecodeAuthMembers(data[b]) /\ data[b] = call[b]

-----------------------------------------------------------------------------
(* The members. *)

SortedPairs(pairs) == SortSeq(pairs, LAMBDA p, q : p[1] < q[1])

Occurrences(s, a) == Cardinality({i \in DOMAIN s : s[i] = a})

(* compute_members_diff_sorted: how often an account is among the incoming *)
(* and among the outgoing.                                                 *)
Surplus(s, t, a) ==
  IF Occurrences(s, a) > Occurrences(t, a)
    THEN Occurrences(s, a) - Occurrences(t, a)
    ELSE 0

Incoming(new, old, a) == Surplus(new, old, a)
Outgoing(new, old, a) == Surplus(old, new, a)

(* MembershipHandler: inc_sufficients for the incoming, dec_sufficients    *)
(* (which stops at zero) for the outgoing.  The faulty form increments for *)
(* every member of the new list.                                           *)
SufficientsForAll(before, new, old) ==
  [a \in AccountIds |->
     LET up == before[a] + Occurrences(new, a)
         out == Outgoing(new, old, a)
     IN  IF out > up THEN 0 ELSE up - out]

Sufficients(before, new, old) ==
  [a \in AccountIds |->
     LET up == before[a] + Incoming(new, old, a)
         out == Outgoing(new, old, a)
     IN  IF out > up THEN 0 ELSE up - out]

(* MembershipObservationHandler dispatches pallet_membership's             *)
(* reset_members and drops its result: a list that does not fit leaves the *)
(* members as they were.                                                   *)
MembersAfter(b, new) ==
  IF Len(new) <= MembershipMax THEN new ELSE members[b]

Unpaired(pairs) == SortSeq(AccountsOf(pairs), <)

(* The state changes of reset_members.  (Writing a list that has not       *)
(* changed changes nothing.)  The faulty form sorts the accounts alone.    *)
ApplyUnpaired(call) ==
  LET accounts == [b \in Bodies |-> MembersAfter(b, Unpaired(call[b]))]
      council == Sufficients(sufficients, accounts["council"], members["council"])
  IN  /\ members' = accounts
      /\ collective' = accounts
      /\ mainchain' = [b \in Bodies |-> MainchainOf(call[b])]
      /\ sufficients' = Sufficients(council, accounts["technical_committee"],
                                    members["technical_committee"])
      /\ observed' = call

Apply(call) ==
  \E pairs \in {[b \in Bodies |-> SortedPairs(call[b])]} :
  \E accounts \in {[b \in Bodies |-> MembersAfter(b, AccountsOf(pairs[b]))]} :
  \E council \in {Sufficients(sufficients, accounts["council"], members["council"])} :
    /\ members' = accounts
    /\ collective' = accounts
    /\ mainchain' = [b \in Bodies |-> MainchainOf(pairs[b])]
    /\ sufficients' = Sufficients(council, accounts["technical_committee"],
                                  members["technical_committee"])
    /\ observed' = call

(* reset_members: once per block; a body without members makes it a no-op. *)
(* (The faulty form looks at the council only to tell whether anything     *)
(* changed.)                                                               *)
ResetMembersIfCouncilChanged(call) ==
  /\ ~executed
  /\ executed' = TRUE
  /\ IF AccountsOf(SortedPairs(call["council"])) = members["council"]
       THEN UNCHANGED memberVars
       ELSE Apply(call)

ResetMembers(call) ==
  /\ ~executed
  /\ executed' = TRUE
  /\ IF \E b \in Bodies : call[b] = <<>>
       THEN UNCHANGED memberVars
       ELSE Apply(call)

-----------------------------------------------------------------------------
(* The chains. *)

(* The genesis configuration holds the pairs the data source returned.     *)
(* pallet_membership sorts the accounts; the mainchain members are stored  *)
(* as they come.                                                           *)
Init ==
  /\ tip = 0
  /\ outputs = {[at |-> GenesisLocation[b], datum |-> GenesisDatum[b],
                 created |-> 0, index |-> 1] : b \in Bodies}
  /\ location = GenesisLocation
  /\ members = [b \in Bodies |-> AccountsOf(SortedPairs(GenesisDatum[b]))]
  /\ collective = members
  /\ mainchain = [b \in Bodies |-> MainchainOf(GenesisDatum[b])]
  /\ sufficients = [a \in AccountIds |->
       Cardinality({b \in Bodies : \E i \in DOMAIN members[b] : members[b][i] = a})]
  /\ executed = FALSE
  /\ open = FALSE
  /\ block = [call |-> NoCall, at |-> location, reference |-> 0]
  /\ observed = [b \in Bodies |-> <<>>]

(* Cardano: the transactions of a block replace governance outputs. *)
OutputsOf(txs, number) ==
  UNION {{[at |-> p.at, datum |-> p.datum, created |-> number, index |-> i] : p \in txs[i]} :
           i \in DOMAIN txs}

Publish(txs) ==
  /\ tip < MaxTip
  /\ tip' = tip + 1
  /\ outputs' = outputs \union OutputsOf(txs, tip + 1)
  /\ UNCHANGED <<location, memberVars, executed, open, block>>

(* A block begins with its inherents, made from the state of its parent    *)
(* and a Cardano reference block that never goes back.                     *)
BeginBlock(reference) ==
  /\ ~open
  /\ open' = TRUE
  /\ \E call \in {CreateInherent(FederatedAuthorityData(location, reference))} :
       /\ block' = [call |-> call, at |-> location, reference |-> reference]
       /\ IF call = NoCall
            THEN UNCHANGED <<memberVars, executed>>
            ELSE ResetMembers(call)
  /\ UNCHANGED <<chainVars, location>>

(* The Root calls, among the block's extrinsics. *)
SetAddress(b, address) ==
  /\ open
  /\ location' = [location EXCEPT ![b].address = address]
  /\ UNCHANGED <<chainVars, memberVars, executed, open, block>>

SetPolicyId(b, policy) ==
  /\ open
  /\ location' = [location EXCEPT ![b].policy = policy]
  /\ UNCHANGED <<chainVars, memberVars, executed, open, block>>

(* on_finalize *)
EndBlock ==
  /\ open
  /\ open' = FALSE
  /\ executed' = FALSE
  /\ UNCHANGED <<chainVars, location, memberVars, block>>

Cardano == \E txs \in CardanoBlocks : Publish(txs)

BeginLater == \E r \in (block.reference + 1)..tip : BeginBlock(r)

Midnight ==
  \/ \E r \in block.reference..tip : BeginBlock(r)
  \/ \E b \in Bodies :
       \/ \E address \in Addresses : SetAddress(b, address)
       \/ \E policy \in PolicyIds : SetPolicyId(b, policy)
  \/ EndBlock

Next == Cardano \/ Midnight

Spec == Init /\ [][Next]_vars

(* Blocks follow each other, and their Cardano reference moves on with the *)
(* Cardano chain.                                                          *)
Fairness ==
  /\ WF_vars(EndBlock)
  /\ WF_vars(\E r \in block.reference..tip : BeginBlock(r))
  /\ SF_vars(BeginLater)

FairSpec == Spec /\ Fairness

-----------------------------------------------------------------------------
Pairs == UNION {{d[i] : i \in DOMAIN d} : d \in Datums \ {Undecodable}}

Lists(S) == UNION {[1..n -> S] : n \in 0..MaxMembers}

TypeOK ==
  /\ tip \in 0..MaxTip
  /\ \A o \in outputs :
       o \in [at : Locations, datum : Datums, created : 0..tip, index : Nat]
  /\ location \in [Bodies -> Locations]
  /\ members \in [Bodies -> Lists(AccountIds)]
  /\ collective \in [Bodies -> Lists(AccountIds)]
  /\ mainchain \in [Bodies -> Lists({p[2] : p \in Pairs})]
  /\ sufficients \in [AccountIds -> 0..Cardinality(Bodies)]
  /\ executed \in BOOLEAN
  /\ open \in BOOLEAN
  /\ executed => open
  /\ block.at \in [Bodies -> Locations]
  /\ block.reference \in 0..tip
  /\ observed \in [Bodies -> Lists(Pairs)]

(* "preserve the association between AccountId and MainchainMember": from  *)
(* the first reset_members on, the accounts in pallet_membership and the   *)
(* mainchain members in the observation pallet, which are stored apart and *)
(* written only when each changes, line up into the pairs last observed.   *)
PairsKept ==
  \A b \in Bodies :
    observed[b] # <<>> =>
      /\ Len(members[b]) = Len(mainchain[b])
      /\ {<<members[b][i], mainchain[b][i]>> : i \in DOMAIN members[b]}
           = {observed[b][i] : i \in DOMAIN observed[b]}

(* Through every sequence of resets, of accounts that leave one body and   *)
(* stay in the other, the account system holds one sufficient reference    *)
(* for each body an account is a member of: members exist without a        *)
(* balance, former members do not, and no reference is left behind.        *)
SufficientsCount ==
  \A a \in AccountIds :
    sufficients[a] =
      Cardinality({b \in Bodies : \E i \in DOMAIN collective[b] : collective[b][i] = a})

(* check_inherent accepts the block's call on every node that imports it,  *)
(* however far Cardano has moved on since the author looked.               *)
ImportersAgree ==
  block.call # NoCall =>
    CheckInherent(block.call, FederatedAuthorityData(block.at, block.reference))

Settled ==
  LET call == CreateInherent(FederatedAuthorityData(location, tip))
  IN  call # NoCall =>
        \A b \in Bodies : members[b] = AccountsOf(SortedPairs(call[b]))

(* The members catch up with the newest lists on Cardano again and again,  *)
(* whichever bodies are relocated and whichever lists were unusable in     *)
(* between.                                                                *)
MembersFollow == []<>Settled
=============================================================================
