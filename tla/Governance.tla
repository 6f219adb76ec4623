----------------------------- MODULE Governance -----------------------------
(***************************************************************************)
(* The governance of a Midnight chain: the members of the two bodies       *)
(* follow Cardano (AuthorityObservation), vote in their collectives        *)
(* (pallet_collective, as the runtime configures it) and so approve or     *)
(* revoke motions (FederatedAuthority), which anybody may close.           *)
(*                                                                         *)
(* A closed collective proposal is dispatched with the origin Members(n,   *)
(* m): n ayes of m seats.  The runtime takes it for the body's word when   *)
(* n of m reach two thirds.                                                *)
(***************************************************************************)
EXTENDS Naturals, Sequences, FiniteSets, TLC

CONSTANTS
  AccountIds, Publications, CardanoBlocks, Undecodable, Addresses, PolicyIds,
  GenesisDatum, GenesisLocation, MaxMembers, MembershipMax, MaxTip, NoCall,
  Calls, Fragile, MaxBodies, MotionDuration, ProportionN, ProportionD, NoMotion,
  Relocation,   \* the call set_council_address(NewAddress)
  NewAddress,
  Thresholds,   \* the thresholds proposers choose
  NoProposal

VARIABLES
  tip, outputs, location, members, collective, mainchain, sufficients,
  executed, open, block, observed,
  motions, outcome, standing,
  proposals     \* pallet_collective: ProposalOf and Voting, per body, of the
                \* proposals to approve or to revoke a motion

Bodies == {"council", "technical_committee"}

Obs == INSTANCE AuthorityObservation
FA == INSTANCE FederatedAuthority

obsVars == <<tip, outputs, location, members, collective, mainchain, sufficients,
             executed, open, block, observed>>
motionVars == <<motions, outcome, standing>>
vars == <<obsVars, motionVars, proposals>>

Ops == {"motion_approve", "motion_revoke"}

Members(b) == {collective[b][i] : i \in DOMAIN collective[b]}
Seats(b) == Len(collective[b])

Init ==
  /\ Obs!Init
  /\ FA!Init
  /\ proposals = [b \in Bodies |-> [op \in Ops |-> [c \in Calls |-> NoProposal]]]

-----------------------------------------------------------------------------
(* EnsureProportionAtLeast<_, _, 2, 3>; in the faulty form a simple        *)
(* majority is enough.                                                     *)
SimpleMajority(n, m) == 2 * n >= m

EnsureProportion(n, m) == n * 3 >= 2 * m

(* A call dispatched with the origin Members(n, m) of body b: the origin   *)
(* manager finds the body, or returns BadOrigin, which changes nothing.    *)
Dispatch(b, n, op, c) ==
  IF ~EnsureProportion(n, Seats(b))
    THEN UNCHANGED motionVars
  ELSE IF op = "motion_approve"
    THEN FA!Propose(b, c) \/ FA!Join(b, c)
  ELSE FA!Revoke(b, c) \/ FA!RevokeRefused(b, c)

(* propose with a threshold below 2 executes at once, on the proposer's    *)
(* word alone.                                                             *)
ProposeAlone(b, op, c) ==
  /\ open
  /\ Members(b) # {}
  /\ proposals[b][op][c] = NoProposal
  /\ Dispatch(b, 1, op, c)
  /\ UNCHANGED <<obsVars, proposals>>

Propose(b, op, c, threshold) ==
  /\ open
  /\ Members(b) # {}
  /\ proposals[b][op][c] = NoProposal
  /\ proposals' = [proposals EXCEPT ![b][op][c] =
                     [ayes |-> {}, threshold |-> threshold]]
  /\ UNCHANGED <<obsVars, motionVars>>

(* vote: aye, or nay after an aye. *)
Vote(b, op, c, who) ==
  /\ open
  /\ who \in Members(b)
  /\ proposals[b][op][c] # NoProposal
  /\ proposals' = [proposals EXCEPT ![b][op][c].ayes =
                     IF who \in @ THEN @ \ {who} ELSE @ \union {who}]
  /\ UNCHANGED <<obsVars, motionVars>>

(* close: the proposal goes; its call is dispatched if it has its ayes     *)
(* (AlwaysNo: abstentions are nays).                                       *)
Close(b, op, c) ==
  /\ open
  /\ proposals[b][op][c] # NoProposal
  /\ LET ayes == Cardinality(proposals[b][op][c].ayes)
     IN  IF ayes >= proposals[b][op][c].threshold
           THEN Dispatch(b, ayes, op, c)
           ELSE UNCHANGED motionVars
  /\ proposals' = [proposals EXCEPT ![b][op][c] = NoProposal]
  /\ UNCHANGED obsVars

-----------------------------------------------------------------------------
(* motion_close: a dispatched call takes effect with Root origin. *)
CloseMotion(c) ==
  /\ open
  /\ \/ /\ FA!CloseDispatch(c)
        /\ IF c = Relocation
             THEN Obs!SetAddress("council", NewAddress)
             ELSE UNCHANGED obsVars
     \/ /\ FA!CloseDispatchFails(c) \/ FA!CloseExpired(c) \/ FA!CloseRefused(c)
        /\ UNCHANGED obsVars
  /\ UNCHANGED proposals

(* change_members_sorted of the collective: the votes of those who leave   *)
(* are removed from the open proposals (in the faulty form they stay).     *)
ProposalsWithout(b, op, c, leaving) ==
  IF proposals[b][op][c] = NoProposal
    THEN NoProposal
    ELSE [proposals[b][op][c] EXCEPT !.ayes = @ \ leaving]

KeepVotes == UNCHANGED proposals

ChangeMembers ==
  proposals' =
    [b \in Bodies |-> [op \in Ops |-> [c \in Calls |->
       ProposalsWithout(b, op, c, Members(b) \ {collective'[b][i] : i \in DOMAIN collective'[b]})]]]

(* A block begins: its number is one higher, and reset_members is applied. *)
BeginBlock ==
  /\ \E r \in block.reference..tip : Obs!BeginBlock(r)
  /\ FA!NextBlock
  /\ ChangeMembers

EndBlock ==
  /\ Obs!EndBlock
  /\ UNCHANGED <<motionVars, proposals>>

Cardano ==
  /\ Obs!Cardano
  /\ UNCHANGED <<motionVars, proposals>>

Next ==
  \/ \E b \in Bodies, op \in Ops, c \in Calls :
       \/ ProposeAlone(b, op, c)
       \/ \E threshold \in Thresholds : Propose(b, op, c, threshold)
       \/ \E who \in AccountIds : Vote(b, op, c, who)
       \/ Close(b, op, c)
  \/ \E c \in Calls : CloseMotion(c)
  \/ BeginBlock
  \/ EndBlock
  \/ Cardano

Spec == Init /\ [][Next]_vars

-----------------------------------------------------------------------------
TypeOK ==
  /\ Obs!TypeOK
  /\ FA!TypeOK
  /\ \A b \in Bodies, op \in Ops, c \in Calls :
       proposals[b][op][c] \in
         [ayes : SUBSET AccountIds, threshold : Thresholds] \union {NoProposal}

(* Whoever leaves a body takes their votes with them: every aye counted in *)
(* an open proposal is the vote of a member of that body, whatever the     *)
(* Cardano lists did between the vote and now.                             *)
VotesFromMembers ==
  \A b \in Bodies, op \in Ops, c \in Calls :
    proposals[b][op][c] # NoProposal =>
      proposals[b][op][c].ayes \subseteq Members(b)

Supermajority(b, op, c) ==
  \/ Seats(b) = 1
  \/ /\ proposals[b][op][c] # NoProposal
     /\ 3 * Cardinality(proposals[b][op][c].ayes \intersect Members(b)) >= 2 * Seats(b)

(* A body comes to stand behind a motion, or withdraws, only when two      *)
(* thirds of those who are its members at that moment voted for just that; *)
(* no threshold a proposer chooses and no change of the members makes less *)
(* enough.                                                                 *)
BackedByTwoThirds ==
  [][\A b \in Bodies, c \in Calls :
       /\ b \in standing'[c] \ standing[c] => Supermajority(b, "motion_approve", c)
       /\ b \in standing[c] \ standing'[c] =>
            \/ outcome'.op = "motion_close"
            \/ Supermajority(b, "motion_revoke", c)]_vars

(* The council's address moves only by a call both bodies stand behind at  *)
(* that moment.                                                            *)
RootFromBothBodies ==
  [][location' # location => standing[Relocation] = Bodies]_vars
=============================================================================
