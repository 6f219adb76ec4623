---------------------------- MODULE CNightBridge ----------------------------
(***************************************************************************)
(* The cNIGHT bridge as a whole: Cardano grows; the db-sync of every node  *)
(* follows it at its own pace; a node authors a block whose inherent data  *)
(* its follower computes from the parent's state and the latest stable     *)
(* Cardano block it knows, with four queries that are answered in any      *)
(* order while the database grows; another node imports the block,         *)
(* computes the inherent data for the Cardano block that the author named, *)
(* compares, and executes the pallet.                                      *)
(*                                                                         *)
(* The on-chain state is that of the best chain; its blocks are imported   *)
(* one after the other.  A block may be lost, or refused by an importer    *)
(* that does not know the Cardano block yet, and then another is authored. *)
(* The mapping validator address stays the one of the chain spec, which    *)
(* starts before the first cNIGHT transaction, with nothing observed yet.  *)
(***************************************************************************)
EXTENDS CNightObservation, CNightFollower

CONSTANTS Nodes, NoProposal, Idle

ASSUME EmptyGenesisAssumption ==
    /\ GenesisMappings = [a \in Addrs |-> <<>>]
    /\ GenesisOwners = [u \in Utxos |-> NoKey]
    /\ GenesisDust = [u \in Utxos |-> Unknown]

VARIABLES
    chain,              \* the stable part of the Cardano chain
    synced,             \* node -> how many of its blocks its db-sync has
    tip,                \* Cardano block that the last valid block refers to
    proposal,           \* the block in flight: author, tip, inherent data
    reader              \* get_utxos_up_to_capacity in progress, or Idle

bridgeVars == <<mappings, utxoOwners, nextPosition, executed, contract, registered, dust,
                phase, queue, target, batch, committed, chain, synced, tip, proposal,
                reader>>
outside == <<chain, synced, tip, proposal, reader>>

BridgeInit ==
    /\ Init
    /\ chain = <<>>
    /\ synced = [n \in Nodes |-> 0]
    /\ tip = 0
    /\ proposal = NoProposal
    /\ reader = Idle

Forge(block) ==
    /\ Len(chain) < MaxBlocks
    /\ Extends(chain, block)
    /\ chain' = Append(chain, block)
    /\ UNCHANGED <<vars, synced, tip, proposal, reader>>

Sync(n) ==
    /\ synced[n] < Len(chain)
    /\ synced' = [synced EXCEPT ![n] = @ + 1]
    /\ UNCHANGED <<vars, chain, tip, proposal, reader>>

(* A node asks its follower about a child of the current state, at the     *)
(* Cardano block t that it knows.                                          *)
Read(n, t) ==
    /\ phase = "between" /\ reader = Idle
    /\ reader' = [node |-> n, tip |-> t, start |-> committed.nextPosition,
                  end |-> EndOf(chain, t), pending |-> Queries, rows |-> {}]
    /\ UNCHANGED <<vars, chain, synced, tip, proposal>>

(* Faulty variant: the author stays at the Cardano block of the parent. *)
StartAuthoringAtParent(n) ==
    /\ proposal = NoProposal
    /\ synced[n] >= tip /\ synced[n] > 0
    /\ Read(n, IF tip = 0 THEN synced[n] ELSE tip)

(* ProposalCIDP: the author refers to the latest stable block it knows,    *)
(* which must not be behind the parent's.                                  *)
StartAuthoring(n) ==
    /\ proposal = NoProposal
    /\ synced[n] >= tip /\ synced[n] > 0
    /\ Read(n, synced[n])

(* VerifierCIDP: the importer refers to the block that the author named.   *)
StartChecking(n) ==
    /\ proposal # NoProposal /\ n # proposal.author
    /\ proposal.tip <= synced[n]
    /\ Read(n, proposal.tip)

(* Faulty variant: the answer is not limited by the named block. *)
QueryWithoutEnd(q) ==
    /\ reader # Idle /\ q \in reader.pending
    /\ LET db == SubSeq(chain, 1, synced[reader.node])
       IN  \E answer \in Answers(q, db, contract, reader.start, EndOf(db, Len(db))) :
             reader' = [reader EXCEPT !.pending = @ \ {q}, !.rows = @ \cup answer]
    /\ UNCHANGED <<vars, chain, synced, tip, proposal>>

(* One of the four queries is answered from what the database has now. *)
Query(q) ==
    /\ reader # Idle /\ q \in reader.pending
    /\ LET db == SubSeq(chain, 1, synced[reader.node])
       IN  \E answer \in Answers(q, db, contract, reader.start, reader.end) :
             reader' = [reader EXCEPT !.pending = @ \ {q}, !.rows = @ \cup answer]
    /\ UNCHANGED <<vars, chain, synced, tip, proposal>>

ReadingDone == reader # Idle /\ reader.pending = {}
InherentData == Observed(reader.rows, reader.start, reader.end)

Propose ==
    /\ ReadingDone /\ proposal = NoProposal
    /\ proposal' = [author |-> reader.node, tip |-> reader.tip, data |-> InherentData]
    /\ reader' = Idle
    /\ UNCHANGED <<vars, chain, synced, tip>>

(* check_inherent compares; a difference makes the block invalid. *)
Import ==
    /\ ReadingDone /\ proposal # NoProposal
    /\ IF InherentData = proposal.data
       THEN OnInitialize /\ UNCHANGED proposal
       ELSE UNCHANGED vars /\ proposal' = NoProposal
    /\ reader' = Idle
    /\ UNCHANGED <<chain, synced, tip>>

(* MissingBlockReference: the importer does not know the block yet. *)
Refuse(n) ==
    /\ phase = "between" /\ reader = Idle
    /\ proposal # NoProposal /\ n # proposal.author
    /\ proposal.tip > synced[n]
    /\ proposal' = NoProposal
    /\ UNCHANGED <<vars, chain, synced, tip, reader>>

(* The block is lost on its way, or another one wins. *)
Lose ==
    /\ phase = "between" /\ reader = Idle
    /\ proposal # NoProposal
    /\ proposal' = NoProposal
    /\ UNCHANGED <<vars, chain, synced, tip, reader>>

(* The pallet executes the inherent of the block. *)
StartTokens ==
    /\ phase = "block" /\ ~ executed
    /\ IF TokensAllowed(proposal.data.utxos, proposal.data.end)
       THEN /\ ProcessTokens(proposal.data.utxos, proposal.data.end)
            /\ UNCHANGED proposal
       ELSE /\ RejectTokens(proposal.data.utxos, proposal.data.end)
            /\ proposal' = NoProposal
    /\ UNCHANGED <<chain, synced, tip, reader>>

HandleOne ==
    /\ HandleRegistration \/ HandleRegistrationRemoval \/ HandleCreate \/ HandleSpend
    /\ UNCHANGED outside

EndTokens ==
    /\ IF batch.size > 0 /\ batch.decodable /\ ~ batch.accepted
       THEN SystemTransactionFailed /\ proposal' = NoProposal
       ELSE (CompleteWithoutEvents \/ ExecuteSystemTransaction) /\ UNCHANGED proposal
    /\ UNCHANGED <<chain, synced, tip, reader>>

(* The inherent is required: a block without it is not valid. *)
Finalize ==
    /\ executed
    /\ OnFinalize
    /\ tip' = proposal.tip
    /\ proposal' = NoProposal
    /\ UNCHANGED <<chain, synced, reader>>

BridgeNext ==
    \/ \E block \in Blocks : Forge(block)
    \/ \E n \in Nodes : Sync(n)
    \/ \E n \in Nodes : StartAuthoring(n)
    \/ \E n \in Nodes : StartChecking(n)
    \/ \E q \in Queries : Query(q)
    \/ Propose
    \/ Import
    \/ \E n \in Nodes : Refuse(n)
    \/ Lose
    \/ StartTokens
    \/ HandleOne
    \/ EndTokens
    \/ Finalize

(* Every db-sync keeps up and authors keep authoring; a block that has     *)
(* begun to execute finishes; and not every block is lost.                 *)
BridgeFairness ==
    /\ \A n \in Nodes : WF_bridgeVars(Sync(n))
    /\ WF_bridgeVars(\E n \in Nodes : StartAuthoring(n))
    /\ SF_bridgeVars(\E n \in Nodes : StartChecking(n))
    /\ WF_bridgeVars(\E q \in Queries : Query(q))
    /\ WF_bridgeVars(Propose \/ Import)
    /\ WF_bridgeVars(StartTokens \/ HandleOne \/ EndTokens \/ Finalize)

BridgeSpecification == BridgeInit /\ [][BridgeNext]_bridgeVars /\ BridgeFairness
-----------------------------------------------------------------------------
LiveIn(m) == UNION {{m[a][i].utxo : i \in DOMAIN m[a]} : a \in Addrs}

(* The promise, with the state after the last valid block for its state. *)
Promise == INSTANCE CNightBridgeSpec WITH
    position <- committed.nextPosition,
    live <- LiveIn(committed.mappings),
    owners <- committed.utxoOwners

(* The bridge keeps its promise: however Cardano's transactions fall into   *)
(* blocks, capacities and inherents, and whichever Midnight blocks are lost *)
(* or refused, each valid block observes the next whole transactions of     *)
(* Cardano, none twice and none skipped, with the effect they have one by   *)
(* one (get_utxos_up_to_capacity and process_tokens together).              *)
KeepsPromise == Promise!BridgeSpec

(* A mapping is stored with the address and the key of the registration     *)
(* that made it, and only once (handle_registration after a resumed query). *)
MappingsFaithful ==
    \A a \in Addrs :
        LET m == committed.mappings[a]
        IN  /\ \A i \in DOMAIN m : OutputOf(m[i].utxo).owner = a /\ OutputOf(m[i].utxo).key = m[i].key
            /\ \A i, j \in DOMAIN m : m[i].utxo = m[j].utxo => i = j

(* An importer that knows the referenced Cardano block computes what the    *)
(* author computed, although Cardano has grown since (check_inherent) and   *)
(* the queries come back in another order.                                  *)
NodesAgree == ReadingDone /\ proposal # NoProposal => InherentData = proposal.data

(* A block with the inherent of an honest author is never refused by the    *)
(* pallet: not CardanoPositionRegression, and the ledger takes the system   *)
(* transaction.  Nor TooManyUtxos, as long as the transactions that one     *)
(* inherent may take hold no more UTXOs than the pallet does: the four      *)
(* queries together may return more, and it is the truncation to whole      *)
(* transactions that keeps them below (get_utxos_up_to_capacity).           *)
HonestInherentSucceeds ==
    [][ phase # "between" /\ phase' = "between" => phase = "block" /\ executed ]_bridgeVars

(* Every cNIGHT transaction that Cardano makes final is observed in the     *)
(* end, although a block takes less than TxCapacity transactions.           *)
EverythingObserved ==
    \A t \in Txs : t \in OnChain(chain) ~>
        \E p \in Places(chain) : TxAt(chain, p) = t /\ PosLess(p, committed.nextPosition)

(* When the follower moves on to the end of the named block, it has handed  *)
(* over everything relevant before it: "We couldn't find enough UTXOs in    *)
(* the range, which means we're up-to-date with the current_tip"            *)
(* (get_utxos_up_to_capacity).                                              *)
UpToDate ==
    ReadingDone /\ InherentData.end = reader.end =>
        \A r \in UNION {GetRegistrations(chain, contract, Between(chain, reader.start, reader.end)),
                        GetDeregistrations(chain, contract, Between(chain, reader.start, reader.end)),
                        GetAssetCreates(chain, Between(chain, reader.start, reader.end)),
                        GetAssetSpends(chain, Between(chain, reader.start, reader.end))} :
            r.decodes => \E i \in DOMAIN InherentData.utxos : InherentData.utxos[i] = r.observed
=============================================================================
