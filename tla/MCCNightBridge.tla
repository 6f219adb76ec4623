--------------------------- MODULE MCCNightBridge ---------------------------
(* Two addresses, two keys, a Cardano of four transactions: a registration; *)
(* a creation of cNIGHT next to an output that only looks like a            *)
(* registration; a change of the registration in one transaction that also  *)
(* moves cNIGHT, some of it to the other address; and a registration of     *)
(* either address, one of them for a key the ledger cannot decode.          *)
(* The third of them fills an inherent to the last UTXO, and any two with   *)
(* it are too many.                                                         *)
EXTENDS CNightBridge

CONSTANTS a1, a2, k1, k2, c1

Reg(a, k) == [contract |-> c1, auth |-> TRUE, datum |-> "good", owner |-> a, key |-> k,
              night |-> FALSE, holder |-> "none"]
NoAuth(a, k) == [Reg(a, k) EXCEPT !.auth = FALSE]
Bad(a, k) == [Reg(a, k) EXCEPT !.datum = "bad"]
Night(a) == [contract |-> NoContract, auth |-> FALSE, datum |-> "absent", owner |-> a,
             key |-> k1, night |-> TRUE, holder |-> "some"]
NoStake(a) == [Night(a) EXCEPT !.holder = "none"]

MCTxs == 1 .. 4
MCOutputs == << <<Reg(a1, k1)>>,
                <<Night(a1), NoAuth(a1, k1), NoStake(a1)>>,
                <<Night(a1), Reg(a1, k1), Night(a2)>>,
                <<Reg(a1, k2), Bad(a1, k1), Reg(a2, k1)>> >>
MCInputs == << {}, {}, {<<1, 0>>, <<2, 0>>, <<2, 1>>}, {} >>
MCHashRank == <<3, 1, 4, 2>>
MCUtxos == UNION {Created(t) : t \in MCTxs}
MCGenesisPosition == Position(0, 0)
MCGenesisMappings == [a \in Addrs |-> <<>>]
MCGenesisOwners == [u \in Utxos |-> NoKey]
MCGenesisDust == [u \in Utxos |-> Unknown]

(* Three transactions with one relevant output each; the follower skips     *)
(* those of the first two.                                                  *)
SkippedTxs == 1 .. 3
SkippedOutputs == << <<NoStake(a1)>>, <<NoStake(a1)>>, <<Night(a1)>> >>
SkippedInputs == << {}, {}, {} >>
SkippedUtxos == UNION {Created(t) : t \in SkippedTxs}
=============================================================================
