---------------------------- MODULE CardanoChain ----------------------------
(***************************************************************************)
(* Cardano as the bridge sees it through db-sync.                          *)
(*                                                                         *)
(* The stable chain is a sequence of blocks, a block a sequence of ids of  *)
(* transactions.  What a transaction consumes and produces is given by the *)
(* constants Inputs and Outputs.  Block b of the chain has block number b, *)
(* and the first transaction of a block has index 0.                       *)
(*                                                                         *)
(* Of an output the queries see where it lies, whether it carries the auth *)
(* token, its datum, and whether it holds cNIGHT, for whom.  A datum that  *)
(* is "bad" fails decode_registration_datum; a holder that is "none" lives *)
(* at an address without delegation part.                                  *)
(***************************************************************************)
EXTENDS CNightTypes, Sequences, FiniteSets

CONSTANTS
    Txs,                \* ids of Cardano transactions
    Inputs,             \* Inputs[t]: the ids of the UTXOs t consumes
    Outputs,            \* Outputs[t]: the outputs of t, in their order
    HashRank,           \* HashRank[t]: place of t's hash among all hashes
    MaxBlocks,          \* bounds: the length of the chain,
    MaxBlockTxs         \*   and of its blocks

NoContract == "no contract"
Output ==
    [contract : Contracts \cup {NoContract}, auth : BOOLEAN,
     datum : {"absent", "bad", "good"}, owner : Addrs, key : Keys,
     night : BOOLEAN, holder : {"none", "some"}]

(* The id of the output at index i, from 0, of transaction t. *)
Id(t, i) == <<t, i>>
OutputOf(u) == Outputs[u[1]][u[2] + 1]

(* The outputs of t, as ids. *)
Created(t) == {Id(t, i - 1) : i \in 1 .. Len(Outputs[t])}

ASSUME TxAssumption ==
    /\ \A t \in Txs : Outputs[t] \in Seq(Output) /\ Inputs[t] \subseteq Utxos
    /\ Utxos = UNION {Created(t) : t \in Txs}
    /\ \A t, s \in Txs : HashRank[t] = HashRank[s] => t = s
-----------------------------------------------------------------------------
(* The places of transactions: block number, index in the block. *)
Places(ch) ==
    UNION {{Position(b, i - 1) : i \in 1 .. Len(ch[b])} : b \in 1 .. Len(ch)}
TxAt(ch, p) == ch[p.block_number][p.tx_index_in_block + 1]

(* The places a query asks for: start inclusive, end exclusive. *)
Between(ch, start, end) ==
    {p \in Places(ch) : PosLeq(start, p) /\ PosLess(p, end)}

(* What is on the chain, and what is still unspent there. *)
OnChain(ch) == {TxAt(ch, p) : p \in Places(ch)}
Unspent(ch) == UNION {Created(t) : t \in OnChain(ch)} \ UNION {Inputs[t] : t \in OnChain(ch)}

(* A block extends the stable chain if its transactions are new and each   *)
(* consumes unspent outputs only.                                          *)
Extends(ch, block) ==
    \A i \in 1 .. Len(block) :
        LET sofar == Append(ch, SubSeq(block, 1, i - 1))
        IN  block[i] \notin OnChain(sofar) /\ Inputs[block[i]] \subseteq Unspent(sofar)

(* The blocks that may be added: at most MaxBlockTxs transactions each. *)
Blocks == UNION {[1 .. n -> Txs] : n \in 0 .. MaxBlockTxs}
=============================================================================
