--------------------------- MODULE CardanoPosition ---------------------------
(***************************************************************************)
(* The position of a transaction on Cardano, as the cNIGHT bridge orders   *)
(* it (primitives/cnight-observation).  The block hash and the timestamp   *)
(* of the struct are informational: the order looks at the block number    *)
(* and at the index of the transaction in the block only, so a position is *)
(* the pair of those two.                                                  *)
(***************************************************************************)
EXTENDS Naturals

CardanoPositions == [block_number : Nat, tx_index_in_block : Nat]

Position(b, i) == [block_number |-> b, tx_index_in_block |-> i]

(* partial_cmp: block number first, index in the block second. *)
PosLess(p, q) ==
    \/ p.block_number < q.block_number
    \/ /\ p.block_number = q.block_number
       /\ p.tx_index_in_block < q.tx_index_in_block

PosLeq(p, q) == ~ PosLess(q, p)

(* increment: the next index of the same block, never the next block. *)
Increment(p) == [p EXCEPT !.tx_index_in_block = @ + 1]
=============================================================================
