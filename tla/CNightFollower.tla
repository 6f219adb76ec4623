--------------------------- MODULE CNightFollower ---------------------------
(***************************************************************************)
(* The Cardano side of the cNIGHT bridge: the data source that reads       *)
(* observed UTXOs from db-sync (primitives/mainchain-follower).            *)
(***************************************************************************)
EXTENDS CardanoChain

(* A row of a query: the UTXO, observed where it is created or where it is *)
(* spent.  decodes: it becomes an ObservedUtxo and is not skipped.         *)
Row(kind, p, t, u) ==
    LET o == OutputOf(u)
        mapping == kind \in {"Registration", "Deregistration"}
    IN  [position |-> p, created |-> t = u[1],
         decodes  |-> IF mapping THEN o.datum = "good" ELSE o.holder = "some",
         observed |-> [kind |-> kind, owner |-> o.owner,
                       key |-> IF mapping THEN o.key ELSE NoKey, utxo |-> u]]

(* The rows for the outputs, or the inputs, of the transactions at places. *)
RowsOf(ch, kind, places, Ids(_), Selects(_)) ==
    UNION {{Row(kind, p, TxAt(ch, p), u) :
               u \in {v \in Ids(TxAt(ch, p)) : Selects(OutputOf(v))}} : p \in places}

(* get_registrations: outputs at the mapping validator with a datum and    *)
(* one auth token.                                                         *)
GetRegistrations(ch, contract, places) ==
    RowsOf(ch, "Registration", places, Created,
           LAMBDA o : o.contract = contract /\ o.datum # "absent" /\ o.auth)

(* get_deregistrations does not ask for the auth token. *)
GetDeregistrations(ch, contract, places) ==
    RowsOf(ch, "Deregistration", places, LAMBDA t : Inputs[t],
           LAMBDA o : o.contract = contract /\ o.datum # "absent")

GetAssetCreates(ch, places) ==
    RowsOf(ch, "AssetCreate", places, Created, LAMBDA o : o.night)
GetAssetSpends(ch, places) ==
    RowsOf(ch, "AssetSpend", places, LAMBDA t : Inputs[t], LAMBDA o : o.night)
-----------------------------------------------------------------------------
(* The four lists are concatenated in this order before they are sorted,   *)
(* and the sort is stable.                                                 *)
ListRank == [Registration |-> 1, Deregistration |-> 2, AssetCreate |-> 3, AssetSpend |-> 4]

(* partial_cmp of ObservedUtxoHeader: position; creates before spends;     *)
(* hash of the creating transaction; index in it.                          *)
HeaderKey(r) ==
    <<r.position.block_number, r.position.tx_index_in_block, IF r.created THEN 0 ELSE 1,
      HashRank[r.observed.utxo[1]], r.observed.utxo[2], ListRank[r.observed.kind]>>

LexLess(x, y) ==
    \E i \in 1 .. Len(x) : x[i] < y[i] /\ \A j \in 1 .. i - 1 : x[j] = y[j]

(* The rows in the order of the sort. *)
Sorted(rows) ==
    LET Place(r) == Cardinality({q \in rows : LexLess(HeaderKey(q), HeaderKey(r))})
    IN  [i \in 1 .. Cardinality(rows) |-> CHOOSE r \in rows : Place(r) = i - 1]

(* ORDER BY of a query: the position, and for cNIGHT the index of the      *)
(* output.  Rows that it does not tell apart come in any order.            *)
OrderKey(r) ==
    <<r.position.block_number, r.position.tx_index_in_block,
      IF r.observed.kind \in {"AssetCreate", "AssetSpend"} THEN r.observed.utxo[2] ELSE 0>>

(* What LIMIT may leave of the rows of a query: as many as it allows, and  *)
(* none that comes after one that is missing.  It counts rows before any   *)
(* of them is skipped.                                                     *)
Limited(rows) ==
    IF Cardinality(rows) <= TxCapacity * UtxoPerTx
    THEN {rows}
    ELSE {left \in SUBSET rows :
             /\ Cardinality(left) = TxCapacity * UtxoPerTx
             /\ \A r \in left, q \in rows \ left : ~ LexLess(OrderKey(q), OrderKey(r))}

Fetched(rows) == {{r \in left : r.decodes} : left \in Limited(rows)}

(* The four queries, on the database db, for the places from start to end, *)
(* and what each of them may answer.                                       *)
Queries == {"Registration", "Deregistration", "AssetCreate", "AssetSpend"}
Answers(query, db, contract, start, end) ==
    LET places == Between(db, start, end)
    IN  Fetched(CASE query = "Registration"   -> GetRegistrations(db, contract, places)
                  [] query = "Deregistration" -> GetDeregistrations(db, contract, places)
                  [] query = "AssetCreate"    -> GetAssetCreates(db, places)
                  [] query = "AssetSpend"     -> GetAssetSpends(db, places))

(* One past the last transaction of the tip block. *)
EndOf(ch, tip) == Increment(Position(tip, Len(ch[tip])))

(* Faulty variant: the last UTXO instead of the last whole transaction. *)
KeptWithinTx(rows) ==
    {r \in rows : Cardinality({q \in rows : LexLess(HeaderKey(q), HeaderKey(r))}) < TxCapacity - 1}

(* The truncation loop breaks at the first row of the TxCapacity-th        *)
(* transaction, so it keeps at most TxCapacity - 1 whole transactions.     *)
Kept(rows) ==
    LET places == {r.position : r \in rows}
        Before(p) == Cardinality({q \in places : PosLess(q, p)})
    IN  IF TxCapacity \in 1 .. Cardinality(places)
        THEN {r \in rows : Before(r.position) < TxCapacity - 1}
        ELSE rows

(* Faulty variant: the position is that of the last observed transaction. *)
ObservedLastAgain(rows, start, end) ==
    LET sorted == Sorted(Kept(rows))
        last == IF sorted = <<>> THEN start ELSE sorted[Len(sorted)].position
    IN  [utxos |-> [i \in DOMAIN sorted |-> sorted[i].observed],
         end   |-> IF Cardinality({r.position : r \in rows}) < TxCapacity
                   THEN end ELSE last]

(* The end of get_utxos_up_to_capacity: what it makes of the rows. *)
Observed(rows, start, end) ==
    LET sorted == Sorted(Kept(rows))
        last == IF sorted = <<>> THEN start ELSE sorted[Len(sorted)].position
    IN  [utxos |-> [i \in DOMAIN sorted |-> sorted[i].observed],
         end   |-> IF Cardinality({r.position : r \in rows}) < TxCapacity
                   THEN end ELSE Increment(last)]
=============================================================================
