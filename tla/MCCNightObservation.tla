------------------------- MODULE MCCNightObservation -------------------------
(* pallet-cnight-observation on its own, fed with every list of at most     *)
(* MaxBatch UTXOs in any order, also lists that Cardano cannot produce.     *)
(* The chain spec brings a registration, made by u1, and cNIGHT, in u2,     *)
(* that already generates dust for it.                                      *)
EXTENDS CNightObservation, TLC

CONSTANTS u1, u2, k1, MaxBatch, MaxMappings

MCGenesisPosition == Position(0, 0)
MCGenesisMappings == [a \in Addrs |-> <<[key |-> k1, utxo |-> u1]>>]
MCGenesisOwners == (u1 :> NoKey) @@ (u2 :> k1)
MCGenesisDust == (u1 :> Unknown) @@ (u2 :> Generating(k1))

MCPositions == {Position(0, 0), Position(0, 1), Position(1, 0)}
MCBatches ==
    UNION {[1 .. n -> ObservedUtxo] : n \in 0 .. MaxBatch}
      \cup {[i \in 1 .. MaxBatch + 1 |-> u] : u \in ObservedUtxo}

(* Mappings grow by one per registration: stop at MaxMappings. *)
MappingsBounded == \A a \in Addrs : Len(mappings[a]) <= MaxMappings
=============================================================================
