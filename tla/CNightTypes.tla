----------------------------- MODULE CNightTypes -----------------------------
(***************************************************************************)
(* What the two sides of the cNIGHT bridge, the Cardano follower and the   *)
(* pallet, share: addresses, keys, UTXO ids and the observed UTXOs.        *)
(***************************************************************************)
EXTENDS CardanoPosition

CONSTANTS
    Addrs,              \* Cardano reward addresses
    Keys,               \* dust public keys a registration datum may carry
    NoKey,              \* no key: Option::None
    Utxos,              \* ids (tx hash, output index) of Cardano UTXOs
    Contracts,          \* mapping validator addresses
    TxCapacity,         \* CardanoTxCapacityPerBlock
    UtxoPerTx           \* UTXO_PER_TX_OVERESTIMATE, 64 in the follower too

ASSUME KeysAssumption == NoKey \notin Keys
ASSUME CapacityAssumption == TxCapacity \in Nat /\ UtxoPerTx \in Nat

(* ObservedUtxo: one record type for the four kinds.  owner is the Cardano *)
(* reward address of the datum, or of the holder of the cNIGHT.            *)
ObservedUtxo ==
    [kind : {"Registration", "Deregistration"}, owner : Addrs, key : Keys, utxo : Utxos]
      \cup [kind : {"AssetCreate", "AssetSpend"}, owner : Addrs, key : {NoKey}, utxo : Utxos]
=============================================================================
