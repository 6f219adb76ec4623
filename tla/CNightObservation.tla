-------------------------- MODULE CNightObservation --------------------------
(***************************************************************************)
(* pallet-cnight-observation: the on-chain side of the cNIGHT bridge.      *)
(*                                                                         *)
(* Once per block the inherent process_tokens receives the Cardano UTXOs   *)
(* that were observed since NextCardanoPosition.  Registrations and        *)
(* deregistrations keep, per Cardano reward address, the list of its live  *)
(* mappings; a registration counts only while it is the only one.  Creates *)
(* and spends of cNIGHT become events of one ledger system transaction.    *)
(*                                                                         *)
(* process_tokens is a loop, so it is a sequence of steps here: it starts  *)
(* (ProcessTokens), handles one UTXO per step with the handler of its kind *)
(* and ends (Complete...).  No other action is enabled in between.  It is  *)
(* a Mandatory inherent: when it fails, the block that carries it is not a *)
(* valid block, and the state of its parent remains (Discard).             *)
(*                                                                         *)
(* Addresses, dust keys and UTXO ids are model values.  The nonce of a     *)
(* create or a spend is a hash of the UTXO id, taken as injective: the id  *)
(* itself stands for it.  Values and timestamps go through unchanged from  *)
(* the UTXO to the event and are left out.                                 *)
(***************************************************************************)
EXTENDS CNightTypes, Sequences

CONSTANTS
    ValidKeys,          \* the dust public keys that the ledger can decode
    GenesisContract,    \* mapping validator address of the chain spec
    GenesisPosition,    \* next_cardano_position of the chain spec
    GenesisMappings,    \* mappings of the chain spec: address -> entries
    GenesisOwners,      \* utxo_owners of the chain spec: nonce -> key, or NoKey
    GenesisDust,        \* the generations in the ledger's genesis state
    LongAddresses,      \* addresses too long for BoundedCardanoAddress
    Batches,            \* the lists of UTXOs an inherent may carry
    Positions           \* the positions it may carry

ASSUME ValidKeysAssumption == ValidKeys \subseteq Keys
ASSUME InputAssumption ==
    Batches \subseteq Seq(ObservedUtxo) /\ Positions \subseteq CardanoPositions

(* MappingEntry; the reward address is the key it is stored under. *)
MappingEntry == [key : Keys, utxo : Utxos]

(* What the ledger knows of a nonce: nothing, dust generation for a key,   *)
(* or a generation that was ended.  A nonce is never reused.               *)
Generation == [status : {"unknown", "generating", "ended"}, key : Keys \cup {NoKey}]
Unknown == [status |-> "unknown", key |-> NoKey]
Generating(k) == [status |-> "generating", key |-> k]
Ended(k) == [status |-> "ended", key |-> k]

(* A nonce has an owner iff the ledger generates dust for it, and then for *)
(* the same key.                                                           *)
Matches(owners, generations) ==
    \A n \in Utxos :
        IF owners[n] = NoKey
        THEN generations[n].status # "generating"
        ELSE generations[n] = Generating(owners[n])

(* The chain spec of a network that starts after some cNIGHT was observed   *)
(* is made by running this pallet on it (exec_pallet).  Owners are stored   *)
(* for keys that decode only, and the system transaction that came of the   *)
(* same UTXOs is in the ledger's genesis state.                             *)
ASSUME GenesisAssumption ==
    /\ GenesisContract \in Contracts /\ GenesisPosition \in CardanoPositions
    /\ GenesisMappings \in [Addrs -> Seq(MappingEntry)]
    /\ GenesisOwners \in [Utxos -> ValidKeys \cup {NoKey}]
    /\ GenesisDust \in [Utxos -> Generation]
    /\ Matches(GenesisOwners, GenesisDust)

VARIABLES
    mappings,           \* Mappings: address -> sequence of entries
    utxoOwners,         \* UtxoOwners: nonce -> key, or NoKey
    nextPosition,       \* NextCardanoPosition
    executed,           \* InherentExecutedThisBlock
    contract,           \* MainChainMappingValidatorAddress
    registered,         \* who is registered, as told by genesis and by the
                        \* Registration and Deregistration events since
    dust,               \* the ledger's generations
    phase,              \* between blocks, in a block, in process_tokens
    queue,              \* UTXOs that process_tokens still has to handle
    target,             \* its argument next_cardano_position
    batch,              \* the events it has collected, see Batch
    committed           \* storage after the last valid block

storage == <<mappings, utxoOwners, nextPosition, executed, contract, registered, dust>>
Storage == [mappings |-> mappings, utxoOwners |-> utxoOwners, nextPosition |-> nextPosition,
            executed |-> executed, contract |-> contract, registered |-> registered,
            dust |-> dust]
call == <<queue, target, batch>>
vars == <<mappings, utxoOwners, nextPosition, executed, contract, registered, dust,
          phase, queue, target, batch, committed>>

Phases == {"between", "block", "tokens"}

(* The Vec of CNightGeneratesDust events, as what its readers can tell of  *)
(* it: how many there are, whether the ledger can decode all of them, and  *)
(* what it would make of them: the generations after applying them, and    *)
(* whether it accepts them at all.                                         *)
Batch == [size : Nat, decodable : BOOLEAN, accepted : BOOLEAN,
          effect : [Utxos -> Generation]]
NoEvents(d) == [size |-> 0, decodable |-> TRUE, accepted |-> TRUE, effect |-> d]

(* apply_system_tx of the ledger on one Create and on one Destroy event.   *)
PushCreate(b, n, k) ==
    [size      |-> b.size + 1,
     decodable |-> b.decodable /\ k \in ValidKeys,
     accepted  |-> b.accepted /\ b.effect[n] = Unknown,
     effect    |-> [b.effect EXCEPT ![n] = Generating(k)]]
PushDestroy(b, n, k) ==
    [size      |-> b.size + 1,
     decodable |-> b.decodable /\ k \in ValidKeys,
     accepted  |-> b.accepted /\ b.effect[n] = Generating(k),
     effect    |-> [b.effect EXCEPT ![n] = Ended(k)]]
-----------------------------------------------------------------------------
(* get_registration: the key of the only mapping, if there is exactly one. *)
GetRegistration(entries) == IF Len(entries) = 1 THEN entries[1].key ELSE NoKey

(* is_registered *)
IsRegistered(entries) == Len(entries) = 1

(* Vec::remove of the first element equal to e; the list itself when there *)
(* is none.                                                                *)
RemoveFirst(entries, e) ==
    IF \E i \in 1 .. Len(entries) : entries[i] = e
    THEN LET at == CHOOSE i \in 1 .. Len(entries) :
                      /\ entries[i] = e
                      /\ \A j \in 1 .. i - 1 : entries[j] # e
         IN  [j \in 1 .. Len(entries) - 1 |->
                 IF j < at THEN entries[j] ELSE entries[j + 1]]
    ELSE entries

(* What someone who knows the mappings of genesis and follows the events   *)
(* makes of a Registration and of a Deregistration event.  Each is news:   *)
(* an address is registered only while it is not, and deregistered with    *)
(* the key it had.  Any other event leaves the follower confused.          *)
Confused == "confused"
Registration(view, a, k) == [view EXCEPT ![a] = IF @ = NoKey THEN k ELSE Confused]
Deregistration(view, a, k) == [view EXCEPT ![a] = IF @ = k THEN NoKey ELSE Confused]

(* construct_cnight_generates_dust_event decodes the owner's key. *)
ConstructsEvent(k) == k \in ValidKeys
-----------------------------------------------------------------------------
Init ==
    /\ mappings = GenesisMappings
    /\ utxoOwners = GenesisOwners
    /\ nextPosition = GenesisPosition
    /\ executed = FALSE
    /\ contract = GenesisContract
    /\ registered = [a \in Addrs |-> GetRegistration(GenesisMappings[a])]
    /\ dust = GenesisDust
    /\ phase = "between"
    /\ queue = <<>>
    /\ target = GenesisPosition
    /\ batch = NoEvents(dust)
    /\ committed = Storage

(* A new block starts from its parent's state. *)
OnInitialize ==
    /\ phase = "between"
    /\ phase' = "block"
    /\ UNCHANGED <<storage, call, committed>>

(* The locals of process_tokens are gone once it has returned. *)
Return ==
    /\ queue' = <<>>
    /\ target' = nextPosition'
    /\ batch' = NoEvents(dust')

(* The block is not valid: what remains is the parent's state. *)
Discard ==
    /\ phase' = "between"
    /\ mappings' = committed.mappings
    /\ utxoOwners' = committed.utxoOwners
    /\ nextPosition' = committed.nextPosition
    /\ executed' = committed.executed
    /\ contract' = committed.contract
    /\ registered' = committed.registered
    /\ dust' = committed.dust
    /\ Return
    /\ UNCHANGED committed

(* Faulty variant: the position of the inherent is not compared. *)
TokensAllowedAnyPosition(utxos, next) ==
    /\ Len(utxos) <= TxCapacity * UtxoPerTx
    /\ ~ executed

(* Faulty variant: a full inherent is refused. *)
TokensAllowedBelow(utxos, next) ==
    /\ Len(utxos) < TxCapacity * UtxoPerTx
    /\ ~ executed
    /\ PosLeq(nextPosition, next)

(* Faulty variant: nothing keeps a second inherent out of the block. *)
TokensAllowedAgain(utxos, next) ==
    /\ Len(utxos) <= TxCapacity * UtxoPerTx
    /\ PosLeq(nextPosition, next)

(* The three ensure! of process_tokens, in their order. *)
TokensAllowed(utxos, next) ==
    /\ Len(utxos) <= TxCapacity * UtxoPerTx
    /\ ~ executed
    /\ PosLeq(nextPosition, next)

ProcessTokens(utxos, next) ==
    /\ phase = "block"
    /\ TokensAllowed(utxos, next)
    /\ phase' = "tokens"
    /\ executed' = TRUE
    /\ queue' = utxos
    /\ target' = next
    /\ batch' = NoEvents(dust)
    /\ UNCHANGED <<mappings, utxoOwners, nextPosition, contract, registered, dust, committed>>

(* TooManyUtxos, InherentAlreadyExecuted or CardanoPositionRegression. *)
RejectTokens(utxos, next) ==
    /\ phase = "block"
    /\ ~ TokensAllowed(utxos, next)
    /\ Discard

(* The loop takes the next UTXO, which is of this kind. *)
Take(kind) ==
    /\ phase = "tokens"
    /\ queue # <<>>
    /\ Head(queue).kind = kind
    /\ queue' = Tail(queue)
    /\ UNCHANGED <<nextPosition, executed, contract, dust, phase, target, committed>>

(* Faulty variant: every further mapping is announced as a deregistration. *)
HandleRegistrationRepeating ==
    /\ Take("Registration")
    /\ LET u == Head(queue)
           old == mappings[u.owner]
           new == Append(old, [key |-> u.key, utxo |-> u.utxo])
       IN  /\ mappings' = [mappings EXCEPT ![u.owner] = new]
           /\ registered' = IF IsRegistered(new) THEN Registration(registered, u.owner, u.key)
                            ELSE Deregistration(registered, u.owner, old[1].key)
    /\ UNCHANGED <<utxoOwners, batch>>

(* Both handlers of mappings deposit Registration when the address becomes *)
(* registered and Deregistration when it stops being so.                   *)
HandleRegistration ==
    /\ Take("Registration")
    /\ LET u == Head(queue)
           old == mappings[u.owner]
           new == Append(old, [key |-> u.key, utxo |-> u.utxo])
       IN  /\ mappings' = [mappings EXCEPT ![u.owner] = new]
           /\ registered' =
                 IF GetRegistration(old) = NoKey /\ IsRegistered(new)
                 THEN Registration(registered, u.owner, u.key)
                 ELSE IF GetRegistration(old) # NoKey /\ ~ IsRegistered(new)
                 THEN Deregistration(registered, u.owner, GetRegistration(old))
                 ELSE registered
    /\ UNCHANGED <<utxoOwners, batch>>

HandleRegistrationRemoval ==
    /\ Take("Deregistration")
    /\ LET u == Head(queue)
           old == mappings[u.owner]
           new == RemoveFirst(old, [key |-> u.key, utxo |-> u.utxo])
       IN  /\ mappings' = [mappings EXCEPT ![u.owner] = new]
           /\ registered' =
                 IF ~ IsRegistered(old) /\ GetRegistration(new) # NoKey
                 THEN Registration(registered, u.owner, GetRegistration(new))
                 ELSE IF IsRegistered(old) /\ GetRegistration(new) = NoKey
                 THEN Deregistration(registered, u.owner, u.key)
                 ELSE registered
    /\ UNCHANGED <<utxoOwners, batch>>

(* Faulty variant: the owner is stored before the event is constructed. *)
HandleCreateInsertFirst ==
    /\ Take("AssetCreate")
    /\ LET u == Head(queue)
           k == GetRegistration(mappings[u.owner])
       IN  /\ utxoOwners' = IF k # NoKey THEN [utxoOwners EXCEPT ![u.utxo] = k]
                            ELSE utxoOwners
           /\ batch' = IF k # NoKey /\ ConstructsEvent(k)
                       THEN PushCreate(batch, u.utxo, k) ELSE batch
    /\ UNCHANGED <<mappings, registered>>

(* A create of an unregistered owner, or for a key the ledger cannot       *)
(* decode, has no effect.                                                  *)
HandleCreate ==
    /\ Take("AssetCreate")
    /\ LET u == Head(queue)
           k == GetRegistration(mappings[u.owner])
       IN  IF k # NoKey /\ ConstructsEvent(k)
           THEN /\ utxoOwners' = [utxoOwners EXCEPT ![u.utxo] = k]
                /\ batch' = PushCreate(batch, u.utxo, k)
           ELSE UNCHANGED <<utxoOwners, batch>>
    /\ UNCHANGED <<mappings, registered>>

(* Faulty variant: get instead of take. *)
HandleSpendWithoutTake ==
    /\ Take("AssetSpend")
    /\ LET u == Head(queue)
           k == utxoOwners[u.utxo]
       IN  batch' = IF k # NoKey /\ ConstructsEvent(k)
                    THEN PushDestroy(batch, u.utxo, k) ELSE batch
    /\ UNCHANGED <<mappings, registered, utxoOwners>>

(* UtxoOwners::take comes first: the entry is gone even if no event can be *)
(* constructed.                                                            *)
HandleSpend ==
    /\ Take("AssetSpend")
    /\ LET u == Head(queue)
           k == utxoOwners[u.utxo]
       IN  /\ utxoOwners' = [utxoOwners EXCEPT ![u.utxo] = NoKey]
           /\ batch' = IF k # NoKey /\ ConstructsEvent(k)
                       THEN PushDestroy(batch, u.utxo, k)
                       ELSE batch
    /\ UNCHANGED <<mappings, registered>>

(* The end of process_tokens: the position moves and the events, if any,   *)
(* go to the ledger as one system transaction, which turns dust into d.    *)
Complete(d) ==
    /\ phase = "tokens"
    /\ queue = <<>>
    /\ phase' = "block"
    /\ nextPosition' = target
    /\ dust' = d
    /\ Return
    /\ UNCHANGED <<mappings, utxoOwners, executed, contract, registered, committed>>

CompleteWithoutEvents ==
    /\ batch.size = 0
    /\ Complete(dust)

(* construct_cnight_generates_dust_system_tx decodes the events again; if  *)
(* it cannot, that is logged and the events are lost.                      *)
ExecuteSystemTransaction ==
    /\ batch.size > 0
    /\ batch.decodable => batch.accepted
    /\ Complete(IF batch.decodable THEN batch.effect ELSE dust)

(* The ledger refuses the system transaction: process_tokens fails. *)
SystemTransactionFailed ==
    /\ phase = "tokens"
    /\ queue = <<>>
    /\ batch.size > 0 /\ batch.decodable /\ ~ batch.accepted
    /\ Discard

OnFinalize ==
    /\ phase = "block"
    /\ phase' = "between"
    /\ executed' = FALSE
    /\ UNCHANGED <<mappings, utxoOwners, nextPosition, contract, registered, dust, call>>
    /\ committed' = Storage'

(* set_mapping_validator_contract_address, from Root; an address that does *)
(* not fit is refused with MaxCardanoAddrLengthExceeded.                   *)
SetMappingValidatorContractAddress(c) ==
    /\ phase = "block"
    /\ contract' = IF c \in LongAddresses THEN contract ELSE c
    /\ UNCHANGED <<mappings, utxoOwners, nextPosition, executed, registered, dust,
                   phase, call, committed>>

Next ==
    \/ OnInitialize
    \/ \E utxos \in Batches, next \in Positions : ProcessTokens(utxos, next)
    \/ \E utxos \in Batches, next \in Positions : RejectTokens(utxos, next)
    \/ HandleRegistration
    \/ HandleRegistrationRemoval
    \/ HandleCreate
    \/ HandleSpend
    \/ CompleteWithoutEvents
    \/ ExecuteSystemTransaction
    \/ SystemTransactionFailed
    \/ OnFinalize
    \/ \E c \in Contracts \cup LongAddresses : SetMappingValidatorContractAddress(c)

Spec == Init /\ [][Next]_vars
-----------------------------------------------------------------------------
StorageType ==
    [mappings : [Addrs -> Seq(MappingEntry)], utxoOwners : [Utxos -> ValidKeys \cup {NoKey}],
     nextPosition : CardanoPositions, executed : BOOLEAN, contract : Contracts,
     registered : [Addrs -> Keys \cup {NoKey, Confused}], dust : [Utxos -> Generation]]

(* Types of the pallet's storage and of the call in progress. *)
TypeOK ==
    /\ Storage \in StorageType
    /\ committed \in StorageType
    /\ phase \in Phases
    /\ queue \in Seq(ObservedUtxo)
    /\ target \in CardanoPositions
    /\ batch \in Batch

(* Whoever knows the mappings of genesis and follows the Registration and   *)
(* Deregistration events knows exactly who is registered and with which key *)
(* (handle_registration, handle_registration_removal): no event is missing, *)
(* repeated or about the wrong key, whatever UTXOs arrive and whichever     *)
(* blocks are discarded.                                                    *)
EventsTellRegistration ==
    \A a \in Addrs : registered[a] = GetRegistration(mappings[a])

(* UtxoOwners and the ledger agree whenever process_tokens is not running.  *)
(* The two are written at different times (handle_create and handle_spend   *)
(* against execute_system_transaction), and a failure in between discards   *)
(* the block.                                                               *)
OwnersMatchLedger == phase # "tokens" => Matches(utxoOwners, dust)

(* Until the inherent ran, a block has changed nothing that the inherent    *)
(* writes; between blocks InherentExecutedThisBlock is down.                *)
Books == <<mappings, utxoOwners, nextPosition, registered, dust>>
ParentBooks == <<committed.mappings, committed.utxoOwners, committed.nextPosition,
                 committed.registered, committed.dust>>
FlagTellsInherent ==
    /\ phase = "between" => ~ executed
    /\ phase = "block" /\ ~ executed => Books = ParentBooks

(* A block's books are written by one process_tokens: a call that is not    *)
(* refused starts from what the parent left, so no earlier call of the same *)
(* block wrote anything, and the flag that refuses a second call is down    *)
(* when a block begins, however the one before it ended.                    *)
InherentOncePerBlock ==
    [][ /\ phase = "block" /\ phase' = "tokens" => Books = ParentBooks
        /\ phase = "between" /\ phase' = "block" => ~ executed' ]_vars

(* However a block ends, finalized or discarded, the position it leaves is  *)
(* not before its parent's, and it is the parent's if the block was         *)
(* discarded in the middle of process_tokens.                               *)
PositionNeverRegresses ==
    [][ phase' = "between" /\ phase # "between" =>
            /\ PosLeq(committed.nextPosition, nextPosition')
            /\ phase = "tokens" => nextPosition' = committed.nextPosition ]_vars
=============================================================================
