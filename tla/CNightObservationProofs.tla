----------------------- MODULE CNightObservationProofs -----------------------
(***************************************************************************)
(* Proofs about pallet-cnight-observation, for any sets of addresses, keys *)
(* and UTXOs, any capacity and any lists of UTXOs in the inherents.        *)
(***************************************************************************)
EXTENDS CNightObservation, TLAPS

(* RemoveFirst returns its argument, or a list that is one entry shorter,  *)
(* and then the entry was in it.                                           *)
LEMMA RemoveFirstLength ==
    ASSUME NEW s \in Seq(MappingEntry), NEW e \in MappingEntry
    PROVE  /\ RemoveFirst(s, e) \in Seq(MappingEntry)
           /\ \/ RemoveFirst(s, e) = s
              \/ /\ Len(s) > 0 /\ Len(RemoveFirst(s, e)) = Len(s) - 1
                 /\ \E i \in 1 .. Len(s) : s[i] = e
<1>1. CASE ~ \E i \in 1 .. Len(s) : s[i] = e
  BY <1>1 DEF RemoveFirst
<1>2. CASE \E i \in 1 .. Len(s) : s[i] = e
  <2> DEFINE at == CHOOSE i \in 1 .. Len(s) : s[i] = e /\ \A j \in 1 .. i - 1 : s[j] # e
             r == [j \in 1 .. Len(s) - 1 |-> IF j < at THEN s[j] ELSE s[j + 1]]
  <2>1. RemoveFirst(s, e) = r
    BY <1>2, Zenon DEF RemoveFirst
  <2>2. Len(s) \in Nat /\ Len(s) > 0
    BY <1>2
  <2>3. \A j \in 1 .. Len(s) - 1 : r[j] \in MappingEntry
    BY <2>2
  <2>4. r \in Seq(MappingEntry) /\ Len(r) = Len(s) - 1
    BY <2>2, <2>3
  <2> QED
    BY <1>2, <2>1, <2>2, <2>4
<1> QED
  BY <1>1, <1>2

(* GetRegistration yields a key exactly for the lists of one entry. *)
LEMMA GetRegistrationKey ==
    ASSUME NEW l \in Seq(MappingEntry)
    PROVE  /\ Len(l) \in Nat
           /\ GetRegistration(l) \in Keys \cup {NoKey}
           /\ GetRegistration(l) # NoKey <=> Len(l) = 1
<1>1. Len(l) = 1 => l[1] \in MappingEntry
  OBVIOUS
<1>2. Len(l) = 1 => l[1].key \in Keys
  BY <1>1 DEF MappingEntry
<1> QED
  BY <1>2, KeysAssumption, ValidKeysAssumption DEF GetRegistration

(* The inductive invariant.  Besides the properties themselves it says what *)
(* the committed state satisfies, which is what Discard goes back to, and   *)
(* how the collected events relate to UtxoOwners while process_tokens runs. *)
CommittedOK ==
    /\ ~ committed.executed
    /\ \A a \in Addrs : committed.registered[a] = GetRegistration(committed.mappings[a])
    /\ Matches(committed.utxoOwners, committed.dust)

CallOK ==
    /\ batch.decodable
    /\ batch.size = 0 => batch.accepted /\ batch.effect = dust
    /\ phase = "tokens" =>
          /\ executed
          /\ batch.accepted => Matches(utxoOwners, batch.effect)
          /\ nextPosition = committed.nextPosition
          /\ PosLeq(nextPosition, target)

IInv ==
    /\ TypeOK
    /\ EventsTellRegistration
    /\ OwnersMatchLedger
    /\ CommittedOK
    /\ CallOK
    /\ FlagTellsInherent
    /\ PosLeq(committed.nextPosition, nextPosition)
    /\ phase = "between" => Storage = committed

LEMMA InitIInv == Init => IInv
<1> SUFFICES ASSUME Init PROVE IInv
  OBVIOUS
<1> USE KeysAssumption, ValidKeysAssumption, GenesisAssumption DEF Init
<1>1. Storage \in StorageType
  <2>1. registered \in [Addrs -> Keys \cup {NoKey}]
    BY GetRegistrationKey
  <2> QED
    BY <2>1 DEF Storage, StorageType
<1>2. TypeOK
  BY <1>1 DEF TypeOK, Phases, NoEvents, Batch, StorageType, Storage
<1>3. \A a \in Addrs : registered[a] = GetRegistration(mappings[a])
  OBVIOUS
<1>4. Matches(utxoOwners, dust)
  OBVIOUS
<1>5. PosLeq(nextPosition, nextPosition)
  BY DEF PosLeq, PosLess, CardanoPositions
<1> QED
  BY <1>2, <1>3, <1>4, <1>5 DEF IInv, EventsTellRegistration, OwnersMatchLedger, CommittedOK,
     CallOK, FlagTellsInherent, Storage, NoEvents, Books, ParentBooks

(* A discarded block leaves the committed state, which is a good one. *)
LEMMA DiscardIInv ==
    ASSUME IInv, Discard
    PROVE  IInv'
<1> USE DEF IInv, Discard, Return
<1>1. TypeOK'
  BY DEF TypeOK, Storage, StorageType, Phases, NoEvents, Batch
<1>2. EventsTellRegistration' /\ OwnersMatchLedger' /\ CommittedOK'
  BY DEF EventsTellRegistration, OwnersMatchLedger, CommittedOK, Matches
<1>3. CallOK'
  BY DEF CallOK, NoEvents
<1>4. FlagTellsInherent'
  BY DEF FlagTellsInherent, CommittedOK
<1>5. PosLeq(committed.nextPosition, nextPosition)'
  BY DEF PosLeq, PosLess, TypeOK, StorageType, CardanoPositions
<1>6. Storage' = committed'
  BY DEF Storage, TypeOK, StorageType
<1> QED
  BY <1>1, <1>2, <1>3, <1>4, <1>5, <1>6

(* The loop takes the head of the queue and leaves most of the state alone. *)
LEMMA TakeHead ==
    ASSUME TypeOK, NEW kind, Take(kind)
    PROVE  /\ Head(queue) \in ObservedUtxo
           /\ Head(queue).kind = kind
           /\ queue' \in Seq(ObservedUtxo)
           /\ phase = "tokens" /\ phase' = "tokens"
           /\ UNCHANGED <<nextPosition, executed, contract, dust, target, committed>>
<1>1. queue \in Seq(ObservedUtxo) /\ queue # <<>>
  BY DEF TypeOK, Take
<1>2. Head(queue) \in ObservedUtxo /\ Tail(queue) \in Seq(ObservedUtxo)
  BY <1>1
<1> QED
  BY <1>2 DEF Take

(* The two handlers of mappings: the events follow the list's length. *)
LEMMA MappingHandlers ==
    ASSUME IInv, HandleRegistration \/ HandleRegistrationRemoval
    PROVE  IInv'
<1> DEFINE u == Head(queue)
           e == [key |-> u.key, utxo |-> u.utxo]
           old == mappings[u.owner]
           Good(new) == /\ mappings' = [mappings EXCEPT ![u.owner] = new]
                        /\ registered' = [registered EXCEPT ![u.owner] = GetRegistration(new)]
<1>1. /\ u \in ObservedUtxo /\ u.kind \in {"Registration", "Deregistration"}
      /\ queue' \in Seq(ObservedUtxo) /\ phase = "tokens" /\ phase' = "tokens"
      /\ UNCHANGED <<nextPosition, executed, contract, dust, target, committed>>
  <2>1. CASE HandleRegistration
    BY <2>1, TakeHead DEF HandleRegistration, IInv
  <2>2. CASE HandleRegistrationRemoval
    BY <2>2, TakeHead DEF HandleRegistrationRemoval, IInv
  <2> QED
    BY <2>1, <2>2
<1>2. UNCHANGED <<utxoOwners, batch>>
  BY DEF HandleRegistration, HandleRegistrationRemoval
<1>3. u.owner \in Addrs /\ u.key \in Keys /\ e \in MappingEntry
  BY <1>1 DEF ObservedUtxo, MappingEntry
<1>4. /\ mappings \in [Addrs -> Seq(MappingEntry)] /\ old \in Seq(MappingEntry)
      /\ registered \in [Addrs -> Keys \cup {NoKey, Confused}]
      /\ registered[u.owner] = GetRegistration(old)
  BY <1>3 DEF IInv, TypeOK, Storage, StorageType, EventsTellRegistration
<1> HIDE DEF u, e, old
<1>5. ASSUME HandleRegistration
      PROVE  \E new \in Seq(MappingEntry) : Good(new)
  <2> DEFINE new == Append(old, e)
  <2>1. /\ new \in Seq(MappingEntry) /\ Len(new) = Len(old) + 1
        /\ Len(old) \in Nat /\ (Len(old) = 0 => new[1] = e)
    BY <1>3, <1>4
  <2>2. /\ mappings' = [mappings EXCEPT ![u.owner] = new]
        /\ registered' =
                 IF GetRegistration(old) = NoKey /\ IsRegistered(new)
                 THEN Registration(registered, u.owner, u.key)
                 ELSE IF GetRegistration(old) # NoKey /\ ~ IsRegistered(new)
                 THEN Deregistration(registered, u.owner, GetRegistration(old))
                 ELSE registered
    BY <1>5, Zenon DEF HandleRegistration, u, e, old
  <2>3. CASE Len(old) = 0
    <3>1. GetRegistration(old) = NoKey /\ IsRegistered(new) /\ GetRegistration(new) = u.key
      BY <2>1, <2>3 DEF GetRegistration, IsRegistered, e
    <3>2. registered' = [registered EXCEPT ![u.owner] = u.key]
      BY <1>3, <1>4, <2>2, <3>1 DEF Registration
    <3> QED
      BY <2>1, <2>2, <3>1, <3>2
  <2>4. CASE Len(old) # 0
    <3>1. ~ IsRegistered(new) /\ GetRegistration(new) = NoKey
      BY <2>1, <2>4 DEF GetRegistration, IsRegistered
    <3>2. registered' = [registered EXCEPT ![u.owner] = NoKey]
      BY <1>3, <1>4, <2>2, <3>1 DEF Deregistration
    <3> QED
      BY <2>1, <2>2, <3>1, <3>2
  <2> QED
    BY <2>3, <2>4
<1>6. ASSUME HandleRegistrationRemoval
      PROVE  \E new \in Seq(MappingEntry) : Good(new)
  <2> DEFINE new == RemoveFirst(old, e)
  <2>1. /\ new \in Seq(MappingEntry)
        /\ \/ new = old
           \/ /\ Len(old) > 0 /\ Len(new) = Len(old) - 1
              /\ \E i \in 1 .. Len(old) : old[i] = e
    BY <1>3, <1>4, RemoveFirstLength
  <2>2. /\ mappings' = [mappings EXCEPT ![u.owner] = new]
        /\ registered' =
                 IF ~ IsRegistered(old) /\ GetRegistration(new) # NoKey
                 THEN Registration(registered, u.owner, GetRegistration(new))
                 ELSE IF IsRegistered(old) /\ GetRegistration(new) = NoKey
                 THEN Deregistration(registered, u.owner, u.key)
                 ELSE registered
    BY <1>6, Zenon DEF HandleRegistrationRemoval, u, e, old
  <2> HIDE DEF new
  <2>3. registered' = [registered EXCEPT ![u.owner] = GetRegistration(new)]
    <3>1. /\ GetRegistration(new) # NoKey <=> Len(new) = 1
          /\ GetRegistration(old) # NoKey <=> Len(old) = 1
      BY <1>4, <2>1, GetRegistrationKey
    <3>2. CASE new = old
      BY <1>3, <1>4, <2>2, <3>1, <3>2 DEF IsRegistered
    <3>3. CASE /\ Len(old) > 0 /\ Len(new) = Len(old) - 1
               /\ \E i \in 1 .. Len(old) : old[i] = e
      <4>1. Len(old) \in Nat /\ Len(new) \in Nat
        BY <1>4, <2>1
      <4>2. CASE Len(old) = 1
        <5>1. old[1] = e
          BY <3>3, <4>2
        <5>2. GetRegistration(old) = u.key
          BY <4>2, <5>1 DEF GetRegistration, e
        <5>3. GetRegistration(new) = NoKey
          BY <3>1, <3>3, <4>2
        <5> QED
          BY <1>3, <1>4, <2>2, <4>2, <5>2, <5>3 DEF IsRegistered, Deregistration
      <4>3. CASE Len(old) # 1
        <5>1. registered[u.owner] = NoKey
          BY <1>4, <3>1, <4>3
        <5> QED
          BY <1>3, <1>4, <2>2, <3>1, <4>3, <5>1 DEF IsRegistered, Registration
      <4> QED
        BY <4>2, <4>3
    <3> QED
      BY <2>1, <3>2, <3>3
  <2> QED
    BY <2>1, <2>2, <2>3
<1>7. PICK new \in Seq(MappingEntry) : Good(new)
  BY <1>5, <1>6
<1>8. /\ mappings' \in [Addrs -> Seq(MappingEntry)]
      /\ registered' \in [Addrs -> Keys \cup {NoKey, Confused}]
      /\ EventsTellRegistration'
  BY <1>3, <1>4, <1>7, GetRegistrationKey DEF EventsTellRegistration, IInv
<1>9. TypeOK'
  BY <1>1, <1>2, <1>8 DEF IInv, TypeOK, Storage, StorageType
<1>10. CallOK' /\ CommittedOK' /\ OwnersMatchLedger' /\ FlagTellsInherent'
  BY <1>1, <1>2 DEF IInv, CallOK, CommittedOK, OwnersMatchLedger, FlagTellsInherent, Books, ParentBooks, Matches
<1> QED
  BY <1>1, <1>8, <1>9, <1>10 DEF IInv

(* The two handlers of cNIGHT: UtxoOwners and the collected events move     *)
(* together, and only with keys that can be decoded.                        *)
LEMMA AssetHandlers ==
    ASSUME IInv, HandleCreate \/ HandleSpend
    PROVE  IInv'
<1> DEFINE u == Head(queue)
           n == u.utxo
<1>1. /\ u \in ObservedUtxo /\ queue' \in Seq(ObservedUtxo)
      /\ phase = "tokens" /\ phase' = "tokens"
      /\ UNCHANGED <<nextPosition, executed, contract, dust, target, committed>>
  <2>1. CASE HandleCreate
    BY <2>1, TakeHead DEF HandleCreate, IInv
  <2>2. CASE HandleSpend
    BY <2>2, TakeHead DEF HandleSpend, IInv
  <2> QED
    BY <2>1, <2>2
<1>2. UNCHANGED <<mappings, registered>>
  BY DEF HandleCreate, HandleSpend
<1>3. u.owner \in Addrs /\ n \in Utxos
  BY <1>1 DEF ObservedUtxo
<1>4. /\ batch \in Batch /\ batch.decodable
      /\ utxoOwners \in [Utxos -> ValidKeys \cup {NoKey}]
      /\ batch.size = 0 => batch.accepted /\ batch.effect = dust
      /\ batch.accepted => Matches(utxoOwners, batch.effect)
  BY <1>1 DEF IInv, TypeOK, Storage, StorageType, CallOK
<1> HIDE DEF u, n
<1> DEFINE Good == /\ batch' \in Batch /\ batch'.decodable
                   /\ utxoOwners' \in [Utxos -> ValidKeys \cup {NoKey}]
                   /\ batch'.size = 0 => batch'.accepted /\ batch'.effect = dust
                   /\ batch'.accepted => Matches(utxoOwners', batch'.effect)
<1>5. ASSUME HandleCreate PROVE Good
  <2> DEFINE k == GetRegistration(mappings[u.owner])
  <2>1. CASE k # NoKey /\ k \in ValidKeys
    <3>1. /\ utxoOwners' = [utxoOwners EXCEPT ![n] = k]
          /\ batch' = PushCreate(batch, n, k)
      BY <1>5, <2>1 DEF HandleCreate, ConstructsEvent, u, n
    <3> HIDE DEF k
    <3>2. Generating(k) \in Generation
      BY <2>1, KeysAssumption, ValidKeysAssumption DEF Generating, Generation
    <3>3. batch' \in Batch /\ batch'.decodable /\ batch'.size # 0
      BY <1>3, <1>4, <2>1, <3>1, <3>2 DEF PushCreate, Batch
    <3>4. utxoOwners' \in [Utxos -> ValidKeys \cup {NoKey}]
      BY <1>4, <2>1, <3>1
    <3>5. batch'.accepted => Matches(utxoOwners', batch'.effect)
      BY <1>3, <1>4, <2>1, <3>1 DEF PushCreate, Matches, Generating, Batch
    <3> QED
      BY <3>3, <3>4, <3>5
  <2>2. CASE ~ (k # NoKey /\ k \in ValidKeys)
    BY <1>4, <1>5, <2>2 DEF HandleCreate, ConstructsEvent, u
  <2> QED
    BY <2>1, <2>2
<1>6. ASSUME HandleSpend PROVE Good
  <2> DEFINE k == utxoOwners[n]
  <2>1. utxoOwners' = [utxoOwners EXCEPT ![n] = NoKey]
    BY <1>6 DEF HandleSpend, u, n
  <2>2. utxoOwners' \in [Utxos -> ValidKeys \cup {NoKey}]
    BY <1>4, <2>1
  <2>3. CASE k # NoKey
    <3>1. k \in ValidKeys
      BY <1>3, <1>4, <2>3
    <3>2. batch' = PushDestroy(batch, n, k)
      BY <1>6, <2>3, <3>1 DEF HandleSpend, ConstructsEvent, u, n
    <3> HIDE DEF k
    <3>3. Ended(k) \in Generation
      BY <3>1, KeysAssumption, ValidKeysAssumption DEF Ended, Generation
    <3>4. batch' \in Batch /\ batch'.decodable /\ batch'.size # 0
      BY <1>3, <1>4, <3>1, <3>2, <3>3 DEF PushDestroy, Batch
    <3>5. batch'.accepted => Matches(utxoOwners', batch'.effect)
      BY <1>3, <1>4, <2>1, <3>2 DEF PushDestroy, Matches, Ended, Batch
    <3> QED
      BY <2>2, <3>4, <3>5
  <2>4. CASE k = NoKey
    <3>1. utxoOwners' = utxoOwners /\ batch' = batch
      BY <1>3, <1>4, <1>6, <2>1, <2>4 DEF HandleSpend, u, n
    <3> QED
      BY <1>4, <3>1
  <2> QED
    BY <2>3, <2>4
<1>7. Good
  BY <1>5, <1>6
<1> HIDE DEF Good
<1>8. TypeOK'
  BY <1>1, <1>2, <1>7 DEF IInv, TypeOK, Storage, StorageType, Good
<1>9. CallOK'
  BY <1>1, <1>7 DEF IInv, CallOK, Good
<1>10. /\ EventsTellRegistration' /\ CommittedOK' /\ OwnersMatchLedger'
       /\ FlagTellsInherent'
  BY <1>1, <1>2 DEF IInv, EventsTellRegistration, CommittedOK, OwnersMatchLedger,
     FlagTellsInherent, Books, ParentBooks, Matches
<1> QED
  BY <1>1, <1>8, <1>9, <1>10 DEF IInv

LEMMA CompleteIInv ==
    ASSUME IInv, CompleteWithoutEvents \/ ExecuteSystemTransaction
    PROVE  IInv'
<1> DEFINE d == batch.effect
<1>1. batch.decodable /\ batch.effect \in [Utxos -> Generation]
  BY DEF IInv, CallOK, TypeOK, Batch
<1>2. batch.accepted /\ Complete(d)
  <2>1. CASE CompleteWithoutEvents
    BY <2>1 DEF CompleteWithoutEvents, IInv, CallOK
  <2>2. CASE ExecuteSystemTransaction
    BY <2>2, <1>1 DEF ExecuteSystemTransaction
  <2> QED
    BY <2>1, <2>2
<1>3. /\ phase = "tokens" /\ phase' = "block" /\ queue' = <<>> /\ nextPosition' = target
      /\ target' = target /\ dust' = d /\ batch' = NoEvents(d)
      /\ UNCHANGED <<mappings, utxoOwners, executed, contract, registered, committed>>
  BY <1>2 DEF Complete, Return
<1>4. NoEvents(d) \in Batch
  BY <1>1 DEF NoEvents, Batch
<1>5. TypeOK'
  BY <1>1, <1>3, <1>4 DEF IInv, TypeOK, Storage, StorageType, Phases
<1>6. EventsTellRegistration' /\ CommittedOK'
  BY <1>3 DEF IInv, EventsTellRegistration, CommittedOK, Matches
<1>7. OwnersMatchLedger'
  BY <1>2, <1>3 DEF IInv, CallOK, OwnersMatchLedger, Matches
<1>8. CallOK'
  BY <1>3 DEF CallOK, NoEvents
<1>9. FlagTellsInherent' /\ PosLeq(committed.nextPosition, nextPosition)'
  BY <1>3 DEF IInv, CallOK, FlagTellsInherent
<1> QED
  BY <1>3, <1>5, <1>6, <1>7, <1>8, <1>9 DEF IInv

LEMMA NextIInv == IInv /\ [Next]_vars => IInv'
<1> SUFFICES ASSUME IInv, [Next]_vars PROVE IInv'
  OBVIOUS
<1>1. CASE OnInitialize
  <2>1. phase = "between" /\ phase' = "block" /\ UNCHANGED <<storage, call, committed>>
    BY <1>1 DEF OnInitialize
  <2>2. TypeOK' /\ CallOK' /\ CommittedOK' /\ OwnersMatchLedger' /\ EventsTellRegistration'
    BY <2>1 DEF IInv, TypeOK, CallOK, CommittedOK, OwnersMatchLedger, EventsTellRegistration,
       Matches, Storage, storage, call, Phases
  <2>3. FlagTellsInherent' /\ PosLeq(committed.nextPosition, nextPosition)'
    BY <2>1 DEF IInv, FlagTellsInherent, Books, ParentBooks, Storage, storage
  <2> QED
    BY <2>1, <2>2, <2>3 DEF IInv
<1>2. ASSUME NEW utxos \in Batches, NEW next \in Positions, ProcessTokens(utxos, next)
      PROVE  IInv'
  <2>1. /\ phase = "block" /\ phase' = "tokens" /\ ~ executed /\ executed' = TRUE
        /\ queue' = utxos /\ target' = next /\ batch' = NoEvents(dust)
        /\ UNCHANGED <<mappings, utxoOwners, nextPosition, contract, registered, dust, committed>>
        /\ PosLeq(nextPosition, next)
    BY <1>2 DEF ProcessTokens, TokensAllowed
  <2>2. utxos \in Seq(ObservedUtxo) /\ next \in CardanoPositions
    BY InputAssumption
  <2>3. NoEvents(dust) \in Batch
    BY DEF IInv, TypeOK, Storage, StorageType, NoEvents, Batch
  <2>4. TypeOK'
    BY <2>1, <2>2, <2>3 DEF IInv, TypeOK, Storage, StorageType, Phases
  <2>5. Matches(utxoOwners, dust) /\ nextPosition = committed.nextPosition
    BY <2>1 DEF IInv, OwnersMatchLedger, FlagTellsInherent, Books, ParentBooks
  <2>6. CallOK'
    BY <2>1, <2>5 DEF CallOK, NoEvents, Matches
  <2>7. /\ EventsTellRegistration' /\ CommittedOK' /\ OwnersMatchLedger'
        /\ FlagTellsInherent' /\ PosLeq(committed.nextPosition, nextPosition)'
    BY <2>1 DEF IInv, EventsTellRegistration, CommittedOK, OwnersMatchLedger,
       FlagTellsInherent, Books, ParentBooks, Matches
  <2> QED
    BY <2>1, <2>4, <2>6, <2>7 DEF IInv
<1>3. CASE \E utxos \in Batches, next \in Positions : RejectTokens(utxos, next)
  BY <1>3, DiscardIInv DEF RejectTokens
<1>4. CASE SystemTransactionFailed
  BY <1>4, DiscardIInv DEF SystemTransactionFailed
<1>5. CASE OnFinalize
  <2>1. /\ phase = "block" /\ phase' = "between" /\ executed' = FALSE
        /\ UNCHANGED <<mappings, utxoOwners, nextPosition, contract, registered, dust>>
        /\ UNCHANGED <<queue, target, batch>>
        /\ committed' = Storage'
    BY <1>5 DEF OnFinalize, call
  <2>2. TypeOK' /\ CallOK'
    BY <2>1 DEF IInv, TypeOK, CallOK, Storage, StorageType, Phases
  <2>3. EventsTellRegistration' /\ CommittedOK' /\ OwnersMatchLedger' /\ FlagTellsInherent'
    BY <2>1 DEF IInv, EventsTellRegistration, CommittedOK, OwnersMatchLedger,
       FlagTellsInherent, Books, ParentBooks, Matches, Storage
  <2>4. PosLeq(committed.nextPosition, nextPosition)'
    BY <2>1 DEF IInv, TypeOK, Storage, StorageType, PosLeq, PosLess, CardanoPositions
  <2> QED
    BY <2>1, <2>2, <2>3, <2>4 DEF IInv
<1>6. ASSUME NEW c \in Contracts \cup LongAddresses, SetMappingValidatorContractAddress(c)
      PROVE  IInv'
  <2>1. /\ phase = "block" /\ phase' = phase
        /\ contract' = IF c \in LongAddresses THEN contract ELSE c
        /\ UNCHANGED <<mappings, utxoOwners, nextPosition, executed, registered, dust>>
        /\ UNCHANGED <<queue, target, batch, committed>>
    BY <1>6 DEF SetMappingValidatorContractAddress, call
  <2>2. contract \in Contracts /\ contract' \in Contracts
    BY <2>1 DEF IInv, TypeOK, Storage, StorageType
  <2>3. TypeOK' /\ CallOK'
    BY <2>1, <2>2 DEF IInv, TypeOK, CallOK, Storage, StorageType
  <2>4. /\ EventsTellRegistration' /\ CommittedOK' /\ OwnersMatchLedger'
        /\ FlagTellsInherent' /\ PosLeq(committed.nextPosition, nextPosition)'
    BY <2>1 DEF IInv, EventsTellRegistration, CommittedOK, OwnersMatchLedger,
       FlagTellsInherent, Books, ParentBooks, Matches
  <2> QED
    BY <2>1, <2>3, <2>4 DEF IInv
<1>7. CASE UNCHANGED vars
  BY <1>7 DEF vars, IInv, TypeOK, CallOK, EventsTellRegistration, CommittedOK,
     OwnersMatchLedger, FlagTellsInherent, Books, ParentBooks, Matches, Storage
<1> QED
  BY <1>1, <1>2, <1>3, <1>4, <1>5, <1>6, <1>7, MappingHandlers, AssetHandlers, CompleteIInv
     DEF Next
-----------------------------------------------------------------------------
(* The inductive invariant holds in every reachable state. *)
THEOREM Invariance == Spec => []IInv
  BY InitIInv, NextIInv, PTL DEF Spec

(* The storage of the pallet and the locals of process_tokens have their    *)
(* types; in particular UtxoOwners only holds keys the ledger can decode.   *)
THEOREM TypeCorrect == Spec => []TypeOK
<1>1. IInv => TypeOK
  BY DEF IInv
<1> QED
  BY <1>1, Invariance, PTL

(* Registration and Deregistration events tell exactly who is registered,   *)
(* for any sequence of UTXOs handed to process_tokens.                      *)
THEOREM EventsCorrect == Spec => []EventsTellRegistration
<1>1. IInv => EventsTellRegistration
  BY DEF IInv
<1> QED
  BY <1>1, Invariance, PTL

(* UtxoOwners and the ledger's generations agree outside process_tokens,    *)
(* although handle_create, handle_spend and the system transaction write    *)
(* them at different times.                                                 *)
THEOREM OwnersCorrect == Spec => []OwnersMatchLedger
<1>1. IInv => OwnersMatchLedger
  BY DEF IInv
<1> QED
  BY <1>1, Invariance, PTL

(* A process_tokens that is not refused starts from the parent's books, and *)
(* InherentExecutedThisBlock is down when a block begins: what a block      *)
(* changes in the books is the work of one call.                            *)
THEOREM InherentOnce == Spec => InherentOncePerBlock
<1> DEFINE A == /\ phase = "block" /\ phase' = "tokens" => Books = ParentBooks
                /\ phase = "between" /\ phase' = "block" => ~ executed'
<1>1. ASSUME IInv, [Next]_vars PROVE [A]_vars
  <2>1. CASE \E utxos \in Batches, next \in Positions : ProcessTokens(utxos, next)
    <3>1. phase = "block" /\ ~ executed /\ phase' = "tokens"
      BY <2>1 DEF ProcessTokens, TokensAllowed
    <3> QED
      BY <1>1, <3>1 DEF IInv, FlagTellsInherent
  <2>2. CASE OnInitialize
    <3>1. phase = "between" /\ phase' = "block" /\ executed' = executed
      BY <2>2 DEF OnInitialize, storage
    <3> QED
      BY <1>1, <3>1 DEF IInv, FlagTellsInherent
  <2>3. CASE Discard \/ OnFinalize
    BY <2>3 DEF Discard, OnFinalize
  <2>4. CASE HandleRegistration \/ HandleRegistrationRemoval \/ HandleCreate \/ HandleSpend
    <3>1. \E kind \in {"Registration", "Deregistration", "AssetCreate", "AssetSpend"} : Take(kind)
      BY <2>4 DEF HandleRegistration, HandleRegistrationRemoval, HandleCreate, HandleSpend
    <3> QED
      BY <3>1 DEF Take
  <2>5. CASE CompleteWithoutEvents \/ ExecuteSystemTransaction
    BY <2>5 DEF CompleteWithoutEvents, ExecuteSystemTransaction, Complete
  <2>6. CASE \E c \in Contracts \cup LongAddresses : SetMappingValidatorContractAddress(c)
    BY <2>6 DEF SetMappingValidatorContractAddress
  <2>7. CASE UNCHANGED vars
    BY <2>7
  <2> QED
    BY <1>1, <2>1, <2>2, <2>3, <2>4, <2>5, <2>6, <2>7
       DEF Next, RejectTokens, SystemTransactionFailed
<1> QED
  BY <1>1, Invariance, PTL DEF Spec, InherentOncePerBlock

(* NextCardanoPosition never goes back from a block to its child, and a     *)
(* block discarded inside process_tokens leaves it where it was.            *)
THEOREM PositionMonotone == Spec => PositionNeverRegresses
<1> DEFINE A == phase' = "between" /\ phase # "between" =>
                    /\ PosLeq(committed.nextPosition, nextPosition')
                    /\ phase = "tokens" => nextPosition' = committed.nextPosition
<1>1. ASSUME IInv, [Next]_vars PROVE [A]_vars
  <2>1. CASE Discard
    <3>1. nextPosition' = committed.nextPosition /\ committed.nextPosition \in CardanoPositions
      BY <1>1, <2>1 DEF Discard, IInv, TypeOK, StorageType
    <3> QED
      BY <3>1 DEF PosLeq, PosLess, CardanoPositions
  <2>2. CASE OnFinalize
    BY <1>1, <2>2 DEF OnFinalize, IInv
  <2>3. CASE OnInitialize \/ CompleteWithoutEvents \/ ExecuteSystemTransaction
    BY <2>3 DEF OnInitialize, CompleteWithoutEvents, ExecuteSystemTransaction, Complete
  <2>4. CASE HandleRegistration \/ HandleRegistrationRemoval \/ HandleCreate \/ HandleSpend
    <3>1. \E kind \in {"Registration", "Deregistration", "AssetCreate", "AssetSpend"} : Take(kind)
      BY <2>4 DEF HandleRegistration, HandleRegistrationRemoval, HandleCreate, HandleSpend
    <3> QED
      BY <3>1 DEF Take
  <2>5. CASE \E utxos \in Batches, next \in Positions : ProcessTokens(utxos, next)
    BY <2>5 DEF ProcessTokens
  <2>6. CASE \E c \in Contracts \cup LongAddresses : SetMappingValidatorContractAddress(c)
    BY <2>6 DEF SetMappingValidatorContractAddress
  <2>7. CASE UNCHANGED vars
    BY <2>7
  <2> QED
    BY <1>1, <2>1, <2>2, <2>3, <2>4, <2>5, <2>6, <2>7
       DEF Next, RejectTokens, SystemTransactionFailed
<1> QED
  BY <1>1, Invariance, PTL DEF Spec, PositionNeverRegresses
=============================================================================
