--------------------------- MODULE MidnightLedger ---------------------------
(***************************************************************************)
(* pallet-midnight and pallet-midnight-system on top of the host's ledger  *)
(* bridge, on several nodes.  The runtime holds only a StateKey; the       *)
(* ledger it names lives outside the chain state, in an arena that is      *)
(* flushed to disk when a block is finalized.  Two caches of the host      *)
(* process, shared by the transaction pool and by block execution, spare   *)
(* the verification of proofs:                                             *)
(*                                                                         *)
(*   strict : (ledger state, transaction), a verified transaction;         *)
(*   soft   : transaction, "it was valid for the pool".                    *)
(*                                                                         *)
(* A ledger is a set of unspent coins, the parameters, the time of its     *)
(* last block and what the current block has used.  A key is the content   *)
(* hash of a ledger, so the key of a ledger is the ledger itself.  In      *)
(* memory the arena holds what is on disk and the ledger of the block that *)
(* is being executed.  The ledgers that are superseded within a block are  *)
(* left out: they are flushed with the rest, but no block's key names them.*)
(* Nodes extend one chain; forks are not modelled.                         *)
(***************************************************************************)
EXTENDS Naturals, Sequences, FiniteSets

CONSTANTS
  Nodes,
  Validators,    \* the nodes that propose blocks; the others relay
  Txs,           \* midnight transactions
  SystemTxs,     \* system transactions
  Overwrites,    \* the system transactions that are OverwriteParameters
  Coins,
  GenesisCoins,
  Spends,        \* the coins a transaction spends
  Creates,       \* the coins a transaction or system transaction creates
  Ctime,         \* the earliest block time a transaction is well formed at
  Grace,         \* how long after that it stays well formed
  Unpriced,      \* <<parameters, transaction>> whose cost cannot be computed
  Operations,    \* the kinds of operations in a transaction
  TxFilter,      \* per node: the configuration of its pool filter
  Slot,          \* slot duration, in seconds
  MaxSkippedSlots,
  MaxTime,       \* bound on the clock
  MaxHeight,     \* bound on the chain
  MaxBody,       \* bound on the extrinsics of a block
  MaxFlushed,    \* bound on the ledgers a node flushes, dropped blocks included
  None

ASSUME SetsAssumption ==
  /\ Validators \subseteq Nodes
  /\ Overwrites \subseteq SystemTxs
  /\ Txs \cap SystemTxs = {}
  /\ GenesisCoins \subseteq Coins
ASSUME TxsAssumption ==
  /\ Spends \in [Txs -> SUBSET Coins]
  /\ Creates \in [Txs \cup SystemTxs -> SUBSET Coins]
  /\ Ctime \in [Txs -> Nat]
  /\ Unpriced \subseteq (SystemTxs \cup {None}) \X Txs
  /\ Operations \in [Txs -> SUBSET {"Call", "Deploy", "Maintain", "ClaimRewards"}]
  /\ TxFilter \in [Nodes -> [enabled : BOOLEAN, deny_deploy : BOOLEAN,
                              deny_maintain : BOOLEAN, opaque : SUBSET Txs]]
ASSUME NumbersAssumption ==
  /\ Grace \in Nat
  /\ Slot \in Nat \ {0}
  /\ MaxSkippedSlots \in Nat
  /\ MaxTime \in Nat
  /\ MaxHeight \in Nat
  /\ MaxBody \in Nat
  /\ MaxFlushed \in Nat

Extrinsics == Txs \cup SystemTxs
Ledgers == [coins : SUBSET Coins, params : SystemTxs \cup {None},
            time : Nat, fullness : Nat]
Blocks == [time : Nat, body : Seq(Extrinsics), key : Ledgers, author : Nodes]
Works == [own : BOOLEAN, time : Nat, key : Ledgers, body : Seq(Extrinsics),
          todo : Seq(Extrinsics), phase : {"open", "apply", "final"},
          tx : Txs \cup {None}]
Checks == [tx : Txs, ok : BOOLEAN]

ASSUME NoneAssumption == None \notin Works \cup Checks

VARIABLES
  clock,      \* wall-clock time
  chain,      \* the blocks after genesis
  best,       \* per node: the height of the best block committed to its database
  pool,       \* per node: the transactions in the pool
  soft,       \* per node: SOFT_TX_VALIDATION_CACHE
  strict,     \* per node: STRICT_TX_VALIDATION_CACHE
  checking,   \* per node: a validation for the pool whose result is not stored yet
  disk,       \* per node: the ledgers of final blocks in the ledger database
  work,       \* per node: the block being executed
  failed,     \* history: the last send_mn_transaction, if it failed
  rejected    \* history: <<node, height>>, the blocks a node refused to import

nodeVars == <<pool, soft, strict, checking, disk, work, best>>
vars == <<clock, chain, failed, rejected, nodeVars>>

----------------------------------------------------------------------------
(* The ledger library, as the bridge uses it.                              *)

(* Transaction::well_formed: of its checks only the validity window        *)
(* depends on the time of the block (OutOfDustValidityWindow).             *)
WellFormed(t, tblock) == Ctime[t] <= tblock /\ tblock <= Ctime[t] + Grace

(* LedgerState::apply succeeds, at least in its guaranteed part.           *)
Applies(l, t) == Spends[t] \subseteq l.coins

Applied(l, t) ==
  [l EXCEPT !.coins = (@ \ Spends[t]) \cup Creates[t], !.fullness = @ + 1]

(* What only apply_transaction checks: the cost under the parameters of    *)
(* the ledger (FeeCalculationError), and that the UTXOs are those the      *)
(* transaction tells of: what it creates is there, what it spends is gone, *)
(* and nothing else has changed (check_utxos_response_integrity).  The     *)
(* length of the new key is checked too, but StateKeyLength is the longest *)
(* a key can be.                                                           *)
Accountable(l, t) ==
  LET after == Applied(l, t).coins IN
  /\ <<l.params, t>> \notin Unpriced
  /\ Creates[t] \subseteq after
  /\ Spends[t] \cap after = {}
  /\ Cardinality(after) + Cardinality(Spends[t]) = Cardinality(l.coins) + Cardinality(Creates[t])

(* LedgerState::apply_system_tx refuses to create again what is there.     *)
SystemApplies(l, s) == Creates[s] \cap l.coins = {}

SystemApplied(l, s) ==
  [l EXCEPT !.coins = @ \cup Creates[s],
            !.params = IF s \in Overwrites THEN s ELSE @,
            !.fullness = @ + 1]

(* Ledger::post_block_update: the time moves on, the fullness of the block *)
(* (clamped to the limits, so it never fails) is charged and reset.        *)
PostBlockUpdate(l, tblock) == [l EXCEPT !.time = tblock, !.fullness = 0]

(* state_hash is of the state without the fullness of the block.           *)
StateHash(l) == [l EXCEPT !.fullness = 0]

Genesis == [coins |-> GenesisCoins, params |-> None, time |-> 0, fullness |-> 0]

StateKeyAt(h) == IF h = 0 THEN Genesis ELSE chain[h].key

----------------------------------------------------------------------------
(* get_verified_transaction: a cached verdict for this state is used       *)
(* whatever time it was reached for; otherwise well_formed decides and a   *)
(* success is cached.                                                      *)
Verified(n, l, t, tblock) ==
  <<StateHash(l), t>> \in strict[n] \/ WellFormed(t, tblock)

\* A variant that mixes up the parts of the cache key.
CacheVerifiedSwapped(n, l, t, tblock) ==
  strict' = IF Verified(n, l, t, tblock)
            THEN [strict EXCEPT ![n] = @ \cup {<<t, StateHash(l)>>}]
            ELSE strict

CacheVerified(n, l, t, tblock) ==
  strict' = IF Verified(n, l, t, tblock)
            THEN [strict EXCEPT ![n] = @ \cup {<<StateHash(l), t>>}]
            ELSE strict

(* The time a transaction is validated for the pool at: the next slot, and *)
(* MaxSkippedSlots more.                                                   *)
PoolTime(l) == l.time + Slot + Slot * MaxSkippedSlots

IsForbiddenTx(n, t) ==
  \/ TxFilter[n].deny_deploy /\ "Deploy" \in Operations[t]
  \/ TxFilter[n].deny_maintain /\ "Maintain" \in Operations[t]

(* should_accept_extrinsic of the filtering pool, for every submission: an *)
(* extrinsic of another encoding than the node's own runtime has is        *)
(* forwarded as it is.  (What the ledger cannot decode is refused here and *)
(* by the validation that follows; such transactions are not in Txs.)      *)
ShouldAccept(n, t) ==
  \/ ~TxFilter[n].enabled
  \/ t \in TxFilter[n].opaque
  \/ ~IsForbiddenTx(n, t)

(* validate_unsigned when the soft cache has the transaction.              *)
ValidateCached(n, t) ==
  /\ t \in soft[n] /\ t \notin pool[n] /\ ShouldAccept(n, t)
  /\ StateKeyAt(best[n]) \in disk[n]
  /\ pool' = [pool EXCEPT ![n] = @ \cup {t}]
  /\ UNCHANGED <<clock, chain, failed, rejected, soft, strict, checking, disk, work, best>>

(* validate_unsigned otherwise: verification and a dry run against the     *)
(* state of the best block.  The pool validates on threads of its own, and *)
(* the result is stored later (ValidateEnd).  A transaction that is in the *)
(* pool is revalidated by the same code.                                   *)
ValidateStart(n, t) ==
  LET l == StateKeyAt(best[n]) IN
  /\ checking[n] = None
  /\ t \notin soft[n]
  /\ t \in pool[n] \/ ShouldAccept(n, t)
  /\ StateKeyAt(best[n]) \in disk[n]
  /\ CacheVerified(n, l, t, PoolTime(l))
  /\ checking' = [checking EXCEPT ![n] =
                    [tx |-> t, ok |-> Verified(n, l, t, PoolTime(l)) /\ Applies(l, t)]]
  /\ UNCHANGED <<clock, chain, failed, rejected, pool, soft, disk, work, best>>

(* Only successes go to the soft cache; a failure leaves the pool.         *)
ValidateEnd(n) ==
  /\ checking[n] # None
  /\ LET t == checking[n].tx IN
       IF checking[n].ok
       THEN /\ soft' = [soft EXCEPT ![n] = @ \cup {t}]
            /\ pool' = [pool EXCEPT ![n] = @ \cup {t}]
       ELSE /\ pool' = [pool EXCEPT ![n] = @ \ {t}]
            /\ UNCHANGED soft
  /\ checking' = [checking EXCEPT ![n] = None]
  /\ UNCHANGED <<clock, chain, failed, rejected, strict, disk, work, best>>

(* moka: time to idle, capacity (both caches), time to live (soft).        *)
EvictStrict(n, e) ==
  /\ e \in strict[n]
  /\ strict' = [strict EXCEPT ![n] = @ \ {e}]
  /\ UNCHANGED <<clock, chain, failed, rejected, pool, soft, checking, disk, work, best>>

(* A variant without the time to live: an entry the pool keeps reading     *)
(* never goes.                                                             *)
ExpireSoftOnlyIdle(n, t) ==
  /\ t \in soft[n] \ pool[n]
  /\ soft' = [soft EXCEPT ![n] = @ \ {t}]
  /\ UNCHANGED <<clock, chain, failed, rejected, pool, strict, checking, disk, work, best>>

ExpireSoft(n, t) ==
  /\ t \in soft[n]
  /\ soft' = [soft EXCEPT ![n] = @ \ {t}]
  /\ UNCHANGED <<clock, chain, failed, rejected, pool, strict, checking, disk, work, best>>

----------------------------------------------------------------------------
(* Executing a block.  `own' tells a proposal from an import, `todo' is    *)
(* what an import has still to execute, `phase' whether pre_dispatch has   *)
(* let a transaction in that is not applied yet, and whether the block is  *)
(* finalized.                                                              *)

NewWork(own, time, key, todo) ==
  [own |-> own, time |-> time, key |-> key, body |-> <<>>, todo |-> todo,
   phase |-> "open", tx |-> None]

(* The extrinsics a node may execute next: of its own choice, or the next  *)
(* one of the block it imports.                                            *)
Executable(n, x) ==
  /\ work[n] # None /\ work[n].phase = "open"
  /\ IF work[n].own
     THEN Len(work[n].body) < MaxBody /\ x \notin {work[n].body[i] : i \in DOMAIN work[n].body}
     ELSE work[n].todo # <<>> /\ Head(work[n].todo) = x

(* The work once x has been executed and has led to the ledger l.          *)
Executed(w, x, l) ==
  [w EXCEPT !.key = l, !.body = Append(@, x), !.phase = "open", !.tx = None,
            !.todo = IF w.own THEN @ ELSE Tail(@)]

(* The work once pre_dispatch has let t in, and once the block is final.   *)
LetIn(w, t) == [w EXCEPT !.phase = "apply", !.tx = t]

Finalized(w) == [w EXCEPT !.key = PostBlockUpdate(w.key, w.time), !.phase = "final"]

(* on_initialize and the timestamp of a block of one's own, in a later     *)
(* slot than the best block's.                                             *)
StartBlock(n) ==
  LET l == StateKeyAt(best[n]) IN
  /\ n \in Validators
  /\ work[n] = None
  /\ best[n] = Len(chain) /\ Len(chain) < MaxHeight
  /\ clock >= l.time + Slot
  /\ StateKeyAt(best[n]) \in disk[n]
  /\ work' = [work EXCEPT ![n] = NewWork(TRUE, clock, l, <<>>)]
  /\ UNCHANGED <<clock, chain, failed, rejected, pool, soft, strict, checking, disk, best>>

(* on_initialize of a block received from another node.                    *)
StartImport(n) ==
  /\ work[n] = None
  /\ best[n] < Len(chain)
  /\ <<n, best[n] + 1>> \notin rejected
  /\ StateKeyAt(best[n]) \in disk[n]
  /\ LET b == chain[best[n] + 1] IN
       work' = [work EXCEPT ![n] = NewWork(FALSE, b.time, StateKeyAt(best[n]), b.body)]
  /\ UNCHANGED <<clock, chain, failed, rejected, pool, soft, strict, checking, disk, best>>

(* mut_ledger_state around apply_system_transaction: an error leaves the   *)
(* key alone.                                                              *)
MutLedgerState(n, s) ==
  LET l == work[n].key
      next == IF SystemApplies(l, s) THEN SystemApplied(l, s) ELSE l IN
  /\ work' = [work EXCEPT ![n] = Executed(@, s, next)]
  /\ UNCHANGED <<clock, chain, failed, rejected, pool, soft, strict, checking, disk, best>>

(* send_mn_system_transaction: Root may only overwrite the parameters (a   *)
(* call with another system transaction fails and touches no ledger).      *)
SendMnSystemTransaction(n, s) ==
  /\ Executable(n, s)
  /\ s \in Overwrites
  /\ MutLedgerState(n, s)

(* execute_system_transaction, called by the cNIGHT observation pallet     *)
(* (what an error means for the block is up to that pallet).               *)
ExecuteSystemTransaction(n, s) ==
  /\ Executable(n, s)
  /\ s \notin Overwrites
  /\ MutLedgerState(n, s)

(* A variant of pre_dispatch that takes the pool's word for the dry run.   *)
PreDispatchTrusting(n, t) ==
  LET w == work[n]
      ok == Verified(n, w.key, t, w.time) /\ (t \in soft[n] \/ Applies(w.key, t)) IN
  /\ Executable(n, t)
  /\ w.own => t \in pool[n]
  /\ soft' = [soft EXCEPT ![n] = @ \ {t}]
  /\ CacheVerified(n, w.key, t, w.time)
  /\ IF ok
     THEN /\ work' = [work EXCEPT ![n] = LetIn(w, t)]
          /\ UNCHANGED <<pool, rejected>>
     ELSE /\ pool' = [pool EXCEPT ![n] = @ \ {t}]
          /\ work' = [work EXCEPT ![n] = IF w.own THEN @ ELSE None]
          /\ rejected' = IF w.own THEN rejected
                         ELSE rejected \cup {<<n, best[n] + 1>>}
  /\ UNCHANGED <<clock, chain, failed, checking, disk, best>>

(* pre_dispatch, validate_guaranteed_execution: the soft entry goes, the   *)
(* transaction is verified and dry-run on the ledger as it is now.  What   *)
(* fails is dropped from the pool by a proposer, and makes an import fail. *)
PreDispatch(n, t) ==
  LET w == work[n]
      ok == Verified(n, w.key, t, w.time) /\ Applies(w.key, t) IN
  /\ Executable(n, t)
  /\ w.own => t \in pool[n]
  /\ soft' = [soft EXCEPT ![n] = @ \ {t}]
  /\ CacheVerified(n, w.key, t, w.time)
  /\ IF ok
     THEN /\ work' = [work EXCEPT ![n] = LetIn(w, t)]
          /\ UNCHANGED <<pool, rejected>>
     ELSE /\ pool' = [pool EXCEPT ![n] = @ \ {t}]
          /\ work' = [work EXCEPT ![n] = IF w.own THEN @ ELSE None]
          /\ rejected' = IF w.own THEN rejected
                         ELSE rejected \cup {<<n, best[n] + 1>>}
  /\ UNCHANGED <<clock, chain, failed, checking, disk, best>>

(* send_mn_transaction, apply_transaction: the transaction is verified     *)
(* again (the entry may have been evicted since pre_dispatch), applied and *)
(* accounted for; the ledger is persisted in the arena only after          *)
(* everything succeeded.  An error leaves the key alone, and the extrinsic *)
(* in the block.                                                           *)
SendMnTransaction(n) ==
  /\ work[n] # None /\ work[n].phase = "apply"
  /\ LET w == work[n]
         ok == /\ Verified(n, w.key, w.tx, w.time)
               /\ Applies(w.key, w.tx)
               /\ Accountable(w.key, w.tx)
         next == IF ok THEN Applied(w.key, w.tx) ELSE w.key IN
       /\ CacheVerified(n, w.key, w.tx, w.time)
       /\ work' = [work EXCEPT ![n] = Executed(w, w.tx, next)]
       /\ failed' = IF ok THEN None ELSE [tx |-> w.tx, time |-> w.time, ledger |-> w.key]
  /\ UNCHANGED <<clock, chain, rejected, pool, soft, checking, disk, best>>

(* A variant of on_finalize that flushes before post_block_update.         *)
OnFinalizeFlushFirst(n) ==
  /\ work[n] # None /\ work[n].phase = "open" /\ work[n].todo = <<>>
  /\ work' = [work EXCEPT ![n] = Finalized(work[n])]
  /\ disk' = [disk EXCEPT ![n] = @ \cup {work[n].key}]
  /\ Cardinality(disk'[n]) <= MaxFlushed
  /\ UNCHANGED <<clock, chain, failed, rejected, pool, soft, strict, checking, best>>

(* on_finalize: post_block_update, then the arena is flushed to disk.  The *)
(* block is not committed yet, and may never be.                           *)
OnFinalize(n) ==
  /\ work[n] # None /\ work[n].phase = "open" /\ work[n].todo = <<>>
  /\ work' = [work EXCEPT ![n] = Finalized(work[n])]
  /\ disk' = [disk EXCEPT ![n] = @ \cup {Finalized(work[n]).key}]
  /\ Cardinality(disk'[n]) <= MaxFlushed
  /\ UNCHANGED <<clock, chain, failed, rejected, pool, soft, strict, checking, best>>

(* The client commits the executed block to its own database.  A proposal  *)
(* is announced, unless the chain has grown meanwhile; the state root of   *)
(* an import has to be the announced one.  The pool drops what it holds.   *)
(* (The entries of the strict cache for the states of earlier blocks, which*)
(* do not come back, are forgotten here.)                                  *)
Commit(n) ==
  LET w == work[n] IN
  /\ w # None /\ w.phase = "final"
  /\ IF w.own
     THEN /\ best[n] = Len(chain)
          /\ chain' = Append(chain, [time |-> w.time, body |-> w.body,
                                     key |-> w.key, author |-> n])
     ELSE /\ w.key = chain[best[n] + 1].key
          /\ UNCHANGED chain
  /\ best' = [best EXCEPT ![n] = @ + 1]
  /\ pool' = [pool EXCEPT ![n] = @ \ {w.body[i] : i \in DOMAIN w.body}]
  /\ strict' = [strict EXCEPT ![n] = {e \in @ : e[1].time >= w.time}]
  /\ work' = [work EXCEPT ![n] = None]
  /\ UNCHANGED <<clock, failed, rejected, soft, checking, disk>>

(* The client refuses a block whose execution gives another state root.    *)
RefuseRoot(n) ==
  LET w == work[n] IN
  /\ w # None /\ w.phase = "final" /\ ~w.own
  /\ w.key # chain[best[n] + 1].key
  /\ work' = [work EXCEPT ![n] = None]
  /\ rejected' = rejected \cup {<<n, best[n] + 1>>}
  /\ UNCHANGED <<clock, chain, failed, pool, soft, strict, checking, disk, best>>

(* A proposal that is too late, or that lost to another block, is dropped; *)
(* the ledgers it made stay in the arena, and on disk if it was final.     *)
Discard(n) ==
  /\ work[n] # None /\ work[n].own
  /\ work' = [work EXCEPT ![n] = None]
  /\ UNCHANGED <<clock, chain, failed, rejected, pool, soft, strict, checking, disk, best>>

(* The process dies: the caches, the pool and the unflushed ledgers go.    *)
Crash(n) ==
  /\ pool' = [pool EXCEPT ![n] = {}]
  /\ soft' = [soft EXCEPT ![n] = {}]
  /\ strict' = [strict EXCEPT ![n] = {}]
  /\ checking' = [checking EXCEPT ![n] = None]
  /\ work' = [work EXCEPT ![n] = None]
  /\ UNCHANGED <<clock, chain, failed, rejected, disk, best>>

Tick ==
  /\ clock < MaxTime
  /\ clock' = clock + 1
  /\ UNCHANGED <<chain, failed, rejected, nodeVars>>

(* init_storage_paritydb persists and flushes the genesis ledger before    *)
(* the chain specification refers to its key.                              *)
Init ==
  /\ clock = 0 /\ chain = <<>> /\ failed = None /\ rejected = {}
  /\ best = [n \in Nodes |-> 0]
  /\ pool = [n \in Nodes |-> {}]
  /\ soft = [n \in Nodes |-> {}]
  /\ strict = [n \in Nodes |-> {}]
  /\ checking = [n \in Nodes |-> None]
  /\ disk = [n \in Nodes |-> {Genesis}]
  /\ work = [n \in Nodes |-> None]

NodeNext(n) ==
  \/ \E t \in Txs : \/ ValidateCached(n, t) \/ ValidateStart(n, t)
                    \/ ExpireSoft(n, t) \/ PreDispatch(n, t)
  \/ \E s \in SystemTxs : SendMnSystemTransaction(n, s) \/ ExecuteSystemTransaction(n, s)
  \/ \E e \in strict[n] : EvictStrict(n, e)
  \/ ValidateEnd(n)
  \/ StartBlock(n) \/ StartImport(n)
  \/ SendMnTransaction(n) \/ OnFinalize(n) \/ Commit(n) \/ RefuseRoot(n)
  \/ Discard(n) \/ Crash(n)

Next == Tick \/ \E n \in Nodes : NodeNext(n)

Spec == Init /\ [][Next]_vars

(* The pool revalidates what it holds, validations end, and a soft entry   *)
(* does not outlive SOFT_TX_VALIDATION_CACHE_TTL.                          *)
FairSpec ==
  /\ Spec
  /\ \A n \in Nodes :
       /\ WF_vars(ValidateEnd(n))
       /\ \A t \in Txs : /\ WF_vars(ExpireSoft(n, t))
                         /\ SF_vars(t \in pool[n] /\ ValidateStart(n, t))

----------------------------------------------------------------------------
TypeOK ==
  /\ clock \in 0..MaxTime
  /\ chain \in Seq(Blocks)
  /\ best \in [Nodes -> 0..Len(chain)]
  /\ pool \in [Nodes -> SUBSET Txs]
  /\ soft \in [Nodes -> SUBSET Txs]
  /\ strict \in [Nodes -> SUBSET (Ledgers \X Txs)]
  /\ checking \in [Nodes -> Checks \cup {None}]
  /\ work \in [Nodes -> Works \cup {None}]
  /\ disk \in [Nodes -> SUBSET Ledgers]

(* Crash recovery: the ledger that the best block's StateKey names is on   *)
(* disk whenever the process may die, before, between and after the flush  *)
(* of on_finalize and the client's commit, also when what was flushed is   *)
(* never committed.                                                        *)
BestStateOnDisk == \A n \in Nodes : StateKeyAt(best[n]) \in disk[n]

(* A transaction that pre_dispatch let in fails in send_mn_transaction     *)
(* only because it is outside its validity window or because it fails the  *)
(* checks that pre_dispatch does not make; and a block is refused by       *)
(* another node only when it holds a transaction outside its window.  So a *)
(* guaranteed part that cannot be executed is never let into a block, and  *)
(* the nodes agree on every other failure, whatever their caches hold.     *)
OnlyTheWindowDivides ==
  /\ failed # None =>
       \/ ~WellFormed(failed.tx, failed.time)
       \/ Applies(failed.ledger, failed.tx) /\ ~Accountable(failed.ledger, failed.tx)
  /\ \A r \in rejected :
       LET b == chain[r[2]] IN
       \E i \in DOMAIN b.body : b.body[i] \in Txs /\ ~WellFormed(b.body[i], b.time)

(* "This keeps the block free of failed transactions": no transaction that *)
(* pre_dispatch let into a block fails on a node that executes the block.  *)
BlocksFreeOfFailures == rejected = {}

(* A coin of t was there at an earlier block and is gone at block h.       *)
Spent(t, h) ==
  \E k \in 0..h : ~(Spends[t] \cap StateKeyAt(k).coins \subseteq StateKeyAt(h).coins)

(* A transaction whose coin is spent leaves the pool for good, even of a   *)
(* node that never proposes a block (the purpose of the soft cache's TTL). *)
SpentLeavesPool ==
  \A n \in Nodes, t \in Txs :
    [](Spent(t, best[n]) => <>[](t \notin pool[n]))
=============================================================================
