------------------------------ MODULE Throttle ------------------------------
(***************************************************************************)
(* pallet-throttle: the CheckThrottle transaction extension.  Every signed *)
(* transaction is validated when it enters the transaction pool and again, *)
(* right before prepare writes the account's new usage, when it is applied *)
(* in a block.  Unsigned transactions and inherents pass it untouched.     *)
(***************************************************************************)
EXTENDS Integers

CONSTANTS
  Accounts,
  Lens,         \* the encoded lengths of transactions
  MaxBytes,
  WindowSize,
  U64Max,       \* the largest u64
  MaxBlock      \* bound on the block number

ASSUME LimitAssumption ==
  /\ U64Max \in Nat
  /\ MaxBytes \in Nat /\ MaxBytes < U64Max
  /\ Lens \subseteq 0..U64Max
  /\ WindowSize \in Nat
  /\ MaxBlock \in Nat

VARIABLES
  block,      \* the number of the block being built
  usage,      \* AccountUsage: bytes used, first block of the window
  pending,    \* the signed transactions in the pool
  from,       \* history: the first block of some WindowSize blocks
  observed    \* history: what was applied per account in those blocks

vars == <<block, usage, pending, from, observed>>

Transactions == [who : Accounts, len : Lens]

Init ==
  /\ block = 0
  /\ usage = [a \in Accounts |-> [bytes |-> 0, start |-> 0]]
  /\ pending = {}
  /\ from \in (0 - WindowSize)..MaxBlock
  /\ observed = [a \in Accounts |-> 0]

SaturatingAdd(m, n) == IF m + n > U64Max THEN U64Max ELSE m + n

(* block_number.saturating_sub(window_start) >= window_size.  A window     *)
(* never starts after the current block, so the subtraction is exact.      *)
ExpiredTooLate(a) == block - usage[a].start > WindowSize

Expired(a) == block - usage[a].start >= WindowSize

EffectiveBytes(a) == IF Expired(a) THEN 0 ELSE usage[a].bytes

Validate(a, len) == SaturatingAdd(EffectiveBytes(a), len) <= MaxBytes

(* What prepare leaves in AccountUsage (the faulty form does not move the  *)
(* start of the window).                                                   *)
PrepareKeepingStart(a, len) ==
  [bytes |-> SaturatingAdd(EffectiveBytes(a), len), start |-> usage[a].start]

Prepare(a, len) ==
  [bytes |-> SaturatingAdd(EffectiveBytes(a), len),
   start |-> IF Expired(a) THEN block ELSE usage[a].start]

Observing == from <= block /\ block < from + WindowSize

-----------------------------------------------------------------------------
(* The pool validates a transaction against the state of the best block.   *)
Submit(tx) ==
  /\ Validate(tx.who, tx.len)
  /\ pending' = pending \union {tx}
  /\ UNCHANGED <<block, usage, from, observed>>

(* A pooled transaction is applied: validate, then prepare. *)
ApplyUnchecked(tx) ==
  /\ tx \in pending
  /\ pending' = pending \ {tx}
  /\ usage' = [usage EXCEPT ![tx.who] = Prepare(tx.who, tx.len)]
  /\ observed' = IF Observing THEN [observed EXCEPT ![tx.who] = @ + tx.len]
                              ELSE observed
  /\ UNCHANGED <<block, from>>

Apply(tx) ==
  /\ tx \in pending
  /\ Validate(tx.who, tx.len)
  /\ pending' = pending \ {tx}
  /\ usage' = [usage EXCEPT ![tx.who] = Prepare(tx.who, tx.len)]
  /\ observed' = IF Observing THEN [observed EXCEPT ![tx.who] = @ + tx.len]
                              ELSE observed
  /\ UNCHANGED <<block, from>>

(* The pool drops a transaction, in particular one that was refused. *)
Evict(tx) ==
  /\ tx \in pending
  /\ pending' = pending \ {tx}
  /\ UNCHANGED <<block, usage, from, observed>>

NextBlock ==
  /\ block < MaxBlock
  /\ block' = block + 1
  /\ UNCHANGED <<usage, pending, from, observed>>

Next ==
  \/ \E tx \in Transactions : Submit(tx) \/ Apply(tx) \/ Evict(tx)
  \/ NextBlock

Spec == Init /\ [][Next]_vars

-----------------------------------------------------------------------------
(* The storage is well typed, and no account's usage exceeds the limit     *)
(* however many of its transactions the pool admitted against one and the  *)
(* same state.                                                             *)
TypeOK ==
  /\ block \in 0..MaxBlock
  /\ usage \in [Accounts -> [bytes : 0..MaxBytes, start : 0..MaxBlock]]
  /\ pending \subseteq Transactions
  /\ from \in (0 - WindowSize)..MaxBlock
  /\ observed \in [Accounts -> Nat]

(* In no WindowSize consecutive blocks, wherever they begin, is more than  *)
(* twice the limit of one account applied: they overlap at most two of the *)
(* windows CheckThrottle counts in.                                        *)
TwiceTheLimitAtMost == \A a \in Accounts : observed[a] <= 2 * MaxBytes

(* CheckThrottle never refuses what a rolling window would let pass: a     *)
(* refused transaction would bring what was applied in the WindowSize      *)
(* blocks ending with this one above the limit.                            *)
RefusalsJustified ==
  block = from + WindowSize - 1 =>
    \A a \in Accounts, len \in Lens :
      ~Validate(a, len) => observed[a] + len > MaxBytes
=============================================================================
