--------------------------- MODULE ThrottleProofs ---------------------------
(***************************************************************************)
(* The bounds CheckThrottle keeps, proved for any limit, any window size   *)
(* and any position of the WindowSize blocks that are observed.            *)
(*                                                                         *)
(* While they are observed, the account's current window either began      *)
(* before them, and then all that was observed is in its usage, or began   *)
(* among them, and then it is the only one to do so: what was observed is  *)
(* its usage and at most one limit from the window before.                 *)
(***************************************************************************)
EXTENDS Throttle, TLAPS

WindowOf(a) ==
  /\ usage[a].start <= block
  /\ block < from => observed[a] = 0
  /\ Observing => IF usage[a].start < from
                    THEN observed[a] <= usage[a].bytes
                    ELSE /\ usage[a].bytes <= observed[a]
                         /\ observed[a] <= MaxBytes + usage[a].bytes
  /\ observed[a] <= 2 * MaxBytes

IInv == TypeOK /\ \A a \in Accounts : WindowOf(a)

(* A fresh account has an empty window that starts at block 0. *)
LEMMA InitIInv == Init => IInv
<1> SUFFICES ASSUME Init PROVE IInv
  OBVIOUS
<1>1. TypeOK
  BY LimitAssumption DEF Init, TypeOK
<1>2. ASSUME NEW a \in Accounts PROVE WindowOf(a)
  BY LimitAssumption DEF Init, WindowOf, Observing
<1> QED
  BY <1>1, <1>2 DEF IInv

(* What validate accepts fits, without saturating, and prepare writes just *)
(* that.                                                                   *)
LEMMA PrepareFits ==
  ASSUME TypeOK, NEW a \in Accounts, NEW len \in Lens, Validate(a, len)
  PROVE  /\ Prepare(a, len) \in [bytes : 0..MaxBytes, start : 0..MaxBlock]
         /\ Prepare(a, len).bytes = EffectiveBytes(a) + len
         /\ EffectiveBytes(a) \in Nat
         /\ len \in Nat
<1>1. usage[a].bytes \in 0..MaxBytes /\ usage[a].start \in 0..MaxBlock
  BY DEF TypeOK
<1>2. len \in Nat /\ EffectiveBytes(a) \in Nat
  BY <1>1, LimitAssumption DEF EffectiveBytes
<1>3. EffectiveBytes(a) + len <= MaxBytes
  BY <1>2, LimitAssumption DEF Validate, SaturatingAdd
<1>4. SaturatingAdd(EffectiveBytes(a), len) = EffectiveBytes(a) + len
  BY <1>2, <1>3, LimitAssumption DEF SaturatingAdd
<1>5. (IF Expired(a) THEN block ELSE usage[a].start) \in 0..MaxBlock
  BY <1>1 DEF TypeOK
<1> QED
  BY <1>2, <1>3, <1>4, <1>5, LimitAssumption DEF Prepare

(* Applying a transaction keeps the books of its sender ... *)
LEMMA ApplyWindow ==
  ASSUME IInv, NEW tx \in Transactions, Apply(tx)
  PROVE  WindowOf(tx.who)'
<1> DEFINE a == tx.who
           n == tx.len
           u == usage[a]
<1>1. a \in Accounts /\ n \in Lens /\ Validate(a, n)
  BY DEF Transactions, Apply
<1>2. WindowOf(a) /\ TypeOK
  BY <1>1 DEF IInv
<1>3. /\ usage'[a].bytes = EffectiveBytes(a) + n
      /\ usage'[a].start = IF Expired(a) THEN block ELSE u.start
      /\ EffectiveBytes(a) \in Nat /\ n \in Nat
      /\ usage'[a].bytes <= MaxBytes
  <2>1. usage'[a] = Prepare(a, n)
    BY <1>1, <1>2 DEF Apply, TypeOK
  <2>2. Prepare(a, n).start = IF Expired(a) THEN block ELSE u.start
    BY DEF Prepare
  <2>3. /\ Prepare(a, n) \in [bytes : 0..MaxBytes, start : 0..MaxBlock]
        /\ Prepare(a, n).bytes = EffectiveBytes(a) + n
        /\ EffectiveBytes(a) \in Nat /\ n \in Nat
    BY <1>1, <1>2, PrepareFits
  <2>4. Prepare(a, n).bytes <= MaxBytes
    BY <2>3, LimitAssumption
  <2> QED
    BY <2>1, <2>2, <2>3, <2>4
<1>4. /\ block \in Nat /\ block' = block
      /\ from \in Int /\ from' = from
      /\ observed[a] \in Nat /\ u.bytes \in 0..MaxBytes /\ u.start \in Nat
      /\ WindowSize \in Nat /\ MaxBytes \in Nat
  BY <1>1, <1>2, LimitAssumption DEF TypeOK, Apply
<1>5. observed'[a] = IF Observing THEN observed[a] + n ELSE observed[a]
  BY <1>1, <1>2 DEF TypeOK, Apply
<1>6. EffectiveBytes(a) = IF Expired(a) THEN 0 ELSE u.bytes
  BY DEF EffectiveBytes
<1>7. Expired(a) <=> block - u.start >= WindowSize
  BY DEF Expired
<1> HIDE DEF a, n, u
<1>8. usage'[a].start <= block'
  BY <1>2, <1>3, <1>4, <1>7 DEF WindowOf, u
<1>9. block' < from' => observed'[a] = 0
  BY <1>2, <1>4, <1>5 DEF WindowOf, Observing
<1>10. ASSUME Observing
       PROVE  IF usage'[a].start < from
                THEN observed'[a] <= usage'[a].bytes
                ELSE /\ usage'[a].bytes <= observed'[a]
                     /\ observed'[a] <= MaxBytes + usage'[a].bytes
  <2>1. CASE Expired(a)
    <3>1. u.start < from
      BY <1>4, <1>7, <1>10, <2>1 DEF Observing
    <3>2. observed[a] <= MaxBytes
      BY <1>2, <1>4, <1>10, <3>1 DEF WindowOf, u
    <3> QED
      BY <1>3, <1>4, <1>5, <1>6, <1>10, <2>1, <3>2 DEF Observing
  <2>2. CASE ~Expired(a)
    BY <1>2, <1>3, <1>4, <1>5, <1>6, <1>10, <2>2 DEF WindowOf, u
  <2> QED
    BY <2>1, <2>2
<1>11. observed'[a] <= 2 * MaxBytes
  <2>1. CASE Observing
    BY <1>3, <1>4, <1>5, <1>6, <1>10, <2>1
  <2>2. CASE ~Observing
    BY <1>2, <1>4, <1>5, <2>2 DEF WindowOf
  <2> QED
    BY <2>1, <2>2
<1> QED
  BY <1>4, <1>8, <1>9, <1>10, <1>11 DEF WindowOf, Observing, a

(* ... and leaves everybody else's alone. *)
LEMMA ApplyIInv == ASSUME IInv, NEW tx \in Transactions, Apply(tx) PROVE IInv'
<1>1. tx.who \in Accounts /\ tx.len \in Lens /\ Validate(tx.who, tx.len)
  BY DEF Transactions, Apply
<1>2. TypeOK'
  <2>1. Prepare(tx.who, tx.len) \in [bytes : 0..MaxBytes, start : 0..MaxBlock]
    BY <1>1, PrepareFits DEF IInv
  <2>2. tx.len \in Nat
    BY <1>1, PrepareFits DEF IInv
  <2>3. observed' \in [Accounts -> Nat]
    <3>1. observed \in [Accounts -> Nat]
      BY DEF IInv, TypeOK
    <3>2. observed[tx.who] + tx.len \in Nat
      BY <1>1, <2>2, <3>1
    <3>3. [observed EXCEPT ![tx.who] = @ + tx.len] \in [Accounts -> Nat]
      BY <3>1, <3>2
    <3> QED
      BY <3>1, <3>3 DEF Apply
  <2> QED
    BY <2>1, <2>3 DEF Apply, IInv, TypeOK
<1>3. ASSUME NEW a \in Accounts, a # tx.who PROVE WindowOf(a)'
  <2>1. usage'[a] = usage[a] /\ observed'[a] = observed[a]
    BY <1>1, <1>3 DEF Apply, IInv, TypeOK
  <2> QED
    BY <1>3, <2>1 DEF Apply, IInv, WindowOf, Observing
<1> QED
  BY <1>2, <1>3, ApplyWindow DEF IInv

(* A new block may end the observation or begin it, with nothing observed. *)
LEMMA NextBlockIInv == IInv /\ NextBlock => IInv'
<1> SUFFICES ASSUME IInv, NextBlock PROVE IInv'
  OBVIOUS
<1>1. TypeOK'
  BY LimitAssumption DEF IInv, NextBlock, TypeOK
<1>2. ASSUME NEW a \in Accounts PROVE WindowOf(a)'
  <2>1. /\ WindowOf(a)
        /\ block \in Nat /\ from \in Int /\ block' = block + 1
        /\ observed[a] \in Nat /\ usage[a].bytes \in Nat /\ usage[a].start \in Nat
        /\ WindowSize \in Nat /\ MaxBytes \in Nat
    BY LimitAssumption DEF IInv, TypeOK, NextBlock
  <2>2. usage' = usage /\ observed' = observed /\ from' = from
    BY DEF NextBlock
  <2> QED
    BY <2>1, <2>2 DEF WindowOf, Observing
<1> QED
  BY <1>1, <1>2 DEF IInv

(* Every step preserves the inductive invariant. *)
LEMMA NextIInv == IInv /\ [Next]_vars => IInv'
<1> SUFFICES ASSUME IInv, [Next]_vars PROVE IInv'
  OBVIOUS
<1>1. CASE UNCHANGED vars
  BY <1>1 DEF vars, IInv, TypeOK, WindowOf, Observing
<1>2. ASSUME NEW tx \in Transactions, Submit(tx) \/ Evict(tx) PROVE IInv'
  BY <1>2 DEF Submit, Evict, IInv, TypeOK, WindowOf, Observing
<1> QED
  BY <1>1, <1>2, ApplyIInv, NextBlockIInv DEF Next

(* The inductive invariant holds in every reachable state. *)
THEOREM Invariance == Spec => []IInv
BY InitIInv, NextIInv, PTL DEF Spec

(* AccountUsage is well typed and never above MaxBytes. *)
THEOREM TypeCorrect == Spec => []TypeOK
<1>1. IInv => TypeOK
  BY DEF IInv
<1> QED
  BY <1>1, Invariance, PTL

(* At most twice the limit passes CheckThrottle in any WindowSize blocks.  *)
THEOREM BoundCorrect == Spec => []TwiceTheLimitAtMost
<1>1. IInv => TwiceTheLimitAtMost
  BY DEF IInv, WindowOf, TwiceTheLimitAtMost
<1> QED
  BY <1>1, Invariance, PTL

(* CheckThrottle refuses nothing that a rolling window would accept. *)
THEOREM RefusalsCorrect == Spec => []RefusalsJustified
<1>1. ASSUME IInv, block = from + WindowSize - 1,
             NEW a \in Accounts, NEW len \in Lens, ~Validate(a, len)
      PROVE  observed[a] + len > MaxBytes
  <2>1. /\ block \in Nat /\ from \in Int /\ WindowSize \in Nat
        /\ observed[a] \in Nat /\ usage[a].bytes \in Nat /\ usage[a].start \in Nat
        /\ len \in Nat /\ MaxBytes \in Nat /\ U64Max \in Nat /\ MaxBytes < U64Max
    BY <1>1, LimitAssumption DEF IInv, TypeOK
  <2>2. EffectiveBytes(a) \in Nat
    BY <2>1 DEF EffectiveBytes
  <2>3. EffectiveBytes(a) + len > MaxBytes
    BY <1>1, <2>1, <2>2 DEF Validate, SaturatingAdd
  <2>4. EffectiveBytes(a) <= observed[a]
    BY <1>1, <2>1 DEF EffectiveBytes, Expired, IInv, WindowOf, Observing
  <2> QED
    BY <2>1, <2>2, <2>3, <2>4
<1>2. IInv => RefusalsJustified
  BY <1>1 DEF RefusalsJustified
<1> QED
  BY <1>2, Invariance, PTL
=============================================================================
