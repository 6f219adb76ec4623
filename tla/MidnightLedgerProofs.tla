------------------------ MODULE MidnightLedgerProofs ------------------------
(***************************************************************************)
(* Theorems of MidnightLedger, for any number of nodes, transactions and   *)
(* blocks: its state is well typed, and a node that dies at any moment     *)
(* finds the ledger of its best block on disk.                             *)
(***************************************************************************)
EXTENDS MidnightLedger, TLAPS

(* The ledgers the library makes of a ledger are ledgers.                  *)
LEMMA LedgerTypes ==
  ASSUME NEW l \in Ledgers
  PROVE  /\ \A t \in Txs : Applied(l, t) \in Ledgers
         /\ \A s \in SystemTxs : SystemApplied(l, s) \in Ledgers
         /\ \A time \in Nat : PostBlockUpdate(l, time) \in Ledgers
         /\ StateHash(l) \in Ledgers
<1>1. ASSUME NEW t \in Txs PROVE Applied(l, t) \in Ledgers
  <2>1. (l.coins \ Spends[t]) \cup Creates[t] \in SUBSET Coins
    BY TxsAssumption DEF Ledgers
  <2>2. l.fullness + 1 \in Nat
    BY DEF Ledgers
  <2> QED BY <2>1, <2>2 DEF Applied, Ledgers
<1>2. ASSUME NEW s \in SystemTxs PROVE SystemApplied(l, s) \in Ledgers
  <2>1. l.coins \cup Creates[s] \in SUBSET Coins
    BY TxsAssumption DEF Ledgers
  <2>2. (IF s \in Overwrites THEN s ELSE l.params) \in SystemTxs \cup {None}
    BY DEF Ledgers
  <2>3. l.fullness + 1 \in Nat
    BY DEF Ledgers
  <2> QED BY <2>1, <2>2, <2>3 DEF SystemApplied, Ledgers
<1>3. ASSUME NEW time \in Nat PROVE PostBlockUpdate(l, time) \in Ledgers
  BY DEF PostBlockUpdate, Ledgers
<1>4. StateHash(l) \in Ledgers
  BY DEF StateHash, Ledgers
<1> QED BY <1>1, <1>2, <1>3, <1>4

(* The StateKey of a block of the chain is a ledger.                       *)
LEMMA StateKeyType ==
  ASSUME TypeOK, NEW h \in 0..Len(chain)
  PROVE  StateKeyAt(h) \in Ledgers
<1>1. CASE h = 0
  BY <1>1, SetsAssumption DEF StateKeyAt, Genesis, Ledgers
<1>2. CASE h # 0
  <2>1. h \in 1..Len(chain)
    BY <1>2 DEF TypeOK
  <2>2. chain[h] \in Blocks
    BY <2>1 DEF TypeOK
  <2> QED BY <1>2, <2>2 DEF StateKeyAt, Blocks
<1> QED BY <1>1, <1>2

(* The strict cache stays a set of (state, transaction) pairs.             *)
LEMMA CacheType ==
  ASSUME TypeOK, NEW n \in Nodes, NEW l \in Ledgers, NEW t \in Txs, NEW tb,
         CacheVerified(n, l, t, tb)
  PROVE  strict' \in [Nodes -> SUBSET (Ledgers \X Txs)]
<1>1. StateHash(l) \in Ledgers
  BY LedgerTypes
<1>2. <<StateHash(l), t>> \in Ledgers \X Txs
  BY <1>1
<1> QED BY <1>2 DEF CacheVerified, TypeOK

(* What an extrinsic leaves behind is again the work on a block.           *)
LEMMA ExecutedType ==
  ASSUME NEW w \in Works, NEW x \in Extrinsics, NEW l \in Ledgers,
         ~w.own => w.todo # <<>>
  PROVE  Executed(w, x, l) \in Works
<1>1. Append(w.body, x) \in Seq(Extrinsics)
  BY DEF Works
<1>2. (IF w.own THEN w.todo ELSE Tail(w.todo)) \in Seq(Extrinsics)
  BY DEF Works
<1> QED BY <1>1, <1>2 DEF Executed, Works

(* So is what pre_dispatch and on_finalize leave behind.                   *)
LEMMA PhaseTypes ==
  ASSUME NEW w \in Works
  PROVE  /\ \A t \in Txs : LetIn(w, t) \in Works
         /\ Finalized(w) \in Works
<1>1. ASSUME NEW t \in Txs PROVE LetIn(w, t) \in Works
  BY DEF LetIn, Works
<1>2. Finalized(w) \in Works
  <2>1. PostBlockUpdate(w.key, w.time) \in Ledgers
    BY LedgerTypes DEF Works
  <2> QED BY <2>1 DEF Finalized, Works
<1> QED BY <1>1, <1>2

(* What the type invariant and the one of the disk rest on, for a node: a  *)
(* transaction waits to be applied only after pre_dispatch saw it in the   *)
(* block, an import is of a block that is there, and the ledger of a final *)
(* block is on disk while the block waits to be committed.                 *)
NodeOK(n) ==
  /\ StateKeyAt(best[n]) \in disk[n]
  /\ work[n] # None =>
       /\ work[n].phase = "apply" =>
            work[n].tx \in Txs /\ (work[n].own \/ work[n].todo # <<>>)
       /\ ~work[n].own => best[n] < Len(chain)
       /\ work[n].phase = "final" => work[n].key \in disk[n]

IInv == TypeOK /\ \A n \in Nodes : NodeOK(n)

(* Every step keeps the types.                                             *)
LEMMA TypeStep ==
  ASSUME IInv, [Next]_vars
  PROVE  TypeOK'
<1> USE DEF IInv
<1>0. ASSUME UNCHANGED <<clock, chain, best, disk>>
      PROVE  /\ (clock \in 0..MaxTime)'
             /\ (chain \in Seq(Blocks))'
             /\ (best \in [Nodes -> 0..Len(chain)])'
             /\ (disk \in [Nodes -> SUBSET Ledgers])'
  BY <1>0 DEF TypeOK
<1>1. ASSUME NEW n \in Nodes, NEW t \in Txs, ValidateCached(n, t) PROVE TypeOK'
  BY <1>1, <1>0 DEF ValidateCached, TypeOK
<1>2. ASSUME NEW n \in Nodes, NEW t \in Txs, ValidateStart(n, t) PROVE TypeOK'
  <2>1. StateKeyAt(best[n]) \in Ledgers
    BY StateKeyType DEF TypeOK
  <2>2. strict' \in [Nodes -> SUBSET (Ledgers \X Txs)]
    BY <1>2, <2>1, CacheType DEF ValidateStart
  <2>3. checking' \in [Nodes -> Checks \cup {None}]
    BY <1>2 DEF ValidateStart, TypeOK, Checks, Verified, WellFormed, Applies
  <2> QED BY <1>2, <1>0, <2>2, <2>3 DEF ValidateStart, TypeOK
<1>3. ASSUME NEW n \in Nodes, ValidateEnd(n) PROVE TypeOK'
  <2>1. checking[n].tx \in Txs
    BY <1>3 DEF ValidateEnd, TypeOK, Checks
  <2>2. soft' \in [Nodes -> SUBSET Txs] /\ pool' \in [Nodes -> SUBSET Txs]
    <3>1. \/ /\ soft' = [soft EXCEPT ![n] = soft[n] \cup {checking[n].tx}]
             /\ pool' = [pool EXCEPT ![n] = pool[n] \cup {checking[n].tx}]
          \/ /\ soft' = soft
             /\ pool' = [pool EXCEPT ![n] = pool[n] \ {checking[n].tx}]
      BY <1>3 DEF ValidateEnd
    <3>2. soft \in [Nodes -> SUBSET Txs] /\ pool \in [Nodes -> SUBSET Txs]
      BY DEF TypeOK
    <3> QED BY <2>1, <3>1, <3>2
  <2>3. checking' \in [Nodes -> Checks \cup {None}]
    BY <1>3 DEF ValidateEnd, TypeOK
  <2> QED BY <1>3, <1>0, <2>2, <2>3 DEF ValidateEnd, TypeOK
<1>4. ASSUME NEW n \in Nodes, NEW t \in Txs, ExpireSoft(n, t) PROVE TypeOK'
  BY <1>4, <1>0 DEF ExpireSoft, TypeOK
<1>5. ASSUME NEW n \in Nodes, NEW e \in strict[n], EvictStrict(n, e) PROVE TypeOK'
  BY <1>5, <1>0 DEF EvictStrict, TypeOK
<1>6. ASSUME NEW n \in Nodes, NEW t \in Txs, PreDispatch(n, t) PROVE TypeOK'
  <2>1. work[n] \in Works
    BY <1>6 DEF PreDispatch, Executable, TypeOK
  <2>2. strict' \in [Nodes -> SUBSET (Ledgers \X Txs)]
    <3>1. work[n].key \in Ledgers /\ CacheVerified(n, work[n].key, t, work[n].time)
      BY <1>6, <2>1 DEF PreDispatch, Works
    <3> QED BY <3>1, CacheType
  <2>3. LetIn(work[n], t) \in Works
    BY <2>1, PhaseTypes
  <2>4. work' \in [Nodes -> Works \cup {None}]
    <3>1. \/ work' = [work EXCEPT ![n] = LetIn(work[n], t)]
          \/ work' = [work EXCEPT ![n] = work[n]]
          \/ work' = [work EXCEPT ![n] = None]
      BY <1>6 DEF PreDispatch
    <3> QED BY <2>1, <2>3, <3>1 DEF TypeOK
  <2>5. soft' \in [Nodes -> SUBSET Txs] /\ pool' \in [Nodes -> SUBSET Txs]
    <3>1. /\ soft' = [soft EXCEPT ![n] = soft[n] \ {t}]
          /\ pool' = pool \/ pool' = [pool EXCEPT ![n] = pool[n] \ {t}]
      BY <1>6 DEF PreDispatch
    <3> QED BY <3>1 DEF TypeOK
  <2> QED BY <1>6, <1>0, <2>2, <2>4, <2>5 DEF PreDispatch, TypeOK
<1>7. ASSUME NEW n \in Nodes, NEW s \in SystemTxs, Executable(n, s), MutLedgerState(n, s)
      PROVE  TypeOK'
  <2>1. work[n] \in Works /\ (~work[n].own => work[n].todo # <<>>)
    BY <1>7 DEF Executable, TypeOK
  <2> DEFINE next == IF SystemApplies(work[n].key, s)
                     THEN SystemApplied(work[n].key, s) ELSE work[n].key
  <2>2. next \in Ledgers
    BY <2>1, LedgerTypes DEF Works
  <2> HIDE DEF next
  <2>3. Executed(work[n], s, next) \in Works
    BY <2>1, <2>2, ExecutedType DEF Extrinsics
  <2>4. work' = [work EXCEPT ![n] = Executed(work[n], s, next)]
    BY <1>7 DEF MutLedgerState, next
  <2>5. work' \in [Nodes -> Works \cup {None}]
    BY <2>3, <2>4 DEF TypeOK
  <2> QED BY <1>7, <1>0, <2>5 DEF MutLedgerState, TypeOK
<1>8. ASSUME NEW n \in Nodes, StartBlock(n) PROVE TypeOK'
  <2>1. StateKeyAt(best[n]) \in Ledgers
    BY StateKeyType DEF TypeOK
  <2>2. NewWork(TRUE, clock, StateKeyAt(best[n]), <<>>) \in Works
    BY <2>1 DEF NewWork, Works, TypeOK
  <2>3. work' \in [Nodes -> Works \cup {None}]
    BY <1>8, <2>2 DEF StartBlock, TypeOK
  <2> QED BY <1>8, <1>0, <2>3 DEF StartBlock, TypeOK
<1>9. ASSUME NEW n \in Nodes, StartImport(n) PROVE TypeOK'
  <2>1. StateKeyAt(best[n]) \in Ledgers
    BY StateKeyType DEF TypeOK
  <2>2. chain[best[n] + 1] \in Blocks
    <3>1. best[n] + 1 \in 1..Len(chain)
      BY <1>9 DEF StartImport, TypeOK
    <3> QED BY <3>1 DEF TypeOK
  <2> DEFINE b == chain[best[n] + 1]
  <2>3. NewWork(FALSE, b.time, StateKeyAt(best[n]), b.body) \in Works
    BY <2>1, <2>2 DEF NewWork, Works, Blocks
  <2>4. work' \in [Nodes -> Works \cup {None}]
    BY <1>9, <2>3 DEF StartImport, TypeOK
  <2> QED BY <1>9, <1>0, <2>4 DEF StartImport, TypeOK
<1>10. ASSUME NEW n \in Nodes, SendMnTransaction(n) PROVE TypeOK'
  <2> DEFINE w == work[n]
             ok == /\ Verified(n, w.key, w.tx, w.time)
                   /\ Applies(w.key, w.tx)
                   /\ Accountable(w.key, w.tx)
             next == IF ok THEN Applied(w.key, w.tx) ELSE w.key
  <2>1. w \in Works /\ w.tx \in Txs /\ (~w.own => w.todo # <<>>)
    BY <1>10 DEF SendMnTransaction, TypeOK, NodeOK
  <2>2. w.key \in Ledgers
    BY <2>1 DEF Works
  <2>3. next \in Ledgers
    BY <2>1, <2>2, LedgerTypes
  <2>4. strict' \in [Nodes -> SUBSET (Ledgers \X Txs)]
    BY <1>10, <2>1, <2>2, CacheType DEF SendMnTransaction
  <2>5. work' = [work EXCEPT ![n] = Executed(w, w.tx, next)]
    BY <1>10 DEF SendMnTransaction
  <2> HIDE DEF next
  <2>6. Executed(w, w.tx, next) \in Works
    BY <2>1, <2>3, ExecutedType DEF Extrinsics
  <2>7. work' \in [Nodes -> Works \cup {None}]
    BY <2>5, <2>6 DEF TypeOK
  <2> QED BY <1>10, <1>0, <2>4, <2>7 DEF SendMnTransaction, TypeOK
<1>11. ASSUME NEW n \in Nodes, OnFinalize(n) PROVE TypeOK'
  <2>1. Finalized(work[n]) \in Works
    BY <1>11, PhaseTypes DEF OnFinalize, TypeOK
  <2>2. work' \in [Nodes -> Works \cup {None}]
    BY <1>11, <2>1 DEF OnFinalize, TypeOK
  <2>3. disk' \in [Nodes -> SUBSET Ledgers]
    <3>1. Finalized(work[n]).key \in Ledgers
      BY <2>1 DEF Works
    <3>2. disk' = [disk EXCEPT ![n] = disk[n] \cup {Finalized(work[n]).key}]
      BY <1>11 DEF OnFinalize
    <3> QED BY <3>1, <3>2 DEF TypeOK
  <2>4. UNCHANGED <<clock, chain, best, pool, soft, strict, checking>>
    BY <1>11 DEF OnFinalize
  <2> QED BY <2>2, <2>3, <2>4 DEF TypeOK
<1>12. ASSUME NEW n \in Nodes, Commit(n) PROVE TypeOK'
  <2>1. work[n] \in Works
    BY <1>12 DEF Commit, TypeOK
  <2>2. chain' \in Seq(Blocks) /\ Len(chain) <= Len(chain') /\ best[n] + 1 <= Len(chain')
    <3>1. CASE work[n].own
      <4> DEFINE b == [time |-> work[n].time, body |-> work[n].body,
                       key |-> work[n].key, author |-> n]
      <4>1. b \in Blocks
        BY <2>1 DEF Works, Blocks
      <4>2. chain' = Append(chain, b) /\ best[n] = Len(chain)
        BY <1>12, <3>1 DEF Commit
      <4> HIDE DEF b
      <4> QED BY <4>1, <4>2 DEF TypeOK
    <3>2. CASE ~work[n].own
      BY <1>12, <3>2 DEF Commit, TypeOK, NodeOK
    <3> QED BY <3>1, <3>2
  <2>3. best' \in [Nodes -> 0..Len(chain')]
    BY <1>12, <2>2 DEF Commit, TypeOK
  <2>4. strict' \in [Nodes -> SUBSET (Ledgers \X Txs)] /\ pool' \in [Nodes -> SUBSET Txs]
    BY <1>12 DEF Commit, TypeOK
  <2> QED BY <1>12, <2>2, <2>3, <2>4 DEF Commit, TypeOK
<1>13. ASSUME NEW n \in Nodes, Discard(n) \/ RefuseRoot(n) PROVE TypeOK'
  BY <1>13, <1>0 DEF Discard, RefuseRoot, TypeOK
<1>14. ASSUME NEW n \in Nodes, Crash(n) PROVE TypeOK'
  BY <1>14, <1>0 DEF Crash, TypeOK
<1>15. CASE Tick
  BY <1>15, NumbersAssumption DEF Tick, TypeOK, nodeVars
<1>16. CASE UNCHANGED vars
  BY SMTT(20), <1>16 DEF TypeOK, vars, nodeVars
<1> QED
  BY <1>1, <1>2, <1>3, <1>4, <1>5, <1>6, <1>7, <1>8, <1>9, <1>10, <1>11, <1>12,
     <1>13, <1>14, <1>15, <1>16
     DEF Next, NodeNext, SendMnSystemTransaction, ExecuteSystemTransaction

(* Every step keeps what is needed of each node.                           *)
LEMMA NodeStep ==
  ASSUME IInv, [Next]_vars, NEW m \in Nodes
  PROVE  NodeOK(m)'
<1> USE DEF IInv
<1>0. ASSUME work'[m] = work[m], best'[m] = best[m], disk'[m] = disk[m],
             chain' = chain \/ \E b : chain' = Append(chain, b)
      PROVE  NodeOK(m)'
  <2>1. best[m] \in 0..Len(chain) /\ Len(chain) \in Nat /\ Len(chain') \in Nat
    BY TypeStep DEF TypeOK
  <2>2. StateKeyAt(best[m])' = StateKeyAt(best[m])
    <3>1. StateKeyAt(best[m])' = IF best[m] = 0 THEN Genesis ELSE chain'[best[m]].key
      BY <1>0 DEF StateKeyAt
    <3>2. ASSUME NEW b, chain' = Append(chain, b), best[m] # 0
          PROVE  chain'[best[m]] = chain[best[m]]
      <4>1. chain \in Seq(Blocks) /\ best[m] \in 1..Len(chain)
        BY <2>1, <3>2 DEF TypeOK
      <4> QED BY <3>2, <4>1
    <3>3. best[m] # 0 => chain'[best[m]] = chain[best[m]]
      BY <1>0, <3>2
    <3> QED BY <3>1, <3>3 DEF StateKeyAt
  <2>3. Len(chain) <= Len(chain')
    BY <1>0 DEF TypeOK
  <2> QED BY <1>0, <2>1, <2>2, <2>3 DEF NodeOK
<1>1. ASSUME UNCHANGED <<work, chain, best, disk>> PROVE NodeOK(m)'
  BY <1>1 DEF NodeOK, StateKeyAt
<1>2. ASSUME work'[m] = None, best'[m] = best[m], disk'[m] = disk[m], UNCHANGED chain
      PROVE  NodeOK(m)'
  BY <1>2 DEF NodeOK, StateKeyAt
<1>3. ASSUME NEW n \in Nodes, n # m, NEW w, work' = [work EXCEPT ![n] = w],
             UNCHANGED <<chain, best, disk>>
      PROVE  NodeOK(m)'
  <2>1. work'[m] = work[m]
    BY <1>3 DEF TypeOK
  <2> QED BY <1>3, <2>1, <1>0
<1>4. ASSUME NEW n \in Nodes, NEW t \in Txs,
             \/ ValidateCached(n, t) \/ ValidateStart(n, t) \/ ExpireSoft(n, t)
      PROVE  NodeOK(m)'
  BY <1>4, <1>1 DEF ValidateCached, ValidateStart, ExpireSoft
<1>5. ASSUME NEW n \in Nodes, ValidateEnd(n) PROVE NodeOK(m)'
  BY <1>5, <1>1 DEF ValidateEnd
<1>6. ASSUME NEW n \in Nodes, NEW e \in strict[n], EvictStrict(n, e) PROVE NodeOK(m)'
  BY <1>6, <1>1 DEF EvictStrict
<1>7. ASSUME NEW n \in Nodes, Crash(n) \/ Discard(n) \/ RefuseRoot(n) PROVE NodeOK(m)'
  <2>1. work' = [work EXCEPT ![n] = None] /\ UNCHANGED <<chain, best, disk>>
    BY <1>7 DEF Crash, Discard, RefuseRoot
  <2>2. CASE n = m
    BY <2>1, <2>2, <1>2 DEF TypeOK
  <2> QED BY <2>1, <2>2, <1>3
<1>8. ASSUME NEW n \in Nodes, StartBlock(n) PROVE NodeOK(m)'
  <2> DEFINE w == NewWork(TRUE, clock, StateKeyAt(best[n]), <<>>)
  <2>1. work' = [work EXCEPT ![n] = w] /\ UNCHANGED <<chain, best, disk>>
    BY <1>8 DEF StartBlock
  <2>2. CASE n = m
    <3>1. work'[m] = w
      BY <2>1, <2>2 DEF TypeOK
    <3>2. w.own /\ w.phase = "open"
      BY DEF NewWork
    <3> QED BY <2>1, <3>1, <3>2 DEF NodeOK, StateKeyAt
  <2> HIDE DEF w
  <2> QED BY <2>1, <2>2, <1>3
<1>9. ASSUME NEW n \in Nodes, StartImport(n) PROVE NodeOK(m)'
  <2> DEFINE b == chain[best[n] + 1]
             w == NewWork(FALSE, b.time, StateKeyAt(best[n]), b.body)
  <2>1. /\ work' = [work EXCEPT ![n] = w] /\ UNCHANGED <<chain, best, disk>>
        /\ best[n] < Len(chain)
    BY <1>9 DEF StartImport
  <2>2. CASE n = m
    <3>1. work'[m] = w
      BY <2>1, <2>2 DEF TypeOK
    <3>2. w.phase = "open"
      BY DEF NewWork
    <3> HIDE DEF w
    <3> QED BY <2>1, <2>2, <3>1, <3>2 DEF NodeOK, StateKeyAt
  <2> HIDE DEF w
  <2> QED BY <2>1, <2>2, <1>3
<1>10. ASSUME NEW n \in Nodes, NEW x, NEW l, work[n] # None,
              work' = [work EXCEPT ![n] = Executed(work[n], x, l)],
              UNCHANGED <<chain, best, disk>>
       PROVE  NodeOK(m)'
  <2>1. CASE n = m
    <3>1. work'[m] = Executed(work[m], x, l)
      BY <1>10, <2>1 DEF TypeOK
    <3>2. /\ Executed(work[m], x, l).own = work[m].own
          /\ Executed(work[m], x, l).phase = "open"
      BY <1>10, <2>1 DEF Executed, TypeOK, Works
    <3> QED BY <1>10, <2>1, <3>1, <3>2 DEF NodeOK, StateKeyAt
  <2> QED BY <1>10, <2>1, <1>3
<1>11. ASSUME NEW n \in Nodes, NEW s \in SystemTxs, Executable(n, s), MutLedgerState(n, s)
       PROVE  NodeOK(m)'
  BY <1>11, <1>10 DEF Executable, MutLedgerState
<1>12. ASSUME NEW n \in Nodes, SendMnTransaction(n) PROVE NodeOK(m)'
  BY <1>12, <1>10 DEF SendMnTransaction
<1>13. ASSUME NEW n \in Nodes, NEW t \in Txs, PreDispatch(n, t) PROVE NodeOK(m)'
  <2>1. /\ UNCHANGED <<chain, best, disk>> /\ work[n] # None
        /\ work[n].own \/ work[n].todo # <<>>
        /\ \/ work' = [work EXCEPT ![n] = LetIn(work[n], t)]
           \/ work' = [work EXCEPT ![n] = work[n]]
           \/ work' = [work EXCEPT ![n] = None]
    BY <1>13 DEF PreDispatch, Executable
  <2>2. CASE n # m
    BY <2>1, <2>2, <1>3
  <2>3. CASE n = m /\ work' = [work EXCEPT ![n] = LetIn(work[n], t)]
    <3>1. work'[m] = LetIn(work[m], t)
      BY <2>3 DEF TypeOK
    <3>2. /\ LetIn(work[m], t).own = work[m].own
          /\ LetIn(work[m], t).todo = work[m].todo
          /\ LetIn(work[m], t).phase = "apply"
          /\ LetIn(work[m], t).tx = t
      BY <2>1, <2>3 DEF LetIn, TypeOK, Works
    <3> QED BY <2>1, <2>3, <3>1, <3>2 DEF NodeOK, StateKeyAt
  <2>4. CASE n = m /\ work' = [work EXCEPT ![n] = work[n]]
    BY <2>1, <2>4 DEF NodeOK, TypeOK, StateKeyAt
  <2>5. CASE n = m /\ work' = [work EXCEPT ![n] = None]
    BY <2>1, <2>5, <1>2 DEF TypeOK
  <2> QED BY <2>1, <2>2, <2>3, <2>4, <2>5
<1>14. ASSUME NEW n \in Nodes, OnFinalize(n) PROVE NodeOK(m)'
  <2> DEFINE w == Finalized(work[n])
  <2>1. /\ work[n] # None /\ work' = [work EXCEPT ![n] = w]
        /\ disk' = [disk EXCEPT ![n] = disk[n] \cup {w.key}]
        /\ UNCHANGED <<chain, best>>
    BY <1>14 DEF OnFinalize
  <2>2. w.own = work[n].own /\ w.phase = "final"
    BY <2>1 DEF Finalized, TypeOK, Works
  <2> HIDE DEF w
  <2>3. CASE n = m
    <3>1. work'[m] = w /\ w.key \in disk'[m] /\ disk[m] \subseteq disk'[m]
      BY <2>1, <2>3 DEF TypeOK
    <3>2. StateKeyAt(best[m])' = StateKeyAt(best[m])
      BY <2>1 DEF StateKeyAt
    <3> QED BY <2>1, <2>2, <2>3, <3>1, <3>2 DEF NodeOK
  <2>4. CASE n # m
    <3>1. work'[m] = work[m] /\ disk'[m] = disk[m]
      BY <2>1, <2>4 DEF TypeOK
    <3> QED BY <2>1, <3>1, <1>0
  <2> QED BY <2>3, <2>4
<1>15. ASSUME NEW n \in Nodes, Commit(n) PROVE NodeOK(m)'
  <2>1. /\ work[n] # None /\ work[n].phase = "final"
        /\ work' = [work EXCEPT ![n] = None]
        /\ best' = [best EXCEPT ![n] = best[n] + 1]
        /\ disk' = disk
    BY <1>15 DEF Commit
  <2>2. CASE n = m
    <3>1. best'[m] = best[m] + 1 /\ best[m] + 1 # 0 /\ work'[m] = None
      BY <2>1, <2>2 DEF TypeOK
    <3>2. chain'[best[m] + 1].key = work[m].key
      <4>1. CASE work[m].own
        <5> DEFINE b == [time |-> work[n].time, body |-> work[n].body,
                         key |-> work[n].key, author |-> n]
        <5>1. chain' = Append(chain, b) /\ best[m] = Len(chain)
          BY <1>15, <2>2, <4>1 DEF Commit
        <5>2. b.key = work[m].key
          BY <2>2
        <5> HIDE DEF b
        <5>3. chain'[Len(chain) + 1] = b
          BY <5>1 DEF TypeOK
        <5> QED BY <5>1, <5>2, <5>3
      <4>2. CASE ~work[m].own
        BY <1>15, <2>2, <4>2 DEF Commit
      <4> QED BY <4>1, <4>2
    <3>3. StateKeyAt(best[m])' = work[m].key
      BY <3>1, <3>2 DEF StateKeyAt
    <3>4. work[m].key \in disk[m]
      BY <2>1, <2>2 DEF NodeOK
    <3> QED BY <2>1, <3>1, <3>3, <3>4 DEF NodeOK
  <2>3. CASE n # m
    <3>1. work'[m] = work[m] /\ best'[m] = best[m] /\ disk'[m] = disk[m]
      BY <2>1, <2>3 DEF TypeOK
    <3>2. chain' = chain \/ \E b : chain' = Append(chain, b)
      BY <1>15 DEF Commit
    <3> QED BY <3>1, <3>2, <1>0
  <2> QED BY <2>2, <2>3
<1>16. CASE Tick
  BY <1>16, <1>1 DEF Tick, nodeVars
<1>17. CASE UNCHANGED vars
  BY <1>17, <1>1 DEF vars, nodeVars
<1> QED
  BY <1>4, <1>5, <1>6, <1>7, <1>8, <1>9, <1>11, <1>12, <1>13, <1>14, <1>15, <1>16, <1>17
     DEF Next, NodeNext, SendMnSystemTransaction, ExecuteSystemTransaction

(* It holds to begin with: genesis is on disk.                             *)
LEMMA InitIInv == Init => IInv
<1> SUFFICES ASSUME Init PROVE IInv
  OBVIOUS
<1>1. TypeOK
  BY NumbersAssumption, SetsAssumption DEF Init, TypeOK, Genesis, Ledgers
<1>2. \A n \in Nodes : NodeOK(n)
  BY DEF Init, NodeOK, StateKeyAt
<1> QED BY <1>1, <1>2 DEF IInv

(* The inductive invariant of the ledger bridge.                           *)
THEOREM Invariance == Spec => []IInv
<1>1. Init => IInv
  BY InitIInv
<1>2. IInv /\ [Next]_vars => IInv'
  BY TypeStep, NodeStep DEF IInv
<1> QED BY <1>1, <1>2, PTL DEF Spec

(* Type correctness, whatever the nodes, the transactions and the bounds.  *)
THEOREM TypeCorrect == Spec => []TypeOK
<1>1. IInv => TypeOK
  BY DEF IInv
<1> QED BY <1>1, Invariance, PTL

(* Crash recovery: what on_finalize flushes is the ledger the client then  *)
(* commits to, so the ledger of the best block is on disk wherever between *)
(* the two, or later, the process dies.                                    *)
THEOREM DiskCorrect == Spec => []BestStateOnDisk
<1>1. IInv => BestStateOnDisk
  BY DEF IInv, NodeOK, BestStateOnDisk
<1> QED BY <1>1, Invariance, PTL
=============================================================================
