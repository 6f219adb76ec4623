---------------------- MODULE FederatedAuthorityProofs ----------------------
(***************************************************************************)
(* What motions guarantee, proved for any set of calls, any finite set of  *)
(* bodies, any duration, any proportion and any bound on the approvals.    *)
(*                                                                         *)
(* ApprovalsStand is inductive relative to TypeOK: each action changes the *)
(* approvals of one motion and the bodies standing behind it alike.        *)
(***************************************************************************)
EXTENDS FederatedAuthority, FiniteSetTheorems, TLAPS

IInv == TypeOK /\ ApprovalsStand

(* Joining below the bound stays within it (BoundedBTreeSet::try_insert).  *)
LEMMA JoinWithinBound ==
  ASSUME NEW a \in SUBSET Bodies, NEW b \in Bodies,
         ~ExceedsBounds(a, b), Cardinality(a) <= MaxBodies
  PROVE  Cardinality(a \union {b}) <= MaxBodies
<1>1. IsFiniteSet(a)
  BY BodiesAssumption, FS_Subset
<1>2. CASE b \in a
  <2>1. a \union {b} = a
    BY <1>2
  <2> QED
    BY <2>1
<1>3. CASE b \notin a
  <2>1. Cardinality(a \union {b}) = Cardinality(a) + 1
    BY <1>1, <1>3, FS_AddElement
  <2>2. Cardinality(a) \in Nat
    BY <1>1, FS_CardinalityType
  <2> QED
    BY <1>3, <2>1, <2>2, BoundsAssumption DEF ExceedsBounds
<1> QED
  BY <1>2, <1>3

(* Taking a body away keeps a set within the bound. *)
LEMMA RevokeWithinBound ==
  ASSUME NEW a \in SUBSET Bodies, NEW b \in Bodies, Cardinality(a) <= MaxBodies
  PROVE  Cardinality(a \ {b}) <= MaxBodies
<1>1. IsFiniteSet(a)
  BY BodiesAssumption, FS_Subset
<1>2. Cardinality(a \ {b}) <= Cardinality(a)
  BY <1>1, FS_Subset
<1>3. Cardinality(a) \in Nat /\ Cardinality(a \ {b}) \in Nat
  BY <1>1, FS_Subset, FS_CardinalityType
<1> QED
  BY <1>2, <1>3, BoundsAssumption

(* No motion, no approval: the genesis state. *)
LEMMA InitIInv == Init => IInv
BY DEF Init, IInv, TypeOK, ApprovalsStand, Stored, Results

(* A call that is refused only changes the result its caller sees. *)
LEMMA RejectedIInv ==
  ASSUME IInv, NEW c \in Calls,
         NEW op \in {"motion_approve", "motion_revoke", "motion_close"},
         NEW e \in Results, Rejected(op, c, e)
  PROVE  IInv'
BY DEF IInv, TypeOK, ApprovalsStand, Stored, Rejected, Outcome

(* Record writes a motion that has just gained b, in both places. *)
LEMMA RecordIInv ==
  ASSUME IInv, NEW c \in Calls, NEW b \in Bodies, NEW motion \in MotionInfo,
         Record(b, c, motion), motion.approvals = standing[c] \union {b}
  PROVE  IInv'
<1>1. motion # NoMotion
  BY NoMotionAssumption
<1>2. TypeOK'
  BY DEF IInv, TypeOK, Record, Outcome, Results
<1>3. ApprovalsStand'
  BY <1>1 DEF IInv, TypeOK, ApprovalsStand, Stored, Record
<1> QED
  BY <1>2, <1>3 DEF IInv

(* motion_approve, revoking and closing preserve the invariant. *)
LEMMA ApproveIInv ==
  ASSUME IInv, NEW c \in Calls, NEW b \in Bodies, Propose(b, c) \/ Join(b, c)
  PROVE  IInv'
<1> USE DEF Results
<1>1. CASE \E e \in Results : Rejected("motion_approve", c, e)
  BY <1>1, RejectedIInv
<1>2. CASE Propose(b, c) /\ ~ExceedsBounds({}, b)
  <2> DEFINE motion == [approvals |-> {b}, remaining |-> MotionDuration]
  <2>1. Cardinality({} \union {b}) <= MaxBodies
    BY <1>2, JoinWithinBound, FS_EmptySet, BoundsAssumption
  <2>2. motion \in MotionInfo
    <3>1. Cardinality({b}) <= MaxBodies
      BY <2>1, {} \union {b} = {b}
    <3> QED
      BY <3>1, BoundsAssumption DEF MotionInfo
  <2>3. standing[c] = {}
    BY <1>2 DEF Propose, IInv, ApprovalsStand
  <2>4. Record(b, c, motion)
    BY <1>2 DEF Propose
  <2>5. motion.approvals = standing[c] \union {b}
    BY <2>3
  <2> HIDE DEF motion
  <2> QED
    BY <2>2, <2>4, <2>5, RecordIInv
<1>3. CASE /\ Join(b, c) /\ ~HasEnded(motions[c]) /\ b \notin motions[c].approvals
           /\ ~ExceedsBounds(motions[c].approvals, b)
  <2> DEFINE motion == [motions[c] EXCEPT !.approvals = @ \union {b}]
  <2>1. motions[c] \in MotionInfo
    BY <1>3 DEF Join, Stored, IInv, TypeOK
  <2>2. Cardinality(motions[c].approvals \union {b}) <= MaxBodies
    BY <1>3, <2>1, JoinWithinBound DEF MotionInfo
  <2>3. motion \in MotionInfo
    BY <2>1, <2>2 DEF MotionInfo
  <2>4. motion.approvals = standing[c] \union {b}
    BY <1>3, <2>1 DEF Join, IInv, ApprovalsStand, MotionInfo
  <2>5. Record(b, c, motion)
    BY <1>3 DEF Join
  <2> HIDE DEF motion
  <2> QED
    BY <2>3, <2>4, <2>5, RecordIInv
<1> QED
  BY <1>1, <1>2, <1>3 DEF Propose, Join

LEMMA RevokeIInv ==
  ASSUME IInv, NEW c \in Calls, NEW b \in Bodies,
         Revoke(b, c) \/ RevokeRefused(b, c)
  PROVE  IInv'
<1>1. CASE RevokeRefused(b, c)
  <2>1. \E e \in Results : Rejected("motion_revoke", c, e)
    BY <1>1 DEF RevokeRefused, Results
  <2> QED
    BY <2>1, RejectedIInv
<1>2. CASE Revoke(b, c)
  <2> DEFINE left == motions[c].approvals \ {b}
             motion == IF left = {} THEN NoMotion
                                    ELSE [motions[c] EXCEPT !.approvals = left]
  <2>1. motions[c] \in MotionInfo /\ motions[c].approvals = standing[c]
    BY <1>2 DEF Revoke, Stored, IInv, TypeOK, ApprovalsStand
  <2>2. Cardinality(left) <= MaxBodies
    BY <2>1, RevokeWithinBound DEF MotionInfo
  <2>3. motion \in MotionInfo \union {NoMotion}
    BY <2>1, <2>2 DEF MotionInfo
  <2>4. /\ motions' = [motions EXCEPT ![c] = motion]
        /\ standing' = [standing EXCEPT ![c] = left]
        /\ outcome' = Outcome("motion_revoke", c, "Revoked")
    BY <1>2, <2>1 DEF Revoke
  <2>5. IF left = {} THEN motion = NoMotion
                     ELSE motion # NoMotion /\ motion.approvals = left
    <3>1. [motions[c] EXCEPT !.approvals = left] \in MotionInfo
      BY <2>1, <2>2 DEF MotionInfo
    <3>2. [motions[c] EXCEPT !.approvals = left] # NoMotion
      BY <3>1, NoMotionAssumption
    <3>3. [motions[c] EXCEPT !.approvals = left].approvals = left
      BY <2>1 DEF MotionInfo
    <3> QED
      BY <3>2, <3>3
  <2>6. left \in SUBSET Bodies
    BY <2>1 DEF MotionInfo
  <2> HIDE DEF left, motion
  <2>7. TypeOK'
    BY <2>3, <2>4, <2>6 DEF IInv, TypeOK, Outcome, Results
  <2>8. ApprovalsStand'
    BY <2>4, <2>5 DEF IInv, TypeOK, ApprovalsStand, Stored
  <2> QED
    BY <2>7, <2>8 DEF IInv
<1> QED
  BY <1>1, <1>2

LEMMA CloseIInv ==
  ASSUME IInv, NEW c \in Calls,
         \/ CloseDispatch(c) \/ CloseDispatchFails(c)
         \/ CloseExpired(c) \/ CloseRefused(c)
  PROVE  IInv'
<1>1. CASE \E e \in Results : Rejected("motion_close", c, e)
  BY <1>1, RejectedIInv
<1>2. CASE \E result \in {"Dispatched", "Expired"} : EndRound(c, result)
  BY <1>2 DEF EndRound, IInv, TypeOK, ApprovalsStand, Stored, Outcome, Results
<1> QED
  BY <1>1, <1>2
  DEF CloseDispatch, CloseDispatchFails, CloseExpired, CloseRefused, Results

LEMMA NextBlockIInv == IInv /\ NextBlock => IInv'
<1> SUFFICES ASSUME IInv, NextBlock PROVE IInv'
  OBVIOUS
<1>1. ASSUME NEW c \in Calls, Stored(c)
      PROVE  /\ motions'[c] \in MotionInfo
             /\ motions'[c].approvals = motions[c].approvals
  <2>1. motions[c] \in MotionInfo
    BY <1>1 DEF IInv, TypeOK, Stored
  <2>2. CASE HasEnded(motions[c])
    BY <2>1, <2>2 DEF NextBlock
  <2>3. CASE ~HasEnded(motions[c])
    <3>1. motions'[c] = [motions[c] EXCEPT !.remaining = @ - 1]
      BY <1>1, <2>3 DEF NextBlock
    <3>2. motions[c].remaining - 1 \in 0..MotionDuration
      BY <2>1, <2>3, BoundsAssumption DEF MotionInfo, HasEnded
    <3> QED
      BY <2>1, <3>1, <3>2 DEF MotionInfo
  <2> QED
    BY <2>2, <2>3
<1>2. ASSUME NEW c \in Calls, ~Stored(c) PROVE motions'[c] = NoMotion
  BY <1>2 DEF NextBlock, Stored
<1>3. TypeOK'
  <2>1. motions' \in [Calls -> MotionInfo \union {NoMotion}]
    BY <1>1, <1>2 DEF NextBlock
  <2> QED
    BY <2>1 DEF NextBlock, IInv, TypeOK
<1>4. ApprovalsStand'
  BY <1>1, <1>2, NoMotionAssumption DEF NextBlock, IInv, ApprovalsStand, Stored
<1> QED
  BY <1>3, <1>4 DEF IInv

(* Every step preserves the inductive invariant. *)
LEMMA NextIInv == IInv /\ [Next]_vars => IInv'
<1> SUFFICES ASSUME IInv, [Next]_vars PROVE IInv'
  OBVIOUS
<1>1. CASE UNCHANGED vars
  BY <1>1 DEF vars, IInv, TypeOK, ApprovalsStand, Stored
<1>2. ASSUME NEW b \in Bodies, NEW c \in Calls,
             Propose(b, c) \/ Join(b, c) \/ Revoke(b, c) \/ RevokeRefused(b, c)
      PROVE  IInv'
  BY <1>2, ApproveIInv, RevokeIInv
<1>3. ASSUME NEW c \in Calls,
             \/ CloseDispatch(c) \/ CloseDispatchFails(c)
             \/ CloseExpired(c) \/ CloseRefused(c)
      PROVE  IInv'
  BY <1>3, CloseIInv
<1> QED
  BY <1>1, <1>2, <1>3, NextBlockIInv DEF Next

(* The inductive invariant holds in every reachable state of the pallet.   *)
THEOREM Invariance == Spec => []IInv
BY InitIInv, NextIInv, PTL DEF Spec

(* The storage is well typed; in particular no motion ever holds more than *)
(* MaxAuthorityBodies approvals.                                           *)
THEOREM TypeCorrect == Spec => []TypeOK
<1>1. IInv => TypeOK
  BY DEF IInv
<1> QED
  BY <1>1, Invariance, PTL

(* The approvals motion_close counts are those of the bodies that still    *)
(* stand behind the motion's current round.                                *)
THEOREM ApprovalsCorrect == Spec => []ApprovalsStand
<1>1. IInv => ApprovalsStand
  BY DEF IInv
<1> QED
  BY <1>1, Invariance, PTL

(* motion_close dispatches a call only with the consent of enough bodies,  *)
(* and uses that consent up.                                               *)
THEOREM ConsentCorrect == Spec => EnactedWithConsent
<1> DEFINE A == outcome' # outcome /\ outcome'.result = "Dispatched"
                  => /\ IsMotionApproved(Cardinality(standing[outcome'.motion]))
                     /\ standing'[outcome'.motion] = {}
<1>1. IInv /\ [Next]_vars => [A]_vars
  <2> SUFFICES ASSUME IInv, Next, outcome' # outcome,
                      outcome'.result = "Dispatched"
               PROVE  /\ IsMotionApproved(Cardinality(standing[outcome'.motion]))
                      /\ standing'[outcome'.motion] = {}
    BY DEF vars
  <2>1. PICK c \in Calls : CloseDispatch(c)
    BY DEF Next, Propose, Join, Record, Revoke, RevokeRefused, Rejected, Outcome,
           CloseDispatchFails, CloseExpired, CloseRefused, EndRound, NextBlock
  <2>2. outcome'.motion = c /\ standing' = [standing EXCEPT ![c] = {}]
    BY <2>1 DEF CloseDispatch, EndRound, Outcome
  <2>3. motions[c].approvals = standing[c]
    BY <2>1 DEF CloseDispatch, Approved, IInv, ApprovalsStand
  <2>4. IsMotionApproved(Cardinality(motions[c].approvals))
    BY <2>1 DEF CloseDispatch, Approved
  <2> QED
    BY <2>2, <2>3, <2>4 DEF IInv, TypeOK
<1> QED
  BY <1>1, Invariance, PTL DEF Spec, EnactedWithConsent

(* From its end on a motion is out of the bodies' reach, and nothing puts  *)
(* that end off.                                                           *)
THEOREM FrozenCorrect == Spec => EndedMotionsFrozen
<1> DEFINE A == \A c \in Calls :
                  Stored(c) /\ motions'[c] # NoMotion =>
                    /\ motions'[c].remaining <= motions[c].remaining
                    /\ HasEnded(motions[c]) =>
                         motions'[c].approvals = motions[c].approvals
<1>1. IInv /\ [Next]_vars => [A]_vars
  <2> SUFFICES ASSUME IInv, Next, NEW c \in Calls, Stored(c),
                      motions'[c] # NoMotion
               PROVE  /\ motions'[c].remaining <= motions[c].remaining
                      /\ HasEnded(motions[c]) =>
                           motions'[c].approvals = motions[c].approvals
    BY DEF vars
  <2>1. motions[c] \in MotionInfo /\ motions[c].remaining \in Nat
    BY BoundsAssumption DEF IInv, TypeOK, Stored, MotionInfo
  <2>2. CASE motions'[c] = motions[c]
    BY <2>1, <2>2
  <2>3. CASE NextBlock
    BY <2>1, <2>3 DEF NextBlock, HasEnded, MotionInfo
  <2>4. ASSUME NEW b \in Bodies, Join(b, c), motions' # motions
        PROVE  ~HasEnded(motions[c]) /\ motions'[c].remaining = motions[c].remaining
    BY <2>1, <2>4 DEF Join, Rejected, Record, IInv, TypeOK, MotionInfo
  <2>5. ASSUME NEW b \in Bodies, Revoke(b, c)
        PROVE  ~HasEnded(motions[c]) /\ motions'[c].remaining = motions[c].remaining
    BY <2>1, <2>5 DEF Revoke, IInv, TypeOK, MotionInfo
  <2>6. ASSUME NEW b \in Bodies, NEW d \in Calls,
               \/ Propose(b, d) \/ Join(b, d) \/ Revoke(b, d) \/ RevokeRefused(b, d),
               motions'[c] # motions[c]
        PROVE  d = c /\ (Join(b, c) \/ Revoke(b, c))
    BY <2>6 DEF Propose, Join, Record, Revoke, RevokeRefused, Rejected, IInv, TypeOK
  <2>7. ASSUME NEW d \in Calls,
               \/ CloseDispatch(d) \/ CloseDispatchFails(d)
               \/ CloseExpired(d) \/ CloseRefused(d)
        PROVE  motions'[c] = motions[c]
    BY <2>7 DEF CloseDispatch, CloseDispatchFails, CloseExpired, CloseRefused,
                Rejected, EndRound, IInv, TypeOK
  <2>8. CASE motions'[c] # motions[c] /\ ~NextBlock
    <3>1. PICK b \in Bodies, d \in Calls :
            Propose(b, d) \/ Join(b, d) \/ Revoke(b, d) \/ RevokeRefused(b, d)
      BY <2>7, <2>8 DEF Next
    <3>2. Join(b, c) \/ Revoke(b, c)
      BY <2>6, <2>8, <3>1
    <3>3. ~HasEnded(motions[c]) /\ motions'[c].remaining = motions[c].remaining
      BY <2>4, <2>5, <2>8, <3>2
    <3> QED
      BY <2>1, <3>3
  <2> QED
    BY <2>2, <2>3, <2>8
<1> QED
  BY <1>1, Invariance, PTL DEF Spec, EndedMotionsFrozen
=============================================================================
