------------------------- MODULE FederatedAuthority -------------------------
(***************************************************************************)
(* The motions of pallet-federated-authority.  A motion is a runtime call  *)
(* (identified by its hash) that the authority bodies, in the runtime the  *)
(* Council and the Technical Committee, approve or revoke; anybody may     *)
(* close it, which dispatches the call with Root origin when enough bodies *)
(* stand behind it and drops it when it has expired.                       *)
(*                                                                         *)
(* A dispatchable that returns an error leaves the storage as it found it  *)
(* (FRAME runs it in a storage layer of its own), so the error paths below *)
(* change `outcome', the result handed to the caller, and nothing else.    *)
(***************************************************************************)
EXTENDS Naturals, FiniteSets

CONSTANTS
  Calls,            \* the calls motions are about
  Fragile,          \* the calls whose dispatch may fail
  Bodies,           \* the authority bodies (AuthId)
  MaxBodies,        \* MaxAuthorityBodies
  MotionDuration,   \* blocks until a motion ends
  ProportionN,      \* MotionApprovalProportion = ProportionN / ProportionD
  ProportionD,
  NoMotion

ASSUME BodiesAssumption == IsFiniteSet(Bodies)
ASSUME CallsAssumption == Fragile \subseteq Calls
ASSUME BoundsAssumption ==
  /\ MaxBodies \in Nat
  /\ MotionDuration \in Nat
  /\ ProportionN \in Nat \ {0}
  /\ ProportionD \in Nat \ {0}

(* MotionInfo.  `remaining' is ends_block minus the current block number,  *)
(* and 0 once that block has been reached: the code never uses ends_block  *)
(* in any other way.  (The saturation of ends_block at the largest block   *)
(* number is not modelled.)                                                *)
MotionInfo ==
  [approvals : {a \in SUBSET Bodies : Cardinality(a) <= MaxBodies},
   remaining : 0..MotionDuration]

ASSUME NoMotionAssumption == NoMotion \notin MotionInfo

VARIABLES
  motions,    \* the storage map Motions
  outcome,    \* the last call: what was called, on which motion, its result
  standing    \* history: the bodies that asked for the motion in its current
              \* round and have not withdrawn, counted from the results the
              \* callers were given

vars == <<motions, outcome, standing>>

Results == {"None", "Approved", "Revoked", "Dispatched", "Expired",
            "MotionHasEnded", "MotionAlreadyApproved",
            "MotionApprovalExceedsBounds", "MotionNotFound",
            "MotionApprovalMissing", "MotionNotEnded", "DispatchError"}

Outcome(op, c, result) == [op |-> op, motion |-> c, result |-> result]

Stored(c) == motions[c] # NoMotion

HasEnded(motion) == motion.remaining = 0

(* reached_proportion(n, MaxAuthorityBodies) *)
IsMotionApproved(n) == n * ProportionD >= ProportionN * MaxBodies

Init ==
  /\ motions = [c \in Calls |-> NoMotion]
  /\ outcome \in [op : {"none"}, motion : Calls, result : {"None"}]
  /\ standing = [c \in Calls |-> {}]

-----------------------------------------------------------------------------
(* An operation that returns an error. *)
Rejected(op, c, error) ==
  /\ outcome' = Outcome(op, c, error)
  /\ UNCHANGED <<motions, standing>>

(* BoundedBTreeSet::try_insert fails on a full set, unless the element is  *)
(* already there.                                                          *)
ExceedsBounds(approvals, b) ==
  b \notin approvals /\ Cardinality(approvals) >= MaxBodies

Record(b, c, motion) ==
  /\ motions' = [motions EXCEPT ![c] = motion]
  /\ standing' = [standing EXCEPT ![c] = @ \union {b}]
  /\ outcome' = Outcome("motion_approve", c, "Approved")

(* motion_approve of a motion that is not stored yet. *)
Propose(b, c) ==
  /\ ~Stored(c)
  /\ IF ExceedsBounds({}, b)
       THEN Rejected("motion_approve", c, "MotionApprovalExceedsBounds")
       ELSE Record(b, c, [approvals |-> {b}, remaining |-> MotionDuration])

(* motion_approve of a stored motion; before it, three faulty forms. *)
JoinUnbounded(b, c) ==
  /\ Stored(c)
  /\ ~HasEnded(motions[c])
  /\ b \notin motions[c].approvals
  /\ Record(b, c, [motions[c] EXCEPT !.approvals = @ \union {b}])

JoinAfterEnd(b, c) ==
  /\ Stored(c)
  /\ IF b \in motions[c].approvals
       THEN Rejected("motion_approve", c, "MotionAlreadyApproved")
     ELSE IF ExceedsBounds(motions[c].approvals, b)
       THEN Rejected("motion_approve", c, "MotionApprovalExceedsBounds")
     ELSE Record(b, c, [motions[c] EXCEPT !.approvals = @ \union {b}])

JoinProlonging(b, c) ==
  /\ Stored(c)
  /\ ~HasEnded(motions[c])
  /\ b \notin motions[c].approvals
  /\ ~ExceedsBounds(motions[c].approvals, b)
  /\ Record(b, c, [approvals |-> motions[c].approvals \union {b},
                   remaining |-> MotionDuration])

Join(b, c) ==
  /\ Stored(c)
  /\ IF HasEnded(motions[c])
       THEN Rejected("motion_approve", c, "MotionHasEnded")
     ELSE IF b \in motions[c].approvals
       THEN Rejected("motion_approve", c, "MotionAlreadyApproved")
     ELSE IF ExceedsBounds(motions[c].approvals, b)
       THEN Rejected("motion_approve", c, "MotionApprovalExceedsBounds")
     ELSE Record(b, c, [motions[c] EXCEPT !.approvals = @ \union {b}])

(* motion_revoke: the last approval takes the motion with it (in the      *)
(* faulty RevokeLeavesEmpty it does not).                                  *)
RevokeRefused(b, c) ==
  \/ /\ ~Stored(c)
     /\ Rejected("motion_revoke", c, "MotionNotFound")
  \/ /\ Stored(c)
     /\ HasEnded(motions[c])
     /\ Rejected("motion_revoke", c, "MotionHasEnded")
  \/ /\ Stored(c)
     /\ ~HasEnded(motions[c])
     /\ b \notin motions[c].approvals
     /\ Rejected("motion_revoke", c, "MotionApprovalMissing")

RevokeLeavesEmpty(b, c) ==
  /\ Stored(c)
  /\ ~HasEnded(motions[c])
  /\ b \in motions[c].approvals
  /\ motions' = [motions EXCEPT ![c].approvals = @ \ {b}]
  /\ standing' = [standing EXCEPT ![c] = @ \ {b}]
  /\ outcome' = Outcome("motion_revoke", c, "Revoked")

Revoke(b, c) ==
  /\ Stored(c)
  /\ ~HasEnded(motions[c])
  /\ b \in motions[c].approvals
  /\ LET left == motions[c].approvals \ {b}
     IN  motions' = [motions EXCEPT ![c] =
           IF left = {} THEN NoMotion ELSE [@ EXCEPT !.approvals = left]]
  /\ standing' = [standing EXCEPT ![c] = @ \ {b}]
  /\ outcome' = Outcome("motion_revoke", c, "Revoked")

-----------------------------------------------------------------------------
(* The end of a motion's round: motion_remove. *)
EndRound(c, result) ==
  /\ motions' = [motions EXCEPT ![c] = NoMotion]
  /\ standing' = [standing EXCEPT ![c] = {}]
  /\ outcome' = Outcome("motion_close", c, result)

Approved(c) == Stored(c) /\ IsMotionApproved(Cardinality(motions[c].approvals))

(* motion_close of an approved motion whose call succeeds (the faulty      *)
(* forms forget to count the approvals, and motion_remove).                *)
CloseDispatchUncounted(c) ==
  /\ Stored(c)
  /\ EndRound(c, "Dispatched")

CloseDispatchKeepsMotion(c) ==
  /\ Approved(c)
  /\ outcome' = Outcome("motion_close", c, "Dispatched")
  /\ standing' = [standing EXCEPT ![c] = {}]
  /\ UNCHANGED motions

CloseDispatch(c) ==
  /\ Approved(c)
  /\ EndRound(c, "Dispatched")

(* motion_close of an approved motion whose call fails: the removal and    *)
(* the event come before `motion_result?', which returns the call's error  *)
(* and thereby undoes both.                                                *)
CloseDispatchFails(c) ==
  /\ c \in Fragile
  /\ Approved(c)
  /\ Rejected("motion_close", c, "DispatchError")

CloseExpired(c) ==
  /\ Stored(c)
  /\ ~Approved(c)
  /\ HasEnded(motions[c])
  /\ EndRound(c, "Expired")

CloseRefused(c) ==
  \/ /\ ~Stored(c)
     /\ Rejected("motion_close", c, "MotionNotFound")
  \/ /\ Stored(c)
     /\ ~Approved(c)
     /\ ~HasEnded(motions[c])
     /\ Rejected("motion_close", c, "MotionNotEnded")

(* The next block: every end comes one block closer. *)
NextBlock ==
  /\ motions' = [c \in Calls |->
       IF Stored(c) /\ ~HasEnded(motions[c])
         THEN [motions[c] EXCEPT !.remaining = @ - 1]
         ELSE motions[c]]
  /\ UNCHANGED <<outcome, standing>>

Next ==
  \/ \E b \in Bodies, c \in Calls :
       Propose(b, c) \/ Join(b, c) \/ Revoke(b, c) \/ RevokeRefused(b, c)
  \/ \E c \in Calls :
       \/ CloseDispatch(c) \/ CloseDispatchFails(c)
       \/ CloseExpired(c) \/ CloseRefused(c)
  \/ NextBlock

Spec == Init /\ [][Next]_vars

(* Blocks keep coming, and somebody keeps trying to close every motion     *)
(* (any signed account may).                                               *)
Fairness ==
  /\ WF_vars(NextBlock)
  /\ \A c \in Calls : WF_vars(CloseDispatch(c)) /\ WF_vars(CloseExpired(c))

FairSpec == Spec /\ Fairness

-----------------------------------------------------------------------------
TypeOK ==
  /\ motions \in [Calls -> MotionInfo \union {NoMotion}]
  /\ outcome \in [op : {"none", "motion_approve", "motion_revoke", "motion_close"},
                  motion : Calls, result : Results]
  /\ standing \in [Calls -> SUBSET Bodies]

(* The approvals motion_close counts are exactly the bodies that asked for *)
(* the motion since it was proposed and have not withdrawn, whatever ended *)
(* the earlier rounds of the same call (dispatch, expiry or the last       *)
(* revocation); and there is no stored motion nobody stands behind.        *)
ApprovalsStand ==
  \A c \in Calls :
    IF Stored(c)
      THEN motions[c].approvals = standing[c] /\ standing[c] # {}
      ELSE standing[c] = {}

(* motion_close hands a call to Root only when the bodies standing behind  *)
(* it at that moment reach the proportion, and never twice on the strength *)
(* of the same approvals.                                                  *)
EnactedWithConsent ==
  [][outcome' # outcome /\ outcome'.result = "Dispatched"
       => /\ IsMotionApproved(Cardinality(standing[outcome'.motion]))
          /\ standing'[outcome'.motion] = {}]_vars

(* While a motion is stored its end never moves away, and from its end on  *)
(* motion_approve and motion_revoke leave its approvals alone: only        *)
(* motion_close can still touch it.                                        *)
EndedMotionsFrozen ==
  [][\A c \in Calls :
       Stored(c) /\ motions'[c] # NoMotion =>
         /\ motions'[c].remaining <= motions[c].remaining
         /\ HasEnded(motions[c]) => motions'[c].approvals = motions[c].approvals]_vars

(* No sequence of approvals and revocations keeps a motion open for ever:  *)
(* each motion whose call does not fail is resolved.                       *)
MotionsResolve ==
  \A c \in Calls \ Fragile : Stored(c) ~> ~Stored(c)

(* What the comment in motion_close says ("Event and removal live outside  *)
(* the dispatch layer so they persist regardless of the dispatch           *)
(* outcome"): a motion whose call was dispatched is gone, even if the call *)
(* failed.                                                                 *)
RemovedWhateverTheOutcome ==
  outcome.op = "motion_close" /\ outcome.result \in {"Dispatched", "DispatchError"}
    => ~Stored(outcome.motion)
=============================================================================
