------------------------ MODULE MCFederatedAuthority ------------------------
(***************************************************************************)
(* Three bodies compete for the two places of a motion's approvals, and    *)
(* all of MaxBodies have to agree, as in the runtime; of the two calls one *)
(* may fail when it is dispatched.                                         *)
(***************************************************************************)
EXTENDS FederatedAuthority
=============================================================================
