----------------------------- MODULE MCThrottle -----------------------------
(***************************************************************************)
(* Two interchangeable accounts, windows of three blocks and enough blocks *)
(* for three windows.  A window has room for one or two transactions; the  *)
(* longest one would make the sum saturate.                                *)
(***************************************************************************)
EXTENDS Throttle, TLC

Symmetry == Permutations(Accounts)
=============================================================================
