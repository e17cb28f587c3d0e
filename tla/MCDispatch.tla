----------------------------- MODULE MCDispatch -----------------------------
(***************************************************************************)
(* Small instances of Dispatch.  Workers are interchangeable; liveness is  *)
(* checked without that symmetry.                                          *)
(***************************************************************************)
EXTENDS Dispatch, TLC

Symmetry == Permutations(Worker)
=============================================================================
