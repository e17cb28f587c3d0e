---------------------------- MODULE MCWorkerPage ----------------------------
(***************************************************************************)
(* A small instance of WorkerPage: two offers, two notifications of which  *)
(* one fits in an answer, and two requests at a time.                      *)
(***************************************************************************)
EXTENDS WorkerPage, TLC

Symmetry == Permutations(Call) \union Permutations(Offer) \union Permutations(Note)
=============================================================================
