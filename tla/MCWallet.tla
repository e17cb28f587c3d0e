------------------------------- MODULE MCWallet -------------------------------
(***************************************************************************)
(* Small instances of Wallet.  Rows, bookings and handler slots are        *)
(* interchangeable.                                                        *)
(***************************************************************************)
EXTENDS Wallet, TLC

Symmetry == Permutations(Row) \union Permutations(Booking) \union Permutations(Request)
=============================================================================
