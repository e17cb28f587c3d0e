------------------------------- MODULE MCLive -------------------------------
(***************************************************************************)
(* A small instance of Live: two bookings and two GETs.  What the page     *)
(* comes to show at last is checked too, so there is no symmetry.          *)
(***************************************************************************)
EXTENDS Live
=============================================================================
