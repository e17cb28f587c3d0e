---------------------------- MODULE MCIdempotency ----------------------------
(***************************************************************************)
(* Small instances of Idempotency.  One key is sent by three attempts, so  *)
(* that two may race for the row while a third finds it; the second key    *)
(* shows that keys do not disturb each other.                              *)
(***************************************************************************)
EXTENDS Idempotency, TLC
=============================================================================
