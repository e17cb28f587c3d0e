------------------------- MODULE MCBookingLifecycle -------------------------
(***************************************************************************)
(* Small instances of BookingLifecycle.  Bookings, workers, offers and     *)
(* handler slots are interchangeable, so they are symmetric; the calls the *)
(* environment makes are listed per run, to keep each question affordable. *)
(***************************************************************************)
EXTENDS BookingLifecycle, TLC

Symmetry ==
  Permutations(Booking) \union Permutations(Worker)
    \union Permutations(Offer) \union Permutations(Request)
=============================================================================
