---------------------------- MODULE BookingStatus ----------------------------
(***************************************************************************)
(* The booking statuses and the table of legal transitions of              *)
(* booking-state-machine.service.ts, with the status sets that single      *)
(* controllers test for.  Shared by every module that moves a booking.     *)
(***************************************************************************)

Status ==
  {"REQUESTED", "DISPATCHING_TOP3", "DISPATCHING_POOL", "ASSIGNED",
   "CONFIRMED", "IN_PROGRESS", "COMPLETED", "SETTLED", "CANCELLED"}

\* The edges of LEGAL_TRANSITIONS, as pairs.
LEGAL_TRANSITIONS ==
  {<<"REQUESTED", "DISPATCHING_TOP3">>,
   <<"REQUESTED", "CANCELLED">>,
   <<"DISPATCHING_TOP3", "ASSIGNED">>,
   <<"DISPATCHING_TOP3", "DISPATCHING_POOL">>,
   <<"DISPATCHING_TOP3", "CANCELLED">>,
   <<"DISPATCHING_POOL", "ASSIGNED">>,
   <<"DISPATCHING_POOL", "CANCELLED">>,
   <<"ASSIGNED", "CONFIRMED">>,
   <<"ASSIGNED", "CANCELLED">>,
   <<"CONFIRMED", "IN_PROGRESS">>,
   <<"CONFIRMED", "CANCELLED">>,
   <<"IN_PROGRESS", "COMPLETED">>,
   <<"COMPLETED", "SETTLED">>}

\* applyTransition's test: may a booking in status "from" be moved to "to"?
Legal(from, to) == <<from, to>> \in LEGAL_TRANSITIONS

\* CANCELLABLE_STATUSES of cancelBooking; adminCancelBooking declares the same.
CANCELLABLE_STATUSES ==
  {"REQUESTED", "DISPATCHING_TOP3", "DISPATCHING_POOL", "ASSIGNED", "CONFIRMED"}

\* TERMINAL_STATUSES of forceAssignBooking.
TERMINAL_STATUSES == {"COMPLETED", "SETTLED", "CANCELLED"}
==============================================================================
