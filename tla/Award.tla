-------------------------------- MODULE Award --------------------------------
(***************************************************************************)
(* What the booking lifecycle promises about the job itself, with all of   *)
(* its statuses, offers, locks and handlers left out: a booking is awarded *)
(* to one worker, then billed once, then paid once.  Only a contested      *)
(* award may change hands, and then at any time.                           *)
(***************************************************************************)
EXTENDS Naturals

CONSTANTS Booking, Worker, Null

VARIABLES
  holder,  \* the worker each booking is awarded to, or Null
  billed,  \* the bookings that were billed
  paid,    \* how often each booking was paid out
  contested \* the bookings whose award was overridden or is in doubt

vars == <<holder, billed, paid, contested>>

Init ==
  /\ holder = [b \in Booking |-> Null]
  /\ billed = {}
  /\ paid = [b \in Booking |-> 0]
  /\ contested = {}

GiveTo(b, w) ==
  /\ holder[b] = Null
  /\ holder' = [holder EXCEPT ![b] = w]
  /\ UNCHANGED <<billed, paid, contested>>

Contest(b) ==
  /\ contested' = contested \union {b}
  /\ UNCHANGED <<holder, billed, paid>>

\* The award is contested before, or with, the hand-over.
HandOver(b, w) ==
  /\ contested' = contested \union {b}
  /\ holder' = [holder EXCEPT ![b] = w]
  /\ UNCHANGED <<billed, paid>>

Bill(b) ==
  /\ holder[b] # Null
  /\ b \notin billed
  /\ billed' = billed \union {b}
  /\ UNCHANGED <<holder, paid, contested>>

Pay(b) ==
  /\ b \in billed
  /\ paid[b] = 0
  /\ paid' = [paid EXCEPT ![b] = 1]
  /\ UNCHANGED <<holder, billed, contested>>

Next ==
  \E b \in Booking :
    \/ Bill(b)
    \/ Pay(b)
    \/ Contest(b)
    \/ \E w \in Worker : GiveTo(b, w) \/ HandOver(b, w)

Spec == Init /\ [][Next]_vars
==============================================================================
