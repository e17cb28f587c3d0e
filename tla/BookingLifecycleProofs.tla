----------------------- MODULE BookingLifecycleProofs -----------------------
(***************************************************************************)
(* Theorems about BookingLifecycle, for every set of bookings, workers,    *)
(* offers and handler slots.                                               *)
(***************************************************************************)
EXTENDS BookingLifecycle, TLAPS

\* What the fields of a handler in flight hold, given its operation.
HandlerOK(q) ==
  /\ q.op \in Calls
  /\ q.op \in Transitions =>
       q.booking \in Booking /\ q.at \in {"entered", "closing", "checked"}
  /\ q.op = "transition" =>
       q.to \in {"DISPATCHING_TOP3", "DISPATCHING_POOL", "CANCELLED",
                 "CONFIRMED", "IN_PROGRESS"}
  /\ q.op \in {"transition", "accept"} => q.seen = Null
  /\ q.at = "closing" => q.op = "transition"
  /\ q.op = "cancel" => q.to = "CANCELLED"
  /\ q.op = "complete" => q.to = "COMPLETED"
  /\ q.op = "review" => q.to = "SETTLED"
  /\ q.op = "forceAssign" => q.booking \in Booking /\ q.worker \in Worker
  /\ q.op = "availability" => q.worker \in Worker /\ q.to \in {"AVAILABLE", "OFF_DUTY"}
  /\ q.op \in {"accept", "decline", "timeout"} =>
       /\ q.offer \in Offer
       /\ q.booking \in Booking
       /\ q.worker \in Worker
       /\ offers[q.offer] \in OfferRow
       /\ offers[q.offer].booking = q.booking

TypeInv ==
  /\ TypeOK
  /\ \A r \in Request : request[r] # Idle => HandlerOK(request[r])

-----------------------------------------------------------------------------
LEMMA InitTypeInv == Init => TypeInv
BY NullAssumption DEF Init, TypeInv, TypeOK, Status, Availability, Idle

\* Handler slot r, free until now, is taken by the handler h: what every
\* beginning handler has in common.
Starts(r, h) ==
  /\ request[r] = Idle
  /\ request' = [request EXCEPT ![r] = h]
  /\ h \in Handler
  /\ HandlerOK(h)
  /\ h.at \in {"entered", "closing", "checked"}
  /\ h.at = "checked" => h.op \in {"forceAssign", "availability"}
  /\ h.op = "review" => h.booking \in invoiced
  /\ dispatched' \in [Booking -> {"no", "called", "top3", "pool"}]
  /\ UNCHANGED <<bookingVars, workerVars, offers, lock, history>>

BeginStep(r) ==
  \/ \E b \in Booking : BeginOnBooking(r, b)
  \/ \E l \in Offer, op \in Ops : BeginOnOffer(r, l, op)
  \/ \E w \in Worker, to \in Availability : BeginAvailability(r, w, to)

LEMMA BeginStarts ==
  ASSUME TypeInv, NEW r \in Request, BeginStep(r)
  PROVE  \E h \in Handler : Starts(r, h)
<1> USE NullAssumption
    DEF Starts, TypeInv, TypeOK, Handler, HandlerOK, Idle, Ops, Transitions, OfferRow, NoRow,
        OfferKind, Outcome, Availability, Status
<1>1. ASSUME NEW b \in Booking, EnqueueDispatch(r, b)
      PROVE  \E h \in Handler : Starts(r, h)
  <2> DEFINE h == Transition(b, "DISPATCHING_TOP3")
  <2>1. h \in Handler
    BY <1>1 DEF EnqueueDispatch, Enter, Transition
  <2>2. Starts(r, h)
    BY <1>1 DEF EnqueueDispatch, Enter, Transition
  <2> HIDE DEF h, Starts, Handler, HandlerOK
  <2> QED BY <2>1, <2>2
<1>2. ASSUME NEW b \in Booking, OpenPool(r, b)
      PROVE  \E h \in Handler : Starts(r, h)
  <2> DEFINE h == Transition(b, "DISPATCHING_POOL")
  <2>1. h \in Handler
    BY <1>2 DEF OpenPool, Enter, Transition
  <2>2. Starts(r, h)
    BY <1>2 DEF OpenPool, Enter, Transition
  <2> HIDE DEF h, Starts, Handler, HandlerOK
  <2> QED BY <2>1, <2>2
<1>3. ASSUME NEW b \in Booking, ExhaustPool(r, b)
      PROVE  \E h \in Handler : Starts(r, h)
  <2> DEFINE h == [Transition(b, "CANCELLED") EXCEPT !.at = "closing"]
  <2>1. h \in Handler
    BY <1>3 DEF ExhaustPool, Enter, Transition
  <2>2. Starts(r, h)
    BY <1>3, ZenonT(30) DEF ExhaustPool, Enter, Transition
  <2> HIDE DEF h, Starts, Handler, HandlerOK
  <2> QED BY <2>1, <2>2
<1>4. ASSUME NEW b \in Booking, AutoConfirm(r, b)
      PROVE  \E h \in Handler : Starts(r, h)
  <2> DEFINE h == Transition(b, "CONFIRMED")
  <2>1. h \in Handler
    BY <1>4 DEF AutoConfirm, Enter, Transition
  <2>2. Starts(r, h)
    BY <1>4 DEF AutoConfirm, Enter, Transition
  <2> HIDE DEF h, Starts, Handler, HandlerOK
  <2> QED BY <2>1, <2>2
<1>5. ASSUME NEW b \in Booking, StartBooking(r, b)
      PROVE  \E h \in Handler : Starts(r, h)
  <2> DEFINE h == Transition(b, "IN_PROGRESS")
  <2>1. h \in Handler
    BY <1>5 DEF StartBooking, Enter, Transition
  <2>2. Starts(r, h)
    BY <1>5 DEF StartBooking, Enter, Transition
  <2> HIDE DEF h, Starts, Handler, HandlerOK
  <2> QED BY <2>1, <2>2
<1>6. ASSUME NEW b \in Booking, BeginCancel(r, b)
      PROVE  \E h \in Handler : Starts(r, h)
  <2> DEFINE h == [Idle EXCEPT !.op = "cancel", !.at = "entered", !.booking = b,
                            !.to = "CANCELLED", !.seen = assigned[b]]
  <2>1. h \in Handler
    BY <1>6 DEF BeginCancel, Enter
  <2>2. Starts(r, h)
    BY <1>6, ZenonT(30) DEF BeginCancel, Enter
  <2> HIDE DEF h, Starts, Handler, HandlerOK
  <2> QED BY <2>1, <2>2
<1>7. ASSUME NEW b \in Booking, BeginComplete(r, b)
      PROVE  \E h \in Handler : Starts(r, h)
  <2> DEFINE h == [Idle EXCEPT !.op = "complete", !.at = "entered", !.booking = b,
                            !.to = "COMPLETED", !.seen = assigned[b]]
  <2>1. h \in Handler
    BY <1>7 DEF BeginComplete, Enter
  <2>2. Starts(r, h)
    BY <1>7, ZenonT(30) DEF BeginComplete, Enter
  <2> HIDE DEF h, Starts, Handler, HandlerOK
  <2> QED BY <2>1, <2>2
<1>8. ASSUME NEW b \in Booking, BeginReview(r, b)
      PROVE  \E h \in Handler : Starts(r, h)
  <2> DEFINE h == [Idle EXCEPT !.op = "review", !.at = "entered", !.booking = b,
                            !.to = "SETTLED", !.seen = assigned[b]]
  <2>1. h \in Handler
    BY <1>8 DEF BeginReview, Enter
  <2>2. Starts(r, h)
    BY <1>8 DEF BeginReview, Enter
  <2> HIDE DEF h, Starts, Handler, HandlerOK
  <2> QED BY <2>1, <2>2
<1>9. ASSUME NEW b \in Booking, NEW w \in Worker, BeginForceAssign(r, b, w)
      PROVE  \E h \in Handler : Starts(r, h)
  <2> DEFINE h == [Idle EXCEPT !.op = "forceAssign", !.at = "checked",
                            !.booking = b, !.worker = w, !.seen = assigned[b]]
  <2>1. h \in Handler
    BY <1>9 DEF BeginForceAssign, Enter
  <2>2. Starts(r, h)
    BY <1>9, ZenonT(30) DEF BeginForceAssign, Enter
  <2> HIDE DEF h, Starts, Handler, HandlerOK
  <2> QED BY <2>1, <2>2
<1>10. ASSUME NEW l \in Offer, NEW op \in Ops, BeginOnOffer(r, l, op)
      PROVE  \E h \in Handler : Starts(r, h)
  <2> DEFINE h == [Idle EXCEPT !.op = op, !.at = "entered", !.offer = l,
                            !.booking = offers[l].booking,
                            !.worker = offers[l].worker]
  <2>1. offers[l] \in OfferRow /\ h.op \in Calls
    BY <1>10 DEF BeginOnOffer, Enter
  <2>2. h \in Handler /\ HandlerOK(h)
    BY <1>10, <2>1, ZenonT(30) DEF BeginOnOffer
  <2>3. Starts(r, h)
    BY <1>10, <2>2 DEF BeginOnOffer, Enter
  <2> HIDE DEF h, Starts, Handler, HandlerOK
  <2> QED BY <2>2, <2>3
<1>11. ASSUME NEW w \in Worker, NEW to \in Availability, BeginAvailability(r, w, to)
      PROVE  \E h \in Handler : Starts(r, h)
  <2> DEFINE h == [Idle EXCEPT !.op = "availability", !.at = "checked",
                            !.worker = w, !.to = to]
  <2>1. h \in Handler
    BY <1>11 DEF BeginAvailability, Enter
  <2>2. Starts(r, h)
    BY <1>11, ZenonT(30) DEF BeginAvailability, Enter
  <2> HIDE DEF h, Starts, Handler, HandlerOK
  <2> QED BY <2>1, <2>2
<1> HIDE DEF Starts, Ops, Availability
<1> QED
  BY <1>1, <1>2, <1>3, <1>4, <1>5, <1>6, <1>7, <1>8, <1>9, <1>10, <1>11
  DEF BeginStep, BeginOnBooking

LEMMA StartsTypeInv ==
  ASSUME TypeInv, NEW r \in Request, NEW h \in Handler, Starts(r, h)
  PROVE  TypeInv'
<1>1. TypeOK'
  BY DEF Starts, TypeInv, TypeOK, bookingVars, workerVars, history
<1>2. ASSUME NEW s \in Request
      PROVE  (request[s] # Idle => HandlerOK(request[s]))'
  <2>1. request'[s] = h \/ request'[s] = request[s]
    BY DEF Starts, TypeInv, TypeOK
  <2> QED BY <2>1 DEF Starts, TypeInv, HandlerOK, Idle
<1> QED BY <1>1, <1>2 DEF TypeInv

LEMMA NextTypeInv == TypeInv /\ [Next]_vars => TypeInv'
<1> SUFFICES ASSUME TypeInv, [Next]_vars
             PROVE  TypeInv'
  OBVIOUS
<1>1. ASSUME NEW r \in Request, BeginStep(r)
      PROVE  TypeInv'
  BY <1>1, BeginStarts, StartsTypeInv
<1> USE NullAssumption
    DEF TypeInv, TypeOK, Handler, HandlerOK, Idle, Ops, Transitions, OfferRow, NoRow,
        OfferKind, Outcome, Availability, Status, bookingVars, workerVars, history,
        Misread, NoteMisread
<1>2. ASSUME NEW r \in Request,
             ClosePoolOffers(r)
      PROVE  TypeInv'
  <2>1. TypeOK'
    BY <1>2, SMTT(30) DEF ClosePoolOffers, Proceed
  <2>2. ASSUME NEW s \in Request
        PROVE  (request[s] # Idle => HandlerOK(request[s]))'
    BY <1>2, SMTT(60) DEF ClosePoolOffers, Proceed
  <2> QED BY <2>1, <2>2
<1>3. ASSUME NEW r \in Request,
             ReadStatus(r)
      PROVE  TypeInv'
  BY <1>3 DEF ReadStatus, Proceed, Leave
<1>4. ASSUME NEW r \in Request,
             CommitTransition(r)
      PROVE  TypeInv'
  BY <1>4 DEF CommitTransition, WriteStatus, Leave
<1>5. ASSUME NEW r \in Request,
             Decline(r)
      PROVE  TypeInv'
  BY <1>5 DEF Decline, SetOutcome, Leave
<1>6. ASSUME NEW r \in Request,
             SweepOffer(r)
      PROVE  TypeInv'
  BY <1>6 DEF SweepOffer, SetOutcome, Leave
<1>7. ASSUME NEW r \in Request,
             AcquireBookingLock(r)
      PROVE  TypeInv'
  BY <1>7, SMTT(30) DEF AcquireBookingLock, Proceed
<1>8. ASSUME NEW r \in Request,
             LoseLock(r)
      PROVE  TypeInv'
  BY <1>8 DEF LoseLock, SetOutcome, Leave
<1>9. ASSUME NEW r \in Request,
             ReadAssignment(r)
      PROVE  TypeInv'
  BY <1>9, SMTT(30) DEF ReadAssignment, Proceed, Leave
<1>10. ASSUME NEW r \in Request,
             CommitAccept(r)
      PROVE  TypeInv'
  BY <1>10 DEF CommitAccept, SetOutcome, AssignBooking, Leave
<1>11. ASSUME NEW r \in Request,
             CommitCancel(r)
      PROVE  TypeInv'
  BY <1>11 DEF CommitCancel, WriteStatus, ReleaseSeen, Release, Leave
<1>12. ASSUME NEW r \in Request,
             CommitComplete(r)
      PROVE  TypeInv'
  BY <1>12 DEF CommitComplete, WriteStatus, ReleaseSeen, Release, Leave
<1>13. ASSUME NEW r \in Request,
             CommitReview(r)
      PROVE  TypeInv'
  BY <1>13 DEF CommitReview, WriteStatus, Leave
<1>14. ASSUME NEW r \in Request,
             CommitAvailability(r)
      PROVE  TypeInv'
  BY <1>14 DEF CommitAvailability, Leave
<1>15. ASSUME NEW r \in Request,
             Abort(r)
      PROVE  TypeInv'
  BY <1>15 DEF Abort, Leave
<1>16. ASSUME NEW r \in Request, NEW l \in Offer,
             CommitForceAssign(r, l)
      PROVE  TypeInv'
  <2>1. TypeOK'
    BY <1>16 DEF CommitForceAssign, AssignBooking, Leave
  <2>2. ASSUME NEW s \in Request
        PROVE  (request[s] # Idle => HandlerOK(request[s]))'
    BY <1>16 DEF CommitForceAssign, AssignBooking, Leave
  <2> QED BY <2>1, <2>2
<1>17. ASSUME NEW l \in Offer, NEW b \in Booking, NEW w \in Worker, NEW kind \in OfferKind,
             PublishOffer(l, b, w, kind)
      PROVE  TypeInv'
  <2>1. TypeOK'
    BY <1>17 DEF PublishOffer
  <2>2. ASSUME NEW s \in Request
        PROVE  (request[s] # Idle => HandlerOK(request[s]))'
    BY <1>17 DEF PublishOffer
  <2> QED BY <2>1, <2>2
<1>18. ASSUME NEW l \in Offer,
             TimeoutOffer(l)
      PROVE  TypeInv'
  <2>1. TypeOK'
    BY <1>18 DEF TimeoutOffer, SetOutcome
  <2>2. ASSUME NEW s \in Request
        PROVE  (request[s] # Idle => HandlerOK(request[s]))'
    BY <1>18 DEF TimeoutOffer, SetOutcome
  <2> QED BY <2>1, <2>2
<1>19. ASSUME NEW b \in Booking,
             ExpireLock(b)
      PROVE  TypeInv'
  BY <1>19 DEF ExpireLock
<1>20. ASSUME NEW w \in Worker,
             SuspendWorker(w)
      PROVE  TypeInv'
  BY <1>20 DEF SuspendWorker
<1>21. ASSUME NEW w \in Worker,
             ReactivateWorker(w)
      PROVE  TypeInv'
  BY <1>21 DEF ReactivateWorker
<1>22. CASE UNCHANGED vars
  BY <1>22 DEF vars
<1> HIDE DEF TypeInv, Ops, OfferKind, Availability
<1> QED
  BY <1>1, <1>2, <1>3, <1>4, <1>5, <1>6, <1>7, <1>8, <1>9, <1>10, <1>11, <1>12,
     <1>13, <1>14, <1>15, <1>16, <1>17, <1>18, <1>19, <1>20, <1>21, <1>22
  DEF Next, BeginStep, Continue

\* Theorem.  The columns of the booking, worker and dispatch-log rows, the lock
\* and the handlers in flight keep their types.
THEOREM TypeCorrect == Spec => []TypeOK
<1>1. TypeInv => TypeOK
  BY DEF TypeInv
<1> QED BY <1>1, InitTypeInv, NextTypeInv, PTL DEF Spec

-----------------------------------------------------------------------------
(* A transaction about to write one of the statuses that need a worker     *)
(* belongs to a booking that has one: assignedWorkerId is never cleared.   *)

WriterHasWorker ==
  \A r \in Request :
    request[r].op \in Transitions /\ request[r].at = "checked"
      /\ request[r].to \in Held
    => assigned[request[r].booking] # Null

AssignInv == AssignedHasWorker /\ WriterHasWorker

LEMMA InitAssignInv == Init => AssignInv
BY DEF Init, AssignInv, AssignedHasWorker, WriterHasWorker, Held, Idle, Transitions

LEMMA NextAssignInv == TypeInv /\ AssignInv /\ [Next]_vars => AssignInv'
<1> SUFFICES ASSUME TypeInv, AssignInv, [Next]_vars
             PROVE  AssignInv'
  OBVIOUS
<1> USE NullAssumption
    DEF TypeInv, TypeOK, HandlerOK, Idle, Handler, Transitions, Held, AssignInv,
        AssignedHasWorker, WriterHasWorker, bookingVars, workerVars
<1>1. ASSUME NEW r \in Request, BeginStep(r)
      PROVE  AssignInv'
  <2>1. PICK h \in Handler : Starts(r, h)
    BY <1>1, BeginStarts
  <2> QED BY <2>1 DEF Starts
<1>2. ASSUME NEW r \in Request, ReadStatus(r)
      PROVE  AssignInv'
  BY <1>2 DEF ReadStatus, Proceed, Leave, Legal, LEGAL_TRANSITIONS
<1>3. ASSUME NEW r \in Request,
             ClosePoolOffers(r) \/ AcquireBookingLock(r) \/ ReadAssignment(r)
      PROVE  AssignInv'
  BY <1>3 DEF ClosePoolOffers, AcquireBookingLock, ReadAssignment, Proceed, Leave
<1>4. ASSUME NEW r \in Request,
             Decline(r) \/ SweepOffer(r) \/ LoseLock(r) \/ CommitAvailability(r) \/ Abort(r)
      PROVE  AssignInv'
  BY <1>4 DEF Decline, SweepOffer, LoseLock, CommitAvailability, Abort, Leave
<1>5. ASSUME NEW r \in Request,
             \/ CommitTransition(r) \/ CommitCancel(r)
             \/ CommitComplete(r) \/ CommitReview(r)
      PROVE  AssignInv'
  BY <1>5 DEF CommitTransition, CommitCancel, CommitComplete, CommitReview,
     WriteStatus, Leave
<1>6. ASSUME NEW r \in Request,
             CommitAccept(r) \/ \E l \in Offer : CommitForceAssign(r, l)
      PROVE  AssignInv'
  BY <1>6 DEF CommitAccept, CommitForceAssign, AssignBooking, Leave
<1>7. ASSUME UNCHANGED <<bookingVars, request>>
      PROVE  AssignInv'
  BY <1>7
<1> HIDE DEF AssignInv
<1> QED
  BY <1>1, <1>2, <1>3, <1>4, <1>5, <1>6, <1>7
  DEF Next, BeginStep, Continue, PublishOffer, TimeoutOffer, ExpireLock, SuspendWorker,
      ReactivateWorker, vars

\* Theorem.  A booking that is ASSIGNED or past it has a worker.
THEOREM AssignedHasWorkerAlways == Spec => []AssignedHasWorker
<1>1. TypeInv /\ AssignInv => AssignedHasWorker
  BY DEF AssignInv
<1> QED
  BY <1>1, InitTypeInv, NextTypeInv, InitAssignInv, NextAssignInv, PTL DEF Spec
-----------------------------------------------------------------------------
(***************************************************************************)
(* What the lifecycle promises about a job: who gets it, that it is        *)
(* accepted, billed and paid once, and that it implements Award.  These    *)
(* rest on the invariants TypeInv and AssignInv.                           *)
(***************************************************************************)

(***************************************************************************)
(* Billing and payment.  The unique rows count the payouts; a review in    *)
(* flight was let in by an invoice, and invoices are never removed.        *)
(***************************************************************************)

PayInv ==
  /\ CompletedIsInvoiced
  /\ \A b \in Booking : payouts[b] = IF b \in reviewed THEN 1 ELSE 0
  /\ \A b \in Booking : status[b] = "SETTLED" => b \in reviewed
  /\ \A r \in Request : request[r].op = "review" => request[r].booking \in invoiced

LEMMA InitPayInv == Init => PayInv
BY DEF Init, PayInv, CompletedIsInvoiced, Idle

LEMMA NextPayInv == TypeInv /\ PayInv /\ [Next]_vars => PayInv'
<1> SUFFICES ASSUME TypeInv, PayInv, [Next]_vars
             PROVE  PayInv'
  OBVIOUS
<1> USE DEF TypeInv, TypeOK, HandlerOK, Idle, Handler, Transitions, PayInv,
            CompletedIsInvoiced, bookingVars, workerVars
<1>1. ASSUME NEW r \in Request, BeginStep(r)
      PROVE  PayInv'
  <2>1. PICK h \in Handler : Starts(r, h)
    BY <1>1, BeginStarts
  <2> QED BY <2>1 DEF Starts
<1>2. ASSUME NEW r \in Request,
             \/ ClosePoolOffers(r) \/ ReadStatus(r)
             \/ AcquireBookingLock(r) \/ ReadAssignment(r)
      PROVE  PayInv'
  BY <1>2 DEF ClosePoolOffers, ReadStatus, AcquireBookingLock, ReadAssignment,
     Proceed, Leave
<1>3. ASSUME NEW r \in Request,
             Decline(r) \/ SweepOffer(r) \/ LoseLock(r) \/ CommitAvailability(r) \/ Abort(r)
      PROVE  PayInv'
  BY <1>3 DEF Decline, SweepOffer, LoseLock, CommitAvailability, Abort, Leave
<1>4. ASSUME NEW r \in Request, CommitTransition(r) \/ CommitCancel(r)
      PROVE  PayInv'
  BY <1>4 DEF CommitTransition, CommitCancel, WriteStatus, Leave
<1>5. ASSUME NEW r \in Request, CommitComplete(r)
      PROVE  PayInv'
  BY <1>5 DEF CommitComplete, FirstRow, WriteStatus, Leave
<1>6. ASSUME NEW r \in Request, CommitReview(r)
      PROVE  PayInv'
  BY <1>6 DEF CommitReview, FirstRow, WriteStatus, Leave
<1>7. ASSUME NEW r \in Request,
             CommitAccept(r) \/ \E l \in Offer : CommitForceAssign(r, l)
      PROVE  PayInv'
  BY <1>7 DEF CommitAccept, CommitForceAssign, AssignBooking, Leave
<1>8. ASSUME UNCHANGED <<bookingVars, request>>
      PROVE  PayInv'
  BY <1>8
<1> HIDE DEF PayInv
<1> QED
  BY <1>1, <1>2, <1>3, <1>4, <1>5, <1>6, <1>7, <1>8
  DEF Next, BeginStep, Continue, PublishOffer, TimeoutOffer, ExpireLock, SuspendWorker,
      ReactivateWorker, vars

\* Theorem.  A booking is paid out at most once, and a settled one was paid,
\* whatever reviews race and whatever overrides reopen it.
THEOREM PaidOnceAlways == Spec => []PaidOnce
<1>1. TypeInv /\ PayInv => PaidOnce
  BY DEF TypeInv, TypeOK, PayInv, PaidOnce
<1> QED
  BY <1>1, InitTypeInv, NextTypeInv, InitPayInv, NextPayInv, PTL DEF Spec

\* Theorem.  A completed or settled booking has its invoice.
THEOREM CompletedIsInvoicedAlways == Spec => []CompletedIsInvoiced
<1>1. PayInv => CompletedIsInvoiced
  BY DEF PayInv
<1> QED
  BY <1>1, InitTypeInv, NextTypeInv, InitPayInv, NextPayInv, PTL DEF Spec

-----------------------------------------------------------------------------
(***************************************************************************)
(* Acceptance.  As long as no accept of a booking has outlived the         *)
(* booking's lock, at most one is past the lock, and one that has made its *)
(* re-check is still right about it: no worker accepted meanwhile, and     *)
(* nobody was assigned but by an override.                                 *)
(***************************************************************************)

AcceptedBy(l, b) ==
  offers[l].booking = b /\ offers[l].outcome = "ACCEPTED"
    /\ offers[l].kind # "ADMIN_OVERRIDE"

AcceptInv ==
  /\ \A r \in Request :
       Accepting(r) => lock[request[r].booking] # Null \/ request[r].booking \in outlived
  /\ \A r, s \in Request :
       Accepting(r) /\ Accepting(s) /\ request[r].booking = request[s].booking
         => r = s \/ request[r].booking \in outlived
  /\ \A r \in Request, l \in Offer :
       Accepting(r) /\ request[r].at = "checked"
         => ~AcceptedBy(l, request[r].booking) \/ request[r].booking \in outlived
  /\ \A r \in Request :
       Accepting(r) /\ request[r].at = "checked"
         => \/ assigned[request[r].booking] = Null
            \/ request[r].booking \in outlived \union Overridden
  /\ \A l \in Offer, b \in Booking : AcceptedBy(l, b) => assigned[b] # Null
  /\ \A k, l \in Offer, b \in Booking :
       AcceptedBy(k, b) /\ AcceptedBy(l, b) => k = l \/ b \in outlived

\* Only an override adds to the overridden bookings, and nothing removes any.
LEMMA OverriddenSame ==
  ASSUME TypeInv, [Next]_vars,
         \A r \in Request, l \in Offer : ~CommitForceAssign(r, l)
  PROVE  Overridden' = Overridden
<1> USE NullAssumption DEF TypeInv, TypeOK, HandlerOK, OfferRow, NoRow
<1>1. ASSUME \A l \in Offer : offers'[l].booking = offers[l].booking
                             /\ offers'[l].kind = offers[l].kind
      PROVE  Overridden' = Overridden
  BY <1>1 DEF Overridden
<1>2. CASE UNCHANGED offers
  BY <1>2 DEF Overridden
<1>3. ASSUME NEW r \in Request, BeginStep(r)
      PROVE  UNCHANGED offers
  <2>1. PICK h \in Handler : Starts(r, h)
    BY <1>3, BeginStarts
  <2> QED BY <2>1 DEF Starts
<1>4. ASSUME NEW r \in Request, ClosePoolOffers(r)
      PROVE  Overridden' = Overridden
  BY <1>1, <1>4 DEF ClosePoolOffers
<1>5. ASSUME NEW r \in Request,
             Decline(r) \/ SweepOffer(r) \/ LoseLock(r) \/ CommitAccept(r)
      PROVE  Overridden' = Overridden
  BY <1>1, <1>5 DEF Decline, SweepOffer, LoseLock, CommitAccept, SetOutcome
<1>6. ASSUME NEW l \in Offer, TimeoutOffer(l)
      PROVE  Overridden' = Overridden
  BY <1>1, <1>6 DEF TimeoutOffer, SetOutcome
<1>7. ASSUME NEW l \in Offer, NEW b \in Booking, NEW w \in Worker, NEW kind \in OfferKind,
             PublishOffer(l, b, w, kind)
      PROVE  Overridden' = Overridden
  BY <1>7 DEF PublishOffer, Overridden
<1> HIDE DEF TypeInv, TypeOK, HandlerOK, OfferRow, NoRow
<1> QED
  BY <1>2, <1>3, <1>4, <1>5, <1>6, <1>7
  DEF Next, BeginStep, Continue, ReadStatus, CommitTransition, CommitCancel, CommitComplete,
      CommitReview, AcquireBookingLock, ReadAssignment, CommitAvailability, Abort,
      ExpireLock, SuspendWorker, ReactivateWorker, vars

LEMMA OverriddenGrows ==
  ASSUME TypeInv, NEW r \in Request, NEW l \in Offer, CommitForceAssign(r, l)
  PROVE  Overridden' = Overridden \union {request[r].booking}
<1> USE NullAssumption DEF TypeInv, TypeOK, HandlerOK, OfferRow, NoRow, Idle
<1>1. /\ request[r].booking \in Booking
      /\ offers'[l].booking = request[r].booking /\ offers'[l].kind = "ADMIN_OVERRIDE"
      /\ \A k \in Offer : k # l => offers'[k] = offers[k]
      /\ offers[l] = NoRow
  BY DEF CommitForceAssign
<1> QED BY <1>1 DEF Overridden

LEMMA InitAcceptInv == Init => AcceptInv
BY DEF Init, AcceptInv, Accepting, AcceptedBy, Idle, NoRow

\* Writing an outcome leaves the booking and the kind of every row alone.
LEMMA OutcomeOnly ==
  ASSUME TypeOK, NEW k \in Offer, NEW o \in Outcome, SetOutcome(k, o)
  PROVE  \A l \in Offer : /\ offers'[l].booking = offers[l].booking
                         /\ offers'[l].kind = offers[l].kind
                         /\ offers'[l].outcome = IF l = k THEN o ELSE offers[l].outcome
BY NullAssumption DEF SetOutcome, TypeOK, OfferRow, NoRow

LEMMA OtherAcceptInv ==
  ASSUME TypeInv, AcceptInv, Overridden' = Overridden, [Next]_vars,
         \A r \in Request, l \in Offer : ~CommitForceAssign(r, l)
  PROVE  AcceptInv'
<1> USE NullAssumption
    DEF TypeInv, TypeOK, HandlerOK, Idle, Handler, OfferRow, NoRow, AcceptInv,
        Accepting, AcceptedBy, bookingVars, workerVars, history
<1>1. ASSUME NEW r \in Request, BeginStep(r)
      PROVE  AcceptInv'
  <2>1. PICK h \in Handler : Starts(r, h)
    BY <1>1, BeginStarts
  <2> QED BY <2>1 DEF Starts
<1>2. ASSUME NEW r \in Request, ClosePoolOffers(r)
      PROVE  AcceptInv'
  BY <1>2 DEF ClosePoolOffers, Proceed
<1>3. ASSUME NEW r \in Request, ReadStatus(r)
      PROVE  AcceptInv'
  <2>1. \A s \in Request : Accepting(s)' => request'[s] = request[s]
    BY <1>3 DEF ReadStatus, Transitions, Proceed, Leave
  <2> QED BY <1>3, <2>1 DEF ReadStatus
<1>4. ASSUME NEW r \in Request, AcquireBookingLock(r)
      PROVE  AcceptInv'
  <2> DEFINE b == request[r].booking
  <2>1. CASE lock[b] = Null
    <3>1. \A s \in Request : Accepting(s) => request[s].booking # b \/ b \in outlived
      BY <2>1
    <3>2. \A s \in Request : s # r => request'[s] = request[s]
      BY <1>4 DEF AcquireBookingLock, LockFree, Proceed
    <3>3. request'[r].booking = b /\ request'[r].at = "locked" /\ b \in Booking
      BY <1>4, <2>1 DEF AcquireBookingLock, LockFree, Proceed
    <3>4. lock'[b] # Null /\ \A c \in Booking : lock[c] # Null => lock'[c] # Null
      BY <1>4, <2>1 DEF AcquireBookingLock, LockFree
    <3>5. UNCHANGED <<assigned, offers, outlived>>
      BY <1>4 DEF AcquireBookingLock
    <3> HIDE DEF b
    <3> QED BY <3>1, <3>2, <3>3, <3>4, <3>5
  <2>2. CASE lock[b] # Null
    <3>1. \A s \in Request : Accepting(s)' => request'[s] = request[s]
      BY <1>4, <2>2 DEF AcquireBookingLock, LockFree, Proceed
    <3> QED BY <1>4, <2>2, <3>1 DEF AcquireBookingLock, LockFree
  <2> QED BY <2>1, <2>2
<1>5. ASSUME NEW r \in Request, ReadAssignment(r)
      PROVE  AcceptInv'
  <2> DEFINE b == request[r].booking
  <2>1. CASE assigned[b] = Null
    <3>1. /\ Accepting(r) /\ b \in Booking
          /\ UNCHANGED <<assigned, offers, lock, outlived>>
      BY <1>5 DEF ReadAssignment
    <3>2. \A s \in Request : s # r => request'[s] = request[s]
      BY <1>5, <2>1 DEF ReadAssignment, Unassigned, Proceed
    <3>3. request'[r].booking = b
      BY <1>5, <2>1 DEF ReadAssignment, Unassigned, Proceed
    <3>4. \A s \in Request :
            Accepting(s)' => Accepting(s) /\ request'[s].booking = request[s].booking
      BY <3>1, <3>2, <3>3
    <3>5. \A l \in Offer : ~AcceptedBy(l, b)
      BY <2>1, <3>1
    <3>6. \A s \in Request, l \in Offer :
            (Accepting(s) /\ request[s].at = "checked")'
              => \/ ~AcceptedBy(l, request'[s].booking)
                 \/ request'[s].booking \in outlived
      BY <3>2, <3>3, <3>4, <3>5
    <3>7. \A s \in Request :
            (Accepting(s) /\ request[s].at = "checked")'
              => \/ assigned[request'[s].booking] = Null
                 \/ request'[s].booking \in outlived \union Overridden
      BY <2>1, <3>2, <3>3, <3>4
    <3> HIDE DEF b, TypeInv, TypeOK
    <3> QED BY <3>1, <3>4, <3>6, <3>7
  <2>2. CASE assigned[b] # Null
    <3>1. \A s \in Request : Accepting(s)' => request'[s] = request[s]
      BY <1>5, <2>2 DEF ReadAssignment, Unassigned, Leave
    <3> QED BY <1>5, <3>1 DEF ReadAssignment
  <2> QED BY <2>1, <2>2
<1>6. ASSUME NEW r \in Request, Decline(r) \/ SweepOffer(r) \/ LoseLock(r)
      PROVE  AcceptInv'
  <2>1. \A s \in Request : Accepting(s)' => request'[s] = request[s]
    BY <1>6 DEF Decline, SweepOffer, LoseLock, Leave
  <2>2. \A l \in Offer, b \in Booking : AcceptedBy(l, b)' => AcceptedBy(l, b)
    <3>1. request[r].offer \in Offer
      BY <1>6 DEF Decline, SweepOffer, LoseLock
    <3>2. \E o \in Outcome : o # "ACCEPTED" /\ SetOutcome(request[r].offer, o)
      BY <1>6 DEF Decline, SweepOffer, LoseLock, Outcome
    <3> QED BY <3>1, <3>2, OutcomeOnly
  <2>3. UNCHANGED <<assigned, lock, outlived>>
    BY <1>6 DEF Decline, SweepOffer, LoseLock
  <2> QED BY <2>1, <2>2, <2>3
<1>7. ASSUME NEW r \in Request,
             \/ CommitTransition(r) \/ CommitCancel(r) \/ CommitComplete(r)
             \/ CommitReview(r) \/ CommitAvailability(r) \/ Abort(r)
      PROVE  AcceptInv'
  <2>1. \A s \in Request : Accepting(s)' => request'[s] = request[s]
    BY <1>7, SMTT(30) DEF CommitTransition, CommitCancel, CommitComplete, CommitReview,
       CommitAvailability, Abort, Leave
  <2>2. UNCHANGED <<assigned, offers, lock, outlived>>
    BY <1>7 DEF CommitTransition, CommitCancel, CommitComplete, CommitReview,
       CommitAvailability, Abort
  <2> QED BY <2>1, <2>2
<1>8. ASSUME NEW r \in Request, CommitAccept(r)
      PROVE  AcceptInv'
  <2> DEFINE b == request[r].booking
  <2>1. Accepting(r) /\ request[r].at = "checked" /\ b \in Booking
    BY <1>8 DEF CommitAccept
  <2>2. \A s \in Request : Accepting(s)' => s # r /\ request'[s] = request[s]
    BY <1>8 DEF CommitAccept, Leave
  <2>3. /\ \A c \in Booking : assigned'[c] # Null <=> (c = b \/ assigned[c] # Null)
        /\ \A c \in Booking : c # b => assigned'[c] = assigned[c]
    BY <1>8 DEF CommitAccept, AssignBooking
  <2>4. \A l \in Offer, c \in Booking :
          AcceptedBy(l, c)' => AcceptedBy(l, c) \/ (l = request[r].offer /\ c = b)
    <3>1. /\ request[r].offer \in Offer
          /\ offers[request[r].offer].booking = b
          /\ SetOutcome(request[r].offer, "ACCEPTED")
          /\ "ACCEPTED" \in Outcome
      BY <1>8 DEF CommitAccept, Outcome
    <3>2. \A l \in Offer :
            /\ offers'[l].booking = offers[l].booking
            /\ offers'[l].kind = offers[l].kind
            /\ offers'[l].outcome =
                 IF l = request[r].offer THEN "ACCEPTED" ELSE offers[l].outcome
      BY <3>1, OutcomeOnly
    <3> HIDE DEF TypeInv, TypeOK, HandlerOK, AcceptInv, b
    <3> QED BY <3>1, <3>2
  <2>5. UNCHANGED <<lock, outlived>>
    BY <1>8 DEF CommitAccept
  <2>6. \A s \in Request : s # r /\ Accepting(s) /\ request[s].booking = b => b \in outlived
    BY <2>1
  <2>7. \A l \in Offer : AcceptedBy(l, b) => b \in outlived
    BY <2>1
  <2> HIDE DEF b, AcceptedBy
  <2> QED BY <2>1, <2>2, <2>3, <2>4, <2>5, <2>6, <2>7
<1>9. ASSUME NEW l \in Offer, NEW b \in Booking, NEW w \in Worker, NEW kind \in OfferKind,
              PublishOffer(l, b, w, kind)
       PROVE  AcceptInv'
  BY <1>9 DEF PublishOffer
<1>10. ASSUME NEW l \in Offer, TimeoutOffer(l)
       PROVE  AcceptInv'
  BY <1>10 DEF TimeoutOffer, SetOutcome
<1>11. ASSUME NEW b \in Booking, ExpireLock(b)
       PROVE  AcceptInv'
  <2>1. /\ UNCHANGED <<assigned, offers, request>>
        /\ \A c \in Booking : c # b => lock'[c] = lock[c]
        /\ outlived \subseteq outlived'
        /\ \A r \in Request : Accepting(r) /\ request[r].booking = b => b \in outlived'
    BY <1>11 DEF ExpireLock
  <2> QED BY <2>1
<1>12. ASSUME UNCHANGED <<assigned, offers, lock, request, outlived>>
       PROVE  AcceptInv'
  BY <1>12
<1> HIDE DEF AcceptInv
<1> QED
  BY <1>1, <1>2, <1>3, <1>4, <1>5, <1>6, <1>7, <1>8, <1>9, <1>10, <1>11, <1>12
  DEF Next, BeginStep, Continue, SuspendWorker, ReactivateWorker, vars

LEMMA NextAcceptInv == TypeInv /\ AcceptInv /\ [Next]_vars => AcceptInv'
<1> SUFFICES ASSUME TypeInv, AcceptInv, [Next]_vars
             PROVE  AcceptInv'
  OBVIOUS
<1>1. ASSUME NEW r \in Request, NEW l \in Offer, CommitForceAssign(r, l)
      PROVE  AcceptInv'
  <2> DEFINE b == request[r].booking
  <2> USE NullAssumption
      DEF TypeInv, TypeOK, HandlerOK, Idle, Handler, OfferRow, NoRow, AcceptInv,
          Accepting, AcceptedBy
  <2>1. Overridden' = Overridden \union {b}
    BY <1>1, OverriddenGrows
  <2>2. \A s \in Request : Accepting(s)' => request'[s] = request[s]
    BY <1>1 DEF CommitForceAssign, Leave
  <2>3. /\ b \in Booking
        /\ \A c \in Booking : c # b => assigned'[c] = assigned[c]
        /\ assigned'[b] # Null
    BY <1>1 DEF CommitForceAssign, AssignBooking
  <2>4. \A k \in Offer, c \in Booking : AcceptedBy(k, c)' => AcceptedBy(k, c)
    BY <1>1 DEF CommitForceAssign
  <2>5. UNCHANGED <<lock, outlived>>
    BY <1>1 DEF CommitForceAssign
  <2> HIDE DEF b, AcceptedBy
  <2> QED BY <2>1, <2>2, <2>3, <2>4, <2>5
<1>2. CASE \A r \in Request, l \in Offer : ~CommitForceAssign(r, l)
  BY <1>2, OverriddenSame, OtherAcceptInv
<1> QED BY <1>1, <1>2

\* Theorem.  At most one offer of a booking is ever accepted by a worker,
\* overrides or not, unless the booking's lock ran out under an accept.
THEOREM AcceptOnceAlways == Spec => []AcceptOnce
<1>1. TypeInv /\ AcceptInv => AcceptOnce
  BY NullAssumption
  DEF TypeInv, TypeOK, OfferRow, NoRow, AcceptInv, AcceptedBy, AcceptOnce
<1> QED
  BY <1>1, InitTypeInv, NextTypeInv, InitAcceptInv, NextAcceptInv, PTL DEF Spec

-----------------------------------------------------------------------------
(***************************************************************************)
(* The worker rows.                                                        *)
(***************************************************************************)

LEMMA NextOnJob == TypeInv /\ OnJobHasBooking /\ [Next]_vars => OnJobHasBooking'
<1> SUFFICES ASSUME TypeInv, OnJobHasBooking, [Next]_vars
             PROVE  OnJobHasBooking'
  OBVIOUS
<1> USE NullAssumption
    DEF TypeInv, TypeOK, HandlerOK, Idle, Handler, OnJobHasBooking, workerVars
<1>1. ASSUME NEW r \in Request, BeginStep(r)
      PROVE  OnJobHasBooking'
  <2>1. PICK h \in Handler : Starts(r, h)
    BY <1>1, BeginStarts
  <2> QED BY <2>1 DEF Starts
<1>2. ASSUME NEW r \in Request, CommitAccept(r) \/ \E l \in Offer : CommitForceAssign(r, l)
      PROVE  OnJobHasBooking'
  BY <1>2 DEF CommitAccept, CommitForceAssign
<1>3. ASSUME NEW r \in Request, CommitCancel(r) \/ CommitComplete(r)
      PROVE  OnJobHasBooking'
  BY <1>3 DEF CommitCancel, CommitComplete, ReleaseSeen, Release
<1>4. ASSUME NEW r \in Request, CommitAvailability(r)
      PROVE  OnJobHasBooking'
  BY <1>4 DEF CommitAvailability
<1>5. ASSUME NEW w \in Worker, SuspendWorker(w)
      PROVE  OnJobHasBooking'
  BY <1>5 DEF SuspendWorker
<1>6. ASSUME UNCHANGED <<availability, currentBooking>>
      PROVE  OnJobHasBooking'
  BY <1>6
<1> HIDE DEF OnJobHasBooking, TypeInv, TypeOK, HandlerOK, Handler, Idle
<1> QED
  BY <1>1, <1>2, <1>3, <1>4, <1>5, <1>6
  DEF Next, BeginStep, Continue, ClosePoolOffers, ReadStatus, CommitTransition,
      Decline, SweepOffer, AcquireBookingLock, LoseLock, ReadAssignment, CommitReview,
      Abort, PublishOffer, TimeoutOffer, ExpireLock, ReactivateWorker, vars

\* Theorem.  Accepts, overrides, cancellations, completions, suspensions and the
\* worker's own switch never leave a worker ON_JOB without a booking.
THEOREM OnJobHasBookingAlways == Spec => []OnJobHasBooking
<1>1. Init => OnJobHasBooking
  BY DEF Init, OnJobHasBooking
<1> QED
  BY <1>1, InitTypeInv, NextTypeInv, NextOnJob, PTL DEF Spec

LEMMA NextHolder == TypeInv /\ HolderServes /\ [Next]_vars => HolderServes'
<1> SUFFICES ASSUME TypeInv, HolderServes, [Next]_vars
             PROVE  HolderServes'
  OBVIOUS
<1> USE NullAssumption
    DEF TypeInv, TypeOK, HandlerOK, Idle, Handler, HolderServes, bookingVars, workerVars,
        history, Misread, NoteMisread, TERMINAL_STATUSES
<1>1. ASSUME NEW r \in Request, BeginStep(r)
      PROVE  HolderServes'
  <2>1. PICK h \in Handler : Starts(r, h)
    BY <1>1, BeginStarts
  <2> QED BY <2>1 DEF Starts
<1>2. ASSUME NEW r \in Request, CommitTransition(r)
      PROVE  HolderServes'
  BY <1>2 DEF CommitTransition, WriteStatus, Transitions
<1>3. ASSUME NEW r \in Request, CommitAccept(r)
      PROVE  HolderServes'
  BY <1>3 DEF CommitAccept, AssignBooking
<1>4. ASSUME NEW r \in Request, CommitCancel(r) \/ CommitComplete(r)
      PROVE  HolderServes'
  BY <1>4 DEF CommitCancel, CommitComplete, WriteStatus, ReleaseSeen, Release, Transitions
<1>5. ASSUME NEW r \in Request, CommitReview(r)
      PROVE  HolderServes'
  BY <1>5 DEF CommitReview, WriteStatus, Transitions
<1>6. ASSUME NEW r \in Request, NEW l \in Offer, CommitForceAssign(r, l)
      PROVE  HolderServes'
  BY <1>6 DEF CommitForceAssign, AssignBooking
<1>7. ASSUME UNCHANGED <<status, assigned, currentBooking, misread>>
      PROVE  HolderServes'
  BY <1>7
<1> HIDE DEF HolderServes, TypeInv, TypeOK, HandlerOK, Handler, Idle, Misread, NoteMisread
<1> QED
  BY <1>1, <1>2, <1>3, <1>4, <1>5, <1>6, <1>7
  DEF Next, BeginStep, Continue, ClosePoolOffers, ReadStatus,
      Decline, SweepOffer, AcquireBookingLock, LoseLock, ReadAssignment,
      CommitAvailability, Abort, PublishOffer, TimeoutOffer, ExpireLock, SuspendWorker,
      ReactivateWorker, vars

\* Theorem.  A worker's current booking is assigned to that worker and has not
\* ended, unless the booking's worker changed between the read and the write of
\* a handler.
THEOREM HolderServesAlways == Spec => []HolderServes
<1>1. Init => HolderServes
  BY NullAssumption DEF Init, HolderServes
<1> QED
  BY <1>1, InitTypeInv, NextTypeInv, NextHolder, PTL DEF Spec

-----------------------------------------------------------------------------
(***************************************************************************)
(* The lifecycle implements Award: an accept gives the booking to its      *)
(* worker, an override hands it over, a completion bills it, a review pays *)
(* it; every other step changes nothing that Award sees.                   *)
(***************************************************************************)

LEMMA InitContract == Init => Contract!Init
BY NullAssumption DEF Init, Contract!Init, Overridden, NoRow

LEMMA NextContract ==
  TypeInv /\ AssignInv /\ PayInv /\ AcceptInv /\ [Next]_vars
    => [Contract!Next]_(Contract!vars)
<1> SUFFICES ASSUME TypeInv, AssignInv, PayInv, AcceptInv, [Next]_vars
             PROVE  Contract!Next \/ UNCHANGED Contract!vars
  OBVIOUS
<1> USE DEF TypeInv, TypeOK, HandlerOK, Idle, Handler, bookingVars, workerVars, history,
            Contract!vars, Contract!Next, Contract!GiveTo, Contract!HandOver, Contract!Contest,
            Contract!Bill, Contract!Pay
<1>0. CASE \A r \in Request, l \in Offer : ~CommitForceAssign(r, l)
  <2>0. Overridden' = Overridden
    BY <1>0, OverriddenSame
  <2>1. ASSUME NEW r \in Request, BeginStep(r)
        PROVE  UNCHANGED Contract!vars
    <3>1. PICK h \in Handler : Starts(r, h)
      BY <2>1, BeginStarts
    <3> QED BY <2>0, <3>1 DEF Starts
  <2>2. ASSUME NEW r \in Request, CommitAccept(r)
        PROVE  Contract!Next
    <3> DEFINE b == request[r].booking
               w == request[r].worker
    <3>1. assigned[b] = Null \/ b \in outlived \union Overridden
      BY <2>2 DEF CommitAccept, AcceptInv, Accepting
    <3>2. b \in Booking /\ w \in Worker
      BY <2>2 DEF CommitAccept
    <3>3. Contract!GiveTo(b, w) \/ Contract!HandOver(b, w)
      BY <2>0, <2>2, <3>1 DEF CommitAccept, AssignBooking
    <3> QED BY <3>2, <3>3
  <2>3. ASSUME NEW r \in Request, CommitComplete(r)
        PROVE  Contract!Next
    <3> DEFINE b == request[r].booking
    <3>1. b \in Booking /\ assigned[b] # Null
      BY <2>3 DEF CommitComplete, AssignInv, WriterHasWorker, Transitions, Held
    <3>2. Contract!Bill(b)
      BY <2>0, <2>3, <3>1 DEF CommitComplete, FirstRow
    <3> QED BY <3>1, <3>2
  <2>4. ASSUME NEW r \in Request, CommitReview(r)
        PROVE  Contract!Next
    <3> DEFINE b == request[r].booking
    <3>1. b \in Booking /\ b \in invoiced /\ payouts[b] = 0
      BY <2>4 DEF CommitReview, FirstRow, PayInv, Transitions
    <3>2. Contract!Pay(b)
      BY <2>0, <2>4, <3>1 DEF CommitReview
    <3> QED BY <3>1, <3>2
  <2>5. ASSUME NEW b \in Booking, ExpireLock(b)
        PROVE  Contract!Next \/ UNCHANGED Contract!vars
    BY <2>0, <2>5 DEF ExpireLock
  <2>6. ASSUME UNCHANGED <<assigned, invoiced, payouts, outlived>>
        PROVE  UNCHANGED Contract!vars
    BY <2>0, <2>6
  <2> HIDE DEF TypeInv, TypeOK, HandlerOK, Handler, Idle, Contract!Next, Contract!vars
  <2> QED
    BY <1>0, <2>1, <2>2, <2>3, <2>4, <2>5, <2>6
    DEF Next, BeginStep, Continue, ClosePoolOffers, ReadStatus, CommitTransition, CommitCancel,
        Decline, SweepOffer, AcquireBookingLock, LoseLock, ReadAssignment,
        CommitAvailability, Abort, PublishOffer, TimeoutOffer, SuspendWorker,
        ReactivateWorker, vars
<1>1. ASSUME NEW r \in Request, NEW l \in Offer, CommitForceAssign(r, l)
      PROVE  Contract!Next
  <2> DEFINE b == request[r].booking
             w == request[r].worker
  <2>1. b \in Booking /\ w \in Worker
    BY <1>1 DEF CommitForceAssign
  <2>2. Overridden' = Overridden \union {b}
    BY <1>1, OverriddenGrows
  <2>3. Contract!HandOver(b, w)
    BY <1>1, <2>1, <2>2 DEF CommitForceAssign, AssignBooking
  <2> QED BY <2>1, <2>3
<1> QED BY <1>0, <1>1

\* Theorem.  The booking lifecycle implements the contract of Award: the worker
\* of a booking changes only by an override or after its lock ran out under an
\* accept, and billing and payment come once each, in that order.
THEOREM ImplementsAward == Spec => AwardContract
BY InitTypeInv, NextTypeInv, InitAssignInv, NextAssignInv, InitPayInv, NextPayInv,
   InitAcceptInv, NextAcceptInv, InitContract, NextContract, PTL
DEF Spec, AwardContract, Contract!Spec
=============================================================================
