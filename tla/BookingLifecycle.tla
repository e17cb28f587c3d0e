--------------------------- MODULE BookingLifecycle ---------------------------
(***************************************************************************)
(* The booking rows, the worker rows and the dispatch-log rows of the      *)
(* database, the booking lock in Redis, and every request handler that     *)
(* moves a booking through its life, interleaved statement by statement.   *)
(*                                                                         *)
(* A handler in flight is a record of the value it works on and of the     *)
(* step it has reached:                                                    *)
(*                                                                         *)
(*   "entered"   the pre-read and the early returns are behind it          *)
(*   "closing"   (pool timeout) open pool offers still have to be closed   *)
(*   "locked"    (accept) it was given the booking lock                    *)
(*   "lost"      (accept) it was refused the lock                          *)
(*   "checked"   inside the transaction, the last read is behind it        *)
(*                                                                         *)
(* Transactions run at PostgreSQL's default READ COMMITTED: a read sees    *)
(* what is committed and takes no lock; row locks are held from a write to *)
(* the commit, and after its last read a transaction only writes, so its   *)
(* writes are one step, at the commit.                                     *)
(*                                                                         *)
(* An operator marked "Variant" is not used by the specification: it is    *)
(* the definition below it with a plausible programming error, and shows   *)
(* that the property it is meant for notices that error.                   *)
(***************************************************************************)
EXTENDS BookingStatus, Naturals

CONSTANTS
  Booking,       \* ids of bookings
  Worker,        \* ids of worker profiles
  Offer,         \* ids of dispatch-log rows: the bound on offers and overrides
  Request,       \* handler slots: the bound on handlers in flight at once
  Null,          \* a nullable column that is null
  Calls          \* the calls the environment makes, a subset of Ops

ASSUME NullAssumption ==
  Null \notin Booking \union Worker \union Offer \union Status

VARIABLES
  status,          \* Booking.status
  assigned,        \* Booking.assignedWorkerId
  invoiced,        \* the bookings that have an Invoice row (bookingId unique)
  reviewed,        \* the bookings that have a Review row (bookingId unique)
  payouts,         \* how many JOB_PAYOUT rows name the booking
  availability,    \* WorkerProfile.availabilityStatus
  currentBooking,  \* WorkerProfile.currentBookingId
  suspended,       \* the workers whose suspendedAt is set
  offers,          \* the DispatchLog rows
  dispatched,      \* how far the dispatch engine has taken the booking
  lock,            \* the Redis key lock:booking:<id>, or Null
  request,         \* the handlers in flight
  outlived,        \* history: the bookings whose lock ran out under an accept
  misread          \* history: the bookings whose worker was not the one read

bookingVars == <<status, assigned, invoiced, reviewed, payouts>>
workerVars  == <<availability, currentBooking, suspended>>
history     == <<outlived, misread>>
vars == <<bookingVars, workerVars, offers, dispatched, lock, request, history>>

Availability == {"AVAILABLE", "ON_JOB", "OFF_DUTY"}
OfferKind    == {"TOP3", "POOL", "ADMIN_OVERRIDE"}
Outcome      == {"OFFERED", "ACCEPTED", "DECLINED", "TIMEOUT", "LOCK_LOST"}

\* What callers may ask for; "transition" is transitionBookingStatus called by
\* the engine, by a timer or by startBooking.
Ops == {"transition", "accept", "decline", "timeout", "cancel", "forceAssign",
        "complete", "review", "availability", "suspend"}

ASSUME CallsAssumption == Calls \subseteq Ops

OfferRow == [booking : Booking, worker : Worker,
             kind : OfferKind, outcome : Outcome]
NoRow    == [booking |-> Null, worker |-> Null,
             kind |-> "NONE", outcome |-> "NONE"]

\* booking, worker, offer: what the request names; to: the status (or the
\* availability) it will write; seen: the assigned worker of its pre-read.
Handler ==
  [op      : Ops,
   at      : {"entered", "closing", "locked", "lost", "checked"},
   booking : Booking \union {Null},
   worker  : Worker \union {Null},
   offer   : Offer \union {Null},
   to      : Status \union Availability \union {Null},
   seen    : Worker \union {Null}]
Idle == [op |-> "none", at |-> "idle", booking |-> Null, worker |-> Null,
         offer |-> Null, to |-> Null, seen |-> Null]

\* Handlers whose transaction goes through applyTransition.
Transitions == {"transition", "cancel", "complete", "review"}

TypeOK ==
  /\ status \in [Booking -> Status]
  /\ assigned \in [Booking -> Worker \union {Null}]
  /\ invoiced \in SUBSET Booking
  /\ reviewed \in SUBSET Booking
  /\ payouts \in [Booking -> Nat]
  /\ availability \in [Worker -> Availability]
  /\ currentBooking \in [Worker -> Booking \union {Null}]
  /\ suspended \in SUBSET Worker
  /\ offers \in [Offer -> OfferRow \union {NoRow}]
  /\ dispatched \in [Booking -> {"no", "called", "top3", "pool"}]
  /\ lock \in [Booking -> Worker \union {Null}]
  /\ request \in [Request -> Handler \union {Idle}]
  /\ outlived \subseteq Booking
  /\ misread \subseteq Booking

Init ==
  /\ status = [b \in Booking |-> "REQUESTED"]
  /\ assigned = [b \in Booking |-> Null]
  /\ invoiced = {}
  /\ reviewed = {}
  /\ payouts = [b \in Booking |-> 0]
  /\ availability = [w \in Worker |-> "AVAILABLE"]
  /\ currentBooking = [w \in Worker |-> Null]
  /\ suspended = {}
  /\ offers = [l \in Offer |-> NoRow]
  /\ dispatched = [b \in Booking |-> "no"]
  /\ lock = [b \in Booking |-> Null]
  /\ request = [r \in Request |-> Idle]
  /\ outlived = {}
  /\ misread = {}

-------------------------------------------------------------------------------
(* Steps shared by the handlers.                                           *)

Enter(r, handler) ==
  /\ handler.op \in Calls
  /\ request[r] = Idle
  /\ request' = [request EXCEPT ![r] = handler]

\* The handler goes on to its next step.
Proceed(r, step) == request' = [request EXCEPT ![r].at = step]

\* The handler has answered: with a result, an error or a rollback.
Leave(r) == request' = [request EXCEPT ![r] = Idle]

\* Write the outcome of a dispatch-log row, whatever it was.
SetOutcome(l, outcome) ==
  offers' = [offers EXCEPT ![l].outcome = outcome]

\* Variant: the status is set back, the booking stays on the row.
ReleaseKeepingBooking(w) ==
  /\ availability' = [availability EXCEPT ![w] = "AVAILABLE"]
  /\ currentBooking' = currentBooking

\* A worker row freed by the end of a booking; nothing if there is no worker.
Release(w) ==
  /\ availability' = [availability EXCEPT ![w] = "AVAILABLE"]
  /\ currentBooking' = [currentBooking EXCEPT ![w] = Null]

ReleaseSeen(w) ==
  IF w = Null THEN UNCHANGED <<availability, currentBooking>> ELSE Release(w)

\* What the handler read of the booking's worker is no longer so when it
\* writes: another worker is assigned, or (review) the booking was reopened.
Misread(r) ==
  LET b == request[r].booking IN
  \/ request[r].seen # assigned[b]
  \/ request[r].op = "review" /\ status[b] # "COMPLETED"

NoteMisread(r) ==
  misread' = IF Misread(r) THEN misread \union {request[r].booking} ELSE misread

-------------------------------------------------------------------------------
(* Transitions by the engine, by timers and by startBooking: a pre-read    *)
(* (or none), then a transaction of its own.                               *)

Transition(b, to) ==
  [Idle EXCEPT !.op = "transition", !.at = "entered", !.booking = b, !.to = to]

\* enqueueDispatch, called once, by requestBooking: no status is looked at
\* before the transaction.
EnqueueDispatch(r, b) ==
  /\ dispatched[b] = "no"
  /\ dispatched' = [dispatched EXCEPT ![b] = "called"]
  /\ Enter(r, Transition(b, "DISPATCHING_TOP3"))
  /\ UNCHANGED <<bookingVars, workerVars, offers, lock, history>>

\* The end of the sequential queue, or the sweep after a stale top-3 offer.
OpenPool(r, b) ==
  /\ status[b] = "DISPATCHING_TOP3"
  /\ Enter(r, Transition(b, "DISPATCHING_POOL"))
  /\ UNCHANGED <<bookingVars, workerVars, offers, dispatched, lock, history>>

\* The pool's time is up, seen by the in-process timer or by the sweep.
ExhaustPool(r, b) ==
  /\ status[b] = "DISPATCHING_POOL"
  /\ Enter(r, [Transition(b, "CANCELLED") EXCEPT !.at = "closing"])
  /\ UNCHANGED <<bookingVars, workerVars, offers, dispatched, lock, history>>

ClosePoolOffers(r) ==
  /\ request[r].at = "closing"
  /\ offers' = [l \in Offer |->
       IF offers[l].booking = request[r].booking /\ offers[l].kind = "POOL"
          /\ offers[l].outcome = "OFFERED"
       THEN [offers[l] EXCEPT !.outcome = "TIMEOUT"]
       ELSE offers[l]]
  /\ Proceed(r, "entered")
  /\ UNCHANGED <<bookingVars, workerVars, dispatched, lock, history>>

\* The 60 s timer set by an accept, or the sweep's ASSIGNED pass.
AutoConfirm(r, b) ==
  /\ assigned[b] # Null
  /\ Enter(r, Transition(b, "CONFIRMED"))
  /\ UNCHANGED <<bookingVars, workerVars, offers, dispatched, lock, history>>

\* startBooking, called by the assigned worker.
StartBooking(r, b) ==
  /\ assigned[b] # Null
  /\ status[b] = "CONFIRMED"
  /\ Enter(r, Transition(b, "IN_PROGRESS"))
  /\ UNCHANGED <<bookingVars, workerVars, offers, dispatched, lock, history>>

\* applyTransition, first statement: read the status inside the transaction.
ReadStatus(r) ==
  /\ request[r].op \in Transitions
  /\ request[r].at = "entered"
  /\ IF Legal(status[request[r].booking], request[r].to)
     THEN Proceed(r, "checked")
     ELSE Leave(r)
  /\ UNCHANGED <<bookingVars, workerVars, offers, dispatched, lock, history>>

\* applyTransition, second statement: the update is by id alone.
WriteStatus(b, to) == status' = [status EXCEPT ![b] = to]

CommitTransition(r) ==
  LET b == request[r].booking IN
  /\ request[r].op = "transition"
  /\ request[r].at = "checked"
  /\ WriteStatus(b, request[r].to)
  /\ dispatched' = [dispatched EXCEPT ![b] =
       CASE request[r].to = "DISPATCHING_TOP3" -> "top3"
         [] request[r].to = "DISPATCHING_POOL" -> "pool"
         [] OTHER -> @]
  /\ IF request[r].to = "CANCELLED" THEN NoteMisread(r) ELSE UNCHANGED misread
  /\ Leave(r)
  /\ UNCHANGED <<assigned, invoiced, reviewed, payouts, workerVars, offers, lock, outlived>>

-------------------------------------------------------------------------------
(* Offers.  Who is offered what, and when, is the engine's business (see   *)
(* Dispatch): here a row may appear once its phase has been opened, for    *)
(* any worker, since candidates are scored long before they are offered.   *)

PublishOffer(l, b, w, kind) ==
  /\ offers[l] = NoRow
  /\ \/ kind = "TOP3" /\ dispatched[b] \in {"top3", "pool"}
     \/ kind = "POOL" /\ dispatched[b] = "pool"
  /\ offers' = [offers EXCEPT ![l] =
       [booking |-> b, worker |-> w, kind |-> kind, outcome |-> "OFFERED"]]
  /\ UNCHANGED <<bookingVars, workerVars, dispatched, lock, request, history>>

\* The waiting engine's timer: updateMany where outcome = OFFERED.
TimeoutOffer(l) ==
  /\ offers[l].outcome = "OFFERED"
  /\ SetOutcome(l, "TIMEOUT")
  /\ UNCHANGED <<bookingVars, workerVars, dispatched, lock, request, history>>

\* respondToDispatch up to the outcome check (accept, decline), and the
\* sweep's findMany of stale top-3 offers (timeout).
BeginOnOffer(r, l, op) ==
  /\ op \in {"accept", "decline", "timeout"}
  /\ offers[l].outcome = "OFFERED"
  /\ op = "timeout" => offers[l].kind = "TOP3"
  /\ Enter(r, [Idle EXCEPT !.op = op, !.at = "entered", !.offer = l,
                           !.booking = offers[l].booking,
                           !.worker = offers[l].worker])
  /\ UNCHANGED <<bookingVars, workerVars, offers, dispatched, lock, history>>

\* A decline and the sweep's closing of one offer: updates by id alone.
Decline(r) ==
  /\ request[r].op = "decline"
  /\ SetOutcome(request[r].offer, "DECLINED")
  /\ Leave(r)
  /\ UNCHANGED <<bookingVars, workerVars, dispatched, lock, history>>

SweepOffer(r) ==
  /\ request[r].op = "timeout"
  /\ SetOutcome(request[r].offer, "TIMEOUT")
  /\ Leave(r)
  /\ UNCHANGED <<bookingVars, workerVars, dispatched, lock, history>>

-------------------------------------------------------------------------------
(* ACCEPT: the lock, then the transaction.                                 *)

\* Variant: SET without NX.
LockAlways(b) == TRUE

\* SET lock:booking:<id> <worker> NX
LockFree(b) == lock[b] = Null

AcquireBookingLock(r) ==
  LET b == request[r].booking IN
  /\ request[r].op = "accept"
  /\ request[r].at = "entered"
  /\ IF LockFree(b)
     THEN lock' = [lock EXCEPT ![b] = request[r].worker] /\ Proceed(r, "locked")
     ELSE UNCHANGED lock /\ Proceed(r, "lost")
  /\ UNCHANGED <<bookingVars, workerVars, offers, dispatched, history>>

LoseLock(r) ==
  /\ request[r].op = "accept"
  /\ request[r].at = "lost"
  /\ SetOutcome(request[r].offer, "LOCK_LOST")
  /\ Leave(r)
  /\ UNCHANGED <<bookingVars, workerVars, dispatched, lock, history>>

\* Variant: the re-check inside the transaction is dropped.
UnassignedUnchecked(b) == TRUE

\* The transaction's only test: is the booking still without a worker?
Unassigned(b) == assigned[b] = Null

ReadAssignment(r) ==
  /\ request[r].op = "accept"
  /\ request[r].at = "locked"
  /\ IF Unassigned(request[r].booking)
     THEN Proceed(r, "checked")
     ELSE Leave(r)
  /\ UNCHANGED <<bookingVars, workerVars, offers, dispatched, lock, history>>

\* Variant: ids of two kinds mixed up, the booking's for the worker's.
AssignBookingToItself(b, w) ==
  /\ status' = [status EXCEPT ![b] = "ASSIGNED"]
  /\ assigned' = [assigned EXCEPT ![b] = b]

\* What an assignment writes to the booking, in an accept and in an override.
AssignBooking(b, w) ==
  /\ status' = [status EXCEPT ![b] = "ASSIGNED"]
  /\ assigned' = [assigned EXCEPT ![b] = w]

CommitAccept(r) ==
  LET b == request[r].booking
      w == request[r].worker
  IN
  /\ request[r].op = "accept"
  /\ request[r].at = "checked"
  /\ SetOutcome(request[r].offer, "ACCEPTED")
  /\ AssignBooking(b, w)
  /\ availability' = [availability EXCEPT ![w] = "ON_JOB"]
  /\ currentBooking' = [currentBooking EXCEPT ![w] = b]
  /\ NoteMisread(r)
  /\ Leave(r)
  /\ UNCHANGED <<invoiced, reviewed, payouts, suspended, dispatched, lock, outlived>>

\* The accept was given the lock and has not ended.
Accepting(r) == request[r].op = "accept" /\ request[r].at \in {"locked", "checked"}

\* Nobody releases the lock: its TTL of 5 s does, which a transaction that may
\* wait 2 s and run 5 s can outlive.
ExpireLock(b) ==
  /\ lock[b] # Null
  /\ lock' = [lock EXCEPT ![b] = Null]
  /\ outlived' = IF \E r \in Request : Accepting(r) /\ request[r].booking = b
                 THEN outlived \union {b} ELSE outlived
  /\ UNCHANGED <<bookingVars, workerVars, offers, dispatched, request, misread>>

-------------------------------------------------------------------------------
(* Cancel, force-assign, complete, review.                                 *)

\* cancelBooking (customer or assigned worker) and adminCancelBooking, which
\* test the same statuses and write the same columns.
BeginCancel(r, b) ==
  /\ status[b] \in CANCELLABLE_STATUSES
  /\ Enter(r, [Idle EXCEPT !.op = "cancel", !.at = "entered", !.booking = b,
                           !.to = "CANCELLED", !.seen = assigned[b]])
  /\ UNCHANGED <<bookingVars, workerVars, offers, dispatched, lock, history>>

\* Variant: the cancellation also clears assignedWorkerId.
CommitCancelClearing(r) ==
  /\ request[r].op = "cancel"
  /\ request[r].at = "checked"
  /\ WriteStatus(request[r].booking, "CANCELLED")
  /\ assigned' = [assigned EXCEPT ![request[r].booking] = Null]
  /\ ReleaseSeen(request[r].seen)
  /\ NoteMisread(r)
  /\ Leave(r)
  /\ UNCHANGED <<invoiced, reviewed, payouts, suspended, offers, dispatched, lock, outlived>>

CommitCancel(r) ==
  /\ request[r].op = "cancel"
  /\ request[r].at = "checked"
  /\ WriteStatus(request[r].booking, "CANCELLED")
  /\ ReleaseSeen(request[r].seen)
  /\ NoteMisread(r)
  /\ Leave(r)
  /\ UNCHANGED <<assigned, invoiced, reviewed, payouts, suspended, offers,
                 dispatched, lock, outlived>>

\* forceAssignBooking: everything it tests, it tests before the transaction.
BeginForceAssign(r, b, w) ==
  /\ status[b] \notin TERMINAL_STATUSES
  /\ Enter(r, [Idle EXCEPT !.op = "forceAssign", !.at = "checked",
                           !.booking = b, !.worker = w, !.seen = assigned[b]])
  /\ UNCHANGED <<bookingVars, workerVars, offers, dispatched, lock, history>>

CommitForceAssign(r, l) ==
  LET b     == request[r].booking
      w     == request[r].worker
      freed == {request[r].seen} \ {Null, w}
  IN
  /\ request[r].op = "forceAssign"
  /\ offers[l] = NoRow
  /\ AssignBooking(b, w)
  /\ availability' = [v \in Worker |->
       IF v = w THEN "ON_JOB"
       ELSE IF v \in freed THEN "AVAILABLE" ELSE availability[v]]
  /\ currentBooking' = [v \in Worker |->
       IF v = w THEN b ELSE IF v \in freed THEN Null ELSE currentBooking[v]]
  /\ offers' = [offers EXCEPT ![l] =
       [booking |-> b, worker |-> w,
        kind |-> "ADMIN_OVERRIDE", outcome |-> "ACCEPTED"]]
  /\ NoteMisread(r)
  /\ Leave(r)
  /\ UNCHANGED <<invoiced, reviewed, payouts, suspended, dispatched, lock, outlived>>

\* completeBooking, called by the assigned worker.
BeginComplete(r, b) ==
  /\ assigned[b] # Null
  /\ status[b] = "IN_PROGRESS"
  /\ Enter(r, [Idle EXCEPT !.op = "complete", !.at = "entered", !.booking = b,
                           !.to = "COMPLETED", !.seen = assigned[b]])
  /\ UNCHANGED <<bookingVars, workerVars, offers, dispatched, lock, history>>

\* Variant: the unique indexes are missing.
AnyRow(b, rows) == TRUE

\* Invoice.bookingId and Review.bookingId are unique: a second row rolls back.
FirstRow(b, rows) == b \notin rows

\* Variant: the invoice is left to a later transaction.
CommitCompleteUnbilled(r) ==
  /\ request[r].op = "complete"
  /\ request[r].at = "checked"
  /\ WriteStatus(request[r].booking, "COMPLETED")
  /\ ReleaseSeen(request[r].seen)
  /\ NoteMisread(r)
  /\ Leave(r)
  /\ UNCHANGED <<assigned, invoiced, reviewed, payouts, suspended, offers,
                 dispatched, lock, outlived>>

CommitComplete(r) ==
  LET b == request[r].booking IN
  /\ request[r].op = "complete"
  /\ request[r].at = "checked"
  /\ FirstRow(b, invoiced)
  /\ WriteStatus(b, "COMPLETED")
  /\ invoiced' = invoiced \union {b}
  /\ ReleaseSeen(request[r].seen)
  /\ NoteMisread(r)
  /\ Leave(r)
  /\ UNCHANGED <<assigned, reviewed, payouts, suspended, offers, dispatched, lock, outlived>>

\* submitReview, called by the customer.
BeginReview(r, b) ==
  /\ status[b] = "COMPLETED"
  /\ b \in invoiced
  /\ Enter(r, [Idle EXCEPT !.op = "review", !.at = "entered", !.booking = b,
                           !.to = "SETTLED", !.seen = assigned[b]])
  /\ UNCHANGED <<bookingVars, workerVars, offers, dispatched, lock, history>>

CommitReview(r) ==
  LET b == request[r].booking IN
  /\ request[r].op = "review"
  /\ request[r].at = "checked"
  /\ FirstRow(b, reviewed)
  /\ WriteStatus(b, "SETTLED")
  /\ reviewed' = reviewed \union {b}
  /\ payouts' = [payouts EXCEPT ![b] = @ + 1]
  /\ NoteMisread(r)
  /\ Leave(r)
  /\ UNCHANGED <<assigned, invoiced, workerVars, offers, dispatched, lock, outlived>>

-------------------------------------------------------------------------------
(* The worker's own switch and the administrator's suspension.             *)

BeginAvailability(r, w, to) ==
  /\ to \in {"AVAILABLE", "OFF_DUTY"}
  /\ w \in suspended => to # "AVAILABLE"
  /\ Enter(r, [Idle EXCEPT !.op = "availability", !.at = "checked",
                           !.worker = w, !.to = to])
  /\ UNCHANGED <<bookingVars, workerVars, offers, dispatched, lock, history>>

CommitAvailability(r) ==
  /\ request[r].op = "availability"
  /\ availability' = [availability EXCEPT ![request[r].worker] = request[r].to]
  /\ Leave(r)
  /\ UNCHANGED <<bookingVars, currentBooking, suspended, offers, dispatched, lock, history>>

SuspendWorker(w) ==
  /\ "suspend" \in Calls
  /\ suspended' = suspended \union {w}
  /\ availability' = [availability EXCEPT ![w] = "OFF_DUTY"]
  /\ UNCHANGED <<bookingVars, currentBooking, offers, dispatched, lock, request, history>>

ReactivateWorker(w) ==
  /\ "suspend" \in Calls
  /\ suspended' = suspended \ {w}
  /\ UNCHANGED <<bookingVars, availability, currentBooking, offers, dispatched,
                 lock, request, history>>

\* Any statement may throw, the process may stop: what is open rolls back.
Abort(r) ==
  /\ request[r] # Idle
  /\ Leave(r)
  /\ UNCHANGED <<bookingVars, workerVars, offers, dispatched, lock, history>>

-------------------------------------------------------------------------------
BeginOnBooking(r, b) ==
  \/ EnqueueDispatch(r, b) \/ OpenPool(r, b) \/ ExhaustPool(r, b)
  \/ AutoConfirm(r, b) \/ StartBooking(r, b)
  \/ BeginCancel(r, b) \/ BeginComplete(r, b) \/ BeginReview(r, b)
  \/ \E w \in Worker : BeginForceAssign(r, b, w)

Continue(r) ==
  \/ ClosePoolOffers(r) \/ ReadStatus(r) \/ CommitTransition(r)
  \/ Decline(r) \/ SweepOffer(r)
  \/ AcquireBookingLock(r) \/ LoseLock(r) \/ ReadAssignment(r) \/ CommitAccept(r)
  \/ CommitCancel(r) \/ CommitComplete(r) \/ CommitReview(r)
  \/ \E l \in Offer : CommitForceAssign(r, l)
  \/ CommitAvailability(r)
  \/ Abort(r)

Next ==
  \/ \E r \in Request, b \in Booking : BeginOnBooking(r, b)
  \/ \E r \in Request, l \in Offer, op \in Ops : BeginOnOffer(r, l, op)
  \/ \E r \in Request, w \in Worker, to \in Availability :
       BeginAvailability(r, w, to)
  \/ \E r \in Request : Continue(r)
  \/ \E l \in Offer, b \in Booking, w \in Worker, kind \in OfferKind :
       PublishOffer(l, b, w, kind)
  \/ \E l \in Offer : TimeoutOffer(l)
  \/ \E b \in Booking : ExpireLock(b)
  \/ \E w \in Worker : SuspendWorker(w) \/ ReactivateWorker(w)

Spec == Init /\ [][Next]_vars

-------------------------------------------------------------------------------
(* Properties.                                                             *)

\* The statuses from an accept to the settlement.
Held == {"ASSIGNED", "CONFIRMED", "IN_PROGRESS", "COMPLETED", "SETTLED"}

\* A booking that was accepted, or is past that point, has a worker, whatever
\* stale status a transaction in flight was checked against: startBooking,
\* completeBooking (assignedWorkerId!) and submitReview rely on it.
AssignedHasWorker == \A b \in Booking : status[b] \in Held => assigned[b] # Null

\* A booking counts as completed or settled only if its invoice exists, also
\* after an override reopened it: submitReview dereferences booking.invoice!.
CompletedIsInvoiced ==
  \A b \in Booking : status[b] \in {"COMPLETED", "SETTLED"} => b \in invoiced

\* A booking pays its worker at most once, and a settled one has paid: two
\* reviews racing past the COMPLETED checks, or a review of a booking that was
\* reopened after its settlement, must not pay again.
PaidOnce ==
  \A b \in Booking : /\ payouts[b] <= 1
                     /\ status[b] = "SETTLED" => payouts[b] = 1

\* Of all the offers of a booking, at most one is ever accepted by a worker,
\* unless the booking's lock ran out under an accept: the lock and the
\* re-check of assignedWorkerId in respondToDispatch.
AcceptOnce ==
  \A k, l \in Offer :
    /\ offers[k].outcome = "ACCEPTED" /\ offers[k].kind # "ADMIN_OVERRIDE"
    /\ offers[l].outcome = "ACCEPTED" /\ offers[l].kind # "ADMIN_OVERRIDE"
    /\ offers[k].booking = offers[l].booking
    => k = l \/ offers[k].booking \in outlived

\* The bookings with the dispatch-log row of an override.
Overridden ==
  {b \in Booking : \E l \in Offer :
     offers[l].booking = b /\ offers[l].kind = "ADMIN_OVERRIDE"}

\* The contract of Award.tla: a booking keeps the worker it was first given,
\* through cancellations, late accepts and stale transitions, unless an
\* override or a lock that ran out too early contests the award; billing
\* comes once and after that, payment once and after billing.
Contract == INSTANCE Award WITH
  holder <- assigned, billed <- invoiced, paid <- payouts,
  contested <- outlived \union Overridden
AwardContract == Contract!Spec

\* A worker's current booking is one that is assigned to that worker and has
\* not ended, unless the booking's worker changed between the read and the
\* write of a handler (the releases of cancelBooking, completeBooking and
\* forceAssignBooking, and the exhausted pool, which releases nobody).
HolderServes ==
  \A w \in Worker, b \in Booking :
    currentBooking[w] = b =>
      \/ assigned[b] = w /\ status[b] \notin TERMINAL_STATUSES
      \/ b \in misread

\* A worker shown as ON_JOB has a booking to be on: accepts, releases and the
\* worker's own switch never leave the status of one job over from another.
OnJobHasBooking ==
  \A w \in Worker : availability[w] = "ON_JOB" => currentBooking[w] # Null

\* Blueprint 11.1: a cancelled booking never changes again.  respondToDispatch
\* does not look at the status, so a late accept revives a cancelled booking.
CancelledIsFinal ==
  [][\A b \in Booking : status[b] = "CANCELLED" => status'[b] # "ASSIGNED"]_vars
===============================================================================
