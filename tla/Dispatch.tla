------------------------------- MODULE Dispatch -------------------------------
(***************************************************************************)
(* The dispatch of one booking: enqueueDispatch with its sequential top-3  *)
(* queue and its broadcast pool, the workers' answers that reach it over   *)
(* Redis pub/sub, the in-process timers, the reconciliation sweep, and a   *)
(* server that may stop and start again.                                   *)
(*                                                                         *)
(* The engine, the handlers and the timers live in the server's memory;    *)
(* the booking, its dispatch-log rows and the Redis lock outlive it.  The  *)
(* transactions of handlers are one step here: how their statements        *)
(* interleave is the subject of BookingLifecycle.                          *)
(*                                                                         *)
(* A dispatch-log row is named by its worker and by who created it: the    *)
(* engine's queue, the engine's pool or the sweep's pool, each of which    *)
(* creates at most one row per worker.                                     *)
(*                                                                         *)
(* Time is not measured: an offer's time is up (it is in "due") at some    *)
(* moment after it was made; the in-process timer and the sweep both act   *)
(* on it at any later moment.                                              *)
(***************************************************************************)
EXTENDS BookingStatus, Naturals, FiniteSets

CONSTANTS
  Worker,      \* ids of worker profiles
  Null,        \* a nullable column that is null
  TopSize,     \* how many candidates the sequential queue takes: slice(0, 3)
  MaxTrouble   \* bound: how many restarts of the server and thrown errors together

ASSUME NullAssumption == Null \notin Worker
ASSUME BoundAssumption == TopSize \in Nat /\ MaxTrouble \in Nat

VARIABLES
  status,      \* Booking.status
  assigned,    \* Booking.assignedWorkerId
  outcome,     \* DispatchLog.outcome of every row, "NONE" while it does not exist
  due,         \* the rows whose timeout has elapsed
  lock,        \* the Redis key lock:booking:<id>: "free" or "held"
  engine,      \* enqueueDispatch: where it is, and its local variables
  response,    \* per worker, the respondToDispatch in flight
  confirming,  \* the 60 s auto-confirm timer of an accept: "unset" or "set"
  sweep,       \* runReconciliationSweep: where it is, and its local variables
  crashes,     \* how often the server has stopped
  errors       \* how many calls have thrown

database == <<status, assigned, outcome>>
memory   == <<engine, response, confirming, sweep>>
trouble  == <<crashes, errors>>
vars     == <<database, due, lock, memory, trouble>>

Source  == {"TOP3", "POOL", "SWEPT"}
Row     == Worker \X Source
Outcome == {"NONE", "OFFERED", "ACCEPTED", "DECLINED", "TIMEOUT", "LOCK_LOST"}

EngineAt == {"new", "scored", "queue", "wait", "open", "broadcast", "poll",
             "close", "cancel", "done", "dead"}

\* top, pool: the candidates not yet offered; row: the offer waited for;
\* heard: what its subscription has brought.
Engine == [at    : EngineAt,
           top   : SUBSET Worker,
           pool  : SUBSET Worker,
           row   : Row \union {Null},
           heard : {"nothing", "listening", "ACCEPTED", "DECLINED"}]
NewEngine == [at |-> "new", top |-> {}, pool |-> {}, row |-> Null,
              heard |-> "nothing"]

Response == [at  : {"none", "accepting", "declining", "accepted", "declined"},
             row : Row \union {Null}]
NoResponse == [at |-> "none", row |-> Null]

\* todo: stale top-3 rows still to be handled; pool: the candidates it scored.
Sweep == [at   : {"idle", "top3", "advance", "open", "fill", "pool",
                  "close", "cancel", "assigned"},
          todo : SUBSET Row,
          pool : SUBSET Worker]
NoSweep == [at |-> "idle", todo |-> {}, pool |-> {}]

TypeOK ==
  /\ status \in Status
  /\ assigned \in Worker \union {Null}
  /\ outcome \in [Row -> Outcome]
  /\ due \in SUBSET Row
  /\ lock \in {"free", "held"}
  /\ engine \in Engine
  /\ response \in [Worker -> Response]
  /\ confirming \in {"unset", "set"}
  /\ sweep \in Sweep
  /\ crashes \in Nat
  /\ errors \in Nat
  /\ crashes + errors <= MaxTrouble

Init ==
  /\ status = "REQUESTED"
  /\ assigned = Null
  /\ outcome = [l \in Row |-> "NONE"]
  /\ due = {}
  /\ lock = "free"
  /\ engine = NewEngine
  /\ response = [w \in Worker |-> NoResponse]
  /\ confirming = "unset"
  /\ sweep = NoSweep
  /\ crashes = 0
  /\ errors = 0

-------------------------------------------------------------------------------
TopRow == {l \in Row : l[2] = "TOP3"}
PoolRow == Row \ TopRow
Open(rows) == {l \in rows : outcome[l] = "OFFERED"}
Tried == {w \in Worker : \E s \in Source : outcome[<<w, s>>] # "NONE"}

SetOutcome(rows, to) ==
  outcome' = [l \in Row |-> IF l \in rows THEN to ELSE outcome[l]]

\* transitionBookingStatus: done, or thrown.
Allowed(to) == Legal(status, to)
Goto(place) == engine' = [engine EXCEPT !.at = place]
Return == engine' = [NewEngine EXCEPT !.at = "done"]
GoOn(candidates) == engine' = [NewEngine EXCEPT !.at = "queue", !.top = candidates,
                                               !.pool = engine.pool]

-------------------------------------------------------------------------------
(* The engine.                                                             *)

\* scoreCandidateWorkers: any list of candidates; only its two slices matter.
Score ==
  /\ engine.at = "new"
  /\ \E top, pool \in SUBSET Worker :
       /\ top \intersect pool = {}
       /\ Cardinality(top) <= TopSize
       /\ pool # {} => Cardinality(top) = TopSize
       /\ engine' = [engine EXCEPT !.at = "scored", !.top = top, !.pool = pool]
  /\ UNCHANGED <<database, due, lock, response, confirming, sweep, trouble>>

StartTop3 ==
  /\ engine.at = "scored"
  /\ IF Allowed("DISPATCHING_TOP3")
     THEN status' = "DISPATCHING_TOP3" /\ Goto("queue")
     ELSE UNCHANGED status /\ Return
  /\ UNCHANGED <<assigned, outcome, due, lock, response, confirming, sweep, trouble>>

\* One turn of runSequentialOfferQueue; the booking's status is not read.
OfferNext(w) ==
  /\ engine.at = "queue"
  /\ w \in engine.top
  /\ SetOutcome({<<w, "TOP3">>}, "OFFERED")
  /\ engine' = [engine EXCEPT !.at = "wait", !.top = @ \ {w},
                              !.row = <<w, "TOP3">>, !.heard = "nothing"]
  /\ UNCHANGED <<status, assigned, due, lock, response, confirming, sweep, trouble>>

\* The subscription is confirmed; what was published before it is lost.
Subscribe ==
  /\ engine.at = "wait"
  /\ engine.heard = "nothing"
  /\ engine' = [engine EXCEPT !.heard = "listening"]
  /\ UNCHANGED <<database, due, lock, response, confirming, sweep, trouble>>

HearAnswer ==
  /\ engine.at = "wait"
  /\ engine.heard \in {"ACCEPTED", "DECLINED"}
  /\ GoOn(IF engine.heard = "ACCEPTED" THEN {} ELSE engine.top)
  /\ UNCHANGED <<database, due, lock, response, confirming, sweep, trouble>>

\* The engine's timer of the offer it waits for, or of its pool, has run out.
TimeIsUp ==
  \/ engine.at = "wait" /\ engine.row \in due
  \/ engine.at = "poll" /\ Open(engine.pool \X {"POOL"}) \subseteq due

\* Variant: the row is deleted instead of updated.
DeleteWaited == outcome' = [l \in Row \ {engine.row} |-> outcome[l]]

\* Variant: the timer only stops the waiting, the row stays as it is.
LeaveWaited == outcome' = outcome

\* updateMany where the row is still OFFERED
CloseWaited == SetOutcome(Open({engine.row}), "TIMEOUT")

\* Variant: the waiting stops only if the row was still OFFERED.
OfferTimeoutIfOpen ==
  /\ engine.at = "wait"
  /\ TimeIsUp
  /\ outcome[engine.row] = "OFFERED"
  /\ CloseWaited
  /\ GoOn(engine.top)
  /\ UNCHANGED <<status, assigned, due, lock, response, confirming, sweep, trouble>>

OfferTimeout ==
  /\ engine.at = "wait"
  /\ TimeIsUp
  /\ CloseWaited
  /\ GoOn(engine.top)
  /\ UNCHANGED <<status, assigned, due, lock, response, confirming, sweep, trouble>>

\* The queue is through, or was left on an accept: stillOpen is read.
EndQueue ==
  /\ engine.at = "queue"
  /\ engine.top = {}
  /\ IF status = "DISPATCHING_TOP3" THEN Goto("open") ELSE Return
  /\ UNCHANGED <<database, due, lock, response, confirming, sweep, trouble>>

OpenPool ==
  /\ engine.at = "open"
  /\ IF Allowed("DISPATCHING_POOL")
     THEN status' = "DISPATCHING_POOL" /\ Goto("broadcast")
     ELSE UNCHANGED status /\ Return
  /\ UNCHANGED <<assigned, outcome, due, lock, response, confirming, sweep, trouble>>

Broadcast ==
  /\ engine.at = "broadcast"
  /\ SetOutcome(engine.pool \X {"POOL"}, "OFFERED")
  /\ Goto("poll")
  /\ UNCHANGED <<status, assigned, due, lock, response, confirming, sweep, trouble>>

\* The 2 s poll, and the timeout that finds the pool left.
PollEnds ==
  /\ engine.at = "poll"
  /\ status # "DISPATCHING_POOL"
  /\ Return
  /\ UNCHANGED <<database, due, lock, response, confirming, sweep, trouble>>

\* The pool's timeout: it reads the status, closes its rows, then cancels.
PoolTimeout ==
  /\ engine.at = "poll"
  /\ status = "DISPATCHING_POOL"
  /\ TimeIsUp
  /\ Goto("close")
  /\ UNCHANGED <<database, due, lock, response, confirming, sweep, trouble>>

\* Variant: the rows are closed and the booking is forgotten.
ClosePoolOnly ==
  /\ engine.at = "close"
  /\ SetOutcome(Open(engine.pool \X {"POOL"}), "TIMEOUT")
  /\ Return
  /\ UNCHANGED <<status, assigned, due, lock, response, confirming, sweep, trouble>>

ClosePool ==
  /\ engine.at = "close"
  /\ SetOutcome(Open(engine.pool \X {"POOL"}), "TIMEOUT")
  /\ Goto("cancel")
  /\ UNCHANGED <<status, assigned, due, lock, response, confirming, sweep, trouble>>

CancelExhausted ==
  /\ engine.at = "cancel"
  /\ status' = IF Allowed("CANCELLED") THEN "CANCELLED" ELSE status
  /\ Return
  /\ UNCHANGED <<assigned, outcome, due, lock, response, confirming, sweep, trouble>>

EngineStep ==
  \/ Score \/ StartTop3 \/ Subscribe \/ HearAnswer \/ OfferTimeout
  \/ EndQueue \/ OpenPool \/ Broadcast \/ PollEnds \/ PoolTimeout
  \/ ClosePool \/ CancelExhausted
  \/ \E w \in Worker : OfferNext(w)

-------------------------------------------------------------------------------
(* respondToDispatch: the outcome check, then an answer, then the message. *)

BeginResponse(w, l, step) ==
  /\ response[w] = NoResponse
  /\ l[1] = w
  /\ outcome[l] = "OFFERED"
  /\ step \in {"accepting", "declining"}
  /\ response' = [response EXCEPT ![w] = [at |-> step, row |-> l]]
  /\ UNCHANGED <<database, due, lock, engine, confirming, sweep, trouble>>

Answered(w) == response' = [response EXCEPT ![w] = NoResponse]

DeclineOffer(w) ==
  /\ response[w].at = "declining"
  /\ SetOutcome({response[w].row}, "DECLINED")
  /\ response' = [response EXCEPT ![w].at = "declined"]
  /\ UNCHANGED <<status, assigned, due, lock, engine, confirming, sweep, trouble>>

\* The lock is refused: no message, the engine waits on.
LoseLock(w) ==
  /\ response[w].at = "accepting"
  /\ lock = "held"
  /\ SetOutcome({response[w].row}, "LOCK_LOST")
  /\ Answered(w)
  /\ UNCHANGED <<status, assigned, due, lock, engine, confirming, sweep, trouble>>

\* The lock and the transaction.  ALREADY_ASSIGNED leaves the row OFFERED.
AcceptOffer(w) ==
  /\ response[w].at = "accepting"
  /\ lock = "free"
  /\ lock' = "held"
  /\ IF assigned = Null
     THEN /\ SetOutcome({response[w].row}, "ACCEPTED")
          /\ status' = "ASSIGNED"
          /\ assigned' = w
          /\ response' = [response EXCEPT ![w].at = "accepted"]
     ELSE Answered(w) /\ UNCHANGED database
  /\ UNCHANGED <<due, engine, confirming, sweep, trouble>>

\* redis.publish, and after an accept the auto-confirm timer.
PublishAnswer(w) ==
  LET message == IF response[w].at = "accepted" THEN "ACCEPTED" ELSE "DECLINED" IN
  /\ response[w].at \in {"accepted", "declined"}
  /\ engine' = IF engine.at = "wait" /\ engine.row = response[w].row
                  /\ engine.heard = "listening"
               THEN [engine EXCEPT !.heard = message]
               ELSE engine
  /\ confirming' = IF message = "ACCEPTED" THEN "set" ELSE confirming
  /\ Answered(w)
  /\ UNCHANGED <<database, due, lock, sweep, trouble>>

ResponseStep(w) ==
  DeclineOffer(w) \/ LoseLock(w) \/ AcceptOffer(w) \/ PublishAnswer(w)

ConfirmTimer ==
  /\ confirming = "set"
  /\ confirming' = "unset"
  /\ status' = IF Allowed("CONFIRMED") THEN "CONFIRMED" ELSE status
  /\ UNCHANGED <<assigned, outcome, due, lock, engine, response, sweep, trouble>>

\* cancelBooking and adminCancelBooking, at any time while they are accepted.
CancelBooking ==
  /\ status \in CANCELLABLE_STATUSES
  /\ status' = "CANCELLED"
  /\ UNCHANGED <<assigned, outcome, due, lock, memory, trouble>>

-------------------------------------------------------------------------------
(* runReconciliationSweep, every 30 s.                                     *)

SweepGoto(place) == sweep' = [sweep EXCEPT !.at = place]

\* A transition throws: the rest of this sweep is left out.
SweepTransition(to, place) ==
  IF Allowed(to)
  THEN status' = to /\ SweepGoto(place)
  ELSE UNCHANGED status /\ sweep' = NoSweep

\* Variant: only the rows of bookings still in the top-3 phase are looked for.
SweepFindSearching ==
  /\ sweep.at = "idle"
  /\ sweep' = [NoSweep EXCEPT !.at = "top3",
                 !.todo = IF status = "DISPATCHING_TOP3"
                          THEN Open(TopRow) \intersect due ELSE {}]
  /\ UNCHANGED <<database, due, lock, engine, response, confirming, trouble>>

SweepFind ==
  /\ sweep.at = "idle"
  /\ sweep' = [NoSweep EXCEPT !.at = "top3", !.todo = Open(TopRow) \intersect due]
  /\ UNCHANGED <<database, due, lock, engine, response, confirming, trouble>>

\* The update is by id alone: whatever the row says by now.
SweepClose(l) ==
  /\ sweep.at = "top3"
  /\ l \in sweep.todo
  /\ SetOutcome({l}, "TIMEOUT")
  /\ sweep' = [sweep EXCEPT !.at = "advance", !.todo = @ \ {l}]
  /\ UNCHANGED <<status, assigned, due, lock, engine, response, confirming, trouble>>

\* The candidates of a new scoring without those in the booking's history.
Untried == Worker \ Tried

SweepAdvance ==
  /\ sweep.at = "advance"
  /\ IF status = "DISPATCHING_TOP3" /\ Open(TopRow) = {}
     THEN \E pool \in SUBSET Untried :
            sweep' = [sweep EXCEPT !.at = "open", !.pool = pool]
     ELSE SweepGoto("top3")
  /\ UNCHANGED <<database, due, lock, engine, response, confirming, trouble>>

SweepOpenPool ==
  /\ sweep.at = "open"
  /\ SweepTransition("DISPATCHING_POOL", "fill")
  /\ UNCHANGED <<assigned, outcome, due, lock, engine, response, confirming, trouble>>

SweepFillPool ==
  /\ sweep.at = "fill"
  /\ IF sweep.pool = {}
     THEN SweepTransition("CANCELLED", "top3") /\ UNCHANGED outcome
     ELSE /\ SetOutcome(sweep.pool \X {"SWEPT"}, "OFFERED")
          /\ SweepGoto("top3")
          /\ UNCHANGED status
  /\ UNCHANGED <<assigned, due, lock, engine, response, confirming, trouble>>

\* The top-3 pass is over; stale pool offers are looked for.
SweepFindPool ==
  /\ sweep.at = "top3"
  /\ sweep.todo = {}
  /\ SweepGoto(IF Open(PoolRow) \intersect due # {} THEN "pool" ELSE "assigned")
  /\ UNCHANGED <<database, due, lock, engine, response, confirming, trouble>>

SweepCheckPool ==
  /\ sweep.at = "pool"
  /\ SweepGoto(IF status = "DISPATCHING_POOL" THEN "close" ELSE "assigned")
  /\ UNCHANGED <<database, due, lock, engine, response, confirming, trouble>>

SweepClosePool ==
  /\ sweep.at = "close"
  /\ SetOutcome(Open(PoolRow), "TIMEOUT")
  /\ SweepGoto("cancel")
  /\ UNCHANGED <<status, assigned, due, lock, engine, response, confirming, trouble>>

SweepCancel ==
  /\ sweep.at = "cancel"
  /\ SweepTransition("CANCELLED", "assigned")
  /\ UNCHANGED <<assigned, outcome, due, lock, engine, response, confirming, trouble>>

\* Variant: the sweep has no pass over assigned bookings.
SweepNoConfirm ==
  /\ sweep.at = "assigned"
  /\ sweep' = NoSweep
  /\ UNCHANGED <<database, due, lock, engine, response, confirming, trouble>>

\* The last pass: a booking ASSIGNED for 60 s is confirmed.
SweepConfirm ==
  /\ sweep.at = "assigned"
  /\ status' = IF status = "ASSIGNED" THEN "CONFIRMED" ELSE status
  /\ sweep' = NoSweep
  /\ UNCHANGED <<assigned, outcome, due, lock, engine, response, confirming, trouble>>

SweepStep ==
  \/ SweepFind \/ SweepAdvance \/ SweepOpenPool \/ SweepFillPool
  \/ SweepFindPool \/ SweepCheckPool \/ SweepClosePool \/ SweepCancel
  \/ SweepConfirm
  \/ \E l \in Row : SweepClose(l)

-------------------------------------------------------------------------------
(* Time, and what may go wrong.                                            *)

\* Rows whose time is up at the same moment: those of one pool were made together.
Cohort == {{l} : l \in TopRow} \union {Worker \X {t} : t \in {"POOL", "SWEPT"}}

\* A row's time does not matter once it is answered, unless the engine waits for it.
Elapse(rows) ==
  /\ Open(rows) # {} \/ (engine.at = "wait" /\ engine.row \in rows)
  /\ ~(rows \subseteq due)
  /\ due' = due \union rows
  /\ UNCHANGED <<database, lock, memory, trouble>>

ExpireLock ==
  /\ lock = "held"
  /\ lock' = "free"
  /\ UNCHANGED <<database, due, memory, trouble>>

Throw == crashes + errors < MaxTrouble /\ errors' = errors + 1 /\ UNCHANGED crashes

\* safeAsyncTimer's onError stops the waiting; elsewhere enqueueDispatch ends.
EngineThrows ==
  /\ engine.at \notin {"done", "dead"}
  /\ engine.at \in {"wait", "poll"} => TimeIsUp
  /\ Throw
  /\ IF engine.at = "wait" THEN GoOn(engine.top) ELSE Return
  /\ UNCHANGED <<database, due, lock, response, confirming, sweep>>

\* An accept that throws after it was given the lock leaves the lock behind.
ResponseThrows(w) ==
  /\ response[w] # NoResponse
  /\ Throw
  /\ Answered(w)
  /\ lock' \in IF response[w].at = "accepting" THEN {lock, "held"} ELSE {lock}
  /\ UNCHANGED <<database, due, engine, confirming, sweep>>

SweepThrows ==
  /\ sweep # NoSweep
  /\ Throw
  /\ sweep' = NoSweep
  /\ UNCHANGED <<database, due, lock, engine, response, confirming>>

\* The server stops and starts again: what was in memory is gone.
Restart ==
  /\ crashes + errors < MaxTrouble
  /\ crashes' = crashes + 1
  /\ engine' = [NewEngine EXCEPT !.at = IF engine.at = "done" THEN "done" ELSE "dead"]
  /\ response' = [w \in Worker |-> NoResponse]
  /\ confirming' = "unset"
  /\ sweep' = NoSweep
  /\ UNCHANGED <<database, due, lock, errors>>

-------------------------------------------------------------------------------
Next ==
  \/ EngineStep
  \/ \E w \in Worker :
       \/ ResponseStep(w) \/ ResponseThrows(w)
       \/ \E l \in Row, step \in {"accepting", "declining"} : BeginResponse(w, l, step)
  \/ ConfirmTimer
  \/ CancelBooking
  \/ SweepStep
  \/ \E rows \in Cohort : Elapse(rows)
  \/ ExpireLock
  \/ EngineThrows
  \/ SweepThrows
  \/ Restart

\* The event loop runs what is ready, timers fire, the sweep is run every 30 s
\* and handlers answer; workers, customers and trouble may stay away.
Fairness ==
  /\ WF_vars(EngineStep)
  /\ \A w \in Worker : WF_vars(ResponseStep(w))
  /\ WF_vars(ConfirmTimer)
  /\ WF_vars(SweepStep)
  /\ \A rows \in Cohort : WF_vars(Elapse(rows))

Spec == Init /\ [][Next]_vars /\ Fairness

-------------------------------------------------------------------------------
(* Properties.                                                             *)

\* Without thrown errors, an open top-3 offer is always the one the engine is
\* waiting for, unless the server has stopped: no timer, answer, lost message
\* or pre-empting sweep leaves one behind, and the queue is sequential.
OpenOfferIsWaitedFor ==
  errors = 0 =>
    \A l \in Open(TopRow) :
      engine.at = "dead" \/ (engine.at = "wait" /\ engine.row = l)

\* Blueprint 11.4: the dispatch is self-healing, the booking does not stay
\* REQUESTED or DISPATCHING for ever.
Searching == {"REQUESTED", "DISPATCHING_TOP3", "DISPATCHING_POOL"}
DispatchEnds == (status \in Searching) ~> (status \notin Searching)

\* Every dispatch ends, unless the sweep came before the engine's own timer and
\* made the pool its own, or a restart or an error disturbed it: a restart before
\* the first offer, or between two, leaves the sweep nothing to find.
UndisturbedDispatchEnds ==
  (status \in Searching) ~>
    \/ status \notin Searching
    \/ \E w \in Worker : outcome[<<w, "SWEPT">>] # "NONE"
    \/ crashes + errors > 0

\* enqueueDispatch returns, whatever messages are lost and calls throw.
EngineReturns == <>(engine.at \in {"done", "dead"})

\* No top-3 offer stays open, and no pool offer while its booking is in the pool,
\* through restarts and errors: a timer or the sweep closes it.  (Rows never open
\* again and a booking never returns to the pool, so this says it of each.)
MustClose == \/ Open(TopRow) # {}
             \/ Open(PoolRow) # {} /\ status = "DISPATCHING_POOL"
OffersClose == MustClose ~> ~MustClose

\* A booking is not stranded in ASSIGNED by a restart: timer or sweep.
AssignedIsConfirmed == (status = "ASSIGNED") ~> (status # "ASSIGNED")
===============================================================================
