--------------------------- MODULE DispatchProofs ---------------------------
(***************************************************************************)
(* Theorems about Dispatch, for every set of workers, every length of the  *)
(* queue, and every number of restarts and thrown errors.                  *)
(***************************************************************************)
EXTENDS Dispatch, TLAPS

\* What the records in memory refer to.
MemoryOK ==
  /\ engine.at = "wait" => engine.row \in TopRow
  /\ engine.at = "new" => engine.top = {} /\ \A l \in TopRow : outcome[l] = "NONE"
  /\ \A w \in engine.top : outcome[<<w, "TOP3">>] = "NONE"
  /\ \A w \in Worker :
       response[w].at # "none" =>
         response[w].row \in Row /\ outcome[response[w].row] # "NONE"
  /\ \A l \in sweep.todo : l \in TopRow /\ outcome[l] # "NONE"

TypeInv == TypeOK /\ MemoryOK

LEMMA TopRows ==
  /\ TopRow \subseteq Row
  /\ \A w \in Worker, t \in Source : <<w, t>> \in Row
  /\ \A l \in TopRow : l[1] \in Worker /\ l = <<l[1], "TOP3">>
  /\ \A w \in Worker : <<w, "TOP3">> \in TopRow
  /\ \A ws \in SUBSET Worker, t \in {"POOL", "SWEPT"} : ws \X {t} \subseteq Row \ TopRow
BY DEF Row, Source, TopRow

\* Where the engine's steps take it.
LEMMA EngineMoves ==
  ASSUME engine \in Engine
  PROVE  /\ \A place \in EngineAt : Goto(place) =>
              /\ engine' \in Engine /\ engine'.at = place
              /\ engine'.top = engine.top /\ engine'.row = engine.row
         /\ Return => engine' \in Engine /\ engine'.at = "done" /\ engine'.top = {}
         /\ \A candidates \in SUBSET Worker : GoOn(candidates) =>
              engine' \in Engine /\ engine'.at = "queue" /\ engine'.top = candidates
<1>1. ASSUME NEW place \in EngineAt, Goto(place)
      PROVE  /\ engine' \in Engine /\ engine'.at = place
             /\ engine'.top = engine.top /\ engine'.row = engine.row
  BY <1>1 DEF Goto, Engine
<1>2. ASSUME Return
      PROVE  engine' \in Engine /\ engine'.at = "done" /\ engine'.top = {}
  BY <1>2 DEF Return, Engine, EngineAt, NewEngine
<1>3. ASSUME NEW candidates \in SUBSET Worker, GoOn(candidates)
      PROVE  engine' \in Engine /\ engine'.at = "queue" /\ engine'.top = candidates
  BY <1>3 DEF GoOn, Engine, EngineAt, NewEngine
<1> QED BY <1>1, <1>2, <1>3

LEMMA InitTypeInv == Init => TypeInv
BY NullAssumption, BoundAssumption, TopRows
DEF Init, TypeInv, TypeOK, MemoryOK, Status, Outcome, Engine, EngineAt, NewEngine,
    Response, NoResponse, Sweep, NoSweep, Row

LEMMA NextTypeInv == TypeInv /\ [Next]_vars => TypeInv'
<1> SUFFICES ASSUME TypeInv, [Next]_vars
             PROVE  TypeInv'
  OBVIOUS
<1> USE NullAssumption, BoundAssumption, TopRows
    DEF TypeInv, TypeOK, MemoryOK, Status, Outcome, Engine, EngineAt, Response,
        NoResponse, Sweep, NoSweep, database, memory, trouble
<1>1. CASE Score
  <2>1. PICK top \in SUBSET Worker, pool \in SUBSET Worker :
               engine' = [engine EXCEPT !.at = "scored", !.top = top, !.pool = pool]
    BY ONLY <1>1 DEF Score
  <2>2. /\ engine' \in Engine
        /\ engine'.at = "scored" /\ engine'.top = top /\ engine'.row = engine.row
    BY <2>1
  <2>3. \A w \in top : outcome[<<w, "TOP3">>] = "NONE"
    BY <1>1 DEF Score
  <2> QED BY <1>1, <2>2, <2>3 DEF Score
<1>2. CASE StartTop3 \/ OpenPool
  <2>1. engine' \in Engine /\ engine'.at \notin {"wait", "new"} /\ engine'.top \subseteq engine.top
    BY <1>2, EngineMoves DEF StartTop3, OpenPool
  <2> QED BY <1>2, <2>1 DEF StartTop3, OpenPool
<1>3. ASSUME NEW w \in Worker, OfferNext(w)
      PROVE  TypeInv'
  <2> DEFINE l == <<w, "TOP3">>
  <2>1. /\ engine' \in Engine
        /\ engine'.at = "wait" /\ engine'.top = engine.top \ {w} /\ engine'.row = l
    BY <1>3 DEF OfferNext
  <2>2. l \in TopRow /\ l \in Row
    OBVIOUS
  <2>3. outcome' = [m \in Row |-> IF m \in {l} THEN "OFFERED" ELSE outcome[m]]
    BY <1>3 DEF OfferNext, SetOutcome
  <2>4. \A v \in engine'.top : outcome'[<<v, "TOP3">>] = "NONE"
    <3> TAKE v \in engine'.top
    <3>1. v \in engine.top /\ v # w /\ v \in Worker
      BY <2>1
    <3>2. <<v, "TOP3">> # l /\ <<v, "TOP3">> \in Row
      BY <3>1
    <3> QED BY <3>1, <3>2, <2>3
  <2>5. \A m \in Row : outcome[m] # "NONE" => outcome'[m] # "NONE"
    BY <2>3
  <2> HIDE DEF l
  <2>6. TypeOK'
    BY <1>3, <2>1, <2>2, <2>3 DEF OfferNext
  <2> QED BY <1>3, <2>1, <2>2, <2>4, <2>5, <2>6 DEF OfferNext
<1>4. CASE Subscribe \/ HearAnswer
  <2>1. CASE Subscribe
    BY <1>4, <2>1 DEF Subscribe
  <2>2. CASE HearAnswer
    <3>1. /\ engine' \in Engine
          /\ engine'.at = "queue" /\ engine'.top \subseteq engine.top
      BY <2>2, EngineMoves DEF HearAnswer
    <3> QED BY <2>2, <3>1 DEF HearAnswer
  <2> QED BY <1>4, <2>1, <2>2
<1>5. CASE OfferTimeout
  <2>1. engine' \in Engine /\ engine'.at = "queue" /\ engine'.top = engine.top
    BY <1>5, EngineMoves DEF OfferTimeout
  <2>2. outcome' = [l \in Row |-> IF l \in Open({engine.row}) THEN "TIMEOUT" ELSE outcome[l]]
    BY <1>5 DEF OfferTimeout, CloseWaited, SetOutcome
  <2>3. \A l \in Row : /\ outcome[l] = "NONE" => outcome'[l] = "NONE"
                       /\ outcome[l] # "NONE" => outcome'[l] # "NONE"
    BY <2>2 DEF Open
  <2> QED BY <1>5, <2>1, <2>2, <2>3, ZenonT(30) DEF OfferTimeout
<1>6. CASE EndQueue \/ PollEnds \/ PoolTimeout
  <2>1. engine' \in Engine /\ engine'.at \notin {"wait", "new"} /\ engine'.top \subseteq engine.top
    BY <1>6, EngineMoves DEF EndQueue, PollEnds, PoolTimeout
  <2> QED BY <1>6, <2>1 DEF EndQueue, PollEnds, PoolTimeout
<1>7. CASE Broadcast \/ ClosePool
  BY <1>7 DEF Broadcast, ClosePool, SetOutcome, Open, Goto
<1>8. CASE CancelExhausted
  <2>1. engine' \in Engine /\ engine'.at = "done" /\ engine'.top = {}
    BY <1>8, EngineMoves DEF CancelExhausted
  <2> QED BY <1>8, <2>1 DEF CancelExhausted
<1>9. ASSUME NEW w \in Worker, NEW l \in Row, NEW step \in {"accepting", "declining"},
             BeginResponse(w, l, step)
      PROVE  TypeInv'
  BY <1>9 DEF BeginResponse
<1>10. ASSUME NEW w \in Worker, DeclineOffer(w) \/ LoseLock(w)
       PROVE  TypeInv'
  BY <1>10 DEF DeclineOffer, LoseLock, SetOutcome, Answered
<1>11. ASSUME NEW w \in Worker, AcceptOffer(w)
       PROVE  TypeInv'
  BY <1>11 DEF AcceptOffer, SetOutcome, Answered
<1>12. ASSUME NEW w \in Worker, PublishAnswer(w)
       PROVE  TypeInv'
  BY <1>12 DEF PublishAnswer, Answered
<1>13. CASE ConfirmTimer \/ CancelBooking
  BY <1>13 DEF ConfirmTimer, CancelBooking
<1>14. CASE SweepFind
  <2>1. /\ sweep' \in Sweep
        /\ sweep'.todo = Open(TopRow) \intersect due
    BY <1>14 DEF SweepFind, Open
  <2>2. TypeOK'
    BY <1>14, <2>1 DEF SweepFind
  <2>3. \A l \in sweep'.todo : l \in TopRow /\ outcome[l] # "NONE"
    BY <2>1 DEF Open
  <2>4. MemoryOK'
    BY <1>14, <2>3 DEF SweepFind
  <2> QED BY <2>2, <2>4
<1>15. ASSUME NEW l \in Row, SweepClose(l)
       PROVE  TypeInv'
  <2>1. sweep' \in Sweep /\ sweep'.todo = sweep.todo \ {l}
    BY <1>15 DEF SweepClose
  <2>2. outcome' = [m \in Row |-> IF m \in {l} THEN "TIMEOUT" ELSE outcome[m]]
    BY <1>15 DEF SweepClose, SetOutcome
  <2>3. outcome[l] # "NONE"
    BY <1>15 DEF SweepClose
  <2>4. \A m \in Row : /\ outcome[m] = "NONE" => outcome'[m] = "NONE"
                       /\ outcome[m] # "NONE" => outcome'[m] # "NONE"
    BY <2>2, <2>3
  <2>5. TypeOK'
    BY <1>15, <2>1, <2>2 DEF SweepClose
  <2>6. engine' = engine /\ response' = response
    BY <1>15 DEF SweepClose
  <2>7. MemoryOK'
    BY <2>1, <2>4, <2>6
  <2> QED BY <2>5, <2>7
<1>16. CASE SweepAdvance
  <2>1. \/ \E pool \in SUBSET Worker : sweep' = [sweep EXCEPT !.at = "open", !.pool = pool]
        \/ sweep' = [sweep EXCEPT !.at = "top3"]
    <3>1. CASE status = "DISPATCHING_TOP3" /\ Open(TopRow) = {}
      <4>1. PICK pool \in SUBSET Untried :
                   sweep' = [sweep EXCEPT !.at = "open", !.pool = pool]
        BY ONLY <1>16, <3>1 DEF SweepAdvance
      <4>2. pool \in SUBSET Worker
        BY ONLY <4>1 DEF Untried
      <4> QED BY ONLY <4>1, <4>2
    <3>2. CASE ~(status = "DISPATCHING_TOP3" /\ Open(TopRow) = {})
      BY ONLY <1>16, <3>2 DEF SweepAdvance, SweepGoto
    <3> QED BY ONLY <3>1, <3>2
  <2>2. sweep' \in Sweep /\ sweep'.todo = sweep.todo
    BY <2>1
  <2>3. UNCHANGED <<database, due, lock, engine, response, confirming, trouble>>
    BY ONLY <1>16 DEF SweepAdvance
  <2> QED BY <2>2, <2>3
<1>17. CASE SweepOpenPool \/ SweepCancel
  BY <1>17 DEF SweepOpenPool, SweepCancel, SweepTransition, SweepGoto
<1>18. CASE SweepFillPool
  BY <1>18 DEF SweepFillPool, SweepTransition, SweepGoto, SetOutcome
<1>19. CASE SweepFindPool \/ SweepCheckPool
  BY <1>19 DEF SweepFindPool, SweepCheckPool, SweepGoto
<1>20. CASE SweepClosePool
  BY <1>20 DEF SweepClosePool, SweepGoto, SetOutcome, Open
<1>21. CASE SweepConfirm
  BY <1>21 DEF SweepConfirm
<1>22. ASSUME NEW rows \in Cohort, Elapse(rows)
       PROVE  TypeInv'
  <2>1. rows \in SUBSET Row
    BY DEF Cohort
  <2> QED BY <1>22, <2>1 DEF Elapse
<1>23. CASE ExpireLock
  BY <1>23 DEF ExpireLock
<1>24. CASE EngineThrows \/ SweepThrows
  <2>1. CASE EngineThrows
    <3>1. /\ engine' \in Engine /\ engine'.at \notin {"wait", "new"}
          /\ engine'.top \subseteq engine.top
      BY <2>1, EngineMoves DEF EngineThrows
    <3> QED BY <2>1, <3>1 DEF EngineThrows, Throw
  <2>2. CASE SweepThrows
    BY <2>2 DEF SweepThrows, Throw
  <2> QED BY <1>24, <2>1, <2>2
<1>25. ASSUME NEW w \in Worker, ResponseThrows(w)
       PROVE  TypeInv'
  BY <1>25 DEF ResponseThrows, Throw, Answered
<1>26. CASE Restart
  <2>1. engine' \in Engine /\ engine'.at \notin {"wait", "new"} /\ engine'.top = {}
    BY <1>26 DEF Restart, NewEngine
  <2> QED BY <1>26, <2>1 DEF Restart
<1>27. CASE UNCHANGED vars
  BY <1>27 DEF vars
<1> HIDE DEF TypeInv
<1> QED
  BY <1>1, <1>2, <1>3, <1>4, <1>5, <1>6, <1>7, <1>8, <1>9, <1>10, <1>11, <1>12, <1>13,
     <1>14, <1>15, <1>16, <1>17, <1>18, <1>19, <1>20, <1>21, <1>22, <1>23, <1>24, <1>25,
     <1>26, <1>27
  DEF Next, EngineStep, ResponseStep, SweepStep

\* Theorem.  The booking, its rows and lock, and the engine, handlers, timers and
\* sweep in memory keep their types.
THEOREM TypeCorrect == Spec => []TypeOK
<1>1. TypeInv => TypeOK
  BY DEF TypeInv
<1> QED BY <1>1, InitTypeInv, NextTypeInv, PTL DEF Spec

-------------------------------------------------------------------------------
\* An open top-3 offer is waited for, because what the engine has heard, and what
\* a handler is about to publish, are answers to rows that are no longer open.
AnsweredIsClosed ==
  /\ engine.at = "wait" /\ engine.heard \in {"ACCEPTED", "DECLINED"} =>
       outcome[engine.row] # "OFFERED"
  /\ \A w \in Worker :
       response[w].at \in {"accepted", "declined"} /\ response[w].row \in TopRow =>
         outcome[response[w].row] # "OFFERED"

WaitInv == OpenOfferIsWaitedFor /\ AnsweredIsClosed

\* No top-3 row is opened that was not open before.
NoneOpened == \A l \in TopRow : outcome'[l] = "OFFERED" => outcome[l] = "OFFERED"

LEMMA InitWaitInv == Init => WaitInv
BY TopRows
DEF Init, WaitInv, OpenOfferIsWaitedFor, AnsweredIsClosed, Open, NewEngine, NoResponse

\* A step that opens no top-3 row keeps WaitInv, if the engine does not take part or
\* is not waiting before and after it.
LEMMA QuietStep ==
  ASSUME TypeInv, WaitInv, NoneOpened, UNCHANGED <<response, errors>>,
         engine' = engine \/ (engine.at \notin {"wait", "dead"} /\ engine'.at # "wait")
  PROVE  WaitInv'
BY TopRows
DEF TypeInv, TypeOK, MemoryOK, WaitInv, OpenOfferIsWaitedFor, AnsweredIsClosed, NoneOpened,
    Open, Response, Engine

\* So does a handler's step, if the handler answers only what is closed by then.
LEMMA HandlerStep ==
  ASSUME TypeInv, WaitInv, NoneOpened, UNCHANGED <<engine, errors>>,
         NEW w \in Worker, NEW r \in Response, response' = [response EXCEPT ![w] = r],
         r.at \in {"accepted", "declined"} /\ r.row \in TopRow => outcome'[r.row] # "OFFERED"
  PROVE  WaitInv'
<1>1. OpenOfferIsWaitedFor'
  BY TopRows DEF TypeInv, TypeOK, WaitInv, OpenOfferIsWaitedFor, NoneOpened, Open
<1>2. (engine.at = "wait" /\ engine.heard \in {"ACCEPTED", "DECLINED"} =>
         outcome[engine.row] # "OFFERED")'
  BY DEF TypeInv, TypeOK, MemoryOK, WaitInv, AnsweredIsClosed, NoneOpened
<1>3. ASSUME NEW v \in Worker,
             response'[v].at \in {"accepted", "declined"}, response'[v].row \in TopRow
      PROVE  outcome'[response'[v].row] # "OFFERED"
  <2>1. CASE v = w
    BY <1>3, <2>1 DEF TypeInv, TypeOK
  <2>2. CASE v # w
    BY <1>3, <2>2 DEF TypeInv, TypeOK, WaitInv, AnsweredIsClosed, NoneOpened
  <2> QED BY <2>1, <2>2
<1> QED BY <1>1, <1>2, <1>3 DEF WaitInv, AnsweredIsClosed

LEMMA NextWaitInv == TypeInv /\ WaitInv /\ [Next]_vars => WaitInv'
<1> SUFFICES ASSUME TypeInv, WaitInv, [Next]_vars
             PROVE  WaitInv'
  OBVIOUS
<1>a. engine \in Engine /\ response \in [Worker -> Response] /\ outcome \in [Row -> Outcome]
  BY DEF TypeInv, TypeOK
<1>1. CASE Score \/ StartTop3 \/ EndQueue \/ OpenPool \/ PollEnds \/ PoolTimeout
           \/ CancelExhausted
  <2>1. NoneOpened /\ UNCHANGED <<response, errors>>
    BY <1>1 DEF Score, StartTop3, EndQueue, OpenPool, PollEnds, PoolTimeout,
                CancelExhausted, NoneOpened, database, trouble
  <2>2. engine.at \notin {"wait", "dead"} /\ engine'.at # "wait"
    <3>1. CASE Score
      BY <3>1, <1>a DEF Score, Engine
    <3>2. CASE ~Score
      BY <1>1, <1>a, <3>2, EngineMoves DEF StartTop3, EndQueue, OpenPool, PollEnds,
         PoolTimeout, CancelExhausted, EngineAt
    <3> QED BY <3>1, <3>2
  <2> QED BY <2>1, <2>2, QuietStep
<1>2. ASSUME NEW w \in Worker, OfferNext(w)
      PROVE  WaitInv'
  <2> DEFINE l == <<w, "TOP3">>
  <2>1. l \in TopRow /\ engine.at = "queue" /\ outcome[l] = "NONE"
    BY <1>2, TopRows DEF OfferNext, TypeInv, MemoryOK
  <2>2. engine'.at = "wait" /\ engine'.row = l /\ engine'.heard = "nothing"
    BY <1>2, <1>a DEF OfferNext, Engine
  <2>3. outcome' = [m \in Row |-> IF m \in {l} THEN "OFFERED" ELSE outcome[m]]
    BY <1>2 DEF OfferNext, SetOutcome
  <2>4. response' = response /\ errors' = errors
    BY <1>2 DEF OfferNext, trouble
  <2> HIDE DEF l
  <2>5. OpenOfferIsWaitedFor'
    BY <2>1, <2>2, <2>3, <2>4, TopRows DEF WaitInv, OpenOfferIsWaitedFor, Open
  <2>6. \A v \in Worker : response[v].at \in {"accepted", "declined"} =>
          response[v].row \in Row /\ response[v].row # l
    BY <2>1 DEF TypeInv, MemoryOK
  <2>7. AnsweredIsClosed'
    BY <2>2, <2>3, <2>4, <2>6 DEF WaitInv, AnsweredIsClosed
  <2> QED BY <2>5, <2>7 DEF WaitInv
<1>3. CASE Subscribe \/ HearAnswer
  <2>1. CASE Subscribe
    <3>1. engine.at = "wait" /\ engine'.at = "wait" /\ engine'.row = engine.row
          /\ engine'.heard = "listening"
      BY <2>1, <1>a DEF Subscribe, Engine
    <3>2. UNCHANGED <<outcome, response, errors>>
      BY <2>1 DEF Subscribe, database, trouble
    <3> QED BY <3>1, <3>2 DEF WaitInv, OpenOfferIsWaitedFor, AnsweredIsClosed, Open
  <2>2. CASE HearAnswer
    <3>1. /\ engine.at = "wait" /\ engine.heard \in {"ACCEPTED", "DECLINED"}
          /\ engine'.at = "queue"
      BY <2>2, <1>a, EngineMoves DEF HearAnswer, Engine
    <3>2. UNCHANGED <<outcome, response, errors>>
      BY <2>2 DEF HearAnswer, database, trouble
    <3> QED BY <3>1, <3>2 DEF WaitInv, OpenOfferIsWaitedFor, AnsweredIsClosed, Open
  <2> QED BY <1>3, <2>1, <2>2
<1>4. CASE OfferTimeout
  <2>1. engine.at = "wait" /\ engine'.at = "queue"
    BY <1>4, <1>a, EngineMoves DEF OfferTimeout, Engine
  <2>2. outcome' = [l \in Row |-> IF l \in Open({engine.row}) THEN "TIMEOUT" ELSE outcome[l]]
    BY <1>4 DEF OfferTimeout, CloseWaited, SetOutcome
  <2>3. UNCHANGED <<response, errors>>
    BY <1>4 DEF OfferTimeout, trouble
  <2>4. OpenOfferIsWaitedFor'
    BY <2>1, <2>2, <2>3, TopRows DEF WaitInv, OpenOfferIsWaitedFor, Open
  <2>5. AnsweredIsClosed'
    BY <2>1, <2>2, <2>3, TopRows DEF WaitInv, AnsweredIsClosed
  <2> QED BY <2>4, <2>5 DEF WaitInv
<1>5. CASE Broadcast \/ ClosePool
  <2>1. engine.at \notin {"wait", "dead"} /\ engine'.at # "wait"
    BY <1>5, <1>a DEF Broadcast, ClosePool, Goto, Engine
  <2>2. NoneOpened
    <3>1. CASE Broadcast
      BY <3>1, <1>a, TopRows DEF Broadcast, SetOutcome, NoneOpened, TopRow
    <3>2. CASE ClosePool
      BY <3>2, <1>a, TopRows DEF ClosePool, SetOutcome, NoneOpened
    <3> QED BY <1>5, <3>1, <3>2
  <2>3. UNCHANGED <<response, errors>>
    BY <1>5 DEF Broadcast, ClosePool, trouble
  <2> QED BY <2>1, <2>2, <2>3, QuietStep
<1>6. ASSUME NEW w \in Worker, NEW l \in Row, NEW step \in {"accepting", "declining"},
             BeginResponse(w, l, step)
      PROVE  WaitInv'
  <2> DEFINE r == [at |-> step, row |-> l]
  <2>1. r \in Response /\ r.at \notin {"accepted", "declined"}
    BY DEF Response
  <2>2. response' = [response EXCEPT ![w] = r] /\ NoneOpened /\ UNCHANGED <<engine, errors>>
    BY <1>6 DEF BeginResponse, NoneOpened, database, trouble
  <2> HIDE DEF r
  <2> QED BY <2>1, <2>2, HandlerStep
<1>7. ASSUME NEW w \in Worker, DeclineOffer(w)
      PROVE  WaitInv'
  <2> DEFINE r == [response[w] EXCEPT !.at = "declined"]
  <2>1. r \in Response /\ r.row = response[w].row
    BY <1>a DEF Response
  <2>2. response' = [response EXCEPT ![w] = r] /\ UNCHANGED <<engine, errors>>
    BY <1>7, <1>a DEF DeclineOffer, trouble
  <2>3. outcome' = [l \in Row |-> IF l \in {r.row} THEN "DECLINED" ELSE outcome[l]]
    BY <1>7, <2>1 DEF DeclineOffer, SetOutcome
  <2> HIDE DEF r
  <2>4. NoneOpened /\ (r.row \in TopRow => outcome'[r.row] # "OFFERED")
    BY <2>3, TopRows DEF NoneOpened
  <2> QED BY <2>1, <2>2, <2>4, HandlerStep
<1>8. ASSUME NEW w \in Worker, LoseLock(w)
      PROVE  WaitInv'
  <2>1. response' = [response EXCEPT ![w] = NoResponse] /\ UNCHANGED <<engine, errors>>
    BY <1>8 DEF LoseLock, Answered, trouble
  <2>2. NoneOpened
    BY <1>8, TopRows DEF LoseLock, SetOutcome, NoneOpened
  <2>3. NoResponse \in Response /\ NoResponse.at = "none"
    BY DEF NoResponse, Response
  <2> QED BY <2>1, <2>2, <2>3, HandlerStep
<1>9. ASSUME NEW w \in Worker, AcceptOffer(w)
      PROVE  WaitInv'
  <2>1. UNCHANGED <<engine, errors>>
    BY <1>9 DEF AcceptOffer, trouble
  <2>2. CASE assigned = Null
    <3> DEFINE r == [response[w] EXCEPT !.at = "accepted"]
    <3>1. r \in Response /\ r.row = response[w].row
      BY <1>a DEF Response
    <3>2. response' = [response EXCEPT ![w] = r]
      BY <1>9, <1>a, <2>2 DEF AcceptOffer
    <3>3. outcome' = [l \in Row |-> IF l \in {r.row} THEN "ACCEPTED" ELSE outcome[l]]
      BY <1>9, <2>2, <3>1 DEF AcceptOffer, SetOutcome
    <3> HIDE DEF r
    <3>4. NoneOpened /\ (r.row \in TopRow => outcome'[r.row] # "OFFERED")
      BY <3>3, TopRows DEF NoneOpened
    <3> QED BY <2>1, <3>1, <3>2, <3>4, HandlerStep
  <2>3. CASE assigned # Null
    <3>1. response' = [response EXCEPT ![w] = NoResponse] /\ NoneOpened
      BY <1>9, <2>3 DEF AcceptOffer, Answered, NoneOpened, database
    <3>2. NoResponse \in Response /\ NoResponse.at = "none"
      BY DEF NoResponse, Response
    <3> QED BY <2>1, <3>1, <3>2, HandlerStep
  <2> QED BY <2>2, <2>3
<1>10. ASSUME NEW w \in Worker, PublishAnswer(w)
       PROVE  WaitInv'
  <2>1. /\ UNCHANGED <<outcome, errors>>
        /\ response' = [response EXCEPT ![w] = NoResponse]
        /\ response[w].at \in {"accepted", "declined"}
    BY <1>10 DEF PublishAnswer, Answered, database, trouble
  <2>2. CASE engine' = engine
    <3>1. NoResponse \in Response /\ NoResponse.at = "none"
      BY DEF NoResponse, Response
    <3> QED BY <2>1, <2>2, <3>1, HandlerStep DEF NoneOpened
  <2>3. CASE engine' # engine
    <3>1. /\ engine.at = "wait" /\ engine.row = response[w].row
          /\ engine'.at = "wait" /\ engine'.row = engine.row
      BY <1>10, <1>a, <2>3 DEF PublishAnswer, Engine
    <3>2. outcome[engine.row] # "OFFERED"
      BY <2>1, <3>1 DEF TypeInv, MemoryOK, WaitInv, AnsweredIsClosed
    <3>3. OpenOfferIsWaitedFor'
      BY <2>1, <3>1 DEF WaitInv, OpenOfferIsWaitedFor, Open
    <3>4. \A v \in Worker : response'[v].at \in {"accepted", "declined"} =>
            response'[v] = response[v]
      BY <1>a, <2>1 DEF NoResponse
    <3> QED BY <2>1, <3>1, <3>2, <3>3, <3>4 DEF WaitInv, AnsweredIsClosed
  <2> QED BY <2>2, <2>3
<1>11. CASE ConfirmTimer \/ CancelBooking \/ ExpireLock \/ \E rows \in Cohort : Elapse(rows)
  <2>1. NoneOpened /\ UNCHANGED <<response, errors>> /\ engine' = engine
    BY <1>11 DEF ConfirmTimer, CancelBooking, ExpireLock, Elapse, NoneOpened, database,
                 memory, trouble
  <2> QED BY <2>1, QuietStep
<1>12. CASE SweepStep
  <2>1. UNCHANGED <<engine, response, errors>>
    BY <1>12 DEF SweepStep, SweepFind, SweepClose, SweepAdvance, SweepOpenPool, SweepFillPool,
                 SweepFindPool, SweepCheckPool, SweepClosePool, SweepCancel, SweepConfirm,
                 trouble
  <2>2. NoneOpened
    <3>1. CASE SweepFind \/ SweepAdvance \/ SweepOpenPool \/ SweepFindPool \/ SweepCheckPool
               \/ SweepCancel \/ SweepConfirm
      BY <3>1 DEF SweepFind, SweepAdvance, SweepOpenPool, SweepFindPool, SweepCheckPool,
                  SweepCancel, SweepConfirm, NoneOpened, database
    <3>2. CASE SweepFillPool
      BY <3>2, TopRows DEF SweepFillPool, SetOutcome, NoneOpened, TopRow
    <3>3. CASE SweepClosePool
      BY <3>3, TopRows DEF SweepClosePool, SetOutcome, NoneOpened
    <3>4. ASSUME NEW l \in Row, SweepClose(l)
          PROVE  NoneOpened
      BY <3>4, TopRows DEF SweepClose, SetOutcome, NoneOpened
    <3> QED BY <1>12, <3>1, <3>2, <3>3, <3>4 DEF SweepStep
  <2> QED BY <2>1, <2>2, QuietStep
<1>13. CASE EngineThrows \/ SweepThrows \/ \E w \in Worker : ResponseThrows(w)
  <2>1. errors' # 0 /\ outcome' = outcome
    BY <1>13 DEF EngineThrows, SweepThrows, ResponseThrows, Throw, TypeInv, TypeOK, database
  <2>2. engine'.at = "wait" => engine' = engine
    BY <1>13, <1>a, EngineMoves DEF EngineThrows, SweepThrows, ResponseThrows, Engine
  <2>3. \A v \in Worker : response'[v].at \in {"accepted", "declined"} =>
          response'[v] = response[v]
    BY <1>13, <1>a DEF EngineThrows, SweepThrows, ResponseThrows, Answered, NoResponse
  <2> QED BY <2>1, <2>2, <2>3 DEF WaitInv, OpenOfferIsWaitedFor, AnsweredIsClosed
<1>14. CASE Restart
  <2>1. UNCHANGED <<outcome, errors>> /\ response' = [w \in Worker |-> NoResponse]
    BY <1>14 DEF Restart, database
  <2>2. engine'.at = IF engine.at = "done" THEN "done" ELSE "dead"
    BY <1>14 DEF Restart, NewEngine
  <2> QED BY <2>1, <2>2
      DEF WaitInv, OpenOfferIsWaitedFor, AnsweredIsClosed, Open, NoResponse
<1>15. CASE UNCHANGED vars
  <2>1. NoneOpened /\ UNCHANGED <<response, errors>> /\ engine' = engine
    BY <1>15 DEF vars, NoneOpened, database, memory, trouble
  <2> QED BY <2>1, QuietStep
<1> QED
  BY <1>1, <1>2, <1>3, <1>4, <1>5, <1>6, <1>7, <1>8, <1>9, <1>10, <1>11, <1>12, <1>13,
     <1>14, <1>15
  DEF Next, EngineStep, ResponseStep

\* Theorem.  While nothing has thrown, an open offer of the sequential queue is the
\* one the engine waits for, or the server has stopped since it was made.
THEOREM OpenOfferIsWaitedForAlways == Spec => []OpenOfferIsWaitedFor
<1>1. WaitInv => OpenOfferIsWaitedFor
  BY DEF WaitInv
<1> QED BY <1>1, InitTypeInv, NextTypeInv, InitWaitInv, NextWaitInv, PTL DEF Spec
=============================================================================
