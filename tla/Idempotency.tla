----------------------------- MODULE Idempotency -----------------------------
(***************************************************************************)
(* The idempotent() middleware around one route of one user: the           *)
(* IdempotencyKey rows, and the attempts in flight.  An attempt goes       *)
(* through                                                                 *)
(*                                                                         *)
(*   "missed"      its lookup found no row                                 *)
(*   "handling"    it has created the row, the handler runs                *)
(*   "answering"   the handler, or the error handler, calls res.json       *)
(*   "persisting"  the answer is sent, the update of the row is not        *)
(*                 awaited and may not have been made yet                  *)
(*                                                                         *)
(* A client may send a key again at any time, with the same body or with   *)
(* another.  A 409 changes nothing and is not a step.  The handler is      *)
(* abstract: it makes its mutation or not, and answers "ok" only if it     *)
(* has.  The target of the request (the :id of the path) is not part of    *)
(* the key nor of the hash, nor of this module.                            *)
(*                                                                         *)
(* An operator marked "Variant" is not part of the specification.          *)
(***************************************************************************)
EXTENDS Naturals

CONSTANTS
  Key,         \* values of the Idempotency-Key header
  Body,        \* request bodies, told apart by their hash
  Request,     \* handler slots: the bound on attempts in flight at once
  Null,
  MaxTrouble   \* the bound on restarts and failed updates

ASSUME TroubleAssumption == MaxTrouble \in Nat

VARIABLES
  row,       \* the IdempotencyKey row of the key, or NoRow
  attempt,   \* the attempts in flight
  effects,   \* history: how often the key's mutation was made
  heard,     \* history: what clients were told for the key, 409s apart
  trouble    \* how many restarts and failed updates there were

vars == <<row, attempt, effects, heard, trouble>>

Answer == {"ok", "failed"}

Row == [body   : Body,
        status : {"IN_PROGRESS", "COMPLETED"},
        answer : Answer \union {Null}]
NoRow == [body |-> Null, status |-> "none", answer |-> Null]

Attempt == [key    : Key,
            body   : Body,
            at     : {"missed", "handling", "answering", "persisting"},
            answer : Answer \union {Null}]
Idle == [key |-> Null, body |-> Null, at |-> "idle", answer |-> Null]

ASSUME NullAssumption == Null \notin Key \union Body \union Answer

Reply(body, answer) == [body |-> body, answer |-> answer]

TypeOK ==
  /\ row \in [Key -> Row \union {NoRow}]
  /\ attempt \in [Request -> Attempt \union {Idle}]
  /\ effects \in [Key -> Nat]
  /\ heard \in [Key -> SUBSET [body : Body, answer : Answer]]
  /\ trouble \in 0..MaxTrouble

Init ==
  /\ row = [k \in Key |-> NoRow]
  /\ attempt = [q \in Request |-> Idle]
  /\ effects = [k \in Key |-> 0]
  /\ heard = [k \in Key |-> {}]
  /\ trouble = 0

-------------------------------------------------------------------------------
\* The lookup finds no row.
Miss(q, k, body) ==
  /\ attempt[q] = Idle
  /\ row[k] = NoRow
  /\ attempt' = [attempt EXCEPT
       ![q] = [key |-> k, body |-> body, at |-> "missed", answer |-> Null]]
  /\ UNCHANGED <<row, effects, heard, trouble>>

\* Variant: the hash of the body is not compared.
ReplayToAnyBody(q, k, body) ==
  /\ attempt[q] = Idle
  /\ row[k].status = "COMPLETED"
  /\ heard' = [heard EXCEPT ![k] = @ \union {Reply(body, row[k].answer)}]
  /\ UNCHANGED <<row, attempt, effects, trouble>>

\* The lookup finds the answer of the same body; any other row is a 409.
Replay(q, k, body) ==
  /\ attempt[q] = Idle
  /\ row[k].body = body
  /\ row[k].status = "COMPLETED"
  /\ heard' = [heard EXCEPT ![k] = @ \union {Reply(body, row[k].answer)}]
  /\ UNCHANGED <<row, attempt, effects, trouble>>

\* Variant: the row is upserted.
ClaimAnyway(q) ==
  /\ attempt[q].at = "missed"
  /\ row' = [row EXCEPT ![attempt[q].key] =
       [body |-> attempt[q].body, status |-> "IN_PROGRESS", answer |-> Null]]
  /\ attempt' = [attempt EXCEPT ![q].at = "handling"]
  /\ UNCHANGED <<effects, heard, trouble>>

\* Variant: the row is created without its status.
ClaimUnmarked(q) ==
  /\ attempt[q].at = "missed"
  /\ row[attempt[q].key] = NoRow
  /\ row' = [row EXCEPT ![attempt[q].key] =
       [body |-> attempt[q].body, status |-> "none", answer |-> Null]]
  /\ attempt' = [attempt EXCEPT ![q].at = "handling"]
  /\ UNCHANGED <<effects, heard, trouble>>

\* The row is created; (userId, route, key) is unique.
Claim(q) ==
  /\ attempt[q].at = "missed"
  /\ row[attempt[q].key] = NoRow
  /\ row' = [row EXCEPT ![attempt[q].key] =
       [body |-> attempt[q].body, status |-> "IN_PROGRESS", answer |-> Null]]
  /\ attempt' = [attempt EXCEPT ![q].at = "handling"]
  /\ UNCHANGED <<effects, heard, trouble>>

\* A concurrent attempt with the same key won.
LoseClaim(q) ==
  /\ attempt[q].at = "missed"
  /\ row[attempt[q].key] # NoRow
  /\ attempt' = [attempt EXCEPT ![q] = Idle]
  /\ UNCHANGED <<row, effects, heard, trouble>>

\* The route's handler: it may also fail after its mutation has committed.
Handle(q) ==
  \E made \in BOOLEAN, answer \in Answer :
    /\ attempt[q].at = "handling"
    /\ answer = "ok" => made
    /\ effects' = IF made THEN [effects EXCEPT ![attempt[q].key] = @ + 1] ELSE effects
    /\ attempt' = [attempt EXCEPT ![q].at = "answering", ![q].answer = answer]
    /\ UNCHANGED <<row, heard, trouble>>

\* res.json: the answer leaves, whatever becomes of the update it started.
Respond(q) ==
  LET k == attempt[q].key IN
  /\ attempt[q].at = "answering"
  /\ heard' = [heard EXCEPT ![k] = @ \union {Reply(attempt[q].body, attempt[q].answer)}]
  /\ attempt' = [attempt EXCEPT ![q].at = "persisting"]
  /\ UNCHANGED <<row, effects, trouble>>

\* Variant: only a success is stored.
PersistSuccess(q) ==
  LET k == attempt[q].key IN
  /\ attempt[q].at = "persisting"
  /\ row' = IF attempt[q].answer = "ok"
              THEN [row EXCEPT ![k].status = "COMPLETED", ![k].answer = attempt[q].answer]
              ELSE row
  /\ attempt' = [attempt EXCEPT ![q] = Idle]
  /\ UNCHANGED <<effects, heard, trouble>>

\* The answer is stored, an error's like any other.
Persist(q) ==
  LET k == attempt[q].key IN
  /\ attempt[q].at = "persisting"
  /\ row' = [row EXCEPT ![k].status = "COMPLETED", ![k].answer = attempt[q].answer]
  /\ attempt' = [attempt EXCEPT ![q] = Idle]
  /\ UNCHANGED <<effects, heard, trouble>>

\* The update fails: logged, and the row stays as it is.
PersistFails(q) ==
  /\ trouble < MaxTrouble
  /\ attempt[q].at = "persisting"
  /\ attempt' = [attempt EXCEPT ![q] = Idle]
  /\ trouble' = trouble + 1
  /\ UNCHANGED <<row, effects, heard>>

\* The server stops and starts again: the rows are all that is left.
Restart ==
  /\ trouble < MaxTrouble
  /\ attempt' = [q \in Request |-> Idle]
  /\ trouble' = trouble + 1
  /\ UNCHANGED <<row, effects, heard>>

Proceed(q) == Claim(q) \/ LoseClaim(q) \/ Handle(q) \/ Respond(q) \/ Persist(q)

Next ==
  \/ \E q \in Request, k \in Key, body \in Body : Miss(q, k, body) \/ Replay(q, k, body)
  \/ \E q \in Request : Proceed(q) \/ PersistFails(q)
  \/ Restart

\* Every attempt the server has begun goes on; clients owe nothing.
Fairness == \A q \in Request : WF_vars(Proceed(q))

Spec == Init /\ [][Next]_vars /\ Fairness

-------------------------------------------------------------------------------
\* idempotent(): however often and however concurrently a key is sent, and
\* whatever restarts meanwhile, its mutation is made at most once.
OneEffectPerKey == \A k \in Key : effects[k] <= 1

\* Every client that is told something other than 409 for a key is told the same
\* answer, and had sent the same body.
OneReplyPerKey == \A k \in Key : \A x, y \in heard[k] : x = y

\* A key that is IN_PROGRESS is COMPLETED at last, unless a restart or a failed
\* update came in between: then no one completes it (expiresAt is never read).
UndisturbedKeyCompletes ==
  \A k \in Key :
    row[k].status = "IN_PROGRESS" ~> row[k].status = "COMPLETED" \/ trouble > 0
=============================================================================
