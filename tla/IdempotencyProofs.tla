--------------------------- MODULE IdempotencyProofs ---------------------------
(***************************************************************************)
(* Idempotency, for every set of keys, bodies and attempts: a key's        *)
(* mutation is made at most once, and one reply is all a key ever gets.    *)
(*                                                                         *)
(* OneEffectPerKey is not inductive: it needs that at most one attempt is  *)
(* past the creation of a key's row, and what that attempt still has ahead *)
(* of it.  KeyInv says both, key by key.                                   *)
(***************************************************************************)
EXTENDS Idempotency, TLAPS

\* The attempts that created the row of k and have not finished.
Holds(q, k) ==
  /\ attempt[q].at \in {"handling", "answering", "persisting"}
  /\ attempt[q].key = k

\* What the attempt that holds a key relies on.
HolderInv ==
  \A q \in Request, k \in Key :
    Holds(q, k) =>
      /\ row[k].status = "IN_PROGRESS"
      /\ row[k].body = attempt[q].body
      /\ \A p \in Request : Holds(p, k) => p = q
      /\ attempt[q].at = "handling" => effects[k] = 0
      /\ attempt[q].at \in {"handling", "answering"} => heard[k] = {}
      /\ attempt[q].at = "persisting" =>
           heard[k] = {Reply(attempt[q].body, attempt[q].answer)}

\* What a key relies on that no attempt holds.
RowInv ==
  \A k \in Key :
    /\ row[k] = NoRow => effects[k] = 0 /\ heard[k] = {}
    /\ row[k].status = "COMPLETED" =>
         heard[k] = {Reply(row[k].body, row[k].answer)}

\* An attempt that is answered has an answer.
AnswerInv ==
  \A q \in Request :
    attempt[q].at \in {"answering", "persisting"} => attempt[q].answer \in Answer

KeyInv ==
  TypeOK /\ HolderInv /\ RowInv /\ AnswerInv /\ OneEffectPerKey /\ OneReplyPerKey

-------------------------------------------------------------------------------
LEMMA InitKeyInv == Init => KeyInv
<1> SUFFICES ASSUME Init
             PROVE  KeyInv
  OBVIOUS
<1>1. TypeOK
  BY TroubleAssumption DEF Init, TypeOK
<1>2. HolderInv /\ AnswerInv
  BY DEF Init, HolderInv, AnswerInv, Holds, Idle
<1>3. RowInv /\ OneEffectPerKey /\ OneReplyPerKey
  BY DEF Init, RowInv, OneEffectPerKey, OneReplyPerKey, NoRow
<1> QED BY <1>1, <1>2, <1>3 DEF KeyInv

\* An attempt that goes back to idle holds nothing; the rest is as it was.
LEMMA GiveUp ==
  ASSUME KeyInv,
         attempt' \in [Request -> Attempt \union {Idle}],
         \A p \in Request : attempt'[p] = attempt[p] \/ attempt'[p] = Idle,
         UNCHANGED <<row, effects, heard>>, trouble' \in 0..MaxTrouble
  PROVE  KeyInv'
<1>1. TypeOK'
  BY DEF KeyInv, TypeOK
<1>2. \A p \in Request, k \in Key : Holds(p, k)' => Holds(p, k) /\ attempt'[p] = attempt[p]
  BY DEF Holds, Idle
<1>3. HolderInv'
  BY <1>2 DEF KeyInv, HolderInv
<1>4. RowInv' /\ OneEffectPerKey' /\ OneReplyPerKey'
  BY DEF KeyInv, RowInv, OneEffectPerKey, OneReplyPerKey
<1>5. AnswerInv'
  BY DEF KeyInv, AnswerInv, Idle
<1> QED BY <1>1, <1>3, <1>4, <1>5 DEF KeyInv

LEMMA LookupKeeps ==
  ASSUME KeyInv, NEW q \in Request, NEW k \in Key, NEW body \in Body,
         Miss(q, k, body) \/ Replay(q, k, body)
  PROVE  KeyInv'
<1>1. CASE Miss(q, k, body)
  <2> DEFINE new == [key |-> k, body |-> body, at |-> "missed", answer |-> Null]
  <2>1. new \in Attempt /\ new.at = "missed"
    BY DEF Attempt
  <2>2. /\ attempt'[q] = new
        /\ \A p \in Request \ {q} : attempt'[p] = attempt[p]
        /\ attempt' \in [Request -> Attempt \union {Idle}]
        /\ UNCHANGED <<row, effects, heard, trouble>>
    BY <1>1, <2>1 DEF Miss, KeyInv, TypeOK
  <2> HIDE DEF new
  <2>3. \A p \in Request, j \in Key : Holds(p, j)' => Holds(p, j) /\ attempt'[p] = attempt[p]
    BY <2>1, <2>2 DEF Holds
  <2>4. HolderInv'
    BY <2>2, <2>3 DEF KeyInv, HolderInv
  <2>5. AnswerInv'
    BY <2>1, <2>2 DEF KeyInv, AnswerInv
  <2> QED BY <2>2, <2>4, <2>5 DEF KeyInv, TypeOK, RowInv, OneEffectPerKey, OneReplyPerKey
<1>2. CASE Replay(q, k, body)
  <2>1. row[k] \in Row /\ heard[k] = {Reply(row[k].body, row[k].answer)}
    BY <1>2 DEF Replay, KeyInv, TypeOK, RowInv, NoRow
  <2>2. heard' = heard
    BY <1>2, <2>1 DEF Replay, KeyInv, TypeOK
  <2>3. trouble' \in 0..MaxTrouble
    BY <1>2 DEF Replay, KeyInv, TypeOK
  <2>4. attempt' \in [Request -> Attempt \union {Idle}]
    BY <1>2 DEF Replay, KeyInv, TypeOK
  <2> QED BY <1>2, <2>2, <2>3, <2>4, GiveUp DEF Replay
<1> QED BY <1>1, <1>2

LEMMA ClaimKeeps ==
  ASSUME KeyInv, NEW q \in Request, Claim(q)
  PROVE  KeyInv'
<1> DEFINE k == attempt[q].key
           new == [body |-> attempt[q].body, status |-> "IN_PROGRESS", answer |-> Null]
<1>1. attempt[q] \in Attempt /\ k \in Key /\ row[k] = NoRow
  BY DEF Claim, KeyInv, TypeOK, Attempt, Idle
<1>2. new \in Row /\ new # NoRow /\ new.status = "IN_PROGRESS" /\ new.body = attempt[q].body
  BY <1>1, NullAssumption DEF Row, NoRow, Attempt
<1>3. /\ row'[k] = new
      /\ \A j \in Key \ {k} : row'[j] = row[j]
      /\ row' \in [Key -> Row \union {NoRow}]
  BY <1>1, <1>2 DEF Claim, KeyInv, TypeOK
<1>4. /\ attempt'[q] \in Attempt
      /\ attempt'[q].at = "handling" /\ attempt'[q].key = k
      /\ attempt'[q].body = attempt[q].body
      /\ \A p \in Request \ {q} : attempt'[p] = attempt[p]
      /\ attempt' \in [Request -> Attempt \union {Idle}]
  BY <1>1 DEF Claim, KeyInv, TypeOK, Attempt
<1>5. UNCHANGED <<effects, heard, trouble>>
  BY DEF Claim
<1> HIDE DEF new, k
<1>6. effects[k] = 0 /\ heard[k] = {} /\ row[k].status = "none"
  BY <1>1 DEF KeyInv, RowInv, NoRow
<1>7. \A p \in Request : ~Holds(p, k)
  BY <1>1, <1>6 DEF KeyInv, HolderInv
<1>8. \A p \in Request, j \in Key :
        Holds(p, j)' <=> (p = q /\ j = k) \/ (p # q /\ Holds(p, j))
  <2>1. ~(\E j \in Key : Holds(q, j))
    BY DEF Claim, Holds
  <2> QED BY <1>4, <2>1 DEF Holds
<1>9. HolderInv'
  <2> SUFFICES ASSUME NEW p \in Request, NEW j \in Key, Holds(p, j)'
               PROVE  /\ row'[j].status = "IN_PROGRESS"
                      /\ row'[j].body = attempt'[p].body
                      /\ \A r \in Request : Holds(r, j)' => r = p
                      /\ attempt'[p].at = "handling" => effects'[j] = 0
                      /\ attempt'[p].at \in {"handling", "answering"} => heard'[j] = {}
                      /\ attempt'[p].at = "persisting" =>
                           heard'[j] = {Reply(attempt'[p].body, attempt'[p].answer)}
    BY DEF HolderInv, Holds
  <2>1. CASE p = q /\ j = k
    BY <1>2, <1>3, <1>4, <1>5, <1>6, <1>7, <1>8, <2>1
  <2>2. CASE p # q /\ Holds(p, j)
    <3>1. j # k
      BY <1>7, <2>2
    <3> QED BY <1>3, <1>4, <1>5, <1>8, <2>2, <3>1 DEF KeyInv, HolderInv
  <2> QED BY <1>8, <2>1, <2>2
<1>10. RowInv'
  BY <1>2, <1>3, <1>5 DEF KeyInv, RowInv
<1>11. AnswerInv'
  BY <1>4 DEF KeyInv, AnswerInv
<1> QED BY <1>3, <1>4, <1>5, <1>9, <1>10, <1>11
        DEF KeyInv, TypeOK, OneEffectPerKey, OneReplyPerKey

\* Steps of the attempt that holds a key: it goes on with its key and body, and
\* nothing of another key changes.
LEMMA HandleKeeps ==
  ASSUME KeyInv, NEW q \in Request, Handle(q)
  PROVE  KeyInv'
<1> DEFINE k == attempt[q].key
<1>1. attempt[q] \in Attempt /\ k \in Key /\ Holds(q, k) /\ attempt[q].at = "handling"
  BY DEF Handle, KeyInv, TypeOK, Attempt, Idle, Holds
<1>2. PICK made \in BOOLEAN, answer \in Answer :
        /\ effects' = IF made THEN [effects EXCEPT ![k] = @ + 1] ELSE effects
        /\ attempt' = [attempt EXCEPT ![q].at = "answering", ![q].answer = answer]
        /\ UNCHANGED <<row, heard, trouble>>
  BY DEF Handle
<1>3. /\ attempt'[q] \in Attempt
      /\ attempt'[q].at = "answering" /\ attempt'[q].key = k
      /\ attempt'[q].body = attempt[q].body /\ attempt'[q].answer \in Answer
      /\ \A p \in Request \ {q} : attempt'[p] = attempt[p]
      /\ attempt' \in [Request -> Attempt \union {Idle}]
  BY <1>1, <1>2 DEF KeyInv, TypeOK, Attempt
<1>4. effects[k] = 0
  BY <1>1 DEF KeyInv, HolderInv
<1>5. /\ effects' \in [Key -> Nat]
      /\ effects'[k] \in {0, 1}
      /\ \A j \in Key \ {k} : effects'[j] = effects[j]
  BY <1>1, <1>2, <1>4 DEF KeyInv, TypeOK
<1> HIDE DEF k
<1>6. \A p \in Request, j \in Key : Holds(p, j)' <=> Holds(p, j)
  BY <1>1, <1>3 DEF Holds
<1>7. HolderInv'
  <2> SUFFICES ASSUME NEW p \in Request, NEW j \in Key, Holds(p, j)'
               PROVE  /\ row'[j].status = "IN_PROGRESS"
                      /\ row'[j].body = attempt'[p].body
                      /\ \A r \in Request : Holds(r, j)' => r = p
                      /\ attempt'[p].at = "handling" => effects'[j] = 0
                      /\ attempt'[p].at \in {"handling", "answering"} => heard'[j] = {}
                      /\ attempt'[p].at = "persisting" =>
                           heard'[j] = {Reply(attempt'[p].body, attempt'[p].answer)}
    BY DEF HolderInv, Holds
  <2>1. CASE p = q
    BY <1>1, <1>2, <1>3, <1>6, <2>1 DEF KeyInv, HolderInv
  <2>2. CASE p # q
    <3>1. j # k
      BY <1>1, <1>6, <2>2 DEF KeyInv, HolderInv
    <3> QED BY <1>2, <1>3, <1>5, <1>6, <2>2, <3>1 DEF KeyInv, HolderInv
  <2> QED BY <2>1, <2>2
<1>8. RowInv'
  <2>1. row[k] # NoRow
    BY <1>1 DEF KeyInv, HolderInv, NoRow
  <2> QED BY <1>2, <1>5, <2>1 DEF KeyInv, RowInv
<1>9. AnswerInv'
  BY <1>3 DEF KeyInv, AnswerInv
<1>10. OneEffectPerKey'
  BY <1>5 DEF KeyInv, OneEffectPerKey
<1> QED BY <1>2, <1>3, <1>5, <1>7, <1>8, <1>9, <1>10 DEF KeyInv, TypeOK, OneReplyPerKey

LEMMA RespondKeeps ==
  ASSUME KeyInv, NEW q \in Request, Respond(q)
  PROVE  KeyInv'
<1> DEFINE k == attempt[q].key
           reply == Reply(attempt[q].body, attempt[q].answer)
<1>1. attempt[q] \in Attempt /\ k \in Key /\ Holds(q, k) /\ attempt[q].at = "answering"
  BY DEF Respond, KeyInv, TypeOK, Attempt, Idle, Holds
<1>2. attempt[q].answer \in Answer /\ reply \in [body : Body, answer : Answer]
  BY <1>1 DEF KeyInv, AnswerInv, Attempt, Reply
<1>3. heard[k] = {} /\ row[k].status = "IN_PROGRESS"
  BY <1>1 DEF KeyInv, HolderInv
<1>4. /\ attempt'[q] \in Attempt
      /\ attempt'[q].at = "persisting" /\ attempt'[q].key = k
      /\ Reply(attempt'[q].body, attempt'[q].answer) = reply
      /\ attempt'[q].body = attempt[q].body
      /\ attempt'[q].answer = attempt[q].answer
      /\ \A p \in Request \ {q} : attempt'[p] = attempt[p]
      /\ attempt' \in [Request -> Attempt \union {Idle}]
  BY <1>1 DEF Respond, KeyInv, TypeOK, Attempt
<1>5. /\ heard'[k] = {reply}
      /\ \A j \in Key \ {k} : heard'[j] = heard[j]
      /\ heard' \in [Key -> SUBSET [body : Body, answer : Answer]]
      /\ UNCHANGED <<row, effects, trouble>>
  BY <1>1, <1>2, <1>3 DEF Respond, KeyInv, TypeOK
<1> HIDE DEF k, reply
<1>6. \A p \in Request, j \in Key : Holds(p, j)' <=> Holds(p, j)
  BY <1>1, <1>4 DEF Holds
<1>7. HolderInv'
  <2> SUFFICES ASSUME NEW p \in Request, NEW j \in Key, Holds(p, j)'
               PROVE  /\ row'[j].status = "IN_PROGRESS"
                      /\ row'[j].body = attempt'[p].body
                      /\ \A r \in Request : Holds(r, j)' => r = p
                      /\ attempt'[p].at = "handling" => effects'[j] = 0
                      /\ attempt'[p].at \in {"handling", "answering"} => heard'[j] = {}
                      /\ attempt'[p].at = "persisting" =>
                           heard'[j] = {Reply(attempt'[p].body, attempt'[p].answer)}
    BY DEF HolderInv, Holds
  <2>1. CASE p = q
    <3>1. j = k
      BY <1>4, <2>1 DEF Holds
    <3> QED BY <1>1, <1>4, <1>5, <1>6, <2>1, <3>1 DEF KeyInv, HolderInv
  <2>2. CASE p # q
    <3>1. j # k
      BY <1>1, <1>6, <2>2 DEF KeyInv, HolderInv
    <3> QED BY <1>4, <1>5, <1>6, <2>2, <3>1 DEF KeyInv, HolderInv
  <2> QED BY <2>1, <2>2
<1>8. RowInv'
  <2>1. row[k] # NoRow /\ row[k].status # "COMPLETED"
    BY <1>3 DEF NoRow
  <2> QED BY <1>5, <2>1 DEF KeyInv, RowInv
<1>9. AnswerInv'
  BY <1>2, <1>4 DEF KeyInv, AnswerInv
<1>10. OneReplyPerKey'
  BY <1>5 DEF KeyInv, OneReplyPerKey
<1> QED BY <1>4, <1>5, <1>7, <1>8, <1>9, <1>10 DEF KeyInv, TypeOK, OneEffectPerKey

LEMMA PersistKeeps ==
  ASSUME KeyInv, NEW q \in Request, Persist(q)
  PROVE  KeyInv'
<1> DEFINE k == attempt[q].key
<1>1. attempt[q] \in Attempt /\ k \in Key /\ Holds(q, k) /\ attempt[q].at = "persisting"
  BY DEF Persist, KeyInv, TypeOK, Attempt, Idle, Holds
<1>2. attempt[q].answer \in Answer
  BY <1>1 DEF KeyInv, AnswerInv
<1>3. /\ row[k].status = "IN_PROGRESS" /\ row[k] \in Row
      /\ row[k].body = attempt[q].body
      /\ heard[k] = {Reply(attempt[q].body, attempt[q].answer)}
  BY <1>1 DEF KeyInv, HolderInv, TypeOK, NoRow
<1>4. /\ row'[k] = [row[k] EXCEPT !.status = "COMPLETED", !.answer = attempt[q].answer]
      /\ row'[k] \in Row
      /\ \A j \in Key \ {k} : row'[j] = row[j]
      /\ row' \in [Key -> Row \union {NoRow}]
  BY <1>1, <1>2, <1>3 DEF Persist, KeyInv, TypeOK, Row
<1>5. /\ row'[k].status = "COMPLETED"
      /\ row'[k].body = attempt[q].body
      /\ row'[k].answer = attempt[q].answer
  BY <1>3, <1>4 DEF Row
<1>6. /\ attempt'[q] = Idle
      /\ \A p \in Request \ {q} : attempt'[p] = attempt[p]
      /\ attempt' \in [Request -> Attempt \union {Idle}]
      /\ UNCHANGED <<effects, heard, trouble>>
  BY DEF Persist, KeyInv, TypeOK
<1> HIDE DEF k
<1>7. \A p \in Request, j \in Key : Holds(p, j)' => p # q /\ Holds(p, j) /\ j # k
  <2>1. \A j \in Key : ~Holds(q, j)'
    BY <1>6 DEF Holds, Idle
  <2>2. \A p \in Request \ {q}, j \in Key : Holds(p, j)' => Holds(p, j)
    BY <1>6 DEF Holds
  <2>3. \A p \in Request \ {q} : ~Holds(p, k)
    BY <1>1 DEF KeyInv, HolderInv
  <2> QED BY <2>1, <2>2, <2>3
<1>8. HolderInv'
  BY <1>4, <1>6, <1>7 DEF KeyInv, HolderInv
<1>9. RowInv'
  <2>1. row'[k] # NoRow
    BY <1>5 DEF NoRow
  <2> QED BY <1>3, <1>4, <1>5, <1>6, <2>1, ZenonT(30) DEF KeyInv, RowInv
<1>10. AnswerInv'
  BY <1>6 DEF KeyInv, AnswerInv, Idle
<1> QED BY <1>4, <1>6, <1>8, <1>9, <1>10
        DEF KeyInv, TypeOK, OneEffectPerKey, OneReplyPerKey

LEMMA NextKeyInv == KeyInv /\ [Next]_vars => KeyInv'
<1> SUFFICES ASSUME KeyInv, Next \/ UNCHANGED vars
             PROVE  KeyInv'
  OBVIOUS
<1>1. trouble \in 0..MaxTrouble /\ attempt \in [Request -> Attempt \union {Idle}]
  BY DEF KeyInv, TypeOK
<1>2. ASSUME NEW q \in Request, LoseClaim(q)
      PROVE  KeyInv'
  BY <1>1, <1>2, GiveUp DEF LoseClaim
<1>3. ASSUME NEW q \in Request, PersistFails(q)
      PROVE  KeyInv'
  <2>1. trouble' \in 0..MaxTrouble
    BY <1>1, <1>3, TroubleAssumption DEF PersistFails
  <2> QED BY <1>1, <1>3, <2>1, GiveUp DEF PersistFails
<1>4. CASE Restart
  <2>1. trouble' \in 0..MaxTrouble
    BY <1>1, <1>4, TroubleAssumption DEF Restart
  <2> QED BY <1>1, <1>4, <2>1, GiveUp DEF Restart
<1>5. CASE UNCHANGED vars
  BY <1>1, <1>5, GiveUp DEF vars
<1> QED BY <1>2, <1>3, <1>4, <1>5, LookupKeeps, ClaimKeeps, HandleKeeps, RespondKeeps,
           PersistKeeps DEF Next, Proceed

-------------------------------------------------------------------------------
\* Rows, attempts and counters keep their types: a row that is not NoRow holds the
\* body that claimed it, and an attempt under way has a key (idempotent()).
THEOREM TypeCorrect == Spec => []TypeOK
<1>1. KeyInv => TypeOK
  BY DEF KeyInv
<1> QED BY InitKeyInv, NextKeyInv, <1>1, PTL DEF Spec

\* idempotent(): a key's mutation is made at most once, for every number of
\* attempts, concurrent or after restarts.
THEOREM OneEffectPerKeyAlways == Spec => []OneEffectPerKey
<1>1. KeyInv => OneEffectPerKey
  BY DEF KeyInv
<1> QED BY InitKeyInv, NextKeyInv, <1>1, PTL DEF Spec

\* idempotent(): all clients that are answered for a key are answered alike, and
\* had sent the same body.
THEOREM OneReplyPerKeyAlways == Spec => []OneReplyPerKey
<1>1. KeyInv => OneReplyPerKey
  BY DEF KeyInv
<1> QED BY InitKeyInv, NextKeyInv, <1>1, PTL DEF Spec
=============================================================================
