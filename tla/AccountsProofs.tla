--------------------------- MODULE AccountsProofs ---------------------------
(***************************************************************************)
(* Proofs about Accounts: its types, what a revocation may leave behind,   *)
(* and how many codes may be tried, for any number of tabs, handlers and   *)
(* rows.                                                                   *)
(***************************************************************************)
EXTENDS Accounts, FiniteSetTheorems, TLAPS

\* What a failed login writes.
LEMMA LoginCountTypes ==
  ASSUME NEW u \in User, NEW n \in Nat, NEW b \in BOOLEAN
  PROVE  [u EXCEPT !.failed = n + 1, !.locked = b] \in User
<1> DEFINE v == [u EXCEPT !.failed = n + 1]
<1>1. v \in User BY DEF User
<1> HIDE DEF v
<1>2. [v EXCEPT !.locked = b] \in User BY <1>1, Zenon DEF User
<1> QED BY <1>2 DEF v

\* A handler is Idle or has the fields of a request.
LEMMA FlightFields ==
  ASSUME TypeOK, NEW s \in Slot
  PROVE  flight[s] \in Flight \/ flight[s] = Idle
BY DEF TypeOK

LEMMA InitTypes == Init => TypeOK
<1> SUFFICES ASSUME Init PROVE TypeOK OBVIOUS
<1>1. user \in User
  <2>1. PICK e \in BOOLEAN :
          user = [exists |-> e, version |-> 0, suspended |-> FALSE, failed |-> 0,
                  locked |-> FALSE]
    BY DEF Init
  <2> QED BY <2>1 DEF User
<1>2. row \in [Row -> RowState] BY DEF Init, NoRow, RowState
<1>3. otp \in [open : BOOLEAN, attempts : Nat] BY DEF Init
<1>4. /\ jar \in [Browser -> Row \union {Null}]
      /\ page \in [Tab -> {"loading", "in", "out"}]
      /\ access \in [Tab -> Nat \union {Null}]
      /\ flight \in [Slot -> Flight \union {Idle}]
  BY DEF Init
<1>5. left \in 0..MaxRequests BY BoundAssumption DEF Init
<1>6. /\ reset = "none" /\ guesses = 0 /\ excused = FALSE /\ reused = FALSE
      /\ loggedOut = {}
  BY DEF Init
<1> QED BY <1>1, <1>2, <1>3, <1>4, <1>5, <1>6 DEF TypeOK

-------------------------------------------------------------------------------
\* A row was created.
Issued(r) == r \in Row /\ row[r].state # "none"

\* A handler that answers with a session has created its row.  If no
\* revocation has overtaken the read of a refresh, the row it read was good
\* when it was read, and is as good now, be it revoked since.
FlightGood(f) ==
  /\ f.at = "answer" /\ f.kind \in {"login", "register", "refresh"} => Issued(f.row)
  /\ f.at = "read" /\ f.kind = "refresh" =>
       /\ Issued(f.row)
       /\ f.seen <= user.version
       /\ f.seen = user.version =>
            row[f.row].root = user.version \/ row[f.row].overlapped

FlightsAreGood == \A s \in Slot : FlightGood(flight[s])

\* A cookie names a row that was created.
CookiesAreIssued == \A b \in Browser : jar[b] # Null => Issued(jar[b])

SessionInv == OutlivesOnlyByOverlap /\ CookiesAreIssued /\ FlightsAreGood

-------------------------------------------------------------------------------
\* What the helpers keep.
LEMMA BeginTypes ==
  ASSUME TypeOK, NEW s \in Slot, NEW f \in Flight, Begin(s, f)
  PROVE  flight' \in [Slot -> Flight \union {Idle}] /\ left' \in 0..MaxRequests
BY BoundAssumption DEF Begin, TypeOK

LEMMA EndTypes ==
  ASSUME TypeOK, NEW s \in Slot, End(s)
  PROVE  flight' \in [Slot -> Flight \union {Idle}]
BY DEF End, TypeOK

LEMMA RevokeTypes ==
  ASSUME TypeOK, RevokeAll
  PROVE  row' \in [Row -> RowState] /\ user' \in User
<1>1. \A r \in Row : row[r] \in RowState BY DEF TypeOK
<1>2. \A r \in Row : AllRevoked[r] \in RowState BY <1>1 DEF AllRevoked, RowState
<1>3. AllRevoked \in [Row -> RowState] BY <1>2 DEF AllRevoked
<1>4. user' \in User BY DEF RevokeAll, TypeOK, User
<1> QED BY <1>3, <1>4 DEF RevokeAll

LEMMA ExpireTypes ==
  ASSUME TypeOK, NEW t, SignOut(t) \/ Expire(t)
  PROVE  /\ page' \in [Tab -> {"loading", "in", "out"}]
         /\ access' \in [Tab -> Nat \union {Null}]
         /\ jar' = jar
BY DEF Expire, SignOut, TypeOK

\* A tab begins a handler with what the handler has read.
LEMMA TabTypes ==
  ASSUME TypeOK, NEW s \in Slot, NEW t \in Tab, TabStep(s, t)
  PROVE  TypeOK'
<1>1. CASE BeginRegister(s, t)
  <2> DEFINE f == [Idle EXCEPT !.kind = "register", !.at = "read", !.tab = t]
  <2>1. f \in Flight BY DEF Idle, Flight, Kind
  <2> QED BY <1>1, <2>1, BeginTypes DEF BeginRegister, TypeOK, server, client, ghosts
<1>2. CASE BeginRefresh(s, t)
  <2>1. PICK at \in {"reuse", "read", "refusal"} :
          Begin(s, [Idle EXCEPT !.kind = "refresh", !.tab = t, !.at = at,
                      !.row = Cookie(t), !.used = Cookie(t), !.seen = user.version])
    BY <1>2 DEF BeginRefresh
  <2> DEFINE f == [Idle EXCEPT !.kind = "refresh", !.tab = t, !.at = at,
                     !.row = Cookie(t), !.used = Cookie(t), !.seen = user.version]
  <2>2. Cookie(t) \in Row \union {Null} BY BrowserAssumption DEF Cookie, TypeOK
  <2>3. user.version \in Nat BY DEF TypeOK, User
  <2>4. f \in Flight BY <2>2, <2>3 DEF Idle, Flight, Kind
  <2>5. excused' \in BOOLEAN BY <1>2 DEF BeginRefresh, TypeOK
  <2> QED BY <1>2, <2>1, <2>4, <2>5, BeginTypes DEF BeginRefresh, TypeOK, server, client
<1>3. CASE BeginLogoutAll(s, t)
  <2> DEFINE f == [Idle EXCEPT !.kind = "logoutAll", !.at = "read", !.tab = t]
  <2>1. f \in Flight BY DEF Idle, Flight, Kind
  <2> QED BY <1>3, <2>1, BeginTypes DEF BeginLogoutAll, TypeOK, server, client, ghosts
<1>4. ASSUME NEW good \in BOOLEAN, BeginLogin(s, t, good) PROVE TypeOK'
  <2> DEFINE f == [Idle EXCEPT !.kind = "login", !.at = "read", !.tab = t, !.good = good,
                     !.root = user.version, !.count = user.failed]
  <2>1. user.version \in Nat /\ user.failed \in Nat BY DEF TypeOK, User
  <2>2. f \in Flight BY <2>1 DEF Idle, Flight, Kind
  <2> QED BY <1>4, <2>2, BeginTypes DEF BeginLogin, TypeOK, server, client, ghosts
<1>5. ASSUME NEW good \in BOOLEAN, BeginOtp(s, t, good) PROVE TypeOK'
  <2> DEFINE f == [Idle EXCEPT !.kind = "otp", !.at = "read", !.tab = t, !.good = good,
                     !.count = otp.attempts]
  <2>1. otp.attempts \in Nat BY DEF TypeOK
  <2>2. f \in Flight BY <2>1 DEF Idle, Flight, Kind
  <2> QED BY <1>5, <2>2, BeginTypes DEF BeginOtp, TypeOK, server, client, ghosts
<1> QED BY <1>1, <1>2, <1>3, <1>4, <1>5 DEF TabStep

LEMMA HandlerTypes ==
  ASSUME TypeOK, FlightsAreGood, NEW s \in Slot, HandlerStep(s)
  PROVE  TypeOK'
<1> USE DEF server, client, ghosts
<1>0. flight[s] \in Flight \/ flight[s] = Idle BY FlightFields
<1>1. CASE CommitRegister(s)
  <2>1. user' \in User
    <3>1. user' = user \/ user' = [user EXCEPT !.exists = TRUE]
      BY <1>1 DEF CommitRegister
    <3>2. user \in User BY DEF TypeOK
    <3> QED BY <3>1, <3>2 DEF User
  <2>3. otp' \in [open : BOOLEAN, attempts : Nat]
    <3>1. otp \in [open : BOOLEAN, attempts : Nat] BY DEF TypeOK
    <3>2. otp' = otp \/ otp' = [open |-> TRUE, attempts |-> 0] BY <1>1 DEF CommitRegister
    <3>3. [open |-> TRUE, attempts |-> 0] \in [open : BOOLEAN, attempts : Nat] OBVIOUS
    <3> QED BY <3>1, <3>2, <3>3, Zenon
  <2>2. flight' \in [Slot -> Flight \union {Idle}]
    BY <1>0, <1>1, EndTypes DEF CommitRegister, At, TypeOK, Flight, Idle
  <2> QED BY <1>1, <2>1, <2>2, <2>3 DEF CommitRegister, TypeOK
<1>2. CASE FailLogin(s)
  <2>1. flight[s].count \in Nat BY <1>0 DEF Flight, Idle
  <2>2. user' \in User
    <3>1. user \in User /\ user.locked \in BOOLEAN BY DEF TypeOK, User
    <3>2. \/ user' = [user EXCEPT !.failed = flight[s].count + 1, !.locked = TRUE]
          \/ user' = [user EXCEPT !.failed = flight[s].count + 1, !.locked = FALSE]
      BY <1>2, <3>1, Zenon DEF FailLogin
    <3> QED BY <2>1, <3>1, <3>2, LoginCountTypes
  <2> QED BY <1>2, <2>2, EndTypes DEF FailLogin, TypeOK
<1>3. CASE PassLogin(s)
  <2>1. user' \in User BY <1>3 DEF PassLogin, TypeOK, User
  <2>2. user.version \in Nat BY DEF TypeOK, User
  <2>4. flight[s] \in Flight BY <1>0, <1>3 DEF PassLogin, At, Idle
  <2>3. flight' \in [Slot -> Flight \union {Idle}]
    BY <1>3, <2>2, <2>4 DEF PassLogin, TypeOK, Flight
  <2> QED BY <1>3, <2>1, <2>3 DEF PassLogin, TypeOK
<1>4. ASSUME NEW r \in Row, IssueSession(s, r) PROVE TypeOK'
  <2>1. flight[s] \in Flight BY <1>0, <1>4 DEF IssueSession, Idle
  <2>2. row' \in [Row -> RowState]
    BY <1>4, <2>1 DEF IssueSession, TypeOK, Flight, RowState
  <2>3. flight' \in [Slot -> Flight \union {Idle}]
    BY <1>4, <2>1 DEF IssueSession, TypeOK, Flight
  <2> QED BY <1>4, <2>2, <2>3 DEF IssueSession, TypeOK
<1>5. ASSUME NEW r \in Row, Rotate(s, r) PROVE TypeOK'
  <2> DEFINE old == flight[s].row
  <2>1. flight[s] \in Flight BY <1>0, <1>5 DEF Rotate, At, Idle
  <2> DEFINE new == [state |-> "live", root |-> row[old].root,
                     overlapped |-> row[old].overlapped \/ flight[s].seen # user.version]
  <2>2. old \in Row BY <1>5 DEF Rotate, At, FlightsAreGood, FlightGood, Issued
  <2>3. row' \in [Row -> RowState]
    <3>1. row[old] \in RowState BY <2>2 DEF TypeOK
    <3>2. new \in RowState BY <3>1 DEF RowState
    <3>3. row' = [row EXCEPT ![r] = new, ![old].state = "revoked"] BY <1>5 DEF Rotate
    <3> HIDE DEF new, old
    <3> QED BY <2>2, <3>1, <3>2, <3>3 DEF TypeOK, RowState
  <2>4. flight' \in [Slot -> Flight \union {Idle}]
    BY <1>5, <2>1 DEF Rotate, TypeOK, Flight
  <2> QED BY <1>5, <2>3, <2>4 DEF Rotate, TypeOK
<1>6. CASE RevokeFamily(s)
  <2>1. flight' \in [Slot -> Flight \union {Idle}]
    BY <1>0, <1>6 DEF RevokeFamily, At, TypeOK, Flight, Idle
  <2> QED BY <1>6, <2>1, RevokeTypes DEF RevokeFamily, TypeOK
<1>7. CASE CommitLogoutAll(s)
  <2>1. flight' \in [Slot -> Flight \union {Idle}]
    BY <1>0, <1>7 DEF CommitLogoutAll, At, TypeOK, Flight, Idle
  <2> QED BY <1>7, <2>1, RevokeTypes DEF CommitLogoutAll, TypeOK
<1>8. CASE BeginReset(s)
  <2> DEFINE f == [Idle EXCEPT !.kind = "reset", !.at = "read"]
  <2>1. f \in Flight BY DEF Idle, Flight, Kind
  <2> QED BY <1>8, <2>1, BeginTypes DEF BeginReset, TypeOK
<1>9. CASE CommitReset(s)
  BY <1>9, EndTypes, RevokeTypes DEF CommitReset, TypeOK
<1>10. CASE WrongOtp(s)
  BY <1>10, EndTypes DEF WrongOtp, TypeOK
<1>11. CASE RightOtp(s)
  BY <1>11, EndTypes DEF RightOtp, TypeOK
<1>12. CASE DeliverSession(s)
  <2>1. flight[s] \in Flight BY <1>0, <1>12 DEF DeliverSession, Idle
  <2>2. jar' \in [Browser -> Row \union {Null}] /\ access' \in [Tab -> Nat \union {Null}]
    BY <1>12, <2>1 DEF DeliverSession, TypeOK, Flight
  <2>3. page' \in [Tab -> {"loading", "in", "out"}] BY <1>12 DEF DeliverSession, TypeOK
  <2> QED BY <1>12, <2>2, <2>3, EndTypes DEF DeliverSession, TypeOK
<1>13. CASE DeliverLogoutAll(s)
  <2>1. jar' \in [Browser -> Row \union {Null}] BY <1>13 DEF DeliverLogoutAll, TypeOK
  <2> QED BY <1>13, <2>1, EndTypes DEF DeliverLogoutAll, TypeOK
<1>14. CASE DeliverRefusal(s)
  BY <1>14, EndTypes, ExpireTypes DEF DeliverRefusal, TypeOK
<1>15. CASE Fail(s)
  BY <1>15, EndTypes, ExpireTypes DEF Fail, At, TypeOK
<1> QED
  BY <1>1, <1>2, <1>3, <1>4, <1>5, <1>6, <1>7, <1>8, <1>9, <1>10, <1>11, <1>12, <1>13,
     <1>14, <1>15 DEF HandlerStep

LEMMA NextTypes == TypeOK /\ FlightsAreGood /\ [Next]_vars => TypeOK'
<1> SUFFICES ASSUME TypeOK, FlightsAreGood, [Next]_vars PROVE TypeOK' OBVIOUS
<1>1. CASE UNCHANGED vars
  BY <1>1 DEF TypeOK, vars, server, client, ghosts
<1>2. ASSUME NEW s \in Slot, HandlerStep(s) PROVE TypeOK' BY <1>2, HandlerTypes
<1>3. ASSUME NEW s \in Slot, NEW t \in Tab, TabStep(s, t) PROVE TypeOK' BY <1>3, TabTypes
<1>4. ASSUME NEW t \in Tab, RefreshWithoutCookie(t) \/ Logout(t) PROVE TypeOK'
  <2>1. loggedOut' \subseteq Row
    BY <1>4, BrowserAssumption DEF RefreshWithoutCookie, Logout, Cookie, TypeOK, ghosts
  <2> QED BY <1>4, <2>1, ExpireTypes DEF RefreshWithoutCookie, Logout, TypeOK, server, ghosts
<1>5. ASSUME NEW t \in Tab, Reload(t) PROVE TypeOK'
  BY <1>5 DEF Reload, TypeOK, server, ghosts
<1>6. CASE LockExpires BY <1>6 DEF LockExpires, TypeOK, User, client, ghosts
<1>7. CASE RequestReset BY <1>7 DEF RequestReset, TypeOK, client, ghosts
<1>8. CASE SetSuspended
  <2>1. user' \in User
    <3>1. user \in User /\ user.suspended \in BOOLEAN BY DEF TypeOK, User
    <3>2. user' = [user EXCEPT !.suspended = TRUE] \/ user' = [user EXCEPT !.suspended = FALSE]
      BY <1>8, <3>1 DEF SetSuspended
    <3> QED BY <3>1, <3>2 DEF User
  <2> QED BY <1>8, <2>1, BoundAssumption DEF SetSuspended, TypeOK, client, ghosts
<1> QED BY <1>1, <1>2, <1>3, <1>4, <1>5, <1>6, <1>7, <1>8 DEF Next

-------------------------------------------------------------------------------
\* A row keeps the check it goes back to.
RowsKeep ==
  \A r \in Row : row[r].state # "none" =>
    /\ row'[r].state # "none"
    /\ row'[r].root = row[r].root
    /\ row'[r].overlapped = row[r].overlapped

LEMMA SessionStep ==
  ASSUME TypeOK, TypeOK', SessionInv, RowsKeep, OutlivesOnlyByOverlap',
         user'.version \in {user.version, user.version + 1},
         \A b \in Browser : jar'[b] \in {jar[b], Null} \/ Issued(jar'[b]),
         \A s \in Slot : flight'[s] = flight[s] \/ FlightGood(flight[s])'
  PROVE  SessionInv'
<1>1. \A r \in Row : Issued(r) => Issued(r)' BY DEF RowsKeep, Issued
<1>2. CookiesAreIssued'
  <2> SUFFICES ASSUME NEW b \in Browser, jar'[b] # Null PROVE Issued(jar[b])'
    BY DEF CookiesAreIssued
  <2>1. Issued(jar'[b]) BY DEF SessionInv, CookiesAreIssued
  <2>2. jar'[b] \in Row BY <2>1 DEF Issued
  <2> QED BY <2>1, <2>2 DEF RowsKeep, Issued
<1>3. FlightsAreGood'
  <2> SUFFICES ASSUME NEW s \in Slot, flight'[s] = flight[s] PROVE FlightGood(flight[s])'
    BY DEF FlightsAreGood
  <2>1. FlightGood(flight[s]) BY DEF SessionInv, FlightsAreGood
  <2>2. user.version \in Nat BY DEF TypeOK, User
  <2>3. Issued(flight[s].row) =>
          /\ Issued(flight[s].row)'
          /\ row'[flight[s].row].root = row[flight[s].row].root
          /\ row'[flight[s].row].overlapped = row[flight[s].row].overlapped
    BY DEF Issued, RowsKeep
  <2>4. ASSUME flight[s].at = "read", flight[s].kind = "refresh"
        PROVE  /\ flight[s].seen <= user'.version
               /\ flight[s].seen = user'.version => user'.version = user.version
    <3>1. flight[s].seen <= user.version BY <2>1, <2>4 DEF FlightGood
    <3>2. flight[s].seen \in Nat
      BY <2>4 DEF TypeOK, Flight, Idle
    <3> QED BY <3>1, <3>2, <2>2
  <2> QED BY <2>1, <2>3, <2>4 DEF FlightGood
<1> QED BY <1>2, <1>3 DEF SessionInv

\* Most steps leave the rows and the version alone.
LEMMA QuietStep ==
  ASSUME TypeOK, TypeOK', SessionInv, row' = row, user'.version = user.version,
         \A b \in Browser : jar'[b] \in {jar[b], Null} \/ Issued(jar'[b]),
         \A s \in Slot : flight'[s] = flight[s] \/ FlightGood(flight[s])'
  PROVE  SessionInv'
<1>1. OutlivesOnlyByOverlap' BY DEF SessionInv, OutlivesOnlyByOverlap
<1>2. RowsKeep BY DEF RowsKeep
<1> QED BY <1>1, <1>2, SessionStep

LEMMA IdleIsGood == FlightGood(Idle) /\ FlightGood(Idle)'
BY DEF FlightGood, Idle

\* The slot of a step is idle, or holds what the step left there.
LEMMA OtherSlots ==
  ASSUME TypeOK, NEW s \in Slot, NEW f, flight' = [flight EXCEPT ![s] = f]
  PROVE  /\ flight'[s] = f
         /\ \A o \in Slot : o # s => flight'[o] = flight[o]
BY DEF TypeOK

LEMMA TabSessions ==
  ASSUME TypeOK, SessionInv, NEW s \in Slot, NEW t \in Tab, TabStep(s, t)
  PROVE  SessionInv'
<1> USE DEF server, client
<1>0. TypeOK' BY TabTypes
<1>1. row' = row /\ user' = user /\ jar' = jar
  BY DEF TabStep, BeginRegister, BeginRefresh, BeginLogoutAll, BeginLogin, BeginOtp
<1>2. \A o \in Slot : flight'[o] = flight[o] \/ FlightGood(flight[o])'
  <2>1. CASE BeginRefresh(s, t)
    <3>1. PICK at \in IF row[Cookie(t)].state = "revoked" THEN {"reuse"} ELSE {"read", "refusal"} :
            Begin(s, [Idle EXCEPT !.kind = "refresh", !.tab = t, !.at = at,
                        !.row = Cookie(t), !.used = Cookie(t), !.seen = user.version])
      BY <2>1 DEF BeginRefresh
    <3> DEFINE f == [Idle EXCEPT !.kind = "refresh", !.tab = t, !.at = at,
                       !.row = Cookie(t), !.used = Cookie(t), !.seen = user.version]
    <3>2. /\ f.at = at /\ f.row = Cookie(t) /\ f.seen = user.version
      BY DEF Idle
    <3>3. Issued(Cookie(t))
      BY <2>1, BrowserAssumption DEF BeginRefresh, Cookie, SessionInv, CookiesAreIssued
    <3>4. user.version \in Nat BY DEF TypeOK, User
    <3>5. at = "read" => row[Cookie(t)].state = "live"
      BY <3>1, <3>3 DEF Issued, TypeOK, RowState
    <3>6. at # "answer" BY <3>1
    <3>7. at = "read" => row[Cookie(t)].root = user.version \/ row[Cookie(t)].overlapped
      BY <3>3, <3>5 DEF SessionInv, OutlivesOnlyByOverlap, Issued
    <3>8. flight'[s] = f /\ \A o \in Slot : o # s => flight'[o] = flight[o]
      BY <3>1, OtherSlots DEF Begin
    <3> HIDE DEF f
    <3>9. FlightGood(flight[s])'
      BY <1>1, <3>2, <3>3, <3>4, <3>6, <3>7, <3>8 DEF FlightGood, Issued
    <3> QED BY <3>8, <3>9
  <2>2. CASE BeginRegister(s, t)
    BY <2>2, OtherSlots DEF BeginRegister, Begin, FlightGood, Idle
  <2>3. CASE BeginLogoutAll(s, t)
    BY <2>3, OtherSlots DEF BeginLogoutAll, Begin, FlightGood, Idle
  <2>4. ASSUME NEW good \in BOOLEAN, BeginLogin(s, t, good)
        PROVE  \A o \in Slot : flight'[o] = flight[o] \/ FlightGood(flight[o])'
    BY <2>4, OtherSlots DEF BeginLogin, Begin, FlightGood, Idle
  <2>5. ASSUME NEW good \in BOOLEAN, BeginOtp(s, t, good)
        PROVE  \A o \in Slot : flight'[o] = flight[o] \/ FlightGood(flight[o])'
    BY <2>5, OtherSlots DEF BeginOtp, Begin, FlightGood, Idle
  <2> QED BY <2>1, <2>2, <2>3, <2>4, <2>5 DEF TabStep
<1> QED BY <1>0, <1>1, <1>2, QuietStep

LEMMA HandlerSessions ==
  ASSUME TypeOK, SessionInv, NEW s \in Slot, HandlerStep(s)
  PROVE  SessionInv'
<1> USE DEF server, client, ghosts
<1>0. TypeOK' BY HandlerTypes DEF SessionInv
<1>a. flight[s] \in Flight \/ flight[s] = Idle BY FlightFields
<1>b. FlightGood(flight[s]) BY DEF SessionInv, FlightsAreGood
<1>c. user.version \in Nat BY DEF TypeOK, User
<1>e. ASSUME End(s)
      PROVE  \A o \in Slot : flight'[o] = flight[o] \/ FlightGood(flight[o])'
  <2>1. flight'[s] = Idle /\ \A o \in Slot : o # s => flight'[o] = flight[o]
    BY <1>e, OtherSlots DEF End
  <2> QED BY <2>1 DEF FlightGood, Idle
<1>n. ASSUME NEW at \in {"issue", "refusal"}, flight' = [flight EXCEPT ![s].at = at]
      PROVE  \A o \in Slot : flight'[o] = flight[o] \/ FlightGood(flight[o])'
  <2>1. flight'[s] = [flight[s] EXCEPT !.at = at]
        /\ \A o \in Slot : o # s => flight'[o] = flight[o]
    BY <1>n, OtherSlots DEF TypeOK
  <2>2. flight'[s].at = at BY <2>1, <1>a DEF Flight, Idle
  <2> QED BY <2>1, <2>2 DEF FlightGood
\* A revocation leaves no row live.
<1>r. ASSUME RevokeAll
      PROVE  /\ RowsKeep
             /\ OutlivesOnlyByOverlap'
             /\ user'.version = user.version + 1
  <2>1. row' = AllRevoked BY <1>r DEF RevokeAll
  <2>2. \A r \in Row : row[r] \in RowState BY DEF TypeOK
  <2>3. \A r \in Row : /\ row'[r].state # "live"
                       /\ row'[r].root = row[r].root
                       /\ row'[r].overlapped = row[r].overlapped
                       /\ row[r].state # "none" => row'[r].state # "none"
    BY <2>1, <2>2 DEF AllRevoked, RowState
  <2>4. user'.version = user.version + 1 BY <1>r DEF RevokeAll, TypeOK, User
  <2> QED BY <2>3, <2>4 DEF RowsKeep, OutlivesOnlyByOverlap
<1>1. CASE CommitRegister(s)
  <2>1. user'.version = user.version BY <1>1 DEF CommitRegister, TypeOK, User
  <2>2. \A o \in Slot : flight'[o] = flight[o] \/ FlightGood(flight[o])'
    BY <1>1, <1>e, <1>n DEF CommitRegister
  <2> QED BY <1>0, <1>1, <2>1, <2>2, QuietStep DEF CommitRegister
<1>2. CASE FailLogin(s)
  <2>1. user'.version = user.version BY <1>2 DEF FailLogin, TypeOK, User
  <2> QED BY <1>0, <1>2, <1>e, <2>1, QuietStep DEF FailLogin
<1>3. CASE PassLogin(s)
  <2>1. user'.version = user.version BY <1>3 DEF PassLogin, TypeOK, User
  <2>2. flight[s] \in Flight BY <1>a, <1>3 DEF PassLogin, At, Idle
  <2>3. flight'[s].at = "issue" /\ \A o \in Slot : o # s => flight'[o] = flight[o]
    BY <1>3, <2>2 DEF PassLogin, TypeOK, Flight
  <2>4. \A o \in Slot : flight'[o] = flight[o] \/ FlightGood(flight[o])'
    BY <2>3 DEF FlightGood
  <2> QED BY <1>0, <1>3, <2>1, <2>4, QuietStep DEF PassLogin
<1>4. ASSUME NEW r \in Row, IssueSession(s, r) PROVE SessionInv'
  <2> DEFINE new == [state |-> "live", root |-> flight[s].root,
                     overlapped |-> flight[s].root # user.version]
  <2>1. row' = [row EXCEPT ![r] = new] /\ row[r] = NoRow /\ user' = user /\ jar' = jar
    BY <1>4 DEF IssueSession
  <2>2. row'[r] = new /\ \A o \in Row : o # r => row'[o] = row[o] BY <2>1 DEF TypeOK
  <2>3. RowsKeep BY <2>1, <2>2 DEF RowsKeep, NoRow
  <2>8. new.state = "live" /\ (new.root = user.version \/ new.overlapped) OBVIOUS
  <2> HIDE DEF new
  <2>4. OutlivesOnlyByOverlap' BY <2>1, <2>2, <2>8 DEF OutlivesOnlyByOverlap, SessionInv
  <2>5. flight[s] \in Flight BY <1>a, <1>4 DEF IssueSession, Idle
  <2>6. /\ flight'[s].at = "answer" /\ flight'[s].row = r
        /\ \A o \in Slot : o # s => flight'[o] = flight[o]
    BY <1>4, <2>5 DEF IssueSession, TypeOK, Flight
  <2>7. FlightGood(flight[s])' BY <2>2, <2>6, <2>8 DEF FlightGood, Issued
  <2> QED BY <1>0, <1>c, <2>1, <2>3, <2>4, <2>6, <2>7, SessionStep
<1>5. ASSUME NEW r \in Row, Rotate(s, r) PROVE SessionInv'
  <2> DEFINE old == flight[s].row
  <2>1. /\ Issued(old)
        /\ flight[s].seen = user.version =>
             row[old].root = user.version \/ row[old].overlapped
    BY <1>b, <1>5 DEF FlightGood, Rotate, At
  <2> DEFINE new == [state |-> "live", root |-> row[old].root,
                     overlapped |-> row[old].overlapped \/ flight[s].seen # user.version]
  <2>a. new.state = "live" /\ (new.root = user.version \/ new.overlapped) BY <2>1
  <2>2. /\ row' = [row EXCEPT ![r] = new, ![old].state = "revoked"]
        /\ row[r] = NoRow /\ user' = user /\ jar' = jar
    BY <1>5 DEF Rotate
  <2> HIDE DEF new, old
  <2>3. old # r /\ old \in Row BY <2>1, <2>2 DEF Issued, NoRow
  <2>4. /\ row'[r] = new
        /\ row'[old] = [row[old] EXCEPT !.state = "revoked"]
        /\ \A o \in Row : o # r /\ o # old => row'[o] = row[o]
    BY <2>2, <2>3 DEF TypeOK
  <2>5. /\ row'[old].state = "revoked"
        /\ row'[old].root = row[old].root
        /\ row'[old].overlapped = row[old].overlapped
    <3>1. row[old] \in RowState BY <2>3 DEF TypeOK
    <3> QED BY <2>4, <3>1 DEF RowState
  <2>6. RowsKeep
    <3> SUFFICES ASSUME NEW o \in Row, row[o].state # "none"
                 PROVE  /\ row'[o].state # "none"
                        /\ row'[o].root = row[o].root
                        /\ row'[o].overlapped = row[o].overlapped
      BY DEF RowsKeep
    <3>1. o # r BY <2>2 DEF NoRow
    <3>2. CASE o = old BY <2>5, <3>2
    <3>3. CASE o # old BY <2>4, <3>1, <3>3
    <3> QED BY <3>2, <3>3
  <2>7. OutlivesOnlyByOverlap'
    <3> SUFFICES ASSUME NEW o \in Row, row'[o].state = "live"
                 PROVE  row'[o].root = user'.version \/ row'[o].overlapped
      BY DEF OutlivesOnlyByOverlap
    <3>1. CASE o = r BY <2>a, <2>2, <2>4, <3>1
    <3>2. CASE o = old BY <2>5, <3>2
    <3>3. CASE o # r /\ o # old
      BY <2>2, <2>4, <3>3 DEF SessionInv, OutlivesOnlyByOverlap
    <3> QED BY <3>1, <3>2, <3>3
  <2>8. flight[s] \in Flight BY <1>a, <1>5 DEF Rotate, At, Idle
  <2>9. /\ flight'[s].at = "answer" /\ flight'[s].row = r
        /\ \A o \in Slot : o # s => flight'[o] = flight[o]
    BY <1>5, <2>8 DEF Rotate, TypeOK, Flight
  <2>10. FlightGood(flight[s])' BY <2>a, <2>4, <2>9 DEF FlightGood, Issued
  <2> QED BY <1>0, <1>c, <2>2, <2>6, <2>7, <2>9, <2>10, SessionStep
<1>6. CASE RevokeFamily(s)
  BY <1>0, <1>6, <1>n, <1>r, SessionStep DEF RevokeFamily
<1>7. CASE CommitLogoutAll(s)
  <2>1. flight[s] \in Flight BY <1>a, <1>7 DEF CommitLogoutAll, At, Idle
  <2>2. /\ flight'[s].at = "answer" /\ flight'[s].kind = "logoutAll"
        /\ \A o \in Slot : o # s => flight'[o] = flight[o]
    BY <1>7, <2>1 DEF CommitLogoutAll, At, TypeOK, Flight
  <2>3. \A o \in Slot : flight'[o] = flight[o] \/ FlightGood(flight[o])'
    BY <2>2 DEF FlightGood
  <2> QED BY <1>0, <1>7, <1>r, <2>3, SessionStep DEF CommitLogoutAll
<1>8. CASE BeginReset(s)
  BY <1>0, <1>8, OtherSlots, QuietStep DEF BeginReset, Begin, FlightGood, Idle
<1>9. CASE CommitReset(s)
  BY <1>0, <1>9, <1>e, <1>r, SessionStep DEF CommitReset
<1>10. CASE WrongOtp(s)
  BY <1>0, <1>10, <1>e, QuietStep DEF WrongOtp
<1>11. CASE RightOtp(s)
  BY <1>0, <1>11, <1>e, QuietStep DEF RightOtp
<1>12. CASE DeliverSession(s)
  <2>1. Issued(flight[s].row) BY <1>b, <1>12 DEF FlightGood, DeliverSession
  <2>2. \A b \in Browser : jar'[b] = jar[b] \/ jar'[b] = flight[s].row
    BY <1>12 DEF DeliverSession, TypeOK
  <2>3. row' = row /\ user' = user /\ End(s) BY <1>12 DEF DeliverSession
  <2> QED BY <1>0, <1>e, <2>1, <2>2, <2>3, QuietStep
<1>13. CASE DeliverLogoutAll(s)
  <2>1. \A b \in Browser : jar'[b] = jar[b] \/ jar'[b] = Null
    BY <1>13 DEF DeliverLogoutAll, TypeOK
  <2>2. row' = row /\ user' = user /\ End(s) BY <1>13 DEF DeliverLogoutAll
  <2> QED BY <1>0, <1>e, <2>1, <2>2, QuietStep
<1>14. CASE DeliverRefusal(s)
  <2>1. row' = row /\ user' = user /\ End(s) /\ jar' = jar
    BY <1>14, ExpireTypes DEF DeliverRefusal
  <2> QED BY <1>0, <1>e, <2>1, QuietStep
<1>15. CASE Fail(s)
  <2>1. row' = row /\ user' = user /\ End(s) /\ jar' = jar
    BY <1>15, ExpireTypes DEF Fail
  <2> QED BY <1>0, <1>e, <2>1, QuietStep
<1> QED
  BY <1>1, <1>2, <1>3, <1>4, <1>5, <1>6, <1>7, <1>8, <1>9, <1>10, <1>11, <1>12, <1>13,
     <1>14, <1>15 DEF HandlerStep

LEMMA NextSessions == TypeOK /\ SessionInv /\ [Next]_vars => SessionInv'
<1> SUFFICES ASSUME TypeOK, SessionInv, [Next]_vars PROVE SessionInv' OBVIOUS
<1> USE DEF server, client, ghosts
<1>0. TypeOK' BY NextTypes DEF SessionInv
<1>1. CASE UNCHANGED vars BY <1>0, <1>1, QuietStep DEF vars
<1>2. ASSUME NEW s \in Slot, HandlerStep(s) PROVE SessionInv' BY <1>2, HandlerSessions
<1>3. ASSUME NEW s \in Slot, NEW t \in Tab, TabStep(s, t) PROVE SessionInv'
  BY <1>3, TabSessions
<1>4. ASSUME NEW t \in Tab, RefreshWithoutCookie(t) \/ Logout(t) \/ Reload(t)
      PROVE  SessionInv'
  BY <1>0, <1>4, QuietStep DEF RefreshWithoutCookie, Logout, Reload, SignOut
<1>5. CASE LockExpires
  <2>1. user'.version = user.version BY <1>5 DEF LockExpires, TypeOK, User
  <2> QED BY <1>0, <1>5, <2>1, QuietStep DEF LockExpires
<1>6. CASE RequestReset BY <1>0, <1>6, QuietStep DEF RequestReset
<1>7. CASE SetSuspended
  <2>1. user'.version = user.version BY <1>7 DEF SetSuspended, TypeOK, User
  <2> QED BY <1>0, <1>7, <2>1, QuietStep DEF SetSuspended
<1> QED BY <1>1, <1>2, <1>3, <1>4, <1>5, <1>6, <1>7 DEF Next

LEMMA InitSessions == Init => SessionInv
<1> SUFFICES ASSUME Init PROVE SessionInv OBVIOUS
<1>1. \A r \in Row : row[r].state = "none" BY DEF Init, NoRow
<1>2. \A s \in Slot : flight[s] = Idle BY DEF Init
<1>3. \A b \in Browser : jar[b] = Null BY DEF Init
<1> QED
  BY <1>1, <1>2, <1>3, IdleIsGood
  DEF SessionInv, OutlivesOnlyByOverlap, CookiesAreIssued, FlightsAreGood

\* Accounts keeps its types, for any number of tabs, handlers and rows.
THEOREM TypeCorrect == Spec => []TypeOK
<1>1. TypeOK /\ SessionInv /\ [Next]_vars => TypeOK' BY NextTypes DEF SessionInv
<1> QED BY InitTypes, InitSessions, <1>1, NextSessions, PTL DEF Spec

\* A session that a revocation did not end was being created while the
\* revocation committed (refreshTokens, logoutAll and confirmPasswordReset).
THEOREM OutlivesOnlyByOverlapAlways == Spec => []OutlivesOnlyByOverlap
<1>1. TypeOK /\ SessionInv /\ [Next]_vars => TypeOK' BY NextTypes DEF SessionInv
<1>2. SessionInv => OutlivesOnlyByOverlap BY DEF SessionInv
<1> QED BY InitTypes, InitSessions, <1>1, <1>2, NextSessions, PTL DEF Spec

-------------------------------------------------------------------------------
\* The handlers that have read the one-time code, and will write.
Comparing == {s \in Slot : At(s, "otp", "read")}

\* The attempts count the wrong codes, and a comparison that has begun was
\* allowed when the others on their way were at most the other handlers.
OtpInv ==
  /\ ~user.exists => guesses = 0 /\ Comparing = {}
  /\ user.exists => guesses = otp.attempts
  /\ guesses > 0 \/ Comparing # {} =>
       guesses + Cardinality(Comparing) < MaxOtp + Cardinality(Slot)

LEMMA ComparingIsFinite ==
  /\ IsFiniteSet(Comparing) /\ Cardinality(Comparing) \in Nat
  /\ Cardinality(Comparing) <= Cardinality(Slot)
  /\ Cardinality(Slot) \in Nat
BY SlotAssumption, FS_Subset, FS_CardinalityType DEF Comparing

LEMMA ComparingIsFiniteNext ==
  /\ IsFiniteSet(Comparing') /\ Cardinality(Comparing') \in Nat
  /\ Cardinality(Comparing') <= Cardinality(Slot)
BY SlotAssumption, FS_Subset, FS_CardinalityType DEF Comparing

\* Most steps compare nothing, and begin no comparison.
LEMMA NoGuess ==
  ASSUME TypeOK, OtpInv, guesses' = guesses, Comparing' \subseteq Comparing,
         \/ user'.exists = user.exists /\ otp'.attempts = otp.attempts
         \/ ~user.exists /\ user'.exists /\ otp'.attempts = 0
  PROVE  OtpInv'
<1>1. Cardinality(Comparing') <= Cardinality(Comparing) BY ComparingIsFinite, FS_Subset
<1>2. guesses \in Nat /\ MaxOtp \in Nat BY BoundAssumption DEF TypeOK
<1>3. guesses' > 0 \/ Comparing' # {} =>
        guesses' + Cardinality(Comparing') < MaxOtp + Cardinality(Slot)
  BY <1>1, <1>2, ComparingIsFinite, ComparingIsFiniteNext DEF OtpInv
<1>4. user'.exists => guesses' = otp'.attempts BY DEF OtpInv
<1>5. ~user'.exists => guesses' = 0 /\ Comparing' = {} BY DEF OtpInv
<1> QED BY <1>3, <1>4, <1>5 DEF OtpInv

\* A slot that holds no comparison after the step was not made one.
LEMMA SlotLeft ==
  ASSUME TypeOK, NEW s \in Slot,
         \A o \in Slot : o # s => flight'[o] = flight[o],
         ~At(s, "otp", "read")'
  PROVE  Comparing' = Comparing \ {s}
BY DEF Comparing, At

LEMMA TabGuesses ==
  ASSUME TypeOK, OtpInv, NEW s \in Slot, NEW t \in Tab, TabStep(s, t)
  PROVE  OtpInv'
<1> USE DEF server, client, ghosts
<1>1. user' = user /\ otp' = otp /\ guesses' = guesses
  BY DEF TabStep, BeginRegister, BeginRefresh, BeginLogoutAll, BeginLogin, BeginOtp
<1>2. CASE BeginRegister(s, t)
  BY <1>1, <1>2, OtherSlots, SlotLeft, NoGuess DEF BeginRegister, Begin, At, Idle
<1>3. CASE BeginRefresh(s, t)
  <2>1. PICK at : Begin(s, [Idle EXCEPT !.kind = "refresh", !.tab = t, !.at = at,
                      !.row = Cookie(t), !.used = Cookie(t), !.seen = user.version])
    BY <1>3 DEF BeginRefresh
  <2> QED BY <1>1, <2>1, OtherSlots, SlotLeft, NoGuess DEF Begin, At, Idle
<1>4. CASE BeginLogoutAll(s, t)
  BY <1>1, <1>4, OtherSlots, SlotLeft, NoGuess DEF BeginLogoutAll, Begin, At, Idle
<1>5. ASSUME NEW good \in BOOLEAN, BeginLogin(s, t, good) PROVE OtpInv'
  BY <1>1, <1>5, OtherSlots, SlotLeft, NoGuess DEF BeginLogin, Begin, At, Idle
<1>6. ASSUME NEW good \in BOOLEAN, BeginOtp(s, t, good) PROVE OtpInv'
  <2>1. user.exists /\ otp.attempts < MaxOtp BY <1>6 DEF BeginOtp, Authorized
  <2>2. guesses = otp.attempts BY <2>1 DEF OtpInv
  <2>3. guesses' + Cardinality(Comparing') < MaxOtp + Cardinality(Slot)
    BY <1>1, <2>1, <2>2, ComparingIsFinite, ComparingIsFiniteNext, BoundAssumption DEF TypeOK
  <2> QED BY <1>1, <2>1, <2>2, <2>3 DEF OtpInv
<1> QED BY <1>2, <1>3, <1>4, <1>5, <1>6 DEF TabStep

LEMMA HandlerGuesses ==
  ASSUME TypeOK, OtpInv, NEW s \in Slot, HandlerStep(s)
  PROVE  OtpInv'
<1> USE DEF server, client, ghosts
<1>a. flight[s] \in Flight \/ flight[s] = Idle BY FlightFields
<1>e. ASSUME End(s) PROVE Comparing' = Comparing \ {s}
  <2>1. flight'[s] = Idle /\ \A o \in Slot : o # s => flight'[o] = flight[o]
    BY <1>e, OtherSlots DEF End
  <2> QED BY <2>1, SlotLeft DEF At, Idle
<1>n. ASSUME NEW at \in {"issue", "answer", "refusal"}, NEW f,
             f.at = at, flight' = [flight EXCEPT ![s] = f]
      PROVE  Comparing' = Comparing \ {s}
  BY <1>n, OtherSlots, SlotLeft DEF At
<1>1. CASE CommitRegister(s)
  <2>1. CASE user.exists
    BY <1>1, <1>e, <2>1, NoGuess DEF CommitRegister
  <2>2. CASE ~user.exists
    <3>1. user'.exists /\ otp'.attempts = 0
      BY <1>1, <2>2 DEF CommitRegister, TypeOK, User
    <3>2. Comparing' = Comparing \ {s}
      BY <1>1, <1>a, <1>n, <2>2 DEF CommitRegister, At, Flight, Idle
    <3> QED BY <1>1, <2>2, <3>1, <3>2, NoGuess DEF CommitRegister
  <2> QED BY <2>1, <2>2
<1>2. CASE FailLogin(s)
  <2>1. user'.exists = user.exists BY <1>2 DEF FailLogin, TypeOK, User
  <2> QED BY <1>2, <1>e, <2>1, NoGuess DEF FailLogin
<1>3. CASE PassLogin(s)
  <2>1. user'.exists = user.exists BY <1>3 DEF PassLogin, TypeOK, User
  <2>2. flight[s] \in Flight BY <1>a, <1>3 DEF PassLogin, At, Idle
  <2>3. flight'[s].at = "issue" /\ \A o \in Slot : o # s => flight'[o] = flight[o]
    BY <1>3, <2>2 DEF PassLogin, TypeOK, Flight
  <2>4. Comparing' = Comparing \ {s} BY <2>3, SlotLeft DEF At
  <2> QED BY <1>3, <2>1, <2>4, NoGuess DEF PassLogin
<1>4. ASSUME NEW r \in Row, IssueSession(s, r) \/ Rotate(s, r) PROVE OtpInv'
  <2>1. flight[s] \in Flight BY <1>a, <1>4 DEF IssueSession, Rotate, At, Idle
  <2>2. flight'[s].at = "answer" /\ \A o \in Slot : o # s => flight'[o] = flight[o]
    BY <1>4, <2>1 DEF IssueSession, Rotate, TypeOK, Flight
  <2>3. Comparing' = Comparing \ {s} BY <2>2, SlotLeft DEF At
  <2> QED BY <1>4, <2>3, NoGuess DEF IssueSession, Rotate
<1>r. RevokeAll => user'.exists = user.exists BY DEF RevokeAll, TypeOK, User
<1>5. CASE RevokeFamily(s) \/ CommitLogoutAll(s)
  <2>1. flight[s] \in Flight BY <1>a, <1>5 DEF RevokeFamily, CommitLogoutAll, At, Idle
  <2>2. /\ flight'[s].at \in {"answer", "refusal"}
        /\ \A o \in Slot : o # s => flight'[o] = flight[o]
    BY <1>5, <2>1 DEF RevokeFamily, CommitLogoutAll, TypeOK, Flight
  <2>3. Comparing' = Comparing \ {s} BY <2>2, SlotLeft DEF At
  <2> QED BY <1>5, <1>r, <2>3, NoGuess DEF RevokeFamily, CommitLogoutAll
<1>6. CASE BeginReset(s)
  BY <1>6, OtherSlots, SlotLeft, NoGuess DEF BeginReset, Begin, At, Idle
<1>7. CASE CommitReset(s)
  BY <1>7, <1>e, <1>r, NoGuess DEF CommitReset
\* One comparison ends, and one wrong code is counted.
<1>8. CASE WrongOtp(s)
  <2>1. s \in Comparing BY <1>8 DEF WrongOtp, Comparing
  <2>2. Comparing' = Comparing \ {s} BY <1>8, <1>e DEF WrongOtp
  <2>3. Cardinality(Comparing') = Cardinality(Comparing) - 1
    BY <2>1, <2>2, ComparingIsFinite, FS_RemoveElement
  <2>4. user.exists /\ user' = user BY <1>8, <2>1 DEF OtpInv, WrongOtp
  <2>5. guesses \in Nat /\ otp.attempts \in Nat BY DEF TypeOK
  <2>6. guesses' = guesses + 1 /\ otp'.attempts = otp.attempts + 1
    BY <1>8 DEF WrongOtp, TypeOK
  <2>7. guesses + Cardinality(Comparing) < MaxOtp + Cardinality(Slot) BY <2>1 DEF OtpInv
  <2>8. guesses' + Cardinality(Comparing') < MaxOtp + Cardinality(Slot)
    BY <2>3, <2>5, <2>6, <2>7, ComparingIsFinite
  <2> QED BY <2>4, <2>6, <2>8 DEF OtpInv
<1>9. CASE RightOtp(s)
  <2>1. otp'.attempts = otp.attempts BY <1>9 DEF RightOtp, TypeOK
  <2> QED BY <1>9, <1>e, <2>1, NoGuess DEF RightOtp
<1>10. CASE DeliverSession(s) \/ DeliverLogoutAll(s) \/ DeliverRefusal(s) \/ Fail(s)
  <2>1. user' = user /\ otp' = otp /\ guesses' = guesses /\ End(s)
    BY <1>10 DEF DeliverSession, DeliverLogoutAll, DeliverRefusal, Fail
  <2> QED BY <1>e, <2>1, NoGuess
<1> QED
  BY <1>1, <1>2, <1>3, <1>4, <1>5, <1>6, <1>7, <1>8, <1>9, <1>10 DEF HandlerStep

LEMMA NextGuesses == TypeOK /\ OtpInv /\ [Next]_vars => OtpInv'
<1> SUFFICES ASSUME TypeOK, OtpInv, [Next]_vars PROVE OtpInv' OBVIOUS
<1> USE DEF server, client, ghosts
<1>k. UNCHANGED flight => Comparing' = Comparing BY DEF Comparing, At
<1>1. CASE UNCHANGED vars BY <1>1, <1>k, NoGuess DEF vars
<1>2. ASSUME NEW s \in Slot, HandlerStep(s) PROVE OtpInv' BY <1>2, HandlerGuesses
<1>3. ASSUME NEW s \in Slot, NEW t \in Tab, TabStep(s, t) PROVE OtpInv' BY <1>3, TabGuesses
<1>4. ASSUME NEW t \in Tab, RefreshWithoutCookie(t) \/ Logout(t) \/ Reload(t)
      PROVE  OtpInv'
  BY <1>4, <1>k, NoGuess DEF RefreshWithoutCookie, Logout, Reload
<1>5. CASE LockExpires \/ SetSuspended
  <2>1. user'.exists = user.exists BY <1>5 DEF LockExpires, SetSuspended, TypeOK, User
  <2> QED BY <1>5, <1>k, <2>1, NoGuess DEF LockExpires, SetSuspended
<1>6. CASE RequestReset BY <1>6, <1>k, NoGuess DEF RequestReset
<1> QED BY <1>1, <1>2, <1>3, <1>4, <1>5, <1>6 DEF Next

LEMMA InitGuesses == Init => OtpInv
<1> SUFFICES ASSUME Init PROVE OtpInv OBVIOUS
<1>1. guesses = 0 /\ otp.attempts = 0 BY DEF Init
<1>2. \A s \in Slot : flight[s] = Idle BY DEF Init
<1>3. Comparing = {} BY <1>2 DEF Comparing, At, Idle
<1> QED BY <1>1, <1>3 DEF OtpInv

\* However the requests interleave, a one-time code is compared with fewer
\* wrong codes than its limit and the handlers there are (verifyOtp).
THEOREM OtpGuessesBoundedAlways == Spec => []OtpGuessesBounded
<1>1. TypeOK /\ SessionInv /\ [Next]_vars => TypeOK' BY NextTypes DEF SessionInv
<1>2. TypeOK /\ OtpInv => OtpGuessesBounded
  BY ComparingIsFinite, BoundAssumption DEF OtpInv, OtpGuessesBounded, TypeOK
<1> QED
  BY InitTypes, InitSessions, InitGuesses, <1>1, <1>2, NextSessions, NextGuesses, PTL
  DEF Spec
-------------------------------------------------------------------------------
\* A session is created, and its answer is on the way to the tab.
Answers(s) == flight[s].at = "answer" /\ flight[s].kind \in {"login", "register", "refresh"}

\* The cookie a refresh came with is in no jar but that of its tab.
CookieIsOwn(s) ==
  flight[s].used # Null =>
    /\ flight[s].kind = "refresh"
    /\ Issued(flight[s].used)
    /\ \A b \in Browser : jar[b] = flight[s].used => b = BrowserOf[flight[s].tab]

\* A refresh that will rotate replaces the row of its own cookie.
ReadsItsCookie(s) ==
  At(s, "refresh", "read") => flight[s].used # Null /\ flight[s].row = flight[s].used

\* The row of a session on its way is live, and known to nobody else yet.
AnswersAnew(s) ==
  Answers(s) =>
    /\ row[flight[s].row].state = "live"
    /\ \A b \in Browser : jar[b] # flight[s].row
    /\ \A o \in Slot : /\ flight[o].used # flight[s].row
                       /\ o # s /\ Answers(o) => flight[o].row # flight[s].row

SlotCalm(s) ==
  flight[s].at # "reuse" /\ CookieIsOwn(s) /\ ReadsItsCookie(s) /\ AnswersAnew(s)

\* A refresh of the browser has replaced its cookie, and brings the new one.
Replaced(b) ==
  \E s \in Slot : /\ At(s, "refresh", "answer")
                  /\ flight[s].used = jar[b]
                  /\ BrowserOf[flight[s].tab] = b

JarCalm(b) ==
  jar[b] # Null =>
    /\ \A c \in Browser : jar[c] = jar[b] => c = b
    /\ row[jar[b]].state = "live" \/ Replaced(b)

\* Until something of the kind ReuseOnlyByTrouble names has happened, no
\* cookie is used for which there is no live row, or a new one on its way.
CalmInv ==
  excused \/ /\ ~reused
             /\ \A s \in Slot : SlotCalm(s)
             /\ \A b \in Browser : JarCalm(b)

-------------------------------------------------------------------------------
LEMMA AnswersIssued ==
  ASSUME SessionInv, NEW s \in Slot, Answers(s)
  PROVE  Issued(flight[s].row) /\ flight[s].row # Null
BY NullAssumption DEF SessionInv, FlightsAreGood, FlightGood, Answers, Issued

\* Most steps begin or end a request that carries no cookie and no session.
LEMMA QuietCalm ==
  ASSUME SessionInv, CalmInv, NEW s \in Slot,
         row' = row, excused => excused', reused' = reused,
         \A b \in Browser : jar'[b] = jar[b] \/ jar'[b] = Null,
         \A o \in Slot : o # s => flight'[o] = flight[o],
         flight'[s].used = Null, flight'[s].at \notin {"reuse", "answer"},
         ~At(s, "refresh", "read")',
         ~At(s, "refresh", "answer") \/ excused'
  PROVE  CalmInv'
<1> SUFFICES ASSUME ~excused, ~excused' PROVE CalmInv' BY DEF CalmInv
<1>1. ~reused /\ (\A o \in Slot : SlotCalm(o)) /\ (\A b \in Browser : JarCalm(b))
  BY DEF CalmInv
<1>2. ~Answers(s)' BY DEF Answers
<1>3. \A o \in Slot : Answers(o)' => o # s /\ Answers(o) /\ flight'[o] = flight[o]
  BY <1>2 DEF Answers
<1>4. ASSUME NEW o \in Slot PROVE CookieIsOwn(o)'
  <2>1. CASE o = s BY <2>1 DEF CookieIsOwn
  <2>2. CASE o # s
    <3>1. flight'[o] = flight[o] /\ CookieIsOwn(o) BY <1>1, <2>2 DEF SlotCalm
    <3> QED BY <3>1 DEF CookieIsOwn, Issued
  <2> QED BY <2>1, <2>2
<1>5. ASSUME NEW o \in Slot PROVE ReadsItsCookie(o)'
  BY <1>1 DEF SlotCalm, ReadsItsCookie, At
<1>6. ASSUME NEW o \in Slot, Answers(o)'
      PROVE  /\ row'[flight'[o].row].state = "live"
             /\ \A b \in Browser : jar'[b] # flight'[o].row
             /\ \A q \in Slot : /\ flight'[q].used # flight'[o].row
                                /\ q # o /\ Answers(q)' => flight'[q].row # flight'[o].row
  <2>1. Answers(o) /\ flight'[o] = flight[o] BY <1>3, <1>6
  <2>2. AnswersAnew(o) /\ flight[o].row # Null BY <1>1, <2>1, AnswersIssued DEF SlotCalm
  <2> QED BY <1>3, <2>1, <2>2 DEF AnswersAnew
<1>7. ASSUME NEW b \in Browser, jar'[b] # Null
      PROVE  /\ \A c \in Browser : jar'[c] = jar'[b] => c = b
             /\ row'[jar'[b]].state = "live" \/ Replaced(b)'
  <2>1. JarCalm(b) /\ jar'[b] = jar[b] BY <1>1, <1>7
  <2>2. Replaced(b) => Replaced(b)' BY <2>1 DEF Replaced, At
  <2> QED BY <1>7, <2>1, <2>2 DEF JarCalm
<1>8. \A o \in Slot : flight'[o].at # "reuse" BY <1>1 DEF SlotCalm
<1> QED BY <1>1, <1>4, <1>5, <1>6, <1>7, <1>8 DEF CalmInv, SlotCalm, AnswersAnew, JarCalm

\* A cookie whose row was replaced belongs to a refresh of another tab: the
\* 401s of one tab share theirs.
LEMMA RefreshCalm ==
  ASSUME TypeOK, SessionInv, CalmInv, NEW s \in Slot, NEW t \in Tab, BeginRefresh(s, t)
  PROVE  CalmInv'
<1> SUFFICES ASSUME ~excused, ~excused' PROVE CalmInv'
  BY DEF CalmInv, BeginRefresh
<1>1. ~reused /\ (\A o \in Slot : SlotCalm(o)) /\ (\A b \in Browser : JarCalm(b))
  BY DEF CalmInv
<1> DEFINE c == Cookie(t)
<1>2. row' = row /\ jar' = jar /\ reused' = reused BY DEF BeginRefresh, server, client
<1>3. BrowserOf[t] \in Browser /\ c = jar[BrowserOf[t]] /\ c # Null
  BY BrowserAssumption DEF Cookie, BeginRefresh
<1>4. Issued(c) BY <1>3 DEF SessionInv, CookiesAreIssued
<1>5. \A o \in Slot : flight[o].used = c => flight[o].tab = t BY DEF BeginRefresh
<1>6. ~Replaced(BrowserOf[t])
  <2> SUFFICES ASSUME NEW o \in Slot, At(o, "refresh", "answer"), flight[o].used = c
               PROVE  FALSE
    BY <1>3 DEF Replaced
  <2>1. flight[o].tab = t /\ flight[o].kind = "refresh" BY <1>5 DEF At
  <2> QED BY <2>1 DEF BeginRefresh, Refreshing
<1>7. row[c].state = "live" BY <1>1, <1>3, <1>6 DEF JarCalm
<1>8. PICK at \in {"read", "refusal"} :
        Begin(s, [Idle EXCEPT !.kind = "refresh", !.tab = t, !.at = at,
                    !.row = Cookie(t), !.used = Cookie(t), !.seen = user.version])
  BY <1>7 DEF BeginRefresh
<1> DEFINE f == [Idle EXCEPT !.kind = "refresh", !.tab = t, !.at = at,
                   !.row = Cookie(t), !.used = Cookie(t), !.seen = user.version]
<1>9. f.kind = "refresh" /\ f.tab = t /\ f.at = at /\ f.row = c /\ f.used = c BY DEF Idle
<1>10. flight[s] = Idle /\ flight'[s] = f /\ \A o \in Slot : o # s => flight'[o] = flight[o]
  BY <1>8, OtherSlots DEF Begin
<1> HIDE DEF f, c
<1>11. \A o \in Slot : Answers(o)' => o # s /\ Answers(o) /\ flight'[o] = flight[o]
  BY <1>9, <1>10 DEF Answers
<1>12. ASSUME NEW o \in Slot PROVE CookieIsOwn(o)'
  <2>1. CASE o = s
    <3>1. JarCalm(BrowserOf[t]) BY <1>1, <1>3
    <3>2. \A b \in Browser : jar[b] = c => b = BrowserOf[t] BY <1>3, <3>1 DEF JarCalm
    <3> QED BY <1>2, <1>4, <1>9, <1>10, <2>1, <3>2 DEF CookieIsOwn, Issued
  <2>2. CASE o # s
    <3>1. flight'[o] = flight[o] /\ CookieIsOwn(o) BY <1>1, <1>10, <2>2 DEF SlotCalm
    <3> QED BY <1>2, <3>1 DEF CookieIsOwn, Issued
  <2> QED BY <2>1, <2>2
<1>13. ASSUME NEW o \in Slot PROVE ReadsItsCookie(o)'
  BY <1>1, <1>3, <1>9, <1>10 DEF SlotCalm, ReadsItsCookie, At
<1>14. ASSUME NEW o \in Slot, Answers(o)'
       PROVE  /\ row'[flight'[o].row].state = "live"
              /\ \A b \in Browser : jar'[b] # flight'[o].row
              /\ \A q \in Slot : /\ flight'[q].used # flight'[o].row
                                 /\ q # o /\ Answers(q)' => flight'[q].row # flight'[o].row
  <2>1. Answers(o) /\ flight'[o] = flight[o] BY <1>11, <1>14
  <2>2. AnswersAnew(o) BY <1>1 DEF SlotCalm
  <2>3. c # flight[o].row BY <1>3, <2>1, <2>2 DEF AnswersAnew
  <2>4. \A q \in Slot : flight'[q].used # flight'[o].row
    BY <1>9, <1>10, <2>1, <2>2, <2>3 DEF AnswersAnew
  <2> QED BY <1>2, <1>11, <2>1, <2>2, <2>4 DEF AnswersAnew
<1>15. ASSUME NEW b \in Browser, jar'[b] # Null
       PROVE  /\ \A d \in Browser : jar'[d] = jar'[b] => d = b
              /\ row'[jar'[b]].state = "live" \/ Replaced(b)'
  <2>1. JarCalm(b) BY <1>1
  <2>2. Replaced(b) => Replaced(b)' BY <1>2, <1>10 DEF Replaced, At, Idle
  <2> QED BY <1>2, <1>15, <2>1, <2>2 DEF JarCalm
<1>16. \A o \in Slot : flight'[o].at # "reuse" BY <1>1, <1>9, <1>10 DEF SlotCalm
<1> QED
  BY <1>1, <1>2, <1>12, <1>13, <1>14, <1>15, <1>16 DEF CalmInv, SlotCalm, AnswersAnew, JarCalm

\* A login, a registration or a rotation creates a row that nobody knows.  A
\* rotation takes the row of the cookie it came with, and no other.
LEMMA CreateCalm ==
  ASSUME TypeOK, SessionInv, CalmInv, NEW s \in Slot, NEW r \in Row,
         IssueSession(s, r) \/ Rotate(s, r)
  PROVE  CalmInv'
<1> SUFFICES ASSUME ~excused PROVE CalmInv'
  BY DEF CalmInv, IssueSession, Rotate, ghosts
<1>1. ~reused /\ (\A o \in Slot : SlotCalm(o)) /\ (\A b \in Browser : JarCalm(b))
  BY DEF CalmInv
<1>2. row[r] = NoRow /\ jar' = jar /\ excused' = excused /\ reused' = reused
  BY DEF IssueSession, Rotate, client, ghosts
<1>3. ~Issued(r) BY <1>2 DEF Issued, NoRow
<1>4. flight[s] \in Flight BY FlightFields DEF IssueSession, Rotate, At, Idle
<1>5. /\ flight'[s].at = "answer" /\ flight'[s].row = r
      /\ flight'[s].kind = flight[s].kind /\ flight'[s].used = flight[s].used
      /\ flight'[s].tab = flight[s].tab
      /\ \A o \in Slot : o # s => flight'[o] = flight[o]
  BY <1>4 DEF IssueSession, Rotate, TypeOK, Flight
<1>6. ~Answers(s) BY DEF IssueSession, Rotate, At, Answers
<1> DEFINE old == flight[s].used
<1>7. /\ row'[r].state = "live"
      /\ \A o \in Row : o # r => \/ row'[o] = row[o]
                                 \/ o = old /\ At(s, "refresh", "read") /\ row'[o].state = "revoked"
  <2>1. CASE IssueSession(s, r) BY <2>1 DEF IssueSession, TypeOK
  <2>2. CASE Rotate(s, r)
    <3>1. old # Null /\ flight[s].row = old /\ At(s, "refresh", "read")
      BY <1>1, <2>2 DEF SlotCalm, ReadsItsCookie, Rotate
    <3>2. Issued(old) BY <1>1, <3>1 DEF SlotCalm, CookieIsOwn
    <3>3. old \in Row /\ old # r BY <1>3, <3>2 DEF Issued
    <3> DEFINE new == [state |-> "live", root |-> row[old].root,
                       overlapped |-> row[old].overlapped \/ flight[s].seen # user.version]
    <3>4. row' = [row EXCEPT ![r] = new, ![old].state = "revoked"] BY <2>2, <3>1 DEF Rotate
    <3>5. new.state = "live" OBVIOUS
    <3> HIDE DEF new, old
    <3>6. /\ row'[r] = new
          /\ row'[old] = [row[old] EXCEPT !.state = "revoked"]
          /\ \A o \in Row : o # r /\ o # old => row'[o] = row[o]
      BY <3>3, <3>4 DEF TypeOK
    <3>7. row'[old].state = "revoked"
      <4>1. row[old] \in RowState BY <3>3 DEF TypeOK
      <4> QED BY <3>6, <4>1 DEF RowState
    <3> QED BY <3>1, <3>5, <3>6, <3>7
  <2> QED BY <2>1, <2>2
<1>8. \A o \in Row : Issued(o) => Issued(o)' /\ o # r BY <1>3, <1>7 DEF Issued
<1>9. ASSUME NEW o \in Slot PROVE /\ CookieIsOwn(o)'
                                  /\ flight'[o].used # r
                                  /\ flight'[o].used = flight[o].used
  <2>1. CookieIsOwn(o) BY <1>1 DEF SlotCalm
  <2>2. /\ flight'[o].kind = flight[o].kind
        /\ flight'[o].used = flight[o].used
        /\ flight'[o].tab = flight[o].tab
    BY <1>5
  <2>3. flight[o].used # Null => flight[o].used \in Row BY <2>1 DEF CookieIsOwn, Issued
  <2>4. r # Null BY NullAssumption
  <2> QED BY <1>2, <1>8, <2>1, <2>2, <2>3, <2>4 DEF CookieIsOwn
<1>10. ASSUME NEW o \in Slot PROVE ReadsItsCookie(o)'
  BY <1>1, <1>5 DEF SlotCalm, ReadsItsCookie, At
<1>11. \A b \in Browser : jar[b] # r
  BY <1>3, NullAssumption DEF SessionInv, CookiesAreIssued
<1>12. ASSUME NEW o \in Slot, Answers(o)'
       PROVE  /\ row'[flight'[o].row].state = "live"
              /\ \A b \in Browser : jar'[b] # flight'[o].row
              /\ \A q \in Slot : /\ flight'[q].used # flight'[o].row
                                 /\ q # o /\ Answers(q)' => flight'[q].row # flight'[o].row
  <2>1. \A q \in Slot : q # s /\ Answers(q)' => Answers(q) /\ flight'[q] = flight[q]
    BY <1>5 DEF Answers
  <2>2. \A q \in Slot : q # s /\ Answers(q)' => flight'[q].row # r /\ flight'[q].row \in Row
    BY <1>8, <2>1, AnswersIssued DEF Issued
  <2>3. CASE o = s BY <1>2, <1>5, <1>7, <1>9, <1>11, <2>2, <2>3
  <2>4. CASE o # s
    <3>1. Answers(o) /\ flight'[o] = flight[o] /\ AnswersAnew(o)
      BY <1>1, <1>12, <2>1, <2>4 DEF SlotCalm
    <3>2. row'[flight[o].row] = row[flight[o].row]
      BY <1>7, <1>12, <2>2, <2>4, <3>1 DEF AnswersAnew
    <3>3. \A q \in Slot : q # o /\ Answers(q)' => flight'[q].row # flight'[o].row
      BY <1>5, <1>12, <2>1, <2>2, <2>4, <3>1 DEF AnswersAnew
    <3> QED BY <1>2, <1>9, <3>1, <3>2, <3>3 DEF AnswersAnew
  <2> QED BY <2>3, <2>4
<1>13. ASSUME NEW b \in Browser, jar'[b] # Null
       PROVE  /\ \A d \in Browser : jar'[d] = jar'[b] => d = b
              /\ row'[jar'[b]].state = "live" \/ Replaced(b)'
  <2>1. JarCalm(b) /\ jar'[b] = jar[b] BY <1>1, <1>2
  <2>2. jar[b] \in Row /\ jar[b] # r
    BY <1>11, <1>13, <2>1 DEF SessionInv, CookiesAreIssued, Issued
  <2>3. Replaced(b) => Replaced(b)'
    <3> SUFFICES ASSUME NEW o \in Slot, At(o, "refresh", "answer"), flight[o].used = jar[b],
                        BrowserOf[flight[o].tab] = b
                 PROVE  Replaced(b)'
      BY DEF Replaced
    <3>1. o # s BY <1>6 DEF At, Answers
    <3> QED BY <1>5, <2>1, <3>1 DEF Replaced, At
  <2>4. CASE row'[jar[b]] = row[jar[b]] BY <1>2, <1>13, <2>1, <2>3, <2>4 DEF JarCalm
  <2>5. CASE jar[b] = old /\ At(s, "refresh", "read")
    <3>1. CookieIsOwn(s) /\ old # Null BY <1>1, <1>13, <2>1, <2>5 DEF SlotCalm
    <3>2. BrowserOf[flight[s].tab] = b BY <2>5, <3>1 DEF CookieIsOwn
    <3>3. At(s, "refresh", "answer")' BY <1>5, <2>5 DEF At
    <3>4. Replaced(b)' BY <1>5, <2>1, <2>5, <3>2, <3>3 DEF Replaced
    <3> QED BY <1>2, <1>13, <2>1, <3>4 DEF JarCalm
  <2> QED BY <1>7, <2>2, <2>4, <2>5
<1>14. \A o \in Slot : flight'[o].at # "reuse" BY <1>1, <1>5 DEF SlotCalm
<1> QED
  BY <1>1, <1>2, <1>9, <1>10, <1>12, <1>13, <1>14 DEF CalmInv, SlotCalm, AnswersAnew, JarCalm

\* The cookie a session comes with is new, and takes the place of the old.
LEMMA DeliverCalm ==
  ASSUME TypeOK, SessionInv, CalmInv, NEW s \in Slot, DeliverSession(s)
  PROVE  CalmInv'
<1> SUFFICES ASSUME ~excused PROVE CalmInv' BY DEF CalmInv, DeliverSession, ghosts
<1>1. ~reused /\ (\A o \in Slot : SlotCalm(o)) /\ (\A b \in Browser : JarCalm(b))
  BY DEF CalmInv
<1> DEFINE r == flight[s].row
           d == BrowserOf[flight[s].tab]
<1>2. row' = row /\ excused' = excused /\ reused' = reused
  BY DEF DeliverSession, server, ghosts
<1>3. \A b \in Browser : jar'[b] = IF b = d THEN r ELSE jar[b]
  BY DEF DeliverSession, TypeOK
<1>4. flight'[s] = Idle /\ \A o \in Slot : o # s => flight'[o] = flight[o]
  BY OtherSlots DEF DeliverSession, End
<1>5. Answers(s) BY DEF DeliverSession, Answers
<1>6. Issued(r) /\ r # Null /\ AnswersAnew(s) BY <1>1, <1>5, AnswersIssued DEF SlotCalm
<1>7. /\ row[r].state = "live"
      /\ \A b \in Browser : jar[b] # r
      /\ \A o \in Slot : flight[o].used # r
      /\ \A o \in Slot : o # s /\ Answers(o) => flight[o].row # r
  BY <1>5, <1>6 DEF AnswersAnew
<1> HIDE DEF r
<1>8. \A o \in Slot : Answers(o)' => o # s /\ Answers(o) /\ flight'[o] = flight[o]
  BY <1>4 DEF Answers, Idle
<1>9. ASSUME NEW o \in Slot PROVE CookieIsOwn(o)'
  <2>1. CASE o = s BY <1>4, <2>1 DEF CookieIsOwn, Idle
  <2>2. CASE o # s
    <3>1. flight'[o] = flight[o] /\ CookieIsOwn(o) /\ flight[o].used # r
      BY <1>1, <1>4, <1>7, <2>2 DEF SlotCalm
    <3> QED BY <1>2, <1>3, <3>1 DEF CookieIsOwn, Issued
  <2> QED BY <2>1, <2>2
<1>10. ASSUME NEW o \in Slot PROVE ReadsItsCookie(o)'
  BY <1>1, <1>4 DEF SlotCalm, ReadsItsCookie, At, Idle
<1>11. ASSUME NEW o \in Slot, Answers(o)'
       PROVE  /\ row'[flight'[o].row].state = "live"
              /\ \A b \in Browser : jar'[b] # flight'[o].row
              /\ \A q \in Slot : /\ flight'[q].used # flight'[o].row
                                 /\ q # o /\ Answers(q)' => flight'[q].row # flight'[o].row
  <2>1. o # s /\ Answers(o) /\ flight'[o] = flight[o] BY <1>8, <1>11
  <2>2. AnswersAnew(o) /\ flight[o].row # Null BY <1>1, <2>1, AnswersIssued DEF SlotCalm
  <2>3. \A b \in Browser : jar'[b] # flight[o].row
    BY <1>3, <1>7, <2>1, <2>2 DEF AnswersAnew
  <2>4. \A q \in Slot : flight'[q].used # flight[o].row
    BY <1>4, <2>1, <2>2 DEF AnswersAnew, Idle
  <2> QED BY <1>2, <1>8, <2>1, <2>2, <2>3, <2>4 DEF AnswersAnew
<1>12. ASSUME NEW b \in Browser, jar'[b] # Null
       PROVE  /\ \A c \in Browser : jar'[c] = jar'[b] => c = b
              /\ row'[jar'[b]].state = "live" \/ Replaced(b)'
  <2>1. CASE b = d BY <1>2, <1>3, <1>7, <2>1
  <2>2. CASE b # d
    <3>1. JarCalm(b) /\ jar'[b] = jar[b] BY <1>1, <1>3, <2>2
    <3>2. \A c \in Browser : jar'[c] = jar'[b] => c = b
      BY <1>3, <1>7, <1>12, <3>1 DEF JarCalm
    <3>3. Replaced(b) => Replaced(b)' BY <1>4, <2>2, <3>1 DEF Replaced, At
    <3> QED BY <1>2, <1>12, <3>1, <3>2, <3>3 DEF JarCalm
  <2> QED BY <2>1, <2>2
<1>13. \A o \in Slot : flight'[o].at # "reuse" BY <1>1, <1>4 DEF SlotCalm, Idle
<1> QED
  BY <1>1, <1>2, <1>9, <1>10, <1>11, <1>12, <1>13 DEF CalmInv, SlotCalm, AnswersAnew, JarCalm

LEMMA TabCalm ==
  ASSUME TypeOK, SessionInv, CalmInv, NEW s \in Slot, NEW t \in Tab, TabStep(s, t)
  PROVE  CalmInv'
<1> USE DEF server, client, ghosts
<1>1. CASE BeginRefresh(s, t) BY <1>1, RefreshCalm
<1>2. CASE BeginRegister(s, t)
  BY <1>2, OtherSlots, QuietCalm DEF BeginRegister, Begin, At, Idle
<1>3. CASE BeginLogoutAll(s, t)
  BY <1>3, OtherSlots, QuietCalm DEF BeginLogoutAll, Begin, At, Idle
<1>4. ASSUME NEW good \in BOOLEAN, BeginLogin(s, t, good) PROVE CalmInv'
  BY <1>4, OtherSlots, QuietCalm DEF BeginLogin, Begin, At, Idle
<1>5. ASSUME NEW good \in BOOLEAN, BeginOtp(s, t, good) PROVE CalmInv'
  BY <1>5, OtherSlots, QuietCalm DEF BeginOtp, Begin, At, Idle
<1> QED BY <1>1, <1>2, <1>3, <1>4, <1>5 DEF TabStep

LEMMA HandlerCalm ==
  ASSUME TypeOK, SessionInv, CalmInv, NEW s \in Slot, HandlerStep(s)
  PROVE  CalmInv'
<1> USE DEF server, client, ghosts
<1>a. flight[s] \in Flight \/ flight[s] = Idle BY FlightFields
<1>e. ASSUME End(s) PROVE /\ flight'[s] = Idle
                          /\ \A o \in Slot : o # s => flight'[o] = flight[o]
  BY <1>e, OtherSlots DEF End
<1>1. CASE CommitRegister(s)
  <2>1. CASE user.exists
    BY <1>1, <1>e, <2>1, QuietCalm DEF CommitRegister, At, Idle
  <2>2. CASE ~user.exists
    <3>1. flight[s] \in Flight /\ flight[s].kind = "register"
      BY <1>1, <1>a DEF CommitRegister, At, Idle
    <3>2. /\ flight'[s].at = "issue" /\ flight'[s].kind = "register"
          /\ flight'[s].used = flight[s].used
          /\ \A o \in Slot : o # s => flight'[o] = flight[o]
      BY <1>1, <2>2, <3>1 DEF CommitRegister, TypeOK, Flight
    <3>3. excused \/ flight[s].used = Null BY <3>1 DEF CalmInv, SlotCalm, CookieIsOwn
    <3> QED BY <1>1, <3>1, <3>2, <3>3, QuietCalm DEF CommitRegister, At, CalmInv
  <2> QED BY <2>1, <2>2
<1>2. CASE FailLogin(s) BY <1>2, <1>e, QuietCalm DEF FailLogin, At, Idle
<1>3. CASE PassLogin(s)
  <2>1. flight[s] \in Flight /\ flight[s].kind = "login"
    BY <1>3, <1>a DEF PassLogin, At, Idle
  <2>2. /\ flight'[s].at = "issue" /\ flight'[s].kind = "login"
        /\ flight'[s].used = flight[s].used
        /\ \A o \in Slot : o # s => flight'[o] = flight[o]
    BY <1>3, <2>1 DEF PassLogin, TypeOK, Flight
  <2>3. excused \/ flight[s].used = Null BY <2>1 DEF CalmInv, SlotCalm, CookieIsOwn
  <2> QED BY <1>3, <2>1, <2>2, <2>3, QuietCalm DEF PassLogin, At, CalmInv
<1>4. ASSUME NEW r \in Row, IssueSession(s, r) \/ Rotate(s, r) PROVE CalmInv'
  BY <1>4, CreateCalm
\* The family is revoked only when the row of a cookie was found revoked.
<1>5. CASE RevokeFamily(s) BY <1>5 DEF RevokeFamily, At, CalmInv, SlotCalm
<1>6. CASE CommitLogoutAll(s) \/ CommitReset(s)
  BY <1>6 DEF CommitLogoutAll, CommitReset, CalmInv
<1>7. CASE BeginReset(s)
  BY <1>7, OtherSlots, QuietCalm DEF BeginReset, Begin, At, Idle
<1>8. CASE WrongOtp(s) BY <1>8, <1>e, QuietCalm DEF WrongOtp, At, Idle
<1>9. CASE RightOtp(s) BY <1>9, <1>e, QuietCalm DEF RightOtp, At, Idle
<1>10. CASE DeliverSession(s) BY <1>10, DeliverCalm
<1>11. CASE DeliverLogoutAll(s)
  <2>1. \A b \in Browser : jar'[b] = jar[b] \/ jar'[b] = Null
    BY <1>11 DEF DeliverLogoutAll, TypeOK
  <2> QED BY <1>11, <1>e, <2>1, QuietCalm DEF DeliverLogoutAll, At, Idle
<1>12. CASE DeliverRefusal(s)
  <2>1. jar' = jar BY <1>12, ExpireTypes DEF DeliverRefusal
  <2> QED BY <1>12, <1>e, <2>1, QuietCalm DEF DeliverRefusal, At, Idle
\* The new cookie of a refresh is lost.
<1>13. CASE Fail(s)
  <2>1. jar' = jar BY <1>13, ExpireTypes DEF Fail
  <2>2. flight'[s] = Idle /\ \A o \in Slot : o # s => flight'[o] = flight[o]
    BY <1>13, <1>e DEF Fail
  <2>3. row' = row /\ reused' = reused /\ excused' = (excused \/ At(s, "refresh", "answer"))
    BY <1>13 DEF Fail
  <2>4. (excused => excused') /\ (~At(s, "refresh", "answer") \/ excused') BY <2>3
  <2>5. /\ flight'[s].used = Null /\ flight'[s].at \notin {"reuse", "answer"}
        /\ ~At(s, "refresh", "read")'
    BY <2>2 DEF At, Idle
  <2> QED BY <2>1, <2>2, <2>3, <2>4, <2>5, QuietCalm
<1> QED
  BY <1>1, <1>2, <1>3, <1>4, <1>5, <1>6, <1>7, <1>8, <1>9, <1>10, <1>11, <1>12, <1>13
  DEF HandlerStep

LEMMA NextCalm == TypeOK /\ SessionInv /\ CalmInv /\ [Next]_vars => CalmInv'
<1> SUFFICES ASSUME TypeOK, SessionInv, CalmInv, [Next]_vars PROVE CalmInv' OBVIOUS
<1> USE DEF server, client, ghosts
<1>k. ASSUME row' = row, jar' = jar, flight' = flight, excused' = excused, reused' = reused
      PROVE  CalmInv'
  BY <1>k DEF CalmInv, SlotCalm, JarCalm, CookieIsOwn, ReadsItsCookie, AnswersAnew, Answers,
              Replaced, At, Issued
<1>1. CASE UNCHANGED vars BY <1>1, <1>k DEF vars
<1>2. ASSUME NEW s \in Slot, HandlerStep(s) PROVE CalmInv' BY <1>2, HandlerCalm
<1>3. ASSUME NEW s \in Slot, NEW t \in Tab, TabStep(s, t) PROVE CalmInv' BY <1>3, TabCalm
<1>4. ASSUME NEW t \in Tab, RefreshWithoutCookie(t) \/ Logout(t) \/ Reload(t)
      PROVE  CalmInv'
  BY <1>4, <1>k DEF RefreshWithoutCookie, Logout, Reload, SignOut
<1>5. CASE LockExpires \/ RequestReset \/ SetSuspended
  BY <1>5, <1>k DEF LockExpires, RequestReset, SetSuspended
<1> QED BY <1>1, <1>2, <1>3, <1>4, <1>5 DEF Next

LEMMA InitCalm == Init => CalmInv
<1> SUFFICES ASSUME Init PROVE CalmInv OBVIOUS
<1>1. ~reused /\ \A s \in Slot : flight[s] = Idle BY DEF Init
<1>2. \A b \in Browser : jar[b] = Null BY DEF Init
<1> QED
  BY <1>1, <1>2 DEF CalmInv, SlotCalm, JarCalm, CookieIsOwn, ReadsItsCookie, AnswersAnew,
                    Answers, At, Idle

\* With any number of browsers, tabs and requests, nobody is signed out
\* everywhere but for one of the troubles the specification names
\* (refreshTokens, and the shared refresh of api.js).
THEOREM ReuseOnlyByTroubleAlways == Spec => []ReuseOnlyByTrouble
<1>1. TypeOK /\ SessionInv /\ [Next]_vars => TypeOK' BY NextTypes DEF SessionInv
<1>2. CalmInv => ReuseOnlyByTrouble BY DEF CalmInv, ReuseOnlyByTrouble
<1> QED
  BY InitTypes, InitSessions, InitCalm, <1>1, <1>2, NextSessions, NextCalm, PTL DEF Spec
=============================================================================
