------------------------------ MODULE Accounts ------------------------------
(***************************************************************************)
(* One account: its refresh token rows and tokenVersion, the failed        *)
(* logins, the one-time code and the reset token, and the browser tabs     *)
(* that use it.  Tabs of one browser share the cookie of the refresh       *)
(* token; a tab keeps its access token in memory.                          *)
(*                                                                         *)
(* A handler is a slot of flight.  It begins with everything it reads      *)
(* before its first write (requireAuth included), and goes through         *)
(*                                                                         *)
(*   "read"     it has read, and its write is to come                      *)
(*   "reuse"    it has read a revoked row, and revokes the family          *)
(*   "issue"    the user is written, the refresh token row is to come      *)
(*   "answer"   committed, the answer is on its way                        *)
(*   "refusal"  refused, the answer is on its way                          *)
(*                                                                         *)
(* A request that is refused at once and changes nothing, in the server    *)
(* or in the tab, is not a step.  Clocks are not modelled: a token, a      *)
(* lock or a session may be found expired at any time.                     *)
(*                                                                         *)
(* An operator marked "Variant" is not part of the specification.          *)
(***************************************************************************)
EXTENDS Naturals, FiniteSets

CONSTANTS
  Browser,      \* browsers, each with a cookie jar
  Tab,          \* browser tabs
  BrowserOf,    \* the browser of a tab
  Slot,         \* handlers in flight at once
  Row,          \* ids of refresh token rows
  Null,
  MaxFailed,    \* MAX_FAILED_LOGIN_ATTEMPTS
  MaxOtp,       \* MAX_OTP_ATTEMPTS
  MaxRequests   \* the bound on requests

ASSUME BrowserAssumption == BrowserOf \in [Tab -> Browser]
ASSUME BoundAssumption   == MaxFailed \in Nat /\ MaxOtp \in Nat /\ MaxRequests \in Nat
ASSUME NullAssumption    == Null \notin Row \union Tab
ASSUME SlotAssumption    == IsFiniteSet(Slot)

VARIABLES
  user,      \* the User row
  row,       \* the RefreshToken rows
  reset,     \* the password reset token
  otp,       \* the OtpVerification row
  jar,       \* the refresh cookie of each browser
  page,      \* what a tab shows: loading, logged in, or logged out
  access,    \* the tokenVersion in the tab's access token, or Null
  flight,    \* the handlers in flight
  left,      \* how many requests may still begin
  guesses,   \* history: wrong codes the server has compared
  excused,   \* history: an answer was lost, a cookie was used by two
             \* refreshes at once, or a revocation ended other sessions
  reused,    \* history: the reuse detection has fired
  loggedOut  \* history: the rows in the cookies of tabs that logged out

server == <<user, row, reset, otp>>
client == <<jar, page, access>>
ghosts == <<guesses, excused, reused, loggedOut>>
vars   == <<server, client, flight, left, ghosts>>

User == [exists : BOOLEAN, version : Nat, suspended : BOOLEAN,
         failed : Nat, locked : BOOLEAN]

\* root is the tokenVersion at which the password of the session was
\* checked.  overlapped says that a revocation was committed between that
\* check, or the read of a later rotation, and the row it created.
RowState == [state : {"none", "live", "revoked"}, root : Nat, overlapped : BOOLEAN]
NoRow    == [state |-> "none", root |-> 0, overlapped |-> FALSE]

Kind   == {"login", "register", "refresh", "logoutAll", "reset", "otp"}
Flight == [kind : Kind,
           tab  : Tab \union {Null},
           at   : {"read", "reuse", "issue", "answer", "refusal"},
           row  : Row \union {Null},   \* the row read, then the row created
           used : Row \union {Null},   \* the cookie the request came with
           seen : Nat,                 \* the tokenVersion read
           root : Nat,                 \* the same, when the password was checked
           good : BOOLEAN,             \* the password or code is right
           count : Nat]                \* failedLoginAttempts as read
Idle   == [kind |-> "none", tab |-> Null, at |-> "idle", row |-> Null, used |-> Null,
           seen |-> 0, root |-> 0, good |-> FALSE, count |-> 0]

TypeOK ==
  /\ user \in User
  /\ row \in [Row -> RowState]
  /\ reset \in {"none", "open", "used"}
  /\ otp \in [open : BOOLEAN, attempts : Nat]
  /\ jar \in [Browser -> Row \union {Null}]
  /\ page \in [Tab -> {"loading", "in", "out"}]
  /\ access \in [Tab -> Nat \union {Null}]
  /\ flight \in [Slot -> Flight \union {Idle}]
  /\ left \in 0..MaxRequests
  /\ guesses \in Nat
  /\ excused \in BOOLEAN
  /\ reused \in BOOLEAN
  /\ loggedOut \subseteq Row

\* The account is seeded, or it is still to be registered.
Init ==
  /\ user \in [exists : BOOLEAN, version : {0}, suspended : {FALSE},
               failed : {0}, locked : {FALSE}]
  /\ otp = [open |-> FALSE, attempts |-> 0]
  /\ row = [r \in Row |-> NoRow]
  /\ reset = "none"
  /\ jar = [b \in Browser |-> Null]
  /\ page = [t \in Tab |-> "loading"]
  /\ access = [t \in Tab |-> Null]
  /\ flight = [s \in Slot |-> Idle]
  /\ left = MaxRequests
  /\ guesses = 0
  /\ excused = FALSE
  /\ reused = FALSE
  /\ loggedOut = {}

-------------------------------------------------------------------------------
Cookie(t) == jar[BrowserOf[t]]

\* A handler begins, with what it has read.
Begin(s, f) ==
  /\ flight[s] = Idle
  /\ left > 0
  /\ flight' = [flight EXCEPT ![s] = f]
  /\ left' = left - 1

End(s) == flight' = [flight EXCEPT ![s] = Idle]

At(s, kind, at) == flight[s].kind = kind /\ flight[s].at = at

\* A tab sends one form of the login page at a time.
Submitting(t) == \E s \in Slot : flight[s].tab = t /\ flight[s].kind \in {"login", "register"}

\* Variant: every 401 sends its own refresh.
RefreshingApart(t) == FALSE

\* The 401s of a tab share one refresh.
Refreshing(t) == \E s \in Slot : flight[s].tab = t /\ flight[s].kind = "refresh"

\* requireAuth: the token has the version of the user, who is not suspended.
Authorized(t) == user.exists /\ access[t] = user.version /\ ~user.suspended

\* Variant: a reset or logout-all only takes the access tokens back.
NoneRevoked == row

\* updateMany over the rows of the user that are not revoked.
AllRevoked == [r \in Row |->
  IF row[r].state = "live" THEN [row[r] EXCEPT !.state = "revoked"] ELSE row[r]]

\* Every session of the user ends: refresh tokens and access tokens.
RevokeAll ==
  /\ row' = AllRevoked
  /\ user' = [user EXCEPT !.version = @ + 1]

-------------------------------------------------------------------------------
\* Registration finds neither the email nor the phone.
BeginRegister(s, t) ==
  /\ page[t] # "in"
  /\ ~user.exists
  /\ ~Submitting(t)
  /\ Begin(s, [Idle EXCEPT !.kind = "register", !.at = "read", !.tab = t])
  /\ UNCHANGED <<server, client, ghosts>>

\* The user and the one-time code are created together; of two
\* registrations the unique keys refuse the second.
CommitRegister(s) ==
  /\ At(s, "register", "read")
  /\ IF user.exists
     THEN End(s) /\ UNCHANGED <<user, otp>>
     ELSE /\ user' = [user EXCEPT !.exists = TRUE]
          /\ otp' = [open |-> TRUE, attempts |-> 0]
          /\ flight' = [flight EXCEPT ![s].at = "issue"]
  /\ UNCHANGED <<row, reset, client, left, ghosts>>

\* login reads the user and compares the password; failed logins are bounded
\* a little above the maximum.
BeginLogin(s, t, good) ==
  /\ page[t] # "in"
  /\ user.exists /\ ~user.locked /\ ~user.suspended
  /\ user.failed <= MaxFailed
  /\ ~Submitting(t)
  /\ Begin(s, [Idle EXCEPT !.kind = "login", !.at = "read", !.tab = t, !.good = good,
                 !.root = user.version, !.count = user.failed])
  /\ UNCHANGED <<server, client, ghosts>>

\* The count is written back from the read; the lock is left as it is below
\* the maximum.
FailLogin(s) ==
  /\ At(s, "login", "read")
  /\ ~flight[s].good
  /\ user' = [user EXCEPT !.failed = flight[s].count + 1,
                          !.locked = @ \/ flight[s].count + 1 >= MaxFailed]
  /\ End(s)
  /\ UNCHANGED <<row, reset, otp, client, left, ghosts>>

\* Variant: the count is cleared, where the column is not nullable.
PassLoginNull(s) ==
  /\ At(s, "login", "read")
  /\ flight[s].good
  /\ user' = [user EXCEPT !.failed = Null, !.locked = FALSE]
  /\ flight' = [flight EXCEPT ![s].at = "issue", ![s].seen = user.version]
  /\ UNCHANGED <<row, reset, otp, client, left, ghosts>>

\* The access token is for the version this update returns.
PassLogin(s) ==
  /\ At(s, "login", "read")
  /\ flight[s].good
  /\ user' = [user EXCEPT !.failed = 0, !.locked = FALSE]
  /\ flight' = [flight EXCEPT ![s].at = "issue", ![s].seen = user.version]
  /\ UNCHANGED <<row, reset, otp, client, left, ghosts>>

LockExpires ==
  /\ user.locked
  /\ user' = [user EXCEPT !.locked = FALSE]
  /\ UNCHANGED <<row, reset, otp, client, flight, left, ghosts>>

\* issueTokenPair: the refresh token of a new session.
IssueSession(s, r) ==
  /\ flight[s].at = "issue"
  /\ row[r] = NoRow
  /\ row' = [row EXCEPT ![r] =
       [state |-> "live", root |-> flight[s].root,
        overlapped |-> flight[s].root # user.version]]
  /\ flight' = [flight EXCEPT ![s].at = "answer", ![s].row = r]
  /\ UNCHANGED <<user, reset, otp, client, left, ghosts>>

-------------------------------------------------------------------------------
\* A page that loads, or a 401 of a page in use, asks for a new access
\* token; the server reads the row of the cookie.
BeginRefresh(s, t) ==
  /\ page[t] # "out"
  /\ Cookie(t) # Null
  /\ ~Refreshing(t)
  /\ \E at \in IF row[Cookie(t)].state = "revoked" THEN {"reuse"} ELSE {"read", "refusal"} :
       Begin(s, [Idle EXCEPT !.kind = "refresh", !.tab = t, !.at = at,
                   !.row = Cookie(t), !.used = Cookie(t), !.seen = user.version])
  /\ excused' = (excused \/ \E o \in Slot : flight[o].used = Cookie(t) /\ flight[o].tab # t)
  /\ UNCHANGED <<server, client, guesses, reused, loggedOut>>

\* The new row is created and the old one revoked; neither is tested again.
Rotate(s, r) ==
  /\ At(s, "refresh", "read")
  /\ row[r] = NoRow
  /\ LET old == flight[s].row IN
       row' = [row EXCEPT
         ![r] = [state |-> "live", root |-> row[old].root,
                 overlapped |-> row[old].overlapped \/ flight[s].seen # user.version],
         ![old].state = "revoked"]
  /\ flight' = [flight EXCEPT ![s].at = "answer", ![s].row = r]
  /\ UNCHANGED <<user, reset, otp, client, left, ghosts>>

\* The row read was revoked: the whole family is.
RevokeFamily(s) ==
  /\ At(s, "refresh", "reuse")
  /\ RevokeAll
  /\ flight' = [flight EXCEPT ![s].at = "refusal"]
  /\ reused' = TRUE
  /\ UNCHANGED <<reset, otp, client, left, guesses, excused, loggedOut>>

BeginLogoutAll(s, t) ==
  /\ Authorized(t)
  /\ Begin(s, [Idle EXCEPT !.kind = "logoutAll", !.at = "read", !.tab = t])
  /\ UNCHANGED <<server, client, ghosts>>

CommitLogoutAll(s) ==
  /\ At(s, "logoutAll", "read")
  /\ RevokeAll
  /\ flight' = [flight EXCEPT ![s].at = "answer"]
  /\ excused' = TRUE
  /\ UNCHANGED <<reset, otp, client, left, guesses, reused, loggedOut>>

RequestReset ==
  /\ user.exists
  /\ reset = "none"
  /\ reset' = "open"
  /\ UNCHANGED <<user, row, otp, client, flight, left, ghosts>>

\* The reset token is unused and has not expired; the new password is hashed.
BeginReset(s) ==
  /\ reset = "open"
  /\ Begin(s, [Idle EXCEPT !.kind = "reset", !.at = "read"])
  /\ UNCHANGED <<server, client, ghosts>>

CommitReset(s) ==
  /\ At(s, "reset", "read")
  /\ RevokeAll
  /\ reset' = "used"
  /\ End(s)
  /\ excused' = TRUE
  /\ UNCHANGED <<otp, client, left, guesses, reused, loggedOut>>

\* setCustomerStatus: only the status is written.
SetSuspended ==
  /\ user.exists
  /\ left > 0
  /\ left' = left - 1
  /\ user' = [user EXCEPT !.suspended = ~@]
  /\ UNCHANGED <<row, reset, otp, client, flight, ghosts>>

-------------------------------------------------------------------------------
\* verifyOtp reads the code and its attempts, and compares.
BeginOtp(s, t, good) ==
  /\ Authorized(t)
  /\ otp.open
  /\ otp.attempts < MaxOtp
  /\ Begin(s, [Idle EXCEPT !.kind = "otp", !.at = "read", !.tab = t, !.good = good,
                 !.count = otp.attempts])
  /\ UNCHANGED <<server, client, ghosts>>

\* Variant: the attempts are written back from the read.
WrongOtpWrittenBack(s) ==
  /\ At(s, "otp", "read")
  /\ ~flight[s].good
  /\ otp' = [otp EXCEPT !.attempts = flight[s].count + 1]
  /\ guesses' = guesses + 1
  /\ End(s)
  /\ UNCHANGED <<user, row, reset, client, left, excused, reused, loggedOut>>

\* The database increments the attempts.
WrongOtp(s) ==
  /\ At(s, "otp", "read")
  /\ ~flight[s].good
  /\ otp' = [otp EXCEPT !.attempts = @ + 1]
  /\ guesses' = guesses + 1
  /\ End(s)
  /\ UNCHANGED <<user, row, reset, client, left, excused, reused, loggedOut>>

\* The code is consumed and the channel is verified.
RightOtp(s) ==
  /\ At(s, "otp", "read")
  /\ flight[s].good
  /\ otp' = [otp EXCEPT !.open = FALSE]
  /\ End(s)
  /\ UNCHANGED <<user, row, reset, client, left, ghosts>>

-------------------------------------------------------------------------------
\* The page of the tab falls back to logged out; its cookie stays.
SignOut(t) ==
  /\ page' = [page EXCEPT ![t] = "out"]
  /\ access' = [access EXCEPT ![t] = Null]
  /\ UNCHANGED jar

\* A refresh has failed: the refresh a page loads with leaves the token that
\* a login has set meanwhile.
Expire(t) ==
  \/ SignOut(t)
  \/ page' = [page EXCEPT ![t] = "out"] /\ UNCHANGED <<jar, access>>

\* The answer of a login, a registration or a refresh sets the cookie and
\* the tab's token.  Of a page that was logged out meanwhile, only the
\* refresh it loads with brings it back.
DeliverSession(s) ==
  /\ flight[s].at = "answer"
  /\ flight[s].kind \in {"login", "register", "refresh"}
  /\ LET t == flight[s].tab IN
       /\ jar' = [jar EXCEPT ![BrowserOf[t]] = flight[s].row]
       /\ access' = [access EXCEPT ![t] = flight[s].seen]
       /\ \/ page' = [page EXCEPT ![t] = "in"]
          \/ flight[s].kind = "refresh" /\ page[t] = "out" /\ UNCHANGED page
  /\ End(s)
  /\ UNCHANGED <<server, left, ghosts>>

\* The answer of logout-all clears the cookie.
DeliverLogoutAll(s) ==
  /\ At(s, "logoutAll", "answer")
  /\ jar' = [jar EXCEPT ![BrowserOf[flight[s].tab]] = Null]
  /\ End(s)
  /\ UNCHANGED <<server, page, access, left, ghosts>>

DeliverRefusal(s) ==
  /\ flight[s].at = "refusal"
  /\ Expire(flight[s].tab)
  /\ End(s)
  /\ UNCHANGED <<server, left, ghosts>>

\* A refresh without a cookie is refused at once.
RefreshWithoutCookie(t) ==
  /\ page[t] # "out"
  /\ Cookie(t) = Null
  /\ ~Refreshing(t)
  /\ SignOut(t)
  /\ UNCHANGED <<server, flight, left, ghosts>>

\* A query fails, the process stops, or the answer is lost: what was
\* committed stays, and the tab sees a failed request.
Fail(s) ==
  /\ flight[s] # Idle
  /\ IF flight[s].kind = "refresh" THEN Expire(flight[s].tab) ELSE UNCHANGED client
  /\ excused' = (excused \/ At(s, "refresh", "answer"))
  /\ End(s)
  /\ UNCHANGED <<server, left, guesses, reused, loggedOut>>

\* handleLogout drops the token first: its POST /auth/logout goes without
\* one and is refused, and its path is not one the cookie is sent to.
Logout(t) ==
  /\ page[t] = "in"
  /\ SignOut(t)
  /\ loggedOut' = loggedOut \union ({Cookie(t)} \ {Null})
  /\ UNCHANGED <<server, flight, left, guesses, excused, reused>>

\* The page is loaded again, and its memory is gone.
Reload(t) ==
  /\ \A s \in Slot : flight[s].tab # t
  /\ page' = [page EXCEPT ![t] = "loading"]
  /\ access' = [access EXCEPT ![t] = Null]
  /\ UNCHANGED <<server, jar, flight, left, ghosts>>

-------------------------------------------------------------------------------
TabStep(s, t) ==
  \/ BeginRegister(s, t)
  \/ BeginRefresh(s, t)
  \/ BeginLogoutAll(s, t)
  \/ \E good \in BOOLEAN : BeginLogin(s, t, good) \/ BeginOtp(s, t, good)

HandlerStep(s) ==
  \/ CommitRegister(s) \/ FailLogin(s) \/ PassLogin(s)
  \/ \E r \in Row : IssueSession(s, r) \/ Rotate(s, r)
  \/ RevokeFamily(s) \/ CommitLogoutAll(s) \/ BeginReset(s) \/ CommitReset(s)
  \/ WrongOtp(s) \/ RightOtp(s)
  \/ DeliverSession(s) \/ DeliverLogoutAll(s) \/ DeliverRefusal(s)
  \/ Fail(s)

Next ==
  \/ \E s \in Slot : HandlerStep(s) \/ \E t \in Tab : TabStep(s, t)
  \/ \E t \in Tab : RefreshWithoutCookie(t) \/ Logout(t) \/ Reload(t)
  \/ LockExpires \/ RequestReset \/ SetSuspended

Spec == Init /\ [][Next]_vars

-------------------------------------------------------------------------------
\* A session outlives a logout-all, a password reset or a detected reuse
\* only if its login, or one of its rotations, was being answered when the
\* revocation committed (auth.service.ts refreshTokens, logoutAll and
\* confirmPasswordReset).
OutlivesOnlyByOverlap ==
  \A r \in Row : row[r].state = "live" => row[r].root = user.version \/ row[r].overlapped

\* The reuse detection signs the user out everywhere only after a refresh
\* whose answer was lost, two tabs that refreshed with one cookie at a time,
\* or a revocation that left its cookies with other tabs (auth.service.ts
\* refreshTokens, and the shared refresh of api.js).
ReuseOnlyByTrouble == reused => excused

\* A one-time code is compared with no more wrong codes than its limit and
\* the requests that were already past the test (auth.service.ts verifyOtp).
OtpGuessesBounded ==
  guesses > 0 => guesses < MaxOtp + Cardinality(Slot)

\* Logging out ends the session: the row that was in the tab's cookie gets
\* no further access token (system-blueprint.md, section 6.4, and
\* handleLogout of app.js).
LogoutEndsSession ==
  [][\A s \in Slot : flight[s] = Idle /\ At(s, "refresh", "read")'
                       => flight'[s].row \notin loggedOut]_vars
=============================================================================
