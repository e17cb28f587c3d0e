------------------------------ MODULE LiveProofs ------------------------------
(***************************************************************************)
(* Theorems about Live, for every set of bookings, any number of fetches   *)
(* at once and any number of lost connections and requests: the types, the *)
(* rooms of a connected customer, and what the page may come to show.      *)
(*                                                                         *)
(* ConnectedIsInRooms says nothing of a socket between the query and the   *)
(* join of handleConnection, and OnlyOverlapMisleads and QuietIsCurrent    *)
(* nothing of an answer on its way: RoomInv, CountInv, FetchInv and        *)
(* CatchInv do.                                                            *)
(***************************************************************************)
EXTENDS Live, TLAPS

Fetch == [at : {"sent", "read"}, id : Booking, change : Nat, status : Status \union {"none"}]

\* What the page fetches, and what else it refers to, has been requested.
FetchKnown ==
  /\ \A g \in Get : get[g] # Idle => status[get[g].id] # "none"
  /\ \A g \in Get : get[g].at = "read" => get[g].status # "none"

KnownInv ==
  /\ active # Null => status[active] # "none"
  /\ post # NoPost => status[post.id] # "none"
  /\ post.kind \in {"cancel", "rate"} => post.at = "done"
  /\ FetchKnown

TypeInv == TypeOK /\ KnownInv

\* The sockets of the user are still to join the room of the booking.
Joining(b) == post.id = b /\ post.at = "created"

\* From the query of handleConnection on, an open booking is in a room or
\* among what the query found, or its request is still to join the room, or it
\* was not open when the query was made.
RoomInv ==
  socket \in {"queried", "on"} /\ "join" \notin mishap =>
    \A b \in Booking :
      Open(b) /\ ~Joining(b) =>
        b \in rooms \union reopened \/ (socket = "queried" /\ b \in snapshot)

\* What is shown, or on its way, is of the past.
CountInv ==
  /\ view # NoView => view.change <= change[view.id]
  /\ \A g \in Get : get[g].at = "read" => get[g].change <= change[get[g].id]

\* Without an overlap there is one fetch at most, of the open booking and no
\* older than what is shown of it.
FetchInv ==
  "overlap" \notin mishap =>
    /\ \A g, h \in Get : get[g] # Idle /\ get[h] # Idle => g = h
    /\ \A g \in Get : get[g] # Idle => get[g].id = active
    /\ \A g \in Get : get[g].at = "read" /\ get[g].id = view.id =>
         view.change <= get[g].change

-------------------------------------------------------------------------------
\* A GET that is sent: its slot, and what becomes of the others.
LEMMA SendGives ==
  ASSUME TypeInv, NEW g \in Get, NEW b \in Booking, Send(g, b)
  PROVE  /\ get' \in [Get -> Fetch \union {Idle}]
         /\ get'[g].id = b /\ get'[g].at = "sent"
         /\ \A h \in Get \ {g} : get'[h] = get[h]
         /\ "join" \in mishap' <=> "join" \in mishap
         /\ mishap' \subseteq mishap \union {"overlap"}
         /\ "overlap" \notin mishap' => \A h \in Get : get[h] = Idle
<1> DEFINE new == Sent(b)
<1>1. new \in Fetch /\ new.id = b /\ new.at = "sent"
  BY DEF Fetch, Sent
<1>2. get \in [Get -> Fetch \union {Idle}] /\ get' = [get EXCEPT ![g] = new]
  BY DEF TypeInv, TypeOK, Fetch, Send
<1> HIDE DEF new
<1>3. /\ get' \in [Get -> Fetch \union {Idle}] /\ get'[g] = new
      /\ \A h \in Get \ {g} : get'[h] = get[h]
  BY <1>1, <1>2
<1>4. /\ "join" \in mishap' <=> "join" \in mishap
      /\ mishap' \subseteq mishap \union {"overlap"}
      /\ "overlap" \notin mishap' => ~Fetching
  BY DEF Send
<1> QED BY <1>1, <1>3, <1>4 DEF Fetching

\* A slot that is freed, the others being as they were.
LEMMA FreeGives ==
  ASSUME TypeInv, NEW g \in Get, get' = [get EXCEPT ![g] = Idle]
  PROVE  /\ get' \in [Get -> Fetch \union {Idle}] /\ get'[g] = Idle
         /\ \A h \in Get \ {g} : get'[h] = get[h]
BY DEF TypeInv, TypeOK, Fetch

\* The server's read: the booking as it is now.
LEMMA ReadGives ==
  ASSUME TypeInv, NEW g \in Get, Read(g)
  PROVE  /\ get[g] # Idle
         /\ get' \in [Get -> Fetch \union {Idle}] /\ get'[g] # Idle
         /\ get'[g].id = get[g].id /\ get'[g].at = "read"
         /\ get'[g].change = change[get[g].id]
         /\ get'[g].status = status[get[g].id] /\ get'[g].status # "none"
         /\ \A h \in Get \ {g} : get'[h] = get[h]
<1>1. get \in [Get -> Fetch \union {Idle}] /\ get[g] \in Fetch /\ get[g] # Idle
  BY DEF Read, TypeInv, TypeOK, Fetch, Idle
<1>2. /\ get[g].id \in Booking /\ change[get[g].id] \in Nat
      /\ status[get[g].id] \in Status \union {"none"} /\ status[get[g].id] # "none"
  BY <1>1 DEF Fetch, TypeInv, TypeOK, KnownInv, FetchKnown
<1> DEFINE new == [get[g] EXCEPT !.at = "read", !.change = change[get[g].id],
                                 !.status = status[get[g].id]]
<1>3. /\ new \in Fetch /\ new.id = get[g].id /\ new.at = "read"
      /\ new.change = change[get[g].id] /\ new.status = status[get[g].id]
  BY <1>1, <1>2 DEF Fetch
<1>4. get' = [get EXCEPT ![g] = new]
  BY <1>1 DEF Read, Fetch
<1> HIDE DEF new
<1>5. new # Idle
  BY <1>3 DEF Idle
<1> QED BY <1>1, <1>2, <1>3, <1>4, <1>5

-------------------------------------------------------------------------------
LEMMA InitTypeInv == Init => TypeInv
BY BoundAssumption DEF Init, TypeInv, TypeOK, KnownInv, FetchKnown, NoPost, NoView, Idle, Status

LEMMA BegunBounds == TypeOK /\ Begun => left' \in 0..MaxSteps
BY BoundAssumption DEF TypeOK, Begun

LEMMA TroubleBounds == TypeOK /\ Trouble => trouble' \in 0..MaxTrouble
BY BoundAssumption DEF TypeOK, Trouble

\* Steps that change no booking, post or fetch, and no variable of the page.
LEMMA LinkKeeps ==
  ASSUME TypeInv,
         \/ \E b \in Booking : Announce(b)
         \/ Connect \/ ReadOpen \/ JoinOpen \/ JoinFails \/ Disconnect
  PROVE  TypeInv'
<1>1. UNCHANGED <<status, change, page, left>>
  BY DEF Announce, Connect, ReadOpen, JoinOpen, JoinFails, Disconnect, server, page, ghosts
<1>2. KnownInv'
  BY <1>1 DEF TypeInv, KnownInv, FetchKnown, page
<1> USE <1>1 DEF TypeInv, TypeOK, page
<1>3. CASE \E b \in Booking : Announce(b)
  BY <1>2, <1>3 DEF Announce, server, link, ghosts
<1>4. CASE Connect \/ ReadOpen \/ JoinOpen
  BY <1>2, <1>4 DEF Connect, ReadOpen, JoinOpen, server, ghosts
<1>5. CASE JoinFails \/ Disconnect
  <2>1. trouble' \in 0..MaxTrouble
    BY <1>5, TroubleBounds DEF JoinFails, Disconnect
  <2>2. CASE JoinFails
    BY <1>2, <2>1, <2>2 DEF JoinFails, server
  <2>3. CASE Disconnect
    BY <1>2, <2>1, <2>3 DEF Disconnect, Drop, server
  <2> QED BY <1>5, <2>2, <2>3
<1> QED BY <1>3, <1>4, <1>5

\* Bookings are requested, cancelled and changed: none is taken back.
LEMMA ChangeKeeps ==
  ASSUME TypeInv,
         \/ \E b \in Booking : Create(b) \/ Cancel(b) \/ Rate(b)
         \/ \E b \in Booking, to \in Status, announced \in BOOLEAN : Change(b, to, announced)
  PROVE  TypeInv' /\ \A b \in Booking : change[b] <= change'[b]
<1> USE DEF TypeInv, TypeOK
<1>1. ASSUME NEW b \in Booking, Create(b)
      PROVE  TypeInv' /\ \A c \in Booking : change[c] <= change'[c]
  <2>1. /\ status' \in [Booking -> Status \union {"none"}] /\ status'[b] # "none"
        /\ \A c \in Booking : status[c] # "none" => status'[c] # "none"
    BY <1>1 DEF Create, Status
  <2>2. KnownInv'
    BY <1>1, <2>1, NullAssumption DEF Create, KnownInv, FetchKnown, Idle
  <2>3. left' \in 0..MaxSteps
    BY <1>1, BegunBounds DEF Create
  <2>4. post' \in [kind : {"request", "cancel", "rate", "left"}, id : Booking,
                  at : {"created", "done"}]
    BY <1>1 DEF Create
  <2>5. UNCHANGED <<unsaid, link, get, active, view, trouble, reopened, excused, mishap, change>>
    BY <1>1 DEF Create
  <2> QED BY <2>1, <2>2, <2>3, <2>4, <2>5 DEF link
<1>2. ASSUME NEW b \in Booking, Cancel(b)
      PROVE  TypeInv' /\ \A c \in Booking : change[c] <= change'[c]
  <2>1. /\ status' \in [Booking -> Status \union {"none"}] /\ status'[b] # "none"
        /\ \A c \in Booking : status[c] # "none" => status'[c] # "none"
        /\ change' \in [Booking -> Nat]
        /\ \A c \in Booking : change[c] <= change'[c]
    BY <1>2 DEF Cancel, Status
  <2>2. KnownInv'
    BY <1>2, <2>1, NullAssumption DEF Cancel, KnownInv, FetchKnown, Idle
  <2>3. left' \in 0..MaxSteps
    BY <1>2, BegunBounds DEF Cancel
  <2>4. post' \in [kind : {"request", "cancel", "rate", "left"}, id : Booking,
                  at : {"created", "done"}]
    BY <1>2 DEF Cancel
  <2>5. UNCHANGED <<unsaid, link, get, active, view, trouble, reopened, excused, mishap>>
    BY <1>2 DEF Cancel
  <2> QED BY <2>1, <2>2, <2>3, <2>4, <2>5 DEF link
<1>3. ASSUME NEW b \in Booking, Rate(b)
      PROVE  TypeInv' /\ \A c \in Booking : change[c] <= change'[c]
  <2>1. /\ status' \in [Booking -> Status \union {"none"}] /\ status'[b] # "none"
        /\ \A c \in Booking : status[c] # "none" => status'[c] # "none"
        /\ change' \in [Booking -> Nat]
        /\ \A c \in Booking : change[c] <= change'[c]
        /\ excused' \subseteq Booking
    BY <1>3 DEF Rate, Status
  <2>2. KnownInv'
    BY <1>3, <2>1, NullAssumption DEF Rate, KnownInv, FetchKnown, Idle
  <2>3. left' \in 0..MaxSteps
    BY <1>3, BegunBounds DEF Rate
  <2>4. post' \in [kind : {"request", "cancel", "rate", "left"}, id : Booking,
                   at : {"created", "done"}]
    BY <1>3 DEF Rate
  <2>5. UNCHANGED <<unsaid, link, get, active, view, trouble, reopened, mishap>>
    BY <1>3 DEF Rate
  <2> QED BY <2>1, <2>2, <2>3, <2>4, <2>5 DEF link
<1>4. ASSUME NEW b \in Booking, NEW to \in Status, NEW announced \in BOOLEAN,
             Change(b, to, announced)
      PROVE  TypeInv' /\ \A c \in Booking : change[c] <= change'[c]
  <2>1. /\ status' \in [Booking -> Status \union {"none"}]
        /\ \A c \in Booking : status[c] # "none" => status'[c] # "none"
        /\ change' \in [Booking -> Nat]
        /\ \A c \in Booking : change[c] <= change'[c]
    BY <1>4 DEF Change, Status
  <2>2. KnownInv'
    BY <1>4, <2>1, NullAssumption DEF Change, KnownInv, FetchKnown, Idle, page, NoPost
  <2>3. left' \in 0..MaxSteps
    BY <1>4, BegunBounds DEF Change
  <2>4. unsaid' \subseteq Booking /\ excused' \subseteq Booking /\ reopened' \subseteq Booking
    BY <1>4 DEF Change
  <2>5. UNCHANGED <<link, page, trouble, mishap>>
    BY <1>4 DEF Change
  <2> QED BY <2>1, <2>2, <2>3, <2>4, <2>5 DEF link, page
<1> QED BY <1>1, <1>2, <1>3, <1>4

\* A fetch that is sent, or not, when the page refreshes.
LEMMA SendKeeps ==
  ASSUME TypeInv, NEW g \in Get, NEW b \in Booking, Send(g, b),
         status[b] # "none", UNCHANGED status
  PROVE  /\ get' \in [Get -> Fetch \union {Idle}] /\ FetchKnown'
         /\ mishap' \subseteq {"overlap", "lost", "join"}
<1>1. FetchKnown'
  BY SendGives DEF TypeInv, KnownInv, FetchKnown
<1>2. mishap' \subseteq {"overlap", "lost", "join"}
  BY SendGives DEF TypeInv, TypeOK
<1> QED BY <1>1, <1>2, SendGives

LEMMA RefreshKeeps ==
  ASSUME TypeInv, NEW g \in Get, Refresh(g), UNCHANGED status
  PROVE  /\ get' \in [Get -> Fetch \union {Idle}] /\ FetchKnown'
         /\ mishap' \subseteq {"overlap", "lost", "join"}
<1>1. CASE active = Null
  BY <1>1 DEF Refresh, TypeInv, TypeOK, KnownInv, FetchKnown, Fetch
<1>2. CASE active # Null
  <2>1. active \in Booking /\ status[active] # "none" /\ Send(g, active)
    BY <1>2 DEF Refresh, TypeInv, TypeOK, KnownInv
  <2> QED BY <2>1, SendKeeps
<1> QED BY <1>1, <1>2

LEMMA PostKeeps ==
  ASSUME TypeInv, JoinCreated \/ SubmitLost \/ \E g \in Get : Submitted(g) \/ Cancelled(g)
  PROVE  TypeInv'
<1> DEFINE Post == [kind : {"request", "cancel", "rate", "left"}, id : Booking,
                    at : {"created", "done"}]
<1>1. post.at # "idle" => post \in Post /\ post # NoPost
  BY DEF TypeInv, TypeOK, NoPost
<1>2. CASE JoinCreated
  <2>1. post \in Post /\ post # NoPost /\ post.id \in Booking
    BY <1>1, <1>2 DEF JoinCreated
  <2>2. rooms' \subseteq Booking
    BY <1>2, <2>1 DEF JoinCreated, TypeInv, TypeOK
  <2>3. /\ post' \in Post \union {NoPost}
        /\ post' # NoPost => post'.id = post.id /\ post'.at = "done"
    BY <1>2, <2>1 DEF JoinCreated
  <2>4. UNCHANGED <<status, change, unsaid, socket, snapshot, inbox, get, active, view,
                    left, trouble, reopened, excused, mishap>>
    BY <1>2 DEF JoinCreated, server, ghosts
  <2>5. KnownInv'
    BY <2>1, <2>3, <2>4 DEF TypeInv, KnownInv, FetchKnown, NoPost
  <2> QED BY <2>2, <2>3, <2>4, <2>5 DEF TypeInv, TypeOK
<1>3. CASE SubmitLost
  <2>1. trouble' \in 0..MaxTrouble
    BY <1>3, TroubleBounds DEF SubmitLost, TypeInv
  <2>2. UNCHANGED <<status, change, unsaid, link, get, active, view, left, reopened, excused,
                    mishap>>
    BY <1>3 DEF SubmitLost, server
  <2>3. post' = NoPost
    BY <1>3 DEF SubmitLost
  <2> QED BY <2>1, <2>2, <2>3 DEF TypeInv, TypeOK, KnownInv, FetchKnown, NoPost, link
<1>4. ASSUME NEW g \in Get, Submitted(g)
      PROVE  TypeInv'
  <2>1. post.id \in Booking /\ status[post.id] # "none"
    BY <1>1, <1>4 DEF Submitted, TypeInv, KnownInv
  <2>2. UNCHANGED <<status, change, unsaid, link, view, trouble, reopened, excused, left>>
    BY <1>4 DEF Submitted, server
  <2>3. /\ get' \in [Get -> Fetch \union {Idle}] /\ FetchKnown'
        /\ mishap' \subseteq {"overlap", "lost", "join"}
    BY <1>4, <2>1, <2>2, SendKeeps DEF Submitted
  <2>4. post' = NoPost /\ active' = post.id
    BY <1>4 DEF Submitted
  <2> QED BY <2>1, <2>2, <2>3, <2>4 DEF TypeInv, TypeOK, KnownInv, NoPost, link, Fetch
<1>5. ASSUME NEW g \in Get, Cancelled(g)
      PROVE  TypeInv'
  <2>1. UNCHANGED <<status, change, unsaid, link, active, view, trouble, reopened, excused, left>>
    BY <1>5 DEF Cancelled, server
  <2>2. /\ get' \in [Get -> Fetch \union {Idle}] /\ FetchKnown'
        /\ mishap' \subseteq {"overlap", "lost", "join"}
    BY <1>5, <2>1, RefreshKeeps DEF Cancelled
  <2>3. post' = NoPost
    BY <1>5 DEF Cancelled
  <2> QED BY <2>1, <2>2, <2>3 DEF TypeInv, TypeOK, KnownInv, NoPost, link, Fetch
<1> QED BY <1>2, <1>3, <1>4, <1>5

LEMMA OpenKeeps ==
  ASSUME TypeInv, NEW g,
         \/ Rated
         \/ g \in Get /\ (Poll(g) \/ \E b \in Booking : ViewBooking(g, b) \/ Hear(g, b))
  PROVE  TypeInv'
<1>1. ASSUME g \in Get, NEW b \in Booking, ViewBooking(g, b)
      PROVE  TypeInv'
  <2>1. UNCHANGED <<status, change, unsaid, link, post, view, trouble, reopened, excused>>
    BY <1>1 DEF ViewBooking, server
  <2>2. status[b] # "none" /\ active' = b
    BY <1>1 DEF ViewBooking
  <2>3. /\ get' \in [Get -> Fetch \union {Idle}] /\ FetchKnown'
        /\ mishap' \subseteq {"overlap", "lost", "join"}
    BY <1>1, <2>1, <2>2, SendKeeps DEF ViewBooking
  <2>4. left' \in 0..MaxSteps
    BY <1>1, BegunBounds DEF ViewBooking, TypeInv
  <2> QED BY <2>1, <2>2, <2>3, <2>4 DEF TypeInv, TypeOK, KnownInv, link, Fetch
<1>2. CASE Rated
  <2>1. UNCHANGED <<status, change, unsaid, link, get, trouble, reopened, excused, left>>
    BY <1>2 DEF Rated, server
  <2>2. active' = Null /\ view' = NoView /\ mishap' \subseteq {"overlap", "lost", "join"}
        /\ post' = NoPost
    BY <1>2 DEF Rated, TypeInv, TypeOK
  <2> QED BY <2>1, <2>2 DEF TypeInv, TypeOK, KnownInv, FetchKnown, NoPost, link
<1>3. CASE g \in Get /\ Poll(g)
  <2>1. UNCHANGED <<status, change, unsaid, link, post, active, view, trouble, reopened,
                    excused, left>>
    BY <1>3 DEF Poll, server
  <2>2. /\ get' \in [Get -> Fetch \union {Idle}] /\ FetchKnown'
        /\ mishap' \subseteq {"overlap", "lost", "join"}
    BY <1>3, <2>1, RefreshKeeps DEF Poll
  <2> QED BY <2>1, <2>2 DEF TypeInv, TypeOK, KnownInv, link, Fetch
<1>4. ASSUME g \in Get, NEW b \in Booking, Hear(g, b)
      PROVE  TypeInv'
  <2>1. UNCHANGED <<status, change, unsaid, socket, rooms, snapshot, post, active, view,
                    trouble, reopened, left>>
    BY <1>4 DEF Hear, server
  <2>2. inbox' \in [Booking -> Nat] /\ excused' \subseteq Booking
    BY <1>4 DEF Hear, TypeInv, TypeOK
  <2>3. /\ get' \in [Get -> Fetch \union {Idle}] /\ FetchKnown'
        /\ mishap' \subseteq {"overlap", "lost", "join"}
    <3>1. CASE view.id = b
      BY <1>4, <2>1, <3>1, RefreshKeeps DEF Hear
    <3>2. CASE view.id # b
      BY <1>4, <2>1, <3>2 DEF Hear, TypeInv, TypeOK, KnownInv, FetchKnown, Fetch
    <3> QED BY <3>1, <3>2
  <2> QED BY <2>1, <2>2, <2>3 DEF TypeInv, TypeOK, KnownInv, Fetch
<1> QED BY <1>1, <1>2, <1>3, <1>4

LEMMA AnswerKeeps ==
  ASSUME TypeInv, NEW g \in Get, Read(g) \/ Answer(g) \/ GetLost(g)
  PROVE  TypeInv'
<1>1. CASE Read(g)
  <2>1. /\ UNCHANGED <<status, change, unsaid, link, post, active, view, left, trouble,
                       reopened, mishap>>
        /\ excused' \subseteq excused
    BY <1>1 DEF Read, server
  <2>2. get' \in [Get -> Fetch \union {Idle}] /\ FetchKnown'
    BY <1>1, <2>1, ReadGives DEF TypeInv, KnownInv, FetchKnown
  <2> QED BY <2>1, <2>2 DEF TypeInv, TypeOK, KnownInv, link, ghosts, Fetch
<1>2. CASE Answer(g)
  <2>1. UNCHANGED <<status, change, unsaid, link, post, active, ghosts>>
    BY <1>2 DEF Answer, server
  <2>2. get' \in [Get -> Fetch \union {Idle}] /\ FetchKnown'
    BY <1>2, <2>1, FreeGives DEF Answer, TypeInv, KnownInv, FetchKnown, Idle
  <2>3. get[g] \in Fetch /\ get[g].status # "none"
    BY <1>2 DEF Answer, TypeInv, TypeOK, KnownInv, FetchKnown, Idle, Fetch
  <2>4. view' \in [id : Booking, change : Nat, status : Status]
    BY <1>2, <2>3 DEF Answer, Fetch
  <2> QED BY <2>1, <2>2, <2>4 DEF TypeInv, TypeOK, KnownInv, link, ghosts, Fetch
<1>3. CASE GetLost(g)
  <2>1. UNCHANGED <<status, change, unsaid, link, post, active, view, reopened, excused, left>>
    BY <1>3 DEF GetLost, server
  <2>2. get' \in [Get -> Fetch \union {Idle}] /\ FetchKnown'
    BY <1>3, <2>1, FreeGives DEF GetLost, TypeInv, KnownInv, FetchKnown, Idle
  <2>3. trouble' \in 0..MaxTrouble
    BY <1>3, TroubleBounds DEF GetLost, TypeInv
  <2>4. mishap' \subseteq {"overlap", "lost", "join"}
    BY <1>3 DEF GetLost, TypeInv, TypeOK
  <2> QED BY <2>1, <2>2, <2>3, <2>4 DEF TypeInv, TypeOK, KnownInv, link, Fetch
<1> QED BY <1>1, <1>2, <1>3

LEMMA StartKeeps ==
  ASSUME TypeInv, Restart \/ \E g, h \in Get : Reload(g, h)
  PROVE  TypeInv'
<1>1. CASE Restart
  <2>1. trouble' \in 0..MaxTrouble
    BY <1>1, TroubleBounds DEF Restart, TypeInv
  <2>2. UNCHANGED <<status, change, active, view, reopened, left>>
    BY <1>1 DEF Restart
  <2>3. /\ unsaid' = {} /\ post' \in {post, NoPost} /\ get' = [g \in Get |-> Idle]
        /\ socket' = "off" /\ rooms' = {} /\ snapshot' = {}
        /\ inbox' = [b \in Booking |-> 0]
    BY <1>1 DEF Restart, Drop
  <2>4. excused' \subseteq Booking /\ mishap' \subseteq {"overlap", "lost", "join"}
    BY <1>1 DEF Restart, TypeInv, TypeOK
  <2>5. KnownInv'
    BY <2>2, <2>3 DEF TypeInv, KnownInv, FetchKnown, Idle, NoPost
  <2> QED BY <2>1, <2>2, <2>3, <2>4, <2>5 DEF TypeInv, TypeOK
<1>2. ASSUME NEW g \in Get, NEW h \in Get, Reload(g, h)
      PROVE  TypeInv'
  <2> DEFINE Post == [kind : {"request", "cancel", "rate", "left"}, id : Booking,
                      at : {"created", "done"}]
             new == Sent(active)
  <2>1. left' \in 0..MaxSteps
    BY <1>2, BegunBounds DEF Reload, TypeInv
  <2>2. /\ UNCHANGED <<status, change, unsaid, active, trouble, reopened, excused>>
        /\ mishap' \subseteq {"overlap", "lost", "join"}
    BY <1>2 DEF Reload, server, TypeInv, TypeOK
  <2>3. /\ socket' = "off" /\ rooms' = {} /\ snapshot' = {}
        /\ inbox' = [b \in Booking |-> 0] /\ view' = NoView
    BY <1>2 DEF Reload, Drop
  <2>4. /\ post' \in Post \union {NoPost}
        /\ post' # NoPost => post # NoPost /\ post'.id = post.id /\ post'.kind = "left"
    <3>1. CASE post.at = "created"
      <4>1. post \in Post /\ post # NoPost
        BY <3>1 DEF TypeInv, TypeOK, NoPost
      <4> QED BY <1>2, <3>1, <4>1 DEF Reload
    <3>2. CASE post.at # "created"
      BY <1>2, <3>2 DEF Reload
    <3> QED BY <3>1, <3>2
  <2>5. active # Null => active \in Booking /\ new \in Fetch /\ new.id = active /\ new.at = "sent"
    BY DEF TypeInv, TypeOK, Fetch, Sent
  <2>6. get' = [k \in Get |-> IF k \in {g, h} /\ active # Null THEN new ELSE Idle]
    BY <1>2 DEF Reload
  <2> HIDE DEF new
  <2>7. get' \in [Get -> Fetch \union {Idle}]
    BY <2>5, <2>6
  <2>8. KnownInv'
    <3>1. FetchKnown'
      BY <2>2, <2>5, <2>6 DEF TypeInv, KnownInv, FetchKnown, Idle
    <3> QED BY <2>2, <2>4, <3>1 DEF TypeInv, KnownInv, NoPost
  <2> QED BY <2>1, <2>2, <2>3, <2>4, <2>7, <2>8 DEF TypeInv, TypeOK, Fetch
<1> QED BY <1>1, <1>2

LEMMA NextTypeInv == TypeInv /\ [Next]_vars => TypeInv'
<1> SUFFICES ASSUME TypeInv, Next \/ UNCHANGED vars
             PROVE  TypeInv'
  OBVIOUS
<1>1. CASE UNCHANGED vars
  BY <1>1 DEF vars, server, link, page, ghosts, TypeInv, TypeOK, KnownInv, FetchKnown
<1>2. CASE \/ \E b \in Booking : Create(b) \/ Cancel(b) \/ Rate(b)
           \/ \E b \in Booking, to \in Status, announced \in BOOLEAN : Change(b, to, announced)
  BY <1>2, ChangeKeeps
<1>3. CASE \/ \E b \in Booking : Announce(b)
           \/ Connect \/ ReadOpen \/ JoinOpen \/ JoinFails \/ Disconnect
  BY <1>3, LinkKeeps
<1>4. CASE JoinCreated \/ SubmitLost \/ Rated \/ Restart \/ \E g \in Get : PageStep(g)
  <2>1. CASE JoinCreated \/ SubmitLost
    BY <2>1, PostKeeps
  <2>2. ASSUME NEW g \in Get, PageStep(g)
        PROVE  TypeInv'
    BY <2>2, PostKeeps, OpenKeeps, AnswerKeeps, StartKeeps DEF PageStep
  <2>3. CASE Rated
    BY <2>3, OpenKeeps
  <2> QED BY <1>4, <2>1, <2>2, <2>3, StartKeeps
<1> QED BY <1>1, <1>2, <1>3, <1>4 DEF Next

\* What the page holds has its type, whatever was lost: it opens, fetches and
\* shows bookings that exist, and a slot's answer has a status of a booking
\* (app.js viewBooking, refreshActiveBooking and initializeRoleData).
THEOREM TypeCorrect == Spec => []TypeOK
<1>1. TypeInv => TypeOK
  BY DEF TypeInv
<1> QED BY InitTypeInv, NextTypeInv, <1>1, PTL DEF Spec

-------------------------------------------------------------------------------
\* The rooms.  Every way to the state "on" is through the query, and every
\* booking is either found by it or requested later, when its own handler
\* joins the room.
LEMMA InitRoomInv == Init => RoomInv
BY DEF Init, RoomInv

\* Nothing that concerns the rooms changes but for bookings that close.
LEMMA RoomsKept ==
  ASSUME TypeInv, RoomInv,
         UNCHANGED <<socket, rooms, snapshot>>, ("join" \in mishap => "join" \in mishap'),
         reopened \subseteq reopened',
         \A b \in Booking :
           Open(b)' /\ ~Joining(b)' => (Open(b) /\ ~Joining(b)) \/ b \in reopened'
  PROVE  RoomInv'
BY DEF RoomInv

LEMMA NextRoomInv == TypeInv /\ RoomInv /\ [Next]_vars => RoomInv'
<1> SUFFICES ASSUME TypeInv, RoomInv, Next \/ UNCHANGED vars
             PROVE  RoomInv'
  OBVIOUS
<1>1. ASSUME NEW b \in Booking, Create(b)
      PROVE  RoomInv'
  <2>1. UNCHANGED <<socket, rooms, snapshot, reopened, mishap>>
    BY <1>1 DEF Create, link
  <2>2. Joining(b)' /\ \A c \in Booking \ {b} : status'[c] = status[c]
    BY <1>1 DEF Create, Joining, TypeInv, TypeOK
  <2>3. \A c \in Booking : ~Joining(c)
    BY <1>1 DEF Create, Joining, NoPost
  <2> QED BY <2>1, <2>2, <2>3, RoomsKept DEF Open
<1>2. CASE JoinCreated
  <2>1. post.id \in Booking
    BY <1>2 DEF JoinCreated, TypeInv, TypeOK, NoPost
  <2>2. UNCHANGED <<status, socket, snapshot, reopened, mishap>>
    BY <1>2 DEF JoinCreated, server, ghosts
  <2>3. socket # "off" => rooms' = rooms \union {post.id}
    BY <1>2 DEF JoinCreated, InUserRoom
  <2>4. \A b \in Booking : Joining(b) => b = post.id
    BY DEF Joining
  <2> QED BY <2>1, <2>2, <2>3, <2>4 DEF RoomInv, Open
<1>3. ASSUME NEW b \in Booking, Cancel(b)
      PROVE  RoomInv'
  <2>1. UNCHANGED <<socket, rooms, snapshot, reopened, mishap>>
    BY <1>3 DEF Cancel, link
  <2>2. \A c \in Booking : ~Joining(c) /\ (Open(c)' => Open(c))
    BY <1>3 DEF Cancel, Joining, NoPost, Open, OPEN_STATUSES, TypeInv, TypeOK
  <2> QED BY <2>1, <2>2, RoomsKept
<1>4. ASSUME NEW b \in Booking, NEW to \in Status, NEW announced \in BOOLEAN,
             Change(b, to, announced)
      PROVE  RoomInv'
  <2>1. UNCHANGED <<socket, rooms, snapshot, mishap, post>>
    BY <1>4 DEF Change, link, page
  <2>2. /\ \A c \in Booking : c # b => (Open(c)' <=> Open(c))
        /\ status'[b] = to
    BY <1>4 DEF Change, Open, TypeInv, TypeOK
  <2>3. reopened \subseteq reopened' /\ (Open(b)' => Open(b) \/ b \in reopened')
    BY <1>4, <2>2 DEF Change, Open
  <2> QED BY <2>1, <2>2, <2>3, RoomsKept DEF Joining
<1>5. ASSUME socket' = "off" \/ "join" \in mishap'
      PROVE  RoomInv'
  BY <1>5 DEF RoomInv
<1>R. ASSUME NEW b \in Booking, Rate(b)
      PROVE  RoomInv'
  <2>1. UNCHANGED <<socket, rooms, snapshot, reopened, mishap>>
    BY <1>R DEF Rate, link
  <2>2. \A c \in Booking : ~Joining(c) /\ (Open(c)' => Open(c))
    BY <1>R DEF Rate, Joining, NoPost, Open, OPEN_STATUSES, TypeInv, TypeOK
  <2> QED BY <2>1, <2>2, RoomsKept
<1>6. CASE Connect \/ ReadOpen \/ JoinOpen
  <2>1. UNCHANGED <<status, mishap, post>>
    BY <1>6 DEF Connect, ReadOpen, JoinOpen, server, page, ghosts
  <2>2. CASE Connect
    BY <2>2 DEF Connect, RoomInv
  <2>3. CASE ReadOpen
    BY <2>1, <2>3 DEF ReadOpen, RoomInv, Open
  <2>4. CASE JoinOpen
    BY <2>1, <2>4 DEF JoinOpen, ghosts, RoomInv, Open, Joining
  <2> QED BY <1>6, <2>2, <2>3, <2>4
<1>7. CASE JoinFails \/ Disconnect \/ Restart \/ \E g, h \in Get : Reload(g, h)
  BY <1>5, <1>7 DEF JoinFails, Disconnect, Restart, Reload, Drop
<1>8. CASE \/ \E g \in Get : \/ Submitted(g) \/ Cancelled(g) \/ Poll(g)
                             \/ Read(g) \/ Answer(g) \/ GetLost(g)
                             \/ \E b \in Booking : ViewBooking(g, b) \/ Hear(g, b)
           \/ \E b \in Booking : Announce(b)
           \/ SubmitLost \/ Rated \/ UNCHANGED vars
  <2>1. UNCHANGED <<status, socket, rooms, snapshot, reopened>>
    BY <1>8 DEF Submitted, Cancelled, Poll, Read, Answer, GetLost, ViewBooking, Hear, Announce,
                SubmitLost, Rated, vars, server, link, ghosts
  <2>2. "join" \in mishap => "join" \in mishap'
    BY <1>8 DEF Submitted, Cancelled, Poll, Read, Answer, GetLost, ViewBooking, Hear, Announce,
                SubmitLost, Rated, vars, server, link, ghosts, Refresh, Send
  <2>3. post' = post \/ post.at # "created"
    <3>1. CASE SubmitLost \/ Rated \/ \E g \in Get : Submitted(g) \/ Cancelled(g)
      BY <3>1 DEF TypeInv, KnownInv, NoPost, Submitted, Cancelled, SubmitLost, Rated
    <3>2. CASE ~(SubmitLost \/ Rated \/ \E g \in Get : Submitted(g) \/ Cancelled(g))
      BY <1>8, <3>2 DEF Poll, Read, Answer, GetLost, ViewBooking, Hear, Announce,
                vars, server, page, link
    <3> QED BY <3>1, <3>2
  <2> QED BY <2>1, <2>2, <2>3, RoomsKept DEF Open, Joining
<1> QED BY <1>1, <1>2, <1>3, <1>4, <1>R, <1>6, <1>7, <1>8 DEF Next, PageStep

\* A connected customer is in the room of every open booking, whether it was
\* requested before, while or after handleConnection read the bookings, and
\* whatever was lost in between, but for one reopened since the bookings were
\* read (socket.ts handleConnection, requestBooking).
THEOREM ConnectedIsInRoomsAlways == Spec => []ConnectedIsInRooms
<1>1. Init => TypeInv /\ RoomInv
  BY InitTypeInv, InitRoomInv
<1>2. (TypeInv /\ RoomInv) /\ [Next]_vars => (TypeInv /\ RoomInv)'
  BY NextTypeInv, NextRoomInv
<1>3. RoomInv => ConnectedIsInRooms
  BY DEF RoomInv, ConnectedIsInRooms, Joining
<1> QED BY <1>1, <1>2, <1>3, PTL DEF Spec

-------------------------------------------------------------------------------
\* What the page shows.
ViewInv == TypeInv /\ CountInv /\ FetchInv

LEMMA InitViewInv == Init => ViewInv
<1>1. Init => CountInv /\ FetchInv
  BY DEF Init, CountInv, FetchInv, Idle
<1> QED BY <1>1, InitTypeInv DEF ViewInv

\* The page goes on with what it fetched and shows, or less.
LEMMA FetchesKept ==
  ASSUME ViewInv, view' \in {view, NoView},
         \A g \in Get : get'[g] \in {get[g], Idle},
         \A b \in Booking : change[b] <= change'[b],
         mishap \subseteq mishap',
         "overlap" \notin mishap' => active' = active \/ \A g \in Get : get'[g] = Idle,
         change' \in [Booking -> Nat]
  PROVE  CountInv' /\ FetchInv'
<1>1. /\ view # NoView => view.id \in Booking /\ view.change \in Nat
      /\ \A g \in Get : get[g] # Idle => get[g].id \in Booking /\ get[g].change \in Nat
      /\ change \in [Booking -> Nat]
  BY DEF ViewInv, TypeInv, TypeOK
<1>2. CountInv'
  <2>1. view' # NoView => view'.change <= change'[view'.id]
    BY <1>1 DEF ViewInv, CountInv
  <2>2. \A g \in Get : get'[g].at = "read" => get'[g].change <= change'[get'[g].id]
    <3> SUFFICES ASSUME NEW g \in Get, get'[g].at = "read"
                 PROVE  get'[g].change <= change'[get'[g].id]
      OBVIOUS
    <3>1. get'[g] = get[g] /\ get[g] # Idle
      BY DEF Idle
    <3> QED BY <1>1, <3>1 DEF ViewInv, CountInv
  <2> QED BY <2>1, <2>2 DEF CountInv
<1>3. FetchInv'
  <2> SUFFICES ASSUME "overlap" \notin mishap'
               PROVE  /\ \A g, h \in Get : get'[g] # Idle /\ get'[h] # Idle => g = h
                      /\ \A g \in Get : get'[g] # Idle => get'[g].id = active'
                      /\ \A g \in Get : get'[g].at = "read" /\ get'[g].id = view'.id =>
                           view'.change <= get'[g].change
    BY DEF FetchInv
  <2>1. \A g, h \in Get : get'[g] # Idle /\ get'[h] # Idle => g = h
    BY DEF ViewInv, FetchInv
  <2>2. \A g \in Get : get'[g] # Idle => get'[g].id = active'
    BY DEF ViewInv, FetchInv
  <2>3. ASSUME NEW g \in Get, get'[g].at = "read", get'[g].id = view'.id
        PROVE  view'.change <= get'[g].change
    <3>1. get'[g] = get[g] /\ get[g] # Idle
      BY <2>3 DEF Idle
    <3>2. view' = view
      BY <1>1, <2>3, <3>1, NullAssumption DEF NoView
    <3> QED BY <2>3, <3>1, <3>2 DEF ViewInv, FetchInv
  <2> QED BY <2>1, <2>2, <2>3
<1> QED BY <1>2, <1>3

\* A GET is sent for the booking that is open from now on.
LEMMA SentAlone ==
  ASSUME ViewInv, NEW g \in Get, NEW b \in Booking, Send(g, b), active' = b,
         UNCHANGED <<view, change>>
  PROVE  CountInv' /\ FetchInv'
<1>1. \A h \in Get : get'[h].at = "read" => get'[h] = get[h]
  BY SendGives DEF ViewInv
<1>2. CountInv'
  BY <1>1 DEF ViewInv, CountInv
<1>3. "overlap" \notin mishap' => \A h \in Get \ {g} : get'[h] = Idle
  BY SendGives DEF ViewInv
<1>4. get'[g].id = b /\ get'[g].at = "sent"
  BY SendGives DEF ViewInv
<1>5. FetchInv'
  BY <1>3, <1>4 DEF FetchInv, Idle
<1> QED BY <1>2, <1>5

LEMMA RefreshedAlone ==
  ASSUME ViewInv, NEW g \in Get, Refresh(g), UNCHANGED <<active, view, change>>
  PROVE  CountInv' /\ FetchInv'
<1>1. CASE active = Null
  BY <1>1, FetchesKept DEF Refresh, ViewInv, TypeInv, TypeOK
<1>2. CASE active # Null
  BY <1>2, SentAlone DEF Refresh, ViewInv, TypeInv, TypeOK
<1> QED BY <1>1, <1>2

LEMMA NextViewInv == ViewInv /\ [Next]_vars => ViewInv'
<1> SUFFICES ASSUME ViewInv, Next \/ UNCHANGED vars
             PROVE  CountInv' /\ FetchInv'
  BY NextTypeInv DEF ViewInv
<1>0. change \in [Booking -> Nat] /\ get \in [Get -> Fetch \union {Idle}]
  BY DEF ViewInv, TypeInv, TypeOK, Fetch
<1>1. ASSUME \/ \E b \in Booking : Create(b) \/ Cancel(b) \/ Rate(b)
             \/ \E b \in Booking, to \in Status, announced \in BOOLEAN :
                  Change(b, to, announced)
      PROVE  CountInv' /\ FetchInv'
  <2>1. UNCHANGED <<get, active, view, mishap>>
    BY <1>1 DEF Create, Cancel, Rate, Change, page
  <2>2. change' \in [Booking -> Nat] /\ \A b \in Booking : change[b] <= change'[b]
    BY <1>1, ChangeKeeps DEF ViewInv, TypeInv, TypeOK
  <2> QED BY <2>1, <2>2, FetchesKept
<1>2. ASSUME \/ JoinCreated \/ SubmitLost \/ UNCHANGED vars
             \/ \E b \in Booking : Announce(b)
             \/ Connect \/ ReadOpen \/ JoinOpen \/ JoinFails \/ Disconnect
      PROVE  CountInv' /\ FetchInv'
  <2>1. UNCHANGED <<change, get, active, view>>
    BY <1>2 DEF JoinCreated, SubmitLost, Announce, Connect, ReadOpen, JoinOpen, JoinFails,
                Disconnect, vars, server, page
  <2>2. mishap \subseteq mishap'
    BY <1>2 DEF JoinCreated, SubmitLost, Announce, Connect, ReadOpen, JoinOpen, JoinFails,
                Disconnect, vars, ghosts
  <2> QED BY <1>0, <2>1, <2>2, FetchesKept
<1>3. ASSUME NEW g \in Get, Submitted(g)
      PROVE  CountInv' /\ FetchInv'
  <2>1. post.id \in Booking
    BY <1>3 DEF Submitted, ViewInv, TypeInv, TypeOK, NoPost
  <2> QED BY <1>3, <2>1, SentAlone DEF Submitted, server
<1>4. ASSUME NEW g \in Get, NEW b \in Booking, ViewBooking(g, b)
      PROVE  CountInv' /\ FetchInv'
  BY <1>4, SentAlone DEF ViewBooking, server
<1>5. ASSUME NEW g \in Get, Cancelled(g) \/ Poll(g)
      PROVE  CountInv' /\ FetchInv'
  BY <1>5, RefreshedAlone DEF Cancelled, Poll, server
<1>6. ASSUME NEW g \in Get, NEW b \in Booking, Hear(g, b)
      PROVE  CountInv' /\ FetchInv'
  <2>1. CASE view.id = b
    BY <1>6, <2>1, RefreshedAlone DEF Hear, server
  <2>2. CASE view.id # b
    BY <1>0, <1>6, <2>2, FetchesKept DEF Hear, server
  <2> QED BY <2>1, <2>2
<1>7. ASSUME Rated
      PROVE  CountInv' /\ FetchInv'
  <2>1. UNCHANGED <<change, get>> /\ view' = NoView /\ mishap \subseteq mishap'
    BY <1>7 DEF Rated, server
  <2>2. "overlap" \notin mishap' => \A g \in Get : get'[g] = Idle
    BY <1>7 DEF Rated, Fetching
  <2> QED BY <1>0, <2>1, <2>2, FetchesKept
<1>8. ASSUME NEW g \in Get, Read(g)
      PROVE  CountInv' /\ FetchInv'
  <2>1. UNCHANGED <<change, active, view, mishap>>
    BY <1>8 DEF Read, server
  <2>2. /\ get[g] # Idle /\ get'[g].id = get[g].id /\ get'[g].change = change[get[g].id]
        /\ get[g].id \in Booking
        /\ \A h \in Get \ {g} : get'[h] = get[h]
    BY <1>0, <1>8, ReadGives DEF ViewInv, Fetch
  <2>3. CountInv'
    BY <1>0, <2>1, <2>2 DEF ViewInv, CountInv
  <2>4. view # NoView => view.change <= change[view.id]
    BY DEF ViewInv, CountInv
  <2>5. get'[g].id = view.id => view.change <= get'[g].change
    BY <2>2, <2>4, NullAssumption DEF NoView
  <2>6. FetchInv'
    BY <2>1, <2>2, <2>5 DEF ViewInv, FetchInv
  <2> QED BY <2>3, <2>6
<1>9. ASSUME NEW g \in Get, Answer(g)
      PROVE  CountInv' /\ FetchInv'
  <2>1. UNCHANGED <<change, active, mishap>>
    BY <1>9 DEF Answer, server, ghosts
  <2>2. /\ get[g] # Idle /\ get[g].at = "read"
        /\ view'.id = get[g].id /\ view'.change = get[g].change
    BY <1>9 DEF Answer, Idle
  <2>3. get'[g] = Idle /\ \A h \in Get \ {g} : get'[h] = get[h]
    BY <1>9, FreeGives DEF Answer, ViewInv
  <2>4. CountInv'
    BY <2>1, <2>2, <2>3 DEF ViewInv, CountInv, Idle
  <2>5. FetchInv'
    BY <2>1, <2>2, <2>3 DEF ViewInv, FetchInv, Idle
  <2> QED BY <2>4, <2>5
<1>10. ASSUME NEW g \in Get, GetLost(g)
       PROVE  CountInv' /\ FetchInv'
  <2>1. UNCHANGED <<change, active, view>> /\ mishap \subseteq mishap'
    BY <1>10 DEF GetLost, server
  <2>2. \A h \in Get : get'[h] \in {get[h], Idle}
    BY <1>10, FreeGives DEF GetLost, ViewInv
  <2> QED BY <1>0, <2>1, <2>2, FetchesKept
<1>11. ASSUME NEW g \in Get, NEW h \in Get, Reload(g, h)
       PROVE  CountInv' /\ FetchInv'
  <2>1. UNCHANGED change /\ view' = NoView
    BY <1>11 DEF Reload, server
  <2>2. \A k \in Get : get'[k].at # "read"
    BY <1>11 DEF Reload, Sent, Idle
  <2>3. CountInv'
    BY <2>1, <2>2 DEF CountInv
  <2>4. "overlap" \notin mishap' => \A k \in Get : get'[k] = Idle
    BY <1>11 DEF Reload
  <2>5. FetchInv'
    BY <2>2, <2>4 DEF FetchInv
  <2> QED BY <2>3, <2>5
<1>12. ASSUME Restart
       PROVE  CountInv' /\ FetchInv'
  BY <1>0, <1>12, FetchesKept DEF Restart
<1> QED BY <1>1, <1>2, <1>3, <1>4, <1>5, <1>6, <1>7, <1>8, <1>9, <1>10, <1>11, <1>12
        DEF Next, PageStep

\* The step in which the page shows something else.
LEMMA ShownIsOpen ==
  ASSUME ViewInv, [Next]_vars, view' # view, "overlap" \notin mishap'
  PROVE  /\ view'.id \in {Null, active'}
         /\ view'.id = view.id => view'.change >= view.change
<1>1. \/ \E g \in Get : Answer(g)
      \/ view' = NoView
  BY DEF Next, PageStep, vars, page, JoinCreated, SubmitLost, Announce, Connect, ReadOpen, JoinOpen,
     JoinFails, Disconnect, Submitted, Cancelled, Poll, Reload, Read, GetLost, ViewBooking, Hear,
     Create, Cancel, Rate, Change, Rated, Restart
<1>2. CASE view' = NoView
  BY <1>2, NullAssumption DEF ViewInv, TypeInv, TypeOK, NoView
<1>3. ASSUME NEW g \in Get, Answer(g)
      PROVE  /\ view'.id \in {Null, active'}
             /\ view'.id = view.id => view'.change >= view.change
  <2>1. get[g] # Idle /\ get[g].at = "read" /\ "overlap" \notin mishap /\ active' = active
    BY <1>3 DEF Answer, ghosts, Idle
  <2>2. view'.id = get[g].id /\ view'.change = get[g].change
    BY <1>3 DEF Answer
  <2>3. get[g].change \in Nat /\ view.change \in Nat
    BY <2>1 DEF ViewInv, TypeInv, TypeOK, NoView
  <2> QED BY <2>1, <2>2, <2>3 DEF ViewInv, FetchInv
<1> QED BY <1>1, <1>2, <1>3

\* The page shows the booking it has open, and never an earlier state of it,
\* as long as its fetches did not overlap (app.js viewBooking, submitRating
\* and refreshActiveBooking).
THEOREM OnlyOverlapMisleadsAlways == Spec => OnlyOverlapMisleads
<1>1. ViewInv /\ [Next]_vars =>
        [view' # view /\ "overlap" \notin mishap' =>
           /\ view'.id \in {Null, active'}
           /\ view'.id = view.id => view'.change >= view.change]_vars
  BY ShownIsOpen
<1> QED BY InitViewInv, NextViewInv, <1>1, PTL DEF Spec, OnlyOverlapMisleads

-------------------------------------------------------------------------------
\* What is read, and what is shown with nothing on its way, is current unless
\* something is still to be heeded.
CatchInv ==
  mishap \intersect {"overlap", "lost"} = {} =>
    \A b \in Booking : ~Unheeded(b) =>
      /\ view.id = b /\ active = b /\ ~Fetching => view.change = change[b]
      /\ \A g \in Get : get[g].at = "read" /\ get[g].id = b => get[g].change = change[b]

LEMMA InitCatchInv == Init => CatchInv
BY NullAssumption DEF Init, CatchInv, NoView, Idle

\* Nothing was sent or answered, and what changed is still to be heeded.
LEMMA CatchKept ==
  ASSUME TypeInv, CatchInv, UNCHANGED get, mishap \subseteq mishap',
         UNCHANGED <<active, view>> \/ view' = NoView,
         \A b \in Booking : ~Unheeded(b)' => ~Unheeded(b) /\ change'[b] = change[b]
  PROVE  CatchInv'
BY NullAssumption DEF CatchInv, NoView, Fetching

\* After a GET that is sent alone nothing else is on its way.
LEMMA CatchSent ==
  ASSUME TypeInv, NEW g \in Get, NEW b \in Booking, Send(g, b)
  PROVE  CatchInv'
<1> SUFFICES ASSUME "overlap" \notin mishap'
             PROVE  Fetching' /\ \A h \in Get : get'[h].at # "read"
  BY DEF CatchInv
<1>1. get'[g].at = "sent" /\ \A h \in Get \ {g} : get'[h] = Idle
  BY SendGives
<1> QED BY <1>1 DEF Fetching, Idle

LEMMA CatchRefreshed ==
  ASSUME ViewInv, CatchInv, NEW g \in Get, Refresh(g), UNCHANGED active
  PROVE  CatchInv'
<1>1. CASE active # Null
  BY <1>1, CatchSent DEF Refresh, ViewInv, TypeInv, TypeOK
<1>2. CASE active = Null
  <2>1. UNCHANGED <<get, mishap>>
    BY <1>2 DEF Refresh
  <2>2. ASSUME "overlap" \notin mishap, NEW h \in Get, get[h].at = "read"
        PROVE  FALSE
    <3>1. get[h] # Idle /\ get[h].id \in Booking
      BY <2>2 DEF ViewInv, TypeInv, TypeOK, Idle
    <3> QED BY <1>2, <2>2, <3>1, NullAssumption DEF ViewInv, FetchInv
  <2> QED BY <1>2, <2>1, <2>2, NullAssumption DEF CatchInv
<1> QED BY <1>1, <1>2

LEMMA NextCatchInv == ViewInv /\ CatchInv /\ [Next]_vars => CatchInv'
<1> SUFFICES ASSUME ViewInv, CatchInv, Next \/ UNCHANGED vars
             PROVE  CatchInv'
  OBVIOUS
<1>0. TypeInv /\ change \in [Booking -> Nat] /\ inbox \in [Booking -> Nat]
  BY DEF ViewInv, TypeInv, TypeOK
<1>1. ASSUME NEW b \in Booking,
             \/ Create(b) \/ Cancel(b) \/ Rate(b) \/ Announce(b)
             \/ \E to \in Status, announced \in BOOLEAN : Change(b, to, announced)
      PROVE  CatchInv'
  <2>1. UNCHANGED <<get, active, view, mishap>>
    BY <1>1 DEF Create, Cancel, Rate, Announce, Change, page
  <2>2. ASSUME NEW c \in Booking, ~Unheeded(c)'
        PROVE  ~Unheeded(c) /\ change'[c] = change[c]
    BY <1>0, <1>1, <2>2
    DEF Unheeded, Create, Cancel, Rate, Announce, Change, link, page, NoPost
  <2> QED BY <1>0, <2>1, <2>2, CatchKept
<1>2. ASSUME \/ JoinCreated \/ SubmitLost \/ UNCHANGED vars
             \/ Connect \/ ReadOpen \/ JoinOpen \/ JoinFails \/ Disconnect
      PROVE  CatchInv'
  <2>1. UNCHANGED <<get, active, view, change>> /\ mishap \subseteq mishap'
    BY <1>2 DEF JoinCreated, SubmitLost, Connect, ReadOpen, JoinOpen, JoinFails, Disconnect,
                vars, server, page, ghosts
  <2>2. ASSUME NEW c \in Booking, ~Unheeded(c)'
        PROVE  ~Unheeded(c)
    <3>1. post.kind = "cancel" => post.at = "done"
      BY DEF ViewInv, TypeInv, KnownInv
    <3> QED
      BY <1>0, <1>2, <2>2, <3>1
      DEF Unheeded, JoinCreated, SubmitLost, Connect, ReadOpen, JoinOpen, JoinFails, Disconnect,
          Drop, Heard, vars, server, page, ghosts, link
  <2> QED BY <1>0, <2>1, <2>2, CatchKept
<1>3. ASSUME NEW g \in Get, Submitted(g)
      PROVE  CatchInv'
  <2>1. post.id \in Booking
    BY <1>3 DEF Submitted, ViewInv, TypeInv, TypeOK, NoPost
  <2> QED BY <1>0, <1>3, <2>1, CatchSent DEF Submitted
<1>4. ASSUME NEW g \in Get, NEW b \in Booking, ViewBooking(g, b)
      PROVE  CatchInv'
  BY <1>0, <1>4, CatchSent DEF ViewBooking
<1>5. ASSUME NEW g \in Get, Cancelled(g) \/ Poll(g)
      PROVE  CatchInv'
  BY <1>5, CatchRefreshed DEF Cancelled, Poll
<1>6. ASSUME NEW g \in Get, NEW b \in Booking, Hear(g, b)
      PROVE  CatchInv'
  <2>1. CASE view.id = b
    BY <1>6, <2>1, CatchRefreshed DEF Hear
  <2>2. CASE view.id # b
    <3>1. ASSUME NEW c \in Booking, ~Unheeded(c)'
          PROVE  ~Unheeded(c) /\ change'[c] = change[c]
      BY <1>0, <1>6, <2>2, <3>1 DEF Unheeded, Hear, server
    <3> QED BY <1>0, <1>6, <2>2, <3>1, CatchKept DEF Hear
  <2> QED BY <2>1, <2>2
<1>7. ASSUME Rated
      PROVE  CatchInv'
  <2>1. UNCHANGED get /\ view' = NoView /\ mishap \subseteq mishap'
    BY <1>7 DEF Rated
  <2>2. ASSUME NEW c \in Booking, ~Unheeded(c)'
        PROVE  ~Unheeded(c) /\ change'[c] = change[c]
    BY <1>7, <2>2 DEF Unheeded, Rated, server, link
  <2> QED BY <1>0, <2>1, <2>2, CatchKept
<1>8. ASSUME NEW g \in Get, Read(g)
      PROVE  CatchInv'
  <2> SUFFICES ASSUME "overlap" \notin mishap
               PROVE  /\ Fetching'
                      /\ \A h \in Get : get'[h].at = "read" =>
                           get'[h].change = change'[get'[h].id]
    BY <1>8 DEF CatchInv, Read
  <2>1. /\ get[g] # Idle /\ get'[g] # Idle
        /\ get'[g].id = get[g].id /\ get'[g].change = change[get[g].id]
        /\ \A h \in Get \ {g} : get'[h] = get[h]
    BY <1>0, <1>8, ReadGives
  <2>2. \A h \in Get \ {g} : get[h] = Idle
    BY <2>1 DEF ViewInv, FetchInv
  <2>3. Fetching'
    BY <2>1 DEF Fetching
  <2>4. ASSUME NEW h \in Get, get'[h].at = "read"
        PROVE  get'[h].change = change'[get'[h].id]
    <3>1. h = g
      BY <2>1, <2>2, <2>4 DEF Idle
    <3> QED BY <1>8, <2>1, <3>1 DEF Read, server
  <2> QED BY <2>3, <2>4
<1>9. ASSUME NEW g \in Get, Answer(g)
      PROVE  CatchInv'
  <2> SUFFICES ASSUME mishap \intersect {"overlap", "lost"} = {},
                      NEW b \in Booking, ~Unheeded(b)
               PROVE  /\ view'.id = b => view'.change = change'[b]
                      /\ \A h \in Get : get'[h].at # "read"
    BY <1>9 DEF CatchInv, Answer, Unheeded, server, link, ghosts
  <2>1. /\ get[g] # Idle /\ get[g].at = "read" /\ UNCHANGED change
        /\ view'.id = get[g].id /\ view'.change = get[g].change
    BY <1>9 DEF Answer, Idle, server
  <2>2. get'[g] = Idle /\ \A h \in Get \ {g} : get'[h] = get[h]
    BY <1>0, <1>9, FreeGives DEF Answer
  <2>3. \A h \in Get \ {g} : get[h] = Idle
    BY <2>1 DEF ViewInv, FetchInv
  <2> QED BY <2>1, <2>2, <2>3 DEF CatchInv, Idle
<1>10. ASSUME \/ \E g \in Get : GetLost(g)
              \/ Restart
       PROVE  CatchInv'
  BY <1>10 DEF CatchInv, GetLost, Restart
<1>11. ASSUME NEW g \in Get, NEW h \in Get, Reload(g, h)
       PROVE  CatchInv'
  <2>1. view' = NoView /\ \A k \in Get : get'[k].at # "read"
    BY <1>11 DEF Reload, Sent, Idle
  <2> QED BY <2>1, NullAssumption DEF CatchInv, NoView
<1> QED BY <1>1, <1>2, <1>3, <1>4, <1>5, <1>6, <1>7, <1>8, <1>9, <1>10, <1>11
        DEF Next, PageStep

\* When nothing is on its way, the page shows the booking it has open as it
\* is, unless fetches overlapped or failed (app.js wireSocketEvents and
\* cancelBooking).
THEOREM QuietIsCurrentAlways == Spec => []QuietIsCurrent
<1>1. Init => ViewInv /\ CatchInv
  BY InitViewInv, InitCatchInv
<1>2. ViewInv /\ CatchInv /\ [Next]_vars => (ViewInv /\ CatchInv)'
  BY NextViewInv, NextCatchInv
<1>3. CatchInv => QuietIsCurrent
  BY DEF CatchInv, QuietIsCurrent
<1> QED BY <1>1, <1>2, <1>3, PTL DEF Spec

==============================================================================
