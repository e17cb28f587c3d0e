-------------------------------- MODULE Live --------------------------------
(***************************************************************************)
(* What a customer's page shows of a booking: the socket and its rooms,    *)
(* the events the server sends to the room of a booking, and the GET       *)
(* /bookings/:id that each of them makes the page send.                    *)
(*                                                                         *)
(* A change of a booking counts up; the page holds the count it was told   *)
(* with the status.  Some changes are announced to the room after they     *)
(* are committed (dispatch:update, dispatch:exhausted), the others not at  *)
(* all.  An event carries nothing the page uses but the booking's id.      *)
(* The events of one phase after its first, and the list of candidates     *)
(* that the page reads next to the booking, are left out.  The page is     *)
(* that of one customer who stays logged in, and its operations are those  *)
(* of app.js, not the inline handlers of the template.                     *)
(*                                                                         *)
(* An operator marked "Variant" is not part of the specification.          *)
(***************************************************************************)
EXTENDS Naturals, BookingStatus

CONSTANTS
  Booking,
  Get,          \* GETs in flight at once
  Null,
  MaxSteps,     \* the bound on what users and the server begin
  MaxTrouble    \* the bound on lost connections, requests and restarts

ASSUME BoundAssumption == MaxSteps \in Nat /\ MaxTrouble \in Nat
ASSUME NullAssumption  == Null \notin Booking

VARIABLES
  status,   \* the status of each booking, "none" before it is requested
  change,   \* how often it has changed
  unsaid,   \* the bookings with an announcement the server has yet to send
  socket,   \* the connection of the page
  rooms,    \* the booking rooms the socket is in
  snapshot, \* the bookings handleConnection has read
  inbox,    \* how many events of a booking are on their way
  post,     \* the POST of the page in flight, or NoPost
  get,      \* the GETs in flight
  active,   \* activeBookingId
  view,     \* activeBooking, or NoView
  left,     \* how much may still be begun
  trouble,  \* how many connections, requests and processes were lost
  reopened, \* history: what was opened again since the socket's query
  excused,  \* history: the bookings with a change not heard of since a GET
  mishap    \* history: what else went wrong

server == <<status, change, unsaid>>
link   == <<socket, rooms, snapshot, inbox>>
page   == <<post, get, active, view>>
ghosts == <<left, trouble, reopened, excused, mishap>>
vars   == <<server, link, page, ghosts>>

Idle   == [at |-> "idle", id |-> Null, change |-> 0, status |-> "none"]
NoPost == [kind |-> "none", id |-> Null, at |-> "idle"]
NoView == [id |-> Null, change |-> 0, status |-> "none"]

TypeOK ==
  /\ status \in [Booking -> Status \union {"none"}]
  /\ change \in [Booking -> Nat]
  /\ unsaid \subseteq Booking
  /\ socket \in {"off", "open", "queried", "on"}
  /\ rooms \subseteq Booking
  /\ snapshot \subseteq Booking
  /\ inbox \in [Booking -> Nat]
  /\ post \in [kind : {"request", "cancel", "rate", "left"}, id : Booking, at : {"created", "done"}]
                \union {NoPost}
  /\ get \in [Get -> [at : {"sent", "read"}, id : Booking, change : Nat,
                      status : Status \union {"none"}] \union {Idle}]
  /\ active \in Booking \union {Null}
  /\ view \in [id : Booking, change : Nat, status : Status] \union {NoView}
  /\ left \in 0..MaxSteps
  /\ trouble \in 0..MaxTrouble
  /\ reopened \subseteq Booking
  /\ excused \subseteq Booking
  /\ mishap \subseteq {"overlap", "lost", "join"}

\* The page is loaded; a booking is still to be requested, or under way.
Init ==
  /\ status \in [Booking -> {"none", "DISPATCHING_POOL", "COMPLETED"}]
  /\ change = [b \in Booking |-> 0]
  /\ unsaid = {}
  /\ socket = "off"
  /\ rooms = {}
  /\ snapshot = {}
  /\ inbox = [b \in Booking |-> 0]
  /\ post = NoPost
  /\ get = [g \in Get |-> Idle]
  /\ active = Null
  /\ view = NoView
  /\ left = MaxSteps
  /\ trouble = 0
  /\ reopened = {}
  /\ excused = {}
  /\ mishap = {}

-------------------------------------------------------------------------------
Dispatching == {"DISPATCHING_TOP3", "DISPATCHING_POOL"}

\* The statuses handleConnection looks for.
OPEN_STATUSES == Status \ {"SETTLED", "CANCELLED"}
Open(b) == status[b] \in OPEN_STATUSES

Fetching == \E g \in Get : get[g] # Idle

\* Variant: the socket joins the user's room with the others, at the end.
InUserRoomLast == socket = "on"

\* The socket has joined user:{userId} before anything is read.
InUserRoom == socket # "off"

Sent(b) == [at |-> "sent", id |-> b, change |-> 0, status |-> "none"]

\* The page sends a GET for a booking.  A second one while the first is in
\* flight may be answered before it; one alone makes up for those before.
Send(g, b) ==
  /\ get[g] = Idle
  /\ get' = [get EXCEPT ![g] = Sent(b)]
  /\ mishap' = IF Fetching THEN mishap \union {"overlap"}
                           ELSE mishap \ {"overlap", "lost"}

\* refreshActiveBooking returns at once if no booking is open.
Refresh(g) ==
  IF active = Null THEN UNCHANGED <<get, mishap>> ELSE Send(g, active)

Begun ==
  /\ left > 0
  /\ left' = left - 1

Trouble ==
  /\ trouble < MaxTrouble
  /\ trouble' = trouble + 1

-------------------------------------------------------------------------------
\* requestBooking, up to the commit.
Create(b) ==
  /\ post = NoPost
  /\ Begun
  /\ status[b] = "none"
  /\ status' = [status EXCEPT ![b] = "REQUESTED"]
  /\ post' = [kind |-> "request", id |-> b, at |-> "created"]
  /\ UNCHANGED <<change, unsaid, link, get, active, view, trouble, reopened, excused, mishap>>

\* The sockets of the user join the room of the booking.
JoinCreated ==
  /\ post.at = "created"
  /\ rooms' = IF InUserRoom THEN rooms \union {post.id} ELSE rooms
  /\ post' = IF post.kind = "left" THEN NoPost ELSE [post EXCEPT !.at = "done"]
  /\ UNCHANGED <<server, socket, snapshot, inbox, get, active, view, ghosts>>

\* handleRequestSubmit opens the booking it has requested.
Submitted(g) ==
  /\ post.kind = "request" /\ post.at = "done"
  /\ post' = NoPost
  /\ active' = post.id
  /\ Send(g, post.id)
  /\ UNCHANGED <<server, link, view, trouble, reopened, excused, left>>

SubmitLost ==
  /\ Trouble
  /\ post.kind = "request" /\ post.at = "done"
  /\ post' = NoPost
  /\ UNCHANGED <<server, link, get, active, view, reopened, excused, mishap, left>>

\* cancelBooking of the customer; no event is sent.
Cancel(b) ==
  /\ post = NoPost
  /\ status[b] \in CANCELLABLE_STATUSES
  /\ Begun
  /\ status' = [status EXCEPT ![b] = "CANCELLED"]
  /\ change' = [change EXCEPT ![b] = @ + 1]
  /\ post' = [kind |-> "cancel", id |-> b, at |-> "done"]
  /\ UNCHANGED <<unsaid, link, get, active, view, trouble, reopened, excused, mishap>>

\* Variant: the page goes by what it shows.
CancelledUnfetched(g) ==
  /\ post.kind = "cancel"
  /\ post' = NoPost
  /\ IF view.status \in Dispatching THEN Refresh(g) ELSE UNCHANGED <<get, mishap>>
  /\ UNCHANGED <<server, link, active, view, trouble, reopened, excused, left>>

\* The page refreshes after its POST, whatever the answer was.
Cancelled(g) ==
  /\ post.kind = "cancel"
  /\ post' = NoPost
  /\ Refresh(g)
  /\ UNCHANGED <<server, link, active, view, trouble, reopened, excused, left>>

\* Variant: the booking is fetched, and is not made the open one.
ViewBookingUnopened(g, b) ==
  /\ Begun
  /\ status[b] # "none"
  /\ active # b
  /\ Send(g, b)
  /\ UNCHANGED <<server, link, post, active, view, trouble, reopened, excused>>

ViewBooking(g, b) ==
  /\ Begun
  /\ status[b] # "none"
  /\ active # b
  /\ active' = b
  /\ Send(g, b)
  /\ UNCHANGED <<server, link, post, view, trouble, reopened, excused>>

\* submitRating: the review settles the booking if it is completed, and is
\* refused otherwise.
Rate(b) ==
  /\ post = NoPost
  /\ status[b] # "none"
  /\ Begun
  /\ post' = [kind |-> "rate", id |-> b, at |-> "done"]
  /\ IF status[b] = "COMPLETED"
     THEN /\ status' = [status EXCEPT ![b] = "SETTLED"]
          /\ change' = [change EXCEPT ![b] = @ + 1]
          /\ excused' = excused \union {b}
     ELSE UNCHANGED <<status, change, excused>>
  /\ UNCHANGED <<unsaid, link, get, active, view, trouble, reopened, mishap>>

\* Whatever the answer was, the page leaves the booking it has open by now.
Rated ==
  /\ post.kind = "rate"
  /\ post' = NoPost
  /\ active' = Null
  /\ view' = NoView
  /\ mishap' = IF Fetching THEN mishap \union {"overlap"} ELSE mishap
  /\ UNCHANGED <<server, link, get, trouble, reopened, excused, left>>

-------------------------------------------------------------------------------
\* The server changes the status of a booking.  A transition is tested in one
\* statement and written in another, and the status it was tested against may
\* be gone by then; an accept and an override write ASSIGNED over any status
\* (see BookingLifecycle).  The dispatch starts after the room was joined.
\* Its phases, the assignment, the exhaustion and an admin's cancellation are
\* announced, unless a call before the emit throws; the start, the
\* confirmation, the completion, the settlement and a worker's cancellation
\* never are.
Change(b, to, announced) ==
  /\ Begun
  /\ status[b] # "none"
  /\ \E tested \in Status : Legal(tested, to)
  /\ to \in Dispatching => ~(post.id = b /\ post.at = "created")
  /\ announced => to \in Dispatching \union {"ASSIGNED", "CANCELLED"}
  /\ status' = [status EXCEPT ![b] = to]
  /\ change' = [change EXCEPT ![b] = @ + 1]
  /\ unsaid' = IF announced THEN unsaid \union {b} ELSE unsaid
  /\ excused' = IF announced THEN excused ELSE excused \union {b}
  /\ reopened' = IF ~Open(b) /\ to \in OPEN_STATUSES
                 THEN reopened \union {b} ELSE reopened
  /\ UNCHANGED <<link, page, trouble, mishap>>

\* io.to(room).emit: only the sockets in the room get it.
Announce(b) ==
  /\ b \in unsaid
  /\ unsaid' = unsaid \ {b}
  /\ IF b \in rooms
     THEN inbox' = [inbox EXCEPT ![b] = @ + 1] /\ UNCHANGED excused
     ELSE excused' = excused \union {b} /\ UNCHANGED inbox
  /\ UNCHANGED <<status, change, socket, rooms, snapshot, page, trouble, reopened, mishap, left>>

-------------------------------------------------------------------------------
\* Variant: the page refreshes only what it has not opened.
HearOther(g, b) ==
  /\ inbox[b] > 0
  /\ inbox' = [inbox EXCEPT ![b] = @ - 1]
  /\ IF view.id # b
     THEN Refresh(g) /\ UNCHANGED excused
     ELSE UNCHANGED <<get, mishap, excused>>
  /\ UNCHANGED <<server, socket, rooms, snapshot, post, active, view, trouble, reopened, left>>

\* The page refreshes if the event is of the booking it shows.  An event
\* that comes while the first GET of its booking is in flight is not heard.
Hear(g, b) ==
  /\ inbox[b] > 0
  /\ inbox' = [inbox EXCEPT ![b] = @ - 1]
  /\ IF view.id = b
     THEN Refresh(g) /\ UNCHANGED excused
     ELSE excused' = excused \union {b} /\ UNCHANGED <<get, mishap>>
  /\ UNCHANGED <<server, socket, rooms, snapshot, post, active, view, trouble, reopened, left>>

\* Every four seconds while the page shows a dispatch without a connection.
Poll(g) ==
  /\ socket = "off"
  /\ view.status \in Dispatching
  /\ Refresh(g)
  /\ UNCHANGED <<server, link, post, active, view, trouble, reopened, excused, left>>

\* The server reads the booking, with all that was not heard of it.
Read(g) ==
  /\ get[g].at = "sent"
  /\ get' = [get EXCEPT ![g].at = "read", ![g].change = change[get[g].id],
                        ![g].status = status[get[g].id]]
  /\ excused' = excused \ {get[g].id}
  /\ UNCHANGED <<server, link, post, active, view, left, trouble, reopened, mishap>>

\* The answer is shown, whichever booking is the active one by now.
Answer(g) ==
  /\ get[g].at = "read"
  /\ view' = [id |-> get[g].id, change |-> get[g].change, status |-> get[g].status]
  /\ get' = [get EXCEPT ![g] = Idle]
  /\ UNCHANGED <<server, link, post, active, ghosts>>

\* The request fails, and the page keeps what it shows.
GetLost(g) ==
  /\ Trouble
  /\ get[g] # Idle
  /\ get' = [get EXCEPT ![g] = Idle]
  /\ mishap' = mishap \union {"lost"}
  /\ UNCHANGED <<server, link, post, active, view, reopened, excused, left>>

-------------------------------------------------------------------------------
\* The handshake: the token is good, the user's room is joined, and the
\* page is connected.
Connect ==
  /\ socket = "off"
  /\ socket' = "open"
  /\ UNCHANGED <<server, rooms, snapshot, inbox, page, ghosts>>

\* Variant: a missing id is among the bookings that are read.
ReadOpenUnset ==
  /\ socket = "open"
  /\ socket' = "queried"
  /\ snapshot' = {b \in Booking \union {Null} : b = Null \/ Open(b)}
  /\ reopened' = {}
  /\ UNCHANGED <<server, rooms, inbox, page, left, trouble, excused, mishap>>

ReadOpen ==
  /\ socket = "open"
  /\ socket' = "queried"
  /\ snapshot' = {b \in Booking : Open(b)}
  /\ reopened' = {}
  /\ UNCHANGED <<server, rooms, inbox, page, left, trouble, excused, mishap>>

JoinOpen ==
  /\ socket = "queried"
  /\ socket' = "on"
  /\ rooms' = rooms \union snapshot
  /\ snapshot' = {}
  /\ UNCHANGED <<server, inbox, page, ghosts>>

\* The query throws: it is logged, and the socket stays as it is.
JoinFails ==
  /\ Trouble
  /\ socket = "open"
  /\ socket' = "on"
  /\ mishap' = mishap \union {"join"}
  /\ UNCHANGED <<server, rooms, snapshot, inbox, page, reopened, excused, left>>

Drop ==
  /\ socket' = "off"
  /\ rooms' = {}
  /\ snapshot' = {}
  /\ inbox' = [b \in Booking |-> 0]

Heard == {b \in Booking : inbox[b] = 0}

\* The page is loaded again: its memory is gone but for activeBookingId, and
\* initializeRoleData runs twice, once from onMounted and once from the watch
\* on the role that onMounted sets: two GETs of that booking.  The server goes
\* on with a request the page has left behind.
Reload(g, h) ==
  /\ Begun
  /\ g # h
  /\ Drop
  /\ post' = IF post.at = "created" THEN [post EXCEPT !.kind = "left"] ELSE NoPost
  /\ view' = NoView
  /\ IF active = Null
     THEN get' = [k \in Get |-> Idle] /\ UNCHANGED mishap
     ELSE /\ get' = [k \in Get |-> IF k \in {g, h} THEN Sent(active) ELSE Idle]
          /\ mishap' = mishap \union {"overlap"}
  /\ UNCHANGED <<server, active, trouble, reopened, excused>>

Disconnect ==
  /\ Trouble
  /\ socket # "off"
  /\ Drop
  /\ excused' = excused \union (Booking \ Heard)
  /\ UNCHANGED <<server, page, reopened, mishap, left>>

\* The process ends: handlers, announcements and connections with it.  The page
\* goes on after a cancellation or a rating as after any other answer.
Restart ==
  /\ Trouble
  /\ Drop
  /\ unsaid' = {}
  /\ excused' = excused \union unsaid \union (Booking \ Heard)
  /\ post' = IF post.kind \in {"cancel", "rate"} THEN post ELSE NoPost
  /\ get' = [g \in Get |-> Idle]
  /\ mishap' = mishap \union {"lost"}
  /\ UNCHANGED <<status, change, active, view, reopened, left>>

-------------------------------------------------------------------------------
PageStep(g) ==
  \/ Submitted(g) \/ Cancelled(g) \/ Poll(g)
  \/ Read(g) \/ Answer(g) \/ GetLost(g)
  \/ \E b \in Booking : ViewBooking(g, b) \/ Hear(g, b)
  \/ \E h \in Get : Reload(g, h)

Next ==
  \/ \E g \in Get : PageStep(g)
  \/ \E b \in Booking : Create(b) \/ Cancel(b) \/ Rate(b) \/ Announce(b)
  \/ \E b \in Booking, to \in Status, announced \in BOOLEAN : Change(b, to, announced)
  \/ JoinCreated \/ SubmitLost \/ Rated
  \/ Connect \/ ReadOpen \/ JoinOpen \/ JoinFails \/ Disconnect \/ Restart

\* The server finishes what it has begun, the network delivers what it does
\* not lose, and the page handles what it gets.
Fairness ==
  /\ \A b \in Booking : WF_vars(Announce(b)) /\ WF_vars(\E g \in Get : Hear(g, b))
  /\ \A g \in Get : WF_vars(Read(g) \/ Answer(g))
  /\ WF_vars(\E g \in Get : Cancelled(g))

Spec == Init /\ [][Next]_vars /\ Fairness

-------------------------------------------------------------------------------
\* A connected customer is in the room of every open booking, whether it was
\* requested before, while or after the rooms were read, but for one that was
\* cancelled or settled then and reopened since, by a late accept or an
\* override (socket.ts handleConnection, and the socketsJoin of requestBooking).
ConnectedIsInRooms ==
  socket = "on" /\ "join" \notin mishap =>
    \A b \in Booking :
      Open(b) /\ ~(post.id = b /\ post.at = "created") => b \in rooms \/ b \in reopened

\* What the page comes to show is the booking it has open, in no earlier
\* state than it has shown, unless fetches overlapped and none was sent alone
\* since (app.js viewBooking, submitRating and refreshActiveBooking).
OnlyOverlapMisleads ==
  [][view' # view /\ "overlap" \notin mishap' =>
       /\ view'.id \in {Null, active'}
       /\ view'.id = view.id => view'.change >= view.change]_vars

\* What the page has not made good of a change, or never will.
Unheeded(b) ==
  \/ b \in unsaid \/ inbox[b] > 0
  \/ post.kind = "cancel" /\ post.id = b
  \/ b \in excused

\* When nothing is on its way, the page shows the booking it has open as it
\* is: every announcement and every cancellation of the page ends in a fetch
\* that is late enough, unless fetches overlapped or failed and none was sent
\* alone since (app.js wireSocketEvents and cancelBooking).
QuietIsCurrent ==
  \A b \in Booking :
    view.id = b /\ active = b /\ ~Fetching /\ ~Unheeded(b)
      /\ mishap \intersect {"overlap", "lost"} = {} => view.change = change[b]

\* A page catches up with the announced changes of the booking it shows.  One
\* event that is not heard, or fetches that overlap or fail, put it off until
\* the next fetch, not for ever (app.js wireSocketEvents, and the emits of the
\* dispatch).
ViewCatchesUp ==
  \A b \in Booking :
    view.id = b /\ active = b /\ view.change < change[b]
      ~> \/ view.id # b \/ active # b \/ view.change = change[b]
         \/ b \in excused \/ mishap \intersect {"overlap", "lost"} # {}
=============================================================================
