----------------------------- MODULE WorkerPage -----------------------------
(***************************************************************************)
(* The page of one worker who stays logged in: the offers and the          *)
(* notifications it shows, its switch between AVAILABLE and OFF_DUTY, and  *)
(* the positions it sends, next to the rows, the rooms and the debounce    *)
(* key of the server.                                                      *)
(*                                                                         *)
(* Every request of the page is a call in flight: it is sent, served in    *)
(* one step (a ping in three), and answered.  The server commits a row     *)
(* first and emits its event in a later step.  What BookingLifecycle says  *)
(* of an accept is here one step with any of its outcomes, and every offer *)
(* is of a booking of its own.  A note that the feed holds twice counts as *)
(* shown.  The active job of the page is left out, and a page with a POST  *)
(* or PATCH in flight is not loaded again.  The operations are those of    *)
(* app.js; the template offers some of them to other roles only.           *)
(*                                                                         *)
(* An operator marked "Variant" is not part of the specification.          *)
(***************************************************************************)
EXTENDS Naturals, FiniteSets

CONSTANTS
  Offer,      \* dispatch log rows of the worker
  Note,       \* notification rows of the worker
  Call,       \* requests in flight at once
  Null,
  PageSize,   \* the notifications of one answer
  MaxSteps,   \* the bound on what users and the server begin
  MaxTrouble  \* the bound on lost connections and requests

ASSUME BoundAssumption == MaxSteps \in Nat /\ MaxTrouble \in Nat
ASSUME PageAssumption  == PageSize \in Nat \ {0}
ASSUME NullAssumption  == Null \notin Offer \union Note /\ Offer \intersect Note = {}

VARIABLES
  outcome,  \* the outcome of each offer
  notes,    \* the notification rows
  born,     \* how many rows each was created after
  opened,   \* those with isRead
  duty,     \* availabilityStatus of the worker
  serving,  \* currentBookingId of the worker
  suspended,\* suspendedAt of the worker is set
  window,   \* the debounce key loc:debounce:{workerId} is set
  unsaid,   \* the offers and notes whose event the server has yet to emit
  socket,   \* "off", "user": in the user's room, "on": in the worker's too
  inbox,    \* the offers and notes whose event is on its way
  missed,   \* history: the offers and notes the page could not hear of
  calls,    \* the requests in flight
  list,     \* workerIncoming
  feed,     \* notifications
  seen,     \* those the feed shows as read
  shownDuty,\* loggedInWorker.availabilityStatus
  pinging,  \* locationPingInterval is set
  left,     \* how much may still be begun
  trouble,  \* how much was lost
  overtaken,\* history: the pings that read the worker's row before it changed
  strayed,  \* history: one that read it since went out off duty, or to the
            \* room of a booking the worker does not serve
  mishap    \* history: what else the page was not told of in order

noted  == <<notes, born, opened>>
job    == <<duty, serving, suspended>>
rows   == <<outcome, notes, born, opened, duty, serving, suspended, window>>
link   == <<unsaid, socket, inbox, missed>>
shown  == <<list, feed, seen>>
switch == <<shownDuty, pinging>>
bounds == <<left, trouble>>
stray  == <<overtaken, strayed>>
vars   == <<rows, link, calls, shown, switch, bounds, stray, mishap>>

Kind == {"incoming", "feed", "accept", "decline", "toggle", "read", "readAll", "ping"}
Idle == [kind |-> "none", at |-> "idle", item |-> Null, got |-> {}, read |-> {}]

\* Reads of one list that overlapped or were lost, marks and switches that
\* went wrong, and a suspension the page does not know of.
Mishaps == {"incoming", "feed", "mark", "toggle", "untold"}

TypeOK ==
  /\ outcome \in [Offer -> {"none", "OFFERED", "ACCEPTED", "closed"}]
  /\ notes \subseteq Note
  /\ born \in [Note -> Nat]
  /\ opened \subseteq notes
  /\ duty \in {"AVAILABLE", "OFF_DUTY", "ON_JOB"}
  /\ serving \in Offer \union {Null}
  /\ suspended \in BOOLEAN
  /\ window \in BOOLEAN
  /\ unsaid \subseteq Offer \union Note
  /\ socket \in {"off", "user", "on"}
  /\ inbox \subseteq Offer \union Note
  /\ missed \subseteq Offer \union Note
  /\ calls \in [Call -> [kind : Kind, at : {"sent", "read", "won", "served"},
                         item : Offer \union Note \union
                                {Null, "AVAILABLE", "OFF_DUTY", "accept", "decline"},
                         got : SUBSET (Offer \union Note), read : SUBSET Note] \union {Idle}]
  /\ list \subseteq Offer
  /\ seen \subseteq feed /\ feed \subseteq Note
  /\ shownDuty \in {"AVAILABLE", "OFF_DUTY", "ON_JOB"}
  /\ pinging \in BOOLEAN
  /\ left \in 0..MaxSteps
  /\ trouble \in 0..MaxTrouble
  /\ overtaken \subseteq Call
  /\ strayed \in BOOLEAN
  /\ mishap \subseteq Mishaps

\* A worker without offers or notifications opens the page.
Init ==
  /\ outcome = [o \in Offer |-> "none"]
  /\ notes = {} /\ opened = {} /\ born = [n \in Note |-> 0]
  /\ duty \in {"AVAILABLE", "OFF_DUTY"}
  /\ serving = Null /\ suspended = FALSE
  /\ window = FALSE
  /\ unsaid = {} /\ inbox = {} /\ missed = {}
  /\ socket = "off"
  /\ calls = [c \in Call |-> Idle]
  /\ list = {} /\ feed = {} /\ seen = {}
  /\ shownDuty = duty
  /\ pinging = (duty = "AVAILABLE")
  /\ left = MaxSteps /\ trouble = 0
  /\ overtaken = {} /\ strayed = FALSE /\ mishap = {}

-------------------------------------------------------------------------------
Begun   == left > 0 /\ left' = left - 1 /\ UNCHANGED trouble
Trouble == trouble < MaxTrouble /\ trouble' = trouble + 1 /\ UNCHANGED left

Mishap(what, when) == mishap' = IF when THEN mishap \union {what} ELSE mishap

InFlight(kind) == \E c \in Call : calls[c].kind = kind

\* Two reads of one list at once may be answered in either order; one alone
\* makes up for those before.
Overlapping(kind) ==
  mishap' = IF InFlight(kind) THEN mishap \union {kind} ELSE mishap \ {kind}

At(c, kind, at) == calls[c].kind = kind /\ calls[c].at = at

Request(kind, item) == [Idle EXCEPT !.kind = kind, !.at = "sent", !.item = item]

Send(c, kind, item) ==
  /\ calls[c] = Idle
  /\ calls' = [calls EXCEPT ![c] = Request(kind, item)]

Served(c) == calls' = [calls EXCEPT ![c].at = "served"]
Done(c)   == calls' = [calls EXCEPT ![c] = Idle]

\* The row of the worker changes, and pings may have read it before.
Overtake ==
  overtaken' = overtaken \union {c \in Call : calls[c].kind = "ping" /\ calls[c].at # "sent"}

-------------------------------------------------------------------------------
\* The dispatch offers the worker a booking.
MakeOffer(o) ==
  /\ Begun
  /\ outcome[o] = "none"
  /\ outcome' = [outcome EXCEPT ![o] = "OFFERED"]
  /\ unsaid' = unsaid \union {o}
  /\ UNCHANGED <<noted, job, window, socket, inbox, missed, calls,
                 shown, switch, stray, mishap>>

\* The offer ends without the worker; no event is sent.
CloseOffer(o) ==
  /\ outcome[o] = "OFFERED"
  /\ outcome' = [outcome EXCEPT ![o] = "closed"]
  /\ UNCHANGED <<noted, job, window, link, calls, shown, switch,
                 bounds, stray, mishap>>

\* The worker is released: the job is completed or cancelled, or one that was
\* theirs is given to another.  Nothing is asked of the worker's row.
EndJob ==
  /\ serving # Null \/ \E o \in Offer : outcome[o] = "ACCEPTED"
  /\ serving' = Null
  /\ duty' = "AVAILABLE"
  /\ Overtake
  /\ UNCHANGED <<outcome, noted, suspended, window, link, calls, shown, switch, bounds,
                 strayed, mishap>>

\* forceAssign writes the worker's row whatever it was, and adds an accepted
\* row to the offers of the booking.
Override(o) ==
  /\ Begun
  /\ outcome' = [outcome EXCEPT ![o] = IF @ = "OFFERED" THEN @ ELSE "ACCEPTED"]
  /\ serving' = o
  /\ duty' = "ON_JOB"
  /\ Overtake
  /\ UNCHANGED <<noted, suspended, window, link, calls, shown, switch, strayed, mishap>>

\* setWorkerSuspension; only a note tells the page.
Suspend ==
  /\ Begun
  /\ suspended' = TRUE
  /\ duty' = "OFF_DUTY"
  /\ Overtake
  /\ Mishap("untold", shownDuty # "OFF_DUTY" \/ InFlight("toggle"))
  /\ UNCHANGED <<outcome, noted, serving, window, link, calls, shown, switch, strayed>>

Reactivate ==
  /\ Begun
  /\ suspended
  /\ suspended' = FALSE
  /\ UNCHANGED <<outcome, noted, duty, serving, window, link, calls, shown, switch, stray, mishap>>

\* InAppChannel.send creates the row, which may be after all were marked
\* and before the page knows that they are.
CreateNote(n) ==
  /\ Begun
  /\ n \notin notes
  /\ notes' = notes \union {n}
  /\ born' = [born EXCEPT ![n] = Cardinality(notes)]
  /\ unsaid' = unsaid \union {n}
  /\ Mishap("mark", \E c \in Call : At(c, "readAll", "served"))
  /\ UNCHANGED <<outcome, opened, job, window, socket, inbox, missed, calls, shown,
                 switch, stray>>

\* The socket is in the room of the event, worker:{id} or user:{id}.
InRoom(x) == socket = "on" \/ (socket = "user" /\ x \in Note)

\* io.to(room).emit: only a socket in the room gets it.
Emit(x) ==
  /\ x \in unsaid
  /\ unsaid' = unsaid \ {x}
  /\ IF InRoom(x)
     THEN inbox' = inbox \union {x} /\ UNCHANGED missed
     ELSE missed' = missed \union {x} /\ UNCHANGED inbox
  /\ UNCHANGED <<rows, socket, calls, shown, switch, bounds, stray, mishap>>

-------------------------------------------------------------------------------
\* Variant: a page that reads its offers already does not read them again.
HearOfferOnce(c, o) ==
  /\ o \in inbox
  /\ inbox' = inbox \ {o}
  /\ IF InFlight("incoming") THEN UNCHANGED calls ELSE Send(c, "incoming", Null)
  /\ UNCHANGED <<rows, unsaid, socket, missed, shown, switch, bounds, stray, mishap>>

\* dispatch:offer makes the page read its offers.
HearOffer(c, o) ==
  /\ o \in inbox
  /\ inbox' = inbox \ {o}
  /\ Send(c, "incoming", Null)
  /\ Overlapping("incoming")
  /\ UNCHANGED <<rows, unsaid, socket, missed, shown, switch, bounds, stray>>

\* notification:new is put at the head of the feed, unread.
HearNote(n) ==
  /\ n \in inbox
  /\ inbox' = inbox \ {n}
  /\ feed' = feed \union {n}
  /\ Mishap("feed", InFlight("feed"))
  /\ UNCHANGED <<rows, unsaid, socket, missed, calls, list, seen, switch, bounds, stray>>

\* navigateTo("notifications").
OpenFeed(c) ==
  /\ Begun
  /\ Send(c, "feed", Null)
  /\ Overlapping("feed")
  /\ UNCHANGED <<rows, link, shown, switch, stray>>

ReadOffers(c) ==
  /\ At(c, "incoming", "sent")
  /\ calls' = [calls EXCEPT ![c].at = "served",
                            ![c].got = {o \in Offer : outcome[o] = "OFFERED"}]
  /\ UNCHANGED <<rows, link, shown, switch, bounds, stray, mishap>>

\* The newest notifications, a page of them.
Newest == {n \in notes : Cardinality({m \in notes : born[m] > born[n]}) < PageSize}

\* Variant: only what is unread is listed.
ReadNotesUnread(c) ==
  /\ At(c, "feed", "sent")
  /\ calls' = [calls EXCEPT ![c].at = "served", ![c].got = Newest \ opened]
  /\ UNCHANGED <<rows, link, shown, switch, bounds, stray, mishap>>

\* listNotifications; getIncomingOffers above.
ReadNotes(c) ==
  /\ At(c, "feed", "sent")
  /\ calls' = [calls EXCEPT ![c].at = "served", ![c].got = Newest,
                            ![c].read = opened \intersect Newest]
  /\ UNCHANGED <<rows, link, shown, switch, bounds, stray, mishap>>

\* The answer replaces what the page shows.
ShowOffers(c) ==
  /\ At(c, "incoming", "served")
  /\ Done(c)
  /\ list' = calls[c].got
  /\ missed' = missed \ calls[c].got
  /\ UNCHANGED <<rows, unsaid, socket, inbox, feed, seen, switch, bounds, stray, mishap>>

ShowFeed(c) ==
  /\ At(c, "feed", "served")
  /\ Done(c)
  /\ feed' = calls[c].got
  /\ seen' = calls[c].read
  /\ missed' = missed \ calls[c].got
  /\ UNCHANGED <<rows, unsaid, socket, inbox, list, switch, bounds, stray, mishap>>

-------------------------------------------------------------------------------
\* The user marks a notification, or all of them.
BeginMark(c) ==
  /\ Begun
  /\ \/ \E n \in feed : Send(c, "read", n)
     \/ Send(c, "readAll", Null)
  /\ UNCHANGED <<rows, link, shown, switch, stray, mishap>>

Marking(c, at) == At(c, "read", at) \/ At(c, "readAll", at)

ServeMark(c) ==
  /\ Marking(c, "sent")
  /\ Served(c)
  /\ opened' = opened \union (IF calls[c].kind = "read" THEN {calls[c].item} ELSE notes)
  /\ UNCHANGED <<outcome, notes, born, job, window, link, shown, switch, bounds, stray, mishap>>

\* Variant: a notification is marked that the feed need not hold by now.
MarkUnfound(c) ==
  seen' = seen \union (IF calls[c].kind = "read" THEN {calls[c].item} ELSE feed)

\* The page marks what it shows by now, whatever it was answered.
Mark(c) ==
  seen' = seen \union (IF calls[c].kind = "read" THEN {calls[c].item} \intersect feed ELSE feed)

AnswerMark(c) ==
  /\ Marking(c, "served")
  /\ Done(c)
  /\ Mark(c)
  /\ UNCHANGED <<rows, link, list, feed, switch, bounds, stray, mishap>>

-------------------------------------------------------------------------------
\* isWorkerAccepting, isWorkerDeclining: set until the offers were read again.
Busy(kind) ==
  \E c \in Call : calls[c].kind = kind \/ (calls[c].kind = "incoming" /\ calls[c].item = kind)

\* handleWorkerAccept and handleWorkerReject.
BeginRespond(c, kind, o) ==
  /\ Begun
  /\ o \in list
  /\ ~Busy(kind)
  /\ Send(c, kind, o)
  /\ UNCHANGED <<rows, link, shown, switch, stray, mishap>>

\* An accept ends as ACCEPTED, LOCK_LOST or, the offer left as it is,
\* ALREADY_ASSIGNED; one of a closed offer is refused.
ServeAccept(c) ==
  LET o == calls[c].item IN
  /\ At(c, "accept", "sent")
  /\ Served(c)
  /\ \/ /\ outcome[o] = "OFFERED"
        /\ outcome' = [outcome EXCEPT ![o] = "ACCEPTED"]
        /\ duty' = "ON_JOB"
        /\ serving' = o
        /\ Overtake
     \/ /\ outcome[o] = "OFFERED"
        /\ outcome' = [outcome EXCEPT ![o] = "closed"]
        /\ UNCHANGED <<duty, serving, overtaken>>
     \/ UNCHANGED <<outcome, duty, serving, overtaken>>
  /\ UNCHANGED <<noted, suspended, window, link, shown, switch, bounds, strayed, mishap>>

ServeDecline(c) ==
  LET o == calls[c].item IN
  /\ At(c, "decline", "sent")
  /\ Served(c)
  /\ outcome' = [outcome EXCEPT ![o] = IF @ = "OFFERED" THEN "closed" ELSE @]
  /\ UNCHANGED <<noted, job, window, link, shown, switch, bounds,
                 stray, mishap>>

\* The page reads its offers again, whatever it was answered.
Reread(c) == calls' = [calls EXCEPT ![c] = Request("incoming", calls[c].kind)]

AnswerRespond(c) ==
  /\ At(c, "accept", "served") \/ At(c, "decline", "served")
  /\ Reread(c)
  /\ Overlapping("incoming")
  /\ UNCHANGED <<rows, link, shown, switch, bounds, stray>>

-------------------------------------------------------------------------------
\* toggleAvailability goes by what the page shows; it may be called again
\* before it is answered.
Toggle(c) ==
  LET next == IF shownDuty = "AVAILABLE" THEN "OFF_DUTY" ELSE "AVAILABLE" IN
  /\ Begun
  /\ Send(c, "toggle", next)
  /\ Mishap("toggle", \E d \in Call : calls[d].kind = "toggle" /\ calls[d].item # next)
  /\ UNCHANGED <<rows, link, shown, switch, stray>>

\* updateAvailability reads the worker, and refuses one who is suspended and
\* would be available; the page keeps what it shows.
CheckToggle(c) ==
  /\ At(c, "toggle", "sent")
  /\ IF suspended /\ calls[c].item = "AVAILABLE"
     THEN Done(c)
     ELSE calls' = [calls EXCEPT ![c].at = "read"]
  /\ UNCHANGED <<rows, link, shown, switch, bounds, stray, mishap>>

\* It writes the status whatever it is by now, ON_JOB too.
ServeToggle(c) ==
  /\ At(c, "toggle", "read")
  /\ Served(c)
  /\ duty' = calls[c].item
  /\ Overtake
  /\ UNCHANGED <<outcome, noted, serving, suspended, window, link, shown, switch, bounds,
                 strayed, mishap>>

\* A page that shows its worker off duty need not be told of a suspension.
Told(next) == mishap' = IF next = "OFF_DUTY" THEN mishap \ {"untold"} ELSE mishap

\* Variant: the page goes on sending its position.
AnswerToggleOnly(c) ==
  /\ At(c, "toggle", "served")
  /\ Done(c)
  /\ shownDuty' = calls[c].item
  /\ pinging' = (pinging \/ shownDuty' = "AVAILABLE")
  /\ Told(shownDuty')
  /\ UNCHANGED <<rows, link, shown, bounds, stray>>

AnswerToggle(c) ==
  /\ At(c, "toggle", "served")
  /\ Done(c)
  /\ shownDuty' = calls[c].item
  /\ pinging' = (shownDuty' = "AVAILABLE")
  /\ Told(shownDuty')
  /\ UNCHANGED <<rows, link, shown, bounds, stray>>

-------------------------------------------------------------------------------
\* The interval fires; it may be cleared before the position is known.
Ping(c) ==
  /\ pinging
  /\ Send(c, "ping", Null)
  /\ UNCHANGED <<rows, link, shown, switch, bounds, stray, mishap>>

\* locationPing reads the worker, and refuses one who is off duty or whose
\* position is too far off.
ReadWorker(c) ==
  /\ At(c, "ping", "sent")
  /\ \/ duty # "OFF_DUTY" /\ calls' = [calls EXCEPT ![c].at = "read", ![c].item = serving]
     \/ Done(c)
  /\ UNCHANGED <<rows, link, shown, switch, bounds, stray, mishap>>

\* SET loc:debounce:{workerId} NX: within the window nothing is written.
Debounce(c) ==
  /\ At(c, "ping", "read")
  /\ window' = TRUE
  /\ calls' = [calls EXCEPT ![c] = IF window THEN Idle ELSE [@ EXCEPT !.at = "won"]]
  /\ overtaken' = IF window THEN overtaken \ {c} ELSE overtaken
  /\ UNCHANGED <<outcome, noted, job, link, shown, switch, bounds, strayed, mishap>>

\* The position is written, and sent to the room of the booking that the
\* worker was read with.
WritePosition(c) ==
  /\ At(c, "ping", "won")
  /\ Done(c)
  /\ overtaken' = overtaken \ {c}
  /\ strayed' = (\/ strayed
                 \/ /\ c \notin overtaken
                    /\ duty = "OFF_DUTY" \/ calls[c].item \notin {Null, serving})
  /\ UNCHANGED <<rows, link, shown, switch, bounds, mishap>>

ExpireWindow ==
  /\ window
  /\ window' = FALSE
  /\ UNCHANGED <<outcome, noted, job, link, calls, shown, switch, bounds,
                 stray, mishap>>

-------------------------------------------------------------------------------
\* What the page can no longer vouch for when a request of this kind is lost.
Unsure(kind) ==
  CASE kind \in {"read", "readAll"}            -> {"mark"}
    [] kind \in {"incoming", "feed", "toggle"} -> {kind}
    [] OTHER                                   -> {}

\* A request fails, before or after it was served: offers that could not be
\* read are none, and the other handlers go on as they do when answered.
CallLost(c) ==
  /\ Trouble
  /\ calls[c] # Idle
  /\ IF calls[c].kind \in {"accept", "decline"}
     THEN Reread(c) /\ Overlapping("incoming")
     ELSE Done(c) /\ mishap' = mishap \union Unsure(calls[c].kind)
  /\ IF calls[c].kind \in {"read", "readAll"} THEN Mark(c) ELSE UNCHANGED seen
  /\ list' = IF calls[c].kind = "incoming" THEN {} ELSE list
  /\ overtaken' = overtaken \ {c}
  /\ UNCHANGED <<rows, link, feed, switch, strayed>>

\* The handshake and the room of the user.
Connect ==
  /\ socket = "off"
  /\ socket' = "user"
  /\ UNCHANGED <<rows, unsaid, inbox, missed, calls, shown, switch, bounds, stray, mishap>>

\* The room of the worker, when its profile has been read.
JoinWorkerRoom ==
  /\ socket = "user"
  /\ socket' = "on"
  /\ UNCHANGED <<rows, unsaid, inbox, missed, calls, shown, switch, bounds, stray, mishap>>

Drop(unheard) ==
  /\ socket' = "off"
  /\ inbox' = {}
  /\ missed' = missed \union inbox \union unheard

Disconnect ==
  /\ Trouble
  /\ socket # "off"
  /\ Drop({})
  /\ UNCHANGED <<rows, unsaid, calls, shown, switch, stray, mishap>>

\* The page is loaded again.  initializeRoleData runs twice, once from the
\* watch on the role and once from onMounted: it reads the offers and not the
\* notifications, and starts the pings of an AVAILABLE worker only.
Reload(c, d) ==
  /\ Begun
  /\ c # d
  /\ \A k \in Call : calls[k].kind \in {"none", "incoming", "feed", "ping"}
  /\ calls[c].kind # "ping" /\ calls[d].kind # "ping"
  /\ calls' = [k \in Call |-> IF k \in {c, d} THEN Request("incoming", Null)
                 ELSE IF calls[k].kind = "ping" THEN calls[k] ELSE Idle]
  /\ Drop(notes)
  /\ list' = {} /\ feed' = {} /\ seen' = {}
  /\ shownDuty' = duty
  /\ pinging' = (duty = "AVAILABLE")
  /\ mishap' = {"incoming"}
  /\ UNCHANGED <<rows, unsaid, stray>>

-------------------------------------------------------------------------------
CallStep(c) ==
  \/ OpenFeed(c) \/ ReadOffers(c) \/ ReadNotes(c) \/ ShowOffers(c) \/ ShowFeed(c)
  \/ BeginMark(c) \/ ServeMark(c) \/ AnswerMark(c)
  \/ ServeAccept(c) \/ ServeDecline(c) \/ AnswerRespond(c)
  \/ Toggle(c) \/ CheckToggle(c) \/ ServeToggle(c) \/ AnswerToggle(c)
  \/ Ping(c) \/ ReadWorker(c) \/ Debounce(c) \/ WritePosition(c)
  \/ CallLost(c) \/ \E d \in Call : Reload(c, d)

Next ==
  \/ \E c \in Call : CallStep(c)
  \/ \E c \in Call, o \in Offer :
       HearOffer(c, o) \/ \E kind \in {"accept", "decline"} : BeginRespond(c, kind, o)
  \/ \E o \in Offer : MakeOffer(o) \/ CloseOffer(o) \/ Override(o)
  \/ \E n \in Note : CreateNote(n) \/ HearNote(n)
  \/ \E x \in Offer \union Note : Emit(x)
  \/ EndJob \/ Suspend \/ Reactivate \/ ExpireWindow \/ Connect \/ JoinWorkerRoom \/ Disconnect

Spec == Init /\ [][Next]_vars

-------------------------------------------------------------------------------
Unheard == unsaid \union inbox \union missed

\* The page lists every open offer it could hear of, unless a read of them is
\* under way, or the reads overlapped or failed and none was sent alone since
\* (app.js loadWorkerIncoming and the emits of the dispatch): there is no
\* polling for workers.
OffersAreListed ==
  ~InFlight("incoming") /\ "incoming" \notin mishap =>
    {o \in Offer : outcome[o] = "OFFERED"} \ Unheard \subseteq list

\* The feed holds the newest notifications that the page could hear of, a page
\* of them at least, unless they are being read, or the reads overlapped or
\* failed and none was sent alone since; and it shows as read what the server
\* has as read, but for marks that were lost and a note that came while all
\* were marked (app.js loadNotifications and markAllNotificationsRead).
FeedMatchesRows ==
  /\ ~InFlight("feed") /\ "feed" \notin mishap => Newest \ Unheard \subseteq feed
  /\ "mark" \notin mishap => seen \subseteq opened

\* A worker who is off duty is shown as such and not asked for positions,
\* unless a switch was lost, opposite ones met, or the worker was suspended,
\* which the page is not told; and whatever the page sends, a position goes out
\* off duty, or to a booking the worker does not serve, only from a ping that
\* read the worker's row before its last change (app.js toggleAvailability,
\* updateAvailability, setWorkerSuspension, locationPing).
PositionsFollowDuty ==
  /\ duty = "OFF_DUTY" /\ ~InFlight("toggle") /\ mishap \intersect {"toggle", "untold"} = {} =>
       shownDuty = "OFF_DUTY" /\ ~pinging
  /\ ~strayed
=============================================================================
