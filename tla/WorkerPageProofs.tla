-------------------------- MODULE WorkerPageProofs --------------------------
(***************************************************************************)
(* Theorems about WorkerPage, for every set of offers and notifications,   *)
(* any number of requests at once and any number that is lost.             *)
(*                                                                         *)
(* What the page shows is right once nothing is on its way to it.  None of *)
(* the properties says what an answer on its way brings, which is what the *)
(* invariants add: ListInv of the offers, FeedInv and SeenInv of the       *)
(* notifications, DutyInv of the switch, StrayInv of a position.           *)
(***************************************************************************)
EXTENDS WorkerPage, FiniteSetTheorems, TLAPS

Item == Offer \union Note \union {Null, "AVAILABLE", "OFF_DUTY", "accept", "decline"}

CallRecord ==
  [kind : Kind, at : {"sent", "read", "won", "served"}, item : Item,
   got : SUBSET (Offer \union Note), read : SUBSET Note]

\* What a request in flight is about, given its kind.
CallOK(q) ==
  /\ q.kind = "incoming" => q.got \subseteq Offer
  /\ q.kind = "feed" => q.read \subseteq q.got /\ q.got \subseteq notes
  /\ q.kind = "read" => q.item \in notes
  /\ q.kind \in {"accept", "decline"} => q.item \in Offer
  /\ q.kind = "toggle" => q.item \in {"AVAILABLE", "OFF_DUTY"}
  /\ q.kind = "ping" => q.item \in Offer \union {Null}

\* A notification that is shown, or told of, has its row.
NoteInv ==
  /\ feed \subseteq notes /\ (unsaid \union inbox) \intersect Note \subseteq notes
  /\ IsFiniteSet(notes)

TypeInv == TypeOK /\ NoteInv /\ \A c \in Call : CallOK(calls[c])

Alone(kind) ==
  \A c, d \in Call : calls[c].kind = kind /\ calls[d].kind = kind => c = d

\* What the page could hear of by now.
OpenOffers == {o \in Offer : outcome[o] = "OFFERED"}
ToList     == OpenOffers \ Unheard
ToFeed     == Newest \ Unheard

\* An answer with the offers lists those the page could hear of by now.
ListInv ==
  "incoming" \notin mishap =>
    /\ Alone("incoming")
    /\ ~InFlight("incoming") => ToList \subseteq list
    /\ \A c \in Call : At(c, "incoming", "served") => ToList \subseteq calls[c].got

\* So does an answer with the notifications, of the newest.
FeedInv ==
  "feed" \notin mishap =>
    /\ Alone("feed")
    /\ ~InFlight("feed") => ToFeed \subseteq feed
    /\ \A c \in Call : At(c, "feed", "served") => ToFeed \subseteq calls[c].got

\* What an answer will make the page show as read is read.
SeenInv ==
  "mark" \notin mishap =>
    /\ seen \subseteq opened
    /\ \A c \in Call :
         /\ At(c, "feed", "served") => calls[c].read \subseteq opened
         /\ At(c, "read", "served") => calls[c].item \in opened
         /\ At(c, "readAll", "served") => notes \subseteq opened

\* Requests to go off duty and to be available do not meet, and one that was
\* served says what the row says, unless the worker was suspended since.
DutyInv ==
  /\ pinging => shownDuty = "AVAILABLE"
  /\ "toggle" \notin mishap =>
       /\ \A c, d \in Call : calls[c].kind = "toggle" /\ calls[d].kind = "toggle" =>
            calls[c].item = calls[d].item
       /\ "untold" \notin mishap =>
            /\ duty = "OFF_DUTY" =>
                 \/ shownDuty = "OFF_DUTY"
                 \/ \E c \in Call : At(c, "toggle", "served") /\ calls[c].item = "OFF_DUTY"
            /\ \A c \in Call :
                 At(c, "toggle", "served") /\ calls[c].item = "AVAILABLE" => duty # "OFF_DUTY"

\* A ping past its reading of the worker's row: duty and job are as it read,
\* or have changed since.
StrayInv ==
  /\ ~strayed
  /\ \A c \in Call \ overtaken :
       calls[c].kind = "ping" /\ calls[c].at # "sent" =>
         duty # "OFF_DUTY" /\ calls[c].item \in {Null, serving}

-------------------------------------------------------------------------------
\* Step by step: the slot of a request, the others being as they were.
Elsewhere(c) == \A d \in Call \ {c} : calls'[d] = calls[d]

CallsTyped == calls \in [Call -> CallRecord \union {Idle}]

LEMMA CallTypes ==
  ASSUME TypeInv
  PROVE  /\ CallsTyped
         /\ \A c \in Call : calls[c] # Idle => calls[c] \in CallRecord
         /\ \A c \in Call : calls[c].kind # "none" => calls[c] # Idle
         /\ \A c \in Call : calls[c].at # "idle" => calls[c] # Idle
BY DEF TypeInv, TypeOK, CallRecord, CallsTyped, Item, Idle

LEMMA RequestIs ==
  ASSUME NEW kind \in Kind, NEW item \in Item
  PROVE  /\ Request(kind, item) \in CallRecord
         /\ Request(kind, item).kind = kind /\ Request(kind, item).at = "sent"
         /\ Request(kind, item).item = item
         /\ Request(kind, item).got = {} /\ Request(kind, item).read = {}
BY DEF Request, Idle, CallRecord

LEMMA SendGives ==
  ASSUME TypeInv, NEW c \in Call, NEW kind \in Kind, NEW item \in Item, Send(c, kind, item)
  PROVE  /\ calls[c] = Idle /\ calls[c].kind = "none"
         /\ calls'[c].kind = kind /\ calls'[c].at = "sent" /\ calls'[c].item = item
         /\ calls'[c].got = {} /\ calls'[c].read = {}
         /\ Elsewhere(c) /\ CallsTyped'
<1> DEFINE new == Request(kind, item)
<1>1. calls' = [calls EXCEPT ![c] = new] /\ calls[c] = Idle
  BY DEF Send
<1>2. calls[c].kind = "none"
  BY <1>1 DEF Idle
<1>3. new \in CallRecord
  BY RequestIs
<1> HIDE DEF new
<1>4. calls'[c] = new /\ Elsewhere(c) /\ CallsTyped'
  BY <1>1, <1>3, CallTypes DEF Elsewhere, CallsTyped
<1> QED BY <1>1, <1>2, <1>4, RequestIs DEF new

LEMMA RereadGives ==
  ASSUME TypeInv, NEW c \in Call, Reread(c), calls[c].kind \in {"accept", "decline"}
  PROVE  /\ calls'[c].kind = "incoming" /\ calls'[c].at = "sent"
         /\ calls'[c].got = {}
         /\ Elsewhere(c) /\ CallsTyped'
<1> DEFINE new == Request("incoming", calls[c].kind)
<1>1. calls' = [calls EXCEPT ![c] = new]
  BY DEF Reread
<1>2. /\ new \in CallRecord
      /\ new.kind = "incoming" /\ new.at = "sent" /\ new.got = {}
  BY RequestIs DEF Kind, Item
<1> HIDE DEF new
<1> QED BY <1>1, <1>2, CallTypes DEF Elsewhere, CallsTyped

LEMMA ServedGives ==
  ASSUME TypeInv, NEW c \in Call, Served(c), calls[c].kind # "none"
  PROVE  /\ calls'[c].kind = calls[c].kind /\ calls'[c].at = "served"
         /\ calls'[c].item = calls[c].item
         /\ calls'[c].got = calls[c].got /\ calls'[c].read = calls[c].read
         /\ Elsewhere(c) /\ CallsTyped'
<1> DEFINE new == [calls[c] EXCEPT !.at = "served"]
<1>1. calls[c] \in CallRecord
  BY CallTypes
<1>2. calls' = [calls EXCEPT ![c] = new]
  BY DEF Served
<1>3. /\ new \in CallRecord /\ new.kind = calls[c].kind /\ new.at = "served"
      /\ new.item = calls[c].item /\ new.got = calls[c].got /\ new.read = calls[c].read
  BY <1>1 DEF CallRecord
<1> HIDE DEF new
<1> QED BY <1>2, <1>3, CallTypes DEF Elsewhere, CallsTyped

LEMMA DoneGives ==
  ASSUME TypeInv, NEW c \in Call, Done(c)
  PROVE  calls'[c] = Idle /\ calls'[c].kind = "none" /\ Elsewhere(c) /\ CallsTyped'
<1>1. calls'[c] = Idle /\ Elsewhere(c) /\ CallsTyped'
  BY CallTypes DEF Done, Elsewhere, CallsTyped
<1> QED BY <1>1 DEF Idle

\* The answers that are read in between.
LEMMA ReadOffersGives ==
  ASSUME TypeInv, NEW c \in Call, ReadOffers(c)
  PROVE  /\ calls'[c].kind = "incoming" /\ calls'[c].got = OpenOffers
         /\ Elsewhere(c) /\ CallsTyped'
<1> DEFINE new == [calls[c] EXCEPT !.at = "served", !.got = OpenOffers]
<1>1. calls[c] \in CallRecord /\ calls[c].kind = "incoming"
  BY CallTypes DEF ReadOffers, At
<1>2. calls' = [calls EXCEPT ![c] = new]
  BY DEF ReadOffers, OpenOffers
<1>3. new \in CallRecord /\ new.kind = "incoming" /\ new.got = OpenOffers
  BY <1>1 DEF CallRecord, OpenOffers
<1> HIDE DEF new
<1> QED BY <1>2, <1>3, CallTypes DEF Elsewhere, CallsTyped

LEMMA ReadNotesGives ==
  ASSUME TypeInv, NEW c \in Call, ReadNotes(c)
  PROVE  /\ calls'[c].kind = "feed" /\ calls'[c].got = Newest
         /\ calls'[c].read = opened \intersect Newest
         /\ Elsewhere(c) /\ CallsTyped'
<1> DEFINE new == [calls[c] EXCEPT !.at = "served", !.got = Newest,
                                   !.read = opened \intersect Newest]
<1>1. calls[c] \in CallRecord /\ calls[c].kind = "feed"
  BY CallTypes DEF ReadNotes, At
<1>2. calls' = [calls EXCEPT ![c] = new]
  BY DEF ReadNotes
<1>3. Newest \subseteq Note /\ opened \intersect Newest \subseteq Note
  BY DEF Newest, TypeInv, TypeOK
<1>4. /\ new \in CallRecord /\ new.kind = "feed" /\ new.got = Newest
      /\ new.read = opened \intersect Newest
  BY <1>1, <1>3 DEF CallRecord
<1> HIDE DEF new
<1> QED BY <1>2, <1>4, CallTypes DEF Elsewhere, CallsTyped

\* A request of the switch that the server lets through, or refuses.
LEMMA CheckGives ==
  ASSUME TypeInv, NEW c \in Call, CheckToggle(c)
  PROVE  /\ calls[c].kind = "toggle" /\ calls[c].at = "sent"
         /\ calls'[c].kind \in {"none", "toggle"}
         /\ calls'[c].kind = "toggle" => calls'[c].at = "read" /\ calls'[c].item = calls[c].item
         /\ Elsewhere(c) /\ CallsTyped'
<1>1. calls[c] \in CallRecord /\ calls[c].kind = "toggle" /\ calls[c].at = "sent"
  BY CallTypes DEF CheckToggle, At
<1>2. CASE Done(c)
  BY <1>1, <1>2, DoneGives
<1>3. CASE calls' = [calls EXCEPT ![c].at = "read"]
  <2> DEFINE new == [calls[c] EXCEPT !.at = "read"]
  <2>1. calls' = [calls EXCEPT ![c] = new]
    BY <1>3
  <2>2. new \in CallRecord /\ new.kind = "toggle" /\ new.at = "read" /\ new.item = calls[c].item
    BY <1>1 DEF CallRecord
  <2> HIDE DEF new
  <2> QED BY <1>1, <2>1, <2>2, CallTypes DEF Elsewhere, CallsTyped
<1> QED BY <1>2, <1>3 DEF CheckToggle

\* The newest notifications are as they were, but for one that is created.
LEMMA NewestStays ==
  ASSUME UNCHANGED <<notes, born>>
  PROVE  Newest' = Newest
BY DEF Newest

LEMMA NewestGrows ==
  ASSUME TypeInv, NEW n \in Note, CreateNote(n)
  PROVE  Newest' \subseteq Newest \union {n}
<1> SUFFICES ASSUME NEW m \in Newest', m # n
             PROVE  m \in Newest
  OBVIOUS
<1> DEFINE Older(k) == {x \in notes : born[x] > born[k]}
           Newer == {x \in notes' : born'[x] > born'[m]}
<1>1. notes' = notes \union {n} /\ n \notin notes /\ born \in [Note -> Nat]
  BY DEF CreateNote, TypeInv, TypeOK
<1>2. m \in notes /\ Cardinality(Newer) < PageSize
  BY <1>1 DEF Newest
<1>3. \A x \in notes : born'[x] = born[x]
  BY <1>1 DEF CreateNote, TypeInv, TypeOK
<1>4. Older(m) \subseteq Newer
  BY <1>1, <1>2, <1>3
<1>5. IsFiniteSet(Newer)
  <2>1. IsFiniteSet(notes')
    BY <1>1, FS_AddElement DEF TypeInv, NoteInv
  <2> QED BY <2>1, FS_Subset
<1>6. Cardinality(Older(m)) <= Cardinality(Newer)
  BY <1>4, <1>5, FS_Subset
<1>7. Cardinality(Older(m)) \in Nat /\ Cardinality(Newer) \in Nat
  BY <1>4, <1>5, FS_Subset, FS_CardinalityType
<1>8. Cardinality(Older(m)) < PageSize
  BY <1>2, <1>6, <1>7, PageAssumption
<1> QED BY <1>2, <1>8 DEF Newest

\* A ping that goes on has a worker on duty when its row is read.
LEMMA PingGives ==
  ASSUME TypeInv, NEW c \in Call, ReadWorker(c) \/ Debounce(c)
  PROVE  /\ calls[c].kind = "ping" /\ Elsewhere(c) /\ CallsTyped'
         /\ calls'[c].kind \in {"none", "ping"}
         /\ calls'[c].kind = "ping" =>
              \/ duty # "OFF_DUTY" /\ calls'[c].item = serving
              \/ calls[c].at = "read" /\ calls'[c].item = calls[c].item
<1>1. calls[c] \in CallRecord /\ calls[c].kind = "ping"
  BY CallTypes DEF ReadWorker, Debounce, At
<1>2. CASE Done(c)
  BY <1>1, <1>2, DoneGives
<1>3. CASE duty # "OFF_DUTY" /\ calls' = [calls EXCEPT ![c].at = "read", ![c].item = serving]
  <2> DEFINE new == [calls[c] EXCEPT !.at = "read", !.item = serving]
  <2>1. calls' = [calls EXCEPT ![c] = new]
    BY <1>3
  <2>2. new \in CallRecord /\ new.kind = "ping" /\ new.item = serving
    BY <1>1 DEF CallRecord, TypeInv, TypeOK, Item
  <2> HIDE DEF new
  <2> QED BY <1>1, <1>3, <2>1, <2>2, CallTypes DEF Elsewhere, CallsTyped
<1>4. CASE Debounce(c)
  <2> DEFINE new == [calls[c] EXCEPT !.at = "won"]
  <2>1. new \in CallRecord /\ new.kind = "ping" /\ new.item = calls[c].item
    BY <1>1 DEF CallRecord
  <2>2. calls' = [calls EXCEPT ![c] = IF window THEN Idle ELSE new]
    BY <1>4 DEF Debounce
  <2> HIDE DEF new
  <2>3. CASE window
    <3>1. Done(c)
      BY <2>2, <2>3 DEF Done
    <3> QED BY <1>1, <3>1, DoneGives
  <2>4. CASE ~window
    BY <1>1, <1>4, <2>1, <2>2, <2>4, CallTypes DEF Elsewhere, CallsTyped, Debounce, At
  <2> QED BY <2>3, <2>4
<1> QED BY <1>2, <1>3, <1>4 DEF ReadWorker

-------------------------------------------------------------------------------
\* The types.  Every step touches the slot of one request of known kinds.
Touches(c, kinds) ==
  /\ Elsewhere(c)
  /\ calls[c].kind \in kinds \union {"none"}
  /\ calls'[c].kind \in kinds \union {"none"}

\* Requests that were right remain so while no row of a note goes away.
LEMMA CallsStayOK ==
  ASSUME TypeInv, NEW c \in Call, Elsewhere(c), notes \subseteq notes', CallOK(calls[c])'
  PROVE  (\A d \in Call : CallOK(calls[d]))'
BY DEF TypeInv, CallOK, Elsewhere

LEMMA BegunBounds ==
  ASSUME TypeOK, Begun
  PROVE  left' \in 0..MaxSteps /\ trouble' \in 0..MaxTrouble
BY BoundAssumption DEF TypeOK, Begun

LEMMA TroubleBounds ==
  ASSUME TypeOK, Trouble
  PROVE  left' \in 0..MaxSteps /\ trouble' \in 0..MaxTrouble
BY BoundAssumption DEF TypeOK, Trouble

LEMMA MishapBounds ==
  ASSUME TypeOK, NEW what \in Mishaps, NEW when, Mishap(what, when)
  PROVE  /\ mishap' \subseteq Mishaps
         /\ mishap \subseteq mishap' /\ mishap' \subseteq mishap \union {what}
         /\ when => what \in mishap'
BY DEF TypeOK, Mishap

LEMMA OverlapBounds ==
  ASSUME TypeOK, NEW kind \in {"incoming", "feed"}, Overlapping(kind)
  PROVE  /\ mishap' \subseteq Mishaps
         /\ kind \in mishap' \/ ~InFlight(kind)
         /\ \A what \in Mishaps \ {kind} : what \in mishap' <=> what \in mishap
BY DEF TypeOK, Overlapping, Mishaps

\* The variables other than the calls keep their types, call by call.
RowTypes ==
  /\ outcome \in [Offer -> {"none", "OFFERED", "ACCEPTED", "closed"}]
  /\ notes \subseteq Note
  /\ born \in [Note -> Nat]
  /\ opened \subseteq notes
  /\ duty \in {"AVAILABLE", "OFF_DUTY", "ON_JOB"}
  /\ serving \in Offer \union {Null}
  /\ suspended \in BOOLEAN
  /\ window \in BOOLEAN

LinkTypes ==
  /\ unsaid \subseteq Offer \union Note
  /\ socket \in {"off", "user", "on"}
  /\ inbox \subseteq Offer \union Note
  /\ missed \subseteq Offer \union Note

PageTypes ==
  /\ list \subseteq Offer
  /\ seen \subseteq feed /\ feed \subseteq Note
  /\ shownDuty \in {"AVAILABLE", "OFF_DUTY", "ON_JOB"}
  /\ pinging \in BOOLEAN

GhostTypes ==
  /\ left \in 0..MaxSteps
  /\ trouble \in 0..MaxTrouble
  /\ overtaken \subseteq Call
  /\ strayed \in BOOLEAN
  /\ mishap \subseteq Mishaps

LEMMA TypeParts ==
  /\ TypeOK <=> RowTypes /\ LinkTypes /\ PageTypes /\ GhostTypes /\ CallsTyped
  /\ (TypeOK <=> RowTypes /\ LinkTypes /\ PageTypes /\ GhostTypes /\ CallsTyped)'
BY DEF TypeOK, RowTypes, LinkTypes, PageTypes, GhostTypes, CallsTyped, CallRecord, Item

LEMMA InitTypeInv == Init => TypeInv
<1> SUFFICES ASSUME Init
             PROVE  TypeInv
  OBVIOUS
<1>1. \A c \in Call : calls[c] = Idle
  BY DEF Init
<1>2. CallsTyped
  BY DEF Init, CallsTyped
<1>3. RowTypes /\ LinkTypes
  BY DEF Init, RowTypes, LinkTypes
<1>4. PageTypes /\ GhostTypes
  <2>1. pinging \in BOOLEAN
    BY Zenon DEF Init
  <2>2. shownDuty \in {"AVAILABLE", "OFF_DUTY", "ON_JOB"}
    BY DEF Init
  <2>3. list = {} /\ feed = {} /\ seen = {}
    BY DEF Init
  <2>4. left = MaxSteps /\ trouble = 0 /\ overtaken = {} /\ strayed = FALSE /\ mishap = {}
    BY DEF Init
  <2>5. PageTypes
    BY <2>1, <2>2, <2>3 DEF PageTypes
  <2>6. left \in 0..MaxSteps /\ trouble \in 0..MaxTrouble
    BY <2>4, BoundAssumption
  <2>7. GhostTypes
    BY <2>4, <2>6, Zenon DEF GhostTypes
  <2> QED BY <2>5, <2>7
<1>5. NoteInv
  BY FS_EmptySet DEF Init, NoteInv
<1> QED BY <1>1, <1>2, <1>3, <1>4, <1>5, TypeParts DEF TypeInv, CallOK, Idle

LEMMA OffersTouch ==
  ASSUME TypeInv, NEW c \in Call,
         ReadOffers(c) \/ ShowOffers(c) \/ \E o \in Offer : HearOffer(c, o)
  PROVE  TypeInv' /\ Touches(c, {"incoming"})
<1>1. ASSUME NEW o \in Offer, HearOffer(c, o)
      PROVE  TypeInv' /\ Touches(c, {"incoming"})
  <2>1. Send(c, "incoming", Null) /\ "incoming" \in Kind /\ Null \in Item
    BY <1>1 DEF HearOffer, Kind, Item
  <2>2. Touches(c, {"incoming"}) /\ CallsTyped' /\ CallOK(calls[c])'
    BY <2>1, SendGives DEF Touches, CallOK
  <2>3. UNCHANGED <<rows, unsaid, socket, missed, shown, switch, bounds, stray>>
        /\ inbox' = inbox \ {o}
    BY <1>1 DEF HearOffer
  <2>4. mishap' \subseteq Mishaps
    BY <1>1, OverlapBounds DEF HearOffer, TypeInv
  <2>5. (\A d \in Call : CallOK(calls[d]))'
    BY <2>2, <2>3, CallsStayOK DEF Touches, rows
  <2>6. NoteInv' /\ RowTypes' /\ LinkTypes' /\ PageTypes' /\ GhostTypes'
    BY <2>3, <2>4, TypeParts DEF TypeInv, NoteInv, RowTypes, LinkTypes, PageTypes, GhostTypes,
                               rows, shown, switch, stray, bounds
  <2> QED BY <2>2, <2>5, <2>6, TypeParts DEF TypeInv
<1>2. CASE ReadOffers(c)
  <2>1. Touches(c, {"incoming"}) /\ CallsTyped' /\ CallOK(calls[c])'
    BY <1>2, ReadOffersGives DEF Touches, CallOK, OpenOffers, ReadOffers, At
  <2>2. UNCHANGED <<rows, link, shown, switch, bounds, stray, mishap>>
    BY <1>2 DEF ReadOffers
  <2>3. (\A d \in Call : CallOK(calls[d]))'
    BY <2>1, <2>2, CallsStayOK DEF Touches, rows
  <2>4. NoteInv' /\ RowTypes' /\ LinkTypes' /\ PageTypes' /\ GhostTypes'
    BY <2>2, TypeParts DEF TypeInv, NoteInv, RowTypes, LinkTypes, PageTypes, GhostTypes,
                         rows, link, shown, switch, stray, bounds
  <2> QED BY <2>1, <2>3, <2>4, TypeParts DEF TypeInv
<1>3. CASE ShowOffers(c)
  <2>1. Touches(c, {"incoming"}) /\ CallsTyped' /\ CallOK(calls[c])'
    BY <1>3, DoneGives DEF Touches, CallOK, ShowOffers, At
  <2>2. UNCHANGED <<rows, unsaid, socket, inbox, feed, seen, switch, bounds, stray, mishap>>
    BY <1>3 DEF ShowOffers
  <2>3. (\A d \in Call : CallOK(calls[d]))'
    BY <2>1, <2>2, CallsStayOK DEF Touches, rows
  <2>4. missed' \subseteq missed /\ list' \subseteq Offer
    BY <1>3 DEF ShowOffers, At, TypeInv, CallOK
  <2>5. NoteInv' /\ RowTypes' /\ LinkTypes' /\ PageTypes' /\ GhostTypes'
    BY <2>2, <2>4, TypeParts DEF TypeInv, NoteInv, RowTypes, LinkTypes, PageTypes, GhostTypes,
                               rows, switch, stray, bounds
  <2> QED BY <2>1, <2>3, <2>5, TypeParts DEF TypeInv
<1> QED BY <1>1, <1>2, <1>3


LEMMA FeedTouch ==
  ASSUME TypeInv, NEW c \in Call, OpenFeed(c) \/ ReadNotes(c) \/ ShowFeed(c)
  PROVE  TypeInv' /\ Touches(c, {"feed"})
<1>1. CASE OpenFeed(c)
  <2>1. Send(c, "feed", Null) /\ "feed" \in Kind /\ Null \in Item
    BY <1>1 DEF OpenFeed, Kind, Item
  <2>2. Touches(c, {"feed"}) /\ CallsTyped' /\ CallOK(calls[c])'
    BY <2>1, SendGives DEF Touches, CallOK
  <2>3. UNCHANGED <<rows, link, shown, switch, stray>>
    BY <1>1 DEF OpenFeed
  <2>4. /\ mishap' \subseteq Mishaps
        /\ left' \in 0..MaxSteps /\ trouble' \in 0..MaxTrouble
    BY <1>1, OverlapBounds, BegunBounds DEF OpenFeed, TypeInv
  <2>5. (\A d \in Call : CallOK(calls[d]))'
    BY <2>2, <2>3, CallsStayOK DEF Touches, rows
  <2>6. NoteInv' /\ RowTypes' /\ LinkTypes' /\ PageTypes' /\ GhostTypes'
    BY <2>3, <2>4, TypeParts DEF TypeInv, NoteInv, RowTypes, LinkTypes, PageTypes, GhostTypes,
                               rows, link, shown, switch, stray
  <2> QED BY <2>2, <2>5, <2>6, TypeParts DEF TypeInv
<1>2. CASE ReadNotes(c)
  <2>1. UNCHANGED <<rows, link, shown, switch, bounds, stray, mishap>>
    BY <1>2 DEF ReadNotes
  <2>2. Touches(c, {"feed"}) /\ CallsTyped' /\ CallOK(calls[c])'
    BY <1>2, <2>1, ReadNotesGives DEF Touches, CallOK, ReadNotes, At, Newest, rows
  <2>3. (\A d \in Call : CallOK(calls[d]))'
    BY <2>1, <2>2, CallsStayOK DEF Touches, rows
  <2>4. NoteInv' /\ RowTypes' /\ LinkTypes' /\ PageTypes' /\ GhostTypes'
    BY <2>1, TypeParts DEF TypeInv, NoteInv, RowTypes, LinkTypes, PageTypes, GhostTypes,
                         rows, link, shown, switch, stray, bounds
  <2> QED BY <2>2, <2>3, <2>4, TypeParts DEF TypeInv
<1>3. CASE ShowFeed(c)
  <2>1. Touches(c, {"feed"}) /\ CallsTyped' /\ CallOK(calls[c])'
    BY <1>3, DoneGives DEF Touches, CallOK, ShowFeed, At
  <2>2. UNCHANGED <<rows, unsaid, socket, inbox, list, switch, bounds, stray, mishap>>
    BY <1>3 DEF ShowFeed
  <2>3. (\A d \in Call : CallOK(calls[d]))'
    BY <2>1, <2>2, CallsStayOK DEF Touches, rows
  <2>4. missed' \subseteq missed /\ feed' \subseteq notes /\ seen' \subseteq feed'
    BY <1>3 DEF ShowFeed, At, TypeInv, CallOK
  <2>5. NoteInv' /\ RowTypes' /\ LinkTypes' /\ PageTypes' /\ GhostTypes'
    BY <2>2, <2>4, TypeParts DEF TypeInv, NoteInv, RowTypes, LinkTypes, PageTypes, GhostTypes,
                               rows, switch, stray, bounds
  <2> QED BY <2>1, <2>3, <2>5, TypeParts DEF TypeInv
<1> QED BY <1>1, <1>2, <1>3

LEMMA MarkTouch ==
  ASSUME TypeInv, NEW c \in Call, BeginMark(c) \/ ServeMark(c) \/ AnswerMark(c)
  PROVE  TypeInv' /\ Touches(c, {"read", "readAll"})
<1>1. CASE BeginMark(c)
  <2>1. PICK kind \in {"read", "readAll"}, item \in Item :
          Send(c, kind, item) /\ (kind = "read" => item \in feed)
    BY <1>1 DEF BeginMark, Item, TypeInv, TypeOK
  <2>2. kind \in Kind
    BY DEF Kind
  <2>3. UNCHANGED <<rows, link, shown, switch, stray, mishap>>
    BY <1>1 DEF BeginMark
  <2>4. Touches(c, {"read", "readAll"}) /\ CallsTyped' /\ CallOK(calls[c])'
    BY <2>1, <2>2, <2>3, SendGives DEF Touches, CallOK, TypeInv, NoteInv, rows
  <2>5. left' \in 0..MaxSteps /\ trouble' \in 0..MaxTrouble
    BY <1>1, BegunBounds DEF BeginMark, TypeInv
  <2>6. (\A d \in Call : CallOK(calls[d]))'
    BY <2>3, <2>4, CallsStayOK DEF Touches, rows
  <2>7. NoteInv' /\ RowTypes' /\ LinkTypes' /\ PageTypes' /\ GhostTypes'
    BY <2>3, <2>5, TypeParts DEF TypeInv, NoteInv, RowTypes, LinkTypes, PageTypes, GhostTypes,
                               rows, link, shown, switch, stray
  <2> QED BY <2>4, <2>6, <2>7, TypeParts DEF TypeInv
<1>2. CASE ServeMark(c)
  <2>1. calls[c].kind \in {"read", "readAll"} /\ Served(c)
    BY <1>2 DEF ServeMark, Marking, At
  <2>2. UNCHANGED <<outcome, notes, born, duty, serving, suspended, window, link, shown, switch,
                    bounds, stray, mishap>>
    BY <1>2 DEF ServeMark, job
  <2>3. Touches(c, {"read", "readAll"}) /\ CallsTyped' /\ CallOK(calls[c])'
    BY <2>1, <2>2, ServedGives DEF Touches, CallOK, TypeInv
  <2>4. opened' \subseteq notes
    BY <1>2 DEF ServeMark, TypeInv, TypeOK, CallOK
  <2>5. (\A d \in Call : CallOK(calls[d]))'
    BY <2>2, <2>3, CallsStayOK DEF Touches
  <2>6. NoteInv' /\ RowTypes' /\ LinkTypes' /\ PageTypes' /\ GhostTypes'
    BY <2>2, <2>4, TypeParts DEF TypeInv, NoteInv, RowTypes, LinkTypes, PageTypes, GhostTypes,
                               link, shown, switch, stray, bounds
  <2> QED BY <2>3, <2>5, <2>6, TypeParts DEF TypeInv
<1>3. CASE AnswerMark(c)
  <2>1. Touches(c, {"read", "readAll"}) /\ CallsTyped' /\ CallOK(calls[c])'
    BY <1>3, DoneGives DEF Touches, CallOK, AnswerMark, Marking, At
  <2>2. UNCHANGED <<rows, link, list, feed, switch, bounds, stray, mishap>>
    BY <1>3 DEF AnswerMark
  <2>3. seen' \subseteq feed
    BY <1>3 DEF AnswerMark, Mark, TypeInv, TypeOK
  <2>4. (\A d \in Call : CallOK(calls[d]))'
    BY <2>1, <2>2, CallsStayOK DEF Touches, rows
  <2>5. NoteInv' /\ RowTypes' /\ LinkTypes' /\ PageTypes' /\ GhostTypes'
    BY <2>2, <2>3, TypeParts DEF TypeInv, NoteInv, RowTypes, LinkTypes, PageTypes, GhostTypes,
                               rows, link, switch, stray, bounds
  <2> QED BY <2>1, <2>4, <2>5, TypeParts DEF TypeInv
<1> QED BY <1>1, <1>2, <1>3

LEMMA RespondTouch ==
  ASSUME TypeInv, NEW c \in Call,
         \/ ServeAccept(c) \/ ServeDecline(c)
         \/ \E kind \in {"accept", "decline"}, o \in Offer : BeginRespond(c, kind, o)
  PROVE  TypeInv' /\ Touches(c, {"accept", "decline"})
<1>1. ASSUME NEW kind \in {"accept", "decline"}, NEW o \in Offer, BeginRespond(c, kind, o)
      PROVE  TypeInv' /\ Touches(c, {"accept", "decline"})
  <2>1. Send(c, kind, o) /\ kind \in Kind /\ o \in Item
    BY <1>1 DEF BeginRespond, Kind, Item
  <2>2. Touches(c, {"accept", "decline"}) /\ CallsTyped' /\ CallOK(calls[c])'
    BY <2>1, SendGives DEF Touches, CallOK
  <2>3. UNCHANGED <<rows, link, shown, switch, stray, mishap>>
    BY <1>1 DEF BeginRespond
  <2>4. left' \in 0..MaxSteps /\ trouble' \in 0..MaxTrouble
    BY <1>1, BegunBounds DEF BeginRespond, TypeInv
  <2>5. (\A d \in Call : CallOK(calls[d]))'
    BY <2>2, <2>3, CallsStayOK DEF Touches, rows
  <2>6. NoteInv' /\ RowTypes' /\ LinkTypes' /\ PageTypes' /\ GhostTypes'
    BY <2>3, <2>4, TypeParts DEF TypeInv, NoteInv, RowTypes, LinkTypes, PageTypes, GhostTypes,
                               rows, link, shown, switch, stray
  <2> QED BY <2>2, <2>5, <2>6, TypeParts DEF TypeInv
<1>2. CASE ServeAccept(c) \/ ServeDecline(c)
  <2>1. calls[c].kind \in {"accept", "decline"} /\ Served(c)
    BY <1>2 DEF ServeAccept, ServeDecline, At
  <2>2. UNCHANGED <<notes, born, opened, suspended, window, link, shown, switch, bounds, mishap>>
    BY <1>2 DEF ServeAccept, ServeDecline, noted, job
  <2>3. Touches(c, {"accept", "decline"}) /\ CallsTyped' /\ CallOK(calls[c])'
    BY <2>1, ServedGives DEF Touches, CallOK, TypeInv
  <2>4. calls[c].item \in Offer
    BY <2>1 DEF TypeInv, CallOK
  <2>5. outcome' \in [Offer -> {"none", "OFFERED", "ACCEPTED", "closed"}]
    <3>1. outcome \in [Offer -> {"none", "OFFERED", "ACCEPTED", "closed"}]
      BY DEF TypeInv, TypeOK
    <3>2. CASE ServeAccept(c)
      BY <2>4, <3>1, <3>2 DEF ServeAccept
    <3>3. CASE ServeDecline(c)
      BY <2>4, <3>1, <3>3 DEF ServeDecline
    <3> QED BY <1>2, <3>2, <3>3
  <2>6. duty' \in {"AVAILABLE", "OFF_DUTY", "ON_JOB"} /\ serving' \in Offer \union {Null}
    <3>1. CASE ServeAccept(c)
      BY <2>4, <3>1 DEF ServeAccept, TypeInv, TypeOK
    <3>2. CASE ServeDecline(c)
      BY <3>2 DEF ServeDecline, job, TypeInv, TypeOK
    <3> QED BY <1>2, <3>1, <3>2
  <2>7. overtaken' \subseteq Call /\ strayed' \in BOOLEAN
    <3>1. CASE ServeAccept(c)
      BY <3>1 DEF ServeAccept, Overtake, TypeInv, TypeOK
    <3>2. CASE ServeDecline(c)
      BY <3>2 DEF ServeDecline, stray, TypeInv, TypeOK
    <3> QED BY <1>2, <3>1, <3>2
  <2>8. (\A d \in Call : CallOK(calls[d]))'
    BY <2>2, <2>3, CallsStayOK DEF Touches
  <2>9. NoteInv' /\ RowTypes' /\ LinkTypes' /\ PageTypes' /\ GhostTypes'
    BY <2>2, <2>5, <2>6, <2>7, TypeParts DEF TypeInv, NoteInv, RowTypes, LinkTypes, PageTypes,
                               GhostTypes, link, shown, switch, stray, bounds
  <2> QED BY <2>3, <2>8, <2>9, TypeParts DEF TypeInv
<1> QED BY <1>1, <1>2


LEMMA RereadTouch ==
  ASSUME TypeInv, NEW c \in Call, AnswerRespond(c)
  PROVE  TypeInv' /\ Touches(c, {"accept", "decline", "incoming"})
<1>1. calls[c].kind \in {"accept", "decline"} /\ Reread(c)
  BY DEF AnswerRespond, At
<1>2. UNCHANGED <<rows, link, shown, switch, bounds, stray>>
  BY DEF AnswerRespond
<1>3. Touches(c, {"accept", "decline", "incoming"}) /\ CallsTyped' /\ CallOK(calls[c])'
  BY <1>1, <1>2, RereadGives DEF Touches, CallOK
<1>4. mishap' \subseteq Mishaps
  BY OverlapBounds DEF AnswerRespond, TypeInv
<1>5. (\A d \in Call : CallOK(calls[d]))'
  BY <1>2, <1>3, CallsStayOK DEF Touches, rows
<1>6. NoteInv' /\ RowTypes' /\ LinkTypes' /\ PageTypes' /\ GhostTypes'
  BY <1>2, <1>4, TypeParts DEF TypeInv, NoteInv, RowTypes, LinkTypes, PageTypes, GhostTypes,
                             rows, link, shown, switch, stray, bounds
<1> QED BY <1>3, <1>5, <1>6, TypeParts DEF TypeInv

LEMMA ToggleTouch ==
  ASSUME TypeInv, NEW c \in Call, Toggle(c) \/ CheckToggle(c) \/ ServeToggle(c) \/ AnswerToggle(c)
  PROVE  TypeInv' /\ Touches(c, {"toggle"})
<1>1. CASE Toggle(c)
  <2>1. PICK next \in {"AVAILABLE", "OFF_DUTY"} :
          Send(c, "toggle", next)
          /\ Mishap("toggle", \E d \in Call : calls[d].kind = "toggle" /\ calls[d].item # next)
    BY <1>1 DEF Toggle
  <2>2. "toggle" \in Kind /\ next \in Item
    BY DEF Kind, Item
  <2>3. Touches(c, {"toggle"}) /\ CallsTyped' /\ CallOK(calls[c])'
    BY <2>1, <2>2, SendGives DEF Touches, CallOK
  <2>4. UNCHANGED <<rows, link, shown, switch, stray>>
    BY <1>1 DEF Toggle
  <2>5. /\ mishap' \subseteq Mishaps
        /\ left' \in 0..MaxSteps /\ trouble' \in 0..MaxTrouble
    BY <1>1, <2>1, MishapBounds, BegunBounds DEF Toggle, TypeInv, Mishaps
  <2>6. (\A d \in Call : CallOK(calls[d]))'
    BY <2>3, <2>4, CallsStayOK DEF Touches, rows
  <2>7. NoteInv' /\ RowTypes' /\ LinkTypes' /\ PageTypes' /\ GhostTypes'
    BY <2>4, <2>5, TypeParts DEF TypeInv, NoteInv, RowTypes, LinkTypes, PageTypes, GhostTypes,
                               rows, link, shown, switch, stray
  <2> QED BY <2>3, <2>6, <2>7, TypeParts DEF TypeInv
<1>2. CASE ServeToggle(c)
  <2>1. calls[c].kind = "toggle" /\ Served(c)
    BY <1>2 DEF ServeToggle, At
  <2>2. UNCHANGED <<outcome, notes, born, opened, serving, suspended, window, link, shown, switch,
                    bounds, strayed, mishap>>
    BY <1>2 DEF ServeToggle, noted
  <2>3. Touches(c, {"toggle"}) /\ CallsTyped' /\ CallOK(calls[c])'
    BY <2>1, ServedGives DEF Touches, CallOK, TypeInv
  <2>4. duty' \in {"AVAILABLE", "OFF_DUTY"}
    BY <1>2, <2>1 DEF ServeToggle, TypeInv, CallOK
  <2>5. overtaken' \subseteq Call
    BY <1>2 DEF ServeToggle, Overtake, TypeInv, TypeOK
  <2>6. (\A d \in Call : CallOK(calls[d]))'
    BY <2>2, <2>3, CallsStayOK DEF Touches
  <2>7. NoteInv' /\ RowTypes' /\ LinkTypes' /\ PageTypes' /\ GhostTypes'
    BY <2>2, <2>4, <2>5, TypeParts DEF TypeInv, NoteInv, RowTypes, LinkTypes, PageTypes, GhostTypes,
                               link, shown, switch, stray, bounds
  <2> QED BY <2>3, <2>6, <2>7, TypeParts DEF TypeInv
<1>3. CASE AnswerToggle(c)
  <2>1. Touches(c, {"toggle"}) /\ CallsTyped' /\ CallOK(calls[c])'
    BY <1>3, DoneGives DEF Touches, CallOK, AnswerToggle, At
  <2>2. UNCHANGED <<rows, link, shown, bounds, stray>> /\ mishap' \subseteq Mishaps
    BY <1>3 DEF AnswerToggle, Told, TypeInv, TypeOK
  <2>3. shownDuty' \in {"AVAILABLE", "OFF_DUTY"}
    BY <1>3 DEF AnswerToggle, At, TypeInv, CallOK
  <2>4. pinging' \in BOOLEAN
    BY <1>3, Zenon DEF AnswerToggle
  <2>5. (\A d \in Call : CallOK(calls[d]))'
    BY <2>1, <2>2, CallsStayOK DEF Touches, rows
  <2>6. NoteInv' /\ RowTypes' /\ LinkTypes' /\ PageTypes' /\ GhostTypes'
    BY <2>2, <2>3, <2>4, TypeParts DEF TypeInv, NoteInv, RowTypes, LinkTypes, PageTypes, GhostTypes,
                               rows, link, shown, bounds, stray
  <2> QED BY <2>1, <2>5, <2>6, TypeParts DEF TypeInv
<1>4. CASE CheckToggle(c)
  <2>1. UNCHANGED <<rows, link, shown, switch, bounds, stray, mishap>>
    BY <1>4 DEF CheckToggle
  <2>2. Touches(c, {"toggle"}) /\ CallsTyped' /\ CallOK(calls[c])'
    BY <1>4, CheckGives DEF Touches, CallOK, TypeInv
  <2>3. (\A d \in Call : CallOK(calls[d]))'
    BY <2>1, <2>2, CallsStayOK DEF Touches, rows
  <2>4. NoteInv' /\ RowTypes' /\ LinkTypes' /\ PageTypes' /\ GhostTypes'
    BY <2>1, TypeParts DEF TypeInv, NoteInv, RowTypes, LinkTypes, PageTypes, GhostTypes,
                         rows, link, shown, switch, stray, bounds
  <2> QED BY <2>2, <2>3, <2>4, TypeParts DEF TypeInv
<1> QED BY <1>1, <1>2, <1>3, <1>4

LEMMA PingTouch ==
  ASSUME TypeInv, NEW c \in Call,
         Ping(c) \/ ReadWorker(c) \/ Debounce(c) \/ WritePosition(c)
  PROVE  TypeInv' /\ Touches(c, {"ping"})
<1>1. UNCHANGED <<outcome, notes, born, opened, duty, serving, suspended, link, shown, switch,
                  bounds, mishap>>
  BY DEF Ping, ReadWorker, Debounce, WritePosition, rows, noted, job
<1>2. Touches(c, {"ping"}) /\ CallsTyped' /\ CallOK(calls[c])'
  <2>1. CASE Ping(c)
    <3>1. Send(c, "ping", Null) /\ "ping" \in Kind /\ Null \in Item
      BY <2>1 DEF Ping, Kind, Item
    <3> QED BY <3>1, SendGives DEF Touches, CallOK
  <2>2. CASE ReadWorker(c) \/ Debounce(c)
    <3>1. serving \in Offer \union {Null}
      BY DEF TypeInv, TypeOK
    <3> QED BY <2>2, <3>1, PingGives DEF Touches, CallOK, TypeInv
  <2>3. CASE WritePosition(c)
    BY <2>3, DoneGives DEF Touches, CallOK, WritePosition, At
  <2> QED BY <2>1, <2>2, <2>3
<1>3. window' \in BOOLEAN
  BY DEF Ping, ReadWorker, Debounce, WritePosition, rows, TypeInv, TypeOK
<1>4. strayed' \in BOOLEAN /\ overtaken' \subseteq Call
  <2>1. CASE WritePosition(c)
    <3>1. strayed' \in BOOLEAN
      BY <2>1, Zenon DEF WritePosition
    <3>2. overtaken' \subseteq Call
      BY <2>1 DEF WritePosition, TypeInv, TypeOK
    <3> QED BY <3>1, <3>2
  <2>2. CASE Ping(c) \/ ReadWorker(c)
    BY <2>2 DEF Ping, ReadWorker, stray, TypeInv, TypeOK
  <2>3. CASE Debounce(c)
    BY <2>3 DEF Debounce, TypeInv, TypeOK
  <2> QED BY <2>1, <2>2, <2>3
<1>5. (\A d \in Call : CallOK(calls[d]))'
  BY <1>1, <1>2, CallsStayOK DEF Touches
<1>6. NoteInv' /\ RowTypes' /\ LinkTypes' /\ PageTypes' /\ GhostTypes'
  BY <1>1, <1>3, <1>4, TypeParts DEF TypeInv, NoteInv, RowTypes, LinkTypes, PageTypes, GhostTypes,
                             link, shown, switch, stray, bounds
<1> QED BY <1>2, <1>5, <1>6, TypeParts DEF TypeInv

\* The server's own steps, and those of the connection, touch no request.
LinkStep ==
  \/ \E o \in Offer : MakeOffer(o) \/ CloseOffer(o) \/ Override(o)
  \/ \E x \in Offer \union Note : Emit(x)
  \/ EndJob \/ Suspend \/ Reactivate \/ ExpireWindow \/ Connect \/ JoinWorkerRoom \/ Disconnect
  \/ UNCHANGED vars

NoteStep == \E n \in Note : CreateNote(n) \/ HearNote(n)

LEMMA LinkRows ==
  ASSUME TypeInv, LinkStep
  PROVE  RowTypes' /\ UNCHANGED <<notes, born, opened, calls, feed, seen>>
<1> USE DEF TypeInv, TypeOK, RowTypes
<1>1. CASE \E o \in Offer : MakeOffer(o) \/ CloseOffer(o) \/ Override(o)
  BY <1>1 DEF MakeOffer, CloseOffer, Override, noted, job, shown
<1>2. CASE \E x \in Offer \union Note : Emit(x)
  BY <1>2 DEF Emit, rows, shown
<1>3. CASE EndJob \/ Suspend \/ Reactivate \/ ExpireWindow
  BY <1>3 DEF EndJob, Suspend, Reactivate, ExpireWindow, noted, job, shown
<1>4. CASE Connect \/ JoinWorkerRoom \/ Disconnect \/ UNCHANGED vars
  BY <1>4 DEF Connect, JoinWorkerRoom, Disconnect, vars, rows, shown
<1> QED BY <1>1, <1>2, <1>3, <1>4 DEF LinkStep

LEMMA LinkLinks ==
  ASSUME TypeInv, LinkStep
  PROVE  LinkTypes' /\ (unsaid' \union inbox') \intersect Note \subseteq notes
<1> USE NullAssumption DEF TypeInv, TypeOK, NoteInv, LinkTypes
<1>1. CASE \E o \in Offer : MakeOffer(o) \/ CloseOffer(o) \/ Override(o)
  BY <1>1 DEF MakeOffer, CloseOffer, Override, link
<1>2. CASE \E x \in Offer \union Note : Emit(x)
  BY <1>2 DEF Emit
<1>3. CASE EndJob \/ Suspend \/ Reactivate \/ ExpireWindow
  BY <1>3 DEF EndJob, Suspend, Reactivate, ExpireWindow, link
<1>4. CASE Connect \/ JoinWorkerRoom \/ Disconnect \/ UNCHANGED vars
  BY <1>4 DEF Connect, JoinWorkerRoom, Disconnect, Drop, vars, link
<1> QED BY <1>1, <1>2, <1>3, <1>4 DEF LinkStep

LEMMA LinkPage ==
  ASSUME TypeInv, LinkStep
  PROVE  UNCHANGED <<list, shownDuty, pinging, strayed>> /\ mishap \subseteq mishap' /\ GhostTypes'
<1> USE DEF TypeInv, TypeOK, GhostTypes
<1>1. CASE \E o \in Offer : MakeOffer(o) \/ CloseOffer(o) \/ Override(o)
  BY <1>1, BegunBounds DEF MakeOffer, CloseOffer, Override, Overtake, shown, switch, stray, bounds
<1>2. CASE \E x \in Offer \union Note : Emit(x)
  BY <1>2 DEF Emit, shown, switch, stray, bounds
<1>3. CASE EndJob \/ Reactivate \/ ExpireWindow
  BY <1>3, BegunBounds DEF EndJob, Reactivate, ExpireWindow, Overtake, shown, switch, stray, bounds
<1>4. CASE Suspend
  BY <1>4, BegunBounds, MishapBounds DEF Suspend, Overtake, Mishaps, shown, switch
<1>5. CASE Connect \/ JoinWorkerRoom \/ Disconnect \/ UNCHANGED vars
  BY <1>5, TroubleBounds DEF Connect, JoinWorkerRoom, Disconnect, vars, shown, switch, stray, bounds
<1> QED BY <1>1, <1>2, <1>3, <1>4, <1>5 DEF LinkStep

LEMMA LinkTouch ==
  ASSUME TypeInv, LinkStep
  PROVE  TypeInv' /\ UNCHANGED calls
<1>1. UNCHANGED <<notes, calls, feed, seen, list, shownDuty, pinging>>
  BY LinkRows, LinkPage
<1>2. CallsTyped' /\ PageTypes' /\ (\A d \in Call : CallOK(calls[d]))'
  BY <1>1, CallTypes, TypeParts DEF CallsTyped, PageTypes, TypeInv, CallOK
<1>3. NoteInv'
  BY <1>1, LinkLinks DEF TypeInv, NoteInv
<1> QED BY <1>1, <1>2, <1>3, LinkRows, LinkLinks, LinkPage, TypeParts DEF TypeInv

LEMMA NoteTouch ==
  ASSUME TypeInv, NoteStep
  PROVE  TypeInv' /\ UNCHANGED calls /\ mishap \subseteq mishap'
<1>1. ASSUME NEW n \in Note, CreateNote(n)
      PROVE  TypeInv' /\ UNCHANGED calls /\ mishap \subseteq mishap'
  <2>1. /\ notes' = notes \union {n} /\ unsaid' = unsaid \union {n}
        /\ born' = [born EXCEPT ![n] = Cardinality(notes)]
        /\ UNCHANGED <<outcome, opened, job, window, socket, inbox, missed, calls, shown,
                       switch, stray>>
    BY <1>1 DEF CreateNote
  <2>2. IsFiniteSet(notes') /\ Cardinality(notes) \in Nat
    BY <2>1, FS_AddElement, FS_CardinalityType DEF TypeInv, NoteInv
  <2>3. RowTypes'
    BY <2>1, <2>2 DEF TypeInv, TypeOK, RowTypes, job
  <2>4. LinkTypes' /\ PageTypes' /\ CallsTyped'
    BY <2>1, TypeParts DEF TypeInv, LinkTypes, PageTypes, CallsTyped, shown, switch
  <2>5. GhostTypes' /\ mishap \subseteq mishap'
    BY <1>1, <2>1, BegunBounds, MishapBounds
       DEF CreateNote, Mishaps, TypeInv, TypeOK, GhostTypes, stray
  <2>6. NoteInv' /\ (\A d \in Call : CallOK(calls[d]))'
    BY <2>1, <2>2 DEF TypeInv, NoteInv, CallOK, shown
  <2> QED BY <2>1, <2>3, <2>4, <2>5, <2>6, TypeParts DEF TypeInv
<1>2. ASSUME NEW n \in Note, HearNote(n)
      PROVE  TypeInv' /\ UNCHANGED calls /\ mishap \subseteq mishap'
  <2>1. /\ n \in inbox /\ inbox' = inbox \ {n} /\ feed' = feed \union {n}
        /\ UNCHANGED <<rows, unsaid, socket, missed, calls, list, seen, switch, bounds, stray>>
    BY <1>2 DEF HearNote
  <2>2. mishap' \subseteq Mishaps /\ mishap \subseteq mishap'
    BY <1>2, MishapBounds DEF HearNote, Mishaps, TypeInv
  <2>3. RowTypes' /\ LinkTypes' /\ PageTypes' /\ GhostTypes' /\ CallsTyped'
    BY <2>1, <2>2, TypeParts DEF TypeInv, RowTypes, LinkTypes, PageTypes, GhostTypes, CallsTyped,
                                 rows, switch, stray, bounds
  <2>4. NoteInv' /\ (\A d \in Call : CallOK(calls[d]))'
    BY <2>1 DEF TypeInv, NoteInv, CallOK, rows
  <2> QED BY <2>1, <2>2, <2>3, <2>4, TypeParts DEF TypeInv
<1> QED BY <1>1, <1>2 DEF NoteStep

LEMMA LostTouch ==
  ASSUME TypeInv, NEW c \in Call, CallLost(c)
  PROVE  /\ TypeInv' /\ Elsewhere(c) /\ calls[c].kind # "none"
         /\ mishap \ {"incoming"} \subseteq mishap'
         /\ calls[c].kind \in {"accept", "decline"} =>
              calls'[c].kind = "incoming" /\ calls'[c].at = "sent"
         /\ calls[c].kind \notin {"accept", "decline"} =>
              /\ calls'[c].kind = "none"
              /\ mishap \subseteq mishap' /\ Unsure(calls[c].kind) \subseteq mishap'
<1>1. /\ Elsewhere(c) /\ CallsTyped' /\ CallOK(calls[c])'
      /\ mishap' \subseteq Mishaps /\ mishap \ {"incoming"} \subseteq mishap'
      /\ calls[c].kind \in {"accept", "decline"} =>
           calls'[c].kind = "incoming" /\ calls'[c].at = "sent"
      /\ calls[c].kind \notin {"accept", "decline"} =>
           /\ calls'[c].kind = "none"
           /\ mishap \subseteq mishap' /\ Unsure(calls[c].kind) \subseteq mishap'
  <2>1. CASE calls[c].kind \in {"accept", "decline"}
    <3>1. Reread(c) /\ Overlapping("incoming")
      BY <2>1 DEF CallLost
    <3>2. mishap' \subseteq Mishaps /\ mishap \ {"incoming"} \subseteq mishap'
      BY <3>1, OverlapBounds DEF TypeInv, TypeOK
    <3> QED BY <2>1, <3>1, <3>2, RereadGives DEF CallOK
  <2>2. CASE calls[c].kind \notin {"accept", "decline"}
    <3>1. Done(c) /\ mishap' = mishap \union Unsure(calls[c].kind)
      BY <2>2 DEF CallLost
    <3>2. Unsure(calls[c].kind) \subseteq Mishaps
      BY DEF Unsure, Mishaps
    <3>3. calls'[c].kind = "none" /\ Elsewhere(c) /\ CallsTyped' /\ CallOK(calls[c])'
      BY <3>1, DoneGives DEF CallOK
    <3>4. mishap \subseteq Mishaps
      BY DEF TypeInv, TypeOK
    <3> QED BY <2>2, <3>1, <3>2, <3>3, <3>4
  <2> QED BY <2>1, <2>2
<1>2. UNCHANGED <<rows, link, feed, switch, strayed>> /\ overtaken' = overtaken \ {c}
  BY DEF CallLost
<1>3. list' \subseteq Offer /\ seen' \subseteq feed
  BY DEF CallLost, Mark, TypeInv, TypeOK
<1>4. left' \in 0..MaxSteps /\ trouble' \in 0..MaxTrouble
  BY TroubleBounds DEF CallLost, TypeInv
<1>5. calls[c].kind # "none"
  <2>1. calls[c] # Idle
    BY DEF CallLost
  <2> QED BY <2>1, CallTypes DEF CallRecord, Kind
<1>6. (\A d \in Call : CallOK(calls[d]))'
  BY <1>1, <1>2, CallsStayOK DEF rows
<1>7. NoteInv' /\ RowTypes' /\ LinkTypes' /\ PageTypes' /\ GhostTypes'
  BY <1>1, <1>2, <1>3, <1>4, TypeParts DEF TypeInv, NoteInv, RowTypes, LinkTypes, PageTypes,
                             GhostTypes, rows, link, switch
<1> QED BY <1>1, <1>5, <1>6, <1>7, TypeParts DEF TypeInv

LEMMA ReloadTouch ==
  ASSUME TypeInv, NEW c \in Call, NEW d \in Call, Reload(c, d)
  PROVE  /\ TypeInv' /\ UNCHANGED <<rows, unsaid, stray>> /\ mishap' = {"incoming"}
         /\ \A k \in Call : \/ calls'[k] = calls[k] /\ calls[k].kind = "ping"
                            \/ calls'[k].kind \in {"none", "incoming"}
<1> DEFINE new == Request("incoming", Null)
<1>1. new \in CallRecord /\ new.kind = "incoming" /\ new.at = "sent" /\ new.got = {}
  BY RequestIs DEF Kind, Item
<1>2. calls' = [k \in Call |-> IF k \in {c, d} THEN new
                 ELSE IF calls[k].kind = "ping" THEN calls[k] ELSE Idle]
  BY DEF Reload
<1> HIDE DEF new
<1>3. Idle.kind = "none"
  BY DEF Idle
<1>4. /\ CallsTyped'
      /\ \A k \in Call : \/ calls'[k] = calls[k] /\ calls[k].kind = "ping"
                         \/ calls'[k] = Idle \/ calls'[k] = new
  BY <1>1, <1>2, CallTypes DEF CallsTyped
<1>5. UNCHANGED <<rows, unsaid, stray>> /\ mishap' = {"incoming"}
  BY DEF Reload
<1>6. (\A k \in Call : CallOK(calls[k]))'
  BY <1>1, <1>3, <1>4, <1>5 DEF TypeInv, CallOK, rows
<1>7. left' \in 0..MaxSteps /\ trouble' \in 0..MaxTrouble
  BY BegunBounds DEF Reload, TypeInv
<1>8. /\ list' = {} /\ feed' = {} /\ seen' = {} /\ shownDuty' = duty
      /\ socket' = "off" /\ inbox' = {} /\ missed' = missed \union inbox \union notes
  BY DEF Reload, Drop
<1>9. pinging' \in BOOLEAN
  BY Zenon DEF Reload
<1>10. NoteInv' /\ RowTypes' /\ LinkTypes' /\ PageTypes' /\ GhostTypes'
  BY <1>5, <1>7, <1>8, <1>9, TypeParts DEF TypeInv, NoteInv, RowTypes, LinkTypes, PageTypes,
                             GhostTypes, Mishaps, rows, stray
<1>11. TypeInv'
  BY <1>4, <1>6, <1>10, TypeParts DEF TypeInv
<1>12. \A k \in Call : \/ calls'[k] = calls[k] /\ calls[k].kind = "ping"
                       \/ calls'[k].kind \in {"none", "incoming"}
  BY <1>1, <1>3, <1>4
<1> QED BY <1>5, <1>11, <1>12

LEMMA NextTypeInv == TypeInv /\ [Next]_vars => TypeInv'
<1> SUFFICES ASSUME TypeInv, Next \/ UNCHANGED vars
             PROVE  TypeInv'
  OBVIOUS
<1>1. ASSUME NEW c \in Call, CallStep(c)
      PROVE  TypeInv'
  BY <1>1, OffersTouch, FeedTouch, MarkTouch, RespondTouch, RereadTouch, ToggleTouch, PingTouch,
     LostTouch, ReloadTouch DEF CallStep
<1>2. ASSUME NEW c \in Call, NEW o \in Offer,
             HearOffer(c, o) \/ \E kind \in {"accept", "decline"} : BeginRespond(c, kind, o)
      PROVE  TypeInv'
  BY <1>2, OffersTouch, RespondTouch
<1>3. CASE LinkStep \/ NoteStep
  BY <1>3, LinkTouch, NoteTouch
<1> QED BY <1>1, <1>2, <1>3 DEF Next, LinkStep, NoteStep

\* The page and the rows keep their types: it shows no notification that has no
\* row, marks none that the feed does not hold, and answers only offers it was
\* given (app.js loadWorkerIncoming, loadNotifications, markNotificationRead).
THEOREM TypeCorrect == Spec => []TypeOK
<1>1. TypeInv => TypeOK
  BY DEF TypeInv
<1> QED BY InitTypeInv, NextTypeInv, <1>1, PTL DEF Spec


-------------------------------------------------------------------------------
\* No request of this kind begins, ends or is served.
Same(kind) ==
  \A c \in Call : \/ calls'[c] = calls[c]
                  \/ calls[c].kind # kind /\ calls'[c].kind # kind

LEMMA TouchesOthers ==
  ASSUME NEW c \in Call, NEW kinds, Touches(c, kinds), NEW kind, kind \notin kinds \union {"none"}
  PROVE  Same(kind)
BY DEF Touches, Elsewhere, Same

\* The steps of the model by the kinds of request they touch.
LEMMA StepKinds ==
  ASSUME [Next]_vars
  PROVE  \/ \E c \in Call :
              \/ ReadOffers(c) \/ ShowOffers(c) \/ \E o \in Offer : HearOffer(c, o)
              \/ OpenFeed(c) \/ ReadNotes(c) \/ ShowFeed(c)
              \/ BeginMark(c) \/ ServeMark(c) \/ AnswerMark(c)
              \/ ServeAccept(c) \/ ServeDecline(c)
              \/ \E kind \in {"accept", "decline"}, o \in Offer : BeginRespond(c, kind, o)
              \/ AnswerRespond(c)
              \/ Toggle(c) \/ CheckToggle(c) \/ ServeToggle(c) \/ AnswerToggle(c)
              \/ Ping(c) \/ ReadWorker(c) \/ Debounce(c) \/ WritePosition(c)
              \/ CallLost(c) \/ \E d \in Call : Reload(c, d)
         \/ LinkStep \/ NoteStep
<1>1. ASSUME Next PROVE (\E c \in Call : CallStep(c) \/ \E o \in Offer :
           HearOffer(c, o) \/ \E kind \in {"accept", "decline"} : BeginRespond(c, kind, o))
         \/ LinkStep \/ NoteStep
  BY <1>1 DEF Next, LinkStep, NoteStep
<1>2. UNCHANGED vars => LinkStep
  BY DEF LinkStep
<1> QED BY <1>1, <1>2 DEF CallStep

\* What the page was not told of in order it stays so, but for a read that is
\* sent alone, a switch that was answered and a page that is loaded again.
LEMMA MishapsStay ==
  ASSUME TypeInv, NEW c \in Call
  PROVE  /\ (\/ ReadOffers(c) \/ ShowOffers(c) \/ ReadNotes(c) \/ ShowFeed(c)
             \/ BeginMark(c) \/ ServeMark(c) \/ AnswerMark(c)
             \/ ServeAccept(c) \/ ServeDecline(c)
             \/ \E kind \in {"accept", "decline"}, o \in Offer : BeginRespond(c, kind, o)
             \/ Toggle(c) \/ CheckToggle(c) \/ ServeToggle(c)
             \/ Ping(c) \/ ReadWorker(c) \/ Debounce(c) \/ WritePosition(c)) =>
              mishap \subseteq mishap'
         /\ (AnswerRespond(c) \/ \E o \in Offer : HearOffer(c, o)) =>
              mishap \ {"incoming"} \subseteq mishap'
         /\ OpenFeed(c) => mishap \ {"feed"} \subseteq mishap'
         /\ AnswerToggle(c) => mishap \ {"untold"} \subseteq mishap'
<1>1. Toggle(c) => mishap \subseteq mishap'
  BY DEF Toggle, Mishap
<1>2. (\/ ReadOffers(c) \/ ShowOffers(c) \/ ReadNotes(c) \/ ShowFeed(c)
       \/ BeginMark(c) \/ ServeMark(c) \/ AnswerMark(c)) => mishap' = mishap
  BY DEF ReadOffers, ShowOffers, ReadNotes, ShowFeed, BeginMark, ServeMark, AnswerMark
<1>3. (\/ ServeAccept(c) \/ ServeDecline(c)
       \/ \E kind \in {"accept", "decline"}, o \in Offer : BeginRespond(c, kind, o)
       \/ CheckToggle(c) \/ ServeToggle(c)
       \/ Ping(c) \/ ReadWorker(c) \/ Debounce(c) \/ WritePosition(c)) => mishap' = mishap
  BY DEF ServeAccept, ServeDecline, BeginRespond, CheckToggle, ServeToggle,
         Ping, ReadWorker, Debounce, WritePosition
<1>4. (AnswerRespond(c) \/ \E o \in Offer : HearOffer(c, o)) =>
        mishap \ {"incoming"} \subseteq mishap'
  BY DEF AnswerRespond, HearOffer, Overlapping
<1>5. OpenFeed(c) => mishap \ {"feed"} \subseteq mishap'
  BY DEF OpenFeed, Overlapping
<1>6. AnswerToggle(c) => mishap \ {"untold"} \subseteq mishap'
  BY DEF AnswerToggle, Told
<1> QED BY <1>1, <1>2, <1>3, <1>4, <1>5, <1>6

-------------------------------------------------------------------------------
\* The offers.
LEMMA InitListInv == Init => ListInv
<1> SUFFICES ASSUME Init
             PROVE  ListInv
  OBVIOUS
<1>1. \A c \in Call : calls[c].kind = "none"
  BY DEF Init, Idle
<1>2. ToList = {}
  BY DEF Init, ToList, OpenOffers
<1> QED BY <1>1, <1>2 DEF ListInv, Alone, At

LEMMA ListKept ==
  ASSUME ListInv, Same("incoming"), "incoming" \in mishap => "incoming" \in mishap',
         ToList' \subseteq ToList, list' = list
  PROVE  ListInv'
<1> SUFFICES ASSUME "incoming" \notin mishap'
             PROVE  /\ Alone("incoming")'
                    /\ ~InFlight("incoming")' => ToList' \subseteq list'
                    /\ (\A c \in Call : At(c, "incoming", "served") =>
                          ToList \subseteq calls[c].got)'
  BY DEF ListInv
<1>1. "incoming" \notin mishap
  OBVIOUS
<1>2. \A c \in Call : calls'[c].kind = "incoming" <=> calls[c].kind = "incoming"
  BY DEF Same
<1>3. Alone("incoming")'
  BY <1>1, <1>2 DEF ListInv, Alone
<1>4. ~InFlight("incoming")' => ToList' \subseteq list'
  BY <1>1, <1>2 DEF ListInv, InFlight
<1>5. ASSUME NEW c \in Call, At(c, "incoming", "served")'
      PROVE  ToList' \subseteq calls'[c].got
  <2>1. calls'[c] = calls[c]
    BY <1>5 DEF Same, At
  <2> QED BY <1>1, <1>5, <2>1 DEF ListInv, At
<1> QED BY <1>3, <1>4, <1>5

\* A read of the offers is sent, where there is none or an overlap.
LEMMA ListSent ==
  ASSUME NEW c \in Call, Elsewhere(c), calls'[c].kind = "incoming", calls'[c].at = "sent",
         "incoming" \in mishap' \/ \A d \in Call \ {c} : calls'[d].kind # "incoming"
  PROVE  ListInv'
<1> SUFFICES ASSUME "incoming" \notin mishap'
             PROVE  /\ Alone("incoming")' /\ InFlight("incoming")'
                    /\ (\A d \in Call : ~At(d, "incoming", "served"))'
  BY DEF ListInv
<1> QED BY DEF Alone, InFlight, At

LEMMA NextListInv == TypeInv /\ ListInv /\ [Next]_vars => ListInv'
<1> SUFFICES ASSUME TypeInv, ListInv, [Next]_vars
             PROVE  ListInv'
  OBVIOUS
<1>1. ASSUME NEW c \in Call, NEW o \in Offer, HearOffer(c, o)
      PROVE  ListInv'
  <2>1. Send(c, "incoming", Null) /\ Overlapping("incoming") /\ "incoming" \in Kind /\ Null \in Item
    BY <1>1 DEF HearOffer, Kind, Item
  <2>2. "incoming" \in mishap' \/ ~InFlight("incoming")
    BY <2>1, OverlapBounds DEF TypeInv
  <2> QED BY <2>1, <2>2, SendGives, ListSent DEF InFlight, Elsewhere
<1>2. ASSUME NEW c \in Call, AnswerRespond(c)
      PROVE  ListInv'
  <2>1. /\ Reread(c) /\ Overlapping("incoming") /\ calls[c].kind \in {"accept", "decline"}
    BY <1>2 DEF AnswerRespond, At
  <2>2. "incoming" \in mishap' \/ ~InFlight("incoming")
    BY <2>1, OverlapBounds DEF TypeInv
  <2> QED BY <2>1, <2>2, RereadGives, ListSent DEF InFlight, Elsewhere
<1>3. ASSUME NEW c \in Call, NEW d \in Call, Reload(c, d)
      PROVE  ListInv'
  BY <1>3, ReloadTouch DEF ListInv
<1>4. ASSUME NEW c \in Call, CallLost(c)
      PROVE  ListInv'
  <2>1. Elsewhere(c)
    BY <1>4, LostTouch
  <2>2. CASE calls[c].kind \in {"accept", "decline"}
    <3>1. Overlapping("incoming")
      BY <1>4, <2>2 DEF CallLost
    <3>2. "incoming" \in mishap' \/ ~InFlight("incoming")
      BY <3>1, OverlapBounds DEF TypeInv
    <3> QED BY <1>4, <2>1, <2>2, <3>2, LostTouch, ListSent DEF InFlight, Elsewhere
  <2>3. CASE calls[c].kind = "incoming"
    BY <1>4, <2>3, LostTouch DEF ListInv, Unsure
  <2>4. CASE calls[c].kind \notin {"accept", "decline", "incoming"}
    <3>1. Same("incoming") /\ mishap \subseteq mishap'
      BY <1>4, <2>1, <2>4, LostTouch DEF Same, Elsewhere
    <3>2. ToList' = ToList /\ list' = list
      BY <1>4, <2>4 DEF CallLost, rows, link, ToList, OpenOffers, Unheard
    <3> QED BY <3>1, <3>2, ListKept
  <2> QED BY <2>2, <2>3, <2>4
<1>5. ASSUME NEW c \in Call, ReadOffers(c)
      PROVE  ListInv'
  <2>1. /\ calls[c].kind = "incoming" /\ calls'[c].kind = "incoming" /\ calls'[c].got = OpenOffers
        /\ Elsewhere(c)
    BY <1>5, ReadOffersGives DEF ReadOffers, At
  <2>2. UNCHANGED <<outcome, unsaid, inbox, missed, list, mishap>>
    BY <1>5 DEF ReadOffers, rows, link, shown
  <2>3. ToList' = ToList /\ ToList \subseteq OpenOffers
    BY <2>2 DEF ToList, OpenOffers, Unheard
  <2>4. \A d \in Call : calls'[d].kind = calls[d].kind
    BY <2>1 DEF Elsewhere
  <2> QED BY <2>1, <2>2, <2>3, <2>4 DEF ListInv, Alone, InFlight, At, Elsewhere
<1>6. ASSUME NEW c \in Call, ShowOffers(c)
      PROVE  ListInv'
  <2>1. calls[c].kind = "incoming" /\ At(c, "incoming", "served")
    BY <1>6 DEF ShowOffers, At
  <2>2. calls'[c].kind = "none" /\ Elsewhere(c)
    BY <1>6, DoneGives DEF ShowOffers
  <2>3. UNCHANGED <<outcome, unsaid, inbox, mishap>> /\ list' = calls[c].got
        /\ missed' = missed \ calls[c].got
    BY <1>6 DEF ShowOffers, rows
  <2>4. ToList' \subseteq ToList \union calls[c].got
    BY <2>3 DEF ToList, OpenOffers, Unheard
  <2>5. "incoming" \notin mishap =>
          ToList \subseteq calls[c].got /\ \A d \in Call \ {c} : calls'[d].kind # "incoming"
    BY <2>1, <2>2 DEF ListInv, Alone, Elsewhere
  <2> QED BY <2>2, <2>3, <2>4, <2>5 DEF ListInv, Alone, InFlight, At
<1>7. ASSUME NEW c \in Call,
             \/ OpenFeed(c) \/ ReadNotes(c) \/ ShowFeed(c)
             \/ BeginMark(c) \/ ServeMark(c) \/ AnswerMark(c)
             \/ ServeAccept(c) \/ ServeDecline(c)
             \/ \E kind \in {"accept", "decline"}, o \in Offer : BeginRespond(c, kind, o)
             \/ Toggle(c) \/ CheckToggle(c) \/ ServeToggle(c) \/ AnswerToggle(c)
             \/ Ping(c) \/ ReadWorker(c) \/ Debounce(c) \/ WritePosition(c)
      PROVE  ListInv'
  <2>1. PICK kinds \in {{"feed"}, {"read", "readAll"}, {"accept", "decline"}, {"toggle"},
                        {"ping"}} :
          Touches(c, kinds)
    BY <1>7, FeedTouch, MarkTouch, RespondTouch, ToggleTouch, PingTouch
  <2>2. Same("incoming")
    BY <2>1, TouchesOthers
  <2>3. ToList' \subseteq ToList /\ list' = list
    <3>1. CASE ShowFeed(c)
      <4>1. calls[c].got \subseteq Note
        BY <3>1 DEF ShowFeed, At, TypeInv, TypeOK, CallOK
      <4> QED BY <3>1, <4>1, NullAssumption DEF ShowFeed, rows, ToList, OpenOffers, Unheard
    <3>2. CASE ServeAccept(c) \/ ServeDecline(c)
      <4>1. OpenOffers' \subseteq OpenOffers
        BY <3>2 DEF ServeAccept, ServeDecline, OpenOffers, TypeInv, TypeOK
      <4> QED BY <3>2, <4>1 DEF ServeAccept, ServeDecline, link, shown, ToList, Unheard
    <3>3. CASE ~(ShowFeed(c) \/ ServeAccept(c) \/ ServeDecline(c))
      BY <1>7, <3>3 DEF OpenFeed, ReadNotes, BeginMark, ServeMark, AnswerMark, BeginRespond, Toggle,
         CheckToggle, ServeToggle, AnswerToggle, Ping, ReadWorker, Debounce, WritePosition, rows,
         link, shown,
         ToList, OpenOffers, Unheard
    <3> QED BY <3>1, <3>2, <3>3
  <2>4. mishap \ {"feed", "untold"} \subseteq mishap'
    BY <1>7, MishapsStay
  <2> QED BY <2>2, <2>3, <2>4, ListKept
<1>8. ASSUME LinkStep \/ NoteStep
      PROVE  ListInv'
  <2>1. Same("incoming") /\ list' = list /\ mishap \subseteq mishap'
    <3>1. UNCHANGED calls /\ mishap \subseteq mishap'
      BY <1>8, LinkTouch, LinkPage, NoteTouch
    <3>2. list' = list
      BY <1>8, LinkPage DEF NoteStep, CreateNote, HearNote, shown
    <3> QED BY <3>1, <3>2 DEF Same
  <2>2. ToList' \subseteq ToList
    <3> USE DEF ToList, OpenOffers, Unheard, TypeInv, TypeOK
    <3>1. CASE \E o \in Offer : MakeOffer(o) \/ CloseOffer(o) \/ Override(o)
      BY <3>1 DEF MakeOffer, CloseOffer, Override, link
    <3>2. CASE NoteStep
      BY <3>2, NullAssumption DEF NoteStep, CreateNote, HearNote, rows
    <3>3. CASE \E x \in Offer \union Note : Emit(x)
      BY <3>3 DEF Emit, rows
    <3>4. CASE EndJob \/ Suspend \/ Reactivate \/ ExpireWindow
      BY <3>4 DEF EndJob, Suspend, Reactivate, ExpireWindow, link
    <3>5. CASE Connect \/ JoinWorkerRoom \/ Disconnect \/ UNCHANGED vars
      BY <3>5 DEF Connect, JoinWorkerRoom, Disconnect, Drop, vars, rows, link
    <3> QED BY <1>8, <3>1, <3>2, <3>3, <3>4, <3>5 DEF LinkStep
  <2> QED BY <2>1, <2>2, ListKept
<1> QED BY <1>1, <1>2, <1>3, <1>4, <1>5, <1>6, <1>7, <1>8, StepKinds


-------------------------------------------------------------------------------
\* The notifications: what the feed holds.
LEMMA InitFeedInv == Init => FeedInv
<1> SUFFICES ASSUME Init
             PROVE  FeedInv
  OBVIOUS
<1>1. \A c \in Call : calls[c].kind = "none"
  BY DEF Init, Idle
<1>2. ToFeed = {}
  BY DEF Init, ToFeed, Newest
<1> QED BY <1>1, <1>2 DEF FeedInv, Alone, At

LEMMA FeedKept ==
  ASSUME FeedInv, Same("feed"), "feed" \in mishap => "feed" \in mishap',
         ToFeed' \subseteq ToFeed, feed \subseteq feed'
  PROVE  FeedInv'
<1> SUFFICES ASSUME "feed" \notin mishap'
             PROVE  /\ Alone("feed")'
                    /\ ~InFlight("feed")' => ToFeed' \subseteq feed'
                    /\ (\A c \in Call : At(c, "feed", "served") => ToFeed \subseteq calls[c].got)'
  BY DEF FeedInv
<1>1. "feed" \notin mishap
  OBVIOUS
<1>2. \A c \in Call : calls'[c].kind = "feed" <=> calls[c].kind = "feed"
  BY DEF Same
<1>3. Alone("feed")'
  BY <1>1, <1>2 DEF FeedInv, Alone
<1>4. ~InFlight("feed")' => ToFeed' \subseteq feed'
  BY <1>1, <1>2 DEF FeedInv, InFlight
<1>5. ASSUME NEW c \in Call, At(c, "feed", "served")'
      PROVE  ToFeed' \subseteq calls'[c].got
  <2>1. calls'[c] = calls[c]
    BY <1>5 DEF Same, At
  <2> QED BY <1>1, <1>5, <2>1 DEF FeedInv, At
<1> QED BY <1>3, <1>4, <1>5

LEMMA NextFeedInv == TypeInv /\ FeedInv /\ [Next]_vars => FeedInv'
<1> SUFFICES ASSUME TypeInv, FeedInv, [Next]_vars
             PROVE  FeedInv'
  OBVIOUS
<1>1. ASSUME NEW c \in Call, OpenFeed(c)
      PROVE  FeedInv'
  <2>1. Send(c, "feed", Null) /\ Overlapping("feed") /\ "feed" \in Kind /\ Null \in Item
    BY <1>1 DEF OpenFeed, Kind, Item
  <2>2. "feed" \in mishap' \/ ~InFlight("feed")
    BY <2>1, OverlapBounds DEF TypeInv
  <2>3. calls'[c].kind = "feed" /\ calls'[c].at = "sent" /\ Elsewhere(c)
    BY <2>1, SendGives
  <2>4. "feed" \notin mishap' => \A d \in Call \ {c} : calls'[d].kind # "feed"
    BY <2>2, <2>3 DEF InFlight, Elsewhere
  <2> QED BY <2>3, <2>4 DEF FeedInv, Alone, InFlight, At
<1>2. ASSUME NEW c \in Call, ReadNotes(c)
      PROVE  FeedInv'
  <2>1. /\ calls[c].kind = "feed" /\ calls'[c].kind = "feed" /\ calls'[c].got = Newest
        /\ Elsewhere(c)
    BY <1>2, ReadNotesGives DEF ReadNotes, At
  <2>2. UNCHANGED <<notes, born, unsaid, inbox, missed, feed, mishap>>
    BY <1>2 DEF ReadNotes, rows, link, shown
  <2>3. ToFeed' = ToFeed /\ ToFeed \subseteq Newest
    BY <2>2, NewestStays DEF ToFeed, Unheard
  <2>4. \A d \in Call : calls'[d].kind = calls[d].kind
    BY <2>1 DEF Elsewhere
  <2> QED BY <2>1, <2>2, <2>3, <2>4 DEF FeedInv, Alone, InFlight, At, Elsewhere
<1>3. ASSUME NEW c \in Call, ShowFeed(c)
      PROVE  FeedInv'
  <2>1. calls[c].kind = "feed" /\ At(c, "feed", "served")
    BY <1>3 DEF ShowFeed, At
  <2>2. calls'[c].kind = "none" /\ Elsewhere(c)
    BY <1>3, DoneGives DEF ShowFeed
  <2>3. UNCHANGED <<notes, born, unsaid, inbox, mishap>> /\ feed' = calls[c].got
        /\ missed' = missed \ calls[c].got
    BY <1>3 DEF ShowFeed, rows
  <2>4. ToFeed' \subseteq ToFeed \union calls[c].got
    BY <2>3, NewestStays DEF ToFeed, Unheard
  <2>5. "feed" \notin mishap =>
          ToFeed \subseteq calls[c].got /\ \A d \in Call \ {c} : calls'[d].kind # "feed"
    BY <2>1, <2>2 DEF FeedInv, Alone, Elsewhere
  <2> QED BY <2>2, <2>3, <2>4, <2>5 DEF FeedInv, Alone, InFlight, At
<1>4. ASSUME NEW n \in Note, HearNote(n)
      PROVE  FeedInv'
  <2>1. calls' = calls /\ feed' = feed \union {n} /\ UNCHANGED <<notes, born, unsaid, missed>>
        /\ inbox' = inbox \ {n}
    BY <1>4 DEF HearNote, rows
  <2>2. Mishap("feed", InFlight("feed")) /\ "feed" \in Mishaps
    BY <1>4 DEF HearNote, Mishaps
  <2>3. "feed" \notin mishap' => "feed" \notin mishap /\ ~InFlight("feed")
    BY <2>2, MishapBounds DEF TypeInv
  <2>4. ToFeed' \subseteq ToFeed \union {n}
    BY <2>1, NewestStays DEF ToFeed, Unheard
  <2> QED BY <2>1, <2>3, <2>4 DEF FeedInv, Alone, InFlight, At
<1>5. ASSUME NEW c \in Call, CallLost(c)
      PROVE  FeedInv'
  <2>1. Elsewhere(c) /\ calls'[c].kind # "feed" /\ mishap \ {"incoming"} \subseteq mishap'
    BY <1>5, LostTouch
  <2>2. ToFeed' = ToFeed /\ feed' = feed
    BY <1>5, NewestStays DEF CallLost, rows, link, ToFeed, Unheard
  <2>3. CASE calls[c].kind = "feed"
    BY <1>5, <2>3, LostTouch DEF FeedInv, Unsure
  <2>4. CASE calls[c].kind # "feed"
    <3>1. Same("feed")
      BY <2>1, <2>4 DEF Same, Elsewhere
    <3> QED BY <2>1, <2>2, <3>1, FeedKept
  <2> QED BY <2>3, <2>4
<1>6. ASSUME NEW c \in Call, NEW d \in Call, Reload(c, d)
      PROVE  FeedInv'
  <2>1. \A k \in Call : calls'[k].kind # "feed"
    BY <1>6, ReloadTouch
  <2>2. ToFeed' = {}
    BY <1>6 DEF Reload, Drop, rows, ToFeed, Newest, Unheard
  <2> QED BY <2>1, <2>2 DEF FeedInv, Alone, At
<1>7. ASSUME NEW c \in Call,
             \/ ReadOffers(c) \/ ShowOffers(c) \/ \E o \in Offer : HearOffer(c, o)
             \/ BeginMark(c) \/ ServeMark(c) \/ AnswerMark(c)
             \/ ServeAccept(c) \/ ServeDecline(c) \/ AnswerRespond(c)
             \/ \E kind \in {"accept", "decline"}, o \in Offer : BeginRespond(c, kind, o)
             \/ Toggle(c) \/ CheckToggle(c) \/ ServeToggle(c) \/ AnswerToggle(c)
             \/ Ping(c) \/ ReadWorker(c) \/ Debounce(c) \/ WritePosition(c)
      PROVE  FeedInv'
  <2>1. PICK kinds \in {{"incoming"}, {"read", "readAll"}, {"accept", "decline"},
                        {"accept", "decline", "incoming"}, {"toggle"}, {"ping"}} :
          Touches(c, kinds)
    BY <1>7, OffersTouch, MarkTouch, RespondTouch, RereadTouch, ToggleTouch, PingTouch
  <2>2. Same("feed")
    BY <2>1, TouchesOthers
  <2>3. ToFeed' \subseteq ToFeed /\ feed' = feed
    <3>0. Newest \subseteq Note
      BY DEF Newest, TypeInv, TypeOK
    <3> USE NewestStays DEF ToFeed, Unheard
    <3>1. CASE ShowOffers(c)
      <4>1. calls[c].got \subseteq Offer
        BY <3>1 DEF ShowOffers, At, TypeInv, CallOK
      <4> QED BY <3>0, <3>1, <4>1, NullAssumption DEF ShowOffers, rows
    <3>2. CASE \E o \in Offer : HearOffer(c, o)
      BY <3>0, <3>2, NullAssumption DEF HearOffer, rows, shown
    <3>3. CASE ~(ShowOffers(c) \/ \E o \in Offer : HearOffer(c, o))
      <4>1. UNCHANGED <<notes, born, unsaid, inbox, missed, feed>>
        BY <1>7, <3>3 DEF ReadOffers, BeginMark, ServeMark, AnswerMark, ServeAccept, ServeDecline,
           AnswerRespond, BeginRespond, Toggle, CheckToggle, ServeToggle, AnswerToggle, Ping,
           ReadWorker, Debounce, WritePosition, rows, noted, link, shown
      <4> QED BY <4>1
    <3> QED BY <3>1, <3>2, <3>3
  <2>4. mishap \ {"incoming", "untold"} \subseteq mishap'
    BY <1>7, MishapsStay
  <2> QED BY <2>2, <2>3, <2>4, FeedKept
<1>8. ASSUME NEW n \in Note, CreateNote(n)
      PROVE  FeedInv'
  <2>1. Same("feed") /\ mishap \subseteq mishap'
    BY <1>8, NoteTouch DEF NoteStep, Same
  <2>2. /\ UNCHANGED <<inbox, missed, feed>>
        /\ unsaid' = unsaid \union {n}
    BY <1>8 DEF CreateNote, shown
  <2>3. ToFeed' \subseteq ToFeed
    BY <1>8, <2>2, NewestGrows DEF ToFeed, Unheard
  <2> QED BY <2>1, <2>2, <2>3, FeedKept
<1>9. ASSUME LinkStep
      PROVE  FeedInv'
  <2>1. Same("feed") /\ mishap \subseteq mishap'
    BY <1>9, LinkTouch, LinkPage DEF Same
  <2>2. UNCHANGED <<notes, born, feed>>
    BY <1>9, LinkRows
  <2>3. Unheard \subseteq Unheard'
    <3> USE DEF Unheard
    <3>1. CASE \E o \in Offer : MakeOffer(o) \/ CloseOffer(o) \/ Override(o)
      BY <3>1 DEF MakeOffer, CloseOffer, Override, link
    <3>2. CASE \E x \in Offer \union Note : Emit(x)
      BY <3>2 DEF Emit
    <3>3. CASE EndJob \/ Suspend \/ Reactivate \/ ExpireWindow
      BY <3>3 DEF EndJob, Suspend, Reactivate, ExpireWindow, link
    <3>4. CASE Connect \/ JoinWorkerRoom \/ Disconnect \/ UNCHANGED vars
      BY <3>4 DEF Connect, JoinWorkerRoom, Disconnect, Drop, vars, link
    <3> QED BY <1>9, <3>1, <3>2, <3>3, <3>4 DEF LinkStep
  <2> QED BY <2>1, <2>2, <2>3, NewestStays, FeedKept DEF ToFeed
<1> QED BY <1>1, <1>2, <1>3, <1>4, <1>5, <1>6, <1>7, <1>8, <1>9, StepKinds DEF NoteStep

-------------------------------------------------------------------------------
\* The notifications: what the page shows as read.
LEMMA InitSeenInv == Init => SeenInv
<1> SUFFICES ASSUME Init
             PROVE  SeenInv
  OBVIOUS
<1>1. \A c \in Call : calls[c].kind = "none"
  BY DEF Init, Idle
<1> QED BY <1>1 DEF Init, SeenInv, At

\* Notes are not created, and what is read stays read.
LEMMA SeenKept ==
  ASSUME SeenInv, Same("feed"), Same("read"), Same("readAll"),
         "mark" \in mishap => "mark" \in mishap',
         notes' = notes, opened \subseteq opened', seen' \subseteq seen
  PROVE  SeenInv'
<1> SUFFICES ASSUME "mark" \notin mishap', NEW c \in Call
             PROVE  /\ seen' \subseteq opened'
                    /\ At(c, "feed", "served")' => calls'[c].read \subseteq opened'
                    /\ At(c, "read", "served")' => calls'[c].item \in opened'
                    /\ At(c, "readAll", "served")' => notes' \subseteq opened'
  BY DEF SeenInv
<1>1. "mark" \notin mishap
  OBVIOUS
<1>2. ASSUME calls'[c] = calls[c]
      PROVE  /\ At(c, "feed", "served")' => calls'[c].read \subseteq opened'
             /\ At(c, "read", "served")' => calls'[c].item \in opened'
             /\ At(c, "readAll", "served")' => notes' \subseteq opened'
  BY <1>1, <1>2 DEF SeenInv, At
<1>3. calls'[c] # calls[c] => calls'[c].kind \notin {"feed", "read", "readAll"}
  BY DEF Same
<1> QED BY <1>1, <1>2, <1>3 DEF SeenInv, At


\* One slot and what is seen change, and are right.
LEMMA SeenSlot ==
  ASSUME SeenInv, NEW c \in Call, Elsewhere(c), "mark" \in mishap => "mark" \in mishap',
         notes' = notes, opened \subseteq opened',
         "mark" \notin mishap' =>
           /\ seen' \subseteq opened'
           /\ At(c, "feed", "served")' => calls'[c].read \subseteq opened'
           /\ At(c, "read", "served")' => calls'[c].item \in opened'
           /\ At(c, "readAll", "served")' => notes' \subseteq opened'
  PROVE  SeenInv'
<1> SUFFICES ASSUME "mark" \notin mishap', NEW d \in Call, d # c
             PROVE  /\ At(d, "feed", "served")' => calls'[d].read \subseteq opened'
                    /\ At(d, "read", "served")' => calls'[d].item \in opened'
                    /\ At(d, "readAll", "served")' => notes' \subseteq opened'
  BY DEF SeenInv
<1>1. "mark" \notin mishap
  OBVIOUS
<1>2. calls'[d] = calls[d]
  BY DEF Elsewhere
<1> QED BY <1>1, <1>2 DEF SeenInv, At

LEMMA NextSeenInv == TypeInv /\ SeenInv /\ [Next]_vars => SeenInv'
<1> SUFFICES ASSUME TypeInv, SeenInv, [Next]_vars
             PROVE  SeenInv'
  OBVIOUS
<1>0. "mark" \notin mishap => seen \subseteq opened
  BY DEF SeenInv
<1>1. ASSUME NEW c \in Call, OpenFeed(c) \/ BeginMark(c)
      PROVE  SeenInv'
  <2>1. PICK kind \in {"feed", "read", "readAll"}, item \in Item : Send(c, kind, item)
    BY <1>1 DEF OpenFeed, BeginMark, Item, TypeInv, TypeOK
  <2>2. calls'[c].at = "sent" /\ Elsewhere(c)
    BY <2>1, SendGives DEF Kind
  <2>3. UNCHANGED <<notes, opened, seen>>
    BY <1>1 DEF OpenFeed, BeginMark, rows, shown
  <2>4. mishap \ {"feed"} \subseteq mishap'
    BY <1>1, MishapsStay
  <2> QED BY <1>0, <2>2, <2>3, <2>4, SeenSlot DEF At
<1>2. ASSUME NEW c \in Call, ReadNotes(c)
      PROVE  SeenInv'
  <2>1. calls'[c].kind = "feed" /\ calls'[c].read \subseteq opened /\ Elsewhere(c)
    BY <1>2, ReadNotesGives
  <2>2. UNCHANGED <<notes, opened, seen>>
    BY <1>2 DEF ReadNotes, rows, shown
  <2> QED BY <1>0, <1>2, <2>1, <2>2, MishapsStay, SeenSlot DEF At
<1>3. ASSUME NEW c \in Call, ShowFeed(c)
      PROVE  SeenInv'
  <2>1. calls'[c].kind = "none" /\ Elsewhere(c)
    BY <1>3, DoneGives DEF ShowFeed
  <2>2. UNCHANGED <<notes, opened, mishap>> /\ seen' = calls[c].read
    BY <1>3 DEF ShowFeed, rows
  <2>3. "mark" \notin mishap' => calls[c].read \subseteq opened
    BY <1>3, <2>2 DEF ShowFeed, SeenInv
  <2> QED BY <2>1, <2>2, <2>3, SeenSlot DEF At
<1>4. ASSUME NEW c \in Call, ServeMark(c)
      PROVE  SeenInv'
  <2>1. calls[c].kind \in {"read", "readAll"} /\ Served(c)
    BY <1>4 DEF ServeMark, Marking, At
  <2>2. calls'[c].kind = calls[c].kind /\ calls'[c].item = calls[c].item /\ Elsewhere(c)
    BY <2>1, ServedGives
  <2>3. UNCHANGED <<notes, seen>>
        /\ opened' = opened \union (IF calls[c].kind = "read" THEN {calls[c].item} ELSE notes)
    BY <1>4 DEF ServeMark, shown
  <2>4. /\ At(c, "feed", "served")' => calls'[c].read \subseteq opened'
        /\ At(c, "read", "served")' => calls'[c].item \in opened'
        /\ At(c, "readAll", "served")' => notes' \subseteq opened'
    BY <2>1, <2>2, <2>3 DEF At
  <2> QED BY <1>0, <1>4, <2>2, <2>3, <2>4, MishapsStay, SeenSlot
<1>5. ASSUME NEW c \in Call, AnswerMark(c)
      PROVE  SeenInv'
  <2>1. calls'[c].kind = "none" /\ Elsewhere(c)
    BY <1>5, DoneGives DEF AnswerMark
  <2>2. UNCHANGED <<notes, opened, mishap>>
    BY <1>5 DEF AnswerMark, rows
  <2>3. "mark" \notin mishap' => seen' \subseteq opened'
    <3>1. feed \subseteq notes
      BY DEF TypeInv, NoteInv
    <3>2. At(c, "read", "served") \/ At(c, "readAll", "served")
      BY <1>5 DEF AnswerMark, Marking
    <3>3. CASE At(c, "read", "served")
      BY <1>0, <1>5, <2>2, <3>3 DEF AnswerMark, Mark, SeenInv, At
    <3>4. CASE At(c, "readAll", "served")
      BY <1>0, <1>5, <2>2, <3>1, <3>4 DEF AnswerMark, Mark, SeenInv, At
    <3> QED BY <3>2, <3>3, <3>4
  <2> QED BY <2>1, <2>2, <2>3, SeenSlot DEF At
<1>6. ASSUME NEW c \in Call, CallLost(c)
      PROVE  SeenInv'
  <2>1. Elsewhere(c) /\ mishap \ {"incoming"} \subseteq mishap'
    BY <1>6, LostTouch
  <2>2. CASE calls[c].kind \in {"read", "readAll"}
    BY <1>6, <2>2, LostTouch DEF SeenInv, Unsure
  <2>3. CASE calls[c].kind \notin {"read", "readAll"}
    <3>1. UNCHANGED <<notes, opened, seen>>
      BY <1>6, <2>3 DEF CallLost, rows
    <3>2. calls'[c].kind \in {"none", "incoming"}
      BY <1>6, LostTouch
    <3> QED BY <1>0, <2>1, <3>1, <3>2, SeenSlot DEF At
  <2> QED BY <2>2, <2>3
<1>7. ASSUME NEW c \in Call, NEW d \in Call, Reload(c, d)
      PROVE  SeenInv'
  <2>1. \A k \in Call : calls'[k].kind \in {"none", "incoming", "ping"}
    BY <1>7, ReloadTouch
  <2>2. seen' = {}
    BY <1>7 DEF Reload
  <2> QED BY <2>1, <2>2 DEF SeenInv, At
<1>8. ASSUME NEW n \in Note, CreateNote(n)
      PROVE  SeenInv'
  <2>1. UNCHANGED <<calls, opened, seen>>
    BY <1>8 DEF CreateNote, shown
  <2>2. Mishap("mark", \E c \in Call : At(c, "readAll", "served")) /\ "mark" \in Mishaps
    BY <1>8 DEF CreateNote, Mishaps
  <2>3. "mark" \notin mishap' => "mark" \notin mishap /\ \A c \in Call : ~At(c, "readAll", "served")
    BY <2>2, MishapBounds DEF TypeInv
  <2> QED BY <2>1, <2>3 DEF SeenInv, At
<1>9. ASSUME NEW c \in Call,
             \/ ReadOffers(c) \/ ShowOffers(c) \/ \E o \in Offer : HearOffer(c, o)
             \/ ServeAccept(c) \/ ServeDecline(c) \/ AnswerRespond(c)
             \/ \E kind \in {"accept", "decline"}, o \in Offer : BeginRespond(c, kind, o)
             \/ Toggle(c) \/ CheckToggle(c) \/ ServeToggle(c) \/ AnswerToggle(c)
             \/ Ping(c) \/ ReadWorker(c) \/ Debounce(c) \/ WritePosition(c)
      PROVE  SeenInv'
  <2>1. PICK kinds \in {{"incoming"}, {"accept", "decline"},
                        {"accept", "decline", "incoming"}, {"toggle"}, {"ping"}} :
          Touches(c, kinds)
    BY <1>9, OffersTouch, RespondTouch, RereadTouch, ToggleTouch, PingTouch
  <2>2. Same("feed") /\ Same("read") /\ Same("readAll")
    BY <2>1, TouchesOthers
  <2>3. UNCHANGED <<notes, opened, seen>>
    BY <1>9 DEF ReadOffers, ShowOffers, HearOffer, ServeAccept, ServeDecline, AnswerRespond,
       BeginRespond, Toggle, CheckToggle, ServeToggle, AnswerToggle, Ping, ReadWorker, Debounce,
       WritePosition, rows, noted, shown
  <2>4. mishap \ {"incoming", "untold"} \subseteq mishap'
    BY <1>9, MishapsStay
  <2> QED BY <2>2, <2>3, <2>4, SeenKept
<1>10. ASSUME NEW n \in Note, HearNote(n)
       PROVE  SeenInv'
  <2>1. Same("feed") /\ Same("read") /\ Same("readAll") /\ mishap \subseteq mishap'
    BY <1>10, NoteTouch DEF NoteStep, Same
  <2>2. UNCHANGED <<notes, opened, seen>>
    BY <1>10 DEF HearNote, rows
  <2> QED BY <2>1, <2>2, SeenKept
<1>11. ASSUME LinkStep
       PROVE  SeenInv'
  <2>1. Same("feed") /\ Same("read") /\ Same("readAll") /\ mishap \subseteq mishap'
    BY <1>11, LinkTouch, LinkPage DEF Same
  <2>2. UNCHANGED <<notes, opened, seen>>
    BY <1>11, LinkRows
  <2> QED BY <2>1, <2>2, SeenKept
<1> QED BY <1>1, <1>2, <1>3, <1>4, <1>5, <1>6, <1>7, <1>8, <1>9, <1>10, <1>11, StepKinds
        DEF NoteStep

-------------------------------------------------------------------------------
\* The switch.
LEMMA InitDutyInv == Init => DutyInv
<1> SUFFICES ASSUME Init
             PROVE  DutyInv
  OBVIOUS
<1>1. \A c \in Call : calls[c].kind = "none"
  BY DEF Init, Idle
<1>2. pinging => shownDuty = "AVAILABLE"
  BY Zenon DEF Init
<1>3. shownDuty = duty
  BY DEF Init
<1> QED BY <1>1, <1>2, <1>3 DEF DutyInv, At

\* No worker goes off duty but by a request of the page, or unknown to it.
LEMMA DutyKept ==
  ASSUME DutyInv, Same("toggle"), mishap \ {"incoming", "feed", "mark"} \subseteq mishap',
         UNCHANGED <<shownDuty, pinging>>,
         duty' = "OFF_DUTY" => duty = "OFF_DUTY"
  PROVE  DutyInv'
<1>1. /\ "toggle" \in mishap => "toggle" \in mishap'
      /\ "untold" \in mishap => "untold" \in mishap'
  OBVIOUS
<1>2. \A c \in Call : calls[c].kind = "toggle" \/ calls'[c].kind = "toggle" => calls'[c] = calls[c]
  BY DEF Same
<1>3. \A c \in Call : /\ At(c, "toggle", "served")' <=> At(c, "toggle", "served")
                      /\ At(c, "toggle", "served") => calls'[c] = calls[c]
  BY <1>2 DEF At
<1> QED BY <1>1, <1>2, <1>3 DEF DutyInv

LEMMA NextDutyInv == TypeInv /\ DutyInv /\ [Next]_vars => DutyInv'
<1> SUFFICES ASSUME TypeInv, DutyInv, [Next]_vars
             PROVE  DutyInv'
  OBVIOUS
<1>1. ASSUME NEW c \in Call, Toggle(c)
      PROVE  DutyInv'
  <2>1. PICK next \in {"AVAILABLE", "OFF_DUTY"} :
          Send(c, "toggle", next)
          /\ Mishap("toggle", \E d \in Call : calls[d].kind = "toggle" /\ calls[d].item # next)
    BY <1>1 DEF Toggle
  <2>2. "toggle" \in Kind /\ "toggle" \in Mishaps /\ next \in Item
    BY DEF Kind, Mishaps, Item
  <2>3. /\ calls[c].kind = "none" /\ calls'[c].item = next /\ calls'[c].at = "sent"
        /\ Elsewhere(c)
    BY <2>1, <2>2, SendGives
  <2>4. "toggle" \in mishap' \/ \A d \in Call : calls[d].kind = "toggle" => calls[d].item = next
    BY <2>1, <2>2, MishapBounds DEF TypeInv
  <2>5. UNCHANGED <<duty, shownDuty, pinging>>
    BY <1>1 DEF Toggle, rows, switch
  <2>6. mishap \subseteq mishap'
    BY <1>1, MishapsStay
  <2>7. \A d \in Call : /\ At(d, "toggle", "served")' <=> At(d, "toggle", "served")
                        /\ At(d, "toggle", "served") => calls'[d] = calls[d]
    BY <2>3 DEF At, Elsewhere
  <2> QED BY <2>3, <2>4, <2>5, <2>6, <2>7 DEF DutyInv, Elsewhere
<1>2. ASSUME NEW c \in Call, CheckToggle(c)
      PROVE  DutyInv'
  <2>1. /\ calls[c].kind = "toggle" /\ calls[c].at = "sent" /\ Elsewhere(c)
        /\ calls'[c].kind = "toggle" => calls'[c].at = "read" /\ calls'[c].item = calls[c].item
    BY <1>2, CheckGives
  <2>2. UNCHANGED <<duty, shownDuty, pinging, mishap>>
    BY <1>2 DEF CheckToggle, rows, switch
  <2>3. \A d \in Call : /\ At(d, "toggle", "served")' <=> At(d, "toggle", "served")
                        /\ At(d, "toggle", "served") => calls'[d] = calls[d]
    BY <2>1 DEF At, Elsewhere
  <2>4. \A d \in Call : calls'[d].kind = "toggle" =>
                          calls[d].kind = "toggle" /\ calls'[d].item = calls[d].item
    BY <2>1 DEF Elsewhere
  <2> QED BY <2>2, <2>3, <2>4 DEF DutyInv
<1>3. ASSUME NEW c \in Call, ServeToggle(c)
      PROVE  DutyInv'
  <2>1. calls[c].kind = "toggle" /\ Served(c) /\ calls[c].item \in {"AVAILABLE", "OFF_DUTY"}
    BY <1>3 DEF ServeToggle, At, TypeInv, CallOK
  <2>2. /\ calls'[c].kind = "toggle" /\ calls'[c].at = "served" /\ calls'[c].item = calls[c].item
        /\ Elsewhere(c)
    BY <2>1, ServedGives
  <2>3. UNCHANGED <<shownDuty, pinging, mishap>> /\ duty' = calls[c].item
    BY <1>3 DEF ServeToggle, switch
  <2>4. \A d \in Call : calls'[d].kind = calls[d].kind /\ calls'[d].item = calls[d].item
    BY <2>1, <2>2 DEF Elsewhere
  <2> QED BY <2>1, <2>2, <2>3, <2>4 DEF DutyInv, At
<1>4. ASSUME NEW c \in Call, AnswerToggle(c)
      PROVE  DutyInv'
  <2>1. At(c, "toggle", "served") /\ calls[c].item \in {"AVAILABLE", "OFF_DUTY"}
    BY <1>4 DEF AnswerToggle, At, TypeInv, CallOK
  <2>2. calls'[c].kind = "none" /\ Elsewhere(c)
    BY <1>4, DoneGives DEF AnswerToggle
  <2>3. duty' = duty /\ shownDuty' = calls[c].item
    BY <1>4 DEF AnswerToggle, rows
  <2>4. pinging' => shownDuty' = "AVAILABLE"
    BY <1>4, Zenon DEF AnswerToggle
  <2>5. /\ "toggle" \in mishap => "toggle" \in mishap'
        /\ calls[c].item = "AVAILABLE" => mishap' = mishap
    BY <1>4, <2>3 DEF AnswerToggle, Told
  <2>6. \A d \in Call : calls'[d].kind = "toggle" => d # c /\ calls'[d] = calls[d]
    BY <2>2 DEF Elsewhere
  <2>7. CASE calls[c].item = "AVAILABLE"
    BY <2>1, <2>2, <2>3, <2>4, <2>5, <2>6, <2>7 DEF DutyInv, At
  <2>8. CASE calls[c].item = "OFF_DUTY"
    BY <2>1, <2>2, <2>3, <2>4, <2>5, <2>6, <2>8 DEF DutyInv, At
  <2> QED BY <2>1, <2>7, <2>8
<1>5. ASSUME NEW c \in Call, CallLost(c)
      PROVE  DutyInv'
  <2>1. UNCHANGED <<duty, shownDuty, pinging>>
    BY <1>5 DEF CallLost, rows, switch
  <2>2. Elsewhere(c) /\ calls'[c].kind # "toggle" /\ mishap \ {"incoming"} \subseteq mishap'
    BY <1>5, LostTouch
  <2>3. CASE calls[c].kind = "toggle"
    <3>1. "toggle" \in mishap'
      BY <1>5, <2>3, LostTouch DEF Unsure
    <3> QED BY <2>1, <3>1 DEF DutyInv
  <2>4. CASE calls[c].kind # "toggle"
    <3>1. Same("toggle")
      BY <2>2, <2>4 DEF Same, Elsewhere
    <3> QED BY <2>1, <2>2, <3>1, DutyKept
  <2> QED BY <2>3, <2>4
<1>6. ASSUME NEW c \in Call, NEW d \in Call, Reload(c, d)
      PROVE  DutyInv'
  <2>1. \A k \in Call : calls'[k].kind \in {"none", "incoming", "ping"}
    BY <1>6, ReloadTouch
  <2>2. duty' = duty /\ shownDuty' = duty
    BY <1>6 DEF Reload, rows
  <2>3. pinging' => shownDuty' = "AVAILABLE"
    BY <1>6, Zenon DEF Reload
  <2> QED BY <2>1, <2>2, <2>3 DEF DutyInv, At
<1>7. ASSUME NEW c \in Call,
             \/ ReadOffers(c) \/ ShowOffers(c) \/ \E o \in Offer : HearOffer(c, o)
             \/ OpenFeed(c) \/ ReadNotes(c) \/ ShowFeed(c)
             \/ BeginMark(c) \/ ServeMark(c) \/ AnswerMark(c)
             \/ ServeAccept(c) \/ ServeDecline(c) \/ AnswerRespond(c)
             \/ \E kind \in {"accept", "decline"}, o \in Offer : BeginRespond(c, kind, o)
             \/ Ping(c) \/ ReadWorker(c) \/ Debounce(c) \/ WritePosition(c)
      PROVE  DutyInv'
  <2>1. PICK kinds \in {{"incoming"}, {"feed"}, {"read", "readAll"}, {"accept", "decline"},
                        {"accept", "decline", "incoming"}, {"ping"}} :
          Touches(c, kinds)
    BY <1>7, OffersTouch, FeedTouch, MarkTouch, RespondTouch, RereadTouch, PingTouch
  <2>2. Same("toggle")
    BY <2>1, TouchesOthers
  <2>3. UNCHANGED <<shownDuty, pinging>> /\ (duty' = "OFF_DUTY" => duty = "OFF_DUTY")
    BY <1>7 DEF ReadOffers, ShowOffers, HearOffer, OpenFeed, ReadNotes, ShowFeed, BeginMark,
       ServeMark, AnswerMark, ServeAccept, ServeDecline, AnswerRespond, BeginRespond, Ping,
       ReadWorker, Debounce, WritePosition, rows, job, switch
  <2>4. mishap \ {"incoming", "feed"} \subseteq mishap'
    BY <1>7, MishapsStay
  <2> QED BY <2>2, <2>3, <2>4, DutyKept
<1>8. ASSUME Suspend
      PROVE  DutyInv'
  <2>1. UNCHANGED <<calls, shownDuty, pinging>>
    BY <1>8 DEF Suspend, switch
  <2>2. Mishap("untold", shownDuty # "OFF_DUTY" \/ InFlight("toggle")) /\ "untold" \in Mishaps
    BY <1>8 DEF Suspend, Mishaps
  <2>3. /\ mishap \subseteq mishap'
        /\ "untold" \notin mishap' => shownDuty = "OFF_DUTY" /\ ~InFlight("toggle")
    BY <2>2, MishapBounds DEF TypeInv
  <2> QED BY <2>1, <2>3 DEF DutyInv, InFlight, At
<1>9. ASSUME LinkStep \/ NoteStep, ~Suspend
      PROVE  DutyInv'
  <2>1. Same("toggle") /\ mishap \subseteq mishap'
    BY <1>9, LinkTouch, LinkPage, NoteTouch DEF Same
  <2>2. UNCHANGED <<shownDuty, pinging>>
    BY <1>9, LinkPage DEF NoteStep, CreateNote, HearNote, switch
  <2>3. duty' = "OFF_DUTY" => duty = "OFF_DUTY"
    BY <1>9 DEF LinkStep, NoteStep, MakeOffer, CloseOffer, Override, CreateNote, HearNote, Emit,
       EndJob, Reactivate, ExpireWindow, Connect, JoinWorkerRoom, Disconnect, vars, rows, job
  <2> QED BY <2>1, <2>2, <2>3, DutyKept
<1> QED BY <1>1, <1>2, <1>3, <1>4, <1>5, <1>6, <1>7, <1>8, <1>9, StepKinds

-------------------------------------------------------------------------------
\* The positions.
LEMMA InitStrayInv == Init => StrayInv
<1> SUFFICES ASSUME Init
             PROVE  StrayInv
  OBVIOUS
<1>1. \A c \in Call : calls[c].kind = "none"
  BY DEF Init, Idle
<1> QED BY <1>1 DEF Init, StrayInv

\* The row of the worker changes only as Overtake puts it down.
LEMMA StrayKept ==
  ASSUME StrayInv, Same("ping"), strayed' = strayed,
         \/ Overtake
         \/ UNCHANGED <<duty, serving, overtaken>>
  PROVE  StrayInv'
<1>1. ~strayed'
  BY DEF StrayInv
<1>2. ASSUME NEW c \in Call \ overtaken', calls'[c].kind = "ping", calls'[c].at # "sent"
      PROVE  duty' # "OFF_DUTY" /\ calls'[c].item \in {Null, serving'}
  <2>1. calls'[c] = calls[c]
    BY <1>2 DEF Same
  <2>2. ~Overtake
    BY <1>2, <2>1 DEF Overtake
  <2> QED BY <1>2, <2>1, <2>2 DEF StrayInv
<1> QED BY <1>1, <1>2 DEF StrayInv

LEMMA NextStrayInv == TypeInv /\ StrayInv /\ [Next]_vars => StrayInv'
<1> SUFFICES ASSUME TypeInv, StrayInv, [Next]_vars
             PROVE  StrayInv'
  OBVIOUS
<1>1. ASSUME NEW c \in Call, Ping(c)
      PROVE  StrayInv'
  <2>1. Send(c, "ping", Null) /\ "ping" \in Kind /\ Null \in Item
    BY <1>1 DEF Ping, Kind, Item
  <2>2. calls'[c].at = "sent" /\ Elsewhere(c)
    BY <2>1, SendGives
  <2>3. UNCHANGED <<duty, serving, overtaken, strayed>>
    BY <1>1 DEF Ping, rows, stray
  <2> QED BY <2>2, <2>3 DEF StrayInv, Elsewhere
<1>2. ASSUME NEW c \in Call, ReadWorker(c) \/ Debounce(c)
      PROVE  StrayInv'
  <2>1. UNCHANGED <<duty, serving, strayed>>
    BY <1>2 DEF ReadWorker, Debounce, rows, job, stray
  <2>2. /\ calls[c].kind = "ping" /\ Elsewhere(c)
        /\ calls'[c].kind = "ping" =>
              \/ duty # "OFF_DUTY" /\ calls'[c].item = serving
              \/ calls[c].at = "read" /\ calls'[c].item = calls[c].item
    BY <1>2, PingGives
  <2>3. overtaken' = overtaken \/ (overtaken' = overtaken \ {c} /\ calls'[c].kind = "none")
    BY <1>2 DEF ReadWorker, Debounce, stray, Done, At, TypeInv, TypeOK, Idle
  <2> QED BY <2>1, <2>2, <2>3 DEF StrayInv, Elsewhere
<1>3. ASSUME NEW c \in Call, WritePosition(c)
      PROVE  StrayInv'
  <2>1. UNCHANGED <<duty, serving>> /\ overtaken' = overtaken \ {c}
    BY <1>3 DEF WritePosition, rows
  <2>2. calls'[c].kind = "none" /\ Elsewhere(c)
    BY <1>3, DoneGives DEF WritePosition
  <2>3. calls[c].kind = "ping" /\ calls[c].at # "sent"
    BY <1>3 DEF WritePosition, At
  <2>4. strayed' => \/ strayed
                    \/ /\ c \notin overtaken
                       /\ duty = "OFF_DUTY" \/ calls[c].item \notin {Null, serving}
    BY <1>3, Zenon DEF WritePosition
  <2>5. ~strayed'
    BY <2>3, <2>4, Zenon DEF StrayInv
  <2> QED BY <2>1, <2>2, <2>5 DEF StrayInv, Elsewhere
<1>4. ASSUME NEW c \in Call, CallLost(c)
      PROVE  StrayInv'
  <2>1. UNCHANGED <<duty, serving, strayed>> /\ overtaken' = overtaken \ {c}
    BY <1>4 DEF CallLost, rows
  <2>2. Elsewhere(c) /\ calls'[c].kind # "ping"
    BY <1>4, LostTouch
  <2> QED BY <2>1, <2>2 DEF StrayInv, Elsewhere
<1>5. ASSUME NEW c \in Call, NEW d \in Call, Reload(c, d)
      PROVE  StrayInv'
  <2>1. UNCHANGED <<duty, serving, overtaken, strayed>>
    BY <1>5 DEF Reload, rows, stray
  <2>2. \A k \in Call : calls'[k].kind = "ping" => calls'[k] = calls[k]
    BY <1>5, ReloadTouch
  <2> QED BY <2>1, <2>2 DEF StrayInv
<1>6. ASSUME NEW c \in Call,
             \/ ReadOffers(c) \/ ShowOffers(c) \/ \E o \in Offer : HearOffer(c, o)
             \/ OpenFeed(c) \/ ReadNotes(c) \/ ShowFeed(c)
             \/ BeginMark(c) \/ ServeMark(c) \/ AnswerMark(c)
             \/ ServeAccept(c) \/ ServeDecline(c) \/ AnswerRespond(c)
             \/ \E kind \in {"accept", "decline"}, o \in Offer : BeginRespond(c, kind, o)
             \/ Toggle(c) \/ CheckToggle(c) \/ ServeToggle(c) \/ AnswerToggle(c)
      PROVE  StrayInv'
  <2>1. PICK kinds \in {{"incoming"}, {"feed"}, {"read", "readAll"}, {"accept", "decline"},
                        {"accept", "decline", "incoming"}, {"toggle"}} :
          Touches(c, kinds)
    BY <1>6, OffersTouch, FeedTouch, MarkTouch, RespondTouch, RereadTouch, ToggleTouch
  <2>2. Same("ping")
    BY <2>1, TouchesOthers
  <2>3. strayed' = strayed /\ (Overtake \/ UNCHANGED <<duty, serving, overtaken>>)
    <3>1. CASE ServeAccept(c) \/ ServeToggle(c)
      BY <3>1 DEF ServeAccept, ServeToggle
    <3>2. CASE ~(ServeAccept(c) \/ ServeToggle(c))
      BY <1>6, <3>2 DEF ReadOffers, ShowOffers, HearOffer, OpenFeed, ReadNotes, ShowFeed, BeginMark,
         ServeMark, AnswerMark, ServeDecline, AnswerRespond, BeginRespond, Toggle, CheckToggle,
         AnswerToggle, rows, job, stray
    <3> QED BY <3>1, <3>2
  <2> QED BY <2>2, <2>3, StrayKept
<1>7. ASSUME LinkStep \/ NoteStep
      PROVE  StrayInv'
  <2>1. Same("ping")
    BY <1>7, LinkTouch, NoteTouch DEF Same
  <2>2. strayed' = strayed
    BY <1>7, LinkPage DEF NoteStep, CreateNote, HearNote, stray
  <2>3. Overtake \/ UNCHANGED <<duty, serving, overtaken>>
    <3>1. CASE EndJob \/ Suspend \/ \E o \in Offer : Override(o)
      BY <3>1 DEF EndJob, Suspend, Override
    <3>2. CASE ~(EndJob \/ Suspend \/ \E o \in Offer : Override(o))
      BY <1>7, <3>2 DEF LinkStep, NoteStep, MakeOffer, CloseOffer, CreateNote, HearNote, Emit,
         Reactivate, ExpireWindow, Connect, JoinWorkerRoom, Disconnect, vars, rows, job, stray
    <3> QED BY <3>1, <3>2
  <2> QED BY <2>1, <2>2, <2>3, StrayKept
<1> QED BY <1>1, <1>2, <1>3, <1>4, <1>5, <1>6, <1>7, StepKinds

-------------------------------------------------------------------------------
\* An open offer whose event is neither on its way nor missed is on the list of
\* the worker once no read of the offers is under way, unless the last to be sent
\* alone failed, or others overlapped since (app.js loadWorkerIncoming): what is
\* read is never older than what was heard.
THEOREM OffersAreListedAlways == Spec => []OffersAreListed
<1>1. Init => TypeInv /\ ListInv
  BY InitTypeInv, InitListInv
<1>2. (TypeInv /\ ListInv) /\ [Next]_vars => (TypeInv /\ ListInv)'
  BY NextTypeInv, NextListInv
<1>3. ListInv => OffersAreListed
  BY DEF ListInv, OffersAreListed, ToList, OpenOffers
<1> QED BY <1>1, <1>2, <1>3, PTL DEF Spec

\* The feed holds of the newest notifications, a page of them, every one that
\* the page could hear of, unless the last read of them to be sent alone failed
\* or others overlapped since; and what it shows as read the server has as read
\* (app.js loadNotifications, markNotificationRead, markAllNotificationsRead).
THEOREM FeedMatchesRowsAlways == Spec => []FeedMatchesRows
<1>1. Init => TypeInv /\ FeedInv /\ SeenInv
  BY InitTypeInv, InitFeedInv, InitSeenInv
<1>2. (TypeInv /\ FeedInv /\ SeenInv) /\ [Next]_vars => (TypeInv /\ FeedInv /\ SeenInv)'
  BY NextTypeInv, NextFeedInv, NextSeenInv
<1>3. FeedInv /\ SeenInv => FeedMatchesRows
  BY DEF FeedInv, SeenInv, FeedMatchesRows, ToFeed
<1> QED BY <1>1, <1>2, <1>3, PTL DEF Spec

\* A worker off duty is shown so and is asked for no positions, unless a switch
\* was lost, opposite ones met or a suspension was not told; and a position goes
\* out off duty, or to another's room, only from a ping that read the worker's
\* row before its last change (app.js toggleAvailability, updateAvailability,
\* setWorkerSuspension, locationPing).
THEOREM PositionsFollowDutyAlways == Spec => []PositionsFollowDuty
<1>1. Init => TypeInv /\ DutyInv /\ StrayInv
  BY InitTypeInv, InitDutyInv, InitStrayInv
<1>2. (TypeInv /\ DutyInv /\ StrayInv) /\ [Next]_vars => (TypeInv /\ DutyInv /\ StrayInv)'
  BY NextTypeInv, NextDutyInv, NextStrayInv
<1>3. DutyInv /\ StrayInv => PositionsFollowDuty
  BY DEF DutyInv, StrayInv, PositionsFollowDuty, InFlight, At
<1> QED BY <1>1, <1>2, <1>3, PTL DEF Spec

=============================================================================
