------------------------------ MODULE Documents ------------------------------
(***************************************************************************)
(* The documents of one type of one worker: a file on the disk and a row   *)
(* in the database, which no transaction writes together, and a malware    *)
(* scan that runs in the process after the upload has been answered.       *)
(*                                                                         *)
(* A handler is a slot of flight between its reads and its two writes.     *)
(* A restart ends every handler and every scan; the disk and the database  *)
(* stay.  That a signed URL expires is left out: an expired one is refused *)
(* before anything is read, as if the request had not been sent.           *)
(* No code of the repository creates a Certification, so the test of       *)
(* deleteDocument for an approved one never refuses.                       *)
(*                                                                         *)
(* An operator marked "Variant" is not part of the specification.          *)
(***************************************************************************)
EXTENDS Naturals, FiniteSets

CONSTANTS
  Doc,          \* storage keys, each a fresh UUID of one upload
  Slot,         \* handlers in flight at once
  Null,
  MaxDocuments, \* MAX_DOCUMENTS_PER_TYPE
  Verdict,      \* what the scanner may answer
  MaxTrouble    \* the bound on failures and restarts

ASSUME LimitAssumption   == MaxDocuments \in Nat \ {0} /\ MaxTrouble \in Nat
ASSUME VerdictAssumption == Verdict \subseteq {"CLEAN", "INFECTED", "SCAN_FAILED"}
ASSUME NullAssumption    == Null \notin Doc
ASSUME SlotAssumption    == IsFiniteSet(Doc) /\ IsFiniteSet(Slot)

VARIABLES
  disk,     \* the files under STORAGE_ROOT
  status,   \* the scanStatus of a row, or "none" without one
  deleted,  \* the rows with a deletedAt
  scan,     \* how far the scan of a document is
  url,      \* the documents with a signed URL
  flight,   \* the handlers in flight
  torn,     \* history: the documents a handler or a scan was ended on
  trouble   \* how many failures and restarts there were

vars == <<disk, status, deleted, scan, url, flight, torn, trouble>>

ScanStatus == {"PENDING", "CLEAN", "INFECTED", "SCAN_FAILED"}
Busy == [at  : {"counted", "saved", "deleting", "removed", "serving"}, doc : Doc]
Idle == [at |-> "idle", doc |-> Null]

TypeOK ==
  /\ disk \subseteq Doc
  /\ status \in [Doc -> ScanStatus \union {"none"}]
  /\ deleted \subseteq Doc
  /\ scan \in [Doc -> {"none", "scanning", "infected", "removed"}]
  /\ url \subseteq Doc
  /\ flight \in [Slot -> Busy \union {Idle}]
  /\ torn \subseteq Doc
  /\ trouble \in 0..MaxTrouble

Init ==
  /\ disk = {}
  /\ status = [d \in Doc |-> "none"]
  /\ deleted = {}
  /\ scan = [d \in Doc |-> "none"]
  /\ url = {}
  /\ flight = [s \in Slot |-> Idle]
  /\ torn = {}
  /\ trouble = 0

-------------------------------------------------------------------------------
\* The documents the limit counts: those of every scan status.
Kept == {d \in Doc : status[d] # "none"} \ deleted

\* The key is new: no handler, file, row or earlier upload has it.
Fresh(d) ==
  /\ status[d] = "none"
  /\ d \notin disk \union torn
  /\ \A s \in Slot : flight[s].doc # d

Begin(s, at, d) ==
  /\ flight[s] = Idle
  /\ flight' = [flight EXCEPT ![s] = [at |-> at, doc |-> d]]

Step(s, from, to) ==
  /\ flight[s].at = from
  /\ flight' = [flight EXCEPT ![s].at = to]

End(s, from) ==
  /\ flight[s].at = from
  /\ flight' = [flight EXCEPT ![s] = Idle]

-------------------------------------------------------------------------------
\* Variant: the limit is not looked at.
BeginUploadUncounted(s, d) ==
  /\ Fresh(d)
  /\ Begin(s, "counted", d)
  /\ UNCHANGED <<disk, status, deleted, scan, url, torn, trouble>>

\* The file is of an accepted type, and the documents are fewer than the
\* limit.
BeginUpload(s, d) ==
  /\ Fresh(d)
  /\ Cardinality(Kept) < MaxDocuments
  /\ Begin(s, "counted", d)
  /\ UNCHANGED <<disk, status, deleted, scan, url, torn, trouble>>

SaveFile(s) ==
  /\ Step(s, "counted", "saved")
  /\ disk' = disk \union {flight[s].doc}
  /\ UNCHANGED <<status, deleted, scan, url, torn, trouble>>

\* Variant: the scan is not started.
CreateRowUnscanned(s) ==
  /\ End(s, "saved")
  /\ status' = [status EXCEPT ![flight[s].doc] = "PENDING"]
  /\ UNCHANGED <<disk, deleted, scan, url, torn, trouble>>

\* The row is created PENDING, the upload is answered, and the scan starts.
CreateRow(s) ==
  /\ End(s, "saved")
  /\ status' = [status EXCEPT ![flight[s].doc] = "PENDING"]
  /\ scan' = [scan EXCEPT ![flight[s].doc] = "scanning"]
  /\ UNCHANGED <<disk, deleted, url, torn, trouble>>

\* Variant: a verdict that is no status is written as it comes.
ScanRaw(d) ==
  /\ scan[d] = "scanning"
  /\ scan' = [scan EXCEPT ![d] = "none"]
  /\ status' = [status EXCEPT ![d] = "SCANNED"]
  /\ UNCHANGED <<disk, deleted, url, flight, torn, trouble>>

\* The scanner answers; an infected file is removed before its row says so.
Scan(d) ==
  /\ scan[d] = "scanning"
  /\ \E verdict \in Verdict :
       IF verdict = "INFECTED"
       THEN scan' = [scan EXCEPT ![d] = "infected"] /\ UNCHANGED status
       ELSE /\ scan' = [scan EXCEPT ![d] = "none"]
            /\ status' = [status EXCEPT ![d] = verdict]
  /\ UNCHANGED <<disk, deleted, url, flight, torn, trouble>>

\* Variant: the file is left for later.
RemoveInfectedLater(d) ==
  /\ scan[d] = "infected"
  /\ scan' = [scan EXCEPT ![d] = "removed"]
  /\ UNCHANGED <<disk, status, deleted, url, flight, torn, trouble>>

RemoveInfected(d) ==
  /\ scan[d] = "infected"
  /\ scan' = [scan EXCEPT ![d] = "removed"]
  /\ disk' = disk \ {d}
  /\ UNCHANGED <<status, deleted, url, flight, torn, trouble>>

MarkInfected(d) ==
  /\ scan[d] = "removed"
  /\ scan' = [scan EXCEPT ![d] = "none"]
  /\ status' = [status EXCEPT ![d] = "INFECTED"]
  /\ UNCHANGED <<disk, deleted, url, flight, torn, trouble>>

-------------------------------------------------------------------------------
BeginDelete(s, d) ==
  /\ d \in Kept
  /\ Begin(s, "deleting", d)
  /\ UNCHANGED <<disk, status, deleted, scan, url, torn, trouble>>

\* Variant: the row is marked first and the file removed after it.
RemoveFileLast(s) ==
  /\ \/ Step(s, "deleting", "removed") /\ deleted' = deleted \union {flight[s].doc}
     \/ End(s, "removed") /\ UNCHANGED deleted
  /\ disk' = IF flight[s].at = "removed" THEN disk \ {flight[s].doc} ELSE disk
  /\ UNCHANGED <<status, scan, url, torn, trouble>>

\* A file that is already gone is no error.
RemoveFile(s) ==
  /\ Step(s, "deleting", "removed")
  /\ disk' = disk \ {flight[s].doc}
  /\ UNCHANGED <<status, deleted, scan, url, torn, trouble>>

MarkDeleted(s) ==
  /\ End(s, "removed")
  /\ deleted' = deleted \union {flight[s].doc}
  /\ UNCHANGED <<disk, status, scan, url, torn, trouble>>

\* The owner, or an admin, gets a URL that is good for five minutes.
GetSignedUrl(d) ==
  /\ d \in Kept
  /\ status[d] = "CLEAN"
  /\ d \notin url
  /\ url' = url \union {d}
  /\ UNCHANGED <<disk, status, deleted, scan, flight, torn, trouble>>

\* The URL is tested, and then the row once more.
BeginServe(s, d) ==
  /\ d \in url
  /\ d \in Kept
  /\ status[d] = "CLEAN"
  /\ Begin(s, "serving", d)
  /\ UNCHANGED <<disk, status, deleted, scan, url, torn, trouble>>

\* The file is opened; once it is open it can be removed.
Stream(s) ==
  /\ flight[s].doc \in disk
  /\ End(s, "serving")
  /\ UNCHANGED <<disk, status, deleted, scan, url, torn, trouble>>

-------------------------------------------------------------------------------
Working ==
  {flight[s].doc :
     s \in {z \in Slot : flight[z].at \in {"counted", "saved", "deleting", "removed"}}}

\* The process ends, and what it was doing with it.
Stop ==
  /\ trouble < MaxTrouble
  /\ trouble' = trouble + 1
  /\ flight' = [s \in Slot |-> Idle]
  /\ scan' = [d \in Doc |-> "none"]
  /\ torn' = torn \union Working \union {d \in Doc : scan[d] # "none"}
  /\ UNCHANGED <<disk, status, deleted, url>>

\* The stream of a file that is not there reports an error nobody listens
\* to, which ends the process.
StreamMissing(s) ==
  /\ flight[s].at = "serving"
  /\ flight[s].doc \notin disk
  /\ Stop

Restart == Stop

\* A statement of a handler throws, and the handler answers with an error.
Fail(s) ==
  /\ trouble < MaxTrouble
  /\ trouble' = trouble + 1
  /\ flight[s] # Idle
  /\ flight' = [flight EXCEPT ![s] = Idle]
  /\ torn' = IF flight[s].at = "serving" THEN torn ELSE torn \union {flight[s].doc}
  /\ UNCHANGED <<disk, status, deleted, scan, url>>

\* A statement of a scan throws: the error is logged.
ScanFails(d) ==
  /\ trouble < MaxTrouble
  /\ trouble' = trouble + 1
  /\ scan[d] # "none"
  /\ scan' = [scan EXCEPT ![d] = "none"]
  /\ torn' = torn \union {d}
  /\ UNCHANGED <<disk, status, deleted, url, flight>>

-------------------------------------------------------------------------------
HandlerStep(s) ==
  \/ SaveFile(s) \/ CreateRow(s) \/ RemoveFile(s) \/ MarkDeleted(s)
  \/ Stream(s) \/ StreamMissing(s)

ScanStep(d) == Scan(d) \/ RemoveInfected(d) \/ MarkInfected(d)

Next ==
  \/ \E s \in Slot : HandlerStep(s) \/ Fail(s)
  \/ \E s \in Slot, d \in Doc : BeginUpload(s, d) \/ BeginDelete(s, d) \/ BeginServe(s, d)
  \/ \E d \in Doc : ScanStep(d) \/ ScanFails(d) \/ GetSignedUrl(d)
  \/ Restart

\* The event loop runs a scan the process has begun.
Fairness == \A d \in Doc : WF_vars(ScanStep(d))

Spec == Init /\ [][Next]_vars /\ Fairness

-------------------------------------------------------------------------------
\* The file of a document that is deleted or found infected is gone, also
\* after a crash between the two writes (document.controller.ts
\* deleteDocument and runMalwareScan): so serveSignedDocument, which tests the
\* row before it opens the file, opens none of them.
RemovedIsGone ==
  \A d \in Doc : d \in deleted \/ status[d] = "INFECTED" => d \notin disk

\* A file has a row and a kept row has a file, but for what a handler is
\* between, or was ended between (document.controller.ts uploadDocument,
\* deleteDocument and runMalwareScan).
FilesMatchRows ==
  \A d \in Doc \ torn :
    \/ d \in disk <=> d \in Kept /\ status[d] # "INFECTED"
    \/ \E s \in Slot : flight[s] \in [at : {"saved", "removed"}, doc : {d}]
    \/ scan[d] = "removed"

\* Uploads exceed the limit by no more than were in flight at once
\* (document.controller.ts uploadDocument, which counts before it creates).
LimitExceededOnlyByOverlap ==
  Cardinality(Kept) < MaxDocuments + Cardinality(Slot)

\* A document does not stay PENDING, unless its upload or scan was ended by
\* a failure or a restart (document.controller.ts runMalwareScan).
ScanEnds ==
  \A d \in Doc : status[d] = "PENDING" ~> status[d] # "PENDING" \/ d \in torn
=============================================================================
