--------------------------- MODULE DocumentsProofs ---------------------------
(***************************************************************************)
(* Proofs about Documents: its types, that a removed document has no file, *)
(* that files and rows match but for what a handler is between, and how    *)
(* far uploads may exceed the limit, for any number of documents, handlers *)
(* and failures.                                                           *)
(***************************************************************************)
EXTENDS Documents, FiniteSetTheorems, TLAPS

-------------------------------------------------------------------------------
\* What the helpers do to the slot of their handler.
LEMMA BeginSlot ==
  ASSUME TypeOK, NEW s \in Slot, NEW d \in Doc,
         NEW at \in {"counted", "deleting", "serving"}, Begin(s, at, d)
  PROVE  /\ flight[s].at = "idle"
         /\ flight'[s].at = at /\ flight'[s].doc = d
         /\ \A o \in Slot : o # s => flight'[o] = flight[o]
         /\ flight' \in [Slot -> Busy \union {Idle}]
BY DEF Begin, TypeOK, Busy, Idle

LEMMA StepSlot ==
  ASSUME TypeOK, NEW s \in Slot, NEW from, from # "idle",
         NEW to \in {"saved", "removed"}, Step(s, from, to)
  PROVE  /\ flight[s].at = from /\ flight[s].doc \in Doc
         /\ flight'[s].at = to /\ flight'[s].doc = flight[s].doc
         /\ \A o \in Slot : o # s => flight'[o] = flight[o]
         /\ flight' \in [Slot -> Busy \union {Idle}]
<1>1. flight[s] \in Busy BY DEF Step, TypeOK, Idle
<1>2. flight'[s] = [flight[s] EXCEPT !.at = to]
      /\ \A o \in Slot : o # s => flight'[o] = flight[o]
  BY DEF Step, TypeOK
<1>3. [flight[s] EXCEPT !.at = to] \in Busy BY <1>1 DEF Busy
<1>4. flight' \in [Slot -> Busy \union {Idle}] BY <1>3 DEF Step, TypeOK
<1> QED BY <1>1, <1>2, <1>4 DEF Step, Busy

LEMMA EndSlot ==
  ASSUME TypeOK, NEW s \in Slot, NEW from, from # "idle", End(s, from)
  PROVE  /\ flight[s].at = from /\ flight[s].doc \in Doc
         /\ flight'[s].at = "idle" /\ flight'[s].doc = Null
         /\ \A o \in Slot : o # s => flight'[o] = flight[o]
         /\ flight' \in [Slot -> Busy \union {Idle}]
BY DEF End, TypeOK, Busy, Idle

\* What a handler that fails was doing.
LEMMA FailSlot ==
  ASSUME TypeOK, NEW s \in Slot, Fail(s)
  PROVE  /\ flight[s].doc \in Doc
         /\ flight'[s].at = "idle" /\ flight'[s].doc = Null
         /\ \A o \in Slot : o # s => flight'[o] = flight[o]
         /\ flight' \in [Slot -> Busy \union {Idle}]
BY DEF Fail, TypeOK, Busy, Idle

LEMMA InitTypes == Init => TypeOK
BY LimitAssumption DEF Init, TypeOK, ScanStatus

LEMMA HandlerTypes ==
  ASSUME TypeOK, NEW s \in Slot, HandlerStep(s) \/ Fail(s)
  PROVE  TypeOK'
<1>1. CASE SaveFile(s)
  BY <1>1, StepSlot DEF SaveFile, TypeOK
<1>2. CASE CreateRow(s)
  <2>1. End(s, "saved") BY <1>2 DEF CreateRow
  <2> QED BY <1>2, <2>1, EndSlot DEF CreateRow, TypeOK, ScanStatus
<1>3. CASE RemoveFile(s)
  BY <1>3, StepSlot DEF RemoveFile, TypeOK
<1>4. CASE MarkDeleted(s)
  BY <1>4, EndSlot DEF MarkDeleted, TypeOK
<1>5. CASE Stream(s)
  BY <1>5, EndSlot DEF Stream, TypeOK
<1>6. CASE Stop
  <2>1. Working \subseteq Doc BY DEF Working, TypeOK, Busy, Idle
  <2> QED BY <1>6, <2>1, LimitAssumption DEF Stop, TypeOK
<1>7. CASE Fail(s)
  <2>1. torn' \subseteq Doc BY <1>7, FailSlot DEF Fail, TypeOK
  <2>2. trouble' \in 0..MaxTrouble BY <1>7, LimitAssumption DEF Fail, TypeOK
  <2> QED BY <1>7, <2>1, <2>2, FailSlot DEF Fail, TypeOK
<1> QED BY <1>1, <1>2, <1>3, <1>4, <1>5, <1>6, <1>7 DEF HandlerStep, StreamMissing

LEMMA NextTypes == TypeOK /\ [Next]_vars => TypeOK'
<1> SUFFICES ASSUME TypeOK, [Next]_vars PROVE TypeOK' OBVIOUS
<1>1. CASE UNCHANGED vars BY <1>1 DEF vars, TypeOK
<1>2. ASSUME NEW s \in Slot, HandlerStep(s) \/ Fail(s) PROVE TypeOK' BY <1>2, HandlerTypes
<1>3. ASSUME NEW s \in Slot, NEW d \in Doc,
             BeginUpload(s, d) \/ BeginDelete(s, d) \/ BeginServe(s, d)
      PROVE  TypeOK'
  BY <1>3, BeginSlot DEF BeginUpload, BeginDelete, BeginServe, TypeOK
<1>4. ASSUME NEW d \in Doc, Scan(d) PROVE TypeOK'
  <2>1. PICK verdict \in Verdict :
          IF verdict = "INFECTED"
          THEN scan' = [scan EXCEPT ![d] = "infected"] /\ UNCHANGED status
          ELSE /\ scan' = [scan EXCEPT ![d] = "none"]
               /\ status' = [status EXCEPT ![d] = verdict]
    BY <1>4 DEF Scan
  <2>2. verdict \in ScanStatus BY VerdictAssumption DEF ScanStatus
  <2> QED BY <1>4, <2>1, <2>2 DEF Scan, TypeOK
<1>5. ASSUME NEW d \in Doc, RemoveInfected(d) \/ MarkInfected(d) PROVE TypeOK'
  BY <1>5 DEF RemoveInfected, MarkInfected, TypeOK, ScanStatus
<1>6. ASSUME NEW d \in Doc, ScanFails(d) \/ GetSignedUrl(d) PROVE TypeOK'
  BY <1>6, LimitAssumption DEF ScanFails, GetSignedUrl, TypeOK
<1>7. CASE Restart
  <2>1. Working \subseteq Doc BY DEF Working, TypeOK, Busy, Idle
  <2> QED BY <1>7, <2>1, LimitAssumption DEF Restart, Stop, TypeOK
<1> QED BY <1>1, <1>2, <1>3, <1>4, <1>5, <1>6, <1>7 DEF Next, ScanStep

-------------------------------------------------------------------------------
\* An upload works on a key of its own that has no row yet.
UploadsAreFresh ==
  \A s \in Slot : flight[s].at \in {"counted", "saved"} =>
    /\ status[flight[s].doc] = "none"
    /\ flight[s].at = "saved" <=> flight[s].doc \in disk
    /\ \A o \in Slot : flight[o].doc = flight[s].doc => o = s

\* The other handlers work on a row, and a removed file does not come back.
OthersHaveRows ==
  \A s \in Slot : flight[s].at \in {"deleting", "removed", "serving"} =>
    /\ status[flight[s].doc] # "none"
    /\ flight[s].at = "removed" => flight[s].doc \notin disk

\* A document is scanned while it is PENDING.
ScansArePending ==
  \A d \in Doc : scan[d] # "none" =>
    /\ status[d] = "PENDING"
    /\ scan[d] = "removed" => d \notin disk

DeletedHaveRows == \A d \in deleted : status[d] # "none"

\* FilesMatchRows of one document.
FileMatchesRow(d) ==
  \/ d \in torn
  \/ d \in disk <=> d \in Kept /\ status[d] # "INFECTED"
  \/ \E s \in Slot : flight[s].at \in {"saved", "removed"} /\ flight[s].doc = d
  \/ scan[d] = "removed"

DocInv ==
  /\ UploadsAreFresh
  /\ OthersHaveRows
  /\ ScansArePending
  /\ DeletedHaveRows
  /\ RemovedIsGone
  /\ \A d \in Doc : FileMatchesRow(d)

LEMMA InitDocs == Init => DocInv
BY DEF Init, DocInv, UploadsAreFresh, OthersHaveRows, ScansArePending, DeletedHaveRows,
   RemovedIsGone, FileMatchesRow, Idle, Kept

LEMMA HandlerDocs ==
  ASSUME TypeOK, DocInv, NEW s \in Slot, HandlerStep(s) \/ Fail(s)
  PROVE  DocInv'
<1> USE DEF UploadsAreFresh, OthersHaveRows, ScansArePending, DeletedHaveRows, RemovedIsGone,
            FileMatchesRow, Kept
<1>0. \A o \in Slot : flight[o].at # "idle" => flight[o].doc \in Doc /\ flight[o].doc # Null
  BY NullAssumption DEF TypeOK, Busy, Idle
<1>1. CASE SaveFile(s)
  <2>1. Step(s, "counted", "saved") BY <1>1 DEF SaveFile
  <2> DEFINE d == flight[s].doc
  <2>2. /\ disk' = disk \union {d} /\ status' = status /\ deleted' = deleted
        /\ scan' = scan /\ torn' = torn
    BY <1>1 DEF SaveFile
  <2>3. status[d] = "none" /\ \A o \in Slot : flight[o].doc = d => o = s
    BY <2>1, StepSlot DEF DocInv
  <2>4. d \notin deleted BY <2>3 DEF DocInv
  <2> QED BY <2>1, <2>2, <2>3, <2>4, StepSlot DEF DocInv
<1>2. CASE CreateRow(s)
  <2>1. End(s, "saved") BY <1>2 DEF CreateRow
  <2> DEFINE d == flight[s].doc
  <2>2. /\ status' = [status EXCEPT ![d] = "PENDING"]
        /\ scan' = [scan EXCEPT ![d] = "scanning"]
        /\ disk' = disk /\ deleted' = deleted /\ torn' = torn
    BY <1>2 DEF CreateRow
  <2>3. /\ d \in Doc /\ status[d] = "none" /\ d \in disk
        /\ \A o \in Slot : flight[o].doc = d => o = s
    BY <2>1, EndSlot DEF DocInv
  <2>4. /\ status'[d] = "PENDING" /\ scan'[d] = "scanning"
        /\ \A e \in Doc : e # d => status'[e] = status[e] /\ scan'[e] = scan[e]
    BY <2>2, <2>3 DEF TypeOK
  <2>5. d \notin deleted BY <2>3 DEF DocInv
  <2> HIDE DEF d
  <2>6. UploadsAreFresh' BY <2>1, <2>2, <2>3, <2>4, EndSlot, <1>0 DEF DocInv
  <2>7. OthersHaveRows' BY <2>1, <2>2, <2>3, <2>4, EndSlot, <1>0 DEF DocInv
  <2>8. ScansArePending' /\ DeletedHaveRows' BY <2>2, <2>4, <2>5 DEF DocInv, TypeOK
  <2>9. RemovedIsGone' BY <2>2, <2>4, <2>5 DEF DocInv
  <2>10. \A e \in Doc : FileMatchesRow(e)'
    BY <2>1, <2>2, <2>3, <2>4, <2>5, EndSlot DEF DocInv, d
  <2> QED BY <2>6, <2>7, <2>8, <2>9, <2>10 DEF DocInv
<1>3. CASE RemoveFile(s)
  <2>1. Step(s, "deleting", "removed") BY <1>3 DEF RemoveFile
  <2> DEFINE d == flight[s].doc
  <2>2. /\ disk' = disk \ {d} /\ status' = status /\ deleted' = deleted
        /\ scan' = scan /\ torn' = torn
    BY <1>3 DEF RemoveFile
  <2>3. status[d] # "none" /\ \A o \in Slot : flight[o].at = "saved" => flight[o].doc # d
    BY <2>1, StepSlot DEF DocInv
  <2> QED BY <2>1, <2>2, <2>3, StepSlot DEF DocInv
<1>4. CASE MarkDeleted(s)
  <2>1. End(s, "removed") BY <1>4 DEF MarkDeleted
  <2> DEFINE d == flight[s].doc
  <2>2. /\ deleted' = deleted \union {d} /\ status' = status /\ disk' = disk
        /\ scan' = scan /\ torn' = torn
    BY <1>4 DEF MarkDeleted
  <2>3. status[d] # "none" /\ d \notin disk BY <2>1, EndSlot DEF DocInv
  <2> QED BY <1>0, <2>1, <2>2, <2>3, EndSlot DEF DocInv
<1>5. CASE Stream(s)
  <2>1. End(s, "serving") BY <1>5 DEF Stream
  <2> QED BY <1>0, <1>5, <2>1, EndSlot DEF Stream, DocInv
<1>6. CASE Stop
  <2>1. \A o \in Slot : flight'[o].at = "idle" BY <1>6 DEF Stop, Idle
  <2>2. \A d \in Doc : scan'[d] = "none" BY <1>6 DEF Stop
  <2>3. \A o \in Slot : flight[o].at \in {"saved", "removed"} => flight[o].doc \in torn'
    BY <1>6 DEF Stop, Working
  <2>4. \A d \in Doc : scan[d] # "none" => d \in torn' BY <1>6 DEF Stop
  <2>5. /\ torn \subseteq torn' /\ disk' = disk /\ status' = status /\ deleted' = deleted
    BY <1>6 DEF Stop
  <2> QED BY <2>1, <2>2, <2>3, <2>4, <2>5 DEF DocInv
<1>7. CASE Fail(s)
  <2>1. flight[s].at \in {"saved", "removed"} => flight[s].doc \in torn'
    BY <1>7 DEF Fail
  <2>2. /\ torn \subseteq torn' /\ disk' = disk /\ status' = status /\ deleted' = deleted
        /\ scan' = scan
    BY <1>7 DEF Fail
  <2> QED BY <1>0, <1>7, <2>1, <2>2, FailSlot DEF DocInv
<1> QED BY <1>1, <1>2, <1>3, <1>4, <1>5, <1>6, <1>7 DEF HandlerStep, StreamMissing

LEMMA NextDocs == TypeOK /\ DocInv /\ [Next]_vars => DocInv'
<1> SUFFICES ASSUME TypeOK, DocInv, [Next]_vars PROVE DocInv' OBVIOUS
<1> USE DEF UploadsAreFresh, OthersHaveRows, ScansArePending, DeletedHaveRows, RemovedIsGone,
            FileMatchesRow, Kept
<1>0. \A o \in Slot : flight[o].at # "idle" => flight[o].doc \in Doc /\ flight[o].doc # Null
  BY NullAssumption DEF TypeOK, Busy, Idle
<1>1. CASE UNCHANGED vars BY <1>1 DEF vars, DocInv
<1>2. ASSUME NEW s \in Slot, HandlerStep(s) \/ Fail(s) PROVE DocInv' BY <1>2, HandlerDocs
<1>3. ASSUME NEW s \in Slot, NEW d \in Doc, BeginUpload(s, d) PROVE DocInv'
  <2>1. Begin(s, "counted", d) /\ Fresh(d) BY <1>3 DEF BeginUpload
  <2>2. /\ disk' = disk /\ status' = status /\ deleted' = deleted /\ scan' = scan
        /\ torn' = torn
    BY <1>3 DEF BeginUpload
  <2> QED BY <1>0, <2>1, <2>2, BeginSlot DEF Fresh, DocInv
<1>4. ASSUME NEW s \in Slot, NEW d \in Doc, BeginDelete(s, d) \/ BeginServe(s, d)
      PROVE  DocInv'
  <2>1. PICK at \in {"deleting", "serving"} : Begin(s, at, d)
    BY <1>4 DEF BeginDelete, BeginServe
  <2>2. /\ disk' = disk /\ status' = status /\ deleted' = deleted /\ scan' = scan
        /\ torn' = torn /\ status[d] # "none"
    BY <1>4 DEF BeginDelete, BeginServe
  <2> QED BY <1>0, <2>1, <2>2, BeginSlot DEF DocInv
<1>5. ASSUME NEW d \in Doc, Scan(d) PROVE DocInv'
  <2>1. PICK verdict \in Verdict :
          IF verdict = "INFECTED"
          THEN scan' = [scan EXCEPT ![d] = "infected"] /\ UNCHANGED status
          ELSE /\ scan' = [scan EXCEPT ![d] = "none"]
               /\ status' = [status EXCEPT ![d] = verdict]
    BY <1>5 DEF Scan
  <2>2. /\ disk' = disk /\ deleted' = deleted /\ flight' = flight /\ torn' = torn
        /\ scan[d] = "scanning"
    BY <1>5 DEF Scan
  <2>3. /\ scan'[d] \in {"none", "infected"}
        /\ scan'[d] # "none" => status' = status
        /\ \A e \in Doc : e # d => scan'[e] = scan[e] /\ status'[e] = status[e]
        /\ status[d] = "PENDING" /\ status'[d] \notin {"none", "INFECTED"}
    BY <2>1, <2>2, VerdictAssumption DEF TypeOK, DocInv
  <2>4. UploadsAreFresh' BY <1>0, <2>2, <2>3 DEF DocInv
  <2>5. OthersHaveRows' BY <1>0, <2>2, <2>3 DEF DocInv
  <2>6. ScansArePending' /\ DeletedHaveRows' BY <2>2, <2>3 DEF DocInv, TypeOK
  <2>7. RemovedIsGone' BY <2>2, <2>3 DEF DocInv
  <2>8. \A e \in Doc : FileMatchesRow(e)' BY <2>2, <2>3 DEF DocInv
  <2> QED BY <2>4, <2>5, <2>6, <2>7, <2>8 DEF DocInv
<1>6. ASSUME NEW d \in Doc, RemoveInfected(d) PROVE DocInv'
  <2>1. /\ disk' = disk \ {d} /\ status' = status /\ deleted' = deleted
        /\ flight' = flight /\ torn' = torn /\ scan[d] = "infected"
        /\ scan'[d] = "removed" /\ \A e \in Doc : e # d => scan'[e] = scan[e]
    BY <1>6 DEF RemoveInfected, TypeOK
  <2>2. status[d] = "PENDING" BY <2>1 DEF DocInv
  <2> QED BY <2>1, <2>2 DEF DocInv
<1>7. ASSUME NEW d \in Doc, MarkInfected(d) PROVE DocInv'
  <2>1. /\ disk' = disk /\ deleted' = deleted /\ flight' = flight /\ torn' = torn
        /\ scan[d] = "removed" /\ scan'[d] = "none" /\ status'[d] = "INFECTED"
        /\ \A e \in Doc : e # d => scan'[e] = scan[e] /\ status'[e] = status[e]
    BY <1>7 DEF MarkInfected, TypeOK
  <2>2. status[d] = "PENDING" /\ d \notin disk BY <2>1 DEF DocInv
  <2>3. UploadsAreFresh' /\ OthersHaveRows' BY <1>0, <2>1, <2>2 DEF DocInv
  <2>4. ScansArePending' /\ DeletedHaveRows' /\ RemovedIsGone'
    BY <2>1, <2>2 DEF DocInv, TypeOK
  <2>5. \A e \in Doc : FileMatchesRow(e)' BY <2>1, <2>2 DEF DocInv
  <2> QED BY <2>3, <2>4, <2>5 DEF DocInv
<1>8. ASSUME NEW d \in Doc, ScanFails(d) PROVE DocInv'
  <2>1. /\ disk' = disk /\ deleted' = deleted /\ flight' = flight
        /\ torn' = torn \union {d} /\ status' = status
        /\ scan'[d] = "none" /\ \A e \in Doc : e # d => scan'[e] = scan[e]
    BY <1>8 DEF ScanFails, TypeOK
  <2> QED BY <2>1 DEF DocInv
<1>9. ASSUME NEW d \in Doc, GetSignedUrl(d) PROVE DocInv'
  BY <1>9 DEF GetSignedUrl, DocInv
<1>10. CASE Restart
  <2>1. \A o \in Slot : flight'[o].at = "idle" BY <1>10 DEF Restart, Stop, Idle
  <2>2. \A d \in Doc : scan'[d] = "none" BY <1>10 DEF Restart, Stop
  <2>3. \A o \in Slot : flight[o].at \in {"saved", "removed"} => flight[o].doc \in torn'
    BY <1>10 DEF Restart, Stop, Working
  <2>4. \A d \in Doc : scan[d] # "none" => d \in torn' BY <1>10 DEF Restart, Stop
  <2>5. /\ torn \subseteq torn' /\ disk' = disk /\ status' = status /\ deleted' = deleted
    BY <1>10 DEF Restart, Stop
  <2> QED BY <2>1, <2>2, <2>3, <2>4, <2>5 DEF DocInv
<1> QED
  BY <1>1, <1>2, <1>3, <1>4, <1>5, <1>6, <1>7, <1>8, <1>9, <1>10 DEF Next, ScanStep

-------------------------------------------------------------------------------
\* The uploads that have passed the test and have not written their row.
Uploads == {s \in Slot : flight[s].at \in {"counted", "saved"}}

\* Each upload passed the test when the others on their way were at most the
\* other handlers.
LimitInv == Cardinality(Kept) + Cardinality(Uploads) < MaxDocuments + Cardinality(Slot)

LEMMA Finite ==
  /\ IsFiniteSet(Kept) /\ Cardinality(Kept) \in Nat
  /\ IsFiniteSet(Uploads) /\ Cardinality(Uploads) \in Nat
  /\ Cardinality(Uploads) <= Cardinality(Slot) /\ Cardinality(Slot) \in Nat
BY SlotAssumption, FS_Subset, FS_CardinalityType DEF Kept, Uploads

LEMMA FiniteNext ==
  /\ IsFiniteSet(Kept') /\ Cardinality(Kept') \in Nat
  /\ IsFiniteSet(Uploads') /\ Cardinality(Uploads') \in Nat
  /\ Cardinality(Uploads') <= Cardinality(Slot)
BY SlotAssumption, FS_Subset, FS_CardinalityType DEF Kept, Uploads

\* Most steps keep no further document and begin no upload.
LEMMA NoMoreKept ==
  ASSUME LimitInv, Kept' \subseteq Kept, Uploads' \subseteq Uploads
  PROVE  LimitInv'
<1>1. Cardinality(Kept') <= Cardinality(Kept) BY Finite, FS_Subset
<1>2. Cardinality(Uploads') <= Cardinality(Uploads) BY Finite, FS_Subset
<1> QED BY <1>1, <1>2, Finite, FiniteNext, LimitAssumption DEF LimitInv

LEMMA NextLimit == TypeOK /\ DocInv /\ LimitInv /\ [Next]_vars => LimitInv'
<1> SUFFICES ASSUME TypeOK, DocInv, LimitInv, [Next]_vars PROVE LimitInv' OBVIOUS
<1>k. ASSUME status' = status, deleted \subseteq deleted' PROVE Kept' \subseteq Kept
  BY <1>k DEF Kept
<1>1. CASE UNCHANGED vars
  <2>1. Kept' \subseteq Kept BY <1>1, <1>k DEF vars
  <2>2. Uploads' \subseteq Uploads BY <1>1 DEF vars, Uploads
  <2> QED BY <2>1, <2>2, NoMoreKept
<1>2. ASSUME NEW s \in Slot, CreateRow(s) PROVE LimitInv'
  <2>1. End(s, "saved") BY <1>2 DEF CreateRow
  <2>2. Uploads' = Uploads \ {s} /\ s \in Uploads BY <2>1, EndSlot DEF Uploads
  <2>3. Cardinality(Uploads') = Cardinality(Uploads) - 1
    BY <2>2, Finite, FS_RemoveElement
  <2>4. Kept' \subseteq Kept \union {flight[s].doc} BY <1>2 DEF CreateRow, Kept, TypeOK
  <2>5. /\ IsFiniteSet(Kept \union {flight[s].doc})
        /\ Cardinality(Kept \union {flight[s].doc}) \in Nat
        /\ Cardinality(Kept \union {flight[s].doc}) <= Cardinality(Kept) + 1
    <3>1. IsFiniteSet(Kept) /\ Cardinality(Kept) \in Nat BY Finite
    <3>2. /\ IsFiniteSet(Kept \union {flight[s].doc})
          /\ \/ Cardinality(Kept \union {flight[s].doc}) = Cardinality(Kept)
             \/ Cardinality(Kept \union {flight[s].doc}) = Cardinality(Kept) + 1
      BY <3>1, FS_AddElement
    <3> QED BY <3>1, <3>2
  <2>6. Cardinality(Kept') <= Cardinality(Kept \union {flight[s].doc})
    BY <2>4, <2>5, FS_Subset
  <2> QED BY <2>3, <2>5, <2>6, Finite, FiniteNext, LimitAssumption DEF LimitInv
<1>3. ASSUME NEW s \in Slot, SaveFile(s) PROVE LimitInv'
  <2>1. Kept' \subseteq Kept BY <1>3, <1>k DEF SaveFile
  <2>2. Uploads' \subseteq Uploads BY <1>3, StepSlot DEF SaveFile, Uploads
  <2> QED BY <2>1, <2>2, NoMoreKept
<1>4. ASSUME NEW s \in Slot, RemoveFile(s) PROVE LimitInv'
  <2>1. Kept' \subseteq Kept BY <1>4, <1>k DEF RemoveFile
  <2>2. Uploads' \subseteq Uploads BY <1>4, StepSlot DEF RemoveFile, Uploads
  <2> QED BY <2>1, <2>2, NoMoreKept
<1>5. ASSUME NEW s \in Slot, MarkDeleted(s) \/ Stream(s) PROVE LimitInv'
  <2>1. Kept' \subseteq Kept BY <1>5, <1>k DEF MarkDeleted, Stream
  <2>2. Uploads' \subseteq Uploads BY <1>5, EndSlot DEF MarkDeleted, Stream, Uploads
  <2> QED BY <2>1, <2>2, NoMoreKept
<1>6. CASE Stop
  <2>1. Kept' \subseteq Kept BY <1>6, <1>k DEF Stop
  <2>2. Uploads' \subseteq Uploads BY <1>6 DEF Stop, Uploads, Idle
  <2> QED BY <2>1, <2>2, NoMoreKept
<1>7. ASSUME NEW s \in Slot, Fail(s) PROVE LimitInv'
  <2>1. Kept' \subseteq Kept BY <1>7, <1>k DEF Fail
  <2>2. Uploads' \subseteq Uploads BY <1>7, FailSlot DEF Uploads
  <2> QED BY <2>1, <2>2, NoMoreKept
\* An upload passes the test.
<1>8. ASSUME NEW s \in Slot, NEW d \in Doc, BeginUpload(s, d) PROVE LimitInv'
  <2>1. Kept' = Kept /\ Cardinality(Kept) < MaxDocuments BY <1>8 DEF BeginUpload, Kept
  <2> QED BY <2>1, Finite, FiniteNext, LimitAssumption DEF LimitInv
<1>9. ASSUME NEW s \in Slot, NEW d \in Doc, BeginDelete(s, d) \/ BeginServe(s, d)
      PROVE  LimitInv'
  <2>1. PICK at \in {"deleting", "serving"} : Begin(s, at, d)
    BY <1>9 DEF BeginDelete, BeginServe
  <2>2. Kept' \subseteq Kept BY <1>9, <1>k DEF BeginDelete, BeginServe
  <2>3. Uploads' \subseteq Uploads BY <2>1, BeginSlot DEF Uploads
  <2> QED BY <2>2, <2>3, NoMoreKept
\* A scan begins on a row that is there, and leaves one there.
<1>10. ASSUME NEW d \in Doc, ScanStep(d) PROVE LimitInv'
  <2>1. status[d] # "none"
    BY <1>10 DEF ScanStep, Scan, RemoveInfected, MarkInfected, DocInv, ScansArePending
  <2>2. Kept' \subseteq Kept
    BY <1>10, <2>1 DEF ScanStep, Scan, RemoveInfected, MarkInfected, Kept, TypeOK
  <2>3. Uploads' \subseteq Uploads
    BY <1>10 DEF ScanStep, Scan, RemoveInfected, MarkInfected, Uploads
  <2> QED BY <2>2, <2>3, NoMoreKept
<1>11. ASSUME NEW d \in Doc, ScanFails(d) \/ GetSignedUrl(d) PROVE LimitInv'
  <2>1. Kept' \subseteq Kept BY <1>11, <1>k DEF ScanFails, GetSignedUrl
  <2>2. Uploads' \subseteq Uploads BY <1>11 DEF ScanFails, GetSignedUrl, Uploads
  <2> QED BY <2>1, <2>2, NoMoreKept
<1> QED
  BY <1>1, <1>2, <1>3, <1>4, <1>5, <1>6, <1>7, <1>8, <1>9, <1>10, <1>11
  DEF Next, HandlerStep, StreamMissing, Restart

LEMMA InitLimit == Init => LimitInv
<1> SUFFICES ASSUME Init PROVE LimitInv OBVIOUS
<1>1. Kept = {} /\ Uploads = {} BY DEF Init, Kept, Uploads, Idle
<1>2. Cardinality({}) = 0 BY FS_EmptySet
<1> QED BY <1>1, <1>2, Finite, LimitAssumption DEF LimitInv

-------------------------------------------------------------------------------
\* Documents keeps its types.
THEOREM TypeCorrect == Spec => []TypeOK
BY InitTypes, NextTypes, PTL DEF Spec

\* The file of a deleted or infected document is gone, whatever handlers and
\* failures come between its two writes (deleteDocument and runMalwareScan).
THEOREM RemovedIsGoneAlways == Spec => []RemovedIsGone
<1>1. DocInv => RemovedIsGone BY DEF DocInv
<1> QED BY InitTypes, InitDocs, NextTypes, NextDocs, <1>1, PTL DEF Spec

\* Files and rows match, but for what a handler is between or was ended
\* between (uploadDocument, deleteDocument and runMalwareScan).
THEOREM FilesMatchRowsAlways == Spec => []FilesMatchRows
<1>1. TypeOK /\ DocInv => FilesMatchRows
  <2> SUFFICES ASSUME TypeOK, DocInv, NEW d \in Doc, d \notin torn,
                      ~(d \in disk <=> d \in Kept /\ status[d] # "INFECTED"),
                      scan[d] # "removed"
               PROVE  \E s \in Slot : flight[s] \in [at : {"saved", "removed"}, doc : {d}]
    BY DEF FilesMatchRows
  <2>1. PICK s \in Slot : flight[s].at \in {"saved", "removed"} /\ flight[s].doc = d
    BY DEF DocInv, FileMatchesRow
  <2>2. flight[s] \in [at : {"saved", "removed"}, doc : {d}]
    BY <2>1 DEF TypeOK, Busy, Idle
  <2> QED BY <2>2
<1> QED BY InitTypes, InitDocs, NextTypes, NextDocs, <1>1, PTL DEF Spec

\* Whatever the limit and the number of handlers, parallel uploads exceed
\* the limit by fewer documents than there are handlers (uploadDocument).
THEOREM LimitExceededOnlyByOverlapAlways == Spec => []LimitExceededOnlyByOverlap
<1>1. LimitInv => LimitExceededOnlyByOverlap
  BY Finite, LimitAssumption DEF LimitInv, LimitExceededOnlyByOverlap
<1> QED
  BY InitTypes, InitDocs, InitLimit, NextTypes, NextDocs, NextLimit, <1>1, PTL DEF Spec
=============================================================================
