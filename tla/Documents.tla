----------------------------- MODULE Documents ------------------------------
(***************************************************************************)
(* The documents attached to an application: the owner uploads and deletes *)
(* them, OCR workers read them in the background.  The content is a file   *)
(* in the document storage, everything else a row of the database, and     *)
(* nothing changes both at once.                                           *)
(* Source: documents.go, storage.go, ocr_worker.go and the constraints of  *)
(* migrations 007 and 010.                                                 *)
(*                                                                         *)
(* Every statement here runs in its own transaction, except the result of  *)
(* a worker, so each statement and each file operation is one step.  Calls *)
(* fail and processes die.  What such an accident may leave behind is      *)
(* noted in mishaps, so that the properties can say what each kind of      *)
(* accident costs; one that leaves nothing behind is not noted.            *)
(* Requests of anybody but the owner of the application are refused before *)
(* they change anything and do not appear.                                 *)
(***************************************************************************)
EXTENDS Integers, FiniteSets

CONSTANTS Apps,         \* applications
          Docs,         \* upload requests; each makes its own id and path
          AppOf,        \* [Docs -> Apps]: the application uploaded to
          ContentOf,    \* [Docs -> checksum of what is uploaded]
          Deleters,     \* concurrent DELETE requests
          Workers,      \* replicas of the server, each with its OCR worker
          HasTool,      \* [Workers -> BOOLEAN]: tesseract is installed
          NoDoc,
          maxDocumentsPerApp,
          MaxMishaps    \* bound: accidents that leave something behind

ASSUME DocumentsAssumption == /\ AppOf \in [Docs -> Apps]
                              /\ HasTool \in [Workers -> BOOLEAN]
                              /\ NoDoc \notin Docs
                              /\ maxDocumentsPerApp \in Nat
                              /\ MaxMishaps \in Nat

VARIABLES status,    \* applications.status
          upload,    \* how far each upload is
          files,     \* the documents whose file is in the storage
          ocr,       \* application_documents.ocr_status, NoRow if there is no row
          verified,  \* the documents with rows in document_verifications
          removal,   \* what each DELETE request is doing
          started,   \* the replicas that are running
          worker,    \* what each OCR worker is doing
          mishaps    \* accidents so far, by document

vars == <<status, upload, files, ocr, verified, removal, started, worker, mishaps>>

-----------------------------------------------------------------------------
(* Types *)

documentEditableStatuses == {"pending", "reviewing", "more_info_required"}
\* "funding" stands for everything from the approval to the disbursed loan.
Statuses == documentEditableStatuses \cup {"funding", "rejected"}

NoRow == "no row"
OcrStatuses == {"pending", "processing", "done", "failed", "skipped"}

Uploading == {"new", "admitted", "counted", "stored", "unwanted", "over"}

\* "insert", "result": it was committed, but its answer was an error.
\* "file": a file was not removed.  "claim": a document was taken and not finished.
Kinds == {"insert", "result", "file", "claim"}

Idle == [pc |-> "idle", doc |-> NoDoc]
Removing == {Idle} \cup [pc : {"loaded", "erased"}, doc : Docs]
Working == {Idle} \cup [pc : {"claimed", "loaded", "read", "failed"}, doc : Docs]

TypeOK ==
  /\ status \in [Apps -> Statuses]
  /\ upload \in [Docs -> Uploading]
  /\ files \subseteq Docs
  /\ ocr \in [Docs -> OcrStatuses \cup {NoRow}]
  /\ verified \subseteq Docs
  /\ removal \in [Deleters -> Removing]
  /\ started \subseteq Workers
  /\ worker \in [Workers -> Working]
  /\ mishaps \in [Docs -> SUBSET Kinds]

Init ==
  /\ status = [a \in Apps |-> "pending"]
  /\ upload = [d \in Docs |-> "new"]
  /\ files = {}
  /\ ocr = [d \in Docs |-> NoRow]
  /\ verified = {}
  /\ removal = [h \in Deleters |-> Idle]
  /\ started = {}
  /\ worker = [w \in Workers |-> Idle]
  /\ mishaps = [d \in Docs |-> {}]

Recorded(d) == ocr[d] # NoRow
DocumentsOf(a) == {d \in Docs : AppOf[d] = a /\ Recorded(d)}
CanWrite(a) == status[a] \in documentEditableStatuses

Mishap(d, kind) ==
  /\ Cardinality({x \in Docs \X Kinds : x[2] \in mishaps[x[1]]}) < MaxMishaps
  /\ mishaps' = [mishaps EXCEPT ![d] = mishaps[d] \cup {kind}]
NoMishap == mishaps' = mishaps

-----------------------------------------------------------------------------
(* The application *)

\* A reviewer decides, or asks for more documents.
Review(a) ==
  /\ CanWrite(a)
  /\ \E s \in {"funding", "rejected", "more_info_required"} : status' = [status EXCEPT ![a] = s]
  /\ UNCHANGED <<upload, files, ocr, verified, removal, started, worker, mishaps>>

\* The listing's deadline passes, and the borrower may supply documents again.
FundingExpires(a) ==
  /\ status[a] = "funding"
  /\ status' = [status EXCEPT ![a] = "more_info_required"]
  /\ UNCHANGED <<upload, files, ocr, verified, removal, started, worker, mishaps>>

-----------------------------------------------------------------------------
(* Uploads *)

UploadGoes(d, from, to) == upload[d] = from /\ upload' = [upload EXCEPT ![d] = to]
UploadFrame == UNCHANGED <<status, verified, removal, started, worker>>

Admit(d) ==
  /\ UploadGoes(d, "new", "admitted")
  /\ CanWrite(AppOf[d])
  /\ UploadFrame /\ UNCHANGED <<files, ocr>> /\ NoMishap

Count(d) ==
  /\ UploadGoes(d, "admitted", IF Cardinality(DocumentsOf(AppOf[d])) >= maxDocumentsPerApp
                               THEN "over" ELSE "counted")
  /\ UploadFrame /\ UNCHANGED <<files, ocr>> /\ NoMishap

Store(d) ==
  /\ UploadGoes(d, "counted", "stored")
  /\ files' = files \cup {d}
  /\ UploadFrame /\ UNCHANGED ocr /\ NoMishap

IsDuplicate(d) == \E e \in DocumentsOf(AppOf[d]) : ContentOf[e] = ContentOf[d]

InsertRow(d) ==
  /\ ~ IsDuplicate(d)
  /\ UploadGoes(d, "stored", "over")
  /\ ocr' = [ocr EXCEPT ![d] = "pending"]
  /\ UploadFrame /\ UNCHANGED files /\ NoMishap

\* A unique violation, or any other error that changed nothing.
InsertRefused(d) ==
  /\ UploadGoes(d, "stored", "unwanted")
  /\ UploadFrame /\ UNCHANGED <<files, ocr>> /\ NoMishap

\* The deadline of the request passes, or the connection breaks, after the INSERT
\* was committed: the handler sees the same error.
InsertAnswerLost(d) ==
  /\ ~ IsDuplicate(d)
  /\ UploadGoes(d, "stored", "unwanted")
  /\ ocr' = [ocr EXCEPT ![d] = "pending"]
  /\ Mishap(d, "insert")
  /\ UploadFrame /\ UNCHANGED files

DiscardFile(d) ==
  /\ UploadGoes(d, "unwanted", "over")
  /\ files' = files \ {d}
  /\ UploadFrame /\ UNCHANGED ocr /\ NoMishap

\* The form is refused, the file cannot be written, or the process dies; once the
\* file is there, if only in part, a crash or a failing removal ends the request.
UploadEnds(d) ==
  /\ \/ UploadGoes(d, "admitted", "over") /\ NoMishap
     \/ UploadGoes(d, "counted", "over") /\ NoMishap
     \/ UploadGoes(d, "stored", "over") /\ Mishap(d, "file")
     \/ UploadGoes(d, "unwanted", "over") /\ Mishap(d, "file")
  /\ UploadFrame /\ UNCHANGED <<files, ocr>>

UploadStep(d) ==
  \/ Admit(d) \/ Count(d) \/ Store(d)
  \/ InsertRow(d) \/ InsertRefused(d) \/ InsertAnswerLost(d)
  \/ DiscardFile(d) \/ UploadEnds(d)

-----------------------------------------------------------------------------
(* Deletions *)

RemovalFrame == UNCHANGED <<status, upload, started, worker>>

\* Mutant: the file goes before the row.
FileFirst(h, d) ==
  /\ removal[h] = Idle
  /\ Recorded(d) /\ CanWrite(AppOf[d])
  /\ removal' = [removal EXCEPT ![h] = [pc |-> "loaded", doc |-> d]]
  /\ files' = files \ {d}
  /\ RemovalFrame /\ UNCHANGED <<ocr, verified>> /\ NoMishap

LoadForDelete(h, d) ==
  /\ removal[h] = Idle
  /\ Recorded(d) /\ CanWrite(AppOf[d])
  /\ removal' = [removal EXCEPT ![h] = [pc |-> "loaded", doc |-> d]]
  /\ RemovalFrame /\ UNCHANGED <<files, ocr, verified>> /\ NoMishap

\* Mutant: the foreign key does not cascade.
KeepVerifications(h) ==
  /\ removal[h].pc = "loaded"
  /\ ocr' = [ocr EXCEPT ![removal[h].doc] = NoRow]
  /\ removal' = [removal EXCEPT ![h] = [pc |-> "erased", doc |-> removal[h].doc]]
  /\ RemovalFrame /\ UNCHANGED <<files, verified>> /\ NoMishap

\* The row takes its verifications with it.  DELETE does not mind a missing row.
DeleteRow(h) ==
  /\ removal[h].pc = "loaded"
  /\ ocr' = [ocr EXCEPT ![removal[h].doc] = NoRow]
  /\ verified' = verified \ {removal[h].doc}
  /\ \/ removal' = [removal EXCEPT ![h] = [pc |-> "erased", doc |-> removal[h].doc]] /\ NoMishap
     \/ removal' = [removal EXCEPT ![h] = Idle] /\ Mishap(removal[h].doc, "file")
  /\ RemovalFrame /\ UNCHANGED files

RemoveFile(h) ==
  /\ removal[h].pc = "erased"
  /\ removal' = [removal EXCEPT ![h] = Idle]
  /\ files' = files \ {removal[h].doc}
  /\ RemovalFrame /\ UNCHANGED <<ocr, verified>> /\ NoMishap

\* The DELETE fails without effect, the file cannot be removed, or the process dies.
RemovalEnds(h) ==
  /\ removal[h] # Idle
  /\ IF removal[h].pc = "loaded" THEN NoMishap ELSE Mishap(removal[h].doc, "file")
  /\ removal' = [removal EXCEPT ![h] = Idle]
  /\ RemovalFrame /\ UNCHANGED <<files, ocr, verified>>

RemovalStep(h) ==
  (\E d \in Docs : LoadForDelete(h, d)) \/ DeleteRow(h) \/ RemoveFile(h) \/ RemovalEnds(h)

-----------------------------------------------------------------------------
(* OCR workers *)

Reading(w, d) == worker[w].pc # "idle" /\ worker[w].doc = d
WorkerGoes(w, from, to) == /\ worker[w].pc = from
                           /\ worker' = [worker EXCEPT ![w] = [pc |-> to, doc |-> worker[w].doc]]
WorkerFrame == UNCHANGED <<status, upload, files, removal>>

\* Mutant: documents that another replica has taken are skipped, too.
NotYetDone(d) == ocr[d] \in {"pending", "processing"}
Skippable(d) == ocr[d] = "pending"

\* A replica starts.  Without tesseract it marks what is pending now, and runs no
\* worker; if the UPDATE fails nothing has changed, as if it had not started.
Start(w) ==
  /\ w \notin started
  /\ started' = started \cup {w}
  /\ ocr' = IF HasTool[w] THEN ocr
            ELSE [d \in Docs |-> IF Skippable(d) THEN "skipped" ELSE ocr[d]]
  /\ WorkerFrame /\ UNCHANGED <<verified, worker>> /\ NoMishap

\* A replica stops, in the middle of its work if it has any.  (The restart of an idle
\* worker changes nothing and is left out.)
Stop(w) ==
  /\ w \in started
  /\ started' = started \ {w}
  /\ IF worker[w] = Idle THEN ~ HasTool[w] /\ NoMishap ELSE Mishap(worker[w].doc, "claim")
  /\ worker' = [worker EXCEPT ![w] = Idle]
  /\ WorkerFrame /\ UNCHANGED <<ocr, verified>>

\* Mutant: a document that was left in processing is taken up again.
Unfinished(d) == ocr[d] \in {"pending", "processing"}
Claimable(d) == ocr[d] = "pending"

\* One UPDATE ... FOR UPDATE SKIP LOCKED.  Any pending document may be the one: the
\* oldest that no other claim holds at that moment.
Claim(w) ==
  /\ w \in started /\ HasTool[w] /\ worker[w] = Idle
  /\ \E d \in Docs : /\ Claimable(d)
                     /\ ocr' = [ocr EXCEPT ![d] = "processing"]
                     /\ worker' = [worker EXCEPT ![w] = [pc |-> "claimed", doc |-> d]]
  /\ WorkerFrame /\ UNCHANGED <<verified, started>> /\ NoMishap

ClaimAnswerLost(w) ==
  /\ w \in started /\ HasTool[w] /\ worker[w] = Idle
  /\ \E d \in Docs : /\ Claimable(d)
                     /\ ocr' = [ocr EXCEPT ![d] = "processing"]
                     /\ Mishap(d, "claim")
  /\ WorkerFrame /\ UNCHANGED <<verified, started, worker>>

LoadDocument(w) ==
  /\ WorkerGoes(w, "claimed", IF Recorded(worker[w].doc) THEN "loaded" ELSE "failed")
  /\ WorkerFrame /\ UNCHANGED <<ocr, verified, started>> /\ NoMishap

ReadFile(w) ==
  /\ worker[w].doc \in files
  /\ WorkerGoes(w, "loaded", "read")
  /\ WorkerFrame /\ UNCHANGED <<ocr, verified, started>> /\ NoMishap

\* Any error before the result is stored: no file, no text within 45 seconds, a
\* failing statement.
ReadingFails(w) ==
  /\ \E step \in {"claimed", "loaded", "read"} : WorkerGoes(w, step, "failed")
  /\ WorkerFrame /\ UNCHANGED <<ocr, verified, started>> /\ NoMishap

\* The transaction of the result: the foreign key of document_verifications makes it
\* fail when the document is gone (ReadingFails).
StoreResult(w) ==
  /\ worker[w].pc = "read"
  /\ Recorded(worker[w].doc)
  /\ ocr' = [ocr EXCEPT ![worker[w].doc] = "done"]
  /\ verified' = verified \cup {worker[w].doc}
  /\ \/ worker' = [worker EXCEPT ![w] = Idle] /\ NoMishap
     \/ WorkerGoes(w, "read", "failed") /\ Mishap(worker[w].doc, "result")
  /\ WorkerFrame /\ UNCHANGED started

\* Mutant: only a document that could be opened is marked as failed.
RecordNothing(w) ==
  /\ worker[w].pc = "failed"
  /\ worker' = [worker EXCEPT ![w] = Idle]
  /\ ocr' = IF Recorded(worker[w].doc) /\ worker[w].doc \in files
            THEN [ocr EXCEPT ![worker[w].doc] = "failed"] ELSE ocr
  /\ WorkerFrame /\ UNCHANGED <<verified, started>> /\ NoMishap

\* The status is overwritten whatever it is by now, if the row is still there.
RecordFailure(w) ==
  /\ worker[w].pc = "failed"
  /\ worker' = [worker EXCEPT ![w] = Idle]
  /\ ocr' = IF Recorded(worker[w].doc) THEN [ocr EXCEPT ![worker[w].doc] = "failed"] ELSE ocr
  /\ WorkerFrame /\ UNCHANGED <<verified, started>> /\ NoMishap

RecordFailureFails(w) ==
  /\ worker[w].pc = "failed"
  /\ worker' = [worker EXCEPT ![w] = Idle]
  /\ Mishap(worker[w].doc, "claim")
  /\ WorkerFrame /\ UNCHANGED <<ocr, verified, started>>

WorkerStep(w) ==
  \/ Start(w) \/ Stop(w) \/ Claim(w) \/ ClaimAnswerLost(w)
  \/ LoadDocument(w) \/ ReadFile(w) \/ ReadingFails(w)
  \/ StoreResult(w) \/ RecordFailure(w) \/ RecordFailureFails(w)

-----------------------------------------------------------------------------

Next ==
  \/ \E a \in Apps : Review(a) \/ FundingExpires(a)
  \/ \E d \in Docs : UploadStep(d)
  \/ \E h \in Deleters : RemovalStep(h)
  \/ \E w \in Workers : WorkerStep(w)

\* A replica is started once, and its worker goes on as long as it runs.
Works(w) == Claim(w) \/ LoadDocument(w) \/ ReadFile(w) \/ ReadingFails(w) \/ StoreResult(w) \/ RecordFailure(w)
Fairness == \A w \in Workers : WF_vars(Start(w)) /\ WF_vars(Works(w))

Spec == Init /\ [][Next]_vars /\ Fairness

-----------------------------------------------------------------------------
(* Properties *)

\* No record points to a missing file (documents.go: the file is written before the
\* row and removed after it), whatever uploads, deletions and crashes come together.
\* The exception is a row whose INSERT was committed and answered with an error: the
\* handler then removes the file of a document that exists.
NoBrokenLink ==
  \A d \in Docs : Recorded(d) /\ d \notin files => "insert" \in mishaps[d]

\* A file without a row belongs to a request that is still at work on it, or is the
\* rest of one that died or could not remove it.
NoFileForgotten ==
  \A d \in files :
    \/ Recorded(d)
    \/ upload[d] \in {"stored", "unwanted"}
    \/ \E h \in Deleters : removal[h].pc = "erased" /\ removal[h].doc = d
    \/ "file" \in mishaps[d]

\* Neither is ever without the other, uploads, deletions and crashes interleaved as
\* they may be, but for what an accident left (documents.go writes the file before the
\* row and removes it after the row).
FilesMatchRows == NoBrokenLink /\ NoFileForgotten

\* A document in processing is in the hands of exactly one worker of all replicas;
\* without one it was lost in an accident.
OneWorkerEach ==
  /\ \A d \in Docs : ocr[d] = "processing" =>
       (\E w \in Workers : Reading(w, d)) \/ "claim" \in mishaps[d]
  /\ \A v, w \in Workers : \A d \in Docs : Reading(v, d) /\ Reading(w, d) => v = w

\* A document is done exactly when the comparisons with the application are recorded,
\* and neither outlives the document; only a result whose answer was lost is
\* overwritten with failed while its comparisons stay.
DoneIffVerified ==
  \A d \in Docs : \/ ocr[d] = "done" <=> d \in verified
                  \/ ocr[d] = "failed" /\ "result" \in mishaps[d]

NextStatus(d) ==
  CASE ocr[d] = NoRow        -> {NoRow, "pending"}
    [] ocr[d] = "pending"    -> {NoRow, "pending", "processing", "skipped"}
    [] ocr[d] = "processing" -> {NoRow, "processing", "done", "failed"}
    [] ocr[d] = "done"       -> {NoRow, "done"} \cup (IF "result" \in mishaps[d] THEN {"failed"} ELSE {})
    [] OTHER                 -> {NoRow, ocr[d]}

\* OCR goes one way: nothing is read twice, nothing that is being read is skipped,
\* and a result is replaced only after an accident.
OcrGoesForward == [][\A d \in Docs : ocr'[d] \in NextStatus(d)]_vars

\* What is uploaded is read in the end, or skipped, or deleted, unless the worker that
\* took it had an accident.
TakenUp ==
  \A d \in Docs : ocr[d] = "pending" ~>
    ocr[d] \in {NoRow, "done", "failed", "skipped"} \/ "claim" \in mishaps[d]

=============================================================================
