-------------------------- MODULE DocumentsProofs ---------------------------
(***************************************************************************)
(* Documents: no broken links, no forgotten files and one worker for each  *)
(* document, for any number of applications, documents, requests and       *)
(* replicas, and any number of accidents.                                  *)
(***************************************************************************)
EXTENDS Documents, TLAPS

-----------------------------------------------------------------------------
(* What the properties rest on *)

\* A document exists only from the end of its upload on: there is no row, no
\* deletion and no worker for one that is being uploaded.
UploadsEndFirst ==
  /\ \A d \in Docs : Recorded(d) => upload[d] \in {"unwanted", "over"}
  /\ \A h \in Deleters : removal[h].pc # "idle" => upload[removal[h].doc] \in {"unwanted", "over"}
  /\ \A w \in Workers : worker[w].pc # "idle" => upload[worker[w].doc] \in {"unwanted", "over"}

\* The file is there before the row, and what an upload is about to discard has no
\* row unless the answer was lost.
FilesComeFirst ==
  /\ \A d \in Docs : upload[d] = "stored" => d \in files
  /\ \A d \in Docs : upload[d] = "unwanted" /\ Recorded(d) => "insert" \in mishaps[d]

\* The row goes before the file, for good.
RowsGoFirst == \A h \in Deleters : removal[h].pc = "erased" => ~ Recorded(removal[h].doc)

\* The status of a document while a worker has it.
WhileReading ==
  \A w \in Workers : worker[w].pc # "idle" =>
    \/ ocr[worker[w].doc] \in {NoRow, "processing"}
    \/ /\ worker[w].pc = "failed"
       /\ ocr[worker[w].doc] = "done"
       /\ "result" \in mishaps[worker[w].doc]

FilesInv == UploadsEndFirst /\ FilesComeFirst /\ RowsGoFirst /\ NoBrokenLink /\ NoFileForgotten
ReadingInv == WhileReading /\ OneWorkerEach /\ DoneIffVerified
DInv == TypeOK /\ FilesInv /\ ReadingInv

-----------------------------------------------------------------------------
(* Types *)

RemovalSteps == {"loaded", "erased"}
WorkSteps == {"claimed", "loaded", "read", "failed"}

LEMMA FieldsShape ==
  \A r, step, d : r = [pc |-> step, doc |-> d] => r.pc = step /\ r.doc = d
  OBVIOUS

LEMMA IdleShape == Idle.pc = "idle" /\ Idle \in Removing /\ Idle \in Working
  BY DEF Idle, Removing, Working

LEMMA RemovingShape ==
  /\ \A r \in Removing : r = Idle \/ (r.pc \in RemovalSteps /\ r.doc \in Docs)
  /\ \A step \in RemovalSteps, d \in Docs : [pc |-> step, doc |-> d] \in Removing
  BY DEF Removing, RemovalSteps

LEMMA WorkingShape ==
  /\ \A r \in Working : r = Idle \/ (r.pc \in WorkSteps /\ r.doc \in Docs)
  /\ \A step \in WorkSteps, d \in Docs : [pc |-> step, doc |-> d] \in Working
  BY DEF Working, WorkSteps

LEMMA MishapShape ==
  ASSUME mishaps \in [Docs -> SUBSET Kinds]
  PROVE  \A d \in Docs, kind \in Kinds : Mishap(d, kind) =>
           /\ mishaps' \in [Docs -> SUBSET Kinds]
           /\ \A e \in Docs : mishaps[e] \subseteq mishaps'[e]
           /\ kind \in mishaps'[d]
  BY DEF Mishap

USE DEF Uploading, Kinds, NoRow, OcrStatuses

LEMMA TypeInit == Init => TypeOK
<1> SUFFICES ASSUME Init PROVE TypeOK
  OBVIOUS
<1>1. /\ status \in [Apps -> Statuses]
      /\ mishaps \in [Docs -> SUBSET Kinds]
  BY DEF Init, Statuses, documentEditableStatuses
<1>2. /\ upload \in [Docs -> Uploading]
      /\ ocr \in [Docs -> OcrStatuses \cup {NoRow}]
  BY DEF Init
<1>3. removal \in [Deleters -> Removing] /\ worker \in [Workers -> Working]
  BY IdleShape DEF Init
<1>4. files \subseteq Docs /\ verified \subseteq Docs /\ started \subseteq Workers
  BY DEF Init
<1> QED BY <1>1, <1>2, <1>3, <1>4 DEF TypeOK

LEMMA TypeStep == TypeOK /\ [Next]_vars => TypeOK'
<1> SUFFICES ASSUME TypeOK, [Next]_vars PROVE TypeOK'
  OBVIOUS
<1> USE MishapShape DEF TypeOK, NoMishap
<1>1. CASE UNCHANGED vars
  BY <1>1 DEF vars
<1>2. ASSUME NEW a \in Apps, Review(a) \/ FundingExpires(a) PROVE TypeOK'
  BY <1>2 DEF Review, FundingExpires, Statuses, documentEditableStatuses
<1>3. ASSUME NEW d \in Docs, UploadStep(d) PROVE TypeOK'
  <2> USE DEF UploadGoes, UploadFrame
  <2>1. CASE Admit(d)
    BY <2>1 DEF Admit
  <2>2. CASE Count(d)
    BY <2>2 DEF Count
  <2>3. CASE Store(d) \/ InsertRow(d)
    BY <2>3 DEF Store, InsertRow
  <2>4. CASE InsertRefused(d) \/ InsertAnswerLost(d)
    BY <2>4 DEF InsertRefused, InsertAnswerLost
  <2>5. CASE DiscardFile(d) \/ UploadEnds(d)
    BY <2>5 DEF DiscardFile, UploadEnds
  <2> QED BY <1>3, <2>1, <2>2, <2>3, <2>4, <2>5 DEF UploadStep
<1>4. ASSUME NEW h \in Deleters, RemovalStep(h) PROVE TypeOK'
  <2> USE DEF RemovalFrame
  <2>1. ASSUME NEW d \in Docs, LoadForDelete(h, d) PROVE TypeOK'
    BY <2>1, RemovingShape DEF LoadForDelete, RemovalSteps
  <2>2. ASSUME NEW d \in Docs, removal[h].doc = d, DeleteRow(h) PROVE TypeOK'
    <3>1. [pc |-> "erased", doc |-> d] \in Removing
      BY RemovingShape DEF RemovalSteps
    <3>2. removal' \in [Deleters -> Removing]
      BY <2>2, <3>1, IdleShape DEF DeleteRow
    <3>3. ocr' \in [Docs -> OcrStatuses \cup {NoRow}] /\ verified' \subseteq Docs
      BY <2>2 DEF DeleteRow
    <3>4. mishaps' \in [Docs -> SUBSET Kinds]
      BY <2>2 DEF DeleteRow
    <3> QED BY <2>2, <3>2, <3>3, <3>4 DEF DeleteRow
  <2>3. ASSUME NEW d \in Docs, removal[h].doc = d, RemoveFile(h) \/ RemovalEnds(h) PROVE TypeOK'
    <3>1. CASE RemoveFile(h)
      BY <3>1, IdleShape DEF RemoveFile
    <3>2. CASE RemovalEnds(h)
      <4>1. mishaps' \in [Docs -> SUBSET Kinds]
        BY <2>3, <3>2 DEF RemovalEnds
      <4>2. removal' \in [Deleters -> Removing]
        BY <3>2, IdleShape DEF RemovalEnds
      <4> QED BY <3>2, <4>1, <4>2 DEF RemovalEnds
    <3> QED BY <2>3, <3>1, <3>2
  <2>4. removal[h] # Idle => removal[h].doc \in Docs
    BY RemovingShape
  <2>5. DeleteRow(h) \/ RemoveFile(h) \/ RemovalEnds(h) => removal[h] # Idle
    BY IdleShape DEF DeleteRow, RemoveFile, RemovalEnds
  <2> QED BY <1>4, <2>1, <2>2, <2>3, <2>4, <2>5 DEF RemovalStep
<1>5. ASSUME NEW w \in Workers, WorkerStep(w) PROVE TypeOK'
  <2> USE IdleShape DEF WorkerFrame, WorkerGoes
  <2>1. CASE Start(w)
    BY <2>1 DEF Start
  <2>2. ASSUME NEW d \in Docs, ocr' = [ocr EXCEPT ![d] = "processing"],
               \/ worker' = [worker EXCEPT ![w] = [pc |-> "claimed", doc |-> d]] /\ NoMishap
               \/ worker' = worker /\ Mishap(d, "claim"),
               UNCHANGED <<status, upload, files, removal, verified, started>>
        PROVE  TypeOK'
    <3>1. [pc |-> "claimed", doc |-> d] \in Working
      BY WorkingShape DEF WorkSteps
    <3>2. worker' \in [Workers -> Working]
      BY <2>2, <3>1
    <3>3. mishaps' \in [Docs -> SUBSET Kinds]
      BY <2>2
    <3> QED BY <2>2, <3>2, <3>3
  <2>3. ASSUME NEW d \in Docs, worker[w].doc = d,
               LoadDocument(w) \/ ReadFile(w) \/ ReadingFails(w) \/ StoreResult(w)
        PROVE  TypeOK'
    <3>1. \A step \in WorkSteps : [pc |-> step, doc |-> d] \in Working
      BY WorkingShape
    <3>2. worker' \in [Workers -> Working]
      <4>1. \E step \in WorkSteps : worker' \in {[worker EXCEPT ![w] = [pc |-> step, doc |-> d]],
                                               [worker EXCEPT ![w] = Idle]}
        BY <2>3 DEF LoadDocument, ReadFile, ReadingFails, StoreResult, WorkSteps
      <4> QED BY <3>1, <4>1
    <3>3. CASE LoadDocument(w) \/ ReadFile(w) \/ ReadingFails(w)
      BY <3>2, <3>3 DEF LoadDocument, ReadFile, ReadingFails
    <3>4. CASE StoreResult(w)
      BY <2>3, <3>2, <3>4 DEF StoreResult
    <3> QED BY <2>3, <3>3, <3>4
  <2>4. ASSUME NEW d \in Docs, worker[w].doc = d, worker[w] # Idle,
               Stop(w) \/ RecordFailure(w) \/ RecordFailureFails(w)
        PROVE  TypeOK'
    <3>1. worker' \in [Workers -> Working]
      BY <2>4 DEF Stop, RecordFailure, RecordFailureFails
    <3>2. CASE Stop(w) \/ RecordFailureFails(w)
      BY <2>4, <3>1, <3>2 DEF Stop, RecordFailureFails
    <3>3. CASE RecordFailure(w)
      BY <3>1, <3>3 DEF RecordFailure
    <3> QED BY <2>4, <3>2, <3>3
  <2>5. CASE worker[w] = Idle /\ Stop(w)
    BY <2>5 DEF Stop
  <2>6. worker[w] # Idle => worker[w].doc \in Docs
    BY WorkingShape
  <2>7. WorkerStep(w) => Start(w) \/ Claim(w) \/ ClaimAnswerLost(w) \/ Stop(w) \/ worker[w] # Idle
    BY DEF WorkerStep, LoadDocument, ReadFile, ReadingFails, StoreResult, RecordFailure, RecordFailureFails
  <2>8. Claim(w) \/ ClaimAnswerLost(w) => TypeOK'
    BY <2>2 DEF Claim, ClaimAnswerLost
  <2> QED BY <1>5, <2>1, <2>3, <2>4, <2>5, <2>6, <2>7, <2>8 DEF WorkerStep
<1> QED BY <1>1, <1>2, <1>3, <1>4, <1>5 DEF Next

\* Every variable keeps its type: rows only ever have the statuses of migration 010,
\* and a request or a worker that is idle has no document.
THEOREM TypeCorrect == Spec => []TypeOK
  BY TypeInit, TypeStep, PTL DEF Spec

-----------------------------------------------------------------------------
(* Files and rows *)

\* Accidents are not forgotten.
LEMMA MishapsGrow ==
  ASSUME TypeOK, [Next]_vars
  PROVE  \A d \in Docs : mishaps[d] \subseteq mishaps'[d]
<1> USE MishapShape DEF TypeOK, NoMishap
<1>1. CASE UNCHANGED vars
  BY <1>1 DEF vars
<1>2. ASSUME NEW a \in Apps, Review(a) \/ FundingExpires(a)
      PROVE  \A d \in Docs : mishaps[d] \subseteq mishaps'[d]
  BY <1>2 DEF Review, FundingExpires
<1>3. ASSUME NEW e \in Docs, UploadStep(e)
      PROVE  \A d \in Docs : mishaps[d] \subseteq mishaps'[d]
  BY <1>3 DEF UploadStep, Admit, Count, Store, InsertRow, InsertRefused, InsertAnswerLost,
              DiscardFile, UploadEnds
<1>4. ASSUME NEW h \in Deleters, RemovalStep(h)
      PROVE  \A d \in Docs : mishaps[d] \subseteq mishaps'[d]
  BY <1>4, IdleShape, RemovingShape
     DEF RemovalStep, LoadForDelete, DeleteRow, RemoveFile, RemovalEnds
<1>5. ASSUME NEW w \in Workers, WorkerStep(w)
      PROVE  \A d \in Docs : mishaps[d] \subseteq mishaps'[d]
  BY <1>5, IdleShape, WorkingShape
     DEF WorkerStep, Start, Stop, Claim, ClaimAnswerLost, LoadDocument, ReadFile, ReadingFails,
         StoreResult, RecordFailure, RecordFailureFails
<1> QED BY <1>1, <1>2, <1>3, <1>4, <1>5 DEF Next

LEMMA FilesInit == Init => FilesInv
  BY IdleShape DEF Init, FilesInv, UploadsEndFirst, FilesComeFirst, RowsGoFirst, NoBrokenLink,
     NoFileForgotten, Recorded

LEMMA FilesStep == TypeOK /\ FilesInv /\ [Next]_vars => FilesInv'
<1> SUFFICES ASSUME TypeOK, FilesInv, [Next]_vars PROVE FilesInv'
  OBVIOUS
<1>t. /\ upload \in [Docs -> Uploading] /\ ocr \in [Docs -> OcrStatuses \cup {NoRow}]
      /\ files \subseteq Docs /\ mishaps \in [Docs -> SUBSET Kinds]
      /\ removal \in [Deleters -> Removing] /\ worker \in [Workers -> Working]
  BY DEF TypeOK
<1>g. \A d \in Docs : mishaps[d] \subseteq mishaps'[d]
  BY MishapsGrow
<1>d. /\ \A h \in Deleters : removal[h].pc # "idle" => removal[h].doc \in Docs
      /\ \A w \in Workers : worker[w].pc # "idle" => worker[w].doc \in Docs
  BY <1>t, IdleShape, RemovingShape, WorkingShape
<1>i. UploadsEndFirst /\ FilesComeFirst /\ RowsGoFirst /\ NoBrokenLink /\ NoFileForgotten
  BY DEF FilesInv
<1> USE <1>t, <1>g, <1>i, <1>d DEF Recorded, NoMishap
<1> DEFINE Unmoved == UNCHANGED <<upload, files, ocr, removal, worker, mishaps>>
<1>1. ASSUME Unmoved PROVE FilesInv'
  <2>1. UploadsEndFirst'
    BY <1>1 DEF UploadsEndFirst
  <2>2. FilesComeFirst' /\ RowsGoFirst'
    BY <1>1 DEF FilesComeFirst, RowsGoFirst
  <2>3. NoBrokenLink' /\ NoFileForgotten'
    BY <1>1 DEF NoBrokenLink, NoFileForgotten
  <2> QED BY <2>1, <2>2, <2>3 DEF FilesInv
<1>2. ASSUME NEW d \in Docs, UploadStep(d) PROVE FilesInv'
  <2> USE DEF UploadGoes, UploadFrame
  <2>1. CASE Admit(d)
    <3>1. UploadsEndFirst'
      BY <2>1 DEF Admit, UploadsEndFirst
    <3>2. FilesComeFirst'
      BY <2>1 DEF Admit, FilesComeFirst, UploadsEndFirst
    <3>3. RowsGoFirst'
      BY <2>1 DEF Admit, RowsGoFirst, UploadsEndFirst
    <3>4. NoBrokenLink'
      BY <2>1 DEF Admit, NoBrokenLink, FilesComeFirst, RowsGoFirst
    <3>5. NoFileForgotten'
      BY <2>1 DEF Admit, NoFileForgotten
    <3> QED BY <3>1, <3>2, <3>3, <3>4, <3>5 DEF FilesInv
  <2>2. CASE Count(d)
    <3>1. UploadsEndFirst'
      BY <2>2 DEF Count, UploadsEndFirst
    <3>2. FilesComeFirst'
      BY <2>2 DEF Count, FilesComeFirst, UploadsEndFirst
    <3>3. RowsGoFirst'
      BY <2>2 DEF Count, RowsGoFirst, UploadsEndFirst
    <3>4. NoBrokenLink'
      BY <2>2 DEF Count, NoBrokenLink, FilesComeFirst, RowsGoFirst
    <3>5. NoFileForgotten'
      BY <2>2 DEF Count, NoFileForgotten
    <3> QED BY <3>1, <3>2, <3>3, <3>4, <3>5 DEF FilesInv
  <2>3. CASE Store(d)
    <3>1. UploadsEndFirst'
      BY <2>3 DEF Store, UploadsEndFirst
    <3>2. FilesComeFirst'
      BY <2>3 DEF Store, FilesComeFirst, UploadsEndFirst
    <3>3. RowsGoFirst'
      BY <2>3 DEF Store, RowsGoFirst, UploadsEndFirst
    <3>4. NoBrokenLink'
      BY <2>3 DEF Store, NoBrokenLink, FilesComeFirst, RowsGoFirst
    <3>5. NoFileForgotten'
      <4> SUFFICES ASSUME NEW e \in files' PROVE NoFileForgotten!(e)'
        BY DEF NoFileForgotten
      <4>1. CASE e = d
        BY <2>3, <4>1 DEF Store
      <4>2. CASE e # d
        BY <2>3, <4>2 DEF Store, NoFileForgotten
      <4> QED BY <4>1, <4>2
    <3> QED BY <3>1, <3>2, <3>3, <3>4, <3>5 DEF FilesInv
  <2>4. CASE InsertRow(d)
    <3>1. UploadsEndFirst'
      BY <2>4 DEF InsertRow, UploadsEndFirst
    <3>2. FilesComeFirst'
      BY <2>4 DEF InsertRow, FilesComeFirst, UploadsEndFirst
    <3>3. RowsGoFirst'
      BY <2>4 DEF InsertRow, RowsGoFirst, UploadsEndFirst
    <3>4. NoBrokenLink'
      BY <2>4 DEF InsertRow, NoBrokenLink, FilesComeFirst, RowsGoFirst
    <3>5. NoFileForgotten'
      BY <2>4 DEF InsertRow, NoFileForgotten
    <3> QED BY <3>1, <3>2, <3>3, <3>4, <3>5 DEF FilesInv
  <2>5. CASE InsertRefused(d)
    <3>1. UploadsEndFirst'
      BY <2>5 DEF InsertRefused, UploadsEndFirst
    <3>2. FilesComeFirst'
      BY <2>5 DEF InsertRefused, FilesComeFirst, UploadsEndFirst
    <3>3. RowsGoFirst'
      BY <2>5 DEF InsertRefused, RowsGoFirst, UploadsEndFirst
    <3>4. NoBrokenLink'
      BY <2>5 DEF InsertRefused, NoBrokenLink, FilesComeFirst, RowsGoFirst
    <3>5. NoFileForgotten'
      BY <2>5 DEF InsertRefused, NoFileForgotten
    <3> QED BY <3>1, <3>2, <3>3, <3>4, <3>5 DEF FilesInv
  <2>6. CASE InsertAnswerLost(d)
    <3>1. UploadsEndFirst'
      BY <2>6, MishapShape DEF InsertAnswerLost, UploadsEndFirst
    <3>2. FilesComeFirst'
      BY <2>6, MishapShape DEF InsertAnswerLost, FilesComeFirst, UploadsEndFirst
    <3>3. RowsGoFirst'
      BY <2>6, MishapShape DEF InsertAnswerLost, RowsGoFirst, UploadsEndFirst
    <3>4. NoBrokenLink'
      BY <2>6, MishapShape DEF InsertAnswerLost, NoBrokenLink, FilesComeFirst, RowsGoFirst
    <3>5. NoFileForgotten'
      BY <2>6, MishapShape DEF InsertAnswerLost, NoFileForgotten
    <3> QED BY <3>1, <3>2, <3>3, <3>4, <3>5 DEF FilesInv
  <2>7. CASE DiscardFile(d)
    <3>1. UploadsEndFirst'
      BY <2>7 DEF DiscardFile, UploadsEndFirst
    <3>2. FilesComeFirst'
      BY <2>7 DEF DiscardFile, FilesComeFirst, UploadsEndFirst
    <3>3. RowsGoFirst'
      BY <2>7 DEF DiscardFile, RowsGoFirst, UploadsEndFirst
    <3>4. NoBrokenLink'
      BY <2>7 DEF DiscardFile, NoBrokenLink, FilesComeFirst, RowsGoFirst
    <3>5. NoFileForgotten'
      BY <2>7 DEF DiscardFile, NoFileForgotten
    <3> QED BY <3>1, <3>2, <3>3, <3>4, <3>5 DEF FilesInv
  <2>8. CASE UploadEnds(d)
    <3>1. UploadsEndFirst'
      BY <2>8, MishapShape DEF UploadEnds, UploadsEndFirst
    <3>2. FilesComeFirst'
      BY <2>8, MishapShape DEF UploadEnds, FilesComeFirst, UploadsEndFirst
    <3>3. RowsGoFirst'
      BY <2>8, MishapShape DEF UploadEnds, RowsGoFirst, UploadsEndFirst
    <3>4. NoBrokenLink'
      BY <2>8, MishapShape DEF UploadEnds, NoBrokenLink, FilesComeFirst, RowsGoFirst
    <3>5. NoFileForgotten'
      BY <2>8, MishapShape DEF UploadEnds, NoFileForgotten
    <3> QED BY <3>1, <3>2, <3>3, <3>4, <3>5 DEF FilesInv
  <2> QED BY <1>2, <2>1, <2>2, <2>3, <2>4, <2>5, <2>6, <2>7, <2>8 DEF UploadStep
<1>3. ASSUME NEW h \in Deleters, RemovalStep(h) PROVE FilesInv'
  <2> USE DEF RemovalFrame
  <2>1. ASSUME NEW d \in Docs, LoadForDelete(h, d) PROVE FilesInv'
    <3>1. UploadsEndFirst'
      BY <2>1, IdleShape DEF LoadForDelete, UploadsEndFirst
    <3>2. FilesComeFirst'
      BY <2>1, IdleShape DEF LoadForDelete, FilesComeFirst, UploadsEndFirst
    <3>3. RowsGoFirst'
      BY <2>1, IdleShape DEF LoadForDelete, RowsGoFirst, UploadsEndFirst
    <3>4. NoBrokenLink'
      BY <2>1, IdleShape DEF LoadForDelete, NoBrokenLink, FilesComeFirst, RowsGoFirst
    <3>5. NoFileForgotten'
      BY <2>1, IdleShape DEF LoadForDelete, NoFileForgotten
    <3> QED BY <3>1, <3>2, <3>3, <3>4, <3>5 DEF FilesInv
  <2>2. CASE DeleteRow(h)
    <3>9. PICK d \in Docs : removal[h].doc = d /\ upload[d] \in {"unwanted", "over"}
      BY <2>2 DEF DeleteRow, UploadsEndFirst
    <3>1. d \in Docs /\ upload[d] \in {"unwanted", "over"}
      BY <3>9
    <3>2. /\ ocr' = [ocr EXCEPT ![d] = NoRow]
          /\ UNCHANGED <<upload, files, worker>>
      BY <2>2, <3>9 DEF DeleteRow
    <3>3. \/ removal' = [removal EXCEPT ![h] = [pc |-> "erased", doc |-> d]]
          \/ removal' = [removal EXCEPT ![h] = Idle] /\ "file" \in mishaps'[d]
      BY <2>2, <3>9, MishapShape DEF DeleteRow
    <3>0. \/ removal'[h].pc = "erased" /\ removal'[h].doc = d
          \/ removal'[h].pc = "idle" /\ "file" \in mishaps'[d]
      <4>1. removal'[h] = [pc |-> "erased", doc |-> d] \/ (removal'[h] = Idle /\ "file" \in mishaps'[d])
        BY <3>3
      <4>2. CASE removal'[h] = [pc |-> "erased", doc |-> d]
        BY <4>2, FieldsShape
      <4>3. CASE removal'[h] = Idle /\ "file" \in mishaps'[d]
        BY <4>3, IdleShape
      <4> QED BY <4>1, <4>2, <4>3
    <3>4. \A g \in Deleters :
            \/ removal'[g] = removal[g]
            \/ g = h /\ removal'[g].pc = "erased" /\ removal'[g].doc = d
            \/ g = h /\ removal'[g].pc = "idle" /\ "file" \in mishaps'[d]
      <4> SUFFICES ASSUME NEW g \in Deleters, removal'[g] # removal[g]
                   PROVE  \/ g = h /\ removal'[g].pc = "erased" /\ removal'[g].doc = d
                          \/ g = h /\ removal'[g].pc = "idle" /\ "file" \in mishaps'[d]
        OBVIOUS
      <4>1. g = h
        BY <3>3
      <4> QED BY <3>0, <4>1
    <3>5. UploadsEndFirst'
      BY <3>1, <3>2, <3>4 DEF UploadsEndFirst
    <3>6. FilesComeFirst' /\ NoBrokenLink'
      BY <3>2 DEF FilesComeFirst, NoBrokenLink
    <3>7. RowsGoFirst'
      <4> SUFFICES ASSUME NEW g \in Deleters, removal'[g].pc = "erased"
                   PROVE  ocr'[removal'[g].doc] = NoRow
        BY DEF RowsGoFirst
      <4>1. removal'[g].doc = d \/ removal'[g] = removal[g]
        BY <3>4
      <4>2. ocr'[d] = NoRow
        BY <3>1, <3>2
      <4>3. removal'[g] = removal[g] => ocr[removal[g].doc] = NoRow /\ removal[g].doc \in Docs
        BY DEF RowsGoFirst
      <4> QED BY <3>2, <4>1, <4>2, <4>3
    <3>8. NoFileForgotten'
      <4> SUFFICES ASSUME NEW e \in files' PROVE NoFileForgotten!(e)'
        BY DEF NoFileForgotten
      <4>1. CASE e = d
        BY <3>0, <4>1
      <4>2. CASE e # d
        <5>1. \A g \in Deleters : removal[g].pc = "erased" /\ removal[g].doc = e => removal'[g] = removal[g]
          BY <2>2, <3>9, <3>4, <4>2 DEF DeleteRow
        <5> QED BY <3>2, <4>2, <5>1 DEF NoFileForgotten
      <4> QED BY <4>1, <4>2
    <3> QED BY <3>5, <3>6, <3>7, <3>8 DEF FilesInv
  <2>3. CASE RemoveFile(h)
    <3>1. UploadsEndFirst'
      BY <2>3, IdleShape DEF RemoveFile, UploadsEndFirst
    <3>2. FilesComeFirst'
      BY <2>3, IdleShape DEF RemoveFile, FilesComeFirst, UploadsEndFirst
    <3>3. RowsGoFirst'
      BY <2>3, IdleShape DEF RemoveFile, RowsGoFirst, UploadsEndFirst
    <3>4. NoBrokenLink'
      BY <2>3, IdleShape DEF RemoveFile, NoBrokenLink, FilesComeFirst, RowsGoFirst
    <3>5. NoFileForgotten'
      BY <2>3, IdleShape DEF RemoveFile, NoFileForgotten
    <3> QED BY <3>1, <3>2, <3>3, <3>4, <3>5 DEF FilesInv
  <2>4. CASE RemovalEnds(h)
    <3>1. UploadsEndFirst'
      BY <2>4, IdleShape, MishapShape DEF RemovalEnds, UploadsEndFirst
    <3>2. FilesComeFirst'
      BY <2>4, IdleShape, MishapShape DEF RemovalEnds, FilesComeFirst, UploadsEndFirst
    <3>3. RowsGoFirst'
      BY <2>4, IdleShape, MishapShape DEF RemovalEnds, RowsGoFirst, UploadsEndFirst
    <3>4. NoBrokenLink'
      BY <2>4, IdleShape, MishapShape DEF RemovalEnds, NoBrokenLink, FilesComeFirst, RowsGoFirst
    <3>5. NoFileForgotten'
      BY <2>4, IdleShape, MishapShape DEF RemovalEnds, NoFileForgotten
    <3> QED BY <3>1, <3>2, <3>3, <3>4, <3>5 DEF FilesInv
  <2> QED BY <1>3, <2>1, <2>2, <2>3, <2>4 DEF RemovalStep
<1>4. ASSUME NEW w \in Workers, WorkerStep(w) PROVE FilesInv'
  <2> USE DEF WorkerFrame, WorkerGoes
  <2>1. CASE Start(w)
    <3>1. UploadsEndFirst'
      BY <2>1 DEF Start, Skippable, UploadsEndFirst
    <3>2. FilesComeFirst'
      BY <2>1 DEF Start, Skippable, FilesComeFirst, UploadsEndFirst
    <3>3. RowsGoFirst'
      BY <2>1 DEF Start, Skippable, RowsGoFirst, UploadsEndFirst
    <3>4. NoBrokenLink'
      BY <2>1 DEF Start, Skippable, NoBrokenLink, FilesComeFirst, RowsGoFirst
    <3>5. NoFileForgotten'
      BY <2>1 DEF Start, Skippable, NoFileForgotten
    <3> QED BY <3>1, <3>2, <3>3, <3>4, <3>5 DEF FilesInv
  <2>2. CASE Stop(w)
    <3>1. UploadsEndFirst'
      BY <2>2, IdleShape DEF Stop, UploadsEndFirst
    <3>2. FilesComeFirst'
      BY <2>2, IdleShape DEF Stop, FilesComeFirst, UploadsEndFirst
    <3>3. RowsGoFirst'
      BY <2>2, IdleShape DEF Stop, RowsGoFirst, UploadsEndFirst
    <3>4. NoBrokenLink'
      BY <2>2, IdleShape DEF Stop, NoBrokenLink, FilesComeFirst, RowsGoFirst
    <3>5. NoFileForgotten'
      BY <2>2, IdleShape DEF Stop, NoFileForgotten
    <3> QED BY <3>1, <3>2, <3>3, <3>4, <3>5 DEF FilesInv
  <2>3. CASE Claim(w)
    <3>1. UploadsEndFirst'
      <4>1. PICK d \in Docs : Claimable(d) /\ worker' = [worker EXCEPT ![w] = [pc |-> "claimed", doc |-> d]]
        BY <2>3 DEF Claim
      <4>2. upload[d] \in {"unwanted", "over"}
        BY <4>1 DEF Claimable, UploadsEndFirst
      <4>3. \A v \in Workers : worker'[v].pc # "idle" => upload[worker'[v].doc] \in {"unwanted", "over"}
        <5> TAKE v \in Workers
        <5>1. CASE v = w
          BY <4>1, <4>2, <5>1
        <5>2. CASE v # w
          BY <4>1, <5>2 DEF UploadsEndFirst
        <5> QED BY <5>1, <5>2
      <4> QED BY <2>3, <4>3 DEF Claim, Claimable, UploadsEndFirst
    <3>2. FilesComeFirst'
      BY <2>3, IdleShape DEF Claim, Claimable, FilesComeFirst, UploadsEndFirst
    <3>3. RowsGoFirst'
      BY <2>3, IdleShape DEF Claim, Claimable, RowsGoFirst, UploadsEndFirst
    <3>4. NoBrokenLink'
      BY <2>3, IdleShape DEF Claim, Claimable, NoBrokenLink, FilesComeFirst, RowsGoFirst
    <3>5. NoFileForgotten'
      BY <2>3, IdleShape DEF Claim, Claimable, NoFileForgotten
    <3> QED BY <3>1, <3>2, <3>3, <3>4, <3>5 DEF FilesInv
  <2>4. CASE ClaimAnswerLost(w)
    <3>1. UploadsEndFirst'
      BY <2>4, IdleShape DEF ClaimAnswerLost, Claimable, UploadsEndFirst
    <3>2. FilesComeFirst'
      BY <2>4, IdleShape DEF ClaimAnswerLost, Claimable, FilesComeFirst, UploadsEndFirst
    <3>3. RowsGoFirst'
      BY <2>4, IdleShape DEF ClaimAnswerLost, Claimable, RowsGoFirst, UploadsEndFirst
    <3>4. NoBrokenLink'
      BY <2>4, IdleShape DEF ClaimAnswerLost, Claimable, NoBrokenLink, FilesComeFirst, RowsGoFirst
    <3>5. NoFileForgotten'
      BY <2>4, IdleShape DEF ClaimAnswerLost, Claimable, NoFileForgotten
    <3> QED BY <3>1, <3>2, <3>3, <3>4, <3>5 DEF FilesInv
  <2>5. CASE LoadDocument(w)
    <3>1. UploadsEndFirst'
      BY <2>5 DEF LoadDocument, UploadsEndFirst
    <3>2. FilesComeFirst'
      BY <2>5 DEF LoadDocument, FilesComeFirst, UploadsEndFirst
    <3>3. RowsGoFirst'
      BY <2>5 DEF LoadDocument, RowsGoFirst, UploadsEndFirst
    <3>4. NoBrokenLink'
      BY <2>5 DEF LoadDocument, NoBrokenLink, FilesComeFirst, RowsGoFirst
    <3>5. NoFileForgotten'
      BY <2>5 DEF LoadDocument, NoFileForgotten
    <3> QED BY <3>1, <3>2, <3>3, <3>4, <3>5 DEF FilesInv
  <2>6. CASE ReadFile(w)
    <3>1. UploadsEndFirst'
      BY <2>6 DEF ReadFile, UploadsEndFirst
    <3>2. FilesComeFirst'
      BY <2>6 DEF ReadFile, FilesComeFirst, UploadsEndFirst
    <3>3. RowsGoFirst'
      BY <2>6 DEF ReadFile, RowsGoFirst, UploadsEndFirst
    <3>4. NoBrokenLink'
      BY <2>6 DEF ReadFile, NoBrokenLink, FilesComeFirst, RowsGoFirst
    <3>5. NoFileForgotten'
      BY <2>6 DEF ReadFile, NoFileForgotten
    <3> QED BY <3>1, <3>2, <3>3, <3>4, <3>5 DEF FilesInv
  <2>7. CASE ReadingFails(w)
    <3>1. UploadsEndFirst'
      <4>1. worker[w].pc # "idle" /\ worker' = [worker EXCEPT ![w] = [pc |-> "failed", doc |-> worker[w].doc]]
        BY <2>7 DEF ReadingFails
      <4>2. \A v \in Workers : worker'[v].pc # "idle" => upload[worker'[v].doc] \in {"unwanted", "over"}
        BY <4>1 DEF UploadsEndFirst
      <4> QED BY <2>7, <4>2 DEF ReadingFails, UploadsEndFirst
    <3>2. FilesComeFirst'
      BY <2>7 DEF ReadingFails, FilesComeFirst, UploadsEndFirst
    <3>3. RowsGoFirst'
      BY <2>7 DEF ReadingFails, RowsGoFirst, UploadsEndFirst
    <3>4. NoBrokenLink'
      BY <2>7 DEF ReadingFails, NoBrokenLink, FilesComeFirst, RowsGoFirst
    <3>5. NoFileForgotten'
      BY <2>7 DEF ReadingFails, NoFileForgotten
    <3> QED BY <3>1, <3>2, <3>3, <3>4, <3>5 DEF FilesInv
  <2>8. CASE StoreResult(w)
    <3>1. UploadsEndFirst'
      <4>1. /\ worker[w].pc # "idle"
            /\ \/ worker' = [worker EXCEPT ![w] = Idle]
               \/ worker' = [worker EXCEPT ![w] = [pc |-> "failed", doc |-> worker[w].doc]]
        BY <2>8 DEF StoreResult
      <4>2. \A v \in Workers : worker'[v].pc # "idle" => upload[worker'[v].doc] \in {"unwanted", "over"}
        <5> TAKE v \in Workers
        <5>1. CASE v = w
          <6>1. CASE worker'[w] = Idle
            BY <5>1, <6>1, IdleShape
          <6>2. CASE worker'[w] = [pc |-> "failed", doc |-> worker[w].doc]
            <7>1. worker'[w].doc = worker[w].doc
              BY <6>2, FieldsShape, Zenon
            <7> QED BY <4>1, <5>1, <7>1 DEF UploadsEndFirst
          <6> QED BY <4>1, <5>1, <6>1, <6>2
        <5>2. CASE v # w
          BY <4>1, <5>2 DEF UploadsEndFirst
        <5> QED BY <5>1, <5>2
      <4> QED BY <2>8, <4>2 DEF StoreResult, UploadsEndFirst
    <3>2. FilesComeFirst'
      BY <2>8, IdleShape DEF StoreResult, FilesComeFirst, UploadsEndFirst
    <3>3. RowsGoFirst'
      BY <2>8, IdleShape DEF StoreResult, RowsGoFirst, UploadsEndFirst
    <3>4. NoBrokenLink'
      BY <2>8, IdleShape DEF StoreResult, NoBrokenLink, FilesComeFirst, RowsGoFirst
    <3>5. NoFileForgotten'
      BY <2>8, IdleShape DEF StoreResult, NoFileForgotten
    <3> QED BY <3>1, <3>2, <3>3, <3>4, <3>5 DEF FilesInv
  <2>9. CASE RecordFailure(w)
    <3>1. UploadsEndFirst'
      BY <2>9, IdleShape DEF RecordFailure, UploadsEndFirst
    <3>2. FilesComeFirst'
      BY <2>9, IdleShape DEF RecordFailure, FilesComeFirst, UploadsEndFirst
    <3>3. RowsGoFirst'
      BY <2>9, IdleShape DEF RecordFailure, RowsGoFirst, UploadsEndFirst
    <3>4. NoBrokenLink'
      BY <2>9, IdleShape DEF RecordFailure, NoBrokenLink, FilesComeFirst, RowsGoFirst
    <3>5. NoFileForgotten'
      BY <2>9, IdleShape DEF RecordFailure, NoFileForgotten
    <3> QED BY <3>1, <3>2, <3>3, <3>4, <3>5 DEF FilesInv
  <2>10. CASE RecordFailureFails(w)
    <3>1. UploadsEndFirst'
      BY <2>10, IdleShape DEF RecordFailureFails, UploadsEndFirst
    <3>2. FilesComeFirst'
      BY <2>10, IdleShape DEF RecordFailureFails, FilesComeFirst, UploadsEndFirst
    <3>3. RowsGoFirst'
      BY <2>10, IdleShape DEF RecordFailureFails, RowsGoFirst, UploadsEndFirst
    <3>4. NoBrokenLink'
      BY <2>10, IdleShape DEF RecordFailureFails, NoBrokenLink, FilesComeFirst, RowsGoFirst
    <3>5. NoFileForgotten'
      BY <2>10, IdleShape DEF RecordFailureFails, NoFileForgotten
    <3> QED BY <3>1, <3>2, <3>3, <3>4, <3>5 DEF FilesInv
  <2> QED BY <1>4, <2>1, <2>2, <2>3, <2>4, <2>5, <2>6, <2>7, <2>8, <2>9, <2>10 DEF WorkerStep
<1>5. Next \/ UNCHANGED vars => Unmoved \/ (\E d \in Docs : UploadStep(d))
        \/ (\E h \in Deleters : RemovalStep(h)) \/ (\E w \in Workers : WorkerStep(w))
  BY DEF Next, vars, Review, FundingExpires
<1> QED BY <1>1, <1>2, <1>3, <1>4, <1>5

-----------------------------------------------------------------------------
(* Documents and their workers *)

LEMMA ReadingInit == Init => ReadingInv
  BY IdleShape DEF Init, ReadingInv, WhileReading, OneWorkerEach, DoneIffVerified, Reading

\* What a step of the worker of replica w does to the worker and its document d,
\* in terms of fields.
Takes(w, d) == /\ worker[w].pc = "idle" /\ ocr[d] = "pending"
               /\ ocr' = [ocr EXCEPT ![d] = "processing"]
               /\ \/ worker'[w].pc = "claimed" /\ worker'[w].doc = d
                  \/ worker'[w].pc = "idle" /\ "claim" \in mishaps'[d]
Carries(w, d) == /\ worker[w].pc \in {"claimed", "loaded", "read"} /\ worker[w].doc = d
                 /\ worker'[w].pc \in {"loaded", "read", "failed"} /\ worker'[w].doc = d
                 /\ ocr' = ocr
Leaves(w, d) == /\ worker[w].pc # "idle" /\ worker[w].doc = d
                /\ worker'[w].pc = "idle" /\ "claim" \in mishaps'[d]
                /\ ocr' = ocr
GivesUp(w, d) == /\ worker[w].pc = "failed" /\ worker[w].doc = d
                 /\ worker'[w].pc = "idle"
                 /\ ocr' = IF Recorded(d) THEN [ocr EXCEPT ![d] = "failed"] ELSE ocr
Finishes(w, d) == /\ worker[w].pc = "read" /\ worker[w].doc = d /\ Recorded(d)
                  /\ \/ worker'[w].pc = "idle"
                     \/ worker'[w].pc = "failed" /\ worker'[w].doc = d /\ "result" \in mishaps'[d]
                  /\ ocr' = [ocr EXCEPT ![d] = "done"]
Skips == /\ worker' = worker
         /\ \A d \in Docs : ocr'[d] = ocr[d] \/ (ocr[d] = "pending" /\ ocr'[d] = "skipped")

LEMMA WorkerMoves ==
  ASSUME TypeOK, NEW w \in Workers, WorkerStep(w)
  PROVE  /\ \A v \in Workers \ {w} : worker'[v] = worker[v]
         /\ \/ Skips /\ verified' = verified
            \/ \E d \in Docs : Takes(w, d) /\ verified' = verified
            \/ \E d \in Docs : Carries(w, d) /\ verified' = verified
            \/ \E d \in Docs : Leaves(w, d) /\ verified' = verified
            \/ \E d \in Docs : GivesUp(w, d) /\ verified' = verified
            \/ \E d \in Docs : Finishes(w, d) /\ verified' = verified \cup {d}
<1>t. worker \in [Workers -> Working] /\ ocr \in [Docs -> OcrStatuses \cup {NoRow}]
      /\ mishaps \in [Docs -> SUBSET Kinds]
  BY DEF TypeOK
<1>o. \A v \in Workers \ {w} : worker'[v] = worker[v]
  BY <1>t DEF WorkerStep, Start, Stop, Claim, ClaimAnswerLost, LoadDocument, ReadFile, ReadingFails,
     StoreResult, RecordFailure, RecordFailureFails, WorkerGoes, WorkerFrame
<1>d. worker[w].pc # "idle" => worker[w].doc \in Docs
  BY <1>t, IdleShape, WorkingShape
<1>1. CASE Start(w)
  BY <1>1, <1>o, <1>t DEF Start, Skips, Skippable, WorkerFrame
<1>2. ASSUME Stop(w) PROVE (Skips /\ verified' = verified) \/ (\E d \in Docs : Leaves(w, d) /\ verified' = verified)
  <2>1. CASE worker[w] = Idle
    BY <1>t, <1>2, <2>1 DEF Stop, Skips
  <2>2. CASE worker[w] # Idle
    BY <1>t, <1>d, <1>2, <2>2, IdleShape, WorkingShape, MishapShape DEF Stop, Leaves, WorkSteps
  <2> QED BY <2>1, <2>2
<1>3. ASSUME Claim(w) \/ ClaimAnswerLost(w)
      PROVE  \E d \in Docs : Takes(w, d) /\ verified' = verified
  <2>1. CASE Claim(w)
    <3>1. PICK d \in Docs : /\ Claimable(d) /\ ocr' = [ocr EXCEPT ![d] = "processing"]
                           /\ worker' = [worker EXCEPT ![w] = [pc |-> "claimed", doc |-> d]]
      BY <2>1 DEF Claim
    <3>2. worker'[w] = [pc |-> "claimed", doc |-> d]
      BY <1>t, <3>1
    <3>3. worker'[w].pc = "claimed" /\ worker'[w].doc = d
      BY <3>2, FieldsShape
    <3> QED BY <2>1, <3>1, <3>3, IdleShape DEF Claim, Claimable, Takes, WorkerFrame
  <2>2. CASE ClaimAnswerLost(w)
    BY <1>t, <2>2, IdleShape, MishapShape DEF ClaimAnswerLost, Claimable, Takes
  <2> QED BY <1>3, <2>1, <2>2
<1>4. ASSUME LoadDocument(w) \/ ReadFile(w) \/ ReadingFails(w)
      PROVE  \E d \in Docs : Carries(w, d) /\ verified' = verified
  <2>1. PICK d \in Docs : worker[w].doc = d
    BY <1>d, <1>4 DEF LoadDocument, ReadFile, ReadingFails, WorkerGoes
  <2>2. PICK step \in {"loaded", "read", "failed"} : worker' = [worker EXCEPT ![w] = [pc |-> step, doc |-> d]]
    BY <1>4, <2>1 DEF LoadDocument, ReadFile, ReadingFails, WorkerGoes
  <2>3. worker'[w] = [pc |-> step, doc |-> d]
    BY <1>t, <2>2
  <2>4. worker'[w].pc = step /\ worker'[w].doc = d
    BY <2>3, FieldsShape
  <2>5. worker[w].pc \in {"claimed", "loaded", "read"} /\ ocr' = ocr /\ verified' = verified
    BY <1>4 DEF LoadDocument, ReadFile, ReadingFails, WorkerGoes
  <2> QED BY <2>1, <2>4, <2>5 DEF Carries
<1>5. ASSUME StoreResult(w) PROVE \E d \in Docs : Finishes(w, d) /\ verified' = verified \cup {d}
  <2>1. PICK d \in Docs : worker[w].doc = d
    BY <1>d, <1>5 DEF StoreResult
  <2>2. \/ worker' = [worker EXCEPT ![w] = Idle]
        \/ worker' = [worker EXCEPT ![w] = [pc |-> "failed", doc |-> d]] /\ "result" \in mishaps'[d]
    BY <1>t, <1>5, <2>1, MishapShape DEF StoreResult, WorkerGoes
  <2>3. worker'[w] = Idle \/ (worker'[w] = [pc |-> "failed", doc |-> d] /\ "result" \in mishaps'[d])
    BY <1>t, <2>2
  <2>4. \/ worker'[w].pc = "idle"
        \/ worker'[w].pc = "failed" /\ worker'[w].doc = d /\ "result" \in mishaps'[d]
    BY <2>3, IdleShape, FieldsShape
  <2> QED BY <1>5, <2>1, <2>4 DEF StoreResult, Finishes
<1>6. ASSUME RecordFailure(w) PROVE \E d \in Docs : GivesUp(w, d) /\ verified' = verified
  BY <1>t, <1>d, <1>6, IdleShape DEF RecordFailure, GivesUp
<1>7. ASSUME RecordFailureFails(w) PROVE \E d \in Docs : Leaves(w, d) /\ verified' = verified
  BY <1>t, <1>d, <1>7, IdleShape, MishapShape DEF RecordFailureFails, WorkerFrame, Leaves
<1> QED BY <1>o, <1>1, <1>2, <1>3, <1>4, <1>5, <1>6, <1>7 DEF WorkerStep

LEMMA ReadingStep == TypeOK /\ FilesInv /\ ReadingInv /\ [Next]_vars => ReadingInv'
<1> SUFFICES ASSUME TypeOK, FilesInv, ReadingInv, [Next]_vars PROVE ReadingInv'
  OBVIOUS
<1>t. /\ ocr \in [Docs -> OcrStatuses \cup {NoRow}] /\ verified \subseteq Docs
      /\ \A w \in Workers : worker[w].pc # "idle" => worker[w].doc \in Docs
  BY IdleShape, WorkingShape DEF TypeOK
<1>g. \A d \in Docs : mishaps[d] \subseteq mishaps'[d]
  BY MishapsGrow
<1>i. WhileReading /\ OneWorkerEach /\ DoneIffVerified
  BY DEF ReadingInv
<1>p. \A w \in Workers : worker[w].pc # "idle" => worker[w].pc \in WorkSteps
  BY IdleShape, WorkingShape DEF TypeOK
<1> USE <1>t, <1>g, <1>i, <1>p DEF WorkSteps
<1>1. ASSUME UNCHANGED <<ocr, verified, worker>> PROVE ReadingInv'
  <2>1. WhileReading'
    BY <1>1 DEF WhileReading
  <2>2. OneWorkerEach'
    BY <1>1 DEF OneWorkerEach, Reading, WhileReading
  <2>3. DoneIffVerified'
    BY <1>1 DEF DoneIffVerified, WhileReading
  <2> QED BY <2>1, <2>2, <2>3 DEF ReadingInv
<1>2. ASSUME NEW d \in Docs, ocr[d] = NoRow, ocr' = [ocr EXCEPT ![d] = "pending"],
             \A w \in Workers : worker[w].pc # "idle" => worker[w].doc # d,
             UNCHANGED <<verified, worker>>
      PROVE  ReadingInv'
  <2>1. WhileReading'
    BY <1>2 DEF WhileReading
  <2>2. OneWorkerEach'
    BY <1>2 DEF OneWorkerEach, Reading, WhileReading
  <2>3. DoneIffVerified'
    BY <1>2 DEF DoneIffVerified, WhileReading
  <2> QED BY <2>1, <2>2, <2>3 DEF ReadingInv
<1>3. ASSUME NEW d \in Docs, ocr' = [ocr EXCEPT ![d] = NoRow], verified' = verified \ {d},
             UNCHANGED worker
      PROVE  ReadingInv'
  <2>1. WhileReading'
    BY <1>3 DEF WhileReading
  <2>2. OneWorkerEach'
    BY <1>3 DEF OneWorkerEach, Reading, WhileReading
  <2>3. DoneIffVerified'
    BY <1>3 DEF DoneIffVerified, WhileReading
  <2> QED BY <2>1, <2>2, <2>3 DEF ReadingInv
<1>4. ASSUME NEW w \in Workers, WorkerStep(w) PROVE ReadingInv'
  <2>0. \A v \in Workers \ {w} : worker'[v] = worker[v]
    BY <1>4, WorkerMoves
  <2>7. \A v \in Workers \ {w} : worker[v].pc # "idle" =>
          /\ worker[w].pc # "idle" => worker[v].doc # worker[w].doc
          /\ ocr[worker[v].doc] # "pending"
    BY DEF OneWorkerEach, Reading, WhileReading
  <2>8. ASSUME NEW d \in Docs,
               worker[w].pc # "idle" => worker[w].doc = d,
               worker'[w].pc # "idle" => worker'[w].doc = d,
               \A v \in Workers \ {w} : worker[v].pc # "idle" => worker[v].doc # d,
               \A e \in Docs \ {d} : ocr'[e] = ocr[e],
               ocr'[d] = "processing" => worker'[w].pc # "idle" \/ "claim" \in mishaps'[d]
        PROVE  OneWorkerEach'
    <3>1. ASSUME NEW e \in Docs, ocr'[e] = "processing"
          PROVE  (\E v \in Workers : Reading(v, e)') \/ "claim" \in mishaps'[e]
      <4>1. CASE e = d
        BY <2>8, <3>1, <4>1 DEF Reading
      <4>2. CASE e # d
        <5>1. (\E v \in Workers \ {w} : Reading(v, e)) \/ "claim" \in mishaps[e]
          BY <2>8, <3>1, <4>2 DEF OneWorkerEach, Reading
        <5> QED BY <2>0, <5>1 DEF Reading
      <4> QED BY <4>1, <4>2
    <3>2. ASSUME NEW v \in Workers, NEW u \in Workers, NEW e \in Docs, Reading(v, e)', Reading(u, e)'
          PROVE  v = u
      <4>1. \A x \in Workers \ {w} : Reading(x, e)' => Reading(x, e) /\ e # d
        BY <2>0, <2>8 DEF Reading
      <4>2. Reading(w, e)' => e = d
        BY <2>8 DEF Reading
      <4> QED BY <3>2, <4>1, <4>2 DEF OneWorkerEach
    <3> QED BY <3>1, <3>2 DEF OneWorkerEach
  <2>1. CASE Skips /\ verified' = verified
    <3>1. WhileReading'
      BY <2>0, <2>1 DEF Skips, Recorded, WhileReading
    <3>2. OneWorkerEach'
      BY <2>0, <2>1 DEF Skips, Recorded, OneWorkerEach, Reading, WhileReading
    <3>3. DoneIffVerified'
      BY <2>0, <2>1 DEF Skips, Recorded, DoneIffVerified, WhileReading
    <3> QED BY <3>1, <3>2, <3>3 DEF ReadingInv
  <2>2. ASSUME NEW d \in Docs, Takes(w, d), verified' = verified PROVE ReadingInv'
    <3>1. WhileReading'
      <4> SUFFICES ASSUME NEW v \in Workers, worker'[v].pc # "idle" PROVE WhileReading!(v)'
        BY DEF WhileReading
      <4>1. CASE v = w
        BY <2>2, <4>1 DEF Takes, Recorded, WhileReading
      <4>2. CASE v # w
        BY <2>0, <2>7, <2>2, <4>2 DEF Takes, Recorded, WhileReading
      <4> QED BY <4>1, <4>2
    <3>2. OneWorkerEach'
      BY <2>7, <2>8, <2>2 DEF Takes, Recorded, WhileReading
    <3>3. DoneIffVerified'
      BY <2>0, <2>2 DEF Takes, Recorded, DoneIffVerified, WhileReading
    <3> QED BY <3>1, <3>2, <3>3 DEF ReadingInv
  <2>3. ASSUME NEW d \in Docs, Carries(w, d), verified' = verified PROVE ReadingInv'
    <3>1. WhileReading'
      BY <2>0, <2>3 DEF Carries, Recorded, WhileReading
    <3>2. OneWorkerEach'
      BY <2>7, <2>8, <2>3 DEF Carries, Recorded, WhileReading
    <3>3. DoneIffVerified'
      BY <2>0, <2>3 DEF Carries, Recorded, DoneIffVerified, WhileReading
    <3> QED BY <3>1, <3>2, <3>3 DEF ReadingInv
  <2>4. ASSUME NEW d \in Docs, Leaves(w, d), verified' = verified PROVE ReadingInv'
    <3>1. WhileReading'
      BY <2>0, <2>4 DEF Leaves, Recorded, WhileReading
    <3>2. OneWorkerEach'
      BY <2>7, <2>8, <2>4 DEF Leaves, Recorded, WhileReading
    <3>3. DoneIffVerified'
      BY <2>0, <2>4 DEF Leaves, Recorded, DoneIffVerified, WhileReading
    <3> QED BY <3>1, <3>2, <3>3 DEF ReadingInv
  <2>5. ASSUME NEW d \in Docs, GivesUp(w, d), verified' = verified PROVE ReadingInv'
    <3>1. WhileReading'
      <4> SUFFICES ASSUME NEW v \in Workers, worker'[v].pc # "idle" PROVE WhileReading!(v)'
        BY DEF WhileReading
      <4>1. CASE v = w
        BY <2>5, <4>1 DEF GivesUp, Recorded, WhileReading
      <4>2. CASE v # w
        <5>1. worker'[v] = worker[v] /\ worker[v].doc # d
          BY <2>0, <2>7, <2>5, <4>2 DEF GivesUp
        <5>2. ocr'[worker[v].doc] = ocr[worker[v].doc]
          BY <2>5, <5>1 DEF GivesUp
        <5> QED BY <5>1, <5>2 DEF WhileReading
      <4> QED BY <4>1, <4>2
    <3>2. OneWorkerEach'
      BY <2>7, <2>8, <2>5 DEF GivesUp, Recorded, WhileReading
    <3>3. DoneIffVerified'
      BY <2>0, <2>5 DEF GivesUp, Recorded, DoneIffVerified, WhileReading
    <3> QED BY <3>1, <3>2, <3>3 DEF ReadingInv
  <2>6. ASSUME NEW d \in Docs, Finishes(w, d), verified' = verified \cup {d} PROVE ReadingInv'
    <3>1. WhileReading'
      <4> SUFFICES ASSUME NEW v \in Workers, worker'[v].pc # "idle" PROVE WhileReading!(v)'
        BY DEF WhileReading
      <4>1. CASE v = w
        BY <2>6, <4>1 DEF Finishes, Recorded, WhileReading
      <4>2. CASE v # w
        <5>1. worker'[v] = worker[v] /\ worker[v].doc # d
          BY <2>0, <2>7, <2>6, <4>2 DEF Finishes
        <5>2. ocr'[worker[v].doc] = ocr[worker[v].doc]
          BY <2>6, <5>1 DEF Finishes
        <5> QED BY <5>1, <5>2 DEF WhileReading
      <4> QED BY <4>1, <4>2
    <3>2. OneWorkerEach'
      BY <2>7, <2>8, <2>6 DEF Finishes, Recorded, WhileReading
    <3>3. DoneIffVerified'
      BY <2>0, <2>6 DEF Finishes, Recorded, DoneIffVerified, WhileReading
    <3> QED BY <3>1, <3>2, <3>3 DEF ReadingInv
  <2> QED BY <1>4, <2>1, <2>2, <2>3, <2>4, <2>5, <2>6, WorkerMoves
<1>5. ASSUME NEW d \in Docs, UploadStep(d) PROVE ReadingInv'
  <2>1. \A w \in Workers : worker[w].pc # "idle" /\ upload[d] = "stored" => worker[w].doc # d
    BY DEF FilesInv, UploadsEndFirst
  <2>2. upload[d] = "stored" => ocr[d] = NoRow
    BY DEF FilesInv, UploadsEndFirst, Recorded
  <2>3. CASE InsertRow(d) \/ InsertAnswerLost(d)
    BY <1>2, <2>1, <2>2, <2>3 DEF InsertRow, InsertAnswerLost, UploadGoes, UploadFrame
  <2>4. CASE UNCHANGED ocr
    BY <1>1, <1>5, <2>4 DEF UploadStep, UploadFrame, Admit, Count, Store, InsertRow, InsertRefused,
                            InsertAnswerLost, DiscardFile, UploadEnds
  <2> QED BY <1>5, <2>3, <2>4 DEF UploadStep, Admit, Count, Store, InsertRefused, DiscardFile, UploadEnds
<1>6. ASSUME NEW h \in Deleters, RemovalStep(h) PROVE ReadingInv'
  <2>1. CASE DeleteRow(h)
    <3>1. removal[h].doc \in Docs
      BY <2>1, IdleShape, RemovingShape DEF TypeOK, DeleteRow
    <3> QED BY <1>3, <2>1, <3>1 DEF DeleteRow, RemovalFrame
  <2>2. CASE UNCHANGED <<ocr, verified>>
    BY <1>1, <1>6, <2>2 DEF RemovalStep, RemovalFrame, LoadForDelete, DeleteRow, RemoveFile, RemovalEnds
  <2> QED BY <1>6, <2>1, <2>2 DEF RemovalStep, LoadForDelete, RemoveFile, RemovalEnds
<1>7. ASSUME NEW a \in Apps, Review(a) \/ FundingExpires(a) PROVE ReadingInv'
  BY <1>1, <1>7 DEF Review, FundingExpires
<1>8. CASE UNCHANGED vars
  BY <1>1, <1>8 DEF vars
<1> QED BY <1>4, <1>5, <1>6, <1>7, <1>8 DEF Next

-----------------------------------------------------------------------------
(* Theorems *)

LEMMA Invariant == Spec => []DInv
<1>1. Init => DInv
  BY TypeInit, FilesInit, ReadingInit DEF DInv
<1>2. DInv /\ [Next]_vars => DInv'
  BY TypeStep, FilesStep, ReadingStep DEF DInv
<1> QED BY <1>1, <1>2, PTL DEF Spec

\* A record without its file is the fault of an INSERT that was committed and answered
\* with an error, a file without its record at most the rest of a request that died or
\* could not remove it: no interleaving of uploads and deletions produces either.
THEOREM FilesAndRowsMatch == Spec => []FilesMatchRows
<1>1. DInv => FilesMatchRows
  BY DEF DInv, FilesInv, FilesMatchRows
<1> QED BY <1>1, Invariant, PTL

\* However many replicas there are, no two of their workers have the same document.
THEOREM OneWorkerForEach == Spec => []OneWorkerEach
<1>1. DInv => OneWorkerEach
  BY DEF DInv, ReadingInv
<1> QED BY <1>1, Invariant, PTL

\* A document is done exactly when its comparisons are recorded; only one whose result
\* was committed and answered with an error may be failed and have them.
THEOREM DoneMeansVerified == Spec => []DoneIffVerified
<1>1. DInv => DoneIffVerified
  BY DEF DInv, ReadingInv
<1> QED BY <1>1, Invariant, PTL

LEMMA Forward == DInv /\ [Next]_vars => \A d \in Docs : ocr'[d] \in NextStatus(d)
<1> SUFFICES ASSUME DInv, [Next]_vars, NEW e \in Docs PROVE ocr'[e] \in NextStatus(e)
  OBVIOUS
<1>t. TypeOK /\ ocr \in [Docs -> OcrStatuses \cup {NoRow}] /\ ocr[e] \in OcrStatuses \cup {NoRow}
  BY DEF DInv, TypeOK
<1>w. WhileReading
  BY DEF DInv, ReadingInv
<1>1. ASSUME ocr'[e] = ocr[e] \/ ocr'[e] = NoRow PROVE ocr'[e] \in NextStatus(e)
  BY <1>t, <1>1 DEF NextStatus
<1>2. CASE UNCHANGED vars
  BY <1>1, <1>2 DEF vars
<1>3. ASSUME NEW a \in Apps, Review(a) \/ FundingExpires(a) PROVE ocr'[e] \in NextStatus(e)
  BY <1>1, <1>3 DEF Review, FundingExpires
<1>4. ASSUME NEW d \in Docs, UploadStep(d) PROVE ocr'[e] \in NextStatus(e)
  <2>1. upload[d] = "stored" => ocr[d] = NoRow
    BY DEF DInv, FilesInv, UploadsEndFirst, Recorded
  <2>2. ocr' = ocr \/ (ocr[d] = NoRow /\ ocr' = [ocr EXCEPT ![d] = "pending"])
    BY <1>4, <2>1 DEF UploadStep, Admit, Count, Store, InsertRow, InsertRefused, InsertAnswerLost,
                      DiscardFile, UploadEnds, UploadGoes
  <2> QED BY <1>t, <1>1, <2>2 DEF NextStatus
<1>5. ASSUME NEW h \in Deleters, RemovalStep(h) PROVE ocr'[e] \in NextStatus(e)
  <2>1. ocr'[e] = ocr[e] \/ ocr'[e] = NoRow
    BY <1>t, <1>5 DEF RemovalStep, LoadForDelete, DeleteRow, RemoveFile, RemovalEnds
  <2> QED BY <1>1, <2>1
<1>6. ASSUME NEW w \in Workers, WorkerStep(w) PROVE ocr'[e] \in NextStatus(e)
  <2>1. CASE Skips
    BY <1>t, <2>1 DEF Skips, NextStatus
  <2>2. ASSUME NEW d \in Docs, Takes(w, d) PROVE ocr'[e] \in NextStatus(e)
    BY <1>t, <1>1, <2>2 DEF Takes, NextStatus
  <2>3. ASSUME NEW d \in Docs, Carries(w, d) \/ Leaves(w, d) PROVE ocr'[e] \in NextStatus(e)
    BY <1>1, <2>3 DEF Carries, Leaves
  <2>4. ASSUME NEW d \in Docs, GivesUp(w, d) PROVE ocr'[e] \in NextStatus(e)
    <3>1. ocr[d] \in {NoRow, "processing"} \/ (ocr[d] = "done" /\ "result" \in mishaps[d])
      BY <1>w, <2>4 DEF GivesUp, WhileReading
    <3>2. CASE e = d /\ Recorded(d)
      BY <1>t, <2>4, <3>1, <3>2 DEF GivesUp, NextStatus, Recorded
    <3>3. CASE ~ (e = d /\ Recorded(d))
      BY <1>t, <1>1, <2>4, <3>3 DEF GivesUp
    <3> QED BY <3>2, <3>3
  <2>5. ASSUME NEW d \in Docs, Finishes(w, d) PROVE ocr'[e] \in NextStatus(e)
    <3>1. ocr[d] = "processing"
      BY <1>w, <2>5 DEF Finishes, WhileReading, Recorded
    <3> QED BY <1>t, <1>1, <2>5, <3>1 DEF Finishes, NextStatus
  <2> QED BY <1>t, <1>6, <2>1, <2>2, <2>3, <2>4, <2>5, WorkerMoves
<1> QED BY <1>2, <1>3, <1>4, <1>5, <1>6 DEF DInv, Next

\* No step of anybody takes a document back to an earlier stage of OCR.
THEOREM OcrOnlyGoesForward == Spec => OcrGoesForward
  BY Invariant, Forward, PTL DEF Spec, OcrGoesForward

=============================================================================
