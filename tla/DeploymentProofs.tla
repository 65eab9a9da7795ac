-------------------------- MODULE DeploymentProofs --------------------------
(***************************************************************************)
(* Deployment: what the version table records has run, a migration runs    *)
(* twice only after an accident, and a deployment that reports success has *)
(* left nothing undone, for any number of migrations, replicas, accounts,  *)
(* applications and accidents.                                             *)
(***************************************************************************)
EXTENDS Deployment, TLAPS

\* The databases there are: new ones, with users only once the version table is there,
\* and old ones that have every migration of the directory.  The others are those of
\* OldDatabaseIsComplete.
NewOrComplete == Bases \subseteq (0..(Narrow - 1)) \cup {LastFile}

-----------------------------------------------------------------------------
(* What the properties rest on *)

AllRan == \A f \in Files : content[f] \in ran[f]
NoneRecorded == \A f \in Files : recorded[f] = NotRecorded
AppliedBelow(n) == \A f \in Files : f < n => recorded[f] = content[f]
Migrating == script.pc \in {"lookup", "schema", "data", "record"}

\* A database with users and without records is an old one, complete, and nothing is
\* migrated before its files are marked.
OldIsComplete == NoneRecorded /\ UsersExist => AllRan /\ check = "wide" /\ ~ Migrating

\* Marking begins on an empty table and goes in the order of the files.
MarksInOrder ==
  /\ At("tables") => NoneRecorded
  /\ At("mark") => /\ UsersExist /\ AllRan /\ check = "wide"
                   /\ AppliedBelow(script.file)
                   /\ \A f \in Files : f >= script.file => recorded[f] = NotRecorded

\* Migrations are applied in their order, each before it is recorded.
MigratesInOrder ==
  /\ Migrating => AppliedBelow(script.file)
  /\ script.pc \in {"schema", "data", "record"} =>
       script.file \in Files /\ recorded[script.file] = NotRecorded
  /\ At("record") => content[script.file] \in ran[script.file]
  /\ script.pc \in {"restart", "wait", "done"} => \A f \in Files : recorded[f] = content[f]

\* Once 005 is recorded its constraint stays: 002, which would undo it, is recorded.
ConstraintStays ==
  /\ At("record") /\ script.file = Widen => check = "wide"
  /\ recorded[Widen] # NotRecorded => recorded[Narrow] # NotRecorded /\ check = "wide"

\* A file that ran and is not recorded is about to be, or an accident has happened.
OnlyAccidentsForget ==
  \A f \in Files : recorded[f] = NotRecorded /\ ran[f] # {} =>
    \/ f \in unsure \/ torn
    \/ At("record") /\ script.file = f
    \/ At("mark") /\ script.file <= f
    \/ NoneRecorded /\ UsersExist

ScriptInv == RecordedRan /\ OldIsComplete /\ MarksInOrder /\ MigratesInOrder /\ ConstraintStays
             /\ OnlyAccidentsForget

\* A replica has on its list all that is in clear; when it is up after the restart,
\* nothing is.
NonePlain == \A a \in Rows : rows[a] # "plain"
ClearInv ==
  /\ \A r \in Replicas : api[r].pc = "encrypting" => \A a \in Rows : rows[a] = "plain" => a \in api[r].todo
  /\ script.pc \in {"wait", "done"} =>
       failed \/ \A r \in Replicas : api[r].pc # "down" /\ (api[r].pc = "up" => NonePlain)
  /\ NothingInClear

LateInv == (late # {} => ran[Verify] # {}) /\ VerifiedByToken

DeployInv == TypeOK /\ ScriptInv /\ ClearInv /\ LateInv

-----------------------------------------------------------------------------
(* Types *)

ScriptPlaces == [pc : Steps, file : 1..(LastFile + 1)]
Servers == [pc : {"down", "starting", "encrypting", "up"}, todo : SUBSET Rows]

LEMMA PlaceShape ==
  /\ \A pc \in Steps : \A f \in 1..(LastFile + 1) : [pc |-> pc, file |-> f] \in ScriptPlaces
  /\ \A s \in ScriptPlaces : s.pc \in Steps /\ s.file \in 1..(LastFile + 1)
  BY DEF ScriptPlaces

LEMMA ServerShape ==
  /\ \A pc \in {"down", "starting", "encrypting", "up"} : \A todo \in SUBSET Rows :
       /\ Replica(pc, todo) \in Servers
       /\ Replica(pc, todo).pc = pc /\ Replica(pc, todo).todo = todo
  /\ \A s \in Servers : s.todo \subseteq Rows
  BY DEF Servers, Replica

LEMMA Numbers == /\ LastFile \in Nat /\ 1 \in 1..(LastFile + 1) /\ Files \subseteq 1..(LastFile + 1)
                 /\ \A f \in 1..(LastFile + 1) : f > LastFile \/ (f \in Files /\ f + 1 \in 1..(LastFile + 1))
                 /\ \A f \in Files : f <= LastFile /\ f + 1 \in 1..(LastFile + 1)
  BY DeploymentAssumption DEF Files

LEMMA TypeInit == Init => TypeOK
<1> SUFFICES ASSUME Init PROVE TypeOK
  OBVIOUS
<1> USE DEF Init
<1>1. script \in ScriptPlaces
  BY PlaceShape, Numbers DEF Steps
<1>2. api \in [Replicas -> Servers]
  BY ServerShape
<1>3. /\ begun \subseteq Files /\ ran \in [Files -> SUBSET Contents] /\ check \in {"none", "narrow", "wide"}
      /\ funding \in BOOLEAN /\ unsure \subseteq Files /\ rows \in [Rows -> {"none", "plain", "encrypted"}]
  <2>1. PICK base \in Bases :
       /\ begun = 1..base
       /\ ran = [f \in Files |-> IF f <= base THEN {1} ELSE {}]
       /\ check = IF base >= Widen THEN "wide" ELSE IF base >= Narrow THEN "narrow" ELSE "none"
       /\ funding \in (IF base >= Widen THEN BOOLEAN ELSE {FALSE})
       /\ unsure = IF base < Narrow THEN 1..base ELSE {}
       /\ rows \in [Rows -> IF base = 0 THEN {"none"} ELSE {"none", "plain"}]
    OBVIOUS
  <2>2. 1..base \subseteq Files
    BY DeploymentAssumption DEF Files
  <2>3. rows \in [Rows -> {"none", "plain", "encrypted"}]
    <3>1. CASE base = 0
      BY <2>1, <3>1
    <3>2. CASE base # 0
      BY <2>1, <3>2
    <3> QED BY <3>1, <3>2
  <2>4. ran \in [Files -> SUBSET Contents]
    BY <2>1 DEF Contents
  <2> QED BY <2>1, <2>2, <2>3, <2>4
<1>4. /\ content \in [Files -> Contents]
      /\ recorded \in [Files -> Contents \cup {NotRecorded}]
      /\ users \in [Users -> {"none", "unverified", "proved", "assumed"}]
      /\ late \subseteq Users /\ failed \in BOOLEAN /\ torn \in BOOLEAN
      /\ accidents \in 0..MaxAccidents
  <2>1. accidents \in 0..MaxAccidents
    BY DeploymentAssumption
  <2>2. content \in [Files -> Contents] /\ recorded \in [Files -> Contents \cup {NotRecorded}]
    BY DEF Contents
  <2> QED BY <2>1, <2>2
<1> QED BY <1>1, <1>2, <1>3, <1>4 DEF TypeOK, ScriptPlaces, Servers

LEMMA TypeStep == TypeOK /\ MigratesInOrder /\ [Next]_vars => TypeOK'
<1> SUFFICES ASSUME TypeOK, MigratesInOrder, [Next]_vars PROVE TypeOK'
  OBVIOUS
<1>t. /\ script \in ScriptPlaces /\ api \in [Replicas -> Servers]
      /\ content \in [Files -> Contents] /\ recorded \in [Files -> Contents \cup {NotRecorded}]
      /\ begun \subseteq Files /\ ran \in [Files -> SUBSET Contents]
      /\ check \in {"none", "narrow", "wide"} /\ funding \in BOOLEAN
      /\ users \in [Users -> {"none", "unverified", "proved", "assumed"}] /\ late \subseteq Users
      /\ rows \in [Rows -> {"none", "plain", "encrypted"}]
      /\ failed \in BOOLEAN /\ torn \in BOOLEAN /\ unsure \subseteq Files /\ accidents \in 0..MaxAccidents
  BY DEF TypeOK, ScriptPlaces, Servers
<1>f. script.file \in 1..(LastFile + 1) /\ script.pc \in Steps
  BY <1>t, PlaceShape
<1>m. script.pc \in {"schema", "data", "record"} => script.file \in Files
  BY DEF MigratesInOrder
<1> SUFFICES /\ (script \in ScriptPlaces)' /\ (api \in [Replicas -> Servers])'
             /\ (content \in [Files -> Contents] /\ recorded \in [Files -> Contents \cup {NotRecorded}])'
             /\ (begun \subseteq Files /\ ran \in [Files -> SUBSET Contents])'
             /\ (check \in {"none", "narrow", "wide"} /\ funding \in BOOLEAN)'
             /\ (users \in [Users -> {"none", "unverified", "proved", "assumed"}] /\ late \subseteq Users)'
             /\ (rows \in [Rows -> {"none", "plain", "encrypted"}])'
             /\ (failed \in BOOLEAN /\ torn \in BOOLEAN /\ unsure \subseteq Files /\ accidents \in 0..MaxAccidents)'
  BY DEF TypeOK, ScriptPlaces, Servers
<1>s. \A pc \in Steps : \A f \in 1..(LastFile + 1) : Goes(pc, f) => script' \in ScriptPlaces
  BY PlaceShape DEF Goes
<1>1. CASE ComposeUp
  BY <1>t, <1>s, <1>1, Numbers, ServerShape DEF ComposeUp, NoSql, DeployFrame, Steps
<1>2. CASE CountRecorded \/ FindUsers
  BY <1>t, <1>s, <1>2, Numbers DEF CountRecorded, FindUsers, NoSql, ApiRuns, DeployFrame, Steps
<1>3. CASE MarkFile
  BY <1>t, <1>s, <1>f, <1>3, Numbers DEF MarkFile, NextFile, ApiRuns, DeployFrame, Steps
<1>4. CASE Lookup
  BY <1>t, <1>s, <1>f, <1>4, Numbers DEF Lookup, NextFile, NoSql, ApiRuns, DeployFrame, Steps
<1>5. CASE RunSchema
  BY <1>t, <1>s, <1>m, <1>5, Numbers DEF RunSchema, At, ApiRuns, DeployFrame, Steps
<1>6. CASE RunData
  <2>1. /\ ran' \in [Files -> SUBSET Contents] /\ check' \in {"none", "narrow", "wide"}
        /\ (script \in ScriptPlaces)'
    <3>1. (script \in ScriptPlaces)' /\ script.file \in Files
      BY <1>s, <1>m, <1>6, Numbers DEF RunData, At, Steps
    <3>2. ran' \in [Files -> SUBSET Contents]
      BY <1>t, <1>6, <3>1 DEF RunData
    <3> QED BY <1>t, <1>6, <3>1, <3>2 DEF RunData
  <2>2. users' \in [Users -> {"none", "unverified", "proved", "assumed"}]
    <3>1. CASE script.file = Verify
      BY <1>t, <1>6, <3>1 DEF RunData
    <3>2. CASE script.file # Verify
      BY <1>t, <1>6, <3>2 DEF RunData
    <3> QED BY <3>1, <3>2
  <2> QED BY <1>t, <1>6, <2>1, <2>2 DEF RunData, ApiRuns
<1>7. CASE RunRefused
  BY <1>t, <1>s, <1>7, Numbers DEF RunRefused, NoSql, ApiRuns, DeployFrame, Steps
<1>8. CASE Record
  BY <1>t, <1>s, <1>m, <1>8, Numbers DEF Record, At, NextFile, ApiRuns, DeployFrame, Steps
<1>9. CASE Restart
  BY <1>t, <1>s, <1>9, Numbers, ServerShape DEF Restart, NoSql, DeployFrame, Steps
<1>10. CASE WaitForApi
  BY <1>t, <1>s, <1>10, Numbers DEF WaitForApi, NoSql, ApiRuns, DeployFrame, Steps
<1>a. Accident => accidents' \in 0..MaxAccidents
  BY <1>t, DeploymentAssumption DEF Accident
<1>11. CASE DeployDies
  BY <1>t, <1>s, <1>m, <1>a, <1>11, Numbers DEF DeployDies, ApiRuns, dataVars, Steps
<1>12. ASSUME NEW f \in Files, Edit(f) PROVE TypeOK'
  BY <1>t, <1>s, <1>12, Numbers DEF TypeOK, ScriptPlaces, Servers, Edit, NoSql, ApiRuns, dataVars, Steps, Contents
<1>13. CASE ApiStep
  <2> USE <1>t, <1>a DEF ApiFrame, ApiRuns, scriptVars, dataVars
  <2>g. ASSUME NEW r \in Replicas, NEW pc \in {"down", "starting", "encrypting", "up"},
               NEW todo \in SUBSET Rows, ApiGoes(r, pc, todo)
        PROVE  api' \in [Replicas -> Servers]
    BY <2>g, ServerShape DEF ApiGoes
  <2>1. ASSUME NEW r \in Replicas, Scan(r) PROVE (api \in [Replicas -> Servers])'
    <3>1. {a \in Rows : rows[a] = "plain"} \in SUBSET Rows
      OBVIOUS
    <3> QED BY <2>1, <2>g, <3>1 DEF Scan
  <2>2. ASSUME NEW r \in Replicas, Encrypt(r)
        PROVE  (api \in [Replicas -> Servers] /\ rows \in [Rows -> {"none", "plain", "encrypted"}])'
    <3>1. PICK a \in api[r].todo : /\ ApiGoes(r, "encrypting", api[r].todo \ {a})
                                  /\ rows' = [rows EXCEPT ![a] = "encrypted"]
      BY <2>2 DEF Encrypt
    <3>2. api[r].todo \ {a} \in SUBSET Rows
      BY ServerShape
    <3>3. api' \in [Replicas -> Servers]
      BY <2>g, <3>1, <3>2
    <3> QED BY <3>1, <3>3
  <2>3. ASSUME NEW r \in Replicas, Serve(r) \/ EncryptFails(r) \/ ApiDies(r)
        PROVE  (api \in [Replicas -> Servers])'
    BY <2>3, <2>g DEF Serve, EncryptFails, ApiDies
  <2>4. CASE \E r \in Replicas : Starts(r) \/ EncryptFails(r) \/ ApiDies(r)
    BY <2>1, <2>2, <2>3, <2>4 DEF Starts, Scan, Encrypt, Serve, EncryptFails, ApiDies
  <2>5. CASE \E u \in Users : Register(u) \/ VerifyEmail(u)
    BY <2>5 DEF Register, VerifyEmail
  <2>6. CASE (\E a \in Rows : Apply(a)) \/ Approve
    BY <2>6 DEF Apply, Approve
  <2> QED BY <1>13, <2>4, <2>5, <2>6 DEF ApiStep
<1>14. CASE UNCHANGED vars
  BY <1>t, <1>14 DEF vars, scriptVars, dataVars
<1> QED BY <1>1, <1>2, <1>3, <1>4, <1>5, <1>6, <1>7, <1>8, <1>9, <1>10, <1>11, <1>12, <1>13, <1>14
        DEF Next, DeployStep, TypeOK, ScriptPlaces, Servers

-----------------------------------------------------------------------------
(* Migrations *)

LEMMA ScriptInit == NewOrComplete /\ Init => ScriptInv
<1> SUFFICES ASSUME NewOrComplete, Init PROVE ScriptInv
  OBVIOUS
<1>1. PICK base \in Bases :
        /\ begun = 1..base
        /\ ran = [f \in Files |-> IF f <= base THEN {1} ELSE {}]
        /\ check = IF base >= Widen THEN "wide" ELSE IF base >= Narrow THEN "narrow" ELSE "none"
        /\ unsure = IF base < Narrow THEN 1..base ELSE {}
  BY DEF Init
<1> USE <1>1, DeploymentAssumption DEF Init, At, Files, NotRecorded
<1>2. base \in Nat /\ (base < Narrow \/ base = LastFile)
  BY DEF NewOrComplete
<1>3. RecordedRan /\ MarksInOrder /\ MigratesInOrder /\ ConstraintStays
  BY DEF RecordedRan, MarksInOrder, MigratesInOrder, ConstraintStays, Migrating
<1>4. OldIsComplete
  BY <1>2 DEF OldIsComplete, UsersExist, AllRan, Migrating
<1>5. OnlyAccidentsForget
  BY <1>2 DEF OnlyAccidentsForget, NoneRecorded, UsersExist
<1> QED BY <1>3, <1>4, <1>5 DEF ScriptInv

LEMMA ScriptStep == TypeOK /\ ScriptInv /\ [Next]_vars => ScriptInv'
<1> SUFFICES ASSUME TypeOK, ScriptInv, [Next]_vars PROVE ScriptInv'
  OBVIOUS
<1>t. /\ script.file \in 1..(LastFile + 1)
      /\ content \in [Files -> Contents] /\ recorded \in [Files -> Contents \cup {NotRecorded}]
      /\ begun \subseteq Files /\ ran \in [Files -> SUBSET Contents]
  BY PlaceShape DEF TypeOK, ScriptPlaces
<1>i. RecordedRan /\ OldIsComplete /\ MarksInOrder /\ MigratesInOrder /\ ConstraintStays /\ OnlyAccidentsForget
  BY DEF ScriptInv
<1>n. /\ Narrow \in Files /\ Widen \in Files /\ 1 \in Files /\ 1 < Narrow /\ Narrow < Widen
      /\ Files \subseteq Nat /\ LastFile \in Nat /\ (\A f \in Files : 1 <= f /\ f <= LastFile)
      /\ script.file > LastFile \/ script.file \in Files
      /\ script.file \in Nat
      /\ \A f \in Files : content[f] # NotRecorded
  BY <1>t, DeploymentAssumption DEF Files, Contents, NotRecorded
<1> USE <1>t, <1>i, <1>n DEF At, Goes, NextFile
<1>1. CASE UNCHANGED <<content, recorded, begun, ran, check, script, unsure, torn>>
  BY <1>1 DEF ScriptInv, RecordedRan, OldIsComplete, MarksInOrder, MigratesInOrder, ConstraintStays,
              OnlyAccidentsForget, AllRan, NoneRecorded, AppliedBelow, Migrating, UsersExist
<1> DEFINE Kept == UNCHANGED <<content, recorded, begun, ran, check, unsure, torn>>
\* To a place where nothing is claimed of the database.
<1>2. ASSUME Kept, script'.pc \in {"idle", "count"},
             At("record") => FALSE, At("mark") => torn \/ NoneRecorded \/ script.file > LastFile
      PROVE  ScriptInv'
  <2>1. RecordedRan' /\ MarksInOrder' /\ MigratesInOrder' /\ ConstraintStays'
    BY <1>2 DEF RecordedRan, MarksInOrder, MigratesInOrder, ConstraintStays, Migrating
  <2>2. OldIsComplete' /\ OnlyAccidentsForget'
    BY <1>2 DEF OldIsComplete, OnlyAccidentsForget, AllRan, NoneRecorded, Migrating, UsersExist, MarksInOrder
  <2> QED BY <2>1, <2>2 DEF ScriptInv
<1>3. CASE ComposeUp
  BY <1>2, <1>3 DEF ComposeUp, NoSql, DeployFrame
<1>4. CASE CountRecorded
  <2>1. CASE NoneRecorded
    <3>1. script' = [pc |-> "tables", file |-> 1] /\ Kept
      BY <1>4, <2>1 DEF CountRecorded, NoneRecorded, NoSql, DeployFrame
    <3>2. RecordedRan' /\ MarksInOrder' /\ MigratesInOrder' /\ ConstraintStays'
      BY <2>1, <3>1 DEF RecordedRan, MarksInOrder, MigratesInOrder, ConstraintStays, Migrating, NoneRecorded
    <3>3. OldIsComplete' /\ OnlyAccidentsForget'
      BY <1>4, <3>1 DEF CountRecorded, OldIsComplete, OnlyAccidentsForget, AllRan, NoneRecorded, Migrating, UsersExist
    <3> QED BY <3>2, <3>3 DEF ScriptInv
  <2>2. CASE ~ NoneRecorded
    <3>1. script' = [pc |-> "lookup", file |-> 1] /\ Kept
      BY <1>4, <2>2 DEF CountRecorded, NoneRecorded, NoSql, DeployFrame
    <3>2. RecordedRan' /\ MarksInOrder' /\ MigratesInOrder' /\ ConstraintStays'
      BY <3>1 DEF RecordedRan, MarksInOrder, MigratesInOrder, ConstraintStays, Migrating, AppliedBelow
    <3>3. OldIsComplete' /\ OnlyAccidentsForget'
      BY <1>4, <2>2, <3>1 DEF CountRecorded, OldIsComplete, OnlyAccidentsForget, NoneRecorded
    <3> QED BY <3>2, <3>3 DEF ScriptInv
  <2> QED BY <2>1, <2>2
<1>5. CASE FindUsers
  <2>0. NoneRecorded /\ Kept
    BY <1>5 DEF FindUsers, MarksInOrder, NoSql, DeployFrame
  <2>1. CASE UsersExist
    <3>1. script' = [pc |-> "mark", file |-> 1]
      BY <1>5, <2>1 DEF FindUsers
    <3>2. RecordedRan' /\ MarksInOrder' /\ MigratesInOrder' /\ ConstraintStays'
      BY <2>0, <2>1, <3>1 DEF RecordedRan, MarksInOrder, MigratesInOrder, ConstraintStays, Migrating,
         NoneRecorded, OldIsComplete, UsersExist, AllRan, AppliedBelow
    <3>3. OldIsComplete' /\ OnlyAccidentsForget'
      BY <2>0, <2>1, <3>1 DEF OldIsComplete, OnlyAccidentsForget, NoneRecorded, AllRan, Migrating, UsersExist
    <3> QED BY <3>2, <3>3 DEF ScriptInv
  <2>2. CASE ~ UsersExist
    <3>1. script' = [pc |-> "lookup", file |-> 1]
      BY <1>5, <2>2 DEF FindUsers
    <3>2. RecordedRan' /\ MarksInOrder' /\ MigratesInOrder' /\ ConstraintStays'
      BY <2>0, <3>1 DEF RecordedRan, MarksInOrder, MigratesInOrder, ConstraintStays, Migrating, AppliedBelow
    <3>3. OldIsComplete' /\ OnlyAccidentsForget'
      BY <1>5, <2>0, <2>2, <3>1 DEF FindUsers, OldIsComplete, OnlyAccidentsForget, NoneRecorded, UsersExist
    <3> QED BY <3>2, <3>3 DEF ScriptInv
  <2> QED BY <2>1, <2>2
<1>6. CASE MarkFile
  <2>0. /\ UsersExist /\ AllRan /\ check = "wide" /\ AppliedBelow(script.file)
        /\ \A f \in Files : f >= script.file => recorded[f] = NotRecorded
        /\ UNCHANGED <<begun, ran, check, content, unsure, torn>>
    BY <1>6 DEF MarkFile, MarksInOrder, DeployFrame
  <2>1. CASE script.file > LastFile
    <3>1. script' = [pc |-> "lookup", file |-> 1] /\ Kept
      BY <1>6, <2>0, <2>1 DEF MarkFile
    <3>2. \A f \in Files : recorded[f] # NotRecorded
      BY <2>0, <2>1 DEF AppliedBelow
    <3>3. RecordedRan' /\ MarksInOrder' /\ MigratesInOrder' /\ ConstraintStays'
      BY <3>1 DEF RecordedRan, MarksInOrder, MigratesInOrder, ConstraintStays, Migrating, AppliedBelow
    <3>4. OldIsComplete' /\ OnlyAccidentsForget'
      BY <3>1, <3>2 DEF OldIsComplete, OnlyAccidentsForget, NoneRecorded
    <3> QED BY <3>3, <3>4 DEF ScriptInv
  <2>2. CASE script.file <= LastFile
    <3>1. /\ script' = [pc |-> "mark", file |-> script.file + 1] /\ script.file \in Files
          /\ recorded' = [recorded EXCEPT ![script.file] = content[script.file]]
      BY <1>6, <2>0, <2>2 DEF MarkFile
    <3>2. RecordedRan'
      BY <2>0, <3>1 DEF RecordedRan, AllRan
    <3>3. MarksInOrder'
      BY <2>0, <3>1 DEF MarksInOrder, UsersExist, AllRan, AppliedBelow
    <3>4. MigratesInOrder'
      BY <2>0, <3>1 DEF MigratesInOrder, Migrating
    <3>5. ConstraintStays'
      BY <2>0, <3>1 DEF ConstraintStays, AppliedBelow
    <3>6. OldIsComplete' /\ OnlyAccidentsForget'
      BY <1>6, <2>0, <3>1 DEF MarkFile, OldIsComplete, OnlyAccidentsForget, NoneRecorded, AppliedBelow
    <3> QED BY <3>2, <3>3, <3>4, <3>5, <3>6 DEF ScriptInv
  <2> QED BY <2>1, <2>2
<1>7. CASE Lookup
  <2>0. Kept /\ At("lookup") /\ AppliedBelow(script.file) /\ (NoneRecorded => ~ UsersExist)
    BY <1>7 DEF Lookup, MigratesInOrder, Migrating, OldIsComplete, NoSql, DeployFrame
  <2>1. CASE script'.pc = "restart"
    BY <1>7, <2>0, <2>1 DEF Lookup, ScriptInv, RecordedRan, OldIsComplete, MarksInOrder, MigratesInOrder,
       ConstraintStays, OnlyAccidentsForget, AllRan, NoneRecorded, AppliedBelow, Migrating, UsersExist
  <2>2. CASE script'.pc = "schema"
    BY <1>7, <2>0, <2>2 DEF Lookup, ScriptInv, RecordedRan, OldIsComplete, MarksInOrder, MigratesInOrder,
       ConstraintStays, OnlyAccidentsForget, NoneRecorded, AppliedBelow, Migrating, UsersExist
  <2>3. CASE script'.pc = "lookup"
    BY <1>7, <2>0, <2>3 DEF Lookup, ScriptInv, RecordedRan, OldIsComplete, MarksInOrder, MigratesInOrder,
       ConstraintStays, OnlyAccidentsForget, NoneRecorded, AppliedBelow, Migrating, UsersExist
  <2>4. CASE script'.pc = "idle"
    BY <1>2, <2>0, <2>4
  <2> QED BY <1>7, <2>1, <2>2, <2>3, <2>4 DEF Lookup
<1>8. CASE RunSchema
  <2>1. /\ script.file \in Files /\ recorded[script.file] = NotRecorded /\ AppliedBelow(script.file)
        /\ (NoneRecorded => ~ UsersExist) /\ script.pc = "schema"
        /\ script' = [pc |-> "data", file |-> script.file] /\ begun' = begun \cup {script.file}
        /\ UNCHANGED <<content, recorded, ran, unsure, torn>>
        /\ check' = IF script.file \in {Narrow, Widen} THEN "none" ELSE check
    BY <1>8 DEF RunSchema, MigratesInOrder, OldIsComplete, Migrating, DeployFrame
  <2>2. RecordedRan' /\ MarksInOrder' /\ MigratesInOrder'
    BY <2>1 DEF RecordedRan, MarksInOrder, MigratesInOrder, Migrating, AppliedBelow
  <2>3. ConstraintStays'
    BY <2>1 DEF ConstraintStays
  <2>4. NoneRecorded => ~ UsersExist'
    BY <2>1 DEF NoneRecorded, UsersExist, AppliedBelow
  <2>5. OldIsComplete' /\ OnlyAccidentsForget'
    BY <2>1, <2>4 DEF OldIsComplete, OnlyAccidentsForget, NoneRecorded, UsersExist
  <2> QED BY <2>2, <2>3, <2>5 DEF ScriptInv
<1>9. CASE RunData
  <2>1. /\ script.file \in Files /\ recorded[script.file] = NotRecorded /\ AppliedBelow(script.file)
        /\ (NoneRecorded => ~ UsersExist) /\ script.pc = "data"
        /\ script' = [pc |-> "record", file |-> script.file]
        /\ ran' = [ran EXCEPT ![script.file] = @ \cup {content[script.file]}]
        /\ UNCHANGED <<content, recorded, begun, unsure, torn>>
        /\ check' = IF script.file = Narrow THEN "narrow" ELSE IF script.file = Widen THEN "wide" ELSE check
    BY <1>9 DEF RunData, MigratesInOrder, OldIsComplete, Migrating
  <2>2. RecordedRan' /\ MarksInOrder' /\ MigratesInOrder'
    BY <2>1 DEF RecordedRan, MarksInOrder, MigratesInOrder, Migrating, AppliedBelow
  <2>3. ConstraintStays'
    BY <2>1 DEF ConstraintStays
  <2>4. OldIsComplete' /\ OnlyAccidentsForget'
    BY <2>1 DEF OldIsComplete, OnlyAccidentsForget, NoneRecorded, UsersExist
  <2> QED BY <2>2, <2>3, <2>4 DEF ScriptInv
<1>10. CASE RunRefused
  BY <1>2, <1>10 DEF RunRefused, NoSql, DeployFrame
<1>11. CASE Record
  <2>1. /\ script.file \in Files /\ recorded[script.file] = NotRecorded /\ AppliedBelow(script.file)
        /\ script.pc = "record" /\ content[script.file] \in ran[script.file]
        /\ script' = [pc |-> "lookup", file |-> script.file + 1]
        /\ recorded' = [recorded EXCEPT ![script.file] = content[script.file]]
        /\ UNCHANGED <<content, ran, check, begun, unsure, torn>>
    BY <1>11 DEF Record, MigratesInOrder, Migrating, DeployFrame
  <2>2. RecordedRan' /\ MarksInOrder' /\ MigratesInOrder'
    BY <2>1 DEF RecordedRan, MarksInOrder, MigratesInOrder, Migrating, AppliedBelow
  <2>3. ConstraintStays'
    BY <2>1 DEF ConstraintStays, AppliedBelow
  <2>4. OldIsComplete' /\ OnlyAccidentsForget'
    BY <2>1 DEF OldIsComplete, OnlyAccidentsForget, NoneRecorded, Migrating
  <2> QED BY <2>2, <2>3, <2>4 DEF ScriptInv
<1>12. CASE Restart \/ WaitForApi
  <2>1. Kept /\ script.pc \in {"restart", "wait"} /\ script'.pc \in {"wait", "done"}
    BY <1>12 DEF Restart, WaitForApi, NoSql, DeployFrame
  <2> QED BY <2>1 DEF ScriptInv, RecordedRan, OldIsComplete, MarksInOrder, MigratesInOrder,
       ConstraintStays, OnlyAccidentsForget, AllRan, NoneRecorded, Migrating, UsersExist
<1>13. CASE DeployDies
  <2>1. /\ script'.pc = "idle" /\ UNCHANGED <<content, recorded, begun, ran, check>>
        /\ torn' = (torn \/ (At("mark") /\ script.file \in 2..LastFile))
        /\ unsure' = IF script.pc \in {"data", "record"} THEN unsure \cup {script.file} ELSE unsure
    BY <1>13 DEF DeployDies
  <2>2. RecordedRan' /\ MarksInOrder' /\ MigratesInOrder' /\ ConstraintStays' /\ OldIsComplete'
    BY <2>1 DEF RecordedRan, MarksInOrder, MigratesInOrder, ConstraintStays, OldIsComplete, Migrating,
       AllRan, NoneRecorded, UsersExist
  <2>3. OnlyAccidentsForget'
    <3>1. CASE script.pc = "mark" /\ script.file = 1
      <4>1. NoneRecorded /\ UsersExist
        BY <3>1 DEF MarksInOrder, NoneRecorded
      <4> QED BY <2>1, <4>1 DEF OnlyAccidentsForget, NoneRecorded, UsersExist
    <3>2. CASE script.pc = "mark" /\ script.file # 1
      <4>1. CASE script.file > LastFile
        <5>1. \A f \in Files : recorded[f] # NotRecorded
          BY <3>2, <4>1 DEF MarksInOrder, AppliedBelow
        <5> QED BY <2>1, <5>1 DEF OnlyAccidentsForget
      <4>2. CASE script.file <= LastFile
        <5>1. torn'
          <6>1. script.pc = "mark" /\ script.file \in 2..LastFile
            BY <3>2, <4>2, <1>t
          <6> QED BY <2>1, <6>1, Zenon
        <5> QED BY <5>1 DEF OnlyAccidentsForget
      <4> QED BY <4>1, <4>2
    <3>3. CASE script.pc # "mark"
      BY <2>1, <3>3 DEF OnlyAccidentsForget, NoneRecorded, UsersExist
    <3> QED BY <3>1, <3>2, <3>3
  <2> QED BY <2>2, <2>3 DEF ScriptInv
<1>14. ASSUME NEW f \in Files, Edit(f) PROVE ScriptInv'
  <2>1. /\ script.pc \in {"idle", "done"} /\ script' = [pc |-> "idle", file |-> 1]
        /\ ~ NoneRecorded /\ UNCHANGED <<recorded, begun, ran, check, unsure, torn>>
    BY <1>14 DEF Edit, NoSql, NoneRecorded
  <2>2. RecordedRan' /\ MarksInOrder' /\ MigratesInOrder' /\ ConstraintStays'
    BY <2>1 DEF RecordedRan, MarksInOrder, MigratesInOrder, ConstraintStays, Migrating
  <2>3. OldIsComplete' /\ OnlyAccidentsForget'
    BY <2>1 DEF OldIsComplete, OnlyAccidentsForget, NoneRecorded
  <2> QED BY <2>2, <2>3 DEF ScriptInv
<1>15. CASE ApiStep
  <2>1. UNCHANGED <<content, recorded, begun, ran, check, script, unsure, torn>>
    BY <1>15 DEF ApiStep, Starts, Scan, Encrypt, Serve, EncryptFails, ApiDies, Register,
       VerifyEmail, Apply, Approve, ApiFrame, scriptVars
  <2> QED BY <1>1, <2>1
<1>16. CASE UNCHANGED vars
  BY <1>1, <1>16 DEF vars, scriptVars
<1> QED BY <1>3, <1>4, <1>5, <1>6, <1>7, <1>8, <1>9, <1>10, <1>11, <1>12, <1>13, <1>14, <1>15, <1>16
        DEF Next, DeployStep

-----------------------------------------------------------------------------
(* Accounts and personal data *)

\* Only a file that an accident made the script forget is run again.
LEMMA RunsAgain ==
  ASSUME TypeOK, ScriptInv, At("data"), NEW f \in Files, script.file = f, ran[f] # {}
  PROVE  f \in unsure \/ torn
<1>1. recorded[f] = NotRecorded /\ ~ (NoneRecorded /\ UsersExist)
  BY DEF ScriptInv, MigratesInOrder, OldIsComplete, Migrating, At
<1> QED BY <1>1 DEF ScriptInv, OnlyAccidentsForget, At

LEMMA LateStep == TypeOK /\ ScriptInv /\ LateInv /\ [Next]_vars => LateInv'
<1> SUFFICES ASSUME TypeOK, ScriptInv, LateInv, [Next]_vars PROVE LateInv'
  OBVIOUS
<1>t. /\ ran \in [Files -> SUBSET Contents] /\ Verify \in Files
      /\ users \in [Users -> {"none", "unverified", "proved", "assumed"}] /\ late \subseteq Users
  BY DeploymentAssumption DEF TypeOK
<1> USE <1>t DEF LateInv, VerifiedByToken
<1>1. CASE RunData
  <2>1. /\ script.pc = "data" /\ script.file \in Files
        /\ ran' = [ran EXCEPT ![script.file] = @ \cup {content[script.file]}]
        /\ UNCHANGED <<late, unsure, torn>>
    BY <1>1 DEF RunData, At, ScriptInv, MigratesInOrder
  <2>2. late' # {} => ran'[Verify] # {}
    BY <2>1
  <2>3. CASE script.file = Verify
    BY <2>1, <2>3, RunsAgain DEF At
  <2>4. CASE script.file # Verify
    BY <1>1, <2>1, <2>4 DEF RunData
  <2> QED BY <2>2, <2>3, <2>4
<1>2. CASE ~ RunData /\ (ComposeUp \/ DeployStep \/ \E f \in Files : Edit(f))
  BY <1>2 DEF ComposeUp, DeployStep, CountRecorded, FindUsers, MarkFile, Lookup, RunSchema, RunRefused,
     Record, Restart, WaitForApi, Edit, NoSql, DeployFrame, dataVars
<1>3. CASE DeployDies
  BY <1>3 DEF DeployDies, dataVars
<1>4. ASSUME NEW u \in Users, Register(u) \/ VerifyEmail(u) PROVE LateInv'
  BY <1>4 DEF Register, VerifyEmail, ApiFrame, scriptVars
<1>5. CASE ApiStep /\ UNCHANGED <<users, late>>
  <2>1. UNCHANGED <<ran, unsure, torn>>
    BY <1>5 DEF ApiStep, Starts, Scan, Encrypt, Serve, EncryptFails, ApiDies, Register,
       VerifyEmail, Apply, Approve, ApiFrame, scriptVars
  <2> QED BY <1>5, <2>1
<1>6. CASE UNCHANGED vars
  BY <1>6 DEF vars, scriptVars, dataVars
<1>7. ApiStep => UNCHANGED <<users, late>> \/ \E u \in Users : Register(u) \/ VerifyEmail(u)
  BY DEF ApiStep, Starts, Scan, Encrypt, Serve, EncryptFails, ApiDies, Apply, Approve, dataVars
<1> QED BY <1>1, <1>2, <1>3, <1>4, <1>5, <1>6, <1>7 DEF Next

LEMMA ClearStep == TypeOK /\ ScriptInv /\ ClearInv /\ [Next]_vars => ClearInv'
<1> SUFFICES ASSUME TypeOK, ScriptInv, ClearInv, [Next]_vars PROVE ClearInv'
  OBVIOUS
<1>t. api \in [Replicas -> Servers] /\ rows \in [Rows -> {"none", "plain", "encrypted"}]
  BY DEF TypeOK, Servers
<1>r. script.pc \in {"restart", "wait", "done"} => PiiReady
  <2>1. Pii \in Files /\ content[Pii] # NotRecorded
    BY DeploymentAssumption DEF TypeOK, Contents, NotRecorded
  <2> QED BY <2>1 DEF ScriptInv, MigratesInOrder, RecordedRan, PiiReady
<1> USE <1>t DEF ClearInv, NothingInClear, NonePlain, At, Goes, NextFile
<1>1. CASE ComposeUp \/ Restart
  BY <1>1, ServerShape DEF ComposeUp, Restart, DeployFrame
<1>2. CASE WaitForApi
  BY <1>2 DEF WaitForApi, ApiRuns, DeployFrame
<1>3. ASSUME UNCHANGED <<api, rows, failed>>, script' = script \/ script'.pc \notin {"wait", "done"}
      PROVE  ClearInv'
  BY <1>3
<1>4. CASE DeployStep /\ ~ Restart /\ ~ WaitForApi
  BY <1>3, <1>4 DEF DeployStep, CountRecorded, FindUsers, MarkFile, Lookup, RunSchema, RunData, RunRefused,
     Record, ApiRuns, DeployFrame
<1>5. CASE DeployDies \/ \E f \in Files : Edit(f)
  BY <1>3, <1>5 DEF DeployDies, Edit, ApiRuns, dataVars
<1>6. ASSUME NEW r \in Replicas, Scan(r) PROVE ClearInv'
  <2>1. script' = script /\ UNCHANGED <<rows, failed>>
    BY <1>6 DEF Scan, ApiFrame, scriptVars, dataVars
  <2>2. CASE PiiReady
    BY <1>6, <2>1, <2>2, ServerShape DEF Scan, ApiGoes
  <2>3. CASE ~ PiiReady
    BY <1>6, <1>r, <2>1, <2>3, ServerShape DEF Scan, ApiGoes
  <2> QED BY <2>2, <2>3
<1>7. ASSUME NEW r \in Replicas, Encrypt(r) PROVE ClearInv'
  <2>1. PICK a \in api[r].todo : /\ ApiGoes(r, "encrypting", api[r].todo \ {a})
                                /\ rows' = [rows EXCEPT ![a] = "encrypted"]
    BY <1>7 DEF Encrypt
  <2>2. script' = script /\ UNCHANGED failed /\ a \in Rows /\ api[r].pc = "encrypting"
    BY <1>7, <2>1, ServerShape DEF Encrypt, ApiFrame, scriptVars
  <2>3. api' = [api EXCEPT ![r] = Replica("encrypting", api[r].todo \ {a})]
    BY <2>1 DEF ApiGoes
  <2>4. /\ Replica("encrypting", api[r].todo \ {a}).pc = "encrypting"
        /\ Replica("encrypting", api[r].todo \ {a}).todo = api[r].todo \ {a}
    BY DEF Replica
  <2> QED BY <2>1, <2>2, <2>3, <2>4
<1>8. ASSUME NEW r \in Replicas, Serve(r) \/ EncryptFails(r) \/ ApiDies(r) PROVE ClearInv'
  <2>1. script' = script /\ UNCHANGED rows /\ (failed => failed')
    BY <1>8 DEF Serve, EncryptFails, ApiDies, ApiFrame, scriptVars, dataVars
  <2>2. CASE Serve(r)
    BY <2>1, <2>2, ServerShape DEF Serve, ApiGoes
  <2>3. CASE EncryptFails(r)
    BY <2>1, <2>3, ServerShape DEF EncryptFails, ApiGoes
  <2>4. CASE ApiDies(r)
    BY <2>1, <2>4, ServerShape DEF ApiDies, ApiGoes
  <2> QED BY <1>8, <2>2, <2>3, <2>4
<1>9. CASE \E u \in Users : Register(u) \/ VerifyEmail(u)
  BY <1>3, <1>9 DEF Register, VerifyEmail, ApiFrame, ApiRuns, scriptVars
<1>10. ASSUME NEW a \in Rows, Apply(a) PROVE ClearInv'
  BY <1>10 DEF Apply, ApiFrame, ApiRuns, scriptVars
<1>11. CASE Approve
  BY <1>3, <1>11 DEF Approve, ApiFrame, ApiRuns, scriptVars
<1>12. CASE UNCHANGED vars
  BY <1>3, <1>12 DEF vars, scriptVars, dataVars
<1> QED BY <1>1, <1>2, <1>4, <1>5, <1>6, <1>7, <1>8, <1>9, <1>10, <1>11, <1>12 DEF Next, ApiStep, Starts

-----------------------------------------------------------------------------
(* Theorems *)

LEMMA Invariant == NewOrComplete /\ Spec => []DeployInv
<1>1. NewOrComplete /\ Init => DeployInv
  <2>1. Init => LateInv /\ ClearInv
    BY ServerShape DEF Init, LateInv, ClearInv, VerifiedByToken, NothingInClear, At
  <2> QED BY <2>1, TypeInit, ScriptInit DEF DeployInv
<1>2. DeployInv /\ [Next]_vars => DeployInv'
  <2>1. DeployInv => MigratesInOrder
    BY DEF DeployInv, ScriptInv
  <2> QED BY <2>1, TypeStep, ScriptStep, LateStep, ClearStep DEF DeployInv
<1> QED BY <1>1, <1>2, PTL DEF Spec

\* The state of the script and of the database stay within their types.
THEOREM DeploymentTypeCorrect == NewOrComplete /\ Spec => []TypeOK
<1>1. DeployInv => TypeOK
  BY DEF DeployInv
<1> QED BY <1>1, Invariant, PTL

\* Nothing is recorded as applied that did not run to its end (migrate.sh), wherever
\* deployments die, on a new database or on one that has everything.
THEOREM RecordedMeansRan == NewOrComplete /\ Spec => []RecordedRan
<1>1. DeployInv => RecordedRan
  BY DEF DeployInv, ScriptInv
<1> QED BY <1>1, Invariant, PTL

\* A deployment that reports success has applied every migration as it is in the
\* directory, and left the wider of the two constraints.
THEOREM DoneMeansUpToDate == NewOrComplete /\ Spec => []DoneIsUpToDate
<1>1. DeployInv => DoneIsUpToDate
  <2> SUFFICES ASSUME DeployInv, At("done") PROVE (\A f \in Files : content[f] \in ran[f]) /\ check = "wide"
    BY DEF DoneIsUpToDate
  <2>1. \A f \in Files : recorded[f] = content[f] /\ content[f] # NotRecorded
    BY DEF DeployInv, TypeOK, ScriptInv, MigratesInOrder, At, Contents, NotRecorded
  <2> QED BY <2>1, DeploymentAssumption DEF DeployInv, ScriptInv, RecordedRan, ConstraintStays
<1> QED BY <1>1, Invariant, PTL

\* A migration runs a second time only when a deployment died between the migration
\* and its record, or among the marks of an old database.
THEOREM MigrationsRunOnce == NewOrComplete /\ Spec => AppliedOnce
<1>1. DeployInv =>
        (\A f \in Files : At("data") /\ script.file = f /\ ran[f] # {} /\ script'.pc = "record"
                            => f \in unsure \/ torn)
  BY RunsAgain DEF DeployInv
<1> QED BY <1>1, Invariant, PTL DEF AppliedOnce

\* Accounts that register once there is e-mail verification are verified by a token, unless
\* a deployment died before it had recorded the migration that introduced it, or among the
\* records of an old database.
THEOREM TokensVerify == NewOrComplete /\ Spec => []VerifiedByToken
<1>1. DeployInv => VerifiedByToken
  BY DEF DeployInv, LateInv
<1> QED BY <1>1, Invariant, PTL

\* However many replicas encrypt the same rows, nothing is in clear after a deployment
\* unless an encryption failed.
THEOREM NothingLeftInClear == NewOrComplete /\ Spec => []NothingInClear
<1>1. DeployInv => NothingInClear
  BY DEF DeployInv, ClearInv
<1> QED BY <1>1, Invariant, PTL

=============================================================================
