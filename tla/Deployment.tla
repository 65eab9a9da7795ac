----------------------------- MODULE Deployment -----------------------------
(***************************************************************************)
(* A deployment: the API is started, the migrations that the database does *)
(* not have yet are applied and recorded, and the API is restarted to      *)
(* encrypt what older versions stored in clear.                            *)
(* Source: deploy.sh, migrate.sh, migrations 002, 004, 005, 008 and 011,   *)
(* and the start of the API in main.go and crypto.go.                      *)
(*                                                                         *)
(* psql runs every statement in its own transaction, so a deployment that  *)
(* is killed leaves what it did.  A migration is two statements here: one  *)
(* that may be repeated at will (IF NOT EXISTS), and one that may not.     *)
(* One deployment runs at a time; deploy.sh itself does not ensure that.   *)
(***************************************************************************)
EXTENDS Integers, FiniteSets

CONSTANTS LastFile,                  \* the migrations are 1..LastFile, in the order of their names
          Narrow,                    \* 002: users; a CHECK on statuses that do not know of funding
          Pii,                       \* 004: the columns for encrypted data
          Widen,                     \* 005: the CHECK is replaced by a wider one
          Verify,                    \* 011: existing accounts count as verified
          Bases,                     \* the first b files ran before there was a version table
          Replicas,                  \* of the API
          Users, Rows,               \* accounts, and applications with personal data
          MaxAccidents               \* bound: processes that die or calls that fail

Files == 1..LastFile

ASSUME DeploymentAssumption == /\ LastFile \in Nat
                               /\ {Narrow, Pii, Widen, Verify} \subseteq Files
                               /\ 1 < Narrow /\ Narrow < Widen
                               /\ Bases \subseteq 0..LastFile
                               /\ MaxAccidents \in Nat

VARIABLES script,     \* what deploy.sh is doing, and with which file
          content,    \* the checksum of each file as it is now
          recorded,   \* schema_migrations: the checksum of each file, NotRecorded without a row
          begun,      \* the files whose first statement ran
          ran,        \* the contents of each file that ran to the end
          check,      \* the CHECK constraint on the status of applications
          funding,    \* some application has a status that only Widen allows
          users,      \* users.email_verified_at
          late,       \* the accounts made after Verify had run
          rows,       \* the personal data of each application
          api,        \* what each replica is doing, and the rows it still has to encrypt
          failed,     \* an encryption failed since the API was restarted
          torn,       \* a deployment died while it recorded what an old database has
          unsure,     \* the files that may have run without being recorded
          accidents

scriptVars == <<script, recorded, begun, ran, check>>
dataVars == <<funding, users, late, rows>>
vars == <<scriptVars, dataVars, content, api, failed, torn, unsure, accidents>>

-----------------------------------------------------------------------------
(* Types *)

Contents == {1, 2}
NotRecorded == 0

Steps == {"idle", "up", "count", "tables", "mark", "lookup", "schema", "data", "record",
          "restart", "wait", "done"}

TypeOK ==
  /\ script \in [pc : Steps, file : 1..(LastFile + 1)]
  /\ content \in [Files -> Contents]
  /\ recorded \in [Files -> Contents \cup {NotRecorded}]
  /\ begun \subseteq Files
  /\ ran \in [Files -> SUBSET Contents]
  /\ check \in {"none", "narrow", "wide"}
  /\ funding \in BOOLEAN
  /\ users \in [Users -> {"none", "unverified", "proved", "assumed"}]
  /\ late \subseteq Users
  /\ rows \in [Rows -> {"none", "plain", "encrypted"}]
  /\ api \in [Replicas -> [pc : {"down", "starting", "encrypting", "up"}, todo : SUBSET Rows]]
  /\ failed \in BOOLEAN
  /\ torn \in BOOLEAN
  /\ unsure \subseteq Files
  /\ accidents \in 0..MaxAccidents

Replica(pc, todo) == [pc |-> pc, todo |-> todo]

\* An empty database, or one that older scripts migrated and never recorded.
Init ==
  /\ script = [pc |-> "idle", file |-> 1]
  /\ content = [f \in Files |-> 1]
  /\ recorded = [f \in Files |-> NotRecorded]
  /\ \E base \in Bases :
       /\ begun = 1..base
       /\ ran = [f \in Files |-> IF f <= base THEN {1} ELSE {}]
       /\ check = IF base >= Widen THEN "wide" ELSE IF base >= Narrow THEN "narrow" ELSE "none"
       /\ funding \in (IF base >= Widen THEN BOOLEAN ELSE {FALSE})
       /\ unsure = IF base < Narrow THEN 1..base ELSE {}
       /\ rows \in [Rows -> IF base = 0 THEN {"none"} ELSE {"none", "plain"}]
  /\ users = [u \in Users |-> "none"]
  /\ late = {}
  /\ api = [r \in Replicas |-> Replica("down", {})]
  /\ failed = FALSE
  /\ torn = FALSE
  /\ accidents = 0

-----------------------------------------------------------------------------
(* deploy.sh and migrate.sh *)

At(pc) == script.pc = pc
Goes(pc, f) == script' = [pc |-> pc, file |-> f]
NextFile(pc) == Goes(pc, script.file + 1)
DeployFrame == UNCHANGED <<content, users, late, rows, funding, torn, unsure, accidents>>
NoSql == UNCHANGED <<recorded, begun, ran, check>>
ApiRuns == UNCHANGED <<api, failed>>

\* docker compose up: every replica is started, before there is anything to migrate to.
ComposeUp ==
  /\ At("idle") \/ At("done")
  /\ Goes("count", 1)
  /\ api' = [r \in Replicas |-> Replica("starting", {})]
  /\ failed' = FALSE
  /\ NoSql /\ DeployFrame

\* bootstrap_existing_schema: nothing is recorded yet ...
CountRecorded ==
  /\ At("count")
  /\ Goes(IF \A f \in Files : recorded[f] = NotRecorded THEN "tables" ELSE "lookup", 1)
  /\ NoSql /\ ApiRuns /\ DeployFrame

\* ... although there are users: then all files count as applied.
UsersExist == Narrow \in begun

\* Mutant: an old database is migrated from the first file on.
StartOver ==
  /\ At("tables")
  /\ Goes("lookup", 1)
  /\ NoSql /\ ApiRuns /\ DeployFrame

FindUsers ==
  /\ At("tables")
  /\ Goes(IF UsersExist THEN "mark" ELSE "lookup", 1)
  /\ NoSql /\ ApiRuns /\ DeployFrame

\* One INSERT ... ON CONFLICT DO NOTHING for each file.
MarkFile ==
  /\ At("mark")
  /\ IF script.file > LastFile
     THEN Goes("lookup", 1) /\ UNCHANGED recorded
     ELSE /\ NextFile("mark")
          /\ recorded' = IF recorded[script.file] = NotRecorded
                         THEN [recorded EXCEPT ![script.file] = content[script.file]]
                         ELSE recorded
  /\ UNCHANGED <<begun, ran, check>> /\ ApiRuns /\ DeployFrame

\* Mutant: a file is skipped when it is recorded with any checksum.
LookupAny ==
  /\ At("lookup")
  /\ \/ script.file > LastFile /\ Goes("restart", 1)
     \/ script.file <= LastFile /\ recorded[script.file] # NotRecorded /\ NextFile("lookup")
     \/ script.file <= LastFile /\ recorded[script.file] = NotRecorded /\ Goes("schema", script.file)
  /\ NoSql /\ ApiRuns /\ DeployFrame

\* Mutant: a file that was changed is applied again.
LookupChanged ==
  /\ At("lookup")
  /\ IF script.file > LastFile THEN Goes("restart", 1)
     ELSE IF recorded[script.file] = content[script.file] THEN NextFile("lookup")
     ELSE Goes("schema", script.file)
  /\ NoSql /\ ApiRuns /\ DeployFrame

\* A recorded file is skipped, or fails the deployment if it was changed since.
Lookup ==
  /\ At("lookup")
  /\ \/ script.file > LastFile /\ Goes("restart", 1)
     \/ /\ script.file <= LastFile
        /\ LET mark == recorded[script.file]
           IN  CASE mark = NotRecorded          -> Goes("schema", script.file)
                 [] mark = content[script.file] -> NextFile("lookup")
                 [] OTHER                       -> Goes("idle", 1)
  /\ NoSql /\ ApiRuns /\ DeployFrame

\* Mutant: a file is recorded before it is run.
RecordFirst ==
  /\ At("schema")
  /\ Goes("data", script.file)
  /\ begun' = begun \cup {script.file}
  /\ recorded' = [recorded EXCEPT ![script.file] = content[script.file]]
  /\ UNCHANGED <<ran, check>> /\ ApiRuns /\ DeployFrame

\* The statements that may be repeated; 002 and 005 drop the constraint they replace.
RunSchema ==
  /\ At("schema")
  /\ Goes("data", script.file)
  /\ begun' = begun \cup {script.file}
  /\ check' = IF script.file \in {Narrow, Widen} THEN "none" ELSE check
  /\ UNCHANGED <<recorded, ran>> /\ ApiRuns /\ DeployFrame

\* PostgreSQL refuses a CHECK that existing rows violate.
Fits == script.file = Narrow => ~ funding

RunData ==
  /\ At("data")
  /\ Fits
  /\ Goes("record", script.file)
  /\ ran' = [ran EXCEPT ![script.file] = @ \cup {content[script.file]}]
  /\ check' = IF script.file = Narrow THEN "narrow" ELSE IF script.file = Widen THEN "wide" ELSE check
  /\ users' = IF script.file = Verify
              THEN [u \in Users |-> IF users[u] = "unverified" THEN "assumed" ELSE users[u]]
              ELSE users
  /\ UNCHANGED <<recorded, begun, content, late, rows, funding, torn, unsure, accidents>> /\ ApiRuns

RunRefused ==
  /\ At("data")
  /\ ~ Fits
  /\ Goes("idle", 1)
  /\ NoSql /\ ApiRuns /\ DeployFrame

Record ==
  /\ At("record")
  /\ NextFile("lookup")
  /\ recorded' = [recorded EXCEPT ![script.file] = content[script.file]]
  /\ UNCHANGED <<begun, ran, check>> /\ ApiRuns /\ DeployFrame

\* Mutant: the API is not restarted after the migrations.
NoRestart ==
  /\ At("restart")
  /\ Goes("wait", 1)
  /\ NoSql /\ ApiRuns /\ DeployFrame

Restart ==
  /\ At("restart")
  /\ Goes("wait", 1)
  /\ api' = [r \in Replicas |-> Replica("starting", {})]
  /\ failed' = FALSE
  /\ NoSql /\ DeployFrame

WaitForApi ==
  /\ At("wait")
  /\ \E r \in Replicas : api[r].pc = "up"
  /\ Goes("done", 1)
  /\ NoSql /\ ApiRuns /\ DeployFrame

DeployStep ==
  \/ CountRecorded \/ FindUsers \/ MarkFile \/ Lookup
  \/ RunSchema \/ RunData \/ RunRefused \/ Record \/ Restart \/ WaitForApi

Accident == accidents < MaxAccidents /\ accidents' = accidents + 1

\* The script is killed, or loses the database: set -e ends it where it is.
DeployDies ==
  /\ ~ At("idle") /\ ~ At("done")
  /\ Accident
  /\ Goes("idle", 1)
  /\ torn' = (torn \/ (At("mark") /\ script.file \in 2..LastFile))
  /\ unsure' = IF script.pc \in {"data", "record"} THEN unsure \cup {script.file} ELSE unsure
  /\ UNCHANGED <<recorded, begun, ran, check, content>> /\ UNCHANGED dataVars /\ ApiRuns

\* Somebody changes a migration that the database already has (bound: one is changed).
Edit(f) ==
  /\ At("idle") \/ At("done")
  /\ recorded[f] # NotRecorded /\ \A g \in Files : content[g] = 1
  /\ content' = [content EXCEPT ![f] = 2]
  /\ Goes("idle", 1)
  /\ NoSql /\ UNCHANGED dataVars /\ ApiRuns /\ UNCHANGED <<torn, unsure, accidents>>

-----------------------------------------------------------------------------
(* The API *)

ApiFrame == UNCHANGED scriptVars /\ UNCHANGED <<content, torn, unsure>>
ApiGoes(r, pc, todo) == api' = [api EXCEPT ![r] = Replica(pc, todo)]

\* piiColumnsReady: both columns are there.
PiiReady == ran[Pii] # {}

\* Without the columns the API goes on; what is in clear waits for the next start.
Scan(r) ==
  /\ api[r].pc = "starting"
  /\ IF PiiReady THEN ApiGoes(r, "encrypting", {a \in Rows : rows[a] = "plain"})
                 ELSE ApiGoes(r, "up", {})
  /\ ApiFrame /\ UNCHANGED <<failed, accidents>> /\ UNCHANGED dataVars

\* One UPDATE a row; another replica may have been faster.
Encrypt(r) ==
  /\ api[r].pc = "encrypting"
  /\ \E a \in api[r].todo : /\ ApiGoes(r, "encrypting", api[r].todo \ {a})
                            /\ rows' = [rows EXCEPT ![a] = "encrypted"]
  /\ ApiFrame /\ UNCHANGED <<failed, accidents, funding, users, late>>

Serve(r) ==
  /\ api[r].pc = "encrypting" /\ api[r].todo = {}
  /\ ApiGoes(r, "up", {})
  /\ ApiFrame /\ UNCHANGED <<failed, accidents>> /\ UNCHANGED dataVars

\* An error, or the deadline of 60 seconds: the API starts with what it has done.
EncryptFails(r) ==
  /\ api[r].pc \in {"starting", "encrypting"}
  /\ Accident
  /\ ApiGoes(r, "up", {})
  /\ failed' = TRUE
  /\ ApiFrame /\ UNCHANGED dataVars

\* Docker restarts a replica that died.
ApiDies(r) ==
  /\ api[r].pc \in {"encrypting", "up"}
  /\ Accident
  /\ ApiGoes(r, "starting", {})
  /\ ApiFrame /\ UNCHANGED failed /\ UNCHANGED dataVars

Serving == \E r \in Replicas : api[r].pc = "up"

Register(u) ==
  /\ Serving /\ UsersExist
  /\ users[u] = "none"
  /\ users' = [users EXCEPT ![u] = "unverified"]
  /\ late' = IF ran[Verify] # {} THEN late \cup {u} ELSE late
  /\ ApiFrame /\ ApiRuns /\ UNCHANGED <<accidents, funding, rows>>

VerifyEmail(u) ==
  /\ Serving /\ ran[Verify] # {}
  /\ users[u] = "unverified"
  /\ users' = [users EXCEPT ![u] = "proved"]
  /\ ApiFrame /\ ApiRuns /\ UNCHANGED <<accidents, funding, rows, late>>

Apply(a) ==
  /\ Serving /\ PiiReady
  /\ rows[a] = "none"
  /\ rows' = [rows EXCEPT ![a] = "encrypted"]
  /\ ApiFrame /\ ApiRuns /\ UNCHANGED <<accidents, funding, users, late>>

Approve ==
  /\ Serving /\ ran[Widen] # {} /\ check # "narrow"
  /\ funding' = TRUE
  /\ ApiFrame /\ ApiRuns /\ UNCHANGED <<accidents, users, late, rows>>

Starts(r) == Scan(r) \/ Encrypt(r) \/ Serve(r)

ApiStep ==
  \/ \E r \in Replicas : Starts(r) \/ EncryptFails(r) \/ ApiDies(r)
  \/ \E u \in Users : Register(u) \/ VerifyEmail(u)
  \/ \E a \in Rows : Apply(a)
  \/ Approve

-----------------------------------------------------------------------------

Next ==
  \/ ComposeUp \/ DeployStep \/ DeployDies
  \/ \E f \in Files : Edit(f)
  \/ ApiStep

\* A deployment goes on until it is done or dies, one that failed is repeated, and
\* Docker lets every replica go on.
Fairness == /\ WF_vars(DeployStep) /\ WF_vars(ComposeUp /\ At("idle"))
            /\ \A r \in Replicas : WF_vars(Starts(r))

Spec == Init /\ [][Next]_vars /\ Fairness

-----------------------------------------------------------------------------
(* Properties *)

\* What the version table lists has run to the end with the checksum it gives,
\* wherever earlier deployments died.
RecordedRan == \A f \in Files : recorded[f] # NotRecorded => recorded[f] \in ran[f]

\* When a deployment reports success the database is what the files say: each ran as
\* it is now, and the constraint that two of them replace in turn is the last one.
DoneIsUpToDate ==
  At("done") => (\A f \in Files : content[f] \in ran[f]) /\ check = "wide"

\* "Each migration is applied only once" (migrate.sh): a second time needs a
\* deployment that died between a migration and its record, or inside the recording
\* of an old database; or a database so old that nobody knows what it has.
AppliedOnce ==
  [][\A f \in Files :
       At("data") /\ script.file = f /\ ran[f] # {} /\ script'.pc = "record"
         => f \in unsure \/ torn]_vars

\* Nobody who registers after e-mail verification was introduced counts as verified
\* without a token, unless the migration that introduced it was repeated.
VerifiedByToken == \A u \in late : users[u] = "assumed" => Verify \in unsure \/ torn

\* After a successful deployment no personal data is left in clear, whichever
\* replica came up first, unless an encryption failed.
NothingInClear == At("done") => failed \/ \A a \in Rows : rows[a] # "plain"

\* Repeated deployments succeed in the end: only a torn record of an old database or
\* a changed file can keep them from it.
DeploymentSucceeds ==
  <>(At("done") \/ torn \/ \E f \in Files : recorded[f] \notin {NotRecorded, content[f]})

\* "These environments have 001-007 already" (migrate.sh): what is recorded of an old
\* database without running it was there before.
OldDatabaseIsComplete ==
  \A f \in Files : recorded[f] # NotRecorded => f \in begun

=============================================================================
