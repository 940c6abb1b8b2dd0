------------------------------ MODULE Database ------------------------------
(***************************************************************************)
(* The SQLite store: how several processes open one database, back it up   *)
(* and migrate it (OpenContext in internal/storage/store.go,               *)
(* migration_safety.go, migrations.go), and what they do with the history  *)
(* in it (internal/storage/history.go), driven by the application service  *)
(* (diagnoseEffective and ListHistory in internal/application/service.go). *)
(*                                                                         *)
(* A statement or a transaction of SQLite is one step, and takes effect    *)
(* completely or not at all.  A diagnosis is its place in the order of     *)
(* started_at.  Loss of power is not considered here (synchronous is       *)
(* NORMAL); processes end at any moment.                                   *)
(***************************************************************************)
EXTENDS Settings, Sequences

CONSTANTS Current,        \* CurrentSchemaVersion
          MaxRuns,        \* diagnoses made in a behaviour
          MaxBackups,     \* backups made in a behaviour
          PageSize        \* pageSize of Service.ListHistory

ASSUME DatabaseAssumption ==
  /\ Current \in Nat \ {0} /\ MaxRuns \in Nat /\ MaxBackups \in Nat
  /\ PageSize \in Nat \ {0}

VARIABLES
  db,        \* the database: whether it has pages, its schema and its rows
  backups,   \* the files createMigrationBackup left
  made,      \* how many were begun
  opener,    \* each process in OpenContext
  runs,      \* the diagnoses: running, with which limit, in which process
  lister,    \* each process in ListHistory
  saved,     \* history: diagnoses ever stored
  removed    \* history: diagnoses the user removed

database == <<db, backups, made, opener, runs, lister, saved, removed>>

Runs == 1 .. MaxRuns
Schemas == 0 .. Current + 1   \* Current + 1: written by a later release
Versions == 0 .. Current

\* The steps of OpenContext.
Opening == {"inspect", "configure", "version", "check", "backup", "vacuum", "manifest",
            "migrate", "record"}
Closed == [at |-> "closed", existed |-> FALSE, version |-> 0, backup |-> 0]
NoRun == [at |-> "none", by |-> {}, limit |-> 0]
NoList == [at |-> "idle", offset |-> 0, got |-> <<>>, stable |-> {}, disturbed |-> FALSE]

\* The databases a process may find: none, an empty file, or one with a schema
\* and at most one diagnosis, which may be damaged.
DatabaseInit ==
  /\ db \in [pages : {TRUE}, version : Schemas \ {0}, rows : SUBSET {1}, sound : BOOLEAN]
            \cup [pages : {FALSE}, version : {0}, rows : {{}}, sound : {TRUE}]
  /\ backups = {}
  /\ made = 0
  /\ opener = [p \in Processes |-> Closed]
  /\ runs = [d \in Runs |-> NoRun]
  /\ lister = [p \in Processes |-> NoList]
  /\ saved = db.rows
  /\ removed = {}

-----------------------------------------------------------------------------
(* OpenContext.                                                            *)

OpenAt(p, step) == opener[p].at = step
Goto(p, step) == opener' = [opener EXCEPT ![p].at = step]
IsOpen(p) == OpenAt(p, "open")
Rest == <<runs, lister, saved, removed>>

\* Lstat, then prepareDatabaseFile, which creates an empty file.
Inspect(p) ==
  /\ OpenAt(p, "inspect")
  /\ opener' = [opener EXCEPT ![p] = [@ EXCEPT !.at = "configure", !.existed = db.pages]]
  /\ UNCHANGED <<db, backups, made, Rest>>

\* configure: the change to WAL may write the first page.
Configure(p) ==
  /\ OpenAt(p, "configure")
  /\ \E pages \in {db.pages, TRUE} : db' = [db EXCEPT !.pages = pages]
  /\ Goto(p, "version")
  /\ UNCHANGED <<backups, made, Rest>>

\* Mutant of NextStep: only the first release's databases are backed up.
NextStepOnlyFirst(existed, version) ==
  IF version > Current THEN "failed"
  ELSE IF version = Current THEN "record"
  ELSE IF existed /\ version < 2 THEN "check" ELSE "migrate"

\* What OpenContext does with the version it read; the migrations of the
\* current version are none.
NextStep(existed, version) ==
  IF version > Current THEN "failed"
  ELSE IF version = Current THEN "record"
  ELSE IF existed THEN "check" ELSE "migrate"

ReadVersion(p) ==
  /\ OpenAt(p, "version")
  /\ opener' = [opener EXCEPT ![p] =
                  [@ EXCEPT !.version = db.version,
                            !.at = NextStep(opener[p].existed, db.version)]]
  /\ UNCHANGED <<db, backups, made, Rest>>

QuickCheck(p) ==
  /\ OpenAt(p, "check")
  /\ Goto(p, IF db.sound THEN "backup" ELSE "failed")
  /\ UNCHANGED <<db, backups, made, Rest>>

\* VACUUM INTO a reserved name copies what the database holds when it starts.
Backup(p, id) == [id |-> id, label |-> opener[p].version, version |-> db.version,
                  rows |-> db.rows, at |-> "partial"]

Reserve(p) ==
  /\ OpenAt(p, "backup")
  /\ made < MaxBackups
  /\ made' = made + 1
  /\ backups' = backups \cup {Backup(p, made + 1)}
  /\ opener' = [opener EXCEPT ![p] = [@ EXCEPT !.at = "vacuum", !.backup = made + 1]]
  /\ UNCHANGED <<db, Rest>>

Marked(p, at) ==
  {IF b.id = opener[p].backup THEN [b EXCEPT !.at = at] ELSE b : b \in backups}

VacuumEnds(p) ==
  /\ OpenAt(p, "vacuum")
  /\ backups' = Marked(p, "complete")
  /\ Goto(p, "manifest")
  /\ UNCHANGED <<db, made, Rest>>

\* The checksum of the copy is written beside it.
Manifest(p) ==
  /\ OpenAt(p, "manifest")
  /\ backups' = Marked(p, "verified")
  /\ Goto(p, "migrate")
  /\ UNCHANGED <<db, made, Rest>>

\* migrateFrom: the pending migrations in one transaction.  Their statements
\* fail on a database that another process migrated since its version was read.
Migrate(p) ==
  /\ OpenAt(p, "migrate")
  /\ IF db.version = opener[p].version
       THEN db' = [db EXCEPT !.pages = TRUE, !.version = Current] /\ Goto(p, "record")
       ELSE Goto(p, "failed") /\ UNCHANGED db
  /\ UNCHANGED <<backups, made, Rest>>

\* The version of the snapshots is recorded; the store is open.
Record(p) ==
  /\ OpenAt(p, "record")
  /\ Goto(p, "open")
  /\ UNCHANGED <<db, backups, made, Rest>>

\* An error of any step closes the connection, and the process goes on without
\* a store; a backup that has no manifest yet is removed.
OpenFails(p) ==
  /\ opener[p].at \in Opening
  /\ Goto(p, "failed")
  /\ backups' = {b \in backups : b.id # opener[p].backup \/ b.at = "verified"}
  /\ UNCHANGED <<db, made, Rest>>

OpenStep(p) ==
  \/ Inspect(p) \/ Configure(p) \/ ReadVersion(p) \/ QuickCheck(p) \/ Reserve(p)
  \/ VacuumEnds(p) \/ Manifest(p) \/ Migrate(p) \/ Record(p) \/ OpenFails(p)

-----------------------------------------------------------------------------
(* The history.                                                            *)

\* Mutant of Newest: the order of started_at is ascending.
Oldest(rows, n) == {d \in rows : Cardinality({e \in rows : e < d}) < n}

\* How many diagnoses come before d, the last one first.
Rank(rows, d) == Cardinality({e \in rows : e > d})

\* pruneHistoryTx keeps the n diagnoses that were started last.
Newest(rows, n) == {d \in rows : Rank(rows, d) < n}

\* The rows change; listings under way see it page by page.
Change(rows, byUser) ==
  /\ db' = [db EXCEPT !.rows = rows]
  /\ lister' = [p \in Processes |->
       IF lister[p].at = "paging"
         THEN [lister[p] EXCEPT !.stable = @ \cap rows, !.disturbed = @ \/ byUser]
         ELSE lister[p]]

Fresh == {d \in Runs : runs[d].at = "none" /\ \A e \in Runs : e < d => runs[e].at # "none"}

\* diagnoseEffective takes the configuration once, when the run starts.
StartRun(p) ==
  /\ \E d \in Fresh :
       runs' = [runs EXCEPT ![d] = [at |-> "running", by |-> {p}, limit |-> LimitOf(active[p])]]
  /\ UNCHANGED <<db, backups, made, opener, lister, saved, removed>>

RunEnds(d) == runs' = [runs EXCEPT ![d] = [NoRun EXCEPT !.at = "done"]]

\* SaveDiagnosis: the rows are inserted and the history is pruned to the limit
\* of the run in one transaction.
SaveRun(p, d) ==
  /\ runs[d].at = "running" /\ runs[d].by = {p}
  /\ runs[d].limit > 0 /\ IsOpen(p)
  /\ Change(Newest(db.rows \cup {d}, runs[d].limit), FALSE)
  /\ saved' = saved \cup {d}
  /\ RunEnds(d)
  /\ UNCHANGED <<backups, made, opener, removed>>

\* The history is disabled or absent, the run or the transaction failed, or the
\* run was cancelled: nothing is stored.
RunUnsaved(p, d) ==
  /\ runs[d].at = "running" /\ runs[d].by = {p}
  /\ RunEnds(d)
  /\ UNCHANGED <<db, backups, made, opener, lister, saved, removed>>

\* DeleteDiagnosis and ClearHistory
Delete(p, ds) ==
  /\ IsOpen(p)
  /\ ds \subseteq db.rows /\ ds # {}
  /\ Cardinality(ds) = 1 \/ ds = db.rows
  /\ Change(db.rows \ ds, TRUE)
  /\ removed' = removed \cup ds
  /\ UNCHANGED <<backups, made, opener, runs, saved>>

\* ListHistory: pages of the history, the last diagnosis first.
StartList(p) ==
  /\ IsOpen(p)
  /\ lister[p].at = "idle"
  /\ lister' = [lister EXCEPT ![p] = [NoList EXCEPT !.at = "paging", !.stable = db.rows]]
  /\ UNCHANGED <<db, backups, made, opener, runs, saved, removed>>

\* Mutant of Order: the oldest diagnosis first.
Ascending(rows) == [i \in 1 .. Cardinality(rows) |->
                      CHOOSE d \in rows : Rank(rows, d) = Cardinality(rows) - i]

\* ORDER BY started_at DESC
Order(rows) == [i \in 1 .. Cardinality(rows) |-> CHOOSE d \in rows : Rank(rows, d) = i - 1]

\* The statement of one page, LIMIT PageSize OFFSET offset.
Page(offset) == LET all == Order(db.rows) IN
  SubSeq(all, offset + 1, offset + (IF Len(all) - offset < PageSize THEN Len(all) - offset
                                    ELSE PageSize))

ListPage(p) ==
  /\ lister[p].at = "paging"
  /\ LET page == Page(lister[p].offset) IN
     lister' = [lister EXCEPT ![p] =
       [@ EXCEPT !.got = lister[p].got \o page, !.offset = lister[p].offset + PageSize,
                 !.at = IF Len(page) < PageSize THEN "listed" ELSE "paging"]]
  /\ UNCHANGED <<db, backups, made, opener, runs, saved, removed>>

\* The answer is used; an error or the adapter's timeout ends a listing too.
ListEnds(p) ==
  /\ lister[p].at # "idle"
  /\ lister' = [lister EXCEPT ![p] = NoList]
  /\ UNCHANGED <<db, backups, made, opener, runs, saved, removed>>

\* Processes end: their connections close and their work is lost; a transaction
\* that was not committed is rolled back, the files of a backup stay.
EndDatabase(ps) ==
  /\ opener' = [p \in Processes |-> IF p \in ps THEN Closed ELSE opener[p]]
  /\ lister' = [p \in Processes |-> IF p \in ps THEN NoList ELSE lister[p]]
  /\ runs' = [d \in Runs |-> IF runs[d].at = "running" /\ runs[d].by \subseteq ps
                               THEN [NoRun EXCEPT !.at = "done"] ELSE runs[d]]
  /\ UNCHANGED <<db, backups, made, saved, removed>>

-----------------------------------------------------------------------------
\* Every variable of the database has its type.
DatabaseTypeOK ==
  /\ db \in [pages : BOOLEAN, version : Schemas, rows : SUBSET Runs, sound : BOOLEAN]
  /\ made \in 0 .. MaxBackups
  /\ backups \subseteq [id : 1 .. MaxBackups, label : Versions, version : Schemas,
                        rows : SUBSET Runs, at : {"partial", "complete", "verified"}]
  /\ opener \in [Processes -> [at : Opening \cup {"closed", "open", "failed"},
                               existed : BOOLEAN, version : Schemas,
                               backup : 0 .. MaxBackups]]
  /\ runs \in [Runs -> [at : {"none", "running", "done"}, by : SUBSET Processes,
                        limit : Nat]]
  /\ lister \in [Processes -> [at : {"idle", "paging", "listed"}, offset : Nat,
                               got : Seq(Runs), stable : SUBSET Runs,
                               disturbed : BOOLEAN]]
  /\ saved \subseteq Runs /\ removed \subseteq Runs

\* Before the schema of a database with data changes there is a verified backup
\* that holds exactly what the database then holds, whatever other processes do
\* meanwhile (runtime-resilience.md: "Before upgrading a non-empty database"), and
\* a verified backup is kept for good; a later release's schema is left alone.
UpgradeIsBackedUp ==
  [][/\ db'.version # db.version =>
          /\ db.version < Current /\ db'.version = Current
          /\ db.version > 0 =>
               \E b \in backups : /\ b.at = "verified" /\ b.version = db.version
                                  /\ b.label = db.version /\ b.rows = db.rows
     /\ \A b \in backups : b.at = "verified" => b \in backups']_database

\* The diagnosis that started last of all that were stored stays in the history
\* until the user removes it: pruning by another process, with a smaller limit
\* or for a run that started earlier and ended later never takes it.
NewestSurvives ==
  \A d \in saved \ removed : (\A e \in saved : e <= d) => d \in db.rows

\* A listing of several pages misses no diagnosis that was in the history all
\* the time, although runs are stored and old ones pruned between its pages;
\* only a diagnosis removed by the user meanwhile may hide another.
ListingMissesNothing ==
  \A p \in Processes :
    lister[p].at = "listed" /\ ~lister[p].disturbed =>
      lister[p].stable \subseteq {lister[p].got[i] : i \in 1 .. Len(lister[p].got)}
=============================================================================
