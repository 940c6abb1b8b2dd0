---------------------------- MODULE SecureExport ----------------------------
(***************************************************************************)
(* writeFileWithPolicy (internal/secureio/export.go): one report written   *)
(* beside its destination and then put there, while another process uses   *)
(* the same directory.  A step is one call that others can see.  The CLI,  *)
(* the desktop and the backup manifests of the store all write this way.   *)
(***************************************************************************)
EXTENDS Naturals

CONSTANT MaxForeign   \* bound on what the other process does

VARIABLES
  destination,  \* what the path names: absent, theirs, link, directory or report
  temporary,    \* the temporary file: none, partial, complete
  stage,        \* how far the write has come
  foreign,      \* how often the other process acted
  written       \* history: the requests that were put at the destination

exportVars == <<destination, temporary, stage, foreign, written>>

Absent == [is |-> "absent"]
Foreign == {[is |-> k] : k \in {"absent", "theirs", "link", "directory"}}
ReportFile(w) == [is |-> "report", of |-> w]
Occupied == destination.is \in {"theirs", "report"}

ExportInit ==
  /\ destination \in {Absent, [is |-> "theirs"]}
  /\ temporary = "none"
  /\ stage = "start"
  /\ foreign = 0
  /\ written = {}

\* validateDestination: links, directories and, without allowExisting, any file
\* are refused.
Allowed(w) == destination = Absent \/ (Occupied /\ w.replace)

\* writeFileWithPolicy up to createTemporary
Validate(w) ==
  /\ stage = "start"
  /\ stage' = IF Allowed(w) THEN "checked" ELSE "failed"
  /\ UNCHANGED <<destination, temporary, foreign, written>>

CreateTemporary ==
  /\ stage = "checked"
  /\ \/ stage' = "open" /\ temporary' = "partial"
     \/ stage' = "failed" /\ UNCHANGED temporary
  /\ UNCHANGED <<destination, foreign, written>>

\* Write, Sync and Close; each of them may fail.
WriteTemporary ==
  /\ stage = "open"
  /\ \/ stage' = "complete" /\ temporary' = "complete"
     \/ stage' = "failed" /\ UNCHANGED temporary
  /\ UNCHANGED <<destination, foreign, written>>

\* validateDestination again, right before the commit
Revalidate(w) ==
  /\ stage = "complete"
  /\ stage' = IF Allowed(w) THEN "commit" ELSE "failed"
  /\ UNCHANGED <<destination, temporary, foreign, written>>

\* Mutant of Commit: the report is renamed into place in either case.
CommitRenames(w) ==
  /\ stage = "commit"
  /\ destination.is # "directory"
  /\ stage' = "committed"
  /\ destination' = ReportFile(w)
  /\ written' = written \cup {w}
  /\ temporary' = "none"
  /\ UNCHANGED foreign

\* replaceFile renames over whatever is not a directory; installFile links the
\* temporary file to a name that must not exist, and then removes its old name.
Commit(w) ==
  /\ stage = "commit"
  /\ \/ /\ IF w.replace THEN destination.is # "directory" ELSE destination = Absent
        /\ destination' = ReportFile(w)
        /\ written' = written \cup {w}
        /\ temporary' = "none"
        /\ stage' \in IF w.replace THEN {"committed"} ELSE {"committed", "failed"}
     \/ /\ stage' = "failed"
        /\ UNCHANGED <<destination, temporary, written>>
  /\ UNCHANGED foreign

\* The directory is synced; the report is in place even when that fails.
SyncDirectory ==
  /\ stage = "committed"
  /\ stage' \in {"synced", "failed"}
  /\ UNCHANGED <<destination, temporary, foreign, written>>

\* The deferred Remove, which may fail, and the return to the caller.
CleanUp ==
  /\ stage \in {"failed", "synced"}
  /\ temporary' \in {"none", temporary}
  /\ stage' = IF stage = "synced" THEN "ok" ELSE "error"
  /\ UNCHANGED <<destination, foreign, written>>

ExportStep(w) ==
  \/ Validate(w) \/ CreateTemporary \/ WriteTemporary \/ Revalidate(w)
  \/ Commit(w) \/ SyncDirectory \/ CleanUp

\* Another process creates, replaces or removes what the path names.
OtherProcess ==
  /\ foreign < MaxForeign
  /\ foreign' = foreign + 1
  /\ destination' \in Foreign \ {destination}
  /\ UNCHANGED <<temporary, stage, written>>
=============================================================================
