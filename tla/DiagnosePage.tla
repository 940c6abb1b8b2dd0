---------------------------- MODULE DiagnosePage ----------------------------
(***************************************************************************)
(* The Diagnose screen (internal/gui/screens/diagnose.go) as operators on  *)
(* a record:                                                               *)
(*   running   the screen shows an active run: inputs off, Cancel visible  *)
(*   target    what the form asks for; Blank on a new screen               *)
(*   shows     idle, running, result, error or cancelled                   *)
(*   of        the diagnosis whose summary is shown, if any                *)
(*   timeline  the diagnoses whose checks the timeline holds          *)
(* Layout, texts, the waterfall and the selected check are left out.       *)
(***************************************************************************)
EXTENDS TaskScopes

CONSTANTS Blank,     \* the target of a new form
          Unusable   \* targets Input() refuses, with whatever else it refuses

NewPage == [running |-> FALSE, target |-> Blank, shows |-> "idle", of |-> None,
            timeline |-> {}]

InputAccepted(p) == p.target \notin Unusable \cup {Blank}

SetProfile(p, subject) == [p EXCEPT !.target = subject]

SetRunning(p, on) ==
  IF on THEN [p EXCEPT !.running = TRUE, !.shows = "running", !.of = None]
        ELSE [p EXCEPT !.running = FALSE]

ResetResults(p) == [p EXCEPT !.timeline = {}]

UpsertCheck(p, doc) == [p EXCEPT !.timeline = @ \cup {doc}]

ShowDiagnosis(p, doc) ==
  [SetRunning(p, FALSE) EXCEPT !.shows = "result", !.of = doc,
                               !.timeline = {doc}]

\* A run that fails keeps its partial checks, anything else clears the timeline.
ShowError(p, how) ==
  [SetRunning(IF p.running THEN p ELSE ResetResults(p), FALSE) EXCEPT
     !.shows = how, !.of = None]
=============================================================================
