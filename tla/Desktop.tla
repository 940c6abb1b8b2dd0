------------------------------- MODULE Desktop -------------------------------
(***************************************************************************)
(* The controller of the desktop application (internal/gui: app.go,        *)
(* async.go, coordinators.go) over its task runner, the Diagnose and       *)
(* Settings screens and the secure report writer.  Everything a handler    *)
(* changes on the GUI thread is one record, desk, and a handler is an      *)
(* operator from a desk to a desk.  fields:                                *)
(*   tasks    the scopes of the coordinators (TaskScopes)                  *)
(*   screen, page, header, last   what is shown, and lastDiagnosis         *)
(*   pending  the profile the next run consumes                            *)
(*   dialogs  the open export dialogs, with the session they belong to     *)
(*   session  reportSession                                                *)
(*   lists    which of the two lists says that it is loading               *)
(*   prefs    configuration, language and the Settings page                *)
(*   events   how many events the current run has sent                     *)
(*   closing  closeWindow was called                                       *)
(* and as history: refused, the last profile chosen was not run; ran, what *)
(* the last run was asked; prefs.late, the form of the Settings page was   *)
(* edited after Save was last pressed on it; told and consented, the       *)
(* export sessions whose success was shown and for which overwriting was   *)
(* confirmed.                                                              *)
(***************************************************************************)
EXTENDS DiagnosePage, SecureExport

CONSTANTS
  Targets,        \* what can be typed into the form
  Profiles,       \* the targets of the saved profiles
  Stored,         \* diagnoses in the history
  Incomplete,     \* targets of those that profileModel makes no profile of, which
                  \* validateDiagnosis stores all the same
  Configs,        \* configurations that can be saved
  DefaultConfig,  \* application.DefaultConfig
  Setups,         \* sessions: the user's commands and how many of them, the saved
                  \* configuration, and how often another process may act
  MaxEvents       \* bound on the events of one run

ASSUME ConfigsAssumption ==
  /\ DefaultConfig \in Configs
  /\ \A s \in Setups : s.active \in Configs

VARIABLES setup, spent, desk,
          active        \* the configuration of the application service

vars == <<setup, spent, desk, active, exportVars>>

Lists == {"history", "profiles"}
LoadOf == [history |-> "history.load", profiles |-> "profiles.load"]
MutationOf == [history |-> "history.mutation", profiles |-> "profiles.mutation"]
ListOf(scope) == CHOOSE l \in Lists : scope \in {LoadOf[l], MutationOf[l]}

Reads == {"diagnose", "history.load", "history.read", "profiles.load", "configuration.load",
          "report.prepare", "report.inspect"}
Mutations == {"history.mutation", "profiles.mutation", "configuration.save", "report.write"}

HistoryScopes == <<"history.load", "history.read", "history.mutation">>
ProfilesScopes == <<"profiles.load", "profiles.mutation">>
ReportScopes == <<"report.prepare", "report.inspect", "report.write">>

\* What cancelScreenTasks cancels for the page that is left.
OwnedBy == [diagnose |-> <<"diagnose">> \o ProfilesScopes,
            history |-> HistoryScopes,
            profiles |-> ProfilesScopes,
            settings |-> <<"configuration.load", "configuration.save">> \o HistoryScopes,
            about |-> <<>>]
Screens == DOMAIN OwnedBy

\* A finished diagnosis: the run that made it, 0 for a stored one, and its target.
Diagnosis(run, of) == [run |-> run, of |-> of]

\* diagnoseHeader and secondaryHeader, the one of the other screens
Says(is) == [is |-> is, of |-> None]
Header(is) == [diagnose |-> Says(is), secondary |-> Says(is)]
HeaderFor(doc) == [h \in {"diagnose", "secondary"} |-> [is |-> "completed", of |-> doc]]

(*-------------------------------- screens --------------------------------*)

CancelReports(d) ==
  [d EXCEPT !.tasks = Cancelled(@, ReportScopes), !.session = @ + 1]

Leave(d) == CancelReports([d EXCEPT !.tasks = Cancelled(@, OwnedBy[d.screen])])

ShowScreen(d, name) ==
  [(IF name = d.screen THEN d ELSE Leave(d)) EXCEPT !.screen = name]

\* HistoryScreen.Reload and ProfilesScreen.Reload
Reload(d, list) ==
  [d EXCEPT !.lists[list] = TRUE, !.tasks = Started(@, LoadOf[list], None)]

(*------------------------------- diagnosing ------------------------------*)

\* Mutant of RunDiagnostic: the pending profile is read but not consumed.
RunDiagnosticKeeps(d) ==
  LET subject == IF d.pending = None THEN d.page.target ELSE d.pending
  IN [d EXCEPT !.tasks = Started(@, "diagnose", subject), !.events = 0,
               !.ran = [subject |-> subject, form |-> d.page.target,
                        excused |-> d.refused /\ d.pending # None],
               !.refused = FALSE]

\* runDiagnostic and DiagnoseCoordinator.Start, which consumes the pending profile
RunDiagnostic(d) ==
  IF ~d.prefs.loaded THEN [d EXCEPT !.page = ShowError(@, "error")]
  ELSE LET subject == IF d.pending = None THEN d.page.target ELSE d.pending
       IN [d EXCEPT !.tasks = Started(@, "diagnose", subject), !.events = 0, !.pending = None,
                    !.ran = [subject |-> subject, form |-> d.page.target,
                             excused |-> d.refused /\ d.pending # None],
                    !.refused = FALSE]

\* DiagnoseScreen.triggerRun; InputError leaves the header of the other screens alone.
TriggerRun(d) ==
  IF d.page.running THEN d
  ELSE IF InputAccepted(d.page) THEN RunDiagnostic(d)
  ELSE [d EXCEPT !.header.diagnose = Says("error")]

\* Coordinator.Invalidate
CancelActive(d) ==
  [d EXCEPT !.tasks = Invalidated(@, "diagnose"), !.pending = None, !.refused = FALSE]

\* profileModel refuses it, behind cancelActive and on the screen that is shown.
NoProfile(d) ==
  [CancelActive(d) EXCEPT !.page = ShowError(@, "error"), !.refused = TRUE]

StartProfile(d, profile) ==
  LET shown == ShowScreen([CancelActive(d) EXCEPT
                             !.pending = profile,
                             !.page = SetProfile(SetRunning(@, FALSE), profile)], "diagnose")
      run == TriggerRun(shown)
  IN IF profile \in Incomplete THEN NoProfile(d)
     ELSE [run EXCEPT !.refused = ~Loading(run.tasks, "diagnose")]

PresentHistorical(d, doc) ==
  ShowScreen([CancelActive(d) EXCEPT !.last = doc, !.header = HeaderFor(doc),
                                     !.page = ShowDiagnosis(SetProfile(@, doc.of), doc)],
             "diagnose")

\* DiagnoseCoordinator.Current
Presentable(d, op) ==
  LET s == d.tasks.scope["diagnose"] IN s.op = op /\ s.state \in {"loading", "success"}

(*-------------------------------- settings -------------------------------*)

\* NewSettings: a page whose baseline and fields are this configuration.
NewSettings(p, cfg) ==
  [p EXCEPT !.initial = cfg, !.form = cfg, !.status = "stored", !.enabled = FALSE,
            !.instance = @ + 1, !.late = FALSE]

\* The callback a Settings page passes to its save: it changes that page only.
Complete(p, saved) ==
  IF p.done = None \/ p.done.page # p.instance THEN p
  ELSE IF saved THEN [p EXCEPT !.initial = p.done.cfg, !.status = "saved", !.enabled = FALSE]
  ELSE [p EXCEPT !.status = "error", !.enabled = TRUE]

\* Mutant of SaveSettings: the callback of a refused save stays in place.
SaveSettingsForgets(d) ==
  LET saving == [d EXCEPT !.prefs.enabled = FALSE, !.prefs.status = "saving",
                          !.prefs.late = FALSE,
                          !.prefs.done = [page |-> d.prefs.instance, cfg |-> d.prefs.form]]
  IN IF MayStartExclusive(d.tasks, "configuration.save")
     THEN [saving EXCEPT !.tasks = StartedMutation(@, "configuration.save", d.prefs.form)]
     ELSE [saving EXCEPT !.prefs = Complete(@, FALSE)]

\* The Save button and startSettingsSave
SaveSettings(d) ==
  LET saving == [d EXCEPT !.prefs.enabled = FALSE, !.prefs.status = "saving",
                          !.prefs.late = FALSE,
                          !.prefs.done = [page |-> d.prefs.instance, cfg |-> d.prefs.form]]
  IN IF MayStartExclusive(d.tasks, "configuration.save")
     THEN [saving EXCEPT !.tasks = StartedMutation(@, "configuration.save", d.prefs.form)]
     ELSE [saving EXCEPT !.prefs = [Complete(@, FALSE) EXCEPT !.done = None]]

\* buildScreens and buildWindow in another language: new pages, the last diagnosis
\* on them, and the same screen in front.
Rebuilt(d, cfg) ==
  [d EXCEPT !.prefs = NewSettings([@ EXCEPT !.texts = cfg.language], cfg),
            !.page = IF d.last = None THEN NewPage
                     ELSE ShowDiagnosis(SetProfile(NewPage, d.last.of), d.last),
            !.header = Header("ready"),
            !.lists = [l \in Lists |-> FALSE]]

ApplyConfiguration(d, cfg, rebuildSettings) ==
  LET known == [d EXCEPT !.prefs.loaded = TRUE, !.prefs.config = cfg]
      shown == IF cfg.language = d.prefs.texts THEN known ELSE Rebuilt(known, cfg)
  IN IF rebuildSettings THEN [shown EXCEPT !.prefs = NewSettings(@, cfg)] ELSE shown

(*--------------------------------- export --------------------------------*)

Dialog(kind, session) == [kind |-> kind, session |-> session]
Opened(d, kind, session) == [d EXCEPT !.dialogs = @ \cup {Dialog(kind, session)}]

\* reportSessionCurrent
SessionCurrent(d, session) == ~d.closing /\ d.session = session

PrepareReport(d) ==
  LET begun == CancelReports(d)
  IN [begun EXCEPT !.tasks = Started(@, "report.prepare", [session |-> begun.session])]

\* writeReport, to the file URI of a picked folder.  What writeExportURI does with a URI
\* of another kind, which it writes whether or not a file is there, is left out: the
\* folders of the desktop's dialog are local files.
WriteReport(d, session, replace) ==
  [d EXCEPT !.tasks =
     StartedMutation(@, "report.write", [session |-> session, replace |-> replace])]

\* What follows when the user accepts the privacy prompt of exportDiagnosis, picks a
\* folder, or agrees to overwrite the file that was found.
Accepted(d, dialog) ==
  IF dialog.kind = "privacy" THEN PrepareReport(d)
  ELSE IF ~SessionCurrent(d, dialog.session) THEN d
  ELSE IF dialog.kind = "picker" THEN
    [d EXCEPT !.tasks = Started(@, "report.inspect", [session |-> dialog.session])]
  ELSE [WriteReport(d, dialog.session, TRUE) EXCEPT !.consented = @ \cup {dialog.session}]

(*------------------------------- observers -------------------------------*)

\* What each scope's observer makes of the snapshot s.
ObserveDiagnosis(d, s) ==
  CASE s.state = "loading" ->
         [d EXCEPT !.page = SetRunning(ResetResults(@), TRUE), !.header = Header("running")]
    [] s.state = "success" ->
         [d EXCEPT !.last = s.value, !.page = ShowDiagnosis(@, s.value),
                   !.header = HeaderFor(s.value)]
    [] OTHER ->
         [d EXCEPT !.page = ShowError(@, s.state), !.header = Header(s.state)]

\* Mutant of ObserveLoad: a load that was cancelled leaves the list as it is.
ObserveLoadStays(d, list, s) ==
  [d EXCEPT !.lists[list] = IF s.state = "cancelled" THEN @ ELSE s.state = "loading"]

ObserveLoad(d, list, s) == [d EXCEPT !.lists[list] = (s.state = "loading")]

ObserveRead(d, s) ==
  IF s.state # "success" THEN d
  ELSE IF s.value.action = "open" THEN PresentHistorical(d, s.value.doc)
  ELSE IF s.value.action = "rerun" THEN StartProfile(d, s.value.doc.of)
  ELSE Opened(d, "privacy", 0)

ObserveMutation(d, list, s) ==
  IF s.state = "success" /\ d.screen = list THEN Reload(d, list) ELSE d

ObserveSettingsLoad(d, s) ==
  IF s.state = "success" THEN ApplyConfiguration(d, s.value, TRUE) ELSE d

\* The page that asked is answered after the configuration was applied.
ObserveSettingsSave(d, s) ==
  IF s.state = "loading" THEN d
  ELSE LET applied == IF s.state = "success" THEN ApplyConfiguration(d, s.value, FALSE) ELSE d
       IN [applied EXCEPT !.prefs = [Complete(@, s.state = "success") EXCEPT !.done = None]]

ObservePrepare(d, s) ==
  IF s.state = "success" /\ SessionCurrent(d, s.value.session)
  THEN Opened(d, "picker", s.value.session) ELSE d

ObserveInspect(d, s) ==
  IF s.state # "success" \/ ~SessionCurrent(d, s.value.session) THEN d
  ELSE IF s.value.exists THEN Opened(d, "overwrite", s.value.session)
  ELSE WriteReport(d, s.value.session, FALSE)

ObserveWrite(d, s) ==
  IF s.state = "success" /\ SessionCurrent(d, s.value.session)
  THEN [d EXCEPT !.told = @ \cup {s.value.session}] ELSE d

\* Mutant of ObserveEvent: the event was checked when it was sent.
ObserveEventUnchecked(d, op) ==
  [d EXCEPT !.page = UpsertCheck(@, Diagnosis(op, d.tasks.scope["diagnose"].arg))]

\* A progress event is checked again when its callback runs (handleEvent).
ObserveEvent(d, op) ==
  IF Presentable(d, op)
  THEN [d EXCEPT !.page = UpsertCheck(@, Diagnosis(op, d.tasks.scope["diagnose"].arg))] ELSE d

Observed(d) ==
  LET notice == Head(d.tasks.inbox)
      scope == notice.about
      next == [d EXCEPT !.tasks = Delivered(@)]
      s == d.tasks.scope[scope]
  IN CASE scope = "progress" -> ObserveEvent(next, notice.op)
       [] scope = "diagnose" -> ObserveDiagnosis(next, s)
       [] scope \in {"history.load", "profiles.load"} -> ObserveLoad(next, ListOf(scope), s)
       [] scope = "history.read" -> ObserveRead(next, s)
       [] scope \in {"history.mutation", "profiles.mutation"} ->
            ObserveMutation(next, ListOf(scope), s)
       [] scope = "configuration.load" -> ObserveSettingsLoad(next, s)
       [] scope = "configuration.save" -> ObserveSettingsSave(next, s)
       [] scope = "report.prepare" -> ObservePrepare(next, s)
       [] scope = "report.inspect" -> ObserveInspect(next, s)
       [] scope = "report.write" -> ObserveWrite(next, s)

(*-------------------------------- behaviour ------------------------------*)

\* Run: the Diagnose screen is shown, nothing is known, and the configuration is read.
Init ==
  /\ setup \in Setups
  /\ spent = 0
  /\ active = setup.active
  /\ ExportInit
  /\ desk = [tasks |-> Started(NewRunner(Reads \cup Mutations), "configuration.load", None),
             screen |-> "diagnose", page |-> NewPage, header |-> Header("ready"), last |-> None,
             pending |-> None, dialogs |-> {}, session |-> 0,
             lists |-> [l \in Lists |-> FALSE],
             prefs |-> [config |-> DefaultConfig, loaded |-> FALSE,
                        texts |-> DefaultConfig.language, initial |-> DefaultConfig,
                        form |-> DefaultConfig, status |-> "stored", enabled |-> FALSE,
                        instance |-> 1, done |-> None, late |-> FALSE],
             events |-> 0, closing |-> FALSE, refused |-> FALSE, ran |-> None,
             told |-> {}, consented |-> {}]

\* One command of the user, of those this setup lets them give.
Command(name) ==
  /\ name \in setup.commands
  /\ spent < setup.budget
  /\ ~desk.closing
  /\ spent' = spent + 1
  /\ UNCHANGED <<setup, active, exportVars>>

Run == Command("run") /\ desk' = TriggerRun(ShowScreen(desk, "diagnose"))

EditTarget(target) ==
  /\ Command("edit")
  /\ desk.screen = "diagnose" /\ ~desk.page.running
  /\ desk' = [desk EXCEPT !.page.target = target]

\* The buttons of a list are disabled while it is loading.
RunProfile(profile) ==
  /\ Command("profile")
  /\ desk.screen = "profiles" /\ ~desk.lists["profiles"]
  /\ desk' = StartProfile(desk, profile)

CancelDiagnostic ==
  /\ Command("cancel")
  /\ Loading(desk.tasks, "diagnose")
  /\ desk' = [desk EXCEPT !.header = Header("cancelling"),
                          !.tasks = Cancelled(@, <<"diagnose">>)]

Navigate(name) ==
  /\ Command(name)
  /\ desk' = IF name \in Lists THEN Reload(ShowScreen(desk, name), name)
             ELSE ShowScreen(desk, name)

ReadHistory(action, doc) ==
  /\ Command(action)
  /\ desk.screen = "history" /\ ~desk.lists["history"]
  /\ desk' = [desk EXCEPT !.tasks = Started(@, "history.read", [action |-> action, doc |-> doc])]

\* A deletion, a cleared history or a saved profile, confirmed on whatever screen; a
\* second one is refused while the first is running.
Mutate(list) ==
  /\ Command("mutate")
  /\ desk' = IF MayStartExclusive(desk.tasks, MutationOf[list])
             THEN [desk EXCEPT !.tasks = StartedMutation(@, MutationOf[list], None)] ELSE desk

EditSettings(cfg) ==
  /\ Command("change")
  /\ desk.screen = "settings"
  /\ cfg # desk.prefs.form
  /\ desk' = [desk EXCEPT !.prefs.form = cfg, !.prefs.status = "unsaved",
                          !.prefs.enabled = TRUE, !.prefs.late = TRUE]

PressSave ==
  /\ Command("save")
  /\ desk.screen = "settings" /\ desk.prefs.enabled
  /\ desk' = SaveSettings(desk)

ExportLast ==
  /\ Command("export last")
  /\ desk.last # None
  /\ desk' = Opened(desk, "privacy", 0)

CloseWindow ==
  /\ Command("close")
  /\ desk' = [desk EXCEPT !.closing = TRUE, !.tasks = Closed(@)]

\* An open dialog is accepted or dismissed.
AnswerDialog(dialog, accepted) ==
  /\ ~desk.closing
  /\ LET d == [desk EXCEPT !.dialogs = @ \ {dialog}]
     IN desk' = IF accepted THEN Accepted(d, dialog) ELSE d
  /\ UNCHANGED <<setup, spent, active, exportVars>>

User ==
  \/ Run \/ CancelDiagnostic \/ PressSave \/ ExportLast \/ CloseWindow
  \/ \E target \in Targets : EditTarget(target)
  \/ \E profile \in Profiles : RunProfile(profile)
  \/ \E name \in Screens : Navigate(name)
  \/ \E action \in {"open", "rerun", "export"}, doc \in Stored : ReadHistory(action, doc)
  \/ \E list \in Lists : Mutate(list)
  \/ \E cfg \in Configs : EditSettings(cfg)
  \/ \E dialog \in desk.dialogs, accepted \in BOOLEAN : AnswerDialog(dialog, accepted)

\* What the task of a read scope returns when it succeeds.
Value(s) ==
  LET r == desk.tasks.scope[s]
  IN CASE s = "diagnose" -> Diagnosis(r.op, r.arg)
       [] s = "configuration.load" -> active
       [] s = "report.inspect" -> [session |-> r.arg.session, exists |-> destination # Absent]
       [] OTHER -> r.arg

\* A read ends, unless something else has ended its operation before.
ReadReturns(s) ==
  /\ Loading(desk.tasks, s)
  /\ \/ desk' = [desk EXCEPT !.tasks = Finished(@, s, "success", Value(s))]
     \/ /\ s # "configuration.load"
        /\ \E how \in {"error", "cancelled"} :
             desk' = [desk EXCEPT !.tasks = Finished(@, s, how, None)]
  /\ UNCHANGED <<setup, spent, active, exportVars>>

\* handleEvent: an event of the current run, also one its report did not wait for.
RunEmits ==
  LET op == desk.tasks.scope["diagnose"].op
  IN /\ Presentable(desk, op) /\ ~desk.closing
     /\ desk.events < MaxEvents
     /\ desk' = [desk EXCEPT !.events = @ + 1, !.tasks.inbox = Append(@, Progress(op))]
     /\ UNCHANGED <<setup, spent, active, exportVars>>

\* The worker takes its next mutation, and drops it when it was cancelled meanwhile.
WorkerTakes ==
  /\ desk.tasks.worker # <<>> /\ ~Head(desk.tasks.worker).running
  /\ desk' = IF Current(desk.tasks, Head(desk.tasks.worker))
             THEN [desk EXCEPT !.tasks.worker[1].running = TRUE]
             ELSE [desk EXCEPT !.tasks.worker = Tail(@)]
  /\ UNCHANGED <<setup, spent, active, exportVars>>

\* A mutation other than a report ends; a configuration is active before its save returns.
WorkerAnswers ==
  LET work == Head(desk.tasks.worker)
  IN /\ desk.tasks.worker # <<>> /\ work.running /\ work.scope # "report.write"
     /\ \E how \in {"success", "error", "cancelled"} :
          /\ desk' = [desk EXCEPT !.tasks =
                         Answered(@, how, IF how = "success" THEN work.arg ELSE None)]
          /\ active' = IF how = "success" /\ work.scope = "configuration.save"
                       THEN work.arg ELSE active
     /\ UNCHANGED <<setup, spent, exportVars>>

Writing == desk.tasks.worker # <<>> /\ Head(desk.tasks.worker).running
           /\ Head(desk.tasks.worker).scope = "report.write"

WorkerExports ==
  /\ Writing
  /\ ExportStep(Head(desk.tasks.worker).arg)
  /\ UNCHANGED <<setup, spent, desk, active>>

WorkerExported ==
  /\ Writing /\ stage \in {"ok", "error"}
  /\ desk' = [desk EXCEPT !.tasks =
                 IF stage = "ok" THEN Answered(@, "success", Head(@.worker).arg)
                                 ELSE Answered(@, "error", None)]
  /\ stage' = "start" /\ temporary' = "none"
  /\ UNCHANGED <<setup, spent, active, destination, foreign, written>>

\* The GUI thread runs the next callback.
Observe ==
  /\ desk.tasks.inbox # <<>>
  /\ desk' = Observed(desk)
  /\ UNCHANGED <<setup, spent, active, exportVars>>

\* What another process does before the inspection is another initial destination.
Interference ==
  /\ foreign < setup.foreign
  /\ desk.tasks.scope["report.inspect"].state # "idle"
  /\ OtherProcess
  /\ UNCHANGED <<setup, spent, desk, active>>

Background ==
  \/ \E s \in Reads : ReadReturns(s)
  \/ WorkerTakes \/ WorkerAnswers \/ WorkerExports \/ WorkerExported \/ Observe

Next == User \/ Background \/ RunEmits \/ Interference

Spec == Init /\ [][Next]_vars

\* Tasks end, and the GUI thread and the worker keep running.
FairSpec == Spec /\ WF_vars(Background)

(*------------------------------- properties ------------------------------*)

States == {"idle", "loading", "success", "error", "cancelled"}
Scopes == Reads \cup Mutations

Subjects == Targets \cup Profiles \cup {doc.of : doc \in Stored} \cup {Blank}

\* What the operations of a scope are asked, and what they return.
ReadRequests == [action : {"open", "rerun", "export"}, doc : Stored]
ReportRequests == [session : Nat]
WriteRequests == [session : Nat, replace : BOOLEAN]
Inspections == [session : Nat, exists : BOOLEAN]
RunResults == [run : Nat, of : Subjects]
Diagnoses == Stored \cup RunResults
Arguments(s) ==
  CASE s = "diagnose" -> Subjects
    [] s = "history.read" -> ReadRequests
    [] s = "configuration.save" -> Configs
    [] s \in {"report.prepare", "report.inspect"} -> ReportRequests
    [] s = "report.write" -> WriteRequests
    [] OTHER -> {None}
Values(s) ==
  CASE s = "diagnose" -> RunResults
    [] s = "configuration.load" -> Configs
    [] s = "report.inspect" -> Inspections
    [] OTHER -> Arguments(s)
Anything == Subjects \cup ReadRequests \cup Configs \cup ReportRequests \cup WriteRequests
              \cup Inspections \cup RunResults \cup {None}

Snapshots == [op : Nat, state : States, arg : Anything, value : Anything]
Notices == [about : Scopes \cup {"progress"}, op : Nat]
Jobs == {w \in [scope : Mutations, op : Nat, arg : Anything, running : BOOLEAN] :
           w.arg \in Arguments(w.scope)}

Runners ==
  {t \in [scope : [Scopes -> Snapshots], inbox : Seq(Notices), worker : Seq(Jobs),
          closed : BOOLEAN] :
     \A s \in Scopes : /\ t.scope[s].state # "idle" => t.scope[s].arg \in Arguments(s)
                       /\ t.scope[s].state = "success" => t.scope[s].value \in Values(s)}

Pages == [running : BOOLEAN, target : Subjects, shows : {"result", "running"} \cup States,
          of : Diagnoses \cup {None}, timeline : SUBSET Diagnoses]

Preferences ==
  [config : Configs, loaded : BOOLEAN, texts : {cfg.language : cfg \in Configs},
   initial : Configs, form : Configs, enabled : BOOLEAN, instance : Nat, late : BOOLEAN,
   status : {"stored", "unsaved", "saving", "saved", "error"},
   done : [page : Nat, cfg : Configs] \cup {None}]

Statements == [is : {"ready", "running", "cancelling", "completed"} \cup States,
               of : Diagnoses \cup {None}]

Desks ==
  [tasks : Runners, screen : Screens, page : Pages, prefs : Preferences,
   header : [{"diagnose", "secondary"} -> Statements],
   last : Diagnoses \cup {None}, pending : Subjects \cup {None},
   dialogs : SUBSET [kind : {"privacy", "picker", "overwrite"}, session : Nat],
   session : Nat, lists : [Lists -> BOOLEAN], events : Nat, closing : BOOLEAN,
   refused : BOOLEAN,
   ran : [subject : Subjects, form : Subjects, excused : BOOLEAN] \cup {None},
   told : SUBSET Nat, consented : SUBSET Nat]

TypeOK ==
  /\ setup \in Setups /\ spent \in Nat /\ active \in Configs
  /\ desk \in Desks
  /\ destination \in Foreign \cup [is : {"report"}, of : WriteRequests]
  /\ temporary \in {"none", "partial", "complete"}
  /\ stage \in {"start", "checked", "open", "complete", "commit", "committed", "synced",
                "failed", "ok", "error"}
  /\ foreign \in Nat
  /\ written \subseteq WriteRequests

Busy == \/ Loading(desk.tasks, "diagnose")
        \/ \E i \in DOMAIN desk.tasks.inbox : desk.tasks.inbox[i].about = "diagnose"

\* The headers, the summary, the timeline and the Run button of the Diagnose screen
\* speak of one diagnosis, the last one: a result is lastDiagnosis, a completed header
\* is about it, the screen or a header says running or cancelling only while a run is
\* loading or its end is on the way, and the timeline holds checks of one diagnosis
\* (observeDiagnosis, handleEvent, presentHistoricalDiagnosis, startProfile).
\* Nothing is said of the timeline while a run is Busy, for then it holds the checks
\* that have come in, and nothing of the timeline or the headers after a profile was
\* refused: startProfile has dropped the run by then, but a refusal of the form changes
\* diagnoseHeader only (InputError, app.go:199-201) and one of profileModel neither
\* (app.go:1042-1046), so a header may go on saying that the dropped run is running,
\* until the next run or result.
PageTellsOneStory ==
  \/ desk.closing
  \/ /\ desk.page.shows = "result" => desk.page.of = desk.last
     /\ desk.page.running => Busy
     /\ \A h \in DOMAIN desk.header :
          /\ desk.header[h].is = "completed" => desk.header[h].of = desk.last
          /\ desk.header[h].is \in {"running", "cancelling"} => Busy \/ desk.refused
     /\ \/ Busy \/ desk.refused
        \/ desk.page.timeline \subseteq {desk.page.of}
        \/ /\ desk.page.shows # "result"
           /\ \E doc \in desk.page.timeline : desk.page.timeline = {doc}

\* A run diagnoses the target the form shows, unless the profile chosen last was not
\* run then because the form or the missing configuration refused it: the coordinator
\* keeps that one for the next run, whatever the form shows by then (SetPendingProfile,
\* startProfile, Invalidate).
RunsWhatTheFormShows ==
  desk.ran # None => desk.ran.excused \/ desk.ran.subject = desk.ran.form

\* A report takes the place of a file only for an export whose user agreed to that,
\* whatever another process does between the inspection and the write.  What was agreed
\* to is the path: another file may be there by then (observeReportInspect, writeReport,
\* writeFileWithPolicy).
ReplaceNeedsConsent ==
  [][destination' # destination /\ destination'.is = "report" /\ Occupied
       => destination'.of.session \in desk.consented]_vars

Quiet == desk.tasks.inbox = <<>> /\ desk.tasks.worker = <<>> /\ ~desk.closing

\* What the user is told has happened: an export shown as saved was written, one that
\* the worker reported for the current session is shown, and a Settings page that says
\* saved has the active configuration for its baseline and shows it in its fields, if
\* they were not edited after Save was pressed (observeReportWrite, reportSessionCurrent,
\* startSettingsSave, observeSettings).  If they were, the end of the save replaces
\* "unsaved" by "saved" and disables the Save button beside the edited, unsaved fields
\* (settings.go:179-192).  Nor is every success told: a save refused while another one
\* runs displaces its callback, and the page keeps the refusal (async.go:337-357).
ToldIsTrue ==
  /\ desk.told \subseteq {w.session : w \in written}
  /\ LET write == desk.tasks.scope["report.write"]
     IN Quiet /\ write.state = "success" /\ SessionCurrent(desk, write.value.session)
          => write.value.session \in desk.told
  /\ desk.prefs.status = "saved" =>
       /\ desk.prefs.initial = active
       /\ desk.prefs.late \/ desk.prefs.form = active

\* Whatever the screens show as under way ends: the running diagnosis, the save of the
\* Settings page and the loading lists, replaced and cancelled ones included.
IndicatorsClear ==
  /\ desk.page.running ~> (~desk.page.running \/ desk.closing)
  /\ (desk.prefs.status = "saving") ~> (desk.prefs.status # "saving" \/ desk.closing)
  /\ \A l \in Lists : desk.lists[l] ~> (~desk.lists[l] \/ desk.closing)
=============================================================================
