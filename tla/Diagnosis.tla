------------------------------ MODULE Diagnosis ------------------------------
(***************************************************************************)
(* One run of Runner.Diagnose (internal/diagnostics/runner.go) on a target *)
(* that parses: the plan is split into a mandatory, an auxiliary and an    *)
(* actual part, and each part is executed by an Engine                     *)
(* (internal/diagnostics/engine/engine.go), stage by stage, the checks of  *)
(* a stage by a pool of workers.                                           *)
(*                                                                         *)
(* Time is abstracted to the events it causes: the caller cancels, the     *)
(* global deadline passes, the deadline of the auxiliary budget passes, a  *)
(* check exceeds its own timeout.  What a check measures is abstracted to  *)
(* the kind of result it returns; of the state checks share, the proxy     *)
(* policy is kept, because the engine is told to skip checks by it.        *)
(***************************************************************************)
EXTENDS Naturals, FiniteSets, SequencesExt

CONSTANTS Plans,           \* engine.Plans: sequences of stages of check IDs
          MaxConcurrency   \* Config.MaxConcurrency after clamping

ASSUME ConcurrencyAssumption == MaxConcurrency \in 1 .. 32

-----------------------------------------------------------------------------
(* Splitting the plan.                                                     *)

ChecksOf(plan) == UNION {{plan[i][j] : j \in 1 .. Len(plan[i])} : i \in 1 .. Len(plan)}
Has(plan, id) == id \in ChecksOf(plan)
StageOf(plan, id) == CHOOSE i \in 1 .. Len(plan) : \E j \in 1 .. Len(plan[i]) : plan[i][j] = id
IndexOf(plan, id) == LET st == plan[StageOf(plan, id)]
                     IN  CHOOSE j \in 1 .. Len(st) : st[j] = id

\* A check has one place in a plan.
Once(plan) ==
  \A i, k \in 1 .. Len(plan) :
    \A j \in 1 .. Len(plan[i]), l \in 1 .. Len(plan[k]) :
      plan[i][j] = plan[k][l] => i = k /\ j = l

ASSUME PlansAssumption ==
  \A plan \in Plans : plan \in Seq(Seq(ChecksOf(plan))) /\ Once(plan)

\* The proxy policy is resolved before the HTTP check, as in checks.Default.
ASSUME PolicyAssumption ==
  \A plan \in Plans :
    Has(plan, "environment") /\ Has(plan, "http")
      => StageOf(plan, "environment") < StageOf(plan, "http")

\* splitPlanAtCheck(plan, "http")
Preflight(plan) ==
  IF Has(plan, "http") THEN SubSeq(plan, 1, StageOf(plan, "http") - 1) ELSE plan
Actual(plan) == SubSeq(plan, Len(Preflight(plan)) + 1, Len(plan))

\* splitPlanAfterCheck: the stage of the check is cut behind it.
UpTo(plan, id) ==
  LET k == StageOf(plan, id) IN
  SubSeq(plan, 1, k - 1) \o <<SubSeq(plan[k], 1, IndexOf(plan, id))>>
Behind(plan, id) ==
  LET k == StageOf(plan, id)
      rest == SubSeq(plan[k], IndexOf(plan, id) + 1, Len(plan[k]))
  IN (IF rest = <<>> THEN <<>> ELSE <<rest>>) \o SubSeq(plan, k + 1, Len(plan))

\* splitMandatoryPreflight
Anchor(pre) == IF Has(pre, "environment") THEN "environment" ELSE "target"
Mandatory(pre) == IF Has(pre, Anchor(pre)) THEN UpTo(pre, Anchor(pre)) ELSE <<>>
Auxiliary(pre) == IF Has(pre, Anchor(pre)) THEN Behind(pre, Anchor(pre)) ELSE pre

\* The stages as Diagnose executes them; a plan without "http" is one part.
Staged(name, plan) == [i \in 1 .. Len(plan) |-> [part |-> name, checks |-> plan[i]]]
StagesOf(plan) ==
  IF Actual(plan) = <<>> THEN Staged("whole", plan)
  ELSE Staged("mandatory", Mandatory(Preflight(plan)))
         \o Staged("auxiliary", Auxiliary(Preflight(plan)))
         \o Staged("actual", Actual(plan))

-----------------------------------------------------------------------------
VARIABLES
  stages,    \* the parts of the plan, in the order they are executed
  options,   \* the options of this run that the control flow reads
  runErr,    \* why the run's context is done, or "none"
  aux,       \* the auxiliary context: absent, live, or why it is done
  armed,     \* the auxiliary context has a deadline of its own
  stage,     \* the index of the stage being executed
  step,      \* where Diagnose is: entering a stage, running it, returned
  next,      \* how many jobs of the stage its workers have taken
  phase,     \* waiting, running or finished, for each check
  result,    \* the status and the role of each check's result
  proxy,     \* State.Proxy(): unresolved, direct, selected or invalid
  events     \* what was emitted, in order

setup == <<stages, options>>
vars == <<setup, runErr, aux, armed, stage, step, next, phase, result, proxy, events>>

Options == [http : BOOLEAN,      \* the target's Kind is TargetHTTP
            matrix : BOOLEAN,    \* ProbeModeAddressMatrix
            deadline : BOOLEAN,  \* the run's context has a deadline
            reserve : BOOLEAN]   \* ActualHTTPReserve > 0

Checks == DOMAIN phase
PartOf(c) == stages[CHOOSE i \in 1 .. Len(stages) :
                      \E j \in 1 .. Len(stages[i].checks) : stages[i].checks[j] = c].part

\* The checks that skipInvalidProxyDirectCheck and markHTTPPreflightAuxiliary
\* name: they contact the origin directly.
Direct == {"dns", "route", "tcp", "tls"}

Errs == {"none", "cancelled", "deadline", "budget"}
Statuses == {"none", "passed", "failed", "timeout", "cancelled", "skipped", "budget"}
\* What the Run method of a check does, its own deadline included.
Outcomes == {"passed", "failed", "invalid", "overtime", "panic"}

NoResult == [status |-> "none", auxiliary |-> FALSE]
Event(type, c, r) == [type |-> type, check |-> c, result |-> r]
RunEvent(type) == Event(type, "run", NoResult)

Init ==
  /\ options \in Options
  /\ \E plan \in Plans :
       /\ stages = StagesOf(plan)
       /\ phase = [c \in ChecksOf(plan) |-> "waiting"]
       /\ result = [c \in ChecksOf(plan) |-> NoResult]
  /\ runErr = "none"
  /\ aux = "absent"
  /\ armed = FALSE
  /\ stage = 1
  /\ step = "enter"
  /\ next = 0
  /\ proxy = "unresolved"
  /\ events = <<RunEvent("run_started")>>

-----------------------------------------------------------------------------
(* Contexts.                                                               *)

InStage == stage <= Len(stages)
Part == IF InStage THEN stages[stage].part ELSE "none"
Jobs == stages[stage].checks
InJobs(c) == \E j \in 1 .. Len(Jobs) : Jobs[j] = c

\* Mutant of CtxErr: the actual part runs under the auxiliary context too.
CtxErrShared == IF Part = "mandatory" \/ aux \in {"absent", "live"} THEN runErr ELSE aux

\* context.Cause of the context the current stage runs under.
CtxErr == IF Part # "auxiliary" THEN runErr ELSE IF aux = "live" THEN "none" ELSE aux

\* The run's context ends, and with it a live auxiliary context, its child.
EndRun(err) ==
  /\ runErr = "none"
  /\ step # "returned"
  /\ runErr' = err
  /\ aux' = IF aux = "live" THEN err ELSE aux
  /\ UNCHANGED <<setup, armed, stage, step, next, phase, result, proxy, events>>

Cancel == EndRun("cancelled")
GlobalDeadline == options.deadline /\ EndRun("deadline")

\* reservedPreflightContext, before the first auxiliary stage.  There is no
\* reserve without a deadline to subtract it from, nor once that has passed.
ReserveBudget ==
  /\ step = "enter" /\ Part = "auxiliary" /\ aux = "absent"
  /\ aux' = IF runErr = "none" THEN "live" ELSE runErr
  /\ armed' \in IF options.deadline /\ options.reserve THEN BOOLEAN ELSE {FALSE}
  /\ UNCHANGED <<setup, runErr, stage, step, next, phase, result, proxy, events>>

\* The auxiliary deadline passes; cancelPreflight ends it with its part.
BudgetExpires ==
  /\ armed /\ aux = "live"
  /\ Part = "auxiliary"
  /\ aux' = "budget"
  /\ UNCHANGED <<setup, runErr, armed, stage, step, next, phase, result, proxy,
                 events>>

-----------------------------------------------------------------------------
(* Engine.Run: one stage after the other.                                  *)

Ready == step = "enter" /\ InStage /\ (Part = "auxiliary" => aux # "absent")

\* Mutant of SinkMarks: the address matrix is not told apart.
SinkMarksHTTP(c) == Part = "auxiliary" /\ options.http /\ c \in Direct

\* auxiliaryPreflightEventSink marks the results of direct checks it passes on.
SinkMarks(c) ==
  /\ Part = "auxiliary"
  /\ options.http /\ (~options.matrix \/ proxy = "selected")
  /\ c \in Direct

\* check_started of each check, in plan order.
Started == [j \in 1 .. Len(Jobs) |-> Event("started", Jobs[j], NoResult)]

\* check_completed of each check, in plan order.
Completed(res) ==
  [j \in 1 .. Len(Jobs) |->
     Event("completed", Jobs[j], [res[Jobs[j]] EXCEPT !.auxiliary = SinkMarks(Jobs[j])])]

\* Mutant of Stopped: the budget is reported as a timeout (ctx.Err() instead of
\* context.Cause).
StoppedByCtxErr(err) ==
  [NoResult EXCEPT !.status = IF err \in {"deadline", "budget"} THEN "timeout" ELSE err]

\* stoppedResult: the status of a check that is not run.
Stopped(err) == [NoResult EXCEPT !.status = IF err = "deadline" THEN "timeout" ELSE err]

\* Run, when the context is done: the stage's checks are reported as stopped.
StopStage ==
  /\ Ready
  /\ CtxErr # "none"
  /\ result' = [c \in Checks |-> IF InJobs(c) THEN Stopped(CtxErr) ELSE result[c]]
  /\ events' = events \o Completed(result')
  /\ phase' = [c \in Checks |-> IF InJobs(c) THEN "finished" ELSE phase[c]]
  /\ stage' = stage + 1
  /\ UNCHANGED <<setup, runErr, aux, armed, step, next, proxy>>

\* Run, otherwise: announce every check of the stage, then runStage.
StartStage ==
  /\ Ready
  /\ CtxErr = "none"
  /\ events' = events \o Started
  /\ step' = "running"
  /\ next' = 0
  /\ UNCHANGED <<setup, runErr, aux, armed, stage, phase, result, proxy>>

\* Run, when every worker has ended: the results are emitted in plan order.
CompleteStage ==
  /\ step = "running"
  /\ \A j \in 1 .. Len(Jobs) : phase[Jobs[j]] = "finished"
  /\ events' = events \o Completed(result)
  /\ step' = "enter"
  /\ stage' = stage + 1
  /\ UNCHANGED <<setup, runErr, aux, armed, next, phase, result, proxy>>

-----------------------------------------------------------------------------
(* runStage's workers.                                                     *)

Running == {c \in Checks : phase[c] = "running"}

\* runStage starts min(MaxConcurrency, len(stage)) workers.
FreeWorker == Cardinality(Running) < MaxConcurrency

\* Mutant of Skip: a policy that was never resolved is taken for a direct one.
SkipResolved(c) ==
  /\ Part # "actual"
  /\ c \in Direct
  /\ \/ proxy = "selected" /\ ~options.matrix
     \/ proxy = "invalid"

\* skipInvalidProxyDirectCheck; the actual part has no SkipCheck.
Skip(c) ==
  /\ Part # "actual"
  /\ c \in Direct
  /\ \/ proxy = "selected" /\ ~options.matrix
     \/ proxy \in {"invalid", "unresolved"}

\* A free worker receives the next job; the checks of runCheck that precede
\* check.Run are part of the step.
TakeJob ==
  /\ step = "running"
  /\ next < Len(Jobs)
  /\ FreeWorker
  /\ next' = next + 1
  /\ LET c == Jobs[next + 1] IN
     IF CtxErr # "none"
       THEN /\ result' = [result EXCEPT ![c] = Stopped(CtxErr)]
            /\ phase' = [phase EXCEPT ![c] = "finished"]
       ELSE IF Skip(c)
         THEN /\ result' = [result EXCEPT ![c].status = "skipped"]
              /\ phase' = [phase EXCEPT ![c] = "finished"]
         ELSE /\ phase' = [phase EXCEPT ![c] = "running"]
              /\ UNCHANGED result
  /\ UNCHANGED <<setup, runErr, aux, armed, stage, step, proxy, events>>

\* runCheck after check.Run: a context that is done overrides the check's own
\* result, a recovered panic overrides everything.
Judge(o) ==
  IF o = "panic" THEN "failed"
  ELSE IF CtxErr # "none" THEN Stopped(CtxErr).status
  ELSE IF o \in {"overtime", "invalid"} THEN "failed"
  ELSE o

\* The environment check resolves the proxy policy: a TCP target never selects
\* a proxy.  A panic may come before or after it does.
Resolved(c, o) ==
  IF c # "environment" THEN {proxy}
  ELSE (IF options.http THEN {"direct", "selected", "invalid"} ELSE {"direct"})
         \cup (IF o = "panic" THEN {proxy} ELSE {})

\* Mutant of CheckReturns: a worker whose check panics never reports.
CheckReturnsUnlessPanic(c, o) ==
  /\ phase[c] = "running"
  /\ phase' = IF o = "panic" THEN phase ELSE [phase EXCEPT ![c] = "finished"]
  /\ result' = [result EXCEPT ![c].status = Judge(o)]
  /\ proxy' \in Resolved(c, o)
  /\ UNCHANGED <<setup, runErr, aux, armed, stage, step, next, events>>

\* runCheck's end: the worker stores the result and asks for the next job.
CheckReturns(c, o) ==
  /\ phase[c] = "running"
  /\ phase' = [phase EXCEPT ![c] = "finished"]
  /\ result' = [result EXCEPT ![c].status = Judge(o)]
  /\ proxy' \in Resolved(c, o)
  /\ UNCHANGED <<setup, runErr, aux, armed, stage, step, next, events>>

-----------------------------------------------------------------------------
\* markHTTPPreflightAuxiliary and markProxyPreflightAuxiliary, on the results
\* of the auxiliary part.
ResultMarked(c) ==
  /\ c \in Direct
  /\ PartOf(c) = "auxiliary"
  /\ IF options.http /\ ~options.matrix THEN TRUE
     ELSE options.matrix /\ proxy = "selected"

\* Diagnose's end, up to finishEventDelivery.
Return ==
  /\ step = "enter"
  /\ ~InStage
  /\ step' = "returned"
  /\ result' = [c \in Checks |-> [result[c] EXCEPT !.auxiliary = ResultMarked(c)]]
  /\ events' = Append(events, RunEvent("run_completed"))
  /\ UNCHANGED <<setup, runErr, aux, armed, stage, next, phase, proxy>>

Terminated == step = "returned" /\ UNCHANGED vars

Progress == ReserveBudget \/ StopStage \/ StartStage \/ CompleteStage \/ TakeJob \/ Return

Next ==
  \/ Cancel
  \/ GlobalDeadline
  \/ BudgetExpires
  \/ Progress
  \/ \E c \in Checks, o \in Outcomes : CheckReturns(c, o)
  \/ Terminated

Spec == Init /\ [][Next]_vars

\* Diagnose and the workers keep running, and a check returns (every check
\* that is started runs under the run's context and a deadline of its own).
FairSpec ==
  /\ Spec
  /\ WF_vars(Progress)
  /\ \A c \in UNION {ChecksOf(plan) : plan \in Plans} :
       WF_vars(c \in Checks /\ \E o \in Outcomes : CheckReturns(c, o))

-----------------------------------------------------------------------------
\* Every variable has its type.
TypeOK ==
  /\ \E plan \in Plans : stages = StagesOf(plan)
  /\ options \in Options
  /\ runErr \in Errs \ {"budget"}
  /\ aux \in {"absent", "live", "cancelled", "deadline", "budget"}
  /\ armed \in BOOLEAN
  /\ stage \in 1 .. Len(stages) + 1
  /\ step \in {"enter", "running", "returned"}
  /\ next \in Nat
  /\ phase \in [Checks -> {"waiting", "running", "finished"}]
  /\ result \in [Checks -> [status : Statuses, auxiliary : BOOLEAN]]
  /\ proxy \in {"unresolved", "direct", "selected", "invalid"}
  /\ \A i \in 1 .. Len(events) :
       events[i].type \in {"run_started", "started", "completed", "run_completed"}

\* The places of the plan's checks, <<stage, index in it>>, and their order.
Places == UNION {{<<i, j>> : j \in 1 .. Len(stages[i].checks)} : i \in 1 .. Len(stages)}
Ahead(p, q) == p[1] < q[1] \/ (p[1] = q[1] /\ p[2] < q[2])

\* Events come in plan order whatever order the workers finish in and whatever
\* is skipped or stopped, across the three engines of a run: the checks announced
\* are announced in the order of the plan and so are those that are reported as
\* completed; when a check is, every check ahead of it was; and no check is
\* announced after it completed (Engine.Run's comment: "emitted in plan order").
EventsInPlanOrder ==
  LET places == Places
      place == [c \in Checks |-> CHOOSE p \in places : stages[p[1]].checks[p[2]] = c]
  IN \A n \in 1 .. Len(events) :
       /\ \A m \in 1 .. n - 1 :
            /\ events[m].type = events[n].type /\ events[n].type \in {"started", "completed"}
                 => Ahead(place[events[m].check], place[events[n].check])
            /\ events[m].type = "completed" /\ events[n].type = "started"
                 => events[m].check # events[n].check
       /\ events[n].type = "completed" =>
            \A c \in Checks : Ahead(place[c], place[events[n].check]) =>
              \E m \in 1 .. n - 1 : events[m].type = "completed" /\ events[m].check = c

\* What was streamed is what is returned: when Diagnose returns, each check of
\* the plan has exactly one completed event, with the status and the auxiliary
\* role of its entry in Diagnosis.Checks, although events and results are marked
\* by different conditions (runner.go:223-240), and nothing follows run_completed.
StreamMatchesReport ==
  step = "returned" =>
    /\ \A c \in Checks :
         \E i \in 1 .. Len(events) :
           /\ events[i].type = "completed" /\ events[i].check = c
           /\ events[i].result = result[c]
           /\ \A j \in 1 .. Len(events) :
                events[j].type = "completed" /\ events[j].check = c => j = i
    /\ \A i \in 1 .. Len(events) : events[i].type = "run_completed" <=> i = Len(events)

\* A reader who only follows the events knows the report: they come in the order of
\* the plan, and the completed ones are the entries of the report, none missing.
StreamIsTheReport == EventsInPlanOrder /\ StreamMatchesReport

\* The auxiliary budget costs only checks of the auxiliary part: if the run's own
\* context never ends, every mandatory and actual check is run to its own result, and
\* an auxiliary check is stopped only by the budget (reservedPreflightContext;
\* engine.go:18-21 and runner.go:567-569).  Of an HTTP target these are comparisons; of
\* a TCP or TLS target they are the diagnosis itself, which CompletedMeansChecked of
\* Invocation is about.
ReserveProtectsActual ==
  step = "returned" /\ runErr = "none" =>
    \A c \in Checks :
      /\ result[c].status \in {"passed", "failed", "skipped", "budget"}
      /\ PartOf(c) \in {"mandatory", "actual"} => result[c].status # "budget"

\* No direct-origin check runs before the actual part unless the proxy policy
\* is resolved and allows it (skipInvalidProxyDirectCheck: "No direct-origin
\* network operation was started ...").
FailClosed ==
  \A c \in Running \cap Direct :
    PartOf(c) # "actual" =>
      proxy = "direct" \/ (proxy = "selected" /\ options.matrix)

\* The cause a check is reported with is the cause that ended its context: a
\* comparison check stopped by the budget is skipped, never failed or cancelled,
\* even when the run is cancelled or times out later (context.Cause); only a panic
\* of the check itself fails it.
BudgetIsNotFailure ==
  [][\A c \in Checks :
       phase[c] # "finished" /\ phase'[c] = "finished" /\ aux = "budget"
         /\ PartOf(c) = "auxiliary"
         => \/ result'[c].status = "budget"
            \/ phase[c] = "running" /\ result'[c].status = "failed"]_vars

\* Diagnose returns, also when it is cancelled or runs out of time.
DiagnosisReturns == <>(step = "returned")
=============================================================================
