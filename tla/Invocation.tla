----------------------------- MODULE Invocation -----------------------------
(***************************************************************************)
(* One invocation of `orynelo diagnose`: main.run (cmd/orynelo/main.go),   *)
(* the command (internal/cli/cli.go), Service.DiagnoseRequest and          *)
(* RenderReportContext (internal/application), the production plan as the  *)
(* Runner executes it, the conclusion (module Summary), and the signals    *)
(* that interrupt it (internal/platform/shutdown.go).                      *)
(*                                                                         *)
(* The production plan has one check in each stage, so that its results    *)
(* appear in order; module Diagnosis models the execution of any plan.     *)
(* What a check returns is limited to what the checks can return after     *)
(* those before them (modules Probes and HTTPCheck).  The target and the   *)
(* environment check wait for nothing and ignore their context             *)
(* (target/check.go:21, environment/check.go:42): they never use up the    *)
(* timeout of a check.                                                     *)
(***************************************************************************)
EXTENDS Summary

CONSTANT MaxSignals   \* how many termination signals are sent

ASSUME SignalsAssumption == MaxSignals \in Nat

Plan == <<"target", "environment", "dns", "route", "tcp", "tls", "http">>
Direct == {"dns", "route", "tcp", "tls"}

VARIABLES
  options,    \* the options of the run that the results depend on
  step,       \* where the command is
  results,    \* of the checks that ended, while Diagnose runs
  running,    \* the next check was started
  runErr,     \* why the run's context is done, or "none"
  aux,        \* the context of the auxiliary checks: live, or out of budget
  proxy,      \* State.Proxy(): unresolved, direct, selected or invalid
  verdict,    \* Diagnosis.Summary, once it is built
  delivered,  \* the report was written
  saved,      \* the diagnosis is in the history
  opened,     \* the runtime: no, open or closed
  code,       \* the exit code the command asks for
  signals,    \* how many signals were sent
  pending,    \* the signals in NotifyShutdownContext's channel
  watch,      \* its goroutine: at the first select, the second, or gone
  cancelled,  \* command.Context() is done
  released,   \* stop() has run
  exit        \* how the process ended, or "no"

run == <<results, running, runErr, aux, proxy>>
outcome == <<verdict, delivered, saved, opened, code>>
process == <<signals, pending, watch, cancelled, released, exit>>
vars == <<options, step, run, outcome, process>>

\* TLS is tried on a TCP target when it is asked for, and not on plain HTTP.
Options == [kind : {"tcp", "tls", "http", "https"}, matrix : BOOLEAN]
Web == {"http", "https"}
NoVerdict == [status |-> "none", rule |-> "none", about |-> {}]

Init ==
  /\ options \in Options
  /\ step = "flags"
  /\ results = <<>> /\ running = FALSE
  /\ runErr = "none" /\ aux = "live" /\ proxy = "unresolved"
  /\ verdict = NoVerdict
  /\ delivered = FALSE /\ saved = FALSE /\ opened = "no"
  /\ code = "none"
  /\ signals = 0 /\ pending = 0 /\ watch = "first"
  /\ cancelled = FALSE /\ released = FALSE
  /\ exit = "no"

Alive == exit = "no"

-----------------------------------------------------------------------------
(* Errors and exit codes.                                                  *)

\* exitCodeForApplicationError, of the category of a classified error.
ExitCode(error) ==
  CASE error \in {"validation", "configuration"} -> "2"
    [] error \in {"network_policy", "timed_out"} -> "1"
    [] error = "cancelled" -> "130"
    [] OTHER -> "3"

\* diagnoseExitError: the command returns, and main's deferred stop comes next.
Leave(c) == step' = "stop" /\ code' = c
Fails(error) == Leave(ExitCode(error))

-----------------------------------------------------------------------------
(* The command up to the diagnosis.                                        *)

\* lazyApplication.runtime, once: the local state opens, or its error is classified.
OpenErrors == {"configuration", "internal", "permission"}

\* RunE: the persistence policy, then the log level, which opens the runtime.
SetLogLevel ==
  /\ Alive /\ step = "flags" /\ opened = "no"
  /\ \/ opened' = "open" /\ UNCHANGED <<step, code>>
     \/ \E error \in OpenErrors : Fails(error) /\ UNCHANGED opened
  /\ UNCHANGED <<options, run, verdict, delivered, saved, process>>

\* The format, the privacy mode and the overrides are parsed.
ParseFlags ==
  /\ Alive /\ step = "flags"
  /\ \/ step' = "request" /\ UNCHANGED code
     \/ Fails("validation")
  /\ UNCHANGED <<options, run, verdict, delivered, saved, opened, process>>

\* DiagnoseRequest: the runtime is opened if it was not, the options are
\* resolved, Diagnose validates them and parses the target.
Request ==
  /\ Alive /\ step = "request"
  /\ \/ opened' = "open" /\ step' = "checks" /\ UNCHANGED code
     \/ opened' = "open" /\ Fails("validation")
     \/ opened = "no" /\ UNCHANGED opened /\ \E error \in OpenErrors : Fails(error)
  /\ runErr' = IF cancelled THEN "cancelled" ELSE "none"
  /\ UNCHANGED <<options, results, running, aux, proxy, verdict, delivered, saved, process>>

-----------------------------------------------------------------------------
(* The checks.                                                             *)

Result(id, status, error, says) ==
  [id |-> id, status |-> status, code |-> error, says |-> says, route |-> "none",
   auxiliary |-> FALSE]
HTTPResult(status, error, route) ==
  [Result("http", status, error, {}) EXCEPT !.route = route]

Ended == Len(results)
Current == Plan[Ended + 1]
InAuxiliary == Current \in Direct
Said(id, fact) == \E r \in ToSet(results) : r.id = id /\ fact \in r.says

Passed(id, says) == Result(id, "passed", "none", says)
Warned(id, says) == Result(id, "warning", "none", says)
Failed(id, error) == Result(id, "failed", error, {})
Overtime(id, says) == Result(id, "failed", "CHECK_TIMEOUT", says)
NotApplicable(id) == Result(id, "not_applicable", "none", {})

EnvironmentResults ==
  {[proxy |-> "direct", result |-> Passed("environment", {})],
   [proxy |-> "unresolved", result |-> Failed("environment", "CHECK_INTERNAL_PANIC")]}
    \cup (IF options.kind \notin Web THEN {}
          ELSE {[proxy |-> "direct", result |-> Passed("environment", {"PROXY_DISABLED"})],
                [proxy |-> "selected", result |-> Warned("environment", {"PROXY_SELECTED"})],
                [proxy |-> "invalid",
                 result |-> Result("environment", "failed", "PROXY_CONFIG_INVALID",
                                   {"PROXY_CONFIG_INVALID"})]})

\* addresses and connected stand for what the check leaves in the State.  No rule
\* reads the code of a warning of these checks (DNS_PARTIAL_FAILURE and the like).
DNSResults ==
  {Passed("dns", {"addresses"}), Warned("dns", {"addresses"}), Failed("dns", "DNS"),
   Overtime("dns", {}), Overtime("dns", {"addresses"})}

RouteResults ==
  IF ~Said("dns", "addresses") THEN {Result("route", "skipped", "none", {})}
  ELSE {Passed("route", {}), Warned("route", {}), Overtime("route", {})}

TCPResults ==
  IF ~Said("dns", "addresses") THEN {Result("tcp", "skipped", "none", {})}
  ELSE {Passed("tcp", {"connected"}), Failed("tcp", "TCP"), Overtime("tcp", {}),
        Overtime("tcp", {"connected", "v4ok"})}
       \cup (IF options.matrix
             THEN {Warned("tcp", {"connected", "v4ok", "v6bad"}),
                   Warned("tcp", {"connected", "v4ok", "v4bad"})}
             ELSE {})

\* A certificate that fails on some of the addresses only is a warning that says so
\* (TLS_PARTIAL_FAILURE); a certificate code comes with a failure.
TLSResults ==
  IF options.kind \in {"tcp", "http"} THEN {NotApplicable("tls")}
  ELSE IF ~Said("tcp", "connected") THEN {Result("tls", "skipped", "none", {})}
  ELSE {Passed("tls", {}), Warned("tls", {}), Failed("tls", "CERTIFICATE"),
        Failed("tls", "TLS"), Overtime("tls", {})}

\* A redirect may leave the route the first request took; a response that does
\* not meet the expectations (status, latency, proxy authentication) fails too.
HTTPResults ==
  IF options.kind \notin Web THEN {NotApplicable("http")}
  ELSE IF proxy = "unresolved" THEN {HTTPResult("failed", "PROXY_SELECTION_UNAVAILABLE", "none")}
  ELSE IF proxy = "invalid" THEN {Result("http", "failed", "PROXY_CONFIG_INVALID",
                                           {"PROXY_CONFIG_INVALID"})}
  ELSE {HTTPResult(o[1], o[2], route) :
          o \in {<<"passed", "none">>, <<"warning", "RESPONSE">>, <<"warning", "BODY">>,
                 <<"failed", "REDIRECTS">>, <<"failed", "TRANSPORT">>,
                 <<"failed", "EXPECTATION">>, <<"failed", "CHECK_TIMEOUT">>},
          route \in {IF proxy = "selected" THEN "proxy" ELSE "direct", "mixed"}}

\* What check.Run returns, and the proxy policy it leaves.
Returns ==
  IF Current = "environment" THEN EnvironmentResults
  ELSE {[proxy |-> proxy, result |-> r] :
          r \in CASE Current = "target" -> {Passed("target", {})}
                  [] Current = "dns" -> DNSResults
                  [] Current = "route" -> RouteResults
                  [] Current = "tcp" -> TCPResults
                  [] Current = "tls" -> TLSResults
                  [] OTHER -> HTTPResults}

\* context.Cause of the context the check runs under.
CtxErr == IF InAuxiliary /\ aux = "budget" THEN "budget" ELSE runErr

\* stoppedResult, and what runCheck makes of the result of an interrupted check.
Stopped(r) ==
  CASE CtxErr = "none" -> r
    [] CtxErr = "budget" ->
         [r EXCEPT !.status = "skipped", !.code = "AUXILIARY_BUDGET_RESERVED"]
    [] CtxErr = "deadline" -> [r EXCEPT !.status = "failed", !.code = "OPERATION_TIMEOUT"]
    [] OTHER -> [r EXCEPT !.status = "cancelled", !.code = "OPERATION_CANCELLED"]

\* runCheck: what a check returned gives way to the interruption, a panic does not.
Finished(r) == IF r.code = "CHECK_INTERNAL_PANIC" THEN r ELSE Stopped(r)

\* markHTTPPreflightAuxiliary and markProxyPreflightAuxiliary
Marked(r) ==
  [r EXCEPT !.auxiliary = /\ r.id \in Direct
                          /\ options.kind \in Web
                          /\ ~options.matrix \/ proxy = "selected"]

Add(r) ==
  /\ results' = Append(results, Marked(r))
  /\ running' = FALSE
  /\ step' = IF Ended + 1 = Len(Plan) THEN "conclude" ELSE step

Skipped ==
  Current \in Direct
    /\ (proxy \in {"invalid", "unresolved"} \/ (proxy = "selected" /\ ~options.matrix))
SkippedAs ==
  CASE proxy = "invalid" ->
         Result(Current, "skipped", "PROXY_CONFIG_INVALID", {"PROXY_CONFIG_INVALID"})
    [] proxy = "unresolved" -> Result(Current, "skipped", "PROXY_SELECTION_UNAVAILABLE", {})
    [] OTHER -> Result(Current, "skipped", "none", {})

Checking == Alive /\ step = "checks"

StartCheck ==
  /\ Checking /\ ~running /\ CtxErr = "none" /\ ~Skipped
  /\ running' = TRUE
  /\ UNCHANGED <<options, step, results, runErr, aux, proxy, outcome, process>>

\* A check whose context is done is not run, nor one the runner tells to skip.
PassOver ==
  /\ Checking /\ ~running /\ (CtxErr # "none" \/ Skipped)
  /\ Add(IF CtxErr # "none" THEN Stopped(Result(Current, "passed", "none", {}))
             ELSE SkippedAs)
  /\ UNCHANGED <<options, runErr, aux, proxy, outcome, process>>

EndCheck ==
  /\ Checking /\ running
  /\ \E o \in Returns : Add(Finished(o.result)) /\ proxy' = o.proxy
  /\ UNCHANGED <<options, runErr, aux, outcome, process>>

\* The deadlines of the run and of the auxiliary part pass.
Deadline ==
  /\ Checking /\ runErr = "none"
  /\ runErr' = "deadline"
  /\ UNCHANGED <<options, step, results, running, aux, proxy, outcome, process>>

BudgetSpent ==
  /\ Checking /\ InAuxiliary /\ runErr = "none" /\ aux = "live"
  /\ aux' = "budget"
  /\ UNCHANGED <<options, step, results, running, runErr, proxy, outcome, process>>

-----------------------------------------------------------------------------
(* The rest of the command.                                                *)

\* Diagnose builds the conclusion and drains the events (the drain of --verbose
\* may fail: module EventDelivery), and the run's context is released.
Conclude ==
  /\ Alive /\ step = "conclude"
  /\ verdict' = Build(results)
  /\ \/ step' = "save" /\ UNCHANGED code
     \/ Fails("internal")
  /\ UNCHANGED <<options, run, delivered, saved, opened, process>>

\* diagnoseEffective: the history may be off or fail; a cancelled context is
\* refused.  The results are kept as long as Diagnose and the saving need them.
Save ==
  /\ Alive /\ step = "save"
  /\ saved' \in IF cancelled THEN {FALSE} ELSE BOOLEAN
  /\ step' = "render"
  /\ results' = <<>>
  /\ UNCHANGED <<options, running, runErr, aux, proxy, verdict, delivered, opened, code,
                 process>>

\* RenderReport: callAdapter returns the error of the context, the caller's or
\* that of its five seconds, even when the rendering succeeded.
Render ==
  /\ Alive /\ step = "render"
  /\ \/ ~cancelled /\ step' = "write" /\ UNCHANGED code
     \/ cancelled /\ Fails("cancelled")
     \/ Fails("internal")
     \/ ~cancelled /\ Fails("timed_out")
  /\ UNCHANGED <<options, run, verdict, delivered, saved, opened, process>>

\* writeOutput; a file is replaced as a whole (module SecureExport), and where it
\* is must be told on stderr.
Write ==
  /\ Alive /\ step = "write"
  /\ \/ delivered' = TRUE /\ step' \in {"judge", "message"} /\ UNCHANGED code
     \/ UNCHANGED delivered /\ \E error \in {"storage", "permission"} : Fails(error)
  /\ UNCHANGED <<options, run, verdict, saved, opened, process>>

TellDestination ==
  /\ Alive /\ step = "message"
  /\ \/ step' = "judge" /\ UNCHANGED code
     \/ \E error \in {"storage", "internal"} : Fails(error)
  /\ UNCHANGED <<options, run, verdict, delivered, saved, opened, process>>

\* Mutant of Judge: only a conclusion that says so is a cancellation, and a
\* warning is a failure.
JudgeByVerdict ==
  /\ Alive /\ step = "judge"
  /\ Leave(IF verdict.status = "passed" THEN "0" ELSE "1")
  /\ UNCHANGED <<options, run, verdict, delivered, saved, opened, process>>

\* RunE's last lines.
Judge ==
  /\ Alive /\ step = "judge"
  /\ Leave(CASE cancelled \/ verdict.status = "cancelled" -> "130"
             [] ~cancelled /\ verdict.status = "failed" -> "1"
             [] OTHER -> "0")
  /\ UNCHANGED <<options, run, verdict, delivered, saved, opened, process>>

-----------------------------------------------------------------------------
(* main.run returns: its deferred calls, then os.Exit.                     *)

Stop ==
  /\ Alive /\ step = "stop"
  /\ released' = TRUE
  /\ cancelled' = TRUE
  /\ step' = "close"
  /\ UNCHANGED <<options, run, outcome, signals, pending, watch, exit>>

\* lazy.Close; its error is only told.
Close ==
  /\ Alive /\ step = "close"
  /\ opened' = IF opened = "open" THEN "closed" ELSE opened
  /\ step' = "exit"
  /\ UNCHANGED <<options, run, verdict, delivered, saved, code, process>>

Exit ==
  /\ Alive /\ step = "exit"
  /\ exit' = code
  /\ UNCHANGED <<options, step, run, outcome, signals, pending, watch, cancelled, released>>

-----------------------------------------------------------------------------
(* NotifyShutdownContext.                                                  *)

\* A signal is queued, or lost when two wait already; once stop() has run, it
\* has its default effect again.
Signal ==
  /\ Alive /\ signals < MaxSignals
  /\ signals' = signals + 1
  /\ IF released
       THEN exit' = "killed" /\ UNCHANGED pending
       ELSE pending' = (IF pending < 2 THEN pending + 1 ELSE pending) /\ UNCHANGED exit
  /\ UNCHANGED <<options, step, run, outcome, watch, cancelled, released>>

\* The first signal cancels the command's context, and the run's, its child.
FirstSignal ==
  /\ Alive /\ watch = "first" /\ pending > 0
  /\ pending' = pending - 1
  /\ watch' = "second"
  /\ cancelled' = TRUE
  /\ runErr' = IF step = "checks" /\ runErr = "none" THEN "cancelled" ELSE runErr
  /\ UNCHANGED <<options, step, results, running, aux, proxy, outcome, signals, released,
                 exit>>

\* The second forces the exit; no deferred call runs.
SecondSignal ==
  /\ Alive /\ watch = "second" /\ pending > 0
  /\ pending' = pending - 1
  /\ watch' = "gone"
  /\ exit' = "forced"
  /\ UNCHANGED <<options, step, run, outcome, signals, cancelled, released>>

\* stop() ends the goroutine, unless its select takes a signal that waits.
WatchEnds ==
  /\ Alive /\ watch # "gone" /\ released
  /\ watch' = "gone"
  /\ UNCHANGED <<options, step, run, outcome, signals, pending, cancelled, released, exit>>

-----------------------------------------------------------------------------
Command ==
  \/ SetLogLevel \/ ParseFlags \/ Request
  \/ StartCheck \/ PassOver \/ EndCheck
  \/ Conclude \/ Save \/ Render \/ Write \/ TellDestination \/ Judge
  \/ Stop \/ Close \/ Exit

Terminated == ~Alive /\ UNCHANGED vars

Next ==
  \/ Command
  \/ Deadline \/ BudgetSpent
  \/ Signal \/ FirstSignal \/ SecondSignal \/ WatchEnds
  \/ Terminated

Spec == Init /\ [][Next]_vars

-----------------------------------------------------------------------------
(* What the conclusion should be, told without priorities.                 *)

\* The response arrived, and may have missed an expectation of the user's.
MissedExpectation(h) == h.status = "failed" /\ h.code = "EXPECTATION"
Completed(h) == h.status \in {"passed", "warning"} \/ MissedExpectation(h)

\* What a completed response contradicts, or describes a path that was not used,
\* decides nothing.
Contradicted(r) ==
  /\ IsPreflight(r)
  /\ \/ r.auxiliary
     \/ \E h \in ToSet(results) :
          h.id = "http" /\ (Completed(h) \/ h.route \in {"proxy", "mixed"})

\* The evidence of an unusable proxy decides even when its check was interrupted.
Decisive ==
  {r \in ToSet(results) : \/ r.status = "failed" /\ ~Contradicted(r)
                          \/ "PROXY_CONFIG_INVALID" \in r.says}

\* The conclusion is what the results support: it is a failure exactly when a check
\* failed that is neither contradicted by the completed response nor of another path,
\* and then it names such a check, or one the global deadline stopped; a check that
\* ran out of its own time is only blamed when no later layer failed; "cancelled" and
\* "passed" are said of a run that is so, and a failure is passed over in silence by
\* none (docs/diagnostic-model.md:356-367).  One case is excepted, where the code
\* departs from that text: after a response that arrived and missed an expectation,
\* the failure may be put down to a direct preflight the response contradicts,
\* because summary.go:98-99 takes a failed HTTP check for one without a response.
VerdictNamesTheBlocker ==
  step = "save" =>
    LET all == ToSet(results)
        statuses == {r.status : r \in all}
        named == {r \in Decisive : r.id \in verdict.about}
    IN /\ verdict.status = "failed" <=> Decisive # {}
       /\ verdict.status = "failed" =>
            \/ named # {}
            \/ \E r \in all : r.id \in verdict.about /\ r.code = "OPERATION_TIMEOUT"
            \/ /\ \E h \in all : h.id = "http" /\ MissedExpectation(h)
               /\ \E r \in all : r.id \in verdict.about /\ r.status = "failed"
       /\ verdict.rule = "check_timed_out" =>
            \A r \in Decisive : \E n \in named : Layer[r.id] <= Layer[n.id]
       /\ verdict.status = "cancelled" <=> Decisive = {} /\ "cancelled" \in statuses
       /\ verdict.status = "passed" => statuses \cap {"failed", "cancelled"} = {}
       /\ verdict.about \subseteq {r.id : r \in all} /\ verdict.about # {}

\* The exit code means what README.md:175-183 says: 0, the report was delivered and
\* nothing failed; 1, it was delivered and tells of a failure (or rendering it took
\* longer than an adapter may); 2, nothing was diagnosed; 130 or a forced end, only
\* after a signal.  A command that returns leaves no runtime open behind it.
ExitTellsTheTruth ==
  /\ exit = "0" => delivered /\ verdict.status \notin {"failed", "cancelled", "none"}
  /\ exit = "1" => verdict.status # "none" /\ (delivered => verdict.status = "failed")
  /\ exit = "2" => verdict.status = "none" /\ ~delivered /\ ~saved
  /\ exit \in {"130", "killed"} => signals > 0
  /\ exit = "forced" => signals > 1
  /\ exit \in {"0", "1", "2", "3", "130"} => opened # "open"
  /\ delivered /\ verdict.status = "failed" => exit # "0"

\* What summary.go:214 says of a diagnosis it calls completed: all applicable checks
\* completed.
CompletedMeansChecked ==
  step = "save" /\ verdict.rule = "completed" =>
    \A r \in ToSet(results) : r.status # "skipped"
=============================================================================
