# Orynelo in TLA+

Orynelo diagnoses why an HTTP or TCP endpoint cannot be reached. It is one Go
program with two front ends (a CLI and a Fyne desktop application) over an
application service, a diagnosis engine, a configuration file and a SQLite
history. This directory models the parts of it in which several goroutines,
timers, cancellations or failures meet, checks them with TLC on small instances
and proves what matters most with TLAPS for every instance.

- Part 1, the inventory: components, state, operations, hazards.
- Part 2, the modules and how they correspond to the code.
- Part 3, the runs: questions, bounds, fairness.
- Part 4, the proofs: assumptions, inductive invariants, arguments.
- Part 5, where the code and its documentation disagree.
- Part 6, what is not modelled and why, and what could come next.

## 1. Inventory

| Component | Source | State it keeps | Operations | Hard behaviour |
|---|---|---|---|---|
| Task runner | `internal/gui/taskrunner` | scopes (snapshot, revision, operation ID, cancel function), read slots, mutation queue and its one-token signal, closed flag | NewScope, StartRead/StartMutation/StartExclusiveMutation, Cancel, Invalidate, Snapshot, Close, Runner.Close, Wait | goroutines per read, one mutation worker, replacement and late answers, reordered dispatch, shutdown from two sides |
| Progress events | `internal/diagnostics/event_delivery.go` | bounded queue, dropped/announced/panic counters, drain timer | emit, run, deliver, close | slow, panicking and stalled consumers; timer against completion |
| Diagnosis run | `internal/diagnostics/runner.go`, `engine/` | run context, auxiliary context with its budget, plan parts, per-stage workers, results, run-local State (proxy policy) | Diagnose, Engine.Run, runStage, runCheck, Stream | deadline, budget and cancellation in any order; panics; checks skipped by shared state; two ways of marking auxiliary results |
| Checks | `internal/diagnostics/checks/*` | per check: the addresses to probe, workers and attempts, the race of the client-effective mode, the HTTP redirect loop and trace; shared: State (DNS answers, routes, TCP and TLS attempts) | Run of each check | Happy Eyeballs, workers under cancellation, verdicts over partial attempts, per-attempt timeouts, redirects, late trace callbacks |
| Model | `internal/diagnostics/model` | result and report types, synchronized State | setters and getters | — |
| Summary | `internal/diagnostics/summary` | none (pure) | Build | some twenty rules that compete by severity and priority, and excuse failures by what other checks did |
| Application service | `internal/application` | current configuration, dependencies | Diagnose, SaveConfiguration, history, profiles, reports | a step that succeeds before a later one fails; adapters that time out after taking effect; paging over a changing table |
| Configuration file | `internal/config` | one YAML file | Load, Save | atomic replacement, crash between write and rename |
| Store | `internal/storage` | SQLite file, schema version, backups | Open (check, backup, migrate), SaveDiagnosis, Prune, List, profiles | crash during migration, retention, optimistic update |
| Secure export | `internal/secureio` | a directory | WriteFile, WriteFileIfAbsent | check-then-replace against other writers, leftovers after a crash |
| Desktop sessions | `internal/gui/app.go`, `async.go`, `coordinators.go`, `screens` | current screen, last diagnosis, header, pending profile, session callbacks, export dialogs, closing flag; the state of each page | run, cancel, navigate, open and rerun history, remove, save settings, export, close | callbacks of refused or superseded operations, events that overtake their diagnosis, pages left or built again while work runs, closing |
| CLI | `internal/cli`, `cmd/orynelo` | the lazily opened runtime | one diagnosis, its report and its exit code | every step after the diagnosis may fail or be cancelled; one exit code for all |
| Bootstrap, shutdown | `internal/bootstrap`, `internal/platform` | opened resources | OpenRuntime, Close, NotifyShutdownContext | partly failed start, close and signal races |
| Redaction, privacy, reports, presentation, localization | `internal/redaction`, `privacy`, `report`, `gui/presenter`, `gui/localization`, `gui/components` | none (pure) | rewriting and rendering of text | — |

Interaction. A front end calls the application service; the service resolves
options and calls `Runner.Diagnose`. Diagnose splits the plan, executes each part
with an `Engine` and hands progress events to a dispatcher goroutine, which calls
the front end's sink. The desktop application wraps every other service call in a
task-runner operation; observers run on the GUI thread through a dispatcher
function. Cancellation flows down through contexts (application, runner, scope,
operation; run, auxiliary budget, check). Errors and panics are recovered at the
boundaries (engine, dispatcher, adapter guard, task runner) and become values.

What makes each correct: the task runner must never lose, reorder or overrun
work and must never show a stale answer; event delivery must keep exact accounts
and never block the run; a run must report every check exactly once, in plan
order, charge the budget only to the auxiliary part of the plan and contact the origin
directly only when the proxy policy allows it; a redirect must be followed only to
where it was judged to lead; the conclusion must name what failed; the page must
tell of one diagnosis and the exit code of the one that ran; persistence must keep
either the old or the new state at every crash; every export must be complete or
absent.
`PROJECT.json` lists the hazards by source line with the properties that cover
them.

## 2. Modules and code

| Module | Source | What it is |
|---|---|---|
| `TaskRunner` | `gui/taskrunner/taskrunner.go` | the whole runner: scopes, read slots, mutation worker, dispatch to the GUI thread, both ways of shutting down |
| `MCTaskRunner` | – | the sets of operations each instance uses |
| `EventDelivery` | `diagnostics/event_delivery.go` | one dispatcher with its producer (Diagnose) and its consumer |
| `LossyProgress` | the promise of the same file | abstract specification: events are handed over in order, some are lost, and the reported loss never understates |
| `Diagnosis`, `MCDiagnosis` | `diagnostics/runner.go`, `diagnostics/engine/engine.go` | one run: plan splitting, budget, stages, workers, cancellation |
| `Probes`, `MCProbes` | `diagnostics/checks/{dns,route,tcp,tls}`, `diagnostics/engine/engine.go` | the direct checks of one run as a pipeline over the shared state, with the engine's verdict around each |
| `ProxyPolicy` | `diagnostics/checks/environment/check.go`, `http/check.go` | which proxy the environment selects for a URL, as operators |
| `HTTPCheck`, `MCHTTPCheck` | `diagnostics/checks/http/{check,trace}.go` | the HTTP check: its request and redirects over net/http's client and transport |
| `Subsequences` | `diagnostics/summary/summary.go` and others | what a loop that copies some elements of a slice leaves in it, as an operator |
| `Summary` | `diagnostics/summary/summary.go` | the conclusion of a diagnosis, as operators on its results |
| `Invocation`, `MCInvocation` | `cli/cli.go`, `cmd/orynelo/main.go`, `application/service.go`, `platform/shutdown.go` | composes `Summary` with the results the production plan can record, the command around them and the signals that interrupt it |
| `TaskScopes` | `gui/taskrunner/taskrunner.go` | what a client of the task runner sees of it: scopes, the GUI thread's inbox, the mutation queue |
| `DiagnosePage` | `gui/screens/diagnose.go` | the Diagnose page's state, as operators |
| `SecureExport` | `secureio/export.go` | one report written beside its destination and put there, against another process |
| `Desktop`, `MCDesktop` | `gui/app.go`, `async.go`, `coordinators.go`, `screens/*.go` | composes the three: the controller, the callbacks of its tasks and a user |
| `Settings` | `application/service.go`, `adapter_guard.go`, `config/config.go` | SaveConfiguration through its guarded adapters, the replacement of config.yaml, Load |
| `Database` | `storage/*.go`, `application/service.go` | opening, backup and migration; storing, pruning, listing and removing history |
| `LocalState`, `MCLocalState` | `bootstrap/runtime.go`, `persistence_policy.go` | composes `Settings` and `Database` into processes that start, work and end |
| `*_proofs` | – | theorems, each module beside the one it is about |

All paths are below `src/internal` (`cmd` below `src`). `PROJECT.json` maps each
definition to lines.

**TaskRunner.** An action is one critical section: a region under `scope.mu` or
`runner.mu`, a channel operation, or a step of a goroutine. A call that publishes
after unlocking (`Start`, `Cancel`, `finish`) is two steps, with the snapshot kept
in `call` or `sending` between them, because other goroutines run there. `call[t]`
is where goroutine t is; `phase[o]` how far the goroutine of operation o is
(queued, at the start gate, running its task, finished but not yet published,
done). `callbacks` is a set: the dispatcher promises no order. Values and errors of
operations are abstracted to the state of their snapshot.

**EventDelivery.** `planned` is chosen at the start: how many events a run emits is
not the dispatcher's business. The sink may return, panic or never return; the
drain timer may fire at any moment of a drain. `handed` and `notices` record what
the sink was called with. `LossyProgress` knows only how many events were emitted,
what was handed over and what was reported; `EventDelivery` is shown to implement
it with `finished <- producer = "returned"`, `reported <- stats.dropped`.

**Diagnosis.** `StagesOf` computes the split of the plan as Diagnose does;
the steps of the engine are `StopStage`, `StartStage`, `TakeJob`, `CheckReturns` and
`CompleteStage`. Time is abstracted to the events it causes. `runErr` and `aux` keep
the *first* cause of each context, as `context.Cause` does. What a check measures
is abstracted to the kind of its result; the proxy policy is kept because it decides
what may be skipped. Two assumptions on the plans hold of the production plan
(`checks.Default`), and no code checks them: a check has one place, and the environment
check is in a stage before the HTTP check.

**Probes.** Where `Diagnosis` knows only that a check returns something, `Probes` opens
the four direct checks. `setup` fixes the options, the target and the ground truth: which
names resolve, what each address answers to TCP and to TLS. `run` and `ctx` are the
contexts of the run and of the current check and keep the error they ended with.
`LookupEnds` and `AttemptEnds` are the goroutines of a check; `SenderChecks`,
`SenderHandsOver` and `SenderStops` are the loop that feeds the pool of workers, which
route, TLS and the address matrix of TCP write in the same way (TLS without the check of
the context at the head, hence `Offering`); the `select` of the race is `ReceiveWinner`,
`ReceiveLoser`, `TimerFires` and `RaceStops`. `Returns` is the engine's override of a
verdict whose context has ended, applied in the step in which the check returns. An
answer of the resolver that carries both addresses and an error, a check that skips by
itself (`SkipCheck`), evidence, durations and the graph of network paths are left out; the
auxiliary budget appears as a deadline of the run, and what it means for the report is
`Diagnosis`'s.

**ProxyPolicy, HTTPCheck.** An environment is what each proxy variable holds (unset, a
proxy, something malformed), which spelling, whether the process runs under CGI and what
`NO_PROXY` bypasses; `SelectProxy` is the selection it yields for a URL. `HTTPCheck` is
`Check.Run` from the environment check to its result. `phase` is where the goroutine of
the check is (send, connect, wait, redirect, read); the transport's own goroutine is the
`dial` of a hop with its `todo` and `attempts` (it may win, lose to an idle connection,
be abandoned, and start or complete later), and `idle` holds its idle connections. `Judge` is CheckRedirect with every refusal in
the code's order; `NextHeaders` what net/http copies and what the check strips; `Approve`
remembers the addresses a redirect was judged by, and `Candidates` are the addresses a
dial may use; `GotIdleConn` takes a connection nobody judges again. `DialCodes` and
`TransportCodes` are what a failed round trip is reported as. A name may resolve to something else in every lookup. `hops`,
`paths` and `redirects` are the trace, `result` is its snapshot. net/http itself is external: it is modelled
as the source relies on it (one idle connection per key, dials that outlive their
request, a retry on a reused connection). HTTP/2's multiplexing, durations, evidence
texts, ports other than the scheme's and fragments are left out.

**Summary, Invocation.** A result is kept to what the rules of `summary.Build` read.
`Candidates` adds what each rule adds, in its order; `Best` is the choice. `Invocation`
walks the command: flags, the lazily opened runtime, the checks of the production plan
one after the other (each returns one of the results it can have after those before it,
under the two contexts of `Diagnosis`; targets are TCP, TLS, HTTP and HTTPS), the conclusion, the history, the rendering, the
file and its message on stderr, the last judgement, and main's deferred calls. The
goroutine of `NotifyShutdownContext` runs beside it, and a signal may come at any moment;
after `signal.Stop` it kills the process. `exit` is how the process ended.

**TaskScopes, DiagnosePage, SecureExport, Desktop.** `Desktop` is about the GUI thread:
every handler and every observer runs there, so each is one atomic operator from a record
`desk` to the next. `TaskScopes` keeps of the task runner what `TaskRunner` shows it
does: a started operation replaces the one of its scope, a cancelled one delivers its
cancellation, notices of a scope arrive in order with stale ones dropped, mutations run
one at a time, and a task that already succeeded is not cancelled by leaving its page. A
worker may answer, fail or be cancelled at any moment. `SecureExport`'s steps are those
of the worker of `report.write`, interleaved with everything else and with another
process that replaces what the path names. The user does what the session of `MCDesktop`
allows, as often as it says. `header` is two: an error of the form changes the one of the
Diagnose page only, everything else both. A profile or a stored target in `Incomplete` is
one that `profileModel` refuses. `ran`, `told`, `consented`, `refused` and `prefs.late`
(the fields of the settings were edited after Save was pressed) are history.

**Settings, Database, LocalState.** A configuration is abstracted to the level of the
log and the limit of the history (0: disabled). `file` is what config.yaml holds and
`durable` what a loss of power may leave. Each filesystem call of `Save` that changes
something others see is a step, and each may fail; on Windows `replace` has its
second attempt. `persisted` and `stuck` are history variables. A SQLite statement or
transaction is one step. A diagnosis is its place in the order of `started_at`, so
pruning and listing are operators on sets of numbers. A backup passes through
partial, complete and verified (it has its manifest). Every process may end between
any two steps; its transactions are rolled back, its files stay.

A switch of the code whose cases overlap is a chain of IFs: the guards of a CASE have no
order in TLA+. External code is modelled only as the source uses it: Go's mutexes, channels and
contexts, `os.Rename` and directory sync, SQLite's transactions and `VACUUM INTO`.

## 3. Runs

| Run | Instance | Question | Distinct states |
|---|---|---|---|
| `scope` | one scope, all operations, two operation IDs, Runner.Close | nothing running is forgotten; the observer catches up and sees nothing of a replaced operation; terminal states are final; nothing starts after Close | 818 k |
| `contend` | two scopes with two operation IDs each (reads, mutations and cancels in one, exclusive mutations in the other), one calling goroutine and the runner's watcher, one read slot, ended by the parent context, `FairSpec` | mutations in order, scopes closed with the runner, every accepted operation returns: queued, replaced and cancelled ones too | 332 k |
| `delivery` | queue of 2, 2 to 5 events | exact accounts, implements `LossyProgress`, never blocks the run, leaves no goroutine | 13 k |
| `diagnosis` | three plans, every combination of options, two workers | stream equals report, the budget costs only checks of the auxiliary part, fail closed, termination | 258 k |
| `local` | two processes, two savers, three configurations, three scenarios | persistence before activation, log level, survival of the file, backups before upgrades, retention, listings | 1.33 M |
| `probes` | 33 setups of three addresses, both probe modes, `FairSpec` | what each check concludes, which connection is selected, no goroutine left, Happy Eyeballs, ended contexts | 299 k |
| `http` | chains of up to three redirects over two hosts, both schemes and both network scopes, with and without proxies; `FairSpec` | bounded chains; what was judged is what is dialled; one-run headers go once; no direct request against the policy; the trace, the redirects and the report agree; an ended context ends the check | 63 k |
| `desktop` | seven sessions of up to six commands, `FairSpec` | the page tells of one diagnosis; a run diagnoses what the form shows; what the user is told is true; a file is replaced only with consent; indicators clear | 263 k |
| `verdict` | every sequence of results of the production plan for a TCP, a TLS, an HTTP and an HTTPS target, two signals | the conclusion names what failed and nothing else, with one exception (Part 5); the exit code tells the truth | 3.26 M |
| `level`, `families`, `untested` | the smallest instances that show them | the disagreements of Part 5 | – |

**Bounds, and why they are enough.** `MaxID = 2` lets a scope replace an operation and
see the late return of the first; a third operation meets the same code with the same
two kinds of neighbours, in `contend` with a second scope that competes for the worker. There
one goroutine calls and the watcher closes; that mutations stay in order and scopes close with
the runner for any number of callers is proved (Part 4). `MaxReads = 1` makes every second
read wait. `Capacity = 2` against at most 5 events fills the
queue, overflows it, drains it and overflows again; the theorems of
`EventDelivery_proofs` hold for all values. `MaxConcurrency = 2` with stages of up to
three checks makes workers take a second job. The plans of `MCDiagnosis` are the
production plan, one with stages of several checks in which the environment stage is cut
in two, and one without an HTTP check. In `MCLocalState`, `Upgrading` starts processes
three times on databases of every schema (none, 1 to Current, one later), so that two
race and one restarts after a crash; `Saving` makes two saves by two goroutines through
two starts on both platforms; `Sharing` stores three runs on top of one row, with pages
of one row, so that a listing has several pages and pruning happens between them. In
`MCProbes` the setups are families: `Racing` (every pair of accepting, refusing and
silent hosts in the race), `Matrix` (a limit that cuts the list, one worker for three
addresses), `Names` (every answer of the resolver, with and without the detailed one,
every requested family), `Given` (connect IP, IP literal), `Certificates` and
`Unroutable`; a third address is the first that a limit or a busy worker keeps waiting.
`Current = 3`, `MaxBackups = 3`, `MaxSaves = 2`, `MaxRuns = 4` are the bounds of the
counters. In `MCHTTPCheck` the page of one host leads to another host and back to a third
page: the shortest chain in which a connection is reused, a header that was stripped could
come back, and a loop or a limit of 0, 1 or 2 redirects is met; with one page more, an
abandoned dial starts behind a later redirect to its origin; families of setups vary
scopes and lookups that change, proxies and their answers, headers and schemes. In
`MCDesktop` a session allows the commands of one subject (running and editing, profiles,
reading history, removing, settings, exporting, exporting a stored diagnosis), and its
number of commands is the smallest in which two operations of that subject overlap and a
page is left and entered again; one event per run is enough to be late; one act of another
process is enough to come between two steps of a write. `MaxSignals = 2`: a third signal
finds the process gone or kills it as the second does.

**Fairness.** `TaskRunner!FairSpec`: weak fairness of every goroutine, of the calls in
progress and of the GUI thread (Go schedules every runnable goroutine; Fyne's loop runs
what it is given) and of a task that was invoked (tasks are bounded by their contexts
and the adapter timeout). Nobody is obliged to make another call.
`EventDelivery!ProducerSpec`: only Diagnose and its timer; the sink owes nothing, except
inside `ConsumerEnds`, where its fairness is a hypothesis of the property.
`Diagnosis!FairSpec`: the engine and its workers, and that a check returns, since each
runs under a deadline. `Probes!FairSpec`: the checks' own steps, the Happy Eyeballs
timer, an attempt that is answered, has a budget of its own or whose context has ended,
and a lookup whose context has ended (dialers and resolvers honour their context); no
deadline is obliged to pass, so `HappyEyeballs` is about a check that needs none.
`HTTPCheck!FairSpec`: the client and the transport take the steps they can (`RoundTrip`),
and a context ends some day (every check runs under a deadline); no server is obliged to
answer. `Desktop!FairSpec`: the GUI thread runs what waits in its inbox and every task
ends some day (`Background`; `TaskRunner`'s `RunnerDrains` is why), while the user owes
nothing. `Invocation` is checked for safety only. No
fairness is assumed of cancellations, timeouts or crashes. `local` checks no liveness
and allows deadlock: processes may be stopped for good once the bound on starts is used
up.

Every property of a passing run has a mutant in `PROJECT.json`: a definition replaced
by one with a plausible bug, written before it in the module, which violates the
property.

## 4. Proofs

TLAPS checks every theorem for every value of the constants that the named
assumptions allow.

`EventDelivery_proofs` (assumptions: capacity at least 1, bounds natural numbers)
- `TypeCorrect`, `CompleteDrain`, `GrowingNotices`: from an invariant that adds to
  the types who closed the queue (`ClosedByProducer`), that the queue holds increasing
  numbers above all that was handed (`QueueOrdered`), that handed + queued + dropped is
  emitted (`Accounts`), that the consumer ends only on a closed, empty queue
  (`ConsumerAtEnd`), and how announced, dropped and the notices are ordered
  (`Announcements`). `CompleteDrainIsExact` alone is not inductive: it says nothing
  before the end.
- `KeepsPromise`: every step of the dispatcher is a step of `LossyProgress` or a
  stutter, from the same invariant.

`TaskRunner_proofs` (assumptions: the sets of callers and uses, `MaxReads >= 1`)
- `TypeCorrect`: types together with the consistency of each scope's fields (a scope
  has a cancel function exactly while it is loading its latest operation).
- `ReadsAreLimited`: a running read holds a token (`SlotHolders`) and there are at
  most `MaxReads` tokens (`SlotsBound`); an operation that passed without a token is
  cancelled, so it never begins.
- `NothingForgotten`: `OneLiveOperation`, with `FreshOps` (IDs above `nextID` are
  unused) and `QueueWaits` (what is in the queue is in phase queued).
- `CloseIsABarrier`: from `ClosedCancels` (a closed runner's context is done for every
  operation). `TerminalStays`: from the scopes' consistency.
- `MutationsStayInOrder`: the queue is the rest of the history of accepted mutations
  (`QueueIsRest`), what has left it has returned but for the one the worker is busy with
  (`TakenReturned`), and every accepted mutation is in the history (`AllRecorded`), which
  is why the one that returns is the one the worker was busy with.
- `NoScopeSurvives`: every open scope is `Reachable`: registered, or still to be visited
  by the Close that took the registered ones; after Close nothing is registered.
- `ObserversCatchUp`: until the runner closes, an observer was given what its scope shows
  or the snapshot is in flight (`Underway`): with the goroutine that dispatches it, with
  `finish`, among the callbacks or on the GUI thread. No snapshot in flight is ahead of
  its scope, and one of the scope's revision is what the scope shows (`InTime`), so that
  a late one cannot replace it (`Forward`). `ShowsKeeps` and `MovesKeeps` prove this once
  for all steps that change a scope and for all that move a snapshot.
- `LateIsSuppressed` (every call, Close included, is made on the GUI thread, and the parent
  context is not cancelled, as in the run `scope`): between the check of the revision and
  the call of the observer only the end of the operation itself can come (`OnGUI`).

`LocalState_proofs` (assumptions: the default is a configuration, each goroutine has
a process, "absent" is no configuration; two facts about savers and `Nobody`)
- `OnlyPersistedIsActive`: `Remembered` adds that a save beyond the rename has put its
  value into the file's history.
- `LevelIsRestored`: `Mutex` (one saver of a process between lock and unlock) and
  `HolderLevel` (before setLogLevel the level is the old configuration's, after it
  the new one's) describe the level in the middle of a save; `Quiet` (a process that is
  down saves nothing) is needed where a new process loads the file.
- `FileSurvives`: `Outlives` relates the file to what is durable; only a directory
  sync and a loss of power change the latter where rename replaces.
- `UpgradesAreBackedUp` (the constants of the database are natural numbers, the current
  version and the page size at least 1): `Fits` says what the step of a process in
  OpenContext implies of the schema (who has the database open found it current or made
  it so, hence rows do not change under an old schema; who found no database found no old
  schema), `Making` that the backup of a process holds what the database still holds
  unless another process has migrated since, and `Separate` that no two processes write
  the same backup.
- `NewestStays`: `HInv` adds that what is in the history was stored; pruning to a limit of
  at least one never removes a diagnosis nothing stored is newer than. The limit is at
  least one because a run with the history disabled is not stored.
- `ListingsAreComplete`: what was in the history all the time and was not read yet has a rank
  at or beyond the offset of the next page (`Ahead`). Storing moves ranks back only, pruning
  leaves the rank of what it keeps (`RankOfKept`), a page holds everything whose rank is in
  its window and a short one means that there is nothing behind it (`PageIs`). That the
  ranks are a bijection to the places of the order (`OrderIs`) is a fact about cardinalities.

`Probes_proofs` (assumptions: the setups have their types)
- `NoGoroutineOutlives`: `IdleBetween` (no attempt between checks and during lookups)
  and `RaceInOrder` (the first `next` addresses were started, what was received has
  ended). A race that counts as many outcomes as starts has received each attempt's own:
  a subset of `1 .. next` with `next` elements.
- `TypeCorrect`, `VerdictsSayWhatWasSeen` and `OneIsSelected`, from two invariants. `Work` is
  about the check under way: its queue is the list of its stage (`Placed`), addresses are
  started in their order and a pool that closed in time has started all (`Ordered`), each
  loser of a race has started another address as long as there was one (`Raced`), and an
  attempt can only have ended as its address answers (`Answered`). `Results` is about the
  checks behind it: what has not returned has no result (`Pending`), what has is earned.
  When a check returns, `AttemptsAre` gives its record address by address; that the first
  success of the matrix exists is the least element of a set of numbers.

`HTTPCheck_proofs` (assumptions: the setups have their types)
- `ChainsAreBounded` and `HeadersLeaveOnce`, from one invariant: the hops are what was
  requested and `seen` holds them (`HopsAreSeen`), and the request that is sent next
  already keeps both promises (`NextIsJudged`): they are made when a redirect is judged
  and come true when its request begins, with the callbacks of any number of dials
  between the two, which change no request (`SameRequests`).
- `DialsStayJudged` (no address is public and private), for dialled connections: `InStep` counts the judgements (one per hop but the first, and one
  for the last once its redirect is followed), `ApprovedIsJudged` says of every address
  approved for an origin that some redirect was judged by it, and of those of the current
  request that its own was, `DialsAreAllowed` the same of what a dial has tried and has
  still to try. Judgements only accumulate (`JudgementsStay`), which is what a dial that
  starts late relies on; that the dial of hop n is always for the addresses of redirect
  n - 1 is not true of a chain that comes back to its origin, and the invariant shows why
  it is for the connection that was dialled for the request it serves. Reused connections
  are in `RInv`: whatever is idle or in use was dialled by a hop that shares its key
  (`Held`, `Reached`, `Connected`), and nothing more, because nothing judges them again.
- `PolicyHolds`: each hop has the route of its URL and what its dials have still to try
  or have tried is the proxy exactly on that route (`Routed`); the first request goes to
  the target (`TargetIsFirst`); and the advice is the verdict on the selection for the
  target (`AdviceIsCaptured`), which `AdviceIsTheRoute` and `UnusableIsBlocked` compare
  with the route taken, case by case of `SelectProxy`.
- `HopsAreOneStory`, on top of both invariants: redirects lead from hop to hop and the last
  one to the request that is sent next (`Linked`), the history holds the routes of the hops
  (`RoutesAreRecorded`), a hop is on a path of its kind and came out where its route leads
  (`Told`), an idle connection is kept under the route it was dialled for (`Kept`). Of the
  attempts of a hop that have not failed no two are of one family and one at most is
  connected (`Raced`), so selectConnectAttempt, which looks for the last attempt at an
  address, finds the one that was connected. Every way a round trip ends is an `Ending`,
  from which `ReportTells` derives what the report says.

`Diagnosis_proofs` (assumptions: every check has one place in a plan, the policy is
resolved in a stage before the HTTP check, at least one worker)
- About `StagesOf`, for every plan of any length (`Layout`): the mandatory, auxiliary
  and actual parts together contain each check of the plan exactly once, and an
  environment check is in a stage before every auxiliary or actual check (`PolicyFirst`).
  The lemmas before it say the same of each cut (`Slice`, `Glue`).
- `TypeCorrect`, `DirectChecksFailClosed`, `ReserveIsKept`, `StreamTellsTheReport` and
  `BudgetIsReportedAsBudget`, from one invariant. `WorkedOff` relates the stage and the
  next job to what has begun and ended: every worker finishes before the next stage is
  entered. `Policy` needs it, since only the environment check resolves the policy; so
  does `Causes`, which says which endings a check may have while the run's context lives.
  `Stream` is the history of the events: what was told is about the stages so far,
  in the order of their places, none missing and none again; and a result that was told
  is the one reported at the end, because the conditions of the sink that marks a result
  as auxiliary can no longer change once an auxiliary check has begun (`PolicyFirst`
  again).

`Desktop_proofs` (assumptions: the default and the stored configuration are configurations)
- About `TaskScopes`, first: `Kept` keeps the order and exactly the positions asked for
  (`KeptIs`), and each operator either leaves a scope alone or cancels it and says so in the
  inbox (`Keeps`). Each handler of the controller is then described once by what it may do
  to the parts the invariants read (`Passive`, `Triggered`, `Profiled`, `Presented`,
  `Applied`, `Handed`, ...), so that a property is proved over a dozen of these and not
  over every handler.
- `TypeCorrect`, `RunsAsShown`, `OneStoryIsTold`, `WhatIsToldIsTrue` and
  `ReplacesWithConsent`, from one invariant, of which `Sound` has three parts.
  `Runs`: the coordinator holds a profile only after a choice that was not run, which is
  why the next run of the form is excused or of the form.
  `Story`: while a page runs, its timeline is about the current operation, and a success
  that nobody has still to be told of was the last one shown; a run returns its own
  diagnosis. `PageTellsOneStory` alone is not inductive, since it says nothing of
  what a later end of the run will be added to. Nothing is diagnosed before the
  configuration is known: otherwise its arrival would put the header back to ready during
  a run.
  `Told`: the worker's line holds the operations of a scope in the order they were
  started, the newest as it was asked, and reports that may replace a file only for a
  session in which the user agreed (`Line`). So a save that succeeded was the last one
  asked for, no other is behind it, and its configuration is active (`Saves`), and the
  fields of the page that asked are still those it asked with, unless they were edited since
  (`Fields`); and a
  report that succeeded was put at its destination, and was shown, is about to be, or its
  session is over (`Writes`). The consent is given two callbacks and a queue before the
  file is replaced; `Line` carries it across.

`Invocation_proofs` (assumption: the number of signals is a natural number, not needed)
- About sequences, first: what `Kept` and `\o` leave in them (`KeptIs`, `JoinedIs`), and
  that `Best` is a candidate no other outranks, although severity and priority only order
  them together (`BestIs`, from `Least`: a set of numbers has a least element, which is used
  for the severity, the priority and the place).
- About the rules of `summary.Build`, on the results of a whole plan (`Whole`):
  every candidate is `Fair`, that is, it claims only what the results support. Each rule
  has its lemma (`EarlyIs` to `ClosingIs`); `ExcusedIs` shows that what the rules excuse
  is what a completed response contradicts or what is of another path, and `SomeIsBlamed`
  that the last failure in the order of the layers that nothing contradicts is excused by no
  timeout rule. `CandidatesAre` adds that what there is to tell has a candidate of its
  severity: without it the best of honest candidates could pass over a failure.
  `ConclusionIsSupported` combines the two.
- `VerdictIsEarned` and `ExitIsTruthful`, from one invariant of the command
  (`CommandIsOrderly`). `Progress`: the results are those of the first checks of the plan
  and each is `Made` as a check that ran, was passed over or was interrupted makes it
  (`AddedIs`; one lemma for what each check returns). It needs that no direct check runs
  under an invalid policy, and that the policy is unresolved before the environment check.
  `Interruptions`: what is cancelled had a signal, and the second signal is counted before
  it forces the exit. `Deeds` and `Ending`: what the command has done at each place, and
  that the code it leaves with fits it.

Only model-checked: liveness (fairness and ENABLED are outside the prover), that is
`RunnerDrains`, `BothSidesEnd`, `DiagnosisReturns`, `HappyEyeballs`, `EndedCheckReturns`,
`CheckReturns` and `IndicatorsClear`. Every other property of a passing run has a theorem.
The theorems `TypeCorrect`, `ReadsAreLimited` and `GrowingNotices` have no run of their
own: the provers cover more than an instance would.

## 5. Where code and documentation disagree

Three are runs that TLC ends with a counterexample.

- `level` – a save whose context ends before the log level was set returns an error and
  leaves the new level in the logger.
- `families` – TCP selects its addresses without `SelectAddresses` and without the
  requested family: with `--ip-version 4` a dual-stack name is dialled, and may be
  reported as reachable, over IPv6.
- `untested` – the runner puts DNS, route, TCP and TLS of every target under the auxiliary
  budget, although of a TCP or TLS target they are the diagnosis itself. When that budget
  ends first (a port that drops packets, `--timeout 10s --check-timeout 10s`), TCP is
  recorded as skipped, HTTP does not apply, and the conclusion is "All applicable
  diagnostic checks completed without a failed critical check", exit code 0.

Two are cases that a property of a passing run states and excepts; `PROJECT.json` lists
them as findings of that run.

- `http`, `RedirectsStayJudged` – CheckRedirect judges the addresses a name has now, the
  transport reuses a connection it opened before. A chain that started at a private
  address and went on to a public host gets back to the private one over the idle
  connection, without the opt-in, when the name answers with a public address by then
  (docs/diagnostic-model.md:349-351, docs/security.md:135-138: such transitions are blocked).
- `verdict`, `VerdictNamesTheBlocker` – a response that misses an expectation of the user's
  (status, latency) is a failed check, which `summary.go:98` takes for one without a
  response: a direct preflight that failed is then named as the blocker, although the
  response contradicts it (docs/diagnostic-model.md:363-367). The same response is
  concluded as "HTTP transport failed".

Seen while modelling, and not turned into runs of their own:
- `Cancel` makes the snapshot of a mutation terminal while it still runs, so a second
  exclusive mutation is queued behind it, although the comment on
  `ErrOperationInProgress` (taskrunner.go:31) says that it is rejected.
- `deliver` calls the observer after it released the locks, so a close on another
  goroutine may be followed by one delivery (docs/architecture.md:250 says it is
  silenced).
- A panic of the sink after a timed-out drain is recovered and reported to nobody
  (docs/runtime-resilience.md:43).
- A read of the history whose success was committed before its page was left, but not
  yet observed, still opens, runs again or exports its diagnosis (coordinators.go:428:
  "Cancel invalidates all history work owned by the screen.").
- A profile that the form refuses, or that is chosen before the configuration is loaded,
  stays pending: the next run of a form that was edited meanwhile runs the profile.
  `RunsWhatTheFormShows` excepts exactly these runs.
- Edits made while a save of the settings runs end beside "saved", with Save disabled
  (settings.go:179-192): the fields then show what is not active. `ToldIsTrue` demands that
  the fields of a saved page are active except in this case. The save of a page that was
  left may still commit and leave the page's copy stale.
- A save that is refused because another one runs displaces that one's callback
  (async.go:337-357): the first save succeeds and the page goes on showing the refusal.
  `ToldIsTrue` finds nothing false in that, and the success is not told.
- A profile that is refused drops the run that was active; `InputError` then sets the header
  of the Diagnose page only (app.go:199-201), and an error of `profileModel` neither
  (app.go:1042-1046), so that a header may say "running" until the next run or result.
  `PageTellsOneStory` excepts the headers and the timeline while this lasts.
- Consent to overwrite is to the path: a file that another process swaps in behind it is
  replaced as well.
- A finish that arrives before the Loading notice of the next run lets an event of one
  run into the timeline of the other for a moment; an event that comes after a timed-out
  drain overwrites the final entry of its check.
- A report write that is cancelled after its commit tells the user nothing; an error of
  the directory sync is told as a failure although the report is in place.
- A run of the CLI that is cancelled by a signal never delivers its report, although the
  conclusion says "Completed evidence remains available.": rendering and history use the
  cancelled context. Rendering that takes longer than an adapter may exits with 1, the
  code of a diagnosis that found a failure.
- After `stop()` a signal that waits in the channel may still force the exit during
  Close, and a later one kills the process: the runtime is then not closed.
- A `CHECK_TIMEOUT` of the environment check would be superseded by a preflight failure
  that is itself only a discrepancy, and the conclusion would name neither. The check
  ignores its context and waits for nothing, so that it does not time out; the model
  relies on that.
- A drain that times out counts one event more than the queue holds, for the one in the
  sink, although the consumer may be between two events. The reported loss may then be
  one too high; `PromiseSpec` says that it is never too low.
- `aggregateResult` of TLS counts what was started. A check that ends early after its
  first success would be "passed" were it not for the engine's override.
- A save that fails after the rename (directory sync, timeout) reports an error while
  the new settings are in the file; they become active at the next start. The model
  has this; `PersistedBeforeActive` allows it.
- On Windows, if the second rename of `replace` fails the deferred removal of the
  temporary file leaves neither the old nor the new configuration.
- The schema version is read outside the transaction that migrates. If another process
  migrates in between, the loser's backup is named after the old schema but holds the
  migrated database, and its migration fails; the data is safe.
- A diagnosis stored between two pages of a listing makes an entry appear twice.

## 6. Not modelled, and what could come next

Not modelled on purpose: text (redaction, privacy rules, reports, localization,
presentation, the parsing of targets, flags and headers), data types and their JSON forms,
build information, the trust bundle and paths. They are pure functions of text or static
data; a model would restate them. The graph of network paths (`network_paths.go`) relates
identifiers of attempts and is only reported. The version and completion commands do
nothing that can interleave. The recovery window is one dialog before anything else runs.

Simplifications: in `Settings` and `Database` the clock (two diagnoses with the same
`started_at`), loss of power under an open database, YAML and validation, and a panic
of setLogLevel are left out; in `TaskRunner` the wrap of the 64-bit operation ID; in
`Diagnosis` the validation of options, and `Stream`, which nothing but tests calls; in
`Desktop` what a form field accepts, filters and paging of lists, the initial load of
the settings against a save, and what `writeExportURI` does with a URI that is no local file
(app.go:906-913: it writes whether or not a file is there; the folder dialog of a desktop
lists local ones); in `Invocation` the codes of warnings of DNS and TLS, which no rule
reads (a TLS check that warns carries `TLS_PARTIAL_FAILURE` or nothing, tls/check.go:640-672,
so that the certificate branch of summary.go:310-341 is for failures); in `SecureExport` the end of the process between two steps,
which leaves the temporary file and nothing else.

What could come next:

1. `Profiles` as further actions of `Database`: update against a second process.
2. The resolution of options (`diagnose_options.go`, `normalizeOptions`) in front of
   `Diagnosis` and `Invocation`, with the durations that decide which budget ends first.
