----------------------------- MODULE TaskRunner -----------------------------
(***************************************************************************)
(* The desktop application's task runner (internal/gui/taskrunner): one    *)
(* Runner with its read slots and its mutation worker, the Scopes that     *)
(* replace, cancel and invalidate their operations, and the GUI thread on  *)
(* which observers run.                                                    *)
(*                                                                         *)
(* An action is one critical section of the code: a region under scope.mu  *)
(* or runner.mu, one channel operation, or one step of a goroutine.  Two   *)
(* regions are merged into one action only where no other goroutine can    *)
(* tell them apart; each merge is named at the action.                     *)
(*                                                                         *)
(* The value and the error of a Snapshot are abstracted into its State.    *)
(***************************************************************************)
EXTENDS Naturals, Sequences, FiniteSets

CONSTANTS Scopes,    \* the operation scopes of the application
          Uses,      \* the exported operations called on each scope
          Observers, \* the scopes made with an Observer
          Shutdowns, \* how the application may end: "close", "parent"
          Callers,   \* goroutines that call the exported operations
          GUI,       \* the goroutine that runs dispatched callbacks
          Watcher,   \* New's goroutine: <-ctx.Done(); runner.Close()
          MaxReads,  \* Options.MaxConcurrentReads after defaulting
          MaxID      \* bound on a scope's operation IDs

ASSUME ThreadsAssumption == /\ Watcher \notin Callers
                            /\ Watcher # GUI
ASSUME UsesAssumption ==
  Uses \in [Scopes -> SUBSET {"read", "mutation", "exclusive", "cancel",
                             "invalidate", "close"}]
ASSUME ObserversAssumption == Observers \subseteq Scopes
ASSUME ShutdownsAssumption == Shutdowns \subseteq {"close", "parent"}
ASSUME ReadsAssumption == MaxReads \in Nat \ {0}
ASSUME BoundAssumption == MaxID \in Nat

VARIABLES
  closed,         \* Runner.closed
  rootDone,       \* Runner.ctx is done
  registered,     \* Runner.scopes
  mutationQueue,  \* Runner.mutationQueue
  mutationReady,  \* Runner.mutationReady holds its one token
  worker,         \* where the runMutations goroutine is
  slots,          \* operations holding a token of Runner.readSlots
  scope,          \* the fields of each Scope
  phase,          \* how far each operation has come
  kind,           \* the call that accepted each operation
  cancelled,      \* operations whose own cancel function was called
  sending,        \* snapshots committed by finish and not yet dispatched
  callbacks,      \* closures handed to the Dispatcher and not yet run
  call,           \* where each goroutine is in the call it is making
  observed,       \* the last snapshot each scope's Observer was given
  accepted        \* history: the mutations in the order they were accepted

runnerVars == <<closed, rootDone, registered>>
workerVars == <<mutationQueue, mutationReady, worker>>
vars == <<closed, rootDone, registered, mutationQueue, mutationReady, worker,
          slots, scope, phase, kind, cancelled, sending, callbacks, call,
          observed, accepted>>

-----------------------------------------------------------------------------
Threads == Callers \cup {GUI, Watcher}
Ops == Scopes \X (1 .. MaxID)

States == {"idle", "loading", "success", "error", "cancelled"}
Terminal == {"success", "error", "cancelled"}
Kinds == {"read", "mutation", "exclusive"}
Phases == {"none", "queued", "gate", "running", "committed", "done"}
Outcomes == {"value", "failure", "canceled"}

\* OperationClass: StartMutation and StartExclusiveMutation both schedule a
\* MutationOperation.
Mutating(k) == k \in {"mutation", "exclusive"}

\* A snapshot together with the revision it was published under.
Msg == [scope : Scopes, rev : Nat, id : Nat, state : States]
Snapshot(s, sc) == [scope |-> s, rev |-> sc.revision, id |-> sc.id,
                    state |-> sc.state]
OpOf(m) == <<m.scope, m.id>>

Idle == [at |-> "idle"]
Deliver(m) == [at |-> "deliver", msg |-> m]
Open(m) == [at |-> "open", msg |-> m]

\* ctx.Err() # nil for the context of operation o, a child of Runner.ctx.
CtxDone(o) == rootDone \/ o \in cancelled

\* Mutant of CancelCurrent: the replaced operation's context is left alone.
CancelNothing(s) == {}

\* The operation's cancel function is called exactly when scope.cancel # nil.
CancelCurrent(s) ==
  IF scope[s].live THEN {<<s, scope[s].nextID>>} ELSE {}

\* startGate is closed once the call that accepted o has dispatched Loading.
GateOpen(o) == \A t \in Threads : call[t].at = "open" => OpOf(call[t].msg) # o

Unfinished(o) == phase[o] \notin {"none", "done"}
Active(o) == phase[o] \in {"queued", "gate", "running"}

-----------------------------------------------------------------------------
NewScopeState == [made |-> FALSE, closed |-> FALSE, nextID |-> 0,
                  revision |-> 1, id |-> 0, kind |-> "read",
                  state |-> "idle", live |-> FALSE]

Init ==
  /\ closed = FALSE
  /\ rootDone = FALSE
  /\ registered = {}
  /\ mutationQueue = <<>>
  /\ mutationReady = FALSE
  /\ worker = "waiting"
  /\ slots = {}
  /\ scope = [s \in Scopes |-> NewScopeState]
  /\ phase = [o \in Ops |-> "none"]
  /\ kind = [o \in Ops |-> "read"]
  /\ cancelled = {}
  /\ sending = {}
  /\ callbacks = {}
  /\ call = [t \in Threads |-> Idle]
  /\ observed = [s \in Scopes |-> [scope |-> s, rev |-> 0, id |-> 0, state |-> "idle"]]
  /\ accepted = <<>>

-----------------------------------------------------------------------------
(* The exported operations of a Scope.                                     *)

\* Mutant of NewScope: register does not look at Runner.closed.
NewScopeAlways(t, s) ==
  /\ call[t] = Idle
  /\ ~scope[s].made
  /\ registered' = registered \cup {s}
  /\ scope' = [scope EXCEPT ![s].made = TRUE]
  /\ call' = [call EXCEPT ![t] = Deliver(Snapshot(s, scope'[s]))]
  /\ UNCHANGED <<closed, rootDone, workerVars, slots, phase, kind, cancelled,
                 sending, callbacks, observed, accepted>>

\* NewScope: register refuses once the runner is closed; otherwise the idle
\* snapshot is delivered.
NewScope(t, s) ==
  /\ call[t] = Idle
  /\ ~scope[s].made
  /\ ~closed
  /\ registered' = registered \cup {s}
  /\ scope' = [scope EXCEPT ![s].made = TRUE]
  /\ call' = [call EXCEPT ![t] = Deliver(Snapshot(s, scope'[s]))]
  /\ UNCHANGED <<closed, rootDone, workerVars, slots, phase, kind, cancelled,
                 sending, callbacks, observed, accepted>>

\* startWithPolicy refuses a closed scope, and an exclusive mutation while a
\* mutation of the scope is loading.
MayStart(t, s, k) ==
  /\ call[t] = Idle
  /\ scope[s].made
  /\ ~scope[s].closed
  /\ ~(k = "exclusive" /\ scope[s].state = "loading" /\ Mutating(scope[s].kind))
  /\ scope[s].nextID < MaxID

Started(s, k) ==
  [scope[s] EXCEPT !.nextID = @ + 1, !.revision = @ + 1, !.id = scope[s].nextID + 1,
                   !.kind = k, !.state = "loading", !.live = TRUE]

\* startWithPolicy when schedule accepts the operation.  schedule runs under
\* scope.mu; appending to the queue and signalling the worker are merged,
\* because a worker that takes the mutation before the signal only finds one
\* more token, as it may in any case.
Start(t, s, k) ==
  /\ MayStart(t, s, k)
  /\ ~closed
  /\ LET o == <<s, scope[s].nextID + 1>> IN
     /\ cancelled' = cancelled \cup CancelCurrent(s)
     /\ scope' = [scope EXCEPT ![s] = Started(s, k)]
     /\ phase' = [phase EXCEPT ![o] = "queued"]
     /\ kind' = [kind EXCEPT ![o] = k]
     /\ IF Mutating(k)
          THEN /\ mutationQueue' = Append(mutationQueue, o)
               /\ mutationReady' = TRUE
               /\ accepted' = Append(accepted, o)
          ELSE UNCHANGED <<mutationQueue, mutationReady, accepted>>
     /\ call' = [call EXCEPT ![t] = Open(Snapshot(s, scope'[s]))]
  /\ UNCHANGED <<runnerVars, worker, slots, sending, callbacks, observed>>

Rejected(s, k) ==
  [Started(s, k) EXCEPT !.revision = @ + 1, !.state = "cancelled", !.live = FALSE,
                        !.closed = TRUE]

\* startWithPolicy when schedule answers ErrRunnerClosed: the scope closes
\* itself and nothing is delivered.
StartRejected(t, s, k) ==
  /\ MayStart(t, s, k)
  /\ closed
  /\ cancelled' = cancelled \cup CancelCurrent(s) \cup {<<s, scope[s].nextID + 1>>}
  /\ scope' = [scope EXCEPT ![s] = Rejected(s, k)]
  /\ UNCHANGED <<runnerVars, workerVars, slots, phase, kind, sending, callbacks,
                 call, observed, accepted>>

Cancelled(s) ==
  [scope[s] EXCEPT !.live = FALSE, !.revision = @ + 1, !.state = "cancelled"]

\* Scope.Cancel
Cancel(t, s) ==
  /\ call[t] = Idle
  /\ scope[s].made
  /\ ~scope[s].closed
  /\ scope[s].state = "loading"
  /\ cancelled' = cancelled \cup CancelCurrent(s)
  /\ scope' = [scope EXCEPT ![s] = Cancelled(s)]
  /\ call' = [call EXCEPT ![t] = Deliver(Snapshot(s, scope'[s]))]
  /\ UNCHANGED <<runnerVars, workerVars, slots, phase, kind, sending, callbacks,
                 observed, accepted>>

Fresh(s) ==
  [scope[s] EXCEPT !.live = FALSE, !.revision = @ + 1, !.nextID = @ + 1,
                   !.id = scope[s].nextID + 1, !.kind = "read", !.state = "idle"]

\* Scope.Invalidate: a fresh idle generation, with no delivery.
Invalidate(t, s) ==
  /\ call[t] = Idle
  /\ scope[s].made
  /\ ~scope[s].closed
  /\ scope[s].nextID < MaxID
  /\ cancelled' = cancelled \cup CancelCurrent(s)
  /\ scope' = [scope EXCEPT ![s] = Fresh(s)]
  /\ UNCHANGED <<runnerVars, workerVars, slots, phase, kind, sending, callbacks,
                 call, observed, accepted>>

\* Mutant of Closed: whatever the scope shows becomes cancelled.
ClosedAnyState(s) ==
  [scope[s] EXCEPT !.closed = TRUE, !.live = FALSE, !.revision = @ + 1, !.state = "cancelled"]

\* Scope.close: the fields of a scope that is closed.
Closed(s) ==
  IF scope[s].state = "loading"
    THEN [scope[s] EXCEPT !.closed = TRUE, !.live = FALSE, !.revision = @ + 1,
                          !.state = "cancelled"]
    ELSE [scope[s] EXCEPT !.closed = TRUE, !.live = FALSE]

\* Scope.close, the transition Scope.Close and Scope.runnerClosed share.
Shut(s) ==
  IF scope[s].closed THEN UNCHANGED <<scope, cancelled>> ELSE
  /\ cancelled' = cancelled \cup CancelCurrent(s)
  /\ scope' = [scope EXCEPT ![s] = Closed(s)]

\* Scope.Close: close then unregister.  The two locked regions are merged: a
\* Runner.Close between them would close a scope that is already closed.
CloseScope(t, s) ==
  /\ call[t] = Idle
  /\ scope[s].made
  /\ ~scope[s].closed
  /\ Shut(s)
  /\ registered' = registered \ {s}
  /\ UNCHANGED <<closed, rootDone, workerVars, slots, phase, kind, sending,
                 callbacks, call, observed, accepted>>

\* deliver dispatches a closure only for a scope that has an observer.
Closure(m) == IF m.scope \in Observers THEN {m} ELSE {}

\* The tail of NewScope, Start and Cancel, outside scope.mu: dispatch the
\* snapshot and, for Start, close startGate.
Dispatch(t) ==
  /\ call[t].at \in {"deliver", "open"}
  /\ callbacks' = callbacks \cup Closure(call[t].msg)
  /\ call' = [call EXCEPT ![t] = Idle]
  /\ UNCHANGED <<runnerVars, workerVars, slots, scope, phase, kind, cancelled,
                 sending, observed, accepted>>

-----------------------------------------------------------------------------
(* Runner.Close and the end of the application's context.                  *)

\* The parent context of New is cancelled.
ParentCancel ==
  /\ "parent" \in Shutdowns
  /\ ~rootDone
  /\ rootDone' = TRUE
  /\ UNCHANGED <<closed, registered, workerVars, slots, scope, phase, kind,
                 cancelled, sending, callbacks, call, observed, accepted>>

\* Runner.Close up to its first unlock; the Watcher calls it once ctx is done.
CloseRunner(t) ==
  /\ call[t] = Idle
  /\ IF t = Watcher THEN rootDone ELSE "close" \in Shutdowns
  /\ ~closed
  /\ closed' = TRUE
  /\ rootDone' = TRUE
  /\ registered' = {}
  /\ call' = [call EXCEPT ![t] = [at |-> "closing", rest |-> registered]]
  /\ UNCHANGED <<workerVars, slots, scope, phase, kind, cancelled, sending,
                 callbacks, observed, accepted>>

\* One turn of Close's loop over the scopes it took, in map order.
RunnerClosed(t, s) ==
  /\ call[t].at = "closing"
  /\ s \in call[t].rest
  /\ Shut(s)
  /\ call' = [call EXCEPT ![t].rest = @ \ {s}]
  /\ UNCHANGED <<runnerVars, workerVars, slots, phase, kind, sending, callbacks,
                 observed, accepted>>

\* Close's last step wakes the mutation worker.
CloseSignals(t) ==
  /\ call[t].at = "closing"
  /\ call[t].rest = {}
  /\ mutationReady' = TRUE
  /\ call' = [call EXCEPT ![t] = Idle]
  /\ UNCHANGED <<runnerVars, mutationQueue, worker, slots, scope, phase, kind,
                 cancelled, sending, callbacks, observed, accepted>>

-----------------------------------------------------------------------------
(* The goroutine of an accepted operation, and the mutation worker.        *)

\* schedule's goroutine takes a token of readSlots ...
AcquireSlot(o) ==
  /\ phase[o] = "queued"
  /\ ~Mutating(kind[o])
  /\ Cardinality(slots) < MaxReads
  /\ slots' = slots \cup {o}
  /\ phase' = [phase EXCEPT ![o] = "gate"]
  /\ UNCHANGED <<runnerVars, workerVars, scope, kind, cancelled, sending,
                 callbacks, call, observed, accepted>>

\* ... or sees its context done, and goes on without a token.
SkipSlot(o) ==
  /\ phase[o] = "queued"
  /\ ~Mutating(kind[o])
  /\ CtxDone(o)
  /\ phase' = [phase EXCEPT ![o] = "gate"]
  /\ UNCHANGED <<runnerVars, workerVars, slots, scope, kind, cancelled, sending,
                 callbacks, call, observed, accepted>>

\* runMutations: receive the token of mutationReady.
WorkerWakes ==
  /\ worker = "waiting"
  /\ mutationReady
  /\ mutationReady' = FALSE
  /\ worker' = "draining"
  /\ UNCHANGED <<runnerVars, mutationQueue, slots, scope, phase, kind, cancelled,
                 sending, callbacks, call, observed, accepted>>

\* Mutant of WorkerTakes: the mutation gets a goroutine of its own.
WorkerTakesConcurrently ==
  /\ worker = "draining"
  /\ mutationQueue # <<>>
  /\ phase' = [phase EXCEPT ![Head(mutationQueue)] = "gate"]
  /\ mutationQueue' = Tail(mutationQueue)
  /\ UNCHANGED <<runnerVars, mutationReady, worker, slots, scope, kind, cancelled,
                 sending, callbacks, call, observed, accepted>>

\* runMutations: take the oldest mutation.
WorkerTakes ==
  /\ worker = "draining"
  /\ mutationQueue # <<>>
  /\ phase' = [phase EXCEPT ![Head(mutationQueue)] = "gate"]
  /\ mutationQueue' = Tail(mutationQueue)
  /\ worker' = "busy"
  /\ UNCHANGED <<runnerVars, mutationReady, slots, scope, kind, cancelled,
                 sending, callbacks, call, observed, accepted>>

\* runMutations: the queue is empty, so wait again or end.
WorkerDrained ==
  /\ worker = "draining"
  /\ mutationQueue = <<>>
  /\ worker' = IF closed THEN "exited" ELSE "waiting"
  /\ UNCHANGED <<runnerVars, mutationQueue, mutationReady, slots, scope, phase,
                 kind, cancelled, sending, callbacks, call, observed, accepted>>

\* Mutant of Begin: ctx is not looked at again once the slot is acquired.
BeginAnyway(o) ==
  /\ phase[o] = "gate"
  /\ GateOpen(o)
  /\ phase' = [phase EXCEPT ![o] = "running"]
  /\ UNCHANGED <<runnerVars, workerVars, slots, scope, kind, cancelled, sending,
                 callbacks, call, observed, accepted>>

\* run: startGate is open and ctx is not done, so the task is invoked.
Begin(o) ==
  /\ phase[o] = "gate"
  /\ GateOpen(o)
  /\ ~CtxDone(o)
  /\ phase' = [phase EXCEPT ![o] = "running"]
  /\ UNCHANGED <<runnerVars, workerVars, slots, scope, kind, cancelled, sending,
                 callbacks, call, observed, accepted>>

\* The task returns a value, an error (a panic is one) or a context error; a
\* task that finds ctx done before it is invoked returns ctx.Err().
Returns(o, r) ==
  \/ phase[o] = "running"
  \/ phase[o] = "gate" /\ GateOpen(o) /\ CtxDone(o) /\ r = "canceled"

\* finish ignores every operation but the scope's current, loading one.
Current(o) ==
  LET sc == scope[o[1]] IN
  /\ ~sc.closed
  /\ sc.id = o[2]
  /\ sc.state = "loading"

\* finish: a done context or a context error makes the operation cancelled.
FinalState(o, r) ==
  IF CtxDone(o) \/ r = "canceled" THEN "cancelled"
  ELSE IF r = "failure" THEN "error"
  ELSE "success"

\* Mutant of Finished: the final transition keeps the revision of Loading.
FinishedSameRevision(o, r) ==
  [scope[o[1]] EXCEPT !.live = FALSE, !.state = FinalState(o, r)]

\* finish: the fields of the scope after the final transition.
Finished(o, r) ==
  [scope[o[1]] EXCEPT !.live = FALSE, !.revision = @ + 1, !.state = FinalState(o, r)]

\* Mutant of Release: the token of readSlots is not given back.
ReleaseKeepsSlot(o) ==
  /\ phase' = [phase EXCEPT ![o] = "done"]
  /\ slots' = slots
  /\ worker' = IF Mutating(kind[o]) THEN "draining" ELSE worker

\* run's deferred calls: give the slot back and tell the WaitGroup; for a
\* mutation the worker goes back to its queue.
Release(o) ==
  /\ phase' = [phase EXCEPT ![o] = "done"]
  /\ slots' = slots \ {o}
  /\ worker' = IF Mutating(kind[o]) THEN "draining" ELSE worker

\* finish when the operation is still current.  The call of its own cancel
\* function follows the unlock; it is merged, as nothing waits for it.
Commit(o, r) ==
  /\ Returns(o, r)
  /\ Current(o)
  /\ scope' = [scope EXCEPT ![o[1]] = Finished(o, r)]
  /\ cancelled' = cancelled \cup CancelCurrent(o[1])
  /\ phase' = [phase EXCEPT ![o] = "committed"]
  /\ sending' = sending \cup {Snapshot(o[1], scope'[o[1]])}
  /\ UNCHANGED <<runnerVars, workerVars, slots, kind, callbacks, call, observed,
                 accepted>>

\* finish when the operation was replaced, cancelled, invalidated or closed.
Ignore(o) ==
  /\ \E r \in Outcomes : Returns(o, r)
  /\ ~Current(o)
  /\ Release(o)
  /\ UNCHANGED <<runnerVars, mutationQueue, mutationReady, scope, kind, cancelled,
                 sending, callbacks, call, observed, accepted>>

\* finish's last step dispatches the terminal snapshot, then run returns.
Publish(o) ==
  /\ phase[o] = "committed"
  /\ \E m \in sending :
       /\ OpOf(m) = o
       /\ sending' = sending \ {m}
       /\ callbacks' = callbacks \cup Closure(m)
  /\ Release(o)
  /\ UNCHANGED <<runnerVars, mutationQueue, mutationReady, scope, kind, cancelled,
                 call, observed, accepted>>

-----------------------------------------------------------------------------
(* The GUI thread runs a dispatched callback: the closure of deliver.      *)

\* The Dispatcher may run callbacks in any order.  The closure first reads
\* Runner.closed under runner.mu.
RunCallback(m) ==
  /\ call[GUI] = Idle
  /\ callbacks' = callbacks \ {m}
  /\ call' = [call EXCEPT ![GUI] = IF closed THEN Idle ELSE [at |-> "check", msg |-> m]]
  /\ UNCHANGED <<runnerVars, workerVars, slots, scope, phase, kind, cancelled,
                 sending, observed, accepted>>

\* Mutant of IsCurrent: a closed scope is not told apart.
IsCurrentByRevision(m) == scope[m.scope].revision = m.rev

\* Then, under scope.mu, whether the snapshot's revision is still current.
IsCurrent(m) == ~scope[m.scope].closed /\ scope[m.scope].revision = m.rev

CheckRevision ==
  /\ call[GUI].at = "check"
  /\ LET m == call[GUI].msg
     IN  call' = [call EXCEPT ![GUI] =
                    IF IsCurrent(m) THEN [at |-> "observe", msg |-> m] ELSE Idle]
  /\ UNCHANGED <<runnerVars, workerVars, slots, scope, phase, kind, cancelled,
                 sending, callbacks, observed, accepted>>

\* Then the Observer is called, with neither lock held.
Observe ==
  /\ call[GUI].at = "observe"
  /\ observed' = [observed EXCEPT ![call[GUI].msg.scope] = call[GUI].msg]
  /\ call' = [call EXCEPT ![GUI] = Idle]
  /\ UNCHANGED <<runnerVars, workerVars, slots, scope, phase, kind, cancelled,
                 sending, callbacks, accepted>>

-----------------------------------------------------------------------------
\* Everything has ended; stuttering here keeps the deadlock check meaningful.
Terminated ==
  /\ closed
  /\ worker = "exited"
  /\ callbacks = {}
  /\ \A t \in Threads : call[t] = Idle
  /\ \A o \in Ops : ~Unfinished(o)
  /\ UNCHANGED vars

CallStep(t) ==
  \E s \in Scopes :
    \/ NewScope(t, s)
    \/ \E k \in Kinds \cap Uses[s] : Start(t, s, k) \/ StartRejected(t, s, k)
    \/ "cancel" \in Uses[s] /\ Cancel(t, s)
    \/ "invalidate" \in Uses[s] /\ Invalidate(t, s)
    \/ "close" \in Uses[s] /\ CloseScope(t, s)

ThreadStep(t) ==
  \/ Dispatch(t)
  \/ \E s \in Scopes : RunnerClosed(t, s)
  \/ CloseSignals(t)

WorkerStep == WorkerWakes \/ WorkerTakes \/ WorkerDrained

OpStep(o) ==
  \/ AcquireSlot(o)
  \/ SkipSlot(o)
  \/ Begin(o)
  \/ \E r \in Outcomes : Commit(o, r)
  \/ Ignore(o)
  \/ Publish(o)

GuiStep == (\E m \in callbacks : RunCallback(m)) \/ CheckRevision \/ Observe

Next ==
  \/ \E t \in Callers : CallStep(t) \/ CloseRunner(t)
  \/ \E t \in Threads : ThreadStep(t)
  \/ CloseRunner(Watcher)
  \/ ParentCancel
  \/ WorkerStep
  \/ \E o \in Ops : OpStep(o)
  \/ GuiStep
  \/ Terminated

Spec == Init /\ [][Next]_vars

\* Every goroutine keeps running, a call in progress returns, the GUI thread
\* runs what was dispatched, and a task that was invoked returns.  Nothing
\* obliges anybody to make another call.
Fairness ==
  /\ \A t \in Threads : WF_vars(ThreadStep(t))
  /\ WF_vars(CloseRunner(Watcher))
  /\ WF_vars(WorkerStep)
  /\ \A o \in Ops : WF_vars(OpStep(o))
  /\ WF_vars(GuiStep)

FairSpec == Spec /\ Fairness

-----------------------------------------------------------------------------
CallStates ==
  [at : {"idle"}] \cup [at : {"deliver", "open", "check", "observe"}, msg : Msg]
    \cup [at : {"closing"}, rest : SUBSET Scopes]

ScopeStates ==
  [made : BOOLEAN, closed : BOOLEAN, nextID : 0 .. MaxID, revision : Nat,
   id : 0 .. MaxID, kind : Kinds, state : States, live : BOOLEAN]

\* Every variable has its type (the fields of Runner, Scope and Snapshot).
TypeOK ==
  /\ closed \in BOOLEAN
  /\ rootDone \in BOOLEAN
  /\ registered \in SUBSET Scopes
  /\ mutationQueue \in Seq(Ops)
  /\ mutationReady \in BOOLEAN
  /\ worker \in {"waiting", "draining", "busy", "exited"}
  /\ slots \in SUBSET Ops
  /\ scope \in [Scopes -> ScopeStates]
  /\ phase \in [Ops -> Phases]
  /\ kind \in [Ops -> Kinds]
  /\ cancelled \in SUBSET Ops
  /\ sending \in SUBSET Msg
  /\ callbacks \in SUBSET Msg
  /\ call \in [Threads -> CallStates]
  /\ observed \in [Scopes -> Msg]
  /\ accepted \in Seq(Ops)

-----------------------------------------------------------------------------
(* Safety.                                                                 *)

RunningReads == {o \in Ops : phase[o] = "running" /\ ~Mutating(kind[o])}

\* At most MaxConcurrentReads read tasks execute at once, although schedule
\* lets an operation whose context is done past the slots without a token
\* (taskrunner.go:288-297): such an operation must never invoke its task.
ReadLimit == Cardinality(RunningReads) <= MaxReads

\* Mutations execute one at a time in acceptance order across all scopes: one
\* has left the queue only when all accepted before it have returned
\* (schedule, runMutations; architecture.md: "mutations accepted by one runner
\* execute serially in acceptance order").
MutationsInOrder ==
  \A i, j \in 1 .. Len(accepted) :
    i < j /\ phase[accepted[j]] # "queued" => phase[accepted[i]] = "done"

\* No operation is forgotten while it runs: whenever an accepted operation has
\* not returned and has not been told to stop, it is the one its scope shows as
\* loading, so replacing, cancelling, invalidating and closing all cancel it.
OneLiveOperation ==
  \A o \in Ops : Active(o) /\ ~CtxDone(o) => Current(o)

\* When the Runner.Close that took the scopes has returned, no scope is left
\* open or loading, whatever calls raced with it (register, schedule and Close
\* decide under runner.mu).
ScopesCloseWithRunner ==
  closed /\ (\A t \in Threads : call[t].at # "closing") =>
    \A s \in Scopes :
      scope[s].made => scope[s].closed /\ scope[s].state # "loading"

Quiet == /\ \A t \in Threads : call[t] = Idle
         /\ callbacks = {}
         /\ \A o \in Ops : ~Unfinished(o)

Invalidated(sc) == sc.state = "idle" /\ sc.id # 0

\* No final transition is lost: once every goroutine and callback is done, an
\* open scope's observer was last given exactly what Snapshot() returns, though
\* finish and Cancel publish after releasing scope.mu (only Invalidate promises
\* no delivery).
ObserverCatchesUp ==
  Quiet => \A s \in Scopes :
    s \in Observers /\ scope[s].made /\ ~scope[s].closed /\ ~Invalidated(scope[s])
      => observed[s] = Snapshot(s, scope[s])

-----------------------------------------------------------------------------
(* Action properties.                                                      *)

\* A terminal state is final for its operation: a late return of the task, a
\* Cancel or a Close never rewrites it (finish, Cancel, close).
TerminalIsFinal ==
  [][\A s \in Scopes :
       scope[s].state \in Terminal /\ scope'[s].id = scope[s].id
         => scope'[s].state = scope[s].state]_vars

\* Once the runner is closed no operation is accepted and no task is invoked,
\* queued mutations included, so Wait after Close is a barrier (schedule, run).
NothingStartsAfterClose ==
  [][closed => \A o \in Ops :
       /\ phase[o] = "none" => phase'[o] = "none"
       /\ phase'[o] = "running" => phase[o] = "running"]_vars

Notified(s) == observed'[s] # observed[s]

\* When every call is made on the GUI thread, an observer is given nothing of
\* an operation that was replaced, and nothing once its scope is closed
\* (deliver checks the revision on that same thread).
LateTransitionsSuppressed ==
  [][\A s \in Scopes : Notified(s) =>
       ~scope[s].closed /\ observed'[s].id = scope[s].id]_vars

-----------------------------------------------------------------------------
(* Liveness, under FairSpec.                                               *)

\* Every accepted operation returns, so the WaitGroup that Wait waits for
\* drains (slots are given back, no wake-up of the mutation worker is lost).
\* An operation is never queued twice and the IDs are bounded, so all of them
\* return exactly when from some point on none is unfinished.
OperationsReturn == <>[](\A o \in Ops : ~Unfinished(o))

\* The end of the application's context closes the runner and its scopes, ends
\* the mutation worker and drains every accepted operation.
ShutdownCompletes ==
  rootDone ~> /\ closed
              /\ worker = "exited"
              /\ \A o \in Ops : ~Unfinished(o)
              /\ \A s \in Scopes : scope[s].made => scope[s].closed

\* No wake-up, slot or end is lost: every accepted operation returns, whether it is
\* left alone, replaced by a later one of its scope or cancelled, and the end of the
\* application drains the runner to the last one.
RunnerDrains == OperationsReturn /\ ShutdownCompletes
=============================================================================
