----------------------------- MODULE TaskScopes -----------------------------
(***************************************************************************)
(* What the task runner of the desktop application looks like to the GUI   *)
(* thread, as operators on one record.  TaskRunner models how it works;    *)
(* here an operation is accepted, replaced, cancelled and answered in one  *)
(* step each.  fields:                                                     *)
(*   scope   the Snapshot of each scope and what its operation was asked   *)
(*   inbox   the callbacks handed to fyne.Do and not yet run, in order     *)
(*   worker  the mutations accepted and not yet finished                   *)
(*   closed  Runner.Close was called                                       *)
(* A callback whose revision is no longer current does nothing when it     *)
(* runs (Scope.deliver), so it is taken out when the revision changes.     *)
(***************************************************************************)
EXTENDS Subsequences, Naturals, Sequences

CONSTANT None

Unused == [op |-> 0, state |-> "idle", arg |-> None, value |-> None]
NewRunner(names) == [scope |-> [s \in names |-> Unused], inbox |-> <<>>,
                     worker |-> <<>>, closed |-> FALSE]

\* A callback: the current snapshot of a scope, or one progress event.
Notice(s) == [about |-> s, op |-> 0]
Progress(op) == [about |-> "progress", op |-> op]

Loading(t, s) == t.scope[s].state = "loading"
Silenced(t, names) == Kept(t.inbox, {i \in DOMAIN t.inbox : t.inbox[i].about \notin names})

\* startWithPolicy, the exclusive mutations included: they are refused while one
\* of the same scope is loading.
MayStartExclusive(t, s) == ~t.closed /\ ~Loading(t, s)

\* Scope.StartRead
Started(t, s, arg) ==
  [t EXCEPT !.scope[s] = [op |-> t.scope[s].op + 1, state |-> "loading", arg |-> arg,
                          value |-> None],
            !.inbox = Append(Silenced(t, {s}), Notice(s))]

\* Scope.StartMutation
StartedMutation(t, s, arg) ==
  [Started(t, s, arg) EXCEPT
     !.worker = Append(@, [scope |-> s, op |-> t.scope[s].op + 1, arg |-> arg,
                           running |-> FALSE])]

\* Scope.Cancel of several scopes in this order: only what is loading is cancelled.
Cancelled(t, order) ==
  LET hit == Kept(order, {i \in DOMAIN order : Loading(t, order[i])})
      names == {hit[i] : i \in DOMAIN hit}
  IN [t EXCEPT !.scope = [s \in DOMAIN t.scope |->
                            IF s \in names THEN [t.scope[s] EXCEPT !.state = "cancelled"]
                            ELSE t.scope[s]],
               !.inbox = Silenced(t, names) \o [i \in DOMAIN hit |-> Notice(hit[i])]]

\* Scope.Invalidate: a fresh idle generation that nobody is told of.
Invalidated(t, s) ==
  [t EXCEPT !.scope[s] = [Unused EXCEPT !.op = t.scope[s].op + 1],
            !.inbox = Silenced(t, {s})]

\* Scope.finish of the current operation
Finished(t, s, state, value) ==
  [t EXCEPT !.scope[s].state = state, !.scope[s].value = value,
            !.inbox = Append(Silenced(t, {s}), Notice(s))]

\* Runner.Close: what loads is cancelled, and nothing more is delivered.
Closed(t) ==
  [t EXCEPT !.scope = [s \in DOMAIN t.scope |->
                         IF Loading(t, s) THEN [t.scope[s] EXCEPT !.state = "cancelled"]
                         ELSE t.scope[s]],
            !.inbox = Silenced(t, DOMAIN t.scope),
            !.closed = TRUE]

\* The next callback has run.
Delivered(t) == [t EXCEPT !.inbox = Tail(@)]

\* The mutation w of the worker still is its scope's operation.
Current(t, w) == Loading(t, w.scope) /\ t.scope[w.scope].op = w.op

\* The worker's first mutation is left: its answer counts only while it is current.
Answered(t, state, value) ==
  LET w == Head(t.worker)
      u == [t EXCEPT !.worker = Tail(@)]
  IN IF Current(t, w) THEN Finished(u, w.scope, state, value) ELSE u
=============================================================================
