-------------------------- MODULE TaskRunner_proofs --------------------------
(***************************************************************************)
(* Proofs about TaskRunner for every set of scopes, observers and threads, *)
(* every read limit and every bound on the operation IDs.                  *)
(***************************************************************************)
EXTENDS TaskRunner, FiniteSetTheorems, TLAPS

USE ThreadsAssumption, UsesAssumption, ObserversAssumption, ShutdownsAssumption,
    ReadsAssumption, BoundAssumption

-----------------------------------------------------------------------------
(* Types.                                                                  *)

\* A snapshot of a scope is a message.
LEMMA SnapshotType ==
  ASSUME NEW s \in Scopes, NEW sc \in ScopeStates
  PROVE  Snapshot(s, sc) \in Msg
BY DEF Snapshot, Msg, ScopeStates

\* A scope that has a cancel function is loading its latest operation, and is
\* open; the operation it shows was one of its own.
ScopeConsistent(s) ==
  /\ scope[s].id <= scope[s].nextID
  /\ scope[s].live <=> scope[s].state = "loading"
  /\ scope[s].live => /\ scope[s].id = scope[s].nextID
                      /\ scope[s].id # 0
                      /\ ~scope[s].closed

ScopesConsistent == \A s \in Scopes : ScopeConsistent(s)

Types == TypeOK /\ ScopesConsistent

\* What the cancel function of a scope cancels is one of its operations.
LEMMA CancelCurrentType ==
  ASSUME Types, NEW s \in Scopes
  PROVE  CancelCurrent(s) \in SUBSET Ops
BY DEF Types, TypeOK, ScopeStates, ScopesConsistent, ScopeConsistent, CancelCurrent, Ops

\* The types hold initially.
LEMMA InitTypes == Init => Types
<1> SUFFICES ASSUME Init PROVE Types OBVIOUS
<1> USE DEF Init
<1>1. mutationQueue \in Seq(Ops) /\ accepted \in Seq(Ops) OBVIOUS
<1>2. scope \in [Scopes -> ScopeStates]
  <2>1. NewScopeState \in ScopeStates BY DEF NewScopeState, ScopeStates, Kinds, States
  <2> QED BY <2>1
<1>3. phase \in [Ops -> Phases] /\ kind \in [Ops -> Kinds] BY DEF Phases, Kinds
<1>4. call \in [Threads -> CallStates] BY DEF CallStates, Idle
<1>5. observed \in [Scopes -> Msg] BY DEF Msg, States
<1>6. TypeOK BY <1>1, <1>2, <1>3, <1>4, <1>5 DEF TypeOK
<1>7. ScopesConsistent BY DEF ScopesConsistent, ScopeConsistent, NewScopeState
<1> QED BY <1>6, <1>7 DEF Types

\* A change of one scope to a consistent state keeps all scopes consistent.
LEMMA OneScope ==
  ASSUME Types, NEW s \in Scopes, NEW sc \in ScopeStates,
         scope' = [scope EXCEPT ![s] = sc],
         sc.id <= sc.nextID,
         sc.live <=> sc.state = "loading",
         sc.live => sc.id = sc.nextID /\ sc.id # 0 /\ ~sc.closed
  PROVE  scope' \in [Scopes -> ScopeStates] /\ ScopesConsistent'
<1>1. scope' \in [Scopes -> ScopeStates] BY DEF Types, TypeOK
<1>2. ASSUME NEW r \in Scopes PROVE ScopeConsistent(r)'
  <2>1. CASE r = s BY <2>1 DEF ScopeConsistent, Types, TypeOK
  <2>2. CASE r # s BY <2>2 DEF ScopeConsistent, ScopesConsistent, Types, TypeOK
  <2> QED BY <2>1, <2>2
<1> QED BY <1>1, <1>2 DEF ScopesConsistent

\* The fields that startWithPolicy writes.
LEMMA StartedType ==
  ASSUME Types, NEW s \in Scopes, NEW k \in Kinds, scope[s].nextID < MaxID
  PROVE  /\ Started(s, k) \in ScopeStates
         /\ Started(s, k).nextID = scope[s].nextID + 1
         /\ Started(s, k).id = scope[s].nextID + 1
         /\ Started(s, k).state = "loading"
         /\ Started(s, k).live
         /\ Started(s, k).closed = scope[s].closed
<1> DEFINE old == scope[s]
<1>1. old \in ScopeStates BY DEF Types, TypeOK
<1>2. old.nextID < MaxID OBVIOUS
<1>3. Started(s, k) = [old EXCEPT !.nextID = @ + 1, !.revision = @ + 1, !.id = old.nextID + 1,
                                 !.kind = k, !.state = "loading", !.live = TRUE]
  BY DEF Started
<1> HIDE DEF old
<1>4. /\ old.nextID + 1 \in 0 .. MaxID
      /\ old.revision + 1 \in Nat
      /\ "loading" \in States
  BY <1>1, <1>2 DEF ScopeStates, States
<1>5. Started(s, k) \in ScopeStates BY <1>1, <1>3, <1>4, ZenonT(30) DEF ScopeStates
<1>6. /\ Started(s, k).nextID = old.nextID + 1
      /\ Started(s, k).id = old.nextID + 1
      /\ Started(s, k).state = "loading"
      /\ Started(s, k).live
      /\ Started(s, k).closed = old.closed
  BY <1>1, <1>3 DEF ScopeStates
<1> QED BY <1>5, <1>6 DEF old

\* Shut leaves types and consistency alone.
LEMMA ShutTypes ==
  ASSUME Types, NEW s \in Scopes, Shut(s)
  PROVE  /\ scope' \in [Scopes -> ScopeStates]
         /\ cancelled' \in SUBSET Ops
         /\ ScopesConsistent'
<1>1. CASE scope[s].closed
  BY <1>1 DEF Shut, Types, TypeOK, ScopesConsistent, ScopeConsistent
<1>2. CASE ~scope[s].closed
  <2>1. cancelled' = cancelled \cup CancelCurrent(s) /\ scope' = [scope EXCEPT ![s] = Closed(s)]
    BY <1>2 DEF Shut
  <2>2. scope[s] \in ScopeStates /\ scope[s].id <= scope[s].nextID
    BY DEF Types, TypeOK, ScopesConsistent, ScopeConsistent
  <2>3. Closed(s) \in ScopeStates /\ Closed(s).id <= Closed(s).nextID /\ ~Closed(s).live
          /\ Closed(s).state # "loading"
    <3>1. CASE scope[s].state = "loading"
      <4>1. Closed(s) = [scope[s] EXCEPT !.closed = TRUE, !.live = FALSE,
                                         !.revision = @ + 1, !.state = "cancelled"]
        BY <3>1 DEF Closed
      <4>2. scope[s].revision + 1 \in Nat /\ "cancelled" \in States
        BY <2>2 DEF ScopeStates, States
      <4>3. Closed(s) \in ScopeStates BY <4>1, <4>2, <2>2 DEF ScopeStates
      <4>4. /\ Closed(s).id = scope[s].id
            /\ Closed(s).nextID = scope[s].nextID
            /\ ~Closed(s).live
            /\ Closed(s).state = "cancelled"
        BY <4>1, <2>2 DEF ScopeStates
      <4> QED BY <4>3, <4>4, <2>2
    <3>2. CASE scope[s].state # "loading"
      <4>1. Closed(s) = [scope[s] EXCEPT !.closed = TRUE, !.live = FALSE] BY <3>2 DEF Closed
      <4> QED BY <4>1, <3>2, <2>2 DEF ScopeStates, States
    <3> QED BY <3>1, <3>2
  <2>4. scope' \in [Scopes -> ScopeStates] /\ ScopesConsistent'
    BY <2>1, <2>3, OneScope
  <2> QED BY <2>1, <2>4, CancelCurrentType DEF Types, TypeOK
<1> QED BY <1>1, <1>2

\* The pieces of a call state have its type.
LEMMA CallTypes ==
  /\ Idle \in CallStates
  /\ \A m \in Msg : Deliver(m) \in CallStates /\ Open(m) \in CallStates
  /\ \A c \in CallStates :
       /\ c.at \in {"deliver", "open", "check", "observe"} =>
            c.msg \in Msg /\ [at |-> "observe", msg |-> c.msg] \in CallStates
       /\ c.at = "closing" =>
            /\ c.rest \in SUBSET Scopes
            /\ \A s : [c EXCEPT !.rest = c.rest \ {s}] \in CallStates
BY DEF CallStates, Idle, Deliver, Open

\* The fields of a scope after Cancel, Invalidate, a rejected Start, NewScope.
LEMMA UpdateTypes ==
  ASSUME Types, NEW s \in Scopes, NEW t \in States, NEW k \in Kinds, NEW n \in 0 .. MaxID
  PROVE  /\ [scope[s] EXCEPT !.made = TRUE] \in ScopeStates
         /\ [scope[s] EXCEPT !.live = FALSE, !.revision = @ + 1, !.state = t] \in ScopeStates
         /\ [scope[s] EXCEPT !.live = FALSE, !.revision = @ + 1, !.nextID = n, !.id = n,
                             !.kind = k, !.state = t] \in ScopeStates
<1> DEFINE old == scope[s]
<1>1. old \in ScopeStates BY DEF Types, TypeOK
<1> HIDE DEF old
<1>2. old.revision + 1 \in Nat BY <1>1 DEF ScopeStates
<1>3. [old EXCEPT !.made = TRUE] \in ScopeStates BY <1>1 DEF ScopeStates
<1>4. [old EXCEPT !.live = FALSE, !.revision = @ + 1, !.state = t] \in ScopeStates
  BY <1>1, <1>2 DEF ScopeStates
<1>5. [old EXCEPT !.live = FALSE, !.revision = @ + 1, !.nextID = n, !.id = n, !.kind = k,
                  !.state = t] \in ScopeStates
  BY <1>1, <1>2 DEF ScopeStates
<1> QED BY <1>3, <1>4, <1>5 DEF old

\* The exported calls keep the types.
LEMMA CallStepTypes ==
  ASSUME Types, NEW t \in Threads, CallStep(t)
  PROVE  Types'
<1> USE DEF Types, runnerVars, workerVars
<1>1. PICK s \in Scopes :
        \/ NewScope(t, s)
        \/ \E k \in Kinds \cap Uses[s] : Start(t, s, k) \/ StartRejected(t, s, k)
        \/ Cancel(t, s)
        \/ Invalidate(t, s)
        \/ CloseScope(t, s)
  BY DEF CallStep
<1>a. scope[s] \in ScopeStates /\ ScopeConsistent(s) BY DEF TypeOK, ScopesConsistent
<1>b. CancelCurrent(s) \in SUBSET Ops BY CancelCurrentType
<1>2. CASE NewScope(t, s)
  <2> DEFINE sc == [scope[s] EXCEPT !.made = TRUE]
  <2>1. scope' = [scope EXCEPT ![s] = sc] BY <1>2 DEF NewScope
  <2>2. sc \in ScopeStates
    <3>1. "idle" \in States /\ "read" \in Kinds /\ 0 \in 0 .. MaxID BY DEF States, Kinds
    <3> QED BY <3>1, UpdateTypes
  <2>3. /\ sc.id = scope[s].id /\ sc.nextID = scope[s].nextID /\ sc.live = scope[s].live
        /\ sc.state = scope[s].state /\ sc.closed = scope[s].closed
    BY <1>a DEF ScopeStates
  <2> HIDE DEF sc
  <2>4. scope' \in [Scopes -> ScopeStates] /\ ScopesConsistent'
    BY <2>1, <2>2, <2>3, <1>a, OneScope DEF ScopeConsistent
  <2>5. Snapshot(s, scope'[s]) \in Msg BY <2>4, SnapshotType
  <2>6. call' \in [Threads -> CallStates] BY <1>2, <2>5, CallTypes DEF NewScope, TypeOK
  <2>7. registered' \in SUBSET Scopes BY <1>2 DEF NewScope, TypeOK
  <2> QED BY <1>2, <2>4, <2>6, <2>7 DEF NewScope, TypeOK
<1>3. ASSUME NEW k \in Kinds, Start(t, s, k) PROVE Types'
  <2> DEFINE o == <<s, scope[s].nextID + 1>>
  <2>1. /\ scope[s].nextID < MaxID /\ ~scope[s].closed
        /\ scope' = [scope EXCEPT ![s] = Started(s, k)]
    BY <1>3 DEF Start, MayStart
  <2>2. scope' \in [Scopes -> ScopeStates] /\ ScopesConsistent'
    <3>1. scope[s].nextID \in 0 .. MaxID BY <1>a DEF ScopeStates
    <3>2. /\ Started(s, k) \in ScopeStates
          /\ Started(s, k).id = Started(s, k).nextID /\ Started(s, k).id # 0
          /\ Started(s, k).live /\ Started(s, k).state = "loading" /\ ~Started(s, k).closed
      BY <2>1, <3>1, StartedType
    <3>3. Started(s, k).id <= Started(s, k).nextID BY <3>2 DEF ScopeStates
    <3> QED BY <2>1, <3>2, <3>3, OneScope
  <2>3. o \in Ops BY <1>a, <2>1 DEF Ops, ScopeStates
  <2>4. Snapshot(s, scope'[s]) \in Msg BY <2>2, SnapshotType
  <2>5. call' \in [Threads -> CallStates] BY <1>3, <2>4, CallTypes DEF Start, TypeOK
  <2>6. phase' \in [Ops -> Phases] /\ kind' \in [Ops -> Kinds]
    BY <1>3, <2>3 DEF Start, TypeOK, Phases
  <2>7. cancelled' \in SUBSET Ops BY <1>3, <1>b DEF Start, TypeOK
  <2>8. mutationQueue' \in Seq(Ops) /\ mutationReady' \in BOOLEAN /\ accepted' \in Seq(Ops)
    <3>1. CASE Mutating(k)
      <4>1. /\ mutationQueue' = Append(mutationQueue, o) /\ mutationReady' = TRUE
            /\ accepted' = Append(accepted, o)
        BY <1>3, <3>1 DEF Start
      <4> HIDE DEF o
      <4> QED BY <4>1, <2>3 DEF TypeOK
    <3>2. CASE ~Mutating(k) BY <1>3, <3>2 DEF Start, TypeOK
    <3> QED BY <3>1, <3>2
  <2> QED BY <1>3, <2>2, <2>5, <2>6, <2>7, <2>8 DEF Start, TypeOK
<1>4. ASSUME NEW k \in Kinds, StartRejected(t, s, k) PROVE Types'
  <2> DEFINE sc == Rejected(s, k)
             st == Started(s, k)
  <2>1. scope[s].nextID < MaxID /\ scope' = [scope EXCEPT ![s] = sc]
    BY <1>4 DEF StartRejected, MayStart
  <2>2. /\ st \in ScopeStates
        /\ st.id = st.nextID
    BY <2>1, StartedType
  <2>3. sc = [st EXCEPT !.revision = @ + 1, !.state = "cancelled", !.live = FALSE,
                        !.closed = TRUE]
    BY DEF Rejected
  <2> HIDE DEF sc, st
  <2>4. st.revision + 1 \in Nat /\ "cancelled" \in States BY <2>2 DEF ScopeStates, States
  <2>5. sc \in ScopeStates BY <2>2, <2>3, <2>4 DEF ScopeStates
  <2>6. sc.id = sc.nextID /\ ~sc.live /\ sc.state # "loading" BY <2>2, <2>3 DEF ScopeStates
  <2>7. scope' \in [Scopes -> ScopeStates] /\ ScopesConsistent'
    <3>1. sc.id <= sc.nextID BY <2>5, <2>6 DEF ScopeStates
    <3> QED BY <2>1, <2>5, <2>6, <3>1, OneScope
  <2>8. <<s, scope[s].nextID + 1>> \in Ops BY <1>a, <2>1 DEF Ops, ScopeStates
  <2>9. cancelled' \in SUBSET Ops BY <1>4, <1>b, <2>8 DEF StartRejected, TypeOK
  <2> QED BY <1>4, <2>7, <2>9 DEF StartRejected, TypeOK
<1>5. CASE Cancel(t, s)
  <2> DEFINE sc == Cancelled(s)
  <2>1. scope' = [scope EXCEPT ![s] = sc] BY <1>5 DEF Cancel
  <2>2. sc \in ScopeStates
    <3>1. "cancelled" \in States /\ "read" \in Kinds /\ 0 \in 0 .. MaxID
      BY DEF States, Kinds
    <3> QED BY <3>1, UpdateTypes DEF Cancelled
  <2>3. sc.id = scope[s].id /\ sc.nextID = scope[s].nextID /\ ~sc.live /\ sc.state # "loading"
    BY <1>a DEF ScopeStates, Cancelled
  <2> HIDE DEF sc
  <2>4. scope' \in [Scopes -> ScopeStates] /\ ScopesConsistent'
    BY <2>1, <2>2, <2>3, <1>a, OneScope DEF ScopeConsistent
  <2>5. Snapshot(s, scope'[s]) \in Msg BY <2>4, SnapshotType
  <2>6. call' \in [Threads -> CallStates] BY <1>5, <2>5, CallTypes DEF Cancel, TypeOK
  <2>7. cancelled' \in SUBSET Ops BY <1>5, <1>b DEF Cancel, TypeOK
  <2> QED BY <1>5, <2>4, <2>6, <2>7 DEF Cancel, TypeOK
<1>6. CASE Invalidate(t, s)
  <2> DEFINE n == scope[s].nextID + 1
             sc == Fresh(s)
  <2>1. scope' = [scope EXCEPT ![s] = sc] /\ scope[s].nextID < MaxID BY <1>6 DEF Invalidate
  <2>2. sc \in ScopeStates
    <3>1. "idle" \in States /\ "read" \in Kinds BY DEF States, Kinds
    <3>2. n \in 0 .. MaxID BY <1>a, <2>1 DEF ScopeStates
    <3>3. sc = [scope[s] EXCEPT !.live = FALSE, !.revision = @ + 1, !.nextID = n, !.id = n,
                                !.kind = "read", !.state = "idle"]
      BY DEF Fresh
    <3> HIDE DEF n, sc
    <3> QED BY <3>1, <3>2, <3>3, UpdateTypes
  <2>3. sc.id = n /\ sc.nextID = n /\ ~sc.live /\ sc.state # "loading"
    BY <1>a DEF ScopeStates, Fresh
  <2>a. n <= n BY <1>a DEF ScopeStates
  <2> HIDE DEF sc, n
  <2>4. scope' \in [Scopes -> ScopeStates] /\ ScopesConsistent'
    BY <2>1, <2>2, <2>3, <2>a, OneScope
  <2>7. cancelled' \in SUBSET Ops BY <1>6, <1>b DEF Invalidate, TypeOK
  <2> QED BY <1>6, <2>4, <2>7 DEF Invalidate, TypeOK
<1>7. CASE CloseScope(t, s)
  <2>1. /\ scope' \in [Scopes -> ScopeStates] /\ cancelled' \in SUBSET Ops /\ ScopesConsistent'
    BY <1>7, ShutTypes DEF CloseScope
  <2> QED BY <1>7, <2>1 DEF CloseScope, TypeOK
<1> QED BY <1>1, <1>2, <1>3, <1>4, <1>5, <1>6, <1>7

\* So does every step that is not an exported call of a scope.
LEMMA OpStepTypes ==
  ASSUME Types, NEW o \in Ops, OpStep(o)
  PROVE  Types'
<1> USE DEF Types, runnerVars, workerVars
<1>1. CASE AcquireSlot(o)
  BY <1>1 DEF AcquireSlot, TypeOK, Phases, ScopesConsistent, ScopeConsistent
<1>2. CASE SkipSlot(o)
  BY <1>2 DEF SkipSlot, TypeOK, Phases, ScopesConsistent, ScopeConsistent
<1>3. CASE Begin(o)
  BY <1>3 DEF Begin, TypeOK, Phases, ScopesConsistent, ScopeConsistent
<1>a. ASSUME Release(o)
      PROVE  /\ phase' \in [Ops -> Phases]
             /\ slots' \in SUBSET Ops
             /\ worker' \in {"waiting", "draining", "busy", "exited"}
  BY <1>a DEF Release, TypeOK, Phases
<1>4. ASSUME NEW r \in Outcomes, Commit(o, r) PROVE Types'
  <2> DEFINE s == o[1]
             sc == Finished(o, r)
  <2>1. s \in Scopes /\ scope[s] \in ScopeStates /\ ScopeConsistent(s)
    BY DEF Ops, TypeOK, ScopesConsistent
  <2>2. FinalState(o, r) \in {"cancelled", "error", "success"}
    BY DEF FinalState
  <2>3. sc = [scope[s] EXCEPT !.live = FALSE, !.revision = @ + 1, !.state = FinalState(o, r)]
    BY DEF Finished
  <2>4. sc \in ScopeStates
    <3>1. FinalState(o, r) \in States /\ "read" \in Kinds /\ 0 \in 0 .. MaxID
      BY <2>2 DEF States, Kinds
    <3> HIDE DEF sc
    <3> QED BY <2>1, <2>3, <3>1, UpdateTypes
  <2>5. sc.id = scope[s].id /\ sc.nextID = scope[s].nextID /\ ~sc.live /\ sc.state # "loading"
    BY <2>1, <2>2, <2>3 DEF ScopeStates
  <2>6. scope' = [scope EXCEPT ![s] = sc] BY <1>4 DEF Commit
  <2> HIDE DEF sc
  <2>7. scope' \in [Scopes -> ScopeStates] /\ ScopesConsistent'
    BY <2>1, <2>4, <2>5, <2>6, OneScope DEF ScopeConsistent
  <2>8. Snapshot(s, scope'[s]) \in Msg BY <2>1, <2>7, SnapshotType
  <2>9. sending' \in SUBSET Msg BY <1>4, <2>8 DEF Commit, TypeOK
  <2>10. cancelled' \in SUBSET Ops BY <1>4, <2>1, CancelCurrentType DEF Commit, TypeOK
  <2>11. phase' \in [Ops -> Phases] BY <1>4 DEF Commit, TypeOK, Phases
  <2> QED BY <1>4, <2>7, <2>9, <2>10, <2>11 DEF Commit, TypeOK
<1>5. CASE Ignore(o)
  BY <1>5, <1>a DEF Ignore, TypeOK, ScopesConsistent, ScopeConsistent
<1>6. CASE Publish(o)
  <2>1. PICK m \in sending : sending' = sending \ {m} /\ callbacks' = callbacks \cup Closure(m)
    BY <1>6 DEF Publish
  <2>2. sending' \in SUBSET Msg /\ callbacks' \in SUBSET Msg
    BY <2>1 DEF TypeOK, Closure
  <2>3. Release(o) BY <1>6 DEF Publish
  <2> QED BY <1>6, <1>a, <2>2, <2>3 DEF Publish, TypeOK, ScopesConsistent, ScopeConsistent
<1> QED BY <1>1, <1>2, <1>3, <1>4, <1>5, <1>6 DEF OpStep

\* Every step keeps the types.
LEMMA NextTypes == Types /\ [Next]_vars => Types'
<1> SUFFICES ASSUME Types, [Next]_vars PROVE Types' OBVIOUS
<1> USE DEF runnerVars, workerVars
<1>1. ASSUME NEW t \in Callers, CallStep(t) PROVE Types'
  BY <1>1, CallStepTypes DEF Threads
<1>2. ASSUME NEW t \in Threads, CloseRunner(t) PROVE Types'
  <2>1. [at |-> "closing", rest |-> registered] \in CallStates
    BY DEF Types, TypeOK, CallStates
  <2> QED BY <1>2, <2>1 DEF CloseRunner, Types, TypeOK, ScopesConsistent, ScopeConsistent
<1>3. ASSUME NEW t \in Threads, Dispatch(t) PROVE Types'
  <2>1. call[t].msg \in Msg BY <1>3, CallTypes DEF Dispatch, Types, TypeOK
  <2>2. callbacks' \in SUBSET Msg BY <1>3, <2>1 DEF Dispatch, Closure, Types, TypeOK
  <2>3. call' \in [Threads -> CallStates] BY <1>3, CallTypes DEF Dispatch, Types, TypeOK
  <2> QED BY <1>3, <2>2, <2>3 DEF Dispatch, Types, TypeOK, ScopesConsistent, ScopeConsistent
<1>4. ASSUME NEW t \in Threads, NEW s \in Scopes, RunnerClosed(t, s) PROVE Types'
  <2>1. /\ scope' \in [Scopes -> ScopeStates] /\ cancelled' \in SUBSET Ops /\ ScopesConsistent'
    BY <1>4, ShutTypes DEF RunnerClosed
  <2>2. call' \in [Threads -> CallStates]
    <3>1. [call[t] EXCEPT !.rest = call[t].rest \ {s}] \in CallStates
      BY <1>4, CallTypes DEF RunnerClosed, Types, TypeOK
    <3>2. call' = [call EXCEPT ![t] = [call[t] EXCEPT !.rest = call[t].rest \ {s}]]
      BY <1>4 DEF RunnerClosed
    <3> QED BY <3>1, <3>2 DEF Types, TypeOK
  <2> QED BY <1>4, <2>1, <2>2 DEF RunnerClosed, Types, TypeOK
<1>5. ASSUME NEW t \in Threads, CloseSignals(t) PROVE Types'
  <2>1. call' \in [Threads -> CallStates] BY <1>5, CallTypes DEF CloseSignals, Types, TypeOK
  <2> QED BY <1>5, <2>1 DEF CloseSignals, Types, TypeOK, ScopesConsistent, ScopeConsistent
<1>6. CASE ParentCancel
  BY <1>6 DEF ParentCancel, Types, TypeOK, ScopesConsistent, ScopeConsistent
<1>7. CASE WorkerWakes
  BY <1>7 DEF WorkerWakes, Types, TypeOK, ScopesConsistent, ScopeConsistent
<1>8. CASE WorkerTakes
  <2>1. Head(mutationQueue) \in Ops /\ Tail(mutationQueue) \in Seq(Ops)
    BY <1>8 DEF WorkerTakes, Types, TypeOK
  <2>2. phase' \in [Ops -> Phases] /\ mutationQueue' \in Seq(Ops)
    BY <1>8, <2>1 DEF WorkerTakes, Types, TypeOK, Phases
  <2> QED BY <1>8, <2>2 DEF WorkerTakes, Types, TypeOK, ScopesConsistent, ScopeConsistent
<1>9. CASE WorkerDrained
  BY <1>9 DEF WorkerDrained, Types, TypeOK, ScopesConsistent, ScopeConsistent
<1>10. ASSUME NEW o \in Ops, OpStep(o) PROVE Types'
  BY <1>10, OpStepTypes
<1>11. ASSUME NEW m \in callbacks, RunCallback(m) PROVE Types'
  <2>1. m \in Msg BY DEF Types, TypeOK
  <2>2. [at |-> "check", msg |-> m] \in CallStates /\ Idle \in CallStates
    BY <2>1, CallTypes DEF CallStates
  <2>3. call' \in [Threads -> CallStates]
    BY <1>11, <2>2 DEF RunCallback, Types, TypeOK
  <2> QED BY <1>11, <2>3 DEF RunCallback, Types, TypeOK, ScopesConsistent, ScopeConsistent
<1>12. CASE CheckRevision
  <2>1. [at |-> "observe", msg |-> call[GUI].msg] \in CallStates /\ Idle \in CallStates
    BY <1>12, CallTypes DEF CheckRevision, Threads, Types, TypeOK
  <2>2. \/ call' = [call EXCEPT ![GUI] = [at |-> "observe", msg |-> call[GUI].msg]]
        \/ call' = [call EXCEPT ![GUI] = Idle]
    BY <1>12 DEF CheckRevision
  <2>3. call' \in [Threads -> CallStates] BY <2>1, <2>2 DEF Types, TypeOK
  <2> QED BY <1>12, <2>3 DEF CheckRevision, Types, TypeOK, ScopesConsistent, ScopeConsistent
<1>13. CASE Observe
  <2>1. call[GUI].msg \in Msg /\ Idle \in CallStates
    BY <1>13, CallTypes DEF Observe, Threads, Types, TypeOK
  <2>2. observed' \in [Scopes -> Msg] BY <1>13, <2>1 DEF Observe, Types, TypeOK
  <2>3. call' \in [Threads -> CallStates] BY <1>13, <2>1 DEF Observe, Types, TypeOK
  <2> QED BY <1>13, <2>2, <2>3 DEF Observe, Types, TypeOK, ScopesConsistent, ScopeConsistent
<1>14. CASE UNCHANGED vars
  BY <1>14 DEF vars, Types, TypeOK, ScopesConsistent, ScopeConsistent
<1> QED BY <1>1, <1>2, <1>3, <1>4, <1>5, <1>6, <1>7, <1>8, <1>9, <1>10, <1>11, <1>12,
           <1>13, <1>14
        DEF Next, ThreadStep, WorkerStep, GuiStep, Terminated, Threads

\* In every behaviour every variable has its type (the fields of Runner, Scope
\* and Snapshot).
THEOREM TypeCorrect == Spec => []TypeOK
<1>1. Types => TypeOK BY DEF Types
<1> QED BY <1>1, InitTypes, NextTypes, PTL DEF Spec

-----------------------------------------------------------------------------
(* The inductive invariant.                                                *)

\* Closing the runner cancels its context in the same critical section.
ClosedCancels == closed => rootDone

\* An operation whose ID was not given out yet has not begun.
FreshOps == \A o \in Ops : o[2] > scope[o[1]].nextID => phase[o] = "none"

\* The mutation queue holds mutations that wait, each of them once.
QueueWaits ==
  \A i \in 1 .. Len(mutationQueue) :
    /\ phase[mutationQueue[i]] = "queued"
    /\ Mutating(kind[mutationQueue[i]])
    /\ \A j \in 1 .. i - 1 : mutationQueue[j] # mutationQueue[i]

\* A read that executes, or will, holds a token of readSlots.
HoldsSlot(o) ==
  ~Mutating(kind[o]) /\ (phase[o] = "running" \/ (phase[o] = "gate" /\ ~CtxDone(o)))
    => o \in slots
SlotHolders == \A o \in Ops : HoldsSlot(o)

\* There are MaxReads tokens.
SlotsBound == IsFiniteSet(slots) /\ Cardinality(slots) <= MaxReads

IInv == /\ Types
        /\ ClosedCancels
        /\ FreshOps
        /\ QueueWaits
        /\ SlotHolders
        /\ SlotsBound
        /\ OneLiveOperation

\* The variables the invariant is about.
coreVars == <<closed, rootDone, mutationQueue, slots, scope, phase, kind, cancelled>>

\* Every step changes them in one of these ways.
LEMMA CoreSteps ==
  ASSUME [Next]_vars
  PROVE  \/ UNCHANGED coreVars
         \/ \E t \in Threads, s \in Scopes : NewScope(t, s)
         \/ \E t \in Threads, s \in Scopes, k \in Kinds : Start(t, s, k)
         \/ \E t \in Threads, s \in Scopes, k \in Kinds : StartRejected(t, s, k)
         \/ \E t \in Threads, s \in Scopes : Cancel(t, s)
         \/ \E t \in Threads, s \in Scopes : Invalidate(t, s)
         \/ \E s \in Scopes :
              Shut(s) /\ UNCHANGED <<closed, rootDone, mutationQueue, slots, phase, kind>>
         \/ ParentCancel
         \/ \E t \in Threads : CloseRunner(t)
         \/ WorkerTakes
         \/ \E o \in Ops : AcquireSlot(o) \/ SkipSlot(o) \/ Begin(o)
         \/ \E o \in Ops, r \in Outcomes : Commit(o, r)
         \/ \E o \in Ops :
              /\ phase[o] \in {"gate", "running", "committed"}
              /\ Release(o)
              /\ UNCHANGED <<closed, rootDone, mutationQueue, scope, kind, cancelled>>
<1> USE DEF coreVars, runnerVars, workerVars
<1>1. ASSUME NEW t \in Callers, CallStep(t)
      PROVE  \E s \in Scopes :
               \/ NewScope(t, s)
               \/ \E k \in Kinds : Start(t, s, k) \/ StartRejected(t, s, k)
               \/ Cancel(t, s)
               \/ Invalidate(t, s)
               \/ /\ Shut(s)
                  /\ UNCHANGED <<closed, rootDone, mutationQueue, slots, phase, kind>>
  BY <1>1 DEF CallStep, CloseScope
<1>2. ASSUME NEW t \in Threads, ThreadStep(t)
      PROVE  \/ UNCHANGED coreVars
             \/ \E s \in Scopes :
                  Shut(s) /\ UNCHANGED <<closed, rootDone, mutationQueue, slots, phase, kind>>
  BY <1>2 DEF ThreadStep, Dispatch, RunnerClosed, CloseSignals
<1>3. ASSUME WorkerStep
      PROVE  UNCHANGED coreVars \/ WorkerTakes
  BY <1>3 DEF WorkerStep, WorkerWakes, WorkerDrained
<1>4. ASSUME NEW o \in Ops, OpStep(o)
      PROVE  \/ AcquireSlot(o) \/ SkipSlot(o) \/ Begin(o)
             \/ \E r \in Outcomes : Commit(o, r)
             \/ /\ phase[o] \in {"gate", "running", "committed"}
                /\ Release(o)
                /\ UNCHANGED <<closed, rootDone, mutationQueue, scope, kind, cancelled>>
  BY <1>4 DEF OpStep, Ignore, Publish, Returns
<1>5. ASSUME GuiStep
      PROVE  UNCHANGED coreVars
  BY <1>5 DEF GuiStep, RunCallback, CheckRevision, Observe
<1>6. ASSUME UNCHANGED vars
      PROVE  UNCHANGED coreVars
  BY <1>6 DEF vars
<1> QED BY <1>1, <1>2, <1>3, <1>4, <1>5, <1>6 DEF Next, Threads, Terminated

\* A context that is done stays done.
LEMMA CtxDoneStays ==
  ASSUME IInv, [Next]_vars, NEW o, CtxDone(o)
  PROVE  CtxDone(o)'
<1> USE DEF CtxDone, runnerVars, workerVars
<1>1. CASE UNCHANGED coreVars BY <1>1 DEF coreVars
<1>2. CASE \E s \in Scopes :
             Shut(s) /\ UNCHANGED <<closed, rootDone, mutationQueue, slots, phase, kind>>
  BY <1>2 DEF Shut
<1>3. CASE \E p \in Ops :
              /\ phase[p] \in {"gate", "running", "committed"}
              /\ Release(p)
              /\ UNCHANGED <<closed, rootDone, mutationQueue, scope, kind, cancelled>>
  BY <1>3
<1> QED BY <1>1, <1>2, <1>3, CoreSteps
        DEF NewScope, Start, StartRejected, Cancel, Invalidate, ParentCancel,
            CloseRunner, WorkerTakes, AcquireSlot, SkipSlot, Begin, Commit

\* The invariant holds initially.
LEMMA InitIInv == Init => IInv
<1> SUFFICES ASSUME Init PROVE IInv OBVIOUS
<1>1. Types BY InitTypes
<1>2. ClosedCancels BY DEF Init, ClosedCancels
<1>3. FreshOps BY DEF Init, FreshOps
<1>4. QueueWaits BY DEF Init, QueueWaits
<1>5. SlotHolders BY DEF Init, SlotHolders, HoldsSlot
<1>6. SlotsBound BY FS_EmptySet DEF Init, SlotsBound
<1>7. OneLiveOperation BY DEF Init, OneLiveOperation, Active
<1> QED BY <1>1, <1>2, <1>3, <1>4, <1>5, <1>6, <1>7 DEF IInv

\* Runner.Close cancels the context in the step that closes; nothing revives either.
LEMMA ClosedCancelsStays == IInv /\ [Next]_vars => ClosedCancels'
<1> SUFFICES ASSUME IInv, [Next]_vars PROVE ClosedCancels' OBVIOUS
<1> USE DEF IInv, ClosedCancels, runnerVars, workerVars
<1>1. CASE UNCHANGED coreVars BY <1>1 DEF coreVars
<1> QED BY <1>1, CoreSteps
        DEF NewScope, Start, StartRejected, Cancel, Invalidate, ParentCancel,
            CloseRunner, WorkerTakes, AcquireSlot, SkipSlot, Begin, Commit

\* The IDs of a scope only grow.
LEMMA NextIDs ==
  ASSUME IInv, [Next]_vars, NEW s \in Scopes
  PROVE  scope'[s].nextID >= scope[s].nextID
<1> USE DEF runnerVars, workerVars
<1>0. /\ scope \in [Scopes -> ScopeStates]
      /\ scope' \in [Scopes -> ScopeStates]
      /\ \A r \in Scopes : scope[r].nextID \in Nat
  BY NextTypes, SMTT(20) DEF IInv, Types, TypeOK, ScopeStates
<1>1. ASSUME UNCHANGED scope PROVE scope'[s].nextID >= scope[s].nextID
  BY <1>0, <1>1
<1>2. ASSUME NEW r \in Scopes, NEW sc \in ScopeStates, scope' = [scope EXCEPT ![r] = sc],
             sc.nextID >= scope[r].nextID
      PROVE  scope'[s].nextID >= scope[s].nextID
  BY <1>0, <1>2
<1>3. ASSUME NEW t \in Threads, NEW r \in Scopes, NewScope(t, r)
      PROVE  scope'[s].nextID >= scope[s].nextID
  <2>1. scope' = [scope EXCEPT ![r] = [scope[r] EXCEPT !.made = TRUE]] BY <1>3 DEF NewScope
  <2> QED BY <2>1, <1>0 DEF ScopeStates
<1>4. ASSUME NEW t \in Threads, NEW r \in Scopes, NEW k \in Kinds,
             Start(t, r, k) \/ StartRejected(t, r, k)
      PROVE  scope'[s].nextID >= scope[s].nextID
  <2>1. scope[r].nextID < MaxID BY <1>4 DEF Start, StartRejected, MayStart
  <2>2. Started(r, k) \in ScopeStates /\ Started(r, k).nextID = scope[r].nextID + 1
    BY <2>1, StartedType DEF IInv
  <2>3. Rejected(r, k).nextID = Started(r, k).nextID BY <2>2 DEF Rejected, ScopeStates
  <2>4. scope' = [scope EXCEPT ![r] = Started(r, k)] \/ scope' = [scope EXCEPT ![r] = Rejected(r, k)]
    BY <1>4 DEF Start, StartRejected
  <2> QED BY <1>0, <2>2, <2>3, <2>4
<1>5. ASSUME NEW t \in Threads, NEW r \in Scopes, Cancel(t, r) \/ Invalidate(t, r)
      PROVE  scope'[s].nextID >= scope[s].nextID
  <2>1. Cancelled(r).nextID = scope[r].nextID /\ Fresh(r).nextID = scope[r].nextID + 1
    BY <1>0 DEF Cancelled, Fresh, ScopeStates
  <2> QED BY <1>0, <1>5, <2>1 DEF Cancel, Invalidate
<1>6. ASSUME NEW r \in Scopes, Shut(r)
      PROVE  scope'[s].nextID >= scope[s].nextID
  <2>1. Closed(r).nextID = scope[r].nextID BY <1>0 DEF Closed, ScopeStates
  <2> QED BY <1>0, <1>6, <2>1 DEF Shut
<1>7. ASSUME NEW o \in Ops, NEW r \in Outcomes, Commit(o, r)
      PROVE  scope'[s].nextID >= scope[s].nextID
  <2>1. o[1] \in Scopes BY DEF Ops
  <2>2. Finished(o, r).nextID = scope[o[1]].nextID BY <1>0, <2>1 DEF Finished, ScopeStates
  <2> QED BY <1>0, <1>7, <2>1, <2>2 DEF Commit
<1>8. CASE UNCHANGED coreVars BY <1>1, <1>8 DEF coreVars
<1> QED BY <1>1, <1>3, <1>4, <1>5, <1>6, <1>7, <1>8, CoreSteps
        DEF ParentCancel, CloseRunner, WorkerTakes, AcquireSlot, SkipSlot, Begin

\* What a step may do to the phase of an operation.
LEMMA PhaseSteps ==
  ASSUME IInv, [Next]_vars, NEW o \in Ops
  PROVE  \/ phase'[o] = phase[o]
         \/ /\ phase[o] = "none" /\ phase'[o] = "queued" /\ ~closed
            /\ o[2] = scope[o[1]].nextID + 1
            /\ scope'[o[1]].nextID = o[2]
         \/ phase[o] = "queued" /\ phase'[o] = "gate"
         \/ phase[o] = "gate" /\ phase'[o] = "running" /\ ~CtxDone(o)
         \/ phase[o] \in {"gate", "running"} /\ phase'[o] = "committed"
         \/ phase[o] \in {"gate", "running", "committed"} /\ phase'[o] = "done"
<1> USE DEF runnerVars, workerVars
<1>0. phase \in [Ops -> Phases] /\ mutationQueue \in Seq(Ops) /\ scope \in [Scopes -> ScopeStates]
  BY DEF IInv, Types, TypeOK
<1>1. ASSUME NEW t \in Threads, NEW s \in Scopes, NEW k \in Kinds, Start(t, s, k)
      PROVE  \/ phase'[o] = phase[o]
             \/ /\ phase[o] = "none" /\ phase'[o] = "queued" /\ ~closed
                /\ o[2] = scope[o[1]].nextID + 1
                /\ scope'[o[1]].nextID = o[2]
  <2> DEFINE p == <<s, scope[s].nextID + 1>>
  <2>1. scope[s].nextID < MaxID /\ phase' = [phase EXCEPT ![p] = "queued"] /\ ~closed
          /\ scope' = [scope EXCEPT ![s] = Started(s, k)]
    BY <1>1 DEF Start, MayStart
  <2>2. p[2] > scope[p[1]].nextID /\ p[2] = scope[s].nextID + 1 /\ p[1] = s
    BY <1>0 DEF ScopeStates
  <2>3. o = p => phase[o] = "none" BY <2>2 DEF IInv, FreshOps
  <2>4. Started(s, k).nextID = scope[s].nextID + 1 BY <2>1, StartedType DEF IInv
  <2>5. scope'[s].nextID = scope[s].nextID + 1 BY <1>0, <2>1, <2>4
  <2> HIDE DEF p
  <2> QED BY <1>0, <2>1, <2>2, <2>3, <2>5
<1>2. ASSUME WorkerTakes
      PROVE  phase'[o] = phase[o] \/ (phase[o] = "queued" /\ phase'[o] = "gate")
  <2>1. /\ mutationQueue # <<>>
        /\ phase' = [phase EXCEPT ![Head(mutationQueue)] = "gate"]
    BY <1>2 DEF WorkerTakes
  <2>2. 1 \in 1 .. Len(mutationQueue) /\ Head(mutationQueue) = mutationQueue[1]
    BY <1>0, <2>1
  <2>3. phase[Head(mutationQueue)] = "queued" BY <2>2 DEF IInv, QueueWaits
  <2> QED BY <1>0, <2>1, <2>3
<1>3. ASSUME NEW p \in Ops, AcquireSlot(p) \/ SkipSlot(p)
      PROVE  phase'[o] = phase[o] \/ (phase[o] = "queued" /\ phase'[o] = "gate")
  BY <1>0, <1>3 DEF AcquireSlot, SkipSlot
<1>4. ASSUME NEW p \in Ops, Begin(p)
      PROVE  phase'[o] = phase[o] \/ (phase[o] = "gate" /\ phase'[o] = "running" /\ ~CtxDone(o))
  BY <1>0, <1>4 DEF Begin
<1>5. ASSUME NEW p \in Ops, NEW r \in Outcomes, Commit(p, r)
      PROVE  phase'[o] = phase[o] \/ (phase[o] \in {"gate", "running"} /\ phase'[o] = "committed")
  BY <1>0, <1>5 DEF Commit, Returns
<1>6. ASSUME NEW p \in Ops, phase[p] \in {"gate", "running", "committed"}, Release(p)
      PROVE  \/ phase'[o] = phase[o]
             \/ phase[o] \in {"gate", "running", "committed"} /\ phase'[o] = "done"
  BY <1>0, <1>6 DEF Release
<1>7. CASE UNCHANGED coreVars BY <1>7 DEF coreVars
<1> QED BY <1>1, <1>2, <1>3, <1>4, <1>5, <1>6, <1>7, CoreSteps
        DEF NewScope, StartRejected, Cancel, Invalidate, ParentCancel, CloseRunner

\* An operation begins only with the step that gives out its ID.
LEMMA FreshOpsStays == IInv /\ [Next]_vars => FreshOps'
<1> SUFFICES ASSUME IInv, [Next]_vars, NEW o \in Ops, o[2] > scope'[o[1]].nextID
             PROVE  phase'[o] = "none"
  BY DEF FreshOps
<1>1. o[1] \in Scopes /\ o[2] \in Nat BY DEF Ops
<1>2. scope[o[1]].nextID \in Nat /\ scope'[o[1]].nextID \in Nat
  BY <1>1, NextTypes, SMTT(20) DEF IInv, Types, TypeOK, ScopeStates
<1>3. scope'[o[1]].nextID >= scope[o[1]].nextID BY <1>1, NextIDs
<1>4. o[2] > scope[o[1]].nextID BY <1>1, <1>2, <1>3
<1>5. phase[o] = "none" BY <1>4 DEF IInv, FreshOps
<1>6. o[2] # scope'[o[1]].nextID BY <1>1, <1>2
<1> QED BY <1>5, <1>6, PhaseSteps

\* Only accepting an operation gives it a kind.
LEMMA KindSteps ==
  ASSUME IInv, [Next]_vars, NEW o \in Ops
  PROVE  kind'[o] = kind[o] \/ (phase[o] = "none" /\ phase'[o] = "queued")
<1> USE DEF runnerVars, workerVars
<1>0. /\ kind \in [Ops -> Kinds] /\ phase \in [Ops -> Phases]
      /\ \A s \in Scopes : scope[s].nextID \in Nat
  BY DEF IInv, Types, TypeOK, ScopeStates
<1>1. ASSUME NEW t \in Threads, NEW s \in Scopes, NEW k \in Kinds, Start(t, s, k)
      PROVE  kind'[o] = kind[o] \/ (phase[o] = "none" /\ phase'[o] = "queued")
  <2> DEFINE p == <<s, scope[s].nextID + 1>>
  <2>1. phase' = [phase EXCEPT ![p] = "queued"] /\ kind' = [kind EXCEPT ![p] = k]
    BY <1>1 DEF Start
  <2>2. p[2] > scope[p[1]].nextID BY <1>0
  <2>3. o = p => phase[o] = "none" BY <2>2 DEF IInv, FreshOps
  <2> HIDE DEF p
  <2> QED BY <1>0, <2>1, <2>3
<1>2. CASE UNCHANGED kind BY <1>2
<1>3. UNCHANGED coreVars => UNCHANGED kind BY DEF coreVars
<1> QED BY <1>1, <1>2, <1>3, CoreSteps
        DEF NewScope, StartRejected, Cancel, Invalidate, ParentCancel, CloseRunner,
            WorkerTakes, AcquireSlot, SkipSlot, Begin, Commit

\* The mutation queue changes at its two ends only.
LEMMA QueueSteps ==
  ASSUME IInv, [Next]_vars
  PROVE  \/ mutationQueue' = mutationQueue
         \/ \E o \in Ops : /\ mutationQueue' = Append(mutationQueue, o)
                           /\ phase[o] = "none" /\ phase'[o] = "queued"
                           /\ Mutating(kind'[o])
         \/ /\ mutationQueue # <<>>
            /\ mutationQueue' = Tail(mutationQueue)
            /\ phase' = [phase EXCEPT ![Head(mutationQueue)] = "gate"]
<1> USE DEF runnerVars, workerVars
<1>0. /\ kind \in [Ops -> Kinds] /\ phase \in [Ops -> Phases]
      /\ \A s \in Scopes : scope[s].nextID \in 0 .. MaxID
  BY DEF IInv, Types, TypeOK, ScopeStates
<1>1. ASSUME NEW t \in Threads, NEW s \in Scopes, NEW k \in Kinds, Start(t, s, k)
      PROVE  \/ mutationQueue' = mutationQueue
             \/ \E o \in Ops : /\ mutationQueue' = Append(mutationQueue, o)
                               /\ phase[o] = "none" /\ phase'[o] = "queued"
                               /\ Mutating(kind'[o])
  <2> DEFINE p == <<s, scope[s].nextID + 1>>
  <2>1. /\ phase' = [phase EXCEPT ![p] = "queued"] /\ kind' = [kind EXCEPT ![p] = k]
        /\ IF Mutating(k) THEN mutationQueue' = Append(mutationQueue, p)
                          ELSE mutationQueue' = mutationQueue
        /\ scope[s].nextID < MaxID
    BY <1>1 DEF Start, MayStart
  <2>2. p \in Ops BY <1>0, <2>1 DEF Ops
  <2>3. p[2] > scope[p[1]].nextID BY <1>0
  <2>4. phase[p] = "none" BY <2>2, <2>3 DEF IInv, FreshOps
  <2> HIDE DEF p
  <2>5. phase'[p] = "queued" /\ kind'[p] = k BY <1>0, <2>1, <2>2
  <2> QED BY <2>1, <2>2, <2>4, <2>5
<1>2. UNCHANGED coreVars => UNCHANGED mutationQueue BY DEF coreVars
<1> QED BY <1>1, <1>2, CoreSteps
        DEF NewScope, StartRejected, Cancel, Invalidate, ParentCancel, CloseRunner,
            WorkerTakes, AcquireSlot, SkipSlot, Begin, Commit

\* A mutation that waits in the queue waits until the worker takes it.
LEMMA QueuedStays ==
  ASSUME IInv, [Next]_vars, NEW o \in Ops,
         phase[o] = "queued", Mutating(kind[o]),
         mutationQueue' # Tail(mutationQueue) \/ o # Head(mutationQueue)
  PROVE  phase'[o] = "queued" /\ Mutating(kind'[o])
<1> USE DEF runnerVars, workerVars
<1>0. phase \in [Ops -> Phases] BY DEF IInv, Types, TypeOK
<1>1. Mutating(kind'[o]) BY KindSteps
<1>2. ASSUME NEW p \in Ops, AcquireSlot(p) \/ SkipSlot(p)
      PROVE  phase'[o] = "queued"
  BY <1>0, <1>2 DEF AcquireSlot, SkipSlot
<1>3. ASSUME NEW p \in Ops, \/ Begin(p)
                            \/ \E r \in Outcomes : Commit(p, r)
                            \/ phase[p] \in {"gate", "running", "committed"} /\ Release(p)
      PROVE  phase'[o] = "queued"
  BY <1>0, <1>3 DEF Begin, Commit, Returns, Release
<1>4. ASSUME WorkerTakes PROVE phase'[o] = "queued"
  <2>1. phase' = [phase EXCEPT ![Head(mutationQueue)] = "gate"]
          /\ mutationQueue' = Tail(mutationQueue)
    BY <1>4 DEF WorkerTakes
  <2> QED BY <1>0, <2>1
<1>5. ASSUME NEW t \in Threads, NEW s \in Scopes, NEW k \in Kinds, Start(t, s, k)
      PROVE  phase'[o] = "queued"
  BY <1>0, <1>5 DEF Start
<1>6. UNCHANGED coreVars => UNCHANGED phase BY DEF coreVars
<1>7. phase'[o] = "queued"
  BY <1>2, <1>3, <1>4, <1>5, <1>6, CoreSteps
     DEF NewScope, StartRejected, Cancel, Invalidate, ParentCancel, CloseRunner
<1> QED BY <1>1, <1>7

\* The queue grows by a fresh mutation and shrinks at its head; none of the
\* others leaves "queued".
LEMMA QueueWaitsStays == IInv /\ [Next]_vars => QueueWaits'
<1> SUFFICES ASSUME IInv, [Next]_vars PROVE QueueWaits' OBVIOUS
<1> DEFINE q == mutationQueue
           n == Len(mutationQueue)
<1>0. q \in Seq(Ops) /\ n \in Nat /\ phase \in [Ops -> Phases]
  BY DEF IInv, Types, TypeOK
<1>1. \A i \in 1 .. n : /\ q[i] \in Ops /\ phase[q[i]] = "queued" /\ Mutating(kind[q[i]])
                        /\ \A j \in 1 .. i - 1 : q[j] # q[i]
  BY <1>0 DEF IInv, QueueWaits
<1>2. CASE q' = q
  <2>1. ASSUME NEW i \in 1 .. n
        PROVE  phase'[q[i]] = "queued" /\ Mutating(kind'[q[i]])
    <3>1. q # <<>> BY <1>0
    <3>2. Len(Tail(q)) = n - 1 BY <1>0, <3>1
    <3>3. q' # Tail(q) BY <1>0, <1>2, <3>2
    <3> QED BY <1>1, <3>3, QueuedStays
  <2> QED BY <1>1, <1>2, <2>1 DEF QueueWaits
<1>3. ASSUME NEW o \in Ops, q' = Append(q, o), phase[o] = "none", phase'[o] = "queued",
             Mutating(kind'[o])
      PROVE  QueueWaits'
  <2>1. Len(q') = n + 1 /\ q'[n + 1] = o /\ \A i \in 1 .. n : q'[i] = q[i] BY <1>0, <1>3
  <2>2. ASSUME NEW i \in 1 .. n
        PROVE  phase'[q[i]] = "queued" /\ Mutating(kind'[q[i]]) /\ q[i] # o
    <3>1. q # <<>> BY <1>0
    <3>2. Len(Tail(q)) = n - 1 BY <1>0, <3>1
    <3>3. q' # Tail(q) BY <1>0, <2>1, <3>2
    <3> QED BY <1>1, <1>3, <3>3, QueuedStays
  <2>3. ASSUME NEW i \in 1 .. n + 1
        PROVE  /\ phase'[q'[i]] = "queued" /\ Mutating(kind'[q'[i]])
               /\ \A j \in 1 .. i - 1 : q'[j] # q'[i]
    <3>1. CASE i \in 1 .. n BY <1>1, <2>1, <2>2, <3>1
    <3>2. CASE i = n + 1 BY <1>0, <1>3, <2>1, <2>2, <3>2
    <3> QED BY <1>0, <3>1, <3>2
  <2> QED BY <2>1, <2>3 DEF QueueWaits
<1>4. ASSUME q # <<>>, q' = Tail(q) PROVE QueueWaits'
  <2>1. /\ Len(q') = n - 1
        /\ \A i \in 1 .. n - 1 : i + 1 \in 1 .. n /\ q'[i] = q[i + 1]
        /\ Head(q) = q[1] /\ 1 \in 1 .. n
    BY <1>0, <1>4
  <2>2. ASSUME NEW i \in 1 .. n - 1
        PROVE  /\ phase'[q'[i]] = "queued" /\ Mutating(kind'[q'[i]])
               /\ \A j \in 1 .. i - 1 : q'[j] # q'[i]
    <3>1. 1 \in 1 .. (i + 1) - 1 /\ i + 1 \in 1 .. n BY <2>1
    <3>2. q[i + 1] # Head(q) BY <1>1, <2>1, <3>1
    <3>3. phase'[q[i + 1]] = "queued" /\ Mutating(kind'[q[i + 1]])
      BY <1>1, <3>1, <3>2, QueuedStays
    <3>4. ASSUME NEW j \in 1 .. i - 1 PROVE q'[j] # q'[i]
      <4>1. j \in 1 .. n - 1 /\ j + 1 \in 1 .. (i + 1) - 1 BY <1>0
      <4> QED BY <1>1, <2>1, <3>1, <4>1
    <3> QED BY <2>1, <3>3, <3>4
  <2> QED BY <2>1, <2>2 DEF QueueWaits
<1> QED BY <1>2, <1>3, <1>4, QueueSteps

\* The tokens change one at a time: a waiting read takes one while one is left,
\* and an operation that returns gives its own back.
LEMMA SlotSteps ==
  ASSUME IInv, [Next]_vars
  PROVE  \/ slots' = slots
         \/ Cardinality(slots) < MaxReads /\ \E o \in Ops : slots' = slots \cup {o}
         \/ \E o \in Ops : slots' = slots \ {o} /\ phase'[o] = "done"
<1> USE DEF runnerVars, workerVars
<1>0. phase \in [Ops -> Phases] BY DEF IInv, Types, TypeOK
<1>1. UNCHANGED coreVars => UNCHANGED slots BY DEF coreVars
<1>2. ASSUME NEW o \in Ops, Release(o)
      PROVE  slots' = slots \ {o} /\ phase'[o] = "done"
  BY <1>0, <1>2 DEF Release
<1> QED BY <1>1, <1>2, CoreSteps
        DEF NewScope, Start, StartRejected, Cancel, Invalidate, ParentCancel, CloseRunner,
            WorkerTakes, AcquireSlot, SkipSlot, Begin, Commit

\* An operation that passes the slots is a mutation, is done, or holds a token.
LEMMA GateSteps ==
  ASSUME IInv, [Next]_vars, NEW o \in Ops, phase[o] = "queued", phase'[o] = "gate"
  PROVE  Mutating(kind[o]) \/ CtxDone(o) \/ o \in slots'
<1> USE DEF runnerVars, workerVars
<1>0. phase \in [Ops -> Phases] /\ mutationQueue \in Seq(Ops)
  BY DEF IInv, Types, TypeOK
<1>1. ASSUME WorkerTakes PROVE Mutating(kind[o])
  <2>1. mutationQueue # <<>> /\ phase' = [phase EXCEPT ![Head(mutationQueue)] = "gate"]
    BY <1>1 DEF WorkerTakes
  <2>2. 1 \in 1 .. Len(mutationQueue) /\ Head(mutationQueue) = mutationQueue[1]
    BY <1>0, <2>1
  <2>3. Mutating(kind[Head(mutationQueue)]) BY <2>2 DEF IInv, QueueWaits
  <2>4. o = Head(mutationQueue) BY <1>0, <2>1
  <2> QED BY <2>3, <2>4
<1>2. ASSUME NEW p \in Ops, AcquireSlot(p) \/ SkipSlot(p)
      PROVE  CtxDone(o) \/ o \in slots'
  BY <1>0, <1>2 DEF AcquireSlot, SkipSlot
<1>3. ASSUME NEW p \in Ops, \/ Begin(p)
                            \/ \E r \in Outcomes : Commit(p, r)
                            \/ Release(p)
      PROVE  FALSE
  BY <1>0, <1>3 DEF Begin, Commit, Release
<1>4. ASSUME NEW t \in Threads, NEW s \in Scopes, NEW k \in Kinds, Start(t, s, k)
      PROVE  FALSE
  BY <1>0, <1>4 DEF Start
<1>5. UNCHANGED coreVars => UNCHANGED phase BY DEF coreVars
<1> QED BY <1>1, <1>2, <1>3, <1>4, <1>5, CoreSteps
        DEF NewScope, StartRejected, Cancel, Invalidate, ParentCancel, CloseRunner

\* A read gets past the slots with a token or with a context that stays done.
LEMMA SlotHoldersStays == IInv /\ [Next]_vars => SlotHolders'
<1> SUFFICES ASSUME IInv, [Next]_vars, NEW o \in Ops,
                    ~Mutating(kind'[o]),
                    phase'[o] = "running" \/ (phase'[o] = "gate" /\ ~CtxDone(o)')
             PROVE  o \in slots'
  BY DEF SlotHolders, HoldsSlot
<1>1. ~Mutating(kind[o]) BY KindSteps
<1>2. CASE phase[o] = "queued"
  <2>1. phase'[o] = "gate" /\ ~CtxDone(o)' BY <1>2, PhaseSteps
  <2>2. ~CtxDone(o) BY <2>1, CtxDoneStays
  <2> QED BY <1>1, <1>2, <2>1, <2>2, GateSteps
<1>3. CASE phase[o] # "queued"
  <2>1. phase[o] = "running" \/ (phase[o] = "gate" /\ ~CtxDone(o))
    BY <1>3, PhaseSteps, CtxDoneStays
  <2>2. o \in slots BY <1>1, <2>1 DEF IInv, SlotHolders, HoldsSlot
  <2>3. phase'[o] # "done" OBVIOUS
  <2> QED BY <2>2, <2>3, SlotSteps
<1> QED BY <1>2, <1>3

\* A token is taken only while one is left.
LEMMA SlotsBoundStays == IInv /\ [Next]_vars => SlotsBound'
<1> SUFFICES ASSUME IInv, [Next]_vars PROVE SlotsBound' OBVIOUS
<1>0. /\ IsFiniteSet(slots) /\ Cardinality(slots) \in Nat /\ Cardinality(slots) <= MaxReads
      /\ MaxReads \in Nat
  BY FS_CardinalityType DEF IInv, SlotsBound
<1>1. CASE slots' = slots BY <1>0, <1>1 DEF SlotsBound
<1>2. ASSUME NEW o \in Ops, slots' = slots \cup {o}, Cardinality(slots) < MaxReads
      PROVE  SlotsBound'
  <2>1. /\ IsFiniteSet(slots \cup {o})
        /\ Cardinality(slots \cup {o}) \in {Cardinality(slots), Cardinality(slots) + 1}
    BY <1>0, FS_AddElement
  <2>2. Cardinality(slots \cup {o}) <= MaxReads BY <1>0, <1>2, <2>1
  <2> QED BY <1>2, <2>1, <2>2 DEF SlotsBound
<1>3. ASSUME NEW o \in Ops, slots' = slots \ {o}
      PROVE  SlotsBound'
  <2>1. /\ IsFiniteSet(slots \ {o})
        /\ Cardinality(slots \ {o}) \in {Cardinality(slots), Cardinality(slots) - 1}
    BY <1>0, FS_RemoveElement
  <2>2. Cardinality(slots \ {o}) <= MaxReads BY <1>0, <2>1
  <2> QED BY <1>3, <2>1, <2>2 DEF SlotsBound
<1> QED BY <1>1, <1>2, <1>3, SlotSteps

\* Whoever changes what a scope shows also calls the cancel function it has.
LEMMA ScopeSteps ==
  ASSUME IInv, [Next]_vars, NEW s \in Scopes
  PROVE  \/ /\ scope'[s].id = scope[s].id
            /\ scope'[s].state = scope[s].state
            /\ scope'[s].closed = scope[s].closed
         \/ CancelCurrent(s) \subseteq cancelled'
<1> USE DEF runnerVars, workerVars
<1> DEFINE Kept == /\ scope'[s].id = scope[s].id
                   /\ scope'[s].state = scope[s].state
                   /\ scope'[s].closed = scope[s].closed
           Told == CancelCurrent(s) \subseteq cancelled'
<1>0. scope \in [Scopes -> ScopeStates] BY DEF IInv, Types, TypeOK
<1>1. ASSUME NEW t \in Threads, NEW r \in Scopes, NewScope(t, r) PROVE Kept
  <2>1. scope' = [scope EXCEPT ![r] = [scope[r] EXCEPT !.made = TRUE]] BY <1>1 DEF NewScope
  <2> QED BY <1>0, <2>1 DEF ScopeStates
<1>2. ASSUME NEW r \in Scopes, NEW sc, scope' = [scope EXCEPT ![r] = sc],
             CancelCurrent(r) \subseteq cancelled'
      PROVE  Kept \/ Told
  <2>1. CASE r = s BY <1>2, <2>1
  <2>2. CASE r # s BY <1>0, <1>2, <2>2
  <2> QED BY <2>1, <2>2
<1>3. ASSUME NEW t \in Threads, NEW r \in Scopes, NEW k \in Kinds,
             Start(t, r, k) \/ StartRejected(t, r, k)
      PROVE  Kept \/ Told
  BY <1>2, <1>3 DEF Start, StartRejected
<1>4. ASSUME NEW t \in Threads, NEW r \in Scopes, Cancel(t, r) \/ Invalidate(t, r)
      PROVE  Kept \/ Told
  BY <1>2, <1>4 DEF Cancel, Invalidate
<1>5. ASSUME NEW r \in Scopes, Shut(r) PROVE Kept \/ Told
  BY <1>2, <1>5 DEF Shut
<1>6. ASSUME NEW o \in Ops, NEW r \in Outcomes, Commit(o, r) PROVE Kept \/ Told
  <2>1. o[1] \in Scopes BY DEF Ops
  <2> QED BY <1>2, <1>6, <2>1 DEF Commit
<1>7. UNCHANGED coreVars => UNCHANGED scope BY DEF coreVars
<1> HIDE DEF Told
<1> QED BY <1>1, <1>3, <1>4, <1>5, <1>6, <1>7, CoreSteps
        DEF ParentCancel, CloseRunner, WorkerTakes, AcquireSlot, SkipSlot, Begin, Told

\* A step that takes the scope away from its operation cancels that operation.
LEMMA OneLiveStays == IInv /\ [Next]_vars => OneLiveOperation'
<1> SUFFICES ASSUME IInv, [Next]_vars, NEW o \in Ops, Active(o)', ~CtxDone(o)'
             PROVE  Current(o)'
  BY DEF OneLiveOperation
<1>0. /\ scope \in [Scopes -> ScopeStates] /\ phase \in [Ops -> Phases]
      /\ o[1] \in Scopes /\ o = <<o[1], o[2]>> /\ o[2] \in Nat
  BY DEF IInv, Types, TypeOK, Ops
<1>1. ~CtxDone(o) BY CtxDoneStays
<1>2. CASE Active(o)
  <2>1. Current(o) BY <1>1, <1>2 DEF IInv, OneLiveOperation
  <2>2. CancelCurrent(o[1]) = {o}
    <3>1. ScopeConsistent(o[1]) BY <1>0 DEF IInv, Types, ScopesConsistent
    <3> QED BY <1>0, <2>1, <3>1 DEF Current, ScopeConsistent, CancelCurrent
  <2>3. o \notin cancelled' BY DEF CtxDone
  <2>4. /\ scope'[o[1]].id = scope[o[1]].id
        /\ scope'[o[1]].state = scope[o[1]].state
        /\ scope'[o[1]].closed = scope[o[1]].closed
    BY <1>0, <2>2, <2>3, ScopeSteps
  <2> QED BY <2>1, <2>4 DEF Current
<1>3. CASE ~Active(o)
  <2>1. phase[o] = "none" /\ phase'[o] = "queued" BY <1>3, PhaseSteps DEF Active
  <2>2. PICK t \in Threads, s \in Scopes, k \in Kinds : Start(t, s, k)
    <3> USE DEF runnerVars, workerVars
    <3>1. ASSUME NEW p \in Ops, \/ AcquireSlot(p) \/ SkipSlot(p) \/ Begin(p)
                                \/ \E r \in Outcomes : Commit(p, r)
                                \/ Release(p)
          PROVE  FALSE
      BY <1>0, <2>1, <3>1 DEF AcquireSlot, SkipSlot, Begin, Commit, Release
    <3>2. ~WorkerTakes BY <1>0, <2>1 DEF WorkerTakes
    <3>3. phase' # phase BY <2>1
    <3>4. ~UNCHANGED coreVars BY <3>3 DEF coreVars
    <3> QED BY <3>1, <3>2, <3>3, <3>4, CoreSteps
            DEF NewScope, StartRejected, Cancel, Invalidate, ParentCancel, CloseRunner
  <2>3. /\ phase' = [phase EXCEPT ![<<s, scope[s].nextID + 1>>] = "queued"]
        /\ scope' = [scope EXCEPT ![s] = Started(s, k)]
        /\ scope[s].nextID < MaxID
        /\ ~scope[s].closed
    BY <2>2 DEF Start, MayStart
  <2>4. o = <<s, scope[s].nextID + 1>> BY <1>0, <2>1, <2>3
  <2>5. /\ Started(s, k).id = scope[s].nextID + 1
        /\ Started(s, k).state = "loading"
        /\ Started(s, k).closed = scope[s].closed
    BY <2>3, StartedType DEF IInv
  <2>6. scope'[s] = Started(s, k) BY <1>0, <2>3
  <2> QED BY <2>3, <2>4, <2>5, <2>6 DEF Current
<1> QED BY <1>2, <1>3

\* The invariant holds in every state of every behaviour.
LEMMA Invariance == Spec => []IInv
<1>1. IInv /\ [Next]_vars => IInv'
  <2> SUFFICES ASSUME IInv, [Next]_vars PROVE IInv' OBVIOUS
  <2>1. Types' BY NextTypes DEF IInv
  <2> QED BY <2>1, ClosedCancelsStays, FreshOpsStays, QueueWaitsStays, SlotHoldersStays,
             SlotsBoundStays, OneLiveStays DEF IInv
<1> QED BY <1>1, InitIInv, PTL DEF Spec

-----------------------------------------------------------------------------
(* What follows.                                                           *)

\* At most MaxConcurrentReads read tasks execute at once: an operation whose
\* context is done passes the slots without a token, and never invokes its task.
THEOREM ReadsAreLimited == Spec => []ReadLimit
<1>1. IInv => ReadLimit
  <2> SUFFICES ASSUME IInv PROVE ReadLimit OBVIOUS
  <2>1. RunningReads \subseteq slots
    BY DEF RunningReads, IInv, SlotHolders, HoldsSlot
  <2>2. IsFiniteSet(slots) /\ Cardinality(slots) <= MaxReads BY DEF IInv, SlotsBound
  <2>3. /\ Cardinality(RunningReads) <= Cardinality(slots)
        /\ Cardinality(RunningReads) \in Nat /\ Cardinality(slots) \in Nat
    BY <2>1, <2>2, FS_Subset, FS_CardinalityType
  <2> QED BY <2>2, <2>3 DEF ReadLimit
<1> QED BY <1>1, Invariance, PTL

\* No operation is forgotten while it runs: the accepted operation that has not
\* returned and was not told to stop is the one its scope shows as loading.
THEOREM NothingForgotten == Spec => []OneLiveOperation
<1>1. IInv => OneLiveOperation BY DEF IInv
<1> QED BY <1>1, Invariance, PTL

\* Once the runner is closed no operation is accepted and no task is invoked
\* (schedule, run).
THEOREM CloseIsABarrier == Spec => NothingStartsAfterClose
<1>1. IInv /\ [Next]_vars =>
        [closed => \A o \in Ops :
           /\ phase[o] = "none" => phase'[o] = "none"
           /\ phase'[o] = "running" => phase[o] = "running"]_vars
  <2> SUFFICES ASSUME IInv, [Next]_vars, closed, NEW o \in Ops
               PROVE  /\ phase[o] = "none" => phase'[o] = "none"
                      /\ phase'[o] = "running" => phase[o] = "running"
    OBVIOUS
  <2>1. CtxDone(o) BY DEF IInv, ClosedCancels, CtxDone
  <2> QED BY <2>1, PhaseSteps
<1> QED BY <1>1, Invariance, PTL DEF Spec, NothingStartsAfterClose

\* A terminal state is final for its operation (finish, Cancel, close).
THEOREM TerminalStays == Spec => TerminalIsFinal
<1> DEFINE Final(s) == scope[s].state \in Terminal /\ scope'[s].id = scope[s].id
                         => scope'[s].state = scope[s].state
<1>1. IInv /\ [Next]_vars => [\A s \in Scopes : Final(s)]_vars
  <2> SUFFICES ASSUME IInv, [Next]_vars, NEW s \in Scopes,
                      scope[s].state \in Terminal, scope'[s].id = scope[s].id
               PROVE  scope'[s].state = scope[s].state
    OBVIOUS
  <2> USE DEF runnerVars, workerVars
  <2>0. scope \in [Scopes -> ScopeStates] BY DEF IInv, Types, TypeOK
  <2>1. scope[s].state # "loading" BY DEF Terminal
  <2>2. scope[s].id \in Nat /\ scope[s].id <= scope[s].nextID
          /\ \A r \in Scopes : scope[r].nextID \in Nat
    BY <2>0 DEF IInv, Types, ScopesConsistent, ScopeConsistent, ScopeStates
  <2>3. ASSUME NEW t \in Threads, NEW r \in Scopes, NewScope(t, r)
        PROVE  scope'[s].state = scope[s].state
    <3>1. scope' = [scope EXCEPT ![r] = [scope[r] EXCEPT !.made = TRUE]]
      BY <2>3 DEF NewScope
    <3> QED BY <2>0, <3>1 DEF ScopeStates
  <2>4. ASSUME NEW r \in Scopes, NEW sc, scope' = [scope EXCEPT ![r] = sc],
               r = s => sc.state = scope[s].state \/ sc.id = scope[s].nextID + 1
        PROVE  scope'[s].state = scope[s].state
    <3>1. CASE r = s BY <2>0, <2>2, <2>4, <3>1
    <3>2. CASE r # s BY <2>0, <2>4, <3>2
    <3> QED BY <3>1, <3>2
  <2>5. ASSUME NEW t \in Threads, NEW r \in Scopes, NEW k \in Kinds,
               Start(t, r, k) \/ StartRejected(t, r, k)
        PROVE  scope'[s].state = scope[s].state
    <3>1. scope[r].nextID < MaxID BY <2>5 DEF Start, StartRejected, MayStart
    <3>2. Started(r, k) \in ScopeStates /\ Started(r, k).id = scope[r].nextID + 1
      BY <3>1, StartedType DEF IInv
    <3>3. Rejected(r, k).id = Started(r, k).id BY <3>2 DEF Rejected, ScopeStates
    <3> QED BY <2>4, <2>5, <3>2, <3>3 DEF Start, StartRejected
  <2>6. ASSUME NEW t \in Threads, NEW r \in Scopes, Cancel(t, r)
        PROVE  scope'[s].state = scope[s].state
    BY <2>1, <2>4, <2>6 DEF Cancel
  <2>7. ASSUME NEW t \in Threads, NEW r \in Scopes, Invalidate(t, r)
        PROVE  scope'[s].state = scope[s].state
    <3>1. Fresh(r).id = scope[r].nextID + 1 BY <2>0 DEF Fresh, ScopeStates
    <3> QED BY <2>4, <2>7, <3>1 DEF Invalidate
  <2>8. ASSUME NEW r \in Scopes, Shut(r)
        PROVE  scope'[s].state = scope[s].state
    <3>1. r = s => Closed(r).state = scope[s].state BY <2>0, <2>1 DEF Closed, ScopeStates
    <3> QED BY <2>4, <2>8, <3>1 DEF Shut
  <2>9. ASSUME NEW o \in Ops, NEW r \in Outcomes, Commit(o, r)
        PROVE  scope'[s].state = scope[s].state
    <3>1. o[1] \in Scopes /\ o[1] # s BY <2>1, <2>9 DEF Commit, Current, Ops
    <3> QED BY <2>4, <2>9, <3>1 DEF Commit
  <2>10. UNCHANGED coreVars => UNCHANGED scope BY DEF coreVars
  <2> QED BY <2>3, <2>5, <2>6, <2>7, <2>8, <2>9, <2>10, CoreSteps
          DEF ParentCancel, CloseRunner, WorkerTakes, AcquireSlot, SkipSlot, Begin
<1> QED BY <1>1, Invariance, PTL DEF Spec, TerminalIsFinal

-----------------------------------------------------------------------------
(* Mutations execute in acceptance order.                                  *)

\* How many of the accepted mutations have left the queue.
Taken == Len(accepted) - Len(mutationQueue)

\* The queue is what is left of the accepted mutations, in their order.
QueueIsRest ==
  /\ Len(mutationQueue) <= Len(accepted)
  /\ \A i \in 1 .. Len(mutationQueue) : mutationQueue[i] = accepted[Taken + i]

\* What left the queue has returned, but for the one the worker executes.
TakenReturned ==
  \A i \in 1 .. Taken : phase[accepted[i]] = "done" \/ (i = Taken /\ worker = "busy")

\* Every mutation that was accepted is in the history.
AllRecorded ==
  \A o \in Ops : Mutating(kind[o]) /\ phase[o] # "none" =>
    \E i \in 1 .. Len(accepted) : accepted[i] = o

OrderInv == QueueIsRest /\ TakenReturned /\ AllRecorded

\* The queue, the history and the worker change in these ways.
LEMMA OrderSteps ==
  ASSUME [Next]_vars
  PROVE  \/ /\ UNCHANGED <<accepted, mutationQueue>>
            /\ worker' = worker \/ (worker # "busy" /\ worker' # "busy")
         \/ \E t \in Threads, s \in Scopes, k \in Kinds : Start(t, s, k)
         \/ WorkerTakes
         \/ \E o \in Ops : /\ phase[o] \in {"gate", "running", "committed"}
                           /\ Release(o)
                           /\ UNCHANGED <<accepted, mutationQueue>>
<1> USE DEF runnerVars, workerVars
<1>1. ASSUME NEW t \in Callers, CallStep(t)
      PROVE  \/ UNCHANGED <<accepted, mutationQueue, worker>>
             \/ \E s \in Scopes, k \in Kinds : Start(t, s, k)
  BY <1>1 DEF CallStep, NewScope, StartRejected, Cancel, Invalidate, CloseScope
<1>2. ASSUME NEW t \in Threads, ThreadStep(t) \/ CloseRunner(t)
      PROVE  UNCHANGED <<accepted, mutationQueue, worker>>
  BY <1>2 DEF ThreadStep, Dispatch, RunnerClosed, CloseSignals, CloseRunner
<1>3. ASSUME WorkerStep
      PROVE  \/ WorkerTakes
             \/ /\ UNCHANGED <<accepted, mutationQueue>>
                /\ worker # "busy" /\ worker' # "busy"
  BY <1>3 DEF WorkerStep, WorkerWakes, WorkerDrained
<1>4. ASSUME NEW o \in Ops, OpStep(o)
      PROVE  \/ UNCHANGED <<accepted, mutationQueue, worker>>
             \/ /\ phase[o] \in {"gate", "running", "committed"}
                /\ Release(o)
                /\ UNCHANGED <<accepted, mutationQueue>>
  BY <1>4 DEF OpStep, AcquireSlot, SkipSlot, Begin, Commit, Ignore, Publish, Returns
<1>5. ASSUME GuiStep \/ ParentCancel \/ UNCHANGED vars
      PROVE  UNCHANGED <<accepted, mutationQueue, worker>>
  BY <1>5 DEF GuiStep, RunCallback, CheckRevision, Observe, ParentCancel, vars
<1> QED BY <1>1, <1>2, <1>3, <1>4, <1>5 DEF Next, Threads, Terminated

\* An operation that has returned stays so.
LEMMA DoneStays ==
  ASSUME IInv, [Next]_vars, NEW o \in Ops, phase[o] = "done"
  PROVE  phase'[o] = "done"
BY PhaseSteps

\* What accepting an operation does to the history and to the queue.
LEMMA StartRecords ==
  ASSUME IInv, NEW t \in Threads, NEW s \in Scopes, NEW k \in Kinds, Start(t, s, k)
  PROVE  \E o \in Ops :
           /\ kind' = [kind EXCEPT ![o] = k]
           /\ phase' = [phase EXCEPT ![o] = "queued"]
           /\ worker' = worker
           /\ IF Mutating(k) THEN /\ accepted' = Append(accepted, o)
                                  /\ mutationQueue' = Append(mutationQueue, o)
                             ELSE UNCHANGED <<accepted, mutationQueue>>
<1> DEFINE o == <<s, scope[s].nextID + 1>>
<1>1. scope[s].nextID \in 0 .. MaxID /\ scope[s].nextID < MaxID
  BY DEF Start, MayStart, IInv, Types, TypeOK, ScopeStates
<1>2. o \in Ops BY <1>1 DEF Ops
<1>3. /\ kind' = [kind EXCEPT ![o] = k] /\ phase' = [phase EXCEPT ![o] = "queued"]
      /\ worker' = worker
      /\ IF Mutating(k) THEN accepted' = Append(accepted, o)
                             /\ mutationQueue' = Append(mutationQueue, o)
                        ELSE UNCHANGED <<accepted, mutationQueue>>
  BY DEF Start
<1> HIDE DEF o
<1> QED BY <1>2, <1>3

\* Accepting a mutation, taking the oldest one and its return keep the order.
LEMMA OrderStays == IInv /\ OrderInv /\ [Next]_vars => OrderInv'
<1> SUFFICES ASSUME IInv, OrderInv, [Next]_vars PROVE OrderInv'
  OBVIOUS
<1> DEFINE a == accepted
           q == mutationQueue
           n == Len(accepted)
           m == Len(mutationQueue)
<1>0. /\ a \in Seq(Ops) /\ q \in Seq(Ops) /\ n \in Nat /\ m \in Nat /\ m <= n
      /\ phase \in [Ops -> Phases] /\ kind \in [Ops -> Kinds]
      /\ \A i \in 1 .. n : a[i] \in Ops
      /\ \A i \in 1 .. m : q[i] \in Ops /\ q[i] = a[n - m + i]
  BY DEF IInv, Types, TypeOK, OrderInv, QueueIsRest, Taken
<1>1. \A i \in 1 .. n - m : phase[a[i]] = "done" \/ (i = n - m /\ worker = "busy")
  BY DEF OrderInv, TakenReturned, Taken
<1>2. \A o \in Ops : Mutating(kind[o]) /\ phase[o] # "none" => \E i \in 1 .. n : a[i] = o
  BY DEF OrderInv, AllRecorded
<1>3. \A i \in 1 .. n : i > n - m => phase[a[i]] = "queued"
  <2> SUFFICES ASSUME NEW i \in 1 .. n, i > n - m PROVE phase[a[i]] = "queued"
    OBVIOUS
  <2>1. i - (n - m) \in 1 .. m /\ n - m + (i - (n - m)) = i BY <1>0
  <2>2. q[i - (n - m)] = a[i] BY <1>0, <2>1
  <2> QED BY <2>1, <2>2 DEF IInv, QueueWaits
<1>4. \A i \in 1 .. n : phase[a[i]] = "done" => phase'[a[i]] = "done"
  BY <1>0, DoneStays
<1>5. ASSUME UNCHANGED <<accepted, mutationQueue>>,
             \A o \in Ops : phase[o] = "none" /\ Mutating(kind'[o]) => phase'[o] = "none",
             \A i \in 1 .. n - m : phase'[a[i]] = "done" \/ (i = n - m /\ worker' = "busy")
      PROVE  OrderInv'
  <2>1. QueueIsRest' /\ TakenReturned'
    BY <1>0, <1>5 DEF QueueIsRest, TakenReturned, Taken
  <2>2. AllRecorded'
    <3> SUFFICES ASSUME NEW o \in Ops, Mutating(kind'[o]), phase'[o] # "none"
                 PROVE  \E i \in 1 .. n : a[i] = o
      BY <1>5 DEF AllRecorded
    <3>1. phase[o] # "none" BY <1>5
    <3>2. kind'[o] = kind[o] BY <3>1, KindSteps
    <3> QED BY <1>2, <3>1, <3>2
  <2> QED BY <2>1, <2>2 DEF OrderInv
<1>6. ASSUME ~\E t \in Threads, s \in Scopes, k \in Kinds : Start(t, s, k), NEW o \in Ops,
             phase[o] = "none"
      PROVE  phase'[o] = "none"
  <2> USE DEF runnerVars, workerVars
  <2>1. ASSUME NEW p \in Ops, \/ AcquireSlot(p) \/ SkipSlot(p) \/ Begin(p)
                              \/ \E r \in Outcomes : Commit(p, r)
                              \/ phase[p] \in {"gate", "running", "committed"} /\ Release(p)
        PROVE  phase'[o] = "none"
    BY <1>0, <1>6, <2>1 DEF AcquireSlot, SkipSlot, Begin, Commit, Returns, Release
  <2>2. ASSUME WorkerTakes PROVE phase'[o] = "none"
    <3>1. q # <<>> /\ phase' = [phase EXCEPT ![Head(q)] = "gate"] BY <2>2 DEF WorkerTakes
    <3>2. 1 \in 1 .. m /\ Head(q) = q[1] BY <1>0, <3>1
    <3>3. phase[Head(q)] = "queued" BY <3>2 DEF IInv, QueueWaits
    <3> QED BY <1>0, <1>6, <3>1, <3>3
  <2>3. UNCHANGED coreVars => UNCHANGED phase BY DEF coreVars
  <2> QED BY <1>6, <2>1, <2>2, <2>3, CoreSteps
          DEF NewScope, StartRejected, Cancel, Invalidate, ParentCancel, CloseRunner
<1>7. ASSUME NEW t \in Threads, NEW s \in Scopes, NEW k \in Kinds, Start(t, s, k)
      PROVE  OrderInv'
  <2>1. PICK o \in Ops :
          /\ kind' = [kind EXCEPT ![o] = k] /\ phase' = [phase EXCEPT ![o] = "queued"]
          /\ worker' = worker
          /\ IF Mutating(k) THEN accepted' = Append(accepted, o)
                                 /\ mutationQueue' = Append(mutationQueue, o)
                            ELSE UNCHANGED <<accepted, mutationQueue>>
    BY <1>7, StartRecords
  <2>2. \A p \in Ops : p # o => phase'[p] = phase[p] /\ kind'[p] = kind[p]
    BY <1>0, <2>1
  <2>3. phase'[o] = "queued" /\ kind'[o] = k BY <1>0, <2>1
  <2>4. \A i \in 1 .. n - m : phase'[a[i]] = "done" \/ (i = n - m /\ worker' = "busy")
    BY <1>0, <1>1, <1>4, <2>1
  <2>5. CASE ~Mutating(k)
    <3>1. \A p \in Ops : phase[p] = "none" /\ Mutating(kind'[p]) => phase'[p] = "none"
      BY <2>2, <2>3, <2>5
    <3> QED BY <1>5, <2>1, <2>4, <2>5, <3>1
  <2>6. CASE Mutating(k)
    <3>1. /\ Len(accepted') = n + 1 /\ Len(mutationQueue') = m + 1
          /\ accepted'[n + 1] = o /\ mutationQueue'[m + 1] = o
          /\ \A i \in 1 .. n : accepted'[i] = a[i]
          /\ \A i \in 1 .. m : mutationQueue'[i] = q[i]
      <4>1. accepted' = Append(a, o) /\ mutationQueue' = Append(q, o) BY <2>1, <2>6
      <4>2. ASSUME NEW x \in Seq(Ops)
            PROVE  /\ Len(Append(x, o)) = Len(x) + 1 /\ Append(x, o)[Len(x) + 1] = o
                   /\ \A i \in 1 .. Len(x) : Append(x, o)[i] = x[i]
        OBVIOUS
      <4> QED BY <1>0, <4>1, <4>2
    <3>2. Taken' = n - m BY <1>0, <3>1 DEF Taken
    <3>3. QueueIsRest'
      <4>1. \A i \in 1 .. m + 1 : mutationQueue'[i] = accepted'[n - m + i]
        <5> SUFFICES ASSUME NEW i \in 1 .. m + 1
                     PROVE  mutationQueue'[i] = accepted'[n - m + i]
          OBVIOUS
        <5>1. CASE i = m + 1
          <6>1. n - m + i = n + 1 BY <1>0, <5>1
          <6> QED BY <3>1, <5>1, <6>1
        <5>2. CASE i # m + 1
          <6>1. i \in 1 .. m /\ n - m + i \in 1 .. n BY <1>0, <5>2
          <6> QED BY <1>0, <3>1, <6>1
        <5> QED BY <5>1, <5>2
      <4>2. m + 1 <= n + 1 BY <1>0
      <4> QED BY <3>1, <3>2, <4>1, <4>2 DEF QueueIsRest
    <3>4. TakenReturned'
      <4>1. \A i \in 1 .. n - m : i \in 1 .. n /\ accepted'[i] = a[i] BY <1>0, <3>1
      <4> QED BY <2>4, <3>2, <4>1 DEF TakenReturned
    <3>5. AllRecorded'
      <4> SUFFICES ASSUME NEW p \in Ops, Mutating(kind'[p]), phase'[p] # "none"
                   PROVE  \E i \in 1 .. n + 1 : accepted'[i] = p
        BY <3>1 DEF AllRecorded
      <4>1. CASE p = o BY <1>0, <3>1, <4>1
      <4>2. CASE p # o
        <5>1. PICK i \in 1 .. n : a[i] = p BY <1>2, <2>2, <4>2
        <5>2. i \in 1 .. n + 1 BY <1>0
        <5> QED BY <3>1, <5>1, <5>2
      <4> QED BY <4>1, <4>2
    <3> QED BY <3>3, <3>4, <3>5 DEF OrderInv
  <2> QED BY <2>5, <2>6
<1>8. ASSUME WorkerTakes, \A o \in Ops : phase[o] = "none" => phase'[o] = "none"
      PROVE  OrderInv'
  <2>1. /\ worker = "draining" /\ q # <<>> /\ worker' = "busy"
        /\ mutationQueue' = Tail(q) /\ accepted' = a /\ kind' = kind
    BY <1>8 DEF WorkerTakes
  <2>2. /\ Len(mutationQueue') = m - 1 /\ m > 0
        /\ \A i \in 1 .. m - 1 : mutationQueue'[i] = q[i + 1]
    BY <1>0, <2>1
  <2>3. Taken' = n - m + 1 BY <1>0, <2>1, <2>2 DEF Taken
  <2>4. QueueIsRest'
    <3>1. \A i \in 1 .. m - 1 : mutationQueue'[i] = a[n - m + 1 + i]
      <4> SUFFICES ASSUME NEW i \in 1 .. m - 1 PROVE mutationQueue'[i] = a[n - m + 1 + i]
        OBVIOUS
      <4>1. i + 1 \in 1 .. m /\ n - m + (i + 1) = n - m + 1 + i BY <1>0
      <4> QED BY <1>0, <2>2, <4>1
    <3>2. m - 1 <= n BY <1>0
    <3> QED BY <2>1, <2>2, <2>3, <3>1, <3>2 DEF QueueIsRest
  <2>5. TakenReturned'
    <3>1. \A i \in 1 .. n - m + 1 : phase'[a[i]] = "done" \/ i = n - m + 1
      <4> SUFFICES ASSUME NEW i \in 1 .. n - m + 1, i # n - m + 1 PROVE phase'[a[i]] = "done"
        OBVIOUS
      <4>1. i \in 1 .. n - m /\ i \in 1 .. n BY <1>0
      <4> QED BY <1>1, <1>4, <2>1, <4>1
    <3> QED BY <2>1, <2>3, <3>1 DEF TakenReturned
  <2>6. AllRecorded' BY <1>2, <1>8, <2>1 DEF AllRecorded
  <2> QED BY <2>4, <2>5, <2>6 DEF OrderInv
<1>9. ASSUME NEW o \in Ops, phase[o] \in {"gate", "running", "committed"}, Release(o),
             UNCHANGED <<accepted, mutationQueue>>,
             \A p \in Ops : phase[p] = "none" => phase'[p] = "none"
      PROVE  OrderInv'
  <2>1. /\ phase'[o] = "done"
        /\ worker' = IF Mutating(kind[o]) THEN "draining" ELSE worker
    BY <1>0, <1>9 DEF Release
  <2>2. \A i \in 1 .. n - m : phase'[a[i]] = "done" \/ (i = n - m /\ worker' = "busy")
    <3>1. CASE ~Mutating(kind[o])
      <4>1. \A i \in 1 .. n - m : i \in 1 .. n BY <1>0
      <4> QED BY <1>1, <1>4, <2>1, <3>1, <4>1
    <3>2. CASE Mutating(kind[o])
      <4>1. PICK j \in 1 .. n : a[j] = o BY <1>2, <1>9, <3>2
      <4>2. j \in 1 .. n - m BY <1>0, <1>3, <1>9, <4>1
      <4>3. j = n - m BY <1>1, <1>9, <4>1, <4>2
      <4>4. \A i \in 1 .. n - m : i \in 1 .. n BY <1>0
      <4> QED BY <1>1, <1>4, <2>1, <4>1, <4>3, <4>4
    <3> QED BY <3>1, <3>2
  <2> QED BY <1>5, <1>9, <2>2
<1>10. ASSUME UNCHANGED <<accepted, mutationQueue>>,
              worker' = worker \/ (worker # "busy" /\ worker' # "busy"),
              \A p \in Ops : phase[p] = "none" => phase'[p] = "none"
       PROVE  OrderInv'
  <2>1. \A i \in 1 .. n - m : i \in 1 .. n BY <1>0
  <2>2. \A i \in 1 .. n - m : phase'[a[i]] = "done" \/ (i = n - m /\ worker' = "busy")
    BY <1>1, <1>4, <1>10, <2>1
  <2> QED BY <1>5, <1>10, <2>2
<1> HIDE DEF a, q, n, m
<1> QED BY <1>6, <1>7, <1>8, <1>9, <1>10, OrderSteps

\* Mutations execute one at a time in acceptance order across all scopes
\* (schedule, runMutations).
THEOREM MutationsStayInOrder == Spec => []MutationsInOrder
<1>1. Init => OrderInv
  BY DEF Init, OrderInv, QueueIsRest, TakenReturned, AllRecorded, Taken
<1>2. IInv /\ OrderInv => MutationsInOrder
  <2> SUFFICES ASSUME IInv, OrderInv, NEW i \in 1 .. Len(accepted), NEW j \in 1 .. Len(accepted),
                      i < j, phase[accepted[j]] # "queued"
               PROVE  phase[accepted[i]] = "done"
    BY DEF MutationsInOrder
  <2>0. /\ Len(accepted) \in Nat /\ Len(mutationQueue) \in Nat
        /\ Taken = Len(accepted) - Len(mutationQueue)
    BY DEF IInv, Types, TypeOK, Taken
  <2>1. j <= Taken
    <3> SUFFICES ASSUME j > Taken PROVE FALSE BY <2>0
    <3>1. j - Taken \in 1 .. Len(mutationQueue) /\ Taken + (j - Taken) = j BY <2>0
    <3>2. mutationQueue[j - Taken] = accepted[j] BY <3>1 DEF OrderInv, QueueIsRest
    <3> QED BY <3>1, <3>2 DEF IInv, QueueWaits
  <2>2. i \in 1 .. Taken /\ i # Taken BY <2>0, <2>1
  <2> QED BY <2>2 DEF OrderInv, TakenReturned
<1> QED BY <1>1, <1>2, OrderStays, Invariance, PTL DEF Spec

-----------------------------------------------------------------------------
(* What Runner.Close leaves behind.                                        *)

\* An open scope can be reached: the runner knows it, or the Close that took
\* the runner's scopes has yet to come to it.
Reachable(s) ==
  scope[s].made /\ ~scope[s].closed =>
    \/ s \in registered
    \/ \E t \in Threads : call[t].at = "closing" /\ s \in call[t].rest

CloseInv == /\ closed => registered = {}
            /\ \A s \in Scopes : Reachable(s)

\* Whether a scope is open changes in these ways; a call that is closing the
\* runner only goes on with that.
LEMMA OpenSteps ==
  ASSUME IInv, [Next]_vars
  PROVE  \/ /\ UNCHANGED <<closed, registered>>
            /\ \A s \in Scopes : /\ scope'[s].made = scope[s].made
                                 /\ scope[s].closed => scope'[s].closed
            /\ \A t \in Threads : call[t].at = "closing" => call'[t] = call[t]
         \/ \E t \in Threads, s \in Scopes : NewScope(t, s)
         \/ \E t \in Threads, s \in Scopes : CloseScope(t, s)
         \/ \E t \in Threads : CloseRunner(t)
         \/ \E t \in Threads, s \in Scopes : RunnerClosed(t, s)
         \/ \E t \in Threads : CloseSignals(t)
<1> USE DEF runnerVars, workerVars
<1> DEFINE Same == /\ UNCHANGED <<closed, registered>>
                   /\ \A s \in Scopes : /\ scope'[s].made = scope[s].made
                                        /\ scope[s].closed => scope'[s].closed
                   /\ \A t \in Threads : call[t].at = "closing" => call'[t] = call[t]
<1>0. scope \in [Scopes -> ScopeStates] /\ call \in [Threads -> CallStates]
  BY DEF IInv, Types, TypeOK
<1>1. ASSUME NEW s \in Scopes, NEW sc, scope' = [scope EXCEPT ![s] = sc],
             sc.made = scope[s].made, scope[s].closed => sc.closed,
             NEW r \in Scopes
      PROVE  scope'[r].made = scope[r].made /\ (scope[r].closed => scope'[r].closed)
  BY <1>0, <1>1
<1>2. ASSUME NEW t \in Threads, NEW s \in Scopes, NEW k \in Kinds,
             Start(t, s, k) \/ StartRejected(t, s, k)
      PROVE  Same
  <2>1. /\ scope[s].nextID < MaxID /\ call[t] = Idle
        /\ \/ scope' = [scope EXCEPT ![s] = Started(s, k)]
           \/ scope' = [scope EXCEPT ![s] = Rejected(s, k)]
        /\ UNCHANGED <<closed, registered>>
    BY <1>2 DEF Start, StartRejected, MayStart
  <2>2. /\ Started(s, k) \in ScopeStates
        /\ Started(s, k).closed = scope[s].closed
    BY <2>1, StartedType DEF IInv
  <2>3. Started(s, k).made = scope[s].made
    <3>1. scope[s] \in ScopeStates BY <1>0
    <3> QED BY <3>1 DEF Started, ScopeStates
  <2>4. Rejected(s, k).made = scope[s].made /\ Rejected(s, k).closed
    BY <2>2, <2>3 DEF Rejected, ScopeStates
  <2>5. \A u \in Threads : call[u].at = "closing" => call'[u] = call[u]
    BY <1>0, <1>2, <2>1 DEF Start, StartRejected, Idle
  <2> HIDE DEF Start, StartRejected
  <2>6. \A r \in Scopes : scope'[r].made = scope[r].made /\ (scope[r].closed => scope'[r].closed)
    BY <1>1, <2>1, <2>2, <2>3, <2>4
  <2> QED BY <2>1, <2>5, <2>6
<1>3. ASSUME NEW t \in Threads, NEW s \in Scopes, Cancel(t, s) \/ Invalidate(t, s)
      PROVE  Same
  <2>1. /\ Cancelled(s).made = scope[s].made /\ Cancelled(s).closed = scope[s].closed
        /\ Fresh(s).made = scope[s].made /\ Fresh(s).closed = scope[s].closed
    BY <1>0 DEF Cancelled, Fresh, ScopeStates
  <2>2. /\ call[t] = Idle /\ UNCHANGED <<closed, registered>>
        /\ \/ scope' = [scope EXCEPT ![s] = Cancelled(s)]
           \/ scope' = [scope EXCEPT ![s] = Fresh(s)]
    BY <1>3 DEF Cancel, Invalidate
  <2>3. \A u \in Threads : call[u].at = "closing" => call'[u] = call[u]
    BY <1>0, <1>3, <2>2 DEF Cancel, Invalidate, Idle
  <2>4. \A r \in Scopes : scope'[r].made = scope[r].made /\ (scope[r].closed => scope'[r].closed)
    BY <1>1, <2>1, <2>2
  <2> QED BY <2>2, <2>3, <2>4
<1>4. ASSUME NEW o \in Ops, NEW x \in Outcomes, Commit(o, x)
      PROVE  Same
  <2>1. o[1] \in Scopes BY DEF Ops
  <2>2. Finished(o, x).made = scope[o[1]].made /\ Finished(o, x).closed = scope[o[1]].closed
    BY <1>0, <2>1 DEF Finished, ScopeStates
  <2>3. scope' = [scope EXCEPT ![o[1]] = Finished(o, x)] /\ UNCHANGED <<closed, registered, call>>
    BY <1>4 DEF Commit
  <2>4. \A r \in Scopes : scope'[r].made = scope[r].made /\ (scope[r].closed => scope'[r].closed)
    BY <1>1, <2>1, <2>2, <2>3
  <2> QED BY <2>3, <2>4
<1>5. ASSUME NEW o \in Ops, \/ AcquireSlot(o) \/ SkipSlot(o) \/ Begin(o)
                            \/ Ignore(o) \/ Publish(o)
      PROVE  Same
  BY <1>5 DEF AcquireSlot, SkipSlot, Begin, Ignore, Publish
<1>6. ASSUME WorkerStep \/ ParentCancel \/ UNCHANGED vars
      PROVE  Same
  BY <1>6 DEF WorkerStep, WorkerWakes, WorkerTakes, WorkerDrained, ParentCancel, vars
<1>7. ASSUME GuiStep
      PROVE  Same
  <2>1. UNCHANGED <<closed, registered, scope>>
    BY <1>7 DEF GuiStep, RunCallback, CheckRevision, Observe
  <2>2. call[GUI].at # "closing" /\ \A u \in Threads : u # GUI => call'[u] = call[u]
    BY <1>0, <1>7 DEF GuiStep, RunCallback, CheckRevision, Observe, Idle, Threads
  <2> QED BY <2>1, <2>2
<1>8. ASSUME NEW t \in Threads, Dispatch(t)
      PROVE  Same
  BY <1>0, <1>8 DEF Dispatch
<1> HIDE DEF Same
<1>9. \/ Same
      \/ \E t \in Threads, s \in Scopes : NewScope(t, s) \/ CloseScope(t, s) \/ RunnerClosed(t, s)
      \/ \E t \in Threads : CloseRunner(t) \/ CloseSignals(t)
  <2>1. ASSUME NEW t \in Callers, CallStep(t)
        PROVE  Same \/ \E s \in Scopes : NewScope(t, s) \/ CloseScope(t, s)
    BY <1>2, <1>3, <2>1 DEF CallStep, Threads
  <2>2. ASSUME NEW t \in Threads, ThreadStep(t)
        PROVE  Same \/ (\E s \in Scopes : RunnerClosed(t, s)) \/ CloseSignals(t)
    BY <1>8, <2>2 DEF ThreadStep
  <2>3. ASSUME NEW o \in Ops, OpStep(o) PROVE Same
    BY <1>4, <1>5, <2>3 DEF OpStep
  <2> QED BY <1>6, <1>7, <2>1, <2>2, <2>3 DEF Next, Threads, Terminated
<1> QED BY <1>9 DEF Same

\* Registering, closing and taking the scopes keep every open scope reachable.
LEMMA CloseStays == IInv /\ CloseInv /\ [Next]_vars => CloseInv'
<1> SUFFICES ASSUME IInv, CloseInv, [Next]_vars PROVE CloseInv'
  OBVIOUS
<1> USE DEF runnerVars, workerVars
<1>0. /\ scope \in [Scopes -> ScopeStates] /\ call \in [Threads -> CallStates]
      /\ registered \in SUBSET Scopes
      /\ closed => registered = {}
      /\ \A s \in Scopes : Reachable(s)
  BY DEF IInv, Types, TypeOK, CloseInv
<1>1. CASE /\ UNCHANGED <<closed, registered>>
           /\ \A s \in Scopes : /\ scope'[s].made = scope[s].made
                                /\ scope[s].closed => scope'[s].closed
           /\ \A t \in Threads : call[t].at = "closing" => call'[t] = call[t]
  <2>1. ASSUME NEW s \in Scopes PROVE Reachable(s)'
    BY <1>0, <1>1 DEF Reachable
  <2> QED BY <1>0, <1>1, <2>1 DEF CloseInv
<1>2. ASSUME NEW t \in Threads, NEW r \in Scopes, NewScope(t, r) PROVE CloseInv'
  <2>1. /\ registered' = registered \cup {r} /\ ~closed' /\ call[t] = Idle
        /\ scope' = [scope EXCEPT ![r].made = TRUE]
        /\ \A u \in Threads : u # t => call'[u] = call[u]
    BY <1>0, <1>2 DEF NewScope
  <2>2. call[t].at # "closing" BY <2>1 DEF Idle
  <2>3. ASSUME NEW s \in Scopes PROVE Reachable(s)'
    <3>1. CASE s = r BY <2>1, <3>1 DEF Reachable
    <3>2. CASE s # r
      <4>1. scope'[s] = scope[s] BY <1>0, <2>1, <3>2
      <4> QED BY <1>0, <2>1, <2>2, <4>1 DEF Reachable
    <3> QED BY <3>1, <3>2
  <2> QED BY <2>1, <2>3 DEF CloseInv
<1>3. ASSUME NEW r \in Scopes, Shut(r)
      PROVE  scope'[r].closed /\ \A s \in Scopes : s # r => scope'[s] = scope[s]
  <2>1. Closed(r).closed BY <1>0 DEF Closed, ScopeStates
  <2> QED BY <1>0, <1>3, <2>1 DEF Shut
<1>4. ASSUME NEW t \in Threads, NEW r \in Scopes, CloseScope(t, r) PROVE CloseInv'
  <2>1. Shut(r) /\ registered' = registered \ {r} /\ UNCHANGED <<closed, call>>
    BY <1>4 DEF CloseScope
  <2>2. ASSUME NEW s \in Scopes PROVE Reachable(s)'
    <3>1. CASE s = r BY <1>3, <2>1, <3>1 DEF Reachable
    <3>2. CASE s # r BY <1>0, <1>3, <2>1, <3>2 DEF Reachable
    <3> QED BY <3>1, <3>2
  <2> QED BY <1>0, <2>1, <2>2 DEF CloseInv
<1>5. ASSUME NEW t \in Threads, CloseRunner(t) PROVE CloseInv'
  <2>1. /\ registered' = {} /\ scope' = scope /\ call[t] = Idle
        /\ call' = [call EXCEPT ![t] = [at |-> "closing", rest |-> registered]]
    BY <1>5 DEF CloseRunner
  <2>2. /\ call[t].at # "closing"
        /\ call'[t].at = "closing" /\ call'[t].rest = registered
        /\ \A u \in Threads : u # t => call'[u] = call[u]
    BY <1>0, <2>1 DEF Idle
  <2>3. ASSUME NEW s \in Scopes PROVE Reachable(s)'
    BY <1>0, <2>1, <2>2 DEF Reachable
  <2> QED BY <2>1, <2>3 DEF CloseInv
<1>6. ASSUME NEW t \in Threads, NEW r \in Scopes, RunnerClosed(t, r) PROVE CloseInv'
  <2>1. /\ call[t].at = "closing" /\ Shut(r) /\ UNCHANGED <<closed, registered>>
        /\ call' = [call EXCEPT ![t].rest = @ \ {r}]
    BY <1>6 DEF RunnerClosed
  <2>2. call[t] \in [at : {"closing"}, rest : SUBSET Scopes]
    BY <1>0, <2>1 DEF CallStates
  <2>3. /\ call'[t].at = "closing" /\ call'[t].rest = call[t].rest \ {r}
        /\ \A u \in Threads : u # t => call'[u] = call[u]
    BY <1>0, <2>1, <2>2
  <2>4. ASSUME NEW s \in Scopes PROVE Reachable(s)'
    <3>1. CASE s = r BY <1>3, <2>1, <3>1 DEF Reachable
    <3>2. CASE s # r
      <4>1. scope'[s] = scope[s] BY <1>3, <2>1, <3>2
      <4>2. ASSUME NEW u \in Threads, call[u].at = "closing", s \in call[u].rest
            PROVE  call'[u].at = "closing" /\ s \in call'[u].rest
        BY <2>3, <3>2, <4>2
      <4> QED BY <1>0, <2>1, <4>1, <4>2 DEF Reachable
    <3> QED BY <3>1, <3>2
  <2> QED BY <1>0, <2>1, <2>4 DEF CloseInv
<1>7. ASSUME NEW t \in Threads, CloseSignals(t) PROVE CloseInv'
  <2>1. /\ call[t].rest = {} /\ UNCHANGED <<closed, registered, scope>>
        /\ \A u \in Threads : u # t => call'[u] = call[u]
    BY <1>0, <1>7 DEF CloseSignals
  <2>2. ASSUME NEW s \in Scopes PROVE Reachable(s)'
    BY <1>0, <2>1 DEF Reachable
  <2> QED BY <1>0, <2>1, <2>2 DEF CloseInv
<1> QED BY <1>1, <1>2, <1>4, <1>5, <1>6, <1>7, OpenSteps

\* When the Runner.Close that took the scopes has returned, no scope is left
\* open or loading, whatever calls raced with it (register, schedule, Close).
THEOREM NoScopeSurvives == Spec => []ScopesCloseWithRunner
<1>1. Init => CloseInv
  BY DEF Init, CloseInv, Reachable, NewScopeState
<1>2. IInv /\ CloseInv => ScopesCloseWithRunner
  <2> SUFFICES ASSUME IInv, CloseInv, closed, \A t \in Threads : call[t].at # "closing",
                      NEW s \in Scopes, scope[s].made
               PROVE  scope[s].closed /\ scope[s].state # "loading"
    BY DEF ScopesCloseWithRunner
  <2>1. scope[s].closed BY DEF CloseInv, Reachable
  <2> QED BY <2>1 DEF IInv, Types, ScopesConsistent, ScopeConsistent
<1> QED BY <1>1, <1>2, CloseStays, Invariance, PTL DEF Spec

-----------------------------------------------------------------------------
(* What the observers are given.                                           *)

\* A snapshot on its way to an observer: a goroutine has still to dispatch it, or
\* the GUI thread to run, to check or to hand it.
Carries(c, m) == c.at \in {"deliver", "open", "check", "observe"} /\ c.msg = m
InFlight(m) ==
  (\E t \in Threads : Carries(call[t], m)) \/ m \in sending \/ m \in callbacks

\* What finish is about to dispatch belongs to an operation that has committed.
SendingCommitted ==
  \A m \in sending :
    /\ OpOf(m) \in Ops /\ phase[OpOf(m)] = "committed"
    /\ \A n \in sending : OpOf(n) = OpOf(m) => n = m

\* No snapshot is ahead of its scope, and one of the scope's revision is what the
\* scope shows.
InTime ==
  \A m \in Msg : InFlight(m) =>
    /\ m.rev <= scope[m.scope].revision
    /\ m.rev = scope[m.scope].revision => m = Snapshot(m.scope, scope[m.scope])
Seen == \A s \in Scopes : observed[s].rev <= scope[s].revision

\* An observer is given no snapshot older than its last one.
Forward ==
  call[GUI].at = "observe" => observed[call[GUI].msg.scope].rev <= call[GUI].msg.rev

\* Until the runner closes, an observer was given what its scope shows, or it is
\* on its way.
Expected(s) ==
  s \in Observers /\ scope[s].made /\ ~scope[s].closed /\ ~Invalidated(scope[s])
Underway ==
  \A s \in Scopes : Expected(s) =>
    \/ closed
    \/ InFlight(Snapshot(s, scope[s]))
    \/ observed[s] = Snapshot(s, scope[s])

ObserverInv == SendingCommitted /\ InTime /\ Seen /\ Forward /\ Underway

LEMMA CarriesIs ==
  /\ \A m : ~Carries(Idle, m)
  /\ \A m, n : /\ Carries(Deliver(n), m) <=> n = m
               /\ Carries(Open(n), m) <=> n = m
               /\ Carries([at |-> "check", msg |-> n], m) <=> n = m
               /\ Carries([at |-> "observe", msg |-> n], m) <=> n = m
  /\ \A c, m : c.at = "closing" => ~Carries(c, m)
BY DEF Carries, Idle, Deliver, Open

\* A goroutine that was idle, or closing, carries what its new call does.
LEMMA OneCall ==
  ASSUME Types, NEW t \in Threads, NEW c, call' = [call EXCEPT ![t] = c],
         UNCHANGED <<sending, callbacks>>, \A m : ~Carries(call[t], m)
  PROVE  \A m : InFlight(m)' <=> InFlight(m) \/ Carries(c, m)
<1>1. call \in [Threads -> CallStates] BY DEF Types, TypeOK
<1>2. call'[t] = c /\ \A u \in Threads : u # t => call'[u] = call[u] BY <1>1
<1> SUFFICES ASSUME NEW m PROVE InFlight(m)' <=> InFlight(m) \/ Carries(c, m)
  OBVIOUS
<1>3. (\E u \in Threads : Carries(call[u], m)') <=>
        (\E u \in Threads : Carries(call[u], m)) \/ Carries(c, m)
  <2>1. \A u \in Threads : Carries(call[u], m)' <=> Carries(call'[u], m) BY DEF Carries
  <2> QED BY <1>2, <2>1
<1> QED BY <1>3 DEF InFlight

\* Nothing is dispatched or handed.
LEMMA SameFlight ==
  ASSUME UNCHANGED <<call, sending, callbacks>> PROVE \A m : InFlight(m)' <=> InFlight(m)
BY DEF InFlight, Carries

-----------------------------------------------------------------------------
\* A scope shows something new, which is on its way unless nothing is promised.
Shows(s, sc) ==
  /\ scope' = [scope EXCEPT ![s] = sc] /\ sc \in ScopeStates
  /\ Snapshot(s, sc) = Snapshot(s, scope[s]) \/ sc.revision > scope[s].revision
  /\ \A m : InFlight(m)' => InFlight(m) \/ m = Snapshot(s, sc)
  /\ \A m : InFlight(m) => InFlight(m)'
  /\ sc.closed \/ Invalidated(sc) \/ InFlight(Snapshot(s, sc))'
  /\ UNCHANGED <<closed, observed>>

\* No scope changes, and snapshots come closer to their observers.
Moves ==
  /\ UNCHANGED scope /\ (closed => closed')
  /\ \A m : InFlight(m)' => InFlight(m)
  /\ \A m \in Msg : InFlight(m) =>
       \/ InFlight(m)' \/ m.scope \notin Observers \/ closed' \/ ~IsCurrent(m)
       \/ observed'[m.scope] = m
  /\ \/ UNCHANGED observed
     \/ LET m == call[GUI].msg IN
        /\ call[GUI].at = "observe" /\ m \in Msg
        /\ observed' = [observed EXCEPT ![m.scope] = m]

LEMMA ShowsKeeps ==
  ASSUME Types, InTime, Seen, Underway, NEW s \in Scopes, NEW sc, Shows(s, sc)
  PROVE  InTime' /\ Seen' /\ Underway'
<1>0. /\ scope \in [Scopes -> ScopeStates] /\ observed \in [Scopes -> Msg]
      /\ scope'[s] = sc /\ sc \in ScopeStates
      /\ \A r \in Scopes : r # s => scope'[r] = scope[r]
  BY DEF Types, TypeOK, Shows
<1>1. /\ scope[s].revision \in Nat /\ sc.revision \in Nat
      /\ \A r \in Scopes : observed[r].rev \in Nat /\ scope[r].revision \in Nat
  BY <1>0 DEF ScopeStates, Msg
<1>2. \/ Snapshot(s, sc) = Snapshot(s, scope[s]) /\ sc.revision = scope[s].revision
      \/ sc.revision > scope[s].revision
  BY DEF Shows, Snapshot
<1>3. InTime'
  <2> SUFFICES ASSUME NEW m \in Msg, InFlight(m)'
               PROVE  /\ m.rev <= scope'[m.scope].revision
                      /\ m.rev = scope'[m.scope].revision =>
                           m = Snapshot(m.scope, scope'[m.scope])
    BY DEF InTime, Snapshot
  <2>0. m.rev \in Nat /\ m.scope \in Scopes BY DEF Msg
  <2>1. CASE m = Snapshot(s, sc)
    <3>1. m.scope = s /\ m.rev = sc.revision BY <2>1 DEF Snapshot
    <3> QED BY <1>0, <1>1, <2>1, <3>1
  <2>2. CASE InFlight(m)
    <3>1. /\ m.rev <= scope[m.scope].revision
          /\ m.rev = scope[m.scope].revision => m = Snapshot(m.scope, scope[m.scope])
      BY <2>2 DEF InTime
    <3>2. CASE m.scope = s BY <1>0, <1>1, <1>2, <2>0, <3>1, <3>2
    <3>3. CASE m.scope # s BY <1>0, <2>0, <3>1, <3>3
    <3> QED BY <3>2, <3>3
  <2> QED BY <2>1, <2>2 DEF Shows
<1>4. Seen'
  <2> SUFFICES ASSUME NEW r \in Scopes PROVE observed'[r].rev <= scope'[r].revision
    BY DEF Seen
  <2>1. observed'[r] = observed[r] /\ observed[r].rev <= scope[r].revision BY DEF Shows, Seen
  <2> QED BY <1>0, <1>1, <1>2, <2>1
<1>5. Underway'
  <2> SUFFICES ASSUME NEW r \in Scopes, Expected(r)', ~closed'
               PROVE  InFlight(Snapshot(r, scope[r]))' \/ observed'[r] = Snapshot(r, scope'[r])
    BY DEF Underway, Snapshot
  <2>1. CASE r = s
    <3>1. ~sc.closed /\ ~Invalidated(sc) BY <1>0, <2>1 DEF Expected, Invalidated
    <3>2. InFlight(Snapshot(s, sc))' BY <3>1 DEF Shows
    <3>3. Snapshot(r, scope[r])' = Snapshot(s, sc) BY <1>0, <2>1 DEF Snapshot
    <3> QED BY <3>2, <3>3
  <2>2. CASE r # s
    <3>1. scope'[r] = scope[r] BY <1>0, <2>2
    <3>2. Expected(r) /\ ~closed BY <3>1 DEF Expected, Invalidated, Shows
    <3>3. InFlight(Snapshot(r, scope[r])) \/ observed[r] = Snapshot(r, scope[r])
      BY <3>2 DEF Underway
    <3> DEFINE m == Snapshot(r, scope[r])
    <3>4. m' = m /\ observed'[r] = observed[r] BY <3>1 DEF Snapshot, Shows
    <3>5. InFlight(m) => InFlight(m)' BY <3>4 DEF Shows
    <3> QED BY <3>1, <3>3, <3>4, <3>5
  <2> QED BY <2>1, <2>2
<1> QED BY <1>3, <1>4, <1>5

LEMMA MovesKeeps ==
  ASSUME Types, InTime, Seen, Forward, Underway, Moves
  PROVE  InTime' /\ Seen' /\ Underway'
<1>0. /\ scope' = scope /\ scope \in [Scopes -> ScopeStates] /\ observed \in [Scopes -> Msg]
  BY DEF Types, TypeOK, Moves
<1>1. InTime' BY <1>0 DEF InTime, Moves, Snapshot
<1>2. ASSUME NEW m \in Msg, m = call[GUI].msg, call[GUI].at = "observe",
             observed' = [observed EXCEPT ![m.scope] = m]
      PROVE  /\ InFlight(m) /\ m.scope \in Scopes /\ m.rev \in Nat
             /\ observed'[m.scope] = m
             /\ \A r \in Scopes : r # m.scope => observed'[r] = observed[r]
             /\ observed[m.scope].rev <= m.rev
  <2>1. m.scope \in Scopes /\ m.rev \in Nat BY DEF Msg
  <2>2. InFlight(m) BY <1>2 DEF InFlight, Carries, Threads
  <2> QED BY <1>0, <1>2, <2>1, <2>2 DEF Forward
<1>3. Seen'
  <2>1. CASE UNCHANGED observed BY <1>0, <2>1 DEF Seen
  <2>2. CASE observed' # observed
    <3>1. PICK m \in Msg : /\ m = call[GUI].msg /\ call[GUI].at = "observe"
                           /\ observed' = [observed EXCEPT ![m.scope] = m]
      BY <2>2 DEF Moves
    <3>2. m.rev <= scope[m.scope].revision BY <1>2, <3>1 DEF InTime
    <3> QED BY <1>0, <1>2, <3>1, <3>2 DEF Seen
  <2> QED BY <2>1, <2>2
<1>4. Underway'
  <2> SUFFICES ASSUME NEW r \in Scopes, Expected(r)', ~closed'
               PROVE  InFlight(Snapshot(r, scope[r]))' \/ observed'[r] = Snapshot(r, scope'[r])
    BY DEF Underway, Snapshot
  <2> DEFINE cur == Snapshot(r, scope[r])
  <2>1. Expected(r) /\ ~closed BY <1>0 DEF Expected, Invalidated, Moves
  <2>2. /\ cur \in Msg /\ cur.scope = r /\ cur.rev = scope[r].revision /\ r \in Observers
        /\ IsCurrent(cur) /\ cur' = cur /\ scope[r].revision \in Nat
    <3>1. scope[r] \in ScopeStates BY <1>0
    <3>2. cur \in Msg BY <3>1, SnapshotType
    <3> QED BY <1>0, <2>1, <3>1, <3>2 DEF Snapshot, IsCurrent, Expected, ScopeStates
  <2>3. InFlight(cur) \/ observed[r] = cur BY <2>1 DEF Underway
  <2> HIDE DEF cur
  <2>4. CASE InFlight(cur)
    <3>1. InFlight(cur)' \/ observed'[r] = cur BY <2>2, <2>4 DEF Moves
    <3> QED BY <1>0, <2>2, <3>1 DEF cur
  <2>5. CASE observed[r] = cur
    <3>1. CASE observed'[r] = observed[r] BY <1>0, <2>5, <3>1 DEF cur
    <3>2. CASE observed'[r] # observed[r]
      <4>1. PICK m \in Msg : /\ m = call[GUI].msg /\ call[GUI].at = "observe"
                             /\ observed' = [observed EXCEPT ![m.scope] = m]
        BY <3>2 DEF Moves
      <4>2. m.scope = r /\ InFlight(m) /\ observed'[r] = m /\ cur.rev <= m.rev /\ m.rev \in Nat
        BY <1>2, <2>5, <3>2, <4>1
      <4>3. m.rev <= scope[r].revision BY <4>2 DEF InTime
      <4>4. m.rev = scope[r].revision BY <2>2, <4>2, <4>3
      <4>5. m = cur BY <4>2, <4>4 DEF InTime, cur
      <4> QED BY <1>0, <4>2, <4>5 DEF cur
    <3> QED BY <3>1, <3>2
  <2> QED BY <2>3, <2>4, <2>5
<1> QED BY <1>1, <1>3, <1>4

-----------------------------------------------------------------------------
\* The exported operations show something new or leave all as it is.
LEMMA CallStepShows ==
  ASSUME Types, NEW t \in Threads, CallStep(t)
  PROVE  \E s \in Scopes, sc \in ScopeStates : Shows(s, sc)
<1> USE DEF runnerVars, workerVars
<1>0. /\ scope \in [Scopes -> ScopeStates] /\ call \in [Threads -> CallStates]
      /\ ScopesConsistent
  BY DEF Types, TypeOK
<1>1. PICK s \in Scopes :
        \/ NewScope(t, s)
        \/ \E k \in Kinds \cap Uses[s] : Start(t, s, k) \/ StartRejected(t, s, k)
        \/ Cancel(t, s)
        \/ Invalidate(t, s)
        \/ CloseScope(t, s)
  BY DEF CallStep
<1>2. /\ scope[s] \in ScopeStates /\ scope[s].revision \in Nat
      /\ scope[s].nextID \in Nat
  BY <1>0 DEF ScopeStates
<1>3. Types' /\ scope' \in [Scopes -> ScopeStates]
  BY CallStepTypes DEF Types, TypeOK
<1>4. ASSUME NEW sc, scope' = [scope EXCEPT ![s] = sc], call[t] = Idle,
             call' = [call EXCEPT ![t] = Deliver(Snapshot(s, sc))] \/
               call' = [call EXCEPT ![t] = Open(Snapshot(s, sc))],
             UNCHANGED <<sending, callbacks, closed, observed>>,
             Snapshot(s, sc) = Snapshot(s, scope[s]) \/ sc.revision > scope[s].revision
      PROVE  Shows(s, sc) /\ sc \in ScopeStates
  <2>1. scope'[s] = sc BY <1>0, <1>4
  <2>2. sc \in ScopeStates BY <1>3, <2>1
  <2>3. \A m : InFlight(m)' <=> InFlight(m) \/ m = Snapshot(s, sc)
    <3>1. \A m : ~Carries(call[t], m) BY <1>4, CarriesIs
    <3>2. ASSUME NEW c, call' = [call EXCEPT ![t] = c],
                 \A m : Carries(c, m) <=> Snapshot(s, sc) = m
          PROVE  \A m : InFlight(m)' <=> InFlight(m) \/ m = Snapshot(s, sc)
      <4>1. \A m : InFlight(m)' <=> InFlight(m) \/ Carries(c, m) BY <1>4, <3>1, <3>2, OneCall
      <4> QED BY <3>2, <4>1
    <3>3. CASE call' = [call EXCEPT ![t] = Deliver(Snapshot(s, sc))]
      BY <3>2, <3>3, CarriesIs
    <3>4. CASE call' = [call EXCEPT ![t] = Open(Snapshot(s, sc))]
      BY <3>2, <3>4, CarriesIs
    <3> QED BY <1>4, <3>3, <3>4
  <2>4. InFlight(Snapshot(s, sc))'
    <3>1. PICK m : m = Snapshot(s, sc) OBVIOUS
    <3>2. InFlight(m)' BY <2>3, <3>1
    <3>3. Snapshot(s, sc)' = m BY <3>1 DEF Snapshot
    <3> QED BY <3>1, <3>2, <3>3 DEF InFlight, Carries
  <2> QED BY <1>4, <2>2, <2>3, <2>4 DEF Shows
<1>5. ASSUME NEW sc, scope' = [scope EXCEPT ![s] = sc],
             UNCHANGED <<call, sending, callbacks, closed, observed>>,
             sc.closed \/ Invalidated(sc),
             Snapshot(s, sc) = Snapshot(s, scope[s]) \/ sc.revision > scope[s].revision
      PROVE  Shows(s, sc) /\ sc \in ScopeStates
  <2>1. scope'[s] = sc BY <1>0, <1>5
  <2>2. sc \in ScopeStates BY <1>3, <2>1
  <2> QED BY <1>5, <2>2, SameFlight DEF Shows
<1>6. CASE NewScope(t, s)
  <2>1. PICK sc : sc = [scope[s] EXCEPT !.made = TRUE] OBVIOUS
  <2>2. /\ scope' = [scope EXCEPT ![s] = sc] /\ scope'[s] = sc
        /\ Snapshot(s, sc) = Snapshot(s, scope[s])
    BY <1>0, <1>2, <1>6, <2>1 DEF NewScope, Snapshot, ScopeStates
  <2>3. Shows(s, sc) /\ sc \in ScopeStates BY <1>4, <1>6, <2>2 DEF NewScope
  <2> QED BY <2>3
<1>7. ASSUME NEW k \in Kinds, Start(t, s, k) \/ StartRejected(t, s, k)
      PROVE  \E sc \in ScopeStates : Shows(s, sc)
  <2>1. scope[s].nextID < MaxID /\ call[t] = Idle
    BY <1>7 DEF Start, StartRejected, MayStart
  <2>2. Started(s, k).revision = scope[s].revision + 1 /\ Started(s, k) \in ScopeStates
    BY <1>2, <2>1, StartedType DEF Started, ScopeStates
  <2>3. CASE Start(t, s, k)
    <3>1. PICK sc : sc = Started(s, k) OBVIOUS
    <3>2. /\ scope' = [scope EXCEPT ![s] = sc] /\ scope'[s] = sc
          /\ sc.revision > scope[s].revision
      BY <1>0, <1>2, <2>2, <2>3, <3>1 DEF Start
    <3>3. Shows(s, sc) /\ sc \in ScopeStates BY <1>4, <2>1, <2>3, <3>2 DEF Start
    <3> QED BY <3>3
  <2>4. CASE StartRejected(t, s, k)
    <3>1. PICK sc : sc = Rejected(s, k) OBVIOUS
    <3>2. sc.revision = scope[s].revision + 1 + 1 /\ sc.closed
      BY <1>2, <2>2, <3>1 DEF Rejected, ScopeStates
    <3>3. scope' = [scope EXCEPT ![s] = sc] /\ sc.revision > scope[s].revision
      BY <1>2, <2>4, <3>1, <3>2 DEF StartRejected
    <3>4. Shows(s, sc) /\ sc \in ScopeStates BY <1>5, <2>4, <3>2, <3>3 DEF StartRejected
    <3> QED BY <3>4
  <2> QED BY <1>7, <2>3, <2>4
<1>8. CASE Cancel(t, s)
  <2>1. PICK sc : sc = Cancelled(s) OBVIOUS
  <2>2. /\ scope' = [scope EXCEPT ![s] = sc] /\ scope'[s] = sc
        /\ sc.revision > scope[s].revision
    BY <1>0, <1>2, <1>8, <2>1 DEF Cancel, Cancelled, ScopeStates
  <2>3. Shows(s, sc) /\ sc \in ScopeStates BY <1>4, <1>8, <2>2 DEF Cancel
  <2> QED BY <2>3
<1>9. CASE Invalidate(t, s)
  <2>1. PICK sc : sc = Fresh(s) OBVIOUS
  <2>2. /\ scope' = [scope EXCEPT ![s] = sc]
        /\ sc.revision > scope[s].revision /\ Invalidated(sc)
    BY <1>0, <1>2, <1>9, <2>1 DEF Invalidate, Fresh, ScopeStates, Invalidated
  <2>3. Shows(s, sc) /\ sc \in ScopeStates BY <1>5, <1>9, <2>2 DEF Invalidate
  <2> QED BY <2>3
<1>10. CASE CloseScope(t, s)
  <2>1. PICK sc : sc = Closed(s) OBVIOUS
  <2>2. /\ scope' = [scope EXCEPT ![s] = sc] /\ sc.closed
        /\ Snapshot(s, sc) = Snapshot(s, scope[s]) \/ sc.revision > scope[s].revision
    BY <1>0, <1>2, <1>10, <2>1 DEF CloseScope, Shut, Closed, ScopeStates, Snapshot
  <2>3. Shows(s, sc) /\ sc \in ScopeStates BY <1>5, <1>10, <2>2 DEF CloseScope
  <2> QED BY <2>3
<1> QED BY <1>1, <1>6, <1>7, <1>8, <1>9, <1>10

\* Every step of a goroutine of the runner shows something or moves on.
LEMMA ThreadStepMoves ==
  ASSUME Types, NEW t \in Threads, ThreadStep(t)
  PROVE  Moves \/ \E s \in Scopes, sc \in ScopeStates : Shows(s, sc)
<1> USE DEF runnerVars, workerVars
<1>0. /\ scope \in [Scopes -> ScopeStates] /\ call \in [Threads -> CallStates]
  BY DEF Types, TypeOK
<1>1. CASE Dispatch(t)
  <2>1. PICK n \in Msg : n = call[t].msg
    BY <1>0, <1>1, CallTypes DEF Dispatch
  <2>2. /\ call' = [call EXCEPT ![t] = Idle] /\ callbacks' = callbacks \cup Closure(n)
        /\ UNCHANGED <<scope, closed, observed, sending>>
        /\ call'[t] = Idle /\ \A u \in Threads : u # t => call'[u] = call[u]
        /\ Carries(call[t], n)
    BY <1>0, <1>1, <2>1 DEF Dispatch, Carries
  <2>3. ASSUME NEW m, InFlight(m)' PROVE InFlight(m)
    <3>1. CASE \E u \in Threads : Carries(call'[u], m) BY <2>2, <3>1, CarriesIs DEF InFlight
    <3>2. CASE m \in sending \/ m \in callbacks' BY <2>2, <3>2 DEF Closure, InFlight
    <3> QED BY <2>2, <2>3, <3>1, <3>2 DEF InFlight, Carries
  <2>4. ASSUME NEW m \in Msg, InFlight(m), m.scope \in Observers PROVE InFlight(m)'
    <3>1. CASE m = n BY <2>2, <2>4, <3>1 DEF Closure, InFlight
    <3>2. CASE m # n BY <2>1, <2>2, <2>4, <3>2 DEF InFlight, Carries
    <3> QED BY <3>1, <3>2
  <2> QED BY <2>2, <2>3, <2>4 DEF Moves
<1>2. ASSUME NEW s \in Scopes, RunnerClosed(t, s)
      PROVE  Moves \/ \E sc \in ScopeStates : Shows(s, sc)
  <2>1. /\ call[t].at = "closing" /\ Shut(s)
        /\ call' = [call EXCEPT ![t].rest = @ \ {s}]
        /\ UNCHANGED <<closed, observed, sending, callbacks>>
    BY <1>2 DEF RunnerClosed
  <2>2. PICK c : c = [call[t] EXCEPT !.rest = call[t].rest \ {s}] OBVIOUS
  <2>3. c.at = "closing" /\ call' = [call EXCEPT ![t] = c]
    BY <1>0, <2>1, <2>2 DEF CallStates
  <2>4. \A m : InFlight(m)' <=> InFlight(m)
    <3>1. \A m : ~Carries(call[t], m) /\ ~Carries(c, m) BY <2>1, <2>3, CarriesIs
    <3>2. \A m : InFlight(m)' <=> InFlight(m) \/ Carries(c, m) BY <2>1, <2>3, <3>1, OneCall
    <3> QED BY <3>1, <3>2
  <2>5. CASE scope[s].closed BY <2>1, <2>4, <2>5 DEF Shut, Moves
  <2>6. CASE ~scope[s].closed
    <3>1. PICK sc : sc = Closed(s) OBVIOUS
    <3>2. scope' = [scope EXCEPT ![s] = sc] BY <2>1, <2>6, <3>1 DEF Shut
    <3>3. scope[s] \in ScopeStates /\ scope[s].revision \in Nat BY <1>0 DEF ScopeStates
    <3>4. /\ sc.closed
          /\ Snapshot(s, sc) = Snapshot(s, scope[s]) \/ sc.revision > scope[s].revision
      BY <3>1, <3>3 DEF Closed, ScopeStates, Snapshot
    <3>5. sc \in ScopeStates
      <4>1. scope' \in [Scopes -> ScopeStates] BY <2>1, ShutTypes
      <4> QED BY <1>0, <3>2, <4>1
    <3> QED BY <2>1, <2>4, <3>2, <3>4, <3>5 DEF Shows
  <2> QED BY <2>5, <2>6
<1>3. CASE CloseSignals(t)
  <2>1. /\ call[t].at = "closing" /\ call' = [call EXCEPT ![t] = Idle]
        /\ UNCHANGED <<closed, scope, observed, sending, callbacks>>
    BY <1>3 DEF CloseSignals
  <2>2. \A m : InFlight(m)' <=> InFlight(m) BY <2>1, CarriesIs, OneCall
  <2> QED BY <2>1, <2>2 DEF Moves
<1> QED BY <1>1, <1>2, <1>3 DEF ThreadStep

LEMMA OpStepMoves ==
  ASSUME Types, NEW o \in Ops, OpStep(o)
  PROVE  Moves \/ \E s \in Scopes, sc \in ScopeStates : Shows(s, sc)
<1> USE DEF runnerVars, workerVars
<1>0. /\ scope \in [Scopes -> ScopeStates] /\ call \in [Threads -> CallStates]
  BY DEF Types, TypeOK
<1>1. CASE AcquireSlot(o) \/ SkipSlot(o) \/ Begin(o) \/ Ignore(o)
  BY <1>1, SameFlight DEF AcquireSlot, SkipSlot, Begin, Ignore, Moves
<1>2. ASSUME NEW r \in Outcomes, Commit(o, r)
      PROVE  \E s \in Scopes, sc \in ScopeStates : Shows(s, sc)
  <2>1. PICK s \in Scopes : s = o[1] BY DEF Ops
  <2>2. PICK sc : sc = Finished(o, r) OBVIOUS
  <2>3. scope' = [scope EXCEPT ![s] = sc] /\ scope'[s] = sc
    BY <1>0, <1>2, <2>1, <2>2 DEF Commit
  <2>4. sc \in ScopeStates
    <3>1. scope' \in [Scopes -> ScopeStates] BY OpStepTypes DEF Types, TypeOK
    <3> QED BY <2>3, <3>1
  <2>5. scope[s].revision \in Nat /\ sc.revision > scope[s].revision
    BY <1>0, <2>1, <2>2 DEF Finished, ScopeStates
  <2>6. /\ sending' = sending \cup {Snapshot(s, sc)}
        /\ UNCHANGED <<closed, observed, call, callbacks>>
    BY <1>2, <2>1, <2>3 DEF Commit
  <2>7. \A m : InFlight(m)' <=> InFlight(m) \/ m = Snapshot(s, sc)
    BY <2>6 DEF InFlight, Carries
  <2>8. InFlight(Snapshot(s, sc))' BY <2>6 DEF InFlight, Snapshot
  <2> QED BY <2>3, <2>4, <2>5, <2>6, <2>7, <2>8 DEF Shows
<1>3. CASE Publish(o)
  <2>1. PICK n \in sending : sending' = sending \ {n} /\ callbacks' = callbacks \cup Closure(n)
    BY <1>3 DEF Publish
  <2>2. UNCHANGED <<closed, observed, call, scope>> BY <1>3 DEF Publish
  <2>3. ASSUME NEW m, InFlight(m)' PROVE InFlight(m)
    BY <2>1, <2>2, <2>3 DEF InFlight, Carries, Closure
  <2>4. ASSUME NEW m \in Msg, InFlight(m), m.scope \in Observers PROVE InFlight(m)'
    BY <2>1, <2>2, <2>4 DEF InFlight, Carries, Closure
  <2> QED BY <2>2, <2>3, <2>4 DEF Moves
<1> QED BY <1>1, <1>2, <1>3 DEF OpStep

LEMMA GuiStepMoves ==
  ASSUME Types, GuiStep
  PROVE  Moves
<1> USE DEF runnerVars, workerVars
<1>0. /\ scope \in [Scopes -> ScopeStates] /\ call \in [Threads -> CallStates]
      /\ callbacks \in SUBSET Msg /\ GUI \in Threads
  BY DEF Types, TypeOK, Threads
<1>1. ASSUME NEW n \in callbacks, RunCallback(n) PROVE Moves
  <2>1. /\ call[GUI] = Idle /\ callbacks' = callbacks \ {n}
        /\ UNCHANGED <<closed, scope, sending, observed>>
        /\ \A u \in Threads : u # GUI => call'[u] = call[u]
        /\ call'[GUI] = IF closed THEN Idle ELSE [at |-> "check", msg |-> n]
    BY <1>0, <1>1 DEF RunCallback
  <2>2. \A m : ~Carries(call[GUI], m) BY <2>1, CarriesIs
  <2>3. /\ \A m : Carries(call'[GUI], m) => m = n
        /\ ~closed => Carries(call'[GUI], n)
    <3>1. CASE closed
      <4>1. call'[GUI] = Idle BY <2>1, <3>1
      <4>2. \A m : ~Carries(call'[GUI], m) BY <4>1, CarriesIs
      <4> QED BY <3>1, <4>2
    <3>2. CASE ~closed
      <4>1. call'[GUI] = [at |-> "check", msg |-> n] BY <2>1, <3>2
      <4>2. \A m : Carries(call'[GUI], m) <=> n = m BY <4>1 DEF Carries
      <4> QED BY <4>2
    <3> QED BY <3>1, <3>2
  <2>5. ASSUME NEW m, InFlight(m)' PROVE InFlight(m)
    <3>1. (\E u \in Threads : Carries(call'[u], m)) \/ m \in sending' \/ m \in callbacks'
      BY <2>5 DEF InFlight, Carries
    <3> QED BY <2>1, <2>3, <3>1 DEF InFlight
  <2>6. ASSUME NEW m, InFlight(m), ~closed PROVE InFlight(m)'
    <3>1. (\E u \in Threads : Carries(call'[u], m)) \/ m \in sending' \/ m \in callbacks'
      BY <1>0, <2>1, <2>2, <2>3, <2>6 DEF InFlight
    <3> QED BY <3>1 DEF InFlight, Carries
  <2> QED BY <2>1, <2>5, <2>6 DEF Moves
<1>2. CASE CheckRevision
  <2>1. PICK n \in Msg : n = call[GUI].msg BY <1>0, <1>2, CallTypes DEF CheckRevision
  <2>2. /\ call[GUI].at = "check"
        /\ UNCHANGED <<closed, scope, sending, callbacks, observed>>
        /\ \A u \in Threads : u # GUI => call'[u] = call[u]
        /\ call'[GUI] = IF IsCurrent(n) THEN [at |-> "observe", msg |-> n] ELSE Idle
    BY <1>0, <1>2, <2>1 DEF CheckRevision
  <2>3. \A m : Carries(call[GUI], m) <=> m = n BY <2>1, <2>2 DEF Carries
  <2>4. /\ \A m : Carries(call'[GUI], m) => m = n
        /\ IsCurrent(n) => Carries(call'[GUI], n)
    <3>1. CASE ~IsCurrent(n)
      <4>1. call'[GUI] = Idle BY <2>2, <3>1
      <4>2. \A m : ~Carries(call'[GUI], m) BY <4>1, CarriesIs
      <4> QED BY <3>1, <4>2
    <3>2. CASE IsCurrent(n)
      <4>1. call'[GUI] = [at |-> "observe", msg |-> n] BY <2>2, <3>2
      <4>2. \A m : Carries(call'[GUI], m) <=> n = m BY <4>1 DEF Carries
      <4> QED BY <4>2
    <3> QED BY <3>1, <3>2
  <2>6. ASSUME NEW m, InFlight(m)' PROVE InFlight(m)
    <3>1. (\E u \in Threads : Carries(call'[u], m)) \/ m \in sending' \/ m \in callbacks'
      BY <2>6 DEF InFlight, Carries
    <3> QED BY <1>0, <2>2, <2>3, <2>4, <3>1 DEF InFlight
  <2>7. ASSUME NEW m, InFlight(m), IsCurrent(m) PROVE InFlight(m)'
    <3>1. (\E u \in Threads : Carries(call'[u], m)) \/ m \in sending' \/ m \in callbacks'
      BY <1>0, <2>2, <2>3, <2>4, <2>7 DEF InFlight
    <3> QED BY <3>1 DEF InFlight, Carries
  <2> QED BY <2>2, <2>6, <2>7 DEF Moves
<1>3. CASE Observe
  <2>1. PICK n \in Msg : n = call[GUI].msg BY <1>0, <1>3, CallTypes DEF Observe
  <2>2. /\ call[GUI].at = "observe" /\ call'[GUI] = Idle
        /\ UNCHANGED <<closed, scope, sending, callbacks>>
        /\ \A u \in Threads : u # GUI => call'[u] = call[u]
        /\ observed' = [observed EXCEPT ![n.scope] = n]
    BY <1>0, <1>3, <2>1 DEF Observe
  <2>3. \A m : Carries(call[GUI], m) <=> m = n BY <2>1, <2>2 DEF Carries
  <2>4. \A m : ~Carries(call'[GUI], m) BY <2>2, CarriesIs
  <2>5. ASSUME NEW m, InFlight(m)' PROVE InFlight(m)
    <3>1. (\E u \in Threads : Carries(call'[u], m)) \/ m \in sending' \/ m \in callbacks'
      BY <2>5 DEF InFlight, Carries
    <3> QED BY <1>0, <2>2, <2>4, <3>1 DEF InFlight
  <2>6. ASSUME NEW m \in Msg, InFlight(m) PROVE InFlight(m)' \/ observed'[m.scope] = m
    <3>1. CASE m = n
      <4>1. n.scope \in Scopes /\ observed \in [Scopes -> Msg] BY DEF Msg, Types, TypeOK
      <4> QED BY <2>2, <3>1, <4>1
    <3>2. CASE m # n
      <4>1. (\E u \in Threads : Carries(call'[u], m)) \/ m \in sending' \/ m \in callbacks'
        BY <1>0, <2>2, <2>3, <2>6, <3>2 DEF InFlight
      <4> QED BY <4>1 DEF InFlight, Carries
    <3> QED BY <3>1, <3>2
  <2> QED BY <2>1, <2>2, <2>5, <2>6 DEF Moves
<1> QED BY <1>1, <1>2, <1>3 DEF GuiStep

LEMMA NextMoves ==
  ASSUME Types, [Next]_vars
  PROVE  Moves \/ \E s \in Scopes, sc \in ScopeStates : Shows(s, sc)
<1> USE DEF runnerVars, workerVars
<1>1. ASSUME NEW t \in Threads, CloseRunner(t) PROVE Moves
  <2>1. /\ call[t] = Idle /\ call' = [call EXCEPT ![t] = [at |-> "closing", rest |-> registered]]
        /\ closed' /\ UNCHANGED <<scope, sending, callbacks, observed>>
    BY <1>1 DEF CloseRunner
  <2>2. \A m : ~Carries(call[t], m) BY <2>1, CarriesIs
  <2>3. PICK c : c = [at |-> "closing", rest |-> registered] OBVIOUS
  <2>4. \A m : ~Carries(c, m) BY <2>3 DEF Carries
  <2>5. \A m : InFlight(m)' <=> InFlight(m) \/ Carries(c, m)
    BY <2>1, <2>2, <2>3, OneCall
  <2> QED BY <2>1, <2>4, <2>5 DEF Moves
<1>2. ASSUME ParentCancel \/ WorkerStep \/ UNCHANGED vars PROVE Moves
  BY <1>2, SameFlight DEF ParentCancel, WorkerStep, WorkerWakes, WorkerTakes, WorkerDrained,
                          vars, Moves
<1> QED BY <1>1, <1>2, CallStepShows, ThreadStepMoves, OpStepMoves, GuiStepMoves
        DEF Next, Threads, Terminated

\* The GUI thread hands over only what it has just found current.
LEMMA ForwardStays ==
  ASSUME Types, Seen, Forward, [Next]_vars
  PROVE  Forward'
<1> USE DEF runnerVars, workerVars
<1> DEFINE Handing == call[GUI].at = "observe"
<1>0. /\ call \in [Threads -> CallStates] /\ GUI \in Threads
  BY DEF Types, TypeOK, Threads
<1>1. ASSUME UNCHANGED observed, call'[GUI] = call[GUI] PROVE Forward'
  BY <1>1 DEF Forward
<1>2. ASSUME call'[GUI].at # "observe" PROVE Forward'
  BY <1>2 DEF Forward
<1>3. ASSUME NEW t \in Threads, NEW c, c.at # "observe", call' = [call EXCEPT ![t] = c],
             UNCHANGED observed
      PROVE  Forward'
  BY <1>0, <1>1, <1>2, <1>3
<1>4. Idle.at # "observe" /\ \A m : Deliver(m).at # "observe" /\ Open(m).at # "observe"
  BY DEF Idle, Deliver, Open
<1>5. ASSUME NEW t \in Callers, CallStep(t) PROVE Forward'
  <2>1. UNCHANGED observed /\ t \in Threads
    BY <1>5 DEF CallStep, NewScope, Start, StartRejected, Cancel, Invalidate, CloseScope, Threads
  <2>2. \/ call' = call
        \/ \E m : call' = [call EXCEPT ![t] = Deliver(m)] \/ call' = [call EXCEPT ![t] = Open(m)]
    BY <1>5 DEF CallStep, NewScope, Start, StartRejected, Cancel, Invalidate, CloseScope
  <2> QED BY <1>1, <1>3, <1>4, <2>1, <2>2
<1>6. ASSUME NEW t \in Threads, CloseRunner(t) PROVE Forward'
  <2>1. PICK c : c.at = "closing" /\ call' = [call EXCEPT ![t] = c]
    BY <1>6 DEF CloseRunner
  <2> QED BY <1>3, <1>6, <2>1 DEF CloseRunner
<1>7. ASSUME NEW t \in Threads, Dispatch(t) \/ CloseSignals(t) PROVE Forward'
  BY <1>3, <1>4, <1>7 DEF Dispatch, CloseSignals
<1>8. ASSUME NEW t \in Threads, NEW s \in Scopes, RunnerClosed(t, s) PROVE Forward'
  <2>1. PICK c : c = [call[t] EXCEPT !.rest = call[t].rest \ {s}] OBVIOUS
  <2>2. c.at = "closing" /\ call' = [call EXCEPT ![t] = c]
    BY <1>0, <1>8, <2>1 DEF RunnerClosed, CallStates
  <2> QED BY <1>3, <1>8, <2>2 DEF RunnerClosed
<1>9. ASSUME ParentCancel \/ WorkerStep \/ UNCHANGED vars PROVE Forward'
  BY <1>1, <1>9 DEF ParentCancel, WorkerStep, WorkerWakes, WorkerTakes, WorkerDrained, vars
<1>10. ASSUME NEW o \in Ops, OpStep(o) PROVE Forward'
  BY <1>1, <1>10 DEF OpStep, AcquireSlot, SkipSlot, Begin, Commit, Ignore, Publish
<1>11. ASSUME GuiStep PROVE Forward'
  <2>1. CASE \E m \in callbacks : RunCallback(m)
    <3>1. call'[GUI].at # "observe" BY <1>0, <2>1 DEF RunCallback, Idle
    <3> QED BY <1>2, <3>1
  <2>2. CASE Observe
    <3>1. call'[GUI].at # "observe" BY <1>0, <2>2 DEF Observe, Idle
    <3> QED BY <1>2, <3>1
  <2>3. CASE CheckRevision
    <3>1. PICK n \in Msg : n = call[GUI].msg BY <1>0, <2>3, CallTypes DEF CheckRevision
    <3>2. /\ call'[GUI] = IF IsCurrent(n) THEN [at |-> "observe", msg |-> n] ELSE Idle
          /\ UNCHANGED observed
      BY <1>0, <2>3, <3>1 DEF CheckRevision
    <3>3. CASE ~IsCurrent(n) BY <1>2, <1>4, <3>2, <3>3
    <3>4. CASE IsCurrent(n)
      <4>1. observed[n.scope].rev <= n.rev BY <3>4 DEF IsCurrent, Seen, Msg
      <4>2. call'[GUI].msg = n BY <3>2, <3>4
      <4> QED BY <3>2, <4>1, <4>2 DEF Forward
    <3> QED BY <3>3, <3>4
  <2> QED BY <1>11, <2>1, <2>2, <2>3 DEF GuiStep
<1> QED BY <1>5, <1>6, <1>7, <1>8, <1>9, <1>10, <1>11 DEF Next, ThreadStep, Threads, Terminated

\* An operation commits once, and what it sends is gone when it is done.
LEMMA SendingStays ==
  ASSUME IInv, SendingCommitted, [Next]_vars
  PROVE  SendingCommitted'
<1> USE DEF runnerVars, workerVars
<1>0. /\ phase \in [Ops -> Phases] /\ scope \in [Scopes -> ScopeStates] /\ Types
  BY DEF IInv, Types, TypeOK
<1>1. ASSUME UNCHANGED sending,
             \A o \in Ops : phase[o] = "committed" => phase'[o] = "committed"
      PROVE  SendingCommitted'
  BY <1>1 DEF SendingCommitted, OpOf
<1>2. ASSUME NEW o, NEW p, phase' = [phase EXCEPT ![o] = p], phase[o] # "committed",
             UNCHANGED sending
      PROVE  SendingCommitted'
  <2>1. \A q \in Ops : phase[q] = "committed" => phase'[q] = "committed" BY <1>0, <1>2
  <2> QED BY <1>1, <1>2, <2>1
<1>3. ASSUME NEW t \in Callers, CallStep(t) PROVE SendingCommitted'
  <2>1. CASE UNCHANGED <<phase, sending>> BY <1>1, <2>1
  <2>2. ASSUME NEW s \in Scopes, NEW k \in Kinds, Start(t, s, k) PROVE SendingCommitted'
    <3>1. PICK o : o = <<s, scope[s].nextID + 1>> OBVIOUS
    <3>2. phase' = [phase EXCEPT ![o] = "queued"] /\ UNCHANGED sending
      BY <2>2, <3>1 DEF Start
    <3>3. phase[o] # "committed"
      <4>0. scope[s].nextID \in 0 .. MaxID /\ scope[s].nextID < MaxID
        BY <1>0, <2>2 DEF Start, MayStart, ScopeStates
      <4>1. /\ scope[s].nextID \in Nat
            /\ scope[s].nextID + 1 \in 1 .. MaxID
        BY <4>0, BoundAssumption
      <4>2. o \in Ops BY <3>1, <4>1 DEF Ops
      <4>3. o[1] = s /\ o[2] = scope[s].nextID + 1 BY <3>1
      <4>4. o[2] > scope[o[1]].nextID BY <4>1, <4>3
      <4> QED BY <4>2, <4>4 DEF IInv, FreshOps
    <3> QED BY <1>2, <3>2, <3>3
  <2> QED BY <1>3, <2>1, <2>2
          DEF CallStep, NewScope, StartRejected, Cancel, Invalidate, CloseScope
<1>4. ASSUME NEW t \in Threads, ThreadStep(t) \/ CloseRunner(t) PROVE SendingCommitted'
  BY <1>1, <1>4 DEF ThreadStep, Dispatch, RunnerClosed, CloseSignals, CloseRunner
<1>5. ASSUME ParentCancel \/ GuiStep \/ UNCHANGED vars PROVE SendingCommitted'
  BY <1>1, <1>5 DEF ParentCancel, GuiStep, RunCallback, CheckRevision, Observe, vars
<1>6. ASSUME WorkerStep PROVE SendingCommitted'
  <2>1. CASE WorkerTakes
    <3>1. PICK o : o = Head(mutationQueue) OBVIOUS
    <3>2. phase[o] = "queued"
      <4>1. 1 \in 1 .. Len(mutationQueue) /\ mutationQueue[1] = o
        BY <2>1, <3>1, <1>0 DEF WorkerTakes, Types, TypeOK
      <4> QED BY <4>1 DEF IInv, QueueWaits
    <3> QED BY <1>2, <2>1, <3>1, <3>2 DEF WorkerTakes
  <2> QED BY <1>1, <1>6, <2>1 DEF WorkerStep, WorkerWakes, WorkerDrained
<1>7. ASSUME NEW o \in Ops, OpStep(o) PROVE SendingCommitted'
  <2>1. CASE AcquireSlot(o) \/ SkipSlot(o) \/ Begin(o)
    BY <1>2, <2>1 DEF AcquireSlot, SkipSlot, Begin
  <2>2. CASE Ignore(o) BY <1>2, <2>2 DEF Ignore, Release, Returns
  <2>3. ASSUME NEW r \in Outcomes, Commit(o, r) PROVE SendingCommitted'
    <3>1. PICK n : n = Snapshot(o[1], scope'[o[1]]) OBVIOUS
    <3>2. /\ phase[o] # "committed" /\ phase' = [phase EXCEPT ![o] = "committed"]
          /\ sending' = sending \cup {n}
      BY <2>3, <3>1 DEF Commit, Returns
    <3>3. OpOf(n) = o
      <4>1. scope[o[1]].id = o[2] /\ o[1] \in Scopes /\ o = <<o[1], o[2]>>
        BY <2>3 DEF Commit, Current, Ops
      <4>2. scope'[o[1]].id = scope[o[1]].id
        BY <1>0, <2>3, <4>1 DEF Commit, Finished, ScopeStates
      <4> QED BY <3>1, <4>1, <4>2 DEF OpOf, Snapshot
    <3>4. \A m \in sending : OpOf(m) \in Ops /\ OpOf(m) # o /\ phase'[OpOf(m)] = "committed"
      BY <1>0, <3>2 DEF SendingCommitted
    <3>5. phase'[o] = "committed" BY <1>0, <3>2
    <3>6. ASSUME NEW m \in sending' PROVE OpOf(m) \in Ops /\ phase'[OpOf(m)] = "committed"
      BY <3>2, <3>3, <3>4, <3>5
    <3>7. ASSUME NEW m \in sending', NEW l \in sending', OpOf(l) = OpOf(m) PROVE l = m
      BY <3>2, <3>3, <3>4, <3>7 DEF SendingCommitted
    <3> QED BY <3>6, <3>7 DEF SendingCommitted, OpOf
  <2>4. CASE Publish(o)
    <3>1. PICK n \in sending : OpOf(n) = o /\ sending' = sending \ {n}
      BY <2>4 DEF Publish
    <3>2. phase' = [phase EXCEPT ![o] = "done"] BY <2>4 DEF Publish, Release
    <3>3. \A m \in sending' : OpOf(m) # o BY <3>1 DEF SendingCommitted
    <3>4. ASSUME NEW m \in sending' PROVE OpOf(m) \in Ops /\ phase'[OpOf(m)] = "committed"
      BY <1>0, <3>1, <3>2, <3>3 DEF SendingCommitted
    <3>5. ASSUME NEW m \in sending', NEW l \in sending', OpOf(l) = OpOf(m) PROVE l = m
      BY <3>1, <3>5 DEF SendingCommitted
    <3> QED BY <3>4, <3>5 DEF SendingCommitted, OpOf
  <2> QED BY <1>7, <2>1, <2>2, <2>3, <2>4 DEF OpStep
<1> QED BY <1>3, <1>4, <1>5, <1>6, <1>7 DEF Next, Threads, Terminated

LEMMA ObserverStays == IInv /\ ObserverInv /\ [Next]_vars => ObserverInv'
<1> SUFFICES ASSUME IInv, ObserverInv, [Next]_vars PROVE ObserverInv'
  OBVIOUS
<1>1. Types /\ SendingCommitted /\ InTime /\ Seen /\ Forward /\ Underway
  BY DEF IInv, ObserverInv
<1>2. SendingCommitted' BY <1>1, SendingStays
<1>3. Forward' BY <1>1, ForwardStays
<1>4. InTime' /\ Seen' /\ Underway' BY <1>1, NextMoves, ShowsKeeps, MovesKeeps
<1> QED BY <1>2, <1>3, <1>4 DEF ObserverInv

\* No final transition is lost, for any number of goroutines that call and any
\* order in which the Dispatcher runs what it was given: once all is quiet, an open
\* scope's observer was last given what Snapshot() returns (finish, Cancel, deliver).
THEOREM ObserversCatchUp == Spec => []ObserverCatchesUp
<1>1. Init => ObserverInv
  <2> SUFFICES ASSUME Init PROVE ObserverInv OBVIOUS
  <2>1. \A m : ~InFlight(m) BY CarriesIs DEF Init, InFlight
  <2>2. SendingCommitted BY DEF Init, SendingCommitted
  <2>3. InTime BY <2>1 DEF InTime
  <2>4. Seen BY DEF Init, Seen, NewScopeState
  <2>5. Forward BY DEF Init, Forward, Idle, Threads
  <2>6. Underway BY DEF Init, Underway, Expected, NewScopeState
  <2> QED BY <2>2, <2>3, <2>4, <2>5, <2>6 DEF ObserverInv
<1>2. Init => CloseInv
  BY DEF Init, CloseInv, Reachable, NewScopeState
<1>3. IInv /\ CloseInv /\ ObserverInv => ObserverCatchesUp
  <2> SUFFICES ASSUME IInv, CloseInv, ObserverInv, Quiet, NEW s \in Scopes,
                      s \in Observers, scope[s].made, ~scope[s].closed, ~Invalidated(scope[s])
               PROVE  observed[s] = Snapshot(s, scope[s])
    BY DEF ObserverCatchesUp
  <2>1. \A t \in Threads : call[t] = Idle BY DEF Quiet
  <2>2. ~closed BY <2>1 DEF CloseInv, Reachable, Idle
  <2>3. sending = {}
    <3> SUFFICES ASSUME NEW m \in sending PROVE FALSE OBVIOUS
    <3>1. OpOf(m) \in Ops /\ phase[OpOf(m)] = "committed" BY DEF ObserverInv, SendingCommitted
    <3> QED BY <3>1 DEF Quiet, Unfinished
  <2>4. \A m : ~InFlight(m) BY <2>1, <2>3, CarriesIs DEF InFlight, Quiet
  <2> QED BY <2>2, <2>4 DEF ObserverInv, Underway, Expected
<1> QED BY <1>1, <1>2, <1>3, ObserverStays, CloseStays, Invariance, PTL DEF Spec

-----------------------------------------------------------------------------
(* Calls on the GUI thread only.                                           *)

\* Every goroutine but the GUI thread is idle, and what the GUI thread is about to
\* hand over is of the operation its scope shows.
OnGUI ==
  /\ rootDone => closed
  /\ \A t \in Threads : t # GUI => call[t] = Idle
  /\ call[GUI].at = "observe" =>
       LET m == call[GUI].msg
       IN  ~scope[m.scope].closed /\ m.id = scope[m.scope].id

LEMMA OnGUIStays ==
  ASSUME Callers \subseteq {GUI}, "parent" \notin Shutdowns,
         Types, InTime, OnGUI, [Next]_vars
  PROVE  OnGUI'
<1> USE DEF runnerVars, workerVars
<1>0. /\ call \in [Threads -> CallStates] /\ scope \in [Scopes -> ScopeStates]
      /\ GUI \in Threads
  BY DEF Types, TypeOK, Threads
<1>1. ASSUME UNCHANGED <<rootDone, closed, scope, call>> PROVE OnGUI'
  BY <1>1 DEF OnGUI
<1>2. ASSUME NEW c, call' = [call EXCEPT ![GUI] = c], c.at # "observe",
             rootDone' => closed'
      PROVE  OnGUI'
  BY <1>0, <1>2 DEF OnGUI
<1>3. Idle.at # "observe" /\ \A m : Deliver(m).at # "observe" /\ Open(m).at # "observe"
  BY DEF Idle, Deliver, Open
<1>4. ASSUME NEW t \in Callers, CallStep(t) PROVE OnGUI'
  <2>1. t = GUI /\ UNCHANGED <<rootDone, closed>>
    BY <1>4 DEF CallStep, NewScope, Start, StartRejected, Cancel, Invalidate, CloseScope
  <2>2. /\ call[GUI] = Idle
        /\ \/ call' = call
           \/ \E m : call' = [call EXCEPT ![t] = Deliver(m)] \/ call' = [call EXCEPT ![t] = Open(m)]
    BY <1>4, <2>1 DEF CallStep, NewScope, Start, StartRejected, MayStart, Cancel, Invalidate,
                      CloseScope
  <2>3. CASE call' = call BY <1>3, <2>1, <2>2, <2>3 DEF OnGUI
  <2>4. CASE call' # call BY <1>2, <1>3, <2>1, <2>2, <2>4 DEF OnGUI
  <2> QED BY <2>3, <2>4
<1>5. ASSUME NEW t \in Threads, CloseRunner(t) PROVE OnGUI'
  <2>1. t = GUI /\ closed'
    BY <1>5 DEF CloseRunner, OnGUI, Threads
  <2>2. PICK c : c.at = "closing" /\ call' = [call EXCEPT ![GUI] = c]
    BY <1>5, <2>1 DEF CloseRunner
  <2> QED BY <1>2, <2>1, <2>2
<1>6. ASSUME NEW t \in Threads, ThreadStep(t) PROVE OnGUI'
  <2>1. t = GUI
    BY <1>6 DEF ThreadStep, Dispatch, RunnerClosed, CloseSignals, OnGUI, Idle
  <2>2. CASE Dispatch(t) \/ CloseSignals(t)
    BY <1>2, <1>3, <2>1, <2>2 DEF Dispatch, CloseSignals, OnGUI
  <2>3. ASSUME NEW s \in Scopes, RunnerClosed(t, s) PROVE OnGUI'
    <3>1. PICK c : c = [call[t] EXCEPT !.rest = call[t].rest \ {s}] OBVIOUS
    <3>2. c.at = "closing" /\ call' = [call EXCEPT ![t] = c]
      BY <1>0, <2>3, <3>1 DEF RunnerClosed, CallStates
    <3> QED BY <1>2, <2>1, <2>3, <3>2 DEF RunnerClosed, OnGUI
  <2> QED BY <1>6, <2>2, <2>3 DEF ThreadStep
<1>7. ASSUME WorkerStep \/ UNCHANGED vars PROVE OnGUI'
  BY <1>1, <1>7 DEF WorkerStep, WorkerWakes, WorkerTakes, WorkerDrained, vars
<1>8. ASSUME NEW o \in Ops, OpStep(o) PROVE OnGUI'
  <2>1. CASE AcquireSlot(o) \/ SkipSlot(o) \/ Begin(o) \/ Ignore(o) \/ Publish(o)
    BY <1>1, <2>1 DEF AcquireSlot, SkipSlot, Begin, Ignore, Publish
  <2>2. ASSUME NEW r \in Outcomes, Commit(o, r) PROVE OnGUI'
    <3>1. scope' = [scope EXCEPT ![o[1]] = Finished(o, r)] /\ UNCHANGED <<rootDone, closed, call>>
      BY <2>2 DEF Commit
    <3>2. o[1] \in Scopes /\ scope[o[1]] \in ScopeStates BY <1>0 DEF Ops
    <3>3. Finished(o, r).closed = scope[o[1]].closed /\ Finished(o, r).id = scope[o[1]].id
      BY <3>2 DEF Finished, ScopeStates
    <3>4. ASSUME NEW s \in Scopes
          PROVE  scope'[s].closed = scope[s].closed /\ scope'[s].id = scope[s].id
      BY <1>0, <3>1, <3>3
    <3>5. call[GUI].at = "observe" => call[GUI].msg.scope \in Scopes
      BY <1>0, CallTypes DEF Msg
    <3> QED BY <3>1, <3>4, <3>5 DEF OnGUI
  <2> QED BY <1>8, <2>1, <2>2 DEF OpStep
<1>9. ASSUME GuiStep PROVE OnGUI'
  <2>1. CASE \E m \in callbacks : RunCallback(m)
    <3>1. PICK c : c.at # "observe" /\ call' = [call EXCEPT ![GUI] = c]
      <4>1. PICK m \in callbacks : RunCallback(m) BY <2>1
      <4>2. PICK c : c = IF closed THEN Idle ELSE [at |-> "check", msg |-> m] OBVIOUS
      <4> QED BY <1>3, <4>1, <4>2 DEF RunCallback
    <3> QED BY <1>2, <2>1, <3>1 DEF RunCallback, OnGUI
  <2>2. CASE Observe BY <1>2, <1>3, <2>2 DEF Observe, OnGUI
  <2>3. CASE CheckRevision
    <3>1. PICK n \in Msg : n = call[GUI].msg BY <1>0, <2>3, CallTypes DEF CheckRevision
    <3>2. /\ UNCHANGED <<rootDone, closed, scope>> /\ call[GUI].at = "check"
          /\ call' = [call EXCEPT ![GUI] =
                         IF IsCurrent(n) THEN [at |-> "observe", msg |-> n] ELSE Idle]
      BY <2>3, <3>1 DEF CheckRevision
    <3>3. CASE ~IsCurrent(n)
      <4>1. call' = [call EXCEPT ![GUI] = Idle] BY <3>2, <3>3
      <4> QED BY <1>2, <1>3, <3>2, <4>1 DEF OnGUI
    <3>4. CASE IsCurrent(n)
      <4>1. /\ call'[GUI].at = "observe" /\ call'[GUI].msg = n
            /\ \A t \in Threads : t # GUI => call'[t] = call[t]
        BY <1>0, <3>2, <3>4
      <4>2. InFlight(n) BY <1>0, <3>1, <3>2 DEF InFlight, Carries
      <4>3. n = Snapshot(n.scope, scope[n.scope]) /\ ~scope[n.scope].closed
        BY <3>4, <4>2 DEF InTime, IsCurrent
      <4>4. n.id = scope[n.scope].id BY <4>3 DEF Snapshot
      <4> QED BY <3>2, <4>1, <4>3, <4>4 DEF OnGUI
    <3> QED BY <3>3, <3>4
  <2> QED BY <1>9, <2>1, <2>2, <2>3 DEF GuiStep
<1>10. ~ParentCancel BY DEF ParentCancel
<1> QED BY <1>4, <1>5, <1>6, <1>7, <1>8, <1>9, <1>10 DEF Next, Threads, Terminated

\* Observers are given snapshots by nothing else.
LEMMA OnlyObserve == ASSUME Next, observed' # observed PROVE Observe
<1> USE DEF Next, CallStep, ThreadStep, WorkerStep, OpStep, GuiStep
<1>1. ASSUME NEW t \in Threads, CallStep(t) PROVE FALSE
  BY <1>1 DEF NewScope, Start, StartRejected, Cancel, Invalidate, CloseScope
<1>2. ASSUME NEW t \in Threads, CloseRunner(t) \/ ThreadStep(t) PROVE FALSE
  BY <1>2 DEF CloseRunner, Dispatch, RunnerClosed, CloseSignals
<1>3. ASSUME WorkerStep \/ ParentCancel \/ Terminated PROVE FALSE
  BY <1>3 DEF WorkerWakes, WorkerTakes, WorkerDrained, ParentCancel, Terminated, vars
<1>4. ASSUME NEW o \in Ops, OpStep(o) PROVE FALSE
  BY <1>4 DEF AcquireSlot, SkipSlot, Begin, Commit, Ignore, Publish
<1>5. ASSUME NEW m \in callbacks, RunCallback(m) PROVE FALSE
  BY <1>5 DEF RunCallback
<1>6. ASSUME CheckRevision PROVE FALSE BY <1>6 DEF CheckRevision
<1> QED BY <1>1, <1>2, <1>3, <1>4, <1>5, <1>6 DEF Threads

\* When every call is made on the GUI thread, Close included, an observer is given
\* nothing of an operation that was replaced, and nothing once its scope is closed:
\* nothing but the end of the operation itself comes between the check of the revision
\* and the call of the observer (deliver).
THEOREM LateIsSuppressed ==
  ASSUME Callers \subseteq {GUI}, "parent" \notin Shutdowns
  PROVE  Spec => LateTransitionsSuppressed
<1>1. Init => OnGUI /\ ObserverInv
  BY CarriesIs DEF Init, OnGUI, Idle, Threads, ObserverInv, InFlight, SendingCommitted, InTime,
                   Seen, NewScopeState, Forward, Underway, Expected
<1>2. IInv /\ ObserverInv /\ OnGUI /\ [Next]_vars => OnGUI'
  BY OnGUIStays DEF IInv, ObserverInv
<1>3. IInv /\ OnGUI /\ [Next]_vars =>
        [\A s \in Scopes : Notified(s) => ~scope[s].closed /\ observed'[s].id = scope[s].id]_vars
  <2> SUFFICES ASSUME IInv, OnGUI, Next, NEW s \in Scopes, observed'[s] # observed[s]
               PROVE  ~scope[s].closed /\ observed'[s].id = scope[s].id
    BY DEF Notified
  <2>1. Observe BY OnlyObserve
  <2>2. /\ call \in [Threads -> CallStates] /\ observed \in [Scopes -> Msg]
        /\ GUI \in Threads
    BY DEF IInv, Types, TypeOK, Threads
  <2>3. PICK m \in Msg : m = call[GUI].msg BY <2>1, <2>2, CallTypes DEF Observe
  <2>4. observed' = [observed EXCEPT ![m.scope] = m] /\ call[GUI].at = "observe"
    BY <2>1, <2>3 DEF Observe
  <2>5. s = m.scope /\ observed'[s] = m BY <2>2, <2>4
  <2> QED BY <2>3, <2>4, <2>5 DEF OnGUI
<1> QED BY <1>1, <1>2, <1>3, ObserverStays, Invariance, PTL DEF Spec, LateTransitionsSuppressed
=============================================================================
