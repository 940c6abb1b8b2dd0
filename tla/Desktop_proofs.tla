--------------------------- MODULE Desktop_proofs ---------------------------
(***************************************************************************)
(* Proofs about the controller of the desktop application, for every set   *)
(* of targets, profiles, diagnoses and configurations, every setup and     *)
(* every bound.                                                            *)
(*                                                                         *)
(* The operators of TaskScopes come first: what each does to the scopes,   *)
(* the callbacks and the worker.  Then the types; then, one after the      *)
(* other, what a run diagnoses, who agreed to an overwriting, what the     *)
(* user is told, and the story of the Diagnose screen.                     *)
(***************************************************************************)
EXTENDS Desktop, FiniteSetTheorems, TLAPS

-----------------------------------------------------------------------------
(* What is kept of a sequence.                                             *)

\* The elements of a set of positions up to one of them.
Until(at, i) == {j \in at : j <= i}

\* They number the positions from 1.
LEMMA Positions ==
  ASSUME NEW at, at \subseteq Nat, IsFiniteSet(at)
  PROVE  /\ \A i \in at : Cardinality(Until(at, i)) \in 1 .. Cardinality(at)
         /\ \A i, k \in at : Cardinality(Until(at, i)) = Cardinality(Until(at, k)) => i = k
         /\ \A n \in 1 .. Cardinality(at) : \E i \in at : Cardinality(Until(at, i)) = n
<1> DEFINE c == Cardinality(at)
           pos == [i \in at |-> Cardinality(Until(at, i))]
<1>1. c \in Nat BY FS_CardinalityType
<1>2. ASSUME NEW i \in at
      PROVE  IsFiniteSet(Until(at, i)) /\ Cardinality(Until(at, i)) \in 1 .. c
  <2>1. Until(at, i) \subseteq at /\ i \in Until(at, i) BY DEF Until
  <2>2. IsFiniteSet(Until(at, i)) /\ Cardinality(Until(at, i)) <= c
        /\ Cardinality(Until(at, i)) \in Nat
    BY <2>1, FS_Subset, FS_CardinalityType
  <2>3. Cardinality(Until(at, i)) # 0 BY <2>1, <2>2, FS_EmptySet
  <2> QED BY <1>1, <2>2, <2>3
<1>3. ASSUME NEW i \in at, NEW k \in at, i < k
      PROVE  Cardinality(Until(at, i)) < Cardinality(Until(at, k))
  <2>1. Until(at, i) \subseteq Until(at, k)
    <3> SUFFICES ASSUME NEW j \in at, j <= i PROVE j <= k
      BY DEF Until
    <3> QED BY <1>3
  <2>2. k \in Until(at, k) /\ k \notin Until(at, i) BY <1>3 DEF Until
  <2>3. IsFiniteSet(Until(at, k)) BY <1>2
  <2>4. Cardinality(Until(at, i)) \in Nat /\ Cardinality(Until(at, k)) \in Nat BY <1>1, <1>2
  <2> QED BY <2>1, <2>2, <2>3, <2>4, FS_Subset
<1>4. \A i, k \in at : Cardinality(Until(at, i)) = Cardinality(Until(at, k)) => i = k
  <2> SUFFICES ASSUME NEW i \in at, NEW k \in at,
                      Cardinality(Until(at, i)) = Cardinality(Until(at, k))
               PROVE  i = k
    OBVIOUS
  <2>1. Cardinality(Until(at, i)) \in Nat /\ i \in Nat /\ k \in Nat BY <1>1, <1>2
  <2>2. ~(i < k) /\ ~(k < i) BY <1>3, <2>1
  <2> QED BY <2>1, <2>2
<1>5. pos \in Injection(at, 1 .. c) BY <1>2, <1>4 DEF Injection, IsInjective
<1>6. IsFiniteSet(1 .. c) /\ Cardinality(1 .. c) = c
  <2>1. 1 \in Int /\ c \in Int BY <1>1
  <2> QED BY <1>1, <2>1, FS_Interval
<1>7. pos \in Surjection(at, 1 .. c) BY <1>5, <1>6, FS_Injection
<1>8. \A n \in 1 .. c : \E i \in at : Cardinality(Until(at, i)) = n BY <1>7 DEF Surjection
<1> QED BY <1>2, <1>4, <1>8

\* What is kept of a sequence is a sequence of those elements, and has them all.
LEMMA KeptIs ==
  ASSUME NEW S, NEW s \in Seq(S), NEW at, at \subseteq DOMAIN s
  PROVE  /\ Kept(s, at) \in Seq(S)
         /\ \A n \in DOMAIN Kept(s, at) : \E i \in at : Kept(s, at)[n] = s[i]
         /\ \A i \in at : \E n \in DOMAIN Kept(s, at) : Kept(s, at)[n] = s[i]
<1> DEFINE c == Cardinality(at)
           nth(n) == CHOOSE i \in at : Cardinality(Until(at, i)) = n
<1>1. DOMAIN s = 1 .. Len(s) /\ Len(s) \in Nat OBVIOUS
<1>2. IsFiniteSet(1 .. Len(s))
  <2>1. 1 \in Int /\ Len(s) \in Int BY <1>1
  <2> QED BY <2>1, FS_Interval
<1>3. at \subseteq Nat /\ IsFiniteSet(at) /\ c \in Nat
  BY <1>1, <1>2, FS_Subset, FS_CardinalityType
<1>4. Kept(s, at) = [n \in 1 .. c |-> s[nth(n)]] BY DEF Kept, Until
<1>5. \A n \in 1 .. c : nth(n) \in at BY <1>3, Positions
<1>6. ASSUME NEW i \in at
      PROVE  Cardinality(Until(at, i)) \in 1 .. c /\ nth(Cardinality(Until(at, i))) = i
  <2>1. Cardinality(Until(at, i)) \in 1 .. c BY <1>3, Positions
  <2>2. nth(Cardinality(Until(at, i))) \in at
        /\ Cardinality(Until(at, nth(Cardinality(Until(at, i))))) = Cardinality(Until(at, i))
    OBVIOUS
  <2>3. \A x, y \in at : Cardinality(Until(at, x)) = Cardinality(Until(at, y)) => x = y
    BY <1>3, Positions
  <2> HIDE DEF nth
  <2> QED BY <2>1, <2>2, <2>3
<1> HIDE DEF nth, c
<1>7. Kept(s, at) \in [1 .. c -> S] BY <1>1, <1>4, <1>5
<1>8. Kept(s, at) \in Seq(S) BY <1>3, <1>7
<1> QED BY <1>4, <1>5, <1>6, <1>8

-----------------------------------------------------------------------------
(* The operators on the task runner.                                       *)

\* A callback for scope x waits.
Noticed(t, x) == \E i \in DOMAIN t.inbox : t.inbox[i].about = x

\* Scope x is the same in u as in t, or was cancelled, of which a callback tells.
Keeps(t, u, x) ==
  /\ \/ u.scope[x] = t.scope[x]
     \/ /\ Loading(t, x) /\ Noticed(u, x)
        /\ u.scope[x] = [t.scope[x] EXCEPT !.state = "cancelled"]
  /\ Noticed(t, x) => Noticed(u, x)

LEMMA KeepsTwice ==
  ASSUME NEW t, NEW u, NEW v, NEW x, t \in Runners, x \in Scopes,
         Keeps(t, u, x), Keeps(u, v, x)
  PROVE  Keeps(t, v, x)
<1>1. CASE u.scope[x] = t.scope[x] BY <1>1 DEF Keeps, Loading
<1>2. CASE u.scope[x] # t.scope[x]
  <2>1. u.scope[x] = [t.scope[x] EXCEPT !.state = "cancelled"] /\ Loading(t, x) /\ Noticed(u, x)
    BY <1>2 DEF Keeps
  <2>2. t.scope[x] \in Snapshots BY DEF Runners
  <2>3. u.scope[x].state = "cancelled" BY <2>1, <2>2 DEF Snapshots
  <2> QED BY <2>1, <2>3 DEF Keeps, Loading
<1> QED BY <1>1, <1>2

\* The fields of a runner.
LEMMA RunnerHas ==
  ASSUME NEW t \in Runners
  PROVE  /\ t.scope \in [Scopes -> Snapshots] /\ t.inbox \in Seq(Notices)
         /\ t.worker \in Seq(Jobs) /\ t.closed \in BOOLEAN
         /\ t = [scope |-> t.scope, inbox |-> t.inbox, worker |-> t.worker,
                 closed |-> t.closed]
         /\ \A s \in Scopes :
              /\ t.scope[s].state # "idle" => t.scope[s].arg \in Arguments(s)
              /\ t.scope[s].state = "success" => t.scope[s].value \in Values(s)
BY DEF Runners

\* A snapshot that may stand in scope s.
Fits(r, s) ==
  /\ r \in Snapshots
  /\ r.state # "idle" => r.arg \in Arguments(s)
  /\ r.state = "success" => r.value \in Values(s)

LEMMA ArgumentsKnown ==
  ASSUME NEW s \in Scopes
  PROVE  Arguments(s) \subseteq Anything /\ Values(s) \subseteq Anything
BY DEF Arguments, Values, Anything

\* Silencing some scopes keeps the callbacks of the others.
LEMMA SilencedIs ==
  ASSUME NEW t \in Runners, NEW names
  PROVE  /\ Silenced(t, names) \in Seq(Notices)
         /\ \A x \in Scopes \ names : Noticed(t, x) =>
              \E n \in DOMAIN Silenced(t, names) : Silenced(t, names)[n].about = x
<1> DEFINE at == {i \in DOMAIN t.inbox : t.inbox[i].about \notin names}
<1>1. t.inbox \in Seq(Notices) BY RunnerHas
<1>2. at \subseteq DOMAIN t.inbox OBVIOUS
<1>3. Silenced(t, names) = Kept(t.inbox, at) BY DEF Silenced
<1> HIDE DEF at
<1>4. /\ Kept(t.inbox, at) \in Seq(Notices)
      /\ \A i \in at : \E n \in DOMAIN Kept(t.inbox, at) : Kept(t.inbox, at)[n] = t.inbox[i]
  BY <1>1, <1>2, KeptIs
<1>5. ASSUME NEW x \in Scopes \ names, Noticed(t, x)
      PROVE  \E n \in DOMAIN Kept(t.inbox, at) : Kept(t.inbox, at)[n].about = x
  <2>1. PICK i \in DOMAIN t.inbox : t.inbox[i].about = x BY <1>5 DEF Noticed
  <2>2. i \in at BY <2>1 DEF at
  <2> QED BY <1>4, <2>1, <2>2
<1> QED BY <1>3, <1>4, <1>5

\* One scope gets a new snapshot and tells of it: a start or an end.
Renewed(t, s, r) ==
  [t EXCEPT !.scope = [t.scope EXCEPT ![s] = r],
            !.inbox = Append(Silenced(t, {s}), Notice(s))]

LEMMA RenewedIs ==
  ASSUME NEW t \in Runners, NEW s \in Scopes, NEW r, Fits(r, s)
  PROVE  LET u == Renewed(t, s, r)
         IN /\ u \in Runners /\ u.worker = t.worker /\ u.closed = t.closed
            /\ u.scope[s] = r /\ Noticed(u, s)
            /\ \A x \in Scopes \ {s} : u.scope[x] = t.scope[x] /\ Keeps(t, u, x)
<1> DEFINE u == Renewed(t, s, r)
<1> HIDE DEF u
<1> DEFINE q == Silenced(t, {s})
           inbox == Append(q, Notice(s))
<1>1. q \in Seq(Notices)
      /\ \A x \in Scopes \ {s} : Noticed(t, x) => \E n \in DOMAIN q : q[n].about = x
  <2> DEFINE names == {s}
  <2> HIDE DEF names
  <2>1. Silenced(t, names) \in Seq(Notices)
        /\ \A x \in Scopes \ names : Noticed(t, x) =>
              \E n \in DOMAIN Silenced(t, names) : Silenced(t, names)[n].about = x
    BY SilencedIs
  <2> QED BY <2>1 DEF names
<1>2. Notice(s) \in Notices BY DEF Notice, Notices
<1> HIDE DEF q
<1>4. inbox \in Seq(Notices) /\ Len(inbox) = Len(q) + 1 /\ Len(q) \in Nat
      /\ inbox[Len(q) + 1] = Notice(s) /\ DOMAIN inbox = 1 .. Len(q) + 1
      /\ \A n \in DOMAIN q : n \in DOMAIN inbox /\ inbox[n] = q[n]
  BY <1>1, <1>2
<1>5. u.scope = [t.scope EXCEPT ![s] = r] /\ u.inbox = inbox /\ u.worker = t.worker
      /\ u.closed = t.closed
      /\ u = [scope |-> u.scope, inbox |-> u.inbox, worker |-> u.worker, closed |-> u.closed]
  <2>1. t = [scope |-> t.scope, inbox |-> t.inbox, worker |-> t.worker, closed |-> t.closed]
    BY RunnerHas
  <2>2. u = [t EXCEPT !.scope = [t.scope EXCEPT ![s] = r], !.inbox = inbox] BY DEF q, u, Renewed
  <2> HIDE DEF inbox
  <2> QED BY <2>1, <2>2
<1> HIDE DEF inbox
<1>6. u.scope \in [Scopes -> Snapshots] /\ u.scope[s] = r
      /\ \A x \in Scopes \ {s} : u.scope[x] = t.scope[x]
  BY <1>5, RunnerHas DEF Fits
<1>7. u \in Runners
  <2>1. \A x \in Scopes : /\ u.scope[x].state # "idle" => u.scope[x].arg \in Arguments(x)
                          /\ u.scope[x].state = "success" => u.scope[x].value \in Values(x)
    BY <1>6, RunnerHas DEF Fits
  <2> QED BY <1>4, <1>5, <1>6, <2>1, RunnerHas DEF Runners
<1>8. Noticed(u, s)
  <2>1. Len(q) + 1 \in DOMAIN u.inbox /\ u.inbox[Len(q) + 1].about = s
    BY <1>4, <1>5 DEF Notice
  <2> QED BY <2>1 DEF Noticed
<1>9. \A x \in Scopes \ {s} : Keeps(t, u, x)
  <2> SUFFICES ASSUME NEW x \in Scopes \ {s} PROVE Noticed(t, x) => Noticed(u, x)
    BY <1>6 DEF Keeps
  <2> SUFFICES ASSUME Noticed(t, x) PROVE Noticed(u, x)
    OBVIOUS
  <2>1. PICK n \in DOMAIN q : q[n].about = x BY <1>1
  <2>2. n \in DOMAIN u.inbox /\ u.inbox[n].about = x BY <1>4, <1>5, <2>1
  <2> QED BY <2>2 DEF Noticed
<1> QED BY <1>5, <1>6, <1>7, <1>8, <1>9 DEF u

LEMMA StartedIs ==
  ASSUME NEW t \in Runners, NEW s \in Scopes, NEW arg \in Arguments(s)
  PROVE  LET u == Started(t, s, arg)
         IN /\ u \in Runners /\ u.worker = t.worker /\ u.closed = t.closed
            /\ u.scope[s].op = t.scope[s].op + 1 /\ u.scope[s].state = "loading"
            /\ u.scope[s].arg = arg /\ u.scope[s].value = None
            /\ Noticed(u, s)
            /\ \A x \in Scopes \ {s} : u.scope[x] = t.scope[x] /\ Keeps(t, u, x)
<1> DEFINE r == [op |-> t.scope[s].op + 1, state |-> "loading", arg |-> arg, value |-> None]
           u == Started(t, s, arg)
<1>1. t.scope[s].op \in Nat BY RunnerHas DEF Snapshots
<1>2. Fits(r, s)
  BY <1>1, ArgumentsKnown DEF Fits, Snapshots, Anything, States
<1>3. u = Renewed(t, s, r) BY DEF Started, Renewed
<1> HIDE DEF u
<1>4. /\ u \in Runners /\ u.worker = t.worker /\ u.closed = t.closed
      /\ u.scope[s] = r /\ Noticed(u, s)
      /\ \A x \in Scopes \ {s} : u.scope[x] = t.scope[x] /\ Keeps(t, u, x)
  <2> HIDE DEF r
  <2> QED BY <1>2, <1>3, RenewedIs
<1>5. r.op = t.scope[s].op + 1 /\ r.state = "loading" /\ r.arg = arg /\ r.value = None
  OBVIOUS
<1> HIDE DEF r
<1> QED BY <1>4, <1>5 DEF u

\* In u the operation of scope s has ended so, of which a callback tells.
Ended(t, u, s, state, value) ==
  /\ u \in Runners /\ u.worker = t.worker /\ u.closed = t.closed
  /\ u.scope[s].op = t.scope[s].op /\ u.scope[s].state = state
  /\ u.scope[s].arg = t.scope[s].arg /\ u.scope[s].value = value
  /\ Noticed(u, s)
  /\ \A x \in Scopes \ {s} : u.scope[x] = t.scope[x] /\ Keeps(t, u, x)

LEMMA FinishedIs ==
  ASSUME NEW t \in Runners, NEW s \in Scopes, Loading(t, s),
         NEW state \in {"success", "error", "cancelled"}, NEW value \in Values(s) \cup {None},
         state = "success" => value \in Values(s)
  PROVE  Ended(t, Finished(t, s, state, value), s, state, value)
<1> DEFINE r == [[t.scope[s] EXCEPT !.state = state] EXCEPT !.value = value]
           u == Finished(t, s, state, value)
<1>1. t.scope \in [Scopes -> Snapshots] /\ t.scope[s] \in Snapshots
      /\ t.scope[s].arg \in Arguments(s)
  BY RunnerHas DEF Loading
<1>2. value \in Anything /\ state \in States BY ArgumentsKnown DEF Anything, States
<1>3. r \in Snapshots /\ r.op = t.scope[s].op /\ r.state = state /\ r.arg = t.scope[s].arg
      /\ r.value = value
  BY <1>1, <1>2 DEF Snapshots
<1>4. u = Renewed(t, s, r)
  <2>1. [[t.scope EXCEPT ![s].state = state] EXCEPT ![s].value = value]
          = [t.scope EXCEPT ![s] = r]
    BY <1>1
  <2>2. u = [t EXCEPT !.scope = [[t.scope EXCEPT ![s].state = state] EXCEPT ![s].value = value],
                      !.inbox = Append(Silenced(t, {s}), Notice(s))]
    BY DEF Finished
  <2> QED BY <2>1, <2>2 DEF Renewed
<1> HIDE DEF u, r
<1>5. Fits(r, s) BY <1>1, <1>3 DEF Fits
<1>6. /\ u \in Runners /\ u.worker = t.worker /\ u.closed = t.closed
      /\ u.scope[s] = r /\ Noticed(u, s)
      /\ \A x \in Scopes \ {s} : u.scope[x] = t.scope[x] /\ Keeps(t, u, x)
  BY <1>4, <1>5, RenewedIs
<1> QED BY <1>3, <1>6 DEF u, Ended

\* A fresh idle generation: nobody is told, and the other scopes are as before.
LEMMA InvalidatedIs ==
  ASSUME NEW t \in Runners, NEW s \in Scopes
  PROVE  LET u == Invalidated(t, s)
         IN /\ u \in Runners /\ u.worker = t.worker /\ u.closed = t.closed
            /\ u.scope[s] = [Unused EXCEPT !.op = t.scope[s].op + 1]
            /\ \A x \in Scopes \ {s} : u.scope[x] = t.scope[x] /\ Keeps(t, u, x)
<1> DEFINE r == [Unused EXCEPT !.op = t.scope[s].op + 1]
           u == Invalidated(t, s)
           inbox == Silenced(t, {s})
<1>1. t.scope[s].op \in Nat BY RunnerHas DEF Snapshots
<1>2. r \in Snapshots /\ r.state = "idle"
  BY <1>1 DEF Unused, Snapshots, Anything, States
<1>3. inbox \in Seq(Notices)
      /\ \A x \in Scopes \ {s} : Noticed(t, x) => \E n \in DOMAIN inbox : inbox[n].about = x
  BY SilencedIs
<1>4. u = [t EXCEPT !.scope = [t.scope EXCEPT ![s] = r], !.inbox = inbox]
  BY DEF Invalidated
<1> HIDE DEF r, inbox
<1>5. t = [scope |-> t.scope, inbox |-> t.inbox, worker |-> t.worker, closed |-> t.closed]
      /\ t.scope \in [Scopes -> Snapshots] /\ t.worker \in Seq(Jobs) /\ t.closed \in BOOLEAN
  BY RunnerHas
<1>6. u = [scope |-> [t.scope EXCEPT ![s] = r], inbox |-> inbox, worker |-> t.worker,
           closed |-> t.closed]
  BY <1>4, <1>5
<1> HIDE DEF u
<1>7. u.scope[s] = r /\ u.scope \in [Scopes -> Snapshots] /\ u.worker = t.worker
      /\ u.closed = t.closed /\ u.inbox = inbox
      /\ \A x \in Scopes \ {s} : u.scope[x] = t.scope[x]
  BY <1>2, <1>5, <1>6
<1>8. u \in Runners
  <2>1. \A x \in Scopes : /\ u.scope[x].state # "idle" => u.scope[x].arg \in Arguments(x)
                          /\ u.scope[x].state = "success" => u.scope[x].value \in Values(x)
    BY <1>2, <1>7, RunnerHas
  <2> QED BY <1>3, <1>5, <1>6, <1>7, <2>1 DEF Runners
<1>9. \A x \in Scopes \ {s} : Keeps(t, u, x) BY <1>3, <1>7 DEF Keeps, Noticed
<1> QED BY <1>7, <1>8, <1>9 DEF u, r

\* Cancelling: every scope is as before, or its cancellation is told.
LEMMA CancelledIs ==
  ASSUME NEW t \in Runners, NEW order \in Seq(Scopes)
  PROVE  LET u == Cancelled(t, order)
         IN /\ u \in Runners /\ u.worker = t.worker /\ u.closed = t.closed
            /\ \A x \in Scopes : Keeps(t, u, x)
<1> DEFINE at == {i \in DOMAIN order : Loading(t, order[i])}
           hit == Kept(order, at)
           names == {hit[i] : i \in DOMAIN hit}
           scope == [s \in DOMAIN t.scope |->
                       IF s \in names THEN [t.scope[s] EXCEPT !.state = "cancelled"]
                       ELSE t.scope[s]]
           before == Silenced(t, names)
           after == [i \in DOMAIN hit |-> Notice(hit[i])]
           u == Cancelled(t, order)
<1>1. hit \in Seq(Scopes) /\ \A i \in DOMAIN hit : Loading(t, hit[i])
  <2>1. at \subseteq DOMAIN order /\ \A i \in at : Loading(t, order[i]) OBVIOUS
  <2> HIDE DEF at
  <2>2. Kept(order, at) \in Seq(Scopes)
        /\ \A n \in DOMAIN Kept(order, at) : \E i \in at : Kept(order, at)[n] = order[i]
    BY <2>1, KeptIs
  <2> QED BY <2>1, <2>2
<1>2. t = [scope |-> t.scope, inbox |-> t.inbox, worker |-> t.worker, closed |-> t.closed]
      /\ t.scope \in [Scopes -> Snapshots] /\ t.worker \in Seq(Jobs) /\ t.closed \in BOOLEAN
  BY RunnerHas
<1>3. u = [t EXCEPT !.scope = scope, !.inbox = before \o after] BY DEF Cancelled
<1> HIDE DEF at, hit
<1>4. \A s \in names : s \in Scopes /\ Loading(t, s) BY <1>1
<1>5. before \in Seq(Notices)
      /\ \A x \in Scopes \ names : Noticed(t, x) => \E n \in DOMAIN before : before[n].about = x
  <2> HIDE DEF names
  <2> QED BY SilencedIs
<1>6. after \in Seq(Notices) /\ \A s \in names : \E n \in DOMAIN after : after[n].about = s
  <2>1. DOMAIN hit = 1 .. Len(hit) /\ Len(hit) \in Nat /\ \A i \in DOMAIN hit : hit[i] \in Scopes
    BY <1>1
  <2>2. \A s \in Scopes : Notice(s) \in Notices /\ Notice(s).about = s BY DEF Notice, Notices
  <2>3. after \in [1 .. Len(hit) -> Notices] BY <2>1, <2>2
  <2>4. after \in Seq(Notices) BY <2>1, <2>3
  <2>5. \A i \in DOMAIN hit : i \in DOMAIN after /\ after[i].about = hit[i] BY <2>1, <2>2
  <2> HIDE DEF after
  <2>6. \A s \in names : \E i \in DOMAIN hit : hit[i] = s OBVIOUS
  <2> QED BY <2>4, <2>5, <2>6
<1> HIDE DEF names, before, after, scope
<1>7. u = [scope |-> scope, inbox |-> before \o after, worker |-> t.worker,
           closed |-> t.closed]
  BY <1>2, <1>3
<1> HIDE DEF u
<1>8. /\ u.scope \in [Scopes -> Snapshots]
      /\ \A s \in Scopes \ names : u.scope[s] = t.scope[s]
      /\ \A s \in names : u.scope[s] = [t.scope[s] EXCEPT !.state = "cancelled"]
  <2>1. \A r \in Snapshots : [r EXCEPT !.state = "cancelled"] \in Snapshots
    BY DEF Snapshots, States
  <2> QED BY <1>2, <1>4, <1>7, <2>1 DEF scope
<1>9. u \in Runners
  <2>1. ASSUME NEW s \in Scopes
        PROVE  /\ u.scope[s].state # "idle" => u.scope[s].arg \in Arguments(s)
               /\ u.scope[s].state = "success" => u.scope[s].value \in Values(s)
    <3>1. CASE s \in names
      <4>1. t.scope[s] \in Snapshots /\ t.scope[s].arg \in Arguments(s)
        BY <1>4, <3>1, RunnerHas DEF Loading
      <4>2. u.scope[s].arg = t.scope[s].arg /\ u.scope[s].state = "cancelled"
        BY <1>8, <3>1, <4>1 DEF Snapshots
      <4> QED BY <4>1, <4>2
    <3>2. CASE s \notin names BY <1>8, <3>2, RunnerHas
    <3> QED BY <3>1, <3>2
  <2>2. before \o after \in Seq(Notices) BY <1>5, <1>6
  <2> QED BY <1>2, <1>7, <1>8, <2>1, <2>2 DEF Runners
<1>10. ASSUME NEW x \in Scopes, Noticed(t, x) \/ x \in names PROVE Noticed(u, x)
  <2>1. u.inbox = before \o after BY <1>7
  <2>2. CASE x \in names
    <3>1. PICK n \in DOMAIN after : after[n].about = x BY <1>6, <2>2
    <3>2. Len(before) + n \in DOMAIN (before \o after)
          /\ (before \o after)[Len(before) + n] = after[n]
      BY <1>5, <1>6
    <3> QED BY <2>1, <3>1, <3>2 DEF Noticed
  <2>3. CASE x \notin names
    <3>1. PICK n \in DOMAIN before : before[n].about = x BY <1>5, <1>10, <2>3
    <3>2. n \in DOMAIN (before \o after) /\ (before \o after)[n] = before[n]
      BY <1>5, <1>6
    <3> QED BY <2>1, <3>1, <3>2 DEF Noticed
  <2> QED BY <2>2, <2>3
<1>11. \A x \in Scopes : Keeps(t, u, x) BY <1>4, <1>8, <1>10 DEF Keeps
<1>12. u.worker = t.worker /\ u.closed = t.closed BY <1>7
<1> QED BY <1>9, <1>11, <1>12 DEF u

\* Closing cancels, and only what loads.
LEMMA ClosedIs ==
  ASSUME NEW t \in Runners
  PROVE  LET u == Closed(t)
         IN /\ u \in Runners /\ u.worker = t.worker
            /\ \A x \in Scopes :
                 \/ u.scope[x] = t.scope[x]
                 \/ Loading(t, x) /\ u.scope[x] = [t.scope[x] EXCEPT !.state = "cancelled"]
<1> DEFINE scope == [s \in DOMAIN t.scope |->
                       IF Loading(t, s) THEN [t.scope[s] EXCEPT !.state = "cancelled"]
                       ELSE t.scope[s]]
           inbox == Silenced(t, DOMAIN t.scope)
           u == Closed(t)
<1>1. t = [scope |-> t.scope, inbox |-> t.inbox, worker |-> t.worker, closed |-> t.closed]
      /\ t.scope \in [Scopes -> Snapshots] /\ t.worker \in Seq(Jobs)
  BY RunnerHas
<1>2. inbox \in Seq(Notices) BY SilencedIs
<1>3. u = [t EXCEPT !.scope = scope, !.inbox = inbox, !.closed = TRUE] BY DEF Closed
<1> HIDE DEF scope, inbox
<1>4. u = [scope |-> scope, inbox |-> inbox, worker |-> t.worker, closed |-> TRUE]
  BY <1>1, <1>3
<1> HIDE DEF u
<1>5. /\ u.scope \in [Scopes -> Snapshots]
      /\ \A x \in Scopes : u.scope[x] = IF Loading(t, x)
                                        THEN [t.scope[x] EXCEPT !.state = "cancelled"]
                                        ELSE t.scope[x]
  <2>1. \A r \in Snapshots : [r EXCEPT !.state = "cancelled"] \in Snapshots
    BY DEF Snapshots, States
  <2> QED BY <1>1, <1>4, <2>1 DEF scope
<1>6. u \in Runners
  <2>1. ASSUME NEW s \in Scopes
        PROVE  /\ u.scope[s].state # "idle" => u.scope[s].arg \in Arguments(s)
               /\ u.scope[s].state = "success" => u.scope[s].value \in Values(s)
    <3>1. CASE Loading(t, s)
      <4>1. t.scope[s] \in Snapshots /\ t.scope[s].arg \in Arguments(s)
        BY <3>1, RunnerHas DEF Loading
      <4>2. u.scope[s].arg = t.scope[s].arg /\ u.scope[s].state = "cancelled"
        BY <1>5, <3>1, <4>1 DEF Snapshots
      <4> QED BY <4>1, <4>2
    <3>2. CASE ~Loading(t, s) BY <1>5, <3>2, RunnerHas
    <3> QED BY <3>1, <3>2
  <2> QED BY <1>1, <1>2, <1>4, <1>5, <2>1 DEF Runners
<1> QED BY <1>4, <1>5, <1>6 DEF u

\* A callback that has run is gone, the others still wait.
LEMMA DeliveredIs ==
  ASSUME NEW t \in Runners, t.inbox # <<>>
  PROVE  LET u == Delivered(t)
         IN /\ u \in Runners /\ u.worker = t.worker /\ u.closed = t.closed
            /\ u.scope = t.scope
            /\ Head(t.inbox) \in Notices
            /\ \A x \in Scopes : Noticed(t, x) => Noticed(u, x) \/ Head(t.inbox).about = x
<1> DEFINE u == Delivered(t)
           q == t.inbox
<1>1. t = [scope |-> t.scope, inbox |-> t.inbox, worker |-> t.worker, closed |-> t.closed]
      /\ t.inbox \in Seq(Notices)
  BY RunnerHas
<1>2. u = [t EXCEPT !.inbox = Tail(t.inbox)] BY DEF Delivered
<1> HIDE DEF u
<1>3. u.scope = t.scope /\ u.inbox = Tail(q) /\ u.worker = t.worker /\ u.closed = t.closed
      /\ u = [scope |-> u.scope, inbox |-> u.inbox, worker |-> u.worker, closed |-> u.closed]
  BY <1>1, <1>2
<1> HIDE DEF q
<1>4. q \in Seq(Notices) /\ q # <<>> BY <1>1 DEF q
<1>5. Tail(q) \in Seq(Notices) /\ Head(q) \in Notices BY <1>4
<1>6. u \in Runners BY <1>3, <1>5, RunnerHas DEF Runners
<1>7. ASSUME NEW x \in Scopes, Noticed(t, x), Head(q).about # x PROVE Noticed(u, x)
  <2>1. PICK i \in DOMAIN q : q[i].about = x BY <1>7 DEF Noticed, q
  <2>2. i # 1 BY <1>4, <1>7, <2>1
  <2>3. i - 1 \in DOMAIN Tail(q) /\ Tail(q)[i - 1] = q[i] BY <1>4, <2>2
  <2> QED BY <1>3, <2>1, <2>3 DEF Noticed
<1> QED BY <1>3, <1>5, <1>6, <1>7 DEF u, q

\* The worker's line may change as a whole.
LEMMA WorkerChanged ==
  ASSUME NEW t \in Runners, NEW line \in Seq(Jobs)
  PROVE  LET u == [t EXCEPT !.worker = line]
         IN /\ u \in Runners /\ u.worker = line /\ u.scope = t.scope /\ u.inbox = t.inbox
            /\ u.closed = t.closed
            /\ \A x \in Scopes : Keeps(t, u, x)
<1> DEFINE u == [t EXCEPT !.worker = line]
<1>1. t = [scope |-> t.scope, inbox |-> t.inbox, worker |-> t.worker, closed |-> t.closed]
  BY RunnerHas
<1>2. u = [scope |-> t.scope, inbox |-> t.inbox, worker |-> line, closed |-> t.closed]
  BY <1>1
<1> HIDE DEF u
<1>3. u.worker = line /\ u.scope = t.scope /\ u.inbox = t.inbox /\ u.closed = t.closed
  BY <1>2
<1>4. u \in Runners BY <1>2, <1>3, RunnerHas DEF Runners
<1>5. \A x \in Scopes : Keeps(t, u, x) BY <1>3 DEF Keeps, Noticed
<1> QED BY <1>3, <1>4, <1>5 DEF u

LEMMA StartedMutationIs ==
  ASSUME NEW t \in Runners, NEW s \in Mutations, NEW arg \in Arguments(s)
  PROVE  LET u == StartedMutation(t, s, arg)
             job == [scope |-> s, op |-> t.scope[s].op + 1, arg |-> arg, running |-> FALSE]
         IN /\ u \in Runners /\ u.worker = Append(t.worker, job) /\ u.closed = t.closed
            /\ job \in Jobs
            /\ u.scope[s].op = t.scope[s].op + 1 /\ u.scope[s].state = "loading"
            /\ u.scope[s].arg = arg /\ u.scope[s].value = None
            /\ Noticed(u, s)
            /\ \A x \in Scopes \ {s} : u.scope[x] = t.scope[x] /\ Keeps(t, u, x)
<1> DEFINE b == Started(t, s, arg)
           job == [scope |-> s, op |-> t.scope[s].op + 1, arg |-> arg, running |-> FALSE]
           u == StartedMutation(t, s, arg)
<1>1. s \in Scopes BY DEF Scopes
<1>2. /\ b \in Runners /\ b.worker = t.worker /\ b.closed = t.closed
      /\ b.scope[s].op = t.scope[s].op + 1 /\ b.scope[s].state = "loading"
      /\ b.scope[s].arg = arg /\ b.scope[s].value = None
      /\ Noticed(b, s)
      /\ \A x \in Scopes \ {s} : b.scope[x] = t.scope[x] /\ Keeps(t, b, x)
  BY <1>1, StartedIs
<1>3. u = [b EXCEPT !.worker = Append(b.worker, job)] BY DEF StartedMutation
<1>4. job \in Jobs
  <2>1. t.scope[s].op \in Nat BY <1>1, RunnerHas DEF Snapshots
  <2>2. arg \in Anything BY <1>1, ArgumentsKnown
  <2> QED BY <2>1, <2>2 DEF Jobs
<1> HIDE DEF b, job, u
<1>5. b.worker \in Seq(Jobs) BY <1>2, RunnerHas
<1>6. Append(b.worker, job) \in Seq(Jobs) BY <1>4, <1>5
<1>7. /\ u \in Runners /\ u.worker = Append(b.worker, job) /\ u.scope = b.scope
      /\ u.inbox = b.inbox /\ u.closed = b.closed
  BY <1>2, <1>3, <1>6, WorkerChanged
<1>8. Noticed(u, s) /\ \A x \in Scopes \ {s} : u.scope[x] = t.scope[x] /\ Keeps(t, u, x)
  BY <1>2, <1>7 DEF Noticed, Keeps
<1> QED BY <1>2, <1>4, <1>7, <1>8 DEF u, job

\* The worker's first mutation is left, and tells of its end if it is current.
LEMMA AnsweredIs ==
  ASSUME NEW t \in Runners, t.worker # <<>>,
         NEW state \in {"success", "error", "cancelled"},
         NEW value, value = IF state = "success" THEN Head(t.worker).arg ELSE None
  PROVE  LET u == Answered(t, state, value)
             w == Head(t.worker)
             r == u.scope[w.scope]
         IN /\ w \in Jobs /\ u \in Runners /\ u.worker = Tail(t.worker)
            /\ u.closed = t.closed
            /\ \A x \in Scopes \ {w.scope} : u.scope[x] = t.scope[x] /\ Keeps(t, u, x)
            /\ IF Current(t, w)
               THEN /\ r.op = t.scope[w.scope].op /\ r.state = state
                    /\ r.arg = t.scope[w.scope].arg /\ r.value = value
                    /\ Noticed(u, w.scope)
               ELSE r = t.scope[w.scope] /\ Keeps(t, u, w.scope)
<1> DEFINE w == Head(t.worker)
           b == [t EXCEPT !.worker = Tail(t.worker)]
           u == Answered(t, state, value)
<1>1. t.worker \in Seq(Jobs) BY RunnerHas
<1>2. w \in Jobs /\ Tail(t.worker) \in Seq(Jobs) BY <1>1
<1>3. w.scope \in Mutations /\ w.scope \in Scopes /\ w.arg \in Arguments(w.scope)
  BY <1>2 DEF Jobs, Scopes
<1>4. Values(w.scope) = Arguments(w.scope) BY <1>3 DEF Values, Mutations
<1>5. value \in Values(w.scope) \cup {None} /\ (state = "success" => value \in Values(w.scope))
  BY <1>3, <1>4
<1>6. /\ b \in Runners /\ b.worker = Tail(t.worker) /\ b.scope = t.scope /\ b.inbox = t.inbox
      /\ b.closed = t.closed
      /\ \A x \in Scopes : Keeps(t, b, x)
  BY <1>2, WorkerChanged
<1>7. u = IF Current(t, w) THEN Finished(b, w.scope, state, value) ELSE b
  BY DEF Answered
<1> HIDE DEF b, w, u
<1>8. CASE Current(t, w)
  <2>1. Loading(b, w.scope) BY <1>6, <1>8 DEF Current, Loading
  <2>2. Ended(b, u, w.scope, state, value)
    <3>1. u = Finished(b, w.scope, state, value) BY <1>7, <1>8
    <3> QED BY <1>3, <1>5, <1>6, <2>1, <3>1, FinishedIs
  <2>4. \A x \in Scopes \ {w.scope} : Keeps(t, u, x)
    <3> SUFFICES ASSUME NEW x \in Scopes \ {w.scope} PROVE Keeps(t, u, x)
      OBVIOUS
    <3>1. Noticed(t, x) => Noticed(b, x) BY <1>6 DEF Noticed
    <3>2. u.scope[x] = b.scope[x] /\ Keeps(b, u, x) BY <2>2 DEF Ended
    <3> QED BY <1>6, <3>1, <3>2 DEF Keeps
  <2> QED BY <1>2, <1>6, <1>8, <2>2, <2>4 DEF u, w, Ended
<1>9. CASE ~Current(t, w)
  <2>1. u = b BY <1>7, <1>9
  <2> QED BY <1>2, <1>3, <1>6, <1>9, <2>1 DEF u, w
<1> QED BY <1>8, <1>9

-----------------------------------------------------------------------------
(* The operators on the desk: their types, and what they leave alone.      *)

SameRun(d, e) ==
  /\ e.pending = d.pending /\ e.refused = d.refused /\ e.ran = d.ran /\ e.events = d.events
SamePage(d, e) == e.page = d.page /\ e.header = d.header /\ e.last = d.last
SameReports(d, e) ==
  /\ e.dialogs = d.dialogs /\ e.told = d.told /\ e.consented = d.consented
  /\ e.closing = d.closing
SameLists(d, e) == e.lists = d.lists /\ e.prefs = d.prefs

\* No scope starts or ends but by a cancellation that is told.
Quietly(t, u) ==
  u.worker = t.worker /\ u.closed = t.closed /\ \A x \in Scopes : Keeps(t, u, x)

\* Only the screen, its session of reports and cancellations.
Turned(d, e) ==
  /\ e \in Desks /\ Quietly(d.tasks, e.tasks)
  /\ e.session \in {d.session, d.session + 1}
  /\ SameRun(d, e) /\ SamePage(d, e) /\ SameReports(d, e) /\ SameLists(d, e)

LEMMA QuietlyTwice ==
  ASSUME NEW t, NEW u, NEW v, t \in Runners, Quietly(t, u), Quietly(u, v)
  PROVE  Quietly(t, v)
BY KeepsTwice DEF Quietly

LEMMA OrdersKnown ==
  /\ HistoryScopes \in Seq(Scopes) /\ ProfilesScopes \in Seq(Scopes)
  /\ ReportScopes \in Seq(Scopes)
  /\ \A name \in Screens : OwnedBy[name] \in Seq(Scopes)
  /\ <<"diagnose">> \in Seq(Scopes)
<1>1. /\ HistoryScopes \in Seq(Scopes) /\ ProfilesScopes \in Seq(Scopes)
      /\ ReportScopes \in Seq(Scopes) /\ <<"diagnose">> \in Seq(Scopes)
      /\ <<"configuration.load", "configuration.save">> \in Seq(Scopes)
      /\ <<>> \in Seq(Scopes)
  BY DEF HistoryScopes, ProfilesScopes, ReportScopes, Scopes, Reads, Mutations
<1>2. /\ <<"diagnose">> \o ProfilesScopes \in Seq(Scopes)
      /\ <<"configuration.load", "configuration.save">> \o HistoryScopes \in Seq(Scopes)
  BY <1>1
<1>3. \A name \in Screens : OwnedBy[name] \in Seq(Scopes)
  <2>1. Screens = {"diagnose", "history", "profiles", "settings", "about"}
    BY DEF Screens, OwnedBy
  <2>2. /\ OwnedBy["diagnose"] = <<"diagnose">> \o ProfilesScopes
        /\ OwnedBy["history"] = HistoryScopes
        /\ OwnedBy["profiles"] = ProfilesScopes
        /\ OwnedBy["settings"] = <<"configuration.load", "configuration.save">> \o HistoryScopes
        /\ OwnedBy["about"] = <<>>
    BY DEF OwnedBy
  <2> QED BY <1>1, <1>2, <2>1, <2>2
<1> QED BY <1>1, <1>3

\* Only the runner of a desk changes.
LEMMA TasksChanged ==
  ASSUME NEW d \in Desks, NEW t \in Runners
  PROVE  LET e == [d EXCEPT !.tasks = t]
         IN /\ e \in Desks /\ e.tasks = t /\ e.session = d.session /\ e.screen = d.screen
            /\ SameRun(d, e) /\ SamePage(d, e) /\ SameReports(d, e) /\ SameLists(d, e)
BY DEF Desks, SameRun, SamePage, SameReports, SameLists

LEMMA CancelReportsIs ==
  ASSUME NEW d \in Desks
  PROVE  /\ Turned(d, CancelReports(d)) /\ CancelReports(d).screen = d.screen
         /\ CancelReports(d).session = d.session + 1
<1> DEFINE t == Cancelled(d.tasks, ReportScopes)
           e == CancelReports(d)
<1>1. d.tasks \in Runners BY DEF Desks
<1>2. t \in Runners /\ Quietly(d.tasks, t)
  BY <1>1, OrdersKnown, CancelledIs DEF Quietly
<1>3. e = [d EXCEPT !.tasks = t, !.session = d.session + 1] BY DEF CancelReports
<1> HIDE DEF t, e
<1>4. e \in Desks /\ e.tasks = t /\ e.session = d.session + 1 /\ e.screen = d.screen
      /\ SameRun(d, e) /\ SamePage(d, e) /\ SameReports(d, e) /\ SameLists(d, e)
  <2>0. d.session + 1 \in Nat BY DEF Desks
  <2>1. e \in Desks BY <1>2, <1>3, <2>0 DEF Desks
  <2>2. e.tasks = t /\ e.session = d.session + 1 /\ e.screen = d.screen BY <1>3 DEF Desks
  <2>3. SameRun(d, e) /\ SamePage(d, e) BY <1>3 DEF Desks, SameRun, SamePage
  <2>4. SameReports(d, e) /\ SameLists(d, e) BY <1>3 DEF Desks, SameReports, SameLists
  <2> QED BY <2>1, <2>2, <2>3, <2>4
<1> QED BY <1>2, <1>4 DEF Turned, e

LEMMA ShowScreenIs ==
  ASSUME NEW d \in Desks, NEW name \in Screens
  PROVE  Turned(d, ShowScreen(d, name)) /\ ShowScreen(d, name).screen = name
<1> DEFINE t == Cancelled(d.tasks, OwnedBy[d.screen])
           b == [d EXCEPT !.tasks = t]
           l == Leave(d)
           e == ShowScreen(d, name)
<1>1. d.tasks \in Runners /\ d.screen \in Screens /\ d.session \in Nat BY DEF Desks
<1>2. t \in Runners /\ Quietly(d.tasks, t)
  <2>1. OwnedBy[d.screen] \in Seq(Scopes) BY <1>1, OrdersKnown
  <2> QED BY <1>1, <2>1, CancelledIs DEF Quietly
<1>3. b \in Desks /\ b.tasks = t /\ b.session = d.session
      /\ SameRun(d, b) /\ SamePage(d, b) /\ SameReports(d, b) /\ SameLists(d, b)
  <2> HIDE DEF t
  <2> QED BY <1>2, TasksChanged
<1>4. l = CancelReports(b) BY DEF Leave
<1> HIDE DEF t, b, l
<1>5. Turned(b, l) BY <1>3, <1>4, CancelReportsIs
<1>6. Turned(d, l)
  <2>1. Quietly(d.tasks, l.tasks) BY <1>1, <1>2, <1>3, <1>5, QuietlyTwice DEF Turned
  <2> QED BY <1>3, <1>5, <2>1
          DEF Turned, SameRun, SamePage, SameReports, SameLists
<1>7. Turned(d, d)
  BY DEF Turned, SameRun, SamePage, SameReports, SameLists, Quietly, Keeps
<1>8. PICK m : Turned(d, m) /\ e = [m EXCEPT !.screen = name]
  BY <1>6, <1>7 DEF ShowScreen, l
<1>9. e \in Desks /\ e.tasks = m.tasks /\ e.session = m.session /\ e.screen = name
      /\ SameRun(m, e) /\ SamePage(m, e) /\ SameReports(m, e) /\ SameLists(m, e)
  BY <1>8 DEF Turned, Desks, SameRun, SamePage, SameReports, SameLists
<1> QED BY <1>8, <1>9 DEF Turned, SameRun, SamePage, SameReports, SameLists

\* The operators on the Diagnose page.
LEMMA PagesKept ==
  ASSUME NEW p \in Pages
  PROVE  /\ \A subject \in Subjects : SetProfile(p, subject) \in Pages
         /\ \A on \in BOOLEAN : SetRunning(p, on) \in Pages
         /\ ResetResults(p) \in Pages
         /\ \A doc \in Diagnoses : UpsertCheck(p, doc) \in Pages /\ ShowDiagnosis(p, doc) \in Pages
         /\ \A how \in States : ShowError(p, how) \in Pages
         /\ NewPage \in Pages
<1>1. \A subject \in Subjects : SetProfile(p, subject) \in Pages BY DEF SetProfile, Pages
<1>2. \A q \in Pages : \A on \in BOOLEAN : SetRunning(q, on) \in Pages
  BY DEF SetRunning, Pages, States
<1>3. ResetResults(p) \in Pages BY DEF ResetResults, Pages
<1>4. \A doc \in Diagnoses : UpsertCheck(p, doc) \in Pages BY DEF UpsertCheck, Pages
<1>5. \A doc \in Diagnoses : ShowDiagnosis(p, doc) \in Pages
  <2> SUFFICES ASSUME NEW doc \in Diagnoses PROVE ShowDiagnosis(p, doc) \in Pages
    OBVIOUS
  <2> DEFINE q == SetRunning(p, FALSE)
  <2>1. q \in Pages BY <1>2
  <2> HIDE DEF q
  <2>2. [q EXCEPT !.shows = "result", !.of = doc, !.timeline = {doc}] \in Pages
    BY <2>1 DEF Pages
  <2> QED BY <2>2 DEF ShowDiagnosis, q
<1>6. \A how \in States : ShowError(p, how) \in Pages
  <2> SUFFICES ASSUME NEW how \in States PROVE ShowError(p, how) \in Pages
    OBVIOUS
  <2> DEFINE q == SetRunning(IF p.running THEN p ELSE ResetResults(p), FALSE)
  <2>1. q \in Pages BY <1>2, <1>3
  <2> HIDE DEF q
  <2>2. [q EXCEPT !.shows = how, !.of = None] \in Pages BY <2>1 DEF Pages
  <2> QED BY <2>2 DEF ShowError, q
<1>7. NewPage \in Pages BY DEF NewPage, Pages, States, Subjects
<1> QED BY <1>1, <1>2, <1>3, <1>4, <1>5, <1>6, <1>7

\* No scope but x starts or ends, other than by a cancellation that is told.
Apart(d, e, x) ==
  /\ e.tasks.worker = d.tasks.worker /\ e.tasks.closed = d.tasks.closed
  /\ \A y \in Scopes \ {x} : Keeps(d.tasks, e.tasks, y)

Subject(d) == IF d.pending = None THEN d.page.target ELSE d.pending

LEMMA RunDiagnosticIs ==
  ASSUME NEW d \in Desks
  PROVE  LET e == RunDiagnostic(d)
         IN /\ e \in Desks /\ e.session = d.session /\ e.screen = d.screen
            /\ SameReports(d, e) /\ SameLists(d, e)
            /\ e.header = d.header /\ e.last = d.last
            /\ Apart(d, e, "diagnose")
            /\ \/ /\ d.prefs.loaded /\ Loading(e.tasks, "diagnose") /\ e.page = d.page
                  /\ e.pending = None /\ ~e.refused
                  /\ e.ran = [subject |-> Subject(d), form |-> d.page.target,
                              excused |-> d.refused /\ d.pending # None]
               \/ /\ ~d.prefs.loaded /\ e.tasks = d.tasks /\ SameRun(d, e)
                  /\ e.page = ShowError(d.page, "error")
<1> DEFINE e == RunDiagnostic(d)
<1>0. /\ d.tasks \in Runners /\ d.page \in Pages /\ d.pending \in Subjects \cup {None}
      /\ d.page.target \in Subjects /\ d.refused \in BOOLEAN
  BY DEF Desks, Pages
<1>1. CASE ~d.prefs.loaded
  <2> DEFINE p == ShowError(d.page, "error")
  <2>1. p \in Pages BY <1>0, PagesKept DEF States
  <2>2. e = [d EXCEPT !.page = p] BY <1>1 DEF RunDiagnostic
  <2> HIDE DEF p, e
  <2>3. e \in Desks BY <2>1, <2>2 DEF Desks
  <2>4. e.tasks = d.tasks /\ SameRun(d, e) /\ e.page = p /\ e.header = d.header
        /\ e.last = d.last /\ e.session = d.session /\ e.screen = d.screen
        /\ SameReports(d, e) /\ SameLists(d, e)
    BY <2>2 DEF Desks, SameRun, SameReports, SameLists
  <2>5. Apart(d, e, "diagnose") BY <2>4 DEF Apart, Keeps
  <2> QED BY <1>1, <2>3, <2>4, <2>5 DEF e, p
<1>2. CASE d.prefs.loaded
  <2> DEFINE subject == Subject(d)
             t == Started(d.tasks, "diagnose", subject)
             excused == d.refused /\ d.pending # None
             ran == [subject |-> subject, form |-> d.page.target, excused |-> excused]
  <2>1. subject \in Subjects /\ subject \in Arguments("diagnose") /\ "diagnose" \in Scopes
    BY <1>0 DEF Subject, Arguments, Scopes, Reads
  <2>2. e = [d EXCEPT !.tasks = t, !.events = 0, !.pending = None, !.ran = ran,
                      !.refused = FALSE]
    BY <1>2 DEF RunDiagnostic, Subject
  <2>3. ran \in [subject : Subjects, form : Subjects, excused : BOOLEAN]
    <3>1. excused \in BOOLEAN BY <1>0
    <3> HIDE DEF excused, subject
    <3> QED BY <1>0, <2>1, <3>1
  <2> HIDE DEF subject
  <2>4. /\ t \in Runners /\ t.worker = d.tasks.worker /\ t.closed = d.tasks.closed
        /\ t.scope["diagnose"].state = "loading"
        /\ \A x \in Scopes \ {"diagnose"} : Keeps(d.tasks, t, x)
    BY <1>0, <2>1, StartedIs
  <2> HIDE DEF t, ran, e
  <2>5. e \in Desks BY <2>2, <2>3, <2>4 DEF Desks
  <2>6. e.tasks = t /\ e.pending = None /\ ~e.refused /\ e.ran = ran BY <2>2 DEF Desks
  <2>7. e.page = d.page /\ e.header = d.header
        /\ e.last = d.last /\ e.session = d.session /\ e.screen = d.screen
        /\ SameReports(d, e) /\ SameLists(d, e)
    BY <2>2 DEF Desks, SameReports, SameLists
  <2>8. Apart(d, e, "diagnose") /\ Loading(e.tasks, "diagnose")
    BY <2>4, <2>6 DEF Apart, Loading
  <2> QED BY <1>2, <2>5, <2>6, <2>7, <2>8 DEF e, ran, subject
<1> QED BY <1>1, <1>2

\* What InputError makes of the headers.
Erred(header) == [header EXCEPT !.diagnose = Says("error")]

\* What triggerRun does: the run starts; the configuration is missing; or the form,
\* or a run that is shown as active, refuses.
Triggered(d, e) ==
  /\ e \in Desks /\ e.session = d.session /\ e.screen = d.screen
  /\ SameReports(d, e) /\ SameLists(d, e) /\ e.last = d.last
  /\ Apart(d, e, "diagnose")
  /\ \/ /\ ~d.page.running /\ d.prefs.loaded /\ Loading(e.tasks, "diagnose")
        /\ e.page = d.page /\ e.header = d.header
        /\ e.pending = None /\ ~e.refused
        /\ e.ran = [subject |-> Subject(d), form |-> d.page.target,
                    excused |-> d.refused /\ d.pending # None]
     \/ /\ ~d.page.running /\ ~d.prefs.loaded /\ e.tasks = d.tasks /\ SameRun(d, e)
        /\ e.page = ShowError(d.page, "error") /\ e.header = d.header
     \/ /\ e.tasks = d.tasks /\ SameRun(d, e) /\ e.page = d.page
        /\ e.header = IF d.page.running THEN d.header ELSE Erred(d.header)

LEMMA TriggerRunIs ==
  ASSUME NEW d \in Desks
  PROVE  Triggered(d, TriggerRun(d))
<1> DEFINE e == TriggerRun(d)
<1>1. CASE d.page.running
  <2>1. e = d BY <1>1 DEF TriggerRun
  <2> QED BY <1>1, <2>1
          DEF Triggered, SameReports, SameLists, SameRun, Apart, Keeps
<1>2. CASE ~d.page.running /\ InputAccepted(d.page)
  <2>1. e = RunDiagnostic(d) BY <1>2 DEF TriggerRun
  <2> QED BY <1>2, <2>1, RunDiagnosticIs DEF Triggered
<1>3. CASE ~d.page.running /\ ~InputAccepted(d.page)
  <2> DEFINE h == Erred(d.header)
  <2>1. e = [d EXCEPT !.header = h] BY <1>3 DEF TriggerRun, Erred
  <2>2. h \in [{"diagnose", "secondary"} -> Statements]
    <3>1. Says("error") \in Statements BY DEF Says, Statements, States
    <3>2. d.header \in [{"diagnose", "secondary"} -> Statements] BY DEF Desks
    <3> QED BY <3>1, <3>2 DEF Erred
  <2> HIDE DEF e, h
  <2>3. e \in Desks BY <2>1, <2>2 DEF Desks
  <2>4. e.tasks = d.tasks /\ SameRun(d, e) /\ e.page = d.page /\ e.header = h
        /\ e.last = d.last /\ e.session = d.session /\ e.screen = d.screen
        /\ SameReports(d, e) /\ SameLists(d, e)
    BY <2>1 DEF Desks, SameRun, SameReports, SameLists
  <2> QED BY <1>3, <2>3, <2>4 DEF Triggered, Apart, Keeps, e, h
<1> QED BY <1>1, <1>2, <1>3

\* The desk with the active run invalidated.
Freed(d, e) ==
  /\ e \in Desks /\ e.session = d.session /\ e.screen = d.screen
  /\ e.tasks.scope["diagnose"].state = "idle"
  /\ e.pending = None /\ ~e.refused /\ e.ran = d.ran
  /\ SameReports(d, e) /\ SameLists(d, e) /\ SamePage(d, e)
  /\ Apart(d, e, "diagnose")

LEMMA CancelActiveIs ==
  ASSUME NEW d \in Desks
  PROVE  Freed(d, CancelActive(d))
<1> DEFINE t == Invalidated(d.tasks, "diagnose")
           e == CancelActive(d)
<1>1. d.tasks \in Runners /\ "diagnose" \in Scopes BY DEF Desks, Scopes, Reads
<1>2. /\ t \in Runners /\ t.worker = d.tasks.worker /\ t.closed = d.tasks.closed
      /\ t.scope["diagnose"] = [Unused EXCEPT !.op = d.tasks.scope["diagnose"].op + 1]
      /\ \A x \in Scopes \ {"diagnose"} : Keeps(d.tasks, t, x)
  BY <1>1, InvalidatedIs
<1>3. t.scope["diagnose"].state = "idle" BY <1>2 DEF Unused
<1>4. e = [d EXCEPT !.tasks = t, !.pending = None, !.refused = FALSE] BY DEF CancelActive
<1> HIDE DEF t, e
<1>5. e \in Desks BY <1>2, <1>4 DEF Desks
<1>6. e.tasks = t /\ e.pending = None /\ ~e.refused /\ e.ran = d.ran /\ e.session = d.session
      /\ e.screen = d.screen
  BY <1>4 DEF Desks
<1>7. SameReports(d, e) /\ SameLists(d, e) /\ SamePage(d, e)
  BY <1>4 DEF Desks, SameReports, SameLists, SamePage
<1> QED BY <1>2, <1>3, <1>5, <1>6, <1>7 DEF Freed, Apart, e

\* What startProfile leaves: a run of the profile, a screen that is ready for it, or a
\* refusal on the old screen.
Profiled(d, profile, e) ==
  /\ e \in Desks /\ e.session \in {d.session, d.session + 1}
  /\ SameReports(d, e) /\ SameLists(d, e) /\ e.last = d.last
  /\ Apart(d, e, "diagnose")
  /\ LET p == SetProfile(SetRunning(d.page, FALSE), profile)
     IN \/ /\ d.prefs.loaded /\ Loading(e.tasks, "diagnose")
           /\ e.page = p /\ e.header = d.header
           /\ e.pending = None /\ ~e.refused
           /\ e.ran.subject = profile /\ e.ran.form = profile
        \/ /\ ~Loading(e.tasks, "diagnose") /\ e.refused
           /\ e.tasks.scope["diagnose"].state = "idle"
           /\ e.ran = d.ran
           /\ \/ e.page = p /\ e.header = Erred(d.header)
              \/ e.page = ShowError(p, "error") /\ e.header = d.header /\ ~d.prefs.loaded
              \/ /\ e.page = ShowError(d.page, "error") /\ e.header = d.header
                 /\ e.pending = None

LEMMA NoProfileIs ==
  ASSUME NEW d \in Desks, NEW profile \in Subjects
  PROVE  Profiled(d, profile, NoProfile(d))
<1> DEFINE a == CancelActive(d)
           p == ShowError(a.page, "error")
           e == NoProfile(d)
<1>1. Freed(d, a) BY CancelActiveIs
<1>2. a \in Desks /\ a.page = d.page BY <1>1 DEF Freed, SamePage
<1>3. p \in Pages /\ p = ShowError(d.page, "error") BY <1>2, PagesKept DEF Desks, States
<1>4. e = [a EXCEPT !.page = p, !.refused = TRUE] BY DEF NoProfile
<1> HIDE DEF a, p, e
<1>5. e \in Desks BY <1>2, <1>3, <1>4 DEF Desks
<1>6. /\ e.page = p /\ e.refused /\ e.tasks = a.tasks /\ e.session = a.session
      /\ e.pending = a.pending /\ e.ran = a.ran /\ e.header = a.header /\ e.last = a.last
  BY <1>2, <1>4 DEF Desks
<1>7. SameReports(a, e) /\ SameLists(a, e) BY <1>2, <1>4 DEF Desks, SameReports, SameLists
<1>8. Apart(d, e, "diagnose") BY <1>1, <1>6 DEF Freed, Apart
<1>9. SameReports(d, e) /\ SameLists(d, e)
  BY <1>1, <1>7 DEF Freed, SameReports, SameLists
<1> QED BY <1>1, <1>3, <1>5, <1>6, <1>8, <1>9 DEF Profiled, Freed, SamePage, Loading, e

LEMMA StartProfileIs ==
  ASSUME NEW d \in Desks, NEW profile \in Subjects
  PROVE  Profiled(d, profile, StartProfile(d, profile))
<1> SUFFICES ASSUME profile \notin Incomplete
             PROVE  Profiled(d, profile, StartProfile(d, profile))
  BY NoProfileIs DEF StartProfile
<1> DEFINE p == SetProfile(SetRunning(d.page, FALSE), profile)
           a == CancelActive(d)
           b == [a EXCEPT !.pending = profile,
                          !.page = SetProfile(SetRunning(a.page, FALSE), profile)]
           c == ShowScreen(b, "diagnose")
           r == TriggerRun(c)
           e == StartProfile(d, profile)
<1>1. Freed(d, a) BY CancelActiveIs
<1>2. d.page \in Pages /\ d.tasks \in Runners BY DEF Desks
<1>3. p \in Pages /\ p.target = profile /\ ~p.running
  <2> DEFINE q == SetRunning(d.page, FALSE)
  <2>1. q \in Pages /\ ~q.running BY <1>2, PagesKept DEF SetRunning, Pages
  <2> HIDE DEF q
  <2>2. SetProfile(q, profile) \in Pages BY <2>1, PagesKept
  <2>3. SetProfile(q, profile).target = profile /\ SetProfile(q, profile).running = q.running
    BY <2>1 DEF SetProfile, Pages
  <2> QED BY <2>1, <2>2, <2>3 DEF q
<1>4. a.page = d.page BY <1>1 DEF Freed, SamePage
<1>5. b = [a EXCEPT !.pending = profile, !.page = p] BY <1>4
<1>6. c = ShowScreen(b, "diagnose") /\ r = TriggerRun(c)
      /\ e = [r EXCEPT !.refused = ~Loading(r.tasks, "diagnose")]
  BY DEF StartProfile
<1> HIDE DEF a, p, b, c, r, e
<1>7. /\ b \in Desks /\ b.tasks = a.tasks /\ b.session = d.session
      /\ b.pending = profile /\ b.page = p /\ b.header = d.header /\ b.last = d.last
      /\ ~b.refused /\ b.ran = d.ran
      /\ SameReports(d, b) /\ SameLists(d, b)
  <2>0. a \in Desks BY <1>1 DEF Freed
  <2>1. b \in Desks BY ZenonT(60), <1>3, <1>5, <2>0 DEF Desks
  <2>2. b.tasks = a.tasks /\ b.session = a.session /\ b.pending = profile /\ b.page = p
        /\ b.header = a.header /\ b.last = a.last /\ b.refused = a.refused /\ b.ran = a.ran
    BY <1>5, <2>0 DEF Desks
  <2>3. SameReports(a, b) /\ SameLists(a, b)
    BY <1>5, <2>0 DEF Desks, SameReports, SameLists
  <2> QED BY <1>1, <2>1, <2>2, <2>3 DEF Freed, SameReports, SameLists, SamePage
<1>8. Turned(b, c)
  <2>1. "diagnose" \in Screens BY DEF Screens, OwnedBy
  <2> QED BY <1>6, <1>7, <2>1, ShowScreenIs
<1>9. Triggered(c, r) BY <1>6, <1>8, TriggerRunIs DEF Turned
<1>10. c.tasks.scope["diagnose"].state = "idle"
  <2>1. "diagnose" \in Scopes BY DEF Scopes, Reads
  <2>2. b.tasks.scope["diagnose"].state = "idle" BY <1>1, <1>7 DEF Freed
  <2>3. Keeps(b.tasks, c.tasks, "diagnose") BY <1>8, <2>1 DEF Turned, Quietly
  <2> QED BY <2>2, <2>3 DEF Keeps, Loading
<1>11. Apart(d, r, "diagnose")
  <2>1. d.tasks \in Runners /\ a.tasks \in Runners /\ c.tasks \in Runners
    BY <1>1, <1>8 DEF Desks, Freed, Turned
  <2>2. ASSUME NEW x \in Scopes \ {"diagnose"} PROVE Keeps(d.tasks, r.tasks, x)
    <3>1. Keeps(d.tasks, a.tasks, x) BY <1>1 DEF Freed, Apart
    <3>2. Keeps(a.tasks, c.tasks, x) BY <1>7, <1>8 DEF Turned, Quietly
    <3>3. Keeps(c.tasks, r.tasks, x) BY <1>9 DEF Triggered, Apart
    <3>4. Keeps(d.tasks, c.tasks, x) BY <2>1, <3>1, <3>2, KeepsTwice
    <3> QED BY <2>1, <3>3, <3>4, KeepsTwice
  <2>3. r.tasks.worker = d.tasks.worker /\ r.tasks.closed = d.tasks.closed
    BY <1>1, <1>7, <1>8, <1>9 DEF Freed, Apart, Turned, Quietly, Triggered
  <2> QED BY <2>2, <2>3 DEF Apart
<1>12. /\ r.session \in {d.session, d.session + 1} /\ SameReports(d, r) /\ SameLists(d, r)
       /\ r.last = d.last /\ c.header = d.header /\ c.page = p /\ c.pending = profile
       /\ ~c.refused /\ c.ran = d.ran /\ c.prefs = d.prefs
  BY <1>7, <1>8, <1>9
     DEF Turned, Triggered, SameReports, SameLists, SamePage, SameRun
<1>13. /\ e \in Desks /\ e.tasks = r.tasks /\ e.session = r.session
       /\ SameReports(r, e) /\ SameLists(r, e) /\ SamePage(r, e)
       /\ e.pending = r.pending /\ e.ran = r.ran
       /\ e.refused = ~Loading(r.tasks, "diagnose")
  <2>0. r \in Desks /\ Loading(r.tasks, "diagnose") \in BOOLEAN
    BY <1>9 DEF Triggered, Loading
  <2>1. e \in Desks
    <3> DEFINE v == ~Loading(r.tasks, "diagnose")
    <3>1. v \in BOOLEAN /\ e = [r EXCEPT !.refused = v] BY <1>6
    <3> HIDE DEF v
    <3> QED BY <2>0, <3>1 DEF Desks
  <2>2. e.tasks = r.tasks /\ e.session = r.session /\ e.pending = r.pending /\ e.ran = r.ran
        /\ e.refused = ~Loading(r.tasks, "diagnose")
    BY <1>6, <2>0 DEF Desks
  <2>3. SameReports(r, e) /\ SameLists(r, e) /\ SamePage(r, e)
    BY <1>6, <2>0 DEF Desks, SameReports, SameLists, SamePage
  <2> QED BY <2>1, <2>2, <2>3
<1>14. /\ e.session \in {d.session, d.session + 1} /\ SameReports(d, e) /\ SameLists(d, e)
       /\ e.last = d.last /\ Apart(d, e, "diagnose")
  BY <1>11, <1>12, <1>13 DEF SameReports, SameLists, SamePage, Apart
<1>15. Subject(c) = profile /\ c.page.target = profile /\ ~c.page.running
  BY <1>3, <1>12 DEF Subject
<1>16. \/ /\ d.prefs.loaded /\ Loading(e.tasks, "diagnose")
          /\ e.page = p /\ e.header = d.header
          /\ e.pending = None /\ ~e.refused
          /\ e.ran.subject = profile /\ e.ran.form = profile
       \/ /\ ~Loading(e.tasks, "diagnose") /\ e.refused
          /\ e.tasks.scope["diagnose"].state = "idle"
          /\ e.ran = d.ran
          /\ \/ e.page = p /\ e.header = Erred(d.header)
             \/ e.page = ShowError(p, "error") /\ e.header = d.header /\ ~d.prefs.loaded
  <2>1. CASE /\ c.prefs.loaded /\ Loading(r.tasks, "diagnose")
             /\ r.page = c.page /\ r.header = c.header /\ r.pending = None /\ ~r.refused
             /\ r.ran = [subject |-> Subject(c), form |-> c.page.target,
                         excused |-> c.refused /\ c.pending # None]
    <3>1. r.ran.subject = profile /\ r.ran.form = profile BY <1>15, <2>1
    <3> QED BY <1>12, <1>13, <2>1, <3>1 DEF SamePage
  <2>2. CASE /\ ~c.prefs.loaded /\ r.tasks = c.tasks /\ SameRun(c, r)
             /\ r.page = ShowError(c.page, "error") /\ r.header = c.header
    BY <1>10, <1>12, <1>13, <2>2 DEF SamePage, SameRun, Loading
  <2>3. CASE /\ r.tasks = c.tasks /\ SameRun(c, r) /\ r.page = c.page
             /\ r.header = IF c.page.running THEN c.header ELSE Erred(c.header)
    BY <1>10, <1>12, <1>13, <1>15, <2>3 DEF SamePage, SameRun, Loading
  <2> QED BY <1>9, <2>1, <2>2, <2>3 DEF Triggered
<1> QED BY <1>13, <1>14, <1>16 DEF Profiled, p, e

LEMMA SubjectsOf ==
  ASSUME NEW doc \in Diagnoses
  PROVE  doc.of \in Subjects
BY DEF Diagnoses, RunResults, Subjects

LEMMA HeadersAre ==
  /\ \A is \in {"ready", "running", "cancelling", "completed"} \cup States :
       Header(is) \in [{"diagnose", "secondary"} -> Statements]
  /\ \A doc \in Diagnoses : HeaderFor(doc) \in [{"diagnose", "secondary"} -> Statements]
<1>1. \A is \in {"ready", "running", "cancelling", "completed"} \cup States :
        Says(is) \in Statements
  BY DEF Says, Statements
<1>2. \A doc \in Diagnoses : [is |-> "completed", of |-> doc] \in Statements
  BY DEF Statements
<1>3. \A is \in {"ready", "running", "cancelling", "completed"} \cup States :
        Header(is) \in [{"diagnose", "secondary"} -> Statements]
  <2> SUFFICES ASSUME NEW is \in {"ready", "running", "cancelling", "completed"} \cup States
               PROVE  Header(is) \in [{"diagnose", "secondary"} -> Statements]
    OBVIOUS
  <2> DEFINE says == Says(is)
  <2>1. says \in Statements BY <1>1
  <2>2. Header(is) = [diagnose |-> says, secondary |-> says] BY DEF Header
  <2> HIDE DEF says
  <2> QED BY <2>1, <2>2
<1> QED BY <1>2, <1>3 DEF HeaderFor

\* What a header says, wherever it stands.
LEMMA HeadersSay ==
  /\ \A is : \A h \in DOMAIN Header(is) : Header(is)[h] = Says(is) /\ Header(is)[h].is = is
  /\ \A doc : \A h \in DOMAIN HeaderFor(doc) :
       HeaderFor(doc)[h].is = "completed" /\ HeaderFor(doc)[h].of = doc
  /\ \A d \in Desks : \A h \in DOMAIN Erred(d.header) :
       \/ Erred(d.header)[h].is = "error"
       \/ h \in DOMAIN d.header /\ Erred(d.header)[h] = d.header[h]
<1>1. \A is : \A h \in DOMAIN Header(is) : Header(is)[h] = Says(is) /\ Header(is)[h].is = is
  BY DEF Header, Says
<1>2. \A doc : \A h \in DOMAIN HeaderFor(doc) :
        HeaderFor(doc)[h].is = "completed" /\ HeaderFor(doc)[h].of = doc
  BY DEF HeaderFor
<1>3. ASSUME NEW d \in Desks, NEW h \in DOMAIN Erred(d.header)
      PROVE  \/ Erred(d.header)[h].is = "error"
             \/ h \in DOMAIN d.header /\ Erred(d.header)[h] = d.header[h]
  <2>1. DOMAIN d.header = {"diagnose", "secondary"} BY DEF Desks
  <2> QED BY <2>1 DEF Erred, Says
<1> QED BY <1>1, <1>2, <1>3

\* A stored diagnosis is shown.
Presented(d, doc, e) ==
  /\ e \in Desks /\ e.session \in {d.session, d.session + 1}
  /\ SameReports(d, e) /\ SameLists(d, e)
  /\ e.last = doc /\ e.header = HeaderFor(doc)
  /\ e.page = ShowDiagnosis(SetProfile(d.page, doc.of), doc)
  /\ e.pending = None /\ ~e.refused /\ e.ran = d.ran
  /\ e.tasks.scope["diagnose"].state = "idle"
  /\ Apart(d, e, "diagnose")

LEMMA PresentHistoricalIs ==
  ASSUME NEW d \in Desks, NEW doc \in Diagnoses
  PROVE  Presented(d, doc, PresentHistorical(d, doc))
<1> DEFINE a == CancelActive(d)
           p == ShowDiagnosis(SetProfile(d.page, doc.of), doc)
           h == HeaderFor(doc)
           b == [a EXCEPT !.last = doc, !.header = h,
                          !.page = ShowDiagnosis(SetProfile(a.page, doc.of), doc)]
           e == PresentHistorical(d, doc)
<1>1. Freed(d, a) BY CancelActiveIs
<1>2. d.page \in Pages /\ d.tasks \in Runners BY DEF Desks
<1>3. p \in Pages
  <2>1. SetProfile(d.page, doc.of) \in Pages BY <1>2, SubjectsOf, PagesKept
  <2> QED BY <2>1, PagesKept
<1>4. a.page = d.page BY <1>1 DEF Freed, SamePage
<1>5. b = [a EXCEPT !.last = doc, !.header = h, !.page = p] BY <1>4
<1>6. e = ShowScreen(b, "diagnose") BY DEF PresentHistorical
<1>7. h \in [{"diagnose", "secondary"} -> Statements]
  BY HeadersAre
<1> HIDE DEF a, p, b, e, h
<1>8. /\ b \in Desks /\ b.tasks = a.tasks /\ b.session = d.session
      /\ b.pending = None /\ b.page = p /\ b.header = h /\ b.last = doc
      /\ ~b.refused /\ b.ran = d.ran
      /\ SameReports(d, b) /\ SameLists(d, b)
  <2>0. a \in Desks BY <1>1 DEF Freed
  <2>1. b \in Desks BY <1>3, <1>5, <1>7, <2>0 DEF Desks
  <2>2. b.tasks = a.tasks /\ b.session = a.session /\ b.pending = a.pending /\ b.page = p
        /\ b.header = h /\ b.last = doc /\ b.refused = a.refused /\ b.ran = a.ran
    BY <1>5, <2>0 DEF Desks
  <2>3. SameReports(a, b) /\ SameLists(a, b)
    BY <1>5, <2>0 DEF Desks, SameReports, SameLists
  <2> QED BY <1>1, <2>1, <2>2, <2>3 DEF Freed, SameReports, SameLists
<1>9. Turned(b, e)
  <2>1. "diagnose" \in Screens BY DEF Screens, OwnedBy
  <2> QED BY <1>6, <1>8, <2>1, ShowScreenIs
<1>10. e.tasks.scope["diagnose"].state = "idle"
  <2>1. "diagnose" \in Scopes BY DEF Scopes, Reads
  <2>2. b.tasks.scope["diagnose"].state = "idle" BY <1>1, <1>8 DEF Freed
  <2>3. Keeps(b.tasks, e.tasks, "diagnose") BY <1>9, <2>1 DEF Turned, Quietly
  <2> QED BY <2>2, <2>3 DEF Keeps, Loading
<1>11. Apart(d, e, "diagnose")
  <2>1. ASSUME NEW x \in Scopes \ {"diagnose"} PROVE Keeps(d.tasks, e.tasks, x)
    <3>1. Keeps(d.tasks, a.tasks, x) BY <1>1 DEF Freed, Apart
    <3>2. Keeps(a.tasks, e.tasks, x) BY <1>8, <1>9 DEF Turned, Quietly
    <3> QED BY <1>2, <3>1, <3>2, KeepsTwice
  <2>2. e.tasks.worker = d.tasks.worker /\ e.tasks.closed = d.tasks.closed
    BY <1>1, <1>8, <1>9 DEF Freed, Apart, Turned, Quietly
  <2> QED BY <2>1, <2>2 DEF Apart
<1> QED BY <1>8, <1>9, <1>10, <1>11
        DEF Presented, Turned, SameRun, SamePage, SameReports, SameLists, e, p, h

\* A list is read again.
Reloaded(d, list, e) ==
  /\ e \in Desks /\ e.session = d.session /\ e.screen = d.screen
  /\ SameRun(d, e) /\ SamePage(d, e) /\ SameReports(d, e) /\ e.prefs = d.prefs
  /\ Apart(d, e, LoadOf[list])

LEMMA ReloadIs ==
  ASSUME NEW d \in Desks, NEW list \in Lists
  PROVE  Reloaded(d, list, Reload(d, list))
<1> DEFINE x == LoadOf[list]
           t == Started(d.tasks, x, None)
           e == Reload(d, list)
<1>1. d.tasks \in Runners /\ d.lists \in [Lists -> BOOLEAN] BY DEF Desks
<1>2. x \in Scopes /\ None \in Arguments(x)
  BY DEF Lists, LoadOf, Scopes, Reads, Arguments
<1>3. e = [d EXCEPT !.lists = [d.lists EXCEPT ![list] = TRUE], !.tasks = t]
  BY DEF Reload
<1> HIDE DEF x
<1>4. t \in Runners /\ t.worker = d.tasks.worker /\ t.closed = d.tasks.closed
      /\ \A y \in Scopes \ {x} : Keeps(d.tasks, t, y)
  BY <1>1, <1>2, StartedIs
<1>5. [d.lists EXCEPT ![list] = TRUE] \in [Lists -> BOOLEAN] BY <1>1
<1> HIDE DEF t, e
<1>6. e \in Desks BY <1>3, <1>4, <1>5 DEF Desks
<1>7. e.tasks = t /\ e.session = d.session /\ e.screen = d.screen
      /\ SameRun(d, e) /\ SamePage(d, e) /\ SameReports(d, e) /\ e.prefs = d.prefs
  BY <1>3 DEF Desks, SameRun, SamePage, SameReports
<1> QED BY <1>4, <1>6, <1>7 DEF Reloaded, Apart, e, x

-----------------------------------------------------------------------------
(* The settings.                                                           *)

\* The fields of the page are those its save was asked for with, and those of the
\* baseline once that is saved, unless they were edited since.
Fields(p) ==
  /\ p.done # None => /\ p.done.page <= p.instance
                      /\ p.done.page = p.instance => p.late \/ p.form = p.done.cfg
  /\ p.status = "saved" => p.late \/ p.form = p.initial

LEMMA NewSettingsIs ==
  ASSUME NEW p \in Preferences, NEW cfg \in Configs
  PROVE  LET q == NewSettings(p, cfg)
         IN /\ q \in Preferences /\ q.status = "stored" /\ q.done = p.done
            /\ q.loaded = p.loaded /\ (Fields(p) => Fields(q))
<1> DEFINE q == NewSettings(p, cfg)
<1>1. p.instance \in Nat /\ p.instance + 1 \in Nat /\ (p.done # None => p.done.page \in Nat)
  BY DEF Preferences
<1>2. q = [p EXCEPT !.initial = cfg, !.form = cfg, !.status = "stored", !.enabled = FALSE,
                    !.instance = p.instance + 1, !.late = FALSE]
  BY DEF NewSettings
<1> HIDE DEF q
<1>3. q \in Preferences BY <1>1, <1>2 DEF Preferences
<1>4. /\ q.status = "stored" /\ q.done = p.done /\ q.loaded = p.loaded
      /\ q.instance = p.instance + 1
  BY <1>2 DEF Preferences
<1>5. Fields(p) => Fields(q) BY <1>1, <1>4 DEF Fields
<1> QED BY <1>3, <1>4, <1>5 DEF q

LEMMA CompleteIs ==
  ASSUME NEW p \in Preferences, NEW saved \in BOOLEAN
  PROVE  LET q == Complete(p, saved)
         IN /\ q \in Preferences /\ q.done = p.done /\ q.loaded = p.loaded
            /\ Fields(p) => Fields(q)
            /\ \/ q.status = "saved" /\ p.status = "saved" /\ q.initial = p.initial
               \/ q.status = "saved" /\ saved /\ p.done # None /\ q.initial = p.done.cfg
               \/ q.status # "saved"
<1> DEFINE q == Complete(p, saved)
<1>1. CASE p.done = None \/ p.done.page # p.instance
  <2>1. q = p BY <1>1 DEF Complete
  <2> QED BY <2>1
<1>2. CASE p.done # None /\ p.done.page = p.instance /\ saved
  <2>1. p.done.cfg \in Configs BY <1>2 DEF Preferences
  <2>2. q = [p EXCEPT !.initial = p.done.cfg, !.status = "saved", !.enabled = FALSE]
    BY <1>2 DEF Complete
  <2> HIDE DEF q
  <2>3. q \in Preferences /\ q.done = p.done /\ q.loaded = p.loaded
        /\ q.initial = p.done.cfg /\ q.status = "saved"
        /\ q.form = p.form /\ q.late = p.late /\ q.instance = p.instance
    BY <2>1, <2>2 DEF Preferences
  <2>4. Fields(p) => Fields(q) BY <1>2, <2>3 DEF Fields
  <2> QED BY <1>2, <2>3, <2>4 DEF q
<1>3. CASE p.done # None /\ p.done.page = p.instance /\ ~saved
  <2>1. q = [p EXCEPT !.status = "error", !.enabled = TRUE] BY <1>3 DEF Complete
  <2> HIDE DEF q
  <2>2. q \in Preferences /\ q.done = p.done /\ q.loaded = p.loaded /\ q.status = "error"
        /\ q.form = p.form /\ q.late = p.late /\ q.instance = p.instance
    BY <2>1 DEF Preferences
  <2>3. Fields(p) => Fields(q) BY <2>2 DEF Fields
  <2> QED BY <2>2, <2>3 DEF q
<1> QED BY <1>1, <1>2, <1>3

\* The page that buildScreens makes.
Renovated(d) ==
  IF d.last = None THEN NewPage ELSE ShowDiagnosis(SetProfile(NewPage, d.last.of), d.last)

\* What applying a configuration leaves.
Applied(d, e) ==
  /\ e \in Desks /\ e.tasks = d.tasks /\ e.session = d.session /\ e.screen = d.screen
  /\ SameRun(d, e) /\ SameReports(d, e) /\ e.last = d.last
  /\ e.prefs.loaded /\ e.prefs.done = d.prefs.done
  /\ e.prefs.status = "saved" =>
       d.prefs.status = "saved" /\ e.prefs.initial = d.prefs.initial
  /\ Fields(d.prefs) => Fields(e.prefs)
  /\ \/ SamePage(d, e)
     \/ e.page = Renovated(d) /\ e.header = Header("ready")

LEMMA RenovatedIs ==
  ASSUME NEW d \in Desks
  PROVE  Renovated(d) \in Pages /\ NewPage \in Pages
<1>0. d.page \in Pages /\ d.last \in Diagnoses \cup {None} BY DEF Desks
<1>1. NewPage \in Pages BY <1>0, PagesKept
<1>2. ASSUME d.last # None PROVE ShowDiagnosis(SetProfile(NewPage, d.last.of), d.last) \in Pages
  <2>1. d.last \in Diagnoses /\ d.last.of \in Subjects BY <1>0, <1>2, SubjectsOf
  <2>2. SetProfile(NewPage, d.last.of) \in Pages BY <1>1, <2>1, PagesKept
  <2> QED BY <2>1, <2>2, PagesKept
<1> QED BY <1>1, <1>2 DEF Renovated

LEMMA PrefsChanged ==
  ASSUME NEW d \in Desks, NEW p \in Preferences
  PROVE  LET e == [d EXCEPT !.prefs = p]
         IN /\ e \in Desks /\ e.prefs = p /\ e.tasks = d.tasks /\ e.session = d.session
            /\ e.screen = d.screen
            /\ SameRun(d, e) /\ SamePage(d, e) /\ SameReports(d, e) /\ e.lists = d.lists
BY DEF Desks, SameRun, SamePage, SameReports

LEMMA ApplyConfigurationIs ==
  ASSUME NEW d \in Desks, NEW cfg \in Configs, NEW rebuildSettings \in BOOLEAN
  PROVE  Applied(d, ApplyConfiguration(d, cfg, rebuildSettings))
<1> DEFINE p == [d.prefs EXCEPT !.loaded = TRUE, !.config = cfg]
           known == [d EXCEPT !.prefs = p]
           q == NewSettings([p EXCEPT !.texts = cfg.language], cfg)
           m == Renovated(d)
           h == Header("ready")
           lists == [l \in Lists |-> FALSE]
           rebuilt == Rebuilt(known, cfg)
           shown == IF cfg.language = d.prefs.texts THEN known ELSE rebuilt
           e == ApplyConfiguration(d, cfg, rebuildSettings)
<1>0. d.prefs \in Preferences BY DEF Desks
<1>1. p \in Preferences /\ p.loaded /\ p.done = d.prefs.done /\ p.status = d.prefs.status
      /\ p.initial = d.prefs.initial /\ (Fields(d.prefs) => Fields(p))
  BY <1>0 DEF Preferences, Fields
<1>2. known = [[d EXCEPT !.prefs.loaded = TRUE] EXCEPT !.prefs.config = cfg]
  BY DEF Desks
<1> HIDE DEF p
<1>3. Applied(d, known) /\ known.prefs = p /\ SamePage(d, known)
  <2>1. known \in Desks /\ known.prefs = p /\ known.tasks = d.tasks
        /\ known.session = d.session /\ known.screen = d.screen
        /\ SameRun(d, known) /\ SamePage(d, known) /\ SameReports(d, known)
        /\ known.lists = d.lists
    BY <1>1, PrefsChanged
  <2> HIDE DEF known
  <2> QED BY <1>1, <2>1 DEF Applied, SamePage
<1>4. Applied(d, rebuilt)
  <2>1. [p EXCEPT !.texts = cfg.language] \in Preferences
        /\ [p EXCEPT !.texts = cfg.language].done = p.done
        /\ [p EXCEPT !.texts = cfg.language].loaded = p.loaded
        /\ (Fields(p) => Fields([p EXCEPT !.texts = cfg.language]))
    BY <1>1 DEF Preferences, Fields
  <2>2. q \in Preferences /\ q.status = "stored" /\ q.done = p.done /\ q.loaded = p.loaded
        /\ (Fields(p) => Fields(q))
    BY <2>1, NewSettingsIs
  <2>3. m \in Pages BY RenovatedIs
  <2>4. h \in [{"diagnose", "secondary"} -> Statements]
    BY HeadersAre
  <2>5. lists \in [Lists -> BOOLEAN] OBVIOUS
  <2>6. known \in Desks /\ known.prefs = p /\ known.last = d.last
    BY <1>3 DEF Applied
  <2> HIDE DEF known
  <2>7. rebuilt = [known EXCEPT !.prefs = q, !.page = m, !.header = h, !.lists = lists]
    BY <2>6 DEF Rebuilt, Renovated
  <2> HIDE DEF rebuilt, q, m, h, lists
  <2>8. rebuilt \in Desks BY ZenonT(60), <2>2, <2>3, <2>4, <2>5, <2>6, <2>7 DEF Desks
  <2>9. rebuilt.prefs = q /\ rebuilt.page = m /\ rebuilt.header = h
        /\ rebuilt.tasks = known.tasks /\ rebuilt.session = known.session
        /\ rebuilt.screen = known.screen /\ rebuilt.last = known.last
        /\ SameRun(known, rebuilt) /\ SameReports(known, rebuilt)
    BY <2>6, <2>7 DEF Desks, SameRun, SameReports
  <2> QED BY <1>1, <1>3, <2>2, <2>8, <2>9 DEF Applied, SameRun, SameReports, m, h
<1>5. Applied(d, shown) BY <1>3, <1>4
<1>6. e = IF rebuildSettings THEN [shown EXCEPT !.prefs = NewSettings(shown.prefs, cfg)]
          ELSE shown
  <2> HIDE DEF known, rebuilt
  <2>1. rebuilt = Rebuilt(known, cfg) BY DEF rebuilt
  <2> QED BY <1>2, <2>1 DEF ApplyConfiguration
<1> HIDE DEF known, rebuilt, shown, e
<1>7. CASE rebuildSettings
  <2> DEFINE r == NewSettings(shown.prefs, cfg)
  <2>1. shown \in Desks /\ shown.prefs \in Preferences BY <1>5 DEF Applied, Desks
  <2>2. r \in Preferences /\ r.status = "stored" /\ r.done = shown.prefs.done
        /\ r.loaded = shown.prefs.loaded /\ (Fields(shown.prefs) => Fields(r))
    BY <2>1, NewSettingsIs
  <2>3. e = [shown EXCEPT !.prefs = r] BY <1>6, <1>7
  <2> HIDE DEF r
  <2>4. e \in Desks /\ e.prefs = r /\ e.tasks = shown.tasks /\ e.session = shown.session
        /\ e.screen = shown.screen
        /\ SameRun(shown, e) /\ SamePage(shown, e) /\ SameReports(shown, e)
    BY <2>1, <2>2, <2>3, PrefsChanged
  <2>5. e.prefs.status # "saved" /\ e.prefs.done = d.prefs.done /\ e.prefs.loaded
        /\ (Fields(d.prefs) => Fields(e.prefs))
    BY <1>5, <2>2, <2>4 DEF Applied
  <2>6. e.tasks = d.tasks /\ e.session = d.session /\ e.screen = d.screen /\ e.last = d.last
        /\ SameRun(d, e) /\ SameReports(d, e)
    BY <1>5, <2>4 DEF Applied, SameRun, SamePage, SameReports
  <2>7. SamePage(d, e) \/ (e.page = Renovated(d) /\ e.header = Header("ready"))
    BY <1>5, <2>4 DEF Applied, SamePage
  <2> QED BY <2>4, <2>5, <2>6, <2>7 DEF Applied, e
<1>8. CASE ~rebuildSettings BY <1>5, <1>6, <1>8 DEF e
<1> QED BY <1>7, <1>8

\* The save of the Settings page is accepted, or refused and answered at once.
Asked(d, e) ==
  /\ e \in Desks /\ e.session = d.session /\ e.screen = d.screen
  /\ SameRun(d, e) /\ SamePage(d, e) /\ SameReports(d, e)
  /\ e.prefs.loaded = d.prefs.loaded
  /\ e.prefs.status # "saved" /\ Fields(e.prefs)
  /\ \/ /\ ~Loading(d.tasks, "configuration.save")
        /\ e.tasks = StartedMutation(d.tasks, "configuration.save", d.prefs.form)
        /\ e.prefs.done = [page |-> d.prefs.instance, cfg |-> d.prefs.form]
     \/ e.tasks = d.tasks /\ e.prefs.done = None

LEMMA SaveSettingsIs ==
  ASSUME NEW d \in Desks
  PROVE  Asked(d, SaveSettings(d))
<1> DEFINE done == [page |-> d.prefs.instance, cfg |-> d.prefs.form]
           p == [d.prefs EXCEPT !.enabled = FALSE, !.status = "saving", !.late = FALSE,
                                !.done = done]
           saving == [d EXCEPT !.prefs = p]
           t == StartedMutation(d.tasks, "configuration.save", d.prefs.form)
           q == [Complete(p, FALSE) EXCEPT !.done = None]
           e == SaveSettings(d)
<1>0. d.prefs \in Preferences /\ d.tasks \in Runners BY DEF Desks
<1>1. /\ d.prefs.form \in Configs /\ done \in [page : Nat, cfg : Configs]
      /\ done.page = d.prefs.instance /\ done.cfg = d.prefs.form /\ d.prefs.instance \in Nat
  BY <1>0 DEF Preferences
<1> HIDE DEF done
<1>2. p \in Preferences /\ p.status = "saving" /\ p.done = done /\ p.loaded = d.prefs.loaded
      /\ p.instance = d.prefs.instance /\ p.form = d.prefs.form
  BY <1>0, <1>1 DEF Preferences
<1>9. Fields(p) BY <1>1, <1>2 DEF Fields
<1>3. saving = [d EXCEPT !.prefs.enabled = FALSE, !.prefs.status = "saving",
                         !.prefs.late = FALSE, !.prefs.done = done]
  BY DEF Desks
<1> HIDE DEF p
<1>4. saving \in Desks /\ saving.prefs = p /\ saving.tasks = d.tasks
      /\ saving.session = d.session /\ saving.screen = d.screen
      /\ SameRun(d, saving) /\ SamePage(d, saving) /\ SameReports(d, saving)
  BY <1>2, PrefsChanged
<1> HIDE DEF saving
<1>5. e = IF MayStartExclusive(d.tasks, "configuration.save")
          THEN [saving EXCEPT !.tasks = StartedMutation(saving.tasks, "configuration.save",
                                                        d.prefs.form)]
          ELSE [saving EXCEPT !.prefs = [Complete(saving.prefs, FALSE) EXCEPT !.done = None]]
  BY <1>3 DEF SaveSettings, done
<1> HIDE DEF e
<1>6. CASE MayStartExclusive(d.tasks, "configuration.save")
  <2>1. "configuration.save" \in Mutations
        /\ d.prefs.form \in Arguments("configuration.save")
    BY <1>1 DEF Mutations, Arguments
  <2>2. t \in Runners BY <1>0, <2>1, StartedMutationIs
  <2>3. e = [saving EXCEPT !.tasks = t] BY <1>4, <1>5, <1>6
  <2> HIDE DEF t
  <2>4. e \in Desks /\ e.tasks = t /\ e.session = saving.session /\ e.screen = saving.screen
        /\ SameRun(saving, e) /\ SamePage(saving, e) /\ SameReports(saving, e)
        /\ SameLists(saving, e)
    BY <1>4, <2>2, <2>3, TasksChanged
  <2>5. ~Loading(d.tasks, "configuration.save") BY <1>6 DEF MayStartExclusive
  <2> QED BY <1>2, <1>4, <1>9, <2>4, <2>5
          DEF Asked, SameRun, SamePage, SameReports, SameLists, e, t, done
<1>7. CASE ~MayStartExclusive(d.tasks, "configuration.save")
  <2> DEFINE c == Complete(p, FALSE)
  <2>1. c \in Preferences /\ c.loaded = p.loaded /\ c.status # "saved"
    BY <1>2, CompleteIs
  <2> HIDE DEF c
  <2>3. e = [saving EXCEPT !.prefs = q] /\ q = [c EXCEPT !.done = None]
    BY <1>4, <1>5, <1>7 DEF c
  <2> HIDE DEF q
  <2>2. q \in Preferences /\ q.status = c.status /\ q.done = None /\ q.loaded = c.loaded
    BY <2>1, <2>3 DEF Preferences
  <2>5. Fields(q) BY <2>1, <2>2 DEF Fields
  <2>4. e \in Desks /\ e.prefs = q /\ e.tasks = saving.tasks /\ e.session = saving.session
        /\ e.screen = saving.screen
        /\ SameRun(saving, e) /\ SamePage(saving, e) /\ SameReports(saving, e)
    BY <1>4, <2>2, <2>3, PrefsChanged
  <2> QED BY <1>2, <1>4, <2>1, <2>2, <2>4, <2>5
          DEF Asked, SameRun, SamePage, SameReports, e
<1> QED BY <1>6, <1>7

-----------------------------------------------------------------------------
(* Readers: what most handlers are to the mutations.  They start, end and  *)
(* tell nothing of a mutation, and cancel at most; the Settings page says  *)
(* no more than before that its configuration is saved.                    *)

Reader(d, e) ==
  /\ e \in Desks
  /\ e.tasks.worker = d.tasks.worker
  /\ \A x \in Mutations : Keeps(d.tasks, e.tasks, x)
  /\ d.session <= e.session
  /\ e.told = d.told /\ e.consented = d.consented /\ e.closing = d.closing
  /\ e.prefs.done = d.prefs.done
  /\ e.prefs.status = "saved" =>
       d.prefs.status = "saved" /\ e.prefs.initial = d.prefs.initial
  /\ Fields(d.prefs) => Fields(e.prefs)

LEMMA ApartReads ==
  ASSUME NEW d, NEW e, NEW x \in Reads, Apart(d, e, x)
  PROVE  e.tasks.worker = d.tasks.worker /\ \A y \in Mutations : Keeps(d.tasks, e.tasks, y)
<1>1. \A y \in Mutations : y \in Scopes \ {x} BY DEF Mutations, Reads, Scopes
<1> QED BY <1>1 DEF Apart

LEMMA SessionsCount ==
  ASSUME NEW d \in Desks
  PROVE  /\ d.session \in Nat /\ d.session <= d.session
         /\ \A n \in {d.session, d.session + 1} : d.session <= n
BY DEF Desks

LEMMA TurnedReader ==
  ASSUME NEW d \in Desks, NEW e, Turned(d, e) PROVE Reader(d, e)
BY SessionsCount DEF Turned, Reader, Quietly, SameReports, SameLists, Scopes

LEMMA TriggeredReader ==
  ASSUME NEW d \in Desks, NEW e, Triggered(d, e) PROVE Reader(d, e)
<1>1. "diagnose" \in Reads BY DEF Reads
<1>2. Apart(d, e, "diagnose") BY DEF Triggered
<1>3. e.tasks.worker = d.tasks.worker /\ \A y \in Mutations : Keeps(d.tasks, e.tasks, y)
  BY <1>1, <1>2, ApartReads
<1> QED BY <1>3, SessionsCount DEF Triggered, Reader, SameReports, SameLists

LEMMA ProfiledReader ==
  ASSUME NEW d \in Desks, NEW e, NEW profile, Profiled(d, profile, e) PROVE Reader(d, e)
<1>1. "diagnose" \in Reads BY DEF Reads
<1>2. Apart(d, e, "diagnose") BY DEF Profiled
<1>3. e.tasks.worker = d.tasks.worker /\ \A y \in Mutations : Keeps(d.tasks, e.tasks, y)
  BY <1>1, <1>2, ApartReads
<1> QED BY <1>3, SessionsCount DEF Profiled, Reader, SameReports, SameLists

LEMMA PresentedReader ==
  ASSUME NEW d \in Desks, NEW e, NEW doc, Presented(d, doc, e) PROVE Reader(d, e)
<1>1. "diagnose" \in Reads BY DEF Reads
<1>2. Apart(d, e, "diagnose") BY DEF Presented
<1>3. e.tasks.worker = d.tasks.worker /\ \A y \in Mutations : Keeps(d.tasks, e.tasks, y)
  BY <1>1, <1>2, ApartReads
<1> QED BY <1>3, SessionsCount DEF Presented, Reader, SameReports, SameLists

LEMMA ReloadedReader ==
  ASSUME NEW d \in Desks, NEW e, NEW list \in Lists, Reloaded(d, list, e) PROVE Reader(d, e)
<1>1. LoadOf[list] \in Reads BY DEF Reads, Lists, LoadOf
<1>2. Apart(d, e, LoadOf[list]) BY DEF Reloaded
<1>3. e.tasks.worker = d.tasks.worker /\ \A y \in Mutations : Keeps(d.tasks, e.tasks, y)
  BY <1>1, <1>2, ApartReads
<1> QED BY <1>3, SessionsCount DEF Reloaded, Reader, SameReports

LEMMA AppliedReader ==
  ASSUME NEW d \in Desks, NEW e, Applied(d, e) PROVE Reader(d, e)
BY SessionsCount DEF Applied, Reader, SameReports, Keeps

\* A desk on which nothing of this changed.
LEMMA StillReader ==
  ASSUME NEW d \in Desks, NEW e \in Desks, e.tasks = d.tasks, e.session = d.session,
         e.told = d.told, e.consented = d.consented, e.closing = d.closing,
         e.prefs = d.prefs
  PROVE  Reader(d, e)
BY SessionsCount DEF Reader, Keeps

LEMMA ReaderStarts ==
  ASSUME NEW d \in Desks, NEW x \in Reads, NEW arg \in Arguments(x)
  PROVE  LET e == [d EXCEPT !.tasks = Started(d.tasks, x, arg)]
         IN /\ Reader(d, e) /\ Apart(d, e, x) /\ e.screen = d.screen
            /\ SameRun(d, e) /\ SamePage(d, e) /\ SameReports(d, e) /\ SameLists(d, e)
<1> DEFINE t == Started(d.tasks, x, arg)
           e == [d EXCEPT !.tasks = t]
<1>1. d.tasks \in Runners /\ x \in Scopes BY DEF Desks, Scopes
<1>2. t \in Runners /\ t.worker = d.tasks.worker /\ t.closed = d.tasks.closed
      /\ \A y \in Scopes \ {x} : Keeps(d.tasks, t, y)
  BY <1>1, StartedIs
<1> HIDE DEF t
<1>3. e \in Desks /\ e.tasks = t /\ e.session = d.session /\ e.screen = d.screen
      /\ SameRun(d, e) /\ SamePage(d, e) /\ SameReports(d, e) /\ SameLists(d, e)
  BY <1>2, TasksChanged
<1> HIDE DEF e
<1>4. Apart(d, e, x) BY <1>2, <1>3 DEF Apart
<1>5. Reader(d, e) BY <1>3, <1>4, ApartReads, SessionsCount DEF Reader, SameReports, SameLists
<1> QED BY <1>3, <1>4, <1>5 DEF e, t

\* A reader that leaves the Diagnose screen and its run alone as well.
Passive(d, e) ==
  /\ Reader(d, e) /\ SameRun(d, e) /\ SamePage(d, e)
  /\ Keeps(d.tasks, e.tasks, "diagnose")
  /\ e.prefs.loaded = d.prefs.loaded

LEMMA ReaderTwice ==
  ASSUME NEW d \in Desks, NEW e, NEW f, Reader(d, e), Reader(e, f) PROVE Reader(d, f)
<1>1. d.tasks \in Runners /\ d.session \in Nat /\ e.session \in Nat /\ f.session \in Nat
      /\ e \in Desks /\ f \in Desks
  BY DEF Reader, Desks
<1>2. \A x \in Mutations : Keeps(d.tasks, f.tasks, x)
  BY <1>1, KeepsTwice DEF Reader, Scopes
<1>3. d.session <= f.session BY <1>1 DEF Reader
<1> QED BY <1>2, <1>3 DEF Reader

LEMMA PassiveTwice ==
  ASSUME NEW d \in Desks, NEW e, NEW f, Passive(d, e), Passive(e, f) PROVE Passive(d, f)
<1>1. d.tasks \in Runners /\ "diagnose" \in Scopes BY DEF Desks, Scopes, Reads
<1>2. Keeps(d.tasks, f.tasks, "diagnose") BY <1>1, KeepsTwice DEF Passive
<1>3. Reader(d, f) BY ReaderTwice DEF Passive
<1> QED BY <1>2, <1>3 DEF Passive, SameRun, SamePage

LEMMA TurnedPassive ==
  ASSUME NEW d \in Desks, NEW e, Turned(d, e) PROVE Passive(d, e)
<1>1. "diagnose" \in Scopes BY DEF Scopes, Reads
<1> QED BY <1>1, TurnedReader DEF Turned, Passive, Quietly, SameLists

LEMMA ReloadedPassive ==
  ASSUME NEW d \in Desks, NEW e, NEW list \in Lists, Reloaded(d, list, e) PROVE Passive(d, e)
<1>1. "diagnose" \in Scopes \ {LoadOf[list]} BY DEF Scopes, Reads, LoadOf, Lists
<1> QED BY <1>1, ReloadedReader DEF Reloaded, Passive, Apart

LEMMA StartPassive ==
  ASSUME NEW d \in Desks, NEW x \in Reads \ {"diagnose"}, NEW arg \in Arguments(x)
  PROVE  Passive(d, [d EXCEPT !.tasks = Started(d.tasks, x, arg)])
<1> DEFINE e == [d EXCEPT !.tasks = Started(d.tasks, x, arg)]
<1>1. /\ Reader(d, e) /\ Apart(d, e, x)
      /\ SameRun(d, e) /\ SamePage(d, e) /\ SameLists(d, e)
  BY ReaderStarts
<1>2. "diagnose" \in Scopes \ {x} BY DEF Scopes, Reads
<1> HIDE DEF e
<1> QED BY <1>1, <1>2 DEF Passive, Apart, SameLists, e

LEMMA StillPassive ==
  ASSUME NEW d \in Desks, NEW e \in Desks, e.tasks = d.tasks, e.session = d.session,
         e.told = d.told, e.consented = d.consented, e.closing = d.closing,
         e.prefs = d.prefs, SameRun(d, e), SamePage(d, e)
  PROVE  Passive(d, e)
BY StillReader DEF Passive, Keeps

LEMMA OpenedPassive ==
  ASSUME NEW d \in Desks, NEW kind \in {"privacy", "picker", "overwrite"}, NEW session \in Nat
  PROVE  Passive(d, Opened(d, kind, session))
<1> DEFINE e == Opened(d, kind, session)
           dialogs == d.dialogs \cup {Dialog(kind, session)}
<1>1. dialogs \in SUBSET [kind : {"privacy", "picker", "overwrite"}, session : Nat]
  BY DEF Desks, Dialog
<1>2. e = [d EXCEPT !.dialogs = dialogs] BY DEF Opened
<1> HIDE DEF dialogs, e
<1>3. e \in Desks BY <1>1, <1>2 DEF Desks
<1>4. /\ e.tasks = d.tasks /\ e.session = d.session
      /\ e.told = d.told /\ e.consented = d.consented /\ e.closing = d.closing
      /\ e.prefs = d.prefs /\ SameRun(d, e) /\ SamePage(d, e)
  BY <1>2 DEF Desks, SameRun, SamePage
<1> QED BY <1>3, <1>4, StillPassive DEF e

LEMMA PreparePassive ==
  ASSUME NEW d \in Desks
  PROVE  Passive(d, PrepareReport(d))
<1> DEFINE b == CancelReports(d)
           arg == [session |-> b.session]
           e == [b EXCEPT !.tasks = Started(b.tasks, "report.prepare", arg)]
<1>1. Turned(d, b) /\ Passive(d, b) BY CancelReportsIs, TurnedPassive
<1>2. b \in Desks BY <1>1 DEF Turned
<1>3. "report.prepare" \in Reads \ {"diagnose"} /\ arg \in Arguments("report.prepare")
  BY <1>2, SessionsCount DEF Reads, Arguments, ReportRequests
<1>4. e = PrepareReport(d) BY DEF PrepareReport
<1> HIDE DEF b, arg
<1>5. Passive(b, e) BY <1>2, <1>3, StartPassive
<1> HIDE DEF e
<1> QED BY <1>1, <1>4, <1>5, PassiveTwice

\* The write of a report is handed to the worker, in the current session, and
\* replaces a file only with the user's consent.
Handed(d, e) ==
  \E replace \in BOOLEAN :
    /\ e \in Desks
    /\ e.tasks = StartedMutation(d.tasks, "report.write",
                                 [session |-> d.session, replace |-> replace])
    /\ e.session = d.session /\ SameRun(d, e) /\ SamePage(d, e) /\ e.prefs = d.prefs
    /\ e.told = d.told /\ e.closing = d.closing
    /\ d.consented \subseteq e.consented
    /\ replace => d.session \in e.consented

LEMMA WriteReportIs ==
  ASSUME NEW d \in Desks, NEW replace \in BOOLEAN
  PROVE  LET e == WriteReport(d, d.session, replace)
         IN /\ e \in Desks
            /\ e.tasks = StartedMutation(d.tasks, "report.write",
                                         [session |-> d.session, replace |-> replace])
            /\ e.session = d.session /\ e.screen = d.screen /\ SameRun(d, e) /\ SamePage(d, e)
            /\ SameLists(d, e) /\ SameReports(d, e)
<1> DEFINE arg == [session |-> d.session, replace |-> replace]
           t == StartedMutation(d.tasks, "report.write", arg)
           e == WriteReport(d, d.session, replace)
<1>1. d.tasks \in Runners BY DEF Desks
<1>2. "report.write" \in Mutations /\ arg \in Arguments("report.write")
  BY SessionsCount DEF Mutations, Arguments, WriteRequests
<1>3. e = [d EXCEPT !.tasks = t] BY DEF WriteReport
<1> HIDE DEF arg, e
<1>4. t \in Runners BY <1>1, <1>2, StartedMutationIs
<1> HIDE DEF t
<1>5. e \in Desks /\ e.tasks = t /\ e.session = d.session /\ e.screen = d.screen
      /\ SameRun(d, e) /\ SamePage(d, e) /\ SameReports(d, e) /\ SameLists(d, e)
  BY <1>3, <1>4, TasksChanged
<1> QED BY <1>5 DEF e, t, arg

LEMMA AcceptedIs ==
  ASSUME NEW d \in Desks,
         NEW dialog \in [kind : {"privacy", "picker", "overwrite"}, session : Nat]
  PROVE  Passive(d, Accepted(d, dialog)) \/ Handed(d, Accepted(d, dialog))
<1> DEFINE e == Accepted(d, dialog)
<1>0. Passive(d, d) BY StillPassive DEF SameRun, SamePage
<1>1. CASE dialog.kind = "privacy"
  <2>1. e = PrepareReport(d) BY <1>1 DEF Accepted
  <2> QED BY <2>1, PreparePassive
<1>2. CASE dialog.kind # "privacy" /\ ~SessionCurrent(d, dialog.session)
  <2>1. e = d BY <1>2 DEF Accepted
  <2> QED BY <1>0, <2>1
<1>3. CASE dialog.kind = "picker" /\ SessionCurrent(d, dialog.session)
  <2> DEFINE arg == [session |-> dialog.session]
  <2>1. e = [d EXCEPT !.tasks = Started(d.tasks, "report.inspect", arg)]
    BY <1>3 DEF Accepted
  <2>2. "report.inspect" \in Reads \ {"diagnose"} /\ arg \in Arguments("report.inspect")
    BY DEF Reads, Arguments, ReportRequests
  <2> HIDE DEF arg
  <2> QED BY <2>1, <2>2, StartPassive
<1>4. CASE dialog.kind = "overwrite" /\ SessionCurrent(d, dialog.session)
  <2> DEFINE w == WriteReport(d, d.session, TRUE)
             all == d.consented \cup {d.session}
  <2>1. e = [w EXCEPT !.consented = w.consented \cup {d.session}]
    BY <1>4 DEF Accepted, SessionCurrent
  <2>2. /\ w \in Desks
        /\ w.tasks = StartedMutation(d.tasks, "report.write",
                                     [session |-> d.session, replace |-> TRUE])
        /\ w.session = d.session /\ SameRun(d, w) /\ SamePage(d, w)
        /\ SameLists(d, w) /\ SameReports(d, w)
    BY WriteReportIs
  <2>3. e = [w EXCEPT !.consented = all] BY <2>1, <2>2 DEF SameReports
  <2>4. all \in SUBSET Nat BY SessionsCount DEF Desks
  <2>5. d.consented \subseteq all /\ d.session \in all OBVIOUS
  <2> HIDE DEF w, all, e
  <2>6. e \in Desks BY <2>2, <2>3, <2>4 DEF Desks
  <2>7. e.tasks = w.tasks /\ e.session = w.session /\ SameRun(w, e) /\ SamePage(w, e)
        /\ e.prefs = w.prefs /\ e.told = w.told /\ e.closing = w.closing
        /\ e.consented = all
    BY <2>2, <2>3 DEF Desks, SameRun, SamePage
  <2>8. Handed(d, e)
    BY <2>2, <2>5, <2>6, <2>7
       DEF Handed, SameRun, SamePage, SameReports, SameLists
  <2> QED BY <2>8 DEF e
<1> QED BY <1>1, <1>2, <1>3, <1>4
-----------------------------------------------------------------------------
(* The observers, on the desk n that is left when the callback is taken.   *)

Taking(d) == [d EXCEPT !.tasks = Delivered(@)]

\* The callback is gone; nothing else changes.
Taken(d, n, x) ==
  /\ n \in Desks /\ n.tasks.scope = d.tasks.scope /\ n.tasks.worker = d.tasks.worker
  /\ n.tasks.closed = d.tasks.closed
  /\ \A y \in Scopes : Noticed(d.tasks, y) => Noticed(n.tasks, y) \/ y = x
  /\ n.session = d.session /\ n.screen = d.screen
  /\ SameRun(d, n) /\ SamePage(d, n) /\ SameReports(d, n) /\ SameLists(d, n)

LEMMA TakingIs ==
  ASSUME NEW d \in Desks, d.tasks.inbox # <<>>
  PROVE  /\ Taken(d, Taking(d), Head(d.tasks.inbox).about)
         /\ Head(d.tasks.inbox) \in Notices
<1> DEFINE t == Delivered(d.tasks)
           n == Taking(d)
<1>1. d.tasks \in Runners BY DEF Desks
<1>2. /\ t \in Runners /\ t.worker = d.tasks.worker /\ t.closed = d.tasks.closed
      /\ t.scope = d.tasks.scope /\ Head(d.tasks.inbox) \in Notices
      /\ \A x \in Scopes :
           Noticed(d.tasks, x) => Noticed(t, x) \/ Head(d.tasks.inbox).about = x
  BY <1>1, DeliveredIs
<1>3. n = [d EXCEPT !.tasks = t] BY DEF Taking
<1> HIDE DEF t, n
<1>4. n \in Desks /\ n.tasks = t /\ n.session = d.session /\ n.screen = d.screen
      /\ SameRun(d, n) /\ SamePage(d, n) /\ SameReports(d, n) /\ SameLists(d, n)
  BY <1>2, <1>3, TasksChanged
<1> QED BY <1>2, <1>4 DEF n, Taken

\* A progress event is shown, or is of a run that is over.
EventShown(n, e) ==
  \/ e = n
  \/ LET r == n.tasks.scope["diagnose"]
     IN /\ r.state \in {"loading", "success"}
        /\ e \in Desks
        /\ e = [n EXCEPT !.page = UpsertCheck(n.page, Diagnosis(r.op, r.arg))]

LEMMA ObserveEventIs ==
  ASSUME NEW n \in Desks, NEW op
  PROVE  EventShown(n, ObserveEvent(n, op))
<1> DEFINE r == n.tasks.scope["diagnose"]
           doc == Diagnosis(r.op, r.arg)
           page == UpsertCheck(n.page, doc)
           e == [n EXCEPT !.page = page]
<1>1. CASE ~Presentable(n, op)
  BY <1>1 DEF ObserveEvent, EventShown
<1>2. CASE Presentable(n, op)
  <2>1. r.op = op /\ r.state \in {"loading", "success"} BY <1>2 DEF Presentable
  <2>2. ObserveEvent(n, op) = e BY <1>2, <2>1 DEF ObserveEvent
  <2>3. n.tasks \in Runners /\ n.page \in Pages BY DEF Desks
  <2>4. "diagnose" \in Scopes BY DEF Scopes, Reads
  <2>5. r \in Snapshots /\ r.arg \in Arguments("diagnose")
    BY <2>1, <2>3, <2>4, RunnerHas
  <2>6. doc \in RunResults
    BY <2>5 DEF Snapshots, Arguments, RunResults, Diagnosis
  <2>7. page \in Pages BY <2>3, <2>6, PagesKept DEF Diagnoses
  <2> HIDE DEF page
  <2>8. e \in Desks BY <2>7 DEF Desks
  <2> QED BY <2>1, <2>2, <2>8 DEF EventShown, page
<1> QED BY <1>1, <1>2

\* The Diagnose screen after the snapshot r of its run was observed.
RunShown(n, e) ==
  LET r == n.tasks.scope["diagnose"]
  IN /\ e \in Desks /\ e.tasks = n.tasks /\ e.session = n.session
     /\ SameRun(n, e) /\ SameReports(n, e) /\ SameLists(n, e)
     /\ \/ /\ r.state = "loading" /\ e.header = Header("running") /\ e.last = n.last
           /\ e.page = SetRunning(ResetResults(n.page), TRUE)
        \/ /\ r.state = "success" /\ e.header = HeaderFor(r.value) /\ e.last = r.value
           /\ e.page = ShowDiagnosis(n.page, r.value)
        \/ /\ r.state \notin {"loading", "success"} /\ e.header = Header(r.state)
           /\ e.last = n.last
           /\ e.page = ShowError(n.page, r.state) /\ r.state \in States

LEMMA ObserveDiagnosisIs ==
  ASSUME NEW n \in Desks
  PROVE  RunShown(n, ObserveDiagnosis(n, n.tasks.scope["diagnose"]))
<1> DEFINE r == n.tasks.scope["diagnose"]
           e == ObserveDiagnosis(n, r)
<1>1. n.tasks \in Runners /\ n.page \in Pages BY DEF Desks
<1>2. "diagnose" \in Scopes BY DEF Scopes, Reads
<1>3. r \in Snapshots /\ (r.state = "success" => r.value \in Values("diagnose"))
  BY <1>1, <1>2, RunnerHas
<1>4. r.state \in States BY <1>3 DEF Snapshots
<1>5. r.state = "success" => r.value \in Diagnoses BY <1>3 DEF Values, Diagnoses
<1> HIDE DEF r
<1>6. CASE r.state = "loading"
  <2> DEFINE page == SetRunning(ResetResults(n.page), TRUE)
             header == Header("running")
  <2>1. page \in Pages BY <1>1, PagesKept
  <2>2. header \in [{"diagnose", "secondary"} -> Statements]
    BY HeadersAre
  <2>3. e = [n EXCEPT !.page = page, !.header = header] BY <1>6 DEF ObserveDiagnosis
  <2> HIDE DEF page, header, e
  <2>4. e \in Desks BY <2>1, <2>2, <2>3 DEF Desks
  <2>5. e.tasks = n.tasks /\ e.session = n.session /\ e.page = page /\ e.header = header
        /\ e.last = n.last /\ SameRun(n, e) /\ SameReports(n, e) /\ SameLists(n, e)
    BY <2>3 DEF Desks, SameRun, SameReports, SameLists
  <2> QED BY <1>6, <2>4, <2>5 DEF RunShown, page, header, e, r
<1>7. CASE r.state = "success"
  <2> DEFINE page == ShowDiagnosis(n.page, r.value)
             header == HeaderFor(r.value)
             doc == r.value
  <2>1. page \in Pages /\ doc \in Diagnoses BY <1>1, <1>5, <1>7, PagesKept
  <2>2. header \in [{"diagnose", "secondary"} -> Statements]
    BY <1>5, <1>7, HeadersAre
  <2>3. e = [n EXCEPT !.last = doc, !.page = page, !.header = header]
    BY <1>7 DEF ObserveDiagnosis
  <2> HIDE DEF page, header, e, doc
  <2>4. e \in Desks BY <2>1, <2>2, <2>3 DEF Desks
  <2>5. e.tasks = n.tasks /\ e.session = n.session /\ e.page = page /\ e.header = header
        /\ e.last = doc /\ SameRun(n, e) /\ SameReports(n, e) /\ SameLists(n, e)
    BY <2>3 DEF Desks, SameRun, SameReports, SameLists
  <2> QED BY <1>7, <2>4, <2>5 DEF RunShown, page, header, doc, e, r
<1>8. CASE r.state \notin {"loading", "success"}
  <2> DEFINE page == ShowError(n.page, r.state)
             header == Header(r.state)
  <2>1. page \in Pages BY <1>1, <1>4, PagesKept
  <2>2. header \in [{"diagnose", "secondary"} -> Statements]
    BY <1>4, HeadersAre
  <2>3. e = [n EXCEPT !.page = page, !.header = header] BY <1>8 DEF ObserveDiagnosis
  <2> HIDE DEF page, header, e
  <2>4. e \in Desks BY <2>1, <2>2, <2>3 DEF Desks
  <2>5. e.tasks = n.tasks /\ e.session = n.session /\ e.page = page /\ e.header = header
        /\ e.last = n.last /\ SameRun(n, e) /\ SameReports(n, e) /\ SameLists(n, e)
    BY <2>3 DEF Desks, SameRun, SameReports, SameLists
  <2> QED BY <1>4, <1>8, <2>4, <2>5 DEF RunShown, page, header, e, r
<1> QED BY <1>6, <1>7, <1>8

LEMMA ObserveLoadIs ==
  ASSUME NEW n \in Desks, NEW list \in Lists, NEW s
  PROVE  Passive(n, ObserveLoad(n, list, s))
<1> DEFINE on == (s.state = "loading")
           all == [n.lists EXCEPT ![list] = on]
           e == ObserveLoad(n, list, s)
<1>1. on \in BOOLEAN OBVIOUS
<1>2. e = [n EXCEPT !.lists = all] BY DEF ObserveLoad
<1> HIDE DEF on, e
<1>3. all \in [Lists -> BOOLEAN] BY <1>1 DEF Desks
<1> HIDE DEF all
<1>4. e \in Desks BY <1>2, <1>3 DEF Desks
<1>5. /\ e.tasks = n.tasks /\ e.session = n.session
      /\ e.told = n.told /\ e.consented = n.consented /\ e.closing = n.closing
      /\ e.prefs = n.prefs /\ SameRun(n, e) /\ SamePage(n, e)
  BY <1>2 DEF Desks, SameRun, SamePage
<1> QED BY <1>4, <1>5, StillPassive DEF e

LEMMA PassiveItself ==
  ASSUME NEW n \in Desks PROVE Passive(n, n)
BY StillPassive DEF SameRun, SamePage

LEMMA ObserveReadIs ==
  ASSUME NEW n \in Desks
  PROVE  LET e == ObserveRead(n, n.tasks.scope["history.read"])
         IN \/ Passive(n, e)
            \/ \E doc \in Diagnoses : Presented(n, doc, e)
            \/ \E profile \in Subjects : Profiled(n, profile, e)
<1> DEFINE r == n.tasks.scope["history.read"]
           e == ObserveRead(n, r)
<1>1. n.tasks \in Runners /\ "history.read" \in Scopes BY DEF Desks, Scopes, Reads
<1>2. r.state = "success" => r.value \in Values("history.read") BY <1>1, RunnerHas
<1>3. r.state = "success" => r.value.doc \in Diagnoses
  BY <1>2 DEF Values, Arguments, ReadRequests, Diagnoses
<1> HIDE DEF r
<1>4. CASE r.state # "success"
  BY <1>4, PassiveItself DEF ObserveRead, r
<1>5. CASE r.state = "success" /\ r.value.action = "open"
  <2>1. e = PresentHistorical(n, r.value.doc) BY <1>5 DEF ObserveRead
  <2>2. Presented(n, r.value.doc, e) BY <1>3, <1>5, <2>1, PresentHistoricalIs
  <2> QED BY <1>3, <1>5, <2>2 DEF r
<1>6. CASE r.state = "success" /\ r.value.action = "rerun"
  <2>1. e = StartProfile(n, r.value.doc.of) BY <1>6 DEF ObserveRead
  <2>2. r.value.doc.of \in Subjects BY <1>3, <1>6, SubjectsOf
  <2>3. Profiled(n, r.value.doc.of, e) BY <2>1, <2>2, StartProfileIs
  <2> QED BY <2>2, <2>3 DEF r
<1>7. CASE r.state = "success" /\ r.value.action \notin {"open", "rerun"}
  <2>1. e = Opened(n, "privacy", 0) BY <1>7 DEF ObserveRead
  <2> QED BY <2>1, OpenedPassive DEF r
<1> QED BY <1>4, <1>5, <1>6, <1>7 DEF r

LEMMA ObserveMutationIs ==
  ASSUME NEW n \in Desks, NEW list \in Lists, NEW s
  PROVE  Passive(n, ObserveMutation(n, list, s))
<1>1. CASE s.state = "success" /\ n.screen = list
  BY <1>1, ReloadIs, ReloadedPassive DEF ObserveMutation
<1>2. CASE ~(s.state = "success" /\ n.screen = list)
  BY <1>2, PassiveItself DEF ObserveMutation
<1> QED BY <1>1, <1>2

LEMMA ObserveSettingsLoadIs ==
  ASSUME NEW n \in Desks
  PROVE  LET e == ObserveSettingsLoad(n, n.tasks.scope["configuration.load"])
         IN e = n \/ Applied(n, e)
<1> DEFINE r == n.tasks.scope["configuration.load"]
<1>1. n.tasks \in Runners /\ "configuration.load" \in Scopes BY DEF Desks, Scopes, Reads
<1>2. r.state = "success" => r.value \in Values("configuration.load") BY <1>1, RunnerHas
<1>3. r.state = "success" => r.value \in Configs BY <1>2 DEF Values
<1> HIDE DEF r
<1>4. CASE r.state = "success"
  BY <1>3, <1>4, ApplyConfigurationIs DEF ObserveSettingsLoad, r
<1>5. CASE r.state # "success"
  BY <1>5 DEF ObserveSettingsLoad, r
<1> QED BY <1>4, <1>5

\* The end of a save is observed on desk n: its configuration, if it was saved, is
\* applied, which leaves desk a, and the page that asked is answered.
Answering(n, a, e) ==
  LET r == n.tasks.scope["configuration.save"]
  IN /\ \/ r.state = "success" /\ Applied(n, a)
        \/ r.state \notin {"loading", "success"} /\ a = n
     /\ e \in Desks /\ e.tasks = a.tasks /\ e.session = a.session
     /\ SameRun(a, e) /\ SamePage(a, e) /\ SameReports(a, e)
     /\ e.prefs.loaded = a.prefs.loaded /\ e.prefs.done = None
     /\ Fields(a.prefs) => Fields(e.prefs)
     /\ \/ e.prefs.status # "saved"
        \/ a.prefs.status = "saved" /\ e.prefs.initial = a.prefs.initial
        \/ r.state = "success" /\ a.prefs.done # None /\ e.prefs.initial = a.prefs.done.cfg

LEMMA ObserveSettingsSaveIs ==
  ASSUME NEW n \in Desks
  PROVE  LET e == ObserveSettingsSave(n, n.tasks.scope["configuration.save"])
         IN e = n \/ \E a \in Desks : Answering(n, a, e)
<1> DEFINE r == n.tasks.scope["configuration.save"]
           e == ObserveSettingsSave(n, r)
           saved == (r.state = "success")
           a == IF saved THEN ApplyConfiguration(n, r.value, FALSE) ELSE n
           p == Complete(a.prefs, saved)
           q == [p EXCEPT !.done = None]
<1>1. n.tasks \in Runners /\ "configuration.save" \in Scopes
  BY DEF Desks, Scopes, Mutations
<1>2. r.state = "success" => r.value \in Values("configuration.save") BY <1>1, RunnerHas
<1>3. r.state = "success" => r.value \in Configs BY <1>2 DEF Values, Arguments
<1>4. CASE r.state = "loading"
  BY <1>4 DEF ObserveSettingsSave
<1>5. CASE r.state # "loading"
  <2>1. e = [a EXCEPT !.prefs = q]
    <3>1. e = [a EXCEPT !.prefs = [Complete(a.prefs, saved) EXCEPT !.done = None]]
      BY <1>5 DEF ObserveSettingsSave
    <3> QED BY <3>1
  <2>2. saved \in BOOLEAN /\ (saved <=> r.state = "success") OBVIOUS
  <2>3. saved => Applied(n, a) BY <1>3, ApplyConfigurationIs
  <2>4. ~saved => a = n OBVIOUS
  <2> HIDE DEF saved, a
  <2>5. a \in Desks BY <2>3, <2>4 DEF Applied
  <2>6. a.prefs \in Preferences BY <2>5 DEF Desks
  <2>7. /\ p \in Preferences /\ p.loaded = a.prefs.loaded /\ (Fields(a.prefs) => Fields(p))
        /\ \/ p.status = "saved" /\ a.prefs.status = "saved" /\ p.initial = a.prefs.initial
           \/ p.status = "saved" /\ saved /\ a.prefs.done # None
              /\ p.initial = a.prefs.done.cfg
           \/ p.status # "saved"
    BY <2>2, <2>6, CompleteIs
  <2> HIDE DEF p
  <2>8. q \in Preferences /\ q.loaded = p.loaded /\ q.status = p.status
        /\ q.initial = p.initial /\ q.done = None /\ (Fields(p) => Fields(q))
    BY <2>7 DEF Preferences, Fields
  <2> HIDE DEF q, e
  <2>9. /\ e \in Desks /\ e.prefs = q /\ e.tasks = a.tasks /\ e.session = a.session
        /\ SameRun(a, e) /\ SamePage(a, e) /\ SameReports(a, e)
    BY <2>1, <2>5, <2>8, PrefsChanged
  <2>10. \/ r.state = "success" /\ Applied(n, a)
         \/ r.state \notin {"loading", "success"} /\ a = n
    BY <1>5, <2>2, <2>3, <2>4
  <2>11. /\ e.prefs.loaded = a.prefs.loaded /\ e.prefs.done = None
         /\ Fields(a.prefs) => Fields(e.prefs)
    BY <2>7, <2>8, <2>9
  <2>12. \/ e.prefs.status # "saved"
         \/ a.prefs.status = "saved" /\ e.prefs.initial = a.prefs.initial
         \/ r.state = "success" /\ a.prefs.done # None /\ e.prefs.initial = a.prefs.done.cfg
    BY <2>2, <2>7, <2>8, <2>9
  <2>13. Answering(n, a, e) BY <2>9, <2>10, <2>11, <2>12 DEF Answering
  <2> QED BY <2>5, <2>13 DEF e
<1> QED BY <1>4, <1>5

LEMMA ObservePrepareIs ==
  ASSUME NEW n \in Desks
  PROVE  Passive(n, ObservePrepare(n, n.tasks.scope["report.prepare"]))
<1> DEFINE r == n.tasks.scope["report.prepare"]
<1>1. CASE r.state = "success" /\ SessionCurrent(n, r.value.session)
  <2>1. r.value.session \in Nat BY <1>1, SessionsCount DEF SessionCurrent
  <2> QED BY <1>1, <2>1, OpenedPassive DEF ObservePrepare
<1>2. CASE ~(r.state = "success" /\ SessionCurrent(n, r.value.session))
  BY <1>2, PassiveItself DEF ObservePrepare
<1> QED BY <1>1, <1>2

LEMMA ObserveInspectIs ==
  ASSUME NEW n \in Desks
  PROVE  LET e == ObserveInspect(n, n.tasks.scope["report.inspect"])
         IN Passive(n, e) \/ Handed(n, e)
<1> DEFINE r == n.tasks.scope["report.inspect"]
           e == ObserveInspect(n, r)
<1>1. CASE r.state # "success" \/ ~SessionCurrent(n, r.value.session)
  BY <1>1, PassiveItself DEF ObserveInspect
<1>2. CASE r.state = "success" /\ SessionCurrent(n, r.value.session) /\ r.value.exists
  <2>1. r.value.session \in Nat BY <1>2, SessionsCount DEF SessionCurrent
  <2> QED BY <1>2, <2>1, OpenedPassive DEF ObserveInspect
<1>3. CASE r.state = "success" /\ SessionCurrent(n, r.value.session) /\ ~r.value.exists
  <2>1. e = WriteReport(n, n.session, FALSE) BY <1>3 DEF ObserveInspect, SessionCurrent
  <2> HIDE DEF e
  <2>2. /\ e \in Desks
        /\ e.tasks = StartedMutation(n.tasks, "report.write",
                                     [session |-> n.session, replace |-> FALSE])
        /\ e.session = n.session /\ SameRun(n, e) /\ SamePage(n, e)
        /\ SameLists(n, e) /\ SameReports(n, e)
    BY <2>1, WriteReportIs
  <2>3. Handed(n, e) BY <2>2 DEF Handed, SameReports, SameLists
  <2> QED BY <2>3 DEF e
<1> QED BY <1>1, <1>2, <1>3

\* The user is told of the report that was written, in its own session.
Reported(n, e) ==
  LET r == n.tasks.scope["report.write"]
  IN \/ e = n /\ ~(r.state = "success" /\ SessionCurrent(n, r.value.session))
     \/ /\ r.state = "success" /\ SessionCurrent(n, r.value.session)
        /\ e \in Desks /\ e.tasks = n.tasks /\ e.session = n.session
        /\ SameRun(n, e) /\ SamePage(n, e) /\ e.prefs = n.prefs
        /\ e.consented = n.consented /\ e.closing = n.closing
        /\ e.told = n.told \cup {r.value.session}

LEMMA ObserveWriteIs ==
  ASSUME NEW n \in Desks
  PROVE  Reported(n, ObserveWrite(n, n.tasks.scope["report.write"]))
<1> DEFINE r == n.tasks.scope["report.write"]
           told == n.told \cup {r.value.session}
           e == [n EXCEPT !.told = told]
<1>1. CASE ~(r.state = "success" /\ SessionCurrent(n, r.value.session))
  BY <1>1 DEF ObserveWrite, Reported
<1>2. CASE r.state = "success" /\ SessionCurrent(n, r.value.session)
  <2>1. r.value.session \in Nat BY <1>2, SessionsCount DEF SessionCurrent
  <2>2. told \in SUBSET Nat BY <2>1 DEF Desks
  <2>3. ObserveWrite(n, r) = e BY <1>2 DEF ObserveWrite
  <2> HIDE DEF told
  <2>4. e \in Desks BY <2>2 DEF Desks
  <2>5. /\ e.tasks = n.tasks /\ e.session = n.session
        /\ SameRun(n, e) /\ SamePage(n, e) /\ e.prefs = n.prefs
        /\ e.consented = n.consented /\ e.closing = n.closing /\ e.told = told
    BY DEF Desks, SameRun, SamePage
  <2> QED BY <1>2, <2>3, <2>4, <2>5 DEF Reported, told
<1> QED BY <1>1, <1>2

\* What the other observers do.
Plain(n, e) ==
  \/ Passive(n, e)
  \/ \E doc \in Diagnoses : Presented(n, doc, e)
  \/ \E profile \in Subjects : Profiled(n, profile, e)
  \/ Applied(n, e)
  \/ Handed(n, e)

Others == Scopes \ {"diagnose", "configuration.save", "report.write"}

LEMMA ObservedIs ==
  ASSUME NEW d \in Desks, d.tasks.inbox # <<>>
  PROVE  LET x == Head(d.tasks.inbox).about
             n == Taking(d)
             e == Observed(d)
         IN /\ Taken(d, n, x)
            /\ \/ x = "progress" /\ EventShown(n, e)
               \/ x = "diagnose" /\ RunShown(n, e)
               \/ x = "configuration.save" /\ (e = n \/ \E a \in Desks : Answering(n, a, e))
               \/ x = "report.write" /\ Reported(n, e)
               \/ x \in Others /\ Plain(n, e)
<1> DEFINE notice == Head(d.tasks.inbox)
           x == notice.about
           n == Taking(d)
           s == n.tasks.scope[x]
           e == Observed(d)
<1>1. Taken(d, n, x) /\ notice \in Notices BY TakingIs
<1>2. x \in Scopes \cup {"progress"} BY <1>1 DEF Notices
<1>3. n \in Desks /\ n.tasks.scope = d.tasks.scope BY <1>1 DEF Taken
<1>4. e = CASE x = "progress" -> ObserveEvent(n, notice.op)
            [] x = "diagnose" -> ObserveDiagnosis(n, s)
            [] x \in {"history.load", "profiles.load"} -> ObserveLoad(n, ListOf(x), s)
            [] x = "history.read" -> ObserveRead(n, s)
            [] x \in {"history.mutation", "profiles.mutation"} ->
                 ObserveMutation(n, ListOf(x), s)
            [] x = "configuration.load" -> ObserveSettingsLoad(n, s)
            [] x = "configuration.save" -> ObserveSettingsSave(n, s)
            [] x = "report.prepare" -> ObservePrepare(n, s)
            [] x = "report.inspect" -> ObserveInspect(n, s)
            [] x = "report.write" -> ObserveWrite(n, s)
  BY <1>3 DEF Observed, Taking
<1>5. /\ x \in {"history.load", "profiles.load", "history.mutation", "profiles.mutation"}
           => ListOf(x) \in Lists
  BY DEF ListOf, Lists, LoadOf, MutationOf
<1> HIDE DEF e, n, notice
<1>6. CASE x = "progress"
  <2>1. e = ObserveEvent(n, notice.op) BY <1>4, <1>6
  <2> QED BY <1>1, <1>3, <1>6, <2>1, ObserveEventIs DEF e, n, notice
<1>7. CASE x = "diagnose"
  <2>1. e = ObserveDiagnosis(n, n.tasks.scope["diagnose"]) BY <1>4, <1>7
  <2> QED BY <1>1, <1>3, <1>7, <2>1, ObserveDiagnosisIs DEF e, n, notice
<1>8. CASE x = "configuration.save"
  <2>1. e = ObserveSettingsSave(n, n.tasks.scope["configuration.save"]) BY <1>4, <1>8
  <2>2. e = n \/ \E a \in Desks : Answering(n, a, e) BY <1>3, <2>1, ObserveSettingsSaveIs
  <2> QED BY <1>1, <1>8, <2>2 DEF e, n, notice
<1>9. CASE x = "report.write"
  <2>1. e = ObserveWrite(n, n.tasks.scope["report.write"]) BY <1>4, <1>9
  <2> QED BY <1>1, <1>3, <1>9, <2>1, ObserveWriteIs DEF e, n, notice
<1>10. CASE x \in Others
  <2> SUFFICES Plain(n, e) BY <1>1, <1>10 DEF e, n, notice
  <2>1. CASE x \in {"history.load", "profiles.load"}
    <3>1. e = ObserveLoad(n, ListOf(x), s) BY <1>4, <2>1
    <3> QED BY <1>3, <1>5, <2>1, <3>1, ObserveLoadIs DEF Plain
  <2>2. CASE x = "history.read"
    <3>1. e = ObserveRead(n, n.tasks.scope["history.read"]) BY <1>4, <2>2
    <3> QED BY <1>3, <3>1, ObserveReadIs DEF Plain
  <2>3. CASE x \in {"history.mutation", "profiles.mutation"}
    <3>1. e = ObserveMutation(n, ListOf(x), s) BY <1>4, <2>3
    <3> QED BY <1>3, <1>5, <2>3, <3>1, ObserveMutationIs DEF Plain
  <2>4. CASE x = "configuration.load"
    <3>1. e = ObserveSettingsLoad(n, n.tasks.scope["configuration.load"]) BY <1>4, <2>4
    <3> QED BY <1>3, <3>1, ObserveSettingsLoadIs, PassiveItself DEF Plain
  <2>5. CASE x = "report.prepare"
    <3>1. e = ObservePrepare(n, n.tasks.scope["report.prepare"]) BY <1>4, <2>5
    <3> QED BY <1>3, <3>1, ObservePrepareIs DEF Plain
  <2>6. CASE x = "report.inspect"
    <3>1. e = ObserveInspect(n, n.tasks.scope["report.inspect"]) BY <1>4, <2>6
    <3> QED BY <1>3, <3>1, ObserveInspectIs DEF Plain
  <2> QED BY <1>10, <2>1, <2>2, <2>3, <2>4, <2>5, <2>6 DEF Others, Scopes, Reads, Mutations
<1> QED BY <1>2, <1>6, <1>7, <1>8, <1>9, <1>10 DEF Others, notice

-----------------------------------------------------------------------------
(* What a run diagnoses.                                                   *)

\* The coordinator holds a profile only after a choice that was not run.
Runs(d) ==
  /\ d.pending # None => d.refused
  /\ d.ran # None => d.ran.excused \/ d.ran.subject = d.ran.form

LEMMA RunsOn ==
  ASSUME NEW d, NEW e, Runs(d)
  PROVE  /\ e.pending = d.pending /\ e.refused = d.refused /\ e.ran = d.ran => Runs(e)
         /\ Triggered(d, e) => Runs(e)
         /\ \A profile : Profiled(d, profile, e) => Runs(e)
         /\ \A doc : Presented(d, doc, e) => Runs(e)
<1>1. e.pending = d.pending /\ e.refused = d.refused /\ e.ran = d.ran => Runs(e)
  BY DEF Runs
<1>2. ASSUME Triggered(d, e) PROVE Runs(e)
  <2>1. CASE SameRun(d, e) BY <1>1, <2>1 DEF SameRun
  <2>2. CASE /\ e.pending = None /\ ~e.refused
             /\ e.ran = [subject |-> Subject(d), form |-> d.page.target,
                         excused |-> d.refused /\ d.pending # None]
    <3>1. e.ran.subject = Subject(d) /\ e.ran.form = d.page.target BY <2>2
    <3>2. d.pending # None => e.ran.excused
      <4>1. e.ran.excused = (d.refused /\ d.pending # None) BY <2>2
      <4> QED BY <4>1 DEF Runs
    <3> QED BY <2>2, <3>1, <3>2 DEF Runs, Subject
  <2> QED BY <1>2, <2>1, <2>2 DEF Triggered
<1>3. ASSUME NEW profile, Profiled(d, profile, e) PROVE Runs(e)
  <2>1. CASE e.pending = None /\ ~e.refused /\ e.ran.subject = profile /\ e.ran.form = profile
    BY <2>1 DEF Runs
  <2>2. CASE e.refused /\ e.ran = d.ran BY <2>2 DEF Runs
  <2> QED BY <1>3, <2>1, <2>2 DEF Profiled
<1>4. ASSUME NEW doc, Presented(d, doc, e) PROVE Runs(e)
  BY <1>4 DEF Presented, Runs
<1> QED BY <1>1, <1>2, <1>3, <1>4

-----------------------------------------------------------------------------
(* The story of the Diagnose screen.                                       *)

\* The diagnosis of the current operation, and whether it or its end is under way.
Latest(d) == Diagnosis(d.tasks.scope["diagnose"].op, d.tasks.scope["diagnose"].arg)
Engaged(d) == Loading(d.tasks, "diagnose") \/ Noticed(d.tasks, "diagnose")

\* What the page shows; and, for the steps to come, that the timeline of a run is about
\* that run, and that a success was shown when nobody still has to be told of it.
OneStory(d) ==
  /\ d.page.shows = "result" => d.page.of = d.last
  /\ d.page.running => Engaged(d)
  /\ \A h \in DOMAIN d.header :
       /\ d.header[h].is = "completed" => d.header[h].of = d.last
       /\ d.header[h].is \in {"running", "cancelling"} => Engaged(d) \/ d.refused
  /\ \/ Engaged(d) \/ d.refused
     \/ d.page.timeline \subseteq {d.page.of}
     \/ /\ d.page.shows # "result"
        /\ \E doc \in d.page.timeline : d.page.timeline = {doc}
  /\ d.page.running => d.page.timeline \subseteq {Latest(d)}
  /\ d.tasks.scope["diagnose"].state = "success" /\ ~Noticed(d.tasks, "diagnose")
       => d.page.timeline \subseteq {Latest(d)} /\ d.last = Latest(d)

\* A run returns its own diagnosis, and none is made before the configuration is known.
Story(d) ==
  /\ d.closing \/ OneStory(d)
  /\ d.tasks.scope["diagnose"].state = "success"
       => d.tasks.scope["diagnose"].value = Latest(d)
  /\ \/ d.prefs.loaded
     \/ /\ d.tasks.scope["diagnose"].state = "idle"
        /\ \A h \in DOMAIN d.header : d.header[h].is \notin {"running", "cancelling"}

\* The page is left alone, and so is its run.
Beside(d, e) ==
  /\ SamePage(d, e) /\ e.refused = d.refused /\ e.closing = d.closing
  /\ e.prefs.loaded = d.prefs.loaded
  /\ Keeps(d.tasks, e.tasks, "diagnose")

LEMMA StoryBeside ==
  ASSUME NEW d \in Desks, NEW e, Story(d), Beside(d, e)
  PROVE  Story(e)
<1> DEFINE r == d.tasks.scope["diagnose"]
           q == e.tasks.scope["diagnose"]
<1>1. d.tasks \in Runners /\ "diagnose" \in Scopes BY DEF Desks, Scopes, Reads
<1>2. r \in Snapshots BY <1>1, RunnerHas
<1>3. CASE q = r
  BY <1>3 DEF Story, OneStory, Beside, SamePage, Keeps, Engaged, Latest, Loading
<1>4. CASE /\ r.state = "loading" /\ Noticed(e.tasks, "diagnose")
           /\ q = [r EXCEPT !.state = "cancelled"]
  <2>1. q.state = "cancelled" /\ q.op = r.op /\ q.arg = r.arg BY <1>2, <1>4 DEF Snapshots
  <2> QED BY <1>4, <2>1 DEF Story, OneStory, Beside, SamePage, Engaged, Latest, Loading
<1> QED BY <1>3, <1>4 DEF Beside, Keeps, Loading

LEMMA StoryTriggered ==
  ASSUME NEW d \in Desks, NEW e, Story(d), Triggered(d, e)
  PROVE  Story(e)
<1> DEFINE started == /\ ~d.page.running /\ d.prefs.loaded /\ Loading(e.tasks, "diagnose")
                      /\ e.page = d.page /\ e.header = d.header
           missing == /\ ~d.page.running /\ ~d.prefs.loaded /\ e.tasks = d.tasks
                      /\ SameRun(d, e)
                      /\ e.page = ShowError(d.page, "error") /\ e.header = d.header
           refused == /\ e.tasks = d.tasks /\ SameRun(d, e) /\ e.page = d.page
                      /\ e.header = IF d.page.running THEN d.header ELSE Erred(d.header)
<1>1. /\ e.closing = d.closing /\ e.prefs = d.prefs /\ e.last = d.last
      /\ started \/ missing \/ refused
  BY DEF Triggered, SameReports, SameLists
<1>2. d.page \in Pages BY DEF Desks
<1>3. CASE started
  BY <1>1, <1>3 DEF Story, OneStory, Engaged, Loading
<1>4. CASE missing
  <2>1. ~e.page.running /\ e.page.shows = "error" /\ e.page.timeline = {}
    BY <1>2, <1>4 DEF ShowError, SetRunning, ResetResults, Pages
  <2>2. /\ e.tasks.scope["diagnose"].state = "idle"
        /\ \A h \in DOMAIN e.header : e.header[h].is \notin {"running", "cancelling"}
    BY <1>4 DEF Story
  <2>3. d.closing \/ OneStory(e)
    BY <1>1, <1>4, <2>1, <2>2 DEF Story, OneStory
  <2> QED BY <1>1, <2>2, <2>3 DEF Story
<1>5. CASE refused
  <2>1. CASE d.page.running
    BY <1>1, <1>5, <2>1 DEF Story, OneStory, Engaged, Latest, SameRun
  <2>2. CASE ~d.page.running
    <3>1. \A h \in DOMAIN e.header :
            e.header[h].is = "error" \/ (h \in DOMAIN d.header /\ e.header[h] = d.header[h])
      BY <1>5, <2>2, HeadersSay
    <3>2. /\ e.tasks = d.tasks /\ e.page = d.page /\ e.refused = d.refused
          /\ Engaged(e) = Engaged(d) /\ Latest(e) = Latest(d)
      BY <1>5 DEF SameRun, Engaged, Latest
    <3>3. d.closing \/ OneStory(e) BY <1>1, <3>1, <3>2 DEF Story, OneStory
    <3> QED BY <1>1, <3>1, <3>2, <3>3 DEF Story
  <2> QED BY <2>1, <2>2
<1> QED BY <1>1, <1>3, <1>4, <1>5

LEMMA StoryProfiled ==
  ASSUME NEW d \in Desks, NEW e, NEW profile, Story(d), Profiled(d, profile, e)
  PROVE  Story(e)
<1> DEFINE p == SetProfile(SetRunning(d.page, FALSE), profile)
<1>1. d.page \in Pages /\ SetRunning(d.page, FALSE) \in Pages /\ d.page.target \in Subjects
  <2>1. d.page \in Pages BY DEF Desks
  <2> QED BY <2>1, PagesKept DEF Pages
<1>2. ~p.running /\ p.shows = d.page.shows /\ p.of = d.page.of
  BY <1>1 DEF SetProfile, SetRunning, Pages
<1>3. e.closing = d.closing /\ e.prefs = d.prefs /\ e.last = d.last
  BY DEF Profiled, SameReports, SameLists
<1>4. \/ d.prefs.loaded /\ Loading(e.tasks, "diagnose") /\ e.page = p /\ e.header = d.header
      \/ /\ e.refused /\ e.tasks.scope["diagnose"].state = "idle"
         /\ \/ e.page = p /\ e.header = Erred(d.header)
            \/ e.page \in {ShowError(p, "error"), ShowError(d.page, "error")} /\ e.header = d.header
  BY DEF Profiled
<1>5. \A q \in {ShowError(p, "error"), ShowError(d.page, "error")} :
        ~q.running /\ q.shows = "error"
  BY <1>1 DEF ShowError, SetRunning, SetProfile, ResetResults, Pages
<1>6. \A h \in DOMAIN Erred(d.header) :
        \/ Erred(d.header)[h].is = "error"
        \/ h \in DOMAIN d.header /\ Erred(d.header)[h] = d.header[h]
  BY HeadersSay
<1> HIDE DEF p
<1>7. CASE d.prefs.loaded /\ Loading(e.tasks, "diagnose") /\ e.page = p /\ e.header = d.header
  BY <1>2, <1>3, <1>7 DEF Story, OneStory, Engaged, Loading
<1>8. CASE /\ e.refused /\ e.tasks.scope["diagnose"].state = "idle"
           /\ e.page = p /\ e.header = Erred(d.header)
  BY <1>2, <1>3, <1>6, <1>8 DEF Story, OneStory
<1>9. CASE /\ e.refused /\ e.tasks.scope["diagnose"].state = "idle"
           /\ e.page \in {ShowError(p, "error"), ShowError(d.page, "error")}
           /\ e.header = d.header
  BY <1>3, <1>5, <1>9 DEF Story, OneStory
<1> QED BY <1>4, <1>7, <1>8, <1>9

LEMMA StoryPresented ==
  ASSUME NEW d \in Desks, NEW e, NEW doc \in Diagnoses, Presented(d, doc, e)
  PROVE  Story(e)
<1> DEFINE q == SetProfile(d.page, doc.of)
<1>1. d.page \in Pages BY DEF Desks
<1>2. q \in Pages BY <1>1, PagesKept, SubjectsOf
<1>3. e.page = ShowDiagnosis(q, doc) /\ e.last = doc /\ e.header = HeaderFor(doc)
      /\ e.tasks.scope["diagnose"].state = "idle"
  BY DEF Presented
<1> HIDE DEF q
<1>4. e.page.timeline = {doc} /\ e.page.of = doc /\ e.page.shows = "result" /\ ~e.page.running
  BY <1>2, <1>3 DEF ShowDiagnosis, SetRunning, Pages
<1>5. \A h \in DOMAIN e.header : e.header[h].is = "completed" /\ e.header[h].of = doc
  BY <1>3, HeadersSay
<1> QED BY <1>3, <1>4, <1>5 DEF Story, OneStory

LEMMA StoryApplied ==
  ASSUME NEW d \in Desks, NEW e, Story(d), Applied(d, e)
  PROVE  Story(e)
<1>1. e.tasks = d.tasks /\ e.closing = d.closing /\ e.refused = d.refused /\ e.last = d.last
      /\ e.prefs.loaded
  BY DEF Applied, SameReports, SameRun
<1>2. CASE SamePage(d, e)
  BY <1>1, <1>2 DEF Story, OneStory, SamePage, Engaged, Latest
<1>3. CASE e.page = Renovated(d) /\ e.header = Header("ready")
  <2>1. \A h \in DOMAIN e.header : e.header[h].is = "ready" BY <1>3, HeadersSay
  <2>2. ~e.page.running /\ (e.page.shows = "result" => e.page.of = d.last)
        /\ e.page.timeline \subseteq {e.page.of} /\ e.page.timeline \subseteq {d.last}
    <3>1. CASE d.last = None
      BY <1>3, <3>1 DEF Renovated, NewPage
    <3>2. CASE d.last # None
      <4> DEFINE q == SetProfile(NewPage, d.last.of)
      <4>1. d.last \in Diagnoses BY <3>2 DEF Desks
      <4>2. q \in Pages BY <4>1, PagesKept, RenovatedIs, SubjectsOf
      <4>3. e.page = ShowDiagnosis(q, d.last) BY <1>3, <3>2 DEF Renovated
      <4> HIDE DEF q
      <4> QED BY <4>2, <4>3 DEF ShowDiagnosis, SetRunning, Pages
    <3> QED BY <3>1, <3>2
  <2> QED BY <1>1, <2>1, <2>2 DEF Story, OneStory, Latest
<1> QED BY <1>2, <1>3 DEF Applied

LEMMA BesideTaken ==
  ASSUME NEW d, NEW n, NEW x, Taken(d, n, x), x # "diagnose"
  PROVE  Beside(d, n)
<1>1. "diagnose" \in Scopes BY DEF Scopes, Reads
<1> QED BY <1>1 DEF Taken, Beside, Keeps, SameRun, SameReports, SameLists

LEMMA BesidePassive ==
  ASSUME NEW d, NEW e, Passive(d, e)
  PROVE  Beside(d, e)
BY DEF Passive, Reader, Beside, SameRun

\* The screen takes up what its run has come to.
LEMMA StoryRunShown ==
  ASSUME NEW d \in Desks, NEW n, NEW e, Story(d), Taken(d, n, "diagnose"), RunShown(n, e)
  PROVE  Story(e)
<1> DEFINE r == d.tasks.scope["diagnose"]
<1>1. /\ n \in Desks /\ n.tasks.scope["diagnose"] = r /\ SamePage(d, n)
      /\ n.closing = d.closing /\ n.prefs = d.prefs
  BY DEF Taken, SameReports, SameLists
<1>2. /\ e.tasks.scope["diagnose"] = r /\ e.closing = d.closing /\ e.prefs = d.prefs
      /\ Latest(e) = Latest(d)
  BY <1>1 DEF RunShown, SameReports, SameLists, Latest
<1>3. n.page \in Pages /\ n.page = d.page /\ n.last = d.last BY <1>1 DEF Desks, SamePage
<1>4. ResetResults(n.page) \in Pages BY <1>3, PagesKept
<1>5. CASE /\ r.state = "loading" /\ e.header = Header("running") /\ e.last = n.last
           /\ e.page = SetRunning(ResetResults(n.page), TRUE)
  <2>1. e.page.shows = "running" /\ e.page.timeline = {}
    BY <1>3, <1>4, <1>5 DEF SetRunning, ResetResults, Pages
  <2>2. \A h \in DOMAIN e.header : e.header[h].is = "running" BY <1>5, HeadersSay
  <2>3. Engaged(e) BY <1>2, <1>5 DEF Engaged, Loading
  <2>4. OneStory(e) BY <1>2, <1>5, <2>1, <2>2, <2>3 DEF OneStory
  <2> QED BY <1>2, <1>5, <2>4 DEF Story
<1>6. CASE /\ r.state = "success" /\ e.header = HeaderFor(r.value) /\ e.last = r.value
           /\ e.page = ShowDiagnosis(n.page, r.value)
  <2>1. /\ e.page.shows = "result" /\ e.page.timeline = {r.value} /\ e.page.of = r.value
        /\ ~e.page.running
    BY <1>3, <1>6 DEF ShowDiagnosis, SetRunning, Pages
  <2>2. \A h \in DOMAIN e.header : e.header[h].is = "completed" /\ e.header[h].of = r.value
    BY <1>6, HeadersSay
  <2>3. r.value = Latest(e) BY <1>2, <1>6 DEF Story
  <2>4. OneStory(e) BY <1>6, <2>1, <2>2, <2>3 DEF OneStory
  <2> QED BY <1>2, <1>6, <2>3, <2>4 DEF Story
<1>7. CASE /\ r.state \notin {"loading", "success"} /\ e.header = Header(r.state)
           /\ e.last = n.last
           /\ e.page = ShowError(n.page, r.state) /\ r.state \in States
  <2>1. /\ ~e.page.running /\ e.page.shows = r.state
        /\ e.page.timeline = IF d.page.running THEN d.page.timeline ELSE {}
    BY <1>3, <1>7 DEF ShowError, SetRunning, ResetResults, Pages
  <2>2. \A h \in DOMAIN e.header : e.header[h].is \in {"idle", "error", "cancelled"}
    BY <1>7, HeadersSay DEF States
  <2>3. r.state # "result" BY <1>7 DEF States
  <2>4. ASSUME ~d.closing PROVE OneStory(e)
    <3>1. e.page.timeline \subseteq {Latest(d)}
      BY <2>1, <2>4 DEF Story, OneStory
    <3>2. e.page.timeline = {} \/ e.page.timeline = {Latest(d)} BY <3>1
    <3> QED BY <1>2, <1>7, <2>1, <2>2, <2>3, <3>2 DEF OneStory
  <2> QED BY <1>2, <1>7, <2>2, <2>4 DEF Story
<1> QED BY <1>1, <1>5, <1>6, <1>7 DEF RunShown

\* An event that is still shown is one of the run the screen is about.
LEMMA StoryEventShown ==
  ASSUME NEW n \in Desks, NEW e, Story(n), EventShown(n, e)
  PROVE  Story(e)
<1> DEFINE r == n.tasks.scope["diagnose"]
           doc == Diagnosis(r.op, r.arg)
           page == UpsertCheck(n.page, doc)
<1>1. CASE e = n BY <1>1
<1>2. CASE r.state \in {"loading", "success"} /\ e \in Desks /\ e = [n EXCEPT !.page = page]
  <2>1. n.page \in Pages BY DEF Desks
  <2>2. /\ page.running = n.page.running /\ page.shows = n.page.shows /\ page.of = n.page.of
        /\ page.timeline = n.page.timeline \cup {doc}
    BY <2>1 DEF UpsertCheck, Pages
  <2>3. doc = Latest(n) BY DEF Latest
  <2> HIDE DEF page, doc
  <2>4. /\ e.page = page /\ e.tasks = n.tasks /\ e.header = n.header /\ e.last = n.last
        /\ e.closing = n.closing /\ e.prefs = n.prefs /\ e.refused = n.refused
    BY <1>2 DEF Desks
  <2>5. ASSUME ~n.closing PROVE OneStory(e)
    <3>1. OneStory(n) BY <2>5 DEF Story
    <3>2. Engaged(e) = Engaged(n) /\ Latest(e) = Latest(n) BY <2>4 DEF Engaged, Latest
    <3>3. CASE r.state = "loading" \/ Noticed(n.tasks, "diagnose")
      <4>1. Engaged(n) BY <3>3 DEF Engaged, Loading
      <4> QED BY <2>2, <2>3, <2>4, <3>1, <3>2, <3>3, <4>1 DEF OneStory
    <3>4. CASE r.state = "success" /\ ~Noticed(n.tasks, "diagnose")
      <4>1. n.page.timeline \subseteq {doc} /\ n.last = doc BY <2>3, <3>1, <3>4 DEF OneStory
      <4>2. page.timeline = {doc} BY <2>2, <4>1
      <4>3. page.shows = "result" => page.of = doc BY <2>2, <3>1, <4>1 DEF OneStory
      <4> QED BY <2>2, <2>3, <2>4, <3>1, <3>2, <4>1, <4>2, <4>3 DEF OneStory
    <3> QED BY <1>2, <3>3, <3>4
  <2> QED BY <2>4, <2>5 DEF Story, Latest
<1> QED BY <1>1, <1>2 DEF EventShown

-----------------------------------------------------------------------------
(* The mutations in the worker's line, and what the user is told of them.  *)

\* Of each scope the line holds operations in the order they were started, none that
\* is newer than the scope's own, and that one as it was asked.  A report in it that
\* may replace a file belongs to a session in which the user agreed to that.
Line(d) ==
  LET w == d.tasks.worker
      r(i) == d.tasks.scope[w[i].scope]
  IN /\ \A i \in DOMAIN w : w[i].op <= r(i).op
     /\ \A i \in DOMAIN w : w[i].op = r(i).op => w[i].arg = r(i).arg
     /\ \A i, j \in DOMAIN w : i < j /\ w[i].scope = w[j].scope => w[i].op < w[j].op
     /\ \A i \in DOMAIN w :
          w[i].scope = "report.write" /\ w[i].arg.replace => w[i].arg.session \in d.consented

\* A successful save is the last one that was asked for, its configuration is active,
\* and the Settings page says no more than that.
Saves(d, a) ==
  LET r == d.tasks.scope["configuration.save"]
  IN /\ r.state = "success" =>
          /\ r.value = r.arg /\ a = r.value
          /\ \A i \in DOMAIN d.tasks.worker : d.tasks.worker[i].scope # "configuration.save"
     /\ d.prefs.status = "saved" => r.state = "success" /\ d.prefs.initial = r.arg
     /\ d.prefs.done # None => d.prefs.done.cfg = r.arg
     /\ Fields(d.prefs)

WritesNow(d) ==
  /\ d.tasks.worker # <<>> /\ Head(d.tasks.worker).running
  /\ Head(d.tasks.worker).scope = "report.write"

\* A report that succeeded was put at its destination; the user was told, is going to
\* be, or has moved on.  Only the worker's first mutation is being written.
Writes(d, put, at) ==
  LET r == d.tasks.scope["report.write"]
  IN /\ r.state = "success" =>
          /\ r.value \in put /\ r.value = r.arg
          /\ \/ d.closing \/ r.value.session < d.session
             \/ Noticed(d.tasks, "report.write") \/ r.value.session \in d.told
     /\ r.state # "idle" => r.arg.session <= d.session
     /\ at # "start" => WritesNow(d)
     /\ at \in {"committed", "synced", "ok"} => Head(d.tasks.worker).arg \in put

Told(d, a, put, at) ==
  /\ Line(d) /\ Saves(d, a) /\ Writes(d, put, at)
  /\ d.told \subseteq {w.session : w \in put}

\* The worker's line may lose its first mutation, and mark one as running.
LEMMA LineFollows ==
  ASSUME NEW d \in Desks, NEW e \in Desks, Line(d),
         \A x \in Mutations : /\ e.tasks.scope[x].op = d.tasks.scope[x].op
                              /\ e.tasks.scope[x].arg = d.tasks.scope[x].arg,
         d.consented \subseteq e.consented,
         NEW k \in {0, 1},
         \A i \in DOMAIN e.tasks.worker :
           LET u == e.tasks.worker[i]
               v == d.tasks.worker[i + k]
           IN i + k \in DOMAIN d.tasks.worker /\ u.scope = v.scope /\ u.op = v.op /\ u.arg = v.arg
  PROVE  Line(e)
<1> DEFINE u == e.tasks.worker
           v == d.tasks.worker
<1>1. u \in Seq(Jobs) /\ v \in Seq(Jobs)
  <2>1. d.tasks \in Runners /\ e.tasks \in Runners BY DEF Desks
  <2> QED BY <2>1, RunnerHas
<1>2. \A i \in DOMAIN u : /\ i \in Nat /\ i + k \in DOMAIN v /\ u[i].scope = v[i + k].scope
                          /\ u[i].op = v[i + k].op /\ u[i].arg = v[i + k].arg
                          /\ u[i].scope \in Mutations
  BY <1>1 DEF Jobs
<1>3. \A i \in DOMAIN u : /\ e.tasks.scope[u[i].scope].op = d.tasks.scope[v[i + k].scope].op
                          /\ e.tasks.scope[u[i].scope].arg = d.tasks.scope[v[i + k].scope].arg
  BY <1>2
<1>4. \A i, j \in DOMAIN u : i < j => i + k < j + k BY <1>2
<1>5. /\ \A i \in DOMAIN v : v[i].op <= d.tasks.scope[v[i].scope].op
      /\ \A i \in DOMAIN v : v[i].op = d.tasks.scope[v[i].scope].op
                              => v[i].arg = d.tasks.scope[v[i].scope].arg
      /\ \A i, j \in DOMAIN v : i < j /\ v[i].scope = v[j].scope => v[i].op < v[j].op
      /\ \A i \in DOMAIN v :
           v[i].scope = "report.write" /\ v[i].arg.replace => v[i].arg.session \in d.consented
  BY DEF Line
<1> HIDE DEF u, v
<1>6. \A i \in DOMAIN u :
        /\ u[i].op <= e.tasks.scope[u[i].scope].op
        /\ u[i].op = e.tasks.scope[u[i].scope].op => u[i].arg = e.tasks.scope[u[i].scope].arg
  BY <1>2, <1>3, <1>5
<1>7. \A i, j \in DOMAIN u : i < j /\ u[i].scope = u[j].scope => u[i].op < u[j].op
  BY <1>2, <1>4, <1>5
<1>8. \A i \in DOMAIN u :
        u[i].scope = "report.write" /\ u[i].arg.replace => u[i].arg.session \in e.consented
  BY <1>2, <1>5
<1> QED BY <1>6, <1>7, <1>8 DEF Line, u

\* A mutation joins the line.
LEMMA LineStarted ==
  ASSUME NEW d \in Desks, NEW e \in Desks, Line(d),
         NEW s \in Mutations, NEW arg \in Arguments(s),
         e.tasks = StartedMutation(d.tasks, s, arg),
         d.consented \subseteq e.consented,
         s = "report.write" /\ arg.replace => arg.session \in e.consented
  PROVE  /\ Line(e) /\ (WritesNow(d) => WritesNow(e) /\ Head(e.tasks.worker) = Head(d.tasks.worker))
         /\ \A i \in DOMAIN e.tasks.worker :
              \/ i \in DOMAIN d.tasks.worker /\ e.tasks.worker[i] = d.tasks.worker[i]
              \/ e.tasks.worker[i].scope = s
<1> DEFINE v == d.tasks.worker
           u == e.tasks.worker
           n == d.tasks.scope[s].op + 1
           job == [scope |-> s, op |-> n, arg |-> arg, running |-> FALSE]
<1>1. d.tasks \in Runners /\ s \in Scopes BY DEF Desks, Scopes
<1>2. v \in Seq(Jobs) /\ d.tasks.scope \in [Scopes -> Snapshots] BY <1>1, RunnerHas
<1>3. /\ u = Append(v, job) /\ job \in Jobs
      /\ e.tasks.scope[s].op = n /\ e.tasks.scope[s].arg = arg
      /\ \A x \in Scopes \ {s} : e.tasks.scope[x] = d.tasks.scope[x]
  BY <1>1, StartedMutationIs
<1>4. n \in Nat /\ \A x \in Scopes : d.tasks.scope[x].op \in Nat
  BY <1>1, <1>2 DEF Snapshots
<1>5. \A i \in DOMAIN v : v[i].scope \in Scopes /\ v[i].op \in Nat
  BY <1>2 DEF Jobs, Scopes
<1>6. /\ job.scope = s /\ job.op = n /\ job.arg = arg OBVIOUS
<1> HIDE DEF job
<1>7. \A i \in DOMAIN u : \/ i \in DOMAIN v /\ u[i] = v[i]
                          \/ i = Len(v) + 1 /\ u[i] = job
  BY <1>2, <1>3
<1>8. \A i \in DOMAIN v : i < Len(v) + 1 /\ i \in Nat /\ Len(v) \in Nat BY <1>2
<1>9. \A i \in DOMAIN v : v[i].scope = s => v[i].op < n
  BY <1>1, <1>4, <1>5 DEF Line
<1>10. WritesNow(d) => WritesNow(e) /\ Head(u) = Head(v)
  BY <1>2, <1>3 DEF WritesNow
<1>11. \A i \in DOMAIN u :
         /\ u[i].op <= e.tasks.scope[u[i].scope].op
         /\ u[i].op = e.tasks.scope[u[i].scope].op => u[i].arg = e.tasks.scope[u[i].scope].arg
  <2> SUFFICES ASSUME NEW i \in DOMAIN u
               PROVE  /\ u[i].op <= e.tasks.scope[u[i].scope].op
                      /\ u[i].op = e.tasks.scope[u[i].scope].op
                           => u[i].arg = e.tasks.scope[u[i].scope].arg
    OBVIOUS
  <2>1. CASE u[i] = job BY <1>3, <1>4, <1>6, <2>1
  <2>2. CASE i \in DOMAIN v /\ u[i] = v[i] /\ v[i].scope = s
    <3>1. u[i].op \in Nat /\ u[i].op < n /\ u[i].scope = s BY <1>5, <1>9, <2>2
    <3>2. e.tasks.scope[u[i].scope].op = n BY <1>3, <3>1
    <3> HIDE DEF u, v, n
    <3> QED BY <1>4, <3>1, <3>2
  <2>3. CASE i \in DOMAIN v /\ u[i] = v[i] /\ v[i].scope # s
    <3>1. /\ v[i].op <= d.tasks.scope[v[i].scope].op
          /\ v[i].op = d.tasks.scope[v[i].scope].op => v[i].arg = d.tasks.scope[v[i].scope].arg
      BY <2>3 DEF Line
    <3>2. e.tasks.scope[v[i].scope] = d.tasks.scope[v[i].scope] BY <1>3, <1>5, <2>3
    <3> HIDE DEF u, v
    <3> QED BY <2>3, <3>1, <3>2
  <2> QED BY <1>7, <2>1, <2>2, <2>3
<1>12. \A i, j \in DOMAIN u : i < j /\ u[i].scope = u[j].scope => u[i].op < u[j].op
  <2> SUFFICES ASSUME NEW i \in DOMAIN u, NEW j \in DOMAIN u, i < j, u[i].scope = u[j].scope
               PROVE  u[i].op < u[j].op
    OBVIOUS
  <2>1. i \in DOMAIN v /\ u[i] = v[i]
    <3>1. j = Len(v) + 1 \/ j \in DOMAIN v BY <1>7
    <3> QED BY <1>2, <1>7, <1>8, <3>1
  <2>2. CASE u[j] = job BY <1>6, <1>9, <2>1, <2>2
  <2>3. CASE j \in DOMAIN v /\ u[j] = v[j] BY <2>1, <2>3 DEF Line
  <2> QED BY <1>7, <2>2, <2>3
<1>13. \A i \in DOMAIN u :
         u[i].scope = "report.write" /\ u[i].arg.replace => u[i].arg.session \in e.consented
  BY <1>6, <1>7 DEF Line
<1> HIDE DEF u, v
<1>14. Line(e) BY <1>11, <1>12, <1>13 DEF Line, u
<1> QED BY <1>6, <1>7, <1>10, <1>14 DEF u, v

\* What a scope that was kept still says.
LEMMA KeptSays ==
  ASSUME NEW d \in Desks, NEW e, NEW x \in Scopes, Keeps(d.tasks, e.tasks, x)
  PROVE  LET r == d.tasks.scope[x]
             q == e.tasks.scope[x]
         IN /\ q.op = r.op /\ q.arg = r.arg /\ (q.state = "idle" => r.state = "idle")
            /\ (q.state # "idle" => r.state # "idle")
            /\ q.state = "success" => r.state = "success" /\ q.value = r.value
            /\ r.state = "success" => q.state = "success" /\ q.value = r.value
<1> DEFINE r == d.tasks.scope[x]
           q == e.tasks.scope[x]
<1>1. d.tasks \in Runners BY DEF Desks
<1>2. r \in Snapshots BY <1>1, RunnerHas
<1>3. q = r \/ (r.state = "loading" /\ q = [r EXCEPT !.state = "cancelled"])
  BY DEF Keeps, Loading
<1> HIDE DEF r, q
<1>4. CASE q = r BY <1>4 DEF r, q
<1>5. CASE r.state = "loading" /\ q = [r EXCEPT !.state = "cancelled"]
  <2>1. q.op = r.op /\ q.arg = r.arg /\ q.state = "cancelled" BY <1>2, <1>5 DEF Snapshots
  <2> QED BY <1>5, <2>1 DEF r, q
<1> QED BY <1>3, <1>4, <1>5

LEMMA MutationsKnown ==
  /\ Mutations \subseteq Scopes /\ "configuration.save" \in Mutations
  /\ "report.write" \in Mutations /\ "diagnose" \in Scopes /\ "diagnose" \notin Mutations
BY DEF Mutations, Scopes, Reads

LEMMA ToldReader ==
  ASSUME NEW d \in Desks, NEW e, NEW a, NEW put, NEW at, Told(d, a, put, at), Reader(d, e)
  PROVE  Told(e, a, put, at)
<1>1. /\ e \in Desks /\ e.tasks.worker = d.tasks.worker /\ e.told = d.told
      /\ e.consented = d.consented /\ e.closing = d.closing /\ e.prefs.done = d.prefs.done
      /\ d.session <= e.session
      /\ \A x \in Mutations : Keeps(d.tasks, e.tasks, x)
  BY DEF Reader
<1>2. d.session \in Nat /\ e.session \in Nat /\ d.tasks \in Runners BY <1>1 DEF Desks
<1>3. d.tasks.worker \in Seq(Jobs) BY <1>2, RunnerHas
<1>4. Line(e)
  <2>1. \A x \in Mutations : /\ e.tasks.scope[x].op = d.tasks.scope[x].op
                             /\ e.tasks.scope[x].arg = d.tasks.scope[x].arg
    BY <1>1, KeptSays, MutationsKnown
  <2>2. \A i \in DOMAIN e.tasks.worker :
          LET u == e.tasks.worker[i]
              v == d.tasks.worker[i + 0]
          IN i + 0 \in DOMAIN d.tasks.worker /\ u.scope = v.scope /\ u.op = v.op /\ u.arg = v.arg
    BY <1>1, <1>3
  <2> QED BY <1>1, <2>1, <2>2, LineFollows DEF Told
<1>5. Saves(e, a)
  <2> DEFINE r == d.tasks.scope["configuration.save"]
             q == e.tasks.scope["configuration.save"]
  <2>1. /\ q.arg = r.arg
        /\ q.state = "success" => r.state = "success" /\ q.value = r.value
        /\ r.state = "success" => q.state = "success" /\ q.value = r.value
    BY <1>1, KeptSays, MutationsKnown
  <2>2. /\ e.prefs.status = "saved" =>
             d.prefs.status = "saved" /\ e.prefs.initial = d.prefs.initial
        /\ Fields(d.prefs) => Fields(e.prefs)
    BY DEF Reader
  <2> QED BY <1>1, <2>1, <2>2 DEF Told, Saves
<1>6. Writes(e, put, at)
  <2> DEFINE r == d.tasks.scope["report.write"]
             q == e.tasks.scope["report.write"]
  <2>1. /\ q.arg = r.arg /\ (q.state # "idle" => r.state # "idle")
        /\ q.state = "success" => r.state = "success" /\ q.value = r.value
    BY <1>1, KeptSays, MutationsKnown
  <2>2. Noticed(d.tasks, "report.write") => Noticed(e.tasks, "report.write")
    BY <1>1, MutationsKnown DEF Keeps
  <2>3. d.tasks \in Runners /\ "report.write" \in Scopes BY <1>2, MutationsKnown
  <2>4. r.state # "idle" => r.arg \in WriteRequests
    BY <2>3, RunnerHas DEF Arguments
  <2>5. r.state # "idle" => r.arg.session \in Nat BY <2>4 DEF WriteRequests
  <2>6. r.state # "idle" => r.arg.session <= d.session BY DEF Told, Writes
  <2> HIDE DEF r, q
  <2>7. q.state # "idle" => q.arg.session <= e.session
    BY <1>1, <1>2, <2>1, <2>5, <2>6
  <2>8. ASSUME q.state = "success" PROVE /\ q.value \in put /\ q.value = q.arg
          /\ \/ e.closing \/ q.value.session < e.session
             \/ Noticed(e.tasks, "report.write") \/ q.value.session \in e.told
    <3>1. r.state = "success" /\ q.value = r.value BY <2>1, <2>8
    <3>2. /\ r.value \in put /\ r.value = r.arg
          /\ \/ d.closing \/ r.value.session < d.session
             \/ Noticed(d.tasks, "report.write") \/ r.value.session \in d.told
      BY <3>1 DEF Told, Writes, r
    <3>3. r.value.session \in Nat BY <2>5, <3>1, <3>2
    <3>4. r.value.session < d.session => q.value.session < e.session
      BY <1>1, <1>2, <3>1, <3>3
    <3> QED BY <1>1, <2>1, <2>2, <3>1, <3>2, <3>4
  <2> QED BY <1>1, <2>7, <2>8 DEF Told, Writes, WritesNow, q
<1> QED BY <1>1, <1>4, <1>5, <1>6 DEF Told

\* A mutation of a list starts.
LEMMA ToldListed ==
  ASSUME NEW d \in Desks, NEW e \in Desks, NEW a, NEW put, NEW at, Told(d, a, put, at),
         NEW s \in {"history.mutation", "profiles.mutation"},
         e.tasks = StartedMutation(d.tasks, s, None), e.session = d.session,
         e.told = d.told, e.consented = d.consented, e.closing = d.closing, e.prefs = d.prefs
  PROVE  Told(e, a, put, at)
<1>1. d.tasks \in Runners /\ s \in Mutations BY DEF Desks, Mutations
<1>2. None \in Arguments(s) BY DEF Arguments
<1>3. \A x \in Scopes \ {s} : e.tasks.scope[x] = d.tasks.scope[x] /\ Keeps(d.tasks, e.tasks, x)
  <2> DEFINE t == StartedMutation(d.tasks, s, None)
  <2>1. \A x \in Scopes \ {s} : t.scope[x] = d.tasks.scope[x] /\ Keeps(d.tasks, t, x)
    BY <1>1, <1>2, StartedMutationIs
  <2>2. e.tasks = t OBVIOUS
  <2> HIDE DEF t
  <2> QED BY <2>1, <2>2
<1>4. /\ Line(e) /\ (WritesNow(d) => WritesNow(e) /\ Head(e.tasks.worker) = Head(d.tasks.worker))
      /\ \A i \in DOMAIN e.tasks.worker :
           \/ i \in DOMAIN d.tasks.worker /\ e.tasks.worker[i] = d.tasks.worker[i]
           \/ e.tasks.worker[i].scope = s
  BY <1>1, <1>2, LineStarted DEF Told
<1>5. "configuration.save" \in Scopes \ {s} /\ "report.write" \in Scopes \ {s}
  BY MutationsKnown
<1>6. Saves(e, a) BY <1>3, <1>4, <1>5 DEF Told, Saves
<1>7. Noticed(d.tasks, "report.write") => Noticed(e.tasks, "report.write")
  BY <1>3, <1>5 DEF Keeps
<1>8. Writes(e, put, at)
  <2>1. at \in {"committed", "synced", "ok"} => at # "start" OBVIOUS
  <2> QED BY <1>3, <1>4, <1>5, <1>7, <2>1 DEF Told, Writes
<1> QED BY <1>4, <1>6, <1>8 DEF Told

\* A report is handed to the worker.
LEMMA ToldHanded ==
  ASSUME NEW d \in Desks, NEW e, NEW a, NEW put, NEW at, Told(d, a, put, at), Handed(d, e)
  PROVE  Told(e, a, put, at)
<1> DEFINE s == "report.write"
<1> PICK replace \in BOOLEAN :
       /\ e \in Desks
       /\ e.tasks = StartedMutation(d.tasks, s, [session |-> d.session, replace |-> replace])
       /\ e.session = d.session /\ e.prefs = d.prefs
       /\ e.told = d.told /\ e.closing = d.closing
       /\ d.consented \subseteq e.consented
       /\ replace => d.session \in e.consented
  BY DEF Handed
<1> DEFINE arg == [session |-> d.session, replace |-> replace]
<1>1. d.tasks \in Runners /\ s \in Mutations BY DEF Desks, Mutations
<1>2. arg \in Arguments(s) /\ arg.session = d.session
      /\ (arg.replace => arg.session \in e.consented)
  BY SessionsCount DEF Arguments, WriteRequests
<1>0. e.tasks = StartedMutation(d.tasks, s, arg) OBVIOUS
<1> HIDE DEF arg
<1>3. /\ \A x \in Scopes \ {s} : e.tasks.scope[x] = d.tasks.scope[x]
      /\ e.tasks.scope[s].state = "loading" /\ e.tasks.scope[s].arg = arg
  <2> DEFINE t == StartedMutation(d.tasks, s, arg)
  <2>1. /\ \A x \in Scopes \ {s} : t.scope[x] = d.tasks.scope[x]
        /\ t.scope[s].state = "loading" /\ t.scope[s].arg = arg
    BY <1>1, <1>2, StartedMutationIs
  <2>2. e.tasks = t BY <1>0
  <2> HIDE DEF t
  <2> QED BY <2>1, <2>2
<1>4. /\ Line(e) /\ (WritesNow(d) => WritesNow(e) /\ Head(e.tasks.worker) = Head(d.tasks.worker))
      /\ \A i \in DOMAIN e.tasks.worker :
           \/ i \in DOMAIN d.tasks.worker /\ e.tasks.worker[i] = d.tasks.worker[i]
           \/ e.tasks.worker[i].scope = s
  BY <1>0, <1>1, <1>2, LineStarted DEF Told
<1>5. "configuration.save" \in Scopes \ {s} BY MutationsKnown
<1>6. Saves(e, a) BY <1>3, <1>4, <1>5 DEF Told, Saves
<1>7. Writes(e, put, at)
  <2>1. at \in {"committed", "synced", "ok"} => at # "start" OBVIOUS
  <2>2. arg.session <= e.session BY <1>2, SessionsCount
  <2> QED BY <1>3, <1>4, <2>1, <2>2 DEF Told, Writes
<1> QED BY <1>4, <1>6, <1>7 DEF Told

\* A save is asked for.
LEMMA ToldAsked ==
  ASSUME NEW d \in Desks, NEW e, NEW a, NEW put, NEW at, Told(d, a, put, at), Asked(d, e)
  PROVE  Told(e, a, put, at)
<1> DEFINE s == "configuration.save"
           arg == d.prefs.form
           t == StartedMutation(d.tasks, s, arg)
<1>1. /\ e \in Desks /\ e.session = d.session /\ e.prefs.status # "saved" /\ Fields(e.prefs)
      /\ e.told = d.told /\ e.consented = d.consented /\ e.closing = d.closing
  BY DEF Asked, SameReports
<1>2. CASE e.tasks = d.tasks /\ e.prefs.done = None
  <2>1. Line(e) BY <1>1, <1>2 DEF Told, Line
  <2>2. Saves(e, a) BY <1>1, <1>2 DEF Told, Saves
  <2>3. Writes(e, put, at) BY <1>1, <1>2 DEF Told, Writes, WritesNow
  <2> QED BY <1>1, <2>1, <2>2, <2>3 DEF Told
<1>3. CASE e.tasks = t /\ e.prefs.done = [page |-> d.prefs.instance, cfg |-> d.prefs.form]
  <2>1. d.tasks \in Runners /\ s \in Mutations /\ d.prefs \in Preferences
    BY MutationsKnown DEF Desks
  <2>2. arg \in Arguments(s) BY <2>1 DEF Preferences, Arguments
  <2>3. e.prefs.done.cfg = arg BY <1>3
  <2>4. e.tasks = t BY <1>3
  <2> HIDE DEF arg
  <2>5. /\ \A x \in Scopes \ {s} : t.scope[x] = d.tasks.scope[x] /\ Keeps(d.tasks, t, x)
        /\ t.scope[s].state = "loading" /\ t.scope[s].arg = arg
    BY <2>1, <2>2, StartedMutationIs
  <2>6. /\ Line(e) /\ (WritesNow(d) => WritesNow(e) /\ Head(e.tasks.worker) = Head(d.tasks.worker))
    BY <1>1, <2>1, <2>2, <2>4, LineStarted DEF Told
  <2> HIDE DEF t
  <2>7. "report.write" \in Scopes \ {s} BY MutationsKnown
  <2>8. Saves(e, a) BY <1>1, <2>3, <2>4, <2>5 DEF Told, Saves
  <2>9. Noticed(d.tasks, "report.write") => Noticed(e.tasks, "report.write")
    BY <2>4, <2>5, <2>7 DEF Keeps
  <2>10. Writes(e, put, at)
    <3>1. at \in {"committed", "synced", "ok"} => at # "start" OBVIOUS
    <3> QED BY <1>1, <2>4, <2>5, <2>6, <2>7, <2>9, <3>1 DEF Told, Writes
  <2> QED BY <1>1, <2>6, <2>8, <2>10 DEF Told
<1> QED BY <1>2, <1>3 DEF Asked

LEMMA ToldTaken ==
  ASSUME NEW d \in Desks, NEW n, NEW x, NEW a, NEW put, NEW at, Told(d, a, put, at),
         Taken(d, n, x), x # "report.write"
  PROVE  Told(n, a, put, at)
<1>1. /\ n.tasks.scope = d.tasks.scope /\ n.tasks.worker = d.tasks.worker
      /\ n.session = d.session /\ n.told = d.told /\ n.consented = d.consented
      /\ n.closing = d.closing /\ n.prefs = d.prefs
  BY DEF Taken, SameReports, SameLists
<1>2. Noticed(d.tasks, "report.write") => Noticed(n.tasks, "report.write")
  BY MutationsKnown DEF Taken
<1>3. Line(n) BY <1>1 DEF Told, Line
<1>4. Saves(n, a) BY <1>1 DEF Told, Saves
<1>5. Writes(n, put, at) BY <1>1, <1>2 DEF Told, Writes, WritesNow
<1> QED BY <1>1, <1>3, <1>4, <1>5 DEF Told

\* The end of a write is observed.
LEMMA ToldReported ==
  ASSUME NEW d \in Desks, NEW n, NEW e, NEW a, NEW put, NEW at, Told(d, a, put, at),
         Taken(d, n, "report.write"), Reported(n, e)
  PROVE  Told(e, a, put, at)
<1> DEFINE r == d.tasks.scope["report.write"]
           new == /\ r.state = "success" /\ SessionCurrent(n, r.value.session)
                  /\ e.told = n.told \cup {r.value.session}
           old == e = n /\ ~(r.state = "success" /\ SessionCurrent(n, r.value.session))
<1>1. /\ n.tasks.scope = d.tasks.scope /\ n.tasks.worker = d.tasks.worker
      /\ n.session = d.session /\ n.told = d.told /\ n.consented = d.consented
      /\ n.closing = d.closing /\ n.prefs = d.prefs
  BY DEF Taken, SameReports, SameLists
<1>2. /\ e.tasks = n.tasks /\ e.session = n.session /\ e.consented = n.consented
      /\ e.closing = n.closing /\ e.prefs = n.prefs
      /\ new \/ old
  BY <1>1 DEF Reported
<1>3. d.tasks \in Runners /\ "report.write" \in Scopes /\ d.session \in Nat
  BY MutationsKnown DEF Desks
<1>4. r.state # "idle" => r.arg \in WriteRequests BY <1>3, RunnerHas DEF Arguments
<1>5. r.state = "success" =>
        /\ r.value \in put /\ r.value = r.arg
        /\ r.value.session \in Nat /\ r.value.session <= d.session
  BY <1>4 DEF Told, Writes, WriteRequests
<1>6. r.state = "success" =>
        e.closing \/ r.value.session < e.session \/ r.value.session \in e.told
  BY <1>1, <1>2, <1>3, <1>5 DEF SessionCurrent
<1>7. e.told \subseteq {w.session : w \in put} BY <1>1, <1>2, <1>5 DEF Told
<1>8. e.tasks.scope = d.tasks.scope /\ e.tasks.worker = d.tasks.worker /\ e.prefs = d.prefs
      /\ e.session = d.session /\ e.consented = d.consented
  BY <1>1, <1>2
<1> HIDE DEF new, old
<1>9. Line(e) BY <1>8 DEF Told, Line
<1>10. Saves(e, a) BY <1>8 DEF Told, Saves
<1>11. Writes(e, put, at) BY <1>5, <1>6, <1>8 DEF Told, Writes, WritesNow
<1> QED BY <1>7, <1>9, <1>10, <1>11 DEF Told

\* The end of a save is observed: the page that asked shows what is active.
LEMMA ToldAnswering ==
  ASSUME NEW n \in Desks, NEW b \in Desks, NEW e, NEW a, NEW put, NEW at,
         Told(n, a, put, at), Answering(n, b, e)
  PROVE  Told(e, a, put, at)
<1> DEFINE r == n.tasks.scope["configuration.save"]
<1>1. Told(b, a, put, at)
  <2>1. b = n \/ Applied(n, b) BY DEF Answering
  <2> QED BY <2>1, AppliedReader, ToldReader
<1>2. b.tasks = n.tasks /\ b.prefs.done = n.prefs.done BY DEF Answering, Applied
<1>3. /\ e \in Desks /\ e.tasks = b.tasks /\ e.session = b.session
      /\ e.told = b.told /\ e.consented = b.consented /\ e.closing = b.closing
      /\ e.prefs.done = None /\ (Fields(b.prefs) => Fields(e.prefs))
      /\ \/ e.prefs.status # "saved"
         \/ b.prefs.status = "saved" /\ e.prefs.initial = b.prefs.initial
         \/ /\ r.state = "success" /\ b.prefs.done # None
            /\ e.prefs.initial = b.prefs.done.cfg
  BY DEF Answering, SameReports
<1>4. Line(e) BY <1>1, <1>3 DEF Told, Line
<1>5. Saves(e, a) BY <1>1, <1>2, <1>3 DEF Told, Saves
<1>6. Writes(e, put, at) BY <1>1, <1>3 DEF Told, Writes, WritesNow
<1> QED BY <1>1, <1>3, <1>4, <1>5, <1>6 DEF Told

-----------------------------------------------------------------------------
(* The invariant of the desk, handler by handler.                          *)

\* a is the active configuration, put what was written, at the stage of the export.
Sound(d, a, put, at) == d \in Desks /\ Runs(d) /\ Story(d) /\ Told(d, a, put, at)

LEMMA SoundPassive ==
  ASSUME NEW d, NEW e, NEW a, NEW put, NEW at, Sound(d, a, put, at), Passive(d, e)
  PROVE  Sound(e, a, put, at)
<1>1. d \in Desks /\ e \in Desks BY DEF Sound, Passive, Reader
<1>2. Runs(e) BY RunsOn DEF Sound, Passive, SameRun
<1>3. Story(e) BY <1>1, BesidePassive, StoryBeside DEF Sound
<1>4. Told(e, a, put, at) BY <1>1, ToldReader DEF Sound, Passive
<1> QED BY <1>1, <1>2, <1>3, <1>4 DEF Sound

LEMMA SoundProfiled ==
  ASSUME NEW d, NEW e, NEW profile, NEW a, NEW put, NEW at, Sound(d, a, put, at),
         Profiled(d, profile, e)
  PROVE  Sound(e, a, put, at)
<1>1. d \in Desks /\ e \in Desks BY DEF Sound, Profiled
<1>2. Runs(e) BY RunsOn DEF Sound
<1>3. Story(e) BY <1>1, StoryProfiled DEF Sound
<1>4. Told(e, a, put, at) BY <1>1, ProfiledReader, ToldReader DEF Sound
<1> QED BY <1>1, <1>2, <1>3, <1>4 DEF Sound

LEMMA SoundPresented ==
  ASSUME NEW d, NEW e, NEW doc \in Diagnoses, NEW a, NEW put, NEW at, Sound(d, a, put, at),
         Presented(d, doc, e)
  PROVE  Sound(e, a, put, at)
<1>1. d \in Desks /\ e \in Desks BY DEF Sound, Presented
<1>2. Runs(e) BY RunsOn DEF Sound
<1>3. Story(e) BY <1>1, StoryPresented
<1>4. Told(e, a, put, at) BY <1>1, PresentedReader, ToldReader DEF Sound
<1> QED BY <1>1, <1>2, <1>3, <1>4 DEF Sound

LEMMA SoundApplied ==
  ASSUME NEW d, NEW e, NEW a, NEW put, NEW at, Sound(d, a, put, at), Applied(d, e)
  PROVE  Sound(e, a, put, at)
<1>1. d \in Desks /\ e \in Desks BY DEF Sound, Applied
<1>2. Runs(e) BY RunsOn DEF Sound, Applied, SameRun
<1>3. Story(e) BY <1>1, StoryApplied DEF Sound
<1>4. Told(e, a, put, at) BY <1>1, AppliedReader, ToldReader DEF Sound
<1> QED BY <1>1, <1>2, <1>3, <1>4 DEF Sound

\* A mutation that starts leaves the Diagnose screen and its run alone.
LEMMA DiagnoseKept ==
  ASSUME NEW d \in Desks, NEW s \in Mutations, NEW arg \in Arguments(s), NEW t,
         t = StartedMutation(d.tasks, s, arg)
  PROVE  Keeps(d.tasks, t, "diagnose")
<1>1. d.tasks \in Runners /\ "diagnose" \in Scopes \ {s} BY MutationsKnown DEF Desks
<1>2. \A x \in Scopes \ {s} : Keeps(d.tasks, t, x) BY <1>1, StartedMutationIs
<1> QED BY <1>1, <1>2

LEMMA SoundHanded ==
  ASSUME NEW d, NEW e, NEW a, NEW put, NEW at, Sound(d, a, put, at), Handed(d, e)
  PROVE  Sound(e, a, put, at)
<1> PICK replace \in BOOLEAN :
       /\ e \in Desks
       /\ e.tasks = StartedMutation(d.tasks, "report.write",
                                    [session |-> d.session, replace |-> replace])
       /\ SameRun(d, e) /\ SamePage(d, e) /\ e.prefs = d.prefs /\ e.closing = d.closing
  BY DEF Handed
<1> DEFINE arg == [session |-> d.session, replace |-> replace]
<1>1. d \in Desks BY DEF Sound
<1>2. arg \in Arguments("report.write") BY <1>1, SessionsCount DEF Arguments, WriteRequests
<1>3. Keeps(d.tasks, e.tasks, "diagnose") BY <1>1, <1>2, MutationsKnown, DiagnoseKept
<1>4. Beside(d, e) BY <1>3 DEF Beside, SameRun
<1>5. Runs(e) BY RunsOn DEF Sound, SameRun
<1>6. Story(e) BY <1>1, <1>4, StoryBeside DEF Sound
<1>7. Told(e, a, put, at) BY <1>1, ToldHanded DEF Sound
<1> QED BY <1>5, <1>6, <1>7 DEF Sound

LEMMA SoundAsked ==
  ASSUME NEW d, NEW e, NEW a, NEW put, NEW at, Sound(d, a, put, at), Asked(d, e)
  PROVE  Sound(e, a, put, at)
<1>1. d \in Desks /\ e \in Desks BY DEF Sound, Asked
<1>2. Keeps(d.tasks, e.tasks, "diagnose")
  <2>1. CASE e.tasks = d.tasks BY <2>1 DEF Keeps
  <2>2. CASE e.tasks = StartedMutation(d.tasks, "configuration.save", d.prefs.form)
    <3>1. d.prefs \in Preferences BY <1>1 DEF Desks
    <3>2. d.prefs.form \in Arguments("configuration.save")
      BY <3>1 DEF Preferences, Arguments
    <3> QED BY <1>1, <2>2, <3>2, MutationsKnown, DiagnoseKept
  <2> QED BY <2>1, <2>2 DEF Asked
<1>3. Beside(d, e) BY <1>2 DEF Beside, Asked, SameRun, SameReports
<1>4. Runs(e) BY RunsOn DEF Sound, Asked, SameRun
<1>5. Story(e) BY <1>1, <1>3, StoryBeside DEF Sound
<1>6. Told(e, a, put, at) BY <1>1, ToldAsked DEF Sound
<1> QED BY <1>1, <1>4, <1>5, <1>6 DEF Sound

\* The callbacks, whatever they are about.
LEMMA SoundObserved ==
  ASSUME NEW d, NEW a, NEW put, NEW at, Sound(d, a, put, at), d.tasks.inbox # <<>>
  PROVE  Sound(Observed(d), a, put, at)
<1> DEFINE x == Head(d.tasks.inbox).about
           n == Taking(d)
           e == Observed(d)
<1>1. d \in Desks BY DEF Sound
<1>2. /\ Taken(d, n, x)
      /\ \/ x = "progress" /\ EventShown(n, e)
         \/ x = "diagnose" /\ RunShown(n, e)
         \/ x = "configuration.save" /\ (e = n \/ \E b \in Desks : Answering(n, b, e))
         \/ x = "report.write" /\ Reported(n, e)
         \/ x \in Others /\ Plain(n, e)
  BY <1>1, ObservedIs
<1> HIDE DEF x, n, e
<1>3. n \in Desks /\ Runs(n) BY <1>2, RunsOn DEF Taken, SameRun, Sound
<1>4. x # "diagnose" => Story(n) BY <1>1, <1>2, BesideTaken, StoryBeside DEF Sound
<1>5. x # "report.write" => Told(n, a, put, at) BY <1>1, <1>2, ToldTaken DEF Sound
<1>6. x \notin {"diagnose", "report.write"} => Sound(n, a, put, at)
  BY <1>3, <1>4, <1>5 DEF Sound
<1>7. CASE x = "progress" /\ EventShown(n, e)
  <2>1. CASE e = n BY <1>6, <1>7, <2>1 DEF e
  <2>2. CASE e # n
    <3> DEFINE r == n.tasks.scope["diagnose"]
               page == UpsertCheck(n.page, Diagnosis(r.op, r.arg))
    <3>1. e \in Desks /\ e = [n EXCEPT !.page = page] BY <1>7, <2>2 DEF EventShown
    <3> HIDE DEF page
    <3>2. /\ e.tasks = n.tasks /\ e.session = n.session /\ e.told = n.told
          /\ e.consented = n.consented /\ e.closing = n.closing /\ e.prefs = n.prefs
          /\ e.pending = n.pending /\ e.refused = n.refused /\ e.ran = n.ran
      BY <1>3, <3>1 DEF Desks
    <3>3. Told(e, a, put, at)
      <4>1. Reader(n, e) BY <1>3, <3>1, <3>2, StillReader
      <4> QED BY <1>3, <1>5, <1>7, <4>1, ToldReader
    <3>4. Runs(e) BY <1>3, <3>2, RunsOn
    <3>5. Story(e) BY <1>3, <1>4, <1>7, StoryEventShown
    <3> QED BY <3>1, <3>3, <3>4, <3>5 DEF Sound, e
  <2> QED BY <2>1, <2>2
<1>8. CASE x = "diagnose" /\ RunShown(n, e)
  <2>1. e \in Desks /\ e.tasks = n.tasks /\ e.session = n.session
        /\ SameRun(n, e) /\ SameReports(n, e) /\ SameLists(n, e)
    BY <1>8 DEF RunShown
  <2>2. Reader(n, e) BY <1>3, <2>1, StillReader DEF SameReports, SameLists
  <2>3. Told(e, a, put, at) BY <1>3, <1>5, <1>8, <2>2, ToldReader
  <2>4. Runs(e) BY <1>3, <2>1, RunsOn DEF SameRun
  <2>5. Story(e) BY <1>1, <1>2, <1>8, StoryRunShown DEF Sound
  <2> QED BY <2>1, <2>3, <2>4, <2>5 DEF Sound, e
<1>9. CASE x = "configuration.save" /\ e = n
  BY <1>6, <1>9 DEF e
<1>10. ASSUME x = "configuration.save", NEW b \in Desks, Answering(n, b, e)
       PROVE  Sound(e, a, put, at)
  <2>1. b = n \/ Applied(n, b) BY <1>10 DEF Answering
  <2>2. Sound(b, a, put, at) BY <1>6, <1>10, <2>1, SoundApplied
  <2>3. /\ e \in Desks /\ e.tasks = b.tasks /\ SameRun(b, e) /\ SamePage(b, e)
        /\ SameReports(b, e) /\ e.prefs.loaded = b.prefs.loaded
    BY <1>10 DEF Answering
  <2>4. Beside(b, e) BY <2>3 DEF Beside, SameRun, SameReports, Keeps
  <2>5. Story(e) BY <1>10, <2>2, <2>4, StoryBeside DEF Sound
  <2>6. Runs(e) BY <2>2, <2>3, RunsOn DEF SameRun, Sound
  <2>7. Told(e, a, put, at) BY <1>3, <1>5, <1>10, ToldAnswering
  <2> QED BY <2>3, <2>5, <2>6, <2>7 DEF Sound
<1>11. CASE x = "report.write" /\ Reported(n, e)
  <2>1. /\ e \in Desks /\ e.tasks = n.tasks /\ SameRun(n, e) /\ SamePage(n, e)
        /\ e.prefs = n.prefs /\ e.closing = n.closing
    BY <1>3, <1>11 DEF Reported, SameRun, SamePage
  <2>2. Beside(n, e) BY <2>1 DEF Beside, SameRun, Keeps
  <2>3. Story(e) BY <1>3, <1>4, <1>11, <2>2, StoryBeside
  <2>4. Runs(e) BY <1>3, <2>1, RunsOn DEF SameRun
  <2>5. Told(e, a, put, at) BY <1>1, <1>2, <1>11, ToldReported DEF Sound
  <2> QED BY <2>1, <2>3, <2>4, <2>5 DEF Sound, e
<1>12. CASE x \in Others /\ Plain(n, e)
  <2>1. Sound(n, a, put, at) BY <1>6, <1>12 DEF Others
  <2> QED
    BY <1>12, <2>1, SoundPassive, SoundPresented, SoundProfiled, SoundApplied, SoundHanded
       DEF Plain, e
<1> QED BY <1>2, <1>7, <1>8, <1>9, <1>10, <1>11, <1>12 DEF e

-----------------------------------------------------------------------------
(* The invariant, action by action.                                        *)

Inv == TypeOK /\ Sound(desk, active, written, stage)

\* What the user does, and what the GUI thread does, changes the desk only.
LEMMA DeskOnly ==
  ASSUME Inv, setup' = setup, spent' \in Nat, UNCHANGED <<active, exportVars>>,
         Sound(desk', active, written, stage)
  PROVE  Inv'
<1>1. TypeOK' BY DEF Inv, TypeOK, Sound, exportVars
<1>2. Sound(desk, active, written, stage)' BY DEF exportVars
<1> QED BY <1>1, <1>2 DEF Inv

LEMMA CommandOnly ==
  ASSUME Inv, NEW name, Command(name), Sound(desk', active, written, stage)
  PROVE  Inv'
<1>1. spent' \in Nat BY DEF Inv, TypeOK, Command
<1> QED BY <1>1, DeskOnly DEF Command

LEMMA InvRun == ASSUME Inv, Run PROVE Inv'
<1> DEFINE m == ShowScreen(desk, "diagnose")
           e == TriggerRun(m)
<1>1. Sound(desk, active, written, stage) /\ desk \in Desks BY DEF Inv, Sound
<1>2. "diagnose" \in Screens BY DEF Screens, OwnedBy
<1>3. Passive(desk, m) /\ m \in Desks BY <1>1, <1>2, ShowScreenIs, TurnedPassive DEF Turned
<1> HIDE DEF m
<1>4. Sound(m, active, written, stage) BY <1>1, <1>3, SoundPassive
<1>5. Triggered(m, e) BY <1>3, TriggerRunIs
<1> HIDE DEF e
<1>6. Runs(e) BY <1>4, <1>5, RunsOn DEF Sound
<1>7. Story(e) BY <1>3, <1>4, <1>5, StoryTriggered DEF Sound
<1>8. Told(e, active, written, stage)
  BY <1>3, <1>4, <1>5, TriggeredReader, ToldReader DEF Sound
<1>9. e \in Desks BY <1>5 DEF Triggered
<1>10. desk' = e /\ Command("run") BY DEF Run, m, e
<1> QED BY <1>6, <1>7, <1>8, <1>9, <1>10, CommandOnly DEF Sound

LEMMA InvEditTarget == ASSUME Inv, NEW target \in Targets, EditTarget(target) PROVE Inv'
<1> DEFINE page == [desk.page EXCEPT !.target = target]
           e == [desk EXCEPT !.page = page]
<1>1. Sound(desk, active, written, stage) /\ desk \in Desks BY DEF Inv, Sound
<1>2. desk.page \in Pages /\ target \in Subjects BY <1>1 DEF Desks, Subjects
<1>3. /\ page \in Pages /\ page.running = desk.page.running /\ page.shows = desk.page.shows
      /\ page.of = desk.page.of /\ page.timeline = desk.page.timeline
  BY <1>2 DEF Pages
<1>4. desk' = e /\ Command("edit") BY DEF EditTarget
<1> HIDE DEF page
<1>5. e \in Desks BY <1>1, <1>3 DEF Desks
<1>6. /\ e.tasks = desk.tasks /\ e.session = desk.session /\ e.told = desk.told
      /\ e.consented = desk.consented /\ e.closing = desk.closing /\ e.prefs = desk.prefs
      /\ e.pending = desk.pending /\ e.refused = desk.refused /\ e.ran = desk.ran
      /\ e.header = desk.header /\ e.last = desk.last /\ e.page = page
  BY <1>1 DEF Desks
<1> HIDE DEF e
<1>7. Told(e, active, written, stage)
  <2>1. Reader(desk, e) BY <1>1, <1>5, <1>6, StillReader
  <2> QED BY <1>1, <2>1, ToldReader DEF Sound
<1>8. Runs(e) BY <1>1, <1>6, RunsOn DEF Sound
<1>9. Story(e) BY <1>1, <1>3, <1>6 DEF Sound, Story, OneStory, Engaged, Latest
<1> QED BY <1>4, <1>5, <1>7, <1>8, <1>9, CommandOnly DEF Sound

LEMMA InvRunProfile == ASSUME Inv, NEW profile \in Profiles, RunProfile(profile) PROVE Inv'
<1>1. Sound(desk, active, written, stage) /\ desk \in Desks BY DEF Inv, Sound
<1>2. profile \in Subjects BY DEF Subjects
<1>3. Profiled(desk, profile, desk') BY <1>1, <1>2, StartProfileIs DEF RunProfile
<1>4. Sound(desk', active, written, stage) BY <1>1, <1>3, SoundProfiled
<1> QED BY <1>4, CommandOnly DEF RunProfile

LEMMA InvCancelDiagnostic == ASSUME Inv, CancelDiagnostic PROVE Inv'
<1> DEFINE t == Cancelled(desk.tasks, <<"diagnose">>)
           header == Header("cancelling")
           e == [desk EXCEPT !.header = header, !.tasks = t]
<1>1. Sound(desk, active, written, stage) /\ desk \in Desks BY DEF Inv, Sound
<1>2. desk.tasks \in Runners BY <1>1 DEF Desks
<1>3. t \in Runners /\ t.worker = desk.tasks.worker /\ \A x \in Scopes : Keeps(desk.tasks, t, x)
  BY <1>2, CancelledIs, OrdersKnown
<1>4. desk' = e /\ Command("cancel") /\ Loading(desk.tasks, "diagnose")
  BY DEF CancelDiagnostic
<1>5. /\ header \in [{"diagnose", "secondary"} -> Statements]
      /\ \A h \in DOMAIN header : header[h].is = "cancelling"
  BY HeadersAre, HeadersSay
<1> HIDE DEF t, header
<1>6. e \in Desks BY <1>1, <1>3, <1>5 DEF Desks
<1>7. /\ e.tasks = t /\ e.session = desk.session /\ e.told = desk.told
      /\ e.consented = desk.consented /\ e.closing = desk.closing /\ e.prefs = desk.prefs
      /\ e.pending = desk.pending /\ e.refused = desk.refused /\ e.ran = desk.ran
      /\ e.header = header /\ e.last = desk.last /\ e.page = desk.page
  BY <1>1 DEF Desks
<1> HIDE DEF e
<1>8. Told(e, active, written, stage)
  <2>1. Reader(desk, e)
    BY <1>1, <1>3, <1>6, <1>7, MutationsKnown, SessionsCount DEF Reader
  <2> QED BY <1>1, <2>1, ToldReader DEF Sound
<1>9. Runs(e) BY <1>1, <1>7, RunsOn DEF Sound
<1>10. Story(e)
  <2> DEFINE m == [desk EXCEPT !.tasks = t]
  <2>1. m \in Desks /\ m.tasks = t /\ SameRun(desk, m) /\ SamePage(desk, m)
        /\ SameReports(desk, m) /\ SameLists(desk, m)
    BY <1>1, <1>3, TasksChanged
  <2> HIDE DEF m
  <2>2. Beside(desk, m)
    BY <1>3, <2>1, MutationsKnown DEF Beside, SameRun, SameReports, SameLists
  <2>3. Story(m) BY <1>1, <2>2, StoryBeside DEF Sound
  <2>4. Engaged(e)
    BY <1>3, <1>4, <1>7, MutationsKnown DEF Engaged, Keeps, Loading
  <2>5. desk.prefs.loaded BY <1>1, <1>4 DEF Sound, Story, Loading
  <2>6. /\ e.page = m.page /\ e.last = m.last /\ e.tasks = m.tasks /\ e.closing = m.closing
        /\ e.refused = m.refused
    BY <1>7, <2>1 DEF SameRun, SamePage, SameReports
  <2>7. m.closing \/ OneStory(e)
    BY <1>5, <1>7, <2>3, <2>4, <2>6 DEF Story, OneStory, Latest
  <2> QED BY <1>7, <2>3, <2>5, <2>6, <2>7 DEF Story, Latest
<1> QED BY <1>4, <1>6, <1>8, <1>9, <1>10, CommandOnly DEF Sound

LEMMA InvNavigate == ASSUME Inv, NEW name \in Screens, Navigate(name) PROVE Inv'
<1> DEFINE m == ShowScreen(desk, name)
<1>1. Sound(desk, active, written, stage) /\ desk \in Desks BY DEF Inv, Sound
<1>2. Passive(desk, m) /\ m \in Desks BY <1>1, ShowScreenIs, TurnedPassive DEF Turned
<1> HIDE DEF m
<1>3. Passive(desk, desk')
  <2>1. CASE name \in Lists
    <3>1. desk' = Reload(m, name) BY <2>1 DEF Navigate, m
    <3>2. Passive(m, desk') BY <1>2, <2>1, <3>1, ReloadIs, ReloadedPassive
    <3> QED BY <1>1, <1>2, <3>2, PassiveTwice
  <2>2. CASE name \notin Lists BY <1>2, <2>2 DEF Navigate, m
  <2> QED BY <2>1, <2>2
<1>4. Sound(desk', active, written, stage) BY <1>1, <1>3, SoundPassive
<1> QED BY <1>4, CommandOnly DEF Navigate

LEMMA InvReadHistory ==
  ASSUME Inv, NEW action \in {"open", "rerun", "export"}, NEW doc \in Stored,
         ReadHistory(action, doc)
  PROVE  Inv'
<1> DEFINE arg == [action |-> action, doc |-> doc]
<1>1. Sound(desk, active, written, stage) /\ desk \in Desks BY DEF Inv, Sound
<1>2. arg \in Arguments("history.read") /\ "history.read" \in Reads \ {"diagnose"}
  BY DEF Arguments, ReadRequests, Reads
<1>3. desk' = [desk EXCEPT !.tasks = Started(desk.tasks, "history.read", arg)]
  BY DEF ReadHistory
<1> HIDE DEF arg
<1>4. Passive(desk, desk') BY <1>1, <1>2, <1>3, StartPassive
<1>5. Sound(desk', active, written, stage) BY <1>1, <1>4, SoundPassive
<1> QED BY <1>5, CommandOnly DEF ReadHistory

LEMMA InvMutate == ASSUME Inv, NEW list \in Lists, Mutate(list) PROVE Inv'
<1> DEFINE s == MutationOf[list]
           t == StartedMutation(desk.tasks, s, None)
           e == [desk EXCEPT !.tasks = t]
<1>1. Sound(desk, active, written, stage) /\ desk \in Desks BY DEF Inv, Sound
<1>2. s \in {"history.mutation", "profiles.mutation"} BY DEF MutationOf, Lists
<1> HIDE DEF s
<1>3. CASE desk' = e
  <2>1. desk.tasks \in Runners /\ s \in Mutations BY <1>1, <1>2 DEF Desks, Mutations
  <2>2. None \in Arguments(s) BY <1>2 DEF Arguments
  <2>3. t \in Runners BY <2>1, <2>2, StartedMutationIs
  <2>4. Keeps(desk.tasks, t, "diagnose") BY <1>1, <2>1, <2>2, DiagnoseKept
  <2>5. t = StartedMutation(desk.tasks, s, None) OBVIOUS
  <2> HIDE DEF t
  <2>6. e \in Desks /\ e.tasks = t /\ e.session = desk.session
        /\ SameRun(desk, e) /\ SamePage(desk, e) /\ SameReports(desk, e) /\ SameLists(desk, e)
    BY <1>1, <2>3, TasksChanged
  <2> HIDE DEF e
  <2>7. Beside(desk, e)
    BY <2>4, <2>6 DEF Beside, SameRun, SameReports, SameLists
  <2>8. Story(e) BY <1>1, <2>7, StoryBeside DEF Sound
  <2>9. Runs(e) BY <1>1, <2>6, RunsOn DEF Sound, SameRun
  <2>10. Told(e, active, written, stage)
    <3>1. /\ e.told = desk.told /\ e.consented = desk.consented /\ e.closing = desk.closing
          /\ e.prefs = desk.prefs /\ e.tasks = StartedMutation(desk.tasks, s, None)
      BY <2>5, <2>6 DEF SameReports, SameLists
    <3> QED BY <1>1, <1>2, <2>6, <3>1, ToldListed DEF Sound
  <2>11. Sound(desk', active, written, stage)
    BY <1>3, <2>6, <2>8, <2>9, <2>10 DEF Sound
  <2> QED BY <2>11, CommandOnly DEF Mutate
<1>4. CASE desk' = desk
  <2>1. Sound(desk', active, written, stage) BY <1>1, <1>4
  <2> QED BY <2>1, CommandOnly DEF Mutate
<1> QED BY <1>3, <1>4 DEF Mutate, s

LEMMA InvEditSettings == ASSUME Inv, NEW cfg \in Configs, EditSettings(cfg) PROVE Inv'
<1> DEFINE p == [desk.prefs EXCEPT !.form = cfg, !.status = "unsaved", !.enabled = TRUE,
                                   !.late = TRUE]
           e == [desk EXCEPT !.prefs = p]
<1>1. Sound(desk, active, written, stage) /\ desk \in Desks BY DEF Inv, Sound
<1>2. desk.prefs \in Preferences BY <1>1 DEF Desks
<1>3. /\ p \in Preferences /\ p.status = "unsaved" /\ p.done = desk.prefs.done
      /\ p.loaded = desk.prefs.loaded /\ (Fields(desk.prefs) => Fields(p))
  BY <1>2 DEF Preferences, Fields
<1>4. desk' = e /\ Command("change")
  <2>1. desk' = [desk EXCEPT !.prefs.form = cfg, !.prefs.status = "unsaved",
                             !.prefs.enabled = TRUE, !.prefs.late = TRUE]
    BY DEF EditSettings
  <2>2. e = [desk EXCEPT !.prefs.form = cfg, !.prefs.status = "unsaved",
                         !.prefs.enabled = TRUE, !.prefs.late = TRUE]
    BY <1>1 DEF Desks
  <2> QED BY <2>1, <2>2 DEF EditSettings
<1> HIDE DEF p
<1>5. e \in Desks /\ e.prefs = p /\ e.tasks = desk.tasks /\ e.session = desk.session
      /\ SameRun(desk, e) /\ SamePage(desk, e) /\ SameReports(desk, e)
  BY <1>1, <1>3, PrefsChanged
<1> HIDE DEF e
<1>6. Passive(desk, e)
  BY <1>1, <1>3, <1>5, SessionsCount DEF Passive, Reader, SameReports, Keeps
<1>7. Sound(desk', active, written, stage) BY <1>1, <1>4, <1>6, SoundPassive
<1> QED BY <1>4, <1>7, CommandOnly

LEMMA InvPressSave == ASSUME Inv, PressSave PROVE Inv'
<1>1. Sound(desk, active, written, stage) /\ desk \in Desks BY DEF Inv, Sound
<1>2. Asked(desk, desk') BY <1>1, SaveSettingsIs DEF PressSave
<1>3. Sound(desk', active, written, stage) BY <1>1, <1>2, SoundAsked
<1> QED BY <1>3, CommandOnly DEF PressSave

LEMMA InvExportLast == ASSUME Inv, ExportLast PROVE Inv'
<1>1. Sound(desk, active, written, stage) /\ desk \in Desks BY DEF Inv, Sound
<1>2. Passive(desk, desk') BY <1>1, OpenedPassive DEF ExportLast
<1>3. Sound(desk', active, written, stage) BY <1>1, <1>2, SoundPassive
<1> QED BY <1>3, CommandOnly DEF ExportLast

LEMMA InvCloseWindow == ASSUME Inv, CloseWindow PROVE Inv'
<1> DEFINE t == Closed(desk.tasks)
           e == [desk EXCEPT !.closing = TRUE, !.tasks = t]
<1>1. Sound(desk, active, written, stage) /\ desk \in Desks BY DEF Inv, Sound
<1>2. desk.tasks \in Runners /\ desk.session \in Nat BY <1>1 DEF Desks
<1>3. /\ t \in Runners /\ t.worker = desk.tasks.worker
      /\ \A x \in Scopes :
           \/ t.scope[x] = desk.tasks.scope[x]
           \/ /\ Loading(desk.tasks, x)
              /\ t.scope[x] = [desk.tasks.scope[x] EXCEPT !.state = "cancelled"]
  BY <1>2, ClosedIs
<1>4. desk' = e /\ Command("close") BY DEF CloseWindow
<1>5. \A x \in Scopes : desk.tasks.scope[x] \in Snapshots BY <1>2, RunnerHas
<1> HIDE DEF t
<1>6. \A x \in Scopes :
        /\ t.scope[x].op = desk.tasks.scope[x].op /\ t.scope[x].arg = desk.tasks.scope[x].arg
        /\ t.scope[x].state # "idle" => desk.tasks.scope[x].state # "idle"
        /\ t.scope[x].state = "success" => t.scope[x] = desk.tasks.scope[x]
        /\ desk.tasks.scope[x].state = "success" => t.scope[x] = desk.tasks.scope[x]
  <2> SUFFICES ASSUME NEW x \in Scopes
               PROVE  /\ t.scope[x].op = desk.tasks.scope[x].op
                      /\ t.scope[x].arg = desk.tasks.scope[x].arg
                      /\ t.scope[x].state # "idle" => desk.tasks.scope[x].state # "idle"
                      /\ t.scope[x].state = "success" => t.scope[x] = desk.tasks.scope[x]
                      /\ desk.tasks.scope[x].state = "success" => t.scope[x] = desk.tasks.scope[x]
    OBVIOUS
  <2> DEFINE r == desk.tasks.scope[x]
             q == t.scope[x]
  <2>1. r \in Snapshots BY <1>5
  <2>2. q = r \/ (r.state = "loading" /\ q = [r EXCEPT !.state = "cancelled"])
    BY <1>3 DEF Loading
  <2> HIDE DEF r, q
  <2>3. CASE q = r BY <2>3 DEF r, q
  <2>4. CASE r.state = "loading" /\ q = [r EXCEPT !.state = "cancelled"]
    <3>1. q.op = r.op /\ q.arg = r.arg /\ q.state = "cancelled" BY <2>1, <2>4 DEF Snapshots
    <3> QED BY <2>4, <3>1 DEF r, q
  <2> QED BY <2>2, <2>3, <2>4
<1>7. e \in Desks BY <1>1, <1>3 DEF Desks
<1>8. /\ e.tasks = t /\ e.session = desk.session /\ e.told = desk.told
      /\ e.consented = desk.consented /\ e.closing /\ e.prefs = desk.prefs
      /\ e.pending = desk.pending /\ e.refused = desk.refused /\ e.ran = desk.ran
      /\ e.header = desk.header
  BY <1>1 DEF Desks
<1> HIDE DEF e
<1>9. Runs(e) BY <1>1, <1>8, RunsOn DEF Sound
<1>10. Story(e) BY <1>1, <1>6, <1>8, MutationsKnown DEF Sound, Story, Latest
<1>11. Line(e)
  <2>1. desk.tasks.worker \in Seq(Jobs) BY <1>2, RunnerHas
  <2>2. \A i \in DOMAIN e.tasks.worker :
          LET u == e.tasks.worker[i]
              v == desk.tasks.worker[i + 0]
          IN i + 0 \in DOMAIN desk.tasks.worker /\ u.scope = v.scope /\ u.op = v.op /\ u.arg = v.arg
    BY <1>3, <1>8, <2>1
  <2>3. \A x \in Mutations : /\ e.tasks.scope[x].op = desk.tasks.scope[x].op
                             /\ e.tasks.scope[x].arg = desk.tasks.scope[x].arg
    BY <1>6, <1>8, MutationsKnown
  <2> QED BY <1>1, <1>7, <1>8, <2>2, <2>3, LineFollows DEF Sound, Told
<1>12. Saves(e, active) BY <1>1, <1>3, <1>6, <1>8, MutationsKnown DEF Sound, Told, Saves
<1>13. Writes(e, written, stage)
  BY <1>1, <1>3, <1>6, <1>8, MutationsKnown DEF Sound, Told, Writes, WritesNow
<1>14. Told(e, active, written, stage) BY <1>1, <1>8, <1>11, <1>12, <1>13 DEF Sound, Told
<1> QED BY <1>4, <1>7, <1>9, <1>10, <1>14, CommandOnly DEF Sound

LEMMA InvAnswerDialog ==
  ASSUME Inv, NEW dialog \in desk.dialogs, NEW accepted \in BOOLEAN,
         AnswerDialog(dialog, accepted)
  PROVE  Inv'
<1> DEFINE rest == desk.dialogs \ {dialog}
           d == [desk EXCEPT !.dialogs = rest]
<1>1. Sound(desk, active, written, stage) /\ desk \in Desks BY DEF Inv, Sound
<1>2. rest \in SUBSET [kind : {"privacy", "picker", "overwrite"}, session : Nat]
      /\ dialog \in [kind : {"privacy", "picker", "overwrite"}, session : Nat]
  BY <1>1 DEF Desks
<1>3. desk' = IF accepted THEN Accepted(d, dialog) ELSE d BY DEF AnswerDialog
<1> HIDE DEF rest
<1>4. d \in Desks BY <1>1, <1>2 DEF Desks
<1>5. /\ d.tasks = desk.tasks /\ d.session = desk.session
      /\ d.told = desk.told /\ d.consented = desk.consented /\ d.closing = desk.closing
      /\ d.prefs = desk.prefs /\ SameRun(desk, d) /\ SamePage(desk, d)
  BY <1>1 DEF Desks, SameRun, SamePage
<1> HIDE DEF d
<1>6. Sound(d, active, written, stage) BY <1>1, <1>4, <1>5, StillPassive, SoundPassive
<1>7. Passive(d, Accepted(d, dialog)) \/ Handed(d, Accepted(d, dialog))
  BY <1>2, <1>4, AcceptedIs
<1>8. Sound(desk', active, written, stage)
  BY <1>3, <1>6, <1>7, SoundPassive, SoundHanded
<1>9. spent' \in Nat /\ setup' = setup /\ UNCHANGED <<active, exportVars>>
  BY DEF AnswerDialog, Inv, TypeOK
<1> QED BY <1>8, <1>9, DeskOnly

LEMMA InvObserve == ASSUME Inv, Observe PROVE Inv'
<1>1. Sound(desk', active, written, stage) BY SoundObserved DEF Inv, Observe
<1>2. spent' \in Nat /\ setup' = setup /\ UNCHANGED <<active, exportVars>>
  BY DEF Observe, Inv, TypeOK
<1> QED BY <1>1, <1>2, DeskOnly

LEMMA InvRunEmits == ASSUME Inv, RunEmits PROVE Inv'
<1> DEFINE op == desk.tasks.scope["diagnose"].op
           inbox == Append(desk.tasks.inbox, Progress(op))
           t == [desk.tasks EXCEPT !.inbox = inbox]
           k == desk.events + 1
           e == [desk EXCEPT !.events = k, !.tasks = t]
<1>1. Sound(desk, active, written, stage) /\ desk \in Desks BY DEF Inv, Sound
<1>2. desk.tasks \in Runners /\ desk.events \in Nat BY <1>1 DEF Desks
<1>3. /\ desk.tasks.inbox \in Seq(Notices) /\ desk.tasks.scope \in [Scopes -> Snapshots]
      /\ desk.tasks = [scope |-> desk.tasks.scope, inbox |-> desk.tasks.inbox,
                       worker |-> desk.tasks.worker, closed |-> desk.tasks.closed]
  BY <1>2, RunnerHas
<1>4. op \in Nat BY <1>3, MutationsKnown DEF Snapshots
<1>5. Progress(op) \in Notices BY <1>4 DEF Progress, Notices
<1>6. desk' = e
  <2>1. desk' = [desk EXCEPT !.events = desk.events + 1,
                             !.tasks.inbox = Append(desk.tasks.inbox, Progress(op))]
    BY DEF RunEmits
  <2> QED BY <1>1, <2>1 DEF Desks
<1>7. k \in Nat BY <1>2
<1> HIDE DEF op
<1>8. inbox \in Seq(Notices)
      /\ \A x : Noticed(desk.tasks, x) => \E i \in DOMAIN inbox : inbox[i].about = x
  BY <1>3, <1>5 DEF Noticed
<1> HIDE DEF inbox
<1>9. t \in Runners BY <1>2, <1>8 DEF Runners
<1>10. t.scope = desk.tasks.scope /\ t.worker = desk.tasks.worker /\ t.inbox = inbox
  BY <1>2 DEF Runners
<1>11. \A x \in Scopes : Keeps(desk.tasks, t, x) BY <1>8, <1>10 DEF Keeps, Noticed
<1> HIDE DEF t, k
<1>12. e \in Desks BY <1>1, <1>7, <1>9 DEF Desks
<1>13. /\ e.tasks = t /\ e.session = desk.session /\ e.told = desk.told
       /\ e.consented = desk.consented /\ e.closing = desk.closing /\ e.prefs = desk.prefs
       /\ e.pending = desk.pending /\ e.refused = desk.refused /\ e.ran = desk.ran
       /\ SamePage(desk, e)
  BY <1>1 DEF Desks, SamePage
<1> HIDE DEF e
<1>14. Reader(desk, e)
  BY <1>1, <1>10, <1>11, <1>12, <1>13, MutationsKnown, SessionsCount DEF Reader
<1>15. Told(e, active, written, stage) BY <1>1, <1>14, ToldReader DEF Sound
<1>16. Runs(e) BY <1>1, <1>13, RunsOn DEF Sound
<1>17. Beside(desk, e) BY <1>11, <1>13, MutationsKnown DEF Beside
<1>18. Story(e) BY <1>1, <1>17, StoryBeside DEF Sound
<1>19. spent' \in Nat /\ setup' = setup /\ UNCHANGED <<active, exportVars>>
  BY DEF RunEmits, Inv, TypeOK
<1>20. Sound(desk', active, written, stage) BY <1>6, <1>12, <1>15, <1>16, <1>18 DEF Sound
<1> QED BY <1>19, <1>20, DeskOnly

\* What a task returns is a value of its scope; a run returns its own diagnosis.
LEMMA ValueIs ==
  ASSUME TypeOK, NEW s \in Reads, Loading(desk.tasks, s)
  PROVE  Value(s) \in Values(s) /\ (s = "diagnose" => Value(s) = Latest(desk))
<1> DEFINE r == desk.tasks.scope[s]
<1>1. desk.tasks \in Runners /\ s \in Scopes BY DEF TypeOK, Desks, Scopes
<1>2. r \in Snapshots /\ r.arg \in Arguments(s) BY <1>1, RunnerHas DEF Loading
<1>3. r.op \in Nat BY <1>2 DEF Snapshots
<1>4. CASE s = "diagnose"
  <2>1. Value(s) = Latest(desk) BY <1>4 DEF Value, Latest
  <2>2. Value(s) = Diagnosis(r.op, r.arg) BY <1>4 DEF Value
  <2>3. Diagnosis(r.op, r.arg) \in RunResults
    BY <1>2, <1>3, <1>4 DEF Diagnosis, RunResults, Arguments
  <2> QED BY <1>4, <2>1, <2>2, <2>3 DEF Values
<1>5. CASE s = "configuration.load"
  BY <1>5 DEF Value, Values, TypeOK
<1>6. CASE s = "report.inspect"
  <2>1. r.arg.session \in Nat BY <1>2, <1>6 DEF Arguments, ReportRequests
  <2>2. Value(s) = [session |-> r.arg.session, exists |-> destination # Absent]
    BY <1>6 DEF Value
  <2> DEFINE exists == (destination # Absent)
             session == r.arg.session
  <2>3. exists \in BOOLEAN /\ session \in Nat BY <2>1
  <2>4. Value(s) = [session |-> session, exists |-> exists] BY <2>2
  <2> HIDE DEF exists, session
  <2>5. Value(s) \in Inspections BY <2>3, <2>4 DEF Inspections
  <2> QED BY <1>6, <2>5 DEF Values
<1>7. CASE s \notin {"diagnose", "configuration.load", "report.inspect"}
  BY <1>2, <1>7 DEF Value, Values
<1> QED BY <1>4, <1>5, <1>6, <1>7

LEMMA InvReadReturns == ASSUME Inv, NEW s \in Reads, ReadReturns(s) PROVE Inv'
<1>1. Sound(desk, active, written, stage) /\ desk \in Desks BY DEF Inv, Sound
<1>2. desk.tasks \in Runners /\ s \in Scopes /\ Loading(desk.tasks, s)
  BY <1>1 DEF Desks, Scopes, ReadReturns
<1>3. Value(s) \in Values(s) /\ (s = "diagnose" => Value(s) = Latest(desk))
  BY <1>2, ValueIs DEF Inv
<1> PICK state \in {"success", "error", "cancelled"}, value \in Values(s) \cup {None} :
       /\ state = "success" => value = Value(s)
       /\ desk' = [desk EXCEPT !.tasks = Finished(desk.tasks, s, state, value)]
  <2>1. CASE desk' = [desk EXCEPT !.tasks = Finished(@, s, "success", Value(s))]
    BY <1>3, <2>1
  <2>2. ASSUME NEW how \in {"error", "cancelled"},
               desk' = [desk EXCEPT !.tasks = Finished(@, s, how, None)]
        PROVE  \E state \in {"success", "error", "cancelled"}, value \in Values(s) \cup {None} :
                 /\ state = "success" => value = Value(s)
                 /\ desk' = [desk EXCEPT !.tasks = Finished(desk.tasks, s, state, value)]
    BY <2>2
  <2> QED BY <2>1, <2>2 DEF ReadReturns
<1> DEFINE t == Finished(desk.tasks, s, state, value)
           e == [desk EXCEPT !.tasks = t]
<1>4. /\ t \in Runners /\ t.worker = desk.tasks.worker /\ t.closed = desk.tasks.closed
      /\ t.scope[s].op = desk.tasks.scope[s].op /\ t.scope[s].state = state
      /\ t.scope[s].arg = desk.tasks.scope[s].arg /\ t.scope[s].value = value
      /\ Noticed(t, s)
      /\ \A x \in Scopes \ {s} : t.scope[x] = desk.tasks.scope[x] /\ Keeps(desk.tasks, t, x)
  <2>1. Ended(desk.tasks, t, s, state, value) BY <1>2, <1>3, FinishedIs
  <2> HIDE DEF t
  <2> QED BY <2>1 DEF Ended
<1>5. desk' = e OBVIOUS
<1> HIDE DEF t
<1>6. e \in Desks /\ e.tasks = t /\ e.session = desk.session
      /\ SameRun(desk, e) /\ SamePage(desk, e) /\ SameReports(desk, e) /\ SameLists(desk, e)
  BY <1>1, <1>4, TasksChanged
<1> HIDE DEF e
<1>7. Apart(desk, e, s) BY <1>4, <1>6 DEF Apart
<1>8. Reader(desk, e)
  BY <1>1, <1>6, <1>7, ApartReads, SessionsCount DEF Reader, SameReports, SameLists
<1>9. Told(e, active, written, stage) BY <1>1, <1>8, ToldReader DEF Sound
<1>10. Runs(e) BY <1>1, <1>6, RunsOn DEF Sound, SameRun
<1>11. Story(e)
  <2>1. CASE s # "diagnose"
    <3>1. Beside(desk, e)
      BY <1>4, <1>6, <2>1, MutationsKnown DEF Beside, SameRun, SameReports, SameLists
    <3> QED BY <1>1, <3>1, StoryBeside DEF Sound
  <2>2. CASE s = "diagnose"
    <3>1. /\ e.page = desk.page /\ e.header = desk.header /\ e.last = desk.last
          /\ e.refused = desk.refused /\ e.closing = desk.closing /\ e.prefs = desk.prefs
      BY <1>6 DEF SameRun, SamePage, SameReports, SameLists
    <3>2. Latest(e) = Latest(desk) /\ Noticed(e.tasks, "diagnose") /\ Engaged(e)
      BY <1>4, <1>6, <2>2 DEF Latest, Engaged
    <3>3. desk.prefs.loaded BY <1>1, <1>2, <2>2 DEF Sound, Story, Loading
    <3>4. e.tasks.scope["diagnose"].state = "success"
            => e.tasks.scope["diagnose"].value = Latest(e)
      BY <1>3, <1>4, <1>6, <2>2, <3>2
    <3>5. desk.closing \/ OneStory(e)
      BY <1>1, <3>1, <3>2 DEF Sound, Story, OneStory
    <3> QED BY <3>1, <3>3, <3>4, <3>5 DEF Story
  <2> QED BY <2>1, <2>2
<1>12. Sound(desk', active, written, stage) BY <1>5, <1>6, <1>9, <1>10, <1>11 DEF Sound
<1>13. spent' \in Nat /\ setup' = setup /\ UNCHANGED <<active, exportVars>>
  BY DEF ReadReturns, Inv, TypeOK
<1> QED BY <1>12, <1>13, DeskOnly

\* The worker's first mutation leaves the line.
LEMMA LineShorter ==
  ASSUME NEW d \in Desks, NEW e \in Desks, Line(d), d.tasks.worker # <<>>,
         e.tasks.worker = Tail(d.tasks.worker),
         \A x \in Mutations : /\ e.tasks.scope[x].op = d.tasks.scope[x].op
                              /\ e.tasks.scope[x].arg = d.tasks.scope[x].arg,
         e.consented = d.consented
  PROVE  Line(e)
<1>1. d.tasks \in Runners BY DEF Desks
<1>2. d.tasks.worker \in Seq(Jobs) BY <1>1, RunnerHas
<1>3. \A i \in DOMAIN e.tasks.worker :
        LET u == e.tasks.worker[i]
            v == d.tasks.worker[i + 1]
        IN i + 1 \in DOMAIN d.tasks.worker /\ u.scope = v.scope /\ u.op = v.op /\ u.arg = v.arg
  BY <1>2
<1> QED BY <1>3, LineFollows

LEMMA InvWorkerTakes == ASSUME Inv, WorkerTakes PROVE Inv'
<1> DEFINE v == desk.tasks.worker
           w == Head(v)
           line == IF Current(desk.tasks, w) THEN [v EXCEPT ![1].running = TRUE] ELSE Tail(v)
           t == [desk.tasks EXCEPT !.worker = line]
           e == [desk EXCEPT !.tasks = t]
<1>1. Sound(desk, active, written, stage) /\ desk \in Desks BY DEF Inv, Sound
<1>2. desk.tasks \in Runners BY <1>1 DEF Desks
<1>3. v \in Seq(Jobs) /\ v # <<>> /\ ~w.running BY <1>2, RunnerHas DEF WorkerTakes
<1>4. desk' = e
  <2>1. CASE Current(desk.tasks, w)
    <3>1. desk' = [desk EXCEPT !.tasks.worker[1].running = TRUE] BY <2>1 DEF WorkerTakes
    <3>2. e = [desk EXCEPT !.tasks.worker[1].running = TRUE]
      BY <1>1, <1>2, <1>3, <2>1 DEF Desks, Runners
    <3> QED BY <3>1, <3>2
  <2>2. CASE ~Current(desk.tasks, w)
    <3>1. desk' = [desk EXCEPT !.tasks.worker = Tail(@)] BY <2>2 DEF WorkerTakes
    <3> QED BY <1>1, <1>2, <2>2, <3>1 DEF Desks, Runners
  <2> QED BY <2>1, <2>2
<1>5. /\ line \in Seq(Jobs)
      /\ \/ /\ DOMAIN line = DOMAIN v
            /\ \A i \in DOMAIN line : /\ line[i].scope = v[i].scope /\ line[i].op = v[i].op
                                      /\ line[i].arg = v[i].arg
         \/ line = Tail(v)
  <2>1. CASE Current(desk.tasks, w)
    <3>1. v[1] \in Jobs /\ 1 \in DOMAIN v BY <1>3
    <3> DEFINE job == [v[1] EXCEPT !.running = TRUE]
    <3>2. job \in Jobs /\ job.scope = v[1].scope /\ job.op = v[1].op /\ job.arg = v[1].arg
      BY <3>1 DEF Jobs
    <3>3. line = [v EXCEPT ![1] = job] BY <2>1
    <3> HIDE DEF job, line
    <3> QED BY <1>3, <3>1, <3>2, <3>3
  <2>2. CASE ~Current(desk.tasks, w)
    <3>1. line = Tail(v) BY <2>2
    <3>2. Tail(v) \in Seq(Jobs) BY <1>3
    <3> HIDE DEF line, v
    <3> QED BY <3>1, <3>2
  <2> QED BY <2>1, <2>2
<1> HIDE DEF line
<1>6. /\ t \in Runners /\ t.worker = line /\ t.scope = desk.tasks.scope
      /\ \A x \in Scopes : Keeps(desk.tasks, t, x)
  BY <1>2, <1>5, WorkerChanged
<1> HIDE DEF t
<1>7. e \in Desks /\ e.tasks = t /\ e.session = desk.session
      /\ SameRun(desk, e) /\ SamePage(desk, e) /\ SameReports(desk, e) /\ SameLists(desk, e)
  BY <1>1, <1>6, TasksChanged
<1> HIDE DEF e
<1>8. /\ e.told = desk.told /\ e.consented = desk.consented /\ e.closing = desk.closing
      /\ e.prefs = desk.prefs
  BY <1>7 DEF SameReports, SameLists
<1>9. Runs(e) BY <1>1, <1>7, RunsOn DEF Sound, SameRun
<1>10. Story(e)
  <2>1. Beside(desk, e)
    BY <1>6, <1>7, MutationsKnown DEF Beside, SameRun, SameReports, SameLists
  <2> QED BY <1>1, <2>1, StoryBeside DEF Sound
<1>11. Line(e)
  <2>1. CASE line = Tail(v)
    BY <1>1, <1>3, <1>6, <1>7, <1>8, <2>1, LineShorter DEF Sound, Told
  <2>2. CASE /\ DOMAIN line = DOMAIN v
             /\ \A i \in DOMAIN line : /\ line[i].scope = v[i].scope /\ line[i].op = v[i].op
                                       /\ line[i].arg = v[i].arg
    <3>1. \A i \in DOMAIN e.tasks.worker :
            LET u == e.tasks.worker[i]
                z == desk.tasks.worker[i + 0]
            IN i + 0 \in DOMAIN desk.tasks.worker /\ u.scope = z.scope /\ u.op = z.op
               /\ u.arg = z.arg
      <4>1. \A i \in DOMAIN v : i + 0 = i BY <1>3
      <4> QED BY <1>6, <1>7, <2>2, <4>1
    <3> QED BY <1>1, <1>6, <1>7, <1>8, <3>1, LineFollows DEF Sound, Told
  <2> QED BY <1>5, <2>1, <2>2
<1>12. Saves(e, active)
  <2>1. \A i \in DOMAIN line : \E k \in DOMAIN v : line[i].scope = v[k].scope
    <3>1. CASE line = Tail(v)
      <4>1. \A i \in DOMAIN line : i + 1 \in DOMAIN v /\ line[i] = v[i + 1] BY <1>3, <3>1
      <4> QED BY <4>1
    <3> QED BY <1>5, <3>1
  <2> QED BY <1>1, <1>6, <1>7, <1>8, <2>1 DEF Sound, Told, Saves
<1>13. Writes(e, written, stage)
  <2>1. stage = "start" BY <1>1, <1>3 DEF Sound, Told, Writes, WritesNow
  <2>2. Noticed(desk.tasks, "report.write") => Noticed(e.tasks, "report.write")
    BY <1>6, <1>7, MutationsKnown DEF Keeps
  <2> QED BY <1>1, <1>6, <1>7, <1>8, <2>1, <2>2 DEF Sound, Told, Writes
<1>14. Sound(desk', active, written, stage)
  BY <1>1, <1>4, <1>7, <1>8, <1>9, <1>10, <1>11, <1>12, <1>13 DEF Sound, Told
<1>15. spent' \in Nat /\ setup' = setup /\ UNCHANGED <<active, exportVars>>
  BY DEF WorkerTakes, Inv, TypeOK
<1> QED BY <1>14, <1>15, DeskOnly

\* The worker's first mutation ends, which leaves the configuration b active.  A report
\* that it says it wrote was put at its destination.
LEMMA SoundAnswered ==
  ASSUME NEW d, NEW a, NEW put, NEW at, Sound(d, a, put, at), d.tasks.worker # <<>>,
         NEW state \in {"success", "error", "cancelled"},
         NEW value, value = IF state = "success" THEN Head(d.tasks.worker).arg ELSE None,
         state = "success" /\ Head(d.tasks.worker).scope = "report.write"
           => Head(d.tasks.worker).arg \in put,
         NEW b, b = IF state = "success" /\ Head(d.tasks.worker).scope = "configuration.save"
                    THEN Head(d.tasks.worker).arg ELSE a
  PROVE  Sound([d EXCEPT !.tasks = Answered(d.tasks, state, value)], b, put, "start")
<1> DEFINE v == d.tasks.worker
           w == Head(v)
           t == Answered(d.tasks, state, value)
           e == [d EXCEPT !.tasks = t]
<1>1. d \in Desks BY DEF Sound
<1>2. d.tasks \in Runners /\ d.session \in Nat BY <1>1 DEF Desks
<1>3. /\ w \in Jobs /\ t \in Runners /\ t.worker = Tail(v)
      /\ \A x \in Scopes \ {w.scope} : t.scope[x] = d.tasks.scope[x] /\ Keeps(d.tasks, t, x)
      /\ IF Current(d.tasks, w)
         THEN /\ t.scope[w.scope].op = d.tasks.scope[w.scope].op
              /\ t.scope[w.scope].state = state
              /\ t.scope[w.scope].arg = d.tasks.scope[w.scope].arg
              /\ t.scope[w.scope].value = value
              /\ Noticed(t, w.scope)
         ELSE t.scope[w.scope] = d.tasks.scope[w.scope] /\ Keeps(d.tasks, t, w.scope)
  <2> DEFINE tasks == d.tasks
  <2>1. tasks \in Runners /\ tasks.worker # <<>> BY <1>2
  <2>2. value = IF state = "success" THEN Head(tasks.worker).arg ELSE None OBVIOUS
  <2> HIDE DEF tasks
  <2>3. LET u == Answered(tasks, state, value)
            z == Head(tasks.worker)
            r == u.scope[z.scope]
        IN /\ z \in Jobs /\ u \in Runners /\ u.worker = Tail(tasks.worker)
           /\ u.closed = tasks.closed
           /\ \A x \in Scopes \ {z.scope} : u.scope[x] = tasks.scope[x] /\ Keeps(tasks, u, x)
           /\ IF Current(tasks, z)
              THEN /\ r.op = tasks.scope[z.scope].op /\ r.state = state
                   /\ r.arg = tasks.scope[z.scope].arg /\ r.value = value
                   /\ Noticed(u, z.scope)
              ELSE r = tasks.scope[z.scope] /\ Keeps(tasks, u, z.scope)
    BY <2>1, <2>2, AnsweredIs
  <2> QED BY <2>3 DEF tasks
<1>4. v \in Seq(Jobs) /\ 1 \in DOMAIN v /\ v[1] = w
  <2>1. v \in Seq(Jobs) BY <1>2, RunnerHas
  <2> QED BY <2>1
<1>5. w.scope \in Mutations /\ w.op \in Nat BY <1>3 DEF Jobs
<1>6. Current(d.tasks, w) =>
        /\ d.tasks.scope[w.scope].state = "loading" /\ d.tasks.scope[w.scope].op = w.op
        /\ d.tasks.scope[w.scope].arg = w.arg
  BY <1>1, <1>4 DEF Current, Loading, Sound, Told, Line
<1> HIDE DEF t
<1>7. e \in Desks /\ e.tasks = t /\ e.session = d.session
      /\ SameRun(d, e) /\ SamePage(d, e) /\ SameReports(d, e) /\ SameLists(d, e)
  BY <1>1, <1>3, TasksChanged
<1> HIDE DEF e
<1>8. /\ e.told = d.told /\ e.consented = d.consented /\ e.closing = d.closing
      /\ e.prefs = d.prefs
  BY <1>7 DEF SameReports, SameLists
<1>9. Runs(e) BY <1>7, RunsOn DEF Sound, SameRun
<1>10. Story(e)
  <2>1. Keeps(d.tasks, t, "diagnose") BY <1>3, <1>5, MutationsKnown
  <2>2. Beside(d, e) BY <1>7, <2>1 DEF Beside, SameRun, SameReports, SameLists
  <2> QED BY <1>1, <2>2, StoryBeside DEF Sound
<1>11. \A x \in Mutations : /\ t.scope[x].op = d.tasks.scope[x].op
                            /\ t.scope[x].arg = d.tasks.scope[x].arg
  BY <1>3, <1>5, MutationsKnown
<1>12. Line(e)
  BY <1>1, <1>3, <1>7, <1>8, <1>11, LineShorter DEF Sound, Told
<1>13. \A i \in DOMAIN t.worker : /\ i + 1 \in DOMAIN v /\ 1 < i + 1
                                  /\ t.worker[i] = v[i + 1] /\ v[i + 1].op \in Nat
  <2>1. t.worker = Tail(v) BY <1>3
  <2>2. \A i \in DOMAIN v : v[i].op \in Nat BY <1>4 DEF Jobs
  <2> HIDE DEF v, w
  <2>3. Len(v) \in Nat /\ DOMAIN v = 1 .. Len(v) /\ v # <<>> BY <1>4
  <2>4. DOMAIN t.worker = 1 .. (Len(v) - 1) BY <1>4, <2>1, <2>3
  <2>5. \A i \in DOMAIN t.worker : i \in Nat /\ 1 < i + 1 /\ i + 1 \in DOMAIN v
    BY <2>3, <2>4
  <2>6. \A i \in DOMAIN t.worker : t.worker[i] = v[i + 1] BY <1>4, <2>1, <2>3
  <2> QED BY <2>2, <2>5, <2>6
<1> DEFINE save == "configuration.save"
<1>14. Saves(e, b)
  <2>1. Saves(d, a) BY DEF Sound, Told
  <2>2. CASE w.scope # save
    <3>1. t.scope[save] = d.tasks.scope[save] BY <1>3, <2>2, MutationsKnown
    <3>2. b = a BY <2>2
    <3> QED BY <1>7, <1>8, <1>13, <2>1, <3>1, <3>2 DEF Saves
  <2>3. CASE w.scope = save
    <3>1. d.tasks.scope[save].state # "success" /\ d.prefs.status # "saved"
      BY <1>4, <2>1, <2>3 DEF Saves
    <3>2. CASE ~Current(d.tasks, w)
      BY <1>3, <1>7, <1>8, <2>1, <2>3, <3>1, <3>2 DEF Saves
    <3>3. CASE Current(d.tasks, w)
      <4>1. \A i \in DOMAIN t.worker : t.worker[i].scope # save
        <5> SUFFICES ASSUME NEW i \in DOMAIN t.worker, t.worker[i].scope = save PROVE FALSE
          OBVIOUS
        <5>1. i + 1 \in DOMAIN v /\ 1 < i + 1 /\ v[i + 1].op \in Nat /\ v[i + 1].scope = save
          BY <1>13
        <5>2. v[1].op < v[i + 1].op
          BY <1>4, <2>3, <5>1 DEF Sound, Told, Line
        <5>3. v[i + 1].op <= d.tasks.scope[save].op
          BY <5>1 DEF Sound, Told, Line
        <5> QED BY <1>4, <1>5, <1>6, <2>3, <3>3, <5>1, <5>2, <5>3
      <4>2. state = "success" => value = w.arg /\ b = w.arg BY <2>3
      <4>3. /\ t.scope[save].state = state /\ t.scope[save].value = value
            /\ t.scope[save].arg = w.arg /\ t.scope[save].arg = d.tasks.scope[save].arg
        BY <1>3, <1>6, <2>3, <3>3
      <4> QED BY <1>7, <1>8, <2>1, <3>1, <4>1, <4>2, <4>3 DEF Saves
    <3> QED BY <3>2, <3>3
  <2> QED BY <2>2, <2>3
<1> DEFINE write == "report.write"
<1>15. Writes(e, put, "start")
  <2>1. Writes(d, put, at) BY DEF Sound, Told
  <2>2. CASE w.scope # write
    <3>1. t.scope[write] = d.tasks.scope[write] /\ Keeps(d.tasks, t, write)
      BY <1>3, <2>2, MutationsKnown
    <3> QED BY <1>7, <1>8, <2>1, <3>1 DEF Writes, Keeps
  <2>3. CASE w.scope = write /\ ~Current(d.tasks, w)
    <3>1. t.scope[write] = d.tasks.scope[write] /\ Keeps(d.tasks, t, write)
      BY <1>3, <2>3
    <3> QED BY <1>7, <1>8, <2>1, <3>1 DEF Writes, Keeps
  <2>4. CASE w.scope = write /\ Current(d.tasks, w)
    <3>1. /\ t.scope[write].state = state /\ t.scope[write].value = value
          /\ t.scope[write].arg = w.arg /\ t.scope[write].arg = d.tasks.scope[write].arg
          /\ Noticed(t, write) /\ d.tasks.scope[write].state = "loading"
      BY <1>3, <1>6, <2>4
    <3>2. state = "success" => value = w.arg /\ w.arg \in put BY <2>4
    <3> QED BY <1>7, <1>8, <2>1, <3>1, <3>2 DEF Writes
  <2> QED BY <2>2, <2>3, <2>4
<1>16. Told(e, b, put, "start") BY <1>8, <1>12, <1>14, <1>15 DEF Sound, Told
<1> QED BY <1>7, <1>9, <1>10, <1>16 DEF Sound, e, t

\* Only the first mutation of the line is being written.
LEMMA StageIs ==
  ASSUME Inv
  PROVE  stage # "start" => Writing
BY DEF Inv, Sound, Told, Writes, WritesNow, Writing

LEMMA InvWorkerAnswers == ASSUME Inv, WorkerAnswers PROVE Inv'
<1> DEFINE w == Head(desk.tasks.worker)
<1>1. Sound(desk, active, written, stage) /\ desk \in Desks BY DEF Inv, Sound
<1>2. desk.tasks.worker # <<>> /\ w.scope # "report.write" BY DEF WorkerAnswers
<1>3. stage = "start" BY <1>2, StageIs DEF Writing
<1> PICK how \in {"success", "error", "cancelled"} :
       /\ desk' = [desk EXCEPT !.tasks = Answered(desk.tasks, how,
                                                  IF how = "success" THEN w.arg ELSE None)]
       /\ active' = IF how = "success" /\ w.scope = "configuration.save" THEN w.arg ELSE active
  BY DEF WorkerAnswers
<1> DEFINE value == IF how = "success" THEN w.arg ELSE None
<1>4. Sound(desk', active', written, "start")
  BY <1>1, <1>2, SoundAnswered
<1>5. active' \in Configs
  <2>1. desk.tasks \in Runners BY <1>1 DEF Desks
  <2>2. desk.tasks.worker \in Seq(Jobs) BY <2>1, RunnerHas
  <2>3. w \in Jobs BY <1>2, <2>2
  <2>4. w.scope = "configuration.save" => w.arg \in Configs BY <2>3 DEF Jobs, Arguments
  <2> QED BY <2>4 DEF Inv, TypeOK
<1>6. /\ setup' = setup /\ spent' = spent /\ destination' = destination
      /\ temporary' = temporary /\ stage' = stage /\ foreign' = foreign /\ written' = written
  BY DEF WorkerAnswers, exportVars
<1>7. TypeOK' BY <1>4, <1>5, <1>6 DEF Inv, TypeOK, Sound
<1> QED BY <1>3, <1>4, <1>6, <1>7 DEF Inv

LEMMA InvWorkerExported == ASSUME Inv, WorkerExported PROVE Inv'
<1> DEFINE w == Head(desk.tasks.worker)
           state == IF stage = "ok" THEN "success" ELSE "error"
           value == IF state = "success" THEN w.arg ELSE None
<1>1. Sound(desk, active, written, stage) /\ desk \in Desks BY DEF Inv, Sound
<1>2. desk.tasks.worker # <<>> /\ w.scope = "report.write" BY DEF WorkerExported, Writing
<1>3. desk' = [desk EXCEPT !.tasks = Answered(desk.tasks, state, value)]
  BY DEF WorkerExported
<1>4. state = "success" => w.arg \in written
  BY <1>1 DEF Sound, Told, Writes
<1>5. active = IF state = "success" /\ w.scope = "configuration.save" THEN w.arg ELSE active
  BY <1>2
<1>6. state \in {"success", "error", "cancelled"} OBVIOUS
<1>7. value = IF state = "success" THEN Head(desk.tasks.worker).arg ELSE None OBVIOUS
<1> HIDE DEF state, value
<1>8. Sound([desk EXCEPT !.tasks = Answered(desk.tasks, state, value)], active, written, "start")
  BY <1>1, <1>2, <1>4, <1>5, <1>6, <1>7, SoundAnswered
<1>9. /\ setup' = setup /\ spent' = spent /\ destination' = destination /\ active' = active
      /\ temporary' = "none" /\ stage' = "start" /\ foreign' = foreign /\ written' = written
  BY DEF WorkerExported
<1>10. TypeOK' BY <1>3, <1>8, <1>9 DEF Inv, TypeOK, Sound
<1> QED BY <1>3, <1>8, <1>9, <1>10 DEF Inv

\* A step of the export of w puts at most w at the destination, and that only with
\* leave to replace or where nothing is; what says that w is in place was there before.
LEMMA ExportStepIs ==
  ASSUME TypeOK, NEW w \in WriteRequests, ExportStep(w)
  PROVE  /\ destination' \in Foreign \cup [is : {"report"}, of : WriteRequests]
         /\ temporary' \in {"none", "partial", "complete"}
         /\ stage' \in {"start", "checked", "open", "complete", "commit", "committed", "synced",
                        "failed", "ok", "error"}
         /\ foreign' = foreign /\ written \subseteq written' /\ written' \subseteq WriteRequests
         /\ stage' \in {"committed", "synced", "ok"}
              => w \in written' \/ stage \in {"committed", "synced", "ok"}
         /\ destination' # destination
              => destination' = ReportFile(w) /\ (w.replace \/ destination = Absent)
<1>1. /\ destination \in Foreign \cup [is : {"report"}, of : WriteRequests]
      /\ temporary \in {"none", "partial", "complete"} /\ written \subseteq WriteRequests
  BY DEF TypeOK
<1>2. CASE Validate(w) BY <1>1, <1>2 DEF Validate
<1>3. CASE CreateTemporary BY <1>1, <1>3 DEF CreateTemporary
<1>4. CASE WriteTemporary BY <1>1, <1>4 DEF WriteTemporary
<1>5. CASE Revalidate(w) BY <1>1, <1>5 DEF Revalidate
<1>6. CASE Commit(w)
  <2>1. ReportFile(w) \in [is : {"report"}, of : WriteRequests] BY DEF ReportFile
  <2> QED BY <1>1, <1>6, <2>1 DEF Commit
<1>7. CASE SyncDirectory BY <1>1, <1>7 DEF SyncDirectory
<1>8. CASE CleanUp BY <1>1, <1>8 DEF CleanUp
<1> QED BY <1>2, <1>3, <1>4, <1>5, <1>6, <1>7, <1>8 DEF ExportStep

LEMMA WritingAsks ==
  ASSUME TypeOK, Writing
  PROVE  /\ Head(desk.tasks.worker).arg \in WriteRequests
         /\ Head(desk.tasks.worker) = desk.tasks.worker[1] /\ 1 \in DOMAIN desk.tasks.worker
<1>1. desk.tasks \in Runners BY DEF TypeOK, Desks
<1>2. desk.tasks.worker \in Seq(Jobs) BY <1>1, RunnerHas
<1>3. Head(desk.tasks.worker) \in Jobs BY <1>2 DEF Writing
<1> QED BY <1>2, <1>3 DEF Jobs, Arguments, Writing

LEMMA InvWorkerExports == ASSUME Inv, WorkerExports PROVE Inv'
<1> DEFINE w == Head(desk.tasks.worker).arg
<1>1. Sound(desk, active, written, stage) /\ TypeOK BY DEF Inv
<1>2. Writing /\ ExportStep(w) BY DEF WorkerExports
<1>3. w \in WriteRequests BY <1>1, <1>2, WritingAsks
<1>4. /\ destination' \in Foreign \cup [is : {"report"}, of : WriteRequests]
      /\ temporary' \in {"none", "partial", "complete"}
      /\ stage' \in {"start", "checked", "open", "complete", "commit", "committed", "synced",
                     "failed", "ok", "error"}
      /\ foreign' = foreign /\ written \subseteq written' /\ written' \subseteq WriteRequests
      /\ stage' \in {"committed", "synced", "ok"}
           => w \in written' \/ stage \in {"committed", "synced", "ok"}
  <2> HIDE DEF w
  <2> QED BY <1>1, <1>2, <1>3, ExportStepIs
<1>5. /\ setup' = setup /\ spent' = spent /\ desk' = desk /\ active' = active
  BY DEF WorkerExports
<1>6. Writes(desk, written', stage')
  BY <1>1, <1>2, <1>4 DEF Sound, Told, Writes, WritesNow, Writing
<1>7. desk.told \subseteq {x.session : x \in written'} BY <1>1, <1>4 DEF Sound, Told
<1>8. Sound(desk, active, written', stage') BY <1>1, <1>6, <1>7 DEF Sound, Told
<1>9. TypeOK' BY <1>1, <1>4, <1>5 DEF TypeOK
<1> QED BY <1>5, <1>8, <1>9 DEF Inv

LEMMA InvInterference == ASSUME Inv, Interference PROVE Inv'
<1>1. /\ setup' = setup /\ spent' = spent /\ desk' = desk /\ active' = active
      /\ foreign' = foreign + 1 /\ destination' \in Foreign
      /\ temporary' = temporary /\ stage' = stage /\ written' = written
  BY DEF Interference, OtherProcess
<1>2. foreign' \in Nat BY <1>1 DEF Inv, TypeOK
<1>3. TypeOK' BY <1>1, <1>2 DEF Inv, TypeOK
<1> QED BY <1>1, <1>3 DEF Inv

LEMMA InvInit == ASSUME Init PROVE Inv
<1> DEFINE t0 == NewRunner(Scopes)
           load == "configuration.load"
           t == Started(t0, load, None)
           page == NewPage
           header == Header("ready")
           lists == [l \in Lists |-> FALSE]
           prefs == [config |-> DefaultConfig, loaded |-> FALSE,
                     texts |-> DefaultConfig.language, initial |-> DefaultConfig,
                     form |-> DefaultConfig, status |-> "stored", enabled |-> FALSE,
                     instance |-> 1, done |-> None, late |-> FALSE]
<1>1. desk = [tasks |-> t, screen |-> "diagnose", page |-> page, header |-> header,
              last |-> None, pending |-> None, dialogs |-> {}, session |-> 0,
              lists |-> lists, prefs |-> prefs,
              events |-> 0, closing |-> FALSE, refused |-> FALSE, ran |-> None,
              told |-> {}, consented |-> {}]
  BY DEF Init, Scopes
<1>2. t0 \in Runners
  <2>1. Unused \in Snapshots /\ Unused.state = "idle"
    BY DEF Unused, Snapshots, States, Anything
  <2>2. [s \in Scopes |-> Unused] \in [Scopes -> Snapshots] BY <2>1
  <2>3. t0 = [scope |-> [s \in Scopes |-> Unused], inbox |-> <<>>, worker |-> <<>>,
              closed |-> FALSE]
    BY DEF NewRunner
  <2>4. <<>> \in Seq(Notices) /\ <<>> \in Seq(Jobs) OBVIOUS
  <2>5. \A s \in Scopes : t0.scope[s].state = "idle" BY <2>1, <2>3
  <2> HIDE DEF t0
  <2> QED BY <2>2, <2>3, <2>4, <2>5 DEF Runners
<1>3. t0.worker = <<>> /\ \A s \in Scopes : t0.scope[s] = Unused BY DEF NewRunner
<1>4. load \in Scopes /\ None \in Arguments(load) /\ load \notin Mutations /\ load # "diagnose"
  BY DEF Scopes, Reads, Arguments, Mutations
<1> HIDE DEF t0
<1>5. t \in Runners /\ t.worker = <<>> /\ \A x \in Scopes \ {load} : t.scope[x] = Unused
  BY <1>2, <1>3, <1>4, StartedIs
<1>6. page \in Pages /\ ~page.running /\ page.shows = "idle" /\ page.timeline = {}
  BY DEF NewPage, Pages, States, Subjects
<1>7. /\ header \in [{"diagnose", "secondary"} -> Statements]
      /\ \A h \in DOMAIN header : header[h].is = "ready"
  BY HeadersAre, HeadersSay
<1>8. prefs \in Preferences BY ConfigsAssumption DEF Preferences
<1>9. prefs.status = "stored" /\ prefs.done = None /\ Fields(prefs) BY DEF Fields
<1>10. lists \in [Lists -> BOOLEAN] OBVIOUS
<1>11. "diagnose" \in Screens BY DEF Screens, OwnedBy
<1> HIDE DEF t, page, header, lists, prefs
<1>12. desk \in Desks BY <1>1, <1>5, <1>6, <1>7, <1>8, <1>10, <1>11 DEF Desks
<1>13. /\ desk.tasks = t /\ desk.page = page /\ desk.header = header /\ desk.last = None
       /\ desk.pending = None /\ desk.session = 0 /\ desk.prefs = prefs /\ ~desk.closing
       /\ ~desk.refused /\ desk.ran = None /\ desk.told = {}
  BY <1>1
<1>14. /\ setup \in Setups /\ spent = 0 /\ active = setup.active /\ stage = "start"
       /\ destination \in {Absent, [is |-> "theirs"]} /\ temporary = "none"
       /\ foreign = 0 /\ written = {}
  BY DEF Init, ExportInit
<1>15. TypeOK BY <1>12, <1>14, ConfigsAssumption DEF TypeOK, Foreign, Absent
<1>16. Runs(desk) BY <1>13 DEF Runs
<1>17. \A x \in {"diagnose", "configuration.save", "report.write"} :
         t.scope[x].state = "idle"
  BY <1>4, <1>5, MutationsKnown DEF Unused
<1>18. Story(desk) BY <1>6, <1>7, <1>13, <1>17 DEF Story, OneStory
<1>19. Told(desk, active, written, stage)
  <2>1. Line(desk) BY <1>5, <1>13 DEF Line
  <2>2. Saves(desk, active) BY <1>9, <1>13, <1>17 DEF Saves
  <2>3. Writes(desk, written, stage) BY <1>13, <1>14, <1>17 DEF Writes
  <2> QED BY <1>13, <2>1, <2>2, <2>3 DEF Told
<1> QED BY <1>12, <1>15, <1>16, <1>18, <1>19 DEF Inv, Sound

LEMMA InvNext == ASSUME Inv, [Next]_vars PROVE Inv'
<1>1. CASE UNCHANGED vars
  <2>1. TypeOK' BY <1>1 DEF Inv, TypeOK, vars, exportVars
  <2> QED BY <1>1, <2>1 DEF Inv, vars, exportVars
<1>2. CASE User
  BY <1>2, InvRun, InvCancelDiagnostic, InvPressSave, InvExportLast, InvCloseWindow,
     InvEditTarget, InvRunProfile, InvNavigate, InvReadHistory, InvMutate, InvEditSettings,
     InvAnswerDialog
     DEF User
<1>3. CASE Background
  BY <1>3, InvReadReturns, InvWorkerTakes, InvWorkerAnswers, InvWorkerExports,
     InvWorkerExported, InvObserve
     DEF Background
<1>4. CASE RunEmits BY <1>4, InvRunEmits
<1>5. CASE Interference BY <1>5, InvInterference
<1> QED BY <1>1, <1>2, <1>3, <1>4, <1>5 DEF Next

\* The invariant holds in every state: the controller does what Inv says of it.
THEOREM InvHolds == Spec => []Inv
<1>1. Init => Inv BY InvInit
<1>2. Inv /\ [Next]_vars => Inv' BY InvNext
<1> QED BY <1>1, <1>2, PTL DEF Spec

\* The state keeps its types, the desk with its runner, screens, dialogs and settings
\* included.
THEOREM TypeCorrect == Spec => []TypeOK
<1>1. Inv => TypeOK BY DEF Inv
<1> QED BY <1>1, InvHolds, PTL

\* RunsWhatTheFormShows: a run diagnoses what the form shows, unless the profile chosen
\* last was not run (SetPendingProfile, startProfile, Invalidate).
THEOREM RunsAsShown == Spec => []RunsWhatTheFormShows
<1>1. Inv => RunsWhatTheFormShows BY DEF Inv, Sound, Runs, RunsWhatTheFormShows
<1> QED BY <1>1, InvHolds, PTL

\* PageTellsOneStory: headers, summary, timeline and Run button of the Diagnose screen
\* speak of one diagnosis, but for what a refused profile leaves in a header
\* (observeDiagnosis, handleEvent, presentHistoricalDiagnosis).
THEOREM OneStoryIsTold == Spec => []PageTellsOneStory
<1>1. Inv => PageTellsOneStory
  <2>1. Busy <=> Engaged(desk) BY DEF Busy, Engaged, Noticed
  <2> QED BY <2>1 DEF Inv, Sound, Story, OneStory, PageTellsOneStory
<1> QED BY <1>1, InvHolds, PTL

\* ToldIsTrue: an export shown as saved was written, one that was written is shown, and
\* a page that says saved has the active configuration for its baseline and, if its
\* fields were not edited after Save was pressed, in its fields (observeReportWrite,
\* startSettingsSave, observeSettings).
THEOREM WhatIsToldIsTrue == Spec => []ToldIsTrue
<1>1. Inv => ToldIsTrue
  <2> SUFFICES ASSUME Inv PROVE ToldIsTrue OBVIOUS
  <2> DEFINE write == desk.tasks.scope["report.write"]
  <2>1. Saves(desk, active) /\ Writes(desk, written, stage)
        /\ desk.told \subseteq {w.session : w \in written}
    BY DEF Inv, Sound, Told
  <2>2. desk.prefs.status = "saved" =>
          desk.prefs.initial = active /\ (desk.prefs.late \/ desk.prefs.form = active)
    BY <2>1 DEF Saves, Fields
  <2>3. ASSUME Quiet, write.state = "success", SessionCurrent(desk, write.value.session)
        PROVE  write.value.session \in desk.told
    <3>1. desk.session \in Nat BY DEF Inv, TypeOK, Desks
    <3>2. ~Noticed(desk.tasks, "report.write") BY <2>3 DEF Quiet, Noticed
    <3> QED BY <2>1, <2>3, <3>1, <3>2 DEF Writes, SessionCurrent
  <2> QED BY <2>1, <2>2, <2>3 DEF ToldIsTrue
<1> QED BY <1>1, InvHolds, PTL

\* ReplaceNeedsConsent: a report takes the place of a file only for an export whose user
\* agreed, whatever another process does (writeReport, writeFileWithPolicy).
THEOREM ReplacesWithConsent == Spec => ReplaceNeedsConsent
<1> DEFINE Replaces == destination' # destination /\ destination'.is = "report" /\ Occupied
                         => destination'.of.session \in desk.consented
<1>1. Inv /\ [Next]_vars => [Replaces]_vars
  <2> SUFFICES ASSUME Inv, Next, destination' # destination, destination'.is = "report",
                      Occupied
               PROVE  destination'.of.session \in desk.consented
    BY DEF vars
  <2>1. CASE WorkerExports
    <3> DEFINE w == Head(desk.tasks.worker).arg
    <3>1. TypeOK /\ Writing /\ ExportStep(w) BY <2>1 DEF WorkerExports, Inv
    <3>2. w \in WriteRequests /\ Head(desk.tasks.worker) = desk.tasks.worker[1]
          /\ 1 \in DOMAIN desk.tasks.worker
      BY <3>1, WritingAsks
    <3>3. destination' = ReportFile(w) /\ (w.replace \/ destination = Absent)
      <4> HIDE DEF w
      <4> QED BY <3>1, <3>2, ExportStepIs
    <3>4. w.replace BY <3>3 DEF Occupied, Absent
    <3>5. w.session \in desk.consented
      BY <3>1, <3>2, <3>4 DEF Inv, Sound, Told, Line, Writing
    <3> QED BY <3>3, <3>5 DEF ReportFile
  <2>2. CASE Interference
    <3>1. destination' \in Foreign BY <2>2 DEF Interference, OtherProcess
    <3> QED BY <3>1 DEF Foreign
  <2>3. CASE User
    <3>1. UNCHANGED exportVars
      BY <2>3 DEF User, Run, CancelDiagnostic, PressSave, ExportLast, CloseWindow, EditTarget,
         RunProfile, Navigate, ReadHistory, Mutate, EditSettings, AnswerDialog, Command
    <3> QED BY <3>1 DEF exportVars
  <2>4. CASE RunEmits \/ WorkerTakes \/ WorkerAnswers \/ Observe
    BY <2>4 DEF RunEmits, WorkerTakes, WorkerAnswers, Observe, exportVars
  <2>5. CASE WorkerExported BY <2>5 DEF WorkerExported
  <2>6. ASSUME NEW s \in Reads, ReadReturns(s) PROVE FALSE
    BY <2>6 DEF ReadReturns, exportVars
  <2> QED BY <2>1, <2>2, <2>3, <2>4, <2>5, <2>6 DEF Next, Background
<1> QED BY <1>1, InvHolds, PTL DEF Spec, ReplaceNeedsConsent
=============================================================================
