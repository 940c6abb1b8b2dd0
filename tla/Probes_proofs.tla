---------------------------- MODULE Probes_proofs ----------------------------
(***************************************************************************)
(* Proofs about the direct checks, for every network, every list of        *)
(* addresses, every limit and every number of workers.                     *)
(*                                                                         *)
(* First that no attempt outlives its check.  Then, from the invariant of  *)
(* a check at work, what the checks return.                                *)
(***************************************************************************)
EXTENDS Probes, FiniteSetTheorems, WellFoundedInduction, TLAPS

\* Between checks, and while names are looked up, there is no attempt.
IdleBetween == phase \in {"enter", "lookup"} => slots = <<>> /\ received = {}

\* In the race the first next addresses have been started, and what the check
\* has received are outcomes of attempts that have ended.
RaceInOrder ==
  phase = "race" =>
    /\ next \in Nat
    /\ \A i \in DOMAIN slots : slots[i] # "queued" => i \in 1 .. next
    /\ received \subseteq DOMAIN slots
    /\ \A i \in received : slots[i] \in Ended

\* The inductive invariant.
IInv == IdleBetween /\ RaceInOrder

-----------------------------------------------------------------------------

\* An attempt ends in one of the ways an attempt can end.
LEMMA AttemptsEndEnded == \A a : EndsOf(a) \subseteq Ended
  <1> SUFFICES ASSUME NEW a PROVE EndsOf(a) \subseteq Ended
    OBVIOUS
  <1>1. Natural(a) \in Ended
    BY DEF Natural, Ended, Failures, Successes
  <1> QED
    BY <1>1 DEF EndsOf, Ended, Failures, Successes

\* Whatever goes back to the engine, and whatever leaves the race, keeps IInv.
LEMMA Elsewhere ==
  ASSUME \/ phase' = "enter" /\ slots' = <<>> /\ received' = {}
         \/ phase' \notin {"enter", "lookup", "race"}
  PROVE  IInv'
  BY DEF IInv, IdleBetween, RaceInOrder

\* StartAnother keeps the order of the race, together with an outcome that has
\* just been received, if any.
LEMMA StartsInOrder ==
  ASSUME IInv, StartAnother, phase = "race", phase' = "race",
         NEW R \in SUBSET Arrived, received' = received \cup R
  PROVE  IInv'
  <1> DEFINE tried == {i \in DOMAIN slots : slots[i] # "queued"}
  <1>1. received' \subseteq DOMAIN slots /\ \A i \in received' : slots[i] \in Ended
    BY DEF IInv, RaceInOrder, Arrived
  <1>2. received' \subseteq tried
    BY <1>1 DEF Ended, Failures, Successes
  <1>3. next \in Nat /\ tried \subseteq 1 .. next
    BY DEF IInv, RaceInOrder
  <1>4. CASE next < Len(queue)
    <2>1. next' = next + 1 /\ slots' = [slots EXCEPT ![next + 1] = "running"]
      BY <1>4 DEF StartAnother
    <2>2. DOMAIN slots' = DOMAIN slots /\ \A i \in DOMAIN slots : i # next + 1 => slots'[i] = slots[i]
      BY <2>1
    <2>3. next' \in Nat /\ \A i \in DOMAIN slots' : slots'[i] # "queued" => i \in 1 .. next'
      BY <1>3, <2>1, <2>2
    <2>4. next + 1 \notin received'
      BY <1>2, <1>3
    <2>5. received' \subseteq DOMAIN slots' /\ \A i \in received' : slots'[i] \in Ended
      BY <1>1, <2>2, <2>4
    <2> QED
      BY <2>3, <2>5 DEF IInv, IdleBetween, RaceInOrder
  <1>5. CASE ~(next < Len(queue))
    BY <1>1, <1>5 DEF StartAnother, IInv, IdleBetween, RaceInOrder
  <1> QED
    BY <1>4, <1>5

LEMMA IInvInit == Init => IInv
  BY DEF Init, IInv, IdleBetween, RaceInOrder

LEMMA IInvStep == IInv /\ [Next]_vars => IInv'
  <1> SUFFICES ASSUME IInv, [Next]_vars PROVE IInv'
    OBVIOUS
  <1> USE DEF pool, race
  <1>1. ASSUME UNCHANGED <<phase, slots, next, received>> PROVE IInv'
    BY <1>1 DEF IInv, IdleBetween, RaceInOrder
  <1>2. ASSUME NEW v, Returns(v) PROVE IInv'
    BY <1>2, Elsewhere DEF Returns
  <1>3. ASSUME NEW s, StartPool(s) PROVE IInv'
    BY <1>3, Elsewhere DEF StartPool, Offering
  <1>4. CASE StopCheck \/ Terminated \/ CheckExpires \/ \E e \in {"cancelled", "deadline"} : RunEnds(e)
    BY <1>1, <1>4 DEF StopCheck, Terminated, CheckExpires, RunEnds, vars
  <1>5. ASSUME NEW f \in Families, NEW e \in LookupEnd, LookupEnds(f, e) PROVE IInv'
    BY <1>1, <1>5 DEF LookupEnds
  <1>6. ASSUME NEW i \in DOMAIN slots, AttemptEnds(i) PROVE IInv'
    <2>1. PICK e \in EndsOf(queue[i]) : slots' = [slots EXCEPT ![i] = e]
      BY <1>6 DEF AttemptEnds
    <2>2. e \in Ended
      BY <2>1, AttemptsEndEnded
    <2>3. IdleBetween'
      BY <1>6 DEF AttemptEnds, IInv, IdleBetween
    <2>4. slots[i] = "running" /\ UNCHANGED <<phase, next, received>>
      BY <1>6 DEF AttemptEnds
    <2>5. RaceInOrder'
      BY <2>1, <2>2, <2>4 DEF IInv, RaceInOrder, Ended, Failures, Successes
    <2> QED
      BY <2>3, <2>5 DEF IInv
  <1>7. CASE TimerFires
    <2>1. /\ StartAnother /\ phase = "race" /\ phase' = "race"
          /\ {} \in SUBSET Arrived /\ received' = received \cup {}
      BY <1>7 DEF TimerFires, Undecided
    <2> QED
      BY <2>1, StartsInOrder
  <1>8. CASE Progress
    <2>1. CASE EnterLiteral \/ DNSReturns \/ RouteReturns \/ MatrixReturns \/ RaceReturns \/ TLSReturns
      BY <1>2, <2>1 DEF EnterLiteral, DNSReturns, RouteReturns, MatrixReturns, RaceReturns, TLSReturns, TCPReturns
    <2>2. CASE EnterDNS
      BY <2>2 DEF EnterDNS, Entering, IInv, IdleBetween, RaceInOrder
    <2>3. CASE EnterRoute
      BY <1>2, <1>3, <2>3 DEF EnterRoute
    <2>4. CASE EnterTLS
      BY <1>2, <1>3, <2>4 DEF EnterTLS
    <2>5. CASE EnterTCP
      <3>1. CASE Dialled = <<>>
        BY <1>2, <2>5, <3>1 DEF EnterTCP
      <3>2. CASE Dialled # <<>> /\ setup.mode = "matrix"
        BY <1>3, <2>5, <3>2 DEF EnterTCP
      <3>3. CASE Dialled # <<>> /\ setup.mode # "matrix"
        <4>1. /\ slots' = [i \in DOMAIN Dialled |-> IF i = 1 THEN "running" ELSE "queued"]
              /\ next' = 1 /\ phase' = "race" /\ received' = received
          BY <2>5, <3>3 DEF EnterTCP
        <4>2. received = {}
          BY <2>5 DEF EnterTCP, Entering, IInv, IdleBetween
        <4> QED
          BY <4>1, <4>2 DEF IInv, IdleBetween, RaceInOrder
      <3> QED
        BY <3>1, <3>2, <3>3
    <2>6. CASE SenderChecks \/ SenderHandsOver \/ SenderStops \/ RaceStops
      BY <2>6, Elsewhere DEF SenderChecks, SenderHandsOver, SenderStops, RaceStops, Offering
    <2>7. ASSUME NEW i \in DOMAIN slots, ReceiveWinner(i) PROVE IInv'
      BY <2>7, Elsewhere DEF ReceiveWinner
    <2>8. ASSUME NEW i \in DOMAIN slots, ReceiveLoser(i) PROVE IInv'
      <3>1. /\ StartAnother /\ phase = "race" /\ phase' = "race"
            /\ {i} \in SUBSET Arrived /\ received' = received \cup {i}
        BY <2>8 DEF ReceiveLoser, Undecided
      <3> QED
        BY <3>1, StartsInOrder
    <2>9. CASE StopCheck
      BY <1>4, <2>9
    <2> QED
      BY <1>8, <2>1, <2>2, <2>3, <2>4, <2>5, <2>6, <2>7, <2>8, <2>9 DEF Progress
  <1>9. CASE UNCHANGED vars
    BY <1>1, <1>9 DEF vars
  <1> QED
    BY <1>4, <1>5, <1>6, <1>7, <1>8, <1>9 DEF Next

-----------------------------------------------------------------------------

\* When the race has received as many outcomes as it has started attempts, every
\* attempt it started has ended.
LEMMA RaceIsOver ==
  ASSUME IInv, phase = "race", Cardinality(received) = next
  PROVE  Running = {}
  <1>1. /\ next \in Nat
        /\ \A i \in DOMAIN slots : slots[i] # "queued" => i \in 1 .. next
        /\ received \subseteq DOMAIN slots /\ \A i \in received : slots[i] \in Ended
    BY DEF IInv, RaceInOrder
  <1>2. received \subseteq 1 .. next
    BY <1>1 DEF Ended, Failures, Successes
  <1>3. IsFiniteSet(1 .. next) /\ Cardinality(1 .. next) = next
    BY <1>1, FS_Interval
  <1>4. received = 1 .. next
    BY <1>2, <1>3, FS_Subset
  <1> QED
    BY <1>1, <1>4 DEF Running, Ended, Failures, Successes

\* A check that returns leaves nothing running.
LEMMA ReturnsIdle == IInv /\ [Next]_vars => (stage' # stage => Running = {})
  <1> SUFFICES ASSUME IInv, [Next]_vars, stage' # stage PROVE Running = {}
    OBVIOUS
  <1> USE DEF pool, race
  <1>1. ASSUME phase \in {"enter", "lookup"} PROVE Running = {}
    BY <1>1 DEF IInv, IdleBetween, Running
  <1>2. CASE StopCheck \/ EnterLiteral \/ EnterRoute \/ EnterTCP \/ EnterTLS \/ DNSReturns
    BY <1>1, <1>2 DEF StopCheck, EnterLiteral, EnterRoute, EnterTCP, EnterTLS, DNSReturns, Entering
  <1>3. CASE RouteReturns \/ MatrixReturns \/ TLSReturns
    BY <1>3 DEF RouteReturns, MatrixReturns, TLSReturns, PoolIsDone
  <1>4. CASE RaceReturns
    BY <1>4, RaceIsOver DEF RaceReturns
  <1>5. CASE EnterDNS \/ SenderChecks \/ SenderHandsOver \/ SenderStops \/ RaceStops \/ TimerFires
              \/ Terminated \/ CheckExpires \/ UNCHANGED vars
    BY <1>5 DEF EnterDNS, SenderChecks, SenderHandsOver, SenderStops, RaceStops, TimerFires,
                Terminated, CheckExpires, vars
  <1>6. CASE \/ \E e \in {"cancelled", "deadline"} : RunEnds(e)
             \/ \E f \in Families, e \in LookupEnd : LookupEnds(f, e)
             \/ \E i \in DOMAIN slots : AttemptEnds(i) \/ ReceiveWinner(i) \/ ReceiveLoser(i)
    BY <1>6 DEF RunEnds, LookupEnds, AttemptEnds, ReceiveWinner, ReceiveLoser
  <1> QED
    BY <1>2, <1>3, <1>4, <1>5, <1>6 DEF Next, Progress

\* For every network, every list of addresses and every number of workers: when
\* a check returns, every goroutine it started is done.
THEOREM NoGoroutineOutlives == Spec => NothingRunsBehind
  <1>1. Spec => []IInv
    BY IInvInit, IInvStep, PTL DEF Spec
  <1>2. IInv /\ [Next]_vars => [stage' # stage => Running = {}]_vars
    BY ReturnsIdle
  <1> QED
    BY <1>1, <1>2, PTL DEF Spec, NothingRunsBehind

-----------------------------------------------------------------------------
(* Lists, and the invariant of a check at work.                            *)

\* The list a check probes.
Listed == IF stage = "route" THEN Selection
          ELSE IF stage = "tcp" THEN Dialled
          ELSE [k \in DOMAIN Candidates |-> Candidates[k].ip]

\* A pool or a race is that of its check, over the check's list.
Placed ==
  /\ phase = "lookup" => stage = "dns"
  /\ phase \in {"check", "select", "closed"} =>
       stage \in {"route", "tls"} \/ (stage = "tcp" /\ setup.mode = "matrix")
  /\ phase \in {"race", "won", "stopped"} => stage = "tcp" /\ setup.mode = "client"
  /\ IF phase \in {"enter", "lookup"}
       THEN queue = <<>> /\ slots = <<>> /\ next = 0 /\ received = {} /\ winner = 0
       ELSE queue # <<>> /\ queue = Listed

\* Addresses are started in their order, and a pool that was closed in time has
\* started all of them.
Ordered ==
  /\ \A i \in DOMAIN slots : slots[i] = "queued" <=> i > next
  /\ phase \in {"check", "select"} => next < Len(queue)
  /\ phase = "closed" /\ ctx = "live" => next = Len(queue)

\* Each loser received has started another address, as long as there was one.
Raced ==
  /\ phase = "race" =>
       /\ next >= 1 /\ winner = 0
       /\ \A i \in received : slots[i] \in Failures
       /\ next = Len(queue) \/ Cardinality(received) < next
  /\ phase = "won" => winner \in 1 .. next /\ slots[winner] = "success"
  /\ phase = "stopped" => winner = 0
  /\ phase \in {"check", "select", "closed"} => winner = 0

Accepts(ip) == setup.net[ip].tcp = "accepts"

\* How an attempt can have ended says what the address answers.
Answered ==
  /\ stage = "tcp" =>
       \A i \in DOMAIN slots : slots[i] # "expiring" /\ (slots[i] = "success" => Accepts(queue[i]))
  /\ stage = "tls" =>
       \A i \in DOMAIN slots : slots[i] = "success" =>
         Accepts(queue[i]) /\ (setup.insecure \/ setup.net[queue[i]].tls = "trusted")

\* The invariant of a check at work.
Work == TypeOK /\ Placed /\ Ordered /\ Raced /\ Answered

\* Checks come in their order, each with its results.
Upcoming == IF stage = "dns" THEN Checks
            ELSE IF stage = "route" THEN {"route", "tcp", "tls"}
            ELSE IF stage = "tcp" THEN {"tcp", "tls"}
            ELSE IF stage = "tls" THEN {"tls"} ELSE {}
Pending ==
  /\ \A s \in Upcoming : verdict[s] = "none"
  /\ "route" \in Upcoming => routes = <<>>
  /\ "tcp" \in Upcoming => tcp = <<>>
  /\ "tls" \in Upcoming => tls = <<>>

\* Among numbers there is a least one.
LEMMA Least ==
  ASSUME NEW T \in SUBSET Nat, T # {}
  PROVE  \E k \in T : \A j \in T : k <= j
<1> DEFINE R == OpToRel(<, Nat)
<1>1. IsWellFoundedOn(R, Nat) BY NatLessThanWellFounded
<1>2. \E x \in T : \A y \in T : ~(<<y, x>> \in R) BY <1>1, WFMin
<1>3. PICK k \in T : \A y \in T : ~(<<y, k>> \in R) BY <1>2
<1>4. ASSUME NEW y \in T PROVE k <= y
  <2>1. y \in Nat /\ k \in Nat OBVIOUS
  <2>2. ~(y < k) BY <1>3, <2>1 DEF OpToRel
  <2> QED BY <2>1, <2>2
<1> QED BY <1>4

LEMMA SequenceIs ==
  ASSUME NEW S, NEW s \in Seq(S)
  PROVE  /\ Len(s) \in Nat /\ DOMAIN s = 1 .. Len(s) /\ \A i \in DOMAIN s : s[i] \in S
         /\ s # <<>> => Len(s) >= 1
<1>1. Len(s) \in Nat /\ s \in [1 .. Len(s) -> S] OBVIOUS
<1>2. Len(s) = 0 => s = <<>> OBVIOUS
<1> QED BY <1>1, <1>2

LEMMA FunctionIsSequence ==
  ASSUME NEW n \in Nat, NEW S, NEW s \in [1 .. n -> S]
  PROVE  s \in Seq(S) /\ Len(s) = n
OBVIOUS

LEMMA Wider ==
  ASSUME NEW S, NEW T, S \subseteq T, NEW s \in Seq(S)
  PROVE  s \in Seq(T)
<1>1. Len(s) \in Nat /\ s \in [1 .. Len(s) -> T] BY SequenceIs
<1> QED BY <1>1

\* The bound of a selection cuts a list and empties none.
LEMMA Cut ==
  ASSUME NEW S, NEW s \in Seq(S), NEW m \in Nat
  PROVE  LET t == SubSeq(s, 1, IF m < Len(s) THEN m ELSE Len(s)) IN
         /\ t \in Seq(S)
         /\ \A i \in DOMAIN t : i \in DOMAIN s /\ t[i] = s[i]
         /\ m >= 1 => (t = <<>> <=> s = <<>>)
<1> DEFINE e == IF m < Len(s) THEN m ELSE Len(s)
           t == SubSeq(s, 1, e)
<1>1. e \in Nat /\ e <= Len(s) /\ Len(s) \in Nat OBVIOUS
<1> HIDE DEF e
<1>2. t \in Seq(S) /\ Len(t) = e /\ \A i \in 1 .. e : t[i] = s[i] BY <1>1
<1>3. DOMAIN t = 1 .. e BY <1>2
<1>4. \A i \in DOMAIN t : i \in DOMAIN s /\ t[i] = s[i] BY <1>1, <1>2, <1>3
<1>5. t = <<>> <=> e = 0 BY <1>1, <1>2
<1>6. s = <<>> <=> Len(s) = 0 OBVIOUS
<1>7. m >= 1 => (e = 0 <=> Len(s) = 0) BY <1>1 DEF e
<1> QED BY <1>2, <1>4, <1>5, <1>6, <1>7 DEF e

LEMMA Concatenated ==
  ASSUME NEW S, NEW s \in Seq(S), NEW t \in Seq(S)
  PROVE  s \o t \in Seq(S) /\ (s \o t = <<>> <=> s = <<>> /\ t = <<>>)
OBVIOUS

LEMMA SetupIs ==
  ASSUME TypeOK
  PROVE  /\ setup.mode \in {"client", "matrix"} /\ setup.limit \in Nat /\ setup.limit >= 1
         /\ setup.connect \in IP \cup {NoIP} /\ setup.literal \in IP \cup {NoIP}
         /\ setup.version \in {"auto", "4", "6"}
         /\ \A f \in Families : setup.names[f] \in Seq(IP)
         /\ setup.net \in [IP -> Servers]
         /\ Bound \in Nat /\ Bound >= 1
<1>1. setup \in Setups BY DEF TypeOK
<1>2. /\ setup.mode \in {"client", "matrix"} /\ setup.limit \in 1 .. 16
      /\ setup.connect \in IP \cup {NoIP} /\ setup.literal \in IP \cup {NoIP}
      /\ setup.version \in {"auto", "4", "6"} /\ setup.net \in [IP -> Servers]
      /\ setup.names.ip4 \in Seq(IP4) /\ setup.names.ip6 \in Seq(IP6)
  BY <1>1, SetupsAssumption
<1>3. setup.names.ip4 \in Seq(IP) /\ setup.names.ip6 \in Seq(IP)
  BY <1>2, Wider DEF IP
<1>4. setup.limit \in Nat /\ setup.limit >= 1 BY <1>2
<1>5. \A f \in Families : setup.names[f] \in Seq(IP) BY <1>3 DEF Families
<1>6. Bound \in Nat /\ Bound >= 1 BY <1>4 DEF Bound
<1> QED BY <1>2, <1>4, <1>5, <1>6

LEMMA BoundedIs ==
  ASSUME TypeOK, NEW s \in Seq(IP)
  PROVE  Bounded(s) \in Seq(IP) /\ (Bounded(s) = <<>> <=> s = <<>>)
<1>1. Bound \in Nat /\ Bound >= 1 BY SetupIs
<1> QED BY <1>1, Cut DEF Bounded

\* What route and TCP probe; route finds nothing exactly when no family that was
\* asked for has an address.
LEMMA ListsAre ==
  ASSUME TypeOK
  PROVE  /\ Selection \in Seq(IP) /\ Dialled \in Seq(IP)
         /\ setup.connect = NoIP =>
              (Selection = <<>> <=> \A f \in Requested : resolved[f] = <<>>)
<1>1. resolved.ip4 \in Seq(IP) /\ resolved.ip6 \in Seq(IP) BY DEF TypeOK, Families
<1>2. <<>> \in Seq(IP) OBVIOUS
<1> DEFINE s4 == IF "ip4" \in Requested THEN resolved.ip4 ELSE <<>>
           s6 == IF "ip6" \in Requested THEN resolved.ip6 ELSE <<>>
<1>3. s4 \in Seq(IP) /\ s6 \in Seq(IP) BY <1>1, <1>2
<1>4. Requested \subseteq {"ip4", "ip6"} BY DEF Requested, Families
<1>5. (s4 = <<>> /\ s6 = <<>>) <=> \A f \in Requested : resolved[f] = <<>> BY <1>4
<1>6. setup.connect # NoIP => Selection = <<setup.connect>> /\ Dialled = <<setup.connect>>
  BY DEF Selection, Dialled
<1>7. setup.connect = NoIP => Selection = Bounded(s4 \o s6)
                              /\ Dialled = Bounded(resolved.ip4 \o resolved.ip6)
  BY DEF Selection, Dialled
<1> HIDE DEF s4, s6
<1>8. /\ s4 \o s6 \in Seq(IP) /\ resolved.ip4 \o resolved.ip6 \in Seq(IP)
      /\ s4 \o s6 = <<>> <=> (s4 = <<>> /\ s6 = <<>>)
  BY <1>1, <1>3, Concatenated
<1>9. CASE setup.connect = NoIP BY <1>5, <1>7, <1>8, <1>9, BoundedIs
<1>10. CASE setup.connect # NoIP
  <2>1. setup.connect \in IP BY <1>10, SetupIs
  <2>2. <<setup.connect>> \in Seq(IP) BY <2>1
  <2> QED BY <1>6, <1>10, <2>2
<1> QED BY <1>9, <1>10

\* What TLS probes: a beginning of the list of TCP in the matrix, one of its
\* successes otherwise, the selected one if there is one.
LEMMA MatrixCandidates ==
  ASSUME TypeOK, setup.mode = "matrix"
  PROVE  /\ Candidates \in Seq(Attempt)
         /\ \A k \in DOMAIN Candidates : k \in DOMAIN tcp /\ Candidates[k] = tcp[k]
<1> DEFINE limit == IF Len(tcp) < setup.limit THEN Len(tcp) ELSE setup.limit
           e == IF setup.limit < Len(tcp) THEN setup.limit ELSE Len(tcp)
<1>1. tcp \in Seq(Attempt) /\ setup.limit \in Nat /\ Len(tcp) \in Nat BY SetupIs DEF TypeOK
<1>2. limit = e BY <1>1
<1>3. Candidates = SubSeq(tcp, 1, limit) BY DEF Candidates
<1> HIDE DEF limit
<1>4. Candidates = SubSeq(tcp, 1, e) BY <1>2, <1>3
<1> QED BY <1>1, <1>4, Cut

LEMMA ClientCandidate ==
  ASSUME TypeOK, setup.mode # "matrix", Candidates # <<>>
  PROVE  \E k \in DOMAIN tcp :
           /\ tcp[k].end = "success" /\ tcp[k] \in Attempt
           /\ Candidates = <<[tcp[k] EXCEPT !.selected = TRUE]>>
           /\ (\E j \in DOMAIN tcp : tcp[j].end = "success" /\ tcp[j].selected) => tcp[k].selected
<1> DEFINE good == {k \in DOMAIN tcp : tcp[k].end = "success"}
           best == IF \E k \in good : tcp[k].selected
                   THEN CHOOSE k \in good : tcp[k].selected
                   ELSE CHOOSE k \in good : \A j \in good : k <= j
<1>1. good # {} /\ Candidates = <<[tcp[best] EXCEPT !.selected = TRUE]>>
  BY DEF Candidates
<1>2. tcp \in Seq(Attempt) BY DEF TypeOK
<1>3. DOMAIN tcp = 1 .. Len(tcp) /\ Len(tcp) \in Nat /\ \A k \in DOMAIN tcp : tcp[k] \in Attempt
  BY <1>2, SequenceIs
<1>4. good \in SUBSET Nat BY <1>3
<1>5. \E k \in good : \A j \in good : k <= j BY <1>1, <1>4, Least
<1>6. best \in good /\ ((\E k \in good : tcp[k].selected) => tcp[best].selected) BY <1>5
<1> HIDE DEF best
<1> QED BY <1>1, <1>3, <1>6

LEMMA CandidatesAre ==
  ASSUME TypeOK
  PROVE  /\ Candidates \in Seq(Attempt)
         /\ [k \in DOMAIN Candidates |-> Candidates[k].ip] \in Seq(IP)
         /\ [k \in DOMAIN Candidates |-> Candidates[k].ip] = <<>> => Candidates = <<>>
<1>1. Candidates \in Seq(Attempt)
  <2>1. CASE setup.mode = "matrix" BY <2>1, MatrixCandidates
  <2>2. CASE setup.mode # "matrix" /\ Candidates # <<>>
    <3>1. PICK k \in DOMAIN tcp : tcp[k] \in Attempt
                                  /\ Candidates = <<[tcp[k] EXCEPT !.selected = TRUE]>>
      BY <2>2, ClientCandidate
    <3>2. [tcp[k] EXCEPT !.selected = TRUE] \in Attempt BY <3>1 DEF Attempt
    <3> HIDE DEF Attempt
    <3> QED BY <3>1, <3>2
  <2>3. CASE Candidates = <<>> BY <2>3
  <2> QED BY <2>1, <2>2, <2>3
<1>2. PICK c : c = Candidates OBVIOUS
<1>3. Len(c) \in Nat /\ DOMAIN c = 1 .. Len(c) /\ (\A i \in DOMAIN c : c[i] \in Attempt)
      /\ (c # <<>> => Len(c) >= 1)
  BY <1>1, <1>2, SequenceIs
<1>4. [k \in DOMAIN c |-> c[k].ip] \in [1 .. Len(c) -> IP] BY <1>3 DEF Attempt
<1>5. [k \in DOMAIN c |-> c[k].ip] \in Seq(IP) /\ Len([k \in DOMAIN c |-> c[k].ip]) = Len(c)
  BY <1>3, <1>4, FunctionIsSequence
<1>6. [k \in DOMAIN c |-> c[k].ip] = <<>> => Len(c) = 0 BY <1>5
<1>7. Len(c) = 0 => c = <<>> BY <1>3
<1> QED BY <1>1, <1>2, <1>5, <1>6, <1>7

\* A list that is not empty is probed in the end.
LEMMA ListedIs ==
  ASSUME TypeOK, stage \in {"route", "tcp", "tls"}
  PROVE  Listed \in Seq(IP)
BY ListsAre, CandidatesAre DEF Listed

LEMMA ListsStay ==
  /\ UNCHANGED <<setup, resolved>> => Selection' = Selection /\ Dialled' = Dialled
  /\ UNCHANGED <<setup, tcp>> => Candidates' = Candidates
  /\ UNCHANGED <<setup, resolved, tcp, stage>> => Listed' = Listed
<1>1. ASSUME UNCHANGED <<setup, resolved>> PROVE Selection' = Selection /\ Dialled' = Dialled
  <2>1. \A s : Bounded(s)' = Bounded(s) BY <1>1 DEF Bounded, Bound
  <2>2. Requested' = Requested BY <1>1 DEF Requested
  <2> QED BY <1>1, <2>1, <2>2 DEF Selection, Dialled
<1>2. ASSUME UNCHANGED <<setup, tcp>> PROVE Candidates' = Candidates
  BY <1>2 DEF Candidates
<1>3. ASSUME UNCHANGED <<setup, resolved, tcp, stage>> PROVE Listed' = Listed
  BY <1>1, <1>2, <1>3 DEF Listed
<1> QED BY <1>1, <1>2, <1>3

-----------------------------------------------------------------------------
(* The invariant of a check at work.                                       *)

LEMMA EmptySlots == DOMAIN <<>> = {} /\ Len(<<>>) = 0
OBVIOUS

LEMMA QueueIs ==
  ASSUME TypeOK
  PROVE  /\ Len(queue) \in Nat /\ DOMAIN queue = 1 .. Len(queue) /\ DOMAIN slots = 1 .. Len(queue)
         /\ queue # <<>> => Len(queue) >= 1
         /\ \A i \in DOMAIN queue : queue[i] \in IP
         /\ next \in Nat /\ next <= Len(queue) /\ DOMAIN slots = DOMAIN queue
         /\ \A i \in DOMAIN slots : slots[i] \in {"queued", "running"} \cup Ended
<1>1. queue \in Seq(IP) /\ next \in 0 .. Len(queue)
      /\ slots \in [DOMAIN queue -> {"queued", "running"} \cup Ended]
  BY DEF TypeOK
<1>2. Len(queue) \in Nat /\ DOMAIN queue = 1 .. Len(queue)
      /\ (\A i \in DOMAIN queue : queue[i] \in IP) /\ (queue # <<>> => Len(queue) >= 1)
  BY <1>1, SequenceIs
<1> QED BY <1>1, <1>2

\* Nothing at work: where every check begins and ends.
LEMMA IdleWorks ==
  ASSUME /\ phase' = "enter" /\ queue' = <<>> /\ slots' = <<>> /\ next' = 0
         /\ received' = {} /\ winner' = 0,
         TypeOK'
  PROVE  Work'
<1>1. DOMAIN slots' = {} BY EmptySlots
<1>2. Placed' BY DEF Placed
<1>3. Ordered' /\ Raced' /\ Answered' BY <1>1 DEF Ordered, Raced, Answered
<1> QED BY <1>2, <1>3 DEF Work

LEMMA ReturnsWorks ==
  ASSUME Work, stage \in Checks, NEW v \in Verdicts, Returns(v),
         lookups' \in [Families -> {"pending"} \cup LookupEnd],
         resolved' \in [Families -> Seq(IP)],
         routes' \in Seq(Attempt), tcp' \in Seq(Attempt), tls' \in Seq(Attempt)
  PROVE  Work'
<1>1. /\ phase' = "enter" /\ queue' = <<>> /\ slots' = <<>> /\ next' = 0
      /\ received' = {} /\ winner' = 0 /\ timer' = FALSE /\ ctx' = run
      /\ setup' = setup /\ run' = run /\ stage' = After(stage)
      /\ verdict' = [verdict EXCEPT ![stage] = IF ctx = "live" THEN v ELSE "stopped"]
  BY DEF Returns
<1>2. verdict' \in [Checks -> Verdicts]
  <2>1. (IF ctx = "live" THEN v ELSE "stopped") \in Verdicts BY DEF Verdicts
  <2> QED BY <1>1, <2>1 DEF Work, TypeOK
<1>3. stage' \in Checks \cup {"end"} BY <1>1 DEF After, Checks
<1>4. queue' \in Seq(IP) /\ slots' \in [DOMAIN queue' -> {"queued", "running"} \cup Ended]
      /\ next' \in 0 .. Len(queue') /\ winner' \in 0 .. Len(queue')
  BY <1>1, EmptySlots
<1>5. TypeOK' BY <1>1, <1>2, <1>3, <1>4 DEF TypeOK, Work
<1> QED BY <1>1, <1>5, IdleWorks

LEMMA PoolWorks ==
  ASSUME Work, phase = "enter", NEW s \in Seq(IP), s # <<>>, StartPool(s), s = Listed,
         stage \in {"route", "tls"} \/ (stage = "tcp" /\ setup.mode = "matrix")
  PROVE  Work'
<1>1. /\ queue' = s /\ slots' = [i \in DOMAIN s |-> "queued"] /\ next' = 0 /\ phase' = Offering
      /\ UNCHANGED <<setup, run, ctx, stage, received, winner, timer, lookups, resolved,
                     routes, tcp, tls, verdict>>
  BY DEF StartPool, race, dns, results
<1>2. phase' \in {"check", "select"} BY <1>1 DEF Offering
<1>3. Len(s) \in Nat /\ Len(s) >= 1 /\ DOMAIN s = 1 .. Len(s) BY SequenceIs
<1>4. received = {} /\ winner = 0 BY DEF Work, Placed
<1>5. TypeOK'
  <2>1. slots' \in [DOMAIN queue' -> {"queued", "running"} \cup Ended] BY <1>1
  <2>2. next' \in 0 .. Len(queue') /\ winner' \in 0 .. Len(queue') /\ received' \subseteq DOMAIN queue'
    BY <1>1, <1>3, <1>4
  <2> QED BY <1>1, <1>2, <2>1, <2>2 DEF TypeOK, Work
<1>6. Listed' = Listed BY <1>1, ListsStay
<1>7. Placed' BY <1>1, <1>2, <1>6 DEF Placed
<1>8. Ordered' BY <1>1, <1>2, <1>3 DEF Ordered
<1>9. Raced' BY <1>1, <1>2, <1>4 DEF Raced
<1>10. Answered' BY <1>1 DEF Answered
<1> QED BY <1>5, <1>7, <1>8, <1>9, <1>10 DEF Work

\* What an attempt that ends tells, at each stage.
LEMMA EndsTell ==
  ASSUME Work, NEW i \in DOMAIN slots, slots[i] = "running", NEW e \in EndsOf(queue[i])
  PROVE  /\ e \in Ended
         /\ stage = "tcp" => e # "expiring" /\ (e = "success" => Accepts(queue[i]))
         /\ stage = "tls" /\ e = "success" =>
              Accepts(queue[i]) /\ (setup.insecure \/ setup.net[queue[i]].tls = "trusted")
<1> DEFINE a == queue[i]
<1>1. e \in Ended BY AttemptsEndEnded
<1>2. a \in IP BY QueueIs DEF Work
<1>3. setup.net[a].tcp \in {"accepts", "refuses", "silent", "unroutable"}
      /\ setup.net[a].tls \in {"trusted", "expiring", "untrusted", "broken", "mute"}
  BY <1>2, SetupIs DEF Work, Servers
<1>4. e = Natural(a) \/ e \in {"timeout", "cancelled"}
  BY DEF EndsOf
<1> HIDE DEF a
<1>5. stage = "tcp" => Natural(a) # "expiring" /\ (Natural(a) = "success" => Accepts(a))
  BY <1>3 DEF Natural, Accepts
<1>6. stage = "tls" /\ Natural(a) = "success" =>
        Accepts(a) /\ (setup.insecure \/ setup.net[a].tls = "trusted")
  BY <1>3 DEF Natural, Accepts
<1> QED BY <1>1, <1>4, <1>5, <1>6 DEF a

LEMMA AttemptWorks ==
  ASSUME Work, IInv, NEW i \in DOMAIN slots, AttemptEnds(i) PROVE Work'
<1>1. PICK e \in EndsOf(queue[i]) : slots' = [slots EXCEPT ![i] = e] BY DEF AttemptEnds
<1>2. /\ slots[i] = "running"
      /\ UNCHANGED <<setup, run, ctx, stage, phase, queue, next, received, winner, timer,
                     lookups, resolved, routes, tcp, tls, verdict>>
  BY DEF AttemptEnds, race, dns, results
<1>3. /\ e \in Ended
      /\ stage = "tcp" => e # "expiring" /\ (e = "success" => Accepts(queue[i]))
      /\ stage = "tls" /\ e = "success" =>
           Accepts(queue[i]) /\ (setup.insecure \/ setup.net[queue[i]].tls = "trusted")
  BY <1>2, EndsTell
<1>4. e # "queued" /\ e # "running" BY <1>3 DEF Ended, Failures, Successes
<1>5. DOMAIN slots' = DOMAIN slots /\ \A j \in DOMAIN slots : slots'[j] = IF j = i THEN e ELSE slots[j]
  BY <1>1
<1>6. TypeOK'
  <2>1. slots' \in [DOMAIN queue -> {"queued", "running"} \cup Ended]
    BY <1>1, <1>3 DEF Work, TypeOK
  <2> QED BY <1>2, <2>1 DEF Work, TypeOK
<1>7. Listed' = Listed BY <1>2, ListsStay
<1>8. Placed'
  <2>1. phase \notin {"enter", "lookup"}
    <3>1. DOMAIN slots # {} OBVIOUS
    <3> QED BY <3>1, EmptySlots DEF Work, Placed
  <2> QED BY <1>2, <1>7, <2>1 DEF Work, Placed
<1>9. Ordered' BY <1>2, <1>4, <1>5 DEF Work, Ordered
<1>10. Raced'
  <2>1. \A j \in received : j \in DOMAIN slots BY QueueIs DEF Work, TypeOK
  <2>2. \A j \in 1 .. next : j \in DOMAIN slots BY QueueIs DEF Work
  <2>3. slots[i] \notin Failures BY <1>2 DEF Failures
  <2> QED BY <1>2, <1>5, <2>1, <2>2, <2>3 DEF Work, Raced
<1>11. Answered' BY <1>2, <1>3, <1>5 DEF Work, Answered, Accepts
<1> QED BY <1>6, <1>8, <1>9, <1>10, <1>11 DEF Work

\* The next address is started, by a worker or in the race.
Starts ==
  /\ next < Len(queue) /\ next' = next + 1 /\ slots' = [slots EXCEPT ![next + 1] = "running"]
  /\ UNCHANGED <<setup, run, ctx, stage, queue, winner, dns, results, verdict>>
  /\ timer' \in BOOLEAN /\ received' \subseteq DOMAIN queue
  /\ \/ phase \in {"check", "select"} /\ phase' \in {"check", "select"} /\ next + 1 < Len(queue)
     \/ phase \in {"check", "select"} /\ phase' = "closed" /\ next + 1 = Len(queue)
     \/ /\ phase = "race" /\ phase' = "race" /\ \A j \in received' : slots[j] \in Failures
        /\ Cardinality(received') <= next

LEMMA OneMoreStarts ==
  ASSUME Work, Starts PROVE Work'
<1>a. /\ next < Len(queue) /\ next' = next + 1 /\ slots' = [slots EXCEPT ![next + 1] = "running"]
      /\ timer' \in BOOLEAN /\ received' \subseteq DOMAIN queue
      /\ UNCHANGED <<setup, run, ctx, stage, queue, winner, dns, results, verdict>>
  BY DEF Starts
<1>b. /\ phase \in {"check", "select", "race"} /\ phase' \in {"check", "select", "closed", "race"}
      /\ phase' = "race" => phase = "race" /\ \A j \in received' : slots[j] \in Failures
      /\ (phase' = "closed" \/ phase' \in {"check", "select"}) => phase \in {"check", "select"}
  BY DEF Starts
<1>c. /\ phase' \in {"check", "select"} => next + 1 < Len(queue)
      /\ phase' = "closed" => next + 1 = Len(queue)
      /\ phase' = "race" => Cardinality(received') <= next
  BY DEF Starts
<1>0. /\ Len(queue) \in Nat /\ next \in Nat /\ DOMAIN slots = 1 .. Len(queue)
      /\ DOMAIN queue = 1 .. Len(queue)
  BY QueueIs DEF Work
<1>1. next + 1 \in DOMAIN slots BY <1>0, <1>a
<1>2. DOMAIN slots' = DOMAIN slots
      /\ \A j \in DOMAIN slots : slots'[j] = IF j = next + 1 THEN "running" ELSE slots[j]
  BY <1>1, <1>a
<1>3. slots[next + 1] = "queued"
  <2>1. next + 1 > next BY <1>0
  <2>2. slots[next + 1] = "queued" <=> next + 1 > next BY <1>1 DEF Work, Ordered
  <2> QED BY <2>1, <2>2
<1>4. TypeOK'
  <2>1. slots' \in [DOMAIN queue -> {"queued", "running"} \cup Ended] BY <1>a DEF Work, TypeOK
  <2>2. next' \in 0 .. Len(queue) BY <1>0, <1>a
  <2> QED BY <1>a, <1>b, <2>1, <2>2 DEF Work, TypeOK, dns, results
<1>5. Listed' = Listed BY <1>a, ListsStay DEF dns, results
<1>6. Placed' BY <1>a, <1>b, <1>5 DEF Work, Placed
<1>7. Ordered'
  <2>1. \A j \in DOMAIN slots : slots'[j] = "queued" <=> j > next + 1
    <3> TAKE j \in DOMAIN slots
    <3>1. j \in Nat BY <1>0
    <3>2. slots[j] = "queued" <=> j > next BY DEF Work, Ordered
    <3>3. CASE j = next + 1
      <4>1. slots'[j] = "running" BY <1>2, <3>3
      <4>2. ~(j > next + 1) BY <3>1, <3>3
      <4> QED BY <4>1, <4>2
    <3>4. CASE j # next + 1
      <4>1. slots'[j] = slots[j] BY <1>2, <3>4
      <4>2. (j > next) <=> (j > next + 1) BY <1>0, <3>1, <3>4
      <4> QED BY <3>2, <4>1, <4>2
    <3> QED BY <3>3, <3>4
  <2> QED BY <1>2, <1>a, <1>c, <2>1 DEF Ordered
<1>8. Raced'
  <2>1. ASSUME phase' = "race"
        PROVE  /\ next' >= 1 /\ winner' = 0
               /\ \A j \in received' : slots'[j] \in Failures
               /\ Cardinality(received') < next'
    <3>1. winner = 0 /\ phase = "race" BY <1>b, <2>1 DEF Work, Raced
    <3>2. \A j \in received' : j # next + 1
      BY <1>3, <1>b, <2>1 DEF Failures
    <3>3. \A j \in received' : slots'[j] = slots[j] BY <1>0, <1>a, <1>2, <3>2
    <3>4. Cardinality(received') \in Nat
      <4>1. IsFiniteSet(1 .. Len(queue)) BY <1>0, FS_Interval
      <4>2. IsFiniteSet(received') BY <1>0, <1>a, <4>1, FS_Subset
      <4> QED BY <4>2, FS_CardinalityType
    <3>5. Cardinality(received') < next + 1 BY <1>0, <1>c, <2>1, <3>4
    <3> QED BY <1>0, <1>a, <1>b, <2>1, <3>1, <3>3, <3>5
  <2>2. winner' = 0
    <3> QED BY <1>a, <1>b DEF Work, Raced
  <2> QED BY <1>b, <2>1, <2>2 DEF Raced
<1>9. Answered'
  <2>1. \A j \in DOMAIN slots : slots'[j] = "running" \/ slots'[j] = slots[j] BY <1>2
  <2> QED BY <1>a, <1>2, <2>1 DEF Work, Answered, Accepts
<1> QED BY <1>4, <1>6, <1>7, <1>8, <1>9 DEF Work

\* Nothing happens but to the contexts or the phase of a pool.
LEMMA SenderWorks ==
  ASSUME Work, SenderChecks \/ SenderStops PROVE Work'
<1>1. UNCHANGED <<setup, run, ctx, stage, queue, slots, next, received, winner, timer, lookups,
                  resolved, routes, tcp, tls, verdict>>
  BY DEF SenderChecks, SenderStops, pool, race, dns, results
<1>2. /\ phase \in {"check", "select"} /\ phase' \in {"select", "closed"}
      /\ phase' = "closed" => ctx # "live"
  BY DEF SenderChecks, SenderStops
<1>3. Listed' = Listed BY <1>1, ListsStay
<1>4. TypeOK' BY <1>1, <1>2 DEF Work, TypeOK
<1>5. Placed' BY <1>1, <1>2, <1>3 DEF Work, Placed
<1>6. Ordered' BY <1>1, <1>2 DEF Work, Ordered
<1>7. Raced' BY <1>1, <1>2 DEF Work, Raced
<1>8. Answered' BY <1>1 DEF Work, Answered, Accepts
<1> QED BY <1>4, <1>5, <1>6, <1>7, <1>8 DEF Work

LEMMA HandsOverWorks ==
  ASSUME Work, SenderHandsOver PROVE Work'
<1>1. /\ phase = "select" /\ next' = next + 1 /\ slots' = [slots EXCEPT ![next + 1] = "running"]
      /\ phase' = IF next + 1 = Len(queue) THEN "closed" ELSE Offering
      /\ UNCHANGED <<setup, run, ctx, stage, queue, winner, dns, results, verdict>>
      /\ received' = received /\ timer' = timer
  BY DEF SenderHandsOver, race
<1>2. next < Len(queue) /\ received \subseteq DOMAIN queue /\ timer \in BOOLEAN
  BY <1>1 DEF Work, Ordered, TypeOK
<1>3. Len(queue) \in Nat /\ next \in Nat BY QueueIs DEF Work
<1>4. \/ phase' \in {"check", "select"} /\ next + 1 < Len(queue)
      \/ phase' = "closed" /\ next + 1 = Len(queue)
  BY <1>1, <1>2, <1>3 DEF Offering
<1>5. Starts BY <1>1, <1>2, <1>4 DEF Starts
<1> QED BY <1>5, OneMoreStarts

LEMMA ContextWorks ==
  ASSUME Work, CheckExpires \/ \E e \in {"cancelled", "deadline"} : RunEnds(e) PROVE Work'
<1>1. UNCHANGED <<setup, stage, phase, queue, slots, next, received, winner, timer, lookups,
                  resolved, routes, tcp, tls, verdict>>
  BY DEF CheckExpires, RunEnds, pool, race, dns, results
<1>2. /\ run' \in {"live", "cancelled", "deadline"} /\ ctx' \in {"live", "cancelled", "deadline"}
      /\ ctx' = "live" => ctx = "live"
  BY DEF CheckExpires, RunEnds, Work, TypeOK
<1>3. Listed' = Listed BY <1>1, ListsStay
<1>4. TypeOK' BY <1>1, <1>2 DEF Work, TypeOK
<1>5. Placed' BY <1>1, <1>3 DEF Work, Placed
<1>6. Ordered' BY <1>1, <1>2 DEF Work, Ordered
<1>7. Raced' BY <1>1 DEF Work, Raced
<1>8. Answered' BY <1>1 DEF Work, Answered, Accepts
<1> QED BY <1>4, <1>5, <1>6, <1>7, <1>8 DEF Work

\* Names are looked up, or are about to be.
LEMMA LookupWorks ==
  ASSUME Work, EnterDNS \/ \E f \in Families, e \in LookupEnd : LookupEnds(f, e) PROVE Work'
<1>1. UNCHANGED <<setup, run, stage, queue, slots, next, received, winner, timer,
                  resolved, routes, tcp, tls, verdict>>
  BY DEF EnterDNS, LookupEnds, pool, race, dns, results
<1>2. /\ phase \in {"enter", "lookup"} /\ phase' = "lookup" /\ ctx' \in {ctx, "live"}
      /\ phase = "enter" => stage = "dns"
  BY DEF EnterDNS, Entering, LookupEnds
<1>3. lookups' \in [Families -> {"pending"} \cup LookupEnd]
  <2>1. lookups \in [Families -> {"pending"} \cup LookupEnd] BY DEF Work, TypeOK
  <2>2. CASE EnterDNS BY <2>1, <2>2 DEF EnterDNS, dns
  <2>3. ASSUME NEW f \in Families, NEW e \in LookupEnd, LookupEnds(f, e)
        PROVE  lookups' \in [Families -> {"pending"} \cup LookupEnd]
    <3>1. lookups' = [lookups EXCEPT ![f] = e] BY <2>3 DEF LookupEnds
    <3> QED BY <2>1, <3>1
  <2> QED BY <2>2, <2>3
<1>4. TypeOK' BY <1>1, <1>2, <1>3 DEF Work, TypeOK
<1>5. Placed' BY <1>1, <1>2 DEF Work, Placed
<1>6. Ordered' BY <1>1, <1>2 DEF Work, Ordered
<1>7. Raced' BY <1>1, <1>2 DEF Work, Raced
<1>8. Answered' BY <1>1 DEF Work, Answered, Accepts
<1> QED BY <1>4, <1>5, <1>6, <1>7, <1>8 DEF Work

\* The race begins with the first address.
LEMMA RaceBegins ==
  ASSUME Work, EnterTCP, Dialled # <<>>, setup.mode # "matrix" PROVE Work'
<1>1. /\ stage = "tcp" /\ phase = "enter"
      /\ queue' = Dialled
      /\ slots' = [i \in DOMAIN Dialled |-> IF i = 1 THEN "running" ELSE "queued"]
      /\ next' = 1 /\ timer' = TRUE /\ phase' = "race"
      /\ UNCHANGED <<setup, run, ctx, stage, received, winner, lookups, resolved,
                     routes, tcp, tls, verdict>>
  BY DEF EnterTCP, Entering, dns, results
<1>2. received = {} /\ winner = 0 BY <1>1 DEF Work, Placed
<1>3. Dialled \in Seq(IP) BY ListsAre DEF Work
<1>4. Len(Dialled) \in Nat /\ Len(Dialled) >= 1 /\ DOMAIN Dialled = 1 .. Len(Dialled)
  BY <1>3, SequenceIs
<1>5. TypeOK'
  <2>1. slots' \in [DOMAIN queue' -> {"queued", "running"} \cup Ended] BY <1>1
  <2>2. next' \in 0 .. Len(queue') /\ winner' \in 0 .. Len(queue') /\ received' \subseteq DOMAIN queue'
    BY <1>1, <1>2, <1>4
  <2> QED BY <1>1, <1>3, <2>1, <2>2 DEF Work, TypeOK
<1>6. setup.mode = "client" BY SetupIs DEF Work
<1>7. Listed' = Dialled BY <1>1, ListsStay DEF Listed
<1>8. Placed' BY <1>1, <1>6, <1>7 DEF Placed
<1>9. Ordered' BY <1>1, <1>4 DEF Ordered
<1>10. Raced'
  <2>1. Cardinality(received') = 0 BY <1>1, <1>2, FS_EmptySet
  <2> QED BY <1>1, <1>2, <2>1 DEF Raced
<1>11. Answered' BY <1>1 DEF Answered
<1> QED BY <1>5, <1>8, <1>9, <1>10, <1>11 DEF Work

\* An outcome that is received is one that arrived; each loser, and the timer,
\* starts another address.
LEMMA AnotherWorks ==
  ASSUME Work, IInv, Undecided, StartAnother, timer' \in BOOLEAN,
         NEW R \in SUBSET Arrived, \A i \in R : slots[i] # "success",
         received' = received \cup R, Cardinality(R) <= 1, IsFiniteSet(R),
         phase' = "race",
         UNCHANGED <<setup, run, ctx, stage, queue, winner, dns, results, verdict>>
  PROVE  Work'
<1>0. /\ Len(queue) \in Nat /\ next \in Nat /\ DOMAIN slots = 1 .. Len(queue)
      /\ DOMAIN queue = 1 .. Len(queue) /\ next <= Len(queue)
  BY QueueIs DEF Work
<1>1. phase = "race" /\ Cardinality(received) < next /\ stage = "tcp" /\ winner = 0 /\ next >= 1
  BY DEF Undecided, Work, Placed, Raced
<1>2. received \subseteq DOMAIN queue /\ R \subseteq DOMAIN queue
  BY <1>0 DEF Work, TypeOK, Arrived
<1>3. \A i \in received' : slots[i] \in Failures
  <2>1. \A i \in received : slots[i] \in Failures BY <1>1 DEF Work, Raced
  <2>2. \A i \in R : slots[i] \in Failures
    <3>1. \A i \in R : i \in DOMAIN slots /\ slots[i] \in Ended BY DEF Arrived
    <3>2. \A i \in DOMAIN slots : slots[i] # "expiring" BY <1>1 DEF Work, Answered
    <3> QED BY <3>1, <3>2 DEF Ended, Successes
  <2> QED BY <2>1, <2>2
<1>4. Cardinality(received') \in Nat /\ Cardinality(received') <= next
  <2>1. IsFiniteSet(received)
    <3>1. IsFiniteSet(1 .. Len(queue)) BY <1>0, FS_Interval
    <3> QED BY <1>0, <1>2, <3>1, FS_Subset
  <2>2. Cardinality(received) \in Nat /\ Cardinality(R) \in Nat BY <2>1, FS_CardinalityType
  <2>3. received \cap R = {} BY DEF Arrived
  <2>4. Cardinality(received \cap R) = 0 BY <2>3, FS_EmptySet
  <2>5. Cardinality(received \cup R) = Cardinality(received) + Cardinality(R) - Cardinality(received \cap R)
    BY <2>1, FS_Union
  <2>6. Cardinality(received') = Cardinality(received) + Cardinality(R)
    BY <2>2, <2>4, <2>5
  <2> QED BY <1>0, <1>1, <2>2, <2>6
<1>5. CASE next < Len(queue)
  <2>1. next' = next + 1 /\ slots' = [slots EXCEPT ![next + 1] = "running"]
    BY <1>5 DEF StartAnother
  <2>2. Starts BY <1>1, <1>2, <1>3, <1>4, <1>5, <2>1 DEF Starts
  <2> QED BY <2>2, OneMoreStarts
<1>6. CASE ~(next < Len(queue))
  <2>1. next' = next /\ slots' = slots /\ next = Len(queue)
    <3>1. next' = next /\ slots' = slots BY <1>6 DEF StartAnother
    <3>2. PICK n \in Nat, m \in Nat : n = next /\ m = Len(queue) BY <1>0
    <3>3. n <= m /\ ~(n < m) BY <1>0, <1>6, <3>2
    <3>4. n = m BY <3>3
    <3> QED BY <3>1, <3>2, <3>4
  <2>2. TypeOK' BY <1>1, <1>2, <2>1 DEF Work, TypeOK, dns, results
  <2>3. Listed' = Listed BY ListsStay DEF dns, results
  <2>4. Placed' BY <1>1, <2>1, <2>3 DEF Work, Placed
  <2>5. Ordered' BY <1>1, <2>1 DEF Work, Ordered
  <2>6. Raced' BY <1>1, <1>3, <2>1 DEF Work, Raced
  <2>7. Answered' BY <2>1 DEF Work, Answered, Accepts
  <2> QED BY <2>2, <2>4, <2>5, <2>6, <2>7 DEF Work
<1> QED BY <1>5, <1>6

LEMMA TimerWorks == ASSUME Work, IInv, TimerFires PROVE Work'
<1>1. /\ Undecided /\ StartAnother /\ timer' \in BOOLEAN /\ phase' = "race"
      /\ received' = received \cup {}
      /\ UNCHANGED <<setup, run, ctx, stage, queue, winner, dns, results, verdict>>
  BY DEF TimerFires, Undecided
<1>2. IsFiniteSet({}) /\ Cardinality({}) <= 1 BY FS_EmptySet
<1>3. {} \in SUBSET Arrived /\ \A i \in {} : slots[i] # "success" OBVIOUS
<1> QED BY <1>1, <1>2, <1>3, AnotherWorks

LEMMA LoserWorks ==
  ASSUME Work, IInv, NEW i \in DOMAIN slots, ReceiveLoser(i) PROVE Work'
<1>1. /\ Undecided /\ StartAnother /\ timer' = timer /\ phase' = "race"
      /\ received' = received \cup {i} /\ i \in Arrived /\ slots[i] # "success"
      /\ UNCHANGED <<setup, run, ctx, stage, queue, winner, dns, results, verdict>>
  BY DEF ReceiveLoser, Undecided
<1>2. timer' \in BOOLEAN BY <1>1 DEF Work, TypeOK
<1>3. IsFiniteSet({i}) /\ Cardinality({i}) <= 1
  <2>1. IsFiniteSet({i}) /\ Cardinality({i}) = 1 BY FS_Singleton
  <2> QED BY <2>1
<1>4. {i} \in SUBSET Arrived /\ \A j \in {i} : slots[j] # "success" BY <1>1
<1> QED BY <1>1, <1>2, <1>3, <1>4, AnotherWorks

LEMMA WinnerWorks ==
  ASSUME Work, NEW i \in DOMAIN slots, ReceiveWinner(i) PROVE Work'
<1>1. /\ phase = "race" /\ slots[i] = "success" /\ received' = received \cup {i} /\ winner' = i
      /\ phase' = "won"
      /\ UNCHANGED <<setup, run, ctx, stage, queue, slots, next, timer, lookups, resolved,
                     routes, tcp, tls, verdict>>
  BY DEF ReceiveWinner, Undecided, pool, dns, results
<1>2. /\ DOMAIN slots = 1 .. Len(queue) /\ DOMAIN queue = DOMAIN slots /\ next \in Nat
      /\ Len(queue) \in Nat
  BY QueueIs DEF Work
<1>3. i \in 1 .. next
  <2>1. ~(i > next) BY <1>1 DEF Work, Ordered
  <2> QED BY <1>2, <2>1
<1>4. TypeOK'
  <2>1. winner' \in 0 .. Len(queue') /\ received' \subseteq DOMAIN queue'
    BY <1>1, <1>2 DEF Work, TypeOK
  <2> QED BY <1>1, <2>1 DEF Work, TypeOK
<1>5. Listed' = Listed BY <1>1, ListsStay
<1>6. Placed' BY <1>1, <1>5 DEF Work, Placed
<1>7. Ordered' BY <1>1 DEF Work, Ordered
<1>8. Raced' BY <1>1, <1>3 DEF Raced
<1>9. Answered' BY <1>1 DEF Work, Answered, Accepts
<1> QED BY <1>4, <1>6, <1>7, <1>8, <1>9 DEF Work

LEMMA RaceStopsWorks == ASSUME Work, RaceStops PROVE Work'
<1>1. /\ phase = "race" /\ phase' = "stopped"
      /\ UNCHANGED <<setup, run, ctx, stage, queue, slots, next, received, winner, timer,
                     lookups, resolved, routes, tcp, tls, verdict>>
  BY DEF RaceStops, Undecided, pool, race, dns, results
<1>2. TypeOK' BY <1>1 DEF Work, TypeOK
<1>3. Listed' = Listed BY <1>1, ListsStay
<1>4. Placed' BY <1>1, <1>3 DEF Work, Placed
<1>5. Ordered' BY <1>1 DEF Work, Ordered
<1>6. Raced' BY <1>1 DEF Work, Raced
<1>7. Answered' BY <1>1 DEF Work, Answered, Accepts
<1> QED BY <1>2, <1>4, <1>5, <1>6, <1>7 DEF Work

-----------------------------------------------------------------------------
(* What a check returns.                                                   *)

\* When nothing runs any more, the record of a check is that of the addresses it
\* has started, in their order.
LEMMA AttemptsAre ==
  ASSUME Work, Running = {}, NEW chosen
  PROVE  /\ Started = 1 .. next /\ Attempts(chosen) \in Seq(Attempt)
         /\ DOMAIN Attempts(chosen) = 1 .. next
         /\ \A k \in 1 .. next :
              /\ Attempts(chosen)[k] = [ip |-> queue[k], end |-> slots[k], selected |-> k \in chosen]
              /\ k \in DOMAIN slots /\ slots[k] \in Ended
<1>0. /\ Len(queue) \in Nat /\ next \in Nat /\ DOMAIN slots = 1 .. Len(queue)
      /\ DOMAIN queue = 1 .. Len(queue) /\ next <= Len(queue)
      /\ \A i \in DOMAIN queue : queue[i] \in IP
      /\ \A i \in DOMAIN slots : slots[i] \in {"queued", "running"} \cup Ended
  BY QueueIs DEF Work
<1>1. Started = 1 .. next
  <2>1. \A i \in DOMAIN slots : slots[i] # "queued" <=> ~(i > next) BY DEF Work, Ordered
  <2> QED BY <1>0, <2>1 DEF Started
<1>2. Cardinality(1 .. next) = next BY <1>0, FS_Interval
<1>3. ASSUME NEW k \in 1 .. next PROVE Nth(k) = k
  <2>1. ASSUME NEW i \in 1 .. next PROVE Cardinality({j \in Started : j <= i}) = i
    <3>1. {j \in Started : j <= i} = 1 .. i BY <1>0, <1>1
    <3>2. Cardinality(1 .. i) = i
      <4>1. i \in Nat BY <1>0
      <4> QED BY <4>1, FS_Interval
    <3> QED BY <3>1, <3>2
  <2>2. Nth(k) = CHOOSE i \in Started : Cardinality({j \in Started : j <= i}) = k BY DEF Nth
  <2> QED BY <1>1, <2>1, <2>2
<1>4. ASSUME NEW k \in 1 .. next PROVE k \in DOMAIN slots /\ slots[k] \in Ended /\ queue[k] \in IP
  <2>1. k \in DOMAIN slots BY <1>0
  <2>2. slots[k] # "running" BY <2>1 DEF Running
  <2>3. slots[k] # "queued" BY <1>1 DEF Started
  <2> QED BY <1>0, <2>1, <2>2, <2>3
<1> DEFINE t == Attempts(chosen)
<1>5. t = [k \in 1 .. next |-> [ip |-> queue[k], end |-> slots[k], selected |-> k \in chosen]]
  BY <1>1, <1>2, <1>3 DEF Attempts
<1> HIDE DEF t
<1>6. \A k \in 1 .. next : t[k] = [ip |-> queue[k], end |-> slots[k], selected |-> k \in chosen]
  BY <1>5
<1>7. ASSUME NEW k \in 1 .. next PROVE t[k] \in Attempt
  <2>1. (k \in chosen) \in BOOLEAN OBVIOUS
  <2>2. PICK b \in BOOLEAN : b = (k \in chosen) BY <2>1
  <2>3. t[k] = [ip |-> queue[k], end |-> slots[k], selected |-> b] BY <1>6, <2>2
  <2> QED BY <1>4, <2>3 DEF Attempt
<1>8. t \in [1 .. next -> Attempt] BY <1>5, <1>7
<1>9. t \in Seq(Attempt) BY <1>0, <1>8, FunctionIsSequence
<1> QED BY <1>1, <1>4, <1>5, <1>6, <1>9 DEF t

\* The race has ended when RaceReturns is taken.
LEMMA RaceIdle == ASSUME IInv, RaceReturns PROVE Running = {}
BY RaceIsOver DEF RaceReturns

LEMMA ResultsTyped ==
  ASSUME Work
  PROVE  /\ lookups \in [Families -> {"pending"} \cup LookupEnd]
         /\ resolved \in [Families -> Seq(IP)]
         /\ routes \in Seq(Attempt) /\ tcp \in Seq(Attempt) /\ tls \in Seq(Attempt)
BY DEF Work, TypeOK

LEMMA NamesReturn == ASSUME Work, EnterLiteral \/ DNSReturns PROVE Work'
<1>1. stage = "dns" /\ UNCHANGED results
  BY DEF EnterLiteral, Entering, DNSReturns, Work, Placed
<1>2. stage \in Checks BY <1>1 DEF Checks
<1>3. \E v \in Verdicts : Returns(v)
  BY DEF EnterLiteral, DNSReturns, Evaluate, Verdicts
<1>4. resolved' \in [Families -> Seq(IP)]
  <2>1. CASE EnterLiteral
    <3>1. resolved' = [f \in Families |->
             IF f = FamilyOf(setup.literal) THEN <<setup.literal>> ELSE <<>>]
          /\ setup.literal # NoIP
      BY <2>1 DEF EnterLiteral
    <3>2. setup.literal \in IP BY <3>1, SetupIs DEF Work
    <3>3. <<setup.literal>> \in Seq(IP) /\ <<>> \in Seq(IP) BY <3>2
    <3> QED BY <3>1, <3>3
  <2>2. CASE DNSReturns
    <3>1. resolved' = [f \in Families |-> Addresses(f)] BY <2>2 DEF DNSReturns
    <3>2. <<>> \in Seq(IP) OBVIOUS
    <3>3. \A f \in Families : Addresses(f) \in Seq(IP)
      BY <3>2, SetupIs DEF Work, Addresses
    <3> QED BY <3>1, <3>3
  <2> QED BY <2>1, <2>2
<1>5. lookups' \in [Families -> {"pending"} \cup LookupEnd]
  BY ResultsTyped DEF EnterLiteral, DNSReturns
<1> QED BY <1>1, <1>2, <1>3, <1>4, <1>5, ResultsTyped, ReturnsWorks DEF results

LEMMA ProbesReturn ==
  ASSUME Work, IInv, RouteReturns \/ MatrixReturns \/ RaceReturns \/ TLSReturns PROVE Work'
<1>1. stage \in {"route", "tcp", "tls"}
  BY DEF RouteReturns, MatrixReturns, RaceReturns, TLSReturns, Work, Placed
<1>2. Running = {}
  BY RaceIdle DEF RouteReturns, MatrixReturns, TLSReturns, PoolIsDone
<1>3. \E v \in Verdicts : Returns(v)
  BY DEF RouteReturns, MatrixReturns, RaceReturns, TLSReturns, TCPReturns, TCPVerdict, TLSVerdict,
         Verdicts
<1>4. /\ UNCHANGED <<lookups, resolved>>
      /\ routes' = routes \/ \E c : routes' = Attempts(c)
      /\ tcp' = tcp \/ \E c : tcp' = Attempts(c)
      /\ tls' = tls \/ \E c : tls' = Attempts(c)
  BY DEF RouteReturns, MatrixReturns, RaceReturns, TLSReturns, TCPReturns, dns
<1>5. \A c : Attempts(c) \in Seq(Attempt) BY <1>2, AttemptsAre
<1>6. routes' \in Seq(Attempt) /\ tcp' \in Seq(Attempt) /\ tls' \in Seq(Attempt)
  BY <1>4, <1>5, ResultsTyped
<1>7. stage \in Checks BY <1>1 DEF Checks
<1> QED BY <1>3, <1>4, <1>6, <1>7, ResultsTyped, ReturnsWorks

LEMMA SkipWorks ==
  ASSUME Work, stage \in Checks, NEW v \in Verdicts, Returns(v), UNCHANGED <<dns, results>>
  PROVE  Work'
BY ResultsTyped, ReturnsWorks DEF dns, results

LEMMA EnterWorks ==
  ASSUME Work, EnterRoute \/ EnterTCP \/ EnterTLS PROVE Work'
<1>0. phase = "enter" /\ stage \in Checks
  BY DEF EnterRoute, EnterTCP, EnterTLS, Entering, Checks
<1>1. CASE EnterRoute
  <2>1. stage = "route" BY <1>1 DEF EnterRoute, Entering
  <2>2. CASE Selection = <<>>
    <3>1. "skipped" \in Verdicts /\ Returns("skipped") /\ UNCHANGED <<dns, results>>
      BY <1>1, <2>2 DEF EnterRoute, Verdicts
    <3> QED BY <1>0, <3>1, SkipWorks
  <2>3. CASE Selection # <<>>
    <3>1. StartPool(Selection) /\ Selection = Listed BY <1>1, <2>1, <2>3 DEF EnterRoute, Listed
    <3>2. Selection \in Seq(IP) BY ListsAre DEF Work
    <3> QED BY <1>0, <2>1, <2>3, <3>1, <3>2, PoolWorks
  <2> QED BY <2>2, <2>3
<1>2. CASE EnterTCP
  <2>1. stage = "tcp" BY <1>2 DEF EnterTCP, Entering
  <2>2. CASE Dialled = <<>>
    <3>1. "skipped" \in Verdicts /\ Returns("skipped") /\ UNCHANGED <<dns, results>>
      BY <1>2, <2>2 DEF EnterTCP, Verdicts
    <3> QED BY <1>0, <3>1, SkipWorks
  <2>3. CASE Dialled # <<>> /\ setup.mode = "matrix"
    <3>1. StartPool(Dialled) /\ Dialled = Listed BY <1>2, <2>1, <2>3 DEF EnterTCP, Listed
    <3>2. Dialled \in Seq(IP) BY ListsAre DEF Work
    <3> QED BY <1>0, <2>1, <2>3, <3>1, <3>2, PoolWorks
  <2>4. CASE Dialled # <<>> /\ setup.mode # "matrix" BY <1>2, <2>4, RaceBegins
  <2> QED BY <2>2, <2>3, <2>4
<1>3. CASE EnterTLS
  <2>1. stage = "tls" BY <1>3 DEF EnterTLS, Entering
  <2> DEFINE s == [k \in DOMAIN Candidates |-> Candidates[k].ip]
  <2>2. CASE ~setup.tls \/ Candidates = <<>>
    <3>1. "skipped" \in Verdicts /\ Returns("skipped") /\ UNCHANGED <<dns, results>>
      BY <1>3, <2>2 DEF EnterTLS, Verdicts
    <3> QED BY <1>0, <3>1, SkipWorks
  <2>3. CASE ~(~setup.tls \/ Candidates = <<>>) /\ ~setup.ca
    <3>1. "failed" \in Verdicts /\ Returns("failed") /\ UNCHANGED <<dns, results>>
      BY <1>3, <2>3 DEF EnterTLS, Verdicts
    <3> QED BY <1>0, <3>1, SkipWorks
  <2>4. CASE ~(~setup.tls \/ Candidates = <<>>) /\ setup.ca
    <3>1. StartPool(s) /\ s = Listed BY <1>3, <2>1, <2>4 DEF EnterTLS, Listed
    <3>2. s \in Seq(IP) /\ s # <<>> BY <2>4, CandidatesAre DEF Work
    <3> HIDE DEF s
    <3> QED BY <1>0, <2>1, <3>1, <3>2, PoolWorks
  <2> QED BY <2>2, <2>3, <2>4
<1> QED BY <1>1, <1>2, <1>3

LEMMA StopWorks == ASSUME Work, StopCheck PROVE Work'
<1>1. /\ stage # "end" /\ phase = "enter" /\ stage' = After(stage) /\ ctx' = run
      /\ verdict' = [verdict EXCEPT ![stage] = "stopped"]
      /\ UNCHANGED <<setup, run, phase, queue, slots, next, received, winner, timer, lookups,
                     resolved, routes, tcp, tls>>
  BY DEF StopCheck, pool, race, dns, results
<1>2. /\ queue = <<>> /\ slots = <<>> /\ next = 0 /\ received = {} /\ winner = 0
  BY <1>1 DEF Work, Placed
<1>3. stage' \in Checks \cup {"end"} BY <1>1 DEF After, Checks
<1>4. verdict' \in [Checks -> Verdicts] BY <1>1 DEF Work, TypeOK, Verdicts
<1>5. TypeOK' BY <1>1, <1>3, <1>4 DEF Work, TypeOK
<1> QED BY <1>1, <1>2, <1>5, IdleWorks

LEMMA WorkInit == Init => Work
<1> SUFFICES ASSUME Init PROVE Work
  OBVIOUS
<1>1. <<>> \in Seq(IP) /\ <<>> \in Seq(Attempt) /\ DOMAIN <<>> = {} /\ Len(<<>>) = 0 BY EmptySlots
<1>2. lookups \in [Families -> {"pending"} \cup LookupEnd]
      /\ resolved \in [Families -> Seq(IP)] /\ verdict \in [Checks -> Verdicts]
  BY <1>1 DEF Init, Verdicts
<1>3. TypeOK
  <2>1. slots \in [DOMAIN queue -> {"queued", "running"} \cup Ended]
        /\ next \in 0 .. Len(queue) /\ winner \in 0 .. Len(queue)
    BY <1>1 DEF Init
  <2> QED BY <1>1, <1>2, <2>1 DEF Init, TypeOK, Checks
<1>4. Placed /\ Ordered /\ Raced /\ Answered
  BY <1>1 DEF Init, Placed, Ordered, Raced, Answered
<1> QED BY <1>3, <1>4 DEF Work

LEMMA WorkStays == Work /\ IInv /\ [Next]_vars => Work'
<1> SUFFICES ASSUME Work, IInv, [Next]_vars PROVE Work'
  OBVIOUS
<1>1. CASE UNCHANGED vars
  <2>1. UNCHANGED <<setup, run, ctx, stage, phase, queue, slots, next, received, winner, timer,
                    lookups, resolved, routes, tcp, tls, verdict>>
    BY <1>1 DEF vars, pool, race, dns, results
  <2>2. Listed' = Listed BY <2>1, ListsStay
  <2>3. TypeOK' BY <2>1 DEF Work, TypeOK
  <2>4. Placed' BY <2>1, <2>2 DEF Work, Placed
  <2>5. Ordered' /\ Raced' /\ Answered' BY <2>1 DEF Work, Ordered, Raced, Answered, Accepts
  <2> QED BY <2>3, <2>4, <2>5 DEF Work
<1>2. CASE Progress
  BY <1>2, StopWorks, NamesReturn, ProbesReturn, EnterWorks, SenderWorks, HandsOverWorks,
     WinnerWorks, LoserWorks, RaceStopsWorks, LookupWorks DEF Progress
<1> QED BY <1>1, <1>2, ContextWorks, LookupWorks, AttemptWorks, TimerWorks DEF Next, Terminated

-----------------------------------------------------------------------------
(* The verdicts.                                                           *)

\* VerdictsAreEarned, check by check.
DNSEarned ==
  setup.connect = NoIP =>
    /\ verdict.dns \in {"passed", "warning"} => Selection # <<>>
    /\ verdict.dns = "failed" => Selection = <<>>
RouteEarned ==
  verdict.route = "passed" => IPsOf(routes) = ToSet(Selection) /\ Every(routes, {"success"})
TCPEarned ==
  /\ verdict.tcp = "passed" =>
       IF setup.mode = "client"
       THEN \E k \in DOMAIN tcp : tcp[k].selected /\ Accepts(tcp[k].ip)
       ELSE IPsOf(tcp) = ToSet(Dialled) /\ Every(tcp, {"success"})
  /\ verdict.tcp \in {"warning", "failed"} => IPsOf(tcp) = ToSet(Dialled)
  /\ verdict.tcp = "failed" => Every(tcp, Failures)
AllTried == {Candidates[k].ip : k \in DOMAIN Candidates} = IPsOf(tls)
TLSEarned ==
  /\ verdict.tls = "passed" =>
       AllTried /\ \A k \in DOMAIN tls : setup.net[tls[k].ip] = [tcp |-> "accepts", tls |-> "trusted"]
  /\ verdict.tls = "failed" /\ setup.ca => AllTried /\ Every(tls, Failures)

Earned == DNSEarned /\ RouteEarned /\ TCPEarned /\ TLSEarned

LEMMA EarnedIs == Earned <=> VerdictsAreEarned
BY DEF Earned, VerdictsAreEarned, DNSEarned, RouteEarned, TCPEarned, TLSEarned, AllTried, Accepts

\* What has been returned stays true; what has not been is not there yet.
Results == Pending /\ Earned /\ OneSelected

LEMMA ResultsUntouched ==
  ASSUME Results, UNCHANGED <<setup, resolved, routes, tcp, tls, verdict>>, stage' = stage
  PROVE  Results'
<1>1. Selection' = Selection /\ Dialled' = Dialled /\ Candidates' = Candidates BY ListsStay
<1>2. Pending' BY DEF Results, Pending, Upcoming
<1>3. Earned'
  <2>1. DNSEarned' BY <1>1 DEF Results, Earned, DNSEarned
  <2>2. RouteEarned' BY <1>1 DEF Results, Earned, RouteEarned, IPsOf, Every
  <2>3. TCPEarned' BY <1>1 DEF Results, Earned, TCPEarned, Accepts, IPsOf, Every
  <2>4. AllTried' = AllTried BY <1>1 DEF AllTried, IPsOf
  <2>5. TLSEarned' BY <2>4 DEF Results, Earned, TLSEarned, Every
  <2> QED BY <2>1, <2>2, <2>3, <2>5 DEF Earned
<1>4. OneSelected' BY DEF Results, OneSelected, IPsOf
<1> QED BY <1>2, <1>3, <1>4 DEF Results

\* The check of this stage has been judged.
Judged(w) ==
  /\ stage \in Checks /\ setup' = setup
  /\ verdict' = [verdict EXCEPT ![stage] = w]
  /\ stage' = After(stage)
  /\ stage # "dns" => resolved' = resolved
  /\ stage # "route" => routes' = routes
  /\ stage # "tcp" => tcp' = tcp
  /\ stage # "tls" => tls' = tls

LEMMA JudgedIs ==
  ASSUME Work, NEW w, Judged(w)
  PROVE  \A c \in Checks : verdict'[c] = IF c = stage THEN w ELSE verdict[c]
BY DEF Judged, Work, TypeOK

LEMMA PendingStays == ASSUME Work, Pending, NEW w, Judged(w) PROVE Pending'
<1>1. stage \in {"dns", "route", "tcp", "tls"} /\ stage' = After(stage)
  BY DEF Judged, Checks
<1>2. \A c \in Checks : c # stage => verdict'[c] = verdict[c] BY JudgedIs
<1>3. Upcoming' \subseteq Upcoming \ {stage}
  BY <1>1 DEF Upcoming, After, Checks
<1>4. Upcoming \subseteq Checks BY DEF Upcoming, Checks
<1> QED BY <1>1, <1>2, <1>3, <1>4 DEF Pending, Judged

\* What concerns the other checks is not disturbed.
LEMMA OthersStay ==
  ASSUME Work, Results, NEW w, Judged(w)
  PROVE  /\ stage # "dns" => DNSEarned'
         /\ stage # "route" => RouteEarned'
         /\ stage # "tcp" => TCPEarned'
         /\ stage # "tls" => TLSEarned'
         /\ stage \notin {"tcp", "tls"} => OneSelected'
<1>1. stage \in {"dns", "route", "tcp", "tls"} /\ setup' = setup
      /\ \A c \in Checks : c # stage => verdict'[c] = verdict[c]
  BY JudgedIs DEF Judged, Checks
<1>2. {"dns", "route", "tcp", "tls"} = Checks BY DEF Checks
<1>3. \A c \in Upcoming : verdict[c] = "none" BY DEF Results, Pending
<1>4. ASSUME stage # "dns" PROVE DNSEarned'
  <2>1. Selection' = Selection /\ verdict'.dns = verdict.dns
    BY <1>1, <1>2, <1>4, ListsStay DEF Judged
  <2> QED BY <1>1, <2>1 DEF Results, Earned, DNSEarned
<1>5. ASSUME stage # "route" PROVE RouteEarned'
  <2>1. verdict'.route = verdict.route BY <1>1, <1>2, <1>5
  <2>2. CASE stage = "dns"
    <3>1. verdict.route = "none" BY <1>3, <2>2 DEF Upcoming, Checks
    <3> QED BY <2>1, <3>1 DEF RouteEarned
  <2>3. CASE stage # "dns"
    <3>1. Selection' = Selection /\ routes' = routes BY <1>1, <1>5, <2>3, ListsStay DEF Judged
    <3> QED BY <2>1, <3>1 DEF Results, Earned, RouteEarned, IPsOf, Every
  <2> QED BY <2>2, <2>3
<1>6. ASSUME stage # "tcp" PROVE TCPEarned'
  <2>1. verdict'.tcp = verdict.tcp BY <1>1, <1>2, <1>6
  <2>2. CASE stage \in {"dns", "route"}
    <3>1. verdict.tcp = "none" BY <1>3, <2>2 DEF Upcoming, Checks
    <3> QED BY <2>1, <3>1 DEF TCPEarned
  <2>3. CASE stage = "tls"
    <3>1. Dialled' = Dialled /\ tcp' = tcp BY <1>1, <2>3, ListsStay DEF Judged
    <3> QED BY <1>1, <2>1, <3>1 DEF Results, Earned, TCPEarned, IPsOf, Every, Accepts
  <2> QED BY <1>1, <1>6, <2>2, <2>3
<1>7. ASSUME stage # "tls" PROVE TLSEarned'
  <2>1. verdict'.tls = verdict.tls BY <1>1, <1>2, <1>7
  <2>2. verdict.tls = "none" BY <1>1, <1>3, <1>7 DEF Upcoming, Checks
  <2> QED BY <2>1, <2>2 DEF TLSEarned
<1>8. ASSUME stage \notin {"tcp", "tls"} PROVE OneSelected'
  <2>1. tcp' = tcp /\ tls' = tls BY <1>8 DEF Judged
  <2>2. verdict'.tcp = verdict.tcp BY <1>1, <1>2, <1>8
  <2> QED BY <1>1, <2>1, <2>2 DEF Results, OneSelected, IPsOf
<1> QED BY <1>4, <1>5, <1>6, <1>7, <1>8

LEMMA ReturnsJudges ==
  ASSUME Work, stage \in Checks, NEW v, Returns(v),
         stage # "dns" => resolved' = resolved,
         stage # "route" => routes' = routes,
         stage # "tcp" => tcp' = tcp,
         stage # "tls" => tls' = tls
  PROVE  Judged(IF ctx = "live" THEN v ELSE "stopped")
BY DEF Returns, Judged

\* A check that does not probe leaves nothing to be earned, but for names.
LEMMA NothingToEarn ==
  ASSUME Work, Results, NEW w \in Verdicts \ {"passed", "warning"}, Judged(w),
         UNCHANGED <<resolved, routes, tcp, tls>>,
         stage = "dns" => w # "failed", w = "failed" => stage = "tls" /\ ~setup.ca
  PROVE  Results'
<1>1. \A c \in Checks : verdict'[c] = IF c = stage THEN w ELSE verdict[c] BY JudgedIs
<1>2. stage \in {"dns", "route", "tcp", "tls"} /\ {"dns", "route", "tcp", "tls"} = Checks
      /\ setup' = setup
  BY DEF Judged, Checks
<1>3. verdict'[stage] = w /\ w \notin {"passed", "warning"} BY <1>1, <1>2
<1>4. stage = "dns" => DNSEarned' BY <1>3 DEF DNSEarned
<1>5. stage = "route" => RouteEarned' BY <1>3 DEF RouteEarned
<1>6. stage = "tcp" => TCPEarned' BY <1>3 DEF TCPEarned
<1>7. stage = "tls" => TLSEarned' BY <1>2, <1>3 DEF TLSEarned
<1>8. OneSelected'
  <2>1. verdict'.tcp \in {"passed", "warning"} => verdict.tcp \in {"passed", "warning"}
    BY <1>1, <1>2, <1>3
  <2> QED BY <1>2, <2>1 DEF Results, OneSelected, IPsOf
<1>9. Pending' BY PendingStays DEF Results
<1> QED BY <1>4, <1>5, <1>6, <1>7, <1>8, <1>9, OthersStay DEF Results, Earned

\* Names: what was judged is what the later checks are left with.
LEMMA NamesEarned ==
  ASSUME Work, Results, EnterLiteral \/ DNSReturns PROVE Results'
<1>1. stage = "dns" /\ UNCHANGED results
  BY DEF EnterLiteral, Entering, DNSReturns, Work, Placed
<1>2. PICK v : Returns(v) /\ (EnterLiteral => v = (IF FamilyOf(setup.literal) \in Requested
                                                   THEN "passed" ELSE "failed"))
               /\ (~EnterLiteral => \E detail, fails : v = Evaluate(detail, fails))
  BY DEF EnterLiteral, DNSReturns
<1> DEFINE w == IF ctx = "live" THEN v ELSE "stopped"
<1>3. Judged(w) BY <1>1, <1>2, ReturnsJudges DEF results, Checks
<1>4. verdict'.dns = w
  <2>1. "dns" \in Checks BY DEF Checks
  <2> QED BY <1>1, <1>3, <2>1, JudgedIs
<1>5. v \in {"passed", "warning", "failed"}
      /\ (v = "failed" <=> \A f \in Requested : resolved'[f] = <<>>)
  <2>1. Requested \subseteq Families /\ Requested # {} BY DEF Requested, Families
  <2>2. CASE EnterLiteral
    <3>1. resolved' = [f \in Families |->
             IF f = FamilyOf(setup.literal) THEN <<setup.literal>> ELSE <<>>]
      BY <2>2 DEF EnterLiteral
    <3>2. \A f \in Requested : resolved'[f] = <<>> <=> f # FamilyOf(setup.literal)
      BY <2>1, <3>1
    <3> QED BY <1>2, <2>2, <3>2
  <2>3. CASE ~EnterLiteral
    <3>1. resolved' = [f \in Families |-> Addresses(f)] BY <2>3 DEF DNSReturns
    <3>2. \A f \in Requested : resolved'[f] = Addresses(f) BY <2>1, <3>1
    <3>3. PICK detail, fails : v = Evaluate(detail, fails) BY <1>2, <2>3
    <3>4. v \in {"passed", "warning", "failed"}
          /\ (v = "failed" <=> \A f \in Requested : ~(Addresses(f) # <<>>))
      BY <3>3 DEF Evaluate
    <3> QED BY <3>2, <3>4
  <2> QED BY <2>2, <2>3
<1>6. DNSEarned'
  <2>1. setup' = setup /\ TypeOK' /\ Requested' = Requested
    BY <1>3, NamesReturn DEF Judged, Work, Requested
  <2>2. setup.connect = NoIP => (Selection' = <<>> <=> \A f \in Requested : resolved'[f] = <<>>)
    <3>1. (setup.connect = NoIP => (Selection = <<>> <=> \A f \in Requested : resolved[f] = <<>>))'
      BY <2>1, ListsAre, PTL
    <3> QED BY <2>1, <3>1
  <2>3. verdict'.dns \in {"passed", "warning"} => v \in {"passed", "warning"} BY <1>4
  <2>4. verdict'.dns = "failed" => v = "failed" BY <1>4
  <2> QED BY <1>5, <2>1, <2>2, <2>3, <2>4 DEF DNSEarned
<1>7. Pending' BY <1>3, PendingStays DEF Results
<1> QED BY <1>1, <1>3, <1>6, <1>7, OthersStay DEF Results, Earned

LEMMA AllReceived ==
  ASSUME IInv, phase = "race", Cardinality(received) = next
  PROVE  received = 1 .. next
<1>1. /\ next \in Nat
      /\ \A i \in DOMAIN slots : slots[i] # "queued" => i \in 1 .. next
      /\ received \subseteq DOMAIN slots /\ \A i \in received : slots[i] \in Ended
  BY DEF IInv, RaceInOrder
<1>2. received \subseteq 1 .. next BY <1>1 DEF Ended, Failures, Successes
<1>3. IsFiniteSet(1 .. next) /\ Cardinality(1 .. next) = next BY <1>1, FS_Interval
<1> QED BY <1>2, <1>3, FS_Subset

LEMMA RouteEarns == ASSUME Work, Results, RouteReturns PROVE Results'
<1>1. stage = "route" /\ phase = "closed" /\ Running = {} /\ routes' = Attempts({})
      /\ UNCHANGED <<resolved, tcp, tls>>
  BY DEF RouteReturns, PoolIsDone, dns
<1> DEFINE v == IF ctx # "live" THEN "cancelled"
                ELSE IF setup.interfaces /\ \A i \in DOMAIN slots : slots[i] = "success" THEN "passed"
                ELSE "warning"
           w == IF ctx = "live" THEN v ELSE "stopped"
<1>2. Returns(v) BY DEF RouteReturns
<1>3. Judged(w) BY <1>1, <1>2, ReturnsJudges DEF Checks
<1>4. verdict'.route = w
  <2>1. "route" \in Checks BY DEF Checks
  <2> QED BY <1>1, <1>3, <2>1, JudgedIs
<1>5. ASSUME w = "passed" PROVE ctx = "live" /\ \A i \in DOMAIN slots : slots[i] = "success"
  BY <1>5
<1> HIDE DEF w, v
<1>6. ASSUME verdict'.route = "passed"
      PROVE  IPsOf(routes') = ToSet(Selection) /\ Every(routes', {"success"})
  <2>1. next = Len(queue) /\ queue = Selection
    BY <1>1, <1>4, <1>5, <1>6 DEF Work, Ordered, Placed, Listed
  <2>2. /\ DOMAIN routes' = 1 .. next
        /\ \A k \in 1 .. next : routes'[k].ip = queue[k] /\ routes'[k].end = "success"
    <3>1. /\ DOMAIN routes' = 1 .. next
          /\ \A k \in 1 .. next :
               /\ routes'[k] = [ip |-> queue[k], end |-> slots[k], selected |-> k \in {}]
               /\ k \in DOMAIN slots
      BY <1>1, AttemptsAre
    <3>2. \A k \in 1 .. next : slots[k] = "success" BY <1>4, <1>5, <1>6, <3>1
    <3>3. \A k \in 1 .. next : routes'[k].ip = queue[k] /\ routes'[k].end = slots[k] BY <3>1
    <3> QED BY <3>1, <3>2, <3>3
  <2>3. DOMAIN queue = 1 .. next BY <2>1, QueueIs DEF Work
  <2> QED BY <2>1, <2>2, <2>3 DEF IPsOf, Every, ToSet
<1>7. RouteEarned'
  <2>1. Selection' = Selection BY <1>1, <1>3, ListsStay DEF Judged
  <2> QED BY <1>6, <2>1 DEF RouteEarned, IPsOf, Every
<1>8. Pending' BY <1>3, PendingStays DEF Results
<1> QED BY <1>1, <1>3, <1>7, <1>8, OthersStay DEF Results, Earned

\* A record of TCP says what was dialled.
LEMMA TCPRecord ==
  ASSUME Work, Running = {}, stage = "tcp", phase \notin {"enter", "lookup"}, NEW chosen
  PROVE  LET t == Attempts(chosen) IN
         /\ next = Len(queue) => IPsOf(t) = ToSet(Dialled)
         /\ DOMAIN t = 1 .. next /\ DOMAIN t \subseteq DOMAIN slots
         /\ \A k \in DOMAIN t :
              /\ t[k].ip = queue[k] /\ t[k].end = slots[k] /\ (t[k].selected <=> k \in chosen)
              /\ t[k].end \in Failures \cup {"success"}
              /\ t[k].end = "success" => Accepts(t[k].ip)
<1> DEFINE t == Attempts(chosen)
<1>1. /\ DOMAIN t = 1 .. next
      /\ \A k \in 1 .. next :
           /\ t[k] = [ip |-> queue[k], end |-> slots[k], selected |-> k \in chosen]
           /\ k \in DOMAIN slots /\ slots[k] \in Ended
  BY AttemptsAre
<1> HIDE DEF t
<1>2. ASSUME NEW k \in DOMAIN t
      PROVE  t[k].ip = queue[k] /\ t[k].end = slots[k] /\ (t[k].selected <=> k \in chosen)
  <2>1. t[k] = [ip |-> queue[k], end |-> slots[k], selected |-> k \in chosen] BY <1>1
  <2>2. t[k].ip = queue[k] /\ t[k].end = slots[k] BY <2>1
  <2>3. t[k].selected = (k \in chosen) BY <2>1
  <2> QED BY <2>2, <2>3
<1>3. \A k \in DOMAIN t : slots[k] # "expiring" /\ (slots[k] = "success" => Accepts(queue[k]))
  BY <1>1 DEF Work, Answered
<1>4. \A k \in DOMAIN t : t[k].end \in Failures \cup {"success"}
  BY <1>1, <1>2, <1>3 DEF Ended, Successes
<1>5. ASSUME next = Len(queue) PROVE IPsOf(t) = ToSet(Dialled)
  <2>1. queue = Dialled BY DEF Work, Placed, Listed
  <2>2. DOMAIN queue = DOMAIN t BY <1>1, <1>5, QueueIs DEF Work
  <2> QED BY <1>2, <2>1, <2>2 DEF IPsOf, ToSet
<1> QED BY <1>1, <1>2, <1>3, <1>4, <1>5 DEF t

\* What the matrix returns.
LEMMA MatrixEarns == ASSUME Work, Results, MatrixReturns PROVE Results'
<1> DEFINE t == Attempts(Preferred)
           v == TCPVerdict(t, ctx # "live")
           w == IF ctx = "live" THEN v ELSE "stopped"
<1>1. stage = "tcp" /\ phase = "closed" /\ Running = {} /\ tcp' = t /\ Returns(v)
      /\ UNCHANGED <<resolved, routes, tls>>
  BY DEF MatrixReturns, PoolIsDone, TCPReturns, dns
<1>2. /\ next = Len(queue) => IPsOf(t) = ToSet(Dialled)
      /\ DOMAIN t = 1 .. next /\ DOMAIN t \subseteq DOMAIN slots
      /\ \A k \in DOMAIN t :
           /\ t[k].ip = queue[k] /\ t[k].end = slots[k] /\ (t[k].selected <=> k \in Preferred)
           /\ t[k].end \in Failures \cup {"success"}
           /\ t[k].end = "success" => Accepts(t[k].ip)
  BY <1>1, TCPRecord
<1>3. setup.mode = "matrix" /\ tls = <<>> /\ setup' = setup /\ next \in Nat
      /\ (ctx = "live" => next = Len(queue) /\ next >= 1)
  <2>1. setup.mode = "matrix" BY <1>1 DEF Work, Placed
  <2>2. tls = <<>> BY <1>1 DEF Results, Pending, Upcoming
  <2>3. ctx = "live" => next = Len(queue) BY <1>1 DEF Work, Ordered
  <2>4. queue # <<>> BY <1>1 DEF Work, Placed
  <2> QED BY <1>1, <2>1, <2>2, <2>3, <2>4, QueueIs DEF Work, Returns
<1>4. Judged(w) BY <1>1, ReturnsJudges DEF Checks
<1>5. verdict'.tcp = w
  <2>1. "tcp" \in Checks BY DEF Checks
  <2> QED BY <1>1, <1>4, <2>1, JudgedIs
<1> DEFINE good == {k \in DOMAIN t : t[k].end = "success"}
<1>6. ctx = "live" => v = (IF good = DOMAIN t THEN "passed" ELSE IF good # {} THEN "warning" ELSE "failed")
  BY <1>3 DEF TCPVerdict
<1>7. ctx # "live" => w = "stopped" OBVIOUS
<1>8. w = v \/ w = "stopped" OBVIOUS
<1> HIDE DEF t, v, w
<1>9. TCPEarned'
  <2>1. Dialled' = Dialled BY <1>1, <1>3, ListsStay
  <2>2. ASSUME verdict'.tcp \in {"passed", "warning", "failed"}
        PROVE  ctx = "live" /\ IPsOf(t) = ToSet(Dialled) /\ verdict'.tcp = v
    BY <1>2, <1>3, <1>5, <1>7, <1>8, <2>2
  <2>3. ASSUME verdict'.tcp = "passed" PROVE Every(t, {"success"})
    BY <1>6, <2>2, <2>3 DEF Every
  <2>4. ASSUME verdict'.tcp = "failed" PROVE Every(t, Failures)
    BY <1>2, <1>6, <2>2, <2>4 DEF Every
  <2>5. IPsOf(tcp)' = IPsOf(t) /\ Every(tcp, {"success"})' = Every(t, {"success"})
        /\ Every(tcp, Failures)' = Every(t, Failures)
    BY <1>1 DEF IPsOf, Every
  <2> QED BY <1>3, <2>1, <2>2, <2>3, <2>4, <2>5 DEF TCPEarned
<1>10. \A k \in DOMAIN t : t[k].selected =>
         t[k].end = "success" /\ \A j \in 1 .. k - 1 : slots[j] # "success"
  BY <1>2 DEF Preferred
<1>11. ASSUME NEW k \in DOMAIN t, NEW l \in DOMAIN t, t[k].selected, t[l].selected PROVE k = l
  <2>1. k \in Nat /\ l \in Nat /\ k >= 1 /\ l >= 1 BY <1>2
  <2>2. slots[k] = "success" /\ slots[l] = "success" BY <1>2, <1>10, <1>11
  <2>3. ~(k < l) /\ ~(l < k) BY <1>10, <1>11, <2>1, <2>2
  <2> QED BY <2>1, <2>3
<1>12. ASSUME good # {} PROVE \E k \in DOMAIN t : t[k].selected
  <2>1. good \in SUBSET Nat BY <1>2
  <2>2. PICK k \in good : \A j \in good : k <= j BY <1>12, <2>1, Least
  <2>3. ASSUME NEW j \in 1 .. k - 1 PROVE slots[j] # "success"
    <3>1. j \in DOMAIN t /\ j \in Nat /\ k \in Nat /\ j < k BY <1>2, <1>3
    <3>2. j \notin good BY <2>2, <3>1
    <3> QED BY <1>2, <3>1, <3>2
  <2>4. k \in DOMAIN slots /\ slots[k] = "success" BY <1>2
  <2> QED BY <1>2, <2>3, <2>4 DEF Preferred
<1>13. verdict'.tcp \in {"passed", "warning"} => good # {}
  BY <1>2, <1>3, <1>5, <1>6, <1>7, <1>8
<1>14. OneSelected'
  <2>1. tls' = <<>> /\ DOMAIN tls' = {} BY <1>1, <1>3, EmptySlots
  <2>2. \A k \in DOMAIN t : t[k].selected => \A j \in 1 .. k - 1 : t[j].end # "success"
    <3> SUFFICES ASSUME NEW k \in DOMAIN t, t[k].selected, NEW j \in 1 .. k - 1
                 PROVE  t[j].end # "success"
      OBVIOUS
    <3>1. j \in DOMAIN t BY <1>2, <1>3
    <3> QED BY <1>2, <1>10, <3>1
  <2> HIDE DEF good
  <2> QED BY <1>1, <1>3, <1>10, <1>11, <1>12, <1>13, <2>1, <2>2 DEF OneSelected
<1>15. Pending' BY <1>4, PendingStays DEF Results
<1> QED BY <1>1, <1>4, <1>9, <1>14, <1>15, OthersStay DEF Results, Earned

\* What the race returns.
LEMMA RaceEarns == ASSUME Work, IInv, Results, RaceReturns PROVE Results'
<1> DEFINE t == Attempts({winner})
           stopped == phase = "stopped" \/ (phase = "race" /\ ctx # "live")
           v == TCPVerdict(t, stopped)
           w == IF ctx = "live" THEN v ELSE "stopped"
<1>1. phase \in {"race", "won", "stopped"} /\ Running = {} /\ tcp' = t /\ Returns(v)
      /\ UNCHANGED <<resolved, routes, tls>>
  BY RaceIdle DEF RaceReturns, TCPReturns, dns
<1>2. stage = "tcp" /\ setup.mode = "client" BY <1>1 DEF Work, Placed
<1>3. /\ next = Len(queue) => IPsOf(t) = ToSet(Dialled)
      /\ DOMAIN t = 1 .. next /\ DOMAIN t \subseteq DOMAIN slots
      /\ \A k \in DOMAIN t :
           /\ t[k].ip = queue[k] /\ t[k].end = slots[k] /\ (t[k].selected <=> k \in {winner})
           /\ t[k].end \in Failures \cup {"success"}
           /\ t[k].end = "success" => Accepts(t[k].ip)
  BY <1>1, <1>2, TCPRecord
<1>4. tls = <<>> /\ setup' = setup /\ next \in Nat
  <2>1. tls = <<>> BY <1>2 DEF Results, Pending, Upcoming
  <2> QED BY <1>1, <2>1, QueueIs DEF Work, Returns
<1>5. Judged(w) BY <1>1, <1>2, ReturnsJudges DEF Checks
<1>6. verdict'.tcp = w
  <2>1. "tcp" \in Checks BY DEF Checks
  <2> QED BY <1>2, <1>5, <2>1, JudgedIs
<1> DEFINE good == {k \in DOMAIN t : t[k].end = "success"}
<1>7. v = (IF stopped THEN "cancelled"
           ELSE IF \E k \in good : t[k].selected THEN "passed"
           ELSE IF good = DOMAIN t THEN "passed"
           ELSE IF good # {} THEN "warning" ELSE "failed")
  BY <1>2 DEF TCPVerdict
<1>8. w = v \/ w = "stopped" OBVIOUS
<1> HIDE DEF t, v, w
\* It was won, it was lost, or it was stopped.
<1>9. \/ v = "passed" /\ winner \in DOMAIN t /\ t[winner].end = "success"
      \/ /\ v = "failed" /\ winner = 0 /\ IPsOf(t) = ToSet(Dialled)
         /\ \A k \in DOMAIN t : t[k].end \in Failures
      \/ v = "cancelled" /\ winner = 0
  <2>1. CASE phase = "won"
    <3>1. winner \in DOMAIN t /\ slots[winner] = "success" BY <1>3, <2>1 DEF Work, Raced
    <3>2. winner \in good /\ t[winner].selected BY <1>3, <3>1
    <3> QED BY <1>3, <1>7, <2>1, <3>1, <3>2
  <2>2. CASE phase = "stopped" BY <1>7, <2>2 DEF Work, Raced
  <2>3. CASE phase = "race" /\ ctx # "live" BY <1>7, <2>3 DEF Work, Raced
  <2>4. CASE phase = "race" /\ ctx = "live"
    <3>1. Cardinality(received) = next BY <2>4 DEF RaceReturns
    <3>2. next >= 1 /\ winner = 0 /\ next = Len(queue)
          /\ \A i \in received : slots[i] \in Failures
      BY <1>4, <2>4, <3>1 DEF Work, Raced
    <3>3. received = 1 .. next BY <2>4, <3>1, AllReceived
    <3>4. \A k \in DOMAIN t : t[k].end \in Failures BY <1>3, <3>2, <3>3
    <3>5. good = {} BY <3>4 DEF Failures
    <3>6. DOMAIN t # {} BY <1>3, <1>4, <3>2
    <3>7. v = "failed" BY <1>7, <2>4, <3>5, <3>6
    <3> QED BY <1>3, <3>2, <3>4, <3>7
  <2> QED BY <1>1, <2>1, <2>2, <2>3, <2>4
<1> HIDE DEF good
<1>10. TCPEarned'
  <2>1. Dialled' = Dialled BY <1>1, <1>4, ListsStay
  <2>2. IPsOf(tcp)' = IPsOf(t) /\ Every(tcp, Failures)' = Every(t, Failures)
    BY <1>1 DEF IPsOf, Every
  <2>3. verdict'.tcp = "passed" => \E k \in DOMAIN t : t[k].selected /\ Accepts(t[k].ip)
    BY <1>3, <1>6, <1>8, <1>9
  <2>4. verdict'.tcp \in {"warning", "failed"} =>
          verdict'.tcp = "failed" /\ IPsOf(t) = ToSet(Dialled) /\ Every(t, Failures)
    BY <1>6, <1>8, <1>9 DEF Every
  <2>5. \A a : Accepts(a)' <=> Accepts(a) BY <1>4 DEF Accepts
  <2> QED BY <1>1, <1>2, <1>4, <2>1, <2>2, <2>3, <2>4, <2>5 DEF TCPEarned
<1>11. OneSelected'
  <2>1. tls' = <<>> /\ DOMAIN tls' = {} /\ IPsOf(tls)' = {} BY <1>1, <1>4, EmptySlots DEF IPsOf
  <2>2. \A k \in DOMAIN t : t[k].selected => k = winner /\ t[k].end = "success"
    BY <1>3, <1>4, <1>9
  <2>3. verdict'.tcp \in {"passed", "warning"} => \E k \in DOMAIN t : t[k].selected
    BY <1>3, <1>6, <1>8, <1>9
  <2> QED BY <1>1, <1>2, <1>4, <2>1, <2>2, <2>3 DEF OneSelected
<1>12. Pending' BY <1>5, PendingStays DEF Results
<1> QED BY <1>1, <1>2, <1>5, <1>10, <1>11, <1>12, OthersStay DEF Results, Earned

\* What TLS returns.
LEMMA TLSEarns == ASSUME Work, Results, TLSReturns PROVE Results'
<1> DEFINE chosen == {i \in DOMAIN slots : Candidates[i].selected}
           t == Attempts(chosen)
           v == TLSVerdict
           w == IF ctx = "live" THEN v ELSE "stopped"
<1>1. stage = "tls" /\ phase = "closed" /\ Running = {} /\ tls' = t /\ Returns(v)
      /\ UNCHANGED <<resolved, routes, tcp>>
  BY DEF TLSReturns, PoolIsDone, dns
<1>2. /\ DOMAIN t = 1 .. next /\ Started = 1 .. next
      /\ \A k \in 1 .. next :
           /\ t[k] = [ip |-> queue[k], end |-> slots[k], selected |-> k \in chosen]
           /\ k \in DOMAIN slots /\ slots[k] \in Ended
  BY <1>1, AttemptsAre
<1>3. Judged(w) BY <1>1, ReturnsJudges DEF Checks
<1>4. verdict'.tls = w /\ verdict'.tcp = verdict.tcp
  <2>1. "tls" \in Checks /\ "tcp" \in Checks BY DEF Checks
  <2> QED BY <1>1, <1>3, <2>1, JudgedIs
<1>5. setup' = setup /\ Candidates' = Candidates BY <1>1, ListsStay DEF Returns
<1>6. queue = [k \in DOMAIN Candidates |-> Candidates[k].ip] BY <1>1 DEF Work, Placed, Listed
<1>7. DOMAIN queue = DOMAIN slots /\ DOMAIN queue = 1 .. Len(queue) /\ next \in Nat
      /\ \A i \in DOMAIN queue : queue[i] \in IP
  BY QueueIs DEF Work
<1> HIDE DEF t
<1>8. ASSUME NEW k \in DOMAIN t
      PROVE  /\ k \in DOMAIN Candidates /\ t[k].ip = Candidates[k].ip /\ t[k].end = slots[k]
             /\ t[k].ip = queue[k]
             /\ t[k].selected => Candidates[k].selected
  <2>1. t[k] = [ip |-> queue[k], end |-> slots[k], selected |-> k \in chosen] /\ k \in DOMAIN slots
    BY <1>2
  <2>2. t[k].ip = queue[k] /\ t[k].end = slots[k] BY <2>1
  <2>3. t[k].selected = (k \in chosen) BY <2>1
  <2>4. k \in DOMAIN Candidates /\ queue[k] = Candidates[k].ip BY <1>6, <1>7, <2>1
  <2> QED BY <2>2, <2>3, <2>4
<1>9. ctx = "live" => DOMAIN t = DOMAIN Candidates
  <2>1. ctx = "live" => next = Len(queue) BY <1>1 DEF Work, Ordered
  <2> QED BY <1>2, <1>6, <1>7, <2>1
<1> DEFINE good == {i \in 1 .. next : slots[i] \in Successes}
<1>10. v = (IF 1 .. next = {} THEN "cancelled"
            ELSE IF good = {} THEN
              IF ctx = "cancelled" /\ \A i \in 1 .. next : slots[i] = "cancelled"
              THEN "cancelled" ELSE "failed"
            ELSE IF good # 1 .. next \/ setup.insecure \/ (\E i \in good : slots[i] = "expiring")
              THEN "warning"
            ELSE "passed")
  BY <1>2 DEF TLSVerdict
<1>11. (w = "passed" => ctx = "live" /\ v = "passed") /\ (w = "failed" => ctx = "live" /\ v = "failed")
  OBVIOUS
<1> HIDE DEF v, w
<1>12. ASSUME ctx = "live" PROVE AllTried'
  <2>1. {Candidates[k].ip : k \in DOMAIN Candidates} = {t[k].ip : k \in DOMAIN t}
    BY <1>8, <1>9, <1>12
  <2> QED BY <1>1, <1>5, <2>1 DEF AllTried, IPsOf
<1>13. ASSUME v = "passed", NEW k \in DOMAIN t
       PROVE  setup.net[t[k].ip] = [tcp |-> "accepts", tls |-> "trusted"]
  <2>1. k \in 1 .. next BY <1>2
  <2>2. good = 1 .. next /\ ~setup.insecure /\ ~\E i \in good : slots[i] = "expiring"
    BY <1>10, <1>13
  <2>3. slots[k] = "success" BY <2>1, <2>2 DEF Successes
  <2>4. k \in DOMAIN slots BY <1>2, <2>1
  <2>5. Accepts(queue[k]) /\ setup.net[queue[k]].tls = "trusted"
    BY <1>1, <2>2, <2>3, <2>4 DEF Work, Answered
  <2>6. queue[k] \in IP BY <1>7, <2>4
  <2>7. setup.net[queue[k]] \in Servers BY <2>6, SetupIs DEF Work
  <2> QED BY <1>8, <2>5, <2>7 DEF Servers, Accepts
<1>14. ASSUME v = "failed" PROVE Every(t, Failures)
  <2>1. good = {} BY <1>10, <1>14
  <2>2. \A k \in 1 .. next : slots[k] \in Failures BY <1>2, <2>1 DEF Ended
  <2> QED BY <1>2, <1>8, <2>2 DEF Every
<1>15. TLSEarned'
  <2>1. Every(tls, Failures)' = Every(t, Failures) BY <1>1 DEF Every
  <2> QED BY <1>1, <1>4, <1>5, <1>11, <1>12, <1>13, <1>14, <2>1 DEF TLSEarned
\* The selected connection, where there is one.
<1>16. ASSUME NEW k \in DOMAIN tcp, tcp[k].selected
       PROVE  tcp[k].end = "success" /\ \A l \in DOMAIN tcp : tcp[l].selected => l = k
  BY <1>16 DEF Results, OneSelected
<1>17. ASSUME setup.mode # "matrix", NEW l \in DOMAIN tcp, tcp[l].selected, NEW k \in DOMAIN t
       PROVE  t[k].ip = tcp[l].ip
  <2>1. Candidates # <<>> BY <1>8, <1>17, EmptySlots
  <2>2. PICK j \in DOMAIN tcp :
          /\ tcp[j] \in Attempt /\ Candidates = <<[tcp[j] EXCEPT !.selected = TRUE]>>
          /\ (\E i \in DOMAIN tcp : tcp[i].end = "success" /\ tcp[i].selected) => tcp[j].selected
    BY <1>17, <2>1, ClientCandidate DEF Work
  <2>3. j = l BY <1>16, <1>17, <2>2
  <2>4. \A i \in DOMAIN Candidates : Candidates[i] = [tcp[j] EXCEPT !.selected = TRUE]
    <3> DEFINE r == [tcp[j] EXCEPT !.selected = TRUE]
    <3>1. Candidates = <<r>> BY <2>2
    <3> HIDE DEF r
    <3>2. \A i \in DOMAIN Candidates : Candidates[i] = r BY <3>1
    <3> QED BY <3>2 DEF r
  <2>5. [tcp[j] EXCEPT !.selected = TRUE].ip = tcp[j].ip BY <2>2 DEF Attempt
  <2> QED BY <1>8, <2>3, <2>4, <2>5
<1>18. ASSUME setup.mode = "matrix", NEW k \in DOMAIN t, t[k].selected
       PROVE  k \in DOMAIN tcp /\ tcp[k].selected /\ t[k].ip = tcp[k].ip
  BY <1>8, <1>18, MatrixCandidates DEF Work
<1>19. OneSelected'
  <2> DEFINE sel == {k \in DOMAIN tcp : tcp[k].selected}
  <2>1. \A k \in sel : setup.mode = "client" => IPsOf(t) \subseteq {tcp[k].ip}
    BY <1>17 DEF IPsOf
  <2>2. \A k \in DOMAIN t : t[k].selected /\ sel # {} => t[k].ip \in {tcp[l].ip : l \in sel}
    BY <1>17, <1>18
  <2>3. IPsOf(tls') = IPsOf(t) BY <1>1 DEF IPsOf
  <2>4. /\ \A k, l \in sel : k = l
        /\ \A k \in sel : /\ tcp[k].end = "success"
                          /\ setup.mode = "matrix" => \A j \in 1 .. k - 1 : tcp[j].end # "success"
        /\ verdict.tcp \in {"passed", "warning"} => sel # {}
    BY DEF Results, OneSelected
  <2> QED BY <1>1, <1>4, <1>5, <2>1, <2>2, <2>3, <2>4 DEF OneSelected
<1>20. Pending' BY <1>3, PendingStays DEF Results
<1> QED BY <1>1, <1>3, <1>15, <1>19, <1>20, OthersStay DEF Results, Earned

LEMMA EnterEarns ==
  ASSUME Work, Results, EnterRoute \/ EnterTCP \/ EnterTLS \/ StopCheck PROVE Results'
<1>1. CASE \E s : StartPool(s)
  BY <1>1, ResultsUntouched DEF StartPool, dns, results
<1>2. CASE EnterTCP /\ Dialled # <<>> /\ setup.mode # "matrix"
  BY <1>2, ResultsUntouched DEF EnterTCP, dns, results
<1>3. ASSUME NEW w \in {"stopped", "skipped", "failed"}, Judged(w), UNCHANGED <<resolved, routes, tcp, tls>>,
             w = "failed" => stage = "tls" /\ ~setup.ca
      PROVE  Results'
  <2>1. w \in Verdicts \ {"passed", "warning"} BY DEF Verdicts
  <2>2. stage = "dns" => w # "failed" BY <1>3
  <2> QED BY <1>3, <2>1, <2>2, NothingToEarn
<1>4. ASSUME NEW v \in {"skipped", "failed"}, Returns(v), stage \in Checks, UNCHANGED <<dns, results>>,
             v = "failed" => stage = "tls" /\ ~setup.ca
      PROVE  Results'
  <2> DEFINE w == IF ctx = "live" THEN v ELSE "stopped"
  <2>1. Judged(w) BY <1>4, ReturnsJudges DEF dns, results
  <2>2. w \in {"stopped", "skipped", "failed"} /\ (w = "failed" => v = "failed") OBVIOUS
  <2> HIDE DEF w
  <2> QED BY <1>3, <1>4, <2>1, <2>2 DEF dns, results
<1>5. CASE StopCheck
  <2>1. Judged("stopped") /\ UNCHANGED <<resolved, routes, tcp, tls>>
    BY <1>5 DEF StopCheck, Judged, dns, results, Work, TypeOK
  <2> QED BY <1>3, <2>1
<1>6. CASE EnterRoute
  <2>1. stage \in Checks BY <1>6 DEF EnterRoute, Entering, Checks
  <2>2. (\E s : StartPool(s)) \/ (Returns("skipped") /\ UNCHANGED <<dns, results>>)
    BY <1>6 DEF EnterRoute
  <2> QED BY <1>1, <1>4, <2>1, <2>2
<1>7. CASE EnterTCP
  <2>1. stage \in Checks BY <1>7 DEF EnterTCP, Entering, Checks
  <2>2. \/ \E s : StartPool(s)
        \/ Returns("skipped") /\ UNCHANGED <<dns, results>>
        \/ Dialled # <<>> /\ setup.mode # "matrix"
    BY <1>7 DEF EnterTCP
  <2> QED BY <1>1, <1>2, <1>4, <1>7, <2>1, <2>2
<1>8. CASE EnterTLS
  <2>1. stage = "tls" /\ stage \in Checks BY <1>8 DEF EnterTLS, Entering, Checks
  <2>2. \/ \E s : StartPool(s)
        \/ Returns("skipped") /\ UNCHANGED <<dns, results>>
        \/ Returns("failed") /\ UNCHANGED <<dns, results>> /\ ~setup.ca
    BY <1>8 DEF EnterTLS
  <2> QED BY <1>1, <1>4, <2>1, <2>2
<1> QED BY <1>5, <1>6, <1>7, <1>8

LEMMA ResultsInit == Init => Results
<1> SUFFICES ASSUME Init PROVE Results
  OBVIOUS
<1>1. \A c \in Checks : verdict[c] = "none" BY DEF Init
<1>2. {"dns", "route", "tcp", "tls"} = Checks BY DEF Checks
<1>3. verdict.dns = "none" /\ verdict.route = "none" /\ verdict.tcp = "none" /\ verdict.tls = "none"
  BY <1>1, <1>2
<1>4. routes = <<>> /\ tcp = <<>> /\ tls = <<>> /\ DOMAIN tcp = {} /\ DOMAIN tls = {}
  BY EmptySlots DEF Init
<1>5. Pending
  <2>1. Upcoming \subseteq Checks BY DEF Upcoming, Checks
  <2> QED BY <1>1, <1>4, <2>1 DEF Pending
<1>6. Earned BY <1>3 DEF Earned, DNSEarned, RouteEarned, TCPEarned, TLSEarned
<1>7. OneSelected BY <1>3, <1>4 DEF OneSelected
<1> QED BY <1>5, <1>6, <1>7 DEF Results

LEMMA ResultsStay == Work /\ IInv /\ Results /\ [Next]_vars => Results'
<1> SUFFICES ASSUME Work, IInv, Results, [Next]_vars PROVE Results'
  OBVIOUS
<1>1. CASE \/ UNCHANGED vars \/ SenderChecks \/ SenderHandsOver \/ SenderStops \/ EnterDNS
           \/ RaceStops \/ TimerFires \/ CheckExpires
           \/ \E i \in DOMAIN slots : ReceiveWinner(i) \/ ReceiveLoser(i) \/ AttemptEnds(i)
           \/ \E e \in {"cancelled", "deadline"} : RunEnds(e)
           \/ \E f \in Families, e \in LookupEnd : LookupEnds(f, e)
  <2>1. UNCHANGED <<setup, resolved, routes, tcp, tls, verdict, stage>>
    BY <1>1 DEF vars, dns, results, SenderChecks, SenderHandsOver, SenderStops, EnterDNS, RaceStops,
                TimerFires, CheckExpires, ReceiveWinner, ReceiveLoser, AttemptEnds, RunEnds, LookupEnds
  <2> QED BY <2>1, ResultsUntouched
<1>2. CASE Progress
  BY <1>1, <1>2, EnterEarns, NamesEarned, RouteEarns, MatrixEarns, RaceEarns, TLSEarns DEF Progress
<1> QED BY <1>1, <1>2 DEF Next, Terminated

LEMMA Invariance == Spec => [](Work /\ Results)
<1>1. Spec => []IInv BY IInvInit, IInvStep, PTL DEF Spec
<1> QED BY <1>1, WorkInit, WorkStays, ResultsInit, ResultsStay, PTL DEF Spec

\* Every variable of the checks has its type.
THEOREM TypeCorrect == Spec => []TypeOK
<1>1. Work => TypeOK BY DEF Work
<1> QED BY <1>1, Invariance, PTL

\* A verdict the engine records says what the network is, however the attempts,
\* the timer and the contexts interleaved (Engine.runCheck around dns.Check,
\* route.Check, tcp.Check and tls.Check).
THEOREM VerdictsSayWhatWasSeen == Spec => []VerdictsAreEarned
<1>1. Results => VerdictsAreEarned BY EarnedIs DEF Results
<1> QED BY <1>1, Invariance, PTL

\* One connection is the selected one, and TLS speaks to it (runMatrix,
\* runClientEffective, selectCandidates).
THEOREM OneIsSelected == Spec => []OneSelected
<1>1. Results => OneSelected BY DEF Results
<1> QED BY <1>1, Invariance, PTL
=============================================================================
