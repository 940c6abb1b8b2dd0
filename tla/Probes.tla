------------------------------- MODULE Probes -------------------------------
(***************************************************************************)
(* The direct checks of a diagnosis (internal/diagnostics/checks): DNS     *)
(* resolution, source discovery, TCP connection and TLS handshake, one     *)
(* after the other over the run's shared State.  Route, TLS and the        *)
(* address matrix of TCP probe a list of addresses with a pool of workers; *)
(* the client-effective TCP probe races two of them.  Engine.runCheck is   *)
(* around each: it gives the check a context and overrides its verdict     *)
(* when that context has ended.                                            *)
(*                                                                         *)
(* What an address answers is the setup's and does not change.  Time is    *)
(* the events it causes.  Evidence, durations, error texts and the graph   *)
(* of network paths are left out; why a run was stopped is Diagnosis's.    *)
(***************************************************************************)
EXTENDS Naturals, FiniteSets, SequencesExt

CONSTANTS IP4, IP6,   \* the addresses of each family
          NoIP,       \* no address
          Setups      \* options, target and network of the runs considered

IP == IP4 \cup IP6
Families == {"ip4", "ip6"}
Servers == [tcp : {"accepts", "refuses", "silent", "unroutable"},
            tls : {"trusted", "expiring", "untrusted", "broken", "mute"}]

ASSUME AddressAssumption == IP4 \cap IP6 = {} /\ NoIP \notin IP

\* DiagnoseOptions after normalizeOptions, with the target and the network: a
\* connect IP is of the requested family, the limit is at least one, and names
\* is what the resolver has, normalised (dns.normalize sorts and deduplicates);
\* a resolver that is not flaky answers.
ASSUME SetupsAssumption ==
  \A s \in Setups :
    /\ s.mode \in {"client", "matrix"}
    /\ s.limit \in 1 .. 16
    /\ s.workers \in 1 .. 32
    /\ s.version \in {"auto", "4", "6"}
    /\ s.connect \in IP \cup {NoIP} /\ s.literal \in IP \cup {NoIP}
    /\ s.connect \in IP4 => s.version # "6"
    /\ s.connect \in IP6 => s.version # "4"
    /\ s.names.ip4 \in Seq(IP4) /\ s.names.ip6 \in Seq(IP6)
    /\ {s.details, s.interfaces, s.tls, s.insecure, s.ca, s.budget, s.flaky} \subseteq BOOLEAN
    /\ s.net \in [IP -> Servers]

-----------------------------------------------------------------------------

VARIABLES
  setup,     \* the run's member of Setups
  run,       \* the run's context: live, cancelled or deadline
  ctx,       \* the context of the check that runs
  stage,     \* the check that is next or runs; "end" behind the last one
  phase,     \* where the check is
  queue,     \* the addresses the check probes, in order
  slots,     \* per address of queue: queued, running or how the attempt ended
  next,      \* how many of them have been started
  received,  \* race: the attempts whose outcome the check has received
  winner,    \* race: the attempt that is marked as selected, 0 for none
  timer,     \* race: the Happy Eyeballs timer has not fired yet
  lookups,   \* DNS: how the lookup of each family ended
  resolved,  \* State.DNS(): the addresses of each family
  routes,    \* State.Routes()
  tcp,       \* State.TCP()
  tls,       \* State.TLSAttempts()
  verdict    \* per check: the status the engine recorded

dns == <<lookups, resolved>>
race == <<received, winner, timer>>
pool == <<queue, slots, next>>
results == <<routes, tcp, tls>>
vars == <<setup, run, ctx, stage, phase, pool, race, dns, results, verdict>>

Checks == {"dns", "route", "tcp", "tls"}
After(s) == CASE s = "dns" -> "route" [] s = "route" -> "tcp"
              [] s = "tcp" -> "tls" [] OTHER -> "end"

Failures == {"failed", "timeout", "cancelled", "rejected"}
Successes == {"success", "expiring"}
Ended == Failures \cup Successes

Init ==
  /\ setup \in Setups
  /\ run = "live" /\ ctx = "live"
  /\ stage = "dns" /\ phase = "enter"
  /\ queue = <<>> /\ slots = <<>> /\ next = 0
  /\ received = {} /\ winner = 0 /\ timer = FALSE
  /\ lookups = [f \in Families |-> "pending"]
  /\ resolved = [f \in Families |-> <<>>]
  /\ routes = <<>> /\ tcp = <<>> /\ tls = <<>>
  /\ verdict = [c \in Checks |-> "none"]

-----------------------------------------------------------------------------
(* The contexts, and the engine around a check.                            *)

\* The caller cancels, or a deadline of the run (its timeout or the auxiliary
\* budget) passes; a context keeps the error it ended with first.
RunEnds(e) ==
  /\ stage # "end" /\ run = "live"
  /\ run' = e
  /\ ctx' = IF ctx = "live" THEN e ELSE ctx
  /\ UNCHANGED <<setup, stage, phase, pool, race, dns, results, verdict>>

\* The check's own timeout passes.
CheckExpires ==
  /\ phase # "enter" /\ ctx = "live"
  /\ ctx' = "deadline"
  /\ UNCHANGED <<setup, run, stage, phase, pool, race, dns, results, verdict>>

\* runCheck for a run that has ended: the check is not started.
StopCheck ==
  /\ stage # "end" /\ phase = "enter" /\ run # "live"
  /\ verdict' = [verdict EXCEPT ![stage] = "stopped"]
  /\ stage' = After(stage)
  /\ ctx' = run
  /\ UNCHANGED <<setup, run, phase, pool, race, dns, results>>

Entering(s) == stage = s /\ phase = "enter" /\ run = "live"

\* A bug: the engine takes the verdict of the check as it is.
ReturnsUnjudged(v) ==
  /\ verdict' = [verdict EXCEPT ![stage] = v]
  /\ stage' = After(stage)
  /\ phase' = "enter"
  /\ queue' = <<>> /\ slots' = <<>> /\ next' = 0
  /\ received' = {} /\ winner' = 0 /\ timer' = FALSE
  /\ ctx' = run
  /\ UNCHANGED <<setup, run>>

\* Check.Run returned v: runCheck's override for a context that has ended.
Returns(v) ==
  /\ verdict' = [verdict EXCEPT ![stage] = IF ctx = "live" THEN v ELSE "stopped"]
  /\ stage' = After(stage)
  /\ phase' = "enter"
  /\ queue' = <<>> /\ slots' = <<>> /\ next' = 0
  /\ received' = {} /\ winner' = 0 /\ timer' = FALSE
  /\ ctx' = run
  /\ UNCHANGED <<setup, run>>

-----------------------------------------------------------------------------
(* dns.Check: two lookups side by side.                                    *)

FamilyOf(a) == IF a \in IP4 THEN "ip4" ELSE "ip6"
Other(f) == IF f = "ip4" THEN "ip6" ELSE "ip4"
Requested == CASE setup.version = "4" -> {"ip4"} [] setup.version = "6" -> {"ip6"}
               [] OTHER -> Families

\* The target is an IP literal: no lookup.
EnterLiteral ==
  /\ Entering("dns") /\ setup.literal # NoIP
  /\ resolved' = [f \in Families |->
                    IF f = FamilyOf(setup.literal) THEN <<setup.literal>> ELSE <<>>]
  /\ Returns(IF FamilyOf(setup.literal) \in Requested THEN "passed" ELSE "failed")
  /\ UNCHANGED <<lookups, results>>

EnterDNS ==
  /\ Entering("dns") /\ setup.literal = NoIP
  /\ phase' = "lookup" /\ ctx' = "live"
  /\ UNCHANGED <<setup, run, stage, pool, race, dns, results, verdict>>

\* The resolver reports an empty answer as an error that means "not found"; an
\* adapter may also report it as no error.
LookupEnds(f, e) ==
  /\ phase = "lookup" /\ lookups[f] = "pending"
  /\ setup.flaky \/ e = "answered"
  /\ e = "notfound" => setup.names[f] = <<>>
  /\ e = "cancelled" => ctx = "cancelled"
  /\ lookups' = [lookups EXCEPT ![f] = e]
  /\ UNCHANGED <<setup, run, ctx, stage, phase, pool, race, resolved, results, verdict>>

Addresses(f) == IF lookups[f] = "answered" THEN setup.names[f] ELSE <<>>

\* classifyFamilyLookup, refined by the detailed resolver (mergeDetailedFamilies)
\* where it knows more about a family without addresses.
Status(f, detail) ==
  IF Addresses(f) # <<>> THEN "success"
  ELSE IF detail[f] # "none" THEN detail[f]
  ELSE IF lookups[f] = "answered" THEN "nodata"
  ELSE lookups[f]

\* evaluateFamilyResults, after applyResolvedFamilyMismatch, which changes the
\* code of a failure and not the verdict.  Without addresses only "no data"
\* next to addresses of the other family is normal, and only in auto mode.
Evaluate(detail, detailFails) ==
  LET usable(f) == Addresses(f) # <<>>
      normal(f) == setup.version = "auto" /\ Status(f, detail) = "nodata" /\ usable(Other(f))
  IN IF \A f \in Requested : ~usable(f) THEN "failed"
     ELSE IF detailFails \/ \E f \in Requested : ~usable(f) /\ ~normal(f) THEN "warning"
     ELSE "passed"

Details == IF setup.details THEN [Families -> {"none", "nodata", "nxdomain", "servfail"}]
                            ELSE {[f \in Families |-> "none"]}

DNSReturns ==
  /\ phase = "lookup"
  /\ \A f \in Families : lookups[f] # "pending"
  /\ resolved' = [f \in Families |-> Addresses(f)]
  /\ \E detail \in Details, fails \in (IF setup.details THEN BOOLEAN ELSE {FALSE}) :
       Returns(Evaluate(detail, fails))
  /\ lookups' = [f \in Families |-> "pending"]
  /\ UNCHANGED results

\* The limit of the client-effective mode is at most two.
Bound == IF setup.mode = "client" /\ setup.limit > 2 THEN 2 ELSE setup.limit
Bounded(s) == SubSeq(s, 1, IF Bound < Len(s) THEN Bound ELSE Len(s))

\* dns.SelectAddresses
Selection ==
  IF setup.connect # NoIP THEN <<setup.connect>>
  ELSE Bounded((IF "ip4" \in Requested THEN resolved.ip4 ELSE <<>>)
               \o (IF "ip6" \in Requested THEN resolved.ip6 ELSE <<>>))

\* tcp.Check: usableAddresses and selectAddresses, or the connect IP.
Dialled ==
  IF setup.connect # NoIP THEN <<setup.connect>>
  ELSE Bounded(resolved.ip4 \o resolved.ip6)

-----------------------------------------------------------------------------
(* One attempt.                                                            *)

\* How an attempt at a ends when no context interferes.  The operating system
\* gives up on a silent address at some time of its own.
Natural(a) ==
  LET server == setup.net[a] IN
  IF stage = "route" THEN IF server.tcp = "unroutable" THEN "failed" ELSE "success"
  ELSE IF server.tcp = "silent" THEN "timeout"
  ELSE IF server.tcp \in {"refuses", "unroutable"} THEN "failed"
  ELSE IF stage = "tcp" THEN "success"
  ELSE IF server.tls = "mute" THEN "timeout"
  ELSE IF server.tls = "broken" THEN "failed"
  ELSE IF server.tls = "untrusted" THEN IF setup.insecure THEN "success" ELSE "rejected"
  ELSE IF server.tls = "expiring" THEN "expiring"
  ELSE "success"

\* A bug: the context of an attempt is not derived from the check's.
AttemptCtxDetached == IF phase \in {"won", "stopped"} THEN "cancelled" ELSE "live"

\* The race cancels the context of its attempts when it is decided.
AttemptCtx == IF ctx = "live" /\ phase \in {"won", "stopped"} THEN "cancelled" ELSE ctx

\* An attempt that fails under a cancelled context is recorded as cancelled;
\* the route check takes any end of its context for that.  A certificate that
\* was received and rejected stays rejected.
Interrupted == AttemptCtx = "cancelled" \/ (stage = "route" /\ ctx # "live")

\* Only the address matrix gives an attempt less time than the check has.
EndsOf(a) ==
  LET ends == {Natural(a)}
                \cup (IF setup.mode = "matrix" /\ setup.budget THEN {"timeout"} ELSE {})
                \cup (IF AttemptCtx # "live" THEN {"timeout"} ELSE {})
  IN {IF Interrupted /\ e \in {"failed", "timeout"} THEN "cancelled" ELSE e : e \in ends}

AttemptEnds(i) ==
  /\ i \in DOMAIN slots /\ slots[i] = "running"
  /\ \E e \in EndsOf(queue[i]) : slots' = [slots EXCEPT ![i] = e]
  /\ UNCHANGED <<setup, run, ctx, stage, phase, queue, next, race, dns, results, verdict>>

Running == {i \in DOMAIN slots : slots[i] = "running"}

-----------------------------------------------------------------------------
(* The pool of workers of route.Check, tls.Check and tcp.Check.runMatrix.  *)

\* TLS hands addresses over without looking at the context first.
Offering == IF stage = "tls" THEN "select" ELSE "check"

StartPool(s) ==
  /\ queue' = s
  /\ slots' = [i \in DOMAIN s |-> "queued"]
  /\ next' = 0
  /\ phase' = Offering
  /\ UNCHANGED <<setup, run, ctx, stage, race, dns, results, verdict>>

\* ctx.Err() at the head of the loop.
SenderChecks ==
  /\ phase = "check"
  /\ phase' = IF ctx = "live" THEN "select" ELSE "closed"
  /\ UNCHANGED <<setup, run, ctx, stage, pool, race, dns, results, verdict>>

\* jobs <- index: a worker is free and takes the next address.
SenderHandsOver ==
  /\ phase = "select" /\ Cardinality(Running) < setup.workers
  /\ next' = next + 1
  /\ slots' = [slots EXCEPT ![next + 1] = "running"]
  /\ phase' = IF next + 1 = Len(queue) THEN "closed" ELSE Offering
  /\ UNCHANGED <<setup, run, ctx, stage, queue, race, dns, results, verdict>>

\* <-ctx.Done(), which the select may also prefer to a free worker.
SenderStops ==
  /\ phase = "select" /\ ctx # "live"
  /\ phase' = "closed"
  /\ UNCHANGED <<setup, run, ctx, stage, pool, race, dns, results, verdict>>

PoolIsDone == phase = "closed" /\ Running = {}

\* startedAttempts and its likes: what was never started leaves no record.
Started == {i \in DOMAIN slots : slots[i] # "queued"}
Nth(k) == CHOOSE i \in Started : Cardinality({j \in Started : j <= i}) = k
Attempts(chosen) ==
  [k \in 1 .. Cardinality(Started) |->
     [ip |-> queue[Nth(k)], end |-> slots[Nth(k)], selected |-> Nth(k) \in chosen]]

-----------------------------------------------------------------------------
(* route.Check                                                             *)

EnterRoute ==
  /\ Entering("route")
  /\ IF Selection = <<>>
     THEN Returns("skipped") /\ UNCHANGED <<dns, results>>
     ELSE StartPool(Selection)

\* A failed discovery is worth a warning: a route that is missing shows later.
\* interfaces is FALSE when their enumeration is incomplete.
RouteReturns ==
  /\ stage = "route" /\ PoolIsDone
  /\ routes' = Attempts({})
  /\ Returns(IF ctx # "live" THEN "cancelled"
             ELSE IF setup.interfaces /\ \A i \in DOMAIN slots : slots[i] = "success" THEN "passed"
             ELSE "warning")
  /\ UNCHANGED <<dns, tcp, tls>>

-----------------------------------------------------------------------------
(* tcp.Check                                                               *)

EnterTCP ==
  /\ Entering("tcp")
  /\ CASE Dialled = <<>> -> Returns("skipped") /\ UNCHANGED <<dns, results>>
       [] Dialled # <<>> /\ setup.mode = "matrix" -> StartPool(Dialled)
       [] OTHER ->
            /\ queue' = Dialled
            /\ slots' = [i \in DOMAIN Dialled |-> IF i = 1 THEN "running" ELSE "queued"]
            /\ next' = 1
            /\ timer' = TRUE
            /\ phase' = "race"
            /\ UNCHANGED <<setup, run, ctx, stage, received, winner, dns, results, verdict>>

\* Check.result
TCPVerdict(attempts, cancelled) ==
  LET good == {k \in DOMAIN attempts : attempts[k].end = "success"} IN
  IF cancelled THEN "cancelled"
  ELSE IF setup.mode = "client" /\ \E k \in good : attempts[k].selected THEN "passed"
  ELSE IF good = DOMAIN attempts THEN "passed"
  ELSE IF good # {} THEN "warning"
  ELSE "failed"

TCPReturns(attempts, cancelled) ==
  /\ tcp' = attempts
  /\ Returns(TCPVerdict(attempts, cancelled))
  /\ UNCHANGED <<dns, routes, tls>>

\* A bug: every success is marked.
PreferredAll == {i \in DOMAIN slots : slots[i] = "success"}

\* runMatrix marks the first success in the order of the addresses.
Preferred ==
  {i \in DOMAIN slots : slots[i] = "success" /\ \A j \in 1 .. i - 1 : slots[j] # "success"}

MatrixReturns ==
  /\ stage = "tcp" /\ PoolIsDone
  /\ TCPReturns(Attempts(Preferred), ctx # "live")

\* start(started - 1), unless every address has been started.
StartAnother ==
  IF next < Len(queue)
  THEN next' = next + 1 /\ slots' = [slots EXCEPT ![next + 1] = "running"]
  ELSE UNCHANGED <<next, slots>>

Undecided == phase = "race" /\ Cardinality(received) < next
Arrived == {i \in DOMAIN slots : slots[i] \in Ended} \ received

\* <-outcomes while the race is on.
ReceiveWinner(i) ==
  /\ Undecided /\ i \in Arrived /\ slots[i] = "success"
  /\ received' = received \cup {i}
  /\ winner' = i
  /\ phase' = "won"
  /\ UNCHANGED <<setup, run, ctx, stage, pool, timer, dns, results, verdict>>

ReceiveLoser(i) ==
  /\ Undecided /\ i \in Arrived /\ slots[i] # "success"
  /\ received' = received \cup {i}
  /\ StartAnother
  /\ UNCHANGED <<setup, run, ctx, stage, phase, queue, winner, timer, dns, results, verdict>>

\* A bug: the second address waits for the first to fail.
TimerFiresInVain ==
  /\ Undecided /\ timer
  /\ timer' = FALSE
  /\ UNCHANGED <<setup, run, ctx, stage, phase, pool, received, winner, dns, results, verdict>>

\* <-timer.C
TimerFires ==
  /\ Undecided /\ timer
  /\ timer' = FALSE
  /\ StartAnother
  /\ UNCHANGED <<setup, run, ctx, stage, phase, queue, received, winner, dns, results, verdict>>

\* <-ctx.Done(); an outcome that has arrived may still be preferred.
RaceStops ==
  /\ Undecided /\ ctx # "live"
  /\ phase' = "stopped"
  /\ UNCHANGED <<setup, run, ctx, stage, pool, race, dns, results, verdict>>

\* A bug: the winner does not wait for the loser.
RaceReturnsAtOnce ==
  /\ \/ phase = "race" /\ Cardinality(received) = next
     \/ phase \in {"won", "stopped"}
  /\ TCPReturns(Attempts({winner}),
                phase = "stopped" \/ (phase = "race" /\ ctx # "live"))

\* A race that is decided, or stopped, takes the outcomes that are left.
RaceReturns ==
  /\ \/ phase = "race" /\ Cardinality(received) = next
     \/ phase \in {"won", "stopped"} /\ Running = {}
  /\ TCPReturns(Attempts({winner}),
                phase = "stopped" \/ (phase = "race" /\ ctx # "live"))

-----------------------------------------------------------------------------
(* tls.Check                                                               *)

\* selectCandidates: every address TCP has started, or the connection TCP
\* selected, or else the first that succeeded.
Candidates ==
  LET limit == IF Len(tcp) < setup.limit THEN Len(tcp) ELSE setup.limit
      good == {k \in DOMAIN tcp : tcp[k].end = "success"}
      best == IF \E k \in good : tcp[k].selected
              THEN CHOOSE k \in good : tcp[k].selected
              ELSE CHOOSE k \in good : \A j \in good : k <= j
  IN IF setup.mode = "matrix" THEN SubSeq(tcp, 1, limit)
     ELSE IF good = {} THEN <<>>
     ELSE <<[tcp[best] EXCEPT !.selected = TRUE]>>

EnterTLS ==
  /\ Entering("tls")
  /\ LET skipped == IF ~setup.tls \/ Candidates = <<>> THEN "skipped"
                    ELSE IF ~setup.ca THEN "failed"
                    ELSE "none"
     IN IF skipped # "none" THEN Returns(skipped) /\ UNCHANGED <<dns, results>>
        ELSE StartPool([k \in DOMAIN Candidates |-> Candidates[k].ip])

\* aggregateResult: it counts the attempts that were started, and only the
\* engine knows that others were not.
TLSVerdict ==
  LET good == {i \in Started : slots[i] \in Successes}
  IN IF Started = {} THEN "cancelled"
     ELSE IF good = {} THEN
       IF ctx = "cancelled" /\ \A i \in Started : slots[i] = "cancelled" THEN "cancelled" ELSE "failed"
     ELSE IF good # Started \/ setup.insecure \/ (\E i \in good : slots[i] = "expiring") THEN "warning"
     ELSE "passed"

TLSReturns ==
  /\ stage = "tls" /\ PoolIsDone
  /\ tls' = Attempts({i \in DOMAIN slots : Candidates[i].selected})
  /\ Returns(TLSVerdict)
  /\ UNCHANGED <<dns, routes, tcp>>

-----------------------------------------------------------------------------

Terminated == stage = "end" /\ UNCHANGED vars

\* What the program does of itself.
Progress ==
  \/ StopCheck
  \/ EnterLiteral \/ EnterDNS \/ DNSReturns
  \/ EnterRoute \/ RouteReturns
  \/ SenderChecks \/ SenderHandsOver \/ SenderStops
  \/ EnterTCP \/ MatrixReturns
  \/ \E i \in DOMAIN slots : ReceiveWinner(i) \/ ReceiveLoser(i)
  \/ RaceStops \/ RaceReturns
  \/ EnterTLS \/ TLSReturns

LookupEnd == {"answered", "notfound", "timeout", "cancelled", "failed"}

Next ==
  \/ \E e \in {"cancelled", "deadline"} : RunEnds(e)
  \/ CheckExpires
  \/ \E f \in Families, e \in LookupEnd : LookupEnds(f, e)
  \/ \E i \in DOMAIN slots : AttemptEnds(i)
  \/ TimerFires
  \/ Progress
  \/ Terminated

Spec == Init /\ [][Next]_vars

\* What is sure to end without a deadline: an attempt at an address that
\* answers, and whatever has a budget of its own or an ended context (dialers
\* and resolvers honour their context).
Answers(i) ==
  \/ AttemptCtx # "live"
  \/ setup.mode = "matrix" /\ setup.budget
  \/ Natural(queue[i]) # "timeout"

\* No fairness of deadlines: a check that has to wait for its own is late.
FairSpec ==
  /\ Spec
  /\ WF_vars(Progress)
  /\ WF_vars(TimerFires)
  /\ WF_vars(\E i \in DOMAIN slots : Answers(i) /\ AttemptEnds(i))
  /\ WF_vars(ctx # "live" /\ \E f \in Families, e \in LookupEnd : LookupEnds(f, e))

-----------------------------------------------------------------------------

Attempt == [ip : IP, end : Ended, selected : BOOLEAN]
Verdicts == {"none", "passed", "warning", "failed", "skipped", "cancelled", "stopped"}

\* Every variable has its type.
TypeOK ==
  /\ setup \in Setups
  /\ run \in {"live", "cancelled", "deadline"} /\ ctx \in {"live", "cancelled", "deadline"}
  /\ stage \in Checks \cup {"end"}
  /\ phase \in {"enter", "lookup", "check", "select", "closed", "race", "won", "stopped"}
  /\ queue \in Seq(IP)
  /\ slots \in [DOMAIN queue -> {"queued", "running"} \cup Ended]
  /\ next \in 0 .. Len(queue) /\ winner \in 0 .. Len(queue)
  /\ received \subseteq DOMAIN queue
  /\ timer \in BOOLEAN
  /\ lookups \in [Families -> {"pending"} \cup LookupEnd]
  /\ resolved \in [Families -> Seq(IP)]
  /\ routes \in Seq(Attempt) /\ tcp \in Seq(Attempt) /\ tls \in Seq(Attempt)
  /\ verdict \in [Checks -> Verdicts]

IPsOf(attempts) == {attempts[k].ip : k \in DOMAIN attempts}
Every(attempts, ends) == \A k \in DOMAIN attempts : attempts[k].end \in ends

\* A verdict the engine records says what the network is, however the attempts,
\* the timer and the context interleaved.  Failed means that every address of
\* the check's list was tried to its end and none was usable; passed means that
\* all were (tcp in client mode: the selected one), a TLS check in particular
\* does not pass on a part of its candidates, which aggregateResult alone would
\* let it (tls/check.go:591 counts only what was started).  DNS fails exactly
\* when it leaves the later checks nothing to probe (two separate readings of
\* the requested family, dns/result.go:207 and dns/selection.go:29).
VerdictsAreEarned ==
  /\ verdict.route = "passed" =>
       IPsOf(routes) = ToSet(Selection) /\ Every(routes, {"success"})
  /\ verdict.tcp = "passed" =>
       IF setup.mode = "client"
       THEN \E k \in DOMAIN tcp : tcp[k].selected /\ setup.net[tcp[k].ip].tcp = "accepts"
       ELSE IPsOf(tcp) = ToSet(Dialled) /\ Every(tcp, {"success"})
  /\ verdict.tcp \in {"warning", "failed"} => IPsOf(tcp) = ToSet(Dialled)
  /\ verdict.tcp = "failed" => Every(tcp, Failures)
  /\ verdict.tls = "passed" =>
       /\ {Candidates[k].ip : k \in DOMAIN Candidates} = IPsOf(tls)
       /\ \A k \in DOMAIN tls : setup.net[tls[k].ip] = [tcp |-> "accepts", tls |-> "trusted"]
  /\ verdict.tls = "failed" /\ setup.ca =>
       /\ {Candidates[k].ip : k \in DOMAIN Candidates} = IPsOf(tls)
       /\ Every(tls, Failures)
  /\ setup.connect = NoIP =>
       /\ verdict.dns \in {"passed", "warning"} => Selection # <<>>
       /\ verdict.dns = "failed" => Selection = <<>>

\* One connection is the selected one: at most one attempt of TCP, a success,
\* in the matrix the first by address and not by time; there is one when TCP
\* found the target reachable; and TLS in client mode speaks to that address
\* only (docs/diagnostic-model.md:247: "TLS follows only the selected
\* successful TCP attempt").
OneSelected ==
  LET chosen == {k \in DOMAIN tcp : tcp[k].selected} IN
  /\ \A k, l \in chosen : k = l
  /\ \A k \in chosen :
       /\ tcp[k].end = "success"
       /\ setup.mode = "matrix" => \A j \in 1 .. k - 1 : tcp[j].end # "success"
       /\ setup.mode = "client" => IPsOf(tls) \subseteq {tcp[k].ip}
  /\ verdict.tcp \in {"passed", "warning"} => chosen # {}
  /\ \A k \in DOMAIN tls : tls[k].selected /\ chosen # {} => tls[k].ip \in {tcp[l].ip : l \in chosen}

\* No attempt outlives its check: when a check returns, the goroutines it has
\* started are done, also the losers of a race and the workers of a pool that
\* was cancelled with addresses left.
NothingRunsBehind == [][stage' # stage => Running = {}]_vars

\* The Happy Eyeballs promise: as long as one of the addresses raced accepts,
\* the client-effective check returns without any deadline, though the other
\* address never answers; the loser is cancelled, not awaited.
HappyEyeballs ==
  (phase = "race" /\ \E i \in DOMAIN queue : setup.net[queue[i]].tcp = "accepts")
    ~> (stage # "tcp")

\* A check whose context has ended returns.
EndedCheckReturns == \A c \in Checks : (stage = c /\ ctx # "live") ~> (stage # c)

\* "AddressSelection is the bounded, deterministic backend set consumed by route,
\* TCP, and TLS checks" (dns/selection.go:10): what TCP has dialled is in it.
SameBackends == IPsOf(tcp) \subseteq ToSet(Selection)

=============================================================================
