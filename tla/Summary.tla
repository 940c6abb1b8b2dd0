------------------------------- MODULE Summary -------------------------------
(***************************************************************************)
(* summary.Build (internal/diagnostics/summary/summary.go): the conclusion *)
(* of a diagnosis, as a function of the results of its checks.  Facts are  *)
(* gathered, every rule that applies adds a candidate, and the candidate   *)
(* of the highest severity, then priority, is the conclusion.              *)
(*                                                                         *)
(* A result is kept to what the rules read: its check, status and error    *)
(* code, the evidence codes in says, the route of an HTTP result ("none"   *)
(* when it was not recorded) and the auxiliary role.  Titles are           *)
(* abstracted to the rule that writes them; the variants of a title for a  *)
(* proxied or a mixed route, and the wording, are left out.                *)
(***************************************************************************)
EXTENDS Subsequences, Naturals, SequencesExt

Layer == [target |-> 0, environment |-> 1, dns |-> 2, route |-> 3, tcp |-> 4,
          tls |-> 5, http |-> 6]

Informational == 0
DegradedPath == 1
Interrupted == 2
Blocking == 3

-----------------------------------------------------------------------------
(* Sequences of results, and of what is made of them.                      *)

Ids(rs) == [i \in DOMAIN rs |-> rs[i].id]
First(rs) == IF rs = <<>> THEN <<>> ELSE <<Head(rs)>>
Each(rs, Make(_)) == [i \in DOMAIN rs |-> Make(rs[i])]
When(condition, candidate) == IF condition THEN <<candidate>> ELSE <<>>

Where(rs, Is(_)) == Kept(rs, {i \in DOMAIN rs : Is(rs[i])})
ByID(rs, id) == First(Where(rs, LAMBDA r : r.id = id))
WithCode(rs, code) == Where(rs, LAMBDA r : r.code = code)
WithStatus(rs, status) == Where(rs, LAMBDA r : r.status = status)

Candidate(severity, priority, status, rule, about) ==
  [severity |-> severity, priority |-> priority, status |-> status,
   rule |-> rule, about |-> about]
Blocker(priority, rule, about) == Candidate(Blocking, priority, "failed", rule, about)
Degraded(priority, rule, about) == Candidate(DegradedPath, priority, "warning", rule, about)

-----------------------------------------------------------------------------
IsPreflight(r) == r.auxiliary \/ r.id \in {"dns", "route", "tcp", "tls"}

\* collectFacts; environment and http hold at most one result.
Facts(rs) ==
  LET environment == ByID(rs, "environment")
      http == ByID(rs, "http")
      route == IF http = <<>> THEN "none" ELSE http[1].route
      reached == http # <<>> /\ http[1].status \in {"passed", "warning"}
  IN [results |-> rs,
      environment |-> environment,
      http |-> http,
      route |-> route,
      reached |-> reached,
      selected |-> CASE route \in {"proxy", "mixed"} -> TRUE
                     [] route \in {"direct", "blocked"} -> FALSE
                     [] OTHER -> environment # <<>>
                                   /\ "PROXY_SELECTED" \in environment[1].says,
      discrepancies |->
        IF reached
        THEN Where(rs, LAMBDA r : IsPreflight(r) /\ r.status = "failed")
        ELSE <<>>]

\* isPreflightDiscrepancy
Discrepancy(f, r) == f.reached /\ r.status = "failed" /\ IsPreflight(r)

\* isAuxiliaryPreflight
Auxiliary(f, r) == f.http # <<>> /\ (r.auxiliary \/ (f.selected /\ IsPreflight(r)))

\* checkTimeoutSuperseded: a later layer failed.
Superseded(f, r) ==
  /\ r.code = "CHECK_TIMEOUT"
  /\ \E s \in ToSet(f.results) :
       s.status = "failed" /\ ~Auxiliary(f, s) /\ Layer[s.id] > Layer[r.id]

Excused(f, r) == Discrepancy(f, r) \/ Auxiliary(f, r) \/ Superseded(f, r)

-----------------------------------------------------------------------------
(* The candidates, in the order they are added.                            *)

RelevantTimeouts(f) ==
  First(Where(f.results, LAMBDA r : r.code = "CHECK_TIMEOUT" /\ ~Excused(f, r)))

InvalidProxy(rs) ==
  Where(rs, LAMBDA r : r.code = "PROXY_CONFIG_INVALID"
                             \/ "PROXY_CONFIG_INVALID" \in r.says)

EarlyCandidates(f) ==
  LET rs == f.results
      timedOut == First(WithCode(rs, "OPERATION_TIMEOUT"))
      relevant == RelevantTimeouts(f)
      target == ByID(WithStatus(rs, "failed"), "target")
      invalid == InvalidProxy(rs)
      dns == ByID(WithStatus(rs, "failed"), "dns")
  IN When(timedOut # <<>>, Blocker(1000, "diagnosis_timed_out", Ids(timedOut)))
       \o When(relevant # <<>>, Blocker(950, "check_timed_out", Ids(relevant)))
       \o When(target # <<>>, Blocker(900, "invalid_target", Ids(target)))
       \o When(invalid # <<>>, Blocker(875, "proxy_invalid", Ids(invalid)))
       \o When(dns # <<>> /\ ~Excused(f, dns[1]), Blocker(700, "dns", Ids(dns)))

\* addTCPCandidates; says holds what tcpFamilies reads from the attempts.
OneFamily(r) ==
  \/ {"v4ok", "v6bad"} \subseteq r.says /\ "v6ok" \notin r.says
  \/ {"v6ok", "v4bad"} \subseteq r.says /\ "v4ok" \notin r.says

TCPCandidate(f, r) ==
  IF Auxiliary(f, r) THEN <<>>
  ELSE IF r.status = "warning" /\ OneFamily(r) THEN <<Degraded(700, "one_family", <<"tcp">>)>>
  ELSE IF r.status = "warning" THEN <<Degraded(600, "mixed_tcp", <<"tcp">>)>>
  ELSE IF r.status = "failed" /\ ~Excused(f, r) THEN <<Blocker(650, "tcp", <<"tcp">>)>>
  ELSE <<>>

\* addTLSCandidates; the four certificate codes are one.
TLSCandidate(f, r) ==
  LET failed == r.status = "failed"
      certificate == r.code = "CERTIFICATE"
  IN IF Auxiliary(f, r) \/ (failed /\ Excused(f, r)) THEN <<>>
     ELSE IF certificate THEN
       <<Candidate(IF failed THEN Blocking ELSE DegradedPath, 800, r.status,
                   "certificate", <<"tls">>)>>
     ELSE IF failed /\ ~certificate THEN <<Blocker(600, "tls", <<"tls">>)>>
     ELSE <<>>

\* addHTTPCandidates
HTTPCandidate(f, h) ==
  LET proxied == f.route \in {"mixed", "proxy"} \/ (f.route = "none" /\ f.selected)
      related == (IF proxied THEN Ids(f.environment) ELSE <<>>) \o <<"http">>
                   \o Ids(f.discrepancies)
      plain == h.code \notin {"REDIRECTS", "RESPONSE"}
  IN CASE h.code = "REDIRECTS" -> <<Blocker(850, "redirects", related)>>
       [] h.code = "RESPONSE" -> <<Degraded(900, "application_error", related)>>
       [] plain /\ h.status = "passed" ->
            IF proxied THEN <<Degraded(950, "reached_by_proxy", related)>>
            ELSE IF f.discrepancies # <<>>
              THEN <<Degraded(950, "reached_despite_preflight", related)>>
              ELSE <<Candidate(Informational, 100, "passed", "request_completed",
                               <<"http">>)>>
       [] plain /\ h.status = "warning" -> <<Degraded(850, "http_warning", related)>>
       [] plain /\ h.status = "failed" /\ h.code # "PROXY_CONFIG_INVALID" ->
            <<Blocker(550, "http_transport", related)>>
       [] OTHER -> <<>>

FailureCandidates(f) ==
  Each(Where(f.results, LAMBDA r : r.status = "failed" /\ ~Excused(f, r)),
       LAMBDA r : Blocker(100, "a_failure", <<r.id>>))

CancelledCandidates(f) ==
  LET cancelled == First(WithStatus(f.results, "cancelled"))
  IN When(cancelled # <<>>,
          Candidate(Interrupted, 500, "cancelled", "cancelled", Ids(cancelled)))

\* addProxyCandidates
TransportPassed(f) ==
  LET decisive == IF f.http # <<>> THEN f.http ELSE ByID(f.results, "tcp")
  IN decisive # <<>> /\ decisive[1].status \in {"passed", "warning"}

ProxyCandidate(f, environment) ==
  IF "PROXY_DISABLED" \in environment.says /\ TransportPassed(f)
  THEN <<Degraded(650, "direct_with_proxy_disabled", <<"environment">>)>>
  ELSE When(f.selected /\ f.http = <<>>, Degraded(400, "proxy_selected", <<"environment">>))

WarningCandidates(f) ==
  Each(Where(f.results, LAMBDA r : r.status = "warning" /\ ~Auxiliary(f, r)),
       LAMBDA r : Degraded(50, "a_warning", <<r.id>>))

ClosingCandidates(f) ==
  LET rs == f.results
      statuses == {rs[i].status : i \in DOMAIN rs}
      passed == WithStatus(rs, "passed")
  IN CASE statuses = {"not_applicable"} ->
            <<Candidate(Informational, 25, "not_applicable", "not_applicable", Ids(rs))>>
       [] "skipped" \in statuses /\ statuses \subseteq {"skipped", "not_applicable"} ->
            <<Candidate(Informational, 20, "skipped", "skipped", Ids(rs))>>
       [] OTHER ->
            When(passed # <<>>, Candidate(Informational, 10, "passed", "completed",
                                          <<Last(passed).id>>))

\* f(r) for the result of one check, if there is one.
Of(rs, id, Make(_)) == LET r == ByID(rs, id) IN IF r = <<>> THEN <<>> ELSE Make(r[1])

\* buildCandidates
Candidates(f) ==
  EarlyCandidates(f)
    \o Of(f.results, "tcp", LAMBDA r : TCPCandidate(f, r))
    \o Of(f.results, "tls", LAMBDA r : TLSCandidate(f, r))
    \o Of(f.results, "http", LAMBDA r : HTTPCandidate(f, r))
    \o FailureCandidates(f)
    \o CancelledCandidates(f)
    \o Of(f.results, "environment", LAMBDA r : ProxyCandidate(f, r))
    \o WarningCandidates(f)
    \o ClosingCandidates(f)

-----------------------------------------------------------------------------
\* Mutant of Outranks: severity is read out of the priority.
OutranksByPriority(a, b) == a.priority > b.priority

Outranks(a, b) ==
  \/ a.severity > b.severity
  \/ a.severity = b.severity /\ a.priority > b.priority

\* The first of the candidates that none outranks.
Best(cs) ==
  cs[CHOOSE i \in DOMAIN cs :
       /\ \A j \in DOMAIN cs : ~Outranks(cs[j], cs[i])
       /\ \A j \in 1 .. i - 1 : Outranks(cs[i], cs[j])]

\* A result is referred to once (referencesFromResults; its evidence stands for it).
Build(rs) ==
  LET cs == Candidates(Facts(rs))
      best == Best(cs)
  IN IF cs = <<>>
     THEN [status |-> "passed", rule |-> "nothing_recorded", about |-> {}]
     ELSE [status |-> best.status, rule |-> best.rule, about |-> ToSet(best.about)]
=============================================================================
