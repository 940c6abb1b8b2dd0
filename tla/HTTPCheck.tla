------------------------------ MODULE HTTPCheck ------------------------------
(***************************************************************************)
(* The HTTP check of a diagnosis (internal/diagnostics/checks/http): one   *)
(* request and the redirects it is answered with, over net/http's client   *)
(* and transport.  Each redirect is judged before it is followed, and the  *)
(* addresses it was judged by are the ones its connection is dialled at.   *)
(* The transport dials in a goroutine of its own, which may outlive the    *)
(* request it was started for, and calls back into the trace of that       *)
(* request's hop.                                                          *)
(*                                                                         *)
(* What a URL answers is the setup's; what a name resolves to may be       *)
(* different in every lookup.  A URL has no fragment, and its port is its  *)
(* scheme's.  Durations, texts and the content of responses are left out;  *)
(* the identity of a hop or a path is its position.                        *)
(***************************************************************************)
EXTENDS ProxyPolicy, Naturals, FiniteSets, SequencesExt

CONSTANTS PublicIP, PrivateIP,   \* addresses, by their scope
          IP6,                   \* those of them that are IPv6
          ProxyIP,               \* the proxy's
          NoIP,                  \* no address
          NoURL,                 \* no redirect
          Setups                 \* options, environment and network of the runs considered

IP == PublicIP \cup PrivateIP

URLs == [scheme : Schemes, host : Hosts, page : Nat]
Origin(u) == <<u.scheme, u.host>>      \* sameOrigin, and urlDialAddress

ASSUME AddressAssumption ==
  /\ PublicIP \cap PrivateIP = {} /\ IP6 \subseteq IP
  /\ ProxyIP \notin IP \cup {NoIP} /\ NoIP \notin IP /\ NoURL \notin URLs

ASSUME SetupsAssumption ==
  \A s \in Setups :
    /\ s.env \in Environments
    /\ {s.noProxy, s.insecure, s.private, s.inspect, s.ca, s.captured} \subseteq BOOLEAN
    /\ s.max \in Nat                              \* MaxRedirects, never negative
    /\ s.connect \in IP \cup {NoIP}               \* ConnectIP
    /\ s.version \in {"auto", "4", "6"}
    /\ s.headers \subseteq {"plain", "secret"}    \* RequestHeaders
    /\ s.expected \subseteq Nat                   \* {}: no expectation
    /\ s.gate \in {"ok", "rejects", "auth"}       \* what the proxy answers
    /\ s.target \in URLs
    /\ s.names \in [Hosts -> SUBSET Seq(IP)]      \* <<>>: the lookup fails
    /\ s.net \in [IP \cup {ProxyIP} -> {"accepts", "refuses", "silent"}]
    /\ s.target \in DOMAIN s.web
    /\ \A u \in DOMAIN s.web :
         /\ u \in URLs
         /\ s.web[u].status \in Nat
         /\ s.web[u].to \in DOMAIN s.web \cup {NoURL}
         /\ s.web[u].huge \in BOOLEAN             \* Location beyond its limit

-----------------------------------------------------------------------------

VARIABLES
  setup,      \* the run's member of Setups
  ctx,        \* the check's context: live, cancelled or deadline
  phase,      \* where the check is
  proxy,      \* State.Proxy(): whether the environment was captured, and the selection
  advice,     \* the verdict of the environment check
  url,        \* the request that is sent next
  headers,    \* its headers, as far as they matter
  active,     \* activeProxySelection
  history,    \* httpRouteHistory
  seen,       \* the URLs requested so far
  approved,   \* approvedDialTargets: per origin the addresses it is dialled at
  idle,       \* the transport's idle connections
  paths,      \* httpTraceRecorder.paths
  hops,       \* httpTraceRecorder.hops
  redirects,  \* the redirects judged
  result      \* what the check reports

request == <<url, headers, active, history, seen, approved>>
trace == <<paths, hops>>
vars == <<setup, ctx, phase, proxy, advice, request, idle, trace, redirects, result>>

NoSelection == [validity |-> "not_configured", bypass |-> "none", source |-> "none"]
NoResult == [verdict |-> "none", code |-> "none", status |-> 0, final |-> NoURL,
             route |-> "none", hops |-> <<>>, redirects |-> <<>>, paths |-> <<>>]

Init ==
  /\ setup \in Setups
  /\ ctx = "live" /\ phase = "environment"
  /\ proxy = [captured |-> FALSE, selection |-> NoSelection] /\ advice = "none"
  /\ url = setup.target /\ headers = {} /\ active = NoSelection
  /\ history = {} /\ seen = {} /\ approved = <<>>
  /\ idle = {} /\ paths = <<>> /\ hops = <<>> /\ redirects = <<>>
  /\ result = NoResult

Selected(u) == SelectionFor(setup.env, setup.noProxy, u)

\* The caller cancels, or a deadline passes.
ContextEnds(e) ==
  /\ phase \notin {"environment", "end"} /\ ctx = "live"
  /\ ctx' = e
  /\ UNCHANGED <<setup, phase, proxy, advice, request, idle, trace, redirects, result>>

-----------------------------------------------------------------------------
(* The environment check, and the request before it is sent.               *)

\* environment.Check.Run, unless it never came to record its selection.
EnvironmentChecked ==
  /\ phase = "environment"
  /\ phase' = "enter"
  /\ IF setup.captured
     THEN /\ proxy' = [captured |-> TRUE, selection |-> Selected(setup.target)]
          /\ advice' = EnvironmentVerdict(Selected(setup.target), setup.noProxy)
     ELSE UNCHANGED <<proxy, advice>>
  /\ UNCHANGED <<setup, ctx, request, idle, trace, redirects, result>>

\* Why the request is not sent at all.
Refusal ==
  IF ~proxy.captured THEN "PROXY_SELECTION_UNAVAILABLE"
  ELSE IF RouteOf(proxy.selection) = "blocked" THEN "PROXY_CONFIG_INVALID"
  ELSE IF setup.connect # NoIP /\ RouteOf(Selected(setup.target)) = "proxy" THEN
    "HTTP_CONNECT_IP_PROXY_UNSUPPORTED"
  ELSE IF ~setup.ca THEN "HTTP_CUSTOM_CA_INVALID"
  ELSE "none"

Refuse ==
  /\ phase = "enter" /\ Refusal # "none"
  /\ result' = [NoResult EXCEPT !.verdict = "failed", !.code = Refusal, !.final = setup.target,
                                !.route = IF proxy.captured THEN RouteOf(proxy.selection)
                                                            ELSE "blocked"]
  /\ phase' = "end"
  /\ UNCHANGED <<setup, ctx, proxy, advice, request, idle, trace, redirects>>

\* A connect IP is approved for the origin of the target and stays approved.
Prepare ==
  /\ phase = "enter" /\ Refusal = "none"
  /\ active' = Selected(url)
  /\ history' = {RouteOf(Selected(url))}
  /\ headers' = setup.headers
  /\ seen' = {url}
  /\ approved' = IF setup.connect = NoIP THEN <<>>
                 ELSE [o \in {Origin(url)} |-> <<setup.connect>>]
  /\ phase' = "send"
  /\ UNCHANGED <<setup, ctx, proxy, advice, url, idle, trace, redirects, result>>

-----------------------------------------------------------------------------
(* A round trip and its trace.                                             *)

Current == Len(hops)

PathKind(u, sel) ==
  IF RouteOf(sel) # "proxy" THEN "direct"
  ELSE IF u.scheme = "https" THEN "https_connect"
  ELSE "http_proxy"

\* httpTraceRecorder.begin: a path is as long as kind and selection stay the same.
Begin ==
  /\ phase = "send"
  /\ LET sel == Selected(url)
         path == [kind |-> PathKind(url, sel), selection |-> sel]
     IN /\ paths' = IF paths # <<>> /\ Last(paths) = path THEN paths ELSE Append(paths, path)
        /\ hops' = Append(hops, [url |-> url, route |-> RouteOf(sel), path |-> Len(paths'),
                                 headers |-> headers, dial |-> "none", pinned |-> FALSE,
                                 todo |-> {}, attempts |-> <<>>, remote |-> NoIP,
                                 reused |-> FALSE, status |-> 0])
  /\ phase' = "connect"
  /\ UNCHANGED <<setup, ctx, proxy, advice, request, idle, redirects, result>>

\* connectMethodKey: plain HTTP shares the proxy's connections.
ConnKey(h) ==
  IF h.route = "direct" THEN <<"direct", Origin(h.url)>>
  ELSE IF h.url.scheme = "https" THEN <<"proxy", Origin(h.url)>>
  ELSE <<"proxy", "http">>

IdleConn(h) == [key |-> ConnKey(h), remote |-> h.remote, back |-> FALSE]
IdleFor(h) == {c \in idle : c.back /\ c.key = ConnKey(h)}

\* The goroutine that reads a connection puts it back when the body has ended.
ConnComesBack(c) ==
  /\ phase # "end" /\ c \in idle /\ ~c.back
  /\ idle' = (idle \ {c}) \cup {[c EXCEPT !.back = TRUE]}
  /\ UNCHANGED <<setup, ctx, phase, proxy, advice, request, trace, redirects, result>>

\* The transport hands over an idle connection.
GotIdleConn(c) ==
  /\ phase = "connect" /\ c \in IdleFor(hops[Current])
  /\ hops' = [hops EXCEPT ![Current].remote = c.remote, ![Current].reused = TRUE]
  /\ idle' = idle \ {c}
  /\ phase' = "wait"
  /\ UNCHANGED <<setup, ctx, proxy, advice, request, paths, redirects, result>>

IdleConnCloses(c) ==
  /\ phase # "end" /\ c \in idle
  /\ idle' = idle \ {c}
  /\ UNCHANGED <<setup, ctx, phase, proxy, advice, request, trace, redirects, result>>

\* The transport starts a goroutine that dials.
QueueDial ==
  /\ phase = "connect" /\ hops[Current].dial = "none" /\ IdleFor(hops[Current]) = {}
  /\ hops' = [hops EXCEPT ![Current].dial = "queued"]
  /\ UNCHANGED <<setup, ctx, phase, proxy, advice, request, idle, paths, redirects, result>>

-----------------------------------------------------------------------------
(* approvedDialTargets.dial, below it net.Dialer, and above it the         *)
(* transport's dialConn.  Behind the end of the check its callbacks reach  *)
(* nothing that is reported: result holds copies.                          *)

Family(ip) == IF ip \in IP6 THEN "6" ELSE "4"
MatchesIPVersion(ip) == setup.version \in {"auto", Family(ip)}

Lookups(host) == setup.names[host] \cup (IF ctx = "live" THEN {} ELSE {<<>>})

\* The addresses of a lookup that are tried, each with its position.
Numbered(ips) ==
  {[at |-> i, ip |-> ips[i]] : i \in {i \in DOMAIN ips : MatchesIPVersion(ips[i])}}

\* The candidates of a dial, and whether they are approved ones.
Candidates(h) ==
  CASE h.route = "proxy" -> {[todo |-> {[at |-> 1, ip |-> ProxyIP]}, pinned |-> FALSE]}
    [] h.route = "direct" /\ Origin(h.url) \in DOMAIN approved ->
         {[todo |-> Numbered(approved[Origin(h.url)]), pinned |-> TRUE]}
    [] OTHER -> {[todo |-> Numbered(s), pinned |-> FALSE] : s \in Lookups(h.url.host)}

OnlyDials == UNCHANGED <<setup, ctx, proxy, advice, request, paths, redirects, result>>

StartDial(h) ==
  /\ phase # "end" /\ hops[h].dial = "queued"
  /\ \E c \in Candidates(hops[h]) :
       hops' = [hops EXCEPT ![h].dial = IF c.todo = {} THEN "failed" ELSE "open",
                            ![h].todo = c.todo, ![h].pinned = c.pinned]
  /\ UNCHANGED <<phase, idle>> /\ OnlyDials

In(h, state) == {i \in DOMAIN hops[h].attempts : hops[h].attempts[i].state = state}

\* Approved addresses are tried one after the other; net.Dialer races the families.
ConnectStart(h) ==
  /\ phase # "end" /\ hops[h].dial = "open"
  /\ In(h, "connected") = {}
  /\ \E c \in hops[h].todo :
       /\ \A later \in hops[h].todo : c.at <= later.at
       /\ \A i \in In(h, "open") :
            ~hops[h].pinned /\ Family(hops[h].attempts[i].ip) # Family(c.ip)
       /\ hops' = [hops EXCEPT
            ![h].todo = @ \ {c},
            ![h].attempts = Append(@, [ip |-> c.ip, state |-> "open", selected |-> FALSE])]
  /\ UNCHANGED <<phase, idle>> /\ OnlyDials

ConnectFails(h, i) ==
  /\ phase # "end" /\ i \in In(h, "open")
  /\ setup.net[hops[h].attempts[i].ip] # "accepts" \/ In(h, "connected") # {}
  /\ hops' = [hops EXCEPT ![h].attempts[i].state = "failed"]
  /\ UNCHANGED <<phase, idle>> /\ OnlyDials

Connects(h, i) ==
  /\ phase # "end" /\ i \in In(h, "open") /\ In(h, "connected") = {}
  /\ setup.net[hops[h].attempts[i].ip] = "accepts"
  /\ hops' = [hops EXCEPT ![h].attempts[i].state = "connected"]
  /\ UNCHANGED <<phase, idle>> /\ OnlyDials

\* No candidate is left, or dial looks at its context behind a failure.
DialFails(h) ==
  /\ phase # "end" /\ hops[h].dial = "open"
  /\ In(h, "open") = {} /\ In(h, "connected") = {}
  /\ hops[h].todo = {} \/ (hops[h].pinned /\ ctx # "live" /\ hops[h].attempts # <<>>)
  /\ hops' = [hops EXCEPT ![h].dial = "failed"]
  /\ UNCHANGED <<phase, idle>> /\ OnlyDials

\* dialConn: CONNECT through the proxy, then TLS.
HandshakeFails(h) ==
  /\ phase # "end" /\ hops[h].dial = "open" /\ In(h, "connected") # {}
  /\ hops[h].url.scheme = "https"
  /\ hops' = [hops EXCEPT ![h].dial = IF hops[h].route = "proxy" /\ setup.gate # "ok"
                                      THEN setup.gate ELSE "failed"]
  /\ UNCHANGED <<phase, idle>> /\ OnlyDials

\* selectConnectAttempt: the last one at the remote address that has not failed.
SelectAttempt(attempts, remote) ==
  LET i == Max({j \in DOMAIN attempts : attempts[j].ip = remote /\ attempts[j].state # "failed"})
  IN [attempts EXCEPT ![i].selected = TRUE]

\* The connection goes to the request it was dialled for, if that still waits,
\* and to the idle ones otherwise.
DialDone(h) ==
  /\ phase # "end" /\ hops[h].dial = "open" /\ In(h, "connected") # {}
  /\ hops[h].route = "proxy" /\ hops[h].url.scheme = "https" => setup.gate = "ok"
  /\ \E i \in In(h, "connected") :
       LET remote == hops[h].attempts[i].ip IN
       IF h = Current /\ phase = "connect"
       THEN /\ hops' = [hops EXCEPT ![h].dial = "done", ![h].remote = remote,
                                    ![h].reused = FALSE,
                                    ![h].attempts = SelectAttempt(@, remote)]
            /\ phase' = "wait"
            /\ UNCHANGED idle
       ELSE /\ hops' = [hops EXCEPT ![h].dial = "done"]
            /\ idle' = idle \cup {[IdleConn(hops[h]) EXCEPT !.remote = remote, !.back = TRUE]}
            /\ UNCHANGED phase
  /\ OnlyDials

-----------------------------------------------------------------------------
(* How a round trip ends.                                                  *)

\* The proxy answers a plain request itself when it does not let it through.
StatusOf(h) ==
  CASE h.route = "proxy" /\ h.url.scheme = "http" /\ setup.gate = "auth" -> 407
    [] h.route = "proxy" /\ h.url.scheme = "http" /\ setup.gate = "rejects" -> 403
    [] OTHER -> setup.web[h.url].status

Redirected(h) == StatusOf(h) = setup.web[h.url].status /\ setup.web[h.url].to # NoURL

Responds ==
  /\ phase = "wait"
  /\ hops' = [hops EXCEPT ![Current].status = StatusOf(hops[Current])]
  /\ phase' = IF Redirected(hops[Current]) THEN "redirect" ELSE "read"
  /\ UNCHANGED <<setup, ctx, proxy, advice, request, idle, paths, redirects, result>>

\* A reused connection was closed by the server: the transport starts again
\* inside the same round trip.
ReusedConnBreaks ==
  /\ phase = "wait" /\ hops[Current].reused
  /\ hops[Current].dial = "none"
  /\ phase' = "connect"
  /\ UNCHANGED <<setup, ctx, proxy, advice, request, idle, trace, redirects, result>>

\* httpRouteHistory.route
RouteTaken ==
  CASE history = {"direct", "proxy"} -> "mixed"
    [] history = {"direct"} -> "direct"
    [] history = {"proxy"} -> "proxy"
    [] OTHER -> "blocked"

\* A bug: a redirect is taken to start at the hop it leads to.
CorrelatedLate(rs) ==
  [i \in DOMAIN rs |->
     [rs[i] EXCEPT !.fromRef = IF i + 1 \in DOMAIN hops THEN i + 1 ELSE 0,
                   !.toRef = IF i + 1 \in DOMAIN hops THEN i + 1 ELSE 0]]

\* correlateRedirects
Correlated(rs) ==
  [i \in DOMAIN rs |->
     [rs[i] EXCEPT !.fromRef = IF i \in DOMAIN hops THEN i ELSE 0,
                   !.toRef = IF i + 1 \in DOMAIN hops THEN i + 1 ELSE 0]]

\* snapshotHTTPHop and snapshotNetworkHops: a proxy's address is its own hop's,
\* and so are the attempts at it; an attempt may be unfinished for good.
Snapshot(h) ==
  [url |-> h.url, route |-> h.route, path |-> h.path, status |-> h.status, reused |-> h.reused,
   remote |-> IF h.route = "proxy" THEN NoIP ELSE h.remote,
   peer |-> IF h.route = "proxy" THEN h.remote ELSE NoIP,
   attempts |-> [i \in DOMAIN h.attempts |->
                   [ip |-> h.attempts[i].ip, selected |-> h.attempts[i].selected,
                    running |-> h.attempts[i].state = "open"]]]

\* snapshotNetworkPaths: a path continues the one before it.
NetworkPaths ==
  [p \in DOMAIN paths |-> [kind |-> paths[p].kind, from |-> p - 1,
                           hops |-> {h \in DOMAIN hops : hops[h].path = p}]]

Report(verdict, code, status, rs) ==
  result' = [verdict |-> verdict, code |-> code, status |-> status, final |-> url,
             route |-> RouteTaken, redirects |-> Correlated(rs), paths |-> NetworkPaths,
             hops |-> [h \in DOMAIN hops |-> Snapshot(hops[h])]]

\* classifyError of what a round trip ended with.  The transport has timeouts of
\* its own for the handshake and the response.
ContextCode == IF ctx = "cancelled" THEN "HTTP_CANCELLED" ELSE "HTTP_TIMEOUT"
TransportCodes == {"HTTP_TRANSPORT_ERROR", "HTTP_TIMEOUT"}

\* The transport names a dial that does not reach the proxy ("proxyconnect").
DialCodes(h) ==
  CASE hops[h].dial = "auth" -> {"HTTP_PROXY_AUTH_REQUIRED"}
    [] \/ hops[h].dial = "rejects"
       \/ hops[h].route = "proxy" /\ In(h, "connected") = {} -> {"HTTP_PROXY_CONNECT_FAILED"}
    [] OTHER -> TransportCodes

\* client.Do returns an error; lastAttemptedURL is url.
Fails(code) ==
  /\ Report(IF code = "HTTP_CANCELLED" THEN "cancelled" ELSE "failed", code, 0, redirects)
  /\ phase' = "end"
  /\ UNCHANGED <<setup, ctx, proxy, advice, request, idle, trace, redirects>>

\* A bug: only the dial is abandoned.
RequestStopsDialling == phase = "connect" /\ ctx # "live" /\ Fails(ContextCode)

RequestStops == phase \in {"connect", "wait"} /\ ctx # "live" /\ Fails(ContextCode)

DialReported ==
  /\ phase = "connect" /\ hops[Current].dial \in {"failed", "auth", "rejects"}
  /\ \E code \in DialCodes(Current) : Fails(code)

ConnBreaks == phase = "wait" /\ \E code \in TransportCodes : Fails(code)

-----------------------------------------------------------------------------
(* Client.CheckRedirect                                                    *)

Scope(ips) ==
  IF ips = <<>> THEN "unknown"
  ELSE IF Range(ips) \subseteq PublicIP THEN "public"
  ELSE IF Range(ips) \subseteq PrivateIP THEN "private_or_local"
  ELSE "mixed"

CanBePublic(scope) == scope \in {"public", "mixed", "proxy_origin_unknown"}
CanBePrivate(scope) == scope \in {"private_or_local", "mixed"}

\* previousNetworkScope: where the response came from, or another lookup.
PreviousScope(h, ips) ==
  CASE h.route = "proxy" -> "proxy_origin_unknown"
    [] h.route = "direct" /\ h.remote # NoIP -> Scope(<<h.remote>>)
    [] OTHER -> Scope(ips)

\* A bug: the limit is one request too high.
DecisionOffByOne(h, next, from, to) ==
  IF setup.web[h.url].huge THEN "blocked_location_too_large"
  ELSE IF next \in seen THEN "blocked_loop"
  ELSE IF Len(hops) > setup.max + 1 THEN "blocked_hop_limit"
  ELSE "followed"

\* The order in which a redirect is refused.
Decision(h, next, from, to) ==
  IF setup.web[h.url].huge THEN "blocked_location_too_large"
  ELSE IF next \in seen THEN "blocked_loop"
  ELSE IF Len(hops) > setup.max THEN "blocked_hop_limit"
  ELSE IF h.url.scheme = "https" /\ next.scheme = "http" /\ ~setup.insecure THEN
    "blocked_https_downgrade"
  ELSE IF RouteOf(Selected(next)) = "blocked" THEN "blocked_invalid_proxy"
  ELSE IF "unknown" \in {from, to} THEN "blocked_resolution_failure"
  ELSE IF CanBePublic(from) /\ CanBePrivate(to) /\ ~setup.private THEN "blocked_public_to_private"
  ELSE "followed"

\* classifyError of the error CheckRedirect returns with a decision.
RedirectCode(decision) ==
  CASE decision = "blocked_https_downgrade" -> "HTTP_REDIRECT_HTTPS_DOWNGRADE_BLOCKED"
    [] decision = "blocked_invalid_proxy" -> "PROXY_CONFIG_INVALID"
    [] decision = "blocked_public_to_private" -> "HTTP_REDIRECT_PRIVATE_NETWORK_BLOCKED"
    [] decision = "blocked_resolution_failure" -> "HTTP_REDIRECT_RESOLUTION_FAILED"
    [] decision = "blocked_location_too_large" -> "HTTP_REDIRECT_LOCATION_TOO_LARGE"
    [] decision = "blocked_loop" -> "HTTP_REDIRECT_LOOP"
    [] decision = "blocked_hop_limit" -> "HTTP_TOO_MANY_REDIRECTS"

\* The headers net/http puts on a redirected request: those of the first one,
\* less the sensitive ones on another host, and a Referer unless the scheme is
\* downgraded.
Copied(h, next) ==
  (IF next.host = h.url.host THEN setup.headers ELSE setup.headers \ {"secret"})
  \cup (IF h.url.scheme = "https" /\ next.scheme = "http" THEN {} ELSE {"referer"})

\* A bug: one-run headers are only stripped on the way to another origin.
NextHeadersSameOrigin(h, next) ==
  IF Origin(next) = Origin(h.url) THEN Copied(h, next)
                                  ELSE Copied(h, next) \ ({"referer"} \cup setup.headers)

\* stripTransientHeaders, and removeSensitiveHeaders for another origin.
NextHeaders(h, next) ==
  (Copied(h, next) \ setup.headers)
  \ (IF Origin(next) = Origin(h.url) THEN {} ELSE {"referer", "secret"})

\* A bug: what was judged is not what will be dialled.
ApproveNothing(next, ips) == approved

\* approvedDialTargets.approve, for a direct route; a connect IP stays.
Approve(next, ips) ==
  IF RouteOf(Selected(next)) = "proxy"
     \/ (setup.connect # NoIP /\ Origin(next) = Origin(setup.target))
  THEN approved
  ELSE [o \in DOMAIN approved \cup {Origin(next)} |->
          IF o = Origin(next) THEN ips ELSE approved[o]]

Follow(h, next, ips, keep) ==
  /\ url' = next
  /\ headers' = NextHeaders(h, next)
  /\ active' = Selected(next)
  /\ history' = history \cup {RouteOf(Selected(next))}
  /\ seen' = seen \cup {next}
  /\ approved' = Approve(next, ips)
  /\ idle' = IF keep THEN idle \cup {IdleConn(h)} ELSE idle
  /\ phase' = "send"
  /\ UNCHANGED result

Block(decision) ==
  /\ Report("failed", RedirectCode(decision), 0, redirects')
  /\ phase' = "end"
  /\ UNCHANGED <<request, idle>>

\* CheckRedirect, with what the lookups answer; the transport may keep the
\* connection the redirect came over.
Judge(keep) ==
  LET h == hops[Current]
      next == setup.web[h.url].to
  IN /\ phase = "redirect"
     /\ \E ips \in Lookups(next.host), before \in Lookups(h.url.host) :
          LET decision == Decision(h, next, PreviousScope(h, before), Scope(ips)) IN
          /\ redirects' = Append(redirects, [from |-> h.url, to |-> next, decision |-> decision,
                                            judged |-> ips, fromRef |-> 0, toRef |-> 0])
          /\ IF decision = "followed" THEN Follow(h, next, ips, keep) ELSE Block(decision)
     /\ UNCHANGED <<setup, ctx, proxy, advice, trace>>

-----------------------------------------------------------------------------
(* The response that is not followed any further.                          *)

Expected(status) == setup.expected = {} \/ status \in setup.expected

\* What the check concludes, in the order of its switch.  slow: the total is
\* beyond the latency threshold; torn: the body could not be read.
Conclusion(status, slow, torn) ==
  IF status = 407 /\ RouteOf(active) = "proxy" THEN <<"failed", "HTTP_PROXY_AUTH_REQUIRED">>
  ELSE IF ~Expected(status) THEN <<"failed", "HTTP_UNEXPECTED_STATUS">>
  ELSE IF slow THEN <<"failed", "HTTP_LATENCY_THRESHOLD_EXCEEDED">>
  ELSE IF torn THEN <<"warning", "HTTP_BODY_READ_ERROR">>
  ELSE IF setup.expected = {} /\ status >= 500 THEN <<"warning", "HTTP_SERVER_ERROR">>
  ELSE IF setup.expected = {} /\ status >= 400 THEN <<"warning", "HTTP_CLIENT_ERROR">>
  ELSE <<"passed", "none">>

\* The body is read only if it is to be inspected.
Conclude(slow, torn) ==
  LET status == hops[Current].status
      conclusion == Conclusion(status, slow, torn)
  IN /\ phase = "read"
     /\ torn => setup.inspect
     /\ Report(conclusion[1], conclusion[2], status, redirects)
     /\ phase' = "end"
     /\ UNCHANGED <<setup, ctx, proxy, advice, request, idle, trace, redirects>>

-----------------------------------------------------------------------------

RoundTrip ==
  \/ EnvironmentChecked \/ Refuse \/ Prepare
  \/ Begin \/ QueueDial
  \/ RequestStops \/ DialReported
  \/ \E c \in idle : GotIdleConn(c)
  \/ \E keep \in BOOLEAN : Judge(keep)
  \/ \E slow, torn \in BOOLEAN : Conclude(slow, torn)

Dialling(h) ==
  \/ StartDial(h) \/ ConnectStart(h) \/ DialFails(h) \/ DialDone(h)
  \/ \E i \in DOMAIN hops[h].attempts : Connects(h, i) \/ ConnectFails(h, i)

Environment ==
  \/ Responds \/ ConnBreaks \/ ReusedConnBreaks
  \/ \E c \in idle : ConnComesBack(c) \/ IdleConnCloses(c)
  \/ \E h \in DOMAIN hops : HandshakeFails(h)
  \/ \E e \in {"cancelled", "deadline"} : ContextEnds(e)

Terminated == phase = "end" /\ UNCHANGED vars

Next ==
  \/ RoundTrip
  \/ \E h \in DOMAIN hops : Dialling(h)
  \/ Environment
  \/ Terminated

Spec == Init /\ [][Next]_vars

\* The engine gives the check a deadline, and the check goes on.
FairSpec == Spec /\ WF_vars(RoundTrip) /\ WF_vars(\E e \in {"cancelled", "deadline"} : ContextEnds(e))

-----------------------------------------------------------------------------
(* Properties.                                                             *)

Verdicts == {"none", "passed", "warning", "failed", "cancelled"}

\* The state has its types (Check.Run, httpTraceRecorder): one hop per request
\* that was sent, one redirect judged between two of them, and the result at
\* the end.
TypeOK ==
  /\ setup \in Setups /\ ctx \in {"live", "cancelled", "deadline"}
  /\ proxy.selection \in Selections /\ active \in Selections
  /\ {url} \cup seen \subseteq DOMAIN setup.web
  /\ Len(hops) \in Len(redirects) .. Len(redirects) + 1
  /\ \A h \in DOMAIN hops : hops[h].path \in DOMAIN paths
  /\ result.verdict \in Verdicts
  /\ phase = "end" <=> result.verdict # "none"

\* A redirect chain ends: no more than MaxRedirects redirects are followed, and
\* no URL is requested twice, whatever the servers answer (the map seen and
\* len(via) of CheckRedirect).
ChainIsBounded ==
  /\ Len(hops) <= setup.max + 1
  /\ \A i, j \in DOMAIN hops : hops[i].url = hops[j].url => i = j

\* Redirect r leads to an origin, was followed when the origin had this address,
\* and, if the address is private, came from a private one unless all are welcome.
JudgedBy(r, origin, ip) ==
  /\ redirects[r].decision = "followed" /\ Origin(redirects[r].to) = origin
  /\ ip \in Range(redirects[r].judged)
  /\ ip \in PrivateIP /\ ~setup.private =>
       hops[r].route = "direct" /\ hops[r].remote \in PrivateIP

\* Hop h goes out on a connection that a direct request to its origin dialled.
DialledForOrigin(h) ==
  \E g \in DOMAIN hops :
    /\ hops[g].route = "direct" /\ Origin(hops[g].url) = Origin(hops[h].url)
    /\ \E i \in In(g, "connected") : hops[g].attempts[i].ip = hops[h].remote

\* Behind a redirect, a direct connection is only ever dialled at an address that
\* a redirect to its origin was judged by, though the name may resolve to another
\* one by then, and without the opt-in at a private one only if that redirect came
\* from a private one: neither a proxy nor a name with other addresses hides that a
\* chain is public.  A connection that is dialled for the request it serves was judged
\* by the redirect to that very request; only a dial that its request no longer waits
\* for may start so late that it meets what a later redirect approved.  A connect IP of
\* the user takes precedence (CheckRedirect, previousNetworkScope, approvedDialTargets).
\* A connection that is REUSED was not judged again: it is only known that a direct
\* request to its origin, the user's own or one as above, was dialled at its address.
\* So a chain that came from a private address and has turned public gets back to the
\* private one without the opt-in if its redirect there is judged by a public address
\* of the name and the transport still holds the connection, against "public-to-private/
\* local transitions are blocked unless the corresponding unsafe option was explicitly
\* selected" (docs/diagnostic-model.md:349-351, docs/security.md:135-138).
RedirectsStayJudged ==
  \A h \in DOMAIN hops : h > 1 /\ hops[h].route = "direct" =>
    /\ \A i \in DOMAIN hops[h].attempts :
         LET attempt == hops[h].attempts[i]
             origin == Origin(hops[h].url)
         IN \/ attempt.ip = setup.connect
            \/ \E r \in DOMAIN redirects : JudgedBy(r, origin, attempt.ip)
                                          /\ (attempt.selected => r = h - 1)
    /\ hops[h].remote # NoIP => DialledForOrigin(h)

\* The headers of one run are sent with its first request only, though net/http
\* copies them to every redirected one, and no other origin is told where a
\* redirect came from (docs/diagnostic-model.md, HTTP and redirects).
HeadersGoOnce ==
  \A h \in 2 .. Len(hops) :
    /\ hops[h].headers \cap setup.headers = {}
    /\ Origin(hops[h].url) # Origin(hops[h - 1].url) => hops[h].headers = {}

Unusable(u) ==
  LET env == setup.env
      value == IF ValueOf(env, u.scheme) = "unset" THEN env.all ELSE ValueOf(env, u.scheme)
      cgi == env.cgi /\ ~env.lower /\ u.scheme = "http" /\ env.http # "unset"
  IN /\ value = "malformed" \/ cgi
     /\ u.host \notin env.bypass /\ ~setup.noProxy

\* The captured proxy policy holds for every hop: a URL whose proxy cannot be
\* used is not requested, least of all directly; a hop through the proxy only
\* dials the proxy and no other hop does; and what the environment check said
\* of the route is what the first request does.
PolicyIsKept ==
  /\ \A h \in DOMAIN hops :
       /\ ~Unusable(hops[h].url)
       /\ \A i \in DOMAIN hops[h].attempts :
            (hops[h].attempts[i].ip = ProxyIP) <=> (hops[h].route = "proxy")
  /\ hops # <<>> => /\ advice \in {"passed", "warning"}
                    /\ (advice = "warning") <=> (hops[1].route = "proxy")

Blocked(r) == r.decision # "followed"

\* The report is one story: redirect i leads from hop i to hop i + 1 and only
\* the last one may be blocked; the code of the verdict is the one of a blocked
\* redirect, and otherwise of none; the final URL and the route are those of
\* the hops that were made; each hop is on one path, with hops of its own kind,
\* and "the proxy address is not reported as the origin address"
\* (docs/diagnostic-model.md; Check.Run, correlateRedirects, httpRouteHistory,
\* snapshotNetworkPaths).
OneStory(res) ==
  LET n == Len(res.hops)
      rs == res.redirects
      last == rs # <<>> /\ Blocked(Last(rs))
  IN /\ \A i \in DOMAIN rs :
          /\ rs[i].fromRef = i /\ rs[i].from = res.hops[i].url
          /\ IF Blocked(rs[i]) THEN i = n /\ rs[i].toRef = 0
             ELSE rs[i].toRef = i + 1 /\ rs[i].to = res.hops[i + 1].url
     /\ n = IF last THEN Len(rs) ELSE Len(rs) + 1
     /\ last <=> res.code \in {RedirectCode(r.decision) : r \in {r \in Range(rs) : Blocked(r)}}
     /\ res.final = res.hops[n].url
     /\ res.route = LET taken == {res.hops[i].route : i \in 1 .. n} IN
                    IF Cardinality(taken) = 2 THEN "mixed" ELSE CHOOSE r \in taken : TRUE
     /\ res.verdict \in {"passed", "warning"} => res.hops[n].status = res.status
     /\ \A p \in DOMAIN res.paths : \A i \in res.paths[p].hops :
          /\ res.hops[i].path = p
          /\ (res.hops[i].route = "direct") <=> (res.paths[p].kind = "direct")
     /\ UNION {res.paths[p].hops : p \in DOMAIN res.paths} = 1 .. n
     /\ \A i \in 1 .. n : res.hops[i].remote # ProxyIP /\ res.hops[i].peer \in {NoIP, ProxyIP}

ReportIsOneStory == phase = "end" /\ result.hops # <<>> => OneStory(result)

\* "Only the connection actually used is selected" (docs/diagnostic-model.md):
\* of the attempts of a hop, raced or one after the other, at most one is
\* marked, and it is the one the request went out on; none when the request
\* found another connection or none (httptrace GotConn, selectConnectAttempt).
Marked(h) ==
  LET marked == {i \in DOMAIN h.attempts : h.attempts[i].selected} IN
  IF h.remote = NoIP \/ h.reused THEN marked = {}
  ELSE \E i \in marked : /\ marked = {i}
                         /\ h.attempts[i].state = "connected"
                         /\ h.attempts[i].ip = h.remote

SelectedIsUsed == \A h \in DOMAIN hops : Marked(hops[h])

\* Hops, redirects, paths and attempts of the report agree with each other and with
\* the connections that were used (snapshotHTTPHop, snapshotNetworkPaths).
HopsTellOneStory == ReportIsOneStory /\ SelectedIsUsed

\* The check returns, though a server may never answer and a dial never end:
\* its context ends at the latest with its timeout (FairSpec).
CheckReturns == <>(phase = "end")
=============================================================================
