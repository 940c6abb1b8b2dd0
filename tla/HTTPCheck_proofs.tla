--------------------------- MODULE HTTPCheck_proofs ---------------------------
(* Theorems about HTTPCheck: what the requests of a redirect chain are, at *)
(* which addresses its hops are dialled, which route they take, and what   *)
(* the report tells of them.                                               *)
EXTENDS HTTPCheck, FiniteSetTheorems, TLAPS

IsHop(h) == {"url", "headers"} \subseteq DOMAIN h

\* The hops are a sequence of requests, and seen holds what they requested.
HopsAreSeen ==
  /\ hops \in Seq({hops[h] : h \in DOMAIN hops})
  /\ \A h \in DOMAIN hops : IsHop(hops[h]) /\ hops[h].url \in seen

\* The request that is sent next keeps the promises of the chain: it goes to a
\* URL that no hop requested, within the limit, and without the headers that
\* only the first one may have.
NextIsJudged ==
  phase = "send" =>
    /\ url \in seen
    /\ \A h \in DOMAIN hops : hops[h].url # url
    /\ hops # <<>> =>
         /\ Len(hops) <= setup.max
         /\ headers \cap setup.headers = {}
         /\ Origin(url) # Origin(hops[Len(hops)].url) => headers = {}

\* The inductive invariant.
IInv ==
  /\ setup \in Setups
  /\ phase \in {"environment", "enter"} => hops = <<>>
  /\ HopsAreSeen
  /\ NextIsJudged
  /\ ChainIsBounded
  /\ HeadersGoOnce

-----------------------------------------------------------------------------
(* What the trace does to the hops that were made.                         *)

\* The hops request what they requested, whatever else is written into them.
SameRequests ==
  /\ hops' = [h \in DOMAIN hops |-> hops'[h]]
  /\ \A h \in DOMAIN hops :
       /\ IsHop(hops'[h])
       /\ hops'[h].url = hops[h].url /\ hops'[h].headers = hops[h].headers

LEMMA SameHops ==
  ASSUME HopsAreSeen, hops' = hops PROVE SameRequests
  BY DEF HopsAreSeen, SameRequests

\* A callback of the trace replaces one hop by one with the same request.
LEMMA OneHop ==
  ASSUME HopsAreSeen, NEW h, NEW r, hops' = [hops EXCEPT ![h] = r],
         h \in DOMAIN hops => /\ IsHop(r)
                              /\ r.url = hops[h].url /\ r.headers = hops[h].headers
  PROVE  SameRequests
  BY DEF HopsAreSeen, SameRequests

\* The length and the domain of hops are what they were.
LEMMA SameLength ==
  ASSUME HopsAreSeen, SameRequests
  PROVE  /\ Len(hops') = Len(hops) /\ DOMAIN hops' = DOMAIN hops
         /\ Len(hops) \in Nat /\ DOMAIN hops = 1 .. Len(hops)
         /\ hops' \in Seq({hops'[h] : h \in DOMAIN hops'})
  <1> DEFINE T == {hops'[h] : h \in DOMAIN hops'}
  <1>1. Len(hops) \in Nat /\ DOMAIN hops = 1 .. Len(hops)
    BY DEF HopsAreSeen
  <1>2. DOMAIN hops' = DOMAIN hops
    BY DEF SameRequests
  <1>3. hops' \in [1 .. Len(hops) -> T]
    BY <1>1, <1>2 DEF SameRequests
  <1>4. hops' \in Seq(T) /\ Len(hops') = Len(hops)
    BY <1>1, <1>2, <1>3
  <1> QED
    BY <1>1, <1>2, <1>4

\* What neither sends, judges nor prepares a request keeps the invariant.
LEMMA TraceKeepsIInv ==
  ASSUME IInv, SameRequests, UNCHANGED <<setup, request>>,
         phase' = phase \/ phase' \notin {"environment", "enter", "send"}
  PROVE  IInv'
  <1>1. /\ Len(hops') = Len(hops) /\ DOMAIN hops' = DOMAIN hops
        /\ Len(hops) \in Nat /\ DOMAIN hops = 1 .. Len(hops)
        /\ hops' \in Seq({hops'[h] : h \in DOMAIN hops'})
    BY SameLength DEF IInv
  <1>2. \A h \in DOMAIN hops : /\ IsHop(hops'[h]) /\ hops'[h].url = hops[h].url
                               /\ hops'[h].headers = hops[h].headers
    BY DEF SameRequests
  <1>3. setup' = setup /\ url' = url /\ headers' = headers /\ seen' = seen
    BY DEF request
  <1>4. HopsAreSeen'
    BY <1>1, <1>2, <1>3 DEF IInv, HopsAreSeen
  <1>5. (hops' = <<>>) <=> (hops = <<>>)
    BY <1>1, <1>4 DEF HopsAreSeen, IInv
  <1>6. NextIsJudged'
    <2> SUFFICES ASSUME phase' = "send" PROVE NextIsJudged'
      BY DEF NextIsJudged
    <2>1. phase = "send"
      OBVIOUS
    <2>2. hops # <<>> => Len(hops) \in DOMAIN hops
      BY <1>1 DEF IInv, HopsAreSeen
    <2> QED
      BY <1>1, <1>2, <1>3, <1>5, <2>1, <2>2 DEF IInv, NextIsJudged
  <1>7. ChainIsBounded'
    BY <1>1, <1>2, <1>3 DEF IInv, ChainIsBounded
  <1>8. HeadersGoOnce'
    <2>1. \A h \in 2 .. Len(hops) : h \in DOMAIN hops /\ h - 1 \in DOMAIN hops
      BY <1>1
    <2> QED
      BY <1>1, <1>2, <1>3, <2>1 DEF IInv, HeadersGoOnce
  <1> QED
    BY <1>3, <1>4, <1>5, <1>6, <1>7, <1>8 DEF IInv

-----------------------------------------------------------------------------
(* The steps that prepare, send and judge a request.                       *)

LEMMA IInvInit == Init => IInv
  BY SetupsAssumption
     DEF Init, IInv, HopsAreSeen, NextIsJudged, ChainIsBounded, HeadersGoOnce

LEMMA PrepareKeepsIInv == IInv /\ Prepare => IInv'
  <1> SUFFICES ASSUME IInv, Prepare PROVE IInv'
    OBVIOUS
  <1>1. hops = <<>> /\ hops' = <<>> /\ UNCHANGED <<setup, url>>
    BY DEF Prepare, IInv, trace
  <1>2. phase' = "send" /\ url \in seen'
    BY DEF Prepare
  <1> QED
    BY <1>1, <1>2 DEF IInv, HopsAreSeen, NextIsJudged, ChainIsBounded, HeadersGoOnce

LEMMA BeginKeepsIInv == IInv /\ Begin => IInv'
  <1> SUFFICES ASSUME IInv, Begin PROVE IInv'
    OBVIOUS
  <1> DEFINE n == Len(hops)
  <1>1. PICK hop : /\ hops' = Append(hops, hop) /\ IsHop(hop)
                   /\ hop.url = url /\ hop.headers = headers
    BY DEF Begin, IsHop
  <1>2. /\ phase = "send" /\ phase' = "connect"
        /\ UNCHANGED <<setup, url, headers, seen>>
    BY DEF Begin, request
  <1>3. setup.max \in Nat
    BY SetupsAssumption DEF IInv
  <1>4. n \in Nat /\ DOMAIN hops = 1 .. n
    BY DEF IInv, HopsAreSeen
  <1>5. /\ Len(hops') = n + 1 /\ DOMAIN hops' = 1 .. n + 1
        /\ \A h \in 1 .. n : hops'[h] = hops[h]
        /\ hops'[n + 1] = hop
        /\ hops' \in Seq({hops'[h] : h \in DOMAIN hops'})
    <2> DEFINE T == {hops[h] : h \in DOMAIN hops} \cup {hop}
    <2>1. hops \in Seq(T) /\ hop \in T
      BY <1>4 DEF IInv, HopsAreSeen
    <2>2. hops' \in Seq(T)
      BY <1>1, <2>1
    <2>3. /\ Len(hops') = n + 1 /\ DOMAIN hops' = 1 .. n + 1
          /\ \A h \in 1 .. n : hops'[h] = hops[h]
          /\ hops'[n + 1] = hop
      BY <1>1, <1>4, <2>1, <2>2
    <2> DEFINE U == {hops'[h] : h \in DOMAIN hops'}
    <2>4. hops' \in [1 .. n + 1 -> U]
      BY <2>2, <2>3
    <2>5. hops' \in Seq(U)
      BY <1>4, <2>4
    <2> QED
      BY <2>3, <2>5
  <1>6. n = 0 <=> hops = <<>>
    BY DEF IInv, HopsAreSeen
  <1> HIDE DEF n
  <1>7. HopsAreSeen'
    BY <1>1, <1>2, <1>4, <1>5 DEF IInv, HopsAreSeen, NextIsJudged
  <1>8. ChainIsBounded'
    <2>1. n <= setup.max
      BY <1>2, <1>3, <1>6 DEF IInv, NextIsJudged, n
    <2>2. \A h \in 1 .. n : hops[h].url # url
      BY <1>2, <1>4 DEF IInv, NextIsJudged
    <2>3. \A i, j \in 1 .. n : hops[i].url = hops[j].url => i = j
      BY <1>4 DEF IInv, ChainIsBounded
    <2>4. \A i, j \in DOMAIN hops' : hops'[i].url = hops'[j].url => i = j
      BY <1>1, <1>4, <1>5, <2>2, <2>3
    <2> QED
      BY <1>2, <1>3, <1>4, <1>5, <2>1, <2>4 DEF ChainIsBounded
  <1>9. HeadersGoOnce'
    <2> SUFFICES ASSUME NEW h \in 2 .. n + 1
                 PROVE  /\ hops'[h].headers \cap setup.headers = {}
                        /\ Origin(hops'[h].url) # Origin(hops'[h - 1].url) => hops'[h].headers = {}
      BY <1>2, <1>5 DEF HeadersGoOnce
    <2>1. h - 1 \in 1 .. n /\ hops'[h - 1] = hops[h - 1]
      BY <1>4, <1>5
    <2>2. CASE h \in 2 .. n
      BY <1>4, <1>5, <2>1, <2>2 DEF IInv, HeadersGoOnce, n
    <2>3. CASE h = n + 1
      BY <1>1, <1>2, <1>4, <1>5, <1>6, <2>1, <2>3 DEF IInv, NextIsJudged, n
    <2> QED
      BY <1>4, <2>2, <2>3
  <1> QED
    BY <1>2, <1>7, <1>8, <1>9 DEF IInv, NextIsJudged

\* A redirect that is followed leads to a URL that was not requested, within the
\* limit, and its request has lost the headers of the first one.
LEMMA FollowedIsJudged ==
  ASSUME NEW h, NEW to, NEW from, NEW scope, Decision(h, to, from, scope) = "followed"
  PROVE  to \notin seen /\ ~(Len(hops) > setup.max)
  BY DEF Decision

LEMMA HeadersAreStripped ==
  ASSUME NEW h, NEW to
  PROVE  /\ NextHeaders(h, to) \cap setup.headers = {}
         /\ Origin(to) # Origin(h.url) => NextHeaders(h, to) = {}
  BY DEF NextHeaders, Copied

LEMMA JudgeKeepsIInv ==
  ASSUME IInv, NEW keep \in BOOLEAN, Judge(keep) PROVE IInv'
  <1> DEFINE h == hops[Current]
             to == setup.web[h.url].to
  <1>1. phase = "redirect" /\ UNCHANGED <<setup, hops>>
    BY DEF Judge, trace
  <1>2. PICK ips \in Lookups(to.host), before \in Lookups(h.url.host) :
          IF Decision(h, to, PreviousScope(h, before), Scope(ips)) = "followed"
          THEN Follow(h, to, ips, keep)
          ELSE Block(Decision(h, to, PreviousScope(h, before), Scope(ips)))
    BY DEF Judge
  <1>3. CASE Decision(h, to, PreviousScope(h, before), Scope(ips)) = "followed"
    <2>1. to \notin seen /\ ~(Len(hops) > setup.max)
      BY <1>3, FollowedIsJudged
    <2>2. /\ url' = to /\ headers' = NextHeaders(h, to)
          /\ seen' = seen \cup {to} /\ phase' = "send"
      BY <1>2, <1>3 DEF Follow
    <2>3. Len(hops) \in Nat /\ setup.max \in Nat
      BY SetupsAssumption DEF IInv, HopsAreSeen
    <2>4. HopsAreSeen'
      BY <1>1, <2>2 DEF IInv, HopsAreSeen
    <2>5. /\ headers' \cap setup.headers = {}
          /\ Origin(to) # Origin(h.url) => headers' = {}
      BY <2>2, HeadersAreStripped
    <2>6. NextIsJudged'
      <3>1. url' \in seen' /\ \A g \in DOMAIN hops : hops[g].url # url'
        BY <2>1, <2>2 DEF IInv, HopsAreSeen
      <3>2. Len(hops) <= setup.max
        BY <2>1, <2>3
      <3>3. /\ headers' \cap setup.headers = {}
            /\ Origin(url') # Origin(hops[Len(hops)].url) => headers' = {}
        BY <2>2, <2>5 DEF Current
      <3> QED
        BY <1>1, <3>1, <3>2, <3>3 DEF NextIsJudged
    <2> QED
      BY <1>1, <2>2, <2>4, <2>6 DEF IInv, ChainIsBounded, HeadersGoOnce
  <1>4. CASE Decision(h, to, PreviousScope(h, before), Scope(ips)) # "followed"
    <2>1. phase' = "end" /\ UNCHANGED request
      BY <1>2, <1>4 DEF Block
    <2> QED
      BY <1>1, <2>1, SameHops, TraceKeepsIInv DEF IInv
  <1> QED
    BY <1>3, <1>4

-----------------------------------------------------------------------------
(* The other steps.                                                        *)

\* The check goes on, or ends, without a request and without the trace.
LEMMA ElsewhereKeepsIInv ==
  ASSUME IInv, UNCHANGED <<setup, request, hops>>,
         phase' = phase \/ phase' \notin {"environment", "enter", "send"}
  PROVE  IInv'
  BY SameHops, TraceKeepsIInv DEF IInv

LEMMA FailsKeepsIInv ==
  ASSUME IInv, NEW code, Fails(code) PROVE IInv'
  BY ElsewhereKeepsIInv DEF Fails, trace

LEMMA DiallingKeepsIInv ==
  ASSUME IInv, NEW h \in DOMAIN hops, Dialling(h) PROVE IInv'
  <1> USE DEF IsHop
  <1>0. HopsAreSeen /\ IsHop(hops[h])
    BY DEF IInv, HopsAreSeen
  <1>1. ASSUME SameRequests, UNCHANGED <<setup, request>>,
               phase' = phase \/ phase' = "wait"
        PROVE  IInv'
    BY <1>1, TraceKeepsIInv
  <1>2. CASE StartDial(h)
    <2>1. PICK c \in Candidates(hops[h]) :
            hops' = [hops EXCEPT ![h] = [hops[h] EXCEPT
                       !.dial = IF c.todo = {} THEN "failed" ELSE "open",
                       !.todo = c.todo, !.pinned = c.pinned]]
      BY <1>2 DEF StartDial
    <2>2. phase' = phase /\ UNCHANGED <<setup, request>>
      BY <1>2 DEF StartDial, OnlyDials
    <2>3. SameRequests
      BY <1>0, <2>1, OneHop
    <2> QED
      BY <1>1, <2>2, <2>3
  <1>3. CASE ConnectStart(h)
    <2>1. PICK todo, attempts :
            hops' = [hops EXCEPT ![h] = [hops[h] EXCEPT !.todo = todo, !.attempts = attempts]]
      BY <1>3, ZenonT(30) DEF ConnectStart
    <2> QED
      BY <1>0, <1>1, <1>3, <2>1, OneHop DEF ConnectStart, OnlyDials
  <1>4. CASE DialFails(h)
    BY <1>0, <1>1, <1>4, OneHop DEF DialFails, OnlyDials
  <1>5. CASE DialDone(h)
    <2>1. PICK r : /\ hops' = [hops EXCEPT ![h] = r]
                   /\ IsHop(r) /\ r.url = hops[h].url /\ r.headers = hops[h].headers
      BY <1>0, <1>5 DEF DialDone
    <2>2. phase' = phase \/ phase' = "wait"
      BY <1>5 DEF DialDone
    <2> QED
      BY <1>0, <1>1, <1>5, <2>1, <2>2, OneHop DEF DialDone, OnlyDials
  <1>6. ASSUME NEW i \in DOMAIN hops[h].attempts, Connects(h, i) \/ ConnectFails(h, i)
        PROVE  IInv'
    <2>1. PICK attempts : hops' = [hops EXCEPT ![h] = [hops[h] EXCEPT !.attempts = attempts]]
      BY <1>6 DEF Connects, ConnectFails
    <2> QED
      BY <1>0, <1>1, <1>6, <2>1, OneHop DEF Connects, ConnectFails, OnlyDials
  <1> QED
    BY <1>2, <1>3, <1>4, <1>5, <1>6 DEF Dialling

LEMMA RoundTripKeepsIInv == IInv /\ RoundTrip => IInv'
  <1> SUFFICES ASSUME IInv, RoundTrip PROVE IInv'
    OBVIOUS
  <1>0. HopsAreSeen
    BY DEF IInv
  <1>1. CASE EnvironmentChecked
    <2>1. hops = <<>> /\ hops' = <<>> /\ phase' = "enter" /\ UNCHANGED <<setup, request>>
      BY <1>1 DEF EnvironmentChecked, trace, IInv
    <2> QED
      BY <2>1 DEF IInv, HopsAreSeen, NextIsJudged, ChainIsBounded, HeadersGoOnce, request
  <1>2. CASE Refuse
    BY <1>2, ElsewhereKeepsIInv DEF Refuse, trace
  <1>3. CASE QueueDial
    <2>1. SameRequests
      BY <1>0, <1>3, OneHop DEF QueueDial, HopsAreSeen, IsHop
    <2> QED
      BY <1>3, <2>1, TraceKeepsIInv DEF QueueDial
  <1>4. CASE RequestStops \/ DialReported
    BY <1>4, FailsKeepsIInv DEF RequestStops, DialReported
  <1>5. ASSUME NEW c \in idle, GotIdleConn(c) PROVE IInv'
    <2>1. hops' = [hops EXCEPT ![Current] = [hops[Current] EXCEPT !.remote = c.remote,
                                                                  !.reused = TRUE]]
      BY <1>5 DEF GotIdleConn
    <2>2. SameRequests
      BY <1>0, <2>1, OneHop DEF HopsAreSeen, IsHop
    <2> QED
      BY <1>5, <2>2, TraceKeepsIInv DEF GotIdleConn
  <1>6. ASSUME NEW slow \in BOOLEAN, NEW torn \in BOOLEAN, Conclude(slow, torn) PROVE IInv'
    BY <1>6, ElsewhereKeepsIInv DEF Conclude, trace
  <1> QED
    BY <1>1, <1>2, <1>3, <1>4, <1>5, <1>6, PrepareKeepsIInv, BeginKeepsIInv, JudgeKeepsIInv
       DEF RoundTrip

LEMMA EnvironmentKeepsIInv == IInv /\ Environment => IInv'
  <1> SUFFICES ASSUME IInv, Environment PROVE IInv'
    OBVIOUS
  <1>0. HopsAreSeen
    BY DEF IInv
  <1>1. CASE Responds
    <2>1. SameRequests
      BY <1>0, <1>1, OneHop DEF Responds, HopsAreSeen, IsHop
    <2> QED
      BY <1>1, <2>1, TraceKeepsIInv DEF Responds
  <1>2. CASE ConnBreaks
    BY <1>2, FailsKeepsIInv DEF ConnBreaks
  <1>3. CASE ReusedConnBreaks
    BY <1>3, ElsewhereKeepsIInv DEF ReusedConnBreaks, trace
  <1>4. ASSUME NEW c \in idle, ConnComesBack(c) \/ IdleConnCloses(c) PROVE IInv'
    BY <1>4, ElsewhereKeepsIInv DEF ConnComesBack, IdleConnCloses, trace
  <1>5. ASSUME NEW h \in DOMAIN hops, HandshakeFails(h) PROVE IInv'
    <2>1. SameRequests
      BY <1>0, <1>5, OneHop DEF HandshakeFails, HopsAreSeen, IsHop
    <2> QED
      BY <1>5, <2>1, TraceKeepsIInv DEF HandshakeFails, OnlyDials
  <1>6. ASSUME NEW e, ContextEnds(e) PROVE IInv'
    BY <1>6, ElsewhereKeepsIInv DEF ContextEnds, trace
  <1> QED
    BY <1>1, <1>2, <1>3, <1>4, <1>5, <1>6 DEF Environment

LEMMA IInvStep == IInv /\ [Next]_vars => IInv'
  <1>1. ASSUME IInv, UNCHANGED vars PROVE IInv'
    BY <1>1, ElsewhereKeepsIInv DEF vars, trace
  <1> QED
    BY <1>1, RoundTripKeepsIInv, DiallingKeepsIInv, EnvironmentKeepsIInv DEF Next, Terminated

-----------------------------------------------------------------------------

\* Whatever the servers, the names and the proxy answer, and however long the
\* goroutines of earlier hops go on dialling: a chain follows no more redirects than
\* MaxRedirects and requests no URL twice (seen and len(via) of CheckRedirect).
THEOREM ChainsAreBounded == Spec => []ChainIsBounded
  <1>1. IInv => ChainIsBounded
    BY DEF IInv
  <1> QED
    BY <1>1, IInvInit, IInvStep, PTL DEF Spec

\* The headers of a run never leave with a redirected request, and no other origin
\* is told where it came from, for every chain (stripTransientHeaders,
\* removeSensitiveHeaders).
THEOREM HeadersLeaveOnce == Spec => []HeadersGoOnce
  <1>1. IInv => HeadersGoOnce
    BY DEF IInv
  <1> QED
    BY <1>1, IInvInit, IInvStep, PTL DEF Spec

-----------------------------------------------------------------------------
(* At which addresses the hops of a redirect chain are dialled.            *)

Address == IP \cup {ProxyIP}
States == {"open", "connected", "failed"}
Attempt == [ip : Address, state : States, selected : BOOLEAN]
Candidate == [at : Nat, ip : Address]

\* What the trace keeps of a hop.
Traced(h) ==
  /\ {"url", "route", "todo", "attempts", "remote"} \subseteq DOMAIN h
  /\ h.url \in DOMAIN setup.web /\ h.route \in {"direct", "proxy"}
  /\ h.todo \subseteq Candidate /\ h.attempts \in Seq(Attempt)

\* The hops and the redirects are sequences.
Sequenced ==
  /\ setup \in Setups
  /\ hops \in Seq({hops[h] : h \in DOMAIN hops}) /\ \A h \in DOMAIN hops : Traced(hops[h])
  /\ redirects \in Seq({redirects[r] : r \in DOMAIN redirects})
  /\ Len(redirects) <= Len(hops) /\ Len(hops) <= Len(redirects) + 1

\* A redirect has been judged for each hop but the first, and for the last one as
\* well once its redirect is followed; a response came from somewhere.
InStep ==
  /\ url \in DOMAIN setup.web
  /\ phase \in {"environment", "enter"} =>
       hops = <<>> /\ redirects = <<>> /\ url = setup.target /\ approved = <<>>
  /\ phase \in {"environment", "enter"} /\ proxy.captured =>
       proxy.selection = Selected(setup.target)
  /\ phase = "send" => Len(redirects) = Len(hops) /\ RouteOf(Selected(url)) \in {"direct", "proxy"}
  /\ phase \in {"connect", "wait", "redirect"} => Len(hops) = Len(redirects) + 1
  /\ phase \in {"wait", "redirect"} => hops[Current].remote # NoIP
  /\ phase = "redirect" => setup.web[hops[Current].url].to # NoURL
  /\ \A c \in idle : {"remote", "back"} \subseteq DOMAIN c /\ c.remote # NoIP

\* A connect IP stays approved for its origin.
FixedStays ==
  /\ \A o \in DOMAIN approved : approved[o] \in Seq(IP)
  /\ setup.connect # NoIP /\ phase \in {"send", "connect", "wait", "redirect"} =>
       /\ Origin(setup.target) \in DOMAIN approved
       /\ approved[Origin(setup.target)] = <<setup.connect>>

\* The addresses that redirects were judged by, each with its redirect and origin.
Judgements ==
  UNION {{<<r, Origin(redirects[r].to), ip>> :
            ip \in {i \in Range(redirects[r].judged) : JudgedBy(r, Origin(redirects[r].to), i)}} :
         r \in DOMAIN redirects}

Allowed(o, ip) == ip = setup.connect \/ \E r \in DOMAIN redirects : <<r, o, ip>> \in Judgements
AllowedBy(r, o, ip) == ip = setup.connect \/ <<r, o, ip>> \in Judgements
Direct(h) == h > 1 /\ hops[h].route = "direct"

\* What is approved has been judged, by the redirect to the current request if it
\* is for its origin.
ApprovedIsJudged ==
  /\ \A o \in DOMAIN approved : \A ip \in Range(approved[o]) : Allowed(o, ip)
  /\ phase = "send" /\ hops # <<>> /\ RouteOf(Selected(url)) = "direct" =>
       /\ Origin(url) \in DOMAIN approved
       /\ \A ip \in Range(approved[Origin(url)]) : AllowedBy(Len(hops), Origin(url), ip)
  /\ \A h \in DOMAIN hops : Direct(h) => Origin(hops[h].url) \in DOMAIN approved
  /\ phase \in {"connect", "wait"} /\ Direct(Current) =>
       LET o == Origin(hops[Current].url) IN
       \A ip \in Range(approved[o]) : AllowedBy(Current - 1, o, ip)

\* What is still to be tried, and what has been, was approved when its dial started.
DialsAreAllowed ==
  \A h \in DOMAIN hops : Direct(h) =>
    LET o == Origin(hops[h].url) IN
    /\ \A c \in hops[h].todo : Allowed(o, c.ip)
    /\ \A i \in DOMAIN hops[h].attempts : Allowed(o, hops[h].attempts[i].ip)
    /\ phase \in {"connect", "wait"} /\ h = Current =>
         /\ \A c \in hops[h].todo : AllowedBy(h - 1, o, c.ip)
         /\ \A i \in DOMAIN hops[h].attempts : AllowedBy(h - 1, o, hops[h].attempts[i].ip)
    /\ \A i \in DOMAIN hops[h].attempts :
         hops[h].attempts[i].selected => AllowedBy(h - 1, o, hops[h].attempts[i].ip)

\* The inductive invariant of what RedirectsStayJudged says of dials.
JInv == Sequenced /\ InStep /\ FixedStays /\ ApprovedIsJudged /\ DialsAreAllowed

LEMMA Lengths ==
  ASSUME Sequenced
  PROVE  /\ Len(hops) \in Nat /\ DOMAIN hops = 1 .. Len(hops)
         /\ Len(redirects) \in Nat /\ DOMAIN redirects = 1 .. Len(redirects)
         /\ DOMAIN redirects \subseteq DOMAIN hops
         /\ \A h \in DOMAIN hops : h > 1 => h - 1 \in DOMAIN redirects
  <1>1. /\ Len(hops) \in Nat /\ DOMAIN hops = 1 .. Len(hops)
        /\ Len(redirects) \in Nat /\ DOMAIN redirects = 1 .. Len(redirects)
    BY DEF Sequenced
  <1> QED
    BY <1>1 DEF Sequenced

\* Judgements holds what JudgedBy says.
LEMMA JudgementsAre ==
  \A r, o, ip : <<r, o, ip>> \in Judgements <=> r \in DOMAIN redirects /\ JudgedBy(r, o, ip)
  BY DEF Judgements, JudgedBy

LEMMA FunctionIsSequence ==
  ASSUME NEW n \in Nat, NEW T, NEW s \in [1 .. n -> T]
  PROVE  s \in Seq(T) /\ Len(s) = n
  OBVIOUS

\* The part of RedirectsStayJudged that is about what is dialled.
DialsAreJudged ==
  \A h \in DOMAIN hops : Direct(h) =>
    \A i \in DOMAIN hops[h].attempts :
      LET attempt == hops[h].attempts[i]
          origin == Origin(hops[h].url)
      IN \/ attempt.ip = setup.connect
         \/ \E r \in DOMAIN redirects : JudgedBy(r, origin, attempt.ip)
                                       /\ (attempt.selected => r = h - 1)

LEMMA JInvIsEnough == JInv => DialsAreJudged
  <1> SUFFICES ASSUME JInv, NEW h \in DOMAIN hops, Direct(h), NEW i \in DOMAIN hops[h].attempts,
                      hops[h].attempts[i].ip # setup.connect
               PROVE  \E r \in DOMAIN redirects :
                        /\ JudgedBy(r, Origin(hops[h].url), hops[h].attempts[i].ip)
                        /\ hops[h].attempts[i].selected => r = h - 1
    BY DEF DialsAreJudged
  <1> DEFINE o == Origin(hops[h].url)
             attempt == hops[h].attempts[i]
  <1>1. CASE attempt.selected
    <2>1. JudgedBy(h - 1, o, attempt.ip) /\ h - 1 \in DOMAIN redirects
      BY <1>1, JudgementsAre DEF JInv, DialsAreAllowed, AllowedBy
    <2> QED
      BY <2>1
  <1>2. CASE ~attempt.selected
    BY <1>2, JudgementsAre DEF JInv, DialsAreAllowed, Allowed
  <1> QED
    BY <1>1, <1>2

\* A judgement stays one while redirects are added, and hops keep where the ones
\* that were judged came from.
LEMMA JudgementsStay ==
  ASSUME UNCHANGED setup, DOMAIN redirects \subseteq DOMAIN redirects',
         \A r \in DOMAIN redirects : /\ redirects'[r] = redirects[r]
                                     /\ hops'[r].route = hops[r].route
                                     /\ hops'[r].remote = hops[r].remote
  PROVE  Judgements \subseteq Judgements'
  BY DEF Judgements, JudgedBy

\* What the goroutine of a dial, or the request, may do to the hop it is for.
Advances(h, r) ==
  /\ hops' = [hops EXCEPT ![h] = r]
  /\ Traced(r) /\ r.url = hops[h].url /\ r.route = hops[h].route
  /\ r.remote = hops[h].remote \/ (phase = "connect" /\ h = Current /\ r.remote # NoIP)
  /\ Direct(h) => \A c \in r.todo :
       c \in hops[h].todo \/ c.ip \in Range(approved[Origin(hops[h].url)])
  /\ \A i \in DOMAIN r.attempts :
       \/ /\ i \in DOMAIN hops[h].attempts /\ r.attempts[i].ip = hops[h].attempts[i].ip
          /\ r.attempts[i].selected =>
               hops[h].attempts[i].selected \/ (phase = "connect" /\ h = Current)
       \/ /\ \E c \in hops[h].todo : r.attempts[i].ip = c.ip
          /\ ~r.attempts[i].selected

IdleIsConnected == \A c \in idle' : {"remote", "back"} \subseteq DOMAIN c /\ c.remote # NoIP

LEMMA AdvancesKeepsJInv ==
  ASSUME JInv, NEW h \in DOMAIN hops, NEW r, Advances(h, r),
         UNCHANGED <<setup, proxy, request, redirects>>, IdleIsConnected,
         \/ phase' = phase
         \/ phase = "connect" /\ phase' = "wait" /\ h = Current /\ r.remote # NoIP
         \/ phase = "wait" /\ phase' \in {"redirect", "read"}
            /\ (phase' = "redirect" => setup.web[hops[Current].url].to # NoURL)
  PROVE  JInv'
  <1>0. Sequenced /\ InStep /\ FixedStays /\ ApprovedIsJudged /\ DialsAreAllowed
    BY DEF JInv
  <1>1. /\ Len(hops) \in Nat /\ DOMAIN hops = 1 .. Len(hops)
        /\ Len(redirects) \in Nat /\ DOMAIN redirects = 1 .. Len(redirects)
        /\ DOMAIN redirects \subseteq DOMAIN hops
        /\ \A k \in DOMAIN hops : k > 1 => k - 1 \in DOMAIN redirects
    BY <1>0, Lengths
  <1>2. DOMAIN hops' = DOMAIN hops /\ \A k \in DOMAIN hops : hops'[k] = IF k = h THEN r ELSE hops[k]
    BY DEF Advances
  <1>3. Len(hops') = Len(hops) /\ hops' \in Seq({hops'[k] : k \in DOMAIN hops'})
    <2> DEFINE T == {hops'[k] : k \in DOMAIN hops'}
    <2>1. hops' \in [1 .. Len(hops) -> T]
      BY <1>0, <1>1, <1>2 DEF Advances, JInv, Sequenced
    <2> HIDE DEF T
    <2>2. hops' \in Seq(T) /\ Len(hops') = Len(hops)
      BY <1>1, <2>1, FunctionIsSequence
    <2> QED
      BY <2>2 DEF T
  <1>4. UNCHANGED <<setup, proxy, url, approved, redirects>>
    BY DEF request
  <1>5. \A k \in DOMAIN hops : /\ hops'[k].url = hops[k].url /\ hops'[k].route = hops[k].route
                               /\ Direct(k)' <=> Direct(k)
    BY <1>2 DEF Advances, Direct
  <1>6. \A k \in DOMAIN redirects : hops'[k].remote = hops[k].remote
    <2>1. phase = "connect" => Current \notin DOMAIN redirects
      BY <1>0, <1>1 DEF InStep, Current
    <2> QED
      BY <1>1, <1>2, <2>1 DEF Advances
  <1>7. Judgements \subseteq Judgements'
    BY <1>4, <1>5, <1>6, <1>1, JudgementsStay
  <1>8. Current' = Current /\ (hops' = <<>> <=> hops = <<>>)
    BY <1>1, <1>3, h \in DOMAIN hops DEF Current
  <1>9. Sequenced'
    <2>1. \A k \in DOMAIN hops : Traced(hops[k])'
      BY <1>0, <1>2, <1>4 DEF Sequenced, Advances, Traced
    <2>2. redirects' \in Seq({redirects'[k] : k \in DOMAIN redirects'})
      BY <1>0, <1>4 DEF Sequenced
    <2>3. /\ setup' \in Setups
          /\ Len(redirects') <= Len(hops') /\ Len(hops') <= Len(redirects') + 1
      BY <1>0, <1>3, <1>4 DEF Sequenced
    <2> QED
      BY <1>2, <1>3, <2>1, <2>2, <2>3 DEF Sequenced
  <1>10. InStep'
    <2>1. phase' \notin {"environment", "enter"}
      <3>1. hops # <<>>
        BY h \in DOMAIN hops
      <3> QED
        BY <1>0, <3>1 DEF InStep
    <2>2. Current \in DOMAIN hops
      BY <1>1, h \in DOMAIN hops DEF Current
    <2>3. phase' \in {"wait", "redirect"} => hops'[Current].remote # NoIP
      BY <1>0, <1>2, <2>2 DEF InStep, Advances
    <2> QED
      BY <1>0, <1>3, <1>4, <1>5, <1>8, <2>1, <2>2, <2>3 DEF InStep, IdleIsConnected, Selected
  <1>11. FixedStays'
    BY <1>0, <1>4, <1>1, h \in DOMAIN hops DEF FixedStays, InStep
  <1>12. ApprovedIsJudged'
    <2>1. \A o \in DOMAIN approved' : \A ip \in Range(approved'[o]) :
            ip = setup.connect \/ \E k \in DOMAIN redirects : <<k, o, ip>> \in Judgements'
      BY <1>0, <1>4, <1>7 DEF ApprovedIsJudged, Allowed
    <2>2. phase' = "send" /\ hops' # <<>> /\ RouteOf(Selected(url))' = "direct" =>
            /\ Origin(url') \in DOMAIN approved'
            /\ \A ip \in Range(approved'[Origin(url')]) :
                 ip = setup.connect \/ <<Len(hops'), Origin(url'), ip>> \in Judgements'
      <3>1. RouteOf(Selected(url))' = RouteOf(Selected(url))
        BY <1>4 DEF Selected
      <3>2. phase' = "send" => phase = "send"
        OBVIOUS
      <3> QED
        BY <1>0, <1>3, <1>4, <1>7, <1>8, <3>1, <3>2 DEF ApprovedIsJudged, AllowedBy
    <2>3. \A k \in DOMAIN hops' : Direct(k)' => Origin(hops'[k].url) \in DOMAIN approved'
      BY <1>0, <1>2, <1>4, <1>5 DEF ApprovedIsJudged
    <2>4. phase' \in {"connect", "wait"} /\ Direct(Current)' =>
            \A ip \in Range(approved'[Origin(hops'[Current'].url)]) :
              \/ ip = setup.connect
              \/ <<Current' - 1, Origin(hops'[Current'].url), ip>> \in Judgements'
      <3>1. /\ phase' \in {"connect", "wait"} => phase \in {"connect", "wait"}
            /\ Current \in DOMAIN hops
        BY <1>1, h \in DOMAIN hops DEF Current
      <3>2. Direct(Current)' => Direct(Current)
        BY <1>5, <1>8, <3>1 DEF Direct
      <3> QED
        BY <1>0, <1>4, <1>5, <1>7, <1>8, <3>1, <3>2 DEF ApprovedIsJudged, AllowedBy
    <2> QED
      BY <1>4, <2>1, <2>2, <2>3, <2>4 DEF ApprovedIsJudged, Allowed, AllowedBy
  <1>13. DialsAreAllowed'
    <2> SUFFICES ASSUME NEW k \in DOMAIN hops', Direct(k)', NEW o, o = Origin(hops'[k].url)
                 PROVE  /\ \A c \in hops'[k].todo : Allowed(o, c.ip)'
                        /\ \A i \in DOMAIN hops'[k].attempts : Allowed(o, hops[k].attempts[i].ip)'
                        /\ phase' \in {"connect", "wait"} /\ k = Current' =>
                             /\ \A c \in hops'[k].todo : AllowedBy(k - 1, o, c.ip)'
                             /\ \A i \in DOMAIN hops'[k].attempts :
                                  AllowedBy(k - 1, o, hops[k].attempts[i].ip)'
                        /\ \A i \in DOMAIN hops'[k].attempts : hops'[k].attempts[i].selected =>
                             AllowedBy(k - 1, o, hops[k].attempts[i].ip)'
      BY DEF DialsAreAllowed, Allowed, AllowedBy
    <2>0. k \in DOMAIN hops /\ Direct(k) /\ o = Origin(hops[k].url) /\ Current' = Current
      BY <1>2, <1>5, <1>8
    <2>1. /\ \A c \in hops[k].todo : Allowed(o, c.ip)
          /\ \A i \in DOMAIN hops[k].attempts : Allowed(o, hops[k].attempts[i].ip)
          /\ \A i \in DOMAIN hops[k].attempts :
               hops[k].attempts[i].selected => AllowedBy(k - 1, o, hops[k].attempts[i].ip)
          /\ \A ip \in Range(approved[o]) : Allowed(o, ip)
      BY <1>0, <2>0 DEF DialsAreAllowed, ApprovedIsJudged
    <2>2. phase \in {"connect", "wait"} /\ k = Current =>
            /\ \A c \in hops[k].todo : AllowedBy(k - 1, o, c.ip)
            /\ \A i \in DOMAIN hops[k].attempts : AllowedBy(k - 1, o, hops[k].attempts[i].ip)
            /\ \A ip \in Range(approved[o]) : AllowedBy(k - 1, o, ip)
      BY <1>0, <2>0 DEF DialsAreAllowed, ApprovedIsJudged
    <2>3. phase' \in {"connect", "wait"} => phase \in {"connect", "wait"}
      OBVIOUS
    <2>4. \A c \in hops'[k].todo :
            /\ Allowed(o, c.ip)
            /\ phase' \in {"connect", "wait"} /\ k = Current => AllowedBy(k - 1, o, c.ip)
      BY <1>2, <2>0, <2>1, <2>2, <2>3 DEF Advances
    <2>5. \A i \in DOMAIN hops'[k].attempts :
            LET attempt == hops'[k].attempts[i] IN
            /\ Allowed(o, attempt.ip)
            /\ phase' \in {"connect", "wait"} /\ k = Current => AllowedBy(k - 1, o, attempt.ip)
            /\ attempt.selected => AllowedBy(k - 1, o, attempt.ip)
      BY <1>2, <2>0, <2>1, <2>2, <2>3 DEF Advances
    <2> QED
      BY <1>4, <1>7, <2>0, <2>4, <2>5 DEF Allowed, AllowedBy
  <1> QED
    BY <1>9, <1>10, <1>11, <1>12, <1>13 DEF JInv

\* The check goes on without its hops and redirects.
LEMMA ElsewhereKeepsJInv ==
  ASSUME JInv, UNCHANGED <<setup, request, hops, redirects>>, IdleIsConnected,
         \/ phase' = phase /\ UNCHANGED proxy
         \/ phase' \in {"read", "end"}
         \/ phase = "wait" /\ phase' = "connect"
  PROVE  JInv'
  <1>0. Sequenced /\ InStep /\ FixedStays /\ ApprovedIsJudged /\ DialsAreAllowed
    BY DEF JInv
  <1>1. UNCHANGED <<setup, url, approved, hops, redirects>> /\ Current' = Current
    BY DEF request, Current
  <1>2. Judgements' = Judgements
    BY <1>1 DEF Judgements, JudgedBy
  <1>3. Sequenced'
    BY <1>0, <1>1 DEF Sequenced, Traced
  <1>4. InStep'
    BY <1>0, <1>1 DEF InStep, IdleIsConnected, Selected
  <1>5. FixedStays'
    BY <1>0, <1>1 DEF FixedStays
  <1>6. ApprovedIsJudged'
    BY <1>0, <1>1, <1>2 DEF ApprovedIsJudged, Allowed, AllowedBy, Direct, Selected
  <1>7. DialsAreAllowed'
    BY <1>0, <1>1, <1>2 DEF DialsAreAllowed, Allowed, AllowedBy, Direct
  <1> QED
    BY <1>3, <1>4, <1>5, <1>6, <1>7 DEF JInv

LEMMA IdleStays ==
  ASSUME JInv, idle' \subseteq idle PROVE IdleIsConnected
  BY DEF JInv, InStep, IdleIsConnected

-----------------------------------------------------------------------------

LEMMA JInvInit == Init => JInv
  <1> SUFFICES ASSUME Init PROVE JInv
    OBVIOUS
  <1>1. /\ setup \in Setups /\ phase = "environment" /\ url = setup.target
        /\ approved = <<>> /\ idle = {} /\ hops = <<>> /\ redirects = <<>> /\ ~proxy.captured
    BY DEF Init
  <1>2. Sequenced
    BY <1>1 DEF Sequenced
  <1>3. InStep
    BY <1>1, SetupsAssumption DEF InStep
  <1>4. FixedStays /\ ApprovedIsJudged /\ DialsAreAllowed
    BY <1>1 DEF FixedStays, ApprovedIsJudged, DialsAreAllowed
  <1> QED
    BY <1>2, <1>3, <1>4 DEF JInv

LEMMA CheckedKeepsJInv == JInv /\ EnvironmentChecked => JInv'
  <1> SUFFICES ASSUME JInv, EnvironmentChecked PROVE JInv'
    OBVIOUS
  <1>0. Sequenced /\ InStep /\ FixedStays /\ ApprovedIsJudged /\ DialsAreAllowed
    BY DEF JInv
  <1>1. /\ phase = "environment" /\ phase' = "enter"
        /\ UNCHANGED <<setup, url, approved, idle, hops, redirects>>
        /\ proxy' = proxy \/ proxy' = [captured |-> TRUE, selection |-> Selected(setup.target)]
    BY DEF EnvironmentChecked, request, trace
  <1>2. hops = <<>> /\ redirects = <<>> /\ approved = <<>>
    BY <1>0, <1>1 DEF InStep
  <1>3. Sequenced'
    BY <1>0, <1>1 DEF Sequenced, Traced
  <1>4. InStep'
    BY <1>0, <1>1 DEF InStep, Selected
  <1>5. FixedStays' /\ ApprovedIsJudged' /\ DialsAreAllowed'
    BY <1>1, <1>2 DEF FixedStays, ApprovedIsJudged, DialsAreAllowed
  <1> QED
    BY <1>3, <1>4, <1>5 DEF JInv

LEMMA PrepareKeepsJInv == JInv /\ Prepare => JInv'
  <1> SUFFICES ASSUME JInv, Prepare PROVE JInv'
    OBVIOUS
  <1>0. Sequenced /\ InStep /\ FixedStays /\ ApprovedIsJudged /\ DialsAreAllowed
    BY DEF JInv
  <1>1. /\ phase = "enter" /\ phase' = "send" /\ Refusal = "none"
        /\ UNCHANGED <<setup, url, idle, hops, redirects>>
        /\ approved' = IF setup.connect = NoIP THEN <<>>
                       ELSE [o \in {Origin(url)} |-> <<setup.connect>>]
    BY DEF Prepare, trace
  <1>2. hops = <<>> /\ redirects = <<>> /\ url = setup.target
    BY <1>0, <1>1 DEF InStep
  <1>3. RouteOf(Selected(url)) \in {"direct", "proxy"}
    <2>1. proxy.captured /\ RouteOf(proxy.selection) # "blocked"
      BY <1>1 DEF Refusal
    <2>2. RouteOf(Selected(url)) # "blocked"
      BY <1>0, <1>1, <1>2, <2>1 DEF InStep
    <2> QED
      BY <2>2 DEF RouteOf
  <1>4. Sequenced'
    BY <1>0, <1>1 DEF Sequenced, Traced
  <1>5. InStep'
    <2>1. RouteOf(Selected(url))' = RouteOf(Selected(url))
      BY <1>1 DEF Selected
    <2> QED
      BY <1>0, <1>1, <1>2, <1>3, <2>1 DEF InStep
  <1>6. FixedStays'
    <2>1. setup.connect # NoIP => setup.connect \in IP
      BY <1>0, SetupsAssumption DEF Sequenced
    <2> QED
      BY <1>1, <1>2, <2>1 DEF FixedStays
  <1>7. ApprovedIsJudged'
    BY <1>1, <1>2 DEF ApprovedIsJudged, Allowed, Range
  <1>8. DialsAreAllowed'
    BY <1>1, <1>2 DEF DialsAreAllowed
  <1> QED
    BY <1>4, <1>5, <1>6, <1>7, <1>8 DEF JInv

LEMMA BeginKeepsJInv == JInv /\ Begin => JInv'
  <1> SUFFICES ASSUME JInv, Begin PROVE JInv'
    OBVIOUS
  <1>0. Sequenced /\ InStep /\ FixedStays /\ ApprovedIsJudged /\ DialsAreAllowed
    BY DEF JInv
  <1>1. PICK hop : /\ hops' = Append(hops, hop)
                   /\ {"url", "route", "todo", "attempts", "remote"} \subseteq DOMAIN hop
                   /\ hop.url = url /\ hop.route = RouteOf(Selected(url))
                   /\ hop.todo = {} /\ hop.attempts = <<>>
    BY DEF Begin
  <1>2. /\ phase = "send" /\ phase' = "connect"
        /\ UNCHANGED <<setup, url, approved, idle, redirects>>
    BY DEF Begin, request
  <1>n. PICK n : n = Len(hops)
    OBVIOUS
  <1>3. /\ n \in Nat /\ DOMAIN hops = 1 .. n /\ DOMAIN redirects = 1 .. n /\ Len(redirects) = n
        /\ RouteOf(Selected(url)) \in {"direct", "proxy"}
    BY <1>0, <1>2, <1>n, Lengths DEF InStep
  <1>4. /\ Len(hops') = n + 1 /\ DOMAIN hops' = 1 .. n + 1
        /\ \A h \in 1 .. n : hops'[h] = hops[h]
        /\ hops'[n + 1] = hop
        /\ hops' \in Seq({hops'[h] : h \in DOMAIN hops'})
    <2> DEFINE T == {hops[h] : h \in DOMAIN hops} \cup {hop}
               U == {hops'[h] : h \in DOMAIN hops'}
    <2>1. hops \in Seq(T) /\ hop \in T
      BY <1>0, <1>3 DEF Sequenced
    <2>2. hops' \in Seq(T)
      BY <1>1, <2>1
    <2>3. /\ Len(hops') = n + 1 /\ DOMAIN hops' = 1 .. n + 1
          /\ \A h \in 1 .. n : hops'[h] = hops[h]
          /\ hops'[n + 1] = hop
      BY <1>1, <1>3, <1>n, <2>1, <2>2
    <2>4. hops' \in [1 .. n + 1 -> U]
      BY <2>2, <2>3
    <2> HIDE DEF U
    <2>5. hops' \in Seq(U)
      BY <1>3, <2>4, FunctionIsSequence
    <2> QED
      BY <2>3, <2>5 DEF U
  <1>5. n = 0 <=> hops = <<>>
    BY <1>0, <1>n DEF Sequenced
  <1>6. Judgements \subseteq Judgements'
    BY <1>2, <1>3, <1>4, JudgementsStay
  <1>7. Sequenced'
    <2>1. \A h \in 1 .. n : Traced(hops[h])'
      BY <1>0, <1>2, <1>3, <1>4 DEF Sequenced, Traced
    <2>2. Traced(hops[n + 1])'
      <3>1. hop.attempts \in Seq(Attempt) /\ hop.todo \subseteq Candidate
        BY <1>1
      <3>2. hop.url \in DOMAIN setup'.web /\ hop.route \in {"direct", "proxy"}
        BY <1>0, <1>1, <1>2, <1>3 DEF InStep
      <3> QED
        BY <1>1, <1>4, <3>1, <3>2 DEF Traced
    <2>3. \A h \in DOMAIN hops' : Traced(hops[h])'
      BY <1>3, <1>4, <2>1, <2>2
    <2> QED
      BY <1>0, <1>2, <1>3, <1>4, <2>3 DEF Sequenced
  <1>8. InStep'
    BY <1>0, <1>2, <1>3, <1>4 DEF InStep
  <1>9. FixedStays'
    BY <1>0, <1>2 DEF FixedStays
  <1>10. Current' = n + 1 /\ \A h \in 1 .. n : Direct(h)' <=> Direct(h)
    BY <1>4 DEF Current, Direct
  <1>11. Direct(n + 1)' =>
           /\ Origin(url) \in DOMAIN approved
           /\ \A ip \in Range(approved[Origin(url)]) : AllowedBy(n, Origin(url), ip)
    BY <1>0, <1>1, <1>2, <1>3, <1>4, <1>5, <1>n DEF ApprovedIsJudged, Direct
  <1>12. ApprovedIsJudged'
    <2>1. \A o \in DOMAIN approved' : \A ip \in Range(approved'[o]) : Allowed(o, ip)'
      BY <1>0, <1>2, <1>6 DEF ApprovedIsJudged, Allowed
    <2>2. \A h \in DOMAIN hops' : Direct(h)' => Origin(hops'[h].url) \in DOMAIN approved'
      BY <1>0, <1>1, <1>2, <1>3, <1>4, <1>10, <1>11 DEF ApprovedIsJudged
    <2>3. Direct(n + 1)' =>
            \A ip \in Range(approved'[Origin(hops'[n + 1].url)]) :
              ip = setup'.connect \/ <<n, Origin(hops'[n + 1].url), ip>> \in Judgements'
      BY <1>1, <1>2, <1>4, <1>6, <1>11 DEF AllowedBy
    <2> QED
      BY <1>2, <1>3, <1>10, <2>1, <2>2, <2>3 DEF ApprovedIsJudged, AllowedBy
  <1>13. DialsAreAllowed'
    <2>1. \A h \in 1 .. n : h # Current'
      BY <1>3, <1>10
    <2>2. hops'[n + 1].todo = {} /\ DOMAIN hops'[n + 1].attempts = {}
      BY <1>1, <1>4
    <2> SUFFICES ASSUME NEW h \in DOMAIN hops', Direct(h)', NEW o, o = Origin(hops'[h].url)
                 PROVE  /\ \A c \in hops'[h].todo : Allowed(o, c.ip)'
                        /\ \A i \in DOMAIN hops'[h].attempts : Allowed(o, hops[h].attempts[i].ip)'
                        /\ phase' \in {"connect", "wait"} /\ h = Current' =>
                             /\ \A c \in hops'[h].todo : AllowedBy(h - 1, o, c.ip)'
                             /\ \A i \in DOMAIN hops'[h].attempts :
                                  AllowedBy(h - 1, o, hops[h].attempts[i].ip)'
                        /\ \A i \in DOMAIN hops'[h].attempts : hops'[h].attempts[i].selected =>
                             AllowedBy(h - 1, o, hops[h].attempts[i].ip)'
      BY DEF DialsAreAllowed, Allowed, AllowedBy
    <2>3. CASE h = n + 1
      BY <2>2, <2>3
    <2>4. CASE h \in 1 .. n
      <3>1. Direct(h) /\ o = Origin(hops[h].url) /\ hops'[h] = hops[h] /\ h # Current'
        BY <1>4, <1>10, <2>1, <2>4
      <3>2. /\ \A c \in hops[h].todo : Allowed(o, c.ip)
            /\ \A i \in DOMAIN hops[h].attempts :
                 /\ Allowed(o, hops[h].attempts[i].ip)
                 /\ hops[h].attempts[i].selected => AllowedBy(h - 1, o, hops[h].attempts[i].ip)
        BY <1>0, <1>3, <2>4, <3>1 DEF DialsAreAllowed
      <3> QED
        BY <1>2, <1>6, <3>1, <3>2 DEF Allowed, AllowedBy
    <2> QED
      BY <1>3, <1>4, <2>3, <2>4
  <1> QED
    BY <1>7, <1>8, <1>9, <1>12, <1>13 DEF JInv

\* A name resolves to addresses.
LEMMA LookupsAre ==
  ASSUME Sequenced, NEW u \in DOMAIN setup.web, NEW s \in Lookups(u.host)
  PROVE  s \in Seq(IP)
  <1>1. u \in URLs
    BY SetupsAssumption DEF Sequenced
  <1>2. u.host \in Hosts
    BY <1>1 DEF URLs
  <1>3. setup.names[u.host] \subseteq Seq(IP)
    BY <1>2, SetupsAssumption DEF Sequenced
  <1>4. s \in setup.names[u.host] \cup {<<>>}
    BY DEF Lookups
  <1>5. <<>> \in Seq(IP)
    OBVIOUS
  <1> QED
    BY <1>3, <1>4, <1>5, Zenon

\* A private address is only accepted from a private one without the opt-in.
LEMMA ScopesAreKept ==
  ASSUME NEW h, NEW to, NEW before, NEW ips, NEW ip \in Range(ips) \cap PrivateIP,
         Decision(h, to, PreviousScope(h, before), Scope(ips)) = "followed", ~setup.private,
         h.route \in {"direct", "proxy"}, h.remote # NoIP
  PROVE  h.route = "direct" /\ h.remote \in PrivateIP
  <1> DEFINE from == PreviousScope(h, before)
  <1>1. CanBePrivate(Scope(ips))
    BY AddressAssumption DEF Scope, CanBePrivate, Range
  <1>2. ~CanBePublic(from)
    BY <1>1 DEF Decision
  <1>3. h.route = "direct" /\ from = Scope(<<h.remote>>)
    BY <1>2 DEF PreviousScope, CanBePublic
  <1>4. Range(<<h.remote>>) = {h.remote} /\ <<h.remote>> # <<>>
    BY DEF Range
  <1> QED
    BY <1>2, <1>3, <1>4 DEF Scope, CanBePublic

LEMMA JudgeKeepsJInv ==
  ASSUME JInv, NEW keep \in BOOLEAN, Judge(keep) PROVE JInv'
  <1> DEFINE from == hops[Current]
             to == setup.web[from.url].to
  <1>0. Sequenced /\ InStep /\ FixedStays /\ ApprovedIsJudged /\ DialsAreAllowed
    BY DEF JInv
  <1>1. phase = "redirect" /\ UNCHANGED <<setup, proxy, hops>>
    BY DEF Judge, trace
  <1>n. PICK n : n = Len(hops)
    OBVIOUS
  <1>2. /\ n \in Nat /\ DOMAIN hops = 1 .. n /\ n = Len(redirects) + 1 /\ n \in DOMAIN hops
        /\ DOMAIN redirects = 1 .. n - 1 /\ Current = n
    BY <1>0, <1>1, <1>n, Lengths DEF InStep, Current
  <1>3. /\ Traced(from) /\ from.remote # NoIP /\ to \in DOMAIN setup.web
    <2>1. Traced(from) /\ from.remote # NoIP /\ to # NoURL
      BY <1>0, <1>1, <1>2 DEF Sequenced, InStep
    <2> QED
      BY <1>0, <2>1, SetupsAssumption DEF Sequenced, Traced
  <1>3a. PICK ips \in Lookups(to.host), before \in Lookups(from.url.host) :
           \E decision : /\ decision = Decision(from, to, PreviousScope(from, before), Scope(ips))
                         /\ redirects' = Append(redirects,
                                [from |-> from.url, to |-> to, decision |-> decision,
                                 judged |-> ips, fromRef |-> 0, toRef |-> 0])
                         /\ IF decision = "followed" THEN Follow(from, to, ips, keep)
                                                     ELSE Block(decision)
    BY DEF Judge
  <1>4. PICK decision :
          /\ decision = Decision(from, to, PreviousScope(from, before), Scope(ips))
          /\ redirects' = Append(redirects, [from |-> from.url, to |-> to, decision |-> decision,
                                             judged |-> ips, fromRef |-> 0, toRef |-> 0])
          /\ IF decision = "followed" THEN Follow(from, to, ips, keep) ELSE Block(decision)
    BY <1>3a
  <1>5. ips \in Seq(IP)
    <2> HIDE DEF to
    <2> QED
      BY <1>0, <1>3, <1>3a, LookupsAre
  <1>6. /\ Len(redirects') = n /\ DOMAIN redirects' = 1 .. n
        /\ \A r \in 1 .. n - 1 : redirects'[r] = redirects[r]
        /\ redirects'[n].to = to /\ redirects'[n].judged = ips
        /\ redirects'[n].decision = decision
        /\ redirects' \in Seq({redirects'[r] : r \in DOMAIN redirects'})
    <2> DEFINE new == [from |-> from.url, to |-> to, decision |-> decision,
                       judged |-> ips, fromRef |-> 0, toRef |-> 0]
               T == {redirects[r] : r \in DOMAIN redirects} \cup {new}
               U == {redirects'[r] : r \in DOMAIN redirects'}
    <2> HIDE DEF from, to
    <2>0. new.to = to /\ new.judged = ips /\ new.decision = decision
      OBVIOUS
    <2> HIDE DEF new
    <2>1. redirects \in Seq(T) /\ new \in T
      BY <1>0 DEF Sequenced
    <2>2. redirects' = Append(redirects, new)
      BY <1>4 DEF new
    <2>3. redirects' \in Seq(T)
      BY <2>1, <2>2
    <2>4. /\ Len(redirects') = n /\ DOMAIN redirects' = 1 .. n
          /\ \A r \in 1 .. n - 1 : redirects'[r] = redirects[r]
          /\ redirects'[n] = new
      BY <1>2, <2>1, <2>2, <2>3
    <2>5. redirects' \in [1 .. n -> U]
      BY <2>3, <2>4
    <2> HIDE DEF U
    <2>6. redirects' \in Seq(U)
      BY <1>2, <2>5, FunctionIsSequence
    <2> QED
      BY <2>0, <2>4, <2>6 DEF U
  <1>7. Judgements \subseteq Judgements'
    BY <1>1, <1>2, <1>6, JudgementsStay
  <1>8. Sequenced'
    BY <1>0, <1>1, <1>2, <1>6, <1>n DEF Sequenced, Traced
  <1>9. Direct(n)' = Direct(n) /\ \A h \in DOMAIN hops : Direct(h)' <=> Direct(h)
    BY <1>1 DEF Direct
  <1>10. ASSUME phase' \notin {"connect", "wait"} PROVE DialsAreAllowed'
    <2> SUFFICES ASSUME NEW h \in DOMAIN hops, Direct(h), NEW o, o = Origin(hops[h].url)
                 PROVE  /\ \A c \in hops[h].todo : Allowed(o, c.ip)'
                        /\ \A i \in DOMAIN hops[h].attempts : Allowed(o, hops[h].attempts[i].ip)'
                        /\ \A i \in DOMAIN hops[h].attempts : hops[h].attempts[i].selected =>
                             AllowedBy(h - 1, o, hops[h].attempts[i].ip)'
      BY <1>1, <1>9, <1>10 DEF DialsAreAllowed, Allowed, AllowedBy
    <2>1. /\ \A c \in hops[h].todo : Allowed(o, c.ip)
          /\ \A i \in DOMAIN hops[h].attempts :
               /\ Allowed(o, hops[h].attempts[i].ip)
               /\ hops[h].attempts[i].selected => AllowedBy(h - 1, o, hops[h].attempts[i].ip)
      BY <1>0 DEF DialsAreAllowed
    <2>2. DOMAIN redirects \subseteq DOMAIN redirects'
      BY <1>2, <1>6
    <2> QED
      BY <1>1, <1>7, <2>1, <2>2 DEF Allowed, AllowedBy
  <1>11. CASE decision = "followed"
    <2> HIDE DEF to
    <2>0. PICK o : o = Origin(to)
      OBVIOUS
    <2>1. /\ phase' = "send" /\ url' = to
          /\ approved' = Approve(to, ips)
          /\ idle' \subseteq idle \cup {IdleConn(from)}
      BY <1>4, <1>11 DEF Follow
    <2>2. /\ RouteOf(Selected(to)) \in {"direct", "proxy"}
          /\ \A ip \in Range(ips) : <<n, o, ip>> \in Judgements'
      <3>1. RouteOf(Selected(to)) # "blocked"
        BY <1>4, <1>11 DEF Decision
      <3>2. ASSUME NEW ip \in Range(ips), ip \in PrivateIP, ~setup.private
            PROVE  from.route = "direct" /\ from.remote \in PrivateIP
        BY <1>3, <1>4, <1>11, <3>2, ScopesAreKept DEF Traced
      <3>3. \A ip \in Range(ips) : JudgedBy(n, o, ip)'
        BY <1>1, <1>2, <1>6, <1>11, <2>0, <3>2 DEF JudgedBy
      <3>4. \A ip \in Range(ips) : <<n, o, ip>> \in Judgements'
        BY <1>2, <1>6, <2>0, <3>3 DEF Judgements
      <3> QED
        BY <3>1, <3>4 DEF RouteOf
    <2>3. InStep'
      <3>1. RouteOf(Selected(url))' = RouteOf(Selected(to))
        BY <1>1, <2>1 DEF Selected
      <3>2. \A c \in idle' : {"remote", "back"} \subseteq DOMAIN c /\ c.remote # NoIP
        BY <1>0, <1>3, <2>1 DEF InStep, IdleConn
      <3> QED
        BY <1>1, <1>3, <1>6, <1>n, <2>1, <2>2, <3>1, <3>2 DEF InStep
    <2>4. /\ o \in DOMAIN approved' \/ RouteOf(Selected(to)) = "proxy"
          /\ DOMAIN approved \subseteq DOMAIN approved'
          /\ \A p \in DOMAIN approved' :
               \/ p \in DOMAIN approved /\ approved'[p] = approved[p]
                  /\ (p # o \/ RouteOf(Selected(to)) = "proxy"
                      \/ approved'[p] = <<setup.connect>>)
               \/ p = o /\ approved'[p] = ips
          /\ setup.connect # NoIP => /\ Origin(setup.target) \in DOMAIN approved'
                                     /\ approved'[Origin(setup.target)] = <<setup.connect>>
      BY <1>0, <1>1, <2>0, <2>1 DEF FixedStays, Approve
    <2>5. FixedStays'
      BY <1>0, <1>1, <1>5, <2>4 DEF FixedStays
    <2>6. Range(<<setup.connect>>) = {setup.connect}
      BY DEF Range
    <2>7. ApprovedIsJudged'
      <3>1. \A p \in DOMAIN approved' : \A ip \in Range(approved'[p]) : Allowed(p, ip)'
        <4> SUFFICES ASSUME NEW p \in DOMAIN approved', NEW ip \in Range(approved'[p])
                     PROVE  \/ ip = setup.connect
                            \/ \E r \in DOMAIN redirects' : <<r, p, ip>> \in Judgements'
          BY <1>1 DEF Allowed
        <4>1. CASE p \in DOMAIN approved /\ approved'[p] = approved[p]
          <5>1. ip = setup.connect \/ \E r \in DOMAIN redirects : <<r, p, ip>> \in Judgements
            BY <1>0, <4>1 DEF ApprovedIsJudged, Allowed
          <5>2. DOMAIN redirects \subseteq DOMAIN redirects'
            BY <1>2, <1>6
          <5> QED
            BY <1>7, <5>1, <5>2
        <4>2. CASE p = o /\ approved'[p] = ips
          BY <1>2, <1>6, <2>2, <4>2
        <4> QED
          BY <2>4, <4>1, <4>2
      <3>2. RouteOf(Selected(url))' = RouteOf(Selected(to))
        BY <1>1, <2>1 DEF Selected
      <3>3. RouteOf(Selected(to)) = "direct" =>
              /\ o \in DOMAIN approved'
              /\ \A ip \in Range(approved'[o]) :
                   ip = setup.connect \/ <<n, o, ip>> \in Judgements'
        BY <2>2, <2>4, <2>6
      <3>4. \A h \in DOMAIN hops' : Direct(h)' => Origin(hops'[h].url) \in DOMAIN approved'
        BY <1>0, <1>1, <1>9, <2>4 DEF ApprovedIsJudged
      <3> QED
        BY <1>1, <1>n, <2>0, <2>1, <3>1, <3>2, <3>3, <3>4 DEF ApprovedIsJudged, AllowedBy
    <2> QED
      BY <1>8, <1>10, <2>1, <2>3, <2>5, <2>7 DEF JInv
  <1>12. CASE decision # "followed"
    <2>1. phase' = "end" /\ UNCHANGED <<url, approved, idle>>
      BY <1>4, <1>12 DEF Block, request
    <2>2. InStep'
      BY <1>0, <2>1, <1>1 DEF InStep
    <2>3. FixedStays'
      BY <1>0, <1>1, <2>1 DEF FixedStays
    <2>4. ApprovedIsJudged'
      <3>1. DOMAIN redirects \subseteq DOMAIN redirects'
        BY <1>2, <1>6
      <3> QED
        BY <1>0, <1>1, <1>7, <1>9, <2>1, <3>1 DEF ApprovedIsJudged, Allowed
    <2> QED
      BY <1>8, <1>10, <2>1, <2>2, <2>3, <2>4 DEF JInv
  <1> QED
    BY <1>11, <1>12

-----------------------------------------------------------------------------
(* The steps of a dial.                                                    *)

LEMMA NumberedAre ==
  ASSUME NEW ips \in Seq(IP)
  PROVE  Numbered(ips) \subseteq Candidate /\ \A c \in Numbered(ips) : c.ip \in Range(ips)
  BY DEF Numbered, Candidate, Range, Address

LEMMA AttemptsAre ==
  ASSUME NEW s \in Seq(Attempt), NEW i \in DOMAIN s
  PROVE  s[i] \in Attempt /\ s[i].ip \in Address
  <1>1. s[i] \in Attempt
    OBVIOUS
  <1> QED
    BY <1>1 DEF Attempt, States

\* No address of an attempt is none.
LEMMA AddressesAre == \A ip \in Address : ip # NoIP
  BY AddressAssumption DEF Address

LEMMA AttemptChanges ==
  ASSUME NEW s \in Seq(Attempt), NEW i, NEW a,
         i \in DOMAIN s => a \in Attempt
  PROVE  [s EXCEPT ![i] = a] \in Seq(Attempt)
  <1>1. Len(s) \in Nat /\ DOMAIN s = 1 .. Len(s)
    OBVIOUS
  <1>2. [s EXCEPT ![i] = a] \in [1 .. Len(s) -> Attempt]
    BY <1>1, AttemptsAre
  <1> QED
    BY <1>1, <1>2, FunctionIsSequence

\* Of a dial that advances, what is not written stays.
LEMMA DialKeepsJInv ==
  ASSUME JInv, NEW h \in DOMAIN hops, NEW r, Advances(h, r), r.remote = hops[h].remote,
         OnlyDials, UNCHANGED <<phase, idle>>
  PROVE  JInv'
  BY IdleStays, AdvancesKeepsJInv DEF OnlyDials

LEMMA StartDialKeepsJInv ==
  ASSUME JInv, NEW h \in DOMAIN hops, StartDial(h) PROVE JInv'
  <1>0. Sequenced /\ FixedStays /\ ApprovedIsJudged
    BY DEF JInv
  <1>1. Traced(hops[h])
    BY <1>0 DEF Sequenced
  <1>2. PICK c \in Candidates(hops[h]) :
          hops' = [hops EXCEPT ![h] = [hops[h] EXCEPT
                     !.dial = IF c.todo = {} THEN "failed" ELSE "open",
                     !.todo = c.todo, !.pinned = c.pinned]]
    BY DEF StartDial
  <1> DEFINE o == Origin(hops[h].url)
  <1>3. CASE hops[h].route = "proxy"
    <2>1. c.todo = {[at |-> 1, ip |-> ProxyIP]}
      BY <1>2, <1>3 DEF Candidates
    <2>2. c.todo \subseteq Candidate
      BY <2>1 DEF Candidate, Address
    <2>3. Advances(h, [hops[h] EXCEPT !.dial = IF c.todo = {} THEN "failed" ELSE "open",
                                      !.todo = c.todo, !.pinned = c.pinned])
      BY <1>1, <1>2, <1>3, <2>2 DEF Advances, Traced, Direct
    <2> QED
      BY <1>1, <2>3, DialKeepsJInv DEF StartDial, Traced
  <1>4. CASE hops[h].route = "direct"
    <2>1. CASE o \in DOMAIN approved
      <3>1. c.todo = Numbered(approved[o]) /\ approved[o] \in Seq(IP)
        BY <1>0, <1>2, <1>4, <2>1 DEF Candidates, FixedStays
      <3>2. c.todo \subseteq Candidate /\ \A d \in c.todo : d.ip \in Range(approved[o])
        BY <3>1, NumberedAre
      <3>3. Advances(h, [hops[h] EXCEPT !.dial = IF c.todo = {} THEN "failed" ELSE "open",
                                        !.todo = c.todo, !.pinned = c.pinned])
        BY <1>1, <1>2, <3>2 DEF Advances, Traced
      <3> QED
        BY <1>1, <3>3, DialKeepsJInv DEF StartDial, Traced
    <2>2. CASE o \notin DOMAIN approved
      <3>1. PICK s \in Lookups(hops[h].url.host) : c.todo = Numbered(s)
        BY <1>2, <1>4, <2>2 DEF Candidates
      <3>2. c.todo \subseteq Candidate
        BY <1>0, <1>1, <3>1, LookupsAre, NumberedAre DEF Traced
      <3>3. ~Direct(h)
        BY <1>0, <2>2 DEF ApprovedIsJudged
      <3>4. Advances(h, [hops[h] EXCEPT !.dial = IF c.todo = {} THEN "failed" ELSE "open",
                                        !.todo = c.todo, !.pinned = c.pinned])
        BY <1>1, <1>2, <3>2, <3>3 DEF Advances, Traced
      <3> QED
        BY <1>1, <3>4, DialKeepsJInv DEF StartDial, Traced
    <2> QED
      BY <2>1, <2>2
  <1> QED
    BY <1>1, <1>3, <1>4 DEF Traced

LEMMA ConnectStartKeepsJInv ==
  ASSUME JInv, NEW h \in DOMAIN hops, ConnectStart(h) PROVE JInv'
  <1>1. Traced(hops[h])
    BY DEF JInv, Sequenced
  <1>2. PICK c \in hops[h].todo :
          hops' = [hops EXCEPT ![h] = [hops[h] EXCEPT
                     !.todo = hops[h].todo \ {c},
                     !.attempts = Append(hops[h].attempts,
                                         [ip |-> c.ip, state |-> "open", selected |-> FALSE])]]
    BY DEF ConnectStart
  <1> DEFINE new == [ip |-> c.ip, state |-> "open", selected |-> FALSE]
             tried == hops[h].attempts
             r == [hops[h] EXCEPT !.todo = hops[h].todo \ {c}, !.attempts = Append(tried, new)]
  <1>3. new \in Attempt /\ new.ip = c.ip /\ ~new.selected /\ tried \in Seq(Attempt)
    <2>1. c \in Candidate /\ tried \in Seq(Attempt)
      BY <1>1 DEF Traced
    <2>2. c.ip \in Address
      BY <2>1 DEF Candidate
    <2>3. new \in Attempt
      BY <2>2 DEF Attempt, States
    <2> QED
      BY <2>1, <2>3
  <1> HIDE DEF new
  <1>4. /\ Append(tried, new) \in Seq(Attempt)
        /\ \A i \in DOMAIN Append(tried, new) :
             \/ i \in DOMAIN tried /\ Append(tried, new)[i] = tried[i]
             \/ Append(tried, new)[i] = new
    BY <1>3
  <1>5. hops' = [hops EXCEPT ![h] = r]
    BY <1>2 DEF new
  <1>6. /\ r.todo = hops[h].todo \ {c} /\ r.attempts = Append(tried, new)
        /\ r.url = hops[h].url /\ r.route = hops[h].route /\ r.remote = hops[h].remote
        /\ DOMAIN r = DOMAIN hops[h]
    BY <1>1 DEF Traced
  <1> HIDE DEF r
  <1>7. Traced(r)
    BY <1>1, <1>4, <1>6 DEF Traced
  <1>8. \A i \in DOMAIN r.attempts :
          \/ i \in DOMAIN tried /\ r.attempts[i] = tried[i]
          \/ r.attempts[i].ip = c.ip /\ ~r.attempts[i].selected
    BY <1>3, <1>4, <1>6
  <1>9. Advances(h, r)
    BY <1>2, <1>5, <1>6, <1>7, <1>8 DEF Advances
  <1> QED
    BY <1>6, <1>9, DialKeepsJInv DEF ConnectStart

LEMMA ConnectEndsKeepsJInv ==
  ASSUME JInv, NEW h \in DOMAIN hops, NEW i \in DOMAIN hops[h].attempts,
         NEW state \in States,
         hops' = [hops EXCEPT ![h].attempts[i].state = state], OnlyDials, UNCHANGED <<phase, idle>>
  PROVE  JInv'
  <1>1. Traced(hops[h])
    BY DEF JInv, Sequenced
  <1>2. hops' = [hops EXCEPT ![h] = [hops[h] EXCEPT
                   !.attempts = [hops[h].attempts EXCEPT
                                   ![i] = [hops[h].attempts[i] EXCEPT !.state = state]]]]
    OBVIOUS
  <1> DEFINE a == [hops[h].attempts[i] EXCEPT !.state = state]
             tried == [hops[h].attempts EXCEPT ![i] = a]
             r == [hops[h] EXCEPT !.attempts = tried]
  <1>3. /\ a \in Attempt /\ a.ip = hops[h].attempts[i].ip
        /\ a.selected = hops[h].attempts[i].selected
    <2>1. hops[h].attempts[i] \in Attempt
      BY <1>1, AttemptsAre DEF Traced
    <2> QED
      BY <1>2, <2>1 DEF Attempt, States
  <1> HIDE DEF a
  <1>4. tried \in Seq(Attempt) /\ \A j \in DOMAIN tried :
          /\ j \in DOMAIN hops[h].attempts /\ tried[j].ip = hops[h].attempts[j].ip
          /\ tried[j].selected = hops[h].attempts[j].selected
    BY <1>1, <1>3, AttemptChanges DEF Traced
  <1>5. hops' = [hops EXCEPT ![h] = r]
    BY <1>2 DEF a
  <1> HIDE DEF tried
  <1>6. /\ r.todo = hops[h].todo /\ r.attempts = tried
        /\ r.url = hops[h].url /\ r.route = hops[h].route /\ r.remote = hops[h].remote
        /\ DOMAIN r = DOMAIN hops[h]
    BY <1>1 DEF Traced
  <1> HIDE DEF r
  <1>7. Advances(h, r)
    BY <1>1, <1>4, <1>5, <1>6 DEF Advances, Traced
  <1> QED
    BY <1>6, <1>7, DialKeepsJInv

\* A step that writes nothing into a hop but what became of its dial or its status.
LEMMA MarksAdvance ==
  ASSUME JInv, NEW h \in DOMAIN hops, NEW r, hops' = [hops EXCEPT ![h] = r],
         DOMAIN r = DOMAIN hops[h],
         r.url = hops[h].url, r.route = hops[h].route, r.todo = hops[h].todo,
         r.attempts = hops[h].attempts,
         r.remote = hops[h].remote \/ (phase = "connect" /\ h = Current /\ r.remote # NoIP)
  PROVE  Advances(h, r)
  <1>1. Traced(hops[h])
    BY DEF JInv, Sequenced
  <1> QED
    BY <1>1 DEF Advances, Traced

LEMMA DialEndsKeepsJInv ==
  ASSUME JInv, NEW h \in DOMAIN hops, NEW dial,
         hops' = [hops EXCEPT ![h] = [hops[h] EXCEPT !.dial = dial]],
         OnlyDials, UNCHANGED <<phase, idle>>
  PROVE  JInv'
  <1>1. Traced(hops[h])
    BY DEF JInv, Sequenced
  <1>2. Advances(h, [hops[h] EXCEPT !.dial = dial])
    BY <1>1, MarksAdvance DEF Traced
  <1> QED
    BY <1>1, <1>2, DialKeepsJInv DEF Traced

LEMMA DialDoneKeepsJInv ==
  ASSUME JInv, NEW h \in DOMAIN hops, DialDone(h) PROVE JInv'
  <1>1. Traced(hops[h])
    BY DEF JInv, Sequenced
  <1>2. PICK i \in In(h, "connected") :
          LET remote == hops[h].attempts[i].ip IN
          IF h = Current /\ phase = "connect"
          THEN /\ hops' = [hops EXCEPT ![h] = [hops[h] EXCEPT !.dial = "done", !.remote = remote,
                                !.reused = FALSE,
                                !.attempts = SelectAttempt(hops[h].attempts, remote)]]
               /\ phase' = "wait" /\ UNCHANGED idle
          ELSE /\ hops' = [hops EXCEPT ![h] = [hops[h] EXCEPT !.dial = "done"]]
               /\ idle' = idle \cup {[IdleConn(hops[h]) EXCEPT !.remote = remote, !.back = TRUE]}
               /\ UNCHANGED phase
    BY DEF DialDone
  <1> DEFINE remote == hops[h].attempts[i].ip
  <1>3. remote # NoIP
    BY <1>1, <1>2, AttemptsAre, AddressesAre DEF In, Traced
  <1> HIDE DEF remote
  <1>4. CASE h = Current /\ phase = "connect"
    <2>1. PICK j : SelectAttempt(hops[h].attempts, remote)
                     = [hops[h].attempts EXCEPT
                          ![j] = [hops[h].attempts[j] EXCEPT !.selected = TRUE]]
      BY DEF SelectAttempt
    <2> DEFINE tried == SelectAttempt(hops[h].attempts, remote)
               r == [hops[h] EXCEPT !.dial = "done", !.remote = remote, !.reused = FALSE,
                                    !.attempts = tried]
    <2>2. tried \in Seq(Attempt) /\ \A k \in DOMAIN tried :
            k \in DOMAIN hops[h].attempts /\ tried[k].ip = hops[h].attempts[k].ip
      <3>1. CASE j \in DOMAIN hops[h].attempts
        <4> DEFINE a == [hops[h].attempts[j] EXCEPT !.selected = TRUE]
        <4>1. a \in Attempt /\ a.ip = hops[h].attempts[j].ip
          <5>1. hops[h].attempts[j] \in Attempt
            BY <1>1, <3>1, AttemptsAre DEF Traced
          <5> QED
            BY <5>1 DEF Attempt, States
        <4> HIDE DEF a
        <4>2. tried = [hops[h].attempts EXCEPT ![j] = a]
          BY <2>1 DEF a
        <4> QED
          BY <1>1, <3>1, <4>1, <4>2, AttemptChanges, AttemptsAre DEF Traced
      <3>2. CASE j \notin DOMAIN hops[h].attempts
        BY <1>1, <2>1, <3>2, AttemptChanges DEF Traced
      <3> QED
        BY <3>1, <3>2
    <2> HIDE DEF tried
    <2>3. hops' = [hops EXCEPT ![h] = r] /\ phase' = "wait" /\ UNCHANGED idle
      BY <1>2, <1>4 DEF tried, remote
    <2>4. /\ r.todo = hops[h].todo /\ r.attempts = tried /\ r.remote = remote
          /\ r.url = hops[h].url /\ r.route = hops[h].route /\ DOMAIN r = DOMAIN hops[h]
      BY <1>1 DEF Traced
    <2> HIDE DEF r
    <2>5. Advances(h, r)
      BY <1>1, <1>3, <1>4, <2>2, <2>3, <2>4 DEF Advances, Traced
    <2> QED
      BY <1>3, <1>4, <2>3, <2>4, <2>5, IdleStays, AdvancesKeepsJInv DEF DialDone, OnlyDials
  <1>5. CASE ~(h = Current /\ phase = "connect")
    <2> DEFINE r == [hops[h] EXCEPT !.dial = "done"]
    <2>1. /\ hops' = [hops EXCEPT ![h] = r] /\ UNCHANGED phase
          /\ idle' = idle \cup {[IdleConn(hops[h]) EXCEPT !.remote = remote, !.back = TRUE]}
      BY <1>2, <1>5 DEF remote
    <2>2. Advances(h, r)
      BY <1>1, <2>1, MarksAdvance DEF Traced
    <2>3. IdleIsConnected
      BY <1>3, <2>1 DEF IdleIsConnected, IdleConn, JInv, InStep
    <2> HIDE DEF r
    <2> QED
      BY <2>1, <2>2, <2>3, AdvancesKeepsJInv DEF DialDone, OnlyDials
  <1> QED
    BY <1>4, <1>5

-----------------------------------------------------------------------------

LEMMA FailsKeepsJInv ==
  ASSUME JInv, NEW code, Fails(code) PROVE JInv'
  BY IdleStays, ElsewhereKeepsJInv DEF Fails, trace

LEMMA RoundTripKeepsJInv == JInv /\ RoundTrip => JInv'
  <1> SUFFICES ASSUME JInv, RoundTrip PROVE JInv'
    OBVIOUS
  <1>1. ASSUME phase \in {"connect", "wait"}
        PROVE  Current \in DOMAIN hops /\ Traced(hops[Current])
    BY <1>1, Lengths DEF JInv, InStep, Current, Sequenced
  <1>2. CASE Refuse
    BY <1>2, IdleStays, ElsewhereKeepsJInv DEF Refuse, trace
  <1>3. CASE QueueDial
    <2>1. Advances(Current, [hops[Current] EXCEPT !.dial = "queued"])
      BY <1>1, <1>3, MarksAdvance DEF QueueDial, Traced
    <2> QED
      BY <1>1, <1>3, <2>1, IdleStays, AdvancesKeepsJInv DEF QueueDial
  <1>4. CASE RequestStops \/ DialReported
    BY <1>4, FailsKeepsJInv DEF RequestStops, DialReported
  <1>5. ASSUME NEW c \in idle, GotIdleConn(c) PROVE JInv'
    <2> DEFINE r == [hops[Current] EXCEPT !.remote = c.remote, !.reused = TRUE]
    <2>1. /\ hops' = [hops EXCEPT ![Current] = r] /\ phase = "connect" /\ phase' = "wait"
          /\ idle' \subseteq idle /\ UNCHANGED <<setup, proxy, request, redirects>>
      BY <1>5 DEF GotIdleConn
    <2>2. c.remote # NoIP /\ r.remote = c.remote
      BY <1>1, <2>1 DEF JInv, InStep, Traced
    <2>3. Advances(Current, r)
      BY <1>1, <2>1, <2>2, MarksAdvance DEF Traced
    <2> HIDE DEF r
    <2> QED
      BY <1>1, <2>1, <2>2, <2>3, IdleStays, AdvancesKeepsJInv
  <1>6. ASSUME NEW slow \in BOOLEAN, NEW torn \in BOOLEAN, Conclude(slow, torn) PROVE JInv'
    BY <1>6, IdleStays, ElsewhereKeepsJInv DEF Conclude, trace
  <1> QED
    BY <1>2, <1>3, <1>4, <1>5, <1>6, CheckedKeepsJInv, PrepareKeepsJInv, BeginKeepsJInv,
       JudgeKeepsJInv DEF RoundTrip

LEMMA DiallingKeepsJInv ==
  ASSUME JInv, NEW h \in DOMAIN hops, Dialling(h) PROVE JInv'
  <1>1. ASSUME NEW i \in DOMAIN hops[h].attempts, Connects(h, i) PROVE JInv'
    BY <1>1, ConnectEndsKeepsJInv DEF Connects, States
  <1>2. ASSUME NEW i \in DOMAIN hops[h].attempts, ConnectFails(h, i) PROVE JInv'
    BY <1>2, ConnectEndsKeepsJInv DEF ConnectFails, States
  <1> QED
    BY <1>1, <1>2, StartDialKeepsJInv, ConnectStartKeepsJInv, DialEndsKeepsJInv,
       DialDoneKeepsJInv DEF Dialling, DialFails

LEMMA EnvironmentKeepsJInv == JInv /\ Environment => JInv'
  <1> SUFFICES ASSUME JInv, Environment PROVE JInv'
    OBVIOUS
  <1>1. CASE Responds
    <2>1. Current \in DOMAIN hops /\ Traced(hops[Current])
      BY <1>1, Lengths DEF Responds, JInv, InStep, Current, Sequenced
    <2>2. PICK status : hops' = [hops EXCEPT ![Current] = [hops[Current] EXCEPT !.status = status]]
      BY <1>1 DEF Responds
    <2>3. Advances(Current, [hops[Current] EXCEPT !.status = status])
      BY <2>1, <2>2, MarksAdvance DEF Traced
    <2>4. /\ phase = "wait" /\ phase' \in {"redirect", "read"}
          /\ phase' = "redirect" => setup.web[hops[Current].url].to # NoURL
          /\ UNCHANGED <<setup, proxy, request, redirects, idle>>
      BY <1>1 DEF Responds, Redirected
    <2> QED
      BY <2>1, <2>3, <2>4, IdleStays, AdvancesKeepsJInv
  <1>2. CASE ConnBreaks
    BY <1>2, FailsKeepsJInv DEF ConnBreaks
  <1>3. CASE ReusedConnBreaks
    BY <1>3, IdleStays, ElsewhereKeepsJInv DEF ReusedConnBreaks, trace
  <1>4. ASSUME NEW c \in idle, ConnComesBack(c) PROVE JInv'
    <2>1. IdleIsConnected
      BY <1>4 DEF ConnComesBack, IdleIsConnected, JInv, InStep
    <2> QED
      BY <1>4, <2>1, ElsewhereKeepsJInv DEF ConnComesBack, trace
  <1>5. ASSUME NEW c \in idle, IdleConnCloses(c) PROVE JInv'
    BY <1>5, IdleStays, ElsewhereKeepsJInv DEF IdleConnCloses, trace
  <1>6. ASSUME NEW h \in DOMAIN hops, HandshakeFails(h) PROVE JInv'
    BY <1>6, DialEndsKeepsJInv DEF HandshakeFails
  <1>7. ASSUME NEW e, ContextEnds(e) PROVE JInv'
    BY <1>7, IdleStays, ElsewhereKeepsJInv DEF ContextEnds, trace
  <1> QED
    BY <1>1, <1>2, <1>3, <1>4, <1>5, <1>6, <1>7 DEF Environment

LEMMA JInvStep == JInv /\ [Next]_vars => JInv'
  <1>1. ASSUME JInv, UNCHANGED vars PROVE JInv'
    BY <1>1, IdleStays, ElsewhereKeepsJInv DEF vars, trace
  <1> QED
    BY <1>1, RoundTripKeepsJInv, DiallingKeepsJInv, EnvironmentKeepsJInv DEF Next, Terminated

-----------------------------------------------------------------------------
(* Connections that are reused.                                            *)

Connected(h, ip) ==
  \E i \in DOMAIN hops[h].attempts :
    hops[h].attempts[i].state = "connected" /\ hops[h].attempts[i].ip = ip

\* A request that shares connections under this key was dialled at this address.
Reached(key, ip) == \E g \in DOMAIN hops : ConnKey(hops[g]) = key /\ Connected(g, ip)

Held(c) == "key" \in DOMAIN c /\ Reached(c.key, c.remote)

\* A connection that is kept or in use was dialled, for a request of its key.
RInv ==
  /\ \A c \in idle : Held(c)
  /\ \A h \in DOMAIN hops : hops[h].remote # NoIP => Reached(ConnKey(hops[h]), hops[h].remote)

LEMMA KeyIs ==
  \A g, h : g.url = h.url /\ g.route = h.route => ConnKey(g) = ConnKey(h)
  BY DEF ConnKey

LEMMA DirectKey ==
  ASSUME NEW g, NEW o, g.route \in {"direct", "proxy"}, ConnKey(g) = <<"direct", o>>
  PROVE  g.route = "direct" /\ Origin(g.url) = o
  <1>1. CASE g.route = "direct"
    <2>1. ConnKey(g) = <<"direct", Origin(g.url)>>
      BY <1>1 DEF ConnKey
    <2> QED
      BY <1>1, <2>1
  <1>2. CASE g.route = "proxy"
    <2>1. ConnKey(g) = <<"proxy", Origin(g.url)>> \/ ConnKey(g) = <<"proxy", "http">>
      BY <1>2 DEF ConnKey
    <2> QED
      BY <2>1
  <1> QED
    BY <1>1, <1>2

LEMMA RInvIsEnough ==
  ASSUME JInv, RInv, NEW h \in DOMAIN hops, hops[h].route = "direct", hops[h].remote # NoIP
  PROVE  DialledForOrigin(h)
  <1>1. PICK g \in DOMAIN hops : /\ ConnKey(hops[g]) = ConnKey(hops[h])
                                 /\ Connected(g, hops[h].remote)
    BY DEF RInv, Reached
  <1>2. hops[g].route \in {"direct", "proxy"} /\ ConnKey(hops[g]) = <<"direct", Origin(hops[h].url)>>
    BY <1>1 DEF JInv, Sequenced, Traced, ConnKey
  <1>3. hops[g].route = "direct" /\ Origin(hops[g].url) = Origin(hops[h].url)
    BY <1>2, DirectKey
  <1> QED
    BY <1>1, <1>3 DEF DialledForOrigin, Connected, In

\* Hops keep their request, and their attempts that have connected.
Stays(g, r) ==
  /\ r.url = hops[g].url /\ r.route = hops[g].route
  /\ \A i \in DOMAIN hops[g].attempts : hops[g].attempts[i].state = "connected" =>
       /\ i \in DOMAIN r.attempts
       /\ r.attempts[i].state = "connected" /\ r.attempts[i].ip = hops[g].attempts[i].ip

LEMMA ReachedStays ==
  ASSUME \A g \in DOMAIN hops : g \in DOMAIN hops' /\ Stays(g, hops'[g])
  PROVE  /\ \A key, ip : Reached(key, ip) => Reached(key, ip)'
         /\ \A c : Held(c) => Held(c)'
  <1>1. ASSUME NEW key, NEW ip, Reached(key, ip) PROVE Reached(key, ip)'
    <2>1. PICK g \in DOMAIN hops : ConnKey(hops[g]) = key /\ Connected(g, ip)
      BY <1>1 DEF Reached
    <2>2. g \in DOMAIN hops' /\ Stays(g, hops'[g])
      BY <2>1
    <2>3. ConnKey(hops'[g]) = key
      BY <2>1, <2>2, KeyIs DEF Stays
    <2>4. Connected(g, ip)'
      BY <2>1, <2>2 DEF Stays, Connected
    <2> QED
      BY <2>2, <2>3, <2>4 DEF Reached, ConnKey, Origin
  <1> QED
    BY <1>1 DEF Held

\* One hop goes on, over a connection that was dialled if it is over a new one.
LEMMA OneHopKeepsRInv ==
  ASSUME RInv, NEW h \in DOMAIN hops, NEW r, hops' = [hops EXCEPT ![h] = r], Stays(h, r),
         \/ r.remote = hops[h].remote
         \/ Reached(ConnKey(hops[h]), r.remote) \/ Connected(h, r.remote),
         \A c \in idle' : Held(c)
  PROVE  RInv'
  <1>1. DOMAIN hops' = DOMAIN hops /\ \A g \in DOMAIN hops : hops'[g] = IF g = h THEN r ELSE hops[g]
    OBVIOUS
  <1>2. \A g \in DOMAIN hops : g \in DOMAIN hops' /\ Stays(g, hops'[g])
    BY <1>1 DEF Stays
  <1>3. (\A c \in idle : Held(c))'
    BY <1>2, ReachedStays
  <1>4. ASSUME NEW g \in DOMAIN hops, hops'[g].remote # NoIP
        PROVE  Reached(ConnKey(hops[g]), hops'[g].remote)
    <2>1. Connected(h, r.remote) => Reached(ConnKey(hops[h]), r.remote)
      BY DEF Reached
    <2>2. CASE g = h
      BY <1>1, <1>4, <2>1, <2>2 DEF RInv
    <2>3. CASE g # h
      BY <1>1, <1>4, <2>3 DEF RInv
    <2> QED
      BY <2>2, <2>3
  <1>5. ASSUME NEW g \in DOMAIN hops, hops'[g].remote # NoIP
        PROVE  Reached(ConnKey(hops[g]), hops[g].remote)'
    <2>1. PICK key, ip : key = ConnKey(hops[g]) /\ ip = hops'[g].remote
      OBVIOUS
    <2>2. Reached(key, ip)'
      BY <1>2, <1>4, <1>5, <2>1, ReachedStays
    <2>3. ConnKey(hops'[g]) = key
      BY <1>2, <2>1, KeyIs DEF Stays
    <2> QED
      BY <2>1, <2>2, <2>3 DEF Reached, ConnKey, Origin
  <1> QED
    BY <1>1, <1>3, <1>5 DEF RInv

\* The hops stay.
LEMMA ElsewhereKeepsRInv ==
  ASSUME RInv, UNCHANGED hops, \A c \in idle' : Held(c)
  PROVE  RInv'
  BY DEF RInv, Held, Reached, Connected, ConnKey, Origin

LEMMA IdleIsHeld ==
  ASSUME RInv, idle' \subseteq idle PROVE \A c \in idle' : Held(c)
  BY DEF RInv

LEMMA AppendIsLonger ==
  ASSUME NEW S, NEW s \in Seq(S), NEW e
  PROVE  /\ DOMAIN Append(s, e) = 1 .. Len(s) + 1
         /\ \A i \in 1 .. Len(s) + 1 : Append(s, e)[i] = IF i \in DOMAIN s THEN s[i] ELSE e
  OBVIOUS

LEMMA BeginKeepsRInv == JInv /\ RInv /\ Begin => RInv'
  <1> SUFFICES ASSUME JInv, RInv, Begin PROVE RInv'
    OBVIOUS
  <1>1. PICK new : hops' = Append(hops, new) /\ new.remote = NoIP
    BY DEF Begin
  <1>2. Len(hops) \in Nat /\ DOMAIN hops = 1 .. Len(hops) /\ hops \in Seq({hops[h] : h \in DOMAIN hops})
    BY Lengths DEF JInv, Sequenced
  <1>3. /\ DOMAIN hops' = 1 .. Len(hops) + 1
        /\ \A g \in DOMAIN hops' : hops'[g] = IF g \in DOMAIN hops THEN hops[g] ELSE new
    BY <1>1, <1>2, AppendIsLonger
  <1>4. \A g \in DOMAIN hops : g \in DOMAIN hops' /\ hops'[g] = hops[g] /\ Stays(g, hops'[g])
    BY <1>2, <1>3 DEF Stays
  <1>5. (\A c \in idle : Held(c))'
    BY <1>4, ReachedStays DEF RInv, Begin
  <1>6. ASSUME NEW g \in DOMAIN hops', hops'[g].remote # NoIP
        PROVE  Reached(ConnKey(hops[g]), hops[g].remote)'
    <2>1. g \in DOMAIN hops /\ hops'[g] = hops[g]
      BY <1>1, <1>3, <1>6
    <2>2. PICK key, ip : key = ConnKey(hops[g]) /\ ip = hops[g].remote
      OBVIOUS
    <2>3. Reached(key, ip)'
      BY <1>4, <1>6, <2>1, <2>2, ReachedStays DEF RInv
    <2>4. ConnKey(hops'[g]) = key
      BY <2>1, <2>2
    <2> QED
      BY <2>1, <2>2, <2>3, <2>4 DEF Reached, ConnKey, Origin
  <1> QED
    BY <1>5, <1>6 DEF RInv

\* The goroutine of a dial leaves the remote address alone, unless its request waits.
LEMMA DialKeepsRInv ==
  ASSUME JInv, RInv, NEW h \in DOMAIN hops, NEW r, hops' = [hops EXCEPT ![h] = r],
         r.url = hops[h].url, r.route = hops[h].route, r.remote = hops[h].remote,
         \A i \in DOMAIN hops[h].attempts : hops[h].attempts[i].state = "connected" =>
           i \in DOMAIN r.attempts /\ r.attempts[i] = hops[h].attempts[i],
         idle' \subseteq idle
  PROVE  RInv'
  BY IdleIsHeld, OneHopKeepsRInv DEF Stays

LEMMA ConnectStartKeepsRInv ==
  ASSUME JInv, RInv, NEW h \in DOMAIN hops, ConnectStart(h) PROVE RInv'
  <1>1. Traced(hops[h])
    BY DEF JInv, Sequenced
  <1>2. PICK todo, new : hops' = [hops EXCEPT ![h] = [hops[h] EXCEPT
                           !.todo = todo, !.attempts = Append(hops[h].attempts, new)]]
    BY DEF ConnectStart
  <1> DEFINE tried == hops[h].attempts
             r == [hops[h] EXCEPT !.todo = todo, !.attempts = Append(tried, new)]
  <1>3. \A i \in DOMAIN tried : i \in DOMAIN Append(tried, new) /\ Append(tried, new)[i] = tried[i]
    <2>1. tried \in Seq(Attempt) /\ Len(tried) \in Nat /\ DOMAIN tried = 1 .. Len(tried)
      BY <1>1 DEF Traced
    <2> QED
      BY <2>1
  <1>4. /\ hops' = [hops EXCEPT ![h] = r] /\ r.attempts = Append(tried, new)
        /\ r.url = hops[h].url /\ r.route = hops[h].route /\ r.remote = hops[h].remote
    BY <1>1, <1>2 DEF Traced
  <1> HIDE DEF r
  <1> QED
    <2>1. \A i \in DOMAIN hops[h].attempts : hops[h].attempts[i].state = "connected" =>
            i \in DOMAIN r.attempts /\ r.attempts[i] = hops[h].attempts[i]
      BY <1>3, <1>4
    <2>2. idle' \subseteq idle
      BY DEF ConnectStart
    <2> HIDE DEF tried
    <2> QED
      BY <1>4, <2>1, <2>2, DialKeepsRInv

LEMMA AttemptEndsKeepsRInv ==
  ASSUME JInv, RInv, NEW h \in DOMAIN hops, NEW i \in In(h, "open"), NEW state,
         hops' = [hops EXCEPT ![h].attempts[i].state = state], UNCHANGED idle
  PROVE  RInv'
  <1>1. Traced(hops[h])
    BY DEF JInv, Sequenced
  <1> DEFINE tried == hops[h].attempts
             a == [tried[i] EXCEPT !.state = state]
             r == [hops[h] EXCEPT !.attempts = [tried EXCEPT ![i] = a]]
  <1>2. hops' = [hops EXCEPT ![h] = r]
    OBVIOUS
  <1>3. \A j \in DOMAIN tried : tried[j].state = "connected" =>
          j \in DOMAIN [tried EXCEPT ![i] = a] /\ [tried EXCEPT ![i] = a][j] = tried[j]
    BY DEF In
  <1>4. /\ r.attempts = [tried EXCEPT ![i] = a]
        /\ r.url = hops[h].url /\ r.route = hops[h].route /\ r.remote = hops[h].remote
    BY <1>1 DEF Traced
  <1> HIDE DEF r
  <1> QED
    <2>1. \A j \in DOMAIN hops[h].attempts : hops[h].attempts[j].state = "connected" =>
            j \in DOMAIN r.attempts /\ r.attempts[j] = hops[h].attempts[j]
      BY <1>3, <1>4
    <2> HIDE DEF tried, a
    <2> QED
      BY <1>2, <1>4, <2>1, DialKeepsRInv

LEMMA DialEndsKeepsRInv ==
  ASSUME JInv, RInv, NEW h \in DOMAIN hops, NEW dial,
         hops' = [hops EXCEPT ![h] = [hops[h] EXCEPT !.dial = dial]], UNCHANGED idle
  PROVE  RInv'
  <1>1. Traced(hops[h])
    BY DEF JInv, Sequenced
  <1> QED
    BY <1>1, DialKeepsRInv DEF Traced

\* The connection that was dialled is used or kept.
LEMMA DialDoneKeepsRInv ==
  ASSUME JInv, RInv, NEW h \in DOMAIN hops, DialDone(h) PROVE RInv'
  <1>1. Traced(hops[h])
    BY DEF JInv, Sequenced
  <1>2. PICK i \in In(h, "connected") :
          LET remote == hops[h].attempts[i].ip IN
          IF h = Current /\ phase = "connect"
          THEN /\ hops' = [hops EXCEPT ![h] = [hops[h] EXCEPT !.dial = "done", !.remote = remote,
                                !.reused = FALSE,
                                !.attempts = SelectAttempt(hops[h].attempts, remote)]]
               /\ phase' = "wait" /\ UNCHANGED idle
          ELSE /\ hops' = [hops EXCEPT ![h] = [hops[h] EXCEPT !.dial = "done"]]
               /\ idle' = idle \cup {[IdleConn(hops[h]) EXCEPT !.remote = remote, !.back = TRUE]}
               /\ UNCHANGED phase
    BY DEF DialDone
  <1> DEFINE tried == hops[h].attempts
             remote == tried[i].ip
  <1>3. Connected(h, remote)
    BY <1>2 DEF Connected, In
  <1>4. CASE h = Current /\ phase = "connect"
    <2>1. PICK j : SelectAttempt(tried, remote)
                     = [tried EXCEPT ![j] = [tried[j] EXCEPT !.selected = TRUE]]
      BY DEF SelectAttempt
    <2> DEFINE marked == SelectAttempt(tried, remote)
               r == [hops[h] EXCEPT !.dial = "done", !.remote = remote, !.reused = FALSE,
                                    !.attempts = marked]
    <2>2. \A k \in DOMAIN tried :
            k \in DOMAIN marked /\ marked[k].state = tried[k].state /\ marked[k].ip = tried[k].ip
      <3> SUFFICES ASSUME NEW k \in DOMAIN tried
                   PROVE  /\ k \in DOMAIN marked
                          /\ marked[k].state = tried[k].state /\ marked[k].ip = tried[k].ip
        OBVIOUS
      <3>1. tried[k] \in Attempt
        BY <1>1, AttemptsAre DEF Traced
      <3>2. CASE k = j
        <4>1. marked[k] = [tried[k] EXCEPT !.selected = TRUE]
          BY <2>1, <3>2
        <4> QED
          BY <2>1, <3>1, <4>1 DEF Attempt
      <3>3. CASE k # j
        BY <2>1, <3>3
      <3> QED
        BY <3>2, <3>3
    <2> HIDE DEF marked
    <2>3. hops' = [hops EXCEPT ![h] = r] /\ UNCHANGED idle
      BY <1>2, <1>4 DEF marked
    <2>4. /\ r.attempts = marked /\ r.remote = remote
          /\ r.url = hops[h].url /\ r.route = hops[h].route
      BY <1>1 DEF Traced
    <2> HIDE DEF r
    <2>5. Stays(h, r) /\ Connected(h, r.remote)
      BY <1>3, <2>2, <2>4 DEF Stays
    <2> QED
      BY <2>3, <2>5, IdleIsHeld, OneHopKeepsRInv
  <1>5. CASE ~(h = Current /\ phase = "connect")
    <2>1. PICK c : c = [IdleConn(hops[h]) EXCEPT !.remote = remote, !.back = TRUE]
      OBVIOUS
    <2>2. "key" \in DOMAIN c /\ c.remote = remote /\ c.key = ConnKey(hops[h])
      BY <2>1 DEF IdleConn
    <2>3. Held(c)
      BY <1>3, <2>2 DEF Held, Reached
    <2> DEFINE r == [hops[h] EXCEPT !.dial = "done"]
    <2>4. hops' = [hops EXCEPT ![h] = r] /\ \A k \in idle' : Held(k)
      BY <1>2, <1>5, <2>1, <2>3 DEF RInv
    <2>5. Stays(h, r) /\ r.remote = hops[h].remote
      BY <1>1 DEF Stays, Traced
    <2> HIDE DEF r
    <2> QED
      BY <2>4, <2>5, OneHopKeepsRInv
  <1> QED
    BY <1>4, <1>5

LEMMA DiallingKeepsRInv ==
  ASSUME JInv, RInv, NEW h \in DOMAIN hops, Dialling(h) PROVE RInv'
  <1>1. Traced(hops[h])
    BY DEF JInv, Sequenced
  <1>2. CASE StartDial(h)
    <2>1. PICK c \in Candidates(hops[h]) : hops' = [hops EXCEPT ![h] = [hops[h] EXCEPT
                           !.dial = IF c.todo = {} THEN "failed" ELSE "open",
                           !.todo = c.todo, !.pinned = c.pinned]]
      BY <1>2 DEF StartDial
    <2> QED
      BY <1>1, <1>2, <2>1, DialKeepsRInv DEF StartDial, Traced
  <1>3. ASSUME NEW i \in DOMAIN hops[h].attempts, Connects(h, i) \/ ConnectFails(h, i)
        PROVE  RInv'
    BY <1>3, AttemptEndsKeepsRInv DEF Connects, ConnectFails
  <1>4. CASE DialFails(h)
    BY <1>4, DialEndsKeepsRInv DEF DialFails
  <1> QED
    BY <1>2, <1>3, <1>4, ConnectStartKeepsRInv, DialDoneKeepsRInv DEF Dialling

\* The connection of the last response may be kept when its redirect is followed.
LEMMA JudgeKeepsRInv ==
  ASSUME JInv, RInv, NEW keep \in BOOLEAN, Judge(keep) PROVE RInv'
  <1>1. Current \in DOMAIN hops /\ hops[Current].remote # NoIP
    BY Lengths DEF Judge, JInv, InStep, Current
  <1>2. UNCHANGED hops /\ idle' \subseteq idle \cup {IdleConn(hops[Current])}
    BY DEF Judge, Follow, Block, trace
  <1>3. Held(IdleConn(hops[Current]))
    BY <1>1 DEF RInv, Held, IdleConn
  <1> QED
    BY <1>2, <1>3, ElsewhereKeepsRInv DEF RInv

LEMMA RoundTripKeepsRInv == JInv /\ RInv /\ RoundTrip => RInv'
  <1> SUFFICES ASSUME JInv, RInv, RoundTrip PROVE RInv'
    OBVIOUS
  <1>1. ASSUME phase \in {"connect", "wait"}
        PROVE  Current \in DOMAIN hops /\ Traced(hops[Current])
    BY <1>1, Lengths DEF JInv, InStep, Current, Sequenced
  <1>2. ASSUME UNCHANGED <<hops, idle>> PROVE RInv'
    BY <1>2, IdleIsHeld, ElsewhereKeepsRInv
  <1>3. CASE EnvironmentChecked \/ Refuse \/ Prepare \/ RequestStops \/ DialReported
    BY <1>2, <1>3 DEF EnvironmentChecked, Refuse, Prepare, RequestStops, DialReported, Fails, trace
  <1>4. ASSUME NEW slow \in BOOLEAN, NEW torn \in BOOLEAN, Conclude(slow, torn) PROVE RInv'
    BY <1>2, <1>4 DEF Conclude, trace
  <1>5. CASE QueueDial
    BY <1>1, <1>5, DialEndsKeepsRInv DEF QueueDial
  <1>6. ASSUME NEW c \in idle, GotIdleConn(c) PROVE RInv'
    <2> DEFINE r == [hops[Current] EXCEPT !.remote = c.remote, !.reused = TRUE]
    <2>1. /\ hops' = [hops EXCEPT ![Current] = r] /\ phase = "connect" /\ idle' \subseteq idle
          /\ c.key = ConnKey(hops[Current])
      BY <1>6 DEF GotIdleConn, IdleFor
    <2>2. Stays(Current, r) /\ r.remote = c.remote
      BY <1>1, <2>1 DEF Stays, Traced
    <2>3. Reached(ConnKey(hops[Current]), r.remote)
      BY <2>1, <2>2 DEF RInv, Held
    <2> HIDE DEF r
    <2> QED
      BY <1>1, <2>1, <2>2, <2>3, IdleIsHeld, OneHopKeepsRInv
  <1> QED
    BY <1>3, <1>4, <1>5, <1>6, BeginKeepsRInv, JudgeKeepsRInv DEF RoundTrip

LEMMA EnvironmentKeepsRInv == JInv /\ RInv /\ Environment => RInv'
  <1> SUFFICES ASSUME JInv, RInv, Environment PROVE RInv'
    OBVIOUS
  <1>1. CASE Responds
    <2>1. Current \in DOMAIN hops /\ Traced(hops[Current])
      BY <1>1, Lengths DEF Responds, JInv, InStep, Current, Sequenced
    <2>2. PICK status : hops' = [hops EXCEPT ![Current] = [hops[Current] EXCEPT !.status = status]]
      BY <1>1 DEF Responds
    <2> QED
      BY <1>1, <2>1, <2>2, DialKeepsRInv DEF Responds, Traced
  <1>2. CASE ConnBreaks \/ ReusedConnBreaks
    BY <1>2, IdleIsHeld, ElsewhereKeepsRInv DEF ConnBreaks, ReusedConnBreaks, Fails, trace
  <1>3. ASSUME NEW c \in idle, ConnComesBack(c) PROVE RInv'
    <2>1. Held([c EXCEPT !.back = TRUE])
      BY DEF RInv, Held, JInv, InStep
    <2> QED
      BY <1>3, <2>1, ElsewhereKeepsRInv DEF ConnComesBack, trace, RInv
  <1>4. ASSUME NEW c \in idle, IdleConnCloses(c) PROVE RInv'
    BY <1>4, IdleIsHeld, ElsewhereKeepsRInv DEF IdleConnCloses, trace
  <1>5. ASSUME NEW h \in DOMAIN hops, HandshakeFails(h) PROVE RInv'
    BY <1>5, DialEndsKeepsRInv DEF HandshakeFails
  <1>6. ASSUME NEW e, ContextEnds(e) PROVE RInv'
    BY <1>6, IdleIsHeld, ElsewhereKeepsRInv DEF ContextEnds, trace
  <1> QED
    BY <1>1, <1>2, <1>3, <1>4, <1>5, <1>6 DEF Environment

LEMMA RInvStep == JInv /\ RInv /\ [Next]_vars => RInv'
  <1>1. ASSUME RInv, UNCHANGED vars PROVE RInv'
    BY <1>1, IdleIsHeld, ElsewhereKeepsRInv DEF vars, trace
  <1> QED
    BY <1>1, RoundTripKeepsRInv, DiallingKeepsRInv, EnvironmentKeepsRInv DEF Next, Terminated

LEMMA RedirectsAreJudged == JInv /\ RInv => RedirectsStayJudged
  BY JInvIsEnough, RInvIsEnough DEF RedirectsStayJudged, DialsAreJudged, Direct

\* Whatever names resolve to in each lookup, however late the goroutine of an abandoned
\* dial starts, and whichever connections the transport reuses: behind a redirect a
\* direct connection is dialled only at an address that a redirect to its origin was
\* judged by, and the one dialled for the request it serves at an address of its own
\* redirect; and one that is reused, which no redirect judges again, was dialled so, or
\* for the user's own request, to its origin (approvedDialTargets, CheckRedirect,
\* previousNetworkScope).
THEOREM DialsStayJudged == Spec => []RedirectsStayJudged
  <1>1. Init => RInv
    BY DEF Init, RInv
  <1> QED
    BY <1>1, JInvInit, JInvStep, RInvStep, RedirectsAreJudged, PTL DEF Spec

-----------------------------------------------------------------------------
(* Which route the hops of a chain take.                                   *)

\* A hop takes the route of its URL, and only dials the proxy if that is its route.
Routed(h) ==
  /\ h.route = RouteOf(Selected(h.url))
  /\ \A c \in h.todo : (c.ip = ProxyIP) <=> (h.route = "proxy")
  /\ \A i \in DOMAIN h.attempts : (h.attempts[i].ip = ProxyIP) <=> (h.route = "proxy")

\* The first request goes to the target.
TargetIsFirst ==
  /\ hops # <<>> => hops[1].url = setup.target
  /\ phase = "send" /\ hops = <<>> => url = setup.target

\* Nothing is requested before the environment check captured its selection, and
\* what it advised is the verdict on that selection.
AdviceIsCaptured ==
  /\ phase = "environment" => ~proxy.captured
  /\ phase # "environment" /\ proxy.captured =>
       advice = EnvironmentVerdict(Selected(setup.target), setup.noProxy)
  /\ phase = "send" \/ hops # <<>> => proxy.captured

\* The inductive invariant of PolicyIsKept, on top of JInv.
KInv ==
  /\ \A h \in DOMAIN hops : Routed(hops[h])
  /\ TargetIsFirst /\ AdviceIsCaptured

\* A URL whose proxy cannot be used has no route.
LEMMA UnusableIsBlocked ==
  ASSUME NEW u, u.scheme \in Schemes, Unusable(u) PROVE RouteOf(Selected(u)) = "blocked"
  <1> DEFINE env == setup.env
             chosen == ConfiguredProxy(env, u.scheme)
             sel == SelectProxy(env, u)
  <1>1. chosen.raw # "unset"
    BY DEF Unusable, ConfiguredProxy, ValueOf
  <1>2. Unsafe(env, u, chosen.source) \/ chosen.raw = "malformed"
    BY DEF Unusable, ConfiguredProxy, ValueOf, Unsafe, SourceOf
  <1>3. u.host \notin env.bypass /\ ~setup.noProxy
    BY DEF Unusable
  <1>4. sel.validity = "invalid"
    BY <1>1, <1>2, <1>3 DEF SelectProxy
  <1> QED
    BY <1>3, <1>4 DEF Selected, SelectionFor, RouteOf

\* The environment check warns exactly of the proxy, when the target has a route.
LEMMA AdviceIsTheRoute ==
  ASSUME NEW u, RouteOf(Selected(u)) # "blocked"
  PROVE  LET said == EnvironmentVerdict(Selected(u), setup.noProxy) IN
         /\ said \in {"passed", "warning"}
         /\ (said = "warning") <=> (RouteOf(Selected(u)) = "proxy")
  <1> DEFINE sel == SelectProxy(setup.env, u)
  <1>1. sel.validity \in {"valid", "invalid"} => sel.bypass = "none"
    BY DEF SelectProxy
  <1>2. CASE setup.noProxy
    <2>1. DOMAIN sel = {"validity", "bypass", "source"}
      BY DEF SelectProxy
    <2> HIDE DEF sel
    <2>2. Selected(u).validity \notin {"valid", "invalid"}
      <3>1. CASE AffectsRoute(sel)
        <4>1. Selected(u) = [sel EXCEPT !.validity = "not_applicable", !.bypass = "disabled"]
          BY <1>2, <3>1 DEF Selected, SelectionFor, sel
        <4> QED
          BY <2>1, <4>1
      <3>2. CASE ~AffectsRoute(sel)
        <4>1. Selected(u) = sel
          BY <3>2 DEF Selected, SelectionFor, sel
        <4> QED
          BY <1>1, <3>2, <4>1 DEF AffectsRoute
      <3> QED
        BY <3>1, <3>2
    <2>3. RouteOf(Selected(u)) = "direct"
      BY <2>2 DEF RouteOf
    <2>4. EnvironmentVerdict(Selected(u), setup.noProxy) = "passed"
      BY <1>2, <2>2 DEF EnvironmentVerdict
    <2> QED
      BY <2>3, <2>4
  <1>3. CASE ~setup.noProxy
    <2>1. Selected(u) = sel
      BY <1>3 DEF Selected, SelectionFor
    <2> QED
      BY <1>1, <1>3, <2>1 DEF EnvironmentVerdict, RouteOf
  <1> QED
    BY <1>2, <1>3

LEMMA KInvIsEnough == JInv /\ KInv => PolicyIsKept
  <1> SUFFICES ASSUME JInv, KInv PROVE PolicyIsKept
    OBVIOUS
  <1>1. \A h \in DOMAIN hops : /\ Routed(hops[h]) /\ hops[h].route \in {"direct", "proxy"}
                               /\ hops[h].url \in DOMAIN setup.web
    BY DEF JInv, KInv, Sequenced, Traced
  <1>2. ASSUME NEW h \in DOMAIN hops PROVE ~Unusable(hops[h].url)
    <2>1. hops[h].url.scheme \in Schemes
      <3>1. hops[h].url \in URLs
        BY <1>1, SetupsAssumption DEF JInv, Sequenced
      <3> QED
        BY <3>1 DEF URLs
    <2> QED
      BY <1>1, <2>1, UnusableIsBlocked DEF Routed
  <1>3. ASSUME hops # <<>>
        PROVE  /\ advice \in {"passed", "warning"}
               /\ (advice = "warning") <=> (hops[1].route = "proxy")
    <2>1. 1 \in DOMAIN hops
      BY <1>3, Lengths DEF JInv, Sequenced
    <2>2. phase # "environment"
      BY <1>3 DEF JInv, InStep
    <2>3. hops[1].route = RouteOf(Selected(setup.target)) /\ hops[1].route # "blocked"
      BY <1>1, <1>3, <2>1 DEF KInv, TargetIsFirst, Routed
    <2>4. advice = EnvironmentVerdict(Selected(setup.target), setup.noProxy)
      BY <1>3, <2>2 DEF KInv, AdviceIsCaptured
    <2> QED
      BY <2>3, <2>4, AdviceIsTheRoute
  <1> QED
    BY <1>1, <1>2, <1>3 DEF PolicyIsKept, Routed

-----------------------------------------------------------------------------

\* A step that only writes into hops that were made, and keeps their routes.
LEMMA SameRoutes ==
  ASSUME KInv, UNCHANGED <<setup, proxy, advice, url>>,
         DOMAIN hops' = DOMAIN hops, hops' = <<>> <=> hops = <<>>,
         \A h \in DOMAIN hops : Routed(hops[h])' /\ hops'[h].url = hops[h].url,
         hops # <<>> => 1 \in DOMAIN hops,
         phase' = phase \/ (phase # "environment" /\ phase' \notin {"environment", "send"})
  PROVE  KInv'
  <1>1. TargetIsFirst'
    BY DEF KInv, TargetIsFirst
  <1>2. AdviceIsCaptured'
    BY DEF KInv, AdviceIsCaptured, Selected
  <1> QED
    BY <1>1, <1>2 DEF KInv

\* The check goes on without its hops.
LEMMA ElsewhereKeepsKInv ==
  ASSUME JInv, KInv, UNCHANGED <<setup, proxy, advice, request, hops>>,
         phase' = phase \/ (phase # "environment" /\ phase' \notin {"environment", "send"})
  PROVE  KInv'
  <1>1. \A h \in DOMAIN hops : Routed(hops[h])'
    BY DEF KInv, Routed, Selected
  <1>2. hops # <<>> => 1 \in DOMAIN hops
    BY Lengths DEF JInv, Sequenced
  <1> QED
    BY <1>1, <1>2, SameRoutes DEF request

\* One hop advances, along its route.
LEMMA OneHopKeepsKInv ==
  ASSUME JInv, KInv, NEW h \in DOMAIN hops, NEW r, hops' = [hops EXCEPT ![h] = r],
         Routed(r), r.url = hops[h].url, UNCHANGED <<setup, proxy, advice, request>>,
         phase' = phase \/ phase' \in {"wait", "redirect", "read"}
  PROVE  KInv'
  <1>0. /\ 1 \in DOMAIN hops /\ phase # "environment" /\ hops # <<>>
        /\ DOMAIN hops' = DOMAIN hops /\ hops' # <<>>
    <2>1. hops # <<>>
      BY h \in DOMAIN hops
    <2>2. DOMAIN hops' = DOMAIN hops
      OBVIOUS
    <2> QED
      BY <2>1, <2>2, Lengths DEF JInv, Sequenced, InStep
  <1>1. \A k \in DOMAIN hops : Routed(hops[k])' /\ hops'[k].url = hops[k].url
    BY DEF KInv, Routed, Selected
  <1> QED
    BY <1>0, <1>1, SameRoutes DEF request

-----------------------------------------------------------------------------

LEMMA KInvInit == Init => KInv
  BY DEF Init, KInv, TargetIsFirst, AdviceIsCaptured

LEMMA CheckedKeepsKInv == JInv /\ KInv /\ EnvironmentChecked => KInv'
  <1> SUFFICES ASSUME JInv, KInv, EnvironmentChecked PROVE KInv'
    OBVIOUS
  <1>1. /\ phase = "environment" /\ phase' = "enter" /\ UNCHANGED <<setup, hops>>
        /\ ~proxy.captured
        /\ IF setup.captured
           THEN /\ proxy' = [captured |-> TRUE, selection |-> Selected(setup.target)]
                /\ advice' = EnvironmentVerdict(Selected(setup.target), setup.noProxy)
           ELSE UNCHANGED <<proxy, advice>>
    BY DEF EnvironmentChecked, KInv, AdviceIsCaptured, trace
  <1>2. hops = <<>>
    BY <1>1 DEF JInv, InStep
  <1>3. AdviceIsCaptured'
    BY <1>1, <1>2 DEF AdviceIsCaptured, Selected
  <1> QED
    BY <1>1, <1>2, <1>3 DEF KInv, TargetIsFirst

LEMMA PrepareKeepsKInv == JInv /\ KInv /\ Prepare => KInv'
  <1> SUFFICES ASSUME JInv, KInv, Prepare PROVE KInv'
    OBVIOUS
  <1>1. /\ phase = "enter" /\ phase' = "send" /\ Refusal = "none"
        /\ UNCHANGED <<setup, proxy, advice, url, hops>>
    BY DEF Prepare, trace
  <1>2. hops = <<>> /\ url = setup.target
    BY <1>1 DEF JInv, InStep
  <1>3. proxy.captured
    BY <1>1 DEF Refusal
  <1>4. AdviceIsCaptured'
    BY <1>1, <1>2, <1>3 DEF KInv, AdviceIsCaptured, Selected
  <1> QED
    BY <1>1, <1>2, <1>4 DEF KInv, TargetIsFirst

LEMMA BeginKeepsKInv == JInv /\ KInv /\ Begin => KInv'
  <1> SUFFICES ASSUME JInv, KInv, Begin PROVE KInv'
    OBVIOUS
  <1>1. PICK hop : /\ hops' = Append(hops, hop) /\ hop.url = url
                   /\ hop.route = RouteOf(Selected(url))
                   /\ hop.todo = {} /\ hop.attempts = <<>>
    BY DEF Begin
  <1>2. /\ phase = "send" /\ phase' = "connect" /\ UNCHANGED <<setup, proxy, advice, url>>
    BY DEF Begin, request
  <1>n. PICK n : n = Len(hops)
    OBVIOUS
  <1>3. n \in Nat /\ DOMAIN hops = 1 .. n /\ (n = 0 <=> hops = <<>>)
    BY <1>n, Lengths DEF JInv, Sequenced
  <1>4. /\ DOMAIN hops' = 1 .. n + 1 /\ hops'[n + 1] = hop
        /\ \A h \in 1 .. n : hops'[h] = hops[h]
    BY <1>1, <1>3, <1>n DEF JInv, Sequenced
  <1>5. Routed(hop)'
    BY <1>1, <1>2 DEF Routed, Selected
  <1>6. \A h \in DOMAIN hops' : Routed(hops[h])'
    <2>1. \A h \in 1 .. n : Routed(hops[h])'
      BY <1>2, <1>3, <1>4 DEF KInv, Routed, Selected
    <2>2. Routed(hops[n + 1])'
      BY <1>4, <1>5 DEF Routed, Selected
    <2> QED
      BY <1>3, <1>4, <2>1, <2>2
  <1>7. TargetIsFirst'
    BY <1>1, <1>2, <1>3, <1>4 DEF KInv, TargetIsFirst
  <1>8. AdviceIsCaptured'
    BY <1>2 DEF KInv, AdviceIsCaptured, Selected
  <1> QED
    BY <1>6, <1>7, <1>8 DEF KInv

LEMMA JudgeKeepsKInv ==
  ASSUME JInv, KInv, NEW keep \in BOOLEAN, Judge(keep) PROVE KInv'
  <1>1. /\ phase = "redirect" /\ phase' \in {"send", "end"}
        /\ UNCHANGED <<setup, proxy, advice, hops>>
    BY DEF Judge, Follow, Block, trace
  <1>2. hops # <<>> /\ 1 \in DOMAIN hops
    <2>1. Len(hops) = Len(redirects) + 1
      BY <1>1 DEF JInv, InStep
    <2> QED
      BY <2>1, Lengths DEF JInv, Sequenced
  <1>3. \A h \in DOMAIN hops' : Routed(hops[h])'
    BY <1>1 DEF KInv, Routed, Selected
  <1>4. TargetIsFirst' /\ AdviceIsCaptured'
    BY <1>1, <1>2 DEF KInv, TargetIsFirst, AdviceIsCaptured, Selected
  <1> QED
    BY <1>3, <1>4 DEF KInv

\* A step that writes nothing into a hop but what became of its connection.
LEMMA MarksKeepKInv ==
  ASSUME JInv, KInv, NEW h \in DOMAIN hops, NEW r, hops' = [hops EXCEPT ![h] = r],
         r.url = hops[h].url, r.route = hops[h].route, r.todo \subseteq hops[h].todo,
         \A i \in DOMAIN r.attempts :
           \/ i \in DOMAIN hops[h].attempts /\ r.attempts[i].ip = hops[h].attempts[i].ip
           \/ \E c \in hops[h].todo : r.attempts[i].ip = c.ip,
         UNCHANGED <<setup, proxy, advice, request>>,
         phase' = phase \/ phase' \in {"wait", "redirect", "read"}
  PROVE  KInv'
  <1>1. Routed(r)
    BY DEF KInv, Routed
  <1> QED
    BY <1>1, OneHopKeepsKInv

LEMMA StartDialKeepsKInv ==
  ASSUME JInv, KInv, NEW h \in DOMAIN hops, StartDial(h) PROVE KInv'
  <1>0. Sequenced /\ FixedStays
    BY DEF JInv
  <1>1. Traced(hops[h]) /\ Routed(hops[h])
    BY <1>0 DEF Sequenced, KInv
  <1>2. PICK c \in Candidates(hops[h]) :
          hops' = [hops EXCEPT ![h] = [hops[h] EXCEPT
                     !.dial = IF c.todo = {} THEN "failed" ELSE "open",
                     !.todo = c.todo, !.pinned = c.pinned]]
    BY DEF StartDial
  <1> DEFINE r == [hops[h] EXCEPT !.dial = IF c.todo = {} THEN "failed" ELSE "open",
                                  !.todo = c.todo, !.pinned = c.pinned]
  <1>3. \A d \in c.todo : (d.ip = ProxyIP) <=> (hops[h].route = "proxy")
    <2>1. CASE hops[h].route = "proxy"
      <3>1. c.todo = {[at |-> 1, ip |-> ProxyIP]}
        BY <1>2, <2>1 DEF Candidates
      <3> QED
        BY <2>1, <3>1
    <2>2. CASE hops[h].route = "direct"
      <3>1. PICK s \in Seq(IP) : c.todo = Numbered(s)
        <4>1. CASE Origin(hops[h].url) \in DOMAIN approved
          BY <1>0, <1>2, <2>2, <4>1 DEF Candidates, FixedStays
        <4>2. CASE Origin(hops[h].url) \notin DOMAIN approved
          <5>1. PICK s \in Lookups(hops[h].url.host) : c.todo = Numbered(s)
            BY <1>2, <2>2, <4>2 DEF Candidates
          <5>2. s \in Seq(IP)
            BY <1>0, <1>1, <5>1, LookupsAre DEF Traced
          <5> QED
            BY <5>1, <5>2
        <4> QED
          BY <4>1, <4>2
      <3>2. \A d \in c.todo : d.ip \in Range(s)
        BY <3>1, NumberedAre
      <3>3. ProxyIP \notin Range(s)
        BY AddressAssumption DEF Range
      <3> QED
        BY <2>2, <3>2, <3>3
    <2> QED
      BY <1>1, <2>1, <2>2 DEF Traced
  <1>4. /\ r.url = hops[h].url /\ r.route = hops[h].route /\ r.attempts = hops[h].attempts
        /\ r.todo = c.todo /\ hops' = [hops EXCEPT ![h] = r]
    BY <1>1, <1>2 DEF Traced
  <1> HIDE DEF r
  <1>5. Routed(r)
    BY <1>1, <1>3, <1>4 DEF Routed
  <1> QED
    BY <1>4, <1>5, OneHopKeepsKInv DEF StartDial, OnlyDials

LEMMA ConnectStartKeepsKInv ==
  ASSUME JInv, KInv, NEW h \in DOMAIN hops, ConnectStart(h) PROVE KInv'
  <1>1. Traced(hops[h])
    BY DEF JInv, Sequenced
  <1>2. PICK c \in hops[h].todo :
          hops' = [hops EXCEPT ![h] = [hops[h] EXCEPT
                     !.todo = hops[h].todo \ {c},
                     !.attempts = Append(hops[h].attempts,
                                         [ip |-> c.ip, state |-> "open", selected |-> FALSE])]]
    BY DEF ConnectStart
  <1> DEFINE new == [ip |-> c.ip, state |-> "open", selected |-> FALSE]
             tried == hops[h].attempts
             r == [hops[h] EXCEPT !.todo = hops[h].todo \ {c}, !.attempts = Append(tried, new)]
  <1>3. new \in Attempt /\ new.ip = c.ip /\ tried \in Seq(Attempt)
    <2>1. c.ip \in Address
      BY <1>1, <1>2 DEF Traced, Candidate
    <2> QED
      BY <1>1, <2>1 DEF Attempt, States, Traced
  <1> HIDE DEF new
  <1>4. \A i \in DOMAIN Append(tried, new) :
          \/ i \in DOMAIN tried /\ Append(tried, new)[i] = tried[i]
          \/ Append(tried, new)[i] = new
    BY <1>3
  <1>5. /\ r.url = hops[h].url /\ r.route = hops[h].route
        /\ r.todo = hops[h].todo \ {c} /\ r.attempts = Append(tried, new)
        /\ hops' = [hops EXCEPT ![h] = r]
    BY <1>1, <1>2 DEF Traced, new
  <1> HIDE DEF r
  <1>6. \A i \in DOMAIN r.attempts :
          \/ i \in DOMAIN hops[h].attempts /\ r.attempts[i].ip = hops[h].attempts[i].ip
          \/ \E d \in hops[h].todo : r.attempts[i].ip = d.ip
    BY <1>2, <1>3, <1>4, <1>5
  <1> QED
    BY <1>5, <1>6, MarksKeepKInv DEF ConnectStart, OnlyDials

LEMMA AttemptEndsKeepsKInv ==
  ASSUME JInv, KInv, NEW h \in DOMAIN hops, NEW i \in DOMAIN hops[h].attempts, NEW state,
         hops' = [hops EXCEPT ![h].attempts[i].state = state], OnlyDials, UNCHANGED phase
  PROVE  KInv'
  <1>1. Traced(hops[h])
    BY DEF JInv, Sequenced
  <1> DEFINE a == [hops[h].attempts[i] EXCEPT !.state = state]
             r == [hops[h] EXCEPT !.attempts = [hops[h].attempts EXCEPT ![i] = a]]
  <1>2. a.ip = hops[h].attempts[i].ip
    <2>1. hops[h].attempts[i] \in Attempt
      BY <1>1, AttemptsAre DEF Traced
    <2> QED
      BY <2>1 DEF Attempt
  <1>3. hops' = [hops EXCEPT ![h] = r]
    OBVIOUS
  <1> HIDE DEF a
  <1>4. /\ r.url = hops[h].url /\ r.route = hops[h].route /\ r.todo = hops[h].todo
        /\ r.attempts = [hops[h].attempts EXCEPT ![i] = a]
    BY <1>1 DEF Traced
  <1> HIDE DEF r
  <1>5. \A k \in DOMAIN r.attempts :
          k \in DOMAIN hops[h].attempts /\ r.attempts[k].ip = hops[h].attempts[k].ip
    BY <1>2, <1>4
  <1> QED
    BY <1>3, <1>4, <1>5, MarksKeepKInv DEF OnlyDials

LEMMA DialEndsKeepsKInv ==
  ASSUME JInv, KInv, NEW h \in DOMAIN hops, NEW dial,
         hops' = [hops EXCEPT ![h] = [hops[h] EXCEPT !.dial = dial]], OnlyDials, UNCHANGED phase
  PROVE  KInv'
  <1>1. Traced(hops[h])
    BY DEF JInv, Sequenced
  <1> QED
    BY <1>1, MarksKeepKInv DEF Traced, OnlyDials

LEMMA DialDoneKeepsKInv ==
  ASSUME JInv, KInv, NEW h \in DOMAIN hops, DialDone(h) PROVE KInv'
  <1>1. Traced(hops[h])
    BY DEF JInv, Sequenced
  <1>2. PICK i \in In(h, "connected") :
          LET remote == hops[h].attempts[i].ip IN
          IF h = Current /\ phase = "connect"
          THEN /\ hops' = [hops EXCEPT ![h] = [hops[h] EXCEPT !.dial = "done", !.remote = remote,
                                !.reused = FALSE,
                                !.attempts = SelectAttempt(hops[h].attempts, remote)]]
               /\ phase' = "wait"
          ELSE hops' = [hops EXCEPT ![h] = [hops[h] EXCEPT !.dial = "done"]] /\ UNCHANGED phase
    BY DEF DialDone
  <1>3. CASE h = Current /\ phase = "connect"
    <2> DEFINE remote == hops[h].attempts[i].ip
    <2>1. PICK j : SelectAttempt(hops[h].attempts, remote)
                     = [hops[h].attempts EXCEPT
                          ![j] = [hops[h].attempts[j] EXCEPT !.selected = TRUE]]
      BY DEF SelectAttempt
    <2> DEFINE a == [hops[h].attempts[j] EXCEPT !.selected = TRUE]
               r == [hops[h] EXCEPT !.dial = "done", !.remote = remote, !.reused = FALSE,
                                    !.attempts = [hops[h].attempts EXCEPT ![j] = a]]
    <2>2. j \in DOMAIN hops[h].attempts => a.ip = hops[h].attempts[j].ip
      <3> SUFFICES ASSUME j \in DOMAIN hops[h].attempts PROVE a.ip = hops[h].attempts[j].ip
        OBVIOUS
      <3>1. hops[h].attempts[j] \in Attempt
        BY <1>1, AttemptsAre DEF Traced
      <3> QED
        BY <3>1 DEF Attempt
    <2> HIDE DEF remote
    <2>3. hops' = [hops EXCEPT ![h] = r] /\ phase' = "wait"
      BY <1>2, <1>3, <2>1 DEF remote
    <2> HIDE DEF a
    <2>4. /\ r.url = hops[h].url /\ r.route = hops[h].route /\ r.todo = hops[h].todo
          /\ r.attempts = [hops[h].attempts EXCEPT ![j] = a]
      BY <1>1 DEF Traced
    <2> HIDE DEF r
    <2>5. \A k \in DOMAIN r.attempts :
            k \in DOMAIN hops[h].attempts /\ r.attempts[k].ip = hops[h].attempts[k].ip
      BY <2>2, <2>4
    <2> QED
      BY <2>3, <2>4, <2>5, MarksKeepKInv DEF DialDone, OnlyDials
  <1>4. CASE ~(h = Current /\ phase = "connect")
    BY <1>2, <1>4, DialEndsKeepsKInv DEF DialDone
  <1> QED
    BY <1>3, <1>4

-----------------------------------------------------------------------------

LEMMA FailsKeepsKInv ==
  ASSUME JInv, KInv, NEW code, Fails(code), phase # "environment" PROVE KInv'
  BY ElsewhereKeepsKInv DEF Fails, trace

LEMMA RoundTripKeepsKInv == JInv /\ KInv /\ RoundTrip => KInv'
  <1> SUFFICES ASSUME JInv, KInv, RoundTrip PROVE KInv'
    OBVIOUS
  <1>1. ASSUME phase \in {"connect", "wait"}
        PROVE  Current \in DOMAIN hops /\ Traced(hops[Current])
    BY <1>1, Lengths DEF JInv, InStep, Current, Sequenced
  <1>2. CASE Refuse
    BY <1>2, ElsewhereKeepsKInv DEF Refuse, trace
  <1>3. CASE QueueDial
    <2> DEFINE r == [hops[Current] EXCEPT !.dial = "queued"]
    <2>1. /\ r.url = hops[Current].url /\ r.route = hops[Current].route
          /\ r.todo = hops[Current].todo /\ r.attempts = hops[Current].attempts
      BY <1>1, <1>3 DEF QueueDial, Traced
    <2>2. hops' = [hops EXCEPT ![Current] = r]
      BY <1>3 DEF QueueDial
    <2> HIDE DEF r
    <2> QED
      BY <1>1, <1>3, <2>1, <2>2, MarksKeepKInv DEF QueueDial
  <1>4. CASE RequestStops \/ DialReported
    BY <1>4, FailsKeepsKInv DEF RequestStops, DialReported
  <1>5. ASSUME NEW c \in idle, GotIdleConn(c) PROVE KInv'
    <2> DEFINE r == [hops[Current] EXCEPT !.remote = c.remote, !.reused = TRUE]
    <2>1. /\ r.url = hops[Current].url /\ r.route = hops[Current].route
          /\ r.todo = hops[Current].todo /\ r.attempts = hops[Current].attempts
      BY <1>1, <1>5 DEF GotIdleConn, Traced
    <2>2. hops' = [hops EXCEPT ![Current] = r]
      BY <1>5 DEF GotIdleConn
    <2> HIDE DEF r
    <2> QED
      BY <1>1, <1>5, <2>1, <2>2, MarksKeepKInv DEF GotIdleConn
  <1>6. ASSUME NEW slow \in BOOLEAN, NEW torn \in BOOLEAN, Conclude(slow, torn) PROVE KInv'
    BY <1>6, ElsewhereKeepsKInv DEF Conclude, trace
  <1> QED
    BY <1>2, <1>3, <1>4, <1>5, <1>6, CheckedKeepsKInv, PrepareKeepsKInv, BeginKeepsKInv,
       JudgeKeepsKInv DEF RoundTrip

LEMMA DiallingKeepsKInv ==
  ASSUME JInv, KInv, NEW h \in DOMAIN hops, Dialling(h) PROVE KInv'
  <1>1. ASSUME NEW i \in DOMAIN hops[h].attempts, Connects(h, i) \/ ConnectFails(h, i)
        PROVE  KInv'
    BY <1>1, AttemptEndsKeepsKInv DEF Connects, ConnectFails
  <1> QED
    BY <1>1, StartDialKeepsKInv, ConnectStartKeepsKInv, DialEndsKeepsKInv, DialDoneKeepsKInv
       DEF Dialling, DialFails

LEMMA EnvironmentKeepsKInv == JInv /\ KInv /\ Environment => KInv'
  <1> SUFFICES ASSUME JInv, KInv, Environment PROVE KInv'
    OBVIOUS
  <1>1. CASE Responds
    <2>1. Current \in DOMAIN hops /\ Traced(hops[Current])
      BY <1>1, Lengths DEF Responds, JInv, InStep, Current, Sequenced
    <2>2. PICK status : hops' = [hops EXCEPT ![Current] = [hops[Current] EXCEPT !.status = status]]
      BY <1>1 DEF Responds
    <2> DEFINE r == [hops[Current] EXCEPT !.status = status]
    <2>3. /\ r.url = hops[Current].url /\ r.route = hops[Current].route
          /\ r.todo = hops[Current].todo /\ r.attempts = hops[Current].attempts
      BY <2>1 DEF Traced
    <2> HIDE DEF r
    <2> QED
      BY <1>1, <2>1, <2>2, <2>3, MarksKeepKInv DEF Responds, r
  <1>2. CASE ConnBreaks
    BY <1>2, FailsKeepsKInv DEF ConnBreaks
  <1>3. CASE ReusedConnBreaks
    BY <1>3, ElsewhereKeepsKInv DEF ReusedConnBreaks, trace
  <1>4. ASSUME NEW c \in idle, ConnComesBack(c) \/ IdleConnCloses(c) PROVE KInv'
    BY <1>4, ElsewhereKeepsKInv DEF ConnComesBack, IdleConnCloses, trace
  <1>5. ASSUME NEW h \in DOMAIN hops, HandshakeFails(h) PROVE KInv'
    BY <1>5, DialEndsKeepsKInv DEF HandshakeFails
  <1>6. ASSUME NEW e, ContextEnds(e) PROVE KInv'
    BY <1>6, ElsewhereKeepsKInv DEF ContextEnds, trace
  <1> QED
    BY <1>1, <1>2, <1>3, <1>4, <1>5, <1>6 DEF Environment

LEMMA KInvStep == JInv /\ KInv /\ [Next]_vars => KInv'
  <1>1. ASSUME JInv, KInv, UNCHANGED vars PROVE KInv'
    BY <1>1, ElsewhereKeepsKInv DEF vars, trace
  <1> QED
    BY <1>1, RoundTripKeepsKInv, DiallingKeepsKInv, EnvironmentKeepsKInv DEF Next, Terminated

\* Whatever is configured, and whatever names resolve to and servers answer: a URL
\* whose proxy cannot be used is never requested, only the hops of the proxy dial the
\* proxy, and the first request does what the environment check said of the route
\* (proxySelectionForURL, httpTraceRecorder.begin, environment.Check.Run).
THEOREM PolicyHolds == Spec => []PolicyIsKept
  <1>1. Init => JInv /\ KInv
    BY JInvInit, KInvInit
  <1>2. JInv /\ KInv /\ [Next]_vars => JInv' /\ KInv'
    BY JInvStep, KInvStep
  <1>3. JInv /\ KInv => PolicyIsKept
    BY KInvIsEnough
  <1> QED
    BY <1>1, <1>2, <1>3, PTL DEF Spec

-----------------------------------------------------------------------------
(* What the trace, and the report made of it, tell of the hops.            *)

\* Attempts that have not failed are of two families, and only one of them is connected.
Raced(s) ==
  \A i, j \in DOMAIN s : i # j /\ s[i].state # "failed" /\ s[j].state # "failed" =>
    Family(s[i].ip) # Family(s[j].ip) /\ ~(s[i].state = "connected" /\ s[j].state = "connected")

\* A hop is on a path of its kind, and came out where its route leads.
Told(h, ps) ==
  /\ {"url", "route", "path", "attempts", "remote", "reused"} \subseteq DOMAIN h
  /\ h.path \in DOMAIN ps /\ ((ps[h.path].kind = "direct") <=> (h.route = "direct"))
  /\ h.remote # NoIP => ((h.remote = ProxyIP) <=> (h.route = "proxy"))
  /\ Raced(h.attempts) /\ Marked(h)

\* A connection is kept under the route that it was dialled for.
Kept(c) == "key" \in DOMAIN c /\ ((c.remote = ProxyIP) <=> (c.key[1] = "proxy"))

Busy == {"connect", "wait", "redirect", "read"}
Fields == {"from", "to", "decision", "judged", "fromRef", "toRef"}

\* Redirects lead from hop to hop, the last one to the request that is sent next.
Linked ==
  /\ \A r \in DOMAIN redirects : DOMAIN redirects[r] = Fields /\ redirects[r].from = hops[r].url
  /\ phase # "end" => \A r \in DOMAIN redirects :
       /\ redirects[r].decision = "followed"
       /\ redirects[r].to = IF r + 1 \in DOMAIN hops THEN hops[r + 1].url ELSE url
  /\ phase \in Busy => Len(hops) = Len(redirects) + 1 /\ url = hops[Len(hops)].url

Taken == {hops[h].route : h \in DOMAIN hops}

\* The history holds the routes of the hops, and of the request that is sent next.
RoutesAreRecorded ==
  /\ phase = "send" => history = Taken \cup {RouteOf(Selected(url))}
  /\ phase \in Busy => history = Taken

\* The inductive invariant of HopsTellOneStory, on top of JInv and KInv.
LInv ==
  /\ paths \in Seq({paths[p] : p \in DOMAIN paths})
  /\ \A h \in DOMAIN hops : Told(hops[h], paths)
  /\ \A c \in idle : Kept(c)
  /\ phase = "connect" => hops[Current].remote = NoIP \/ hops[Current].reused
  /\ Linked /\ RoutesAreRecorded
  /\ ReportIsOneStory

LEMMA LInvIsEnough == LInv => HopsTellOneStory
  BY DEF LInv, HopsTellOneStory, SelectedIsUsed, Told, Marked

-----------------------------------------------------------------------------
(* The report.                                                             *)

\* Two routes, or one.
LEMMA TakenAreOneOrTwo ==
  ASSUME NEW S, S \subseteq {"direct", "proxy"}, S # {}
  PROVE  /\ Cardinality(S) = 2 <=> S = {"direct", "proxy"}
         /\ S # {"direct", "proxy"} => S = {"direct"} \/ S = {"proxy"}
  <1>1. S = {"direct"} \/ S = {"proxy"} \/ S = {"direct", "proxy"}
    OBVIOUS
  <1>2. Cardinality({"direct"}) = 1 /\ Cardinality({"proxy"}) = 1 /\ IsFiniteSet({"direct"})
    BY FS_Singleton
  <1>3. Cardinality({"direct"} \cup {"proxy"}) = 2
    BY <1>2, FS_AddElement, "proxy" \notin {"direct"}
  <1>4. {"direct"} \cup {"proxy"} = {"direct", "proxy"}
    OBVIOUS
  <1> QED
    BY <1>1, <1>2, <1>3, <1>4

\* How a round trip comes to its end: the redirects lead from hop to hop, but for the
\* last one if it is blocked, which is then the reason.
Ending(verdict, code, status, rs) ==
  /\ phase \in Busy /\ phase' = "end"
  /\ Report(verdict, code, status, rs)
  /\ rs \in Seq({rs[i] : i \in DOMAIN rs})
  /\ Len(rs) <= Len(hops) /\ Len(hops) <= Len(rs) + 1
  /\ \A i \in DOMAIN rs : DOMAIN rs[i] = Fields /\ rs[i].from = hops[i].url
  /\ \A i \in DOMAIN rs : i < Len(hops) =>
       rs[i].decision = "followed" /\ rs[i].to = hops[i + 1].url
  /\ Len(rs) = Len(hops) => /\ rs[Len(rs)].decision # "followed"
                            /\ code = RedirectCode(rs[Len(rs)].decision)
  /\ verdict \in {"passed", "warning"} => status = hops[Len(hops)].status

LEMMA ReportTells ==
  ASSUME JInv, KInv, LInv, NEW rs, NEW verdict, NEW code, NEW status,
         Ending(verdict, code, status, rs)
  PROVE  ReportIsOneStory'
  <1>n. PICK n : n = Len(hops)
    OBVIOUS
  <1>r. PICK res : res = result'
    OBVIOUS
  <1>1. /\ n \in Nat /\ n >= 1 /\ DOMAIN hops = 1 .. n
        /\ Len(rs) \in Nat /\ DOMAIN rs = 1 .. Len(rs)
        /\ Len(rs) <= n /\ n <= Len(rs) + 1
    <2>1. rs \in Seq({rs[i] : i \in DOMAIN rs}) /\ Len(rs) <= n /\ n <= Len(rs) + 1
      BY <1>n DEF Ending
    <2>2. Len(rs) \in Nat /\ DOMAIN rs = 1 .. Len(rs)
      BY <2>1
    <2>3. n \in Nat /\ DOMAIN hops = 1 .. n /\ Len(redirects) \in Nat
      BY <1>n, Lengths DEF JInv
    <2>4. Len(hops) = Len(redirects) + 1
      BY DEF Ending, LInv, Linked
    <2> QED
      BY <1>n, <2>1, <2>2, <2>3, <2>4
  <1>e. /\ \A i \in 1 .. Len(rs) : DOMAIN rs[i] = Fields /\ rs[i].from = hops[i].url
        /\ \A i \in 1 .. Len(rs) : i < n => rs[i].decision = "followed" /\ rs[i].to = hops[i + 1].url
        /\ Len(rs) = n => rs[n].decision # "followed" /\ code = RedirectCode(rs[n].decision)
        /\ verdict \in {"passed", "warning"} => status = hops[n].status
    BY <1>n, <1>1 DEF Ending
  <1>2. /\ res.hops = [h \in DOMAIN hops |-> Snapshot(hops[h])]
        /\ res.redirects = Correlated(rs) /\ res.paths = NetworkPaths
        /\ res.verdict = verdict /\ res.code = code /\ res.status = status
        /\ res.final = url /\ res.route = RouteTaken
    BY <1>r DEF Ending, Report
  <1>3. Len(res.hops) = n /\ DOMAIN res.hops = 1 .. n
    <2> DEFINE T == {Snapshot(hops[h]) : h \in 1 .. n}
    <2>1. res.hops \in [1 .. n -> T] /\ DOMAIN res.hops = 1 .. n
      BY <1>1, <1>2
    <2> HIDE DEF T
    <2> QED
      BY <1>1, <2>1, FunctionIsSequence
  <1>4. \A h \in 1 .. n : /\ res.hops[h].url = hops[h].url /\ res.hops[h].route = hops[h].route
                          /\ res.hops[h].path = hops[h].path
                          /\ res.hops[h].status = hops[h].status
                          /\ res.hops[h].remote = IF hops[h].route = "proxy" THEN NoIP
                                                  ELSE hops[h].remote
                          /\ res.hops[h].peer = IF hops[h].route = "proxy" THEN hops[h].remote
                                                ELSE NoIP
    BY <1>1, <1>2 DEF Snapshot
  <1>5. /\ Len(res.redirects) = Len(rs) /\ DOMAIN res.redirects = 1 .. Len(rs)
        /\ \A i \in 1 .. Len(rs) :
             /\ DOMAIN res.redirects[i] = Fields
             /\ res.redirects[i].from = rs[i].from /\ res.redirects[i].to = rs[i].to
             /\ res.redirects[i].decision = rs[i].decision
             /\ res.redirects[i].fromRef = IF i \in DOMAIN hops THEN i ELSE 0
             /\ res.redirects[i].toRef = IF i + 1 \in DOMAIN hops THEN i + 1 ELSE 0
    <2> DEFINE T == {res.redirects[i] : i \in 1 .. Len(rs)}
    <2>1. DOMAIN res.redirects = 1 .. Len(rs) /\ res.redirects \in [1 .. Len(rs) -> T]
      BY <1>1, <1>2 DEF Correlated
    <2> HIDE DEF T
    <2>2. Len(res.redirects) = Len(rs)
      BY <1>1, <2>1, FunctionIsSequence
    <2>3. \A i \in 1 .. Len(rs) :
            res.redirects[i] = [rs[i] EXCEPT !.fromRef = IF i \in DOMAIN hops THEN i ELSE 0,
                                             !.toRef = IF i + 1 \in DOMAIN hops THEN i + 1 ELSE 0]
      BY <1>1, <1>2 DEF Correlated
    <2>4. ASSUME NEW i \in 1 .. Len(rs)
          PROVE  /\ DOMAIN res.redirects[i] = Fields
                 /\ res.redirects[i].from = rs[i].from /\ res.redirects[i].to = rs[i].to
                 /\ res.redirects[i].decision = rs[i].decision
                 /\ res.redirects[i].fromRef = IF i \in DOMAIN hops THEN i ELSE 0
                 /\ res.redirects[i].toRef = IF i + 1 \in DOMAIN hops THEN i + 1 ELSE 0
      BY <1>e, <2>3 DEF Fields
    <2> QED
      BY <2>1, <2>2, <2>4
  <1> DEFINE last == res.redirects # <<>> /\ Blocked(Last(res.redirects))
             blocked == {r \in Range(res.redirects) : Blocked(r)}
  <1>l. PICK l : l = Len(rs) /\ l \in Nat /\ l <= n /\ n <= l + 1 /\ n \in Nat /\ n >= 1
    BY <1>1
  <1>m. Len(res.redirects) = l /\ DOMAIN res.redirects = 1 .. l
    BY <1>5, <1>l
  <1>6. \A i \in 1 .. l :
          /\ Blocked(res.redirects[i]) => i = n /\ l = n
          /\ ~Blocked(res.redirects[i]) => i + 1 \in 1 .. n
    <2> SUFFICES ASSUME NEW i \in 1 .. l
                 PROVE  /\ Blocked(res.redirects[i]) => i = n /\ l = n
                        /\ ~Blocked(res.redirects[i]) => i + 1 \in 1 .. n
      OBVIOUS
    <2>1. res.redirects[i].decision = rs[i].decision
      BY <1>5, <1>l
    <2>2. i < n => rs[i].decision = "followed"
      BY <1>e, <1>l
    <2>3. i = n => rs[i].decision # "followed"
      BY <1>e, <1>l
    <2> QED
      BY <1>l, <2>1, <2>2, <2>3 DEF Blocked
  <1>7. last <=> l = n
    <2>1. res.redirects # <<>> <=> l # 0
      BY <1>1, <1>5, <1>l
    <2>2. Last(res.redirects) = res.redirects[l]
      BY <1>m DEF Last
    <2>3. CASE l = n
      <3>1. l # 0 /\ l \in 1 .. l
        BY <1>l, <2>3
      <3>2. Blocked(res.redirects[l])
        BY <1>5, <1>e, <1>l, <2>3, <3>1 DEF Blocked
      <3> QED
        BY <2>1, <2>2, <2>3, <3>1, <3>2
    <2>4. CASE l # n /\ l # 0
      <3>1. l \in 1 .. l
        BY <1>l, <2>4
      <3>2. ~Blocked(res.redirects[l])
        BY <1>6, <2>4, <3>1
      <3> QED
        BY <2>2, <2>4, <3>2
    <2>5. CASE l = 0
      BY <1>l, <2>1, <2>5
    <2> QED
      BY <2>3, <2>4, <2>5
  <1> HIDE DEF last
  <1>8. last <=> res.code \in {RedirectCode(r.decision) : r \in blocked}
    <2>1. CASE l = n
      <3>1. n \in 1 .. l
        BY <1>l, <2>1
      <3>2. res.redirects[n] \in Range(res.redirects) /\ Blocked(res.redirects[n])
        BY <1>5, <1>e, <1>l, <1>m, <2>1, <3>1 DEF Range, Blocked
      <3>3. res.code = RedirectCode(res.redirects[n].decision)
        BY <1>2, <1>5, <1>e, <1>l, <2>1, <3>1
      <3> QED
        BY <1>7, <2>1, <3>2, <3>3
    <2>2. CASE l # n
      <3>1. blocked = {}
        BY <1>m, <1>6, <2>2 DEF Range
      <3> QED
        BY <1>7, <2>2, <3>1
    <2> QED
      BY <2>1, <2>2
  <1>9. \A i \in 1 .. l :
          /\ res.redirects[i].fromRef = i /\ res.redirects[i].from = res.hops[i].url
          /\ IF Blocked(res.redirects[i]) THEN i = n /\ res.redirects[i].toRef = 0
             ELSE /\ res.redirects[i].toRef = i + 1
                  /\ res.redirects[i].to = res.hops[i + 1].url
    <2> SUFFICES ASSUME NEW i \in 1 .. l
                 PROVE  /\ res.redirects[i].fromRef = i /\ res.redirects[i].from = res.hops[i].url
                        /\ IF Blocked(res.redirects[i]) THEN i = n /\ res.redirects[i].toRef = 0
                           ELSE /\ res.redirects[i].toRef = i + 1
                                /\ res.redirects[i].to = res.hops[i + 1].url
      OBVIOUS
    <2>1. i \in 1 .. n /\ i \in 1 .. Len(rs) /\ i \in DOMAIN hops
      BY <1>1, <1>l
    <2>2. /\ res.redirects[i].from = rs[i].from /\ res.redirects[i].to = rs[i].to
          /\ res.redirects[i].fromRef = i
          /\ res.redirects[i].toRef = IF i + 1 \in 1 .. n THEN i + 1 ELSE 0
      BY <1>1, <1>5, <2>1
    <2>3. rs[i].from = res.hops[i].url
      BY <1>4, <1>e, <2>1
    <2>4. CASE Blocked(res.redirects[i])
      <3>1. i = n /\ i + 1 \notin 1 .. n
        BY <1>6, <1>l, <2>4
      <3> QED
        BY <2>2, <2>3, <2>4, <3>1
    <2>5. CASE ~Blocked(res.redirects[i])
      <3>1. i + 1 \in 1 .. n /\ i < n
        BY <1>6, <1>l, <2>5
      <3>2. rs[i].to = res.hops[i + 1].url
        BY <1>4, <1>e, <2>1, <3>1
      <3> QED
        BY <2>2, <2>3, <2>5, <3>1, <3>2
    <2> QED
      BY <2>4, <2>5
  <1>10. n = IF last THEN Len(res.redirects) ELSE Len(res.redirects) + 1
    BY <1>l, <1>m, <1>7
  <1>11. res.final = res.hops[n].url
    <2>1. phase \in Busy
      BY DEF Ending
    <2>2. Linked
      BY DEF LInv
    <2>3. url = hops[n].url
      BY <1>n, <2>1, <2>2 DEF Linked
    <2>4. n \in 1 .. n
      BY <1>l
    <2> QED
      BY <1>2, <1>4, <2>3, <2>4
  <1>12. res.route = LET taken == {res.hops[i].route : i \in 1 .. n} IN
                     IF Cardinality(taken) = 2 THEN "mixed" ELSE CHOOSE r \in taken : TRUE
    <2>1. {res.hops[i].route : i \in 1 .. n} = Taken /\ history = Taken
      <3>1. history = Taken
        BY DEF Ending, LInv, RoutesAreRecorded
      <3>2. Taken = {hops[i].route : i \in 1 .. n}
        BY <1>1 DEF Taken
      <3> QED
        BY <1>4, <3>1, <3>2
    <2>2. Taken \subseteq {"direct", "proxy"} /\ Taken # {}
      <3>1. 1 \in DOMAIN hops /\ \A h \in DOMAIN hops : hops[h].route \in {"direct", "proxy"}
        BY <1>1 DEF JInv, Sequenced, Traced
      <3> QED
        BY <3>1 DEF Taken
    <2>3. CASE Taken = {"direct", "proxy"}
      <3>1. Cardinality(Taken) = 2
        BY <2>2, <2>3, TakenAreOneOrTwo
      <3>2. RouteTaken = "mixed"
        BY <2>1, <2>3 DEF RouteTaken
      <3> QED
        BY <1>2, <2>1, <3>1, <3>2
    <2>4. CASE Taken = {"direct"} \/ Taken = {"proxy"}
      <3>1. Cardinality(Taken) # 2
        BY <2>2, <2>4, TakenAreOneOrTwo
      <3>2. RouteTaken = CHOOSE r \in Taken : TRUE
        BY <2>1, <2>4 DEF RouteTaken
      <3> QED
        BY <1>2, <2>1, <3>1, <3>2
    <2> QED
      BY <2>2, <2>3, <2>4, TakenAreOneOrTwo
  <1>13. res.verdict \in {"passed", "warning"} => res.hops[n].status = res.status
    <2>1. n \in 1 .. n
      BY <1>l
    <2>2. res.hops[n].status = hops[n].status
      BY <1>4, <2>1
    <2> QED
      BY <1>2, <1>e, <2>2
  <1>14. /\ DOMAIN res.paths = DOMAIN paths
         /\ \A p \in DOMAIN paths : /\ res.paths[p].kind = paths[p].kind
                                    /\ res.paths[p].hops = {h \in DOMAIN hops : hops[h].path = p}
    BY <1>2 DEF NetworkPaths
  <1>t. \A h \in 1 .. n :
          /\ hops[h].path \in DOMAIN paths
          /\ (paths[hops[h].path].kind = "direct") <=> (hops[h].route = "direct")
          /\ hops[h].remote # NoIP => ((hops[h].remote = ProxyIP) <=> (hops[h].route = "proxy"))
    BY <1>1 DEF LInv, Told
  <1>15. \A p \in DOMAIN res.paths : \A i \in res.paths[p].hops :
           /\ res.hops[i].path = p
           /\ (res.hops[i].route = "direct") <=> (res.paths[p].kind = "direct")
    BY <1>1, <1>4, <1>14, <1>t
  <1>16. UNION {res.paths[p].hops : p \in DOMAIN res.paths} = 1 .. n
    BY <1>1, <1>14, <1>t
  <1>17. \A i \in 1 .. n : /\ res.hops[i].remote # ProxyIP
                           /\ res.hops[i].peer \in {NoIP, ProxyIP}
    BY <1>4, <1>t, AddressAssumption
  <1> HIDE DEF blocked
  <1>18. /\ \A i \in DOMAIN res.redirects :
              /\ res.redirects[i].fromRef = i /\ res.redirects[i].from = res.hops[i].url
              /\ IF Blocked(res.redirects[i])
                 THEN i = Len(res.hops) /\ res.redirects[i].toRef = 0
                 ELSE /\ res.redirects[i].toRef = i + 1
                      /\ res.redirects[i].to = res.hops[i + 1].url
    BY <1>3, <1>m, <1>9
  <1>19. OneStory(res)
    BY <1>3, <1>8, <1>10, <1>11, <1>12, <1>13, <1>15, <1>16, <1>17, <1>18
       DEF OneStory, last, blocked
  <1>20. ReportIsOneStory' <=> (phase' = "end" /\ result'.hops # <<>> => OneStory(result'))
    BY DEF ReportIsOneStory
  <1> QED
    BY <1>r, <1>19, <1>20

-----------------------------------------------------------------------------
(* A step inside a round trip.                                             *)

LEMMA ToldAre ==
  ASSUME LInv, NEW h \in DOMAIN hops PROVE Told(hops[h], paths)
  BY DEF LInv

\* One hop advances and the rest stays.
LEMMA OneHopKeepsLInv ==
  ASSUME JInv, LInv, NEW h \in DOMAIN hops, NEW r, hops' = [hops EXCEPT ![h] = r],
         Told(r, paths), r.url = hops[h].url, r.route = hops[h].route,
         phase' = "connect" /\ h = Current => r.remote = NoIP \/ r.reused,
         UNCHANGED <<setup, request, redirects, paths>>, \A c \in idle' : Kept(c),
         \/ phase' = phase /\ phase # "end"
         \/ phase \in {"connect", "wait"} /\ phase' \in {"wait", "redirect", "read"}
  PROVE  LInv'
  <1>0. UNCHANGED <<setup, url, history, redirects, paths>>
    BY DEF request
  <1>1. /\ hops \in Seq({hops[k] : k \in DOMAIN hops}) /\ Len(hops) \in Nat
        /\ DOMAIN hops = 1 .. Len(hops)
    BY Lengths DEF JInv, Sequenced
  <1>2. DOMAIN hops' = DOMAIN hops /\ Len(hops') = Len(hops)
    BY <1>1
  <1>3. \A k \in DOMAIN hops : /\ Told(hops'[k], paths) /\ hops'[k].url = hops[k].url
                              /\ hops'[k].route = hops[k].route
    <2> SUFFICES ASSUME NEW k \in DOMAIN hops
                 PROVE  /\ Told(hops'[k], paths) /\ hops'[k].url = hops[k].url
                        /\ hops'[k].route = hops[k].route
      OBVIOUS
    <2>1. CASE k = h
      BY <2>1
    <2>2. CASE k # h
      BY <2>2, ToldAre
    <2> QED
      BY <2>1, <2>2
  <1>4. Current' = Current
    BY <1>2 DEF Current
  <1>5. phase' = "connect" => hops'[Current].remote = NoIP \/ hops'[Current].reused
    <2>1. CASE h = Current
      BY <2>1
    <2>2. CASE h # Current
      BY <2>2 DEF LInv
    <2> QED
      BY <2>1, <2>2
  <1>6. Linked'
    <2>1. phase' \in Busy => phase \in Busy
      BY DEF Busy
    <2>2. phase \in Busy => Len(hops) \in DOMAIN hops
      <3>1. phase \in Busy => Len(hops) = Len(redirects) + 1
        BY DEF LInv, Linked
      <3>2. Len(redirects) \in Nat
        BY Lengths DEF JInv
      <3> QED
        BY <1>1, <3>1, <3>2
    <2>3. \A i \in DOMAIN redirects : i \in DOMAIN hops
      BY Lengths DEF JInv
    <2>4. Linked
      BY DEF LInv
    <2>5. phase # "end"
      OBVIOUS
    <2>6. \A k \in DOMAIN hops : hops'[k].url = hops[k].url
      BY <1>3
    <2>7. (\A i \in DOMAIN redirects :
             DOMAIN redirects[i] = Fields /\ redirects[i].from = hops[i].url)'
      BY <1>0, <2>3, <2>4, <2>6 DEF Linked
    <2>8. (\A i \in DOMAIN redirects :
             /\ redirects[i].decision = "followed"
             /\ redirects[i].to = IF i + 1 \in DOMAIN hops THEN hops[i + 1].url ELSE url)'
      BY <1>0, <1>2, <2>4, <2>5, <2>6 DEF Linked
    <2>9. (phase \in Busy => Len(hops) = Len(redirects) + 1 /\ url = hops[Len(hops)].url)'
      BY <1>0, <1>2, <2>1, <2>2, <2>4, <2>6 DEF Linked
    <2> QED
      BY <2>7, <2>8, <2>9 DEF Linked
  <1>7. Taken' = Taken
    BY <1>2, <1>3 DEF Taken
  <1>8. RoutesAreRecorded'
    BY <1>0, <1>7 DEF LInv, RoutesAreRecorded, Busy, Selected
  <1>9. ReportIsOneStory'
    BY DEF ReportIsOneStory
  <1>10. \A k \in DOMAIN hops' : Told(hops[k], paths)'
    BY <1>0, <1>2, <1>3 DEF Told, Marked, Raced, Family
  <1>11. \A c \in idle' : Kept(c)'
    BY DEF Kept
  <1>12. (phase = "connect" => hops[Current].remote = NoIP \/ hops[Current].reused)'
    BY <1>4, <1>5
  <1>13. (paths \in Seq({paths[p] : p \in DOMAIN paths}))'
    BY <1>0 DEF LInv
  <1> QED
    BY <1>6, <1>8, <1>9, <1>10, <1>11, <1>12, <1>13 DEF LInv

\* A step that tells nothing new of a hop.
LEMMA MarksKeepLInv ==
  ASSUME JInv, LInv, NEW h \in DOMAIN hops, NEW r, hops' = [hops EXCEPT ![h] = r],
         DOMAIN r = DOMAIN hops[h], r.url = hops[h].url, r.route = hops[h].route,
         r.path = hops[h].path, r.attempts = hops[h].attempts,
         r.remote = hops[h].remote, r.reused = hops[h].reused,
         UNCHANGED <<setup, request, redirects, paths>>, \A c \in idle' : Kept(c),
         \/ phase' = phase /\ phase # "end"
         \/ phase \in {"connect", "wait"} /\ phase' \in {"wait", "redirect", "read"}
  PROVE  LInv'
  <1>1. Told(r, paths)
    BY ToldAre DEF Told, Marked
  <1>2. phase' = "connect" /\ h = Current => r.remote = NoIP \/ r.reused
    BY DEF LInv
  <1> QED
    BY <1>1, <1>2, OneHopKeepsLInv

\* The hops, the redirects and the request that is sent next stay.
LEMMA ElsewhereKeepsLInv ==
  ASSUME LInv, UNCHANGED <<setup, request, redirects, trace>>, \A c \in idle' : Kept(c),
         \/ phase' = phase /\ (phase # "end" \/ UNCHANGED result)
         \/ phase = "environment" /\ phase' = "enter"
         \/ phase = "wait" /\ phase' = "connect" /\ hops[Current].reused
  PROVE  LInv'
  <1>0. UNCHANGED <<setup, url, history, redirects, paths, hops, Current>>
    BY DEF request, trace, Current
  <1>1. Linked'
    <2>1. Linked /\ (phase' \in Busy => phase \in Busy) /\ (phase' # "end" => phase # "end")
      BY DEF LInv, Busy
    <2> QED
      BY <1>0, <2>1 DEF Linked
  <1>2. RoutesAreRecorded'
    <2>1. Taken' = Taken
      BY <1>0 DEF Taken
    <2> QED
      BY <1>0, <2>1 DEF LInv, RoutesAreRecorded, Busy, Selected
  <1>3. ReportIsOneStory'
    <2>1. CASE phase' # "end"
      BY <2>1 DEF ReportIsOneStory
    <2>2. CASE phase' = "end"
      <3>1. ReportIsOneStory /\ phase' = phase /\ result' = result
        BY <2>2 DEF LInv
      <3> QED
        BY <3>1 DEF ReportIsOneStory
    <2> QED
      BY <2>1, <2>2
  <1>4. (\A h \in DOMAIN hops : Told(hops[h], paths))'
    BY <1>0 DEF LInv
  <1>5. (phase = "connect" => hops[Current].remote = NoIP \/ hops[Current].reused)'
    BY <1>0 DEF LInv
  <1>6. (paths \in Seq({paths[p] : p \in DOMAIN paths}))'
    BY <1>0 DEF LInv
  <1> QED
    BY <1>1, <1>2, <1>3, <1>4, <1>5, <1>6 DEF LInv, Kept

-----------------------------------------------------------------------------
(* The steps of a dial.                                                    *)

LEMMA FamilyOf == \A ip : Family(ip) \in {"4", "6"}
  BY DEF Family

\* The steps of a dial tell of a hop what its attempts are.
LEMMA AttemptsKeepLInv ==
  ASSUME JInv, LInv, NEW h \in DOMAIN hops, NEW r, hops' = [hops EXCEPT ![h] = r],
         DOMAIN r = DOMAIN hops[h], r.url = hops[h].url, r.route = hops[h].route,
         r.path = hops[h].path, r.remote = hops[h].remote, r.reused = hops[h].reused,
         Raced(r.attempts), Marked(r), OnlyDials, phase # "end", UNCHANGED <<phase, idle>>
  PROVE  LInv'
  <1>1. Told(r, paths)
    BY ToldAre DEF Told
  <1>2. phase' = "connect" /\ h = Current => r.remote = NoIP \/ r.reused
    BY DEF LInv
  <1>3. \A c \in idle' : Kept(c)
    BY DEF LInv
  <1> QED
    BY <1>1, <1>2, <1>3, OneHopKeepsLInv DEF OnlyDials

LEMMA StartDialKeepsLInv ==
  ASSUME JInv, LInv, NEW h \in DOMAIN hops, StartDial(h) PROVE LInv'
  <1>1. PICK c \in Candidates(hops[h]) :
          hops' = [hops EXCEPT ![h] = [hops[h] EXCEPT
                     !.dial = IF c.todo = {} THEN "failed" ELSE "open",
                     !.todo = c.todo, !.pinned = c.pinned]]
    BY DEF StartDial
  <1> DEFINE r == [hops[h] EXCEPT !.dial = IF c.todo = {} THEN "failed" ELSE "open",
                                  !.todo = c.todo, !.pinned = c.pinned]
  <1>2. Told(hops[h], paths)
    BY ToldAre
  <1>3. /\ hops' = [hops EXCEPT ![h] = r]
        /\ DOMAIN r = DOMAIN hops[h] /\ r.url = hops[h].url /\ r.route = hops[h].route
        /\ r.path = hops[h].path /\ r.attempts = hops[h].attempts
        /\ r.remote = hops[h].remote /\ r.reused = hops[h].reused
    BY <1>1, <1>2 DEF Told
  <1> HIDE DEF r
  <1>4. phase # "end" /\ OnlyDials /\ UNCHANGED <<phase, idle>>
    BY DEF StartDial
  <1> QED
    BY <1>3, <1>4, MarksKeepLInv DEF OnlyDials, LInv

LEMMA ConnectStartKeepsLInv ==
  ASSUME JInv, LInv, NEW h \in DOMAIN hops, ConnectStart(h) PROVE LInv'
  <1>1. Traced(hops[h]) /\ Told(hops[h], paths)
    BY ToldAre DEF JInv, Sequenced
  <1>2. PICK c \in hops[h].todo :
          /\ \A i \in In(h, "open") : Family(hops[h].attempts[i].ip) # Family(c.ip)
          /\ hops' = [hops EXCEPT ![h] = [hops[h] EXCEPT
                     !.todo = hops[h].todo \ {c},
                     !.attempts = Append(hops[h].attempts,
                                         [ip |-> c.ip, state |-> "open", selected |-> FALSE])]]
    BY DEF ConnectStart
  <1> DEFINE new == [ip |-> c.ip, state |-> "open", selected |-> FALSE]
             tried == hops[h].attempts
             r == [hops[h] EXCEPT !.todo = hops[h].todo \ {c}, !.attempts = Append(tried, new)]
  <1>3. new.ip = c.ip /\ new.state = "open" /\ ~new.selected
    OBVIOUS
  <1> HIDE DEF new
  <1>4. /\ hops' = [hops EXCEPT ![h] = r] /\ r.attempts = Append(tried, new)
        /\ DOMAIN r = DOMAIN hops[h] /\ r.url = hops[h].url /\ r.route = hops[h].route
        /\ r.path = hops[h].path /\ r.remote = hops[h].remote /\ r.reused = hops[h].reused
    BY <1>1, <1>2 DEF Told, new
  <1> HIDE DEF r
  <1>n. PICK n \in Nat : /\ DOMAIN tried = 1 .. n /\ DOMAIN r.attempts = 1 .. n + 1
                          /\ r.attempts[n + 1] = new
                          /\ \A i \in 1 .. n : r.attempts[i] = tried[i]
    <2>1. tried \in Seq(Attempt)
      BY <1>1 DEF Traced
    <2>2. PICK t \in Seq(Attempt) : t = tried
      BY <2>1
    <2>3. /\ Len(t) \in Nat /\ DOMAIN t = 1 .. Len(t)
          /\ DOMAIN Append(t, new) = 1 .. Len(t) + 1 /\ Append(t, new)[Len(t) + 1] = new
          /\ \A i \in 1 .. Len(t) : Append(t, new)[i] = t[i]
      OBVIOUS
    <2> QED
      BY <1>4, <2>2, <2>3
  <1>5. \A i \in 1 .. n : tried[i].state # "failed" =>
          tried[i].state = "open" /\ Family(tried[i].ip) # Family(c.ip)
    <2> SUFFICES ASSUME NEW i \in 1 .. n, tried[i].state # "failed"
                 PROVE  tried[i].state = "open" /\ Family(tried[i].ip) # Family(c.ip)
      OBVIOUS
    <2>1. tried[i].state \in States
      BY <1>1, <1>n, AttemptsAre DEF Traced, Attempt
    <2>2. tried[i].state # "connected"
      BY <1>n DEF ConnectStart, In
    <2>3. tried[i].state = "open"
      BY <2>1, <2>2 DEF States
    <2> QED
      BY <1>2, <1>n, <2>3 DEF In
  <1>6. Raced(r.attempts)
    <2> SUFFICES ASSUME NEW i \in 1 .. n + 1, NEW j \in 1 .. n + 1, i # j,
                        r.attempts[i].state # "failed", r.attempts[j].state # "failed"
                 PROVE  /\ Family(r.attempts[i].ip) # Family(r.attempts[j].ip)
                        /\ ~(r.attempts[i].state = "connected" /\ r.attempts[j].state = "connected")
      BY <1>n DEF Raced
    <2>1. CASE i \in 1 .. n /\ j \in 1 .. n
      BY <1>1, <1>n, <2>1 DEF Told, Raced
    <2>2. CASE i \in 1 .. n /\ j = n + 1
      BY <1>3, <1>5, <1>n, <2>2
    <2>3. CASE i = n + 1 /\ j \in 1 .. n
      BY <1>3, <1>5, <1>n, <2>3
    <2> QED
      BY <1>n, <2>1, <2>2, <2>3
  <1>7. Marked(r)
    <2>1. {i \in DOMAIN r.attempts : r.attempts[i].selected} = {i \in DOMAIN tried : tried[i].selected}
      BY <1>3, <1>n
    <2>2. \A i \in DOMAIN tried : r.attempts[i] = tried[i]
      BY <1>n
    <2> QED
      BY <1>1, <1>4, <2>1, <2>2 DEF Told, Marked
  <1>8. phase # "end" /\ OnlyDials /\ UNCHANGED <<phase, idle>>
    BY DEF ConnectStart
  <1> QED
    BY <1>4, <1>6, <1>7, <1>8, AttemptsKeepLInv

\* An attempt ends: it fails, or is the first one that is connected.
LEMMA AttemptEndsKeepsLInv ==
  ASSUME JInv, LInv, NEW h \in DOMAIN hops, NEW i \in In(h, "open"),
         NEW state \in {"failed", "connected"},
         state = "connected" => In(h, "connected") = {}, phase # "end",
         hops' = [hops EXCEPT ![h].attempts[i].state = state], OnlyDials, UNCHANGED <<phase, idle>>
  PROVE  LInv'
  <1>1. Traced(hops[h]) /\ Told(hops[h], paths)
    BY ToldAre DEF JInv, Sequenced
  <1>2. i \in DOMAIN hops[h].attempts /\ hops[h].attempts[i].state = "open"
    BY DEF In
  <1> DEFINE tried == hops[h].attempts
             a == [tried[i] EXCEPT !.state = state]
             r == [hops[h] EXCEPT !.attempts = [tried EXCEPT ![i] = a]]
  <1>3. a.ip = tried[i].ip /\ a.selected = tried[i].selected /\ a.state = state
    <2>1. tried[i] \in Attempt
      BY <1>1, <1>2, AttemptsAre DEF Traced
    <2> QED
      BY <2>1 DEF Attempt
  <1>4. hops' = [hops EXCEPT ![h] = r]
    OBVIOUS
  <1> HIDE DEF a
  <1>5. /\ r.attempts = [tried EXCEPT ![i] = a]
        /\ DOMAIN r = DOMAIN hops[h] /\ r.url = hops[h].url /\ r.route = hops[h].route
        /\ r.path = hops[h].path /\ r.remote = hops[h].remote /\ r.reused = hops[h].reused
    BY <1>1 DEF Told
  <1> HIDE DEF r
  <1>6. /\ DOMAIN r.attempts = DOMAIN tried /\ r.attempts[i] = a
        /\ \A j \in DOMAIN tried : j # i => r.attempts[j] = tried[j]
        /\ \A j \in DOMAIN tried : /\ r.attempts[j].ip = tried[j].ip
                                   /\ r.attempts[j].selected = tried[j].selected
    BY <1>2, <1>3, <1>5
  <1>7. Raced(r.attempts)
    <2> SUFFICES ASSUME NEW j \in DOMAIN tried, NEW k \in DOMAIN tried, j # k,
                        r.attempts[j].state # "failed", r.attempts[k].state # "failed"
                 PROVE  /\ Family(r.attempts[j].ip) # Family(r.attempts[k].ip)
                        /\ ~(r.attempts[j].state = "connected" /\ r.attempts[k].state = "connected")
      BY <1>6 DEF Raced
    <2>1. tried[j].state # "failed" /\ tried[k].state # "failed"
      BY <1>2, <1>6
    <2>2. Family(tried[j].ip) # Family(tried[k].ip)
      BY <1>1, <2>1 DEF Told, Raced
    <2>3. ~(r.attempts[j].state = "connected" /\ r.attempts[k].state = "connected")
      BY <1>1, <1>3, <1>6, <2>1 DEF Told, Raced, In
    <2> QED
      BY <1>6, <2>2, <2>3
  <1>8. Marked(r)
    <2>1. {j \in DOMAIN r.attempts : r.attempts[j].selected} = {j \in DOMAIN tried : tried[j].selected}
      BY <1>6
    <2>2. \A j \in DOMAIN tried : tried[j].state = "connected" => r.attempts[j] = tried[j]
      BY <1>2, <1>6
    <2> QED
      BY <1>1, <1>5, <2>1, <2>2 DEF Told, Marked
  <1> QED
    BY <1>4, <1>5, <1>7, <1>8, AttemptsKeepLInv

LEMMA DialEndsKeepsLInv ==
  ASSUME JInv, LInv, NEW h \in DOMAIN hops, NEW dial, phase # "end",
         hops' = [hops EXCEPT ![h] = [hops[h] EXCEPT !.dial = dial]],
         OnlyDials, UNCHANGED phase, \A c \in idle' : Kept(c)
  PROVE  LInv'
  <1> DEFINE r == [hops[h] EXCEPT !.dial = dial]
  <1>1. Told(hops[h], paths)
    BY ToldAre
  <1>2. /\ DOMAIN r = DOMAIN hops[h] /\ r.url = hops[h].url /\ r.route = hops[h].route
        /\ r.path = hops[h].path /\ r.attempts = hops[h].attempts
        /\ r.remote = hops[h].remote /\ r.reused = hops[h].reused
    BY <1>1 DEF Told
  <1>3. hops' = [hops EXCEPT ![h] = r]
    OBVIOUS
  <1> HIDE DEF r
  <1> QED
    BY <1>2, <1>3, MarksKeepLInv DEF OnlyDials

LEMMA MaxOfOne == \A x \in Nat : Max({x}) = x
  BY DEF Max

\* selectConnectAttempt finds the attempt that is connected: no other attempt at its
\* address has not failed.
LEMMA SelectsTheConnected ==
  ASSUME NEW s \in Seq(Attempt), Raced(s), NEW i \in DOMAIN s, s[i].state = "connected"
  PROVE  SelectAttempt(s, s[i].ip) = [s EXCEPT ![i] = [s[i] EXCEPT !.selected = TRUE]]
  <1>1. {j \in DOMAIN s : s[j].ip = s[i].ip /\ s[j].state # "failed"} = {i}
    BY DEF Raced
  <1>2. i \in Nat
    OBVIOUS
  <1> QED
    BY <1>1, <1>2, MaxOfOne DEF SelectAttempt

LEMMA KeyTells ==
  ASSUME NEW h, h.route \in {"direct", "proxy"}
  PROVE  (ConnKey(h)[1] = "proxy") <=> (h.route = "proxy")
  <1>1. CASE h.route = "direct"
    <2>1. ConnKey(h) = <<"direct", Origin(h.url)>>
      BY <1>1 DEF ConnKey
    <2> QED
      BY <1>1, <2>1
  <1>2. CASE h.route = "proxy" /\ h.url.scheme = "https"
    <2>1. ConnKey(h) = <<"proxy", Origin(h.url)>>
      BY <1>2 DEF ConnKey
    <2> QED
      BY <1>2, <2>1
  <1>3. CASE h.route = "proxy" /\ h.url.scheme # "https"
    <2>1. ConnKey(h) = <<"proxy", "http">>
      BY <1>3 DEF ConnKey
    <2> QED
      BY <1>3, <2>1
  <1> QED
    BY <1>1, <1>2, <1>3

LEMMA DialDoneKeepsLInv ==
  ASSUME JInv, KInv, LInv, NEW h \in DOMAIN hops, DialDone(h) PROVE LInv'
  <1>1. Traced(hops[h]) /\ Told(hops[h], paths) /\ Routed(hops[h])
    BY ToldAre DEF JInv, Sequenced, KInv
  <1>2. PICK i \in In(h, "connected") :
          LET remote == hops[h].attempts[i].ip IN
          IF h = Current /\ phase = "connect"
          THEN /\ hops' = [hops EXCEPT ![h] = [hops[h] EXCEPT !.dial = "done", !.remote = remote,
                                !.reused = FALSE,
                                !.attempts = SelectAttempt(hops[h].attempts, remote)]]
               /\ phase' = "wait" /\ UNCHANGED idle
          ELSE /\ hops' = [hops EXCEPT ![h] = [hops[h] EXCEPT !.dial = "done"]]
               /\ idle' = idle \cup {[IdleConn(hops[h]) EXCEPT !.remote = remote, !.back = TRUE]}
               /\ UNCHANGED phase
    BY DEF DialDone
  <1> DEFINE tried == hops[h].attempts
             remote == tried[i].ip
  <1>3. i \in DOMAIN tried /\ tried[i].state = "connected" /\ tried \in Seq(Attempt)
    BY <1>1, <1>2 DEF In, Traced
  <1>4. remote # NoIP /\ ((remote = ProxyIP) <=> (hops[h].route = "proxy"))
    BY <1>1, <1>3, AttemptsAre, AddressesAre DEF Routed
  <1>5. phase # "end" /\ OnlyDials
    BY DEF DialDone
  <1>6. \A c \in idle : Kept(c)
    BY DEF LInv
  <1>7. CASE h = Current /\ phase = "connect"
    <2> DEFINE a == [tried[i] EXCEPT !.selected = TRUE]
               r == [hops[h] EXCEPT !.dial = "done", !.remote = remote, !.reused = FALSE,
                                    !.attempts = [tried EXCEPT ![i] = a]]
    <2>1. SelectAttempt(tried, remote) = [tried EXCEPT ![i] = a]
      BY <1>1, <1>3, SelectsTheConnected DEF Told
    <2>2. a.ip = tried[i].ip /\ a.selected /\ a.state = "connected"
      <3>1. tried[i] \in Attempt
        BY <1>3, AttemptsAre
      <3> QED
        BY <1>3, <3>1 DEF Attempt
    <2>3. hops' = [hops EXCEPT ![h] = r] /\ phase' = "wait" /\ UNCHANGED idle
      BY <1>2, <1>7, <2>1
    <2> HIDE DEF a, remote
    <2>4. /\ r.attempts = [tried EXCEPT ![i] = a] /\ r.remote = remote /\ ~r.reused
          /\ DOMAIN r = DOMAIN hops[h] /\ r.url = hops[h].url /\ r.route = hops[h].route
          /\ r.path = hops[h].path
      BY <1>1 DEF Told
    <2> HIDE DEF r
    <2>5. /\ DOMAIN r.attempts = DOMAIN tried /\ r.attempts[i] = a
          /\ \A j \in DOMAIN tried : j # i => r.attempts[j] = tried[j]
      BY <1>3, <2>4
    <2>6. Raced(r.attempts)
      <3>1. \A j \in DOMAIN tried : /\ r.attempts[j].ip = tried[j].ip
                                   /\ r.attempts[j].state = tried[j].state
        BY <1>3, <2>2, <2>5
      <3> QED
        BY <1>1, <2>5, <3>1 DEF Told, Raced
    <2>7. {j \in DOMAIN tried : tried[j].selected} = {}
      BY <1>1, <1>7 DEF Told, Marked, LInv
    <2>8. {j \in DOMAIN r.attempts : r.attempts[j].selected} = {i}
      BY <1>3, <2>2, <2>5, <2>7
    <2>9. Marked(r)
      BY <1>4, <2>2, <2>4, <2>5, <2>8 DEF Marked, remote
    <2>10. Told(r, paths)
      BY <1>1, <1>4, <2>4, <2>6, <2>9 DEF Told
    <2> QED
      BY <1>5, <1>6, <1>7, <2>3, <2>4, <2>10, OneHopKeepsLInv DEF OnlyDials
  <1>8. CASE ~(h = Current /\ phase = "connect")
    <2>1. PICK c : c = [IdleConn(hops[h]) EXCEPT !.remote = remote, !.back = TRUE]
      OBVIOUS
    <2> HIDE DEF remote
    <2>2. "key" \in DOMAIN c /\ c.remote = remote /\ c.key = ConnKey(hops[h])
      BY <2>1 DEF IdleConn
    <2>3. (c.key[1] = "proxy") <=> (hops[h].route = "proxy")
      BY <1>1, <2>2, KeyTells DEF Traced
    <2>4. Kept(c)
      BY <1>4, <2>2, <2>3 DEF Kept
    <2>5. idle' = idle \cup {c} /\ UNCHANGED phase
          /\ hops' = [hops EXCEPT ![h] = [hops[h] EXCEPT !.dial = "done"]]
      BY <1>2, <1>8, <2>1 DEF remote
    <2> QED
      BY <1>5, <1>6, <2>4, <2>5, DialEndsKeepsLInv
  <1> QED
    BY <1>7, <1>8

-----------------------------------------------------------------------------

LEMMA PrepareKeepsLInv == JInv /\ LInv /\ Prepare => LInv'
  <1> SUFFICES ASSUME JInv, LInv, Prepare PROVE LInv'
    OBVIOUS
  <1>1. /\ phase = "enter" /\ phase' = "send"
        /\ UNCHANGED <<setup, url, idle, paths, hops, redirects>>
        /\ history' = {RouteOf(Selected(url))}
    BY DEF Prepare, trace
  <1>2. hops = <<>> /\ redirects = <<>>
    BY <1>1 DEF JInv, InStep
  <1>3. Linked'
    BY <1>1, <1>2 DEF Linked, Busy
  <1>4. Taken' = {}
    BY <1>1, <1>2 DEF Taken
  <1>5. RoutesAreRecorded'
    <2>1. Selected(url)' = Selected(url)
      BY <1>1 DEF Selected
    <2> QED
      BY <1>1, <1>4, <2>1 DEF RoutesAreRecorded, Busy
  <1>6. \A h \in DOMAIN hops' : Told(hops[h], paths)'
    BY <1>1, <1>2
  <1>7. (phase = "connect" => hops[Current].remote = NoIP \/ hops[Current].reused)'
    BY <1>1
  <1>8. (\A c \in idle : Kept(c))'
    BY <1>1 DEF LInv
  <1>9. (paths \in Seq({paths[p] : p \in DOMAIN paths}))'
    BY <1>1 DEF LInv
  <1>10. ReportIsOneStory'
    BY <1>1 DEF ReportIsOneStory
  <1> QED
    BY <1>3, <1>5, <1>6, <1>7, <1>8, <1>9, <1>10 DEF LInv

LEMMA AppendIs ==
  ASSUME NEW S, NEW s \in Seq(S), NEW e \in S
  PROVE  /\ Len(s) \in Nat /\ DOMAIN s = 1 .. Len(s)
         /\ DOMAIN Append(s, e) = 1 .. Len(s) + 1 /\ Len(Append(s, e)) = Len(s) + 1
         /\ Append(s, e)[Len(s) + 1] = e /\ \A i \in 1 .. Len(s) : Append(s, e)[i] = s[i]
         /\ Append(s, e) \in [1 .. Len(s) + 1 -> S]
  <1>1. PICK t : t = Append(s, e)
    OBVIOUS
  <1>2. /\ Len(s) \in Nat /\ DOMAIN s = 1 .. Len(s)
        /\ t \in Seq(S) /\ Len(t) = Len(s) + 1 /\ t[Len(s) + 1] = e
    BY <1>1
  <1>3. \A i \in 1 .. Len(s) : t[i] = s[i]
    BY <1>1
  <1>4. DOMAIN t = 1 .. Len(s) + 1 /\ t \in [1 .. Len(s) + 1 -> S]
    BY <1>2
  <1> QED
    BY <1>1, <1>2, <1>3, <1>4

LEMMA AppendedPath ==
  ASSUME NEW S, NEW s \in Seq(S), NEW e, NEW t, t = Append(s, e)
  PROVE  /\ t \in Seq({t[i] : i \in DOMAIN t})
         /\ Len(t) = Len(s) + 1 /\ Len(t) \in DOMAIN t /\ t[Len(t)] = e
         /\ DOMAIN t = 1 .. Len(t) /\ \A i \in DOMAIN s : i \in DOMAIN t /\ t[i] = s[i]
  <1>1. /\ Len(s) \in Nat /\ DOMAIN s = 1 .. Len(s)
        /\ DOMAIN t = 1 .. Len(s) + 1 /\ Len(t) = Len(s) + 1
        /\ t[Len(s) + 1] = e /\ \A i \in 1 .. Len(s) : t[i] = s[i]
        /\ t \in [1 .. Len(s) + 1 -> S \cup {e}]
    <2>1. Len(s) \in Nat /\ s \in [1 .. Len(s) -> S]
      OBVIOUS
    <2> DEFINE T == S \cup {e}
    <2>2. s \in [1 .. Len(s) -> T] /\ e \in T
      BY <2>1
    <2> HIDE DEF T
    <2>3. s \in Seq(T)
      BY <2>1, <2>2, FunctionIsSequence
    <2> QED
      BY <2>2, <2>3, AppendIs DEF T
  <1>2. t = [i \in 1 .. Len(s) + 1 |-> t[i]]
    BY <1>1
  <1>3. t \in [1 .. Len(s) + 1 -> {t[i] : i \in DOMAIN t}]
    BY <1>1, <1>2
  <1> QED
    BY <1>1, <1>3, FunctionIsSequence

LEMMA BeginKeepsLInv == JInv /\ LInv /\ Begin => LInv'
  <1> SUFFICES ASSUME JInv, LInv, Begin PROVE LInv'
    OBVIOUS
  <1>0. PICK path : path = [kind |-> PathKind(url, Selected(url)), selection |-> Selected(url)]
    OBVIOUS
  <1>1. /\ phase = "send" /\ phase' = "connect"
        /\ UNCHANGED <<setup, url, history, idle, redirects>>
        /\ paths' = IF paths # <<>> /\ Last(paths) = path THEN paths ELSE Append(paths, path)
    BY <1>0 DEF Begin, request
  <1>2. PICK hop : /\ hops' = Append(hops, hop) /\ hop.url = url /\ hop.path = Len(paths')
                   /\ hop.route = RouteOf(Selected(url)) /\ hop.attempts = <<>>
                   /\ hop.remote = NoIP /\ hop.reused = FALSE
                   /\ {"url", "route", "path", "attempts", "remote", "reused"} \subseteq DOMAIN hop
    BY DEF Begin
  <1>n. PICK n : n = Len(hops)
    OBVIOUS
  <1>3. n \in Nat /\ DOMAIN hops = 1 .. n /\ Len(redirects) = n /\ DOMAIN redirects = 1 .. n
    BY <1>1, <1>n, Lengths DEF JInv, InStep
  <1>4. /\ DOMAIN hops' = 1 .. n + 1 /\ Len(hops') = n + 1 /\ hops'[n + 1] = hop
        /\ \A h \in 1 .. n : hops'[h] = hops[h]
    BY <1>2, <1>3, <1>n DEF JInv, Sequenced
  <1>5. /\ paths' \in Seq({paths'[p] : p \in DOMAIN paths'})
        /\ Len(paths') \in DOMAIN paths' /\ paths'[Len(paths')] = path
        /\ \A p \in DOMAIN paths : p \in DOMAIN paths' /\ paths'[p] = paths[p]
    <2> DEFINE T == {paths[p] : p \in DOMAIN paths}
    <2>1. paths \in Seq(T)
      BY DEF LInv
    <2> HIDE DEF T
    <2>2. CASE paths # <<>> /\ Last(paths) = path
      <3>1. Len(paths) \in DOMAIN paths /\ paths[Len(paths)] = path
        BY <2>1, <2>2 DEF Last
      <3>2. paths' = paths
        BY <1>1, <2>2
      <3> QED
        BY <2>1, <3>1, <3>2 DEF T
    <2>3. CASE ~(paths # <<>> /\ Last(paths) = path)
      <3>1. paths' = Append(paths, path)
        BY <1>1, <2>3
      <3> QED
        BY <2>1, <3>1, AppendedPath
    <2> QED
      BY <2>2, <2>3
  <1>6. (path.kind = "direct") <=> (RouteOf(Selected(url)) = "direct")
    <2>1. RouteOf(Selected(url)) \in {"direct", "proxy"}
      BY <1>1 DEF JInv, InStep
    <2> QED
      BY <1>0, <2>1 DEF PathKind
  <1>7. Raced(hop.attempts) /\ Marked(hop)
    BY <1>2 DEF Raced, Marked
  <1>8. Told(hop, paths')
    BY <1>2, <1>5, <1>6, <1>7 DEF Told
  <1>9. \A h \in 1 .. n : Told(hops[h], paths')
    <2> SUFFICES ASSUME NEW h \in 1 .. n PROVE Told(hops[h], paths')
      OBVIOUS
    <2>1. Told(hops[h], paths)
      BY <1>3, ToldAre
    <2> QED
      BY <1>5, <2>1 DEF Told
  <1>10. (\A h \in DOMAIN hops : Told(hops[h], paths))'
    <2>1. \A h \in 1 .. n + 1 : Told(hops'[h], paths')
      BY <1>3, <1>4, <1>8, <1>9
    <2> QED
      BY <1>4, <2>1
  <1>11. Linked'
    <2>1. Linked
      BY DEF LInv
    <2>2. \A r \in 1 .. n : /\ DOMAIN redirects[r] = Fields /\ redirects[r].from = hops[r].url
                            /\ redirects[r].decision = "followed"
                            /\ redirects[r].to = IF r + 1 \in 1 .. n THEN hops[r + 1].url ELSE url
      BY <1>1, <1>3, <2>1 DEF Linked
    <2>3. \A r \in 1 .. n : redirects[r].to = hops'[r + 1].url /\ r + 1 \in 1 .. n + 1
      <3> SUFFICES ASSUME NEW r \in 1 .. n
                   PROVE  redirects[r].to = hops'[r + 1].url /\ r + 1 \in 1 .. n + 1
        OBVIOUS
      <3>1. CASE r = n
        BY <1>2, <1>3, <1>4, <2>2, <3>1
      <3>2. CASE r # n
        BY <1>3, <1>4, <2>2, <3>2
      <3> QED
        BY <3>1, <3>2
    <2>4. Len(hops') = Len(redirects) + 1 /\ url = hops'[Len(hops')].url
      BY <1>2, <1>3, <1>4
    <2> QED
      BY <1>1, <1>3, <1>4, <2>2, <2>3, <2>4 DEF Linked
  <1>12. RoutesAreRecorded'
    <2>1. history = Taken \cup {RouteOf(Selected(url))}
      BY <1>1 DEF LInv, RoutesAreRecorded
    <2>2. Taken = {hops[h].route : h \in 1 .. n}
      BY <1>3 DEF Taken
    <2>3. Taken' = {hops'[h].route : h \in 1 .. n + 1}
      BY <1>4 DEF Taken
    <2>4. Taken' = Taken \cup {hop.route}
      BY <1>3, <1>4, <2>2, <2>3
    <2> QED
      BY <1>1, <1>2, <2>1, <2>4 DEF RoutesAreRecorded
  <1>13. Current' = n + 1
    BY <1>4 DEF Current
  <1>14. (phase = "connect" => hops[Current].remote = NoIP \/ hops[Current].reused)'
    BY <1>2, <1>4, <1>13
  <1>15. (\A c \in idle : Kept(c))'
    BY <1>1 DEF LInv
  <1>16. ReportIsOneStory'
    BY <1>1 DEF ReportIsOneStory
  <1> QED
    BY <1>5, <1>10, <1>11, <1>12, <1>14, <1>15, <1>16 DEF LInv
-----------------------------------------------------------------------------
(* The redirect, and the end of the check.                                 *)

\* The check ends: the hops stay, and the redirects are those that are reported.
LEMMA EndingKeepsLInv ==
  ASSUME JInv, KInv, LInv, NEW verdict, NEW code, NEW status,
         Ending(verdict, code, status, redirects'), UNCHANGED <<setup, request, idle, trace>>
  PROVE  LInv'
  <1>0. phase' = "end" /\ UNCHANGED <<idle, paths, hops>>
    BY DEF Ending, trace
  <1>1. ReportIsOneStory'
    BY ReportTells
  <1>2. Linked'
    BY <1>0 DEF Ending, Linked, Busy
  <1>3. RoutesAreRecorded'
    BY <1>0 DEF RoutesAreRecorded, Busy
  <1>4. (\A h \in DOMAIN hops : Told(hops[h], paths))'
    BY <1>0 DEF LInv
  <1>5. (phase = "connect" => hops[Current].remote = NoIP \/ hops[Current].reused)'
    BY <1>0
  <1>6. (paths \in Seq({paths[p] : p \in DOMAIN paths}))'
    BY <1>0 DEF LInv
  <1>7. (\A c \in idle : Kept(c))'
    BY <1>0 DEF LInv
  <1> QED
    BY <1>1, <1>2, <1>3, <1>4, <1>5, <1>6, <1>7 DEF LInv

\* No redirect is judged any more.
LEMMA ConcludingEnds ==
  ASSUME JInv, KInv, LInv, NEW verdict, NEW code, NEW status, phase \in Busy, phase' = "end",
         Report(verdict, code, status, redirects),
         verdict \in {"passed", "warning"} => status = hops[Current].status,
         UNCHANGED <<setup, request, idle, trace, redirects>>
  PROVE  LInv'
  <1>1. /\ Len(redirects) \in Nat /\ DOMAIN redirects = 1 .. Len(redirects)
        /\ Len(hops) \in Nat /\ DOMAIN hops = 1 .. Len(hops)
        /\ redirects \in Seq({redirects[i] : i \in DOMAIN redirects})
    BY Lengths DEF JInv, Sequenced
  <1>2. /\ Len(hops) = Len(redirects) + 1
        /\ \A r \in DOMAIN redirects : DOMAIN redirects[r] = Fields /\ redirects[r].from = hops[r].url
        /\ \A r \in DOMAIN redirects :
             /\ redirects[r].decision = "followed"
             /\ redirects[r].to = IF r + 1 \in DOMAIN hops THEN hops[r + 1].url ELSE url
    BY DEF LInv, Linked, Busy
  <1>3. \A r \in DOMAIN redirects : r < Len(hops) =>
          redirects[r].decision = "followed" /\ redirects[r].to = hops[r + 1].url
    BY <1>1, <1>2
  <1>4. Len(redirects) <= Len(hops) /\ Len(hops) <= Len(redirects) + 1 /\ Len(redirects) # Len(hops)
    <2>1. PICK n, l : n = Len(hops) /\ l = Len(redirects)
      OBVIOUS
    <2>2. l \in Nat /\ n = l + 1
      BY <1>1, <1>2, <2>1
    <2>3. l <= n /\ n <= l + 1 /\ l # n
      BY <2>2
    <2> QED
      BY <2>1, <2>3
  <1>5. verdict \in {"passed", "warning"} => status = hops[Len(hops)].status
    BY DEF Current
  <1>6. Ending(verdict, code, status, redirects)
    BY <1>1, <1>2, <1>3, <1>4, <1>5 DEF Ending
  <1>7. Ending(verdict, code, status, redirects')
    BY <1>6
  <1> QED
    BY <1>7, EndingKeepsLInv

LEMMA FailsKeepsLInv ==
  ASSUME JInv, KInv, LInv, NEW code, Fails(code), phase \in Busy PROVE LInv'
  <1>1. PICK verdict : verdict = IF code = "HTTP_CANCELLED" THEN "cancelled" ELSE "failed"
    OBVIOUS
  <1>2. verdict \notin {"passed", "warning"}
    BY <1>1
  <1>3. Report(verdict, code, 0, redirects)
    BY <1>1 DEF Fails
  <1> QED
    BY <1>2, <1>3, ConcludingEnds DEF Fails

LEMMA ConcludeKeepsLInv ==
  ASSUME JInv, KInv, LInv, NEW slow \in BOOLEAN, NEW torn \in BOOLEAN, Conclude(slow, torn)
  PROVE  LInv'
  <1>1. PICK status : status = hops[Current].status
    OBVIOUS
  <1>2. PICK conclusion : conclusion = Conclusion(status, slow, torn)
    OBVIOUS
  <1>3. Report(conclusion[1], conclusion[2], status, redirects)
    BY <1>1, <1>2 DEF Conclude
  <1> QED
    BY <1>1, <1>3, ConcludingEnds DEF Conclude, Busy

\* A followed redirect leads to the request that is sent next.
LEMMA FollowKeepsLInv ==
  ASSUME JInv, LInv, NEW n, n = Len(hops), n \in Nat, DOMAIN hops = 1 .. n, n \in DOMAIN hops,
         phase = "redirect", NEW next, NEW ips, NEW keep, Follow(hops[n], next, ips, keep),
         Len(redirects') = n, DOMAIN redirects' = 1 .. n, DOMAIN redirects = 1 .. n - 1,
         \A r \in 1 .. n - 1 : redirects'[r] = redirects[r],
         DOMAIN redirects'[n] = Fields, redirects'[n].from = hops[n].url, redirects'[n].to = next,
         redirects'[n].decision = "followed", UNCHANGED <<setup, trace>>
  PROVE  LInv'
  <1>0. /\ phase' = "send" /\ url' = next /\ history' = history \cup {RouteOf(Selected(next))}
        /\ UNCHANGED <<setup, paths, hops>>
    BY DEF Follow, trace
  <1>1. Linked'
    <2>1. \A r \in 1 .. n - 1 :
            /\ DOMAIN redirects[r] = Fields /\ redirects[r].from = hops[r].url
            /\ redirects[r].decision = "followed" /\ redirects[r].to = hops[r + 1].url
      <3>1. \A r \in 1 .. n - 1 : r + 1 \in DOMAIN hops
        OBVIOUS
      <3> QED
        BY <3>1 DEF LInv, Linked
    <2>2. \A r \in 1 .. n : r # n => r \in 1 .. n - 1 /\ r + 1 \in 1 .. n
      OBVIOUS
    <2>3. n + 1 \notin 1 .. n
      OBVIOUS
    <2>4. ASSUME NEW r \in 1 .. n
          PROVE  /\ DOMAIN redirects'[r] = Fields /\ redirects'[r].from = hops[r].url
                 /\ redirects'[r].decision = "followed"
                 /\ redirects'[r].to = IF r + 1 \in 1 .. n THEN hops[r + 1].url ELSE next
      <3>1. CASE r = n
        BY <2>3, <3>1
      <3>2. CASE r # n
        BY <2>1, <2>2, <3>2
      <3> QED
        BY <3>1, <3>2
    <2> QED
      BY <1>0, <2>4 DEF Linked, Busy
  <1>2. RoutesAreRecorded'
    <2>1. history = Taken
      BY DEF LInv, RoutesAreRecorded, Busy
    <2>2. Taken' = Taken /\ Selected(url)' = Selected(next)
      BY <1>0 DEF Taken, Selected
    <2> QED
      BY <1>0, <2>1, <2>2 DEF RoutesAreRecorded, Busy
  <1>3. Kept(IdleConn(hops[n]))
    <2>1. Told(hops[n], paths)
      BY ToldAre
    <2>2. hops[n].remote # NoIP /\ hops[n].route \in {"direct", "proxy"}
      BY DEF JInv, InStep, Sequenced, Traced, Current
    <2>3. (ConnKey(hops[n])[1] = "proxy") <=> (hops[n].route = "proxy")
      BY <2>2, KeyTells
    <2> QED
      BY <2>1, <2>2, <2>3 DEF Told, Kept, IdleConn
  <1>4. (\A c \in idle : Kept(c))'
    <2>1. idle' \subseteq idle \cup {IdleConn(hops[n])}
      BY DEF Follow
    <2>2. \A c \in idle : Kept(c)
      BY DEF LInv
    <2> QED
      BY <1>3, <2>1, <2>2 DEF Kept
  <1>5. (\A h \in DOMAIN hops : Told(hops[h], paths))'
    BY <1>0 DEF LInv
  <1>6. (phase = "connect" => hops[Current].remote = NoIP \/ hops[Current].reused)'
    BY <1>0
  <1>7. (paths \in Seq({paths[p] : p \in DOMAIN paths}))'
    BY <1>0 DEF LInv
  <1>8. ReportIsOneStory'
    BY <1>0 DEF ReportIsOneStory
  <1> QED
    BY <1>1, <1>2, <1>4, <1>5, <1>6, <1>7, <1>8 DEF LInv

\* A blocked redirect is the last one that is reported.
LEMMA BlockKeepsLInv ==
  ASSUME JInv, KInv, LInv, NEW n, n = Len(hops), n \in Nat, DOMAIN hops = 1 .. n,
         n \in DOMAIN hops, phase = "redirect", NEW decision, decision # "followed",
         Block(decision), redirects' \in Seq({redirects'[r] : r \in DOMAIN redirects'}),
         Len(redirects') = n, DOMAIN redirects' = 1 .. n, DOMAIN redirects = 1 .. n - 1,
         \A r \in 1 .. n - 1 : redirects'[r] = redirects[r],
         DOMAIN redirects'[n] = Fields, redirects'[n].from = hops[n].url,
         redirects'[n].decision = decision, UNCHANGED <<setup, trace>>
  PROVE  LInv'
  <1>1. \A r \in 1 .. n - 1 :
          /\ DOMAIN redirects[r] = Fields /\ redirects[r].from = hops[r].url
          /\ redirects[r].decision = "followed" /\ redirects[r].to = hops[r + 1].url
    <2>1. \A r \in 1 .. n - 1 : r + 1 \in DOMAIN hops
      OBVIOUS
    <2> QED
      BY <2>1 DEF LInv, Linked
  <1>2. \A r \in 1 .. n : r # n => r \in 1 .. n - 1
    OBVIOUS
  <1>3. \A r \in 1 .. n : DOMAIN redirects'[r] = Fields /\ redirects'[r].from = hops[r].url
    BY <1>1, <1>2
  <1>4. \A r \in 1 .. n : r < n =>
          redirects'[r].decision = "followed" /\ redirects'[r].to = hops[r + 1].url
    BY <1>1, <1>2
  <1>5. n <= n /\ n <= n + 1
    OBVIOUS
  <1>6. Ending("failed", RedirectCode(decision), 0, redirects')
    BY <1>3, <1>4, <1>5 DEF Ending, Block, Busy
  <1> QED
    BY <1>6, EndingKeepsLInv DEF Block

LEMMA JudgeKeepsLInv ==
  ASSUME JInv, KInv, LInv, NEW keep \in BOOLEAN, Judge(keep) PROVE LInv'
  <1>n. PICK n : n = Len(hops)
    OBVIOUS
  <1>1. phase = "redirect" /\ UNCHANGED <<setup, trace>> /\ Current = n
    BY <1>n DEF Judge, Current
  <1>2. /\ n \in Nat /\ DOMAIN hops = 1 .. n /\ n \in DOMAIN hops
        /\ DOMAIN redirects = 1 .. n - 1 /\ n = Len(redirects) + 1
    BY <1>1, <1>n, Lengths DEF JInv, InStep, Current
  <1>3. PICK next : next = setup.web[hops[n].url].to
    OBVIOUS
  <1>4. PICK ips, before, decision :
          /\ decision = Decision(hops[n], next, PreviousScope(hops[n], before), Scope(ips))
          /\ redirects' = Append(redirects, [from |-> hops[n].url, to |-> next,
                                decision |-> decision, judged |-> ips, fromRef |-> 0, toRef |-> 0])
          /\ IF decision = "followed" THEN Follow(hops[n], next, ips, keep) ELSE Block(decision)
    BY <1>1, <1>3 DEF Judge
  <1>5. PICK new : /\ redirects' = Append(redirects, new) /\ DOMAIN new = Fields
                   /\ new.from = hops[n].url /\ new.to = next /\ new.decision = decision
    BY <1>4 DEF Fields
  <1>6. /\ redirects' \in Seq({redirects'[r] : r \in DOMAIN redirects'})
        /\ Len(redirects') = n /\ DOMAIN redirects' = 1 .. n /\ redirects'[n] = new
        /\ \A r \in 1 .. n - 1 : redirects'[r] = redirects[r]
    <2> DEFINE T == {redirects[r] : r \in DOMAIN redirects}
    <2>1. redirects \in Seq(T)
      BY DEF JInv, Sequenced
    <2> HIDE DEF T
    <2>2. PICK t : t = redirects'
      OBVIOUS
    <2>3. /\ t \in Seq({t[i] : i \in DOMAIN t})
          /\ Len(t) = n /\ DOMAIN t = 1 .. n /\ t[n] = new
          /\ \A r \in DOMAIN redirects : t[r] = redirects[r]
      BY <1>2, <1>5, <2>1, <2>2, AppendedPath
    <2> QED
      BY <1>2, <2>2, <2>3
  <1>7. CASE decision = "followed"
    BY <1>1, <1>2, <1>4, <1>5, <1>6, <1>7, <1>n, FollowKeepsLInv
  <1>8. CASE decision # "followed"
    BY <1>1, <1>2, <1>4, <1>5, <1>6, <1>8, <1>n, BlockKeepsLInv
  <1> QED
    BY <1>7, <1>8

-----------------------------------------------------------------------------

LEMMA LInvInit == Init => LInv
  <1> SUFFICES ASSUME Init PROVE LInv
    OBVIOUS
  <1>1. phase = "environment" /\ paths = <<>> /\ hops = <<>> /\ redirects = <<>> /\ idle = {}
    BY DEF Init
  <1>2. DOMAIN paths = {} /\ DOMAIN hops = {} /\ DOMAIN redirects = {}
    BY <1>1
  <1>3. Linked /\ RoutesAreRecorded /\ ReportIsOneStory
    BY <1>1, <1>2 DEF Linked, RoutesAreRecorded, ReportIsOneStory, Busy
  <1>4. paths \in Seq({paths[p] : p \in DOMAIN paths})
    BY <1>1
  <1> QED
    BY <1>1, <1>2, <1>3, <1>4 DEF LInv

\* Nothing was requested.
LEMMA RefuseKeepsLInv == LInv /\ JInv /\ Refuse => LInv'
  <1> SUFFICES ASSUME LInv, JInv, Refuse PROVE LInv'
    OBVIOUS
  <1>1. /\ phase = "enter" /\ phase' = "end"
        /\ UNCHANGED <<idle, paths, hops, redirects>>
    BY DEF Refuse, trace
  <1>2. result'.hops = <<>>
    BY DEF Refuse, NoResult
  <1>3. DOMAIN hops = {} /\ DOMAIN redirects = {}
    <2>1. hops = <<>> /\ redirects = <<>>
      BY <1>1 DEF JInv, InStep
    <2> QED
      BY <2>1
  <1>4. Linked' /\ RoutesAreRecorded'
    BY <1>1, <1>3 DEF Linked, RoutesAreRecorded, Busy
  <1>5. ReportIsOneStory'
    BY <1>2 DEF ReportIsOneStory
  <1>6. (paths \in Seq({paths[p] : p \in DOMAIN paths}))'
    BY <1>1 DEF LInv
  <1>7. (\A h \in DOMAIN hops : Told(hops[h], paths))'
    BY <1>1, <1>3
  <1>8. (\A c \in idle : Kept(c))'
    BY <1>1 DEF LInv
  <1> QED
    BY <1>1, <1>4, <1>5, <1>6, <1>7, <1>8 DEF LInv

\* The connection that is handed over was dialled for the route of the hop.
LEMMA GotIdleConnKeepsLInv ==
  ASSUME JInv, LInv, NEW c \in idle, GotIdleConn(c) PROVE LInv'
  <1> DEFINE hop == hops[Current]
             r == [hop EXCEPT !.remote = c.remote, !.reused = TRUE]
  <1>1. Current \in DOMAIN hops
    BY Lengths DEF GotIdleConn, JInv, InStep, Current
  <1>2. Traced(hop) /\ Told(hop, paths) /\ (hop.remote = NoIP \/ hop.reused)
    BY <1>1, ToldAre DEF JInv, Sequenced, LInv, GotIdleConn
  <1>3. c.key = ConnKey(hop) /\ Kept(c) /\ c.remote # NoIP
    BY DEF GotIdleConn, IdleFor, LInv, JInv, InStep
  <1>4. (c.remote = ProxyIP) <=> (hop.route = "proxy")
    <2>1. hop.route \in {"direct", "proxy"}
      BY <1>2 DEF Traced
    <2> HIDE DEF hop
    <2> QED
      BY <1>3, <2>1, KeyTells DEF Kept
  <1>5. /\ hops' = [hops EXCEPT ![Current] = r] /\ phase = "connect" /\ phase' = "wait"
        /\ idle' \subseteq idle /\ UNCHANGED <<setup, request, redirects, paths>>
    BY DEF GotIdleConn
  <1> HIDE DEF hop
  <1>6. /\ DOMAIN r = DOMAIN hop /\ r.url = hop.url /\ r.route = hop.route /\ r.path = hop.path
        /\ r.attempts = hop.attempts /\ r.remote = c.remote /\ r.reused
    BY <1>2 DEF Told
  <1> HIDE DEF r
  <1>7. Marked(r)
    BY <1>2, <1>6 DEF Told, Marked
  <1>8. Told(r, paths)
    BY <1>2, <1>3, <1>4, <1>6, <1>7 DEF Told
  <1>9. \A k \in idle' : Kept(k)
    BY <1>5 DEF LInv
  <1> QED
    BY <1>1, <1>5, <1>6, <1>8, <1>9, OneHopKeepsLInv DEF hop

LEMMA CurrentIs ==
  ASSUME JInv, phase \in {"connect", "wait", "redirect"} PROVE Current \in DOMAIN hops
  <1>1. Len(hops) = Len(redirects) + 1
    BY DEF JInv, InStep
  <1> QED
    BY <1>1, Lengths DEF JInv, Current

\* A mark on the current hop.
LEMMA CurrentKeepsLInv ==
  ASSUME JInv, LInv, phase \in {"connect", "wait"}, NEW r,
         hops' = [hops EXCEPT ![Current] = r], DOMAIN r = DOMAIN hops[Current],
         r.url = hops[Current].url, r.route = hops[Current].route,
         r.path = hops[Current].path, r.attempts = hops[Current].attempts,
         r.remote = hops[Current].remote, r.reused = hops[Current].reused,
         UNCHANGED <<setup, request, idle, redirects, paths>>,
         phase' = phase \/ phase' \in {"redirect", "read"}
  PROVE  LInv'
  <1>1. Current \in DOMAIN hops
    BY CurrentIs
  <1>2. \A c \in idle' : Kept(c)
    BY DEF LInv
  <1> QED
    BY <1>1, <1>2, MarksKeepLInv

LEMMA QueueDialKeepsLInv == JInv /\ LInv /\ QueueDial => LInv'
  <1> SUFFICES ASSUME JInv, LInv, QueueDial PROVE LInv'
    OBVIOUS
  <1> DEFINE hop == hops[Current]
             r == [hop EXCEPT !.dial = "queued"]
  <1>1. Told(hop, paths)
    BY Lengths, ToldAre DEF QueueDial, JInv, InStep, Current
  <1>2. /\ hops' = [hops EXCEPT ![Current] = r]
        /\ phase = "connect" /\ UNCHANGED <<setup, phase, request, idle, redirects, paths>>
    BY DEF QueueDial
  <1> HIDE DEF hop
  <1>3. /\ DOMAIN r = DOMAIN hop /\ r.url = hop.url /\ r.route = hop.route /\ r.path = hop.path
        /\ r.attempts = hop.attempts /\ r.remote = hop.remote /\ r.reused = hop.reused
    BY <1>1 DEF Told
  <1> HIDE DEF r
  <1> QED
    BY <1>2, <1>3, CurrentKeepsLInv DEF hop

LEMMA RespondsKeepsLInv == JInv /\ LInv /\ Responds => LInv'
  <1> SUFFICES ASSUME JInv, LInv, Responds PROVE LInv'
    OBVIOUS
  <1> DEFINE hop == hops[Current]
  <1>0. PICK status : status = StatusOf(hop)
    OBVIOUS
  <1> DEFINE r == [hop EXCEPT !.status = status]
  <1>1. Told(hop, paths)
    BY Lengths, ToldAre DEF Responds, JInv, InStep, Current
  <1>2. /\ hops' = [hops EXCEPT ![Current] = r]
        /\ phase = "wait" /\ phase' \in {"redirect", "read"}
        /\ UNCHANGED <<setup, request, idle, redirects, paths>>
    BY <1>0 DEF Responds
  <1> HIDE DEF hop
  <1>3. /\ DOMAIN r = DOMAIN hop /\ r.url = hop.url /\ r.route = hop.route /\ r.path = hop.path
        /\ r.attempts = hop.attempts /\ r.remote = hop.remote /\ r.reused = hop.reused
    BY <1>1 DEF Told
  <1> HIDE DEF r
  <1> QED
    BY <1>2, <1>3, CurrentKeepsLInv DEF hop

LEMMA RoundTripKeepsLInv == JInv /\ KInv /\ LInv /\ RoundTrip => LInv'
  <1> SUFFICES ASSUME JInv, KInv, LInv, RoundTrip PROVE LInv'
    OBVIOUS
  <1>1. CASE EnvironmentChecked
    <2>1. /\ UNCHANGED <<setup, request, redirects, trace, idle>>
          /\ phase = "environment" /\ phase' = "enter"
      BY <1>1 DEF EnvironmentChecked
    <2>2. \A c \in idle' : Kept(c)
      BY <2>1 DEF LInv
    <2> QED
      BY <2>1, <2>2, ElsewhereKeepsLInv
  <1>2. CASE RequestStops \/ DialReported
    BY <1>2, FailsKeepsLInv DEF RequestStops, DialReported, Busy
  <1> QED
    BY <1>1, <1>2, RefuseKeepsLInv, PrepareKeepsLInv, BeginKeepsLInv, QueueDialKeepsLInv,
       GotIdleConnKeepsLInv, JudgeKeepsLInv, ConcludeKeepsLInv DEF RoundTrip

LEMMA DiallingKeepsLInv ==
  ASSUME JInv, KInv, LInv, NEW h \in DOMAIN hops, Dialling(h) PROVE LInv'
  <1>1. ASSUME NEW i \in DOMAIN hops[h].attempts, Connects(h, i) \/ ConnectFails(h, i)
        PROVE  LInv'
    BY <1>1, AttemptEndsKeepsLInv DEF Connects, ConnectFails
  <1>2. CASE DialFails(h)
    <2>1. \A c \in idle' : Kept(c)
      BY <1>2 DEF DialFails, LInv
    <2> QED
      BY <1>2, <2>1, DialEndsKeepsLInv DEF DialFails
  <1> QED
    BY <1>1, <1>2, StartDialKeepsLInv, ConnectStartKeepsLInv, DialDoneKeepsLInv DEF Dialling

LEMMA EnvironmentKeepsLInv == JInv /\ KInv /\ LInv /\ Environment => LInv'
  <1> SUFFICES ASSUME JInv, KInv, LInv, Environment PROVE LInv'
    OBVIOUS
  <1>0. \A c \in idle : Kept(c)
    BY DEF LInv
  <1>1. CASE ConnBreaks
    BY <1>1, FailsKeepsLInv DEF ConnBreaks, Busy
  <1>2. CASE ReusedConnBreaks
    BY <1>0, <1>2, ElsewhereKeepsLInv DEF ReusedConnBreaks
  <1>3. ASSUME NEW c \in idle, ConnComesBack(c) PROVE LInv'
    <2>1. Kept([c EXCEPT !.back = TRUE])
      BY <1>0 DEF Kept, JInv, InStep
    <2>2. \A k \in idle' : Kept(k)
      BY <1>0, <1>3, <2>1 DEF ConnComesBack
    <2> QED
      BY <1>3, <2>2, ElsewhereKeepsLInv DEF ConnComesBack
  <1>4. ASSUME NEW c \in idle, IdleConnCloses(c) PROVE LInv'
    BY <1>0, <1>4, ElsewhereKeepsLInv DEF IdleConnCloses
  <1>5. ASSUME NEW h \in DOMAIN hops, HandshakeFails(h) PROVE LInv'
    <2>1. \A c \in idle' : Kept(c)
      BY <1>0, <1>5 DEF HandshakeFails
    <2>2. PICK dial : hops' = [hops EXCEPT ![h] = [hops[h] EXCEPT !.dial = dial]]
      BY <1>5 DEF HandshakeFails
    <2> QED
      BY <1>5, <2>1, <2>2, DialEndsKeepsLInv DEF HandshakeFails
  <1>6. ASSUME NEW e, ContextEnds(e) PROVE LInv'
    BY <1>0, <1>6, ElsewhereKeepsLInv DEF ContextEnds
  <1> QED
    BY <1>1, <1>2, <1>3, <1>4, <1>5, <1>6, RespondsKeepsLInv DEF Environment

LEMMA LInvStep == JInv /\ KInv /\ LInv /\ [Next]_vars => LInv'
  <1>1. ASSUME LInv, UNCHANGED vars PROVE LInv'
    <2>1. \A c \in idle' : Kept(c)
      BY <1>1 DEF vars, LInv
    <2> QED
      BY <1>1, <2>1, ElsewhereKeepsLInv DEF vars
  <1> QED
    BY <1>1, RoundTripKeepsLInv, DiallingKeepsLInv, EnvironmentKeepsLInv DEF Next, Terminated

\* However dials race, connections come back and redirects end: the report is one story,
\* its redirects lead from hop to hop and only the last one may be blocked, with the code
\* of the verdict; its final URL, route and paths are those of the hops that were made;
\* and of a hop's attempts exactly the one is selected that its request went out on
\* (Check.Run, correlateRedirects, snapshotNetworkPaths, selectConnectAttempt).
THEOREM HopsAreOneStory == Spec => []HopsTellOneStory
  <1>1. Init => JInv /\ KInv /\ LInv
    BY JInvInit, KInvInit, LInvInit
  <1>2. JInv /\ KInv /\ LInv /\ [Next]_vars => JInv' /\ KInv' /\ LInv'
    BY JInvStep, KInvStep, LInvStep
  <1>3. LInv => HopsTellOneStory
    BY LInvIsEnough
  <1> QED
    BY <1>1, <1>2, <1>3, PTL DEF Spec
=============================================================================
