----------------------------- MODULE MCHTTPCheck -----------------------------
(* Setups for TLC to run HTTPCheck with.                                   *)
EXTENDS HTTPCheck

CONSTANTS site, other,         \* hosts
          pub4, pub6, local,   \* two public addresses and a private one
          gateway              \* the proxy's address

MCHosts == {site, other}
Public == {pub4, pub6}
Private == {local}
Six == {pub6}

Page(scheme, host, page) == [scheme |-> scheme, host |-> host, page |-> page]
A == Page("https", site, 1)
B == Page("https", other, 1)
C == Page("https", site, 2)
D == Page("https", site, 3)
Plain == Page("http", other, 1)

Answer(status, to) == [status |-> status, to |-> to, huge |-> FALSE]
NoProxies == [http |-> "unset", https |-> "unset", all |-> "unset", lower |-> FALSE,
              cgi |-> FALSE, bypass |-> {}]
Only(host, answers) == [h \in MCHosts |-> IF h = host THEN answers ELSE {<<pub4>>}]

\* A redirects to B, and B back to another page of the site.
Chain == [u \in {A, B, C, D, Plain} |->
            CASE u = A -> Answer(302, B) [] u = B -> Answer(302, C) [] OTHER -> Answer(200, NoURL)]
Leading(u) == [Chain EXCEPT ![A] = Answer(302, u)]

Base == [env |-> NoProxies, noProxy |-> FALSE, insecure |-> FALSE, private |-> FALSE,
         inspect |-> FALSE, ca |-> TRUE, captured |-> TRUE, max |-> 2, connect |-> NoIP,
         version |-> "auto", headers |-> {"plain", "secret"}, expected |-> {}, gate |-> "ok",
         target |-> A, names |-> [h \in MCHosts |-> {<<pub4>>}],
         net |-> [ip \in IP \cup {ProxyIP} |-> "accepts"], web |-> Chain]

\* The whole chain, and chains that are too long, loop, or are too large.
Chains ==
  {Base, [Base EXCEPT !.max = 0], [Base EXCEPT !.max = 1],
   [Base EXCEPT !.web[B].to = A], [Base EXCEPT !.web[B].huge = TRUE]}

\* A name with two answers or one of several, the second after a redirect.
Two == {<<pub4, pub6>>}
Resolving ==
  {[Base EXCEPT !.max = 1, !.names = Only(site, Two), !.net[pub4] = r, !.version = v] :
     r \in {"accepts", "silent"}, v \in {"auto", "6"}}
  \cup {[Base EXCEPT !.max = 1, !.names = Only(other, a), !.private = p] :
          a \in {{<<pub4>>, <<local>>}, {<<local, pub4>>}, {<<pub6>>, <<>>}}, p \in BOOLEAN}
  \cup {[Base EXCEPT !.names = Only(site, {<<local>>, <<pub4>>}), !.web = w] :
           w \in {Chain, Leading(C)}}

\* The chain returns to the site over the connection it left it by, while a dial that
\* is not needed any more is still to start, and goes on to a third page.
Returning ==
  [Base EXCEPT !.max = 3, !.names = Only(site, {<<local>>, <<pub4>>}),
               !.web[C] = Answer(302, D)]

\* A connect IP the chain comes back to.
Fixing == {[Base EXCEPT !.connect = ip] : ip \in {local, pub6}}

\* Every captured environment for a chain that leaves HTTPS, and what a proxy answers.
Downgrading == [Base EXCEPT !.web = Leading(Plain), !.insecure = TRUE]
Proxies ==
  {[Downgrading EXCEPT !.env = [http |-> p, https |-> q, all |-> "unset", lower |-> l,
                                cgi |-> g, bypass |-> b]] :
     p, q \in Values, l \in BOOLEAN, g \in BOOLEAN, b \in {{}, {other}}}
  \cup {[Downgrading EXCEPT !.env = [NoProxies EXCEPT !.all = p], !.noProxy = n, !.gate = g,
                            !.names = Only(other, {<<local>>})] :
          p \in Values, n \in BOOLEAN, g \in {"ok", "rejects", "auth"}}
  \cup {[Base EXCEPT !.env = [NoProxies EXCEPT !.all = "usable"], !.connect = local]}

\* Verdicts.
Final(status) == [Base EXCEPT !.web[A] = Answer(status, NoURL)]
Answering ==
  {[Final(s) EXCEPT !.expected = e, !.inspect = TRUE] : s \in {200, 404, 503}, e \in {{}, {200}}}
  \cup {[Final(200) EXCEPT !.ca = FALSE], [Final(200) EXCEPT !.captured = FALSE],
        [Base EXCEPT !.web = Leading(Plain)]}

AllSetups == Chains \cup Resolving \cup {Returning} \cup Fixing \cup Proxies \cup Answering
=============================================================================
