------------------------------ MODULE MCProbes ------------------------------
(* Setups for TLC to run Probes with.                                      *)
EXTENDS Probes

CONSTANTS a, b, c   \* two IPv4 addresses and an IPv6 one

V4 == {a, b}
V6 == {c}

\* What an address may answer to TCP, and the whole network that is up.
Hosts == {[tcp |-> "accepts", tls |-> "trusted"], [tcp |-> "refuses", tls |-> "mute"],
          [tcp |-> "silent", tls |-> "mute"]}
AllUp == [ip \in V4 \cup V6 |-> [tcp |-> "accepts", tls |-> "trusted"]]

Base == [mode |-> "client", limit |-> 4, workers |-> 2, version |-> "auto",
         connect |-> NoIP, literal |-> NoIP, names |-> [ip4 |-> <<a>>, ip6 |-> <<c>>],
         details |-> FALSE, interfaces |-> TRUE, tls |-> TRUE, insecure |-> FALSE,
         ca |-> TRUE, budget |-> TRUE, flaky |-> FALSE,
         net |-> AllUp]

\* Two addresses raced.
Racing == {[Base EXCEPT !.net = n] : n \in {n \in [V4 \cup V6 -> Hosts] : n[b] = n[a]}}

\* The matrix over two addresses, with a third beyond the limit, by one worker
\* or two; and over three addresses by one.
Net(x, y) == [ip \in V4 \cup V6 |->
               LET t == IF ip = a THEN x ELSE IF ip = b THEN y ELSE "accepts"
               IN [tcp |-> t, tls |-> IF t = "accepts" THEN "trusted" ELSE "mute"]]
Matrix ==
  LET many == [Base EXCEPT !.mode = "matrix", !.names = [ip4 |-> <<a, b>>, ip6 |-> <<c>>]] IN
  {[many EXCEPT !.workers = 1, !.budget = FALSE, !.net = Net("silent", "accepts")]}
  \cup {[many EXCEPT !.limit = 2, !.net = n] :
          n \in {Net("refuses", "accepts"), Net("accepts", "silent")}}

\* Every answer of the resolver, with the detailed resolver and without; every
\* requested family.
Names ==
  {[Base EXCEPT !.names = n, !.tls = FALSE, !.flaky = TRUE,
                  !.details = n.ip6 = <<>>, !.interfaces = n.ip6 # <<>>] :
     n \in [ip4 : {<<>>, <<a>>}, ip6 : {<<>>, <<c>>}]}
  \cup {[Base EXCEPT !.names = n, !.version = v] :
          n \in [ip4 : {<<>>, <<a, b>>}, ip6 : {<<c>>}], v \in {"4", "6"}}

\* An address that replaces the resolver's, as connect IP or as the target.
Given ==
  {[Base EXCEPT !.connect = c, !.version = v] : v \in {"auto", "6"}}
  \cup {[Base EXCEPT !.literal = c, !.version = v] : v \in {"auto", "4", "6"}}

\* Certificates, verified or not; one bad and one good in the matrix; a
\* CA bundle that cannot be used; no TLS.
Presenting(t, u) == [ip \in V4 \cup V6 |-> [tcp |-> "accepts", tls |-> IF ip = a THEN t ELSE u]]
Certificates ==
  {[Base EXCEPT !.net = Presenting(t, t)] : t \in {"expiring", "untrusted", "mute"}}
  \cup {[Base EXCEPT !.insecure = TRUE, !.net = Presenting("untrusted", "broken")]}
  \cup {[Base EXCEPT !.mode = "matrix", !.workers = 1, !.net = Presenting("untrusted", "trusted")]}
  \cup {[Base EXCEPT !.ca = FALSE], [Base EXCEPT !.tls = FALSE]}

\* No route to one of the two.
Unroutable == {[Base EXCEPT !.net = [AllUp EXCEPT ![a] = [tcp |-> "unroutable", tls |-> "mute"]]]}

\* A name with addresses of both families, and a user who asks for IPv4.
FourOnly == {[Base EXCEPT !.version = "4", !.net = Net("refuses", "refuses")]}

AllSetups == Racing \cup Matrix \cup Names \cup Given \cup Certificates \cup Unroutable
=============================================================================
