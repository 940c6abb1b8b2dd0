-------------------------- MODULE Invocation_proofs --------------------------
(***************************************************************************)
(* Proofs about one invocation of orynelo diagnose, for any number of      *)
(* signals: what its exit code says, and that the conclusion names what    *)
(* the results support.                                                    *)
(*                                                                         *)
(* First the operators on sequences; then the rules of the conclusion, one *)
(* after the other, on the results of a whole plan; then the steps of the  *)
(* command.                                                                *)
(***************************************************************************)
EXTENDS Invocation, FiniteSetTheorems, WellFoundedInduction, TLAPS

-----------------------------------------------------------------------------
(* What is kept of a sequence.                                             *)

\* The elements of a set of positions up to one of them.
Until(at, i) == {j \in at : j <= i}

\* They number the positions from 1.
LEMMA Positions ==
  ASSUME NEW at, at \subseteq Nat, IsFiniteSet(at)
  PROVE  /\ \A i \in at : Cardinality(Until(at, i)) \in 1 .. Cardinality(at)
         /\ \A i, k \in at : Cardinality(Until(at, i)) = Cardinality(Until(at, k)) => i = k
         /\ \A n \in 1 .. Cardinality(at) : \E i \in at : Cardinality(Until(at, i)) = n
<1> DEFINE c == Cardinality(at)
           pos == [i \in at |-> Cardinality(Until(at, i))]
<1>1. c \in Nat BY FS_CardinalityType
<1>2. ASSUME NEW i \in at
      PROVE  IsFiniteSet(Until(at, i)) /\ Cardinality(Until(at, i)) \in 1 .. c
  <2>1. Until(at, i) \subseteq at /\ i \in Until(at, i) BY DEF Until
  <2>2. IsFiniteSet(Until(at, i)) /\ Cardinality(Until(at, i)) <= c
        /\ Cardinality(Until(at, i)) \in Nat
    BY <2>1, FS_Subset, FS_CardinalityType
  <2>3. Cardinality(Until(at, i)) # 0 BY <2>1, <2>2, FS_EmptySet
  <2> QED BY <1>1, <2>2, <2>3
<1>3. ASSUME NEW i \in at, NEW k \in at, i < k
      PROVE  Cardinality(Until(at, i)) < Cardinality(Until(at, k))
  <2>1. Until(at, i) \subseteq Until(at, k)
    <3> SUFFICES ASSUME NEW j \in at, j <= i PROVE j <= k
      BY DEF Until
    <3> QED BY <1>3
  <2>2. k \in Until(at, k) /\ k \notin Until(at, i) BY <1>3 DEF Until
  <2>3. IsFiniteSet(Until(at, k)) BY <1>2
  <2>4. Cardinality(Until(at, i)) \in Nat /\ Cardinality(Until(at, k)) \in Nat BY <1>1, <1>2
  <2> QED BY <2>1, <2>2, <2>3, <2>4, FS_Subset
<1>4. \A i, k \in at : Cardinality(Until(at, i)) = Cardinality(Until(at, k)) => i = k
  <2> SUFFICES ASSUME NEW i \in at, NEW k \in at,
                      Cardinality(Until(at, i)) = Cardinality(Until(at, k))
               PROVE  i = k
    OBVIOUS
  <2>1. Cardinality(Until(at, i)) \in Nat /\ i \in Nat /\ k \in Nat BY <1>1, <1>2
  <2>2. ~(i < k) /\ ~(k < i) BY <1>3, <2>1
  <2> QED BY <2>1, <2>2
<1>5. pos \in Injection(at, 1 .. c) BY <1>2, <1>4 DEF Injection, IsInjective
<1>6. IsFiniteSet(1 .. c) /\ Cardinality(1 .. c) = c
  <2>1. 1 \in Int /\ c \in Int BY <1>1
  <2> QED BY <1>1, <2>1, FS_Interval
<1>7. pos \in Surjection(at, 1 .. c) BY <1>5, <1>6, FS_Injection
<1>8. \A n \in 1 .. c : \E i \in at : Cardinality(Until(at, i)) = n BY <1>7 DEF Surjection
<1> QED BY <1>2, <1>4, <1>8

\* What is kept of a sequence is a sequence of those elements, and has them all.
LEMMA KeptIs ==
  ASSUME NEW S, NEW s \in Seq(S), NEW at, at \subseteq DOMAIN s
  PROVE  /\ Kept(s, at) \in Seq(S)
         /\ \A n \in DOMAIN Kept(s, at) : \E i \in at : Kept(s, at)[n] = s[i]
         /\ \A i \in at : \E n \in DOMAIN Kept(s, at) : Kept(s, at)[n] = s[i]
<1> DEFINE c == Cardinality(at)
           nth(n) == CHOOSE i \in at : Cardinality(Until(at, i)) = n
<1>1. DOMAIN s = 1 .. Len(s) /\ Len(s) \in Nat OBVIOUS
<1>2. IsFiniteSet(1 .. Len(s))
  <2>1. 1 \in Int /\ Len(s) \in Int BY <1>1
  <2> QED BY <2>1, FS_Interval
<1>3. at \subseteq Nat /\ IsFiniteSet(at) /\ c \in Nat
  BY <1>1, <1>2, FS_Subset, FS_CardinalityType
<1>4. Kept(s, at) = [n \in 1 .. c |-> s[nth(n)]] BY DEF Kept, Until
<1>5. \A n \in 1 .. c : nth(n) \in at BY <1>3, Positions
<1>6. ASSUME NEW i \in at
      PROVE  Cardinality(Until(at, i)) \in 1 .. c /\ nth(Cardinality(Until(at, i))) = i
  <2>1. Cardinality(Until(at, i)) \in 1 .. c BY <1>3, Positions
  <2>2. nth(Cardinality(Until(at, i))) \in at
        /\ Cardinality(Until(at, nth(Cardinality(Until(at, i))))) = Cardinality(Until(at, i))
    OBVIOUS
  <2>3. \A x, y \in at : Cardinality(Until(at, x)) = Cardinality(Until(at, y)) => x = y
    BY <1>3, Positions
  <2> HIDE DEF nth
  <2> QED BY <2>1, <2>2, <2>3
<1> HIDE DEF nth, c
<1>7. Kept(s, at) \in [1 .. c -> S] BY <1>1, <1>4, <1>5
<1>8. Kept(s, at) \in Seq(S) BY <1>3, <1>7
<1> QED BY <1>4, <1>5, <1>6, <1>8

-----------------------------------------------------------------------------
(* Sequences that are put together.                                        *)

\* The domain and the elements of a sequence.
LEMMA SequenceIs ==
  ASSUME NEW S, NEW s \in Seq(S)
  PROVE  /\ Len(s) \in Nat /\ DOMAIN s = 1 .. Len(s) /\ \A i \in DOMAIN s : s[i] \in S
         /\ s # <<>> => Len(s) >= 1
         /\ ToSet(s) \subseteq S
<1>1. Len(s) \in Nat /\ s \in [1 .. Len(s) -> S] OBVIOUS
<1>2. Len(s) = 0 => s = <<>> OBVIOUS
<1> QED BY <1>1, <1>2 DEF ToSet

\* Nothing is lost and nothing added when sequences are put one behind the other.
LEMMA JoinedIs ==
  ASSUME NEW S, NEW s \in Seq(S), NEW t \in Seq(S)
  PROVE  s \o t \in Seq(S) /\ ToSet(s \o t) = ToSet(s) \cup ToSet(t)
<1>1. Len(s) \in Nat /\ Len(t) \in Nat /\ DOMAIN s = 1 .. Len(s) /\ DOMAIN t = 1 .. Len(t)
  BY SequenceIs
<1>2. s \o t \in Seq(S) /\ Len(s \o t) = Len(s) + Len(t) /\ DOMAIN (s \o t) = 1 .. Len(s \o t)
  OBVIOUS
<1>3. \A i \in 1 .. Len(s) : (s \o t)[i] = s[i] OBVIOUS
<1>4. \A i \in 1 .. Len(t) : (s \o t)[Len(s) + i] = t[i] OBVIOUS
<1>5. ASSUME NEW i \in DOMAIN (s \o t) PROVE (s \o t)[i] \in ToSet(s) \cup ToSet(t)
  <2>1. CASE i \in 1 .. Len(s) BY <2>1, <1>1, <1>3 DEF ToSet
  <2>2. CASE i \notin 1 .. Len(s)
    <3> DEFINE k == i - Len(s)
    <3>1. k \in 1 .. Len(t) /\ i = Len(s) + k BY <1>1, <1>2, <2>2
    <3>2. (s \o t)[i] = t[k] BY <1>4, <3>1
    <3> QED BY <1>1, <3>1, <3>2 DEF ToSet
  <2> QED BY <2>1, <2>2
<1>6. ASSUME NEW x \in ToSet(s) PROVE x \in ToSet(s \o t)
  <2>1. PICK i \in 1 .. Len(s) : x = s[i] BY <1>1 DEF ToSet
  <2>2. i \in DOMAIN (s \o t) BY <1>1, <1>2
  <2> QED BY <1>3, <2>1, <2>2 DEF ToSet
<1>7. ASSUME NEW x \in ToSet(t) PROVE x \in ToSet(s \o t)
  <2>1. PICK i \in 1 .. Len(t) : x = t[i] BY <1>1 DEF ToSet
  <2>2. Len(s) + i \in DOMAIN (s \o t) BY <1>1, <1>2
  <2> QED BY <1>4, <2>1, <2>2 DEF ToSet
<1>8. ToSet(s \o t) \subseteq ToSet(s) \cup ToSet(t) BY <1>5 DEF ToSet
<1> QED BY <1>2, <1>6, <1>7, <1>8

\* A sequence of one or of nothing.
LEMMA FewIs ==
  ASSUME NEW S, NEW x \in S
  PROVE  <<x>> \in Seq(S) /\ ToSet(<<x>>) = {x} /\ <<>> \in Seq(S) /\ ToSet(<<>>) = {}
         /\ <<x>> # <<>> /\ <<x>>[1] = x
<1>1. <<x>> \in Seq(S) /\ Len(<<x>>) = 1 /\ <<x>>[1] = x /\ DOMAIN <<x>> = {1} OBVIOUS
<1>2. <<>> \in Seq(S) /\ DOMAIN <<>> = {} OBVIOUS
<1>3. ToSet(<<x>>) = {x} BY <1>1 DEF ToSet
<1>4. ToSet(<<>>) = {} BY <1>2 DEF ToSet
<1> QED BY <1>1, <1>2, <1>3, <1>4

\* The elements at some positions, and the first of them.
LEMMA ChosenIs ==
  ASSUME NEW S, NEW s \in Seq(S), NEW at, at \subseteq DOMAIN s
  PROVE  /\ Kept(s, at) \in Seq(S) /\ ToSet(Kept(s, at)) = {s[i] : i \in at}
         /\ First(Kept(s, at)) \in Seq(S) /\ ToSet(First(Kept(s, at))) \subseteq {s[i] : i \in at}
         /\ First(Kept(s, at)) = <<>> <=> at = {}
         /\ at # {} => \E i \in at : First(Kept(s, at)) = <<s[i]>>
<1> DEFINE k == Kept(s, at)
<1>1. /\ k \in Seq(S) /\ \A n \in DOMAIN k : \E i \in at : k[n] = s[i]
      /\ \A i \in at : \E n \in DOMAIN k : k[n] = s[i]
  BY KeptIs
<1> HIDE DEF k
<1>2. ToSet(k) = {s[i] : i \in at} BY <1>1 DEF ToSet
<1>3. CASE k = <<>>
  <2>1. First(k) = <<>> BY <1>3 DEF First
  <2>2. ToSet(k) = {} BY <1>3 DEF ToSet
  <2>3. at = {} BY <1>2, <2>2
  <2> QED BY <1>1, <1>2, <2>1, <2>2, <2>3, <1>3 DEF k
<1>4. CASE k # <<>>
  <2>1. 1 \in DOMAIN k /\ Head(k) = k[1]
    <3>1. Len(k) \in Nat /\ Len(k) >= 1 /\ DOMAIN k = 1 .. Len(k) BY <1>1, <1>4, SequenceIs
    <3> QED BY <3>1
  <2>2. PICK i \in at : k[1] = s[i] BY <1>1, <2>1
  <2>3. First(k) = <<s[i]>> BY <1>4, <2>1, <2>2 DEF First
  <2>4. s[i] \in S BY <2>2, SequenceIs
  <2>5. ToSet(First(k)) = {s[i]} /\ First(k) \in Seq(S) /\ First(k) # <<>> BY <2>3, <2>4, FewIs
  <2> QED BY <1>1, <1>2, <2>2, <2>3, <2>5 DEF k
<1> QED BY <1>3, <1>4

\* Among numbers there is a least one.
LEMMA Least ==
  ASSUME NEW T \in SUBSET Nat, T # {}
  PROVE  \E k \in T : \A j \in T : k <= j
<1> DEFINE R == OpToRel(<, Nat)
<1>1. IsWellFoundedOn(R, Nat) BY NatLessThanWellFounded
<1>2. \E x \in T : \A y \in T : ~(<<y, x>> \in R) BY <1>1, WFMin
<1>3. PICK k \in T : \A y \in T : ~(<<y, k>> \in R) BY <1>2
<1>4. ASSUME NEW y \in T PROVE k <= y
  <2>1. y \in Nat /\ k \in Nat OBVIOUS
  <2>2. ~(y < k) BY <1>3, <2>1 DEF OpToRel
  <2> QED BY <2>1, <2>2
<1> QED BY <1>4

-----------------------------------------------------------------------------
(* The best of the candidates.                                             *)

Names == {"target", "environment", "dns", "route", "tcp", "tls", "http"}
Statuses == {"passed", "warning", "failed", "cancelled", "skipped", "not_applicable"}
Priorities == 0 .. 1000
Rules == {"diagnosis_timed_out", "check_timed_out", "invalid_target", "proxy_invalid", "dns",
          "one_family", "mixed_tcp", "tcp", "certificate", "tls", "redirects",
          "application_error", "reached_by_proxy", "reached_despite_preflight",
          "request_completed", "http_warning", "http_transport", "a_failure", "cancelled",
          "direct_with_proxy_disabled", "proxy_selected", "a_warning", "not_applicable",
          "skipped", "completed"}
Lists == Seq(Names)
Offers == [severity : 0 .. 3, priority : Priorities, status : Statuses, rule : Rules,
           about : Lists]

\* The fields of a candidate.
LEMMA OfferIs ==
  ASSUME NEW c \in Offers
  PROVE  /\ c.severity \in 0 .. 3 /\ c.priority \in 0 .. 1000 /\ c.status \in Statuses
         /\ c.about \in Lists
BY DEF Offers, Priorities

\* Outranks orders by severity, then by priority.
LEMMA OutranksIs ==
  ASSUME NEW c \in Offers, NEW d \in Offers
  PROVE  /\ 1000 - c.priority \in Nat
         /\ /\ 3 - d.severity <= 3 - c.severity
            /\ c.severity = d.severity => 1000 - d.priority <= 1000 - c.priority
            => /\ ~Outranks(c, d)
               /\ c.severity # d.severity \/ c.priority # d.priority => Outranks(d, c)
<1> DEFINE s == c.severity
           t == d.severity
           p == c.priority
           q == d.priority
<1>1. s \in 0 .. 3 /\ t \in 0 .. 3 /\ p \in 0 .. 1000 /\ q \in 0 .. 1000 BY OfferIs
<1>2. /\ Outranks(c, d) <=> s > t \/ (s = t /\ p > q)
      /\ Outranks(d, c) <=> t > s \/ (t = s /\ q > p)
  BY DEF Outranks
<1> HIDE DEF s, t, p, q
<1>3. s \in Int /\ t \in Int /\ p \in Int /\ q \in Int /\ p <= 1000 BY <1>1
<1>4. 1000 - p \in Nat BY <1>3
<1>5. ASSUME 3 - t <= 3 - s, s = t => 1000 - q <= 1000 - p
      PROVE  ~Outranks(c, d) /\ (s # t \/ p # q => Outranks(d, c))
  <2>1. s <= t /\ (s = t => p <= q) BY <1>3, <1>5
  <2> QED BY <1>2, <1>3, <2>1
<1> QED BY <1>4, <1>5 DEF s, t, p, q

\* It is one of them, and no other is more severe.
LEMMA BestIs ==
  ASSUME NEW cs \in Seq(Offers), cs # <<>>
  PROVE  /\ Best(cs) \in ToSet(cs)
         /\ \A c \in ToSet(cs) : c.severity <= Best(cs).severity
<1>1. Len(cs) \in Nat /\ Len(cs) >= 1 /\ DOMAIN cs = 1 .. Len(cs)
      /\ \A i \in DOMAIN cs : cs[i] \in Offers
  BY SequenceIs
<1> DEFINE Wins(i) == /\ \A j \in DOMAIN cs : ~Outranks(cs[j], cs[i])
                      /\ \A j \in 1 .. i - 1 : Outranks(cs[i], cs[j])
<1>2. ASSUME NEW i \in DOMAIN cs
      PROVE  cs[i].severity \in 0 .. 3 /\ cs[i].priority \in 0 .. 1000 /\ i \in Nat
  <2>1. i \in Nat BY <1>1
  <2>2. cs[i] \in Offers BY <1>1
  <2> QED BY <2>1, <2>2, OfferIs
<1> DEFINE mild == {3 - cs[i].severity : i \in DOMAIN cs}
<1>3. mild \in SUBSET Nat /\ mild # {}
  <2>1. 1 \in DOMAIN cs BY <1>1
  <2>2. ASSUME NEW i \in DOMAIN cs PROVE 3 - cs[i].severity \in Nat BY <1>2
  <2> QED BY <2>1, <2>2
<1>4. PICK m \in mild : \A j \in mild : m <= j BY <1>3, Least
<1> DEFINE top == {i \in DOMAIN cs : 3 - cs[i].severity = m}
           low == {1000 - cs[i].priority : i \in top}
<1>5. low \in SUBSET Nat /\ low # {}
  <2>1. ASSUME NEW i \in top PROVE 1000 - cs[i].priority \in Nat
    <3>1. cs[i] \in Offers BY <1>1
    <3> QED BY <3>1, OutranksIs
  <2>2. top # {} BY <1>4
  <2> QED BY <2>1, <2>2
<1>6. PICK l \in low : \A j \in low : l <= j BY <1>5, Least
<1> DEFINE firsts == {i \in top : 1000 - cs[i].priority = l}
<1>7. firsts \in SUBSET Nat /\ firsts # {} BY <1>2, <1>6
<1>8. PICK i \in firsts : \A j \in firsts : i <= j
  <2> HIDE DEF firsts
  <2> QED BY <1>7, Least
<1>9. Wins(i)
  <2>1. i \in DOMAIN cs /\ 3 - cs[i].severity = m /\ 1000 - cs[i].priority = l OBVIOUS
  <2>2. ASSUME NEW j \in DOMAIN cs
        PROVE  /\ 3 - cs[i].severity <= 3 - cs[j].severity
               /\ cs[i].severity = cs[j].severity =>
                    1000 - cs[i].priority <= 1000 - cs[j].priority
    <3>1. 3 - cs[j].severity \in mild OBVIOUS
    <3>2. cs[i].severity = cs[j].severity => 1000 - cs[j].priority \in low BY <2>1
    <3> QED BY <1>4, <1>6, <2>1, <3>1, <3>2
  <2>3. ASSUME NEW j \in DOMAIN cs PROVE ~Outranks(cs[j], cs[i])
    <3>1. cs[i] \in Offers /\ cs[j] \in Offers BY <1>1, <2>1
    <3> QED BY <2>2, <3>1, OutranksIs
  <2>4. ASSUME NEW j \in 1 .. i - 1 PROVE Outranks(cs[i], cs[j])
    <3>1. i \in Nat /\ i <= Len(cs) /\ i >= 1 BY <1>1, <2>1
    <3>2. j \in DOMAIN cs /\ j < i BY <1>1, <3>1
    <3>3. j \notin firsts
      <4> HIDE DEF firsts
      <4>1. j \in Nat BY <1>2, <3>2
      <4> QED BY <1>8, <3>1, <3>2, <4>1
    <3>4. ~(cs[i].severity = cs[j].severity /\ cs[i].priority = cs[j].priority)
      BY <2>1, <3>2, <3>3
    <3>5. cs[i] \in Offers /\ cs[j] \in Offers BY <1>1, <2>1, <3>2
    <3> QED BY <2>2, <3>2, <3>4, <3>5, OutranksIs
  <2> QED BY <2>3, <2>4
<1> DEFINE b == CHOOSE k \in DOMAIN cs : Wins(k)
<1>10. b \in DOMAIN cs /\ Wins(b)
  <2> HIDE DEF Wins
  <2>1. i \in DOMAIN cs OBVIOUS
  <2> QED BY <1>9, <2>1
<1>11. Best(cs) = cs[b] BY DEF Best
<1> HIDE DEF b
<1>12. ASSUME NEW c \in ToSet(cs) PROVE c.severity <= cs[b].severity
  <2>1. PICK j \in DOMAIN cs : c = cs[j] BY DEF ToSet
  <2>2. ~Outranks(cs[j], cs[b]) BY <1>10
  <2>3. cs[j].severity \in 0 .. 3 /\ cs[b].severity \in 0 .. 3 BY <1>1, <1>2, <1>10
  <2> QED BY <2>1, <2>2, <2>3 DEF Outranks
<1>13. cs[b] \in ToSet(cs) BY <1>10 DEF ToSet
<1> QED BY <1>11, <1>12, <1>13

-----------------------------------------------------------------------------
(* The results of a whole plan.                                            *)

Codes == {"none", "CHECK_INTERNAL_PANIC", "PROXY_CONFIG_INVALID", "PROXY_SELECTION_UNAVAILABLE",
          "DNS", "TCP", "TLS", "CERTIFICATE", "CHECK_TIMEOUT", "REDIRECTS", "RESPONSE", "BODY",
          "TRANSPORT", "EXPECTATION", "OPERATION_TIMEOUT", "OPERATION_CANCELLED",
          "AUXILIARY_BUDGET_RESERVED"}
Evidence == {"PROXY_DISABLED", "PROXY_SELECTED", "PROXY_CONFIG_INVALID", "addresses", "connected",
             "v4ok", "v4bad", "v6bad"}
Routes == {"none", "direct", "proxy", "mixed", "blocked"}
Outcomes == [id : Names, status : Statuses, code : Codes, says : SUBSET Evidence,
             route : Routes, auxiliary : BOOLEAN]

\* What the code sets aside: it takes a failed HTTP check for one without a response.
SetAside(r) ==
  /\ IsPreflight(r)
  /\ \/ r.auxiliary
     \/ \E h \in ToSet(results) :
          h.id = "http" /\ (h.status \in {"passed", "warning"} \/ h.route \in {"proxy", "mixed"})
Standing ==
  {r \in ToSet(results) : \/ r.status = "failed" /\ ~SetAside(r)
                          \/ "PROXY_CONFIG_INVALID" \in r.says}

\* What a result says of the run: what stopped a check, which codes go with which
\* statuses, and what the proxy policy and the target have to do with it.
Made(r) ==
  /\ r \in Outcomes
  /\ r.status = "cancelled" => runErr = "cancelled"
  /\ r.code = "OPERATION_TIMEOUT" => runErr = "deadline"
  /\ r.code \in {"CHECK_TIMEOUT", "OPERATION_TIMEOUT", "CERTIFICATE", "REDIRECTS"}
       => r.status = "failed"
  /\ r.code = "RESPONSE" => r.status = "warning"
  /\ r.code = "CHECK_TIMEOUT" => proxy # "invalid" /\ r.id \in Direct \cup {"http"}
  /\ r.code = "PROXY_CONFIG_INVALID" =>
       "PROXY_CONFIG_INVALID" \in r.says \/ (r.id = "http" /\ r.status = "failed")
  /\ "PROXY_CONFIG_INVALID" \in r.says => proxy = "invalid"
  /\ "PROXY_SELECTED" \in r.says => proxy = "selected"
  /\ r.auxiliary => options.kind \in Web /\ r.id \in Direct
  /\ r.id \in Direct /\ proxy = "selected" => r.auxiliary
  /\ r.id = "target" => r.status \in {"passed", "failed", "cancelled"}
  /\ r.id = "http" /\ r.status = "not_applicable" => options.kind \notin Web
  /\ r.id = "http" /\ r.status = "not_applicable" => r.route = "none"
  /\ r.id = "http" => r.status # "skipped"

\* Every check of the plan has its result, and the last one tells of the deadline.
Whole ==
  /\ results \in Seq(Outcomes) /\ Len(results) = 7
  /\ \A i \in 1 .. 7 : results[i].id = Plan[i] /\ Made(results[i])
  /\ runErr = "deadline" => results[7].status = "failed"

\* The plan names seven checks, each once, in the order of the layers.
LEMMA PlanIs ==
  /\ Len(Plan) = 7 /\ \A i \in 1 .. 7 : Plan[i] \in Names
  /\ Plan[1] = "target" /\ Plan[2] = "environment" /\ Plan[3] = "dns" /\ Plan[4] = "route"
  /\ Plan[5] = "tcp" /\ Plan[6] = "tls" /\ Plan[7] = "http"
  /\ \A i, j \in 1 .. 7 : Plan[i] = Plan[j] => i = j
  /\ \A i \in 1 .. 7 : Layer[Plan[i]] = i - 1
<1>1. Len(Plan) = 7 /\ Plan[1] = "target" /\ Plan[2] = "environment" /\ Plan[3] = "dns"
      /\ Plan[4] = "route" /\ Plan[5] = "tcp" /\ Plan[6] = "tls" /\ Plan[7] = "http"
  BY DEF Plan
<1>2. /\ Layer["target"] = 0 /\ Layer["environment"] = 1 /\ Layer["dns"] = 2
      /\ Layer["route"] = 3 /\ Layer["tcp"] = 4 /\ Layer["tls"] = 5 /\ Layer["http"] = 6
  BY DEF Layer
<1>3. ASSUME NEW i \in 1 .. 7 PROVE i \in {1, 2, 3, 4, 5, 6, 7} OBVIOUS
<1>4. ASSUME NEW i \in 1 .. 7 PROVE Plan[i] \in Names /\ Layer[Plan[i]] = i - 1
  BY <1>1, <1>2, <1>3 DEF Names
<1>5. \A i, j \in 1 .. 7 : Plan[i] = Plan[j] => i = j
  <2> SUFFICES ASSUME NEW i \in 1 .. 7, NEW j \in 1 .. 7, Plan[i] = Plan[j]
               PROVE  i = j
    OBVIOUS
  <2>1. i - 1 = j - 1 BY <1>4
  <2> QED BY <2>1
<1> QED BY <1>1, <1>4, <1>5

\* The results by their places.
LEMMA WholeIs ==
  ASSUME Whole
  PROVE  /\ DOMAIN results = 1 .. 7 /\ results # <<>>
         /\ \A i \in 1 .. 7 : results[i] \in Outcomes /\ results[i] \in ToSet(results)
         /\ \A r \in ToSet(results) : Made(r) /\ r \in Outcomes
                                      /\ \E i \in 1 .. 7 : r = results[i] /\ r.id = Plan[i]
                                                           /\ Layer[r.id] = i - 1
         /\ \A r, s \in ToSet(results) : r.id = s.id => r = s
<1>1. DOMAIN results = 1 .. 7 /\ results # <<>> BY SequenceIs DEF Whole
<1>2. ASSUME NEW i \in 1 .. 7
      PROVE  /\ results[i] \in Outcomes /\ results[i] \in ToSet(results) /\ Made(results[i])
             /\ results[i].id = Plan[i]
  BY <1>1 DEF Whole, ToSet, Made
<1>3. ASSUME NEW r \in ToSet(results) PROVE \E i \in 1 .. 7 : r = results[i]
  BY <1>1 DEF ToSet
<1>4. ASSUME NEW r \in ToSet(results), NEW s \in ToSet(results), r.id = s.id PROVE r = s
  BY <1>2, <1>3, <1>4, PlanIs
<1> QED BY <1>1, <1>2, <1>3, <1>4, PlanIs

\* The result of a check is found by its name.
LEMMA ByIDIs ==
  ASSUME Whole, NEW i \in 1 .. 7
  PROVE  ByID(results, Plan[i]) = <<results[i]>>
<1> DEFINE at == {j \in DOMAIN results : results[j].id = Plan[i]}
<1>1. at = {i} BY WholeIs, PlanIs DEF Whole
<1>2. at # {} /\ at \subseteq DOMAIN results BY <1>1
<1>3. ByID(results, Plan[i]) = First(Kept(results, at)) BY DEF ByID, Where
<1> HIDE DEF at
<1>4. PICK j \in at : First(Kept(results, at)) = <<results[j]>> BY <1>2, ChosenIs DEF Whole
<1> QED BY <1>1, <1>3, <1>4

\* The names of results.
LEMMA IdsIs ==
  ASSUME NEW s \in Seq(Outcomes)
  PROVE  /\ Ids(s) \in Lists /\ ToSet(Ids(s)) = {r.id : r \in ToSet(s)}
         /\ Ids(s) = <<>> <=> s = <<>>
         /\ DOMAIN Ids(s) = DOMAIN s
<1>1. Len(s) \in Nat /\ DOMAIN s = 1 .. Len(s) /\ \A i \in DOMAIN s : s[i] \in Outcomes
      /\ (s # <<>> => Len(s) >= 1)
  BY SequenceIs
<1>2. \A i \in DOMAIN s : s[i].id \in Names BY <1>1 DEF Outcomes
<1>3. Ids(s) = [i \in 1 .. Len(s) |-> s[i].id] BY <1>1 DEF Ids
<1>4. Ids(s) \in [1 .. Len(s) -> Names] BY <1>1, <1>2, <1>3
<1>5. Ids(s) \in Seq(Names) /\ Len(Ids(s)) = Len(s) BY <1>1, <1>4
<1>6. Ids(s) = <<>> <=> s = <<>>
  <2>1. s = <<>> => Len(s) = 0 OBVIOUS
  <2>2. Ids(s) = <<>> => Len(Ids(s)) = 0 OBVIOUS
  <2>3. Len(Ids(s)) = 0 => Ids(s) = <<>> BY <1>5
  <2> QED BY <1>1, <1>5, <2>1, <2>2, <2>3
<1>7. ToSet(Ids(s)) = {s[i].id : i \in DOMAIN s} BY <1>1, <1>3 DEF ToSet
<1>8. {s[i].id : i \in DOMAIN s} = {r.id : r \in ToSet(s)} BY DEF ToSet
<1> QED BY <1>1, <1>3, <1>5, <1>6, <1>7, <1>8 DEF Lists

\* The facts of a whole plan.
LEMMA FactsIs ==
  ASSUME Whole, NEW f, f = Facts(results)
  PROVE  /\ f.results = results /\ f.environment = <<results[2]>> /\ f.http = <<results[7]>>
         /\ f.route = results[7].route
         /\ f.reached <=> results[7].status \in {"passed", "warning"}
         /\ results[7].route \in {"proxy", "mixed"} => f.selected
         /\ f.selected => \/ results[7].route \in {"proxy", "mixed"}
                          \/ "PROXY_SELECTED" \in results[2].says
         /\ f.discrepancies \in Seq(Outcomes)
         /\ ToSet(f.discrepancies)
              = {r \in ToSet(results) : f.reached /\ IsPreflight(r) /\ r.status = "failed"}
<1> DEFINE found == {i \in DOMAIN results : IsPreflight(results[i]) /\ results[i].status = "failed"}
           reached == results[7].status \in {"passed", "warning"}
           discrepancies == IF reached THEN Kept(results, found) ELSE <<>>
<1>1. ByID(results, "environment") = <<results[2]>> /\ ByID(results, "http") = <<results[7]>>
      /\ <<results[2]>> # <<>> /\ <<results[2]>>[1] = results[2]
      /\ <<results[7]>> # <<>> /\ <<results[7]>>[1] = results[7]
  BY ByIDIs, PlanIs
<1>2. /\ f.results = results /\ f.environment = <<results[2]>> /\ f.http = <<results[7]>>
      /\ f.route = results[7].route /\ f.reached = reached
  <2>1. /\ f.results = results
        /\ f.environment = ByID(results, "environment") /\ f.http = ByID(results, "http")
    BY DEF Facts
  <2>2. f.route = IF f.http = <<>> THEN "none" ELSE f.http[1].route BY DEF Facts
  <2>3. f.reached = (f.http # <<>> /\ f.http[1].status \in {"passed", "warning"}) BY DEF Facts
  <2>4. f.http # <<>> /\ f.http[1] = results[7] BY <1>1, <2>1
  <2>5. f.route = results[7].route BY <2>2, <2>4
  <2>6. f.reached = reached BY <2>3, <2>4
  <2> QED BY <1>1, <2>1, <2>5, <2>6
<1>3. f.discrepancies = discrepancies
  <2>1. f.discrepancies = IF f.reached
                          THEN Where(results, LAMBDA r : IsPreflight(r) /\ r.status = "failed")
                          ELSE <<>>
    BY DEF Facts
  <2> QED BY <1>2, <2>1 DEF Where
<1>4. f.selected = CASE f.route \in {"proxy", "mixed"} -> TRUE
                     [] f.route \in {"direct", "blocked"} -> FALSE
                     [] OTHER -> f.environment # <<>>
                                   /\ "PROXY_SELECTED" \in f.environment[1].says
  BY DEF Facts
<1>5. Kept(results, found) \in Seq(Outcomes)
      /\ ToSet(Kept(results, found)) = {results[i] : i \in found}
  <2>1. found \subseteq DOMAIN results OBVIOUS
  <2> HIDE DEF found
  <2> QED BY <2>1, ChosenIs DEF Whole
<1>6. {results[i] : i \in found}
        = {r \in ToSet(results) : IsPreflight(r) /\ r.status = "failed"}
  BY DEF ToSet
<1>7. ToSet(<<>>) = {} /\ <<>> \in Seq(Outcomes) BY DEF ToSet
<1> QED BY <1>1, <1>2, <1>3, <1>4, <1>5, <1>6, <1>7

-----------------------------------------------------------------------------
(* Which failures decide.                                                  *)

\* What a rule excuses is contradicted by the response, or superseded.
LEMMA ExcusedIs ==
  ASSUME Whole, NEW f, f = Facts(results), NEW r \in ToSet(results), r.status = "failed"
  PROVE  SetAside(r) <=> Discrepancy(f, r) \/ Auxiliary(f, r)
<1> DEFINE h == results[7]
<1>1. /\ h \in ToSet(results) /\ h.id = "http"
      /\ \A s \in ToSet(results) : s.id = "http" => s = h
      /\ Made(r) /\ Made(h) /\ Made(results[2])
  BY WholeIs, PlanIs DEF Whole
<1>2. /\ f.http # <<>>
      /\ f.reached <=> h.status \in {"passed", "warning"}
      /\ h.route \in {"proxy", "mixed"} => f.selected
      /\ f.selected => h.route \in {"proxy", "mixed"} \/ "PROXY_SELECTED" \in results[2].says
  <2>1. f.http = <<results[7]>> BY FactsIs
  <2>2. <<results[7]>> # <<>> OBVIOUS
  <2>3. f.http # <<>> BY <2>1, <2>2
  <2> QED BY <2>3, FactsIs
<1>3. SetAside(r) <=> /\ IsPreflight(r)
                          /\ \/ r.auxiliary
                             \/ h.status \in {"passed", "warning"} \/ h.route \in {"proxy", "mixed"}
  BY <1>1 DEF SetAside
<1>4. r.auxiliary => IsPreflight(r) BY DEF IsPreflight
<1>5. "PROXY_SELECTED" \in results[2].says /\ IsPreflight(r) => r.auxiliary
  BY <1>1 DEF Made, IsPreflight, Direct
<1> HIDE DEF h
<1> QED BY <1>2, <1>3, <1>4, <1>5 DEF Discrepancy, Auxiliary

\* The results a rule may blame: failed and excused by nothing.
Blamed(f) == {r \in ToSet(results) : r.status = "failed" /\ ~Excused(f, r)}

\* What is blamed decides, and if a failure decides one is blamed.
LEMMA SomeIsBlamed ==
  ASSUME Whole, NEW f, f = Facts(results)
  PROVE  /\ Blamed(f) \subseteq Standing
         /\ (\E r \in Standing : r.status = "failed" /\ ~SetAside(r)) => Blamed(f) # {}
<1>1. ASSUME NEW r \in Blamed(f) PROVE r \in Standing
  BY ExcusedIs DEF Blamed, Excused, Standing
<1>2. ASSUME NEW d \in Standing, d.status = "failed", ~SetAside(d)
      PROVE  Blamed(f) # {}
  <2> DEFINE Decides(i) == results[i].status = "failed" /\ ~SetAside(results[i])
             ranks == {7 - i : i \in {j \in 1 .. 7 : Decides(j)}}
  <2>1. ranks \in SUBSET Nat
    <3>1. ASSUME NEW i \in 1 .. 7 PROVE 7 - i \in Nat OBVIOUS
    <3> QED BY <3>1
  <2>2. ranks # {}
    <3>1. d \in ToSet(results) BY DEF Standing
    <3>2. PICK i \in 1 .. 7 : d = results[i] BY <3>1, WholeIs
    <3> QED BY <1>2, <3>2
  <2>3. PICK k \in ranks : \A j \in ranks : k <= j
    <3> HIDE DEF ranks
    <3> QED BY <2>1, <2>2, Least
  <2>4. PICK i \in 1 .. 7 : k = 7 - i /\ Decides(i) OBVIOUS
  <2> DEFINE r == results[i]
  <2>5. r \in ToSet(results) /\ r.status = "failed" /\ ~SetAside(r)
        /\ Layer[r.id] = i - 1 /\ Made(r)
    BY <2>4, WholeIs, PlanIs DEF Whole
  <2>6. ~Discrepancy(f, r) /\ ~Auxiliary(f, r) BY <2>5, ExcusedIs
  <2>7. ~Superseded(f, r)
    <3> SUFFICES ASSUME r.code = "CHECK_TIMEOUT", NEW s \in ToSet(results),
                        s.status = "failed", ~Auxiliary(f, s), Layer[s.id] > Layer[r.id]
                 PROVE  FALSE
      BY FactsIs DEF Superseded
    <3>1. PICK j \in 1 .. 7 : s = results[j] /\ Layer[s.id] = j - 1 BY WholeIs
    <3>2. i < j BY <2>5, <3>1
    <3>3. SetAside(s)
      <4>1. 7 - j \in ranks => 7 - i <= 7 - j BY <2>3, <2>4
      <4>2. 7 - j \notin ranks BY <3>2, <4>1
      <4>3. ~Decides(j) BY <4>2
      <4> QED BY <3>1, <4>3
    <3>4. Discrepancy(f, s) BY <3>3, ExcusedIs
    <3>5. f.reached BY <3>4 DEF Discrepancy
    <3>6. r.id \in Direct \cup {"http"} BY <2>5 DEF Made
    <3>7. r.id # "http"
      <4>1. j <= 7 /\ Layer["http"] = 6 BY DEF Layer
      <4> QED BY <2>5, <3>2, <4>1
    <3> QED BY <2>5, <2>6, <3>5, <3>6, <3>7 DEF Discrepancy, IsPreflight, Direct
  <2> QED BY <2>5, <2>6, <2>7 DEF Blamed, Excused
<1> QED BY <1>1, <1>2

\* The last result decides when the run's time is over.
LEMMA DeadlineDecides ==
  ASSUME Whole, runErr = "deadline"
  PROVE  results[7] \in Standing
<1>1. results[7] \in ToSet(results) /\ results[7].status = "failed" /\ results[7].id = "http"
      /\ Made(results[7])
  BY WholeIs, PlanIs DEF Whole
<1>2. ~IsPreflight(results[7]) BY <1>1 DEF IsPreflight, Made, Direct
<1> QED BY <1>1, <1>2 DEF Standing, SetAside

-----------------------------------------------------------------------------
(* What is true of every candidate.                                        *)

\* It says what the results support: its severity is its status's; it names results,
\* of a failure one that decides or one the deadline stopped, and of a check that timed
\* out one that no later layer outlasts.
Honest(c) ==
  LET named == {r \in Standing : r.id \in ToSet(c.about)}
  IN /\ c \in Offers
     /\ c.severity = Blocking <=> c.status = "failed"
     /\ c.severity = Interrupted <=> c.status = "cancelled"
     /\ c.status = "passed" => c.severity = Informational
     /\ c.about # <<>>
     /\ c.status = "failed" =>
          /\ Standing # {}
          /\ named # {} \/ \E r \in ToSet(results) :
                             r.id \in ToSet(c.about) /\ r.code = "OPERATION_TIMEOUT"
     /\ c.status = "cancelled" => \E r \in ToSet(results) : r.status = "cancelled"
     /\ c.rule = "check_timed_out" =>
          \A r \in Standing : \E n \in named : Layer[r.id] <= Layer[n.id]
Fair == {c \in Offers : Honest(c)}

\* The priorities the rules give.
LEMMA PriorityIs ==
  {1000, 950, 900, 875, 850, 800, 700, 650, 600, 550, 500, 400, 100, 50, 25, 20, 10}
    \subseteq Priorities
BY DEF Priorities

\* What a candidate that blames r needs.
Supports(r, rule, about) ==
  /\ r \in ToSet(results) /\ r.id \in ToSet(about)
  /\ r \in Standing \/ (r.code = "OPERATION_TIMEOUT" /\ Standing # {})
  /\ rule = "check_timed_out" =>
       r \in Standing /\ \A d \in Standing : Layer[d.id] <= Layer[r.id]

\* A rule that blames what decides adds a fair candidate.
LEMMA BlockerIs ==
  ASSUME NEW p \in Priorities, NEW rule \in Rules, NEW about \in Lists,
         NEW r, Supports(r, rule, about)
  PROVE  Blocker(p, rule, about) \in Fair /\ Blocker(p, rule, about).severity = 3
<1> DEFINE c == Blocker(p, rule, about)
<1>1. /\ c.severity = 3 /\ c.status = "failed" /\ c.rule = rule /\ c.about = about
      /\ c \in Offers
  <2>1. "failed" \in Statuses BY DEF Statuses
  <2>2. c = [severity |-> 3, priority |-> p, status |-> "failed", rule |-> rule,
             about |-> about]
    BY DEF Blocker, Candidate, Blocking
  <2> HIDE DEF c
  <2> QED BY <2>1, <2>2 DEF Offers
<1>2. about # <<>>
  <2>1. about = <<>> => ToSet(about) = {} BY DEF ToSet
  <2>2. r.id \in ToSet(about) BY DEF Supports
  <2> QED BY <2>1, <2>2
<1> DEFINE named == {d \in Standing : d.id \in ToSet(about)}
<1>3. Standing # {} /\ (named # {} \/ \E d \in ToSet(results) :
                                        d.id \in ToSet(about) /\ d.code = "OPERATION_TIMEOUT")
  BY DEF Supports
<1>4. rule = "check_timed_out" =>
        \A d \in Standing : \E n \in named : Layer[d.id] <= Layer[n.id]
  BY DEF Supports
<1> HIDE DEF c, named
<1>5. Honest(c)
  <2>1. c.severity = Blocking <=> c.status = "failed" BY <1>1 DEF Blocking
  <2>2. c.severity = Interrupted <=> c.status = "cancelled" BY <1>1 DEF Interrupted
  <2> QED BY <1>1, <1>2, <1>3, <1>4, <2>1, <2>2 DEF Honest, named
<1> QED BY <1>1, <1>5 DEF Fair, c

\* So does one that claims neither a failure nor a timeout.
LEMMA OtherIs ==
  ASSUME NEW c \in Offers, c.severity # 3, c.status # "failed",
         c.severity = 2 <=> c.status = "cancelled", c.status = "passed" => c.severity = 0,
         c.status = "cancelled" => \E r \in ToSet(results) : r.status = "cancelled",
         c.about # <<>>, c.rule # "check_timed_out"
  PROVE  c \in Fair
BY DEF Honest, Fair, Blocking, Interrupted, Informational

\* A degraded path claims no failure.
LEMMA DegradedIs ==
  ASSUME NEW p \in Priorities, NEW rule \in Rules, rule # "check_timed_out",
         NEW about \in Lists, about # <<>>
  PROVE  Degraded(p, rule, about) \in Fair /\ Degraded(p, rule, about).severity = 1
<1> DEFINE c == Degraded(p, rule, about)
<1>1. "warning" \in Statuses BY DEF Statuses
<1>2. c = [severity |-> 1, priority |-> p, status |-> "warning", rule |-> rule,
           about |-> about]
  BY DEF Degraded, DegradedPath, Candidate
<1> HIDE DEF c
<1>3. c \in Offers BY <1>1, <1>2 DEF Offers
<1>4. c.severity = 1 /\ c.status = "warning" /\ c.about = about /\ c.rule = rule BY <1>2
<1>5. c \in Fair BY <1>3, <1>4, OtherIs
<1> QED BY <1>4, <1>5 DEF c

\* One that is not of a path, said of all or of one.
LEMMA PlainIs ==
  ASSUME NEW p \in Priorities, NEW rule \in Rules, rule # "check_timed_out",
         NEW status \in {"passed", "skipped", "not_applicable"},
         NEW about \in Lists, about # <<>>
  PROVE  Candidate(Informational, p, status, rule, about) \in Fair
<1> DEFINE c == Candidate(Informational, p, status, rule, about)
<1>1. status \in Statuses BY DEF Statuses
<1>2. c = [severity |-> 0, priority |-> p, status |-> status, rule |-> rule,
           about |-> about]
  BY DEF Informational, Candidate
<1> HIDE DEF c
<1>3. c \in Offers BY <1>1, <1>2 DEF Offers
<1>4. c.severity = 0 /\ c.status = status /\ c.about = about /\ c.rule = rule BY <1>2
<1>5. c \in Fair BY <1>3, <1>4, OtherIs
<1> QED BY <1>5 DEF c

\* A rule that adds at most one.
LEMMA AtMostOneIs ==
  ASSUME NEW s, NEW c, s = <<>> \/ (s = <<c>> /\ c \in Fair)
  PROVE  s \in Seq(Fair) /\ (s # <<>> => c \in Fair /\ c \in ToSet(s))
<1>1. CASE s = <<>> BY <1>1
<1>2. CASE s = <<c>> /\ c \in Fair BY <1>2, FewIs
<1> QED BY <1>1, <1>2

-----------------------------------------------------------------------------
(* The rules, in the order the candidates are added.                       *)

\* The results a rule selects.
LEMMA SomeOf ==
  ASSUME Whole, NEW at, at \subseteq DOMAIN results
  PROVE  /\ Kept(results, at) \in Seq(Outcomes)
         /\ ToSet(Kept(results, at)) = {results[i] : i \in at}
         /\ First(Kept(results, at)) \in Seq(Outcomes)
         /\ First(Kept(results, at)) = <<>> <=> at = {}
         /\ at # {} => \E r \in {results[i] : i \in at} :
                         /\ First(Kept(results, at)) = <<r>> /\ r \in ToSet(results)
                         /\ r \in Outcomes /\ Made(r)
                         /\ Ids(<<r>>) = <<r.id>> /\ r.id \in ToSet(<<r.id>>)
                         /\ <<r.id>> \in Lists
<1>1. results \in Seq(Outcomes) BY DEF Whole
<1>2. ASSUME at # {}
      PROVE  \E r \in {results[i] : i \in at} :
               /\ First(Kept(results, at)) = <<r>> /\ r \in ToSet(results)
               /\ r \in Outcomes /\ Made(r)
               /\ Ids(<<r>>) = <<r.id>> /\ r.id \in ToSet(<<r.id>>)
               /\ <<r.id>> \in Lists
  <2>1. PICK i \in at : First(Kept(results, at)) = <<results[i]>> BY <1>1, <1>2, ChosenIs
  <2> DEFINE r == results[i]
  <2>2. r \in ToSet(results) /\ r \in Outcomes /\ Made(r) BY WholeIs
  <2>3. r.id \in Names BY <2>2 DEF Outcomes
  <2> HIDE DEF r
  <2>4. Ids(<<r>>) = <<r.id>> BY DEF Ids
  <2>5. r.id \in ToSet(<<r.id>>) /\ <<r.id>> \in Lists BY <2>3, FewIs DEF Lists
  <2> QED BY <2>1, <2>2, <2>4, <2>5 DEF r
<1>3. Kept(results, at) \in Seq(Outcomes) /\ ToSet(Kept(results, at)) = {results[i] : i \in at}
      /\ First(Kept(results, at)) \in Seq(Outcomes)
      /\ (First(Kept(results, at)) = <<>> <=> at = {})
  BY <1>1, ChosenIs
<1> QED BY <1>2, <1>3

\* A result of code PROXY_CONFIG_INVALID, or with that evidence, decides.
LEMMA InvalidDecides ==
  ASSUME Whole, NEW r \in ToSet(results),
         r.code = "PROXY_CONFIG_INVALID" \/ "PROXY_CONFIG_INVALID" \in r.says
  PROVE  r \in Standing
<1>1. Made(r) BY WholeIs
<1>2. CASE "PROXY_CONFIG_INVALID" \in r.says BY <1>2 DEF Standing
<1>3. CASE r.id = "http" /\ r.status = "failed"
  <2>1. ~IsPreflight(r) BY <1>1, <1>3 DEF Made, IsPreflight, Direct
  <2> QED BY <1>3, <2>1 DEF Standing, SetAside
<1> QED BY <1>1, <1>2, <1>3 DEF Made

\* The result of one check, if it failed.
LEMMA FailedIs ==
  ASSUME Whole, NEW id, NEW t, t = ByID(WithStatus(results, "failed"), id), t # <<>>
  PROVE  \E r \in ToSet(results) : /\ t = <<r>> /\ t[1] = r /\ r.status = "failed" /\ r.id = id
                                   /\ r \in Outcomes /\ Ids(t) = <<r.id>>
                                   /\ <<r.id>> \in Lists /\ r.id \in ToSet(<<r.id>>)
<1> DEFINE at == {i \in DOMAIN results : results[i].status = "failed"}
           failed == Kept(results, at)
           own == {i \in DOMAIN failed : failed[i].id = id}
<1>1. /\ failed \in Seq(Outcomes)
      /\ ToSet(failed) = {s \in ToSet(results) : s.status = "failed"}
  <2>1. at \subseteq DOMAIN results OBVIOUS
  <2>2. {results[i] : i \in at} = {s \in ToSet(results) : s.status = "failed"} BY DEF ToSet
  <2> HIDE DEF at
  <2> QED BY <2>1, <2>2, SomeOf
<1>2. t = First(Kept(failed, own)) BY DEF ByID, WithStatus, Where
<1>3. own \subseteq DOMAIN failed OBVIOUS
<1>4. own # {} BY <1>1, <1>2, <1>3, ChosenIs
<1>5. PICK i \in own : t = <<failed[i]>>
  <2> HIDE DEF own, failed
  <2>1. \E i \in own : First(Kept(failed, own)) = <<failed[i]>> BY <1>1, <1>3, <1>4, ChosenIs
  <2> QED BY <1>2, <2>1
<1> DEFINE r == failed[i]
<1>6. r \in ToSet(failed) /\ r.id = id BY DEF ToSet
<1>7. r \in ToSet(results) /\ r.status = "failed" /\ r \in Outcomes BY <1>1, <1>6, WholeIs
<1> HIDE DEF r, failed
<1>8. r.id \in Names BY <1>7 DEF Outcomes
<1>9. t = <<r>> BY <1>5 DEF r
<1>10. Ids(t) = <<r.id>> BY <1>9 DEF Ids
<1>11. r.id \in ToSet(<<r.id>>) /\ <<r.id>> \in Lists BY <1>8, FewIs DEF Lists
<1> QED BY <1>6, <1>7, <1>9, <1>10, <1>11

\* The diagnosis or a check that timed out.
LEMMA TimeoutIs ==
  ASSUME Whole, NEW f, f = Facts(results), NEW timedOut, NEW relevant,
         timedOut = First(WithCode(results, "OPERATION_TIMEOUT")),
         relevant = RelevantTimeouts(f)
  PROVE  /\ timedOut # <<>> => Blocker(1000, "diagnosis_timed_out", Ids(timedOut)) \in Fair
         /\ relevant # <<>> => Blocker(950, "check_timed_out", Ids(relevant)) \in Fair
<1>1. ASSUME timedOut # <<>>
      PROVE  Blocker(1000, "diagnosis_timed_out", Ids(timedOut)) \in Fair
  <2> DEFINE at == {i \in DOMAIN results : results[i].code = "OPERATION_TIMEOUT"}
  <2>1. timedOut = First(Kept(results, at)) BY DEF WithCode, Where
  <2>2. \A r \in {results[i] : i \in at} : r.code = "OPERATION_TIMEOUT" OBVIOUS
  <2>3. at \subseteq DOMAIN results OBVIOUS
  <2> HIDE DEF at
  <2>4. PICK r \in ToSet(results) :
          /\ timedOut = <<r>> /\ r.code = "OPERATION_TIMEOUT" /\ Made(r)
          /\ Ids(<<r>>) = <<r.id>> /\ r.id \in ToSet(<<r.id>>) /\ <<r.id>> \in Lists
    BY <1>1, <2>1, <2>2, <2>3, SomeOf
  <2>5. Standing # {} BY <2>4, DeadlineDecides DEF Made
  <2>6. Blocker(1000, "diagnosis_timed_out", <<r.id>>) \in Fair
    <3>1. Supports(r, "diagnosis_timed_out", <<r.id>>) BY <2>4, <2>5 DEF Supports
    <3> QED BY <2>4, <3>1, BlockerIs, PriorityIs DEF Rules
  <2> QED BY <2>4, <2>6
<1>2. ASSUME relevant # <<>>
      PROVE  Blocker(950, "check_timed_out", Ids(relevant)) \in Fair
  <2> DEFINE at == {i \in DOMAIN results :
                      results[i].code = "CHECK_TIMEOUT" /\ ~Excused(f, results[i])}
  <2>1. relevant = First(Kept(results, at))
    <3>1. f.results = results BY FactsIs
    <3> QED BY <3>1 DEF RelevantTimeouts, Where
  <2>2. \A r \in {results[i] : i \in at} : r.code = "CHECK_TIMEOUT" /\ ~Excused(f, r) OBVIOUS
  <2>3. at \subseteq DOMAIN results OBVIOUS
  <2> HIDE DEF at
  <2>4. PICK r \in ToSet(results) :
          /\ relevant = <<r>> /\ r.code = "CHECK_TIMEOUT" /\ ~Excused(f, r) /\ Made(r)
          /\ Ids(<<r>>) = <<r.id>> /\ r.id \in ToSet(<<r.id>>) /\ <<r.id>> \in Lists
    BY <1>2, <2>1, <2>2, <2>3, SomeOf
  <2>5. r \in Standing BY <2>4, SomeIsBlamed DEF Made, Blamed
  <2>6. ASSUME NEW d \in Standing PROVE Layer[d.id] <= Layer[r.id]
    <3>1. d \in ToSet(results) /\ Made(d) BY WholeIs DEF Standing
    <3>2. "PROXY_CONFIG_INVALID" \notin d.says BY <2>4, <3>1 DEF Made
    <3>3. d.status = "failed" /\ ~Auxiliary(f, d)
      BY <3>1, <3>2, ExcusedIs DEF Standing
    <3>4. ~(Layer[d.id] > Layer[r.id])
      BY <2>4, <3>1, <3>3, FactsIs DEF Excused, Superseded
    <3>5. Layer[d.id] \in Int /\ Layer[r.id] \in Int BY <3>1, WholeIs
    <3> QED BY <3>4, <3>5
  <2>7. Blocker(950, "check_timed_out", <<r.id>>) \in Fair
    <3>1. Supports(r, "check_timed_out", <<r.id>>) BY <2>4, <2>5, <2>6 DEF Supports
    <3> QED BY <2>4, <3>1, BlockerIs, PriorityIs DEF Rules
  <2> QED BY <2>4, <2>7
<1> QED BY <1>1, <1>2

\* The candidates of the first rules; an unusable proxy always has one.
LEMMA EarlyIs ==
  ASSUME Whole, NEW f, f = Facts(results)
  PROVE  /\ EarlyCandidates(f) \in Seq(Fair)
         /\ (\E r \in ToSet(results) : "PROXY_CONFIG_INVALID" \in r.says)
              => \E c \in ToSet(EarlyCandidates(f)) : c.severity = Blocking
<1> DEFINE timedOut == First(WithCode(results, "OPERATION_TIMEOUT"))
           relevant == RelevantTimeouts(f)
           target == ByID(WithStatus(results, "failed"), "target")
           invalid == InvalidProxy(results)
           dns == ByID(WithStatus(results, "failed"), "dns")
           A == When(timedOut # <<>>, Blocker(1000, "diagnosis_timed_out", Ids(timedOut)))
           B == When(relevant # <<>>, Blocker(950, "check_timed_out", Ids(relevant)))
           C == When(target # <<>>, Blocker(900, "invalid_target", Ids(target)))
           D == When(invalid # <<>>, Blocker(875, "proxy_invalid", Ids(invalid)))
           E == When(dns # <<>> /\ ~Excused(f, dns[1]), Blocker(700, "dns", Ids(dns)))
<1>1. EarlyCandidates(f) = A \o B \o C \o D \o E
  <2>1. f.results = results BY FactsIs
  <2> QED BY <2>1 DEF EarlyCandidates
<1>2. A \in Seq(Fair) /\ B \in Seq(Fair)
  <2> HIDE DEF timedOut, relevant
  <2>1. timedOut # <<>> => Blocker(1000, "diagnosis_timed_out", Ids(timedOut)) \in Fair
    BY TimeoutIs DEF timedOut
  <2>2. relevant # <<>> => Blocker(950, "check_timed_out", Ids(relevant)) \in Fair
    BY TimeoutIs DEF relevant
  <2>3. \/ A = <<>>
        \/ timedOut # <<>> /\ A = <<Blocker(1000, "diagnosis_timed_out", Ids(timedOut))>>
    BY DEF When
  <2>4. \/ B = <<>>
        \/ relevant # <<>> /\ B = <<Blocker(950, "check_timed_out", Ids(relevant))>>
    BY DEF When
  <2> HIDE DEF A, B
  <2>5. A \in Seq(Fair) BY <2>1, <2>3, AtMostOneIs
  <2>6. B \in Seq(Fair) BY <2>2, <2>4, AtMostOneIs
  <2> QED BY <2>5, <2>6
<1>3. C \in Seq(Fair)
  <2> HIDE DEF target
  <2>1. ASSUME target # <<>> PROVE Blocker(900, "invalid_target", Ids(target)) \in Fair
    <3>1. PICK r \in ToSet(results) :
            /\ r.status = "failed" /\ r.id = "target" /\ Ids(target) = <<r.id>>
            /\ <<r.id>> \in Lists /\ r.id \in ToSet(<<r.id>>)
      BY <2>1, FailedIs DEF target
    <3>2. r \in Standing
      <4>1. Made(r) BY WholeIs
      <4>2. ~IsPreflight(r) BY <3>1, <4>1 DEF Made, IsPreflight, Direct
      <4> QED BY <3>1, <4>2 DEF Standing, SetAside
    <3>3. Supports(r, "invalid_target", <<r.id>>) BY <3>1, <3>2 DEF Supports
    <3>4. Blocker(900, "invalid_target", <<r.id>>) \in Fair
      BY <3>1, <3>3, BlockerIs, PriorityIs DEF Rules
    <3> QED BY <3>1, <3>4
  <2> DEFINE c == Blocker(900, "invalid_target", Ids(target))
  <2>2. C = <<>> \/ (target # <<>> /\ C = <<c>>) BY DEF When
  <2> HIDE DEF C
  <2>3. C = <<>> \/ (C = <<c>> /\ c \in Fair) BY <2>1, <2>2
  <2> HIDE DEF c
  <2> QED BY <2>3, AtMostOneIs
<1> DEFINE bad == {i \in DOMAIN results : \/ results[i].code = "PROXY_CONFIG_INVALID"
                                          \/ "PROXY_CONFIG_INVALID" \in results[i].says}
<1>4. /\ invalid \in Seq(Outcomes) /\ ToSet(invalid) = {results[i] : i \in bad}
      /\ ToSet(invalid) \subseteq Standing
  <2>1. invalid = Kept(results, bad) BY DEF InvalidProxy, Where
  <2>2. bad \subseteq DOMAIN results OBVIOUS
  <2>3. ASSUME NEW i \in bad PROVE results[i] \in Standing
    <3>1. results[i] \in ToSet(results) BY DEF ToSet
    <3> QED BY <3>1, InvalidDecides
  <2> HIDE DEF bad, invalid
  <2> QED BY <2>1, <2>2, <2>3, SomeOf
<1>5. ASSUME invalid # <<>>
      PROVE  Blocker(875, "proxy_invalid", Ids(invalid)) \in Fair
             /\ Blocker(875, "proxy_invalid", Ids(invalid)).severity = 3
  <2> HIDE DEF invalid, bad
  <2>1. PICK r : r \in ToSet(invalid)
    <3>1. 1 \in DOMAIN invalid BY <1>4, <1>5, SequenceIs
    <3> QED BY <3>1 DEF ToSet
  <2>2. r \in Standing /\ r \in ToSet(results) BY <1>4, <2>1 DEF Standing
  <2>3. Ids(invalid) \in Lists /\ r.id \in ToSet(Ids(invalid)) BY <1>4, <2>1, IdsIs
  <2>4. Supports(r, "proxy_invalid", Ids(invalid)) BY <2>2, <2>3 DEF Supports
  <2> QED BY <2>3, <2>4, BlockerIs, PriorityIs DEF Rules
<1>6. D \in Seq(Fair) /\ (invalid # <<>> => \E c \in ToSet(D) : c.severity = Blocking)
  <2> HIDE DEF invalid
  <2> DEFINE c == Blocker(875, "proxy_invalid", Ids(invalid))
  <2>1. D = IF invalid # <<>> THEN <<c>> ELSE <<>> BY DEF When
  <2>2. <<c>> # <<>> OBVIOUS
  <2> HIDE DEF D, c
  <2>3. D = <<>> \/ (D = <<c>> /\ c \in Fair) BY <1>5, <2>1 DEF c
  <2>4. D \in Seq(Fair) /\ (D # <<>> => c \in ToSet(D)) BY <2>3, AtMostOneIs
  <2>5. invalid # <<>> => c \in ToSet(D) /\ c.severity = 3 BY <1>5, <2>1, <2>2, <2>4 DEF c
  <2> QED BY <2>4, <2>5 DEF Blocking
<1>7. E \in Seq(Fair)
  <2> HIDE DEF dns
  <2>1. ASSUME dns # <<>>, ~Excused(f, dns[1]) PROVE Blocker(700, "dns", Ids(dns)) \in Fair
    <3>1. PICK r \in ToSet(results) :
            /\ dns[1] = r /\ r.status = "failed" /\ r.id = "dns" /\ Ids(dns) = <<r.id>>
            /\ <<r.id>> \in Lists /\ r.id \in ToSet(<<r.id>>)
      BY <2>1, FailedIs DEF dns
    <3>2. r \in Standing BY <2>1, <3>1, SomeIsBlamed DEF Blamed
    <3>3. Supports(r, "dns", <<r.id>>) BY <3>1, <3>2 DEF Supports
    <3>4. Blocker(700, "dns", <<r.id>>) \in Fair BY <3>1, <3>3, BlockerIs, PriorityIs DEF Rules
    <3> QED BY <3>1, <3>4
  <2>2. \/ E = <<>>
        \/ dns # <<>> /\ ~Excused(f, dns[1]) /\ E = <<Blocker(700, "dns", Ids(dns))>>
    BY DEF When
  <2> HIDE DEF E
  <2> QED BY <2>1, <2>2, AtMostOneIs
<1> HIDE DEF A, B, C, D, E
<1> DEFINE AB == A \o B
           ABC == AB \o C
           ABCD == ABC \o D
<1>8. ABCD \o E \in Seq(Fair) /\ ToSet(D) \subseteq ToSet(ABCD \o E)
  <2>1. AB \in Seq(Fair) BY <1>2, JoinedIs
  <2> HIDE DEF AB
  <2>2. ABC \in Seq(Fair) BY <1>3, <2>1, JoinedIs
  <2> HIDE DEF ABC
  <2>3. ABCD \in Seq(Fair) /\ ToSet(D) \subseteq ToSet(ABCD) BY <1>6, <2>2, JoinedIs
  <2> HIDE DEF ABCD
  <2>4. ABCD \o E \in Seq(Fair) /\ ToSet(ABCD) \subseteq ToSet(ABCD \o E)
    BY <1>7, <2>3, JoinedIs
  <2> QED BY <2>3, <2>4
<1>9. ASSUME NEW r \in ToSet(results), "PROXY_CONFIG_INVALID" \in r.says
      PROVE  invalid # <<>>
  <2>1. r \in ToSet(invalid) BY <1>4, <1>9 DEF ToSet
  <2>2. invalid = <<>> => ToSet(invalid) = {} BY DEF ToSet
  <2> QED BY <2>1, <2>2
<1> QED BY <1>1, <1>6, <1>8, <1>9

\* A list of one name.
LEMMA OneIs ==
  ASSUME NEW n \in Names
  PROVE  <<n>> \in Lists /\ n \in ToSet(<<n>>) /\ <<n>> # <<>>
BY FewIs DEF Lists

\* A rule of one check looks at its result, if it failed and is not excused a blocker.
LEMMA BlameIs ==
  ASSUME Whole, NEW f, f = Facts(results), NEW r \in ToSet(results), r.status = "failed",
         ~Excused(f, r), NEW p \in Priorities, NEW rule \in Rules, rule # "check_timed_out"
  PROVE  Blocker(p, rule, <<r.id>>) \in Fair /\ Blocker(p, rule, <<r.id>>).severity = 3
<1>1. r \in Standing BY SomeIsBlamed DEF Blamed
<1>2. r.id \in Names BY WholeIs DEF Outcomes
<1>3. Supports(r, rule, <<r.id>>) BY <1>1, <1>2, OneIs DEF Supports
<1>4. <<r.id>> \in Lists BY <1>2, OneIs
<1> QED BY <1>3, <1>4, BlockerIs

\* The rule of TCP.
LEMMA TCPIs ==
  ASSUME Whole, NEW f, f = Facts(results), NEW r, r = results[5]
  PROVE  TCPCandidate(f, r) \in Seq(Fair)
<1>1. r \in ToSet(results) /\ r.id = "tcp" BY WholeIs, PlanIs DEF Whole
<1>2. "tcp" \in Names BY DEF Names
<1> DEFINE one == Degraded(700, "one_family", <<"tcp">>)
           mixed == Degraded(600, "mixed_tcp", <<"tcp">>)
           failed == Blocker(650, "tcp", <<"tcp">>)
<1>3. one \in Fair /\ mixed \in Fair
  <2>1. <<"tcp">> \in Lists /\ <<"tcp">> # <<>> BY <1>2, OneIs
  <2>2. 700 \in Priorities /\ 600 \in Priorities BY PriorityIs
  <2>3. "one_family" \in Rules /\ "mixed_tcp" \in Rules BY DEF Rules
  <2> QED BY <2>1, <2>2, <2>3, DegradedIs
<1>4. r.status = "failed" /\ ~Excused(f, r) => failed \in Fair
  <2>1. 650 \in Priorities /\ "tcp" \in Rules BY PriorityIs DEF Rules
  <2> QED BY <1>1, <2>1, BlameIs
<1>5. \/ TCPCandidate(f, r) = <<>> \/ TCPCandidate(f, r) = <<one>>
      \/ TCPCandidate(f, r) = <<mixed>>
      \/ (r.status = "failed" /\ ~Excused(f, r) /\ TCPCandidate(f, r) = <<failed>>)
  BY DEF TCPCandidate
<1> HIDE DEF one, mixed, failed
<1> QED BY <1>3, <1>4, <1>5, AtMostOneIs

\* The rule of TLS.
LEMMA TLSIs ==
  ASSUME Whole, NEW f, f = Facts(results), NEW r, r = results[6]
  PROVE  TLSCandidate(f, r) \in Seq(Fair)
<1>1. r \in ToSet(results) /\ r.id = "tls" /\ Made(r) BY WholeIs, PlanIs DEF Whole
<1> DEFINE certificate == Blocker(800, "certificate", <<"tls">>)
           failed == Blocker(600, "tls", <<"tls">>)
<1>2. r.status = "failed" /\ ~Excused(f, r) => certificate \in Fair /\ failed \in Fair
  <2>1. 800 \in Priorities /\ 600 \in Priorities BY PriorityIs
  <2>2. "certificate" \in Rules /\ "tls" \in Rules BY DEF Rules
  <2> QED BY <1>1, <2>1, <2>2, BlameIs
<1>3. r.code = "CERTIFICATE" => r.status = "failed" BY <1>1 DEF Made
<1>4. \/ TLSCandidate(f, r) = <<>>
      \/ /\ r.status = "failed" /\ ~Excused(f, r)
         /\ TLSCandidate(f, r) = <<certificate>> \/ TLSCandidate(f, r) = <<failed>>
  BY <1>3 DEF TLSCandidate, Blocker, Excused
<1> HIDE DEF certificate, failed
<1> QED BY <1>2, <1>4, AtMostOneIs

\* Lists of names that are put together.
LEMMA ListsJoin ==
  ASSUME NEW s \in Lists, NEW t \in Lists
  PROVE  s \o t \in Lists /\ ToSet(s \o t) = ToSet(s) \cup ToSet(t)
BY JoinedIs DEF Lists

\* What a verdict on the HTTP check names.
LEMMA RelatedIs ==
  ASSUME Whole, NEW f, f = Facts(results), NEW s, s = <<>> \/ s = Ids(f.environment)
  PROVE  /\ s \o <<"http">> \o Ids(f.discrepancies) \in Lists
         /\ "http" \in ToSet(s \o <<"http">> \o Ids(f.discrepancies))
         /\ s \o <<"http">> \o Ids(f.discrepancies) # <<>>
<1>1. s \in Lists
  <2>1. f.environment = <<results[2]>> /\ results[2] \in Outcomes BY FactsIs, WholeIs
  <2>2. f.environment \in Seq(Outcomes) BY <2>1, FewIs
  <2>3. Ids(f.environment) \in Lists BY <2>2, IdsIs
  <2>4. <<>> \in Lists BY DEF Lists
  <2> QED BY <2>3, <2>4
<1>2. Ids(f.discrepancies) \in Lists BY FactsIs, IdsIs
<1>3. <<"http">> \in Lists /\ "http" \in ToSet(<<"http">>) BY OneIs DEF Names
<1> DEFINE t == s \o <<"http">>
           u == t \o Ids(f.discrepancies)
<1>4. t \in Lists /\ "http" \in ToSet(t) BY <1>1, <1>3, ListsJoin
<1> HIDE DEF t
<1>5. u \in Lists /\ "http" \in ToSet(u) BY <1>2, <1>4, ListsJoin
<1>6. u # <<>>
  <2>1. u = <<>> => ToSet(u) = {} BY DEF ToSet
  <2> QED BY <1>5, <2>1
<1> QED BY <1>5, <1>6 DEF t

\* The rule of HTTP; it tells of every discrepancy of a response.
LEMMA HTTPIs ==
  ASSUME Whole, NEW f, f = Facts(results), NEW h, h = results[7]
  PROVE  /\ HTTPCandidate(f, h) \in Seq(Fair)
         /\ h.status \in {"passed", "warning"} /\ f.discrepancies # <<>> =>
              \E c \in ToSet(HTTPCandidate(f, h)) : c.severity = 1
<1>1. h \in ToSet(results) /\ h.id = "http" /\ Made(h) BY WholeIs, PlanIs DEF Whole
<1> DEFINE proxied == f.route \in {"mixed", "proxy"} \/ (f.route = "none" /\ f.selected)
           related == (IF proxied THEN Ids(f.environment) ELSE <<>>) \o <<"http">>
                        \o Ids(f.discrepancies)
           redirects == Blocker(850, "redirects", related)
           response == Degraded(900, "application_error", related)
           byProxy == Degraded(950, "reached_by_proxy", related)
           despite == Degraded(950, "reached_despite_preflight", related)
           plain == Candidate(Informational, 100, "passed", "request_completed", <<"http">>)
           warning == Degraded(850, "http_warning", related)
           failed == Blocker(550, "http_transport", related)
           mild == {response, byProxy, despite, warning}
<1>2. related \in Lists /\ "http" \in ToSet(related) /\ related # <<>>
  <2> DEFINE s == IF proxied THEN Ids(f.environment) ELSE <<>>
  <2>1. s = <<>> \/ s = Ids(f.environment) OBVIOUS
  <2> HIDE DEF s
  <2> QED BY <2>1, RelatedIs DEF s
<1> HIDE DEF proxied, related
<1>3. \A c \in mild : c \in Fair /\ c.severity = 1
  <2>1. 900 \in Priorities /\ 950 \in Priorities /\ 850 \in Priorities BY PriorityIs
  <2>2. /\ "application_error" \in Rules /\ "reached_by_proxy" \in Rules
        /\ "reached_despite_preflight" \in Rules /\ "http_warning" \in Rules
    BY DEF Rules
  <2>3. response \in Fair /\ response.severity = 1 BY <1>2, <2>1, <2>2, DegradedIs
  <2>4. byProxy \in Fair /\ byProxy.severity = 1 BY <1>2, <2>1, <2>2, DegradedIs
  <2>5. despite \in Fair /\ despite.severity = 1 BY <1>2, <2>1, <2>2, DegradedIs
  <2>6. warning \in Fair /\ warning.severity = 1 BY <1>2, <2>1, <2>2, DegradedIs
  <2> HIDE DEF response, byProxy, despite, warning
  <2> QED BY <2>3, <2>4, <2>5, <2>6
<1>4. plain \in Fair
  <2>1. 100 \in Priorities /\ "request_completed" \in Rules BY PriorityIs DEF Rules
  <2>2. <<"http">> \in Lists /\ <<"http">> # <<>> BY OneIs DEF Names
  <2> QED BY <2>1, <2>2, PlainIs
<1>5. h.status = "failed" => redirects \in Fair /\ failed \in Fair
  <2> SUFFICES ASSUME h.status = "failed" PROVE redirects \in Fair /\ failed \in Fair
    OBVIOUS
  <2>1. h \in Standing
    <3>1. ~IsPreflight(h) BY <1>1 DEF IsPreflight, Made, Direct
    <3> QED BY <1>1, <3>1 DEF Standing, SetAside
  <2>2. Supports(h, "redirects", related) /\ Supports(h, "http_transport", related)
    BY <1>1, <1>2, <2>1 DEF Supports
  <2>3. 850 \in Priorities /\ 550 \in Priorities BY PriorityIs
  <2>4. "redirects" \in Rules /\ "http_transport" \in Rules BY DEF Rules
  <2> QED BY <1>2, <2>2, <2>3, <2>4, BlockerIs
<1>6. h.code = "REDIRECTS" => h.status = "failed" BY <1>1 DEF Made
<1>7. h.code = "RESPONSE" => h.status = "warning" BY <1>1 DEF Made
<1>8. HTTPCandidate(f, h) =
        CASE h.code = "REDIRECTS" -> <<redirects>>
          [] h.code = "RESPONSE" -> <<response>>
          [] h.code \notin {"REDIRECTS", "RESPONSE"} /\ h.status = "passed" ->
               IF proxied THEN <<byProxy>>
               ELSE IF f.discrepancies # <<>> THEN <<despite>> ELSE <<plain>>
          [] h.code \notin {"REDIRECTS", "RESPONSE"} /\ h.status = "warning" -> <<warning>>
          [] /\ h.code \notin {"REDIRECTS", "RESPONSE"}
             /\ h.status = "failed" /\ h.code # "PROXY_CONFIG_INVALID" -> <<failed>>
          [] OTHER -> <<>>
  BY DEF HTTPCandidate, proxied, related
<1> HIDE DEF redirects, response, byProxy, despite, plain, warning, failed
<1>9. \/ HTTPCandidate(f, h) = <<>> /\ h.status \notin {"passed", "warning"}
      \/ h.status = "failed" /\ (HTTPCandidate(f, h) = <<redirects>>
                                 \/ HTTPCandidate(f, h) = <<failed>>)
      \/ \E c \in mild : HTTPCandidate(f, h) = <<c>>
      \/ f.discrepancies = <<>> /\ HTTPCandidate(f, h) = <<plain>>
  <2> HIDE DEF mild
  <2>1. response \in mild /\ byProxy \in mild /\ despite \in mild /\ warning \in mild
    BY DEF mild
  <2> QED BY <1>6, <1>7, <1>8, <2>1
<1> HIDE DEF mild
<1>10. HTTPCandidate(f, h) \in Seq(Fair) BY <1>3, <1>4, <1>5, <1>9, AtMostOneIs
<1>11. ASSUME h.status \in {"passed", "warning"}, f.discrepancies # <<>>
       PROVE  \E c \in ToSet(HTTPCandidate(f, h)) : c.severity = 1
  <2>1. PICK c \in mild : HTTPCandidate(f, h) = <<c>> BY <1>9, <1>11
  <2>2. c \in ToSet(<<c>>) BY FewIs
  <2> QED BY <1>3, <2>1, <2>2
<1> QED BY <1>10, <1>11


\* A sequence made of another, element by element.
LEMMA EachIs ==
  ASSUME NEW S, NEW T, NEW s \in Seq(S), NEW g, g = [i \in DOMAIN s |-> g[i]],
         \A i \in DOMAIN s : g[i] \in T
  PROVE  g \in Seq(T) /\ \A i \in DOMAIN s : g[i] \in ToSet(g)
<1>1. Len(s) \in Nat /\ DOMAIN s = 1 .. Len(s) BY SequenceIs
<1>2. g = [i \in 1 .. Len(s) |-> g[i]] /\ DOMAIN g = 1 .. Len(s) BY <1>1
<1>3. g \in [1 .. Len(s) -> T] BY <1>1, <1>2
<1> QED BY <1>1, <1>2, <1>3 DEF ToSet

\* Every failure that may be blamed has a candidate.
LEMMA FailuresAre ==
  ASSUME Whole, NEW f, f = Facts(results)
  PROVE  /\ FailureCandidates(f) \in Seq(Fair)
         /\ Blamed(f) # {} => \E c \in ToSet(FailureCandidates(f)) : c.severity = 3
<1> DEFINE at == {i \in DOMAIN results : results[i].status = "failed" /\ ~Excused(f, results[i])}
           rs == Kept(results, at)
           g == FailureCandidates(f)
<1>1. g = [i \in DOMAIN rs |-> Blocker(100, "a_failure", <<rs[i].id>>)]
  <2>1. f.results = results BY FactsIs
  <2> QED BY <2>1 DEF FailureCandidates, Where, Each
<1>2. rs \in Seq(Outcomes) /\ ToSet(rs) = Blamed(f)
  <2>1. at \subseteq DOMAIN results OBVIOUS
  <2>2. {results[i] : i \in at} = Blamed(f) BY DEF Blamed, ToSet
  <2> HIDE DEF at
  <2> QED BY <2>1, <2>2, SomeOf
<1> HIDE DEF at, rs, g
<1>3. ASSUME NEW i \in DOMAIN rs PROVE g[i] \in Fair /\ g[i].severity = 3
  <2>1. rs[i] \in Blamed(f) BY <1>2 DEF ToSet
  <2>2. rs[i] \in ToSet(results) /\ rs[i].status = "failed" /\ ~Excused(f, rs[i])
    BY <2>1 DEF Blamed
  <2>3. 100 \in Priorities /\ "a_failure" \in Rules BY PriorityIs DEF Rules
  <2>4. "a_failure" # "check_timed_out" OBVIOUS
  <2> QED BY <1>1, <2>2, <2>3, <2>4, BlameIs
<1>4. g = [i \in DOMAIN rs |-> g[i]] BY <1>1
<1>5. g \in Seq(Fair) /\ \A i \in DOMAIN rs : g[i] \in ToSet(g) BY <1>2, <1>3, <1>4, EachIs
<1>6. Blamed(f) # {} => \E c \in ToSet(g) : c.severity = 3
  <2>1. Blamed(f) # {} => \E i \in DOMAIN rs : TRUE BY <1>2 DEF ToSet
  <2> QED BY <1>3, <1>5, <2>1
<1> QED BY <1>5, <1>6 DEF g

\* So has a cancelled check.
LEMMA CancelledIs ==
  ASSUME Whole, NEW f, f = Facts(results)
  PROVE  /\ CancelledCandidates(f) \in Seq(Fair)
         /\ (\E r \in ToSet(results) : r.status = "cancelled")
              => \E c \in ToSet(CancelledCandidates(f)) : c.severity = 2
<1> DEFINE at == {i \in DOMAIN results : results[i].status = "cancelled"}
           first == First(Kept(results, at))
           c == Candidate(2, 500, "cancelled", "cancelled", Ids(first))
<1>1. CancelledCandidates(f) = IF first # <<>> THEN <<c>> ELSE <<>>
  <2>1. f.results = results BY FactsIs
  <2> QED BY <2>1 DEF CancelledCandidates, WithStatus, Where, When, Interrupted
<1>2. at \subseteq DOMAIN results /\ (\A r \in {results[i] : i \in at} : r.status = "cancelled")
      /\ ((\E r \in ToSet(results) : r.status = "cancelled") => at # {})
  BY DEF ToSet
<1> HIDE DEF at
<1>3. ASSUME first # <<>>
      PROVE  c \in Fair /\ c.severity = 2
  <2>1. PICK r \in ToSet(results) : /\ first = <<r>> /\ r.status = "cancelled"
                                    /\ Ids(<<r>>) = <<r.id>> /\ <<r.id>> \in Lists
    BY <1>2, <1>3, SomeOf
  <2>2. "cancelled" \in Statuses /\ "cancelled" \in Rules /\ 500 \in Priorities
    BY PriorityIs DEF Statuses, Rules
  <2>3. c = [severity |-> 2, priority |-> 500, status |-> "cancelled", rule |-> "cancelled",
             about |-> <<r.id>>]
    BY <2>1 DEF Candidate
  <2>4. <<r.id>> # <<>> OBVIOUS
  <2> HIDE DEF c
  <2>5. c \in Offers BY <2>1, <2>2, <2>3 DEF Offers
  <2>6. c.severity = 2 /\ c.status = "cancelled" /\ c.about = <<r.id>> /\ c.rule = "cancelled"
    BY <2>3
  <2>7. c.rule # "check_timed_out" BY <2>6
  <2>8. c \in Fair BY <2>1, <2>4, <2>5, <2>6, <2>7, OtherIs
  <2> QED BY <2>6, <2>8
<1>4. first = <<>> <=> at = {} BY <1>2, SomeOf
<1> HIDE DEF first, c
<1>5. CancelledCandidates(f) \in Seq(Fair)
      /\ (CancelledCandidates(f) # <<>> => c \in ToSet(CancelledCandidates(f)))
  BY <1>1, <1>3, AtMostOneIs
<1>6. <<c>> # <<>> OBVIOUS
<1> QED BY <1>1, <1>2, <1>3, <1>4, <1>5, <1>6

\* The rule of the proxy.
LEMMA ProxyIs ==
  ASSUME Whole, NEW f, f = Facts(results), NEW r
  PROVE  ProxyCandidate(f, r) \in Seq(Fair)
<1> DEFINE disabled == Degraded(650, "direct_with_proxy_disabled", <<"environment">>)
           selected == Degraded(400, "proxy_selected", <<"environment">>)
<1>1. disabled \in Fair /\ selected \in Fair
  <2>1. <<"environment">> \in Lists /\ <<"environment">> # <<>> BY OneIs DEF Names
  <2>2. 650 \in Priorities /\ 400 \in Priorities BY PriorityIs
  <2>3. "direct_with_proxy_disabled" \in Rules /\ "proxy_selected" \in Rules BY DEF Rules
  <2> QED BY <2>1, <2>2, <2>3, DegradedIs
<1>2. \/ ProxyCandidate(f, r) = <<>> \/ ProxyCandidate(f, r) = <<disabled>>
      \/ ProxyCandidate(f, r) = <<selected>>
  BY DEF ProxyCandidate, When
<1> HIDE DEF disabled, selected
<1> QED BY <1>1, <1>2, AtMostOneIs

\* The candidates of the warnings.
LEMMA WarningsAre ==
  ASSUME Whole, NEW f, f = Facts(results)
  PROVE  WarningCandidates(f) \in Seq(Fair)
<1> DEFINE at == {i \in DOMAIN results :
                    results[i].status = "warning" /\ ~Auxiliary(f, results[i])}
           rs == Kept(results, at)
           g == WarningCandidates(f)
<1>1. g = [i \in DOMAIN rs |-> Degraded(50, "a_warning", <<rs[i].id>>)]
  <2>1. f.results = results BY FactsIs
  <2> QED BY <2>1 DEF WarningCandidates, Where, Each
<1>2. rs \in Seq(Outcomes)
  <2>1. at \subseteq DOMAIN results OBVIOUS
  <2> HIDE DEF at
  <2> QED BY <2>1, SomeOf
<1> HIDE DEF at, rs, g
<1>3. ASSUME NEW i \in DOMAIN rs PROVE g[i] \in Fair
  <2>1. rs[i] \in Outcomes BY <1>2, SequenceIs
  <2>2. rs[i].id \in Names BY <2>1 DEF Outcomes
  <2>3. <<rs[i].id>> \in Lists /\ <<rs[i].id>> # <<>> BY <2>2, OneIs
  <2>4. 50 \in Priorities /\ "a_warning" \in Rules BY PriorityIs DEF Rules
  <2> QED BY <1>1, <2>3, <2>4, DegradedIs
<1>4. g = [i \in DOMAIN rs |-> g[i]] BY <1>1
<1>5. g \in Seq(Fair) BY <1>2, <1>3, <1>4, EachIs
<1> QED BY <1>5 DEF g

\* What is said when nothing else is.
LEMMA ClosingIs ==
  ASSUME Whole, NEW f, f = Facts(results)
  PROVE  /\ ClosingCandidates(f) \in Seq(Fair)
         /\ (\E r \in ToSet(results) : r.status = "passed") => ClosingCandidates(f) # <<>>
<1> DEFINE statuses == {results[i].status : i \in DOMAIN results}
           at == {i \in DOMAIN results : results[i].status = "passed"}
           passed == Kept(results, at)
           none == Candidate(Informational, 25, "not_applicable", "not_applicable", Ids(results))
           skipped == Candidate(Informational, 20, "skipped", "skipped", Ids(results))
           done == Candidate(Informational, 10, "passed", "completed", <<Last(passed).id>>)
<1>1. ClosingCandidates(f) =
        CASE statuses = {"not_applicable"} -> <<none>>
          [] "skipped" \in statuses /\ statuses \subseteq {"skipped", "not_applicable"} ->
               <<skipped>>
          [] OTHER -> IF passed # <<>> THEN <<done>> ELSE <<>>
  <2>1. f.results = results BY FactsIs
  <2> QED BY <2>1 DEF ClosingCandidates, WithStatus, Where, When
<1>2. passed \in Seq(Outcomes) /\ ToSet(passed) = {results[i] : i \in at}
  <2>1. at \subseteq DOMAIN results OBVIOUS
  <2> HIDE DEF at
  <2> QED BY <2>1, SomeOf
<1>3. none \in Fair /\ skipped \in Fair
  <2>1. Ids(results) \in Lists /\ Ids(results) # <<>>
    BY IdsIs, WholeIs DEF Whole
  <2>2. 25 \in Priorities /\ 20 \in Priorities BY PriorityIs
  <2>3. "not_applicable" \in Rules /\ "skipped" \in Rules BY DEF Rules
  <2> QED BY <2>1, <2>2, <2>3, PlainIs
<1>4. passed # <<>> => done \in Fair
  <2> SUFFICES ASSUME passed # <<>> PROVE done \in Fair
    OBVIOUS
  <2> HIDE DEF passed
  <2>1. Len(passed) \in DOMAIN passed /\ \A i \in DOMAIN passed : passed[i] \in Outcomes
    <3>1. Len(passed) \in Nat /\ Len(passed) >= 1 /\ DOMAIN passed = 1 .. Len(passed)
          /\ \A i \in DOMAIN passed : passed[i] \in Outcomes
      BY <1>2, SequenceIs
    <3> QED BY <3>1
  <2>2. Last(passed) \in Outcomes BY <2>1 DEF Last
  <2>3. Last(passed).id \in Names BY <2>2 DEF Outcomes
  <2>4. <<Last(passed).id>> \in Lists /\ <<Last(passed).id>> # <<>> BY <2>3, OneIs
  <2>5. 10 \in Priorities /\ "completed" \in Rules BY PriorityIs DEF Rules
  <2> QED BY <2>4, <2>5, PlainIs
<1>5. ASSUME NEW r \in ToSet(results), r.status = "passed"
      PROVE  ClosingCandidates(f) # <<>>
  <2>1. "passed" \in statuses BY <1>5 DEF ToSet
  <2>2. passed # <<>>
    <3>1. r \in ToSet(passed) BY <1>2, <1>5 DEF ToSet
    <3>2. passed = <<>> => ToSet(passed) = {} BY DEF ToSet
    <3> QED BY <3>1, <3>2
  <2> HIDE DEF statuses, passed, done, none, skipped
  <2>3. statuses # {"not_applicable"} /\ ~(statuses \subseteq {"skipped", "not_applicable"})
    BY <2>1
  <2>4. ClosingCandidates(f) = <<done>> BY <1>1, <2>2, <2>3
  <2>5. <<done>> # <<>> OBVIOUS
  <2> QED BY <2>4, <2>5
<1>6. \/ ClosingCandidates(f) = <<>> \/ ClosingCandidates(f) = <<none>>
      \/ ClosingCandidates(f) = <<skipped>>
      \/ passed # <<>> /\ ClosingCandidates(f) = <<done>>
  <2> HIDE DEF statuses, passed, done, none, skipped
  <2> QED BY <1>1
<1> HIDE DEF passed, none, skipped, done
<1> QED BY <1>3, <1>4, <1>5, <1>6, AtMostOneIs

\* Every candidate is supported by the results, and what there is to say has one.
LEMMA CandidatesAre ==
  ASSUME Whole, NEW f, f = Facts(results)
  PROVE  /\ Candidates(f) \in Seq(Fair)
         /\ Standing # {} => \E c \in ToSet(Candidates(f)) : c.severity = 3
         /\ (\E r \in ToSet(results) : r.status = "cancelled")
              => \E c \in ToSet(Candidates(f)) : c.severity = 2
         /\ (\E r \in ToSet(results) : r.status = "failed")
              => \E c \in ToSet(Candidates(f)) : c.severity \in {1, 2, 3}
         /\ Candidates(f) # <<>>
<1> DEFINE A == EarlyCandidates(f)
           B == TCPCandidate(f, results[5])
           C == TLSCandidate(f, results[6])
           D == HTTPCandidate(f, results[7])
           E == FailureCandidates(f)
           F == CancelledCandidates(f)
           G == ProxyCandidate(f, results[2])
           H == WarningCandidates(f)
           I == ClosingCandidates(f)
<1>1. Candidates(f) = A \o B \o C \o D \o E \o F \o G \o H \o I
  <2>1. f.results = results BY FactsIs
  <2>2. ASSUME NEW i \in 1 .. 7
        PROVE  ByID(results, Plan[i]) # <<>> /\ ByID(results, Plan[i])[1] = results[i]
    BY ByIDIs
  <2>3. /\ Of(f.results, "tcp", LAMBDA r : TCPCandidate(f, r)) = B
        /\ Of(f.results, "tls", LAMBDA r : TLSCandidate(f, r)) = C
        /\ Of(f.results, "http", LAMBDA r : HTTPCandidate(f, r)) = D
        /\ Of(f.results, "environment", LAMBDA r : ProxyCandidate(f, r)) = G
    BY <2>1, <2>2, PlanIs DEF Of
  <2> QED BY <2>3 DEF Candidates
<1>2. /\ A \in Seq(Fair) /\ B \in Seq(Fair) /\ C \in Seq(Fair) /\ D \in Seq(Fair)
      /\ E \in Seq(Fair) /\ F \in Seq(Fair) /\ G \in Seq(Fair) /\ H \in Seq(Fair)
      /\ I \in Seq(Fair)
  BY EarlyIs, TCPIs, TLSIs, HTTPIs, FailuresAre, CancelledIs, ProxyIs, WarningsAre, ClosingIs
<1>3. /\ (\E r \in ToSet(results) : "PROXY_CONFIG_INVALID" \in r.says)
           => \E c \in ToSet(A) : c.severity = 3
      /\ results[7].status \in {"passed", "warning"} /\ f.discrepancies # <<>>
           => \E c \in ToSet(D) : c.severity = 1
      /\ Blamed(f) # {} => \E c \in ToSet(E) : c.severity = 3
      /\ (\E r \in ToSet(results) : r.status = "cancelled") => \E c \in ToSet(F) : c.severity = 2
      /\ (\E r \in ToSet(results) : r.status = "passed") => I # <<>>
  BY EarlyIs, HTTPIs, FailuresAre, CancelledIs, ClosingIs DEF Blocking
<1> HIDE DEF A, B, C, D, E, F, G, H, I
<1>4. /\ Candidates(f) \in Seq(Fair)
      /\ ToSet(A) \cup ToSet(D) \cup ToSet(E) \cup ToSet(F) \cup ToSet(I)
           \subseteq ToSet(Candidates(f))
  <2> DEFINE a == A \o B
             b == a \o C
             c == b \o D
             d == c \o E
             e == d \o F
             g == e \o G
             h == g \o H
  <2>1. a \in Seq(Fair) /\ ToSet(A) \subseteq ToSet(a) BY <1>2, JoinedIs
  <2> HIDE DEF a
  <2>2. b \in Seq(Fair) /\ ToSet(a) \subseteq ToSet(b) BY <1>2, <2>1, JoinedIs
  <2> HIDE DEF b
  <2>3. c \in Seq(Fair) /\ ToSet(b) \cup ToSet(D) \subseteq ToSet(c) BY <1>2, <2>2, JoinedIs
  <2> HIDE DEF c
  <2>4. d \in Seq(Fair) /\ ToSet(c) \cup ToSet(E) \subseteq ToSet(d) BY <1>2, <2>3, JoinedIs
  <2> HIDE DEF d
  <2>5. e \in Seq(Fair) /\ ToSet(d) \cup ToSet(F) \subseteq ToSet(e) BY <1>2, <2>4, JoinedIs
  <2> HIDE DEF e
  <2>6. g \in Seq(Fair) /\ ToSet(e) \subseteq ToSet(g) BY <1>2, <2>5, JoinedIs
  <2> HIDE DEF g
  <2>7. h \in Seq(Fair) /\ ToSet(g) \subseteq ToSet(h) BY <1>2, <2>6, JoinedIs
  <2> HIDE DEF h
  <2>8. h \o I \in Seq(Fair) /\ ToSet(h) \cup ToSet(I) \subseteq ToSet(h \o I)
    BY <1>2, <2>7, JoinedIs
  <2>9. Candidates(f) = h \o I BY <1>1 DEF a, b, c, d, e, g, h
  <2> QED BY <2>1, <2>2, <2>3, <2>4, <2>5, <2>6, <2>7, <2>8, <2>9
<1> DEFINE cs == Candidates(f)
<1> HIDE DEF cs
<1>5. Standing # {} => \E c \in ToSet(cs) : c.severity = 3
  <2> SUFFICES ASSUME NEW r \in Standing PROVE \E c \in ToSet(cs) : c.severity = 3
    OBVIOUS
  <2>1. r \in ToSet(results) BY DEF Standing
  <2>2. CASE "PROXY_CONFIG_INVALID" \in r.says BY <1>3, <1>4, <2>1, <2>2 DEF cs
  <2>3. CASE r.status = "failed" /\ ~SetAside(r)
    <3>1. Blamed(f) # {} BY <2>3, SomeIsBlamed
    <3> QED BY <1>3, <1>4, <3>1 DEF cs
  <2> QED BY <2>2, <2>3 DEF Standing
<1>6. (\E r \in ToSet(results) : r.status = "cancelled") => \E c \in ToSet(cs) : c.severity = 2
  BY <1>3, <1>4 DEF cs
<1>7. ASSUME NEW r \in ToSet(results), r.status = "failed"
      PROVE  \E c \in ToSet(cs) : c.severity \in {1, 2, 3}
  <2> DEFINE http == results[7]
  <2>1. http \in ToSet(results) /\ http.id = "http" /\ Made(http) /\ Made(r)
        /\ http.status \in Statuses /\ \A s \in ToSet(results) : s.id = "http" => s = http
    BY WholeIs, PlanIs DEF Whole, Outcomes
  <2>2. CASE Standing # {} BY <1>5, <2>2
  <2>3. CASE Standing = {} /\ http.status \in {"passed", "warning"}
    <3>1. SetAside(r) BY <1>7, <2>3 DEF Standing
    <3>2. IsPreflight(r) /\ f.reached BY <2>3, <3>1, FactsIs DEF SetAside
    <3>3. r \in ToSet(f.discrepancies) BY <1>7, <3>2, FactsIs
    <3>4. f.discrepancies # <<>>
      <4>1. f.discrepancies = <<>> => ToSet(f.discrepancies) = {} BY DEF ToSet
      <4> QED BY <3>3, <4>1
    <3> QED BY <1>3, <1>4, <2>3, <3>4 DEF cs
  <2>4. CASE http.status = "failed"
    <3>1. ~IsPreflight(http) BY <2>1 DEF IsPreflight, Made, Direct
    <3>2. http \in Standing BY <2>1, <2>4, <3>1 DEF Standing, SetAside
    <3> QED BY <1>5, <3>2
  <2>5. CASE http.status = "cancelled" BY <1>6, <2>1, <2>5
  <2>6. CASE http.status = "not_applicable"
    <3>1. ~r.auxiliary /\ http.route = "none" BY <2>1, <2>6 DEF Made
    <3>2. ~SetAside(r) BY <2>1, <2>6, <3>1 DEF SetAside
    <3>3. r \in Standing BY <1>7, <3>2 DEF Standing
    <3> QED BY <1>5, <3>3
  <2> QED BY <2>1, <2>2, <2>3, <2>4, <2>5, <2>6 DEF Statuses, Made
<1>8. cs # <<>>
  <2>1. results[1] \in ToSet(results) /\ results[1].id = "target" /\ Made(results[1])
    BY WholeIs, PlanIs DEF Whole
  <2>2. results[1].status \in {"passed", "failed", "cancelled"} BY <2>1 DEF Made
  <2>3. \E c : c \in ToSet(cs)
    <3>1. CASE results[1].status = "failed" BY <1>7, <2>1, <3>1
    <3>2. CASE results[1].status = "cancelled" BY <1>6, <2>1, <3>2
    <3>3. CASE results[1].status = "passed"
      <4>1. I # <<>> BY <1>3, <2>1, <3>3
      <4>2. 1 \in DOMAIN I BY <1>2, <4>1, SequenceIs
      <4>3. I[1] \in ToSet(I) BY <4>2 DEF ToSet
      <4> QED BY <1>4, <4>3 DEF cs
    <3> QED BY <2>2, <3>1, <3>2, <3>3
  <2>4. cs = <<>> => ToSet(cs) = {} BY DEF ToSet
  <2> QED BY <2>3, <2>4
<1> QED BY <1>4, <1>5, <1>6, <1>7, <1>8 DEF cs

\* The conclusion is the best of the candidates.
LEMMA BuildIs ==
  ASSUME Whole
  PROVE  \E best \in Offers :
           /\ Build(results).status = best.status /\ Build(results).rule = best.rule
           /\ Build(results).about = ToSet(best.about)
           /\ Honest(best)
           /\ \A c \in ToSet(Candidates(Facts(results))) : c.severity <= best.severity
<1> DEFINE cs == Candidates(Facts(results))
           best == Best(cs)
<1>1. cs \in Seq(Fair) /\ cs # <<>> BY CandidatesAre
<1>2. Build(results).status = best.status /\ Build(results).rule = best.rule
      /\ Build(results).about = ToSet(best.about)
  BY <1>1 DEF Build
<1> HIDE DEF cs
<1>3. best \in ToSet(cs) /\ \A c \in ToSet(cs) : c.severity <= best.severity
  <2>1. Fair \subseteq Offers BY DEF Fair
  <2>2. cs \in Seq(Offers)
    <3>1. Len(cs) \in Nat /\ DOMAIN cs = 1 .. Len(cs) /\ \A i \in DOMAIN cs : cs[i] \in Fair
      BY <1>1, SequenceIs
    <3>2. cs = [i \in 1 .. Len(cs) |-> cs[i]] BY <1>1
    <3>3. cs \in [1 .. Len(cs) -> Offers] BY <2>1, <3>1, <3>2
    <3> QED BY <3>1, <3>3
  <2> QED BY <1>1, <2>2, BestIs
<1> HIDE DEF best
<1>4. best \in Offers /\ Honest(best)
  <2>1. best \in Fair BY <1>1, <1>3, SequenceIs
  <2> QED BY <2>1 DEF Fair
<1> QED BY <1>2, <1>3, <1>4 DEF cs

\* It is "cancelled" only if the run was cancelled.
LEMMA StatusIs ==
  ASSUME Whole
  PROVE  /\ Build(results).status \in Statuses
         /\ Build(results).status = "cancelled" => runErr = "cancelled"
<1>1. PICK best \in Offers : Build(results).status = best.status /\ Honest(best) BY BuildIs
<1>2. best.status \in Statuses BY OfferIs
<1>3. best.status = "cancelled" => \E r \in ToSet(results) : r.status = "cancelled"
  BY <1>1 DEF Honest
<1> QED BY <1>1, <1>2, <1>3, WholeIs DEF Made

\* The conclusion, on what the code takes to stand.
Stands ==
  LET named == {r \in Standing : r.id \in verdict.about}
  IN /\ verdict.status = "failed" <=> Standing # {}
     /\ verdict.status = "failed" =>
          named # {} \/ \E r \in ToSet(results) :
                          r.id \in verdict.about /\ r.code = "OPERATION_TIMEOUT"
     /\ verdict.rule = "check_timed_out" =>
          \A r \in Standing : \E n \in named : Layer[r.id] <= Layer[n.id]
     /\ verdict.status = "cancelled" <=>
          Standing = {} /\ "cancelled" \in {r.status : r \in ToSet(results)}
     /\ verdict.status = "passed" =>
          {r.status : r \in ToSet(results)} \cap {"failed", "cancelled"} = {}
     /\ verdict.about \subseteq {r.id : r \in ToSet(results)} /\ verdict.about # {}

\* The candidate that wins says what stands.
LEMMA ConclusionStands ==
  ASSUME Whole, verdict = Build(results)
  PROVE  Stands
<1> DEFINE cs == Candidates(Facts(results))
<1>1. /\ Standing # {} => \E c \in ToSet(cs) : c.severity = 3
      /\ (\E r \in ToSet(results) : r.status = "cancelled") => \E c \in ToSet(cs) : c.severity = 2
      /\ (\E r \in ToSet(results) : r.status = "failed")
              => \E c \in ToSet(cs) : c.severity \in {1, 2, 3}
  BY CandidatesAre
<1>2. PICK best \in Offers :
        /\ verdict.status = best.status /\ verdict.rule = best.rule
        /\ verdict.about = ToSet(best.about)
        /\ Honest(best)
        /\ \A c \in ToSet(cs) : c.severity <= best.severity
  BY BuildIs
<1> HIDE DEF cs
<1>3. \A c \in ToSet(cs) : c.severity <= best.severity BY <1>2
<1>4. best \in Offers /\ Honest(best) BY <1>2
<1> DEFINE statuses == {r.status : r \in ToSet(results)}
           named == {r \in Standing : r.id \in verdict.about}
<1>5. best.severity \in 0 .. 3 /\ best.status \in Statuses /\ best.about \in Lists
  BY <1>4, OfferIs
<1>6. /\ best.severity = 3 <=> best.status = "failed"
      /\ best.severity = 2 <=> best.status = "cancelled"
      /\ best.status = "passed" => best.severity = 0
      /\ best.status = "failed" => Standing # {}
      /\ best.status = "cancelled" => \E r \in ToSet(results) : r.status = "cancelled"
  BY <1>4 DEF Honest, Blocking, Interrupted, Informational
<1>7. verdict.status = "failed" <=> Standing # {}
  <2>1. Standing # {} => best.severity = 3 BY <1>1, <1>3, <1>5
  <2> QED BY <1>2, <1>6, <2>1
<1>8. verdict.status = "failed" =>
        named # {} \/ \E r \in ToSet(results) :
                        r.id \in verdict.about /\ r.code = "OPERATION_TIMEOUT"
  BY <1>2, <1>4 DEF Honest
<1>9. verdict.rule = "check_timed_out" =>
        \A r \in Standing : \E n \in named : Layer[r.id] <= Layer[n.id]
  BY <1>2, <1>4 DEF Honest
<1>10. verdict.status = "cancelled" <=> Standing = {} /\ "cancelled" \in statuses
  <2>1. ASSUME Standing = {}, "cancelled" \in statuses PROVE verdict.status = "cancelled"
    <3>1. PICK c \in ToSet(cs) : c.severity = 2 BY <1>1, <2>1
    <3>2. 2 <= best.severity BY <1>3, <3>1
    <3>3. best.severity # 3 BY <1>6, <2>1
    <3> QED BY <1>2, <1>5, <1>6, <3>2, <3>3
  <2>2. ASSUME verdict.status = "cancelled" PROVE Standing = {} /\ "cancelled" \in statuses
    <3>1. \E r \in ToSet(results) : r.status = "cancelled" BY <1>2, <1>6, <2>2
    <3> QED BY <1>7, <2>2, <3>1
  <2> QED BY <2>1, <2>2
<1>11. verdict.status = "passed" => statuses \cap {"failed", "cancelled"} = {}
  <2> SUFFICES ASSUME verdict.status = "passed", NEW r \in ToSet(results),
                      r.status \in {"failed", "cancelled"}
               PROVE  FALSE
    OBVIOUS
  <2>1. PICK c \in ToSet(cs) : c.severity \in {1, 2, 3} BY <1>1
  <2>2. c.severity <= best.severity /\ best.severity = 0 BY <1>2, <1>3, <1>6, <2>1
  <2> QED BY <2>1, <2>2
<1>12. verdict.about \subseteq {r.id : r \in ToSet(results)} /\ verdict.about # {}
  <2>1. Names \subseteq {r.id : r \in ToSet(results)}
    <3>1. Names \subseteq {Plan[i] : i \in 1 .. 7} BY PlanIs DEF Names
    <3>2. ASSUME NEW i \in 1 .. 7 PROVE results[i] \in ToSet(results) /\ results[i].id = Plan[i]
      BY WholeIs DEF Whole
    <3> QED BY <3>1, <3>2
  <2>2. ToSet(best.about) \subseteq Names BY <1>5, SequenceIs DEF Lists
  <2>3. ToSet(best.about) # {}
    <3>1. best.about # <<>> BY <1>4 DEF Honest
    <3>2. 1 \in DOMAIN best.about BY <1>5, <3>1, SequenceIs DEF Lists
    <3> QED BY <3>2 DEF ToSet
  <2> QED BY <1>2, <2>1, <2>2, <2>3
<1> QED BY <1>7, <1>8, <1>9, <1>10, <1>11, <1>12 DEF Stands

\* What the code takes to stand and the response contradicts, it contradicts because it
\* arrived and missed an expectation; its own failure then decides.
LEMMA StandingIs ==
  ASSUME Whole
  PROVE  /\ Decisive \subseteq Standing
         /\ \A r \in Standing \ Decisive :
              /\ r.status = "failed" /\ r.id # "http"
              /\ MissedExpectation(results[7])
         /\ MissedExpectation(results[7]) => results[7] \in Decisive
<1> DEFINE h == results[7]
<1>1. /\ h \in ToSet(results) /\ h.id = "http" /\ Made(h)
      /\ \A s \in ToSet(results) : s.id = "http" => s = h
  BY WholeIs, PlanIs DEF Whole
<1> HIDE DEF h
<1>2. Decisive \subseteq Standing
  BY DEF Decisive, Standing, Contradicted, SetAside, Completed
<1>3. ASSUME NEW r \in ToSet(results), r.id = "http" PROVE ~IsPreflight(r)
  <2>1. r = h BY <1>1, <1>3
  <2>2. h.id \notin Direct BY <1>1 DEF Direct
  <2>3. ~h.auxiliary BY <1>1, <2>2 DEF Made
  <2> QED BY <1>1, <2>1, <2>3 DEF IsPreflight
<1>4. ASSUME NEW r \in Standing, r \notin Decisive
      PROVE  r.status = "failed" /\ r.id # "http" /\ MissedExpectation(h)
  <2>1. r \in ToSet(results) /\ r.status = "failed" /\ ~SetAside(r) /\ Contradicted(r)
    BY <1>4 DEF Standing, Decisive
  <2>2. IsPreflight(r) BY <2>1 DEF Contradicted
  <2>3. MissedExpectation(h)
    BY <1>1, <2>1 DEF Contradicted, SetAside, Completed
  <2> QED BY <1>3, <2>1, <2>2, <2>3
<1>5. MissedExpectation(h) => h \in Decisive
  BY <1>1, <1>3 DEF MissedExpectation, Decisive, Contradicted
<1> QED BY <1>2, <1>4, <1>5 DEF h

\* summary.Build, on the results of a whole plan, says what they support: of all the
\* rules that apply the one that wins names what decides (summary.go:71-131).
THEOREM ConclusionIsSupported ==
  ASSUME Whole, verdict = Build(results)
  PROVE  VerdictNamesTheBlocker
<1> DEFINE h == results[7]
           named == {r \in Decisive : r.id \in verdict.about}
           stands == {r \in Standing : r.id \in verdict.about}
<1>1. Stands BY ConclusionStands
<1>2. /\ Decisive \subseteq Standing
      /\ \A r \in Standing \ Decisive :
           r.status = "failed" /\ r.id # "http" /\ MissedExpectation(h)
      /\ MissedExpectation(h) => h \in Decisive
  BY StandingIs
<1>3. /\ h \in ToSet(results) /\ h.id = "http"
      /\ \A r \in ToSet(results) : r.id \in Names
  BY WholeIs, PlanIs DEF Whole, Outcomes, Made
<1> HIDE DEF h
<1>4. Standing = {} <=> Decisive = {} BY <1>2
<1>5. verdict.status = "failed" =>
        \/ named # {}
        \/ \E r \in ToSet(results) : r.id \in verdict.about /\ r.code = "OPERATION_TIMEOUT"
        \/ /\ \E s \in ToSet(results) : s.id = "http" /\ MissedExpectation(s)
           /\ \E r \in ToSet(results) : r.id \in verdict.about /\ r.status = "failed"
  <2> SUFFICES ASSUME NEW r \in stands, r \notin named
               PROVE  /\ \E s \in ToSet(results) : s.id = "http" /\ MissedExpectation(s)
                      /\ \E s \in ToSet(results) : s.id \in verdict.about /\ s.status = "failed"
    BY <1>1 DEF Stands
  <2>1. r \in Standing \ Decisive /\ r.id \in verdict.about OBVIOUS
  <2>2. r \in ToSet(results) BY DEF Standing
  <2> QED BY <1>2, <1>3, <2>1, <2>2
<1>6. ASSUME verdict.rule = "check_timed_out", NEW r \in Decisive
      PROVE  \E n \in named : Layer[r.id] <= Layer[n.id]
  <2>1. PICK n \in stands : Layer[r.id] <= Layer[n.id] BY <1>1, <1>2, <1>6 DEF Stands
  <2>2. CASE n \in Decisive BY <2>1, <2>2
  <2>3. CASE n \notin Decisive
    <3>1. h \in Decisive /\ n.id # "http" /\ n \in ToSet(results) BY <1>2, <2>3 DEF Standing
    <3>2. PICK m \in stands : Layer[h.id] <= Layer[m.id] BY <1>1, <1>2, <1>6, <3>1 DEF Stands
    <3>3. m \in ToSet(results) /\ m.id \in Names BY <1>3 DEF Standing
    <3>4. m.id = "http" BY <1>3, <3>2, <3>3 DEF Names, Layer
    <3>5. m \in Decisive /\ m \in named BY <1>2, <3>4
    <3>6. r.id \in Names BY <1>3 DEF Decisive
    <3>7. Layer[r.id] <= Layer[m.id] BY <3>4, <3>6 DEF Names, Layer
    <3> QED BY <3>5, <3>7
  <2> QED BY <2>2, <2>3
<1> QED BY <1>1, <1>4, <1>5, <1>6 DEF Stands, VerdictNamesTheBlocker

-----------------------------------------------------------------------------
(* The invariant of the command.                                           *)

Causes == {"none", "deadline", "cancelled"}
Proxies == {"unresolved", "direct", "selected", "invalid"}
Before == {"flags", "request"}
Middle == {"save", "render", "write", "message", "judge"}
After == {"stop", "close", "exit"}
Steps == Before \cup {"checks", "conclude"} \cup Middle \cup After

\* The results are those of the first checks of the plan, whatever stopped them; the
\* proxy policy is that of the environment check; a direct check does not run when
\* the policy is invalid.
Progress ==
  /\ options \in Options /\ runErr \in Causes /\ aux \in {"live", "budget"}
  /\ proxy \in Proxies /\ (proxy \in {"selected", "invalid"} => options.kind \in Web)
  /\ results \in Seq(Outcomes)
  /\ \A i \in DOMAIN results : results[i].id = Plan[i] /\ Made(results[i])
  /\ step \in Before => results = <<>>
  /\ step \in Before \cup {"checks"} /\ Len(results) <= 1 => proxy = "unresolved"
  /\ step = "checks" => Len(results) <= 6
  /\ running => step = "checks" /\ (Current \in Direct => proxy # "invalid")
  /\ step \in {"conclude", "save"} => /\ Len(results) = 7
                                      /\ runErr = "deadline" => results[7].status = "failed"

\* What is interrupted was interrupted by a signal.
Interruptions ==
  /\ signals \in Nat /\ pending \in Nat
  /\ pending <= signals /\ (watch = "second" => pending + 1 <= signals)
  /\ cancelled => signals > 0 \/ step \in {"close", "exit"}
  /\ runErr = "cancelled" => signals > 0

\* What was done so far, and what the code the command leaves with says of it.
Deeds ==
  /\ step \in Steps /\ delivered \in BOOLEAN
  /\ verdict.status \in Statuses \cup {"none"}
  /\ step \in Before \cup {"checks", "conclude"} =>
       verdict.status = "none" /\ ~delivered /\ ~saved
  /\ step \in Middle => verdict.status # "none" /\ opened = "open"
  /\ step = "save" => verdict = Build(results)
  /\ step \in {"save", "render", "write"} => ~delivered
  /\ step \in {"message", "judge"} => delivered
  /\ step \in {"checks", "conclude"} => opened = "open"
  /\ step = "exit" => opened # "open"
  /\ verdict.status = "cancelled" => signals > 0

Meant(c) ==
  /\ c \in {"0", "1", "2", "3", "130"}
  /\ c = "0" => delivered /\ verdict.status \notin {"failed", "cancelled", "none"}
  /\ c = "1" => verdict.status # "none" /\ (delivered => verdict.status = "failed")
  /\ c = "2" => verdict.status = "none" /\ ~delivered /\ ~saved
  /\ c = "130" => signals > 0

Ending ==
  /\ step \in After => Meant(code)
  /\ exit \in {"no", "killed", "forced"} \/ (step = "exit" /\ exit = code)
  /\ exit = "killed" => signals > 0
  /\ exit = "forced" => signals > 1

CommandInv == Progress /\ Interruptions /\ Deeds /\ Ending

-----------------------------------------------------------------------------
(* The results of one check after the other.                               *)

\* What a check returns, or the runner in its place, before an interruption is seen.
Returned(r, p) ==
  /\ r \in Outcomes /\ r.id = Current /\ r.auxiliary = FALSE
  /\ r.status # "cancelled" /\ r.code # "OPERATION_TIMEOUT"
  /\ r.code \in {"CHECK_TIMEOUT", "CERTIFICATE", "REDIRECTS", "CHECK_INTERNAL_PANIC"}
       => r.status = "failed"
  /\ r.code = "RESPONSE" => r.status = "warning"
  /\ r.code = "CHECK_TIMEOUT" => p # "invalid" /\ r.id \in Direct \cup {"http"}
  /\ r.code = "PROXY_CONFIG_INVALID" =>
       "PROXY_CONFIG_INVALID" \in r.says \/ (r.id = "http" /\ r.status = "failed")
  /\ "PROXY_CONFIG_INVALID" \in r.says => p = "invalid"
  /\ "PROXY_SELECTED" \in r.says => p = "selected"
  /\ r.id = "target" => r.status = "passed"
  /\ r.id = "http" => r.status # "skipped"
  /\ r.id = "http" /\ r.status = "not_applicable" => options.kind \notin Web /\ r.route = "none"

Written(r, id, status, error, says) ==
  /\ r \in Outcomes /\ r.id = id /\ r.status = status /\ r.code = error
  /\ r.says = says /\ r.route = "none" /\ r.auxiliary = FALSE

\* A result that is written down as it is.
LEMMA ResultIs ==
  ASSUME NEW id \in Names, NEW status \in Statuses, NEW error \in Codes,
         NEW says \in SUBSET Evidence
  PROVE  Written(Result(id, status, error, says), id, status, error, says)
<1> DEFINE r == [id |-> id, status |-> status, code |-> error, says |-> says, route |-> "none",
                 auxiliary |-> FALSE]
<1>1. Result(id, status, error, says) = r BY DEF Result
<1>2. "none" \in Routes BY DEF Routes
<1>3. r \in Outcomes BY <1>2 DEF Outcomes
<1>4. Written(r, id, status, error, says) BY <1>3 DEF Written
<1> QED BY <1>1, <1>4

\* The results of a direct check, but for what it found.
FromDirect(r) ==
  \E id \in Direct, status \in {"passed", "warning", "failed", "skipped", "not_applicable"},
     error \in {"none", "DNS", "TCP", "TLS", "CERTIFICATE", "CHECK_TIMEOUT"},
     says \in SUBSET {"addresses", "connected", "v4ok", "v4bad", "v6bad"} :
    /\ id = Current /\ r = Result(id, status, error, says)
    /\ error # "none" => status = "failed"

\* What the direct checks return is of that form.
LEMMA DirectReturns ==
  ASSUME NEW r,
         \/ Current = "dns" /\ r \in DNSResults
         \/ Current = "route" /\ r \in RouteResults
         \/ Current = "tcp" /\ r \in TCPResults
         \/ Current = "tls" /\ r \in TLSResults
  PROVE  FromDirect(r)
<1>1. CASE Current = "dns" /\ r \in DNSResults
  BY <1>1 DEF DNSResults, Passed, Warned, Failed, Overtime, FromDirect, Direct
<1>2. CASE Current = "route" /\ r \in RouteResults
  BY <1>2 DEF RouteResults, Passed, Warned, Overtime, FromDirect, Direct
<1>3. CASE Current = "tcp" /\ r \in TCPResults
  BY <1>3 DEF TCPResults, Passed, Warned, Failed, Overtime, FromDirect, Direct
<1>4. CASE Current = "tls" /\ r \in TLSResults
  BY <1>4 DEF TLSResults, Passed, Warned, Failed, Overtime, NotApplicable, FromDirect, Direct
<1> QED BY <1>1, <1>2, <1>3, <1>4

\* A result of that form may be returned under every policy that lets the check run.
LEMMA DirectIs ==
  ASSUME NEW r, FromDirect(r), NEW p, p # "invalid"
  PROVE  Returned(r, p)
<1>1. PICK id \in Direct, status \in {"passed", "warning", "failed", "skipped", "not_applicable"},
           error \in {"none", "DNS", "TCP", "TLS", "CERTIFICATE", "CHECK_TIMEOUT"},
           says \in SUBSET {"addresses", "connected", "v4ok", "v4bad", "v6bad"} :
        /\ id = Current /\ r = Result(id, status, error, says)
        /\ error # "none" => status = "failed"
  BY DEF FromDirect
<1>2. id \in Names /\ id \notin {"target", "http"} BY DEF Direct, Names
<1>3. status \in Statuses /\ error \in Codes BY DEF Statuses, Codes
<1>4. says \in SUBSET Evidence BY DEF Evidence
<1>5. Written(r, id, status, error, says) BY <1>1, <1>2, <1>3, <1>4, ResultIs
<1>6. "PROXY_CONFIG_INVALID" \notin says /\ "PROXY_SELECTED" \notin says OBVIOUS
<1> QED BY <1>1, <1>2, <1>5, <1>6 DEF Returned, Written

\* The result of the target check.
LEMMA TargetReturns ==
  ASSUME NEW r, Current = "target", r = Passed("target", {}), NEW p
  PROVE  Returned(r, p)
<1>1. "target" \in Names /\ "passed" \in Statuses /\ "none" \in Codes
  BY DEF Names, Statuses, Codes
<1>2. {} \in SUBSET Evidence OBVIOUS
<1>3. r = Result("target", "passed", "none", {}) BY DEF Passed
<1>4. Written(r, "target", "passed", "none", {}) BY <1>1, <1>2, <1>3, ResultIs
<1> QED BY <1>4 DEF Returned, Written

\* The result of the environment check fits the policy it leaves.
LEMMA EnvironmentReturns ==
  ASSUME NEW o \in EnvironmentResults, Current = "environment"
  PROVE  /\ Returned(o.result, o.proxy) /\ o.proxy \in Proxies
         /\ o.proxy \in {"selected", "invalid"} => options.kind \in Web
<1>1. \E status \in {"passed", "warning", "failed"},
         error \in {"none", "CHECK_INTERNAL_PANIC", "PROXY_CONFIG_INVALID"},
         says \in SUBSET {"PROXY_DISABLED", "PROXY_SELECTED", "PROXY_CONFIG_INVALID"} :
        /\ o.result = Result("environment", status, error, says)
        /\ error = "PROXY_CONFIG_INVALID" => "PROXY_CONFIG_INVALID" \in says
        /\ error = "CHECK_INTERNAL_PANIC" => status = "failed"
        /\ "PROXY_CONFIG_INVALID" \in says => o.proxy = "invalid"
        /\ "PROXY_SELECTED" \in says => o.proxy = "selected"
  BY DEF EnvironmentResults, Passed, Warned, Failed
<1>2. PICK status \in {"passed", "warning", "failed"},
           error \in {"none", "CHECK_INTERNAL_PANIC", "PROXY_CONFIG_INVALID"},
           says \in SUBSET {"PROXY_DISABLED", "PROXY_SELECTED", "PROXY_CONFIG_INVALID"} :
        /\ o.result = Result("environment", status, error, says)
        /\ error = "PROXY_CONFIG_INVALID" => "PROXY_CONFIG_INVALID" \in says
        /\ error = "CHECK_INTERNAL_PANIC" => status = "failed"
        /\ "PROXY_CONFIG_INVALID" \in says => o.proxy = "invalid"
        /\ "PROXY_SELECTED" \in says => o.proxy = "selected"
  BY <1>1
<1>3. status \in Statuses /\ error \in Codes BY DEF Statuses, Codes
<1>4. says \in SUBSET Evidence /\ "environment" \in Names BY DEF Evidence, Names
<1> DEFINE r == o.result
<1>5. Written(r, "environment", status, error, says) BY <1>2, <1>3, <1>4, ResultIs
<1> HIDE DEF r
<1>6. Returned(r, o.proxy) BY <1>2, <1>5 DEF Returned, Written
<1>7. o.proxy \in Proxies /\ (o.proxy \in {"selected", "invalid"} => options.kind \in Web)
  BY DEF EnvironmentResults, Proxies
<1> QED BY <1>6, <1>7 DEF r

\* The result of the HTTP check fits the policy it finds.
LEMMA HTTPReturns ==
  ASSUME NEW r \in HTTPResults, Current = "http"
  PROVE  Returned(r, proxy)
<1>1. "http" \in Names /\ {} \in SUBSET Evidence BY DEF Names
<1>2. CASE options.kind \notin Web
  <2>1. r = Result("http", "not_applicable", "none", {})
    BY <1>2 DEF HTTPResults, NotApplicable
  <2>2. "not_applicable" \in Statuses /\ "none" \in Codes BY DEF Statuses, Codes
  <2>3. Written(r, "http", "not_applicable", "none", {}) BY <1>1, <2>1, <2>2, ResultIs
  <2> QED BY <1>2, <2>3 DEF Returned, Written
<1>3. CASE options.kind \in Web /\ proxy = "invalid"
  <2> DEFINE says == {"PROXY_CONFIG_INVALID"}
  <2>1. r = Result("http", "failed", "PROXY_CONFIG_INVALID", says) BY <1>3 DEF HTTPResults
  <2>2. "failed" \in Statuses /\ "PROXY_CONFIG_INVALID" \in Codes /\ says \in SUBSET Evidence
    BY DEF Statuses, Codes, Evidence
  <2>3. Written(r, "http", "failed", "PROXY_CONFIG_INVALID", says)
    BY <1>1, <2>1, <2>2, ResultIs
  <2> QED BY <1>3, <2>3 DEF Returned, Written
<1>4. CASE options.kind \in Web /\ proxy # "invalid"
  <2>1. \E status \in {"passed", "warning", "failed"},
           error \in {"none", "RESPONSE", "BODY", "REDIRECTS", "TRANSPORT", "EXPECTATION",
                      "CHECK_TIMEOUT", "PROXY_SELECTION_UNAVAILABLE"},
           route \in {"none", "proxy", "direct", "mixed"} :
          /\ r = HTTPResult(status, error, route)
          /\ error \in {"REDIRECTS", "CHECK_TIMEOUT"} => status = "failed"
          /\ error = "RESPONSE" => status = "warning"
          /\ error = "CHECK_TIMEOUT" => proxy # "invalid"
    <3>1. CASE proxy = "unresolved" BY <1>4, <3>1 DEF HTTPResults
    <3>2. CASE proxy # "unresolved"
      <4>1. PICK o \in {<<"passed", "none">>, <<"warning", "RESPONSE">>, <<"warning", "BODY">>,
                        <<"failed", "REDIRECTS">>, <<"failed", "TRANSPORT">>,
                        <<"failed", "EXPECTATION">>, <<"failed", "CHECK_TIMEOUT">>},
                 route \in {IF proxy = "selected" THEN "proxy" ELSE "direct", "mixed"} :
              r = HTTPResult(o[1], o[2], route)
        BY <1>4, <3>2 DEF HTTPResults
      <4>2. /\ o[1] \in {"passed", "warning", "failed"}
            /\ o[2] \in {"none", "RESPONSE", "BODY", "REDIRECTS", "TRANSPORT", "EXPECTATION",
                         "CHECK_TIMEOUT"}
            /\ o[2] \in {"REDIRECTS", "CHECK_TIMEOUT"} => o[1] = "failed"
            /\ o[2] = "RESPONSE" => o[1] = "warning"
        OBVIOUS
      <4>3. route \in {"none", "proxy", "direct", "mixed"} OBVIOUS
      <4> QED BY <1>4, <3>2, <4>1, <4>2, <4>3
    <3> QED BY <3>1, <3>2
  <2>2. PICK status \in {"passed", "warning", "failed"},
             error \in {"none", "RESPONSE", "BODY", "REDIRECTS", "TRANSPORT", "EXPECTATION",
                        "CHECK_TIMEOUT", "PROXY_SELECTION_UNAVAILABLE"},
             route \in {"none", "proxy", "direct", "mixed"} :
          /\ r = HTTPResult(status, error, route)
          /\ error \in {"REDIRECTS", "CHECK_TIMEOUT"} => status = "failed"
          /\ error = "RESPONSE" => status = "warning"
          /\ error = "CHECK_TIMEOUT" => proxy # "invalid"
    BY <2>1
  <2>3. status \in Statuses /\ error \in Codes /\ route \in Routes
    BY DEF Statuses, Codes, Routes
  <2> DEFINE q == Result("http", status, error, {})
  <2>4. Written(q, "http", status, error, {}) BY <1>1, <2>3, ResultIs
  <2>5. r = [q EXCEPT !.route = route] BY <2>2 DEF HTTPResult
  <2> HIDE DEF q
  <2>6. /\ r \in Outcomes /\ r.id = "http" /\ r.status = status /\ r.code = error
        /\ r.says = {} /\ r.auxiliary = FALSE
    BY <2>3, <2>4, <2>5 DEF Outcomes, Written
  <2> QED BY <2>2, <2>6 DEF Returned
<1> QED BY <1>2, <1>3, <1>4

\* What a check that ran returns.
LEMMA ReturnsAre ==
  ASSUME Progress, running, NEW o \in Returns
  PROVE  /\ Returned(o.result, o.proxy)
         /\ o.proxy \in Proxies /\ (o.proxy \in {"selected", "invalid"} => options.kind \in Web)
         /\ Current # "environment" => o.proxy = proxy
<1>1. Current \in Names
  <2>1. Len(results) \in Nat /\ Len(results) <= 6 BY SequenceIs DEF Progress
  <2>2. Len(results) + 1 \in 1 .. 7 BY <2>1
  <2> QED BY <2>2, PlanIs DEF Current, Ended
<1>2. CASE Current = "environment" BY <1>2, EnvironmentReturns DEF Returns
<1>3. CASE Current # "environment"
  <2>1. PICK r : /\ o = [proxy |-> proxy, result |-> r]
                 /\ r \in CASE Current = "target" -> {Passed("target", {})}
                            [] Current = "dns" -> DNSResults
                            [] Current = "route" -> RouteResults
                            [] Current = "tcp" -> TCPResults
                            [] Current = "tls" -> TLSResults
                            [] OTHER -> HTTPResults
    BY <1>3 DEF Returns
  <2>2. o.proxy = proxy /\ o.result = r BY <2>1
  <2>3. CASE Current = "target"
    <3>1. r = Passed("target", {}) BY <2>1, <2>3
    <3> QED BY <2>2, <2>3, <3>1, TargetReturns DEF Progress
  <2>4. CASE Current \in Direct
    <3>1. FromDirect(r) BY <2>1, <2>4, DirectReturns DEF Direct
    <3>2. proxy # "invalid" BY <2>4 DEF Progress
    <3>3. Returned(r, proxy) BY <3>1, <3>2, DirectIs
    <3> QED BY <2>2, <3>3 DEF Progress
  <2>5. CASE Current = "http"
    <3>1. r \in HTTPResults BY <2>1, <2>5
    <3>2. Returned(r, proxy) BY <2>5, <3>1, HTTPReturns
    <3> QED BY <2>2, <3>2 DEF Progress
  <2> QED BY <1>1, <1>3, <2>3, <2>4, <2>5 DEF Names, Direct
<1> QED BY <1>2, <1>3

\* What the engine makes of a returned result says what stopped it.
LEMMA AddedIs ==
  ASSUME Progress, NEW r, NEW p, Returned(r, p),
         p \in {"selected", "invalid"} => options.kind \in Web,
         Current # "environment" => p = proxy, Current \in Names,
         NEW q, q = Stopped(r) \/ (q = r /\ r.code = "CHECK_INTERNAL_PANIC"),
         NEW m, m = Marked(q),
         options' = options, runErr' = runErr, proxy' = p
  PROVE  /\ Made(m)' /\ m \in Outcomes /\ m.id = Current
         /\ Current = "http" /\ runErr = "deadline" => m.status = "failed"
<1>1. r \in Outcomes /\ r.id = Current BY DEF Returned
<1>2. /\ q \in Outcomes /\ q.id = r.id /\ q.says = r.says /\ q.route = r.route
      /\ q.auxiliary = FALSE
      /\ \/ /\ CtxErr = "none" \/ r.code = "CHECK_INTERNAL_PANIC"
            /\ q.status = r.status /\ q.code = r.code
         \/ CtxErr = "budget" /\ q.status = "skipped" /\ q.code = "AUXILIARY_BUDGET_RESERVED"
         \/ CtxErr = "deadline" /\ q.status = "failed" /\ q.code = "OPERATION_TIMEOUT"
         \/ CtxErr = "cancelled" /\ q.status = "cancelled" /\ q.code = "OPERATION_CANCELLED"
  <2>1. CtxErr \in {"none", "budget", "deadline", "cancelled"}
    BY DEF CtxErr, Progress, Causes
  <2>2. /\ {"skipped", "failed", "cancelled"} \subseteq Statuses
        /\ {"AUXILIARY_BUDGET_RESERVED", "OPERATION_TIMEOUT", "OPERATION_CANCELLED"}
             \subseteq Codes
    BY DEF Statuses, Codes
  <2>3. r.auxiliary = FALSE BY DEF Returned
  <2>4. CASE CtxErr = "none" \/ (q = r /\ r.code = "CHECK_INTERNAL_PANIC")
    <3>1. q = r BY <2>4 DEF Stopped
    <3> QED BY <1>1, <2>3, <2>4, <3>1
  <2>5. CASE CtxErr = "budget" /\ q = Stopped(r)
    <3>1. q = [r EXCEPT !.status = "skipped", !.code = "AUXILIARY_BUDGET_RESERVED"]
      BY <2>5 DEF Stopped
    <3> QED BY <1>1, <2>2, <2>3, <2>5, <3>1 DEF Outcomes
  <2>6. CASE CtxErr = "deadline" /\ q = Stopped(r)
    <3>1. q = [r EXCEPT !.status = "failed", !.code = "OPERATION_TIMEOUT"]
      BY <2>6 DEF Stopped
    <3> QED BY <1>1, <2>2, <2>3, <2>6, <3>1 DEF Outcomes
  <2>7. CASE CtxErr = "cancelled" /\ q = Stopped(r)
    <3>1. q = [r EXCEPT !.status = "cancelled", !.code = "OPERATION_CANCELLED"]
      BY <2>7 DEF Stopped
    <3> QED BY <1>1, <2>2, <2>3, <2>7, <3>1 DEF Outcomes
  <2> QED BY <2>1, <2>4, <2>5, <2>6, <2>7
<1>3. m = [q EXCEPT !.auxiliary = /\ q.id \in Direct /\ options.kind \in Web
                                  /\ ~options.matrix \/ proxy = "selected"]
  BY DEF Marked
<1>4. /\ m \in Outcomes /\ m.id = q.id /\ m.says = q.says /\ m.route = q.route
      /\ m.status = q.status /\ m.code = q.code
      /\ m.auxiliary <=> /\ q.id \in Direct /\ options.kind \in Web
                         /\ ~options.matrix \/ proxy = "selected"
  BY <1>2, <1>3 DEF Outcomes
<1>5. /\ CtxErr = "budget" => Current \in Direct
      /\ CtxErr = "deadline" => runErr = "deadline"
      /\ CtxErr = "cancelled" => runErr = "cancelled"
      /\ Current \notin Direct => CtxErr = runErr
  BY DEF CtxErr, InAuxiliary, Progress, Causes
<1>6. "http" \notin Direct /\ "target" \notin Direct /\ "environment" \notin Direct BY DEF Direct
<1>7. Current = "http" /\ runErr = "deadline" => m.status = "failed"
  BY <1>1, <1>2, <1>4, <1>5, <1>6 DEF Returned
<1>8. /\ m.status = "cancelled" => runErr = "cancelled"
      /\ m.code = "OPERATION_TIMEOUT" => runErr = "deadline"
      /\ m.code \in {"CHECK_TIMEOUT", "OPERATION_TIMEOUT", "CERTIFICATE", "REDIRECTS"}
           => m.status = "failed"
      /\ m.code = "RESPONSE" => m.status = "warning"
      /\ m.code = "CHECK_TIMEOUT" => p # "invalid" /\ m.id \in Direct \cup {"http"}
      /\ m.code = "PROXY_CONFIG_INVALID" =>
           "PROXY_CONFIG_INVALID" \in m.says \/ (m.id = "http" /\ m.status = "failed")
  BY <1>1, <1>2, <1>4, <1>5 DEF Returned
<1>9. /\ "PROXY_CONFIG_INVALID" \in m.says => p = "invalid"
      /\ "PROXY_SELECTED" \in m.says => p = "selected"
      /\ m.auxiliary => options.kind \in Web /\ m.id \in Direct
      /\ m.id \in Direct /\ p = "selected" => m.auxiliary
  BY <1>1, <1>2, <1>4, <1>6 DEF Returned
<1>10. /\ m.id = "target" => m.status \in {"passed", "failed", "cancelled"}
       /\ m.id = "http" => m.status # "skipped"
       /\ m.id = "http" /\ m.status = "not_applicable" =>
            options.kind \notin Web /\ m.route = "none"
  BY <1>1, <1>2, <1>4, <1>5, <1>6 DEF Returned
<1> QED BY <1>1, <1>2, <1>4, <1>7, <1>8, <1>9, <1>10 DEF Made

\* A result remains what it says.
LEMMA StaysMade ==
  ASSUME NEW r, Made(r), options' = options, runErr' = runErr \/ runErr = "none",
         proxy' = proxy \/ (proxy = "unresolved" /\ r.id \notin Direct \cup {"http"})
  PROVE  Made(r)'
BY DEF Made

\* The next result.
LEMMA AppendedIs ==
  ASSUME Progress, step = "checks", NEW m, Made(m)', m \in Outcomes, m.id = Current,
         Current = "http" /\ runErr = "deadline" => m.status = "failed",
         options' = options, runErr' = runErr, aux' = aux,
         proxy' \in Proxies, proxy' \in {"selected", "invalid"} => options.kind \in Web,
         proxy' = proxy \/ Current = "environment",
         results' = Append(results, m), running' = FALSE,
         step' = IF Ended + 1 = Len(Plan) THEN "conclude" ELSE step
  PROVE  Progress'
<1>1. results \in Seq(Outcomes) /\ Len(results) \in Nat /\ DOMAIN results = 1 .. Len(results)
      /\ Len(results) <= 6 /\ Len(Plan) = 7
  BY SequenceIs, PlanIs DEF Progress
<1> DEFINE n == Len(results)
<1>2. /\ results' \in Seq(Outcomes) /\ Len(results') = n + 1 /\ DOMAIN results' = 1 .. n + 1
      /\ results'[n + 1] = m /\ \A i \in 1 .. n : results'[i] = results[i]
  BY <1>1
<1>3. m.id = Plan[n + 1] BY DEF Current, Ended
<1>4. Current = "environment" => n = 1
  <2>1. n + 1 \in 1 .. 7 /\ 2 \in 1 .. 7 BY <1>1
  <2>2. Plan[n + 1] = "environment" /\ Plan[2] = "environment" => n + 1 = 2 BY <2>1, PlanIs
  <2> QED BY <1>1, <2>2, PlanIs DEF Current, Ended
<1>5. ASSUME NEW i \in 1 .. n
      PROVE  results'[i].id = Plan[i] /\ Made(results[i])'
  <2>1. Made(results[i]) /\ results[i].id = Plan[i] BY <1>1 DEF Progress
  <2>2. proxy' = proxy \/ (proxy = "unresolved" /\ results[i].id \notin Direct \cup {"http"})
    <3>1. CASE proxy' = proxy BY <3>1
    <3>2. CASE Current = "environment"
      <4>1. n = 1 BY <1>4, <3>2
      <4>2. i = 1 BY <4>1
      <4>3. Plan[i] = "target" BY <4>2, PlanIs
      <4>4. proxy = "unresolved" BY <4>1 DEF Progress
      <4> QED BY <2>1, <4>3, <4>4 DEF Direct
    <3> QED BY <3>1, <3>2
  <2>3. PICK s : s = results[i] OBVIOUS
  <2>4. Made(s)' BY <2>1, <2>2, <2>3, StaysMade
  <2> QED BY <1>2, <2>1, <2>3, <2>4
<1>6. \A i \in DOMAIN results' : results'[i].id = Plan[i] /\ Made(results[i])'
  <2> SUFFICES ASSUME NEW i \in 1 .. n + 1
               PROVE  results'[i].id = Plan[i] /\ Made(results[i])'
    BY <1>2
  <2>1. CASE i = n + 1 BY <1>2, <1>3, <2>1
  <2>2. CASE i # n + 1
    <3>1. i \in 1 .. n BY <1>1, <2>2
    <3> QED BY <1>5, <3>1
  <2> QED BY <2>1, <2>2
<1>7. CASE n + 1 = 7
  <2>1. step' = "conclude" BY <1>1, <1>7 DEF Ended
  <2>2. Current = "http" BY <1>7, PlanIs DEF Current, Ended
  <2>3. runErr' = "deadline" => results'[7].status = "failed" BY <1>2, <1>7, <2>2
  <2> QED BY <1>2, <1>6, <1>7, <2>1, <2>3 DEF Progress, Before
<1>8. CASE n + 1 # 7
  <2>1. step' = "checks" BY <1>1, <1>8 DEF Ended
  <2>2. Len(results') <= 6 BY <1>1, <1>2, <1>8
  <2>3. Len(results') <= 1 => proxy' = "unresolved"
    <3>1. Len(results') <= 1 => n = 0 BY <1>1, <1>2
    <3> QED BY <1>1, <1>4, <2>1, <3>1 DEF Progress
  <2> QED BY <1>2, <1>6, <2>1, <2>2, <2>3 DEF Progress, Before
<1> QED BY <1>7, <1>8

-----------------------------------------------------------------------------
(* The steps of the command.                                               *)

\* The next check is one of the plan.
LEMMA CurrentIs ==
  ASSUME Progress, step = "checks"
  PROVE  Current \in Names
<1>1. Len(results) \in Nat /\ Len(results) <= 6 BY SequenceIs DEF Progress
<1>2. Len(results) + 1 \in 1 .. 7 BY <1>1
<1> QED BY <1>2, PlanIs DEF Current, Ended

\* A check that is not run has the result of one that was, or that it was skipped.
LEMMA PassedOverIs ==
  ASSUME Progress, PassOver
  PROVE  Progress'
<1>1. Current \in Names BY CurrentIs DEF PassOver, Checking
<1>2. \E r : Returned(r, proxy) /\ results' = Append(results, Marked(Stopped(r)))
  <2>1. CASE CtxErr # "none"
    <3> DEFINE r == Result(Current, "passed", "none", {})
    <3>1. "passed" \in Statuses /\ "none" \in Codes /\ {} \in SUBSET Evidence
      BY DEF Statuses, Codes
    <3>2. Written(r, Current, "passed", "none", {}) BY <1>1, <3>1, ResultIs
    <3>3. results' = Append(results, Marked(Stopped(r))) BY <2>1 DEF PassOver, Add
    <3> HIDE DEF r
    <3>4. Returned(r, proxy) BY <3>2 DEF Returned, Written
    <3> QED BY <3>3, <3>4
  <2>2. CASE CtxErr = "none"
    <3> DEFINE r == SkippedAs
    <3>1. Skipped BY <2>2 DEF PassOver
    <3>2. results' = Append(results, Marked(r)) BY <2>2 DEF PassOver, Add
    <3>3. Stopped(r) = r BY <2>2 DEF Stopped
    <3>4. \E error \in {"PROXY_CONFIG_INVALID", "PROXY_SELECTION_UNAVAILABLE", "none"},
             says \in {{}, {"PROXY_CONFIG_INVALID"}} :
            /\ r = Result(Current, "skipped", error, says)
            /\ error = "PROXY_CONFIG_INVALID" => "PROXY_CONFIG_INVALID" \in says
            /\ "PROXY_CONFIG_INVALID" \in says => proxy = "invalid"
      BY DEF SkippedAs
    <3>5. PICK error \in {"PROXY_CONFIG_INVALID", "PROXY_SELECTION_UNAVAILABLE", "none"},
               says \in {{}, {"PROXY_CONFIG_INVALID"}} :
            /\ r = Result(Current, "skipped", error, says)
            /\ error = "PROXY_CONFIG_INVALID" => "PROXY_CONFIG_INVALID" \in says
            /\ "PROXY_CONFIG_INVALID" \in says => proxy = "invalid"
      BY <3>4
    <3>6. "skipped" \in Statuses /\ error \in Codes /\ says \in SUBSET Evidence
      BY DEF Statuses, Codes, Evidence
    <3>7. Written(r, Current, "skipped", error, says) BY <1>1, <3>5, <3>6, ResultIs
    <3>8. Current \in Direct /\ "target" \notin Direct /\ "http" \notin Direct
      BY <3>1 DEF Skipped, Direct
    <3>9. "PROXY_SELECTED" \notin says OBVIOUS
    <3> HIDE DEF r
    <3>10. Returned(r, proxy) BY <3>5, <3>7, <3>8, <3>9 DEF Returned, Written
    <3> QED BY <3>2, <3>3, <3>10
  <2> QED BY <2>1, <2>2
<1>3. PICK r : Returned(r, proxy) /\ results' = Append(results, Marked(Stopped(r))) BY <1>2
<1>4. PICK m : m = Marked(Stopped(r)) OBVIOUS
<1>5. /\ options' = options /\ runErr' = runErr /\ aux' = aux /\ proxy' = proxy
      /\ results' = Append(results, m) /\ running' = FALSE /\ step = "checks"
      /\ step' = IF Ended + 1 = Len(Plan) THEN "conclude" ELSE step
  BY <1>3, <1>4 DEF PassOver, Add, Checking
<1>6. proxy \in {"selected", "invalid"} => options.kind \in Web BY DEF Progress
<1>7. /\ Made(m)' /\ m \in Outcomes /\ m.id = Current
      /\ Current = "http" /\ runErr = "deadline" => m.status = "failed"
  BY <1>1, <1>3, <1>4, <1>5, <1>6, AddedIs
<1>8. proxy' \in Proxies BY <1>5 DEF Progress
<1> QED BY <1>5, <1>6, <1>7, <1>8, AppendedIs

\* A check that ran has the result it returned, unless it was interrupted.
LEMMA EndedIs ==
  ASSUME Progress, EndCheck
  PROVE  Progress'
<1>1. Current \in Names BY CurrentIs DEF EndCheck, Checking
<1>2. PICK o \in Returns : Add(Finished(o.result)) /\ proxy' = o.proxy BY DEF EndCheck
<1>3. running /\ step = "checks" BY DEF EndCheck, Checking
<1>4. /\ Returned(o.result, o.proxy)
      /\ o.proxy \in Proxies /\ (o.proxy \in {"selected", "invalid"} => options.kind \in Web)
      /\ Current # "environment" => o.proxy = proxy
  BY <1>3, ReturnsAre
<1>5. PICK r, p : r = o.result /\ p = o.proxy OBVIOUS
<1>6. PICK q, m : q = Finished(r) /\ m = Marked(q) OBVIOUS
<1>7. /\ options' = options /\ runErr' = runErr /\ aux' = aux /\ proxy' = p
      /\ results' = Append(results, m) /\ running' = FALSE
      /\ step' = IF Ended + 1 = Len(Plan) THEN "conclude" ELSE step
  BY <1>2, <1>5, <1>6 DEF EndCheck, Add
<1>8. /\ Made(m)' /\ m \in Outcomes /\ m.id = Current
      /\ Current = "http" /\ runErr = "deadline" => m.status = "failed"
  BY <1>1, <1>4, <1>5, <1>6, <1>7, AddedIs DEF Finished
<1> QED BY <1>3, <1>4, <1>5, <1>7, <1>8, AppendedIs

\* A step that leaves the results alone.
LEMMA Undisturbed ==
  ASSUME Progress, UNCHANGED <<options, results, proxy>>,
         runErr' \in Causes, aux' \in {"live", "budget"},
         runErr' = runErr \/ (runErr = "none" /\ step = "checks" /\ step' = "checks")
                          \/ step = "request",
         running' = running
           \/ (step' = "checks" /\ (running' => Current \notin Direct \/ proxy # "invalid")),
         \/ step' = step
         \/ /\ step # "checks" /\ step' \notin Before \cup {"checks", "conclude", "save"}
         \/ step = "conclude" /\ step' = "save"
         \/ step = "flags" /\ step' = "request"
         \/ step = "request" /\ step' = "checks"
  PROVE  Progress'
<1>1. /\ options' = options /\ results' = results /\ proxy' = proxy OBVIOUS
<1>2. Before = {"flags", "request"} BY DEF Before
<1>3. \A i \in DOMAIN results' : results'[i].id = Plan[i] /\ Made(results[i])'
  <2> SUFFICES ASSUME NEW i \in DOMAIN results PROVE Made(results[i])' /\ results[i].id = Plan[i]
    BY <1>1
  <2>1. Made(results[i]) /\ results[i].id = Plan[i] BY DEF Progress
  <2>2. runErr' = runErr \/ runErr = "none"
    <3>1. step # "request"
      <4>1. step = "request" => results = <<>> BY <1>2 DEF Progress
      <4> QED BY <4>1
    <3> QED BY <3>1
  <2>3. PICK s : s = results[i] OBVIOUS
  <2>4. Made(s)' BY <1>1, <2>1, <2>2, <2>3, StaysMade
  <2> QED BY <1>1, <2>1, <2>3, <2>4
<1>4. /\ step' \in Before => results' = <<>>
      /\ step' \in Before \cup {"checks"} /\ Len(results') <= 1 => proxy' = "unresolved"
      /\ step' = "checks" => Len(results') <= 6
  <2>1. results = <<>> => Len(results) = 0 OBVIOUS
  <2> QED BY <1>1, <1>2, <2>1 DEF Progress
<1>5. running' => step' = "checks" /\ (Current' \in Direct => proxy' # "invalid")
  <2>1. Current' = Current BY <1>1 DEF Current, Ended
  <2> QED BY <1>1, <1>2, <2>1 DEF Progress
<1>6. step' \in {"conclude", "save"} =>
        Len(results') = 7 /\ (runErr' = "deadline" => results'[7].status = "failed")
  <2> SUFFICES ASSUME step' \in {"conclude", "save"}
               PROVE  Len(results) = 7 /\ (runErr' = "deadline" => results[7].status = "failed")
    BY <1>1
  <2>1. step \in {"conclude", "save"} BY <1>2
  <2>2. runErr' = runErr BY <2>1
  <2> QED BY <2>1, <2>2 DEF Progress
<1>7. /\ options' \in Options /\ results' \in Seq(Outcomes) /\ proxy' \in Proxies
      /\ (proxy' \in {"selected", "invalid"} => options'.kind \in Web)
  BY <1>1 DEF Progress
<1> QED BY <1>3, <1>4, <1>5, <1>6, <1>7 DEF Progress

\* No step of the command, of the deadlines or of a signal disturbs the results.
LEMMA ProgressIsKept ==
  ASSUME Progress, [Next]_vars
  PROVE  Progress'
<1> USE DEF Leave, Fails, Before, Alive, Checking, run, outcome, process
<1>1. Progress => runErr \in Causes /\ aux \in {"live", "budget"} BY DEF Progress
<1>2. CASE UNCHANGED vars BY <1>1, <1>2, Undisturbed DEF vars
<1>3. CASE SetLogLevel BY <1>1, <1>3, Undisturbed DEF SetLogLevel
<1>4. CASE ParseFlags BY <1>1, <1>4, Undisturbed DEF ParseFlags
<1>5. CASE Request
  <2>1. runErr' \in Causes BY <1>5 DEF Request, Causes
  <2> QED BY <1>1, <1>5, <2>1, Undisturbed DEF Request
<1>6. CASE StartCheck
  <2>1. Current \notin Direct \/ proxy # "invalid" BY <1>6 DEF StartCheck, Skipped
  <2> QED BY <1>1, <1>6, <2>1, Undisturbed DEF StartCheck
<1>7. CASE PassOver BY <1>7, PassedOverIs
<1>8. CASE EndCheck BY <1>8, EndedIs
<1>9. CASE Conclude BY <1>1, <1>9, Undisturbed DEF Conclude
<1>10. CASE Save
  <2>1. /\ options' = options /\ running' = running /\ runErr' = runErr /\ aux' = aux
        /\ proxy' = proxy /\ results' = <<>> /\ step = "save" /\ step' = "render"
    BY <1>10 DEF Save
  <2>2. <<>> \in Seq(Outcomes) /\ DOMAIN <<>> = {} OBVIOUS
  <2>3. ~running BY <2>1 DEF Progress
  <2> QED BY <2>1, <2>2, <2>3 DEF Progress
<1>11. CASE Render BY <1>1, <1>11, Undisturbed DEF Render
<1>12. CASE Write BY <1>1, <1>12, Undisturbed DEF Write
<1>13. CASE TellDestination BY <1>1, <1>13, Undisturbed DEF TellDestination
<1>14. CASE Judge BY <1>1, <1>14, Undisturbed DEF Judge
<1>15. CASE Stop BY <1>1, <1>15, Undisturbed DEF Stop
<1>16. CASE Close BY <1>1, <1>16, Undisturbed DEF Close
<1>17. CASE Exit BY <1>1, <1>17, Undisturbed DEF Exit
<1>18. CASE Deadline
  <2>1. "deadline" \in Causes BY DEF Causes
  <2> QED BY <1>1, <1>18, <2>1, Undisturbed DEF Deadline
<1>19. CASE BudgetSpent BY <1>1, <1>19, Undisturbed DEF BudgetSpent
<1>20. CASE Signal BY <1>1, <1>20, Undisturbed DEF Signal
<1>21. CASE FirstSignal
  <2>1. "cancelled" \in Causes BY DEF Causes
  <2> QED BY <1>1, <1>21, <2>1, Undisturbed DEF FirstSignal
<1>22. CASE SecondSignal BY <1>1, <1>22, Undisturbed DEF SecondSignal
<1>23. CASE WatchEnds BY <1>1, <1>23, Undisturbed DEF WatchEnds
<1>24. CASE Terminated BY <1>1, <1>24, Undisturbed DEF Terminated, vars
<1> QED
  BY <1>2, <1>3, <1>4, <1>5, <1>6, <1>7, <1>8, <1>9, <1>10, <1>11, <1>12, <1>13, <1>14, <1>15,
     <1>16, <1>17, <1>18, <1>19, <1>20, <1>21, <1>22, <1>23, <1>24 DEF Next, Command

\* The results the conclusion is drawn from are those of the whole plan.
LEMMA WholePlan ==
  ASSUME Progress, step \in {"conclude", "save"}
  PROVE  Whole
<1>1. results \in Seq(Outcomes) /\ Len(results) = 7 /\ DOMAIN results = 1 .. Len(results)
  BY SequenceIs DEF Progress
<1> QED BY <1>1 DEF Progress, Whole

\* The codes the command may leave with when it fails.
LEMMA ExitCodeIs ==
  /\ \A error \in {"configuration", "internal", "permission", "validation", "storage"} :
       ExitCode(error) \in {"2", "3"}
  /\ \A error \in {"internal", "permission", "storage"} : ExitCode(error) = "3"
  /\ ExitCode("timed_out") = "1" /\ ExitCode("cancelled") = "130"
BY DEF ExitCode

\* Every cancellation has its signal.
LEMMA InterruptionsAreKept ==
  ASSUME Interruptions, [Next]_vars
  PROVE  Interruptions'
<1> USE DEF Interruptions, Leave, Fails, Alive, Checking, run, outcome, process
<1>1. CASE UNCHANGED vars BY <1>1 DEF vars
<1>2. CASE SetLogLevel BY <1>2 DEF SetLogLevel
<1>3. CASE ParseFlags BY <1>3 DEF ParseFlags
<1>4. CASE Request BY <1>4 DEF Request
<1>5. CASE StartCheck BY <1>5 DEF StartCheck
<1>6. CASE PassOver BY <1>6 DEF PassOver, Add
<1>7. CASE EndCheck BY <1>7 DEF EndCheck, Add
<1>8. CASE Conclude BY <1>8 DEF Conclude
<1>9. CASE Save BY <1>9 DEF Save
<1>10. CASE Render BY <1>10 DEF Render
<1>11. CASE Write BY <1>11 DEF Write
<1>12. CASE TellDestination BY <1>12 DEF TellDestination
<1>13. CASE Judge BY <1>13 DEF Judge
<1>14. CASE Stop BY <1>14 DEF Stop
<1>15. CASE Close BY <1>15 DEF Close
<1>16. CASE Exit BY <1>16 DEF Exit
<1>17. CASE Deadline BY <1>17 DEF Deadline
<1>18. CASE BudgetSpent BY <1>18 DEF BudgetSpent
<1>19. CASE Signal BY <1>19 DEF Signal
<1>20. CASE FirstSignal BY <1>20 DEF FirstSignal
<1>21. CASE SecondSignal BY <1>21 DEF SecondSignal
<1>22. CASE WatchEnds BY <1>22 DEF WatchEnds
<1>23. CASE Terminated BY <1>23 DEF Terminated, vars
<1> QED
  BY <1>1, <1>2, <1>3, <1>4, <1>5, <1>6, <1>7, <1>8, <1>9, <1>10, <1>11, <1>12, <1>13, <1>14,
     <1>15, <1>16, <1>17, <1>18, <1>19, <1>20, <1>21, <1>22, <1>23 DEF Next, Command

\* The command does one thing after the other.
LEMMA DeedsAreKept ==
  ASSUME Progress, Interruptions, Deeds, [Next]_vars
  PROVE  Deeds'
<1> USE DEF Deeds, Steps, Before, Middle, After, Leave, Fails, Alive, Checking, run, outcome,
            process
<1>1. CASE UNCHANGED vars BY <1>1 DEF vars
<1>2. CASE SetLogLevel BY <1>2 DEF SetLogLevel
<1>3. CASE ParseFlags BY <1>3 DEF ParseFlags
<1>4. CASE Request BY <1>4 DEF Request
<1>5. CASE StartCheck BY <1>5 DEF StartCheck
<1>6. CASE PassOver BY <1>6 DEF PassOver, Add
<1>7. CASE EndCheck BY <1>7 DEF EndCheck, Add
<1>8. CASE Conclude
  <2>1. Whole BY <1>8, WholePlan DEF Conclude
  <2>2. /\ verdict'.status \in Statuses
        /\ verdict'.status = "cancelled" => runErr = "cancelled"
    BY <1>8, <2>1, StatusIs DEF Conclude
  <2>3. "none" \notin Statuses BY DEF Statuses
  <2>4. verdict'.status = "cancelled" => signals' > 0
    BY <1>8, <2>2 DEF Conclude, Interruptions
  <2>5. step' = "save" => verdict' = Build(results')
    BY <1>8 DEF Conclude
  <2> QED BY <1>8, <2>2, <2>3, <2>4, <2>5 DEF Conclude
<1>9. CASE Save BY <1>9 DEF Save
<1>10. CASE Render BY <1>10 DEF Render
<1>11. CASE Write BY <1>11 DEF Write
<1>12. CASE TellDestination BY <1>12 DEF TellDestination
<1>13. CASE Judge BY <1>13 DEF Judge
<1>14. CASE Stop BY <1>14 DEF Stop
<1>15. CASE Close BY <1>15 DEF Close
<1>16. CASE Exit BY <1>16 DEF Exit
<1>17. CASE Deadline BY <1>17 DEF Deadline
<1>18. CASE BudgetSpent BY <1>18 DEF BudgetSpent
<1>19. CASE Signal BY <1>19 DEF Signal, Interruptions
<1>20. CASE FirstSignal BY <1>20 DEF FirstSignal
<1>21. CASE SecondSignal BY <1>21 DEF SecondSignal
<1>22. CASE WatchEnds BY <1>22 DEF WatchEnds
<1>23. CASE Terminated BY <1>23 DEF Terminated, vars
<1> QED
  BY <1>1, <1>2, <1>3, <1>4, <1>5, <1>6, <1>7, <1>8, <1>9, <1>10, <1>11, <1>12, <1>13, <1>14,
     <1>15, <1>16, <1>17, <1>18, <1>19, <1>20, <1>21, <1>22, <1>23 DEF Next, Command

\* The code the command leaves with fits what was done, and the exit is that code unless a
\* signal ended the process.
LEMMA EndingIsKept ==
  ASSUME Interruptions, Deeds, Ending, [Next]_vars
  PROVE  Ending'
<1> USE DEF Ending, Meant, Before, Middle, After, Leave, Fails, Alive, Checking, run, outcome,
            process
<1>1. CASE UNCHANGED vars BY <1>1 DEF vars
<1>2. CASE SetLogLevel BY <1>2, ExitCodeIs DEF SetLogLevel, OpenErrors, Deeds
<1>3. CASE ParseFlags BY <1>3, ExitCodeIs DEF ParseFlags, Deeds
<1>4. CASE Request BY <1>4, ExitCodeIs DEF Request, OpenErrors, Deeds
<1>5. CASE StartCheck BY <1>5 DEF StartCheck
<1>6. CASE PassOver BY <1>6 DEF PassOver, Add
<1>7. CASE EndCheck BY <1>7 DEF EndCheck, Add
<1>8. CASE Conclude BY <1>8, ExitCodeIs DEF Conclude
<1>9. CASE Save BY <1>9 DEF Save
<1>10. CASE Render BY <1>10, ExitCodeIs DEF Render, Deeds, Interruptions
<1>11. CASE Write BY <1>11, ExitCodeIs DEF Write, Deeds
<1>12. CASE TellDestination BY <1>12, ExitCodeIs DEF TellDestination, Deeds
<1>13. CASE Judge
  <2>1. delivered /\ verdict.status # "none" /\ (verdict.status = "cancelled" => signals > 0)
        /\ (cancelled => signals > 0)
    BY <1>13 DEF Judge, Deeds, Interruptions
  <2>2. \/ (cancelled \/ verdict.status = "cancelled") /\ code' = "130"
        \/ verdict.status = "failed" /\ code' = "1"
        \/ verdict.status \notin {"failed", "cancelled"} /\ code' = "0"
    BY <1>13 DEF Judge
  <2> QED BY <1>13, <2>1, <2>2 DEF Judge
<1>14. CASE Stop BY <1>14 DEF Stop
<1>15. CASE Close BY <1>15 DEF Close
<1>16. CASE Exit BY <1>16 DEF Exit
<1>17. CASE Deadline BY <1>17 DEF Deadline
<1>18. CASE BudgetSpent BY <1>18 DEF BudgetSpent
<1>19. CASE Signal BY <1>19 DEF Signal, Interruptions
<1>20. CASE FirstSignal BY <1>20 DEF FirstSignal
<1>21. CASE SecondSignal BY <1>21 DEF SecondSignal, Interruptions
<1>22. CASE WatchEnds BY <1>22 DEF WatchEnds
<1>23. CASE Terminated BY <1>23 DEF Terminated, vars
<1> QED
  BY <1>1, <1>2, <1>3, <1>4, <1>5, <1>6, <1>7, <1>8, <1>9, <1>10, <1>11, <1>12, <1>13, <1>14,
     <1>15, <1>16, <1>17, <1>18, <1>19, <1>20, <1>21, <1>22, <1>23 DEF Next, Command

\* The command begins so.
LEMMA Start ==
  Init => CommandInv
<1> SUFFICES ASSUME Init PROVE CommandInv
  OBVIOUS
<1>1. Len(<<>>) = 0 /\ <<>> \in Seq(Outcomes) /\ DOMAIN <<>> = {} OBVIOUS
<1>2. Progress BY <1>1 DEF Init, Progress, Causes, Proxies, Before
<1>3. Interruptions BY DEF Init, Interruptions
<1>4. Deeds BY DEF Init, Deeds, Steps, Before, Middle, After, NoVerdict
<1>5. Ending BY DEF Init, Ending, After
<1> QED BY <1>2, <1>3, <1>4, <1>5 DEF CommandInv

\* Whatever the checks return, whatever interrupts them and whatever fails: the results
\* are those of the plan's checks in its order, each says what stopped it, and the
\* command has done what its place says.
THEOREM CommandIsOrderly == Spec => []CommandInv
<1>1. CommandInv /\ [Next]_vars => CommandInv'
  BY ProgressIsKept, InterruptionsAreKept, DeedsAreKept, EndingIsKept DEF CommandInv
<1> QED BY <1>1, Start, PTL DEF Spec

\* The conclusion of every run names what its results support: a failure exactly when a
\* check failed that nothing contradicts, then such a check or what the deadline stopped
\* (or, after a response that missed an expectation, a preflight that failed as well);
\* never a timeout that a later layer's failure outlasts; "cancelled" and "passed" only of
\* a run that is so (summary.go, model.go).
THEOREM VerdictIsEarned == Spec => []VerdictNamesTheBlocker
<1>1. CommandInv => VerdictNamesTheBlocker
  <2> SUFFICES ASSUME CommandInv, step = "save" PROVE VerdictNamesTheBlocker
    BY DEF VerdictNamesTheBlocker
  <2>1. Whole BY WholePlan DEF CommandInv
  <2>2. verdict = Build(results) BY DEF CommandInv, Deeds
  <2> QED BY <2>1, <2>2, ConclusionIsSupported
<1> QED BY <1>1, CommandIsOrderly, PTL

\* The exit code tells the truth, whatever failed on the way and however many signals came:
\* 0 and 1 of what was delivered, 2 of a diagnosis that was not made, 130 of a signal; and
\* a process that ends by itself has closed its runtime (cli.go, main.go).
THEOREM ExitIsTruthful == Spec => []ExitTellsTheTruth
<1>1. CommandInv => ExitTellsTheTruth
  <2> SUFFICES ASSUME CommandInv PROVE ExitTellsTheTruth
    OBVIOUS
  <2>1. exit \in {"no", "killed", "forced"} \/ (step = "exit" /\ exit = code /\ Meant(code)
                                               /\ opened # "open")
    BY DEF CommandInv, Ending, Deeds, After
  <2>2. exit = "killed" => signals > 0 BY DEF CommandInv, Ending
  <2>3. exit = "forced" => signals > 1 BY DEF CommandInv, Ending
  <2>4. CASE exit \in {"no", "killed", "forced"}
    BY <2>2, <2>3, <2>4 DEF ExitTellsTheTruth
  <2>5. CASE exit = code /\ Meant(code) /\ opened # "open"
    BY <2>2, <2>3, <2>5 DEF ExitTellsTheTruth, Meant
  <2> QED BY <2>1, <2>4, <2>5
<1> QED BY <1>1, CommandIsOrderly, PTL
=============================================================================
