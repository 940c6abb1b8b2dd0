-------------------------- MODULE Diagnosis_proofs --------------------------
(***************************************************************************)
(* Proofs about one run of Runner.Diagnose, for every plan in which each   *)
(* check has one place and the environment check comes before the HTTP     *)
(* check, and every number of workers.                                     *)
(***************************************************************************)
EXTENDS Diagnosis, SequenceTheorems, TLAPS

USE ConcurrencyAssumption

-----------------------------------------------------------------------------
(* Splitting a plan.                                                       *)

\* The checks of a plan, with their places.
LEMMA InPlan ==
  ASSUME NEW plan, NEW c
  PROVE  c \in ChecksOf(plan) <=>
           \E i \in 1 .. Len(plan) : \E j \in 1 .. Len(plan[i]) : plan[i][j] = c
  BY DEF ChecksOf

\* StageOf and IndexOf find the place of a check.
LEMMA Place ==
  ASSUME NEW plan, NEW id, Has(plan, id)
  PROVE  /\ StageOf(plan, id) \in 1 .. Len(plan)
         /\ IndexOf(plan, id) \in 1 .. Len(plan[StageOf(plan, id)])
         /\ plan[StageOf(plan, id)][IndexOf(plan, id)] = id
<1>1. /\ StageOf(plan, id) \in 1 .. Len(plan)
      /\ \E j \in 1 .. Len(plan[StageOf(plan, id)]) : plan[StageOf(plan, id)][j] = id
  BY InPlan DEF Has, StageOf
<1>2. QED
  BY <1>1 DEF IndexOf

\* q is made of the checks of the stages a to b of a plan.
Within(q, plan, a, b) ==
  \A c : c \in ChecksOf(q) <=> \E i \in a .. b : \E j \in 1 .. Len(plan[i]) : plan[i][j] = c

\* A stage of different checks.
Distinct(s) == \A j, l \in 1 .. Len(s) : s[j] = s[l] => j = l

\* A check is once in a plan.
LEMMA OnceIs ==
  ASSUME NEW plan, Once(plan), NEW i \in 1 .. Len(plan), NEW k \in 1 .. Len(plan),
         NEW j \in 1 .. Len(plan[i]), NEW l \in 1 .. Len(plan[k]), plan[i][j] = plan[k][l]
  PROVE  i = k /\ j = l
  BY DEF Once

\* Stages of a plan, one after the other, are a plan.
LEMMA Slice ==
  ASSUME NEW T, NEW plan \in Seq(T), Once(plan),
         NEW a \in 1 .. Len(plan) + 1, NEW b \in 0 .. Len(plan)
  PROVE  LET q == SubSeq(plan, a, b) IN
         /\ q \in Seq(T)
         /\ Len(q) = IF a <= b THEN b - a + 1 ELSE 0
         /\ \A i \in 1 .. Len(q) : i + a - 1 \in a .. b /\ q[i] = plan[i + a - 1]
         /\ Once(q)
         /\ Within(q, plan, a, b)
<1> DEFINE q == SubSeq(plan, a, b)
<1>1. /\ q \in Seq(T)
      /\ Len(q) = IF a <= b THEN b - a + 1 ELSE 0
      /\ \A i \in 1 .. Len(q) : i + a - 1 \in a .. b /\ q[i] = plan[i + a - 1]
  OBVIOUS
<1> HIDE DEF q
<1>2. Once(q)
  <2> SUFFICES ASSUME NEW i \in 1 .. Len(q), NEW k \in 1 .. Len(q),
                      NEW j \in 1 .. Len(q[i]), NEW l \in 1 .. Len(q[k]), q[i][j] = q[k][l]
               PROVE  i = k /\ j = l
    BY DEF Once
  <2>1. PICK x \in a .. b, y \in a .. b :
          /\ x = i + a - 1 /\ q[i] = plan[x]
          /\ y = k + a - 1 /\ q[k] = plan[y]
    BY <1>1
  <2>2. x \in 1 .. Len(plan) /\ y \in 1 .. Len(plan)
    OBVIOUS
  <2>3. j \in 1 .. Len(plan[x]) /\ l \in 1 .. Len(plan[y]) /\ plan[x][j] = plan[y][l]
    BY <2>1
  <2>4. x = y /\ j = l
    BY <2>2, <2>3, OnceIs, SMTT(30)
  <2>5. i \in Nat /\ k \in Nat /\ i = x - a + 1 /\ k = y - a + 1
    BY <2>1
  <2>6. QED
    BY <2>4, <2>5
<1>3. ASSUME NEW c
      PROVE  c \in ChecksOf(q) <=>
              \E i \in a .. b : \E j \in 1 .. Len(plan[i]) : plan[i][j] = c
  <2>1. ASSUME NEW i \in a .. b, NEW j \in 1 .. Len(plan[i]), plan[i][j] = c
        PROVE  c \in ChecksOf(q)
    <3>1. PICK x \in 1 .. Len(q) : q[x] = plan[i]
      <4>1. i - a + 1 \in 1 .. Len(q) /\ (i - a + 1) + a - 1 = i
        BY <1>1
      <4>2. QED
        BY <1>1, <4>1
    <3>2. QED
      BY <2>1, <3>1, InPlan
  <2>2. ASSUME c \in ChecksOf(q)
        PROVE  \E i \in a .. b : \E j \in 1 .. Len(plan[i]) : plan[i][j] = c
    <3>1. PICK x \in 1 .. Len(q) : \E j \in 1 .. Len(q[x]) : q[x][j] = c
      BY <2>2, InPlan
    <3>2. PICK y \in a .. b : q[x] = plan[y]
      BY <1>1
    <3>3. QED
      BY <3>1, <3>2
  <2>3. QED
    BY <2>1, <2>2
<1>4. QED
  BY <1>1, <1>2, <1>3 DEF q, Within

\* Two plans with different checks, one behind the other, are a plan.
LEMMA Glue ==
  ASSUME NEW T, NEW p \in Seq(T), NEW q \in Seq(T), Once(p), Once(q),
         ChecksOf(p) \cap ChecksOf(q) = {}
  PROVE  /\ p \o q \in Seq(T)
         /\ Once(p \o q)
         /\ ChecksOf(p \o q) = ChecksOf(p) \cup ChecksOf(q)
<1> DEFINE r == p \o q
<1>1. /\ r \in Seq(T) /\ Len(r) = Len(p) + Len(q)
      /\ Len(p) \in Nat /\ Len(q) \in Nat
      /\ \A i \in 1 .. Len(r) : r[i] = IF i <= Len(p) THEN p[i] ELSE q[i - Len(p)]
      /\ \A i \in 1 .. Len(p) : i \in 1 .. Len(r) /\ r[i] = p[i]
      /\ \A i \in 1 .. Len(q) : i + Len(p) \in 1 .. Len(r) /\ r[i + Len(p)] = q[i]
  OBVIOUS
<1> HIDE DEF r
<1>2. ASSUME NEW c
      PROVE  c \in ChecksOf(r) <=> c \in ChecksOf(p) \cup ChecksOf(q)
  <2>1. ASSUME NEW i \in 1 .. Len(r), NEW j \in 1 .. Len(r[i]), r[i][j] = c
        PROVE  c \in ChecksOf(p) \cup ChecksOf(q)
    <3>1. CASE i <= Len(p)
      <4>1. i \in 1 .. Len(p) /\ r[i] = p[i]
        BY <1>1, <3>1
      <4>2. QED
        BY <2>1, <4>1, InPlan
    <3>2. CASE i > Len(p)
      <4>1. PICK x \in 1 .. Len(q) : r[i] = q[x]
        BY <1>1, <3>2
      <4>2. QED
        BY <2>1, <4>1, InPlan
    <3>3. QED
      BY <3>1, <3>2, <1>1
  <2>2. ASSUME c \in ChecksOf(p)
        PROVE  c \in ChecksOf(r)
    <3>1. PICK i \in 1 .. Len(p) : \E j \in 1 .. Len(p[i]) : p[i][j] = c
      BY <2>2, InPlan
    <3>2. i \in 1 .. Len(r) /\ r[i] = p[i]
      BY <1>1
    <3>3. QED
      BY <3>1, <3>2, InPlan
  <2>3. ASSUME c \in ChecksOf(q)
        PROVE  c \in ChecksOf(r)
    <3>1. PICK x \in 1 .. Len(q) : \E j \in 1 .. Len(q[x]) : q[x][j] = c
      BY <2>3, InPlan
    <3>2. PICK y \in 1 .. Len(r) : r[y] = q[x]
      BY <1>1
    <3>3. QED
      BY <3>1, <3>2, InPlan
  <2>4. ASSUME c \in ChecksOf(r)
        PROVE  c \in ChecksOf(p) \cup ChecksOf(q)
    BY <2>1, <2>4, InPlan
  <2>5. QED
    BY <2>2, <2>3, <2>4
<1>3. Once(r)
  <2> SUFFICES ASSUME NEW i \in 1 .. Len(r), NEW k \in 1 .. Len(r),
                      NEW j \in 1 .. Len(r[i]), NEW l \in 1 .. Len(r[k]), r[i][j] = r[k][l]
               PROVE  i = k /\ j = l
    BY DEF Once
  <2>1. CASE i <= Len(p) /\ k <= Len(p)
    <3>1. i \in 1 .. Len(p) /\ k \in 1 .. Len(p) /\ r[i] = p[i] /\ r[k] = p[k]
      BY <2>1, <1>1
    <3>2. QED
      BY <3>1, OnceIs
  <2>2. CASE i > Len(p) /\ k > Len(p)
    <3>1. PICK x \in 1 .. Len(q) : x = i - Len(p) /\ r[i] = q[x]
      <4>1. i - Len(p) \in 1 .. Len(q)
        BY <2>2, <1>1
      <4>2. r[i] = q[i - Len(p)]
        BY <2>2, <1>1
      <4>3. QED
        BY <4>1, <4>2
    <3>2. PICK y \in 1 .. Len(q) : y = k - Len(p) /\ r[k] = q[y]
      <4>1. k - Len(p) \in 1 .. Len(q)
        BY <2>2, <1>1
      <4>2. r[k] = q[k - Len(p)]
        BY <2>2, <1>1
      <4>3. QED
        BY <4>1, <4>2
    <3>3. j \in 1 .. Len(q[x]) /\ l \in 1 .. Len(q[y]) /\ q[x][j] = q[y][l]
      BY <3>1, <3>2
    <3>4. x = y /\ j = l
      BY <3>3, OnceIs, SMTT(30)
    <3>5. QED
      BY <3>1, <3>2, <3>4, <1>1
  <2>3. CASE i <= Len(p) /\ k > Len(p)
    <3>1. /\ i \in 1 .. Len(p) /\ k - Len(p) \in 1 .. Len(q)
          /\ r[i] = p[i] /\ r[k] = q[k - Len(p)]
      BY <2>3, <1>1
    <3>2. r[i][j] \in ChecksOf(p) /\ r[k][l] \in ChecksOf(q)
      BY <3>1, InPlan
    <3>3. QED
      BY <3>2
  <2>4. CASE i > Len(p) /\ k <= Len(p)
    <3>1. /\ k \in 1 .. Len(p) /\ i - Len(p) \in 1 .. Len(q)
          /\ r[k] = p[k] /\ r[i] = q[i - Len(p)]
      BY <2>4, <1>1
    <3>2. r[k][l] \in ChecksOf(p) /\ r[i][j] \in ChecksOf(q)
      BY <3>1, InPlan
    <3>3. QED
      BY <3>2
  <2>5. QED
    BY <2>1, <2>2, <2>3, <2>4, <1>1
<1>4. QED
  BY <1>1, <1>2, <1>3 DEF r

\* Cutting a plan between two stages.
LEMMA Halves ==
  ASSUME NEW T, NEW plan \in Seq(T), Once(plan), NEW k \in 0 .. Len(plan)
  PROVE  LET p == SubSeq(plan, 1, k)
             q == SubSeq(plan, k + 1, Len(plan))
         IN
         /\ p \in Seq(T) /\ Once(p) /\ Len(p) = k
         /\ q \in Seq(T) /\ Once(q) /\ Len(q) = Len(plan) - k
         /\ ChecksOf(p) \cap ChecksOf(q) = {}
         /\ ChecksOf(p) \cup ChecksOf(q) = ChecksOf(plan)
<1> DEFINE p == SubSeq(plan, 1, k)
           q == SubSeq(plan, k + 1, Len(plan))
<1>1. /\ 1 \in 1 .. Len(plan) + 1 /\ k + 1 \in 1 .. Len(plan) + 1
      /\ Len(plan) \in 0 .. Len(plan) /\ Len(plan) \in Nat
  OBVIOUS
<1>2. /\ p \in Seq(T) /\ Once(p) /\ Len(p) = k
      /\ Within(p, plan, 1, k)
  <2>1. /\ p \in Seq(T) /\ Once(p)
        /\ Within(p, plan, 1, k)
    BY <1>1, Slice, Zenon
  <2>2. Len(p) = IF 1 <= k THEN k - 1 + 1 ELSE 0
    BY <1>1, Slice, Zenon
  <2>3. QED
    BY <2>1, <2>2
<1>3. /\ q \in Seq(T) /\ Once(q) /\ Len(q) = Len(plan) - k
      /\ Within(q, plan, k + 1, Len(plan))
  <2>1. /\ q \in Seq(T) /\ Once(q)
        /\ Within(q, plan, k + 1, Len(plan))
    BY <1>1, Slice, Zenon
  <2>2. Len(q) = IF k + 1 <= Len(plan) THEN Len(plan) - (k + 1) + 1 ELSE 0
    BY <1>1, Slice, Zenon
  <2>3. QED
    BY <2>1, <2>2, <1>1
<1> HIDE DEF p, q
<1>4. ASSUME NEW c \in ChecksOf(p), c \in ChecksOf(q)
      PROVE  FALSE
  <2>1. PICK i \in 1 .. k : \E j \in 1 .. Len(plan[i]) : plan[i][j] = c
    BY <1>2 DEF Within
  <2>2. PICK l \in k + 1 .. Len(plan) : \E j \in 1 .. Len(plan[l]) : plan[l][j] = c
    BY <1>3, <1>4 DEF Within
  <2>3. i \in 1 .. Len(plan) /\ l \in 1 .. Len(plan) /\ i # l
    OBVIOUS
  <2>4. QED
    BY <2>1, <2>2, <2>3 DEF Once
<1>5. ASSUME NEW c
      PROVE  c \in ChecksOf(p) \cup ChecksOf(q) <=> c \in ChecksOf(plan)
  <2>1. 1 .. Len(plan) = (1 .. k) \cup (k + 1 .. Len(plan))
    OBVIOUS
  <2>2. c \in ChecksOf(plan) <=>
          \E i \in (1 .. k) \cup (k + 1 .. Len(plan)) :
            \E j \in 1 .. Len(plan[i]) : plan[i][j] = c
    BY <2>1, InPlan
  <2>3. QED
    BY <2>2, <1>2, <1>3 DEF Within
<1>6. QED
  BY <1>2, <1>3, <1>4, <1>5 DEF p, q

\* A single stage, and its checks.
Alone(s) == <<s>>
Members(s) == {s[j] : j \in 1 .. Len(s)}

LEMMA OneStage ==
  ASSUME NEW S, NEW s \in Seq(S),
         Distinct(s)
  PROVE  /\ Alone(s) \in Seq(Seq(S)) /\ Once(Alone(s))
         /\ ChecksOf(Alone(s)) = Members(s)
<1>1. /\ Len(Alone(s)) = 1 /\ Alone(s)[1] = s /\ 1 .. 1 = {1}
      /\ Alone(s) \in Seq(Seq(S))
  BY DEF Alone
<1>2. \A c : c \in ChecksOf(Alone(s)) <=> \E j \in 1 .. Len(s) : s[j] = c
  BY <1>1, InPlan
<1>3. QED
  BY <1>1, <1>2 DEF Once, Distinct, Members

\* Cutting a stage behind a check.
LEMMA CutStage ==
  ASSUME NEW S, NEW s \in Seq(S), NEW n \in 1 .. Len(s),
         Distinct(s)
  PROVE  LET p == SubSeq(s, 1, n)
             q == SubSeq(s, n + 1, Len(s))
         IN
         /\ p \in Seq(S) /\ Distinct(p)
         /\ q \in Seq(S) /\ Distinct(q)
         /\ ChecksOf(Alone(p)) \cap ChecksOf(Alone(q)) = {}
         /\ ChecksOf(Alone(p)) \cup ChecksOf(Alone(q)) = ChecksOf(Alone(s))
         /\ s[n] \in ChecksOf(Alone(p))
<1> DEFINE p == SubSeq(s, 1, n)
           q == SubSeq(s, n + 1, Len(s))
<1>1. /\ Len(s) \in Nat
      /\ p \in Seq(S) /\ Len(p) = n
      /\ \A j \in 1 .. n : p[j] = s[j]
  OBVIOUS
<1>2. /\ q \in Seq(S) /\ Len(q) = Len(s) - n
      /\ \A j \in 1 .. Len(q) : j + n \in n + 1 .. Len(s) /\ q[j] = s[j + n]
  OBVIOUS
<1> HIDE DEF p, q
<1>3. Distinct(p)
  BY <1>1 DEF Distinct
<1>4. Distinct(q)
  <2> SUFFICES ASSUME NEW j \in 1 .. Len(q), NEW l \in 1 .. Len(q), q[j] = q[l]
               PROVE  j = l
    BY DEF Distinct
  <2>1. PICK x \in n + 1 .. Len(s) : x = j + n /\ q[j] = s[x]
    BY <1>2
  <2>2. PICK y \in n + 1 .. Len(s) : y = l + n /\ q[l] = s[y]
    BY <1>2
  <2>3. x \in 1 .. Len(s) /\ y \in 1 .. Len(s) /\ s[x] = s[y]
    <3>1. x \in 1 .. Len(s) /\ y \in 1 .. Len(s)
      OBVIOUS
    <3>2. QED
      BY <3>1, <2>1, <2>2
  <2>4. x = y
    BY <2>3 DEF Distinct
  <2>5. QED
    BY <2>1, <2>2, <2>4, <1>2
<1>5. \A c : c \in ChecksOf(Alone(p)) <=> \E j \in 1 .. n : s[j] = c
  <2>1. ChecksOf(Alone(p)) = Members(p)
    BY <1>1, <1>3, OneStage, Zenon
  <2>2. QED
    BY <2>1, <1>1 DEF Members
<1>6. ASSUME NEW c
      PROVE  c \in ChecksOf(Alone(q)) <=> \E j \in n + 1 .. Len(s) : s[j] = c
  <2>1. ASSUME NEW j \in n + 1 .. Len(s), s[j] = c
        PROVE  \E l \in 1 .. Len(q) : q[l] = c
    <3>1. j - n \in 1 .. Len(q) /\ (j - n) + n = j
      BY <1>2
    <3>2. QED
      BY <3>1, <2>1, <1>2
  <2>2. ASSUME NEW l \in 1 .. Len(q), q[l] = c
        PROVE  \E j \in n + 1 .. Len(s) : s[j] = c
    BY <2>2, <1>2
  <2>3. ChecksOf(Alone(q)) = Members(q)
    BY <1>2, <1>4, OneStage, Zenon
  <2>4. QED
    BY <2>1, <2>2, <2>3 DEF Members
<1>7. ChecksOf(Alone(s)) = Members(s)
  BY OneStage
<1>8. 1 .. Len(s) = (1 .. n) \cup (n + 1 .. Len(s)) /\ n \in 1 .. n
  OBVIOUS
<1>9. \A c : c \in ChecksOf(Alone(p)) \cup ChecksOf(Alone(q)) <=> c \in ChecksOf(Alone(s))
  BY <1>5, <1>6, <1>7, <1>8 DEF Members
<1>10. ASSUME NEW c \in ChecksOf(Alone(p)), c \in ChecksOf(Alone(q))
       PROVE  FALSE
  <2>1. PICK j \in 1 .. n : s[j] = c
    BY <1>5
  <2>2. PICK l \in n + 1 .. Len(s) : s[l] = c
    BY <1>6, <1>10
  <2>3. j \in 1 .. Len(s) /\ l \in 1 .. Len(s) /\ j # l
    OBVIOUS
  <2>4. QED
    BY <2>1, <2>2, <2>3 DEF Distinct
<1>11. QED
  BY <1>1, <1>2, <1>3, <1>4, <1>5, <1>8, <1>9, <1>10 DEF p, q

\* splitPlanAfterCheck loses no check and runs none twice.
LEMMA Cut ==
  ASSUME NEW S, NEW plan \in Seq(Seq(S)), Once(plan), NEW id, Has(plan, id)
  PROVE  /\ UpTo(plan, id) \in Seq(Seq(S)) /\ Once(UpTo(plan, id))
         /\ Behind(plan, id) \in Seq(Seq(S)) /\ Once(Behind(plan, id))
         /\ ChecksOf(UpTo(plan, id)) \cap ChecksOf(Behind(plan, id)) = {}
         /\ ChecksOf(UpTo(plan, id)) \cup ChecksOf(Behind(plan, id)) = ChecksOf(plan)
         /\ id \in ChecksOf(UpTo(plan, id))
<1>1. PICK k \in 1 .. Len(plan) : k = StageOf(plan, id)
  BY Place
<1>2. PICK n \in 1 .. Len(plan[k]) : n = IndexOf(plan, id) /\ plan[k][n] = id
  BY <1>1, Place
<1>3. PICK s \in Seq(S) : s = plan[k]
  OBVIOUS
<1>4. Distinct(s)
  BY <1>3 DEF Once, Distinct
<1> DEFINE before == SubSeq(plan, 1, k - 1)
           after == SubSeq(plan, k + 1, Len(plan))
           first == SubSeq(s, 1, n)
           rest == SubSeq(s, n + 1, Len(s))
<1>5. /\ 1 \in 1 .. Len(plan) + 1 /\ k - 1 \in 0 .. Len(plan)
      /\ k + 1 \in 1 .. Len(plan) + 1 /\ Len(plan) \in 0 .. Len(plan)
  OBVIOUS
<1>6. /\ before \in Seq(Seq(S)) /\ Once(before)
      /\ Within(before, plan, 1, k - 1)
  BY <1>5, Slice, Zenon
<1>7. /\ after \in Seq(Seq(S)) /\ Once(after)
      /\ Within(after, plan, k + 1, Len(plan))
  BY <1>5, Slice, Zenon
<1>8. /\ first \in Seq(S) /\ Distinct(first)
      /\ rest \in Seq(S) /\ Distinct(rest)
      /\ ChecksOf(Alone(first)) \cap ChecksOf(Alone(rest)) = {}
      /\ ChecksOf(Alone(first)) \cup ChecksOf(Alone(rest)) = ChecksOf(Alone(s))
      /\ s[n] \in ChecksOf(Alone(first))
  <2>1. n \in 1 .. Len(s)
    BY <1>3
  <2>2. QED
    BY <2>1, <1>4, CutStage, Zenon
<1>9. /\ Alone(first) \in Seq(Seq(S)) /\ Once(Alone(first))
      /\ Alone(rest) \in Seq(Seq(S)) /\ Once(Alone(rest))
  BY <1>8, OneStage, Zenon
<1>10. \A c : c \in ChecksOf(Alone(s)) <=> \E j \in 1 .. Len(plan[k]) : plan[k][j] = c
  <2>1. ChecksOf(Alone(s)) = Members(s)
    BY <1>4, OneStage, Zenon
  <2>2. QED
    BY <2>1, <1>3 DEF Members
<1>11. UpTo(plan, id) = before \o Alone(first)
  BY <1>1, <1>2, <1>3 DEF UpTo, Alone
<1>12. Behind(plan, id) = (IF rest = <<>> THEN <<>> ELSE Alone(rest)) \o after
  BY <1>1, <1>2, <1>3 DEF Behind, Alone
<1> HIDE DEF before, after, first, rest
<1>13. /\ ChecksOf(before) \cap ChecksOf(Alone(s)) = {}
       /\ ChecksOf(before) \cap ChecksOf(after) = {}
       /\ ChecksOf(Alone(s)) \cap ChecksOf(after) = {}
  <2>1. ASSUME NEW c, NEW i \in 1 .. Len(plan), NEW m \in 1 .. Len(plan),
               \E j \in 1 .. Len(plan[i]) : plan[i][j] = c,
               \E j \in 1 .. Len(plan[m]) : plan[m][j] = c
        PROVE  i = m
    <3>1. PICK j \in 1 .. Len(plan[i]) : plan[i][j] = c
      BY <2>1
    <3>2. PICK l \in 1 .. Len(plan[m]) : plan[m][l] = c
      BY <2>1
    <3>3. plan[i][j] = plan[m][l]
      BY <3>1, <3>2
    <3>4. QED
      BY <3>3, OnceIs, Zenon
  <2>2. \A i \in 1 .. k - 1 : i \in 1 .. Len(plan) /\ i # k
    OBVIOUS
  <2>3. \A i \in k + 1 .. Len(plan) : i \in 1 .. Len(plan) /\ i # k
    OBVIOUS
  <2>4. \A i \in 1 .. k - 1, m \in k + 1 .. Len(plan) : i # m
    OBVIOUS
  <2>5. \A c : ~(c \in ChecksOf(before) /\ c \in ChecksOf(Alone(s)))
    BY <1>6, <1>10, <2>1, <2>2 DEF Within
  <2>6. \A c : ~(c \in ChecksOf(after) /\ c \in ChecksOf(Alone(s)))
    <3> SUFFICES ASSUME NEW c, c \in ChecksOf(after), c \in ChecksOf(Alone(s))
                 PROVE  FALSE
      OBVIOUS
    <3>1. PICK i \in k + 1 .. Len(plan) : \E j \in 1 .. Len(plan[i]) : plan[i][j] = c
      BY <1>7 DEF Within
    <3>2. QED
      BY <1>10, <2>1, <2>3, <3>1
  <2>7. \A c : ~(c \in ChecksOf(before) /\ c \in ChecksOf(after))
    <3> SUFFICES ASSUME NEW c, c \in ChecksOf(before), c \in ChecksOf(after)
                 PROVE  FALSE
      OBVIOUS
    <3>1. PICK i \in 1 .. k - 1 : \E j \in 1 .. Len(plan[i]) : plan[i][j] = c
      BY <1>6 DEF Within
    <3>2. PICK m \in k + 1 .. Len(plan) : \E j \in 1 .. Len(plan[m]) : plan[m][j] = c
      BY <1>7 DEF Within
    <3>3. QED
      BY <2>1, <2>2, <2>3, <2>4, <3>1, <3>2
  <2>8. QED
    BY <2>5, <2>6, <2>7
<1>14. ChecksOf(before) \cup ChecksOf(Alone(s)) \cup ChecksOf(after) = ChecksOf(plan)
  <2>1. 1 .. Len(plan) = (1 .. k - 1) \cup {k} \cup (k + 1 .. Len(plan))
    OBVIOUS
  <2>2. \A c : c \in ChecksOf(plan) <=>
          \E i \in (1 .. k - 1) \cup {k} \cup (k + 1 .. Len(plan)) :
            \E j \in 1 .. Len(plan[i]) : plan[i][j] = c
    BY <2>1, InPlan
  <2>3. \A c : c \in ChecksOf(plan) <=>
          c \in ChecksOf(before) \cup ChecksOf(Alone(s)) \cup ChecksOf(after)
    BY <2>2, <1>6, <1>7, <1>10 DEF Within
  <2>4. QED
    BY <2>3
<1>15. /\ UpTo(plan, id) \in Seq(Seq(S)) /\ Once(UpTo(plan, id))
       /\ ChecksOf(UpTo(plan, id)) = ChecksOf(before) \cup ChecksOf(Alone(first))
  <2>1. ChecksOf(before) \cap ChecksOf(Alone(first)) = {}
    BY <1>8, <1>13
  <2>2. QED
    <3>1. LET r == before \o Alone(first) IN
          /\ r \in Seq(Seq(S)) /\ Once(r)
          /\ ChecksOf(r) = ChecksOf(before) \cup ChecksOf(Alone(first))
      BY <2>1, <1>6, <1>9, Glue
    <3>2. QED
      BY <3>1, <1>11
<1>16. /\ Behind(plan, id) \in Seq(Seq(S)) /\ Once(Behind(plan, id))
       /\ ChecksOf(Behind(plan, id)) = ChecksOf(Alone(rest)) \cup ChecksOf(after)
  <2>1. CASE rest = <<>>
    <3>1. ChecksOf(Alone(rest)) = {}
      <4>1. ChecksOf(Alone(rest)) = Members(rest)
        BY <1>8, OneStage
      <4>2. 1 .. Len(rest) = {}
        BY <2>1
      <4>3. QED
        BY <4>1, <4>2 DEF Members
    <3>2. Behind(plan, id) = after
      BY <2>1, <1>7, <1>12
    <3>3. QED
      BY <3>1, <3>2, <1>7
  <2>2. CASE rest # <<>>
    <3>1. ChecksOf(Alone(rest)) \cap ChecksOf(after) = {}
      BY <1>8, <1>13
    <3>2. Behind(plan, id) = Alone(rest) \o after
      BY <2>2, <1>12
    <3>3. QED
      <4>1. LET r == Alone(rest) \o after IN
            /\ r \in Seq(Seq(S)) /\ Once(r)
            /\ ChecksOf(r) = ChecksOf(Alone(rest)) \cup ChecksOf(after)
        BY <3>1, <1>7, <1>9, Glue
      <4>2. QED
        BY <4>1, <3>2
  <2>3. QED
    BY <2>1, <2>2
<1>17. QED
  BY <1>2, <1>3, <1>8, <1>13, <1>14, <1>15, <1>16

-----------------------------------------------------------------------------
(* The stages Diagnose executes.                                           *)

Parts == {"whole", "mandatory", "auxiliary", "actual"}
Stage(S) == [part : Parts, checks : Seq(S)]

\* The plan that stages execute.
Bare(st) == [i \in 1 .. Len(st) |-> st[i].checks]

LEMMA FunctionIsSeq ==
  ASSUME NEW R, NEW n \in Nat, NEW f \in [1 .. n -> R]
  PROVE  f \in Seq(R) /\ Len(f) = n
  OBVIOUS

LEMMA StagedIs ==
  ASSUME NEW S, NEW plan \in Seq(Seq(S)), NEW name \in Parts
  PROVE  LET st == Staged(name, plan) IN
         /\ st \in Seq(Stage(S)) /\ Len(st) = Len(plan)
         /\ Bare(st) = plan
         /\ \A i \in 1 .. Len(st) : st[i].part = name
<1> DEFINE st == Staged(name, plan)
<1>1. /\ Len(plan) \in Nat /\ DOMAIN plan = 1 .. Len(plan)
      /\ \A i \in 1 .. Len(plan) : plan[i] \in Seq(S)
  OBVIOUS
<1>2. st = [i \in 1 .. Len(plan) |-> [part |-> name, checks |-> plan[i]]]
  BY DEF Staged
<1>3. st \in Seq(Stage(S)) /\ Len(st) = Len(plan)
  <2>1. \A i \in 1 .. Len(plan) : [part |-> name, checks |-> plan[i]] \in Stage(S)
    BY <1>1 DEF Stage
  <2>2. st \in [1 .. Len(plan) -> Stage(S)]
    BY <1>2, <2>1
  <2>3. QED
    BY <2>2, <1>1, FunctionIsSeq, Zenon
<1>4. Bare(st) = plan
  <2>1. \A i \in 1 .. Len(plan) : st[i].checks = plan[i]
    BY <1>2
  <2>2. Bare(st) = [i \in 1 .. Len(plan) |-> plan[i]]
    BY <2>1, <1>3 DEF Bare
  <2>3. plan = [i \in 1 .. Len(plan) |-> plan[i]]
    OBVIOUS
  <2>4. QED
    BY <2>2, <2>3
<1>5. QED
  BY <1>2, <1>3, <1>4

LEMMA BareGlue ==
  ASSUME NEW R, NEW s \in Seq(R), NEW t \in Seq(R)
  PROVE  Bare(s \o t) = Bare(s) \o Bare(t)
<1>0. PICK T : T = {r.checks : r \in R}
  OBVIOUS
<1>1. ASSUME NEW u \in Seq(R)
      PROVE  /\ Bare(u) \in Seq(T) /\ Len(Bare(u)) = Len(u)
             /\ \A i \in 1 .. Len(u) : Bare(u)[i] = u[i].checks
  <2>1. \A i \in 1 .. Len(u) : u[i] \in R
    OBVIOUS
  <2>2. Bare(u) \in [1 .. Len(u) -> T]
    BY <2>1, <1>0 DEF Bare
  <2>3. Len(u) \in Nat
    OBVIOUS
  <2>4. Bare(u) \in Seq(T) /\ Len(Bare(u)) = Len(u)
    BY <2>2, <2>3, FunctionIsSeq, Zenon
  <2>5. QED
    BY <2>4 DEF Bare
<1>2. s \o t \in Seq(R) /\ Len(s \o t) = Len(s) + Len(t)
  OBVIOUS
<1>3. ASSUME NEW x \in Seq(T), NEW y \in Seq(T), NEW z \in Seq(T),
             Len(x) = Len(s), \A i \in 1 .. Len(s) : x[i] = s[i].checks,
             Len(y) = Len(t), \A i \in 1 .. Len(t) : y[i] = t[i].checks,
             Len(z) = Len(s) + Len(t),
             \A i \in 1 .. Len(s) + Len(t) : z[i] = (s \o t)[i].checks
      PROVE  z = x \o y
  <2>1. ASSUME NEW i \in 1 .. Len(s) + Len(t)
        PROVE  z[i] = (x \o y)[i]
    <3>1. CASE i <= Len(s)
      <4>1. i \in 1 .. Len(s) /\ (s \o t)[i] = s[i] /\ (x \o y)[i] = x[i]
        BY <3>1, <1>3
      <4>2. QED
        BY <4>1, <1>3
    <3>2. CASE i > Len(s)
      <4>1. i - Len(s) \in 1 .. Len(t) /\ (s \o t)[i] = t[i - Len(s)]
        BY <3>2
      <4>2. (x \o y)[i] = y[i - Len(s)]
        BY <3>2, <1>3
      <4>3. QED
        BY <4>1, <4>2, <1>3
    <3>3. i <= Len(s) \/ i > Len(s)
      <4>1. Len(s) \in Nat /\ Len(t) \in Nat
        BY LenProperties, Zenon
      <4>2. QED
        BY <4>1
    <3>4. QED
      BY <3>1, <3>2, <3>3, Zenon
  <2>2. x \o y \in Seq(T) /\ Len(x \o y) = Len(s) + Len(t)
    <3>1. x \o y \in Seq(T) /\ Len(x \o y) = Len(x) + Len(y)
      BY ConcatProperties, Zenon
    <3>2. QED
      BY <3>1, <1>3
  <2>3. QED
    BY <2>1, <2>2, <1>3
<1>4. QED
  <2>1. Bare(s) \in Seq(T) /\ Bare(t) \in Seq(T) /\ Bare(s \o t) \in Seq(T)
    BY <1>1, <1>2
  <2>2. /\ Len(Bare(s)) = Len(s) /\ \A i \in 1 .. Len(s) : Bare(s)[i] = s[i].checks
        /\ Len(Bare(t)) = Len(t) /\ \A i \in 1 .. Len(t) : Bare(t)[i] = t[i].checks
        /\ Len(Bare(s \o t)) = Len(s) + Len(t)
        /\ \A i \in 1 .. Len(s) + Len(t) : Bare(s \o t)[i] = (s \o t)[i].checks
    BY <1>1, <1>2
  <2>3. Bare(s \o t) = Bare(s) \o Bare(t)
    BY <2>1, <2>2, <1>3, Zenon
  <2>4. QED
    BY <2>3

LEMMA BareIs ==
  ASSUME NEW S, NEW s \in Seq(Stage(S))
  PROVE  Bare(s) \in Seq(Seq(S)) /\ Len(Bare(s)) = Len(s)
<1>1. \A i \in 1 .. Len(s) : s[i] \in Stage(S)
  OBVIOUS
<1>2. Bare(s) \in [1 .. Len(s) -> Seq(S)]
  BY <1>1 DEF Bare, Stage
<1>3. Len(s) \in Nat
  OBVIOUS
<1>4. QED
  BY <1>2, <1>3, FunctionIsSeq, Zenon

\* No check of the auxiliary part runs before the proxy policy is resolved.
PolicyFirst(st) ==
  \A i, k \in 1 .. Len(st) : \A j \in 1 .. Len(st[i].checks) :
    st[i].checks[j] = "environment" /\ st[k].part = "auxiliary" => i < k

\* Three parts with different checks, one after the other.
LEMMA ThreeParts ==
  ASSUME NEW S, NEW man \in Seq(Seq(S)), NEW opt \in Seq(Seq(S)), NEW act \in Seq(Seq(S)),
         Once(man), Once(opt), Once(act),
         ChecksOf(man) \cap ChecksOf(opt) = {},
         (ChecksOf(man) \cup ChecksOf(opt)) \cap ChecksOf(act) = {}
  PROVE  LET st == Staged("mandatory", man) \o Staged("auxiliary", opt)
                     \o Staged("actual", act)
         IN
         /\ st \in Seq(Stage(S))
         /\ Once(Bare(st))
         /\ ChecksOf(Bare(st)) = ChecksOf(man) \cup ChecksOf(opt) \cup ChecksOf(act)
         /\ ("environment" \in ChecksOf(Bare(st)) => "environment" \in ChecksOf(man))
              => PolicyFirst(st)
<1> DEFINE a == Staged("mandatory", man)
           b == Staged("auxiliary", opt)
           c == Staged("actual", act)
           st == a \o b \o c
<1>1. /\ a \in Seq(Stage(S)) /\ Bare(a) = man /\ Len(a) = Len(man)
      /\ \A i \in 1 .. Len(a) : a[i].part = "mandatory"
      /\ b \in Seq(Stage(S)) /\ Bare(b) = opt /\ Len(b) \in Nat
      /\ c \in Seq(Stage(S)) /\ Bare(c) = act /\ Len(c) \in Nat
      /\ Len(man) \in Nat
  <2>1. "mandatory" \in Parts /\ "auxiliary" \in Parts /\ "actual" \in Parts
    BY DEF Parts
  <2>2. Len(man) \in Nat /\ Len(opt) \in Nat /\ Len(act) \in Nat
    OBVIOUS
  <2>3. /\ a \in Seq(Stage(S)) /\ Bare(a) = man /\ Len(a) = Len(man)
        /\ \A i \in 1 .. Len(a) : a[i].part = "mandatory"
    BY <2>1, StagedIs, Zenon
  <2>4. b \in Seq(Stage(S)) /\ Bare(b) = opt /\ Len(b) = Len(opt)
    BY <2>1, StagedIs, Zenon
  <2>5. c \in Seq(Stage(S)) /\ Bare(c) = act /\ Len(c) = Len(act)
    BY <2>1, StagedIs, Zenon
  <2>6. QED
    BY <2>2, <2>3, <2>4, <2>5
<1> HIDE DEF a, b, c
<1>2. \A r \in Stage(S) : r.checks \in Seq(S)
  BY DEF Stage
<1>3. /\ a \o b \in Seq(Stage(S)) /\ Len(a \o b) = Len(a) + Len(b)
      /\ Bare(a \o b) = Bare(a) \o Bare(b)
  <2>1. a \in Seq(Stage(S)) /\ b \in Seq(Stage(S))
    BY <1>1
  <2>2. a \o b \in Seq(Stage(S)) /\ Len(a \o b) = Len(a) + Len(b)
    BY <2>1, ConcatProperties, Zenon
  <2>3. Bare(a \o b) = Bare(a) \o Bare(b)
    BY <2>1, BareGlue, Zenon
  <2>4. QED
    BY <2>2, <2>3
<1>4. /\ st \in Seq(Stage(S)) /\ Len(st) = Len(a \o b) + Len(c)
      /\ Bare(st) = Bare(a \o b) \o Bare(c)
  <2>1. a \o b \in Seq(Stage(S)) /\ c \in Seq(Stage(S))
    BY <1>1, <1>3
  <2>2. st \in Seq(Stage(S)) /\ Len(st) = Len(a \o b) + Len(c)
    BY <2>1, ConcatProperties, Zenon
  <2>3. Bare(st) = Bare(a \o b) \o Bare(c)
    BY <2>1, BareGlue, Zenon
  <2>4. QED
    BY <2>2, <2>3
<1>5. Bare(st) \in Seq(Seq(S)) /\ Len(Bare(st)) = Len(st)
  <2>1. st \in Seq(Stage(S))
    BY <1>4
  <2>2. QED
    BY <2>1, BareIs, Zenon
<1>6. /\ man \o opt \in Seq(Seq(S)) /\ Once(man \o opt)
      /\ ChecksOf(man \o opt) = ChecksOf(man) \cup ChecksOf(opt)
  BY Glue
<1>7. /\ Once((man \o opt) \o act)
      /\ ChecksOf((man \o opt) \o act) = ChecksOf(man \o opt) \cup ChecksOf(act)
  <2>1. PICK q \in Seq(Seq(S)) : q = man \o opt
    BY <1>6
  <2>2. Once(q) /\ ChecksOf(q) \cap ChecksOf(act) = {}
    BY <1>6, <2>1
  <2>3. Once(q \o act) /\ ChecksOf(q \o act) = ChecksOf(q) \cup ChecksOf(act)
    BY <2>2, Glue
  <2>4. QED
    BY <2>1, <2>3
<1>8. /\ Once(Bare(st))
      /\ ChecksOf(Bare(st)) = ChecksOf(man) \cup ChecksOf(opt) \cup ChecksOf(act)
  BY <1>1, <1>3, <1>4, <1>6, <1>7
<1>9. /\ \A x \in 1 .. Len(st) : Bare(st)[x] = st[x].checks
      /\ \A x \in 1 .. Len(a) : x \in 1 .. Len(st) /\ st[x] = a[x]
  <2>1. \A x \in 1 .. Len(a) : (a \o b)[x] = a[x] /\ x <= Len(a \o b)
    BY <1>1, <1>3, ConcatProperties
  <2>2. \A x \in 1 .. Len(a) : st[x] = (a \o b)[x]
    BY <1>1, <1>3, <2>1, ConcatProperties
  <2>3. QED
    BY <1>1, <1>3, <1>4, <2>1, <2>2 DEF Bare
<1>10. ASSUME "environment" \in ChecksOf(Bare(st)) => "environment" \in ChecksOf(man)
       PROVE  PolicyFirst(st)
  <2> SUFFICES ASSUME NEW i \in 1 .. Len(st), NEW l \in 1 .. Len(st),
                      NEW j \in 1 .. Len(st[i].checks),
                      st[i].checks[j] = "environment", st[l].part = "auxiliary"
               PROVE  i < l
    BY DEF PolicyFirst
  <2> HIDE DEF st
  <2>1. l > Len(a)
    <3>1. ~(l \in 1 .. Len(a))
      BY <1>1, <1>9
    <3>2. QED
      BY <3>1, <1>1
  <2>2. i \in 1 .. Len(Bare(st)) /\ j \in 1 .. Len(Bare(st)[i])
        /\ Bare(st)[i][j] = "environment"
    BY <1>5, <1>9
  <2>3. "environment" \in ChecksOf(man)
    BY <1>10, <2>2, InPlan
  <2>4. PICK x \in 1 .. Len(man) : \E y \in 1 .. Len(man[x]) : man[x][y] = "environment"
    BY <2>3, InPlan
  <2>5. man[x] = a[x].checks
    BY <1>1 DEF Bare
  <2>6. x \in 1 .. Len(Bare(st)) /\ Bare(st)[x] = man[x]
    BY <1>1, <1>5, <1>9, <2>5
  <2>7. i = x
    <3>1. PICK y \in 1 .. Len(Bare(st)[x]) : Bare(st)[x][y] = "environment"
      BY <2>4, <2>6
    <3>2. Once(Bare(st)) /\ Bare(st)[i][j] = Bare(st)[x][y]
      BY <1>8, <2>2, <3>1
    <3>3. QED
      BY <2>2, <2>6, <3>2, OnceIs, Zenon
  <2>8. QED
    BY <1>1, <2>1, <2>7
<1>11. QED
  BY <1>4, <1>8, <1>10 DEF a, b, c

\* The three parts contain each check of the plan once.
LEMMA Layout ==
  ASSUME NEW plan \in Plans
  PROVE  LET st == StagesOf(plan) IN
         /\ st \in Seq(Stage(ChecksOf(plan)))
         /\ Once(Bare(st))
         /\ ChecksOf(Bare(st)) = ChecksOf(plan)
         /\ PolicyFirst(st)
<1>1. PICK S : S = ChecksOf(plan) /\ plan \in Seq(Seq(S)) /\ Once(plan)
  BY PlansAssumption
<1>2. CASE Actual(plan) = <<>>
  <2>1. PICK st : st = StagesOf(plan) /\ st = Staged("whole", plan)
    BY <1>2 DEF StagesOf
  <2>2. /\ st \in Seq(Stage(S)) /\ Bare(st) = plan
        /\ \A i \in 1 .. Len(st) : st[i].part = "whole"
    BY <1>1, <2>1, StagedIs DEF Parts
  <2>3. PolicyFirst(st)
    BY <2>2 DEF PolicyFirst
  <2>4. QED
    BY <1>1, <2>1, <2>2, <2>3
<1>3. CASE Actual(plan) # <<>>
  <2> DEFINE k == StageOf(plan, "http")
             pre == Preflight(plan)
             act == Actual(plan)
             man == Mandatory(pre)
             opt == Auxiliary(pre)
  <2>1. Has(plan, "http")
    <3>1. CASE ~Has(plan, "http")
      <4>1. Actual(plan) = SubSeq(plan, Len(plan) + 1, Len(plan))
        BY <3>1 DEF Actual, Preflight
      <4>2. Len(plan) \in Nat
        BY <1>1
      <4>3. SubSeq(plan, Len(plan) + 1, Len(plan)) = <<>>
        BY <4>2, SubSeqEmpty
      <4>4. QED
        BY <4>1, <4>3, <1>3
    <3>2. QED
      BY <3>1
  <2>2. k \in 1 .. Len(plan)
    BY <2>1, Place
  <2>3. PICK m \in 0 .. Len(plan) : m = k - 1
    BY <2>2
  <2>4. pre = SubSeq(plan, 1, m)
    BY <2>1, <2>3 DEF Preflight
  <2>5. /\ pre \in Seq(Seq(S)) /\ Once(pre) /\ Len(pre) = m
    <3>1. LET p == SubSeq(plan, 1, m) IN p \in Seq(Seq(S)) /\ Once(p) /\ Len(p) = m
      BY <1>1, <2>3, Halves
    <3>2. QED
      BY <2>4, <3>1
  <2>6. act = SubSeq(plan, m + 1, Len(plan))
    BY <2>5 DEF Actual
  <2>7. /\ act \in Seq(Seq(S)) /\ Once(act)
        /\ ChecksOf(pre) \cap ChecksOf(act) = {}
        /\ ChecksOf(pre) \cup ChecksOf(act) = ChecksOf(plan)
    <3>1. LET p == SubSeq(plan, 1, m)
              q == SubSeq(plan, m + 1, Len(plan))
          IN  /\ q \in Seq(Seq(S)) /\ Once(q)
              /\ ChecksOf(p) \cap ChecksOf(q) = {}
              /\ ChecksOf(p) \cup ChecksOf(q) = ChecksOf(plan)
      BY <1>1, Halves, Zenon
    <3>2. QED
      BY <2>4, <2>6, <3>1
  <2>8. /\ man \in Seq(Seq(S)) /\ Once(man)
        /\ opt \in Seq(Seq(S)) /\ Once(opt)
        /\ ChecksOf(man) \cap ChecksOf(opt) = {}
        /\ ChecksOf(man) \cup ChecksOf(opt) = ChecksOf(pre)
        /\ Has(pre, "environment") => "environment" \in ChecksOf(man)
    <3>1. CASE Has(pre, Anchor(pre))
      <4>1. man = UpTo(pre, Anchor(pre)) /\ opt = Behind(pre, Anchor(pre))
        BY <3>1 DEF Mandatory, Auxiliary
      <4>2. /\ man \in Seq(Seq(S)) /\ Once(man)
            /\ opt \in Seq(Seq(S)) /\ Once(opt)
            /\ ChecksOf(man) \cap ChecksOf(opt) = {}
            /\ ChecksOf(man) \cup ChecksOf(opt) = ChecksOf(pre)
            /\ Anchor(pre) \in ChecksOf(man)
        BY <4>1, <3>1, <2>5, Cut
      <4>3. QED
        BY <4>2 DEF Anchor
    <3>2. CASE ~Has(pre, Anchor(pre))
      <4>1. man = <<>> /\ opt = pre
        BY <3>2 DEF Mandatory, Auxiliary
      <4>2. /\ <<>> \in Seq(Seq(S)) /\ Once(<<>>) /\ ChecksOf(<<>>) = {}
        BY DEF Once, ChecksOf
      <4>3. ~Has(pre, "environment")
        BY <3>2 DEF Anchor
      <4>4. QED
        BY <4>1, <4>2, <4>3, <2>5
    <3>3. QED
      BY <3>1, <3>2
  <2>9. Has(plan, "environment") => Has(pre, "environment")
    <3> SUFFICES ASSUME Has(plan, "environment")
                 PROVE  Has(pre, "environment")
      OBVIOUS
    <3>1. /\ StageOf(plan, "environment") < k
          /\ StageOf(plan, "environment") \in 1 .. Len(plan)
          /\ IndexOf(plan, "environment") \in 1 .. Len(plan[StageOf(plan, "environment")])
          /\ plan[StageOf(plan, "environment")][IndexOf(plan, "environment")] = "environment"
      BY <2>1, PolicyAssumption, Place
    <3>2. StageOf(plan, "environment") \in 1 .. m
      BY <3>1, <2>2, <2>3
    <3>3. 1 \in 1 .. Len(plan) + 1
      BY <1>1
    <3>4. Within(pre, plan, 1, m)
      BY <3>3, <1>1, <2>4, Slice, Zenon
    <3>5. QED
      BY <3>1, <3>2, <3>4 DEF Has, Within
  <2>10. StagesOf(plan) = Staged("mandatory", man) \o Staged("auxiliary", opt)
                            \o Staged("actual", act)
    BY <1>3 DEF StagesOf
  <2> HIDE DEF pre, act, man, opt
  <2>11. ChecksOf(man) \cup ChecksOf(opt) \cup ChecksOf(act) = ChecksOf(plan)
    BY <2>7, <2>8
  <2>12. "environment" \in ChecksOf(plan) => "environment" \in ChecksOf(man)
    BY <2>8, <2>9 DEF Has
  <2>13. (ChecksOf(man) \cup ChecksOf(opt)) \cap ChecksOf(act) = {}
    BY <2>7, <2>8
  <2> DEFINE st == Staged("mandatory", man) \o Staged("auxiliary", opt)
                     \o Staged("actual", act)
  <2>14. /\ st \in Seq(Stage(S))
         /\ Once(Bare(st))
         /\ ChecksOf(Bare(st)) = ChecksOf(man) \cup ChecksOf(opt) \cup ChecksOf(act)
         /\ ("environment" \in ChecksOf(Bare(st)) => "environment" \in ChecksOf(man))
              => PolicyFirst(st)
    BY <2>7, <2>8, <2>13, ThreeParts
  <2> HIDE DEF st
  <2>15. QED
    BY <1>1, <2>10, <2>11, <2>12, <2>14 DEF st
<1>4. QED
  BY <1>2, <1>3

-----------------------------------------------------------------------------
(* The inductive invariant.                                                *)

EventTypes == {"run_started", "started", "completed", "run_completed"}
ResultSet == [status : Statuses, auxiliary : BOOLEAN]
EventSet == [type : EventTypes, check : Checks \cup {"run"}, result : ResultSet]

\* The check c has the place j in stage i.
At(c, i, j) ==
  i \in 1 .. Len(stages) /\ j \in 1 .. Len(stages[i].checks) /\ stages[i].checks[j] = c

\* Each check has one place.
Shape ==
  /\ stages \in Seq(Stage(Checks))
  /\ \A c \in Checks : \E i, j \in Nat : At(c, i, j)
  /\ \A c \in Checks, i, j, k, l \in Nat : At(c, i, j) /\ At(c, k, l) => i = k /\ j = l
  /\ PolicyFirst(stages)

Typed == TypeOK /\ events \in Seq(EventSet)

\* Which checks have begun: those of the stages before this one have ended, and
\* of this one those that were taken, when it runs, have begun.
WorkedOff ==
  /\ \A c \in Checks, i, j \in Nat : At(c, i, j) =>
       /\ i < stage => phase[c] = "finished"
       /\ i > stage \/ (i = stage /\ (step # "running" \/ j > next)) => phase[c] = "waiting"
  /\ step = "running" => InStage /\ next <= Len(Jobs) /\ (Part = "auxiliary" => aux # "absent")
  /\ step = "returned" => ~InStage

\* The policy is unresolved until the environment check has ended.
Policy ==
  /\ "environment" \in Checks => phase["environment"] = "finished" \/ proxy = "unresolved"
  /\ proxy = "selected" => options.http
  /\ FailClosed

\* While the run's own context lives, only the budget has stopped a check, and
\* only an auxiliary one.
Causes ==
  /\ runErr = "none" => aux \in {"absent", "live", "budget"}
  /\ \A c \in Checks : phase[c] = "finished" /\ runErr = "none" =>
       /\ result[c].status \in {"passed", "failed", "skipped", "budget"}
       /\ PartOf(c) # "auxiliary" => result[c].status # "budget"

\* The role a check has in the report, by the conditions of the event sink.
Role(c) ==
  /\ PartOf(c) = "auxiliary"
  /\ options.http /\ (~options.matrix \/ proxy = "selected")
  /\ c \in Direct

\* The completed event n is the one of check c.
Tells(n, c) == events[n].type = "completed" /\ events[n].check = c
Reported(c) == [status |-> result[c].status, auxiliary |-> Role(c)]

\* Every check of the stages before this one was reported.
AllTold ==
  \A c \in Checks, i, j \in Nat : At(c, i, j) /\ i < stage =>
    \E n \in 1 .. Len(events) : Tells(n, c) /\ events[n].result = Reported(c)

\* What is told is about the checks up to this stage.
OnlyTold ==
  \A n \in 1 .. Len(events) :
    /\ events[n].type = "completed" =>
         \E i, j \in Nat : At(events[n].check, i, j) /\ i < stage
    /\ events[n].type = "started" =>
         \E i, j \in Nat : /\ At(events[n].check, i, j)
                           /\ (i < stage \/ (i = stage /\ step = "running"))
    /\ events[n].type = "run_completed" <=> (step = "returned" /\ n = Len(events))

\* Events of one type are in the order of the plan.
InOrder ==
  \A n \in 1 .. Len(events) : \A m \in 1 .. n - 1 :
    events[m].type = events[n].type /\ events[n].type \in {"started", "completed"} =>
      \A i, j, k, l \in Nat : At(events[m].check, i, j) /\ At(events[n].check, k, l) =>
        Ahead(<<i, j>>, <<k, l>>)

\* When a check is reported, those ahead of it were.
NoneMissing ==
  \A n \in 1 .. Len(events) : events[n].type = "completed" =>
    \A c \in Checks, i, j, k, l \in Nat :
      At(c, i, j) /\ At(events[n].check, k, l) /\ Ahead(<<i, j>>, <<k, l>>) =>
        \E m \in 1 .. n - 1 : Tells(m, c)

\* No check is announced once it was reported.
NoneRevived ==
  \A n \in 1 .. Len(events) : \A m \in 1 .. n - 1 :
    events[m].type = "completed" /\ events[n].type = "started" =>
      events[m].check # events[n].check

\* What Diagnose returns is what was told.
Marking == step = "returned" => \A c \in Checks : result[c] = Reported(c)

Stream == AllTold /\ OnlyTold /\ InOrder /\ NoneMissing /\ NoneRevived /\ Marking

IInv == Shape /\ Typed /\ WorkedOff /\ Policy /\ Causes /\ Stream


-----------------------------------------------------------------------------
(* The places of the checks.                                               *)

\* Parts of the layout that never change.
LEMMA Frame ==
  ASSUME stages' = stages
  PROVE  /\ \A c, i, j : At(c, i, j)' <=> At(c, i, j)
         /\ \A c : PartOf(c)' = PartOf(c)
         /\ Shape /\ Checks' = Checks => Shape'
<1>1. \A c, i, j : At(c, i, j)' <=> At(c, i, j)
  BY DEF At
<1>2. \A c : PartOf(c)' = PartOf(c)
  BY DEF PartOf
<1>3. ASSUME Shape, Checks' = Checks
      PROVE  Shape'
  <2>1. PolicyFirst(stages)'
    BY <1>3 DEF Shape, PolicyFirst
  <2>2. (stages \in Seq(Stage(Checks)))'
    BY <1>3 DEF Shape
  <2>3. (\A c \in Checks : \E i, j \in Nat : At(c, i, j))'
    BY <1>1, <1>3 DEF Shape
  <2>4. (\A c \in Checks, i, j, k, l \in Nat : At(c, i, j) /\ At(c, k, l) => i = k /\ j = l)'
    BY <1>1, <1>3 DEF Shape
  <2>5. QED
    BY <2>1, <2>2, <2>3, <2>4 DEF Shape
<1>4. QED
  BY <1>1, <1>2, <1>3

LEMMA OnePlace ==
  ASSUME Shape, NEW c \in Checks, NEW i \in Nat, NEW j \in Nat, NEW k \in Nat, NEW l \in Nat,
         At(c, i, j), At(c, k, l)
  PROVE  i = k /\ j = l
  BY DEF Shape

\* A place is ahead of another: an earlier stage, or an earlier place in it.
LEMMA AheadIs ==
  ASSUME NEW i \in Nat, NEW j \in Nat, NEW k \in Nat, NEW l \in Nat
  PROVE  Ahead(<<i, j>>, <<k, l>>) <=> i < k \/ (i = k /\ j < l)
  BY DEF Ahead

\* A place is a pair of numbers, and a check of the run is at it.
LEMMA AtIs ==
  ASSUME Shape, NEW c, NEW i, NEW j, At(c, i, j)
  PROVE  /\ i \in Nat /\ j \in Nat /\ i \in 1 .. Len(stages) /\ Len(stages) \in Nat
         /\ c \in Checks
         /\ stages[i].part \in Parts
         /\ PartOf(c) = stages[i].part
<1>1. stages \in Seq(Stage(Checks)) /\ Len(stages) \in Nat
  BY DEF Shape
<1>2. i \in 1 .. Len(stages) /\ i \in Nat /\ stages[i] \in Stage(Checks)
  BY <1>1 DEF At
<1>3. stages[i].checks \in Seq(Checks) /\ stages[i].part \in Parts
  BY <1>2 DEF Stage
<1>4. j \in Nat /\ c \in Checks
  BY <1>3 DEF At
<1>5. PartOf(c) = stages[i].part
  <2> DEFINE k == CHOOSE x \in 1 .. Len(stages) :
                    \E y \in 1 .. Len(stages[x].checks) : stages[x].checks[y] = c
  <2>1. \E y \in 1 .. Len(stages[i].checks) : stages[i].checks[y] = c
    BY DEF At
  <2>2. /\ k \in 1 .. Len(stages)
        /\ \E y \in 1 .. Len(stages[k].checks) : stages[k].checks[y] = c
    BY <1>2, <2>1
  <2>3. PICK y \in 1 .. Len(stages[k].checks) : At(c, k, y)
    BY <2>2 DEF At
  <2>4. k \in Nat /\ stages[k] \in Stage(Checks)
    BY <1>1, <2>2
  <2>5. y \in Nat
    BY <2>4 DEF Stage
  <2> HIDE DEF k
  <2>6. k = i
    BY <1>2, <1>4, <2>3, <2>4, <2>5 DEF Shape
  <2>7. QED
    BY <2>6 DEF k, PartOf
<1>6. QED
  BY <1>1, <1>2, <1>3, <1>4, <1>5

\* The checks of the current stage.
LEMMA JobIs ==
  ASSUME Shape, stage \in Nat \ {0}, InStage
  PROVE  /\ Len(Jobs) \in Nat
         /\ Part = stages[stage].part
         /\ \A j \in 1 .. Len(Jobs) : At(Jobs[j], stage, j) /\ Jobs[j] \in Checks
         /\ \A c, j : At(c, stage, j) => j \in 1 .. Len(Jobs) /\ Jobs[j] = c
         /\ \A c \in Checks : InJobs(c) <=> \E j \in Nat : At(c, stage, j)
<1>1. stages \in Seq(Stage(Checks)) /\ Len(stages) \in Nat
  BY DEF Shape
<1>2. stage \in 1 .. Len(stages)
  BY <1>1 DEF InStage
<1>3. stages[stage] \in Stage(Checks)
  BY <1>1, <1>2
<1>4. Jobs \in Seq(Checks) /\ Len(Jobs) \in Nat
  BY <1>3 DEF Jobs, Stage
<1>5. \A j \in 1 .. Len(Jobs) : At(Jobs[j], stage, j) /\ Jobs[j] \in Checks
  BY <1>2, <1>4 DEF At, Jobs
<1>6. \A c, j : At(c, stage, j) => j \in 1 .. Len(Jobs) /\ Jobs[j] = c
  BY DEF At, Jobs
<1>7. \A c \in Checks : InJobs(c) <=> \E j \in Nat : At(c, stage, j)
  BY <1>4, <1>5, <1>6 DEF InJobs
<1>8. QED
  BY <1>4, <1>5, <1>6, <1>7 DEF Part

\* A check that is running is one of the stage that is executed.
LEMMA RunningIs ==
  ASSUME Shape, TypeOK, WorkedOff, NEW c \in Checks, phase[c] = "running"
  PROVE  /\ step = "running" /\ InStage
         /\ Part = PartOf(c)
         /\ \E j \in Nat : At(c, stage, j) /\ j <= next
<1>1. PICK i \in Nat, j \in Nat : At(c, i, j)
  BY DEF Shape
<1>2. Len(stages) \in Nat /\ stage \in Nat \ {0} /\ next \in Nat
  BY DEF Shape, TypeOK
<1>3. ~(i < stage)
  BY <1>1 DEF WorkedOff
<1>4. ~(i > stage \/ (i = stage /\ (step # "running" \/ j > next)))
  BY <1>1 DEF WorkedOff
<1>5. i = stage /\ step = "running" /\ j <= next
  BY <1>2, <1>3, <1>4
<1>6. InStage
  BY <1>5 DEF WorkedOff
<1>7. PartOf(c) = stages[stage].part
  BY <1>1, <1>5, AtIs
<1>8. QED
  BY <1>1, <1>5, <1>6, <1>7 DEF Part

\* The cause of a stage's context, once the stage may be entered.
LEMMA CauseIs ==
  ASSUME TypeOK, Causes, Part = "auxiliary" => aux # "absent"
  PROVE  /\ CtxErr \in Errs
         /\ runErr = "none" => CtxErr \in {"none", "budget"}
         /\ runErr = "none" /\ Part # "auxiliary" => CtxErr = "none"
  BY DEF TypeOK, Causes, CtxErr, Errs

-----------------------------------------------------------------------------
(* The parts of the invariant that do not speak of events.                 *)

\* The steps of the run.
Acts == \/ \E err \in {"cancelled", "deadline"} : EndRun(err)
        \/ ReserveBudget \/ BudgetExpires
        \/ StopStage \/ StartStage \/ CompleteStage
        \/ TakeJob \/ \E c \in Checks, o \in Outcomes : CheckReturns(c, o)
        \/ Return

LEMMA ActsAre ==
  ASSUME [Next]_vars
  PROVE  Acts \/ UNCHANGED vars
  BY DEF Next, Progress, Acts, Cancel, GlobalDeadline, Terminated

\* The layout and the options are those of the start.
LEMMA Fixed ==
  ASSUME TypeOK, Shape, [Next]_vars
  PROVE  /\ stages' = stages /\ options' = options /\ Checks' = Checks
         /\ Shape'
<1>1. stages' = stages /\ options' = options
  <2>1. CASE Acts
    BY <2>1 DEF Acts, EndRun, ReserveBudget, BudgetExpires, StopStage, StartStage,
       CompleteStage, TakeJob, CheckReturns, Return, setup
  <2>2. CASE UNCHANGED vars
    BY <2>2 DEF vars, setup
  <2>3. QED
    BY <2>1, <2>2, ActsAre
<1>2. Checks' = Checks
  <2>1. CASE \E err \in {"cancelled", "deadline"} : EndRun(err)
    BY <2>1 DEF EndRun, Checks
  <2>2. CASE ReserveBudget \/ BudgetExpires \/ StartStage \/ CompleteStage \/ Return
    BY <2>2 DEF ReserveBudget, BudgetExpires, StartStage, CompleteStage, Return, Checks
  <2>3. CASE StopStage
    BY <2>3 DEF StopStage, Checks
  <2>4. CASE TakeJob
    BY <2>4 DEF TakeJob, Checks
  <2>5. CASE \E c \in Checks, o \in Outcomes : CheckReturns(c, o)
    BY <2>5 DEF CheckReturns, Checks
  <2>6. CASE UNCHANGED vars
    BY <2>6 DEF vars, Checks
  <2>7. QED
    BY <2>1, <2>2, <2>3, <2>4, <2>5, <2>6, ActsAre DEF Acts
<1>3. QED
  BY <1>1, <1>2, Frame

\* The job that is taken is a check of the stage that has not begun.
LEMMA TakenIs ==
  ASSUME Shape, TypeOK, WorkedOff, TakeJob
  PROVE  /\ InStage /\ Jobs[next + 1] \in Checks
         /\ At(Jobs[next + 1], stage, next + 1)
         /\ phase[Jobs[next + 1]] = "waiting"
         /\ Part = PartOf(Jobs[next + 1])
         /\ Part = "auxiliary" => aux # "absent"
<1>1. /\ step = "running" /\ next < Len(Jobs) /\ next \in Nat
      /\ stage \in Nat \ {0}
  <2>1. Len(stages) \in Nat
    BY DEF Shape
  <2>2. QED
    BY <2>1 DEF TypeOK, TakeJob
<1>2. InStage /\ (Part = "auxiliary" => aux # "absent")
  BY <1>1 DEF WorkedOff
<1>3. next + 1 \in 1 .. Len(Jobs)
  BY <1>1, <1>2, JobIs
<1>4. At(Jobs[next + 1], stage, next + 1) /\ Jobs[next + 1] \in Checks
  BY <1>1, <1>2, <1>3, JobIs
<1>5. phase[Jobs[next + 1]] = "waiting"
  BY <1>1, <1>4 DEF WorkedOff
<1>6. Part = PartOf(Jobs[next + 1])
  BY <1>1, <1>2, <1>4, AtIs, JobIs
<1>7. QED
  BY <1>2, <1>4, <1>5, <1>6

\* The completed events of a stage carry what the report will carry.
LEMMA Reports ==
  ASSUME Shape, TypeOK, InStage, NEW res \in [Checks -> ResultSet]
  PROVE  /\ Completed(res) \in Seq(EventSet) /\ Len(Completed(res)) = Len(Jobs)
         /\ \A j \in 1 .. Len(Jobs) :
              Completed(res)[j] =
                Event("completed", Jobs[j],
                      [status |-> res[Jobs[j]].status, auxiliary |-> Role(Jobs[j])])
<1>1. /\ Len(Jobs) \in Nat /\ \A j \in 1 .. Len(Jobs) : Jobs[j] \in Checks
      /\ \A j \in 1 .. Len(Jobs) : PartOf(Jobs[j]) = Part
  <2>1. stage \in Nat \ {0}
    BY DEF Shape, TypeOK
  <2>2. /\ Len(Jobs) \in Nat /\ Part = stages[stage].part
        /\ \A j \in 1 .. Len(Jobs) : Jobs[j] \in Checks /\ At(Jobs[j], stage, j)
    BY <2>1, JobIs
  <2>3. QED
    BY <2>2, AtIs
<1>2. ASSUME NEW j \in 1 .. Len(Jobs)
      PROVE  /\ SinkMarks(Jobs[j]) = Role(Jobs[j]) /\ SinkMarks(Jobs[j]) \in BOOLEAN
  BY <1>1 DEF SinkMarks, Role
<1>3. ASSUME NEW j \in 1 .. Len(Jobs)
      PROVE  [res[Jobs[j]] EXCEPT !.auxiliary = SinkMarks(Jobs[j])]
               = [status |-> res[Jobs[j]].status, auxiliary |-> SinkMarks(Jobs[j])]
  BY <1>1 DEF ResultSet
<1>4. \A j \in 1 .. Len(Jobs) :
        Completed(res)[j] =
          Event("completed", Jobs[j],
                [status |-> res[Jobs[j]].status, auxiliary |-> Role(Jobs[j])])
  <2>1. ASSUME NEW j \in 1 .. Len(Jobs)
        PROVE  Completed(res)[j] =
                 Event("completed", Jobs[j],
                       [status |-> res[Jobs[j]].status, auxiliary |-> Role(Jobs[j])])
    <3>1. Completed(res)[j] =
            Event("completed", Jobs[j],
                  [res[Jobs[j]] EXCEPT !.auxiliary = SinkMarks(Jobs[j])])
      BY DEF Completed
    <3>2. QED
      BY <3>1, <1>2, <1>3
  <2>2. QED
    BY <2>1
<1>5. \A j \in 1 .. Len(Jobs) : Completed(res)[j] \in EventSet
  <2>1. ASSUME NEW j \in 1 .. Len(Jobs)
        PROVE  Completed(res)[j] \in EventSet
    <3>1. PICK r \in ResultSet :
            r = [status |-> res[Jobs[j]].status, auxiliary |-> Role(Jobs[j])]
      BY <1>1, <1>2 DEF ResultSet
    <3>2. Event("completed", Jobs[j], r) \in EventSet
      BY <1>1 DEF EventSet, Event, EventTypes
    <3>3. QED
      BY <1>4, <3>1, <3>2
  <2>2. QED
    BY <2>1
<1>6. Completed(res) \in [1 .. Len(Jobs) -> EventSet]
  <2>1. /\ DOMAIN Completed(res) = 1 .. Len(Jobs)
        /\ Completed(res) = [j \in DOMAIN Completed(res) |-> Completed(res)[j]]
    BY DEF Completed
  <2>2. QED
    BY <2>1, <1>5
<1>7. Completed(res) \in Seq(EventSet) /\ Len(Completed(res)) = Len(Jobs)
  BY <1>1, <1>6, FunctionIsSeq, Zenon
<1>8. QED
  BY <1>4, <1>7

\* The started events of a stage.
LEMMA Announces ==
  ASSUME Shape, TypeOK, InStage
  PROVE  /\ Started \in Seq(EventSet) /\ Len(Started) = Len(Jobs)
         /\ \A j \in 1 .. Len(Jobs) : Started[j] = Event("started", Jobs[j], NoResult)
<1>1. Len(Jobs) \in Nat /\ \A j \in 1 .. Len(Jobs) : Jobs[j] \in Checks
  <2>1. stage \in Nat \ {0}
    BY DEF Shape, TypeOK
  <2>2. QED
    BY <2>1, JobIs
<1>2. NoResult \in ResultSet
  BY DEF NoResult, ResultSet, Statuses
<1>3. Started \in [1 .. Len(Jobs) -> EventSet]
  BY <1>1, <1>2 DEF Started, Event, EventSet, EventTypes
<1>4. Started \in Seq(EventSet) /\ Len(Started) = Len(Jobs)
  BY <1>1, <1>3, FunctionIsSeq, Zenon
<1>5. QED
  BY <1>4 DEF Started

\* The status of a check that is stopped.
LEMMA StoppedIs ==
  ASSUME NEW err \in Errs \ {"none"}
  PROVE  /\ Stopped(err) \in ResultSet
         /\ Stopped(err).status \in Statuses
         /\ err = "budget" => Stopped(err).status = "budget"
         /\ Stopped(err).auxiliary = FALSE
  BY DEF Stopped, NoResult, ResultSet, Statuses, Errs

\* Every variable keeps its type.
LEMMA TypeStays ==
  ASSUME Typed, Shape, WorkedOff, Causes, [Next]_vars
  PROVE  Typed'
<1> USE DEF Typed
<1> DEFINE Rest == /\ runErr \in Errs \ {"budget"}
                   /\ aux \in {"absent", "live", "cancelled", "deadline", "budget"}
                   /\ armed \in BOOLEAN
                   /\ stage \in 1 .. Len(stages) + 1
                   /\ step \in {"enter", "running", "returned"}
                   /\ next \in Nat
                   /\ phase \in [Checks -> {"waiting", "running", "finished"}]
                   /\ result \in [Checks -> ResultSet]
                   /\ proxy \in {"unresolved", "direct", "selected", "invalid"}
                   /\ events \in Seq(EventSet)
           Goal == /\ runErr' \in Errs \ {"budget"}
                   /\ aux' \in {"absent", "live", "cancelled", "deadline", "budget"}
                   /\ armed' \in BOOLEAN
                   /\ stage' \in 1 .. Len(stages) + 1
                   /\ step' \in {"enter", "running", "returned"}
                   /\ next' \in Nat
                   /\ phase' \in [Checks -> {"waiting", "running", "finished"}]
                   /\ result' \in [Checks -> ResultSet]
                   /\ proxy' \in {"unresolved", "direct", "selected", "invalid"}
                   /\ events' \in Seq(EventSet)
<1>0. /\ stages' = stages /\ options' = options /\ Checks' = Checks
      /\ \E plan \in Plans : stages = StagesOf(plan)
      /\ Len(stages) \in Nat /\ stage \in Nat \ {0}
      /\ Rest
  <2>1. stages' = stages /\ options' = options /\ Checks' = Checks
    BY Fixed
  <2>2. QED
    BY <2>1 DEF Shape, TypeOK, ResultSet
<1>a. EventSet' = EventSet /\ ResultSet' = ResultSet
  BY <1>0 DEF EventSet, ResultSet
<1>1. ASSUME UNCHANGED vars
      PROVE  Goal
  BY <1>0, <1>1, <1>a DEF vars, setup
<1>2. ASSUME NEW err \in {"cancelled", "deadline"}, EndRun(err)
      PROVE  Goal
  BY <1>0, <1>2, <1>a DEF EndRun, setup, Errs
<1>3. ASSUME ReserveBudget \/ BudgetExpires
      PROVE  Goal
  BY <1>0, <1>3, <1>a DEF ReserveBudget, BudgetExpires, setup, Errs
<1>4. ASSUME StopStage
      PROVE  Goal
  <2>1. /\ InStage /\ CtxErr \in Errs \ {"none"}
    BY <1>4, CauseIs DEF StopStage, Ready
  <2>2. Stopped(CtxErr) \in ResultSet
    BY <2>1, StoppedIs
  <2>3. result' \in [Checks -> ResultSet]
    BY <1>0, <1>4, <2>2 DEF StopStage
  <2>4. events' \in Seq(EventSet)
    <3>1. Completed(result') \in Seq(EventSet)
      BY <2>1, <2>3, Reports
    <3>2. events \in Seq(EventSet)
      BY <1>0
    <3>3. events \o Completed(result') \in Seq(EventSet)
      BY <3>1, <3>2, ConcatProperties, Zenon
    <3>4. QED
      BY <3>3, <1>4 DEF StopStage
  <2>5. phase' \in [Checks -> {"waiting", "running", "finished"}]
    BY <1>0, <1>4 DEF StopStage
  <2>6. stage' \in 1 .. Len(stages) + 1
    BY <1>0, <1>4, <2>1 DEF StopStage, InStage
  <2>7. QED
    BY <1>0, <1>4, <1>a, <2>3, <2>4, <2>5, <2>6 DEF StopStage, setup
<1>5. ASSUME StartStage
      PROVE  Goal
  <2>1. events' \in Seq(EventSet)
    <3>1. Started \in Seq(EventSet)
      BY <1>5, Announces DEF StartStage, Ready
    <3>2. events \in Seq(EventSet)
      BY <1>0
    <3>3. events \o Started \in Seq(EventSet)
      BY <3>1, <3>2, ConcatProperties, Zenon
    <3>4. QED
      BY <3>3, <1>5 DEF StartStage
  <2>2. QED
    BY <1>0, <1>5, <1>a, <2>1 DEF StartStage, setup
<1>6. ASSUME CompleteStage
      PROVE  Goal
  <2>1. InStage
    BY <1>6 DEF CompleteStage, WorkedOff
  <2>2. events' \in Seq(EventSet)
    <3>1. Completed(result) \in Seq(EventSet)
      BY <1>0, <2>1, Reports
    <3>2. events \in Seq(EventSet)
      BY <1>0
    <3>3. events \o Completed(result) \in Seq(EventSet)
      BY <3>1, <3>2, ConcatProperties, Zenon
    <3>4. QED
      BY <3>3, <1>6 DEF CompleteStage
  <2>3. stage' \in 1 .. Len(stages) + 1
    BY <1>0, <1>6, <2>1 DEF CompleteStage, InStage
  <2>4. QED
    BY <1>0, <1>6, <1>a, <2>2, <2>3 DEF CompleteStage, setup
<1>7. ASSUME TakeJob
      PROVE  Goal
  <2> DEFINE c == Jobs[next + 1]
  <2>1. c \in Checks /\ (Part = "auxiliary" => aux # "absent")
    BY <1>7, TakenIs
  <2>2. CtxErr \in Errs
    BY <2>1, CauseIs
  <2>3. CtxErr # "none" => Stopped(CtxErr) \in ResultSet
    BY <2>2, StoppedIs
  <2>4. result' \in [Checks -> ResultSet]
    <3>1. \/ CtxErr # "none" /\ result' = [result EXCEPT ![c] = Stopped(CtxErr)]
          \/ result' = [result EXCEPT ![c].status = "skipped"]
          \/ result' = result
      BY <1>7 DEF TakeJob
    <3>2. result[c] \in ResultSet
      BY <1>0, <2>1
    <3>3. [result[c] EXCEPT !.status = "skipped"] \in ResultSet
      BY <3>2 DEF ResultSet, Statuses
    <3> HIDE DEF c
    <3>4. QED
      BY <1>0, <2>1, <2>3, <3>1, <3>3
  <2>5. phase' \in [Checks -> {"waiting", "running", "finished"}]
    <3>1. \/ phase' = [phase EXCEPT ![c] = "finished"]
          \/ phase' = [phase EXCEPT ![c] = "running"]
      BY <1>7 DEF TakeJob
    <3> HIDE DEF c
    <3>2. QED
      BY <1>0, <3>1
  <2>6. QED
    BY <1>0, <1>7, <1>a, <2>4, <2>5 DEF TakeJob, setup
<1>8. ASSUME NEW c \in Checks, NEW o \in Outcomes, CheckReturns(c, o)
      PROVE  Goal
  <2>1. CtxErr \in Errs
    <3>1. Part = "auxiliary" => aux # "absent"
      BY <1>8, RunningIs DEF CheckReturns, WorkedOff
    <3>2. QED
      BY <3>1, CauseIs
  <2>2. Judge(o) \in Statuses
    BY <2>1, StoppedIs DEF Judge, Outcomes, Statuses
  <2>3. result' \in [Checks -> ResultSet]
    <3>1. [result[c] EXCEPT !.status = Judge(o)] \in ResultSet
      BY <1>0, <2>2 DEF ResultSet
    <3>2. result' = [result EXCEPT ![c] = [result[c] EXCEPT !.status = Judge(o)]]
      BY <1>8 DEF CheckReturns
    <3>3. QED
      BY <1>0, <3>1, <3>2
  <2>4. proxy' \in {"unresolved", "direct", "selected", "invalid"}
    BY <1>0, <1>8 DEF CheckReturns, Resolved
  <2>5. QED
    BY <1>0, <1>8, <1>a, <2>3, <2>4 DEF CheckReturns, setup
<1>9. ASSUME Return
      PROVE  Goal
  <2>1. result' \in [Checks -> ResultSet]
    <3>1. \A c \in Checks : ResultMarked(c) \in BOOLEAN
      BY DEF ResultMarked
    <3>2. \A c \in Checks : [result[c] EXCEPT !.auxiliary = ResultMarked(c)] \in ResultSet
      BY <1>0, <3>1 DEF ResultSet
    <3>3. QED
      BY <3>2, <1>9 DEF Return
  <2>2. events' \in Seq(EventSet)
    <3>1. RunEvent("run_completed") \in EventSet
      BY DEF RunEvent, Event, NoResult, EventSet, EventTypes, ResultSet, Statuses
    <3>2. QED
      BY <3>1, <1>0, <1>9 DEF Return
  <2>3. QED
    BY <1>0, <1>9, <1>a, <2>1, <2>2 DEF Return, setup
<1>10. Goal
  BY <1>1, <1>2, <1>3, <1>4, <1>5, <1>6, <1>7, <1>8, <1>9, ActsAre, Zenon DEF Acts
<1>11. (\A i \in 1 .. Len(events) :
          events[i].type \in {"run_started", "started", "completed", "run_completed"})'
  <2>1. \A i \in 1 .. Len(events') : events'[i] \in EventSet
    BY <1>10
  <2>2. QED
    BY <2>1 DEF EventSet, EventTypes
<1>12. (options \in Options)'
  BY <1>0 DEF TypeOK
<1>13. QED
  <2>1. (events \in Seq(EventSet))'
    BY <1>10, <1>a
  <2>2. TypeOK'
    BY <1>0, <1>10, <1>11, <1>12 DEF TypeOK, ResultSet
  <2>3. QED
    BY <2>1, <2>2

\* Stages are worked off one after the other.
LEMMA WorkedOffStays ==
  ASSUME Typed, Shape, WorkedOff, [Next]_vars
  PROVE  WorkedOff'
<1> DEFINE Ended(c, i) == i < stage => phase[c] = "finished"
           Ahead0(c, i, j) ==
             i > stage \/ (i = stage /\ (step # "running" \/ j > next)) => phase[c] = "waiting"
           Here == /\ step = "running" =>
                        InStage /\ next <= Len(Jobs) /\ (Part = "auxiliary" => aux # "absent")
                   /\ step = "returned" => ~InStage
<1>0. /\ stages' = stages /\ options' = options /\ Checks' = Checks
      /\ Len(stages) \in Nat /\ stage \in Nat \ {0} /\ next \in Nat
      /\ stage <= Len(stages) + 1
      /\ phase \in [Checks -> {"waiting", "running", "finished"}]
      /\ \A c, i, j : At(c, i, j)' <=> At(c, i, j)
  <2>1. stages' = stages /\ options' = options /\ Checks' = Checks
    BY Fixed DEF Typed
  <2>2. QED
    BY <2>1, Frame DEF Shape, Typed, TypeOK
<1>1. \A c \in Checks, i, j \in Nat : At(c, i, j) => Ended(c, i) /\ Ahead0(c, i, j)
  BY DEF WorkedOff
<1>2. Here
  BY DEF WorkedOff
<1>3. ASSUME \A c \in Checks, i, j \in Nat : At(c, i, j) => (Ended(c, i) /\ Ahead0(c, i, j))', Here'
      PROVE  WorkedOff'
  BY <1>0, <1>3 DEF WorkedOff
<1>4. ASSUME UNCHANGED <<stage, step, next, phase>>, aux = "absent" \/ aux' # "absent"
      PROVE  WorkedOff'
  <2>1. Here'
    BY <1>0, <1>2, <1>4 DEF InStage, Jobs, Part
  <2>2. QED
    BY <1>1, <1>3, <1>4, <2>1
<1>5. CASE UNCHANGED vars
  BY <1>4, <1>5 DEF vars
<1>6. ASSUME NEW err \in {"cancelled", "deadline"}, EndRun(err)
      PROVE  WorkedOff'
  BY <1>4, <1>6 DEF EndRun
<1>7. CASE ReserveBudget \/ BudgetExpires
  BY <1>4, <1>7 DEF ReserveBudget, BudgetExpires
<1>8. CASE StopStage
  <2>1. /\ InStage /\ step = "enter" /\ step' = "enter" /\ stage' = stage + 1
        /\ phase' = [c \in Checks |-> IF InJobs(c) THEN "finished" ELSE phase[c]]
    BY <1>8 DEF StopStage, Ready
  <2>2. ASSUME NEW c \in Checks, NEW i \in Nat, NEW j \in Nat, At(c, i, j)
        PROVE  (Ended(c, i) /\ Ahead0(c, i, j))'
    <3>1. InJobs(c) <=> i = stage
      <4>1. InJobs(c) <=> \E l \in Nat : At(c, stage, l)
        BY <1>0, <2>1, JobIs
      <4>2. ASSUME NEW l \in Nat, At(c, stage, l)
            PROVE  i = stage
        BY <1>0, <2>2, <4>2 DEF Shape
      <4>3. QED
        BY <4>1, <4>2, <2>2
    <3>2. phase'[c] = IF i = stage THEN "finished" ELSE phase[c]
      BY <2>1, <3>1
    <3>3. QED
      BY <1>0, <1>1, <2>1, <2>2, <3>2
  <2>3. Here'
    BY <2>1
  <2>4. QED
    BY <1>3, <2>2, <2>3
<1>9. CASE StartStage
  <2>1. /\ InStage /\ step = "enter" /\ step' = "running" /\ next' = 0
        /\ stage' = stage /\ phase' = phase /\ aux' = aux
        /\ Part = "auxiliary" => aux # "absent"
    BY <1>9 DEF StartStage, Ready
  <2>2. Here'
    <3>1. Len(Jobs) \in Nat
      BY <1>0, <2>1, JobIs
    <3>2. InStage' /\ Jobs' = Jobs /\ Part' = Part
      BY <1>0, <2>1 DEF InStage, Jobs, Part
    <3>3. QED
      BY <2>1, <3>1, <3>2
  <2>3. QED
    BY <1>1, <1>3, <2>1, <2>2
<1>10. CASE CompleteStage
  <2>1. /\ InStage /\ step = "running" /\ step' = "enter" /\ stage' = stage + 1
        /\ phase' = phase /\ \A j \in 1 .. Len(Jobs) : phase[Jobs[j]] = "finished"
    BY <1>10, <1>2 DEF CompleteStage
  <2>2. ASSUME NEW c \in Checks, NEW i \in Nat, NEW j \in Nat, At(c, i, j)
        PROVE  (Ended(c, i) /\ Ahead0(c, i, j))'
    <3>1. i = stage => phase[c] = "finished"
      BY <1>0, <2>1, <2>2, JobIs
    <3>2. QED
      BY <1>0, <1>1, <2>1, <2>2, <3>1
  <2>3. Here'
    BY <2>1
  <2>4. QED
    BY <1>3, <2>2, <2>3
<1>11. CASE TakeJob
  <2> DEFINE d == Jobs[next + 1]
  <2>1. InStage /\ d \in Checks /\ At(d, stage, next + 1) /\ (Part = "auxiliary" => aux # "absent")
    BY <1>11, TakenIs DEF Typed
  <2>2. /\ step = "running" /\ step' = step /\ stage' = stage /\ next' = next + 1
        /\ aux' = aux /\ next < Len(Jobs)
        /\ \/ phase' = [phase EXCEPT ![d] = "finished"]
           \/ phase' = [phase EXCEPT ![d] = "running"]
    BY <1>11 DEF TakeJob
  <2> HIDE DEF d
  <2>3. ASSUME NEW c \in Checks, NEW i \in Nat, NEW j \in Nat, At(c, i, j)
        PROVE  (Ended(c, i) /\ Ahead0(c, i, j))'
    <3>1. c = d => i = stage /\ j = next + 1
      BY <1>0, <2>1, <2>3 DEF Shape
    <3>2. c # d => phase'[c] = phase[c]
      BY <1>0, <2>2
    <3>3. QED
      BY <1>0, <1>1, <2>2, <2>3, <3>1, <3>2
  <2>4. Here'
    <3>1. InStage' /\ Jobs' = Jobs /\ Part' = Part
      <4>1. stage' = stage
        BY <2>2
      <4>2. QED
        BY <1>0, <2>1, <4>1 DEF InStage, Jobs, Part
    <3>2. Len(Jobs) \in Nat
      BY <1>0, <2>1, JobIs
    <3>3. QED
      BY <1>0, <2>1, <2>2, <3>1, <3>2, <1>2
  <2>5. QED
    BY <1>3, <2>3, <2>4
<1>12. ASSUME NEW d \in Checks, NEW o \in Outcomes, CheckReturns(d, o)
       PROVE  WorkedOff'
  <2>1. /\ UNCHANGED <<stage, step, next, aux>> /\ phase[d] = "running"
        /\ phase' = [phase EXCEPT ![d] = "finished"]
    BY <1>12 DEF CheckReturns
  <2>2. Here'
    BY <1>0, <1>2, <2>1 DEF InStage, Jobs, Part
  <2>3. ASSUME NEW c \in Checks, NEW i \in Nat, NEW j \in Nat, At(c, i, j)
        PROVE  (Ended(c, i) /\ Ahead0(c, i, j))'
    <3>1. phase[c] # "running" => phase'[c] = phase[c]
      BY <1>0, <2>1
    <3>2. QED
      BY <1>0, <1>1, <2>1, <2>3, <3>1
  <2>4. QED
    BY <1>3, <2>2, <2>3
<1>13. CASE Return
  <2>1. /\ step = "enter" /\ step' = "returned" /\ ~InStage
        /\ UNCHANGED <<stage, next, phase>>
    BY <1>13 DEF Return
  <2>2. Here'
    BY <1>0, <2>1 DEF InStage
  <2>3. QED
    BY <1>1, <1>3, <2>1, <2>2
<1>14. QED
  BY <1>5, <1>6, <1>7, <1>8, <1>9, <1>10, <1>11, <1>12, <1>13, ActsAre DEF Acts

\* The proxy policy is resolved before a direct check runs, and allows it.
LEMMA PolicyStays ==
  ASSUME Typed, Shape, WorkedOff, Policy, [Next]_vars
  PROVE  Policy'
<1> DEFINE Allowed(c) ==
             phase[c] = "running" /\ c \in Direct /\ PartOf(c) # "actual" =>
               proxy = "direct" \/ (proxy = "selected" /\ options.matrix)
<1>0. /\ options' = options /\ Checks' = Checks
      /\ \A c : PartOf(c)' = PartOf(c)
      /\ phase \in [Checks -> {"waiting", "running", "finished"}]
      /\ proxy \in {"unresolved", "direct", "selected", "invalid"}
      /\ "environment" \notin Direct
  BY Fixed, Frame DEF Typed, TypeOK, Direct
<1>1. \A c \in Checks : Allowed(c)
  BY DEF Policy, FailClosed, Running
<1>2. ASSUME \A c \in Checks : Allowed(c)'
      PROVE  FailClosed'
  BY <1>0, <1>2 DEF FailClosed, Running
<1>3. ASSUME UNCHANGED <<phase, proxy>>
      PROVE  Policy'
  <2>1. FailClosed'
    BY <1>0, <1>1, <1>2, <1>3
  <2>2. QED
    BY <1>0, <1>3, <2>1 DEF Policy
<1>4. CASE \/ UNCHANGED vars \/ \E err \in {"cancelled", "deadline"} : EndRun(err)
           \/ ReserveBudget \/ BudgetExpires \/ StartStage \/ CompleteStage \/ Return
  BY <1>3, <1>4 DEF vars, EndRun, ReserveBudget, BudgetExpires, StartStage, CompleteStage,
     Return
<1>5. CASE StopStage
  <2>1. proxy' = proxy /\ phase' = [c \in Checks |-> IF InJobs(c) THEN "finished" ELSE phase[c]]
    BY <1>5 DEF StopStage
  <2>2. \A c \in Checks : Allowed(c)'
    BY <1>0, <1>1, <2>1
  <2>3. QED
    BY <1>0, <1>2, <2>1, <2>2 DEF Policy
<1>6. CASE TakeJob
  <2> DEFINE d == Jobs[next + 1]
  <2>1. d \in Checks /\ Part = PartOf(d) /\ phase[d] = "waiting"
    BY <1>6, TakenIs DEF Typed
  <2>2. /\ proxy' = proxy
        /\ \/ phase' = [phase EXCEPT ![d] = "finished"]
           \/ phase' = [phase EXCEPT ![d] = "running"] /\ ~Skip(d)
    BY <1>6 DEF TakeJob
  <2> HIDE DEF d
  <2>3. ASSUME NEW c \in Checks
        PROVE  Allowed(c)'
    <3>1. CASE c # d
      <4>1. phase'[c] = phase[c]
        BY <1>0, <2>2, <3>1
      <4>2. QED
        BY <1>0, <1>1, <2>2, <4>1
    <3>2. CASE c = d
      <4>1. phase'[c] = "running" => ~Skip(c)
        BY <1>0, <2>1, <2>2, <3>2
      <4>2. QED
        BY <1>0, <2>1, <2>2, <3>2, <4>1 DEF Skip
    <3>3. QED
      BY <3>1, <3>2
  <2>4. "environment" \in Checks => phase'["environment"] = "finished" \/ proxy' = "unresolved"
    BY <1>0, <2>1, <2>2 DEF Policy
  <2>5. QED
    BY <1>0, <1>2, <2>2, <2>3, <2>4 DEF Policy
<1>7. ASSUME NEW d \in Checks, NEW o \in Outcomes, CheckReturns(d, o)
      PROVE  Policy'
  <2>1. /\ phase[d] = "running" /\ phase' = [phase EXCEPT ![d] = "finished"]
        /\ proxy' \in Resolved(d, o)
    BY <1>7 DEF CheckReturns
  <2>2. d # "environment" => proxy' = proxy
    BY <2>1 DEF Resolved
  <2>3. proxy' = "selected" => options.http
    BY <2>1 DEF Resolved, Policy
  <2>4. "environment" \in Checks => phase'["environment"] = "finished" \/ proxy' = "unresolved"
    BY <1>0, <2>1, <2>2 DEF Policy
  <2>5. ASSUME NEW c \in Checks
        PROVE  Allowed(c)'
    <3>1. phase'[c] = "running" => phase[c] = "running"
      BY <1>0, <2>1
    <3>2. CASE d = "environment"
      <4>1. proxy = "unresolved"
        BY <2>1, <3>2 DEF Policy
      <4>2. ~(phase[c] = "running" /\ c \in Direct /\ PartOf(c) # "actual")
        BY <1>1, <4>1
      <4>3. QED
        BY <1>0, <3>1, <4>2
    <3>3. CASE d # "environment"
      BY <1>0, <1>1, <2>2, <3>1, <3>3
    <3>4. QED
      BY <3>2, <3>3
  <2>6. QED
    BY <1>0, <1>2, <2>3, <2>4, <2>5 DEF Policy
<1>8. QED
  BY <1>4, <1>5, <1>6, <1>7, ActsAre DEF Acts

\* Only the budget stops a check of a run that was not ended.
LEMMA CausesStay ==
  ASSUME Typed, Shape, WorkedOff, Causes, [Next]_vars
  PROVE  Causes'
<1> DEFINE Free(c) ==
             phase[c] = "finished" /\ runErr = "none" =>
               /\ result[c].status \in {"passed", "failed", "skipped", "budget"}
               /\ PartOf(c) # "auxiliary" => result[c].status # "budget"
<1>0. /\ Checks' = Checks
      /\ \A c : PartOf(c)' = PartOf(c)
      /\ phase \in [Checks -> {"waiting", "running", "finished"}]
      /\ result \in [Checks -> [status : Statuses, auxiliary : BOOLEAN]]
  BY Fixed, Frame DEF Typed, TypeOK
<1>1. \A c \in Checks : Free(c)
  BY DEF Causes
<1>2. ASSUME \A c \in Checks : Free(c)', runErr' = "none" => aux' \in {"absent", "live", "budget"}
      PROVE  Causes'
  BY <1>0, <1>2 DEF Causes
<1>3. ASSUME UNCHANGED <<phase, result, runErr>>,
             aux' = aux \/ aux' = "budget" \/ (runErr = "none" /\ aux' = "live")
                \/ (runErr # "none")
      PROVE  Causes'
  BY <1>0, <1>1, <1>2, <1>3 DEF Causes
<1>4. CASE UNCHANGED vars \/ ReserveBudget \/ BudgetExpires \/ StartStage \/ CompleteStage
  BY <1>3, <1>4 DEF vars, ReserveBudget, BudgetExpires, StartStage, CompleteStage
<1>5. ASSUME NEW err \in {"cancelled", "deadline"}, EndRun(err)
      PROVE  Causes'
  BY <1>2, <1>5 DEF EndRun
<1>6. CASE StopStage
  <2>1. /\ UNCHANGED <<runErr, aux>>
        /\ \A c \in Checks : ~InJobs(c) => phase'[c] = phase[c] /\ result'[c] = result[c]
        /\ \A c \in Checks : InJobs(c) => result'[c] = Stopped(CtxErr)
    BY <1>6 DEF StopStage
  <2>2. /\ CtxErr \in Errs \ {"none"}
        /\ runErr = "none" => CtxErr = "budget" /\ Part = "auxiliary"
    BY <1>6, CauseIs DEF Typed, StopStage, Ready
  <2>3. ASSUME NEW c \in Checks, InJobs(c), runErr = "none"
        PROVE  result'[c].status = "budget" /\ PartOf(c) = "auxiliary"
    <3>1. PICK j \in Nat : At(c, stage, j)
      <4>1. stage \in Nat \ {0} /\ InStage
        BY <1>6 DEF StopStage, Ready, Typed, TypeOK
      <4>2. QED
        BY <2>3, <4>1, JobIs
    <3>2. PartOf(c) = Part
      BY <3>1, <1>6, AtIs DEF StopStage, Ready, Part
    <3>3. QED
      BY <2>1, <2>2, <2>3, <3>2, StoppedIs
  <2>4. \A c \in Checks : Free(c)'
    BY <1>0, <1>1, <2>1, <2>3
  <2>5. QED
    BY <1>2, <2>1, <2>4 DEF Causes
<1>7. CASE TakeJob
  <2> DEFINE d == Jobs[next + 1]
  <2>1. d \in Checks /\ Part = PartOf(d) /\ (Part = "auxiliary" => aux # "absent")
    BY <1>7, TakenIs DEF Typed
  <2>2. UNCHANGED <<runErr, aux>>
    BY <1>7 DEF TakeJob
  <2>3. \/ /\ CtxErr # "none"
           /\ result' = [result EXCEPT ![d] = Stopped(CtxErr)]
           /\ phase' = [phase EXCEPT ![d] = "finished"]
        \/ /\ result' = [result EXCEPT ![d].status = "skipped"]
           /\ phase' = [phase EXCEPT ![d] = "finished"]
        \/ /\ phase' = [phase EXCEPT ![d] = "running"]
           /\ result' = result
    BY <1>7 DEF TakeJob
  <2>4. /\ CtxErr \in Errs
        /\ runErr = "none" /\ CtxErr # "none" => CtxErr = "budget" /\ Part = "auxiliary"
    BY <2>1, CauseIs DEF Typed
  <2> HIDE DEF d
  <2>5. ASSUME NEW c \in Checks, c # d
        PROVE  phase'[c] = phase[c] /\ result'[c] = result[c]
    BY <1>0, <2>3, <2>5
  <2>6. ASSUME NEW c \in Checks, c = d
        PROVE  Free(c)'
    <3>1. CASE /\ CtxErr # "none"
               /\ result' = [result EXCEPT ![d] = Stopped(CtxErr)]
               /\ phase' = [phase EXCEPT ![d] = "finished"]
      <4>1. result'[c] = Stopped(CtxErr)
        BY <1>0, <2>1, <2>6, <3>1
      <4>2. QED
        BY <1>0, <2>1, <2>2, <2>4, <2>6, <3>1, <4>1, StoppedIs
    <3>2. CASE /\ result' = [result EXCEPT ![d].status = "skipped"]
               /\ phase' = [phase EXCEPT ![d] = "finished"]
      BY <1>0, <2>1, <2>6, <3>2
    <3>3. CASE phase' = [phase EXCEPT ![d] = "running"]
      BY <1>0, <2>1, <2>6, <3>3
    <3>4. QED
      BY <2>3, <3>1, <3>2, <3>3
  <2>7. \A c \in Checks : Free(c)'
    BY <1>0, <1>1, <2>2, <2>5, <2>6
  <2>8. QED
    BY <1>2, <2>2, <2>7 DEF Causes
<1>8. ASSUME NEW d \in Checks, NEW o \in Outcomes, CheckReturns(d, o)
      PROVE  Causes'
  <2>1. /\ UNCHANGED <<runErr, aux>> /\ phase[d] = "running"
        /\ phase' = [phase EXCEPT ![d] = "finished"]
        /\ result' = [result EXCEPT ![d].status = Judge(o)]
    BY <1>8 DEF CheckReturns
  <2>2. Part = PartOf(d) /\ (Part = "auxiliary" => aux # "absent")
    BY <2>1, RunningIs DEF Typed, WorkedOff
  <2>3. /\ CtxErr \in Errs
        /\ runErr = "none" /\ CtxErr # "none" => CtxErr = "budget" /\ Part = "auxiliary"
    BY <2>2, CauseIs DEF Typed
  <2>4. runErr = "none" =>
          /\ Judge(o) \in {"passed", "failed", "budget"}
          /\ Judge(o) = "budget" => Part = "auxiliary"
    BY <2>3, StoppedIs DEF Judge, Outcomes
  <2>5. result'[d].status = Judge(o)
    BY <1>0, <2>1
  <2>6. ASSUME NEW c \in Checks
        PROVE  Free(c)'
    <3>1. c # d => phase'[c] = phase[c] /\ result'[c] = result[c]
      BY <1>0, <2>1
    <3>2. QED
      BY <1>0, <1>1, <2>1, <2>2, <2>4, <2>5, <3>1
  <2>7. QED
    BY <1>2, <2>1, <2>6 DEF Causes
<1>9. CASE Return
  <2>1. /\ UNCHANGED <<runErr, aux, phase>>
        /\ result' = [c \in Checks |-> [result[c] EXCEPT !.auxiliary = ResultMarked(c)]]
    BY <1>9 DEF Return
  <2>2. \A c \in Checks : result'[c].status = result[c].status
    BY <1>0, <2>1
  <2>3. QED
    BY <1>0, <1>1, <1>2, <2>1, <2>2 DEF Causes
<1>10. QED
  BY <1>4, <1>5, <1>6, <1>7, <1>8, <1>9, ActsAre DEF Acts

-----------------------------------------------------------------------------
(* The stream of events.                                                   *)

\* What was reported of a check of an earlier stage stays true.
LEMMA Kept ==
  ASSUME Typed, Shape, WorkedOff, Policy, [Next]_vars,
         NEW c, NEW i \in Nat, NEW j \in Nat, At(c, i, j), i < stage
  PROVE  Reported(c)' = Reported(c)
<1>0. /\ c \in Checks /\ PartOf(c) = stages[i].part /\ i \in 1 .. Len(stages)
      /\ phase[c] = "finished"
      /\ stage \in Nat \ {0} /\ Len(stages) \in Nat
      /\ result \in [Checks -> [status : Statuses, auxiliary : BOOLEAN]]
  <2>1. /\ c \in Checks /\ PartOf(c) = stages[i].part /\ i \in 1 .. Len(stages)
        /\ Len(stages) \in Nat
    BY AtIs
  <2>2. phase[c] = "finished"
    BY <2>1 DEF WorkedOff
  <2>3. stage \in Nat \ {0} /\ result \in [Checks -> [status : Statuses, auxiliary : BOOLEAN]]
    BY DEF Typed, TypeOK
  <2>4. QED
    BY <2>1, <2>2, <2>3
<1>1. result'[c].status = result[c].status
  <2>1. CASE \/ UNCHANGED vars \/ \E err \in {"cancelled", "deadline"} : EndRun(err)
             \/ ReserveBudget \/ BudgetExpires \/ StartStage \/ CompleteStage
    BY <2>1 DEF vars, EndRun, ReserveBudget, BudgetExpires, StartStage, CompleteStage
  <2>2. CASE StopStage
    <3>1. ~InJobs(c)
      <4>1. InStage
        BY <2>2 DEF StopStage, Ready
      <4>2. InJobs(c) <=> \E l \in Nat : At(c, stage, l)
        BY <1>0, <4>1, JobIs
      <4>3. QED
        BY <1>0, <4>2 DEF Shape
    <3>2. QED
      BY <1>0, <2>2, <3>1 DEF StopStage
  <2>3. CASE TakeJob
    <3>1. c # Jobs[next + 1]
      BY <1>0, <2>3, TakenIs DEF Typed
    <3>2. QED
      BY <1>0, <2>3, <3>1 DEF TakeJob
  <2>4. CASE \E d \in Checks, o \in Outcomes : CheckReturns(d, o)
    BY <1>0, <2>4 DEF CheckReturns
  <2>5. CASE Return
    BY <1>0, <2>5 DEF Return
  <2>6. QED
    BY <2>1, <2>2, <2>3, <2>4, <2>5, ActsAre DEF Acts
<1>2. Role(c)' = Role(c)
  <2>1. options' = options /\ PartOf(c)' = PartOf(c)
    BY Fixed, Frame DEF Typed
  <2>2. CASE proxy' = proxy
    BY <2>1, <2>2 DEF Role
  <2>3. CASE \E d \in Checks, o \in Outcomes : CheckReturns(d, o) /\ proxy' # proxy
    <3>1. phase["environment"] = "running" /\ "environment" \in Checks
      BY <2>3 DEF CheckReturns, Resolved
    <3>2. PICK l \in Nat : At("environment", stage, l)
      BY <3>1, RunningIs DEF Typed
    <3>3. PartOf(c) # "auxiliary"
      <4>1. PolicyFirst(stages)
        BY DEF Shape
      <4>2. /\ stage \in 1 .. Len(stages) /\ l \in 1 .. Len(stages[stage].checks)
            /\ stages[stage].checks[l] = "environment"
        BY <3>2 DEF At
      <4>3. stages[i].part = "auxiliary" => stage < i
        BY <1>0, <4>1, <4>2 DEF PolicyFirst
      <4>4. QED
        BY <1>0, <4>3
    <3>4. QED
      BY <2>1, <3>3 DEF Role
  <2>4. proxy' = proxy \/ \E d \in Checks, o \in Outcomes : CheckReturns(d, o) /\ proxy' # proxy
    BY ActsAre DEF Acts, vars, EndRun, ReserveBudget, BudgetExpires, StopStage, StartStage,
       CompleteStage, TakeJob, Return
  <2>5. QED
    BY <2>2, <2>3, <2>4
<1>3. QED
  BY <1>1, <1>2 DEF Reported

\* A step that emits nothing and stays where it is.
LEMMA Quiet ==
  ASSUME Typed, Shape, WorkedOff, Policy, AllTold, OnlyTold, InOrder, NoneMissing, NoneRevived,
         [Next]_vars, UNCHANGED <<stage, step, events>>
  PROVE  (AllTold /\ OnlyTold /\ InOrder /\ NoneMissing /\ NoneRevived)'
<1>0. /\ Checks' = Checks
      /\ \A c, i, j : At(c, i, j)' <=> At(c, i, j)
  BY Fixed, Frame DEF Typed
<1>1. AllTold'
  <2> SUFFICES ASSUME NEW c \in Checks, NEW i \in Nat, NEW j \in Nat, At(c, i, j), i < stage
               PROVE  \E n \in 1 .. Len(events) : Tells(n, c)' /\ events[n].result = Reported(c)'
    BY <1>0 DEF AllTold
  <2>1. PICK n \in 1 .. Len(events) : Tells(n, c) /\ events[n].result = Reported(c)
    BY DEF AllTold
  <2>2. Tells(n, c)' <=> Tells(n, c)
    BY DEF Tells
  <2>3. Reported(c)' = Reported(c)
    BY Kept
  <2>4. QED
    BY <2>1, <2>2, <2>3
<1>2. OnlyTold'
  BY <1>0 DEF OnlyTold
<1>3. InOrder'
  BY <1>0 DEF InOrder
<1>4. NoneMissing'
  <2>1. \A m, c : Tells(m, c)' <=> Tells(m, c)
    BY DEF Tells
  <2>2. QED
    BY <1>0, <2>1 DEF NoneMissing
<1>5. NoneRevived'
  BY DEF NoneRevived
<1>6. QED
  BY <1>1, <1>2, <1>3, <1>4, <1>5

LEMMA EventIs ==
  ASSUME NEW type, NEW c, NEW r
  PROVE  /\ Event(type, c, r).type = type /\ Event(type, c, r).check = c
         /\ Event(type, c, r).result = r
  BY DEF Event

\* The order of the events after a step, when the checks keep their places.
LEMMA InOrderNext ==
  ASSUME \A c, i, j : At(c, i, j)' <=> At(c, i, j),
         \A n \in 1 .. Len(events') : \A m \in 1 .. n - 1 : \A i, j, k, l \in Nat :
         /\ events'[m].type = events'[n].type /\ events'[n].type \in {"started", "completed"}
         /\ At(events'[m].check, i, j) /\ At(events'[n].check, k, l)
         => Ahead(<<i, j>>, <<k, l>>)
  PROVE  InOrder'
<1> SUFFICES ASSUME NEW n \in 1 .. Len(events'), NEW m \in 1 .. n - 1,
                    events'[m].type = events'[n].type,
                    events'[n].type \in {"started", "completed"},
                    NEW i \in Nat, NEW j \in Nat, NEW k \in Nat, NEW l \in Nat,
                    At(events[m].check, i, j)', At(events[n].check, k, l)'
             PROVE  Ahead(<<i, j>>, <<k, l>>)
  BY DEF InOrder, Ahead
<1>1. At(events'[m].check, i, j) /\ At(events'[n].check, k, l)
  OBVIOUS
<1>2. QED
  BY <1>1

LEMMA NoneMissingNext ==
  ASSUME Checks' = Checks, \A c, i, j : At(c, i, j)' <=> At(c, i, j),
         \A n \in 1 .. Len(events') : \A c \in Checks : \A i, j, k, l \in Nat :
         /\ events'[n].type = "completed"
         /\ At(c, i, j) /\ At(events'[n].check, k, l) /\ Ahead(<<i, j>>, <<k, l>>)
         => \E m \in 1 .. n - 1 : Tells(m, c)'
  PROVE  NoneMissing'
<1> SUFFICES ASSUME NEW n \in 1 .. Len(events'), events'[n].type = "completed",
                    NEW c \in Checks,
                    NEW i \in Nat, NEW j \in Nat, NEW k \in Nat, NEW l \in Nat,
                    At(c, i, j)', At(events[n].check, k, l)', Ahead(<<i, j>>, <<k, l>>)
             PROVE  \E m \in 1 .. n - 1 : Tells(m, c)'
  BY DEF NoneMissing, Ahead
<1>1. At(c, i, j) /\ At(events'[n].check, k, l)
  OBVIOUS
<1>2. QED
  BY <1>1

\* Events are added behind those that were emitted.
LEMMA Extended ==
  ASSUME Typed, NEW ext \in Seq(EventSet), events' = events \o ext
  PROVE  /\ Len(events) \in Nat /\ Len(ext) \in Nat
         /\ Len(events') = Len(events) + Len(ext)
         /\ \A n \in 1 .. Len(events) : n \in 1 .. Len(events') /\ events'[n] = events[n]
         /\ \A j \in 1 .. Len(ext) : /\ Len(events) + j \in 1 .. Len(events')
                                     /\ events'[Len(events) + j] = ext[j]
         /\ \A n \in 1 .. Len(events') :
              n \in 1 .. Len(events) \/ \E j \in 1 .. Len(ext) : n = Len(events) + j
<1>1. events \in Seq(EventSet)
  BY DEF Typed
<1>2. PICK T : T = EventSet
  OBVIOUS
<1>7. PICK e \in Seq(T), x \in Seq(T) : e = events /\ x = ext
  BY <1>1, <1>2
<1>3. /\ Len(e) \in Nat /\ Len(x) \in Nat
      /\ Len(e \o x) = Len(e) + Len(x)
      /\ \A n \in 1 .. Len(e) : (e \o x)[n] = e[n]
      /\ \A j \in 1 .. Len(x) : (e \o x)[Len(e) + j] = x[j]
  OBVIOUS
<1>4. \A n \in 1 .. Len(e) + Len(x) :
        n \in 1 .. Len(e) \/ \E j \in 1 .. Len(x) : n = Len(e) + j
  <2>1. ASSUME NEW n \in 1 .. Len(e) + Len(x), ~(n \in 1 .. Len(e))
        PROVE  \E j \in 1 .. Len(x) : n = Len(e) + j
    <3>1. n - Len(e) \in 1 .. Len(x) /\ n = Len(e) + (n - Len(e))
      BY <1>3, <2>1
    <3>2. QED
      BY <3>1
  <2>2. QED
    BY <2>1
<1>5. events' = e \o x
  BY <1>7
<1>6. QED
  BY <1>7, <1>3, <1>4, <1>5

\* The checks of a stage are reported, and the next one is entered.
LEMMA Reporting ==
  ASSUME Typed, Shape, WorkedOff, Policy, AllTold, OnlyTold, InOrder, NoneMissing, NoneRevived,
         [Next]_vars, InStage, step # "returned", step' = "enter", stage' = stage + 1,
         proxy' = proxy, result' \in [Checks -> ResultSet],
         events' = events \o Completed(result')
  PROVE  (AllTold /\ OnlyTold /\ InOrder /\ NoneMissing /\ NoneRevived)'
<1> DEFINE N == Len(events)
           M == Len(Jobs)
<1>0. /\ Checks' = Checks /\ stage \in Nat \ {0}
      /\ \A c, i, j : At(c, i, j)' <=> At(c, i, j)
      /\ \A c : Role(c)' = Role(c)
  <2>1. stages' = stages /\ options' = options /\ Checks' = Checks
    BY Fixed DEF Typed
  <2>2. (\A c, i, j : At(c, i, j)' <=> At(c, i, j)) /\ \A c : PartOf(c)' = PartOf(c)
    BY <2>1, Frame
  <2>3. QED
    BY <2>1, <2>2 DEF Role, Typed, TypeOK, Shape
<1>1. /\ M \in Nat
      /\ \A j \in 1 .. M : At(Jobs[j], stage, j) /\ Jobs[j] \in Checks
      /\ \A c, j : At(c, stage, j) => j \in 1 .. M /\ Jobs[j] = c
  BY <1>0, JobIs
<1>2. /\ N \in Nat /\ Len(events') = N + M
      /\ \A n \in 1 .. N : n \in 1 .. Len(events') /\ events'[n] = events[n]
      /\ \A n \in 1 .. Len(events') : n \in 1 .. N \/ \E j \in 1 .. M : n = N + j
      /\ \A j \in 1 .. M :
           /\ N + j \in 1 .. Len(events')
           /\ events'[N + j].type = "completed" /\ events'[N + j].check = Jobs[j]
           /\ \A c : Jobs[j] = c => events'[N + j].result = Reported(c)'
  <2>1. PICK ext \in Seq(EventSet) : ext = Completed(result')
    BY Reports DEF Typed
  <2>2. /\ Len(ext) = M
        /\ \A j \in 1 .. M :
             ext[j] = Event("completed", Jobs[j],
                            [status |-> result'[Jobs[j]].status, auxiliary |-> Role(Jobs[j])])
    BY <2>1, Reports DEF Typed
  <2>3. \A j \in 1 .. M :
           /\ ext[j].type = "completed" /\ ext[j].check = Jobs[j]
           /\ \A c : Jobs[j] = c => ext[j].result = Reported(c)'
    <3>1. \A c : Reported(c)' = [status |-> result'[c].status, auxiliary |-> Role(c)]
      BY <1>0 DEF Reported
    <3>2. ASSUME NEW j \in 1 .. M
          PROVE  /\ ext[j].type = "completed" /\ ext[j].check = Jobs[j]
                 /\ ext[j].result = [status |-> result'[Jobs[j]].status, auxiliary |-> Role(Jobs[j])]
      BY <2>2, EventIs
    <3>3. ASSUME NEW j \in 1 .. M, NEW c, Jobs[j] = c
          PROVE  ext[j].result = Reported(c)'
      <4>1. Reported(c)' = [status |-> result'[c].status, auxiliary |-> Role(c)]
        BY <3>1
      <4>2. ext[j].result = [status |-> result'[c].status, auxiliary |-> Role(c)]
        BY <3>2, <3>3
      <4>3. QED
        BY <4>1, <4>2
    <3>4. QED
      BY <3>2, <3>3
  <2>4. events' = events \o ext
    BY <2>1
  <2>5. /\ N \in Nat /\ Len(ext) \in Nat /\ Len(events') = N + Len(ext)
        /\ \A n \in 1 .. N : n \in 1 .. Len(events') /\ events'[n] = events[n]
        /\ \A j \in 1 .. Len(ext) : /\ N + j \in 1 .. Len(events')
                                    /\ events'[N + j] = ext[j]
        /\ \A n \in 1 .. Len(events') : n \in 1 .. N \/ \E j \in 1 .. Len(ext) : n = N + j
    BY <2>4, Extended
  <2> HIDE DEF M, N
  <2>6. Len(ext) = M
    BY <2>2
  <2>7. ASSUME NEW j \in 1 .. M
        PROVE  /\ N + j \in 1 .. Len(events')
               /\ events'[N + j].type = "completed" /\ events'[N + j].check = Jobs[j]
               /\ \A c : Jobs[j] = c => events'[N + j].result = Reported(c)'
    <3>1. N + j \in 1 .. Len(events') /\ events'[N + j] = ext[j]
      BY <2>5, <2>6
    <3>2. QED
      BY <2>3, <3>1
  <2>8. Len(events') = N + M
        /\ \A n \in 1 .. Len(events') : n \in 1 .. N \/ \E j \in 1 .. M : n = N + j
    BY <2>5, <2>6
  <2>9. QED
    BY <2>5, <2>7, <2>8, Zenon
<1> HIDE DEF N, M
<1>3. ASSUME NEW n \in 1 .. N, events[n].type = "completed"
      PROVE  \E i, j \in Nat : At(events[n].check, i, j) /\ i < stage
  BY <1>3 DEF OnlyTold, N
<1>4. \A n \in 1 .. N : events[n].type # "run_completed"
  BY DEF OnlyTold, N
<1>5. AllTold'
  <2> SUFFICES ASSUME NEW c \in Checks, NEW i \in Nat, NEW j \in Nat, At(c, i, j), i < stage + 1
               PROVE  \E n \in 1 .. Len(events') :
                        /\ events'[n].type = "completed" /\ events'[n].check = c
                        /\ events'[n].result = Reported(c)'
    BY <1>0 DEF AllTold, Tells
  <2>1. CASE i < stage
    <3>1. PICK n \in 1 .. N : Tells(n, c) /\ events[n].result = Reported(c)
      BY <2>1 DEF AllTold, N
    <3>2. Reported(c)' = Reported(c)
      BY <2>1, Kept
    <3>3. QED
      BY <1>2, <3>1, <3>2 DEF Tells
  <2>2. CASE i = stage
    <3>1. j \in 1 .. M /\ Jobs[j] = c
      BY <1>1, <2>2
    <3>2. QED
      BY <1>2, <3>1
  <2>3. QED
    BY <1>0, <2>1, <2>2
<1>6. OnlyTold'
  <2> SUFFICES ASSUME NEW n \in 1 .. Len(events')
               PROVE  /\ events'[n].type = "completed" =>
                           \E i, j \in Nat : At(events'[n].check, i, j) /\ i < stage + 1
                      /\ events'[n].type = "started" =>
                           \E i, j \in Nat : At(events'[n].check, i, j) /\ i < stage + 1
                      /\ events'[n].type # "run_completed"
    BY <1>0 DEF OnlyTold
  <2>1. CASE n \in 1 .. N
    <3>1. events[n].type = "started" =>
            \E i, j \in Nat : At(events[n].check, i, j) /\ i < stage + 1
      BY <1>0, <2>1 DEF OnlyTold, N
    <3>2. events'[n] = events[n] /\ events[n].type # "run_completed"
      BY <1>2, <1>4, <2>1
    <3>3. events[n].type = "completed" =>
            \E i, j \in Nat : At(events[n].check, i, j) /\ i < stage + 1
      BY <1>0, <1>3, <2>1
    <3>4. QED
      BY <3>1, <3>2, <3>3
  <2>2. CASE \E j \in 1 .. M : n = N + j
    <3>1. PICK j \in 1 .. M : n = N + j
      BY <2>2
    <3>2. events'[n].type = "completed" /\ events'[n].check = Jobs[j] /\ At(Jobs[j], stage, j)
      BY <1>1, <1>2, <3>1
    <3>3. j \in Nat /\ stage \in Nat /\ stage < stage + 1
      BY <1>0, <1>1
    <3>4. QED
      BY <3>2, <3>3
  <2>3. QED
    BY <1>2, <2>1, <2>2
<1>7. InOrder'
  <2> SUFFICES \A n \in 1 .. Len(events') : \A m \in 1 .. n - 1 : \A i, j, k, l \in Nat :
               /\ events'[m].type = events'[n].type /\ events'[n].type \in {"started", "completed"}
               /\ At(events'[m].check, i, j) /\ At(events'[n].check, k, l)
               => Ahead(<<i, j>>, <<k, l>>)
    BY <1>0, InOrderNext
  <2> TAKE n \in 1 .. Len(events')
  <2> TAKE m \in 1 .. n - 1
  <2> TAKE i \in Nat, j \in Nat, k \in Nat, l \in Nat
  <2> HAVE /\ events'[m].type = events'[n].type /\ events'[n].type \in {"started", "completed"}
           /\ At(events'[m].check, i, j) /\ At(events'[n].check, k, l)
  <2>1. CASE n \in 1 .. N
    <3>1. m \in 1 .. N
      BY <1>2, <2>1
    <3>2. QED
      BY <1>2, <2>1, <3>1 DEF InOrder, N
  <2>2. CASE \E x \in 1 .. M : n = N + x
    <3>1. PICK x \in 1 .. M : n = N + x
      BY <2>2
    <3>2. events'[n].type = "completed" /\ k = stage /\ l = x
      <4>1. /\ events'[n].type = "completed" /\ At(Jobs[x], k, l) /\ At(Jobs[x], stage, x)
            /\ Jobs[x] \in Checks /\ x \in Nat
        <5>1. events'[n].type = "completed" /\ events'[n].check = Jobs[x]
          BY <1>2, <3>1
        <5>2. At(Jobs[x], stage, x) /\ Jobs[x] \in Checks /\ x \in Nat
          <6>1. At(Jobs[x], stage, x) /\ Jobs[x] \in Checks
            BY <1>1, Zenon
          <6>2. x \in Nat
            BY <1>1
          <6>3. QED
            BY <6>1, <6>2
        <5>3. QED
          BY <5>1, <5>2
      <4>2. QED
        BY <1>0, <4>1, OnePlace
    <3>3. CASE m \in 1 .. N
      <4>1. PICK a \in Nat, b \in Nat : At(events'[m].check, a, b) /\ a < stage
        BY <1>2, <1>3, <3>2, <3>3
      <4>2. a = i
        <5>1. events'[m].check \in Checks
          BY <4>1, AtIs
        <5>2. QED
          BY <4>1, <5>1, OnePlace
      <4>3. k \in Nat /\ k = stage /\ a < stage
        BY <3>2, <4>1
      <4>4. QED
        BY <4>2, <4>3, AheadIs
    <3>4. CASE \E y \in 1 .. M : m = N + y
      <4>1. PICK y \in 1 .. M : m = N + y
        BY <3>4
      <4>2. At(Jobs[y], i, j) /\ At(Jobs[y], stage, y)
        <5>1. events'[m].check = Jobs[y]
          BY <1>2, <4>1
        <5>2. QED
          BY <1>1, <5>1
      <4>3. i = stage /\ j = y
        <5>1. Jobs[y] \in Checks /\ stage \in Nat /\ y \in Nat
          BY <1>0, <1>1
        <5>2. QED
          BY <4>2, <5>1, OnePlace
      <4>4. y < x
        BY <1>1, <1>2, <3>1, <4>1
      <4>5. QED
        <5>1. i = k /\ j < l
          BY <3>2, <4>3, <4>4
        <5>2. QED
          BY <5>1, AheadIs
    <3>5. m \in 1 .. Len(events')
      BY <1>1, <1>2
    <3>6. QED
      BY <1>2, <3>3, <3>4, <3>5
  <2>3. QED
    BY <1>2, <2>1, <2>2
<1>8. NoneMissing'
  <2> SUFFICES \A n \in 1 .. Len(events') : \A c \in Checks : \A i, j, k, l \in Nat :
               /\ events'[n].type = "completed"
               /\ At(c, i, j) /\ At(events'[n].check, k, l) /\ Ahead(<<i, j>>, <<k, l>>)
               => \E m \in 1 .. n - 1 : Tells(m, c)'
    BY <1>0, NoneMissingNext
  <2> TAKE n \in 1 .. Len(events')
  <2> TAKE c \in Checks
  <2> TAKE i \in Nat, j \in Nat, k \in Nat, l \in Nat
  <2> HAVE /\ events'[n].type = "completed"
           /\ At(c, i, j) /\ At(events'[n].check, k, l) /\ Ahead(<<i, j>>, <<k, l>>)
  <2>0. \A m : Tells(m, c)' <=> events'[m].type = "completed" /\ events'[m].check = c
    BY DEF Tells
  <2>1. CASE n \in 1 .. N
    <3>1. PICK m \in 1 .. n - 1 : Tells(m, c)
      BY <1>2, <2>1 DEF NoneMissing, N
    <3>2. m \in 1 .. N
      BY <1>2, <2>1
    <3>3. QED
      BY <1>2, <2>0, <3>1, <3>2 DEF Tells
  <2>2. CASE \E x \in 1 .. M : n = N + x
    <3>1. PICK x \in 1 .. M : n = N + x
      BY <2>2
    <3>2. k = stage /\ l = x
      <4>1. At(Jobs[x], k, l) /\ At(Jobs[x], stage, x) /\ Jobs[x] \in Checks /\ x \in Nat
        <5>1. events'[n].check = Jobs[x]
          BY <1>2, <3>1
        <5>2. At(Jobs[x], stage, x) /\ Jobs[x] \in Checks /\ x \in Nat
          <6>1. At(Jobs[x], stage, x) /\ Jobs[x] \in Checks
            BY <1>1, Zenon
          <6>2. x \in Nat
            BY <1>1
          <6>3. QED
            BY <6>1, <6>2
        <5>3. QED
          BY <5>1, <5>2
      <4>2. QED
        BY <1>0, <4>1, OnePlace
    <3>3. CASE i < stage
      <4>1. PICK m \in 1 .. N : Tells(m, c)
        BY <3>3 DEF AllTold, N
      <4>2. m \in 1 .. n - 1
        BY <1>1, <1>2, <3>1
      <4>3. QED
        BY <1>2, <2>0, <4>1, <4>2 DEF Tells
    <3>4. CASE i = stage /\ j < l
      <4>1. j \in 1 .. M /\ Jobs[j] = c
        BY <1>1, <3>4
      <4>2. N + j \in 1 .. n - 1
        BY <1>1, <1>2, <3>1, <3>2, <3>4, <4>1
      <4>3. QED
        BY <1>2, <2>0, <4>1, <4>2
    <3>5. i < k \/ (i = k /\ j < l)
      BY AheadIs
    <3>6. QED
      BY <3>2, <3>3, <3>4, <3>5
  <2>3. QED
    BY <1>2, <2>1, <2>2
<1>9. NoneRevived'
  <2> SUFFICES ASSUME NEW n \in 1 .. Len(events'), NEW m \in 1 .. n - 1,
                      events'[m].type = "completed", events'[n].type = "started"
               PROVE  events'[m].check # events'[n].check
    BY DEF NoneRevived
  <2>1. n \in 1 .. N
    BY <1>2
  <2>2. m \in 1 .. N
    BY <1>2, <2>1
  <2>3. QED
    BY <1>2, <2>1, <2>2 DEF NoneRevived, N
<1>10. QED
  BY <1>5, <1>6, <1>7, <1>8, <1>9

\* The checks of a stage are announced, and it is run.
LEMMA Announcing ==
  ASSUME Typed, Shape, WorkedOff, Policy, AllTold, OnlyTold, InOrder, NoneMissing, NoneRevived,
         [Next]_vars, StartStage
  PROVE  (AllTold /\ OnlyTold /\ InOrder /\ NoneMissing /\ NoneRevived)'
<1> DEFINE N == Len(events)
           M == Len(Jobs)
<1>0. /\ Checks' = Checks /\ stage \in Nat \ {0} /\ stage' = stage
      /\ InStage /\ step = "enter" /\ step' = "running"
      /\ \A c, i, j : At(c, i, j)' <=> At(c, i, j)
  BY Fixed, Frame DEF Typed, TypeOK, Shape, StartStage, Ready
<1>1. /\ M \in Nat
      /\ \A j \in 1 .. M : At(Jobs[j], stage, j) /\ Jobs[j] \in Checks
      /\ \A c, j : At(c, stage, j) => j \in 1 .. M /\ Jobs[j] = c
  BY <1>0, JobIs
<1>2. /\ N \in Nat /\ Len(events') = N + M
      /\ \A n \in 1 .. N : n \in 1 .. Len(events') /\ events'[n] = events[n]
      /\ \A n \in 1 .. Len(events') : n \in 1 .. N \/ \E j \in 1 .. M : n = N + j
      /\ \A j \in 1 .. M :
           /\ N + j \in 1 .. Len(events')
           /\ events'[N + j].type = "started" /\ events'[N + j].check = Jobs[j]
  <2>1. PICK ext \in Seq(EventSet) : ext = Started
    BY <1>0, Announces DEF Typed
  <2>2. Len(ext) = M /\ \A j \in 1 .. M : ext[j] = Event("started", Jobs[j], NoResult)
    BY <1>0, <2>1, Announces DEF Typed
  <2>3. \A j \in 1 .. M : ext[j].type = "started" /\ ext[j].check = Jobs[j]
    BY <2>2, EventIs
  <2>4. events' = events \o ext
    BY <2>1 DEF StartStage
  <2>5. /\ N \in Nat /\ Len(ext) \in Nat /\ Len(events') = N + Len(ext)
        /\ \A n \in 1 .. N : n \in 1 .. Len(events') /\ events'[n] = events[n]
        /\ \A j \in 1 .. Len(ext) : /\ N + j \in 1 .. Len(events')
                                    /\ events'[N + j] = ext[j]
        /\ \A n \in 1 .. Len(events') : n \in 1 .. N \/ \E j \in 1 .. Len(ext) : n = N + j
    BY <2>4, Extended
  <2> HIDE DEF M, N
  <2>6. Len(ext) = M
    BY <2>2
  <2>7. ASSUME NEW j \in 1 .. M
        PROVE  /\ N + j \in 1 .. Len(events')
               /\ events'[N + j].type = "started" /\ events'[N + j].check = Jobs[j]
    <3>1. N + j \in 1 .. Len(events') /\ events'[N + j] = ext[j]
      BY <2>5, <2>6
    <3>2. QED
      BY <2>3, <3>1
  <2>8. Len(events') = N + M
        /\ \A n \in 1 .. Len(events') : n \in 1 .. N \/ \E j \in 1 .. M : n = N + j
    BY <2>5, <2>6
  <2>9. QED
    BY <2>5, <2>7, <2>8, Zenon
<1> HIDE DEF N, M
<1>3. ASSUME NEW n \in 1 .. N, events[n].type \in {"started", "completed"}
      PROVE  \E i, j \in Nat : At(events[n].check, i, j) /\ i < stage
  BY <1>0, <1>3 DEF OnlyTold, N
<1>4. \A n \in 1 .. N : events[n].type # "run_completed"
  BY <1>0 DEF OnlyTold, N
<1>5. AllTold'
  <2> SUFFICES ASSUME NEW c \in Checks, NEW i \in Nat, NEW j \in Nat, At(c, i, j), i < stage
               PROVE  \E n \in 1 .. Len(events') :
                        /\ events'[n].type = "completed" /\ events'[n].check = c
                        /\ events'[n].result = Reported(c)'
    BY <1>0 DEF AllTold, Tells
  <2>1. PICK n \in 1 .. N : Tells(n, c) /\ events[n].result = Reported(c)
    BY DEF AllTold, N
  <2>2. Reported(c)' = Reported(c)
    BY Kept
  <2>3. QED
    BY <1>2, <2>1, <2>2 DEF Tells
<1>6. OnlyTold'
  <2> SUFFICES ASSUME NEW n \in 1 .. Len(events')
               PROVE  /\ events'[n].type = "completed" =>
                           \E i, j \in Nat : At(events'[n].check, i, j) /\ i < stage
                      /\ events'[n].type = "started" =>
                           \E i, j \in Nat : At(events'[n].check, i, j) /\ (i < stage \/ i = stage)
                      /\ events'[n].type # "run_completed"
    BY <1>0 DEF OnlyTold
  <2>1. CASE n \in 1 .. N
    <3>1. events'[n] = events[n] /\ events[n].type # "run_completed"
      BY <1>2, <1>4, <2>1
    <3>2. events[n].type \in {"started", "completed"} =>
            \E i, j \in Nat : At(events[n].check, i, j) /\ i < stage
      BY <1>3, <2>1
    <3>3. QED
      BY <3>1, <3>2
  <2>2. CASE \E j \in 1 .. M : n = N + j
    <3>1. PICK j \in 1 .. M : n = N + j
      BY <2>2
    <3>2. events'[n].type = "started" /\ events'[n].check = Jobs[j] /\ At(Jobs[j], stage, j)
      BY <1>1, <1>2, <3>1
    <3>3. j \in Nat /\ stage \in Nat
      BY <1>0, <1>1
    <3>4. QED
      BY <3>2, <3>3
  <2>3. QED
    BY <1>2, <2>1, <2>2
<1>7. InOrder'
  <2> SUFFICES \A n \in 1 .. Len(events') : \A m \in 1 .. n - 1 : \A i, j, k, l \in Nat :
               /\ events'[m].type = events'[n].type /\ events'[n].type \in {"started", "completed"}
               /\ At(events'[m].check, i, j) /\ At(events'[n].check, k, l)
               => Ahead(<<i, j>>, <<k, l>>)
    BY <1>0, InOrderNext
  <2> TAKE n \in 1 .. Len(events')
  <2> TAKE m \in 1 .. n - 1
  <2> TAKE i \in Nat, j \in Nat, k \in Nat, l \in Nat
  <2> HAVE /\ events'[m].type = events'[n].type /\ events'[n].type \in {"started", "completed"}
           /\ At(events'[m].check, i, j) /\ At(events'[n].check, k, l)
  <2>1. CASE n \in 1 .. N
    <3>1. m \in 1 .. N
      BY <1>2, <2>1
    <3>2. QED
      BY <1>2, <2>1, <3>1 DEF InOrder, N
  <2>2. CASE \E x \in 1 .. M : n = N + x
    <3>1. PICK x \in 1 .. M : n = N + x
      BY <2>2
    <3>2. events'[n].type = "started" /\ k = stage /\ l = x
      <4>1. events'[n].type = "started" /\ events'[n].check = Jobs[x]
        BY <1>2, <3>1
      <4>2. At(Jobs[x], stage, x) /\ Jobs[x] \in Checks /\ x \in Nat
        BY <1>1
      <4>3. QED
        BY <1>0, <4>1, <4>2 DEF Shape
    <3>3. CASE m \in 1 .. N
      <4>1. events'[m] = events[m] /\ events[m].type \in {"started", "completed"}
        BY <1>2, <3>3
      <4>2. PICK a \in Nat, b \in Nat : At(events'[m].check, a, b) /\ a < stage
        BY <1>3, <3>3, <4>1
      <4>3. a = i
        <5>1. events'[m].check \in Checks
          BY <4>2, AtIs
        <5>2. QED
          BY <4>2, <5>1, OnePlace
      <4>4. k \in Nat /\ k = stage /\ a < stage
        BY <3>2, <4>2
      <4>5. QED
        BY <4>3, <4>4, AheadIs
    <3>4. CASE \E y \in 1 .. M : m = N + y
      <4>1. PICK y \in 1 .. M : m = N + y
        BY <3>4
      <4>2. At(Jobs[y], i, j) /\ At(Jobs[y], stage, y)
        <5>1. events'[m].check = Jobs[y]
          BY <1>2, <4>1
        <5>2. QED
          BY <1>1, <5>1
      <4>3. i = stage /\ j = y
        <5>1. Jobs[y] \in Checks /\ stage \in Nat /\ y \in Nat
          BY <1>0, <1>1
        <5>2. QED
          BY <4>2, <5>1, OnePlace
      <4>4. y < x
        BY <1>1, <1>2, <3>1, <4>1
      <4>5. QED
        <5>1. i = k /\ j < l
          BY <3>2, <4>3, <4>4
        <5>2. QED
          BY <5>1, AheadIs
    <3>5. m \in 1 .. Len(events')
      BY <1>1, <1>2
    <3>6. QED
      BY <1>2, <3>3, <3>4, <3>5
  <2>3. QED
    BY <1>2, <2>1, <2>2
<1>8. NoneMissing'
  <2> SUFFICES \A n \in 1 .. Len(events') : \A c \in Checks : \A i, j, k, l \in Nat :
               /\ events'[n].type = "completed"
               /\ At(c, i, j) /\ At(events'[n].check, k, l) /\ Ahead(<<i, j>>, <<k, l>>)
               => \E m \in 1 .. n - 1 : Tells(m, c)'
    BY <1>0, NoneMissingNext
  <2> TAKE n \in 1 .. Len(events')
  <2> TAKE c \in Checks
  <2> TAKE i \in Nat, j \in Nat, k \in Nat, l \in Nat
  <2> HAVE /\ events'[n].type = "completed"
           /\ At(c, i, j) /\ At(events'[n].check, k, l) /\ Ahead(<<i, j>>, <<k, l>>)
  <2>0. \A m : Tells(m, c)' <=> events'[m].type = "completed" /\ events'[m].check = c
    BY DEF Tells
  <2>1. n \in 1 .. N
    BY <1>2
  <2>2. PICK m \in 1 .. n - 1 : Tells(m, c)
    BY <1>2, <2>1 DEF NoneMissing, N
  <2>3. m \in 1 .. N
    BY <1>2, <2>1
  <2>4. QED
    BY <1>2, <2>0, <2>2, <2>3 DEF Tells
<1>9. NoneRevived'
  <2> SUFFICES ASSUME NEW n \in 1 .. Len(events'), NEW m \in 1 .. n - 1,
                      events'[m].type = "completed", events'[n].type = "started"
               PROVE  events'[m].check # events'[n].check
    BY DEF NoneRevived
  <2>1. m \in 1 .. N
    <3>1. m \in 1 .. Len(events')
      BY <1>1, <1>2
    <3>2. ASSUME NEW j \in 1 .. M, m = N + j
          PROVE  FALSE
      BY <1>2, <3>2
    <3>3. QED
      BY <1>2, <3>1, <3>2
  <2>2. CASE n \in 1 .. N
    <3>1. events'[n] = events[n] /\ events'[m] = events[m]
      BY <1>2, <2>1, <2>2
    <3>2. QED
      BY <2>2, <3>1 DEF NoneRevived, N
  <2>3. CASE \E x \in 1 .. M : n = N + x
    <3>1. PICK x \in 1 .. M : n = N + x
      BY <2>3
    <3>2. events'[n].check = Jobs[x] /\ At(Jobs[x], stage, x) /\ Jobs[x] \in Checks /\ x \in Nat
      BY <1>1, <1>2, <3>1
    <3>3. PICK a \in Nat, b \in Nat : At(events'[m].check, a, b) /\ a < stage
      BY <1>2, <1>3, <2>1
    <3>4. QED
      BY <1>0, <3>2, <3>3 DEF Shape
  <2>4. QED
    BY <1>2, <2>2, <2>3
<1>10. QED
  BY <1>5, <1>6, <1>7, <1>8, <1>9

\* The run returns: what is marked at the end is what was told.
LEMMA Closing ==
  ASSUME Typed, Shape, WorkedOff, Policy, AllTold, OnlyTold, InOrder, NoneMissing, NoneRevived,
         [Next]_vars, Return
  PROVE  (AllTold /\ OnlyTold /\ InOrder /\ NoneMissing /\ NoneRevived /\ Marking)'
<1> DEFINE N == Len(events)
<1>0. /\ Checks' = Checks /\ stage \in Nat \ {0} /\ stage' = stage
      /\ step = "enter" /\ step' = "returned"
      /\ \A c, i, j : At(c, i, j)' <=> At(c, i, j)
      /\ \A c : Role(c)' = Role(c)
  <2>1. stages' = stages /\ options' = options /\ Checks' = Checks
    BY Fixed DEF Typed
  <2>2. (\A c, i, j : At(c, i, j)' <=> At(c, i, j)) /\ \A c : PartOf(c)' = PartOf(c)
    BY <2>1, Frame
  <2>3. QED
    BY <2>1, <2>2 DEF Role, Typed, TypeOK, Shape, Return
<1>1. /\ N \in Nat /\ Len(events') = N + 1
      /\ \A n \in 1 .. N : events'[n] = events[n]
      /\ events'[N + 1].type = "run_completed"
  <2>1. RunEvent("run_completed") \in EventSet /\ RunEvent("run_completed").type = "run_completed"
    BY DEF RunEvent, Event, NoResult, EventSet, EventTypes, ResultSet, Statuses
  <2>2. PICK T : T = EventSet
    OBVIOUS
  <2>3. PICK e \in Seq(T), r \in T : e = events /\ r = RunEvent("run_completed")
    BY <2>1, <2>2 DEF Typed
  <2>4. /\ Len(e) \in Nat /\ Len(Append(e, r)) = Len(e) + 1
        /\ \A n \in 1 .. Len(e) : Append(e, r)[n] = e[n]
        /\ Append(e, r)[Len(e) + 1] = r
    OBVIOUS
  <2>5. events' = Append(e, r)
    BY <2>3 DEF Return
  <2>6. QED
    BY <2>1, <2>3, <2>4, <2>5
<1> HIDE DEF N
<1>2. \A n \in 1 .. N : events[n].type # "run_completed"
  BY <1>0 DEF OnlyTold, N
<1>3. \A n \in 1 .. Len(events') : n \in 1 .. N \/ n = N + 1
  BY <1>1
<1>4. \A n \in 1 .. N : n \in 1 .. Len(events') /\ n # Len(events')
  BY <1>1
<1>5. AllTold'
  <2> SUFFICES ASSUME NEW c \in Checks, NEW i \in Nat, NEW j \in Nat, At(c, i, j), i < stage
               PROVE  \E n \in 1 .. Len(events') :
                        /\ events'[n].type = "completed" /\ events'[n].check = c
                        /\ events'[n].result = Reported(c)'
    BY <1>0 DEF AllTold, Tells
  <2>1. PICK n \in 1 .. N : Tells(n, c) /\ events[n].result = Reported(c)
    BY DEF AllTold, N
  <2>2. Reported(c)' = Reported(c)
    BY Kept
  <2>3. QED
    BY <1>1, <1>4, <2>1, <2>2 DEF Tells
<1>6. OnlyTold'
  <2> SUFFICES ASSUME NEW n \in 1 .. Len(events')
               PROVE  /\ events'[n].type = "completed" =>
                           \E i, j \in Nat : At(events'[n].check, i, j) /\ i < stage
                      /\ events'[n].type = "started" =>
                           \E i, j \in Nat : At(events'[n].check, i, j) /\ i < stage
                      /\ events'[n].type = "run_completed" <=> n = Len(events')
    BY <1>0 DEF OnlyTold
  <2>1. CASE n \in 1 .. N
    <3>1. events'[n] = events[n] /\ events[n].type # "run_completed" /\ n # Len(events')
      BY <1>1, <1>2, <1>4, <2>1
    <3>2. events[n].type \in {"started", "completed"} =>
            \E i, j \in Nat : At(events[n].check, i, j) /\ i < stage
      BY <1>0, <2>1 DEF OnlyTold, N
    <3>3. QED
      BY <3>1, <3>2
  <2>2. CASE n = N + 1
    BY <1>1, <2>2
  <2>3. QED
    BY <1>3, <2>1, <2>2
<1>7. InOrder'
  <2> SUFFICES ASSUME NEW n \in 1 .. Len(events'), NEW m \in 1 .. n - 1,
                      events'[m].type = events'[n].type,
                      events'[n].type \in {"started", "completed"},
                      NEW i \in Nat, NEW j \in Nat, NEW k \in Nat, NEW l \in Nat,
                      At(events'[m].check, i, j), At(events'[n].check, k, l)
               PROVE  Ahead(<<i, j>>, <<k, l>>)
    BY <1>0 DEF InOrder
  <2>1. n \in 1 .. N /\ m \in 1 .. N
    BY <1>1, <1>3
  <2>2. QED
    BY <1>1, <2>1 DEF InOrder, N
<1>8. NoneMissing'
  <2> SUFFICES ASSUME NEW n \in 1 .. Len(events'), events'[n].type = "completed",
                      NEW c \in Checks,
                      NEW i \in Nat, NEW j \in Nat, NEW k \in Nat, NEW l \in Nat,
                      At(c, i, j), At(events'[n].check, k, l), Ahead(<<i, j>>, <<k, l>>)
               PROVE  \E m \in 1 .. n - 1 : Tells(m, c)'
    BY <1>0 DEF NoneMissing
  <2>0. \A m : Tells(m, c)' <=> events'[m].type = "completed" /\ events'[m].check = c
    BY DEF Tells
  <2>1. n \in 1 .. N
    BY <1>1, <1>3
  <2>2. PICK m \in 1 .. n - 1 : Tells(m, c)
    BY <1>1, <2>1 DEF NoneMissing, N
  <2>3. m \in 1 .. N
    BY <1>1, <2>1
  <2>4. QED
    BY <1>1, <2>0, <2>2, <2>3 DEF Tells
<1>9. NoneRevived'
  <2> SUFFICES ASSUME NEW n \in 1 .. Len(events'), NEW m \in 1 .. n - 1,
                      events'[m].type = "completed", events'[n].type = "started"
               PROVE  events'[m].check # events'[n].check
    BY DEF NoneRevived
  <2>1. n \in 1 .. N /\ m \in 1 .. N
    BY <1>1, <1>3
  <2>2. QED
    BY <1>1, <2>1 DEF NoneRevived, N
<1>10. Marking'
  <2> SUFFICES ASSUME NEW c \in Checks
               PROVE  result'[c] = Reported(c)'
    BY <1>0 DEF Marking
  <2>1. ResultMarked(c) = Role(c)
    BY DEF ResultMarked, Role, Policy, Typed, TypeOK, Options
  <2>2. result'[c] = [result[c] EXCEPT !.auxiliary = ResultMarked(c)]
    BY DEF Return
  <2>3. result[c] \in [status : Statuses, auxiliary : BOOLEAN]
    BY DEF Typed, TypeOK
  <2>4. result'[c] = [status |-> result'[c].status, auxiliary |-> ResultMarked(c)]
    BY <2>2, <2>3
  <2>5. Reported(c)' = [status |-> result'[c].status, auxiliary |-> Role(c)]
    BY <1>0 DEF Reported
  <2>6. QED
    BY <2>1, <2>4, <2>5
<1>11. QED
  BY <1>5, <1>6, <1>7, <1>8, <1>9, <1>10

\* What is streamed keeps the order of the plan.
LEMMA StreamStays ==
  ASSUME IInv, [Next]_vars
  PROVE  Stream'
<1> USE DEF IInv
<1>0. /\ AllTold /\ OnlyTold /\ InOrder /\ NoneMissing /\ NoneRevived /\ Marking
      /\ result \in [Checks -> ResultSet]
      /\ result' \in [Checks -> ResultSet]
  <2>1. Typed' /\ Checks' = Checks
    BY TypeStays, Fixed DEF Typed
  <2>2. QED
    BY <2>1 DEF Stream, Typed, TypeOK, ResultSet
<1>1. ASSUME step' # "returned"
      PROVE  Marking'
  BY <1>1 DEF Marking
<1>2. CASE UNCHANGED vars
  <2>1. UNCHANGED <<stage, step, events>> /\ stages' = stages /\ Checks' = Checks
    BY <1>2, Fixed DEF vars, Typed
  <2>2. Marking'
    <3>1. \A c : PartOf(c)' = PartOf(c)
      BY <2>1, Frame
    <3>2. \A c : Reported(c)' = Reported(c)
      BY <1>2, <3>1 DEF Reported, Role, vars, setup
    <3>3. QED
      BY <1>0, <1>2, <2>1, <3>2 DEF Marking, vars
  <2>3. QED
    BY <1>0, <2>1, <2>2, Quiet DEF Stream
<1>3. ASSUME UNCHANGED <<stage, step, events>>, step # "returned"
      PROVE  Stream'
  BY <1>0, <1>1, <1>3, Quiet DEF Stream
<1>4. CASE \/ \E err \in {"cancelled", "deadline"} : EndRun(err)
           \/ ReserveBudget \/ TakeJob
  BY <1>3, <1>4 DEF EndRun, ReserveBudget, TakeJob
<1>5. CASE BudgetExpires
  <2>1. step # "returned"
    BY <1>5 DEF BudgetExpires, Part, WorkedOff
  <2>2. QED
    BY <1>3, <1>5, <2>1 DEF BudgetExpires
<1>6. CASE \E c \in Checks, o \in Outcomes : CheckReturns(c, o)
  <2>1. step = "running"
    BY <1>6, RunningIs DEF CheckReturns, Typed
  <2>2. QED
    BY <1>3, <1>6, <2>1 DEF CheckReturns
<1>7. CASE StopStage
  <2>1. /\ InStage /\ step = "enter" /\ step' = "enter" /\ stage' = stage + 1
        /\ proxy' = proxy /\ events' = events \o Completed(result')
    BY <1>7 DEF StopStage, Ready
  <2>2. QED
    BY <1>0, <1>1, <2>1, Reporting DEF Stream
<1>8. CASE CompleteStage
  <2>1. /\ InStage /\ step = "running" /\ step' = "enter" /\ stage' = stage + 1
        /\ proxy' = proxy /\ result' = result /\ events' = events \o Completed(result)
    BY <1>8 DEF CompleteStage, WorkedOff
  <2>2. events' = events \o Completed(result')
    BY <2>1
  <2>3. QED
    BY <1>0, <1>1, <2>1, <2>2, Reporting DEF Stream
<1>9. CASE StartStage
  <2>1. step' = "running"
    BY <1>9 DEF StartStage
  <2>2. QED
    BY <1>0, <1>1, <1>9, <2>1, Announcing DEF Stream
<1>10. CASE Return
  BY <1>0, <1>10, Closing DEF Stream
<1>11. QED
  BY <1>2, <1>4, <1>5, <1>6, <1>7, <1>8, <1>9, <1>10, ActsAre DEF Acts

-----------------------------------------------------------------------------
(* The theorems.                                                           *)

LEMMA InitHolds == Init => IInv
<1> SUFFICES ASSUME Init PROVE IInv
  OBVIOUS
<1>1. PICK plan \in Plans :
        /\ stages = StagesOf(plan)
        /\ phase = [c \in ChecksOf(plan) |-> "waiting"]
        /\ result = [c \in ChecksOf(plan) |-> NoResult]
  BY DEF Init
<1>2. /\ options \in Options /\ runErr = "none" /\ aux = "absent" /\ armed = FALSE
      /\ stage = 1 /\ step = "enter" /\ next = 0 /\ proxy = "unresolved"
      /\ events = <<RunEvent("run_started")>>
  BY DEF Init
<1>3. Checks = ChecksOf(plan)
  BY <1>1 DEF Checks
<1>4. /\ stages \in Seq(Stage(Checks)) /\ Once(Bare(stages))
      /\ ChecksOf(Bare(stages)) = Checks /\ PolicyFirst(stages)
  BY <1>1, <1>3, Layout
<1>5. Shape
  <2>1. /\ Len(stages) \in Nat /\ DOMAIN Bare(stages) = 1 .. Len(stages)
        /\ Bare(stages) \in Seq(Seq(Checks)) /\ Len(Bare(stages)) = Len(stages)
        /\ \A i \in 1 .. Len(stages) : Bare(stages)[i] = stages[i].checks
    BY <1>4, BareIs DEF Bare
  <2>2. ASSUME NEW c, NEW i, NEW j
        PROVE  At(c, i, j) <=> /\ i \in 1 .. Len(Bare(stages)) /\ j \in 1 .. Len(Bare(stages)[i])
                               /\ Bare(stages)[i][j] = c
    BY <2>1 DEF At
  <2>3. ASSUME NEW c \in Checks
        PROVE  \E i, j \in Nat : At(c, i, j)
    <3>1. PICK i \in 1 .. Len(Bare(stages)), j \in Nat :
            j \in 1 .. Len(Bare(stages)[i]) /\ Bare(stages)[i][j] = c
      <4>1. PICK i \in 1 .. Len(Bare(stages)) :
              \E j \in 1 .. Len(Bare(stages)[i]) : Bare(stages)[i][j] = c
        BY <1>4, InPlan
      <4>2. PICK j \in 1 .. Len(Bare(stages)[i]) : Bare(stages)[i][j] = c
        BY <4>1
      <4>3. Bare(stages)[i] \in Seq(Checks)
        BY <2>1
      <4>4. j \in Nat
        BY <4>3
      <4>5. QED
        BY <4>2, <4>4
    <3>2. i \in Nat
      BY <2>1
    <3>3. QED
      BY <2>2, <3>1, <3>2
  <2>4. ASSUME NEW c \in Checks, NEW i \in Nat, NEW j \in Nat, NEW k \in Nat, NEW l \in Nat,
               At(c, i, j), At(c, k, l)
        PROVE  i = k /\ j = l
    BY <1>4, <2>2, <2>4 DEF Once
  <2>5. QED
    BY <1>4, <2>3, <2>4 DEF Shape
<1>6. /\ Len(events) = 1 /\ events[1].type = "run_started"
      /\ events \in Seq(EventSet)
  <2>1. /\ RunEvent("run_started") \in EventSet /\ RunEvent("run_started").type = "run_started"
    BY DEF RunEvent, Event, NoResult, EventSet, EventTypes, ResultSet, Statuses
  <2>2. QED
    BY <1>2, <2>1
<1>7. Typed
  <2>1. result \in [Checks -> [status : Statuses, auxiliary : BOOLEAN]]
    BY <1>1, <1>3 DEF NoResult, Statuses
  <2>2. Len(stages) \in Nat
    BY <1>4
  <2>3. TypeOK
    <3>1. phase \in [Checks -> {"waiting", "running", "finished"}]
      BY <1>1, <1>3
    <3>2. stage \in 1 .. Len(stages) + 1
      BY <1>2, <2>2
    <3>3. \A i \in 1 .. Len(events) :
            events[i].type \in {"run_started", "started", "completed", "run_completed"}
      BY <1>6
    <3>4. \E p \in Plans : stages = StagesOf(p)
      BY <1>1
    <3>5. QED
      BY <1>2, <2>1, <3>1, <3>2, <3>3, <3>4 DEF TypeOK, Errs
  <2>4. QED
    BY <1>6, <2>3 DEF Typed
<1>8. WorkedOff
  <2>1. \A c \in Checks : phase[c] = "waiting"
    BY <1>1, <1>3
  <2>2. \A c, i, j : At(c, i, j) => ~(i < 1)
    BY <1>5, AtIs
  <2>3. QED
    BY <1>2, <2>1, <2>2 DEF WorkedOff
<1>9. Policy
  BY <1>1, <1>2, <1>3 DEF Policy, FailClosed, Running
<1>10. Causes
  BY <1>1, <1>2, <1>3 DEF Causes
<1>11. Stream
  <2>1. AllTold
    BY <1>2, <1>5, AtIs DEF AllTold
  <2>2. OnlyTold /\ Marking
    BY <1>2, <1>6 DEF OnlyTold, Marking
  <2>3. InOrder /\ NoneMissing /\ NoneRevived
    BY <1>6 DEF InOrder, NoneMissing, NoneRevived
  <2>4. QED
    BY <2>1, <2>2, <2>3 DEF Stream
<1>12. QED
  BY <1>5, <1>7, <1>8, <1>9, <1>10, <1>11 DEF IInv

LEMMA StepHolds == IInv /\ [Next]_vars => IInv'
<1> SUFFICES ASSUME IInv, [Next]_vars PROVE IInv'
  OBVIOUS
<1>1. Shape' /\ Typed' /\ WorkedOff' /\ Policy' /\ Causes'
  BY Fixed, TypeStays, WorkedOffStays, PolicyStays, CausesStay DEF IInv, Typed
<1>2. Stream'
  BY StreamStays
<1>3. QED
  BY <1>1, <1>2 DEF IInv

THEOREM Inductive == Spec => []IInv
  BY InitHolds, StepHolds, PTL DEF Spec

\* Every variable has its type, for every plan and every number of workers.
THEOREM TypeCorrect == Spec => []TypeOK
<1>1. IInv => TypeOK
  BY DEF IInv, Typed
<1>2. QED
  BY <1>1, Inductive, PTL

\* No direct-origin check runs before the actual part unless the proxy policy is
\* resolved and allows it.
THEOREM DirectChecksFailClosed == Spec => []FailClosed
<1>1. IInv => FailClosed
  BY DEF IInv, Policy
<1>2. QED
  BY <1>1, Inductive, PTL

\* A run that returns has ended every check.
LEMMA AllEnded ==
  ASSUME IInv, step = "returned", NEW c \in Checks
  PROVE  /\ phase[c] = "finished"
         /\ \E i, j \in Nat : At(c, i, j) /\ i < stage
<1>1. PICK i \in Nat, j \in Nat : At(c, i, j)
  BY DEF IInv, Shape
<1>2. i \in 1 .. Len(stages) /\ Len(stages) \in Nat /\ stage \in Nat
  BY <1>1, AtIs DEF IInv, Typed, TypeOK
<1>3. i < stage
  BY <1>2 DEF IInv, WorkedOff, InStage
<1>4. QED
  BY <1>1, <1>3 DEF IInv, WorkedOff

\* If the run's own context never ends, only auxiliary checks are stopped, and
\* only by the budget.
THEOREM ReserveIsKept == Spec => []ReserveProtectsActual
<1>1. IInv => ReserveProtectsActual
  BY AllEnded DEF IInv, Causes, ReserveProtectsActual
<1>2. QED
  BY <1>1, Inductive, PTL

\* place, as EventsInPlanOrder chooses it, is the place of a check.
LEMMA ChosenPlace ==
  ASSUME Shape, NEW c, NEW i, NEW j, At(c, i, j)
  PROVE  (CHOOSE p \in Places : stages[p[1]].checks[p[2]] = c) = <<i, j>>
<1> DEFINE Is(p) == stages[p[1]].checks[p[2]] = c
<1>1. <<i, j>> \in Places /\ Is(<<i, j>>)
  BY DEF At, Places
<1>2. ASSUME NEW p \in Places, Is(p)
      PROVE  p = <<i, j>>
  <2>1. PICK k \in 1 .. Len(stages) : \E l \in 1 .. Len(stages[k].checks) : p = <<k, l>>
    BY DEF Places
  <2>2. PICK l \in 1 .. Len(stages[k].checks) : p = <<k, l>>
    BY <2>1
  <2>3. At(c, k, l)
    BY <1>2, <2>2 DEF At
  <2>4. k = i /\ l = j
    BY <2>3, AtIs DEF Shape
  <2>5. QED
    BY <2>2, <2>4
<1> HIDE DEF Is
<1>3. (CHOOSE p \in Places : Is(p)) = <<i, j>>
  BY <1>1, <1>2
<1>4. QED
  BY <1>3 DEF Is

\* A reader who only follows the events knows the report.
THEOREM StreamTellsTheReport == Spec => []StreamIsTheReport
<1>1. ASSUME IInv
      PROVE  EventsInPlanOrder
  <2> USE DEF IInv, Stream
  <2> DEFINE places == Places
             place == [c \in Checks |-> CHOOSE p \in places : stages[p[1]].checks[p[2]] = c]
  <2>1. ASSUME NEW c, NEW i, NEW j, At(c, i, j)
        PROVE  place[c] = <<i, j>> /\ c \in Checks /\ i \in Nat /\ j \in Nat
    BY <1>1, <2>1, ChosenPlace, AtIs
  <2> HIDE DEF place
  <2>2. ASSUME NEW n \in 1 .. Len(events), events[n].type \in {"started", "completed"}
        PROVE  \E i, j \in Nat : At(events[n].check, i, j)
    BY <1>1, <2>2 DEF OnlyTold
  <2>3. ASSUME NEW n \in 1 .. Len(events), NEW m \in 1 .. n - 1,
               events[m].type = events[n].type, events[n].type \in {"started", "completed"}
        PROVE  Ahead(place[events[m].check], place[events[n].check])
    <3>1. m \in 1 .. Len(events)
      BY <1>1 DEF Typed
    <3>2. PICK i \in Nat, j \in Nat : At(events[m].check, i, j)
      BY <2>2, <2>3, <3>1
    <3>3. PICK k \in Nat, l \in Nat : At(events[n].check, k, l)
      BY <2>2, <2>3
    <3>4. Ahead(<<i, j>>, <<k, l>>)
      BY <1>1, <2>3, <3>2, <3>3 DEF InOrder
    <3>5. QED
      BY <2>1, <3>2, <3>3, <3>4
  <2>4. ASSUME NEW n \in 1 .. Len(events), events[n].type = "completed", NEW c \in Checks,
               Ahead(place[c], place[events[n].check])
        PROVE  \E m \in 1 .. n - 1 : events[m].type = "completed" /\ events[m].check = c
    <3>1. PICK i \in Nat, j \in Nat : At(c, i, j)
      BY <1>1 DEF Shape
    <3>2. PICK k \in Nat, l \in Nat : At(events[n].check, k, l)
      BY <2>2, <2>4
    <3>3. Ahead(<<i, j>>, <<k, l>>)
      BY <2>1, <2>4, <3>1, <3>2
    <3>4. \E m \in 1 .. n - 1 : Tells(m, c)
      BY <1>1, <2>4, <3>1, <3>2, <3>3 DEF NoneMissing
    <3>5. QED
      BY <3>4 DEF Tells
  <2>5. ASSUME NEW n \in 1 .. Len(events), NEW m \in 1 .. n - 1,
               events[m].type = "completed", events[n].type = "started"
        PROVE  events[m].check # events[n].check
    BY <1>1, <2>5 DEF NoneRevived
  <2>6. QED
    BY <2>3, <2>4, <2>5 DEF EventsInPlanOrder, place
<1>2. ASSUME IInv
      PROVE  StreamMatchesReport
  <2> USE DEF IInv, Stream
  <2> SUFFICES ASSUME step = "returned"
               PROVE  /\ \A c \in Checks :
                           \E i \in 1 .. Len(events) :
                             /\ events[i].type = "completed" /\ events[i].check = c
                             /\ events[i].result = result[c]
                             /\ \A j \in 1 .. Len(events) :
                                  events[j].type = "completed" /\ events[j].check = c => j = i
                      /\ \A i \in 1 .. Len(events) :
                           events[i].type = "run_completed" <=> i = Len(events)
    BY DEF StreamMatchesReport
  <2>1. ASSUME NEW c \in Checks
        PROVE  \E i \in 1 .. Len(events) :
                 /\ events[i].type = "completed" /\ events[i].check = c
                 /\ events[i].result = result[c]
                 /\ \A j \in 1 .. Len(events) :
                      events[j].type = "completed" /\ events[j].check = c => j = i
    <3>1. PICK k \in Nat, l \in Nat : At(c, k, l) /\ k < stage
      BY <1>2, AllEnded
    <3>2. PICK n \in 1 .. Len(events) : Tells(n, c) /\ events[n].result = Reported(c)
      BY <1>2, <3>1 DEF AllTold
    <3>3. Len(events) \in Nat
      BY <1>2 DEF Typed
    <3>4. ASSUME NEW a \in 1 .. Len(events), NEW b \in 1 .. a - 1, Tells(a, c), Tells(b, c)
          PROVE  FALSE
      <4>1. Ahead(<<k, l>>, <<k, l>>)
        BY <1>2, <3>1, <3>4 DEF InOrder, Tells
      <4>2. QED
        BY <4>1, AheadIs
    <3>5. ASSUME NEW j \in 1 .. Len(events), Tells(j, c)
          PROVE  j = n
      <4>1. j < n => j \in 1 .. n - 1
        BY <3>3
      <4>2. n < j => n \in 1 .. j - 1
        BY <3>3
      <4>3. ~(j < n) /\ ~(n < j)
        BY <3>2, <3>4, <3>5, <4>1, <4>2
      <4>4. QED
        BY <3>3, <4>3
    <3>6. events[n].result = result[c]
      BY <1>2, <3>2 DEF Marking
    <3>7. QED
      BY <3>2, <3>5, <3>6 DEF Tells
  <2>2. \A i \in 1 .. Len(events) : events[i].type = "run_completed" <=> i = Len(events)
    BY <1>2 DEF OnlyTold
  <2>3. QED
    BY <2>1, <2>2
<1>3. IInv => StreamIsTheReport
  BY <1>1, <1>2 DEF StreamIsTheReport
<1>4. QED
  BY <1>3, Inductive, PTL

\* A comparison check that the budget stopped is reported as stopped by the budget.
THEOREM BudgetIsReportedAsBudget == Spec => BudgetIsNotFailure
<1> DEFINE Fair(c) ==
      phase[c] # "finished" /\ phase'[c] = "finished" /\ aux = "budget"
        /\ PartOf(c) = "auxiliary"
        => \/ result'[c].status = "budget"
           \/ phase[c] = "running" /\ result'[c].status = "failed"
<1>1. ASSUME IInv, [Next]_vars, NEW c \in Checks, phase[c] # "finished", phase'[c] = "finished",
             aux = "budget", PartOf(c) = "auxiliary"
      PROVE  \/ result'[c].status = "budget"
             \/ phase[c] = "running" /\ result'[c].status = "failed"
  <2>0. /\ phase \in [Checks -> {"waiting", "running", "finished"}]
        /\ result \in [Checks -> [status : Statuses, auxiliary : BOOLEAN]]
        /\ Stopped("budget").status = "budget"
        /\ Part = "auxiliary" => CtxErr = "budget"
    BY <1>1, StoppedIs DEF IInv, Typed, TypeOK, CtxErr, Errs
  <2>1. CASE StopStage
    <3>1. InStage /\ InJobs(c) /\ result'[c] = Stopped(CtxErr)
      BY <1>1, <2>0, <2>1 DEF StopStage, Ready
    <3>2. stage \in Nat \ {0}
      BY <1>1 DEF IInv, Typed, TypeOK, Shape
    <3>3. PICK j \in Nat : At(c, stage, j)
      BY <1>1, <3>1, <3>2, JobIs DEF IInv
    <3>4. Part = PartOf(c)
      BY <1>1, <3>1, <3>3, AtIs DEF IInv, Part
    <3>5. QED
      BY <1>1, <2>0, <3>1, <3>4
  <2>2. CASE TakeJob
    <3>1. c = Jobs[next + 1]
      BY <1>1, <2>0, <2>2 DEF TakeJob
    <3>2. Part = PartOf(c)
      BY <1>1, <2>2, <3>1, TakenIs DEF IInv, Typed
    <3>3. CtxErr = "budget"
      BY <1>1, <2>0, <3>2
    <3>4. result' = [result EXCEPT ![c] = Stopped(CtxErr)]
      BY <2>2, <3>1, <3>3 DEF TakeJob
    <3>5. QED
      BY <1>1, <2>0, <3>3, <3>4
  <2>3. ASSUME NEW d \in Checks, NEW o \in Outcomes, CheckReturns(d, o)
        PROVE  phase[c] = "running" /\ result'[c].status \in {"budget", "failed"}
    <3>1. c = d /\ phase[c] = "running" /\ result' = [result EXCEPT ![c].status = Judge(o)]
      BY <1>1, <2>0, <2>3 DEF CheckReturns
    <3>2. Part = PartOf(c)
      BY <1>1, <3>1, RunningIs DEF IInv, Typed
    <3>3. Judge(o) \in {"failed", "budget"}
      BY <1>1, <2>0, <3>2 DEF Judge
    <3>4. QED
      BY <1>1, <2>0, <3>1, <3>3
  <2>4. CASE \/ UNCHANGED vars \/ \E err \in {"cancelled", "deadline"} : EndRun(err)
             \/ ReserveBudget \/ BudgetExpires \/ StartStage \/ CompleteStage \/ Return
    BY <1>1, <2>4 DEF vars, EndRun, ReserveBudget, BudgetExpires, StartStage, CompleteStage,
       Return
  <2>5. QED
    BY <1>1, <2>1, <2>2, <2>3, <2>4, ActsAre DEF Acts
<1>2. IInv /\ [Next]_vars => [\A c \in Checks : Fair(c)]_vars
  BY <1>1
<1>3. Spec => [][\A c \in Checks : Fair(c)]_vars
  BY <1>2, Inductive, PTL DEF Spec
<1>4. QED
  BY <1>3 DEF BudgetIsNotFailure
=============================================================================
