-------------------------- MODULE StoreQueueProofs --------------------------
(* Theorems about the store queue, for any calls, keys, priorities and limits, and
   about the registry syncs, for any tabs, keys and overlapping flushes. *)
EXTENDS StoreQueue, RegistrySync, FiniteSetTheorems, SequenceTheorems, TLAPS

(* A nonempty set of naturals has a least element. *)
LEMMA LeastExists ==
    ASSUME NEW S \in SUBSET Nat, S # {}
    PROVE  \E m \in S : \A x \in S : m <= x
<1> DEFINE R == StrictSubsetOrdering(Nat)
           T == {1..n : n \in S}
<1>1. IsWellFoundedOn(R, FiniteSubsetsOf(Nat))
  BY FS_StrictSubsetOrderingWellFounded
<1>2. T \subseteq FiniteSubsetsOf(Nat) /\ T # {}
  <2>1. \A n \in Nat : 1..n \in SUBSET Nat /\ IsFiniteSet(1..n)
    BY FS_Interval
  <2> QED BY <2>1 DEF FiniteSubsetsOf
<1>3. PICK x \in T : \A y \in T : ~ (<<y, x>> \in R)
  <2> HIDE DEF T, R
  <2> QED BY <1>1, <1>2, WFMin
<1>4. PICK m \in S : x = 1..m
  BY DEF T
<1>5. ASSUME NEW n \in S, n < m PROVE FALSE
  <2>1. 1..n \subseteq x /\ 1..n # x
    BY <1>4, <1>5
  <2>2. <<1..n, x>> \in R
    BY <2>1, <1>4 DEF StrictSubsetOrdering
  <2> QED BY <2>2, <1>3
<1> QED BY <1>5

LEMMA FirstLowIs ==
    ASSUME NEW q \in Seq(Tasks)
    PROVE  /\ FirstLow(q) \in 1..(Len(q) + 1)
           /\ \A i \in 1..Len(q) : i < FirstLow(q) => Priority[q[i]] = "high"
           /\ FirstLow(q) <= Len(q) => Priority[q[FirstLow(q)]] = "low"
<1> DEFINE low == {i \in 1..Len(q) : Priority[q[i]] = "low"}
<1>1. \A i \in 1..Len(q) : i \notin low => Priority[q[i]] = "high"
  BY QueueAssumption, ElementOfSeq
<1>2. CASE low = {}
  BY <1>1, <1>2 DEF FirstLow
<1>3. CASE low # {}
  <2>1. low \in SUBSET Nat
    OBVIOUS
  <2>2. FirstLow(q) = Min(low)
    BY <1>3 DEF FirstLow
  <2>3. \A m \in low : m \in 1..Len(q) /\ Priority[q[m]] = "low"
    OBVIOUS
  <2> HIDE DEF low
  <2>4. \E m \in low : \A x \in low : m <= x
    BY <1>3, <2>1, LeastExists
  <2>5. Min(low) \in low /\ \A x \in low : Min(low) <= x
    BY <2>4 DEF Min
  <2> DEFINE least == Min(low)
  <2> HIDE DEF least
  <2>6. \A i \in 1..Len(q) : i < least => i \notin low
    <3>1. least \in Nat /\ \A x \in low : x \in Nat /\ least <= x
      BY <2>1, <2>5 DEF least
    <3> QED BY <3>1
  <2> QED BY <1>1, <2>2, <2>3, <2>5, <2>6 DEF least
<1> QED BY <1>2, <1>3

-----------------------------------------------------------------------------
(* Sequences: one element more, one element less. *)

(* r is q with t put in at position i. *)
PutIn(r, q, i, t) ==
    /\ r \in Seq(Tasks)
    /\ Len(r) = Len(q) + 1
    /\ i \in 1..Len(r)
    /\ \A j \in 1..Len(r) : r[j] = IF j < i THEN q[j] ELSE IF j = i THEN t ELSE q[j - 1]

LEMMA InsertedIs ==
    ASSUME NEW q \in Seq(Tasks), NEW t \in Tasks
    PROVE  PutIn(Inserted(q, t), q,
                 IF Priority[t] = "low" THEN Len(q) + 1 ELSE FirstLow(q), t)
<1>1. CASE Priority[t] = "low"
  BY <1>1 DEF Inserted, PutIn
<1>2. CASE Priority[t] # "low"
  <2> DEFINE i == FirstLow(q)
             left == SubSeq(q, 1, i - 1)
             right == SubSeq(q, i, Len(q))
  <2>1. i \in 1..(Len(q) + 1)
    BY FirstLowIs
  <2>2. /\ left \in Seq(Tasks) /\ Len(left) = i - 1
        /\ \A j \in 1..(i - 1) : left[j] = q[j]
    BY <2>1, SubSeqProperties
  <2>3. /\ right \in Seq(Tasks) /\ Len(right) = Len(q) - i + 1
        /\ \A j \in 1..(Len(q) - i + 1) : right[j] = q[i + j - 1]
    BY <2>1, SubSeqProperties
  <2>4. Inserted(q, t) = left \o <<t>> \o right
    BY <1>2 DEF Inserted, InsertAt
  <2> HIDE DEF left, right, i
  <2>5. /\ left \o <<t>> \in Seq(Tasks) /\ Len(left \o <<t>>) = i
        /\ \A j \in 1..i : (left \o <<t>>)[j] = IF j < i THEN q[j] ELSE t
    BY <2>1, <2>2
  <2> DEFINE head == left \o <<t>>
  <2> HIDE DEF head
  <2>6. /\ head \o right \in Seq(Tasks) /\ Len(head \o right) = Len(head) + Len(right)
        /\ \A j \in 1..(Len(head) + Len(right)) :
              (head \o right)[j] = IF j <= Len(head) THEN head[j] ELSE right[j - Len(head)]
    BY <2>3, <2>5, ConcatProperties DEF head
  <2>7. PutIn(head \o right, q, i, t)
    <3>1. Len(head) = i /\ \A j \in 1..i : head[j] = IF j < i THEN q[j] ELSE t
      BY <2>5 DEF head
    <3>2. Len(head \o right) = Len(q) + 1
      BY <2>1, <2>3, <2>6, <3>1
    <3>3. ASSUME NEW j \in 1..(Len(q) + 1)
          PROVE  (head \o right)[j] = IF j < i THEN q[j] ELSE IF j = i THEN t ELSE q[j - 1]
      <4>1. CASE j <= i
        <5>1. j \in 1..i /\ j \in 1..(Len(head) + Len(right)) /\ j <= Len(head)
          BY <2>1, <2>3, <3>1, <4>1
        <5>2. (head \o right)[j] = head[j]
          BY ONLY <2>6, <5>1
        <5>3. head[j] = IF j < i THEN q[j] ELSE t
          BY ONLY <3>1, <5>1
        <5>4. i \in Int /\ j \in Int
          BY <2>1
        <5> QED BY ONLY <5>2, <5>3, <4>1, <5>4
      <4>2. CASE j > i
        <5>1. j - i \in 1..(Len(q) - i + 1) /\ i + (j - i) - 1 = j - 1
          BY <2>1, <4>2
        <5>2. (head \o right)[j] = right[j - i]
          <6>1. j \in 1..(Len(head) + Len(right)) /\ ~(j <= Len(head)) /\ Len(head) = i
            BY <2>1, <2>3, <3>1, <4>2
          <6> QED BY ONLY <2>6, <6>1
        <5>3. right[j - i] = q[i + (j - i) - 1]
          BY <2>3, <5>1
        <5> QED BY <2>1, <4>2, <5>1, <5>2, <5>3
      <4>3. j <= i \/ j > i
        BY <2>1
      <4> QED BY ONLY <4>1, <4>2, <4>3
    <3> QED BY <2>1, <2>6, <3>2, <3>3 DEF PutIn
  <2> QED BY <1>2, <2>4, <2>7 DEF i, head
<1> QED BY <1>1, <1>2

LEMMA RemoveAtIs ==
    ASSUME NEW q \in Seq(Tasks), NEW i \in 1..Len(q)
    PROVE  /\ RemoveAt(q, i) \in Seq(Tasks)
           /\ Len(RemoveAt(q, i)) = Len(q) - 1
           /\ \A j \in 1..(Len(q) - 1) :
                 RemoveAt(q, i)[j] = IF j < i THEN q[j] ELSE q[j + 1]
<1> DEFINE left == SubSeq(q, 1, i - 1)
           right == SubSeq(q, i + 1, Len(q))
<1>1. /\ left \in Seq(Tasks) /\ Len(left) = i - 1
      /\ \A j \in 1..(i - 1) : left[j] = q[j]
  BY SubSeqProperties
<1>2. /\ right \in Seq(Tasks) /\ Len(right) = Len(q) - i
      /\ \A j \in 1..(Len(q) - i) : right[j] = q[i + j]
  BY SubSeqProperties
<1>3. RemoveAt(q, i) = left \o right
  BY DEF RemoveAt
<1> HIDE DEF left, right
<1>4. /\ left \o right \in Seq(Tasks) /\ Len(left \o right) = Len(left) + Len(right)
      /\ \A j \in 1..(Len(left) + Len(right)) :
            (left \o right)[j] = IF j <= Len(left) THEN left[j] ELSE right[j - Len(left)]
  BY <1>1, <1>2, ConcatProperties
<1> QED BY <1>1, <1>2, <1>3, <1>4

-----------------------------------------------------------------------------
(* The queue and the counter *)

(* The queue holds exactly the queued calls, each of them once. *)
QueueOf(q, st) ==
    /\ \A i \in 1..Len(q) : st[q[i]] = "queued"
    /\ \A i, j \in 1..Len(q) : q[i] = q[j] => i = j
    /\ \A t \in Tasks : st[t] = "queued" => \E i \in 1..Len(q) : q[i] = t

QueueInv == QueueOf(waitQueue, state) /\ Bounded

LEMMA PutInQueue ==
    ASSUME NEW q \in Seq(Tasks), NEW r, NEW i, NEW t \in Tasks, PutIn(r, q, i, t),
           NEW st \in [Tasks -> States], NEW new \in [Tasks -> States],
           QueueOf(q, st), st[t] # "queued", new = [st EXCEPT ![t] = "queued"]
    PROVE  QueueOf(r, new)
<1>1. \A j \in 1..Len(q) : q[j] \in Tasks /\ q[j] # t
  BY DEF QueueOf
<1>2. \A j \in 1..Len(r) : IF j = i THEN r[j] = t
                           ELSE \E n \in 1..Len(q) : r[j] = q[n] /\ n = IF j < i THEN j ELSE j - 1
  BY DEF PutIn
<1>3. \A j \in 1..Len(r) : new[r[j]] = "queued"
  BY <1>1, <1>2 DEF QueueOf
<1>4. ASSUME NEW j \in 1..Len(r), NEW k \in 1..Len(r), r[j] = r[k] PROVE j = k
  <2>1. \A a, b \in 1..Len(q) : q[a] = q[b] => a = b
    BY DEF QueueOf
  <2>2. i \in Int /\ j \in Int /\ k \in Int
    BY DEF PutIn
  <2>3. CASE j = i
    BY ONLY <1>1, <1>2, <1>4, <2>3
  <2>4. CASE k = i
    BY ONLY <1>1, <1>2, <1>4, <2>4
  <2>5. CASE j # i /\ k # i
    <3>1. PICK a \in 1..Len(q) : r[j] = q[a] /\ a = IF j < i THEN j ELSE j - 1
      BY ONLY <1>2, <2>5
    <3>2. PICK b \in 1..Len(q) : r[k] = q[b] /\ b = IF k < i THEN k ELSE k - 1
      BY ONLY <1>2, <2>5
    <3>3. a = b
      BY ONLY <1>4, <2>1, <3>1, <3>2
    <3> QED BY ONLY <2>2, <2>5, <3>1, <3>2, <3>3
  <2> QED BY ONLY <2>3, <2>4, <2>5
<1>5. ASSUME NEW s \in Tasks, new[s] = "queued" PROVE \E j \in 1..Len(r) : r[j] = s
  <2>1. CASE s = t
    BY <2>1 DEF PutIn
  <2>2. CASE s # t
    <3>1. PICK n \in 1..Len(q) : q[n] = s
      BY <1>5, <2>2 DEF QueueOf
    <3>2. CASE n < i
      BY <3>1, <3>2 DEF PutIn
    <3>3. CASE n >= i
      <4>1. n + 1 \in 1..Len(r) /\ r[n + 1] = q[n]
        BY <3>3 DEF PutIn
      <4> QED BY <3>1, <4>1
    <3> QED BY <3>2, <3>3 DEF PutIn
  <2> QED BY <2>1, <2>2
<1> QED BY <1>3, <1>4, <1>5 DEF QueueOf

LEMMA RemoveQueue ==
    ASSUME NEW q \in Seq(Tasks), NEW i \in 1..Len(q),
           NEW st \in [Tasks -> States], QueueOf(q, st)
    PROVE  QueueOf(RemoveAt(q, i), [st EXCEPT ![q[i]] = "dropped"])
<1> DEFINE r == RemoveAt(q, i)
           new == [st EXCEPT ![q[i]] = "dropped"]
<1>1. /\ r \in Seq(Tasks) /\ Len(r) = Len(q) - 1
      /\ \A j \in 1..Len(r) : r[j] = IF j < i THEN q[j] ELSE q[j + 1]
  BY RemoveAtIs
<1>2. q[i] \in Tasks
  BY ElementOfSeq
<1> HIDE DEF r
<1> DEFINE from(j) == IF j < i THEN j ELSE j + 1
<1>from. \A j \in 1..Len(r) : from(j) \in 1..Len(q) /\ from(j) # i /\ r[j] = q[from(j)]
  BY <1>1
<1>apart. \A a, b \in 1..Len(q) : q[a] = q[b] => a = b
  BY DEF QueueOf
<1>queued. \A a \in 1..Len(q) : q[a] \in Tasks /\ st[q[a]] = "queued"
  BY DEF QueueOf
<1>3. ASSUME NEW j \in 1..Len(r)
      PROVE  r[j] \in Tasks /\ r[j] # q[i] /\ st[r[j]] = "queued"
  <2>1. from(j) \in 1..Len(q) /\ from(j) # i /\ r[j] = q[from(j)]
    BY ONLY <1>from
  <2> HIDE DEF from
  <2> QED BY <2>1, <1>apart, <1>queued
<1>4. ASSUME NEW j \in 1..Len(r), NEW k \in 1..Len(r), r[j] = r[k] PROVE j = k
  <2>1. /\ from(j) \in 1..Len(q) /\ r[j] = q[from(j)]
        /\ from(k) \in 1..Len(q) /\ r[k] = q[from(k)]
    BY ONLY <1>from
  <2> HIDE DEF from
  <2>2. from(j) = from(k)
    BY ONLY <1>4, <1>apart, <2>1
  <2>3. i \in Int /\ j \in Int /\ k \in Int
    BY <1>1
  <2> QED BY ONLY <2>2, <2>3 DEF from
<1>5. ASSUME NEW s \in Tasks, new[s] = "queued" PROVE \E j \in 1..Len(r) : r[j] = s
  <2>1. s # q[i] /\ st[s] = "queued"
    BY <1>5
  <2>2. PICK n \in 1..Len(q) : q[n] = s
    <3>1. \A t \in Tasks : st[t] = "queued" => \E a \in 1..Len(q) : q[a] = t
      BY DEF QueueOf
    <3> QED BY ONLY <2>1, <3>1
  <2>3. CASE n < i
    BY <1>1, <2>2, <2>3
  <2>4. CASE n > i
    <3>1. n - 1 \in 1..Len(r) /\ r[n - 1] = q[n]
      BY <1>1, <2>4
    <3> QED BY <2>2, <3>1
  <2> QED BY <2>1, <2>2, <2>3, <2>4
<1> QED BY <1>2, <1>3, <1>4, <1>5 DEF QueueOf, r

(* Where a pump, on a queue q that is right for the states st, leads. *)
Pumped(st) ==
    /\ state' \in [Tasks -> States] /\ waitQueue' \in Seq(Tasks) /\ active' \in Nat
    /\ QueueOf(waitQueue', state')
    /\ \A t \in Tasks : state'[t] = st[t] \/ (st[t] = "queued" /\ state'[t] = "running")
    /\ active' = Cardinality(Running') /\ active' <= Concurrency
    /\ waitQueue' = <<>> \/ active' >= Concurrency
    /\ Len(waitQueue') + active' <= Depth

LEMMA PumpIs ==
    ASSUME active \in Nat, NEW q \in Seq(Tasks), NEW st \in [Tasks -> States],
           QueueOf(q, st), Len(q) + active <= Depth, active <= Concurrency,
           active = Cardinality({t \in Tasks : st[t] = "running"}),
           Pump(q, st)
    PROVE  Pumped(st)
<1> DEFINE room == IF active < Concurrency THEN Concurrency - active ELSE 0
           n == IF room < Len(q) THEN room ELSE Len(q)
           started == {q[i] : i \in 1..n}
           rest == SubSeq(q, n + 1, Len(q))
<1>1. /\ state' = [t \in Tasks |-> IF t \in started THEN "running" ELSE st[t]]
      /\ waitQueue' = rest
      /\ active' = active + n
  BY DEF Pump
<1>2. /\ n \in Nat /\ n <= Len(q) /\ active + n <= Concurrency
      /\ n = Len(q) \/ active + n = Concurrency
  BY QueueAssumption
<1>3. /\ started \subseteq Tasks /\ \A t \in started : st[t] = "queued"
      /\ \A i \in 1..Len(q) : q[i] \in started <=> i <= n
  <2>1. started \subseteq Tasks /\ \A t \in started : st[t] = "queued"
    <3>1. \A i \in 1..Len(q) : q[i] \in Tasks /\ st[q[i]] = "queued"
      BY DEF QueueOf
    <3>2. \A i \in 1..n : i \in 1..Len(q)
      BY <1>2
    <3> HIDE DEF n
    <3> QED BY ONLY <3>1, <3>2
  <2>2. ASSUME NEW i \in 1..Len(q), q[i] \in started PROVE i <= n
    <3>1. PICK j \in 1..n : q[i] = q[j]
      BY <2>2
    <3>2. i = j
      <4>1. \A a, b \in 1..Len(q) : q[a] = q[b] => a = b
        BY DEF QueueOf
      <4>2. j \in 1..Len(q)
        BY <1>2
      <4> HIDE DEF n
      <4> QED BY ONLY <3>1, <4>1, <4>2
    <3> QED BY <1>2, <3>1, <3>2
  <2>3. ASSUME NEW i \in 1..Len(q), i <= n PROVE q[i] \in started
    <3>1. i \in 1..n
      BY <1>2, <2>3
    <3> QED BY <3>1
  <2> HIDE DEF n, started
  <2> QED BY <2>1, <2>2, <2>3
<1> HIDE DEF n
<1>4. /\ rest \in Seq(Tasks) /\ Len(rest) = Len(q) - n
      /\ \A i \in 1..(Len(q) - n) : rest[i] = q[n + i]
  <2>1. \A i \in (n + 1)..Len(q) : q[i] \in Tasks
    BY <1>2
  <2>2. Len(q) - (n + 1) + 1 = Len(q) - n /\ (Len(q) - n = 0 \/ n + 1 <= Len(q))
    BY <1>2
  <2>3. /\ rest \in Seq(Tasks)
        /\ Len(rest) = IF n + 1 <= Len(q) THEN Len(q) - (n + 1) + 1 ELSE 0
        /\ \A i \in 1..(Len(q) - (n + 1) + 1) : rest[i] = q[(n + 1) + i - 1]
    BY <1>2, <2>1, SubSeqProperties
  <2>4. Len(rest) = Len(q) - n
    BY ONLY <2>2, <2>3
  <2>5. ASSUME NEW i \in 1..(Len(q) - n) PROVE rest[i] = q[n + i]
    <3>1. n \in Int /\ i \in Int /\ (n + 1) + i - 1 = n + i
      BY <1>2
    <3>2. i \in 1..(Len(q) - (n + 1) + 1)
      BY ONLY <2>2, <2>5
    <3>3. rest[i] = q[(n + 1) + i - 1]
      BY ONLY <2>3, <3>2
    <3> QED BY ONLY <3>1, <3>3
  <2> QED BY ONLY <2>3, <2>4, <2>5
<1>5. Cardinality(started) = n /\ IsFiniteSet(started)
  <2> DEFINE f == [i \in 1..n |-> q[i]]
  <2>1. f \in Bijection(1..n, started)
    <3>1. f \in [1..n -> started] /\ \A x \in started : \E i \in 1..n : f[i] = x
      OBVIOUS
    <3>2. \A i, j \in 1..n : f[i] = f[j] => i = j
      <4>1. \A a, b \in 1..Len(q) : q[a] = q[b] => a = b
        BY DEF QueueOf
      <4>2. \A i \in 1..n : i \in 1..Len(q)
        BY <1>2
      <4> QED BY ONLY <4>1, <4>2
    <3> QED BY <3>1, <3>2 DEF Bijection, Injection, Surjection, IsInjective
  <2>2. IsFiniteSet(1..n) /\ Cardinality(1..n) = n
    BY <1>2, FS_Interval
  <2>3. ExistsBijection(1..n, started)
    BY <2>1 DEF ExistsBijection
  <2> HIDE DEF started
  <2> QED BY <2>2, <2>3, FS_Bijection
<1> DEFINE before == {t \in Tasks : st[t] = "running"}
<1> HIDE DEF started, rest
<1>6. Running' = before \cup started /\ before \cap started = {}
  BY <1>1, <1>3 DEF Running
<1>7. IsFiniteSet(before) /\ active = Cardinality(before)
  BY FS_Subset, QueueAssumption
<1> HIDE DEF before
<1>8. Cardinality(Running') = active + n
  <2>1. before \cap started = {} /\ Cardinality({}) = 0
    BY <1>6, FS_EmptySet
  <2>2. Cardinality(before \cup started) =
          Cardinality(before) + Cardinality(started) - Cardinality(before \cap started)
    BY <1>5, <1>7, FS_Union
  <2>3. Cardinality(before \cup started) = active + n - 0
    BY <1>5, <1>7, <2>1, <2>2
  <2> QED BY <1>2, <1>6, <2>3
<1>9. QueueOf(waitQueue', state')
  <2>1. ASSUME NEW i \in 1..Len(rest)
        PROVE  n + i \in 1..Len(q) /\ rest[i] = q[n + i] /\ ~ (n + i <= n)
    BY <1>2, <1>4
  <2>2. ASSUME NEW i \in 1..Len(rest)
        PROVE  rest[i] \in Tasks /\ state'[rest[i]] = "queued"
    <3>1. q[n + i] \in Tasks /\ st[q[n + i]] = "queued" /\ q[n + i] \notin started
      BY <1>3, <2>1 DEF QueueOf
    <3> QED BY <1>1, <2>1, <3>1
  <2>3. ASSUME NEW i \in 1..Len(rest), NEW j \in 1..Len(rest), rest[i] = rest[j]
        PROVE  i = j
    <3>1. n + i = n + j
      <4>1. \A a, b \in 1..Len(q) : q[a] = q[b] => a = b
        BY DEF QueueOf
      <4> QED BY ONLY <2>1, <2>3, <4>1
    <3> QED BY <1>2, <1>4, <3>1
  <2>4. ASSUME NEW t \in Tasks, state'[t] = "queued"
        PROVE  \E i \in 1..Len(rest) : rest[i] = t
    <3>1. t \notin started /\ st[t] = "queued"
      BY <1>1, <2>4
    <3>2. PICK i \in 1..Len(q) : q[i] = t
      BY <3>1 DEF QueueOf
    <3>3. i > n
      BY <1>2, <1>3, <3>1, <3>2
    <3>4. i - n \in 1..(Len(q) - n) /\ n + (i - n) = i
      BY <1>2, <3>3
    <3> QED BY <1>4, <3>2, <3>4
  <2> QED BY <1>1, <2>2, <2>3, <2>4 DEF QueueOf
<1>10. waitQueue' = <<>> \/ active' >= Concurrency
  <2>1. CASE n = Len(q)
    BY <1>1, <1>4, <2>1
  <2>2. CASE active + n = Concurrency
    BY <1>1, <2>2, QueueAssumption
  <2> QED BY <1>2, <2>1, <2>2
<1>11. \A t \in Tasks : state'[t] = st[t] \/ (st[t] = "queued" /\ state'[t] = "running")
  BY <1>1, <1>3
<1>12. state' \in [Tasks -> States]
  BY <1>1 DEF States
<1>13. Len(waitQueue') + active' <= Depth /\ active' \in Nat /\ active' <= Concurrency
  BY <1>1, <1>2, <1>4, QueueAssumption
<1> QED BY <1>1, <1>4, <1>8, <1>9, <1>10, <1>11, <1>12, <1>13 DEF Pumped

-----------------------------------------------------------------------------
(* What a call that enters the queue (enqueueUnbounded) may change. *)
Admitted(t) ==
    /\ state' \in [Tasks -> States] /\ waitQueue' \in Seq(Tasks) /\ active' \in Nat
    /\ QueueInv'
    /\ state'[t] \in {"queued", "running", "dropped"}
    /\ \A s \in Tasks \ {t} : \/ state'[s] = state[s]
                              \/ state[s] = "queued" /\ state'[s] \in {"running", "dropped"}

(* The queue is empty or no slot is free, or a pump is due. *)
Pumping == pumpDue \/ waitQueue = <<>> \/ active >= Concurrency

LEMMA EnqueueAdmits ==
    ASSUME TypeOK, QueueInv, NEW t \in Tasks, state[t] \in {"new", "chained"}, Enqueue(t)
    PROVE  Admitted(t) /\ (Pumping => pumpDue \/ waitQueue' = <<>> \/ active' >= Concurrency)
<1> USE DEF TypeOK
<1>0. QueueOf(waitQueue, state) /\ active = Cardinality(Running) /\ active <= Concurrency
      /\ Len(waitQueue) + active <= Depth
  BY DEF QueueInv, Bounded
<1>1. CASE Refused(t)
  <2>1. /\ state' = [state EXCEPT ![t] = "dropped"] /\ UNCHANGED <<waitQueue, active>>
        /\ state' \in [Tasks -> States]
    BY <1>1 DEF Refused, States
  <2>2. Running' = Running
    BY <2>1 DEF Running
  <2>3. QueueOf(waitQueue', state')
    <3>1. \A i \in 1..Len(waitQueue) : waitQueue[i] \in Tasks /\ waitQueue[i] # t
      BY <1>0 DEF QueueOf
    <3> QED BY <1>0, <2>1, <3>1 DEF QueueOf
  <2>4. QueueInv'
    BY <1>0, <2>1, <2>2, <2>3 DEF QueueInv, Bounded
  <2>5. Admitted(t)
    BY <2>1, <2>4 DEF Admitted
  <2> QED BY <2>1, <2>5 DEF Pumping
<1>2. CASE Enters(t)
  <2> DEFINE q == Inserted(waitQueue, t)
             st == [state EXCEPT ![t] = "queued"]
  <2>1. PICK i \in Nat : PutIn(q, waitQueue, i, t)
    <3> DEFINE i == IF Priority[t] = "low" THEN Len(waitQueue) + 1 ELSE FirstLow(waitQueue)
    <3>1. i \in Nat /\ PutIn(q, waitQueue, i, t)
      BY FirstLowIs, InsertedIs
    <3> QED BY <3>1
  <2>2. st \in [Tasks -> States]
    BY DEF States
  <2>3. QueueOf(q, st) /\ q \in Seq(Tasks) /\ Len(q) = Len(waitQueue) + 1
    <3> HIDE DEF q
    <3> QED BY <1>0, <2>1, <2>2, PutInQueue DEF PutIn
  <2>4. {s \in Tasks : st[s] = "running"} = Running
    BY DEF Running
  <2>5. Len(q) + active <= Depth /\ Pump(q, st)
    BY <1>2, <2>3, QueueAssumption DEF Enters
  <2>6. Pumped(st)
    <3> HIDE DEF q, st
    <3> QED BY <1>0, <2>2, <2>3, <2>4, <2>5, PumpIs
  <2>7. Admitted(t)
    BY <2>6 DEF Pumped, Admitted, QueueInv, Bounded
  <2> QED BY <2>6, <2>7 DEF Pumped
<1>3. CASE Evicts(t)
  <2> DEFINE low == FirstLow(waitQueue)
             evicted == waitQueue[low]
             mid == RemoveAt(waitQueue, low)
             st1 == [state EXCEPT ![evicted] = "dropped"]
             q == Inserted(mid, t)
             st == [st1 EXCEPT ![t] = "queued"]
  <2>1. low \in 1..Len(waitQueue) /\ Pump(q, [state EXCEPT ![evicted] = "dropped", ![t] = "queued"])
    BY <1>3, FirstLowIs DEF Evicts
  <2>2. evicted \in Tasks /\ state[evicted] = "queued" /\ evicted # t
    BY <1>0, <2>1 DEF QueueOf
  <2>3. /\ mid \in Seq(Tasks) /\ Len(mid) = Len(waitQueue) - 1 /\ QueueOf(mid, st1)
        /\ st1 \in [Tasks -> States]
    <3>1. st1 \in [Tasks -> States]
      BY DEF States
    <3> QED BY <1>0, <2>1, <3>1, RemoveAtIs, RemoveQueue
  <2> HIDE DEF mid
  <2>4. PICK i \in Nat : PutIn(q, mid, i, t)
    <3> DEFINE i == IF Priority[t] = "low" THEN Len(mid) + 1 ELSE FirstLow(mid)
    <3>1. i \in Nat /\ PutIn(q, mid, i, t)
      BY <2>3, FirstLowIs, InsertedIs
    <3> QED BY <3>1
  <2>5. st \in [Tasks -> States] /\ st1[t] # "queued"
    BY <2>2, <2>3 DEF States
  <2>6. QueueOf(q, st) /\ q \in Seq(Tasks) /\ Len(q) = Len(waitQueue)
    <3>2. st = [st1 EXCEPT ![t] = "queued"]
      OBVIOUS
    <3> HIDE DEF st1, q, st
    <3>1. QueueOf(q, st)
      BY <2>3, <2>4, <2>5, <3>2, PutInQueue
    <3>3. Len(q) = Len(mid) + 1 /\ q \in Seq(Tasks)
      BY <2>4 DEF PutIn
    <3> QED BY <2>3, <3>1, <3>3
  <2>7. {s \in Tasks : st[s] = "running"} = Running
    BY <2>2 DEF Running
  <2>8. Pump(q, st)
    BY <2>1
  <2>9. Pumped(st)
    <3> HIDE DEF q, st
    <3> QED BY <1>0, <2>5, <2>6, <2>7, <2>8, PumpIs
  <2>10. Admitted(t)
    BY <2>2, <2>9 DEF Pumped, Admitted, QueueInv, Bounded
  <2> QED BY <2>9, <2>10 DEF Pumped
<1> QED BY <1>1, <1>2, <1>3 DEF Enqueue

-----------------------------------------------------------------------------
(* Type correctness, the bounds and the deferred pump *)

LimitInv == TypeOK /\ QueueInv /\ Pumping

THEOREM LimitInit == Init => LimitInv
<1> SUFFICES ASSUME Init PROVE LimitInv
  OBVIOUS
<1> USE DEF Init
<1>1. TypeOK
  <2>1. state \in [Tasks -> States] /\ waitQueue \in Seq(Tasks) /\ active \in Nat
    BY DEF States
  <2>2. calls \in [Keys \cup {Nil} -> Nat] /\ ticket \in [Tasks -> Nat]
    OBVIOUS
  <2> QED BY <2>1, <2>2 DEF TypeOK
<1>2. Running = {} /\ Cardinality({}) = 0
  BY FS_EmptySet DEF Running
<1>3. QueueInv /\ Pumping
  BY <1>2, QueueAssumption DEF QueueInv, QueueOf, Bounded, Pumping
<1> QED BY <1>1, <1>3 DEF LimitInv

LEMMA PrunedType ==
    ASSUME NEW f \in [Keys -> Tasks \cup {Nil}], NEW g \in Pruned(f)
    PROVE  g \in [Keys -> Tasks \cup {Nil}]
BY DEF Pruned

LEMMA CalledType ==
    ASSUME TypeOK, NEW t \in Tasks, Called(t)
    PROVE  ticket' \in [Tasks -> Nat] /\ calls' \in [Keys \cup {Nil} -> Nat]
<1>1. KeyOf[t] \in Keys \cup {Nil}
  BY QueueAssumption
<1>2. calls' \in [Keys \cup {Nil} -> Nat]
  BY <1>1 DEF TypeOK, Called
<1>3. calls'[KeyOf[t]] \in Nat
  BY <1>1, <1>2
<1> QED BY <1>2, <1>3 DEF TypeOK, Called

LEMMA LimitCall ==
    ASSUME LimitInv, NEW t \in Tasks, Call(t)
    PROVE  LimitInv'
<1> USE DEF LimitInv
<1>1. /\ state' = [state EXCEPT ![t] = "chained"] /\ state[t] = "new"
      /\ UNCHANGED <<waitQueue, active, pumpDue>>
  BY DEF Call, Called
<1>2. KeyOf[t] \in Keys /\ [perKeyTail EXCEPT ![KeyOf[t]] = t] \in [Keys -> Tasks \cup {Nil}]
  BY QueueAssumption DEF Call, TypeOK
<1>3. TypeOK'
  <2>1. state' \in [Tasks -> States] /\ prev' \in [Tasks -> Tasks \cup {Nil}]
    BY <1>1, <1>2 DEF Call, TypeOK, States
  <2>2. ticket' \in [Tasks -> Nat] /\ calls' \in [Keys \cup {Nil} -> Nat]
    BY CalledType DEF Call
  <2>3. perKeyTail' \in [Keys -> Tasks \cup {Nil}]
    BY <1>2, PrunedType DEF Call
  <2> QED BY <1>1, <2>1, <2>2, <2>3 DEF TypeOK
<1>4. Running' = Running
  BY <1>1 DEF Running, TypeOK
<1>5. QueueOf(waitQueue', state')
  <2>1. \A i \in 1..Len(waitQueue) : waitQueue[i] \in Tasks /\ waitQueue[i] # t
    BY <1>1 DEF QueueInv, QueueOf, TypeOK
  <2> QED BY <1>1, <2>1 DEF QueueInv, QueueOf, TypeOK
<1>6. QueueInv' /\ Pumping'
  BY <1>1, <1>4, <1>5 DEF QueueInv, Bounded, Pumping
<1> QED BY <1>3, <1>6

LEMMA LimitEnqueue ==
    ASSUME LimitInv, NEW t \in Tasks, CallWithoutKey(t) \/ LinkSettles(t)
    PROVE  LimitInv' /\ Admitted(t)
<1> USE DEF LimitInv
<1>1. Enqueue(t) /\ state[t] \in {"new", "chained"} /\ UNCHANGED <<perKeyTail, prev, pumpDue>>
  BY DEF CallWithoutKey, Called, LinkSettles
<1>2. Admitted(t) /\ (pumpDue \/ waitQueue' = <<>> \/ active' >= Concurrency)
  BY <1>1, EnqueueAdmits
<1>3. ticket' \in [Tasks -> Nat] /\ calls' \in [Keys \cup {Nil} -> Nat]
  BY CalledType DEF CallWithoutKey, LinkSettles, TypeOK
<1>4. TypeOK' /\ Pumping'
  BY <1>1, <1>2, <1>3 DEF Admitted, TypeOK, Pumping
<1> QED BY <1>2, <1>4 DEF Admitted

LEMMA LimitFinish ==
    ASSUME LimitInv, NEW t \in Tasks, NEW outcome \in {"ok", "failed"}, Finish(t, outcome)
    PROVE  LimitInv'
<1> USE DEF LimitInv
<1>1. /\ state' = [state EXCEPT ![t] = outcome] /\ state[t] = "running"
      /\ active' = (IF active > 0 THEN active - 1 ELSE 0) /\ pumpDue'
      /\ UNCHANGED <<waitQueue, perKeyTail, prev, ticket, calls>>
  BY DEF Finish
<1>2. TypeOK'
  BY <1>1 DEF TypeOK, States
<1>3. Running' = Running \ {t} /\ t \in Running
  BY <1>1 DEF Running, TypeOK
<1>4. IsFiniteSet(Running) /\ active = Cardinality(Running)
  BY FS_Subset, QueueAssumption DEF Running, QueueInv, Bounded
<1>5. Cardinality(Running') = active - 1 /\ Cardinality(Running') \in Nat
  BY <1>3, <1>4, FS_RemoveElement, FS_CardinalityType
<1>6. active' = active - 1 /\ active' = Cardinality(Running')
  BY <1>1, <1>5 DEF TypeOK
<1>7. QueueOf(waitQueue', state')
  <2>1. \A i \in 1..Len(waitQueue) : waitQueue[i] \in Tasks /\ waitQueue[i] # t
    BY <1>1 DEF QueueInv, QueueOf, TypeOK
  <2> QED BY <1>1, <2>1 DEF QueueInv, QueueOf, TypeOK
<1>8. Bounded'
  <2>1. Len(waitQueue) \in Nat /\ active \in Nat
    BY DEF TypeOK
  <2> QED BY <1>1, <1>6, <2>1, QueueAssumption DEF QueueInv, Bounded
<1> QED BY <1>1, <1>2, <1>7, <1>8 DEF QueueInv, Pumping

LEMMA LimitPump ==
    ASSUME LimitInv, PumpRuns
    PROVE  LimitInv' /\ Pumped(state)
<1> USE DEF LimitInv
<1>1. Pumped(state)
  <2>1. Pump(waitQueue, state) /\ state \in [Tasks -> States] /\ waitQueue \in Seq(Tasks)
    BY DEF PumpRuns, TypeOK
  <2>2. QueueOf(waitQueue, state) /\ active = Cardinality({t \in Tasks : state[t] = "running"})
    BY DEF QueueInv, Bounded, Running
  <2> QED BY <2>1, <2>2, PumpIs DEF TypeOK, QueueInv, Bounded
<1>2. TypeOK'
  BY <1>1 DEF PumpRuns, Pumped, TypeOK
<1>3. QueueInv' /\ Pumping'
  BY <1>1 DEF Pumped, QueueInv, Bounded, Pumping
<1> QED BY <1>1, <1>2, <1>3

THEOREM LimitStep == LimitInv /\ [Next]_vars => LimitInv'
<1> SUFFICES ASSUME LimitInv, [Next]_vars PROVE LimitInv'
  OBVIOUS
<1>1. ASSUME NEW t \in Tasks, Call(t) \/ CallWithoutKey(t) PROVE LimitInv'
  BY <1>1, LimitCall, LimitEnqueue
<1>2. ASSUME NEW t \in Tasks, NEW outcome \in {"ok", "failed"}, Finish(t, outcome)
      PROVE  LimitInv'
  BY <1>2, LimitFinish
<1>3. CASE PumpRuns
  BY <1>3, LimitPump
<1>4. ASSUME NEW t \in Tasks, LinkSettles(t) PROVE LimitInv'
  BY <1>4, LimitEnqueue
<1>5. ASSUME NEW t \in Tasks, ReleaseTail(t) PROVE LimitInv'
  <2>1. TypeOK'
    BY <1>5 DEF ReleaseTail, LimitInv, TypeOK
  <2> QED BY <1>5, <2>1 DEF ReleaseTail, LimitInv, QueueInv, QueueOf, Bounded, Running, Pumping
<1>6. CASE UNCHANGED vars
  BY <1>6 DEF vars, LimitInv, TypeOK, QueueInv, QueueOf, Bounded, Running, Pumping
<1> QED BY <1>1, <1>2, <1>3, <1>4, <1>5, <1>6 DEF Next, Microtask

(* The state of the queue is well typed. *)
THEOREM QueueTypeCorrect == Spec => []TypeOK
<1>1. LimitInv => TypeOK
  BY DEF LimitInv
<1> QED BY <1>1, LimitInit, LimitStep, PTL DEF Spec

(* active counts the running writes exactly, at most Concurrency of them, and
   at most Depth writes are queued or running. *)
THEOREM QueueIsBounded == Spec => []Bounded
<1>1. LimitInv => Bounded
  BY DEF LimitInv, QueueInv
<1> QED BY <1>1, LimitInit, LimitStep, PTL DEF Spec

(* The deferred pump is never lost: after the microtasks no write waits while
   a slot is free. *)
THEOREM NoSlotIsIdle == Spec => []NoIdleSlot
<1>1. LimitInv => NoIdleSlot
  BY DEF LimitInv, Pumping, NoIdleSlot, Quiet
<1> QED BY <1>1, LimitInit, LimitStep, PTL DEF Spec

-----------------------------------------------------------------------------
(* The writes of a key follow each other. Of the calls of a key, a chained one
   stands behind all that have not settled, the tail is the last, and a key
   without a tail has none to wait for. The last needs that no live tail is
   ever pruned. *)

Numbered ==
    /\ \A t \in Tasks : (state[t] = "new" <=> ticket[t] = 0) /\ ticket[t] <= calls[KeyOf[t]]
    /\ \A s, t \in Tasks :
          KeyOf[s] = KeyOf[t] /\ ticket[s] = ticket[t] /\ ticket[s] > 0 => s = t

Earlier(s, t) == KeyOf[s] = KeyOf[t] /\ 0 < ticket[s] /\ ticket[s] < ticket[t]

Chained ==
    \A t \in Tasks : state[t] = "chained" =>
        /\ KeyOf[t] # Nil
        /\ prev[t] # Nil => Earlier(prev[t], t)
        /\ \A s \in Tasks : Earlier(s, t) =>
              Settled(s) \/ (prev[t] # Nil /\ ticket[s] <= ticket[prev[t]])

Tailed ==
    \A k \in Keys :
        IF perKeyTail[k] = Nil
        THEN \A s \in Tasks : KeyOf[s] = k /\ ticket[s] > 0 => Settled(s)
        ELSE KeyOf[perKeyTail[k]] = k /\ ticket[perKeyTail[k]] = calls[k] /\ calls[k] > 0

ChainInv == Numbered /\ Chained /\ Tailed /\ SameKeySerializes

(* Calls move on, none is made, and none leaves its chain too early. *)
Advance ==
    /\ UNCHANGED <<prev, ticket, calls>>
    /\ \A t \in Tasks :
          /\ Settled(t) \/ state[t] = "new" => state'[t] = state[t]
          /\ state'[t] = "new" => state[t] = "new"
          /\ state'[t] = "chained" => state[t] = "chained"
          /\ state[t] = "chained" /\ state'[t] # "chained" => ~Behind(t)

LEMMA ChainAdvances ==
    ASSUME TypeOK, ChainInv, Advance
    PROVE  Numbered' /\ Chained' /\ SameKeySerializes'
           /\ (UNCHANGED perKeyTail => Tailed')
<1>0. \A t \in Tasks : Settled(t) => Settled(t)'
  BY DEF Advance, Settled
<1>1. Numbered'
  BY DEF ChainInv, Numbered, Advance, TypeOK
<1>2. \A s, t \in Tasks : Earlier(s, t)' <=> Earlier(s, t)
  BY DEF Advance, Earlier
<1>3. Chained'
  <2> SUFFICES ASSUME NEW t \in Tasks, state'[t] = "chained"
               PROVE  (/\ KeyOf[t] # Nil
                       /\ prev[t] # Nil => Earlier(prev[t], t)
                       /\ \A s \in Tasks : Earlier(s, t) =>
                             Settled(s) \/ (prev[t] # Nil /\ ticket[s] <= ticket[prev[t]]))'
    BY DEF Chained
  <2>1. state[t] = "chained" /\ prev'[t] = prev[t] /\ (prev[t] # Nil => prev[t] \in Tasks)
    BY DEF Advance, TypeOK
  <2>2. /\ KeyOf[t] # Nil
        /\ prev[t] # Nil => Earlier(prev[t], t)
        /\ \A s \in Tasks : Earlier(s, t) =>
              Settled(s) \/ (prev[t] # Nil /\ ticket[s] <= ticket[prev[t]])
    BY <2>1 DEF ChainInv, Chained
  <2>3. Earlier(prev[t], t)' <=> Earlier(prev[t], t)
    BY DEF Advance, Earlier
  <2> QED BY <1>0, <1>2, <2>1, <2>2, <2>3 DEF Advance
<1>4. SameKeySerializes'
  <2> SUFFICES ASSUME NEW s \in Tasks, NEW t \in Tasks,
                      Earlier(s, t), KeyOf[s] # Nil, state'[t] # "chained"
               PROVE  Settled(s)
    BY <1>0, <1>2 DEF SameKeySerializes, Earlier
  <2>1. CASE state[t] # "chained"
    BY <2>1 DEF ChainInv, SameKeySerializes, Earlier
  <2>2. CASE state[t] = "chained"
    <3>1. ~Behind(t) /\ (prev[t] # Nil => prev[t] \in Tasks)
      BY <2>2 DEF Advance, TypeOK
    <3>2. CASE prev[t] = Nil
      BY <2>2, <3>2 DEF ChainInv, Chained
    <3>3. CASE prev[t] # Nil
      <4>1. Settled(prev[t]) /\ Earlier(prev[t], t)
        BY <2>2, <3>1, <3>3 DEF Behind, ChainInv, Chained
      <4>2. CASE Settled(s)
        BY <4>2
      <4>3. CASE ticket[s] = ticket[prev[t]]
        <5>1. s = prev[t]
          BY <3>1, <3>3, <4>1, <4>3 DEF Earlier, ChainInv, Numbered
        <5> QED BY <4>1, <5>1
      <4>4. CASE ticket[s] < ticket[prev[t]]
        <5>1. Earlier(s, prev[t]) /\ state[prev[t]] # "chained"
          BY <4>1, <4>4 DEF Earlier, Settled
        <5> QED BY <3>1, <3>3, <5>1 DEF Earlier, ChainInv, SameKeySerializes
      <4>5. ticket[s] \in Nat /\ ticket[prev[t]] \in Nat
        BY <3>1, <3>3 DEF TypeOK
      <4> QED BY <2>2, <4>2, <4>3, <4>4, <4>5 DEF ChainInv, Chained
    <3> QED BY <3>2, <3>3
  <2> QED BY <2>1, <2>2
<1>5. UNCHANGED perKeyTail => Tailed'
  BY <1>0 DEF ChainInv, Tailed, Advance
<1> QED BY <1>1, <1>3, <1>4, <1>5

(* When a call arrives, each live key has a write that is queued or running:
   the first of its calls that has not settled. *)
LEMMA LiveKeyIsBusy ==
    ASSUME TypeOK, ChainInv, Quiet, NEW k \in LiveKeys(perKeyTail)
    PROVE  \E t \in Tasks : KeyOf[t] = k /\ state[t] \in {"queued", "running"}
<1> DEFINE open == {t \in Tasks : KeyOf[t] = k /\ ticket[t] > 0 /\ ~Settled(t)}
           tickets == {ticket[t] : t \in open}
<1>1. perKeyTail[k] \in open
  <2>1. k \in Keys /\ perKeyTail[k] \in Tasks
    BY DEF LiveKeys, TypeOK
  <2>2. KeyOf[perKeyTail[k]] = k /\ ticket[perKeyTail[k]] > 0
    BY <2>1, QueueAssumption DEF ChainInv, Tailed
  <2> QED BY <2>1, <2>2 DEF Quiet
<1>2. PICK t \in open : \A s \in open : ticket[t] <= ticket[s]
  <2>1. tickets \in SUBSET Nat /\ tickets # {}
    BY <1>1 DEF TypeOK
  <2>2. PICK m \in tickets : \A x \in tickets : m <= x
    <3> HIDE DEF tickets
    <3> QED BY <2>1, LeastExists
  <2> QED BY <2>2
<1>3. state[t] # "new"
  BY <1>2 DEF ChainInv, Numbered
<1>4. ASSUME state[t] = "chained" PROVE FALSE
  <2>1. prev[t] \in Tasks /\ ~Settled(prev[t]) /\ Earlier(prev[t], t)
    BY <1>2, <1>4 DEF Quiet, Behind, ChainInv, Chained, TypeOK
  <2>2. prev[t] \in open /\ ticket[prev[t]] < ticket[t]
    BY <1>2, <2>1 DEF Earlier
  <2> QED BY <1>2, <2>1, <2>2 DEF TypeOK
<1> QED BY <1>2, <1>3, <1>4 DEF Settled, TypeOK, States

(* So there are never more live tails than the queue is deep. *)
LEMMA FewTails ==
    ASSUME LimitInv, ChainInv, Quiet
    PROVE  IsFiniteSet(LiveKeys(perKeyTail)) /\ Cardinality(LiveKeys(perKeyTail)) <= Depth
<1> DEFINE live == LiveKeys(perKeyTail)
           n == Len(waitQueue)
           queued == {waitQueue[i] : i \in 1..n}
           f == [k \in live |-> CHOOSE t \in Tasks :
                                    KeyOf[t] = k /\ state[t] \in {"queued", "running"}]
<1>0. TypeOK /\ QueueOf(waitQueue, state) /\ Bounded /\ n \in Nat /\ active \in Nat
  BY DEF LimitInv, TypeOK, QueueInv
<1>1. \A k \in live : f[k] \in Tasks /\ KeyOf[f[k]] = k /\ state[f[k]] \in {"queued", "running"}
  BY <1>0, LiveKeyIsBusy
<1>2. \A t \in Tasks : state[t] \in {"queued", "running"} => t \in queued \cup Running
  BY <1>0 DEF QueueOf, Running
<1>3. f \in Injection(live, queued \cup Running)
  <2>1. f \in [live -> queued \cup Running]
    <3> HIDE DEF queued
    <3> QED BY <1>1, <1>2
  <2>2. \A j, k \in live : f[j] = f[k] => j = k
    BY <1>1
  <2> HIDE DEF f
  <2> QED BY <2>1, <2>2 DEF Injection, IsInjective
<1>4. IsFiniteSet(queued) /\ Cardinality(queued) <= n
  <2> DEFINE g == [i \in 1..n |-> waitQueue[i]]
  <2>1. g \in Surjection(1..n, queued)
    BY DEF Surjection
  <2> HIDE DEF g, queued, n
  <2>2. IsFiniteSet(1..n) /\ Cardinality(1..n) = n
    BY <1>0, FS_Interval
  <2> QED BY <2>1, <2>2, FS_Surjection
<1>5. IsFiniteSet(Running) /\ Cardinality(Running) = active
  BY <1>0, FS_Subset, QueueAssumption DEF Running, Bounded
<1> HIDE DEF f, queued, n
<1>6. /\ IsFiniteSet(queued \cup Running)
      /\ Cardinality(queued \cup Running) <= n + active
  <2>1. /\ IsFiniteSet(queued \cup Running) /\ IsFiniteSet(queued \cap Running)
        /\ Cardinality(queued \cup Running) =
             Cardinality(queued) + Cardinality(Running) - Cardinality(queued \cap Running)
    BY <1>4, <1>5, FS_Union, FS_Intersection
  <2>2. Cardinality(queued \cap Running) \in Nat /\ Cardinality(queued) \in Nat
    BY <1>4, <2>1, FS_CardinalityType
  <2> QED BY <1>0, <1>4, <1>5, <2>1, <2>2
<1>7. IsFiniteSet(live) /\ Cardinality(live) <= Cardinality(queued \cup Running)
  BY <1>3, <1>6, FS_Injection
<1>8. n + active <= Depth
  BY <1>0 DEF Bounded, n
<1> HIDE DEF live
<1>9. Cardinality(live) \in Nat /\ Cardinality(queued \cup Running) \in Nat
  BY <1>6, <1>7, FS_CardinalityType
<1>10. Cardinality(live) <= Depth
  BY <1>0, <1>6, <1>7, <1>8, <1>9, QueueAssumption
<1> QED BY <1>7, <1>10 DEF live

(* And no live tail is pruned, as long as the limit on tails exceeds it. *)
LEMMA NoTailIsPruned ==
    ASSUME LimitInv, ChainInv, Quiet, Depth < MaxTails, NEW t \in Tasks, KeyOf[t] # Nil
    PROVE  Pruned([perKeyTail EXCEPT ![KeyOf[t]] = t]) = {[perKeyTail EXCEPT ![KeyOf[t]] = t]}
<1> DEFINE tails == [perKeyTail EXCEPT ![KeyOf[t]] = t]
           live == LiveKeys(perKeyTail)
<1>1. IsFiniteSet(live) /\ Cardinality(live) <= Depth /\ Cardinality(live) \in Nat
  BY FewTails, FS_CardinalityType
<1>2. LiveKeys(tails) \subseteq live \cup {KeyOf[t]}
  BY DEF LiveKeys, LimitInv, TypeOK
<1> HIDE DEF live, tails
<1>3. /\ IsFiniteSet(live \cup {KeyOf[t]})
      /\ Cardinality(live \cup {KeyOf[t]}) <= Cardinality(live) + 1
      /\ Cardinality(live \cup {KeyOf[t]}) \in Nat
  <2>1. /\ IsFiniteSet(live \cup {KeyOf[t]})
        /\ Cardinality(live \cup {KeyOf[t]}) =
             IF KeyOf[t] \in live THEN Cardinality(live) ELSE Cardinality(live) + 1
    BY <1>1, FS_AddElement
  <2> QED BY <1>1, <2>1
<1>4. /\ Cardinality(LiveKeys(tails)) <= Cardinality(live \cup {KeyOf[t]})
      /\ Cardinality(LiveKeys(tails)) \in Nat
  BY <1>2, <1>3, FS_Subset, FS_CardinalityType
<1>5. Cardinality(LiveKeys(tails)) <= MaxTails
  BY <1>1, <1>3, <1>4, QueueAssumption
<1> QED BY <1>5 DEF Pruned, tails

LEMMA ChainCall ==
    ASSUME LimitInv, ChainInv, Depth < MaxTails, NEW t \in Tasks, Call(t)
    PROVE  ChainInv'
<1> DEFINE k == KeyOf[t]
<1>0. TypeOK /\ Quiet /\ k \in Keys /\ state[t] = "new" /\ ticket[t] = 0
  BY QueueAssumption DEF LimitInv, Call, Called, ChainInv, Numbered
<1>1. /\ state' = [state EXCEPT ![t] = "chained"]
      /\ prev' = [prev EXCEPT ![t] = perKeyTail[k]]
      /\ calls' = [calls EXCEPT ![k] = @ + 1]
      /\ ticket' = [ticket EXCEPT ![t] = calls'[k]]
  BY DEF Call, Called
<1>2. perKeyTail' = [perKeyTail EXCEPT ![k] = t]
  BY <1>0, NoTailIsPruned DEF Call
<1> HIDE DEF k
<1>3. /\ calls'[k] = calls[k] + 1 /\ ticket'[t] = calls[k] + 1 /\ calls[k] \in Nat
      /\ \A j \in (Keys \cup {Nil}) \ {k} : calls'[j] = calls[j]
      /\ \A s \in Tasks \ {t} : ticket'[s] = ticket[s] /\ state'[s] = state[s] /\ prev'[s] = prev[s]
      /\ state'[t] = "chained" /\ prev'[t] = perKeyTail[k]
  BY <1>0, <1>1 DEF TypeOK
<1>4. /\ KeyOf[t] = k /\ \A s \in Tasks : KeyOf[s] \in Keys \cup {Nil}
      /\ \A s \in Tasks : ticket[s] \in Nat /\ ticket[s] <= calls[KeyOf[s]]
  BY <1>0, QueueAssumption DEF k, TypeOK, ChainInv, Numbered
<1>5. \A s \in Tasks \ {t} : Settled(s)' <=> Settled(s)
  BY <1>3 DEF Settled
<1>6. Numbered'
  <2>1. \A s \in Tasks : (state'[s] = "new" <=> ticket'[s] = 0)
    BY <1>3 DEF ChainInv, Numbered
  <2>2. ASSUME NEW s \in Tasks PROVE ticket'[s] <= calls'[KeyOf[s]]
    <3>1. KeyOf[s] \in Keys \cup {Nil} /\ ticket[s] \in Nat /\ ticket[s] <= calls[KeyOf[s]]
      BY <1>4
    <3>2. CASE s = t
      BY <1>3, <1>4, <3>2
    <3>3. CASE s # t /\ KeyOf[s] = k
      BY <1>3, <3>1, <3>3
    <3>4. CASE s # t /\ KeyOf[s] # k
      BY <1>3, <3>1, <3>4
    <3> QED BY <3>2, <3>3, <3>4
  <2>3. \A s \in Tasks \ {t} : KeyOf[s] = k => ticket'[s] < ticket'[t]
    BY <1>3, <1>4
  <2>4. \A r, s \in Tasks :
           KeyOf[r] = KeyOf[s] /\ ticket'[r] = ticket'[s] /\ ticket'[r] > 0 => r = s
    BY <1>3, <1>4, <2>3 DEF ChainInv, Numbered
  <2> QED BY <2>1, <2>2, <2>4 DEF Numbered
<1>7. \A r, s \in Tasks \ {t} : Earlier(r, s)' <=> Earlier(r, s)
  BY <1>3 DEF Earlier
<1>8. \A s \in Tasks : ~Earlier(t, s)'
  BY <1>3, <1>4 DEF Earlier
<1>9. Chained'
  <2> SUFFICES ASSUME NEW u \in Tasks, state'[u] = "chained"
               PROVE  (/\ KeyOf[u] # Nil
                       /\ prev[u] # Nil => Earlier(prev[u], u)
                       /\ \A s \in Tasks : Earlier(s, u) =>
                             Settled(s) \/ (prev[u] # Nil /\ ticket[s] <= ticket[prev[u]]))'
    BY DEF Chained
  <2>1. CASE u = t
    <3>1. KeyOf[t] # Nil
      BY DEF Call
    <3>2. CASE perKeyTail[k] = Nil
      <4>1. \A s \in Tasks \ {t} : KeyOf[s] = k /\ ticket[s] > 0 => Settled(s)
        BY <1>0, <3>2 DEF ChainInv, Tailed
      <4>2. \A s \in Tasks : Earlier(s, t)' => Settled(s)'
        BY <1>3, <1>4, <1>5, <1>8, <4>1 DEF Earlier
      <4> QED BY <1>3, <2>1, <3>1, <3>2, <4>2
    <3>3. CASE perKeyTail[k] # Nil
      <4>1. PICK p \in Tasks \ {t} : /\ p = perKeyTail[k] /\ KeyOf[p] = k
                                     /\ ticket[p] = calls[k] /\ calls[k] > 0
        BY <1>0, <3>3 DEF ChainInv, Tailed, TypeOK
      <4>2. Earlier(p, t)'
        BY <1>3, <1>4, <4>1 DEF Earlier
      <4>3. \A s \in Tasks : Earlier(s, t)' => ticket'[s] <= ticket'[p]
        BY <1>3, <1>4, <1>8, <4>1 DEF Earlier
      <4> QED BY <1>3, <2>1, <3>1, <3>3, <4>1, <4>2, <4>3 DEF Earlier
    <3> QED BY <3>2, <3>3
  <2>2. CASE u # t
    <3>1. state[u] = "chained" /\ prev'[u] = prev[u]
      BY <1>3, <2>2
    <3>2. /\ KeyOf[u] # Nil
          /\ prev[u] # Nil => prev[u] \in Tasks \ {t} /\ Earlier(prev[u], u)
          /\ \A s \in Tasks : Earlier(s, u) =>
                Settled(s) \/ (prev[u] # Nil /\ ticket[s] <= ticket[prev[u]])
      BY <1>0, <3>1 DEF ChainInv, Chained, TypeOK, Earlier
    <3>3. \A s \in Tasks \ {t} : Earlier(s, u)' =>
             Settled(s)' \/ (prev[u] # Nil /\ ticket'[s] <= ticket'[prev[u]])
      BY <1>3, <1>5, <1>7, <2>2, <3>2
    <3>4. CASE prev[u] = Nil
      BY <1>8, <3>1, <3>2, <3>3, <3>4
    <3>5. CASE prev[u] # Nil
      <4>1. PICK p \in Tasks \ {t} : p = prev[u] /\ Earlier(p, u)
        BY <3>2, <3>5
      <4>2. Earlier(p, u)'
        BY <1>7, <2>2, <4>1
      <4> QED BY <1>8, <3>1, <3>2, <3>3, <4>1, <4>2 DEF Earlier
    <3> QED BY <3>4, <3>5
  <2> QED BY <2>1, <2>2
<1>10. Tailed'
  <2> SUFFICES ASSUME NEW j \in Keys
               PROVE  (IF perKeyTail[j] = Nil
                       THEN \A s \in Tasks : KeyOf[s] = j /\ ticket[s] > 0 => Settled(s)
                       ELSE KeyOf[perKeyTail[j]] = j /\ ticket[perKeyTail[j]] = calls[j]
                            /\ calls[j] > 0)'
    BY DEF Tailed
  <2>1. CASE j = k
    <3>1. perKeyTail'[j] = t /\ t # Nil
      BY <1>0, <1>2, <2>1, QueueAssumption DEF TypeOK
    <3> QED BY <1>3, <1>4, <2>1, <3>1
  <2>2. CASE j # k
    <3>1. perKeyTail'[j] = perKeyTail[j] /\ calls'[j] = calls[j]
      BY <1>0, <1>2, <1>3, <2>2 DEF TypeOK
    <3>2. CASE perKeyTail[j] = Nil
      BY <1>3, <1>4, <1>5, <2>2, <3>1, <3>2 DEF ChainInv, Tailed
    <3>3. CASE perKeyTail[j] # Nil
      <4>1. perKeyTail[j] \in Tasks \ {t} /\ KeyOf[perKeyTail[j]] = j
            /\ ticket[perKeyTail[j]] = calls[j] /\ calls[j] > 0
        BY <1>0, <1>4, <2>2, <3>3 DEF ChainInv, Tailed, TypeOK
      <4> QED BY <1>3, <3>1, <3>3, <4>1
    <3> QED BY <3>2, <3>3
  <2> QED BY <2>1, <2>2
<1>11. SameKeySerializes'
  <2> SUFFICES ASSUME NEW s \in Tasks, NEW u \in Tasks, Earlier(s, u)', KeyOf[s] # Nil,
                      state'[u] # "chained"
               PROVE  Settled(s)'
    BY DEF SameKeySerializes, Earlier
  <2>1. u # t /\ s # t
    BY <1>3, <1>8
  <2> QED BY <1>3, <1>5, <1>7, <2>1 DEF ChainInv, SameKeySerializes, Earlier
<1> QED BY <1>6, <1>9, <1>10, <1>11 DEF ChainInv

LEMMA ChainCallWithoutKey ==
    ASSUME LimitInv, ChainInv, NEW t \in Tasks, CallWithoutKey(t)
    PROVE  ChainInv'
<1>0. TypeOK /\ state[t] = "new" /\ ticket[t] = 0 /\ KeyOf[t] = Nil
  BY DEF LimitInv, CallWithoutKey, Called, ChainInv, Numbered
<1>1. /\ UNCHANGED <<prev, perKeyTail>>
      /\ calls' = [calls EXCEPT ![Nil] = @ + 1]
      /\ ticket' = [ticket EXCEPT ![t] = calls'[Nil]]
  BY <1>0 DEF CallWithoutKey, Called
<1>2. /\ ticket'[t] = calls[Nil] + 1 /\ calls'[Nil] = calls[Nil] + 1 /\ calls[Nil] \in Nat
      /\ \A s \in Tasks \ {t} : ticket'[s] = ticket[s]
      /\ \A k \in Keys : calls'[k] = calls[k]
  BY <1>0, <1>1, QueueAssumption DEF TypeOK
<1>3. /\ state'[t] \in {"queued", "running", "dropped"}
      /\ \A s \in Tasks \ {t} : \/ state'[s] = state[s]
                                \/ state[s] = "queued" /\ state'[s] \in {"running", "dropped"}
  BY LimitEnqueue DEF Admitted
<1>4. \A s \in Tasks : /\ KeyOf[s] \in Keys \cup {Nil} /\ ticket[s] \in Nat
                       /\ ticket[s] <= calls[KeyOf[s]]
  BY <1>0, QueueAssumption DEF TypeOK, ChainInv, Numbered
<1>5. \A s \in Tasks : Settled(s) => Settled(s)'
  BY <1>0, <1>3 DEF Settled
<1>6. Numbered'
  <2>1. \A s \in Tasks : state'[s] = "new" <=> ticket'[s] = 0
    BY <1>0, <1>2, <1>3 DEF ChainInv, Numbered
  <2>2. \A s \in Tasks : ticket'[s] <= calls'[KeyOf[s]]
    BY <1>0, <1>2, <1>4
  <2>3. \A s \in Tasks \ {t} : KeyOf[s] = Nil => ticket'[s] < ticket'[t]
    BY <1>2, <1>4
  <2>4. \A r, s \in Tasks :
           KeyOf[r] = KeyOf[s] /\ ticket'[r] = ticket'[s] /\ ticket'[r] > 0 => r = s
    BY <1>0, <1>2, <1>4, <2>3 DEF ChainInv, Numbered
  <2> QED BY <2>1, <2>2, <2>4 DEF Numbered
<1>7. \A r, s \in Tasks : KeyOf[s] # Nil => (Earlier(r, s)' <=> Earlier(r, s))
  BY <1>0, <1>2 DEF Earlier
<1>8. Chained'
  <2> SUFFICES ASSUME NEW u \in Tasks, state'[u] = "chained"
               PROVE  (/\ KeyOf[u] # Nil
                       /\ prev[u] # Nil => Earlier(prev[u], u)
                       /\ \A s \in Tasks : Earlier(s, u) =>
                             Settled(s) \/ (prev[u] # Nil /\ ticket[s] <= ticket[prev[u]]))'
    BY DEF Chained
  <2>1. u # t /\ state[u] = "chained" /\ prev'[u] = prev[u]
    BY <1>1, <1>3
  <2>2. /\ KeyOf[u] # Nil
        /\ prev[u] # Nil => prev[u] \in Tasks /\ Earlier(prev[u], u)
        /\ \A s \in Tasks : Earlier(s, u) =>
              Settled(s) \/ (prev[u] # Nil /\ ticket[s] <= ticket[prev[u]])
    BY <1>0, <2>1 DEF ChainInv, Chained, TypeOK
  <2>3. \A p \in Tasks : p = prev[u] => Earlier(p, u)' /\ p # t
    BY <1>0, <1>7, <2>2, QueueAssumption DEF Earlier
  <2>4. \A s \in Tasks : Earlier(s, u)' => s # t /\ Earlier(s, u)
    BY <1>0, <1>7, <2>2 DEF Earlier
  <2>6. \A s \in Tasks : Earlier(s, u)' =>
           Settled(s)' \/ (prev[u] # Nil /\ ticket'[s] <= ticket'[prev[u]])
    BY <1>2, <1>5, <2>2, <2>3, <2>4
  <2> QED BY <2>1, <2>2, <2>3, <2>6 DEF Earlier
<1>9. Tailed'
  <2> SUFFICES ASSUME NEW k \in Keys
               PROVE  (IF perKeyTail[k] = Nil
                       THEN \A s \in Tasks : KeyOf[s] = k /\ ticket[s] > 0 => Settled(s)
                       ELSE KeyOf[perKeyTail[k]] = k /\ ticket[perKeyTail[k]] = calls[k]
                            /\ calls[k] > 0)'
    BY DEF Tailed
  <2>1. k # Nil
    BY QueueAssumption
  <2>2. CASE perKeyTail[k] = Nil
    BY <1>0, <1>1, <1>2, <1>5, <2>1, <2>2 DEF ChainInv, Tailed
  <2>3. CASE perKeyTail[k] # Nil
    <3>1. perKeyTail[k] \in Tasks \ {t} /\ KeyOf[perKeyTail[k]] = k
          /\ ticket[perKeyTail[k]] = calls[k] /\ calls[k] > 0
      BY <1>0, <2>1, <2>3 DEF ChainInv, Tailed, TypeOK
    <3> QED BY <1>1, <1>2, <2>3, <3>1
  <2> QED BY <2>2, <2>3
<1>10. SameKeySerializes'
  <2> SUFFICES ASSUME NEW s \in Tasks, NEW u \in Tasks, Earlier(s, u)', KeyOf[s] # Nil,
                      state'[u] # "chained"
               PROVE  Settled(s)'
    BY DEF SameKeySerializes, Earlier
  <2>1. Earlier(s, u) /\ u # t /\ KeyOf[u] # Nil
    BY <1>0, <1>7 DEF Earlier
  <2>2. state[u] # "chained"
    BY <1>3, <2>1
  <2> QED BY <1>5, <2>1, <2>2 DEF ChainInv, SameKeySerializes, Earlier
<1> QED BY <1>6, <1>8, <1>9, <1>10 DEF ChainInv

LEMMA ChainReleaseTail ==
    ASSUME TypeOK, ChainInv, NEW t \in Tasks, ReleaseTail(t)
    PROVE  ChainInv'
<1> DEFINE k == KeyOf[t]
<1>1. /\ k \in Keys /\ Settled(t) /\ perKeyTail[k] = t /\ t # Nil
      /\ perKeyTail' = [perKeyTail EXCEPT ![k] = Nil]
      /\ UNCHANGED <<state, prev, ticket, calls>>
  BY QueueAssumption DEF ReleaseTail
<1>2. ticket[t] = calls[k] /\ state[t] # "chained"
  BY <1>1 DEF ChainInv, Tailed, Settled
<1>3. ASSUME NEW s \in Tasks, KeyOf[s] = k, ticket[s] > 0 PROVE Settled(s)
  <2>1. ticket[s] <= ticket[t] /\ ticket[s] \in Nat /\ ticket[t] \in Nat
    BY <1>2, <1>3 DEF ChainInv, Numbered, TypeOK
  <2>2. CASE ticket[s] = ticket[t]
    BY <1>1, <1>3, <2>2 DEF ChainInv, Numbered
  <2>3. CASE ticket[s] < ticket[t]
    <3>1. KeyOf[s] = KeyOf[t] /\ KeyOf[s] # Nil /\ 0 < ticket[s]
      BY <1>1, <1>3, <2>1, QueueAssumption
    <3> QED BY <1>2, <2>3, <3>1 DEF ChainInv, SameKeySerializes
  <2> QED BY <2>1, <2>2, <2>3
<1> HIDE DEF k
<1>4. Tailed'
  <2>1. \A j \in Keys : perKeyTail'[j] = IF j = k THEN Nil ELSE perKeyTail[j]
    BY <1>1 DEF TypeOK
  <2>2. \A s \in Tasks : Settled(s)' <=> Settled(s)
    BY <1>1 DEF Settled
  <2> QED BY <1>1, <1>3, <2>1, <2>2 DEF ChainInv, Tailed
<1>5. Advance
  BY <1>1 DEF Advance
<1> QED BY <1>4, <1>5, ChainAdvances DEF ChainInv

THEOREM ChainStep ==
    ASSUME Depth < MaxTails
    PROVE  LimitInv /\ ChainInv /\ [Next]_vars => ChainInv'
<1> SUFFICES ASSUME LimitInv, ChainInv, [Next]_vars PROVE ChainInv'
  OBVIOUS
<1>0. TypeOK
  BY DEF LimitInv
<1>1. ASSUME NEW t \in Tasks, Call(t) \/ CallWithoutKey(t) PROVE ChainInv'
  BY <1>1, ChainCall, ChainCallWithoutKey
<1>2. ASSUME Advance, UNCHANGED perKeyTail PROVE ChainInv'
  BY <1>0, <1>2, ChainAdvances DEF ChainInv
<1>3. ASSUME NEW t \in Tasks, NEW outcome \in {"ok", "failed"}, Finish(t, outcome)
      PROVE  ChainInv'
  <2>1. Advance /\ UNCHANGED perKeyTail
    BY <1>0, <1>3 DEF Finish, Advance, Settled, TypeOK
  <2> QED BY <1>2, <2>1
<1>4. CASE PumpRuns
  <2>1. Pumped(state)
    BY <1>4, LimitPump
  <2>2. Advance /\ UNCHANGED perKeyTail
    BY <1>4, <2>1 DEF PumpRuns, Pumped, Advance, Settled
  <2> QED BY <1>2, <2>2
<1>5. ASSUME NEW t \in Tasks, LinkSettles(t) PROVE ChainInv'
  <2>1. Admitted(t)
    BY <1>5, LimitEnqueue
  <2>2. Advance /\ UNCHANGED perKeyTail
    BY <1>5, <2>1 DEF LinkSettles, Admitted, Advance, Settled
  <2> QED BY <1>2, <2>2
<1>6. ASSUME NEW t \in Tasks, ReleaseTail(t) PROVE ChainInv'
  BY <1>0, <1>6, ChainReleaseTail
<1>7. CASE UNCHANGED vars
  <2>1. Advance /\ UNCHANGED perKeyTail
    BY <1>7 DEF vars, Advance
  <2> QED BY <1>2, <2>1
<1> QED BY <1>1, <1>3, <1>4, <1>5, <1>6, <1>7 DEF Next, Microtask

(* The writes of a key never overlap and enter the queue in the order of their
   calls, whatever fails, is dropped or evicted, as long as more tails may be
   kept than writes be queued (512 against 256). *)
THEOREM WritesOfAKeySerialize ==
    ASSUME Depth < MaxTails
    PROVE  Spec => []SameKeySerializes
<1>1. Init => ChainInv
  <2> SUFFICES ASSUME Init PROVE ChainInv
    OBVIOUS
  <2>1. /\ \A t \in Tasks : state[t] = "new" /\ ticket[t] = 0 /\ KeyOf[t] \in Keys \cup {Nil}
        /\ \A k \in Keys \cup {Nil} : calls[k] = 0
        /\ \A k \in Keys : perKeyTail[k] = Nil
    BY QueueAssumption DEF Init
  <2> QED BY <2>1 DEF ChainInv, Numbered, Chained, Tailed, SameKeySerializes
<1>2. ChainInv => SameKeySerializes
  BY DEF ChainInv
<1> QED BY <1>1, <1>2, LimitInit, LimitStep, ChainStep, PTL DEF Spec

-----------------------------------------------------------------------------
(* The registry syncs. *)

FlushRec == [pc : {"idle", "query", "wait"}, replace : BOOLEAN,
             keys : SUBSET RegKeys, at : 0 .. LastTab]
Message == [replace : BOOLEAN, keys : SUBSET RegKeys]
PageRec == [keys : SUBSET (RegKeys \cup OwnKeys), told : SUBSET (RegKeys \cup OwnKeys), intents : SUBSET OwnKeys,
            trust : {"never", "fresh", "stale"}, doubted : BOOLEAN]

LEMMA TrimmedType ==
    ASSUME NEW keys, NEW kept \in Trimmed(keys) PROVE kept \subseteq keys
BY DEF Trimmed

LEMMA PayloadType == registry \in Seq(RegKeys) => Payload \in SUBSET RegKeys
BY DEF Payload

LEMMA SyncTypes ==
    SyncTypeOK <=>
        /\ registry \in Seq(RegKeys) /\ timer \in BOOLEAN /\ rebuilding \in BOOLEAN
        /\ flush \in [Flushes -> FlushRec] /\ replies \in [Tabs -> Seq(Flushes)]
        /\ inbox \in [Watched -> Seq(Message)]
        /\ media \subseteq Tabs /\ missed \subseteq Tabs
        /\ page \in [Watched -> PageRec]
BY DEF SyncTypeOK, FlushRec, Message, PageRec

LEMMA IdleFlushType ==
    /\ Idle \in FlushRec /\ Idle.pc = "idle" /\ Idle.at = 0
    /\ \A replace \in BOOLEAN :
          LET r == [Idle EXCEPT !.pc = "query", !.replace = replace]
          IN  r \in FlushRec /\ r.pc = "query" /\ r.at = 0
<1>1. 0 \in 0 .. LastTab
  BY SyncAssumption
<1>2. {} \in SUBSET RegKeys
  OBVIOUS
<1> QED BY <1>1, <1>2 DEF Idle, FlushRec

-----------------------------------------------------------------------------
(* One step of a run: from the start, or from the tab whose reply has come. *)
Runs(f, from) ==
    \/ flush[f].pc = "query" /\ from = 1
    \/ /\ flush[f].pc = "wait" /\ from = flush[f].at + 1
       /\ replies[flush[f].at] # <<>> /\ f = Head(replies[flush[f].at])

SentTo(f, keys, t) ==
    [flush[f] EXCEPT !.pc = "wait", !.keys = keys, !.at = t]

(* What is left of the queue of a tab when f has its reply. *)
Queue(f, u) == IF u = flush[f].at THEN Tail(replies[u]) ELSE replies[u]

LEMMA QueueFacts ==
    ASSUME SyncTypeOK, WaitsOnce, NEW f \in Flushes, NEW from, Runs(f, from), NEW u \in Tabs
    PROVE  /\ Queue(f, u) \in Seq(Flushes)
           /\ f \notin ToSet(Queue(f, u))
           /\ \A g \in Flushes \ {f} : g \in ToSet(replies[u]) => g \in ToSet(Queue(f, u))
           /\ \A i \in DOMAIN Queue(f, u) :
                 /\ flush[Queue(f, u)[i]].pc = "wait" /\ flush[Queue(f, u)[i]].at = u
                 /\ \A j \in DOMAIN Queue(f, u) : Queue(f, u)[i] = Queue(f, u)[j] => i = j
           /\ \A i, j \in DOMAIN replies[u] :
                 i < j /\ replies[u][i] # f /\ replies[u][j] # f =>
                     \E a, b \in DOMAIN Queue(f, u) :
                         a < b /\ Queue(f, u)[a] = replies[u][i] /\ Queue(f, u)[b] = replies[u][j]
<1> DEFINE q == replies[u]
<1>0. q \in Seq(Flushes) /\ flush[f] \in FlushRec
  BY SyncTypes
<1>1. /\ \A i \in DOMAIN q : flush[q[i]].pc = "wait" /\ flush[q[i]].at = u
      /\ \A i, j \in DOMAIN q : q[i] = q[j] => i = j
  BY DEF WaitsOnce
<1>2. CASE flush[f].at = u
  <2>1. q # <<>> /\ q[1] = f
    <3>1. flush[f].pc # "query"
      BY <1>2 DEF WaitsOnce, Tabs
    <3> QED BY <1>0, <1>2, <3>1 DEF Runs
  <2>2. Queue(f, u) = Tail(q)
    BY <1>2 DEF Queue
  <2>3. /\ Tail(q) \in Seq(Flushes) /\ Len(Tail(q)) = Len(q) - 1
        /\ \A i \in 1 .. Len(q) - 1 : Tail(q)[i] = q[i + 1]
    BY <1>0, <2>1
  <2>4. DOMAIN Tail(q) = 1 .. Len(q) - 1 /\ DOMAIN q = 1 .. Len(q) /\ Len(q) \in Nat
    BY <1>0, <2>3
  <2>5. f \notin ToSet(Tail(q))
    <3> SUFFICES ASSUME NEW i \in DOMAIN Tail(q), Tail(q)[i] = f PROVE FALSE
      BY DEF ToSet
    <3>1. i + 1 \in DOMAIN q /\ i + 1 # 1 /\ 1 \in DOMAIN q /\ q[i + 1] = f
      BY <2>3, <2>4
    <3> QED BY <1>1, <2>1, <3>1
  <2>6. \A g \in Flushes \ {f} : g \in ToSet(q) => g \in ToSet(Tail(q))
    <3> SUFFICES ASSUME NEW g \in Flushes \ {f}, NEW i \in DOMAIN q, q[i] = g
                 PROVE  g \in ToSet(Tail(q))
      BY DEF ToSet
    <3>1. i # 1 /\ i - 1 \in DOMAIN Tail(q)
      BY <2>1, <2>4
    <3>2. Tail(q)[i - 1] = q[(i - 1) + 1] /\ (i - 1) + 1 = i
      BY <2>3, <2>4, <3>1
    <3>3. g = Tail(q)[i - 1]
      BY <3>2
    <3> QED BY <3>1, <3>3 DEF ToSet
  <2>7. \A i \in DOMAIN Tail(q) :
           /\ flush[Tail(q)[i]].pc = "wait" /\ flush[Tail(q)[i]].at = u
           /\ \A j \in DOMAIN Tail(q) : Tail(q)[i] = Tail(q)[j] => i = j
    <3>1. \A i \in DOMAIN Tail(q) : i + 1 \in DOMAIN q /\ Tail(q)[i] = q[i + 1]
      BY <2>3, <2>4
    <3>2. \A i, j \in DOMAIN Tail(q) : i + 1 = j + 1 => i = j
      BY <2>4
    <3> QED BY <1>1, <3>1, <3>2
  <2>8. \A i, j \in DOMAIN q : i < j /\ q[i] # f /\ q[j] # f =>
            \E a, b \in DOMAIN Tail(q) : a < b /\ Tail(q)[a] = q[i] /\ Tail(q)[b] = q[j]
    <3> SUFFICES ASSUME NEW i \in DOMAIN q, NEW j \in DOMAIN q, i < j, q[i] # f
                 PROVE  \E a, b \in DOMAIN Tail(q) : a < b /\ Tail(q)[a] = q[i] /\ Tail(q)[b] = q[j]
      OBVIOUS
    <3>1. i - 1 \in DOMAIN Tail(q) /\ j - 1 \in DOMAIN Tail(q) /\ i - 1 < j - 1
      BY <2>1, <2>4
    <3>2. Tail(q)[i - 1] = q[i] /\ Tail(q)[j - 1] = q[j]
      BY <2>3, <2>4, <3>1
    <3> QED BY <3>1, <3>2
  <2> QED BY <2>2, <2>3, <2>5, <2>6, <2>7, <2>8
<1>3. CASE flush[f].at # u
  <2>1. Queue(f, u) = q
    BY <1>3 DEF Queue
  <2>2. f \notin ToSet(q)
    BY <1>1, <1>3 DEF ToSet
  <2> QED BY <1>0, <1>1, <2>1, <2>2
<1> QED BY <1>2, <1>3

LEMMA RecordOfSentTo ==
    ASSUME NEW f, flush[f] \in FlushRec, NEW keys \in SUBSET RegKeys, NEW t \in Tabs
    PROVE  /\ SentTo(f, keys, t) \in FlushRec /\ SentTo(f, keys, t).pc = "wait"
           /\ SentTo(f, keys, t).keys = keys /\ SentTo(f, keys, t).at = t
<1>1. t \in 0 .. LastTab
  BY SyncAssumption DEF Tabs
<1> QED BY <1>1 DEF FlushRec, SentTo

-----------------------------------------------------------------------------
(* A step of a run that ends with the tab t, or with none. *)
SendsTo(f, keys, from, before, t) ==
    LET over == from .. t - 1
        overtaken == {g \in Flushes : flush[g].pc = "wait" /\ flush[g].at \in over}
    IN  /\ missed' = before \cup over \cup UNION {flush[g].at .. LastTab : g \in overtaken}
        /\ inbox' = [p \in Watched |->
               IF p = t THEN Append(inbox[p], [replace |-> flush[f].replace, keys |-> keys])
                        ELSE inbox[p]]
        /\ flush' = [flush EXCEPT ![f] = IF t \in Tabs THEN SentTo(f, keys, t) ELSE Idle]
        /\ replies' = [u \in Tabs |->
               IF u = t THEN Append(Queue(f, u), f) ELSE Queue(f, u)]

LEMMA SendsOnSends ==
    ASSUME NEW f \in Flushes, NEW keys, NEW from, NEW before, SyncTypeOK,
           SendsOn(f, keys, from, before)
    PROVE  \E t \in from .. LastTab + 1 : SendsTo(f, keys, from, before, t)
<1>1. flush = [g \in Flushes |-> flush[g]]
  BY DEF SyncTypeOK
<1>2. PICK t \in from .. LastTab + 1 :
        LET over == from .. t - 1
            overtaken == {g \in Flushes : flush[g].pc = "wait" /\ flush[g].at \in over}
        IN  /\ missed' = before \cup over \cup UNION {flush[g].at .. LastTab : g \in overtaken}
            /\ inbox' = [p \in Watched |->
                   IF p = t THEN Append(inbox[p], [replace |-> flush[f].replace, keys |-> keys])
                            ELSE inbox[p]]
            /\ flush' = [flush EXCEPT ![f] =
                   IF t \in Tabs THEN [@ EXCEPT !.pc = "wait", !.keys = keys, !.at = t] ELSE Idle]
            /\ replies' = [u \in Tabs |->
                   LET left == IF u = flush[f].at THEN Tail(replies[u]) ELSE replies[u]
                   IN  IF u = t THEN Append(left, f) ELSE left]
  BY DEF SendsOn
<1>3. SendsTo(f, keys, from, before, t)
  BY <1>1, <1>2 DEF SendsTo, SentTo, Queue
<1> QED BY <1>3

(* What the step does to the runs, in terms of one. *)
LEMMA SendsToRuns ==
    ASSUME SyncTypeOK, NEW f \in Flushes, NEW keys \in SUBSET RegKeys,
           NEW from, NEW before, NEW t, SendsTo(f, keys, from, before, t)
    PROVE  /\ flush' \in [Flushes -> FlushRec]
           /\ \A g \in Flushes \ {f} : flush'[g] = flush[g]
           /\ t \in Tabs => flush'[f].pc = "wait" /\ flush'[f].keys = keys /\ flush'[f].at = t
           /\ t \notin Tabs => flush'[f].pc = "idle" /\ flush'[f].at = 0
<1>1. flush \in [Flushes -> FlushRec]
  BY SyncTypes
<1>2. flush' = [flush EXCEPT ![f] = IF t \in Tabs THEN SentTo(f, keys, t) ELSE Idle]
  BY DEF SendsTo
<1>3. t \in Tabs => /\ SentTo(f, keys, t) \in FlushRec /\ SentTo(f, keys, t).pc = "wait"
                    /\ SentTo(f, keys, t).keys = keys /\ SentTo(f, keys, t).at = t
  <2>1. flush[f] \in FlushRec
    BY <1>1
  <2> QED BY <2>1, RecordOfSentTo
<1>4. Idle \in FlushRec /\ Idle.pc = "idle" /\ Idle.at = 0
  BY IdleFlushType
<1> HIDE DEF FlushRec, Idle, SentTo
<1> QED BY <1>1, <1>2, <1>3, <1>4

LEMMA SendsToTypes ==
    ASSUME SyncTypeOK, WaitsOnce, NEW f \in Flushes, NEW from \in 1 .. LastTab + 1,
           Runs(f, from),
           NEW keys \in SUBSET RegKeys, NEW before \in SUBSET Tabs,
           NEW t \in from .. LastTab + 1, SendsTo(f, keys, from, before, t),
           UNCHANGED <<registry, timer, rebuilding, media, page>>
    PROVE  SyncTypeOK'
<1>1. flush' \in [Flushes -> FlushRec]
  BY SendsToRuns
<1>2. replies' \in [Tabs -> Seq(Flushes)]
  <2>1. \A u \in Tabs : Queue(f, u) \in Seq(Flushes)
    BY QueueFacts
  <2>2. \A u \in Tabs : Append(Queue(f, u), f) \in Seq(Flushes)
    BY <2>1
  <2> QED BY <2>1, <2>2 DEF SendsTo
<1>3. inbox' \in [Watched -> Seq(Message)]
  <2>1. inbox \in [Watched -> Seq(Message)] /\ flush[f] \in FlushRec
    BY SyncTypes
  <2>2. [replace |-> flush[f].replace, keys |-> keys] \in Message
    <3>1. flush[f].replace \in BOOLEAN
      BY <2>1 DEF FlushRec
    <3> QED BY <3>1 DEF Message
  <2>3. \A p \in Watched : Append(inbox[p], [replace |-> flush[f].replace, keys |-> keys]) \in Seq(Message)
    BY <2>1, <2>2
  <2> QED BY <2>1, <2>3 DEF SendsTo
<1>4. missed' \subseteq Tabs
  <2>1. from .. t - 1 \subseteq Tabs
    BY SyncAssumption DEF Tabs
  <2>2. \A g \in Flushes : flush[g].pc = "wait" => flush[g].at .. LastTab \subseteq Tabs
    <3> SUFFICES ASSUME NEW g \in Flushes, flush[g].pc = "wait"
                 PROVE  flush[g].at .. LastTab \subseteq Tabs
      OBVIOUS
    <3>1. flush[g].at \in Tabs
      BY DEF WaitsOnce
    <3> QED BY <3>1, SyncAssumption DEF Tabs
  <2> QED BY <2>1, <2>2 DEF SendsTo
<1>5. /\ registry \in Seq(RegKeys) /\ timer \in BOOLEAN /\ rebuilding \in BOOLEAN
      /\ media \subseteq Tabs /\ page \in [Watched -> PageRec]
  BY SyncTypes
<1>6. /\ registry' \in Seq(RegKeys) /\ timer' \in BOOLEAN /\ rebuilding' \in BOOLEAN
      /\ media' \subseteq Tabs /\ page' \in [Watched -> PageRec]
  BY <1>5
<1> QED BY <1>1, <1>2, <1>3, <1>4, <1>6 DEF SyncTypeOK, FlushRec, Message, PageRec

(* The queues of replies after the step: f has left one and joined the end of another. *)
QueuesAfter(f, t, u) ==
    /\ \A i \in DOMAIN replies'[u] :
          /\ replies'[u][i] = f => u = t /\ i = Len(replies'[u])
          /\ replies'[u][i] # f => flush[replies'[u][i]].pc = "wait" /\ flush[replies'[u][i]].at = u
          /\ replies'[u][i] \in Flushes
          /\ \A j \in DOMAIN replies'[u] : replies'[u][i] = replies'[u][j] => i = j
    /\ \A g \in Flushes \ {f} : g \in ToSet(replies[u]) => g \in ToSet(replies'[u])
    /\ u = t => f \in ToSet(replies'[u])
    /\ \A i, j \in DOMAIN replies[u] :
          i < j /\ replies[u][i] # f /\ replies[u][j] # f =>
              \E a, b \in DOMAIN replies'[u] :
                  a < b /\ replies'[u][a] = replies[u][i] /\ replies'[u][b] = replies[u][j]
    /\ u = t => \A g \in Flushes \ {f} : g \in ToSet(replies[u]) =>
          \E a, b \in DOMAIN replies'[u] :
              a < b /\ replies'[u][a] = g /\ replies'[u][b] = f

LEMMA SendsToQueues ==
    ASSUME SyncTypeOK, WaitsOnce, NEW f \in Flushes, NEW from, Runs(f, from),
           NEW keys \in SUBSET RegKeys, NEW before, NEW t,
           SendsTo(f, keys, from, before, t), NEW u \in Tabs
    PROVE  QueuesAfter(f, t, u)
<1> DEFINE q == Queue(f, u)
<1>1. /\ q \in Seq(Flushes)
      /\ f \notin ToSet(q)
      /\ \A g \in Flushes \ {f} : g \in ToSet(replies[u]) => g \in ToSet(q)
      /\ \A i \in DOMAIN q : /\ flush[q[i]].pc = "wait" /\ flush[q[i]].at = u
                             /\ \A j \in DOMAIN q : q[i] = q[j] => i = j
      /\ \A i, j \in DOMAIN replies[u] :
            i < j /\ replies[u][i] # f /\ replies[u][j] # f =>
                \E a, b \in DOMAIN q : a < b /\ q[a] = replies[u][i] /\ q[b] = replies[u][j]
  BY QueueFacts
<1>2. replies'[u] = IF u = t THEN Append(q, f) ELSE q
  BY DEF SendsTo
<1> HIDE DEF q
<1>3. DOMAIN q = 1 .. Len(q) /\ Len(q) \in Nat
  BY <1>1
<1>4. \A i \in DOMAIN q : q[i] # f /\ q[i] \in Flushes
  BY <1>1 DEF ToSet
<1>5. CASE u # t
  <2>1. replies'[u] = q
    BY <1>2, <1>5
  <2> QED BY <1>1, <1>4, <1>5, <2>1 DEF QueuesAfter
<1>6. CASE u = t
  <2> DEFINE r == Append(q, f)
  <2>1. replies'[u] = r
    BY <1>2, <1>6
  <2>2. /\ r \in Seq(Flushes) /\ Len(r) = Len(q) + 1 /\ DOMAIN r = 1 .. Len(q) + 1
        /\ \A i \in 1 .. Len(q) : r[i] = q[i]
        /\ r[Len(q) + 1] = f
    BY <1>1
  <2> HIDE DEF r
  <2>3. \A i \in DOMAIN r : i \in DOMAIN q \/ i = Len(q) + 1
    BY <1>3, <2>2
  <2>4. DOMAIN q \subseteq DOMAIN r /\ Len(q) + 1 \in DOMAIN r /\ (\A i \in DOMAIN q : i < Len(q) + 1)
    BY <1>3, <2>2
  <2>5. \A i \in DOMAIN q : r[i] = q[i]
    BY <1>3, <2>2
  <2>6. \A i \in DOMAIN r : r[i] = f => i = Len(r)
    BY <1>4, <2>2, <2>3, <2>5
  <2>7. \A i \in DOMAIN r : r[i] # f => flush[r[i]].pc = "wait" /\ flush[r[i]].at = u
    BY <1>1, <2>2, <2>3, <2>5
  <2>8. \A i, j \in DOMAIN r : r[i] = r[j] => i = j
    BY <1>1, <1>4, <2>2, <2>3, <2>5
  <2>9. \A i \in DOMAIN r : r[i] \in Flushes
    BY <1>4, <2>2, <2>3, <2>5
  <2>10. \A g \in Flushes \ {f} : g \in ToSet(replies[u]) =>
            \E a \in DOMAIN q : q[a] = g
    BY <1>1 DEF ToSet
  <2>11. \A g \in Flushes \ {f} : g \in ToSet(replies[u]) => g \in ToSet(r)
    BY <2>10, <2>4, <2>5 DEF ToSet
  <2>12. f \in ToSet(r)
    BY <2>2, <2>4 DEF ToSet
  <2>13. \A i, j \in DOMAIN replies[u] :
            i < j /\ replies[u][i] # f /\ replies[u][j] # f =>
                \E a, b \in DOMAIN r : a < b /\ r[a] = replies[u][i] /\ r[b] = replies[u][j]
    BY <1>1, <2>4, <2>5
  <2>14. \A g \in Flushes \ {f} : g \in ToSet(replies[u]) =>
            \E a, b \in DOMAIN r : a < b /\ r[a] = g /\ r[b] = f
    BY <2>10, <2>4, <2>5, <2>2
  <2> QED BY <1>6, <2>1, <2>6, <2>7, <2>8, <2>9, <2>11, <2>12, <2>13, <2>14 DEF QueuesAfter
<1> QED BY <1>5, <1>6

LEMMA SendsToWaits ==
    ASSUME SyncTypeOK, WaitsOnce, NEW f \in Flushes, NEW from, Runs(f, from),
           NEW keys \in SUBSET RegKeys, NEW before, NEW t,
           SendsTo(f, keys, from, before, t)
    PROVE  WaitsOnce'
<1>1. /\ flush' \in [Flushes -> FlushRec]
      /\ \A g \in Flushes \ {f} : flush'[g] = flush[g]
      /\ t \in Tabs => flush'[f].pc = "wait" /\ flush'[f].keys = keys /\ flush'[f].at = t
      /\ t \notin Tabs => flush'[f].pc = "idle" /\ flush'[f].at = 0
  BY SendsToRuns
<1>2. ASSUME NEW g \in Flushes
      PROVE  IF flush'[g].pc = "wait"
             THEN flush'[g].at \in Tabs /\ g \in ToSet(replies'[flush'[g].at])
             ELSE flush'[g].at = 0
  <2>1. CASE g = f
    <3>1. t \in Tabs => f \in ToSet(replies'[t])
      <4>1. t \in Tabs => QueuesAfter(f, t, t)
        BY SendsToQueues
      <4> QED BY <4>1 DEF QueuesAfter
    <3> QED BY <1>1, <2>1, <3>1
  <2>2. CASE g # f
    <3>1. flush'[g] = flush[g]
      BY <1>1, <2>2
    <3>2. IF flush[g].pc = "wait"
           THEN flush[g].at \in Tabs /\ g \in ToSet(replies[flush[g].at])
           ELSE flush[g].at = 0
      BY DEF WaitsOnce
    <3>3. flush[g].pc = "wait" => g \in ToSet(replies'[flush[g].at])
      <4> SUFFICES ASSUME flush[g].pc = "wait" PROVE g \in ToSet(replies'[flush[g].at])
        OBVIOUS
      <4>1. QueuesAfter(f, t, flush[g].at)
        BY <3>2, SendsToQueues
      <4> QED BY <2>2, <3>2, <4>1 DEF QueuesAfter
    <3> QED BY <3>1, <3>2, <3>3
  <2> QED BY <2>1, <2>2
<1>3. ASSUME NEW u \in Tabs, NEW i \in DOMAIN replies'[u]
      PROVE  /\ flush'[replies'[u][i]].pc = "wait" /\ flush'[replies'[u][i]].at = u
             /\ \A j \in DOMAIN replies'[u] : replies'[u][i] = replies'[u][j] => i = j
  <2>1. /\ replies'[u][i] = f => u = t
        /\ replies'[u][i] # f => flush[replies'[u][i]].pc = "wait" /\ flush[replies'[u][i]].at = u
        /\ replies'[u][i] \in Flushes
        /\ \A j \in DOMAIN replies'[u] : replies'[u][i] = replies'[u][j] => i = j
    <3>1. QueuesAfter(f, t, u)
      BY SendsToQueues
    <3> QED BY <3>1 DEF QueuesAfter
  <2> QED BY <1>1, <2>1
<1> QED BY <1>2, <1>3 DEF WaitsOnce

(* Two other runs reach the tabs in the order they did. *)
LEMMA OrderIsKept ==
    ASSUME SyncTypeOK, WaitsOnce, NEW f \in Flushes, NEW from, Runs(f, from),
           NEW keys \in SUBSET RegKeys, NEW before, NEW t,
           SendsTo(f, keys, from, before, t),
           NEW g \in Flushes \ {f}, NEW h \in Flushes \ {f},
           flush[g].pc = "wait", Before(g, h)
    PROVE  Before(g, h)'
<1>1. flush'[g] = flush[g] /\ flush'[h] = flush[h]
  BY SendsToRuns
<1>2. CASE flush[g].at > flush[h].at
  BY <1>1, <1>2 DEF Before
<1>3. CASE ~(flush[g].at > flush[h].at)
  <2>1. PICK i \in DOMAIN replies[flush[g].at], j \in DOMAIN replies[flush[g].at] :
          /\ flush[g].at = flush[h].at
          /\ i < j /\ replies[flush[g].at][i] = g /\ replies[flush[g].at][j] = h
    BY <1>3 DEF Before
  <2>2. flush[g].at \in Tabs
    BY DEF WaitsOnce
  <2>3. \E a, b \in DOMAIN replies'[flush[g].at] :
          a < b /\ replies'[flush[g].at][a] = g /\ replies'[flush[g].at][b] = h
    <3>1. QueuesAfter(f, t, flush[g].at)
      BY <2>2, SendsToQueues
    <3> QED BY <2>1, <3>1 DEF QueuesAfter
  <2> QED BY <1>1, <2>1, <2>3 DEF Before
<1> QED BY <1>2, <1>3

(* A tab that has missed nothing lies before the step or at its end or beyond; in
   the second case no other run waits for a tab that the step passed over. *)
LEMMA NobodyOvertaken ==
    ASSUME SyncTypeOK, WaitsOnce, NEW f \in Flushes, NEW keys,
           NEW from \in 1 .. LastTab + 1, NEW before, NEW t \in from .. LastTab + 1,
           SendsTo(f, keys, from, before, t), NEW u \in Tabs \ missed'
    PROVE  /\ u \notin before
           /\ u < from \/ u >= t
           /\ u >= t => \A g \in Flushes \ {f} :
                 flush[g].pc = "wait" => flush[g].at < from \/ flush[g].at >= t
<1>1. missed' = before \cup (from .. t - 1)
        \cup UNION {flush[g].at .. LastTab :
                       g \in {g \in Flushes : flush[g].pc = "wait" /\ flush[g].at \in from .. t - 1}}
  BY DEF SendsTo
<1>2. u \in Nat /\ u <= LastTab /\ LastTab \in Nat /\ from \in Nat /\ t \in Nat
  BY SyncAssumption DEF Tabs
<1>3. u \notin before /\ u \notin from .. t - 1
  BY <1>1
<1>4. u < from \/ u >= t
  BY <1>2, <1>3
<1>5. ASSUME u >= t, NEW g \in Flushes, flush[g].pc = "wait"
      PROVE  flush[g].at < from \/ flush[g].at >= t
  <2>1. flush[g].at \in Nat
    BY <1>5, SyncAssumption DEF WaitsOnce, Tabs
  <2>2. SUFFICES ASSUME flush[g].at \in from .. t - 1
                 PROVE  FALSE
    BY <1>2, <2>1
  <2>3. u \in flush[g].at .. LastTab
    BY <1>2, <1>5, <2>1, <2>2
  <2>4. g \in {h \in Flushes : flush[h].pc = "wait" /\ flush[h].at \in from .. t - 1}
    BY <1>5, <2>2
  <2> QED BY <1>1, <2>3, <2>4
<1> QED BY <1>3, <1>4, <1>5

(* Beyond its end, the step comes last of the runs that wait there or further on,
   and is before those that have not come so far. *)
LEMMA SenderIsLast ==
    ASSUME SyncTypeOK, WaitsOnce, NEW f \in Flushes, NEW from, Runs(f, from),
           NEW keys \in SUBSET RegKeys, NEW before, NEW t \in Tabs,
           SendsTo(f, keys, from, before, t),
           NEW g \in Flushes \ {f}, flush[g].pc = "wait"
    PROVE  /\ flush[g].at >= t => Before(g, f)'
           /\ flush[g].at < t => Before(f, g)'
<1>1. flush'[g] = flush[g] /\ flush'[f].at = t
  BY SendsToRuns
<1>2. flush[g].at \in Tabs /\ g \in ToSet(replies[flush[g].at])
  BY DEF WaitsOnce
<1>3. flush[g].at = t => Before(g, f)'
  <2> SUFFICES ASSUME flush[g].at = t
               PROVE  Before(g, f)'
    OBVIOUS
  <2>1. \E a, b \in DOMAIN replies'[t] : a < b /\ replies'[t][a] = g /\ replies'[t][b] = f
    <3>1. QueuesAfter(f, t, t)
      BY SendsToQueues
    <3> QED BY <1>2, <3>1 DEF QueuesAfter
  <2> QED BY <1>1, <2>1 DEF Before
<1>4. flush[g].at \in Int /\ t \in Int
  BY <1>2 DEF Tabs
<1> QED BY <1>1, <1>3, <1>4 DEF Before
-----------------------------------------------------------------------------
(* The inbox of a page when the payload of now has just been sent to it. *)
LEMMA SentNow ==
    ASSUME SyncTypeOK, NEW u \in Watched, NEW replace \in BOOLEAN,
           Payload \subseteq RegKeys, Payload' = Payload,
           inbox'[u] = Append(inbox[u], [replace |-> replace, keys |-> Payload])
    PROVE  \A k \in Payload' : WillKnow(u, k)'
<1> DEFINE m == [replace |-> replace, keys |-> Payload]
           n == Len(inbox[u]) + 1
<1>1. inbox[u] \in Seq(Message)
  BY SyncTypes
<1>2. m \in Message /\ m.keys = Payload
  BY DEF Message
<1>3. inbox'[u] = Append(inbox[u], m)
  OBVIOUS
<1> HIDE DEF m
<1>4. Len(inbox'[u]) = n /\ inbox'[u][n] = m /\ n \in Nat \ {0}
  BY <1>1, <1>2, <1>3
<1> QED
  <2> SUFFICES ASSUME NEW k \in Payload PROVE WillKnow(u, k)'
    OBVIOUS
  <2>1. n \in 0 .. Len(inbox'[u]) /\ n # 0 /\ n + 1 .. Len(inbox'[u]) = {}
    BY <1>4
  <2>2. k \in inbox'[u][n].keys
    BY <1>2, <1>4
  <2> HIDE DEF n
  <2> QED BY <2>1, <2>2 DEF WillKnow

(* What the page of a tab that is sent nothing will hold does not change. *)
LEMMA HeldAsBefore ==
    ASSUME NEW u, NEW k, inbox'[u] = inbox[u], page'[u].told = page[u].told, WillKnow(u, k)
    PROVE  WillKnow(u, k)'
BY DEF WillKnow

LEMMA QueryInforms ==
    ASSUME SyncTypeOK, WaitsOnce, NEW f \in Flushes, flush[f].pc = "query",
           NEW t \in 1 .. LastTab + 1, SendsTo(f, Payload, 1, {}, t),
           UNCHANGED <<registry, timer, rebuilding, media, page>>,
           NEW u \in Tabs \ missed'
    PROVE  Informed(u)'
<1>1. Payload \in SUBSET RegKeys /\ Payload' = Payload
  BY PayloadType DEF SyncTypeOK, Payload
<1>2. Runs(f, 1) /\ 1 \in 1 .. LastTab + 1
  BY SyncAssumption DEF Runs
<1>3. /\ \A g \in Flushes \ {f} : flush'[g] = flush[g]
      /\ t \in Tabs => flush'[f].pc = "wait" /\ flush'[f].keys = Payload /\ flush'[f].at = t
      /\ t \notin Tabs => flush'[f].pc = "idle"
  BY <1>1, SendsToRuns
<1>4. /\ u \in Nat /\ u >= 1 /\ u <= LastTab /\ LastTab \in Nat /\ t \in Nat /\ t >= 1
      /\ \A g \in Flushes : flush[g].pc = "wait" => flush[g].at \in Nat /\ flush[g].at >= 1
  BY SyncAssumption DEF Tabs, WaitsOnce
<1>5. /\ u < 1 \/ u >= t
      /\ u >= t => \A g \in Flushes \ {f} : flush[g].pc = "wait" => flush[g].at < 1 \/ flush[g].at >= t
  BY <1>2, NobodyOvertaken
<1>6. u >= t /\ t \in Tabs /\ \A g \in Flushes \ {f} : flush[g].pc = "wait" => flush[g].at >= t
  BY <1>4, <1>5 DEF Tabs
<1>7. CASE u > t
  <2>1. f \in Coming(u)'
    BY <1>3, <1>6, <1>7 DEF Coming
  <2>2. ASSUME NEW g \in Coming(u)' \ {f} PROVE Before(g, f)'
    <3>1. g \in Flushes \ {f} /\ flush[g].pc = "wait"
      BY <1>3, <2>2 DEF Coming
    <3>2. flush[g].at >= t
      BY <1>6, <3>1
    <3> QED BY <1>1, <1>2, <1>6, <3>1, <3>2, SenderIsLast
  <2> QED BY <1>1, <1>3, <1>6, <2>1, <2>2 DEF Informed
<1>8. CASE u = t
  <2>1. Coming(u)' = {}
    <3> SUFFICES ASSUME NEW g \in Coming(u)' PROVE FALSE
      OBVIOUS
    <3>1. g \in Flushes /\ flush'[g].pc = "wait" /\ flush'[g].at < t
      BY <1>8 DEF Coming
    <3>2. g # f
      BY <1>3, <1>4, <1>6, <3>1
    <3> QED BY <1>3, <1>4, <1>6, <3>1, <3>2
  <2>2. ASSUME u \in Watched PROVE \A k \in Payload' : WillKnow(u, k)'
    <3>1. inbox'[u] = Append(inbox[u], [replace |-> flush[f].replace, keys |-> Payload])
      BY <1>8, <2>2 DEF SendsTo
    <3>2. flush[f].replace \in BOOLEAN
      BY SyncTypes DEF FlushRec
    <3> QED BY <1>1, <2>2, <3>1, <3>2, SentNow
  <2> QED BY <2>1, <2>2 DEF Informed
<1> QED BY <1>4, <1>6, <1>7, <1>8

LEMMA ReplyInforms ==
    ASSUME SyncTypeOK, WaitsOnce, NEW t0 \in Tabs, replies[t0] # <<>>,
           NEW f, f = Head(replies[t0]), NEW t \in t0 + 1 .. LastTab + 1,
           SendsTo(f, flush[f].keys, t0 + 1, missed, t),
           UNCHANGED <<registry, timer, rebuilding, media, page>>,
           NEW u \in Tabs \ missed', u \notin missed => Informed(u)
    PROVE  Informed(u)'
<1>0. replies[t0] \in Seq(Flushes)
  BY DEF SyncTypeOK
<1>1. f \in Flushes /\ f = replies[t0][1] /\ 1 \in DOMAIN replies[t0]
  BY <1>0
<1>2. /\ flush[f].pc = "wait" /\ flush[f].at = t0
      /\ \A i \in DOMAIN replies[t0] : replies[t0][i] = f => i = 1
  BY <1>1 DEF WaitsOnce
<1>3. Runs(f, t0 + 1) /\ t0 + 1 \in 1 .. LastTab + 1
  BY <1>2, SyncAssumption DEF Runs, Tabs
<1>4. flush[f].keys \in SUBSET RegKeys
  BY <1>1, SyncTypes DEF FlushRec
<1>5. /\ \A g \in Flushes \ {f} : flush'[g] = flush[g]
      /\ t \in Tabs => flush'[f].pc = "wait" /\ flush'[f].keys = flush[f].keys /\ flush'[f].at = t
      /\ t \notin Tabs => flush'[f].pc = "idle"
  <2>1. f \in Flushes
    BY <1>1
  <2>2. PICK keys \in SUBSET RegKeys : keys = flush[f].keys
    BY <1>4
  <2>3. SendsTo(f, keys, t0 + 1, missed, t)
    BY <2>2
  <2>4. /\ \A g \in Flushes \ {f} : flush'[g] = flush[g]
        /\ t \in Tabs => flush'[f].pc = "wait" /\ flush'[f].keys = keys /\ flush'[f].at = t
        /\ t \notin Tabs => flush'[f].pc = "idle"
    BY <2>1, <2>3, SendsToRuns
  <2> QED BY <2>2, <2>4
<1>6. /\ u \notin missed
      /\ u < t0 + 1 \/ u >= t
      /\ u >= t => \A g \in Flushes \ {f} :
             flush[g].pc = "wait" => flush[g].at < t0 + 1 \/ flush[g].at >= t
  BY <1>1, <1>3, NobodyOvertaken
<1>7. /\ u \in Nat /\ u <= LastTab /\ LastTab \in Nat /\ t \in Nat /\ t0 \in Nat /\ t > t0
      /\ \A g \in Flushes : flush[g].pc = "wait" => flush[g].at \in Nat
  BY SyncAssumption DEF Tabs, WaitsOnce
<1>8. Payload' = Payload
  BY DEF Payload
<1>9. Informed(u)
  BY <1>6
<1>10. ASSUME NEW g \in Flushes \ {f}, NEW h \in Flushes \ {f}, flush[g].pc = "wait", Before(g, h)
       PROVE  Before(g, h)'
  BY <1>1, <1>3, <1>4, <1>10, OrderIsKept
<1>11. CASE u < t0 + 1
  <2>1. f \notin Coming(u) /\ f \notin Coming(u)'
    BY <1>2, <1>5, <1>7, <1>11 DEF Coming
  <2>2. Coming(u)' = Coming(u)
    BY <1>5, <2>1 DEF Coming
  <2>3. CASE Coming(u) # {}
    <3>1. PICK h \in Coming(u) : flush[h].keys = Payload /\ \A g \in Coming(u) \ {h} : Before(g, h)
      BY <1>9, <2>3 DEF Informed
    <3>2. \A g \in Coming(u) : g \in Flushes \ {f} /\ flush[g].pc = "wait"
      BY <2>1 DEF Coming
    <3>3. flush'[h].keys = Payload' /\ \A g \in Coming(u)' \ {h} : Before(g, h)'
      BY <1>5, <1>8, <1>10, <2>2, <3>1, <3>2
    <3> QED BY <2>2, <3>1, <3>3 DEF Informed
  <2>4. CASE Coming(u) = {}
    <3>1. ASSUME u \in Watched PROVE inbox'[u] = inbox[u] /\ page' = page
      BY <1>7, <1>11, <3>1 DEF SendsTo
    <3> QED BY <1>8, <1>9, <2>2, <2>4, <3>1, HeldAsBefore DEF Informed
  <2> QED BY <2>3, <2>4
<1>12. CASE u >= t
  <2>0. t \in Tabs
    BY <1>7, <1>12 DEF Tabs
  <2>1. f \in Coming(u)
    BY <1>1, <1>2, <1>7, <1>12 DEF Coming
  <2>2. PICK h \in Coming(u) : flush[h].keys = Payload /\ \A g \in Coming(u) \ {h} : Before(g, h)
    BY <1>9, <2>1 DEF Informed
  <2>3. CASE h = f
    <3>1. ASSUME NEW g \in Coming(u) \ {f} PROVE flush[g].at >= t
      <4>1. g \in Flushes \ {f} /\ flush[g].pc = "wait"
        BY <3>1 DEF Coming
      <4>2. flush[g].at > t0
        <5>1. CASE flush[g].at > flush[f].at
          BY <1>2, <5>1
        <5>2. CASE ~(flush[g].at > flush[f].at)
          <6>1. PICK i \in DOMAIN replies[t0], j \in DOMAIN replies[t0] :
                  i < j /\ replies[t0][i] = g /\ replies[t0][j] = f
            <7>1. Before(g, f)
              BY <2>2, <2>3, <3>1
            <7> QED BY <1>2, <5>2, <7>1 DEF Before
          <6>2. j = 1 /\ i \in Nat /\ i >= 1
            BY <1>0, <1>2, <6>1
          <6> QED BY <6>1, <6>2
        <5> QED BY <5>1, <5>2
      <4> QED BY <1>6, <1>7, <1>12, <4>1, <4>2
    <3>2. ASSUME NEW g \in Coming(u)' \ {f} PROVE g \in Coming(u) \ {f} /\ flush[g].at >= t
      <4>1. g \in Coming(u) \ {f}
        BY <1>5, <3>2 DEF Coming
      <4> QED BY <3>1, <4>1
    <3>3. CASE u > t
      <4>1. f \in Coming(u)'
        BY <1>1, <1>5, <2>0, <3>3 DEF Coming
      <4>2. ASSUME NEW g \in Coming(u)' \ {f} PROVE Before(g, f)'
        <5>1. g \in Flushes \ {f} /\ flush[g].pc = "wait" /\ flush[g].at >= t
          BY <3>2, <4>2 DEF Coming
        <5> QED BY <1>1, <1>3, <1>4, <2>0, <5>1, SenderIsLast
      <4>3. flush'[f].keys = Payload'
        BY <1>5, <1>8, <2>0, <2>2, <2>3
      <4> QED BY <4>1, <4>2, <4>3 DEF Informed
    <3>4. CASE u = t
      <4>1. Coming(u)' = {}
        <5> SUFFICES ASSUME NEW g \in Coming(u)' PROVE FALSE
          OBVIOUS
        <5>1. g \in Flushes /\ flush'[g].pc = "wait" /\ flush'[g].at < t
          BY <3>4 DEF Coming
        <5>2. g # f
          BY <1>5, <1>7, <2>0, <5>1
        <5>3. flush'[g] = flush[g] /\ flush[g].at >= t
          BY <1>5, <3>2, <5>1, <5>2
        <5> QED BY <1>7, <5>1, <5>3
      <4>2. ASSUME u \in Watched PROVE \A k \in Payload' : WillKnow(u, k)'
        <5>1. inbox'[u] = Append(inbox[u], [replace |-> flush[f].replace, keys |-> Payload])
          BY <2>2, <2>3, <3>4, <4>2 DEF SendsTo
        <5>2. flush[f].replace \in BOOLEAN
          BY <1>1, SyncTypes DEF FlushRec
        <5>3. Payload \subseteq RegKeys
          BY <1>4, <2>2, <2>3
        <5> QED BY <1>8, <4>2, <5>1, <5>2, <5>3, SentNow
      <4> QED BY <4>1, <4>2 DEF Informed
    <3> QED BY <1>7, <1>12, <3>3, <3>4
  <2>4. CASE h # f
    <3>1. h \in Flushes \ {f} /\ flush[h].pc = "wait" /\ flush'[h] = flush[h]
      BY <1>5, <2>4 DEF Coming
    <3>2. h \in Coming(u)' /\ flush'[h].keys = Payload'
      BY <1>8, <2>2, <3>1 DEF Coming
    <3>3. flush[h].at < t
      <4>1. Before(f, h)
        BY <2>1, <2>2, <2>4
      <4>2. flush[h].at <= t0
        BY <1>2, <1>7, <3>1, <4>1 DEF Before
      <4> QED BY <1>7, <3>1, <4>2
    <3>4. ASSUME NEW g \in Coming(u)' \ {h} PROVE Before(g, h)'
      <4>1. CASE g = f
        BY <1>1, <1>3, <1>4, <2>0, <3>1, <3>3, <4>1, SenderIsLast
      <4>2. CASE g # f
        <5>1. g \in Flushes \ {f} /\ flush[g].pc = "wait" /\ g \in Coming(u) \ {h}
          BY <1>5, <3>4, <4>2 DEF Coming
        <5> QED BY <1>10, <2>2, <3>1, <5>1
      <4> QED BY <4>1, <4>2
    <3> QED BY <3>2, <3>4 DEF Informed
  <2> QED BY <2>3, <2>4
<1> QED BY <1>6, <1>11, <1>12
-----------------------------------------------------------------------------
(* The other steps. *)
LEMMA SyncInitInv ==
    ASSUME SyncInit
    PROVE  SyncInv
<1>1. Idle \in FlushRec /\ Idle.pc = "idle" /\ Idle.at = 0
  BY IdleFlushType
<1>2. NewPage \in PageRec
  BY DEF NewPage, PageRec
<1>3. SyncTypeOK
  <2> HIDE DEF Idle, NewPage, FlushRec, PageRec, Message
  <2>1. flush \in [Flushes -> FlushRec] /\ page \in [Watched -> PageRec]
    BY <1>1, <1>2 DEF SyncInit
  <2>2. replies \in [Tabs -> Seq(Flushes)] /\ inbox \in [Watched -> Seq(Message)]
    <3>1. <<>> \in Seq(Flushes) /\ <<>> \in Seq(Message)
      OBVIOUS
    <3> QED BY <3>1 DEF SyncInit
  <2>3. registry \in Seq(RegKeys) /\ timer \in BOOLEAN /\ rebuilding \in BOOLEAN
        /\ media \subseteq Tabs /\ missed \subseteq Tabs
    <3>1. <<>> \in Seq(RegKeys) /\ {} \subseteq Tabs
      OBVIOUS
    <3> QED BY <3>1 DEF SyncInit
  <2> QED BY <2>1, <2>2, <2>3, SyncTypes
<1>4. WaitsOnce
  <2> HIDE DEF Idle
  <2> QED BY <1>1 DEF SyncInit, WaitsOnce
<1>5. ~Flushed
  BY DEF SyncInit, Flushed
<1> QED BY <1>3, <1>4, <1>5 DEF SyncInv

(* A run that starts, and one that ends before it has sent anything. *)
LEMMA RunStarts ==
    ASSUME SyncTypeOK, WaitsOnce, NEW replace \in BOOLEAN, FlushStarts(replace),
           UNCHANGED replies
    PROVE  flush' \in [Flushes -> FlushRec] /\ WaitsOnce' /\ ~Flushed'
<1> DEFINE r == [Idle EXCEPT !.pc = "query", !.replace = replace]
<1>1. r \in FlushRec /\ r.pc = "query" /\ r.at = 0
  BY IdleFlushType
<1>2. PICK f \in Flushes : flush[f].pc = "idle" /\ flush' = [flush EXCEPT ![f] = r]
  BY DEF FlushStarts
<1>3. flush \in [Flushes -> FlushRec]
  BY SyncTypes
<1> HIDE DEF r, FlushRec
<1>4. flush'[f] = r /\ (\A g \in Flushes \ {f} : flush'[g] = flush[g]) /\ flush' \in [Flushes -> FlushRec]
  BY <1>1, <1>2, <1>3
<1>5. \A t \in Tabs : \A i \in DOMAIN replies[t] : replies[t][i] \in Flushes \ {f}
  BY <1>2 DEF WaitsOnce, SyncTypeOK
<1>6. WaitsOnce'
  BY <1>1, <1>4, <1>5 DEF WaitsOnce
<1>7. ~Flushed'
  BY <1>1, <1>4 DEF Flushed
<1> QED BY <1>4, <1>6, <1>7

LEMMA QueryFailsInv ==
    ASSUME SyncInv, NEW f \in Flushes, QueryFails(f)
    PROVE  SyncInv'
<1>1. Idle \in FlushRec /\ Idle.pc = "idle" /\ Idle.at = 0
  BY IdleFlushType
<1>2. flush \in [Flushes -> FlushRec] /\ SyncTypeOK /\ WaitsOnce
  BY SyncTypes DEF SyncInv
<1> HIDE DEF Idle, FlushRec
<1>3. /\ flush'[f] = Idle /\ (\A g \in Flushes \ {f} : flush'[g] = flush[g])
      /\ flush' \in [Flushes -> FlushRec]
  BY <1>1, <1>2 DEF QueryFails
<1>4. \A t \in Tabs : \A i \in DOMAIN replies[t] : replies[t][i] \in Flushes \ {f}
  BY <1>2 DEF WaitsOnce, SyncTypeOK, QueryFails
<1>5. WaitsOnce'
  BY <1>1, <1>2, <1>3, <1>4 DEF WaitsOnce, QueryFails
<1>6. SyncTypeOK'
  BY <1>2, <1>3 DEF SyncTypeOK, QueryFails, FlushRec, background
<1> QED BY <1>5, <1>6 DEF SyncInv, QueryFails

(* The registry changes, or is lost: a sync is due, or the rows are being listed. *)
LEMMA RegistryInv ==
    ASSUME SyncInv,
           \/ \E k \in RegKeys : Register(k) \/ Unregister(k)
           \/ ClearRegistry \/ WorkerRestarts \/ TimerFires
           \/ \E rows \in Seq(RegKeys) : RebuildEnds(rows)
    PROVE  SyncInv'
<1>0. SyncTypeOK /\ WaitsOnce
  BY DEF SyncInv
<1>1. ASSUME NEW k \in RegKeys, Register(k) \/ Unregister(k)
      PROVE  SyncInv'
  <2>1. registry' \in Seq(RegKeys)
    <3>1. CASE Register(k)
      BY <1>0, <3>1 DEF Register, SyncTypeOK
    <3>2. CASE Unregister(k)
      <4>1. PICK i \in DOMAIN registry : registry' = RemoveAt(registry, i)
        BY <3>2 DEF Unregister
      <4>2. registry \in Seq(RegKeys) /\ i \in 1 .. Len(registry)
        BY <1>0, <4>1 DEF SyncTypeOK
      <4>3. SubSeq(registry, 1, i - 1) \in Seq(RegKeys) /\ SubSeq(registry, i + 1, Len(registry)) \in Seq(RegKeys)
        BY <4>2, SubSeqProperties
      <4> QED BY <4>1, <4>3 DEF RemoveAt
    <3> QED BY <1>1, <3>1, <3>2
  <2>2. /\ UNCHANGED <<rebuilding, flush, replies, inbox, media, page, missed>> /\ timer' = TRUE
    BY <1>1 DEF Register, Unregister, sending
  <2>3. SyncTypeOK'
    BY <1>0, <2>1, <2>2 DEF SyncTypeOK
  <2>4. WaitsOnce'
    BY <1>0, <2>2 DEF WaitsOnce
  <2> QED BY <2>2, <2>3, <2>4 DEF SyncInv, Flushed
<1>2. ASSUME ClearRegistry \/ TimerFires \/ \E rows \in Seq(RegKeys) : RebuildEnds(rows)
      PROVE  SyncInv'
  <2>1. /\ registry' \in Seq(RegKeys) /\ timer' \in BOOLEAN /\ rebuilding' \in BOOLEAN
        /\ UNCHANGED <<replies, inbox, media, page, missed>>
        /\ \E replace \in BOOLEAN : FlushStarts(replace)
    <3>1. registry \in Seq(RegKeys) /\ timer \in BOOLEAN /\ rebuilding \in BOOLEAN /\ <<>> \in Seq(RegKeys)
      BY <1>0 DEF SyncTypeOK
    <3>2. CASE ClearRegistry
      BY <3>1, <3>2 DEF ClearRegistry
    <3>3. CASE TimerFires
      BY <3>1, <3>3 DEF TimerFires
    <3>4. CASE \E rows \in Seq(RegKeys) : RebuildEnds(rows)
      BY <3>1, <3>4 DEF RebuildEnds
    <3> QED BY <1>2, <3>2, <3>3, <3>4
  <2>2. flush' \in [Flushes -> FlushRec] /\ WaitsOnce' /\ ~Flushed'
    BY <1>0, <2>1, RunStarts
  <2>3. SyncTypeOK'
    BY <1>0, <2>1, <2>2 DEF SyncTypeOK, FlushRec
  <2> QED BY <2>2, <2>3 DEF SyncInv
<1>3. ASSUME WorkerRestarts
      PROVE  SyncInv'
  <2>1. Idle \in FlushRec /\ Idle.pc = "idle" /\ Idle.at = 0
    BY IdleFlushType
  <2> HIDE DEF Idle, FlushRec
  <2>2. flush' = [f \in Flushes |-> Idle] /\ flush' \in [Flushes -> FlushRec]
    BY <1>3, <2>1 DEF WorkerRestarts
  <2>3. WaitsOnce'
    BY <1>3, <2>1, <2>2 DEF WorkerRestarts, WaitsOnce
  <2>4. SyncTypeOK'
    <3>1. <<>> \in Seq(Flushes) /\ <<>> \in Seq(RegKeys)
      OBVIOUS
    <3>2. replies' \in [Tabs -> Seq(Flushes)] /\ registry' \in Seq(RegKeys)
      BY <1>3, <3>1 DEF WorkerRestarts
    <3> QED BY <1>0, <1>3, <2>2, <3>2 DEF WorkerRestarts, SyncTypeOK, FlushRec
  <2> QED BY <1>3, <2>3, <2>4 DEF SyncInv, Flushed, WorkerRestarts
<1> QED BY <1>1, <1>2, <1>3
LEMMA SendsInv ==
    ASSUME SyncInv,
           (\E f \in Flushes : QueryAnswers(f)) \/ (\E t \in Tabs : Replies(t))
    PROVE  SyncInv'
<1>0. SyncTypeOK /\ WaitsOnce
  BY DEF SyncInv
<1>1. ASSUME NEW f \in Flushes, QueryAnswers(f)
      PROVE  SyncInv'
  <2>1. Payload \in SUBSET RegKeys
    BY <1>0, PayloadType DEF SyncTypeOK
  <2>2. SendsOn(f, Payload, 1, {}) /\ flush[f].pc = "query"
        /\ UNCHANGED <<registry, timer, rebuilding, media, page>>
    BY <1>1 DEF QueryAnswers, background
  <2>3. PICK t \in 1 .. LastTab + 1 : SendsTo(f, Payload, 1, {}, t)
    BY <1>0, <2>2, SendsOnSends
  <2>4. Runs(f, 1) /\ 1 \in 1 .. LastTab + 1 /\ {} \in SUBSET Tabs
    BY <2>2, SyncAssumption DEF Runs
  <2>5. PICK keys \in SUBSET RegKeys : keys = Payload
    BY <2>1
  <2>6. SendsTo(f, keys, 1, {}, t)
    BY <2>3, <2>5
  <2>7. SyncTypeOK'
    BY <1>0, <2>2, <2>4, <2>6, SendsToTypes
  <2>8. WaitsOnce'
    BY <1>0, <2>4, <2>6, SendsToWaits
  <2>9. \A u \in Tabs \ missed' : Informed(u)'
    BY <1>0, <2>2, <2>3, QueryInforms
  <2>10. Tabs' = Tabs
    BY DEF Tabs
  <2> QED BY <2>7, <2>8, <2>9, <2>10 DEF SyncInv
<1>2. ASSUME NEW t0 \in Tabs, Replies(t0)
      PROVE  SyncInv'
  <2> DEFINE f == Head(replies[t0])
  <2>0. replies[t0] \in Seq(Flushes) /\ replies[t0] # <<>>
    BY <1>0, <1>2 DEF SyncTypeOK, Replies
  <2>1. f \in Flushes /\ f = replies[t0][1] /\ 1 \in DOMAIN replies[t0]
    BY <2>0
  <2>2. flush[f].pc = "wait" /\ flush[f].at = t0
    BY <1>0, <2>1 DEF WaitsOnce
  <2>3. /\ SendsOn(f, flush[f].keys, t0 + 1, missed)
        /\ UNCHANGED <<registry, timer, rebuilding, media, page>>
    BY <1>2 DEF Replies, background
  <2> HIDE DEF f
  <2>4. PICK g \in Flushes : g = f
    BY <2>1
  <2>5. PICK keys \in SUBSET RegKeys, before \in SUBSET Tabs, from \in 1 .. LastTab + 1 :
          keys = flush[f].keys /\ before = missed /\ from = t0 + 1
    <3>1. flush[f].keys \in SUBSET RegKeys
      BY <1>0, <2>1, SyncTypes DEF FlushRec
    <3>2. missed \in SUBSET Tabs
      BY <1>0 DEF SyncTypeOK
    <3>3. t0 + 1 \in 1 .. LastTab + 1
      BY SyncAssumption DEF Tabs
    <3> QED BY <3>1, <3>2, <3>3
  <2>6. SendsOn(g, keys, from, before)
    BY <2>3, <2>4, <2>5
  <2>7. PICK t \in from .. LastTab + 1 : SendsTo(g, keys, from, before, t)
    BY <1>0, <2>6, SendsOnSends
  <2>8. Runs(g, from)
    <3>1. g = Head(replies[t0])
      BY <2>4 DEF f
    <3> QED BY <2>0, <2>2, <2>4, <2>5, <3>1 DEF Runs
  <2>9. SyncTypeOK'
    BY <1>0, <2>3, <2>7, <2>8, SendsToTypes
  <2>10. WaitsOnce'
    BY <1>0, <2>7, <2>8, SendsToWaits
  <2>11. ASSUME Flushed', NEW u \in Tabs \ missed'
         PROVE  Informed(u)'
    <3>1. \A h \in Flushes \ {g} : flush'[h] = flush[h]
      BY <1>0, <2>7, SendsToRuns
    <3>2. Flushed
      <4>1. \A h \in Flushes : flush[h].pc # "query"
        BY <2>2, <2>4, <2>11, <3>1 DEF Flushed
      <4> QED BY <2>3, <2>11, <4>1 DEF Flushed
    <3>3. u \notin missed => Informed(u)
      BY <3>2, <2>11 DEF SyncInv
    <3>4. SendsTo(g, flush[g].keys, t0 + 1, missed, t) /\ t \in t0 + 1 .. LastTab + 1
      BY <2>4, <2>5, <2>7
    <3>5. g = Head(replies[t0])
      BY <2>4 DEF f
    <3> QED BY <1>0, <2>0, <2>3, <2>11, <3>3, <3>4, <3>5, ReplyInforms
  <2>12. Tabs' = Tabs
    BY DEF Tabs
  <2> QED BY <2>9, <2>10, <2>11, <2>12 DEF SyncInv
<1> QED BY <1>1, <1>2

(* Steps of the pages and of the tabs leave the runs as they are. *)
LEMMA PagesInv ==
    ASSUME SyncInv, SyncTypeOK', UNCHANGED <<background, sending, missed>>,
           \A u \in Watched :
              \/ page'[u].trust = "never" /\ inbox'[u] = <<>>
              \/ /\ (page[u].trust = "never" /\ inbox[u] = <<>>) =>
                       page'[u].trust = "never" /\ inbox'[u] = <<>>
                 /\ \A k \in Payload : WillKnow(u, k) => WillKnow(u, k)'
              \/ \A k \in Payload : WillKnow(u, k)'
    PROVE  SyncInv'
<1>1. /\ UNCHANGED <<registry, timer, rebuilding, flush, replies, missed>>
      /\ Payload' = Payload /\ Tabs' = Tabs
  BY DEF background, sending, Payload, Tabs
<1>2. WaitsOnce'
  BY <1>1 DEF SyncInv, WaitsOnce
<1>3. ASSUME Flushed', NEW u \in Tabs \ missed
      PROVE  Informed(u)'
  <2>1. Informed(u)
    <3>1. Flushed
      BY <1>1, <1>3 DEF Flushed
    <3> QED BY <3>1 DEF SyncInv
  <2>2. Coming(u)' = Coming(u) /\ \A g, h : Before(g, h)' <=> Before(g, h)
    BY <1>1 DEF Coming, Before
  <2>3. CASE Coming(u) # {}
    BY <1>1, <2>1, <2>2, <2>3 DEF Informed
  <2>4. CASE Coming(u) = {}
    <3>1. ASSUME u \in Watched
          PROVE  \/ page'[u].trust = "never" /\ inbox'[u] = <<>>
                 \/ \A k \in Payload : WillKnow(u, k)'
      <4>1. \/ page[u].trust = "never" /\ inbox[u] = <<>>
            \/ \A k \in Payload : WillKnow(u, k)
        BY <2>1, <2>4, <3>1 DEF Informed
      <4> QED BY <3>1, <4>1
    <3> QED BY <1>1, <2>2, <2>4, <3>1 DEF Informed
  <2> QED BY <2>3, <2>4
<1> QED BY <1>1, <1>2, <1>3 DEF SyncInv
LEMMA TabSyncInv ==
    ASSUME SyncInv, NEW t \in Watched, TabSync(t)
    PROVE  SyncInv'
<1>0. SyncTypeOK
  BY DEF SyncInv
<1>1. Payload \subseteq RegKeys
  BY <1>0, PayloadType DEF SyncTypeOK
<1>2. inbox \in [Watched -> Seq(Message)]
  BY <1>0, SyncTypes
<1>3. [replace |-> TRUE, keys |-> Payload] \in Message
  BY <1>1 DEF Message
<1>4. /\ inbox'[t] = Append(inbox[t], [replace |-> TRUE, keys |-> Payload])
      /\ \A u \in Watched \ {t} : inbox'[u] = inbox[u]
      /\ inbox' \in [Watched -> Seq(Message)]
  BY <1>2, <1>3 DEF TabSync
<1>5. SyncTypeOK'
  BY <1>0, <1>4 DEF SyncTypeOK, TabSync, background, sending, Message
<1>6. Payload' = Payload
  BY DEF TabSync, background, Payload
<1>7. \A k \in Payload : WillKnow(t, k)'
  BY <1>0, <1>1, <1>4, <1>6, SentNow
<1>8. \A u \in Watched \ {t} : page' = page /\ \A k : WillKnow(u, k) => WillKnow(u, k)'
  BY <1>4, HeldAsBefore DEF TabSync
<1> QED BY <1>4, <1>5, <1>7, <1>8, PagesInv DEF TabSync

LEMMA MediaInv ==
    ASSUME SyncInv, NEW t \in Tabs, MediaChanges(t)
    PROVE  SyncInv'
<1>1. SyncTypeOK'
  BY DEF SyncInv, SyncTypeOK, MediaChanges, background, sending
<1>2. \A u, k : WillKnow(u, k) => WillKnow(u, k)'
  BY DEF MediaChanges, WillKnow
<1> QED BY <1>1, <1>2, PagesInv DEF MediaChanges

(* The steps of one page that leave its inbox as it is and forget no key. *)
LEMMA OnePageInv ==
    ASSUME SyncInv, NEW t \in Watched, NEW r \in PageRec, page' = [page EXCEPT ![t] = r],
           page[t].told \subseteq r.told, page[t].trust = "never" => r.trust = "never",
           UNCHANGED <<background, sending, inbox, media, missed>>
    PROVE  SyncInv'
<1>1. page \in [Watched -> PageRec] /\ SyncTypeOK
  BY SyncTypes DEF SyncInv
<1>2. page'[t] = r /\ (\A u \in Watched \ {t} : page'[u] = page[u]) /\ page' \in [Watched -> PageRec]
  BY <1>1
<1>3. SyncTypeOK'
  BY <1>1, <1>2 DEF SyncTypeOK, PageRec, background, sending
<1>4. ASSUME NEW u \in Watched
      PROVE  page[u].told \subseteq page'[u].told /\ (page[u].trust = "never" => page'[u].trust = "never")
  BY <1>2
<1>5. ASSUME NEW u \in Watched, NEW k, WillKnow(u, k)
      PROVE  WillKnow(u, k)'
  BY <1>4, <1>5 DEF WillKnow
<1> QED BY <1>3, <1>4, <1>5, PagesInv

LEMMA NotesInv ==
    ASSUME SyncInv, NEW t \in Watched,
           \/ \E k \in OwnKeys : NotesKey(t, k) \/ NotesIntent(t, k) \/ ClearsIntent(t, k)
           \/ (\E k \in RegKeys : FalseNegative(t, k)) \/ Ages(t)
    PROVE  SyncInv'
<1>1. page \in [Watched -> PageRec]
  BY SyncTypes DEF SyncInv
<1>2. /\ page[t].keys \in SUBSET (RegKeys \cup OwnKeys) /\ page[t].intents \in SUBSET OwnKeys
      /\ page[t].told \in SUBSET (RegKeys \cup OwnKeys)
      /\ page[t].trust \in {"never", "fresh", "stale"} /\ page[t].doubted \in BOOLEAN
  BY <1>1 DEF PageRec
<1>3. UNCHANGED <<background, sending, inbox, media, missed>>
  BY DEF NotesKey, NotesIntent, ClearsIntent, FalseNegative, Ages
<1>4. ASSUME NEW k \in OwnKeys, NotesKey(t, k)
      PROVE  SyncInv'
  <2>1. PICK keys \in Trimmed(page[t].keys \cup {k}) :
           page' = [page EXCEPT ![t].keys = keys, ![t].told = @ \cup {k}, ![t].intents = @ \ {k}]
    BY <1>4 DEF NotesKey
  <2> DEFINE r == [page[t] EXCEPT !.keys = keys, !.told = @ \cup {k}, !.intents = @ \ {k}]
  <2>2. page' = [page EXCEPT ![t] = r]
    BY <1>1, <2>1
  <2>3. keys \in SUBSET (RegKeys \cup OwnKeys)
    BY <1>2, TrimmedType
  <2>4. r \in PageRec /\ page[t].told \subseteq r.told /\ r.trust = page[t].trust
    BY <1>1, <1>2, <2>3 DEF PageRec
  <2> HIDE DEF r
  <2> QED BY <1>3, <2>2, <2>4, OnePageInv
<1>5. ASSUME NEW k \in OwnKeys, NotesIntent(t, k)
      PROVE  SyncInv'
  <2> DEFINE r == [page[t] EXCEPT !.intents = @ \cup {k}]
  <2>2. page' = [page EXCEPT ![t] = r]
    BY <1>1, <1>5 DEF NotesIntent
  <2>3. r \in PageRec /\ page[t].told \subseteq r.told /\ r.trust = page[t].trust
    BY <1>1, <1>2 DEF PageRec
  <2> HIDE DEF r
  <2> QED BY <1>3, <2>2, <2>3, OnePageInv
<1>6. ASSUME NEW k \in OwnKeys, ClearsIntent(t, k)
      PROVE  SyncInv'
  <2> DEFINE r == [page[t] EXCEPT !.intents = @ \ {k}]
  <2>2. page' = [page EXCEPT ![t] = r]
    BY <1>1, <1>6 DEF ClearsIntent
  <2>3. r \in PageRec /\ page[t].told \subseteq r.told /\ r.trust = page[t].trust
    BY <1>1, <1>2 DEF PageRec
  <2> HIDE DEF r
  <2> QED BY <1>3, <2>2, <2>3, OnePageInv
<1>7. ASSUME NEW doubted \in BOOLEAN, page' = [page EXCEPT ![t].doubted = doubted]
      PROVE  SyncInv'
  <2> DEFINE r == [page[t] EXCEPT !.doubted = doubted]
  <2>2. page' = [page EXCEPT ![t] = r]
    BY <1>1, <1>7
  <2>3. r \in PageRec /\ page[t].told \subseteq r.told /\ r.trust = page[t].trust
    BY <1>1, <1>2 DEF PageRec
  <2> HIDE DEF r
  <2> QED BY <1>3, <2>2, <2>3, OnePageInv
<1>8. ASSUME page[t].trust = "fresh", page' = [page EXCEPT ![t].trust = "stale"]
      PROVE  SyncInv'
  <2> DEFINE r == [page[t] EXCEPT !.trust = "stale"]
  <2>2. page' = [page EXCEPT ![t] = r]
    BY <1>1, <1>8
  <2>3. r \in PageRec /\ page[t].told \subseteq r.told
    BY <1>1, <1>2 DEF PageRec
  <2> HIDE DEF r
  <2> QED BY <1>3, <1>8, <2>2, <2>3, OnePageInv
<1> QED BY <1>4, <1>5, <1>6, <1>7, <1>8 DEF FalseNegative, Ages

(* What a page will hold when it has applied one more message. *)
LEMMA AppliesInv ==
    ASSUME SyncInv, NEW t \in Watched, Applies(t)
    PROVE  SyncInv'
<1> DEFINE m == Head(inbox[t])
           With(keys) == m.keys \cup IF m.replace THEN {} ELSE keys
           told == With(page[t].told)
<1>0. SyncTypeOK /\ inbox \in [Watched -> Seq(Message)] /\ page \in [Watched -> PageRec]
  BY SyncTypes DEF SyncInv
<1>1. inbox[t] \in Seq(Message) /\ inbox[t] # <<>>
  BY <1>0 DEF Applies
<1>2. /\ m \in Message /\ m = inbox[t][1] /\ Tail(inbox[t]) \in Seq(Message)
      /\ Len(Tail(inbox[t])) = Len(inbox[t]) - 1 /\ Len(inbox[t]) \in Nat \ {0}
      /\ \A i \in 1 .. Len(inbox[t]) - 1 : Tail(inbox[t])[i] = inbox[t][i + 1]
  BY <1>1
<1>3. PICK keys \in Trimmed(With(page[t].keys)) :
         page' = [page EXCEPT ![t].keys = keys, ![t].told = told, ![t].trust = "fresh"]
  BY DEF Applies
<1> DEFINE r == [page[t] EXCEPT !.keys = keys, !.told = told, !.trust = "fresh"]
<1>4. r \in PageRec /\ r.told = told
  <2>1. page[t] \in PageRec /\ m.keys \in SUBSET RegKeys
    BY <1>0, <1>2 DEF Message
  <2>2. With(page[t].keys) \in SUBSET (RegKeys \cup OwnKeys) /\ told \in SUBSET (RegKeys \cup OwnKeys)
    BY <2>1 DEF PageRec
  <2>3. keys \in SUBSET (RegKeys \cup OwnKeys)
    BY <2>2, TrimmedType
  <2> HIDE DEF told, With
  <2> QED BY <2>1, <2>2, <2>3 DEF PageRec
<1>5. page' = [page EXCEPT ![t] = r]
  BY <1>0, <1>3
<1>6. /\ page'[t].told = told /\ inbox'[t] = Tail(inbox[t])
      /\ \A u \in Watched \ {t} : page'[u] = page[u] /\ inbox'[u] = inbox[u]
      /\ page' \in [Watched -> PageRec] /\ inbox' \in [Watched -> Seq(Message)]
  <2> HIDE DEF r, told
  <2> QED BY <1>0, <1>2, <1>4, <1>5 DEF Applies
<1>7. SyncTypeOK'
  BY <1>0, <1>6 DEF SyncTypeOK, PageRec, Message, Applies, background, sending
<1>8. ASSUME NEW u \in Watched, NEW k, WillKnow(u, k)
      PROVE  WillKnow(u, k)'
  <2>1. CASE u # t
    BY <1>6, <1>8, <2>1 DEF WillKnow
  <2>2. CASE u = t
    <3> DEFINE n == Len(inbox[t])
    <3>1. PICK i \in 0 .. n :
            /\ IF i = 0 THEN k \in page[t].told ELSE k \in inbox[t][i].keys
            /\ \A j \in i + 1 .. n : inbox[t][j].replace => k \in inbox[t][j].keys
      BY <1>8, <2>2 DEF WillKnow
    <3>2. n \in Nat \ {0} /\ Len(inbox'[t]) = n - 1 /\ \A j \in 1 .. n - 1 : inbox'[t][j] = inbox[t][j + 1]
      BY <1>2, <1>6
    <3>3. CASE i \in {0, 1}
      <4>1. k \in page'[t].told
        <5>1. CASE i = 1
          BY <1>2, <1>6, <3>1, <5>1
        <5>2. CASE i = 0
          <6>1. k \in page[t].told /\ (m.replace => k \in m.keys)
            BY <1>2, <3>1, <3>2, <5>2
          <6> QED BY <1>6, <6>1
        <5> QED BY <3>3, <5>1, <5>2
      <4>2. \A j \in 1 .. n - 1 : inbox'[t][j].replace => k \in inbox'[t][j].keys
        BY <3>1, <3>2, <3>3
      <4>3. 0 \in 0 .. n - 1 /\ 0 + 1 = 1
        BY <3>2
      <4> QED BY <2>2, <3>2, <4>1, <4>2, <4>3 DEF WillKnow
    <3>4. CASE i \notin {0, 1}
      <4>1. i - 1 \in 0 .. n - 1 /\ i - 1 # 0 /\ i - 1 \in 1 .. n - 1 /\ (i - 1) + 1 = i
        BY <3>2, <3>4
      <4>2. k \in inbox'[t][i - 1].keys
        BY <3>1, <3>2, <3>4, <4>1
      <4>3. \A j \in i .. n - 1 : inbox'[t][j].replace => k \in inbox'[t][j].keys
        BY <3>1, <3>2, <4>1
      <4> QED BY <2>2, <3>2, <4>1, <4>2, <4>3 DEF WillKnow
    <3> QED BY <3>3, <3>4
  <2> QED BY <2>1, <2>2
<1>9. inbox[t] # <<>> /\ UNCHANGED <<background, sending, missed>>
  BY DEF Applies
<1> QED BY <1>6, <1>7, <1>8, <1>9, PagesInv

LEMMA PageLoadsInv ==
    ASSUME SyncInv, NEW t \in Watched, PageLoads(t)
    PROVE  SyncInv'
<1>0. SyncTypeOK /\ inbox \in [Watched -> Seq(Message)] /\ page \in [Watched -> PageRec]
  BY SyncTypes DEF SyncInv
<1>1. NewPage \in PageRec /\ NewPage.trust = "never" /\ <<>> \in Seq(Message)
  BY DEF NewPage, PageRec
<1> HIDE DEF NewPage
<1>2. /\ page'[t] = NewPage /\ inbox'[t] = <<>>
      /\ \A u \in Watched \ {t} : page'[u] = page[u] /\ inbox'[u] = inbox[u]
      /\ page' \in [Watched -> PageRec] /\ inbox' \in [Watched -> Seq(Message)]
  BY <1>0, <1>1 DEF PageLoads
<1>3. SyncTypeOK'
  BY <1>0, <1>2 DEF SyncTypeOK, PageRec, Message, PageLoads, background, sending
<1>4. ASSUME NEW u \in Watched \ {t}, NEW k, WillKnow(u, k)
      PROVE  WillKnow(u, k)'
  BY <1>2, <1>4, HeldAsBefore
<1> QED BY <1>1, <1>2, <1>3, <1>4, PagesInv DEF PageLoads

LEMMA SyncStep ==
    ASSUME SyncInv, [SyncNext]_syncVars
    PROVE  SyncInv'
<1>1. CASE UNCHANGED syncVars
  <2>1. UNCHANGED <<registry, timer, rebuilding, flush, replies, inbox, media, page, missed>>
    BY <1>1 DEF syncVars, background, sending
  <2>2. SyncTypeOK'
    BY <2>1 DEF SyncInv, SyncTypeOK
  <2>3. \A u, k : WillKnow(u, k) => WillKnow(u, k)'
    BY <2>1 DEF WillKnow
  <2> QED BY <2>1, <2>2, <2>3, PagesInv DEF background, sending
<1>2. CASE SyncNext
  <2>1. \A rows \in SetToSeqs(RegKeys) : \A n \in 0 .. Len(rows) :
          RebuildEnds(SubSeq(rows, 1, n)) => \E part \in Seq(RegKeys) : RebuildEnds(part)
    <3> SUFFICES ASSUME NEW rows \in SetToSeqs(RegKeys), NEW n \in 0 .. Len(rows)
                 PROVE  SubSeq(rows, 1, n) \in Seq(RegKeys)
      OBVIOUS
    <3>1. rows \in Seq(RegKeys)
      <4>1. rows \in [1 .. Cardinality(RegKeys) -> RegKeys] /\ Cardinality(RegKeys) \in Nat
        <5>1. IsFiniteSet(RegKeys)
          BY FS_Subset, SyncAssumption
        <5> QED BY <5>1, FS_CardinalityType DEF SetToSeqs
      <4> QED BY <4>1
    <3> QED BY <3>1, SubSeqProperties
  <2>2. CASE \/ ClearRegistry \/ WorkerRestarts \/ TimerFires
             \/ \E k \in RegKeys : Register(k) \/ Unregister(k)
             \/ \E rows \in SetToSeqs(RegKeys) : \E n \in 0 .. Len(rows) : RebuildEnds(SubSeq(rows, 1, n))
    BY <2>1, <2>2, RegistryInv
  <2>3. CASE (\E f \in Flushes : QueryAnswers(f)) \/ (\E t \in Tabs : Replies(t))
    BY <2>3, SendsInv
  <2>4. CASE \E f \in Flushes : QueryFails(f)
    BY <2>4, QueryFailsInv
  <2>5. CASE \E t \in Tabs : MediaChanges(t)
    BY <2>5, MediaInv
  <2>6. CASE \E t \in Watched : TabSync(t) \/ Applies(t) \/ PageLoads(t)
    BY <2>6, TabSyncInv, AppliesInv, PageLoadsInv
  <2>7. CASE \E t \in Watched : \/ Ages(t) \/ \E k \in RegKeys : FalseNegative(t, k)
                                \/ \E k \in OwnKeys : NotesKey(t, k) \/ NotesIntent(t, k) \/ ClearsIntent(t, k)
    BY <2>7, NotesInv
  <2> QED BY <1>2, <2>2, <2>3, <2>4, <2>5, <2>6, <2>7 DEF SyncNext
<1> QED BY <1>1, <1>2

(* A run that will still reach the page brings the payload of now, or a message
   under way does. *)
LEMMA InvCorrects ==
    ASSUME SyncInv
    PROVE  DenialsAreCorrected
<1> SUFFICES ASSUME NEW t \in (media \cap Watched) \ missed, NEW k \in Payload, Denies(t, k), Flushed,
                    k \notin page[t].told
             PROVE  \/ \E f \in Flushes : flush[f].pc = "wait" /\ k \in flush[f].keys /\ t > flush[f].at
                    \/ \E i \in DOMAIN inbox[t] : k \in inbox[t][i].keys
  BY DEF DenialsAreCorrected, Flushed
<1>1. t \in Tabs /\ t \in Watched /\ Informed(t)
  BY SyncAssumption DEF SyncInv, Tabs
<1>2. CASE Coming(t) # {}
  <2>1. PICK f \in Coming(t) : flush[f].keys = Payload
    BY <1>1, <1>2 DEF Informed
  <2>2. flush[f].at \in Nat /\ t \in Nat
    BY <1>1, <2>1 DEF Coming, SyncInv, WaitsOnce, Tabs
  <2> QED BY <2>1, <2>2 DEF Coming
<1>3. CASE Coming(t) = {}
  <2>1. WillKnow(t, k)
    BY <1>1, <1>3 DEF Informed, Denies
  <2>2. inbox[t] \in Seq(Message)
    BY <1>1, SyncTypes DEF SyncInv
  <2>3. PICK i \in 0 .. Len(inbox[t]) : IF i = 0 THEN k \in page[t].told ELSE k \in inbox[t][i].keys
    BY <2>1 DEF WillKnow
  <2>4. i # 0 /\ k \in inbox[t][i].keys
    BY <2>3
  <2> QED BY <2>2, <2>3, <2>4
<1> QED BY <1>2, <1>3

(* A page that denies a key of the background's payload has missed a sync, has
   trimmed the key after it was told it, or is about to be told it, whatever the
   two limits are, whatever flushes overlap, tabs come and go, and workers and
   pages restart (cache-registry.js:113, page/cache/cache-registry.js:363). *)
THEOREM DenialsAreMadeGood == SyncSpec => []DenialsAreCorrected
<1>1. SyncInit => SyncInv
  BY SyncInitInv
<1>2. SyncInv /\ [SyncNext]_syncVars => SyncInv'
  BY SyncStep
<1>3. SyncInv => DenialsAreCorrected
  BY InvCorrects
<1> QED BY <1>1, <1>2, <1>3, PTL DEF SyncSpec
=============================================================================
