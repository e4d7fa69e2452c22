------------------------ MODULE HotBytesAndTabProofs ------------------------
(***************************************************************************)
(* What TLAPS proves of HotBytes and of TabPrefetch, which MCHotBytes puts  *)
(* together: for every set of keys, sizes and callers and for all limits,   *)
(* the two Maps, the total and the sleepers agree after every put, lookup,  *)
(* eviction, timer and clear; and for every set of playlists, segments and  *)
(* bounds, the scheduler, its page and what is between them agree.          *)
(***************************************************************************)
EXTENDS HotBytes, TabPrefetch, FiniteSetTheorems, SequenceTheorems, TLAPS

Entries == [key : Keys, size : Nat, age : Nat]
Aliases == [from : Keys, to : Keys]
Caches == [entries : Seq(Entries), aliases : Seq(Aliases), total : Nat]

(* No key is there twice, no name stands for two keys, and each leads to bytes. *)
KeysApart(es) == \A i, j \in 1..Len(es) : es[i].key = es[j].key => i = j
NamesApart(as) == \A i, j \in 1..Len(as) : as[i].from = as[j].from => i = j
AliasesLead(c) == \A a \in Range(c.aliases) : a.from # a.to /\ Held(c, a.to)

(* What every operation on the cache keeps, in the middle of a put too. *)
Sound(c) ==
    /\ c \in Caches
    /\ KeysApart(c.entries) /\ NamesApart(c.aliases)
    /\ AliasesLead(c)
    /\ c.total = Sum(c.entries)

-----------------------------------------------------------------------------
(* Recursion and induction over 0..n, which the recursive functions need. *)

LEMMA LeastExists ==
    ASSUME NEW S \in SUBSET Nat, S # {}
    PROVE  \E m \in S : \A x \in S : m <= x
<1> DEFINE R == StrictSubsetOrdering(Nat)
           T == {1..n : n \in S}
<1>1. IsWellFoundedOn(R, FiniteSubsetsOf(Nat))
  BY FS_StrictSubsetOrderingWellFounded
<1>2. T \subseteq FiniteSubsetsOf(Nat) /\ T # {}
  <2>1. \A n \in Nat : 1..n \in SUBSET Nat /\ IsFiniteSet(1..n)
    BY FS_Interval
  <2> QED BY <2>1 DEF FiniteSubsetsOf
<1>3. PICK x \in T : \A y \in T : ~ (<<y, x>> \in R)
  <2> HIDE DEF T, R
  <2> QED BY <1>1, <1>2, WFMin
<1>4. PICK m \in S : x = 1..m
  BY DEF T
<1>5. ASSUME NEW n \in S, n < m PROVE FALSE
  <2>1. 1..n \subseteq x /\ 1..n # x
    BY <1>4, <1>5
  <2>2. <<1..n, x>> \in R
    BY <2>1, <1>4 DEF StrictSubsetOrdering
  <2> QED BY <2>2, <1>3
<1> QED BY <1>5

LEMMA Counting ==
    ASSUME NEW n \in Nat, NEW S, 0 \in S, \A i \in 1..n : i - 1 \in S => i \in S
    PROVE  \A i \in 0..n : i \in S
<1> DEFINE bad == {i \in 0..n : i \notin S}
<1> SUFFICES ASSUME bad # {} PROVE FALSE
  OBVIOUS
<1>1. bad \in SUBSET Nat
  OBVIOUS
<1>2. PICK m \in bad : \A x \in bad : m <= x
  <2> HIDE DEF bad
  <2> QED BY <1>1, LeastExists
<1>3. m \in 1..n /\ m - 1 \in 0..n /\ m - 1 \notin bad
  BY <1>2
<1> QED BY <1>2, <1>3

(* f starts from a and applies g[1] to g[n] in turn. *)
Applies(f, n, X, a, g) ==
    f \in [0..n -> X] /\ f[0] = a /\ \A i \in 1..n : f[i] = g[i][f[i - 1]]

LEMMA Recursion ==
    ASSUME NEW n \in Nat, NEW X, NEW a \in X, NEW g \in [1..n -> [X -> X]]
    PROVE  \E f : Applies(f, n, X, a, g)
<1> DEFINE Upto(m, f) == f[0] = a /\ \A i \in 1..m : f[i] = g[i][f[i - 1]]
           S == {m \in 0..n : \E f \in [0..m -> X] : Upto(m, f)}
<1>1. 0 \in S
  <2> DEFINE f == [i \in 0..0 |-> a]
  <2>1. f \in [0..0 -> X] /\ Upto(0, f)
    OBVIOUS
  <2> HIDE DEF f, Upto
  <2> QED BY <2>1
<1>2. ASSUME NEW m \in 1..n, m - 1 \in S PROVE m \in S
  <2>1. PICK f \in [0..(m - 1) -> X] : Upto(m - 1, f)
    BY <1>2
  <2> DEFINE h == [i \in 0..m |-> IF i = m THEN g[m][f[m - 1]] ELSE f[i]]
  <2>2. f[m - 1] \in X
    OBVIOUS
  <2>3. g[m][f[m - 1]] \in X
    BY <2>2
  <2>4. h \in [0..m -> X]
    BY <2>3
  <2>5. h[m] = g[m][f[m - 1]] /\ \A i \in 0..(m - 1) : h[i] = f[i]
    OBVIOUS
  <2>6. Upto(m, h)
    <3> HIDE DEF h
    <3>1. h[0] = a
      BY <2>1, <2>5
    <3>2. ASSUME NEW i \in 1..m PROVE h[i] = g[i][h[i - 1]]
      <4>1. h[i - 1] = f[i - 1]
        BY <2>5
      <4>2. CASE i = m
        BY <2>5, <4>1, <4>2
      <4>3. CASE i # m
        <5>1. i \in 1..(m - 1) /\ h[i] = f[i]
          BY <2>5, <4>3
        <5> QED BY <2>1, <4>1, <5>1
      <4> QED BY <4>2, <4>3
    <3> QED BY <3>1, <3>2
  <2> HIDE DEF h, Upto
  <2> QED BY <2>4, <2>6
<1>3. \A i \in 0..n : i \in S
  <2> HIDE DEF S
  <2> QED BY <1>1, <1>2, Counting
<1>4. n \in S
  <2> HIDE DEF S
  <2> QED BY <1>3
<1> QED BY <1>4 DEF Applies

-----------------------------------------------------------------------------
(* What Only keeps. *)

(* f[i] is what Only keeps of the first i members of s. *)
Filters(f, T, s, S) ==
    /\ f \in [0..Len(s) -> Seq(T)]
    /\ Only(s, S) = f[Len(s)] /\ f[0] = <<>>
    /\ \A i \in 1..Len(s) : f[i] = IF s[i] \in S THEN Append(f[i - 1], s[i]) ELSE f[i - 1]

LEMMA OnlySteps ==
    ASSUME NEW T, NEW s \in Seq(T), NEW S
    PROVE  \E f : Filters(f, T, s, S)
<1> DEFINE n == Len(s)
           F(f) == [i \in 0..Len(s) |->
                      IF i = 0 THEN <<>>
                      ELSE IF s[i] \in S THEN Append(f[i - 1], s[i]) ELSE f[i - 1]]
           r == CHOOSE f : f = F(f)
           g == [i \in 1..n |-> [q \in Seq(T) |-> IF s[i] \in S THEN Append(q, s[i]) ELSE q]]
<1>0. n \in Nat /\ \A i \in 1..n : s[i] \in T
  OBVIOUS
<1>1. Only(s, S) = r[Len(s)]
  BY Zenon DEF Only
<1>2. g \in [1..n -> [Seq(T) -> Seq(T)]]
  <2> SUFFICES ASSUME NEW i \in 1..n, NEW q \in Seq(T)
               PROVE  (IF s[i] \in S THEN Append(q, s[i]) ELSE q) \in Seq(T)
    BY Zenon
  <2> QED BY <1>0
<1>3. PICK h \in [0..n -> Seq(T)] : h[0] = <<>> /\ \A i \in 1..n : h[i] = g[i][h[i - 1]]
  <2> DEFINE X == Seq(T)
             none == <<>>
  <2>1. none \in X
    OBVIOUS
  <2> HIDE DEF g, n, X, none
  <2>2. n \in Nat /\ g \in [1..n -> [X -> X]]
    BY <1>0, <1>2 DEF X
  <2>3. \E h : Applies(h, n, X, none, g)
    BY <2>1, <2>2, Recursion, Zenon
  <2> QED BY <2>3 DEF X, none, Applies
<1>4. h = F(h)
  <2>1. \A i \in 1..n : i - 1 \in 0..n /\ h[i - 1] \in Seq(T)
    BY <1>0, <1>3
  <2>2. \A i \in 1..n : h[i] = IF s[i] \in S THEN Append(h[i - 1], s[i]) ELSE h[i - 1]
    <3> SUFFICES ASSUME NEW i \in 1..n
                 PROVE  h[i] = IF s[i] \in S THEN Append(h[i - 1], s[i]) ELSE h[i - 1]
      OBVIOUS
    <3>1. g[i][h[i - 1]] = IF s[i] \in S THEN Append(h[i - 1], s[i]) ELSE h[i - 1]
      BY <2>1, Zenon
    <3> QED BY <1>3, <3>1
  <2>3. \A i \in 0..n : i = 0 \/ i \in 1..n
    BY <1>0
  <2> QED BY <1>3, <2>2, <2>3, Zenon
<1>5. r = F(r)
  <2> HIDE DEF F
  <2> QED BY <1>4, Zenon
<1> DEFINE E(i) == IF i = 0 THEN <<>>
                   ELSE IF s[i] \in S THEN Append(r[i - 1], s[i]) ELSE r[i - 1]
<1>6. r = [i \in 0..n |-> E(i)]
  BY <1>5, Zenon
<1> HIDE DEF r
<1>7. \A i \in 0..n : r[i] = E(i)
  <2> HIDE DEF E
  <2> QED BY <1>6, Zenon
<1>8. /\ r[0] = <<>>
      /\ \A i \in 1..n : r[i] = IF s[i] \in S THEN Append(r[i - 1], s[i]) ELSE r[i - 1]
  BY <1>0, <1>7
<1>9. r \in [0..n -> Seq(T)]
  <2> DEFINE C == {i \in 0..n : r[i] \in Seq(T)}
  <2>1. 0 \in C
    <3>1. <<>> \in Seq(T) /\ 0 \in 0..n
      BY <1>0
    <3> QED BY <1>8, <3>1
  <2>2. ASSUME NEW i \in 1..n, i - 1 \in C PROVE i \in C
    <3>1. r[i - 1] \in Seq(T) /\ s[i] \in T /\ i \in 0..n
      BY <1>0, <2>2
    <3>2. Append(r[i - 1], s[i]) \in Seq(T)
      BY <3>1
    <3>3. r[i] \in Seq(T)
      BY <1>8, <3>1, <3>2
    <3> QED BY <3>1, <3>3
  <2>3. \A i \in 0..n : i \in C
    <3> HIDE DEF C, n
    <3> QED BY <1>0, <2>1, <2>2, Counting
  <2>4. \A i \in 0..n : E(i) \in Seq(T)
    <3> HIDE DEF E, n
    <3> QED BY <1>7, <2>3
  <2> HIDE DEF E, n
  <2> QED BY <1>6, <2>4, Zenon
<1> HIDE DEF n
<1>10. Only(s, S) = r[n]
  BY <1>1 DEF n, r
<1>11. Filters(r, T, s, S)
  BY <1>8, <1>9, <1>10 DEF n, Filters
<1> QED BY <1>11

LEMMA RangeIs ==
    ASSUME NEW T, NEW s \in Seq(T)
    PROVE  /\ \A x : x \in Range(s) <=> \E i \in 1..Len(s) : s[i] = x
           /\ Range(s) \subseteq T
BY DEF Range

(* It keeps the members of S, each as often as it was there, in a sequence no longer. *)
LEMMA OnlyIs ==
    ASSUME NEW T, NEW s \in Seq(T), NEW S
    PROVE  /\ Only(s, S) \in Seq(T)
           /\ Len(Only(s, S)) <= Len(s)
           /\ (\E i \in 1..Len(s) : s[i] \notin S) => Len(Only(s, S)) < Len(s)
           /\ Range(Only(s, S)) = Range(s) \cap S
           /\ (\A i, j \in 1..Len(s) : s[i] = s[j] => i = j)
                => \A i, j \in 1..Len(Only(s, S)) : Only(s, S)[i] = Only(s, S)[j] => i = j
<1> DEFINE n == Len(s)
           once == \A i, j \in 1..Len(s) : s[i] = s[j] => i = j
<1>0. n \in Nat /\ \A i \in 1..n : s[i] \in T
  OBVIOUS
<1>1. PICK f : /\ f \in [0..n -> Seq(T)]
               /\ Only(s, S) = f[n] /\ f[0] = <<>>
               /\ \A i \in 1..n :
                     f[i] = IF s[i] \in S THEN Append(f[i - 1], s[i]) ELSE f[i - 1]
  <2>1. \E f : Filters(f, T, s, S)
    BY OnlySteps
  <2> QED BY <2>1 DEF Filters
<1> DEFINE Fine(m, q) ==
             /\ Len(q) <= m
             /\ (\E i \in 1..m : s[i] \notin S) => Len(q) < m
             /\ \A x : (\E a \in 1..Len(q) : q[a] = x)
                       <=> (\E i \in 1..m : s[i] = x) /\ x \in S
             /\ once => \A a, b \in 1..Len(q) : q[a] = q[b] => a = b
           C == {m \in 0..n : Fine(m, f[m])}
<1>2. 0 \in C
  <2>1. Fine(0, <<>>)
    OBVIOUS
  <2>2. 0 \in 0..n
    BY <1>0
  <2>3. f[0] = <<>>
    BY <1>1
  <2> HIDE DEF Fine
  <2> QED BY <2>1, <2>2, <2>3
<1>3. ASSUME NEW m \in 1..n, m - 1 \in C PROVE m \in C
  <2>1. m - 1 \in 0..n /\ m \in 0..n /\ f[m - 1] \in Seq(T) /\ s[m] \in T
    <3>1. m - 1 \in 0..n /\ m \in 0..n /\ s[m] \in T
      BY <1>0
    <3>2. f[m - 1] \in Seq(T)
      <4> HIDE DEF n
      <4> QED BY <1>1, <3>1
    <3> QED BY <3>1, <3>2
  <2>2. Fine(m - 1, f[m - 1])
    BY <1>3
  <2>3. \A x : (\E i \in 1..m : s[i] = x) <=> (x = s[m] \/ \E i \in 1..(m - 1) : s[i] = x)
    BY <2>1
  <2>4. CASE s[m] \notin S
    <3>1. f[m] = f[m - 1]
      BY <1>1, <2>4
    <3>2. Len(f[m]) < m /\ Len(f[m]) <= m
      BY <2>1, <2>2, <3>1
    <3>3. \A x : (\E i \in 1..m : s[i] = x) /\ x \in S
                <=> (\E i \in 1..(m - 1) : s[i] = x) /\ x \in S
      BY <2>3, <2>4
    <3>4. Fine(m, f[m])
      BY <2>2, <3>1, <3>2, <3>3
    <3> QED BY <2>1, <3>4
  <2>5. CASE s[m] \in S
    <3> DEFINE p == f[m - 1]
               q == f[m]
    <3>1. q = Append(p, s[m])
      BY <1>1, <2>5
    <3>2. Len(q) = Len(p) + 1 /\ q[Len(q)] = s[m] /\ \A a \in 1..Len(p) : q[a] = p[a]
      BY <2>1, <3>1
    <3>3. Len(p) \in Nat
      BY <2>1
    <3>4. Len(q) <= m /\ ((\E i \in 1..m : s[i] \notin S) => Len(q) < m)
      <4>1. (\E i \in 1..m : s[i] \notin S) => \E i \in 1..(m - 1) : s[i] \notin S
        BY <2>1, <2>5
      <4> HIDE DEF p, q
      <4>2. Len(p) <= m - 1 /\ ((\E i \in 1..(m - 1) : s[i] \notin S) => Len(p) < m - 1)
        BY <2>2 DEF p
      <4>3. Len(q) = Len(p) + 1 /\ m \in Nat
        BY <2>1, <3>2
      <4> QED BY <3>3, <4>1, <4>2, <4>3
    <3>5. \A x : (\E a \in 1..Len(q) : q[a] = x)
                <=> (x = s[m] \/ \E a \in 1..Len(p) : p[a] = x)
      <4> SUFFICES ASSUME NEW x
                   PROVE  (\E a \in 1..Len(q) : q[a] = x)
                            <=> (x = s[m] \/ \E a \in 1..Len(p) : p[a] = x)
        OBVIOUS
      <4>1. ASSUME NEW a \in 1..Len(q), q[a] = x
            PROVE  x = s[m] \/ \E c \in 1..Len(p) : p[c] = x
        <5>1. a = Len(q) \/ a \in 1..Len(p)
          BY <3>2, <3>3
        <5> HIDE DEF p, q
        <5> QED BY <3>2, <4>1, <5>1
      <4>2. ASSUME NEW a \in 1..Len(p), p[a] = x PROVE \E c \in 1..Len(q) : q[c] = x
        <5>1. a \in 1..Len(q) /\ q[a] = x
          BY <3>2, <3>3, <4>2
        <5> QED BY <5>1
      <4>3. Len(q) \in 1..Len(q)
        BY <3>2, <3>3
      <4> HIDE DEF p, q
      <4> QED BY <3>2, <4>1, <4>2, <4>3
    <3>6. \A x : (\E a \in 1..Len(q) : q[a] = x) <=> (\E i \in 1..m : s[i] = x) /\ x \in S
      BY <2>2, <2>3, <2>5, <3>5
    <3>7. ASSUME once, NEW a \in 1..Len(q), NEW b \in 1..Len(q), q[a] = q[b] PROVE a = b
      <4>1. \A c \in 1..Len(p) : p[c] # s[m]
        <5> SUFFICES ASSUME NEW c \in 1..Len(p), p[c] = s[m] PROVE FALSE
          OBVIOUS
        <5>1. PICK i \in 1..(m - 1) : s[i] = s[m]
          BY <2>2
        <5>2. i = m
          BY <1>0, <3>7, <5>1
        <5> QED BY <1>0, <5>1, <5>2
      <4>2. a = Len(q) \/ a \in 1..Len(p)
        BY <3>2, <3>3
      <4>3. b = Len(q) \/ b \in 1..Len(p)
        BY <3>2, <3>3
      <4>4. \A c, d \in 1..Len(p) : p[c] = p[d] => c = d
        BY <2>2, <3>7
      <4> QED BY <3>2, <3>7, <4>1, <4>2, <4>3, <4>4
    <3>8. Fine(m, q)
      BY <3>4, <3>6, <3>7
    <3> QED BY <2>1, <3>8
  <2> QED BY <2>4, <2>5
<1>4. \A m \in 0..n : m \in C
  <2> HIDE DEF C, n
  <2> QED BY <1>0, <1>2, <1>3, Counting
<1>5. Fine(n, f[n])
  <2> HIDE DEF Fine
  <2> QED BY <1>0, <1>4
<1>6. Only(s, S) \in Seq(T)
  BY <1>0, <1>1
<1>7. Range(Only(s, S)) = Range(s) \cap S
  <2>1. \A x : x \in Range(Only(s, S)) <=> \E a \in 1..Len(Only(s, S)) : Only(s, S)[a] = x
    BY <1>6, RangeIs
  <2>2. \A x : x \in Range(s) <=> \E i \in 1..n : s[i] = x
    BY RangeIs
  <2>3. \A x : (\E a \in 1..Len(f[n]) : f[n][a] = x) <=> (\E i \in 1..n : s[i] = x) /\ x \in S
    BY <1>5
  <2>4. Only(s, S) = f[n]
    BY <1>1
  <2>5. \A x : x \in Range(Only(s, S)) <=> x \in Range(s) /\ x \in S
    BY <2>1, <2>2, <2>3, <2>4, Zenon
  <2> QED BY <2>5
<1> QED BY <1>1, <1>5, <1>6, <1>7

-----------------------------------------------------------------------------
(* Sums. *)

(* f[i] is the sum of the first i sizes of s. *)
Adds(f, s) ==
    /\ f \in [0..Len(s) -> Nat]
    /\ Sum(s) = f[Len(s)] /\ f[0] = 0
    /\ \A i \in 1..Len(s) : f[i] = f[i - 1] + s[i].size

LEMMA SizeType ==
    ASSUME NEW s \in Seq(Entries)
    PROVE  \A i \in 1..Len(s) : s[i] \in Entries /\ s[i].size \in Nat
<1>1. \A i \in 1..Len(s) : s[i] \in Entries
  OBVIOUS
<1>2. \A e \in Entries : e.size \in Nat
  BY DEF Entries
<1> QED BY <1>1, <1>2

LEMMA SumSteps ==
    ASSUME NEW s \in Seq(Entries)
    PROVE  \E f : Adds(f, s)
<1> DEFINE n == Len(s)
           F(f) == [i \in 0..Len(s) |-> IF i = 0 THEN 0 ELSE f[i - 1] + s[i].size]
           r == CHOOSE f : f = F(f)
           g == [i \in 1..n |-> [q \in Nat |-> q + s[i].size]]
<1>0. n \in Nat /\ \A i \in 1..n : s[i].size \in Nat
  BY SizeType
<1>1. Sum(s) = r[Len(s)]
  BY Zenon DEF Sum
<1>2. g \in [1..n -> [Nat -> Nat]]
  <2> SUFFICES ASSUME NEW i \in 1..n, NEW q \in Nat PROVE q + s[i].size \in Nat
    BY Zenon
  <2> QED BY <1>0
<1>3. PICK h : h \in [0..n -> Nat] /\ h[0] = 0 /\ \A i \in 1..n : h[i] = g[i][h[i - 1]]
  <2> HIDE DEF g, n
  <2>1. \E h : Applies(h, n, Nat, 0, g)
    BY <1>0, <1>2, Recursion
  <2> QED BY <2>1 DEF Applies
<1>4. h = F(h)
  <2>1. \A i \in 1..n : i - 1 \in 0..n /\ h[i - 1] \in Nat
    <3> HIDE DEF n, g
    <3> QED BY <1>0, <1>3
  <2>2. \A i \in 1..n : h[i] = h[i - 1] + s[i].size
    <3> SUFFICES ASSUME NEW i \in 1..n PROVE h[i] = h[i - 1] + s[i].size
      OBVIOUS
    <3>1. g[i][h[i - 1]] = h[i - 1] + s[i].size
      BY <2>1, Zenon
    <3> QED BY <1>3, <3>1
  <2>3. \A i \in 0..n : i = 0 \/ i \in 1..n
    BY <1>0
  <2> QED BY <1>3, <2>2, <2>3, Zenon
<1>5. r = F(r)
  <2> HIDE DEF F
  <2> QED BY <1>4, Zenon
<1> DEFINE E(i) == IF i = 0 THEN 0 ELSE r[i - 1] + s[i].size
<1>6. r = [i \in 0..n |-> E(i)]
  BY <1>5, Zenon
<1> HIDE DEF r
<1>7. \A i \in 0..n : r[i] = E(i)
  <2> HIDE DEF E
  <2> QED BY <1>6, Zenon
<1>8. r[0] = 0 /\ \A i \in 1..n : r[i] = r[i - 1] + s[i].size
  BY <1>0, <1>7
<1>9. r \in [0..n -> Nat]
  <2> DEFINE C == {i \in 0..n : r[i] \in Nat}
  <2>1. 0 \in C
    BY <1>0, <1>8
  <2>2. ASSUME NEW i \in 1..n, i - 1 \in C PROVE i \in C
    <3>1. s[i].size \in Nat /\ r[i] = r[i - 1] + s[i].size
      BY <1>0, <1>8
    <3>2. r[i - 1] \in Nat /\ i \in 0..n
      BY <1>0, <2>2
    <3>3. r[i] \in Nat
      BY <3>1, <3>2
    <3> QED BY <3>2, <3>3
  <2>3. \A i \in 0..n : i \in C
    <3> HIDE DEF C, n
    <3> QED BY <1>0, <2>1, <2>2, Counting
  <2>4. \A i \in 0..n : E(i) \in Nat
    <3> HIDE DEF E, n
    <3> QED BY <1>7, <2>3
  <2> HIDE DEF E, n
  <2> QED BY <1>6, <2>4, Zenon
<1> HIDE DEF n
<1>10. Sum(s) = r[n]
  BY <1>1 DEF n, r
<1>11. Adds(r, s)
  BY <1>8, <1>9, <1>10 DEF n, Adds
<1> QED BY <1>11

LEMMA SumType ==
    ASSUME NEW s \in Seq(Entries) PROVE Sum(s) \in Nat
<1> PICK f : Adds(f, s)
  BY SumSteps
<1>1. Len(s) \in 0..Len(s)
  OBVIOUS
<1> QED BY <1>1 DEF Adds

LEMMA SumOfNothing == Sum(<<>>) = 0
<1>1. <<>> \in Seq(Entries) /\ Len(<<>>) = 0
  OBVIOUS
<1> PICK f : Adds(f, <<>>)
  BY <1>1, SumSteps
<1> QED BY <1>1 DEF Adds

(* Sequences that agree on their first m sizes add up alike so far. *)
LEMMA SumsAgree ==
    ASSUME NEW s \in Seq(Entries), NEW t \in Seq(Entries), NEW f, NEW g, Adds(f, s), Adds(g, t),
           NEW m \in Nat, m <= Len(s), m <= Len(t), \A i \in 1..m : s[i].size = t[i].size
    PROVE  f[m] = g[m]
<1> DEFINE C == {i \in 0..m : f[i] = g[i]}
<1>1. 0 \in C
  BY DEF Adds
<1>2. ASSUME NEW i \in 1..m, i - 1 \in C PROVE i \in C
  <2>1. i \in 1..Len(s) /\ i \in 1..Len(t) /\ i \in 0..m
    OBVIOUS
  <2>2. f[i] = f[i - 1] + s[i].size /\ g[i] = g[i - 1] + t[i].size
    BY <2>1 DEF Adds
  <2> QED BY <1>2, <2>1, <2>2
<1>3. \A i \in 0..m : i \in C
  <2> HIDE DEF C
  <2> QED BY <1>1, <1>2, Counting
<1> QED BY <1>3

LEMMA SumsEqual ==
    ASSUME NEW s \in Seq(Entries), NEW t \in Seq(Entries), Len(s) = Len(t),
           \A i \in 1..Len(s) : s[i].size = t[i].size
    PROVE  Sum(s) = Sum(t)
<1> PICK f : Adds(f, s)
  BY SumSteps
<1> PICK g : Adds(g, t)
  BY SumSteps
<1>1. f[Len(s)] = g[Len(s)]
  BY SumsAgree
<1> QED BY <1>1 DEF Adds

LEMMA SumAppend ==
    ASSUME NEW s \in Seq(Entries), NEW e \in Entries
    PROVE  Sum(Append(s, e)) = Sum(s) + e.size
<1> DEFINE t == Append(s, e)
<1>1. /\ t \in Seq(Entries) /\ Len(t) = Len(s) + 1 /\ Len(s) \in Nat
      /\ t[Len(t)] = e /\ \A i \in 1..Len(s) : t[i] = s[i]
  OBVIOUS
<1> HIDE DEF t
<1> PICK f : Adds(f, s)
  BY SumSteps
<1> PICK g : Adds(g, t)
  BY <1>1, SumSteps
<1>2. f[Len(s)] = g[Len(s)]
  BY <1>1, SumsAgree
<1>3. g[Len(t)] = g[Len(t) - 1] + t[Len(t)].size
  <2>1. Len(t) \in 1..Len(t)
    BY <1>1
  <2> QED BY <2>1 DEF Adds
<1>4. Sum(t) = Sum(s) + e.size
  BY <1>1, <1>2, <1>3 DEF Adds
<1> QED BY <1>4 DEF t

(* What stays and what goes add up to what was there. *)
LEMMA SumSplits ==
    ASSUME NEW s \in Seq(Entries), NEW S
    PROVE  Sum(s) = Sum(Only(s, Range(s) \ S)) + Sum(Only(s, S))
<1> DEFINE n == Len(s)
<1>0. n \in Nat /\ \A i \in 1..n : s[i] \in Entries /\ s[i].size \in Nat /\ s[i] \in Range(s)
  BY RangeIs, SizeType
<1> PICK h : Adds(h, s)
  BY SumSteps
<1> PICK f : Filters(f, Entries, s, Range(s) \ S)
  BY OnlySteps
<1> PICK g : Filters(g, Entries, s, S)
  BY OnlySteps
<1> DEFINE C == {i \in 0..n : h[i] = Sum(f[i]) + Sum(g[i])}
<1>1. 0 \in C
  BY <1>0, SumOfNothing DEF Filters, Adds
<1>2. ASSUME NEW i \in 1..n, i - 1 \in C PROVE i \in C
  <2>1. i - 1 \in 0..n /\ i \in 0..n
    BY <1>0
  <2>2. f[i - 1] \in Seq(Entries) /\ g[i - 1] \in Seq(Entries)
    BY <2>1 DEF Filters
  <2>3. Sum(f[i - 1]) \in Nat /\ Sum(g[i - 1]) \in Nat
    BY <2>2, SumType
  <2>4. h[i] = Sum(f[i - 1]) + Sum(g[i - 1]) + s[i].size
    BY <1>2 DEF Adds
  <2>5. CASE s[i] \in S
    <3>1. f[i] = f[i - 1] /\ g[i] = Append(g[i - 1], s[i])
      BY <2>5 DEF Filters
    <3>2. Sum(g[i]) = Sum(g[i - 1]) + s[i].size
      BY <1>0, <2>2, <3>1, SumAppend
    <3>3. s[i].size \in Nat
      BY <1>0
    <3>4. Sum(f[i]) = Sum(f[i - 1])
      BY <3>1, Zenon
    <3>5. h[i] = Sum(f[i]) + Sum(g[i])
      BY <2>3, <2>4, <3>2, <3>3, <3>4
    <3> QED BY <2>1, <3>5
  <2>6. CASE s[i] \notin S
    <3>1. g[i] = g[i - 1] /\ f[i] = Append(f[i - 1], s[i])
      BY <1>0, <2>6 DEF Filters
    <3>2. Sum(f[i]) = Sum(f[i - 1]) + s[i].size
      BY <1>0, <2>2, <3>1, SumAppend
    <3>3. s[i].size \in Nat
      BY <1>0
    <3>4. Sum(g[i]) = Sum(g[i - 1])
      BY <3>1, Zenon
    <3>5. h[i] = Sum(f[i]) + Sum(g[i])
      BY <2>3, <2>4, <3>2, <3>3, <3>4
    <3> QED BY <2>1, <3>5
  <2> QED BY <2>5, <2>6
<1>3. \A i \in 0..n : i \in C
  <2> HIDE DEF C, n
  <2> QED BY <1>0, <1>1, <1>2, Counting
<1>4. h[n] = Sum(f[n]) + Sum(g[n])
  BY <1>0, <1>3
<1> QED BY <1>4 DEF Filters, Adds

-----------------------------------------------------------------------------
(* What each operation makes of a sound cache. *)

LEMMA MinusIs ==
    ASSUME NEW a \in Nat, NEW b \in Nat
    PROVE  Minus(a, b) \in Nat /\ Minus(a, b) <= a /\ Minus(a + b, b) = a
BY DEF Minus

LEMMA KeysStayApart ==
    ASSUME NEW s \in Seq(Entries), KeysApart(s), NEW S
    PROVE  KeysApart(Only(s, S))
<1> DEFINE q == Only(s, S)
<1>1. q \in Seq(Entries) /\ Range(q) = Range(s) \cap S
  BY OnlyIs
<1>2. \A i, j \in 1..Len(s) : s[i] = s[j] => i = j
  BY DEF KeysApart
<1>3. \A i, j \in 1..Len(q) : q[i] = q[j] => i = j
  BY <1>2, OnlyIs
<1> HIDE DEF q
<1>4. SUFFICES ASSUME NEW i \in 1..Len(q), NEW j \in 1..Len(q), q[i].key = q[j].key
               PROVE  i = j
  BY DEF KeysApart, q
<1>5. q[i] \in Range(s) /\ q[j] \in Range(s)
  BY <1>1, RangeIs
<1>6. PICK a \in 1..Len(s) : s[a] = q[i]
  BY <1>5, RangeIs
<1>7. PICK b \in 1..Len(s) : s[b] = q[j]
  BY <1>5, RangeIs
<1>8. a = b
  BY <1>4, <1>6, <1>7 DEF KeysApart
<1> QED BY <1>3, <1>6, <1>7, <1>8

LEMMA NamesStayApart ==
    ASSUME NEW s \in Seq(Aliases), NamesApart(s), NEW S
    PROVE  NamesApart(Only(s, S))
<1> DEFINE q == Only(s, S)
<1>1. q \in Seq(Aliases) /\ Range(q) = Range(s) \cap S
  BY OnlyIs
<1>2. \A i, j \in 1..Len(s) : s[i] = s[j] => i = j
  BY DEF NamesApart
<1>3. \A i, j \in 1..Len(q) : q[i] = q[j] => i = j
  BY <1>2, OnlyIs
<1> HIDE DEF q
<1>4. SUFFICES ASSUME NEW i \in 1..Len(q), NEW j \in 1..Len(q), q[i].from = q[j].from
               PROVE  i = j
  BY DEF NamesApart, q
<1>5. q[i] \in Range(s) /\ q[j] \in Range(s)
  BY <1>1, RangeIs
<1>6. PICK a \in 1..Len(s) : s[a] = q[i]
  BY <1>5, RangeIs
<1>7. PICK b \in 1..Len(s) : s[b] = q[j]
  BY <1>5, RangeIs
<1>8. a = b
  BY <1>4, <1>6, <1>7 DEF NamesApart
<1> QED BY <1>3, <1>6, <1>7, <1>8

LEMMA CacheParts ==
    ASSUME NEW c, Sound(c)
    PROVE  /\ c.entries \in Seq(Entries) /\ c.aliases \in Seq(Aliases) /\ c.total \in Nat
           /\ Len(c.entries) \in Nat /\ Len(c.aliases) \in Nat
<1>1. c.entries \in Seq(Entries) /\ c.aliases \in Seq(Aliases) /\ c.total \in Nat
  BY DEF Sound, Caches
<1> QED BY <1>1

(* d is c without the entries gone, and without the aliases that name one of them. *)
Drops(d, c, gone) ==
    /\ Sound(d)
    /\ Range(d.entries) = Range(c.entries) \ gone
    /\ \A a : a \in Range(d.aliases)
              <=> a \in Range(c.aliases) /\ \A e \in gone : a.from # e.key /\ a.to # e.key
    /\ Len(d.entries) <= Len(c.entries) /\ Len(d.aliases) <= Len(c.aliases)
    /\ d.total <= c.total

LEMMA WithoutDrops ==
    ASSUME NEW c, Sound(c), NEW gone \in SUBSET Range(c.entries)
    PROVE  Drops(Without(c, gone), c, gone)
<1> DEFINE d == Without(c, gone)
           rest == Range(c.entries) \ gone
           keys == {e.key : e \in gone}
           others == {a \in Range(c.aliases) : {a.from, a.to} \cap keys = {}}
<1>0. c.entries \in Seq(Entries) /\ c.aliases \in Seq(Aliases)
  BY CacheParts
<1>1. /\ d.entries = Only(c.entries, rest)
      /\ d.aliases = Only(c.aliases, others)
      /\ d.total = Minus(c.total, Sum(Only(c.entries, gone)))
      /\ d = [entries |-> d.entries, aliases |-> d.aliases, total |-> d.total]
  BY DEF Without
<1> HIDE DEF d
<1>2. /\ d.entries \in Seq(Entries) /\ Len(d.entries) <= Len(c.entries)
      /\ Range(d.entries) = Range(c.entries) \cap rest
  BY <1>0, <1>1, OnlyIs
<1>3. /\ d.aliases \in Seq(Aliases) /\ Len(d.aliases) <= Len(c.aliases)
      /\ Range(d.aliases) = Range(c.aliases) \cap others
  <2> HIDE DEF others
  <2> QED BY <1>0, <1>1, OnlyIs
<1>4. Range(d.entries) = Range(c.entries) \ gone
  BY <1>2
<1>5. \A a : a \in Range(d.aliases)
            <=> a \in Range(c.aliases) /\ \A e \in gone : a.from # e.key /\ a.to # e.key
  BY <1>3
<1>6. d.total = Sum(d.entries) /\ d.total \in Nat /\ d.total <= c.total
  <2>1. Only(c.entries, gone) \in Seq(Entries)
    BY <1>0, OnlyIs
  <2>2. Sum(d.entries) \in Nat /\ Sum(Only(c.entries, gone)) \in Nat
    BY <1>2, <2>1, SumType
  <2>3. c.total = Sum(d.entries) + Sum(Only(c.entries, gone))
    <3>1. Sum(c.entries) = Sum(d.entries) + Sum(Only(c.entries, gone))
      BY <1>0, <1>1, SumSplits
    <3> QED BY <3>1 DEF Sound
  <2> QED BY <1>1, <2>2, <2>3, MinusIs
<1>7. KeysApart(d.entries) /\ NamesApart(d.aliases)
  <2>1. KeysApart(c.entries) /\ NamesApart(c.aliases)
    BY DEF Sound
  <2> QED BY <1>0, <1>1, <2>1, KeysStayApart, NamesStayApart
<1>8. AliasesLead(d)
  <2> SUFFICES ASSUME NEW a \in Range(d.aliases) PROVE a.from # a.to /\ Held(d, a.to)
    BY DEF AliasesLead
  <2>1. a \in Range(c.aliases) /\ \A e \in gone : a.to # e.key
    BY <1>5
  <2>2. a.from # a.to /\ Held(c, a.to)
    BY <2>1 DEF Sound, AliasesLead
  <2>3. PICK e \in Range(c.entries) : e.key = a.to
    BY <2>2 DEF Held
  <2>4. e \in Range(d.entries)
    BY <1>4, <2>1, <2>3
  <2> QED BY <2>2, <2>3, <2>4 DEF Held
<1>9. d \in Caches
  BY <1>1, <1>2, <1>3, <1>6 DEF Caches
<1>10. Sound(d)
  BY <1>6, <1>7, <1>8, <1>9 DEF Sound
<1>11. Drops(d, c, gone)
  BY <1>2, <1>3, <1>4, <1>5, <1>6, <1>10 DEF Drops
<1> QED BY <1>11 DEF d

(* An entry of k is put at the end, in the place of the one that was there. *)
Replaced(c, k, e) == Append(Others(c, k), e)

LEMMA OthersAre ==
    ASSUME NEW c, Sound(c), NEW k
    PROVE  /\ Others(c, k) \in Seq(Entries) /\ KeysApart(Others(c, k))
           /\ Range(Others(c, k)) = Range(c.entries) \ Keyed(c, k)
           /\ Len(Others(c, k)) \in Nat /\ Len(Others(c, k)) <= Len(c.entries)
           /\ ~Held(c, k) => Sum(Others(c, k)) = c.total
           /\ Held(c, k) => /\ EntryOf(c, k) \in Range(c.entries)
                            /\ EntryOf(c, k) \in Entries /\ EntryOf(c, k).key = k
                            /\ Len(Others(c, k)) < Len(c.entries)
                            /\ c.total = Sum(Others(c, k)) + EntryOf(c, k).size
<1> DEFINE s == c.entries
           K == Keyed(c, k)
           o == Others(c, k)
           e == EntryOf(c, k)
<1>0. s \in Seq(Entries) /\ Len(s) \in Nat /\ KeysApart(s) /\ c.total = Sum(s)
  BY CacheParts DEF Sound
<1>1. o = Only(s, Range(s) \ K)
  BY DEF Others
<1>2. K \subseteq Range(s) /\ (Held(c, k) <=> K # {})
  BY DEF Keyed, Held
<1> HIDE DEF s, K, o, e
<1>3. /\ o \in Seq(Entries) /\ Len(o) \in Nat /\ Len(o) <= Len(s)
      /\ Range(o) = Range(s) \cap (Range(s) \ K)
      /\ (\E i \in 1..Len(s) : s[i] \notin Range(s) \ K) => Len(o) < Len(s)
  BY <1>0, <1>1, OnlyIs
<1>4. KeysApart(o)
  BY <1>0, <1>1, KeysStayApart
<1>5. Range(o) = Range(s) \ K
  BY <1>3
<1> DEFINE q == Only(s, K)
<1>6. /\ q \in Seq(Entries) /\ Range(q) = Range(s) \cap K
      /\ \A i, j \in 1..Len(q) : q[i] = q[j] => i = j
  <2>1. \A i, j \in 1..Len(s) : s[i] = s[j] => i = j
    BY <1>0 DEF KeysApart
  <2> QED BY <1>0, <2>1, OnlyIs
<1>7. Sum(s) = Sum(o) + Sum(q) /\ Sum(o) \in Nat
  BY <1>0, <1>1, <1>3, SumSplits, SumType
<1> HIDE DEF q
<1>8. ASSUME ~Held(c, k) PROVE Sum(o) = c.total
  <2>1. \A i \in 1..Len(q) : q[i] \in Range(q)
    BY <1>6, RangeIs
  <2>2. Range(q) = {}
    BY <1>2, <1>6, <1>8
  <2>3. q = <<>>
    BY <1>6, <2>1, <2>2
  <2> QED BY <1>0, <1>7, <2>3, SumOfNothing
<1>9. ASSUME Held(c, k)
      PROVE  /\ e \in Range(s) /\ e \in Entries /\ e.key = k
             /\ Len(o) < Len(s) /\ c.total = Sum(o) + e.size
  <2>1. e \in K
    BY <1>2, <1>9 DEF EntryOf, e, K
  <2>2. e \in Range(s) /\ e.key = k /\ e \in Entries
    BY <1>0, <1>2, <2>1, RangeIs DEF Keyed, K
  <2>3. PICK i \in 1..Len(s) : s[i] = e
    BY <1>0, <2>2, RangeIs
  <2>4. Len(o) < Len(s)
    BY <1>3, <2>1, <2>3
  <2>5. \A x \in K : x = e
    <3> SUFFICES ASSUME NEW x \in K PROVE x = e
      OBVIOUS
    <3>1. x \in Range(s) /\ x.key = k
      BY <1>2 DEF Keyed, K
    <3>2. PICK j \in 1..Len(s) : s[j] = x
      BY <1>0, <3>1, RangeIs
    <3>3. i = j
      BY <1>0, <2>2, <2>3, <3>1, <3>2 DEF KeysApart
    <3> QED BY <2>3, <3>2, <3>3
  <2>6. \A j \in 1..Len(q) : q[j] = e
    <3> SUFFICES ASSUME NEW j \in 1..Len(q) PROVE q[j] = e
      OBVIOUS
    <3>1. q[j] \in Range(q)
      BY <1>6, RangeIs
    <3> QED BY <1>6, <2>5, <3>1
  <2>7. PICK j \in 1..Len(q) : q[j] = e
    <3>1. e \in Range(q)
      BY <1>6, <2>1, <2>2
    <3> QED BY <1>6, <3>1, RangeIs
  <2>8. Len(q) = 1
    <3>1. Len(q) \in Nat
      BY <1>6
    <3>2. 1 \in 1..Len(q) /\ Len(q) \in 1..Len(q)
      BY <2>7, <3>1
    <3> QED BY <1>6, <2>6, <3>2
  <2>9. Sum(q) = e.size
    <3>1. <<>> \in Seq(Entries) /\ <<e>> \in Seq(Entries) /\ Append(<<>>, e) = <<e>>
      BY <2>2
    <3>2. q = <<e>>
      BY <1>6, <2>6, <2>8
    <3>3. Sum(Append(<<>>, e)) = 0 + e.size
      BY <2>2, <3>1, SumAppend, SumOfNothing
    <3>4. e.size \in Nat
      BY <2>2 DEF Entries
    <3> QED BY <3>1, <3>2, <3>3, <3>4
  <2> QED BY <1>0, <1>7, <2>2, <2>4, <2>9
<1> QED BY <1>3, <1>4, <1>5, <1>8, <1>9 DEF s, K, o, e

LEMMA ReplacedIsSound ==
    ASSUME NEW c, Sound(c), NEW k \in Keys, NEW e \in Entries, e.key = k, NEW d \in Caches,
           d.entries = Replaced(c, k, e), d.aliases = c.aliases,
           d.total = Sum(Others(c, k)) + e.size
    PROVE  /\ Sound(d)
           /\ \A q : Held(d, q) <=> Held(c, q) \/ q = k
           /\ Held(c, k) => Len(d.entries) <= Len(c.entries)
<1> DEFINE o == Others(c, k)
           t == d.entries
<1>1. /\ o \in Seq(Entries) /\ KeysApart(o) /\ Len(o) \in Nat
      /\ Range(o) = Range(c.entries) \ Keyed(c, k)
      /\ Held(c, k) => Len(o) < Len(c.entries)
  BY OthersAre
<1>2. t = Append(o, e)
  BY DEF Replaced
<1>3. Len(c.entries) \in Nat
  BY CacheParts
<1> HIDE DEF o, t
<1>4. /\ t \in Seq(Entries) /\ Len(t) = Len(o) + 1 /\ t[Len(t)] = e
      /\ \A i \in 1..Len(o) : t[i] = o[i]
  BY <1>1, <1>2
<1>5. \A i \in 1..Len(t) : i = Len(t) \/ i \in 1..Len(o)
  BY <1>1, <1>4
<1>6. \A i \in 1..Len(o) : o[i] \in Range(c.entries) /\ o[i].key # k
  <2> SUFFICES ASSUME NEW i \in 1..Len(o) PROVE o[i] \in Range(c.entries) /\ o[i].key # k
    OBVIOUS
  <2>1. o[i] \in Range(o)
    BY <1>1, RangeIs
  <2> QED BY <1>1, <2>1 DEF Keyed
<1>7. KeysApart(t)
  BY <1>1, <1>4, <1>5, <1>6 DEF KeysApart
<1>8. ASSUME NEW q PROVE Held(d, q) <=> Held(c, q) \/ q = k
  <2>1. ASSUME Held(d, q) PROVE Held(c, q) \/ q = k
    <3>1. PICK i \in 1..Len(t) : t[i].key = q
      BY <1>4, <2>1, RangeIs DEF Held, t
    <3> QED BY <1>4, <1>5, <1>6, <3>1 DEF Held
  <2>2. ASSUME q = k PROVE Held(d, q)
    <3>1. Len(t) \in 1..Len(t)
      BY <1>1, <1>4
    <3>2. e \in Range(t)
      BY <1>4, <3>1, RangeIs
    <3> QED BY <2>2, <3>2 DEF Held, t
  <2>3. ASSUME Held(c, q), q # k PROVE Held(d, q)
    <3>1. PICK x \in Range(c.entries) : x.key = q
      BY <2>3 DEF Held
    <3>2. x \in Range(o)
      BY <1>1, <2>3, <3>1 DEF Keyed
    <3>3. PICK i \in 1..Len(o) : o[i] = x
      BY <1>1, <3>2, RangeIs
    <3>4. i \in 1..Len(t) /\ t[i] = x
      BY <1>1, <1>4, <3>3
    <3>5. x \in Range(t)
      BY <1>4, <3>4, RangeIs
    <3> QED BY <3>1, <3>5 DEF Held, t
  <2> QED BY <2>1, <2>2, <2>3
<1>9. AliasesLead(d)
  BY <1>8 DEF AliasesLead, Sound
<1>10. d.total = Sum(t)
  BY <1>1, <1>2, SumAppend DEF o
<1>11. Sound(d)
  BY <1>7, <1>9, <1>10 DEF Sound, t
<1>12. Held(c, k) => Len(d.entries) <= Len(c.entries)
  BY <1>1, <1>3, <1>4 DEF t
<1> QED BY <1>8, <1>11, <1>12

(* Sound but for aliases that lead to nothing, which PruneAliases takes away. *)
SoundBut(c) ==
    /\ c \in Caches
    /\ KeysApart(c.entries) /\ NamesApart(c.aliases)
    /\ \A a \in Range(c.aliases) : a.from # a.to
    /\ c.total = Sum(c.entries)

LEMMA PruneIsSound ==
    ASSUME NEW c, SoundBut(c)
    PROVE  LET d == PruneAliases(c)
           IN  /\ Sound(d) /\ d.entries = c.entries /\ d.total = c.total
               /\ Range(d.aliases) \subseteq Range(c.aliases)
               /\ Len(d.aliases) <= MaxAliases
<1> DEFINE S == {a \in Range(c.aliases) : Held(c, a.to)}
           live == Only(c.aliases, S)
           over == Minus(Len(live), MaxAliases)
           left == SubSeq(live, over + 1, Len(live))
           d == PruneAliases(c)
<1>0. c.aliases \in Seq(Aliases) /\ c \in Caches /\ MaxAliases \in Nat
  BY LimitsAssumption DEF SoundBut, Caches
<1>1. d = [c EXCEPT !.aliases = left]
  BY DEF PruneAliases
<1> HIDE DEF d, left, over, live, S
<1>2. /\ live \in Seq(Aliases) /\ Len(live) \in Nat
      /\ Range(live) = Range(c.aliases) \cap S
  BY <1>0, OnlyIs DEF live
<1>3. NamesApart(live)
  BY <1>0, NamesStayApart DEF live, SoundBut
<1>4. over \in Nat /\ over <= Len(live) /\ Len(live) - over <= MaxAliases
  BY <1>0, <1>2 DEF over, Minus
<1>5. /\ left \in Seq(Aliases) /\ Len(left) = Len(live) - over
      /\ \A i \in 1..Len(left) : left[i] = live[over + i]
  <2>1. over + 1 \in 1..(Len(live) + 1)
    BY <1>2, <1>4
  <2>2. /\ left \in Seq(Aliases)
        /\ Len(left) = IF over + 1 <= Len(live) THEN Len(live) - (over + 1) + 1 ELSE 0
        /\ \A i \in 1..(Len(live) - (over + 1) + 1) : left[i] = live[over + 1 + i - 1]
    <3>1. \A i \in (over + 1)..Len(live) : live[i] \in Aliases
      BY <1>2, <1>4
    <3> QED BY <1>2, <1>4, <3>1, SubSeqProperties DEF left
  <2>3. Len(left) = Len(live) - over
    BY <1>2, <1>4, <2>2
  <2>4. \A i \in 1..Len(left) : over + 1 + i - 1 = over + i /\ i \in 1..(Len(live) - (over + 1) + 1)
    BY <1>2, <1>4, <2>3
  <2> QED BY <2>2, <2>3, <2>4
<1>6. \A i \in 1..Len(left) : over + i \in 1..Len(live)
  BY <1>2, <1>4, <1>5
<1>7. NamesApart(left)
  BY <1>3, <1>4, <1>5, <1>6 DEF NamesApart
<1>8. Range(left) \subseteq Range(c.aliases) \cap S
  <2> SUFFICES ASSUME NEW a \in Range(left) PROVE a \in Range(live)
    BY <1>2
  <2>1. PICK i \in 1..Len(left) : left[i] = a
    BY <1>5, RangeIs
  <2> QED BY <1>2, <1>5, <1>6, <2>1, RangeIs
<1>9. d.entries = c.entries /\ d.total = c.total /\ d.aliases = left /\ d \in Caches
  <2>1. c = [entries |-> c.entries, aliases |-> c.aliases, total |-> c.total]
    BY <1>0 DEF Caches
  <2> QED BY <1>0, <1>1, <1>5, <2>1 DEF Caches
<1>10. AliasesLead(d)
  <2> SUFFICES ASSUME NEW a \in Range(left) PROVE a.from # a.to /\ Held(d, a.to)
    BY <1>9 DEF AliasesLead
  <2>1. a \in Range(c.aliases) /\ Held(c, a.to)
    BY <1>8 DEF S
  <2> QED BY <1>9, <2>1 DEF SoundBut, Held
<1>11. Sound(d)
  BY <1>7, <1>9, <1>10 DEF Sound, SoundBut
<1>12. Len(left) <= MaxAliases
  BY <1>4, <1>5
<1> QED BY <1>8, <1>9, <1>11, <1>12 DEF d

LEMMA SoundIsSoundBut == ASSUME NEW c, Sound(c) PROVE SoundBut(c)
BY DEF Sound, SoundBut, AliasesLead

(* d is c with an alias registered. *)
Registers(d, c, from, to) ==
    /\ Sound(d) /\ d.entries = c.entries /\ d.total = c.total
    /\ Range(d.aliases) \subseteq Range(c.aliases) \cup {[from |-> from, to |-> to]}
    /\ Len(c.aliases) <= MaxAliases => Len(d.aliases) <= MaxAliases

LEMMA RegisterAliasRegisters ==
    ASSUME NEW c, Sound(c), NEW from \in Keys, NEW to \in Keys
    PROVE  Registers(RegisterAlias(c, from, to), c, from, to)
<1>1. CASE from = to
  BY <1>1 DEF RegisterAlias, Registers
<1>2. CASE from # to
  <2> DEFINE new == [from |-> from, to |-> to]
             known == \E a \in Range(c.aliases) : a.from = from
             moved == [i \in DOMAIN c.aliases |-> IF c.aliases[i].from = from THEN new ELSE c.aliases[i]]
             as == IF known THEN moved ELSE Append(c.aliases, new)
             d == [c EXCEPT !.aliases = as]
  <2>0. /\ c.aliases \in Seq(Aliases) /\ Len(c.aliases) \in Nat
        /\ c \in Caches /\ NamesApart(c.aliases) /\ new \in Aliases
    BY CacheParts DEF Sound, Aliases
  <2>1. RegisterAlias(c, from, to) = PruneAliases(d)
    BY <1>2, Zenon DEF RegisterAlias
  <2>2. /\ as \in Seq(Aliases) /\ NamesApart(as)
        /\ Range(as) \subseteq Range(c.aliases) \cup {new}
    <3>1. CASE known
      <4>1. /\ as \in Seq(Aliases) /\ Len(as) = Len(c.aliases)
            /\ \A i \in 1..Len(as) : as[i] = IF c.aliases[i].from = from THEN new ELSE c.aliases[i]
        BY <2>0, <3>1
      <4>2. new.from = from
        OBVIOUS
      <4> HIDE DEF as, new, known
      <4>3. \A i \in 1..Len(as) : as[i].from = c.aliases[i].from
        BY <4>1, <4>2
      <4>4. NamesApart(as)
        BY <2>0, <4>1, <4>3 DEF NamesApart
      <4>5. Range(as) \subseteq Range(c.aliases) \cup {new}
        <5> SUFFICES ASSUME NEW a \in Range(as), a # new PROVE a \in Range(c.aliases)
          OBVIOUS
        <5>1. PICK i \in 1..Len(as) : as[i] = a
          BY <4>1, RangeIs
        <5>2. a = c.aliases[i] /\ i \in 1..Len(c.aliases)
          BY <4>1, <5>1
        <5> QED BY <2>0, <5>2, RangeIs
      <4> QED BY <4>1, <4>4, <4>5
    <3>2. CASE ~known
      <4>1. /\ as \in Seq(Aliases) /\ Len(as) = Len(c.aliases) + 1 /\ as[Len(as)] = new
            /\ \A i \in 1..Len(c.aliases) : as[i] = c.aliases[i]
        BY <2>0, <3>2
      <4>2. new.from = from
        OBVIOUS
      <4>3. \A i \in 1..Len(c.aliases) : c.aliases[i].from # from
        BY <2>0, <3>2, RangeIs
      <4> HIDE DEF as, new, known
      <4>4. \A i \in 1..Len(as) : i = Len(as) \/ i \in 1..Len(c.aliases)
        BY <2>0, <4>1
      <4>5. NamesApart(as)
        BY <2>0, <4>1, <4>2, <4>3, <4>4 DEF NamesApart
      <4>6. Range(as) \subseteq Range(c.aliases) \cup {new}
        <5> SUFFICES ASSUME NEW a \in Range(as), a # new PROVE a \in Range(c.aliases)
          OBVIOUS
        <5>1. PICK i \in 1..Len(as) : as[i] = a
          BY <4>1, RangeIs
        <5>2. a = c.aliases[i] /\ i \in 1..Len(c.aliases)
          BY <4>1, <4>4, <5>1
        <5> QED BY <2>0, <5>2, RangeIs
      <4> QED BY <4>1, <4>5, <4>6
    <3> QED BY <3>1, <3>2
  <2> HIDE DEF as
  <2>3. d.entries = c.entries /\ d.total = c.total /\ d.aliases = as /\ d \in Caches
    <3>1. c = [entries |-> c.entries, aliases |-> c.aliases, total |-> c.total]
      BY <2>0 DEF Caches
    <3> QED BY <2>0, <2>2, <3>1 DEF Caches
  <2> HIDE DEF d
  <2>4. SoundBut(d)
    <3>1. \A a \in Range(as) : a.from # a.to
      <4>1. \A a \in Range(c.aliases) : a.from # a.to
        BY DEF Sound, AliasesLead
      <4>2. new.from # new.to
        BY <1>2
      <4> HIDE DEF new
      <4> QED BY <2>2, <4>1, <4>2
    <3> QED BY <2>2, <2>3, <3>1 DEF SoundBut, Sound
  <2> DEFINE p == PruneAliases(d)
  <2>5. /\ Sound(p) /\ p.entries = d.entries /\ p.total = d.total
        /\ Range(p.aliases) \subseteq Range(d.aliases) /\ Len(p.aliases) <= MaxAliases
    BY <2>4, PruneIsSound
  <2> HIDE DEF p
  <2>6. Registers(p, c, from, to)
    BY <2>2, <2>3, <2>5 DEF Registers
  <2> QED BY <2>1, <2>6 DEF p
<1> QED BY <1>1, <1>2

(* d is c with some of its entries and aliases gone, within the limits of the file. *)
Evicts(d, c) ==
    /\ Sound(d)
    /\ \A q : Held(d, q) => Held(c, q)
    /\ Range(d.aliases) \subseteq Range(c.aliases)
    /\ d.total <= MaxBytes /\ Len(d.entries) <= MaxEntries /\ Len(d.aliases) <= MaxAliases

LEMMA DropsHolds ==
    ASSUME NEW c, NEW d, NEW gone, Drops(d, c, gone), NEW q, Held(d, q)
    PROVE  Held(c, q)
BY DEF Drops, Held

LEMMA FitsIs ==
    ASSUME NEW c, Sound(c), Fits(c)
    PROVE  c.total <= MaxBytes /\ Len(c.entries) <= MaxEntries
<1>1. CASE c.entries = <<>>
  <2>1. c.total = 0 /\ Len(c.entries) = 0
    BY <1>1, SumOfNothing DEF Sound
  <2> QED BY <2>1, LimitsAssumption
<1>2. CASE c.entries # <<>>
  BY <1>2 DEF Fits
<1> QED BY <1>1, <1>2

LEMMA NewestDrops ==
    ASSUME NEW c, Sound(c), NEW n \in 0..Len(c.entries)
    PROVE  /\ Drops(Newest(c, n), c, Range(SubSeq(c.entries, 1, n)))
           /\ n = Len(c.entries) => Fits(Newest(c, n))
<1> DEFINE s == c.entries
           old == SubSeq(s, 1, n)
           gone == Range(old)
           d == Newest(c, n)
           left == d.entries
<1>0. s \in Seq(Entries) /\ Len(s) \in Nat /\ n \in 0..Len(s)
  BY CacheParts
<1>1. old \in Seq(Entries) /\ Len(old) = n /\ \A i \in 1..n : old[i] = s[i]
  <2>1. \A i \in 1..n : s[i] \in Entries
    BY <1>0
  <2> HIDE DEF s
  <2>2. /\ SubSeq(s, 1, n) \in Seq(Entries)
        /\ Len(SubSeq(s, 1, n)) = IF 1 <= n THEN n - 1 + 1 ELSE 0
        /\ \A i \in 1..(n - 1 + 1) : SubSeq(s, 1, n)[i] = s[1 + i - 1]
    BY <1>0, <2>1, SubSeqProperties
  <2>3. \A i \in 1..n : i \in 1..(n - 1 + 1) /\ 1 + i - 1 = i
    BY <1>0
  <2> QED BY <1>0, <2>2, <2>3
<1>2. d = Without(c, gone)
  BY DEF Newest
<1> HIDE DEF s, old, gone, d, left
<1>3. gone \in SUBSET Range(s)
  <2> SUFFICES ASSUME NEW x \in gone PROVE x \in Range(s)
    OBVIOUS
  <2>1. PICK i \in 1..n : s[i] = x
    BY <1>1, RangeIs DEF gone
  <2> QED BY <1>0, <2>1, RangeIs
<1>4. Drops(d, c, gone)
  BY <1>2, <1>3, WithoutDrops DEF s
<1>5. ASSUME n = Len(s) PROVE Fits(d)
  <2>1. Range(s) \subseteq gone
    <3> SUFFICES ASSUME NEW x \in Range(s) PROVE x \in gone
      OBVIOUS
    <3>1. PICK i \in 1..n : s[i] = x
      BY <1>0, <1>5, RangeIs
    <3> QED BY <1>1, <3>1, RangeIs DEF gone
  <2>2. left \in Seq(Entries) /\ Range(left) = {}
    <3>1. left \in Seq(Entries)
      BY <1>4, CacheParts DEF Drops, left
    <3>2. Range(left) = Range(s) \ gone
      BY <1>4 DEF Drops, left, s
    <3> QED BY <2>1, <3>1, <3>2
  <2>3. \A i \in 1..Len(left) : left[i] \in Range(left)
    BY <2>2, RangeIs
  <2>4. left = <<>>
    BY <2>2, <2>3
  <2> QED BY <2>4 DEF Fits, left
<1>6. n = Len(c.entries) => Fits(Newest(c, n))
  BY <1>5 DEF s, d
<1> QED BY <1>4, <1>6 DEF gone, d, old, s

LEMMA EvictOverflowEvicts ==
    ASSUME NEW c, Sound(c)
    PROVE  Evicts(EvictOverflow(c), c)
<1> DEFINE past == {e \in Range(c.entries) : e.age > Ttl}
           fresh == Without(c, past)
           Enough(n) == Fits(Newest(fresh, n)) /\ \A m \in 0..(n - 1) : ~Fits(Newest(fresh, m))
           least == CHOOSE n \in 0..Len(fresh.entries) : Enough(n)
           d == Newest(fresh, least)
           p == PruneAliases(d)
<1>1. EvictOverflow(c) = p
  BY Zenon DEF EvictOverflow
<1>2. Drops(fresh, c, past)
  <2>1. past \in SUBSET Range(c.entries)
    OBVIOUS
  <2> HIDE DEF past
  <2> QED BY <2>1, WithoutDrops
<1> HIDE DEF p, d, least, fresh, past
<1>3. Sound(fresh) /\ Len(fresh.entries) \in Nat
  BY <1>2, CacheParts DEF Drops
<1>4. least \in 0..Len(fresh.entries) /\ Fits(d)
  <2> DEFINE N == Len(fresh.entries)
             S == {n \in 0..N : Fits(Newest(fresh, n))}
  <2>1. N \in S
    BY <1>3, NewestDrops
  <2>2. S \in SUBSET Nat /\ S # {}
    BY <2>1
  <2>3. PICK n \in S : \A m \in S : n <= m
    <3> HIDE DEF S
    <3> QED BY <2>2, LeastExists
  <2>4. \A m \in 0..(n - 1) : m \notin S /\ m \in 0..N
    BY <1>3, <2>3
  <2>5. n \in 0..N /\ Enough(n)
    BY <2>3, <2>4
  <2> HIDE DEF Enough, S, N
  <2>6. least \in 0..N /\ Enough(least)
    BY <2>5 DEF least, N
  <2> QED BY <2>6 DEF Enough, N, d
<1>5. Drops(d, fresh, Range(SubSeq(fresh.entries, 1, least)))
  BY <1>3, <1>4, NewestDrops DEF d
<1>6. /\ Sound(d) /\ Range(d.aliases) \subseteq Range(fresh.aliases)
      /\ d.total <= MaxBytes /\ Len(d.entries) <= MaxEntries
  BY <1>4, <1>5, FitsIs DEF Drops
<1>7. /\ Sound(p) /\ p.entries = d.entries /\ p.total = d.total
      /\ Range(p.aliases) \subseteq Range(d.aliases) /\ Len(p.aliases) <= MaxAliases
  BY <1>6, SoundIsSoundBut, PruneIsSound DEF p
<1>8. \A q : Held(p, q) => Held(c, q)
  <2> SUFFICES ASSUME NEW q, Held(p, q) PROVE Held(c, q)
    OBVIOUS
  <2>1. Held(d, q)
    BY <1>7 DEF Held
  <2> QED BY <1>2, <1>5, <2>1, DropsHolds
<1>9. Range(fresh.aliases) \subseteq Range(c.aliases)
  BY <1>2 DEF Drops
<1>10. Evicts(p, c)
  BY <1>6, <1>7, <1>8, <1>9 DEF Evicts
<1> QED BY <1>1, <1>10

-----------------------------------------------------------------------------
(* Puts and lookups. *)

LEMMA LimitTypes ==
    /\ MaxEntries \in Nat /\ MaxAliases \in Nat /\ MaxBytes \in Nat
    /\ MaxWaiterKeys \in Nat \ {0} /\ MaxWaitersPerKey \in Nat \ {0}
BY LimitsAssumption

Small(c) == c.total <= MaxBytes /\ Len(c.entries) <= MaxEntries /\ Len(c.aliases) <= MaxAliases

LEMMA SmallStays ==
    ASSUME NEW c, NEW d, Sound(c), Sound(d), Small(c), d.total <= c.total,
           Len(d.entries) <= Len(c.entries), Len(d.aliases) <= Len(c.aliases)
    PROVE  Small(d)
<1>1. \A a, b, m \in Nat : a <= b /\ b <= m => a <= m
  OBVIOUS
<1>2. /\ c.total \in Nat /\ Len(c.entries) \in Nat /\ Len(c.aliases) \in Nat
      /\ d.total \in Nat /\ Len(d.entries) \in Nat /\ Len(d.aliases) \in Nat
  BY CacheParts
<1>3. d.total <= MaxBytes
  BY <1>1, <1>2, LimitTypes DEF Small
<1>4. Len(d.entries) <= MaxEntries
  BY <1>1, <1>2, LimitTypes DEF Small
<1>5. Len(d.aliases) <= MaxAliases
  BY <1>1, <1>2, LimitTypes DEF Small
<1> QED BY <1>3, <1>4, <1>5 DEF Small

LEMMA StoredIs ==
    ASSUME NEW c, Sound(c), NEW k \in Keys, NEW size \in Nat
    PROVE  /\ Sound(Stored(c, k, size)) /\ Stored(c, k, size).aliases = c.aliases
           /\ \A q : Held(Stored(c, k, size), q) <=> Held(c, q) \/ q = k
<1> DEFINE new == [key |-> k, size |-> size, age |-> 0]
           less == IF Held(c, k) THEN Minus(c.total, EntryOf(c, k).size) ELSE c.total
           d == Stored(c, k, size)
<1>0. c \in Caches /\ new \in Entries /\ new.key = k /\ new.size = size
  BY DEF Sound, Entries
<1>1. d = [c EXCEPT !.entries = Append(Others(c, k), new), !.total = less + size]
  BY DEF Stored
<1>2. less = Sum(Others(c, k)) /\ less \in Nat
  <2>1. Sum(Others(c, k)) \in Nat
    BY OthersAre, SumType
  <2>2. CASE Held(c, k)
    <3>1. c.total = Sum(Others(c, k)) + EntryOf(c, k).size /\ EntryOf(c, k) \in Entries
      BY <2>2, OthersAre
    <3>2. EntryOf(c, k).size \in Nat
      BY <3>1 DEF Entries
    <3> QED BY <2>1, <2>2, <3>1, <3>2, MinusIs
  <2>3. CASE ~Held(c, k)
    BY <2>1, <2>3, OthersAre
  <2> QED BY <2>2, <2>3
<1> HIDE DEF d, less, new
<1>3. /\ d.entries = Append(Others(c, k), new) /\ d.total = less + size
      /\ d.aliases = c.aliases /\ d \in Caches
  <2>1. Append(Others(c, k), new) \in Seq(Entries)
    BY <1>0, OthersAre
  <2>2. less + size \in Nat
    BY <1>2
  <2>3. c = [entries |-> c.entries, aliases |-> c.aliases, total |-> c.total]
    BY <1>0 DEF Caches
  <2> QED BY <1>0, <1>1, <2>1, <2>2, <2>3 DEF Caches
<1>4. d.entries = Replaced(c, k, new) /\ d.total = Sum(Others(c, k)) + new.size
  BY <1>0, <1>2, <1>3 DEF Replaced
<1>5. Sound(d) /\ \A q : Held(d, q) <=> Held(c, q) \/ q = k
  BY <1>0, <1>3, <1>4, ReplacedIsSound
<1> QED BY <1>3, <1>5 DEF d

(* d holds what c holds, in another order and perhaps renewed. *)
Alike(d, c) ==
    /\ Sound(d) /\ d.aliases = c.aliases /\ d.total = c.total
    /\ Len(d.entries) <= Len(c.entries)
    /\ \A q : Held(d, q) <=> Held(c, q)

LEMMA MovedIsAlike ==
    ASSUME NEW c, Sound(c), NEW k \in Keys, Held(c, k), NEW e \in Entries,
           e.key = k, e.size = EntryOf(c, k).size
    PROVE  Alike([c EXCEPT !.entries = Replaced(c, k, e)], c)
<1> DEFINE d == [c EXCEPT !.entries = Replaced(c, k, e)]
<1>0. c \in Caches
  BY DEF Sound
<1>1. Replaced(c, k, e) \in Seq(Entries)
  BY OthersAre DEF Replaced
<1>2. /\ d.entries = Replaced(c, k, e) /\ d.total = c.total /\ d.aliases = c.aliases
      /\ d \in Caches
  <2>1. c = [entries |-> c.entries, aliases |-> c.aliases, total |-> c.total]
    BY <1>0 DEF Caches
  <2> QED BY <1>0, <1>1, <2>1 DEF Caches
<1> HIDE DEF d
<1>3. d.total = Sum(Others(c, k)) + e.size
  BY <1>2, OthersAre
<1>4. /\ Sound(d)
      /\ \A q : Held(d, q) <=> Held(c, q) \/ q = k
      /\ Held(c, k) => Len(d.entries) <= Len(c.entries)
  BY <1>2, <1>3, ReplacedIsSound
<1>5. Alike(d, c)
  BY <1>2, <1>4 DEF Alike
<1> QED BY <1>5 DEF d

LEMMA TouchedIsAlike ==
    ASSUME NEW c, Sound(c), NEW k \in Keys, Held(c, k)
    PROVE  Alike(Touched(c, k), c)
<1>1. EntryOf(c, k) \in Entries /\ EntryOf(c, k).key = k
  BY OthersAre
<1>2. Touched(c, k) = [c EXCEPT !.entries = Replaced(c, k, EntryOf(c, k))]
  BY DEF Touched, Replaced
<1> QED BY <1>1, <1>2, MovedIsAlike

LEMMA RenewedIsAlike ==
    ASSUME NEW c, Sound(c), NEW k \in Keys, Held(c, k)
    PROVE  Alike(Renewed(c, k), c)
<1> DEFINE e == EntryOf(c, k)
           new == [e EXCEPT !.age = 0]
<1>1. e \in Entries /\ e.key = k
  BY OthersAre
<1>2. new \in Entries /\ new.key = k /\ new.size = e.size
  BY <1>1 DEF Entries
<1>3. Renewed(c, k) = [c EXCEPT !.entries = Replaced(c, k, new)]
  BY DEF Renewed, Replaced
<1> HIDE DEF new
<1> QED BY <1>2, <1>3, MovedIsAlike

(* The cache after a put of k, which may have got the alias from. *)
Filled(d, c, k, from) ==
    /\ Sound(d) /\ Small(d)
    /\ \A q : Held(d, q) => Held(c, q) \/ q = k
    /\ Range(d.aliases) \subseteq Range(c.aliases) \cup {[from |-> from, to |-> k]}

LEMMA WithBytesFills ==
    ASSUME NEW c, Sound(c), Small(c), NEW k \in Keys, NEW size \in Nat, NEW from \in Keys
    PROVE  Filled(WithBytes(c, k, size, from), c, k, from)
<1>1. CASE Refreshes(c, k, size)
  <2> DEFINE a == Renewed(c, k)
             d == RegisterAlias(a, from, k)
  <2>1. Alike(a, c)
    BY <1>1, RenewedIsAlike DEF Refreshes
  <2>2. Sound(a)
    BY <2>1 DEF Alike
  <2> HIDE DEF a
  <2>3. Registers(d, a, from, k)
    BY <2>2, RegisterAliasRegisters
  <2> HIDE DEF d
  <2>4. Small(d)
    <3>1. d.total = c.total /\ d.entries = a.entries /\ Len(a.entries) <= Len(c.entries)
      BY <2>1, <2>3 DEF Alike, Registers
    <3>2. Len(d.aliases) <= MaxAliases
      BY <2>1, <2>3 DEF Alike, Registers, Small
    <3>3. Len(a.entries) \in Nat /\ Len(c.entries) \in Nat
      BY <2>2, CacheParts
    <3> QED BY <3>1, <3>2, <3>3, LimitsAssumption DEF Small
  <2>5. Filled(d, c, k, from)
    BY <2>1, <2>3, <2>4 DEF Filled, Alike, Registers, Held
  <2> QED BY <1>1, <2>5 DEF WithBytes, d, a
<1>2. CASE ~Refreshes(c, k, size)
  <2> DEFINE a == Stored(c, k, size)
             b == RegisterAlias(a, from, k)
             d == EvictOverflow(b)
  <2>1. Sound(a) /\ a.aliases = c.aliases /\ \A q : Held(a, q) <=> Held(c, q) \/ q = k
    BY StoredIs
  <2> HIDE DEF a
  <2>2. Registers(b, a, from, k)
    BY <2>1, RegisterAliasRegisters
  <2> HIDE DEF b
  <2>3. Evicts(d, b)
    BY <2>2, EvictOverflowEvicts DEF Registers
  <2> HIDE DEF d
  <2>4. \A q : Held(d, q) => Held(c, q) \/ q = k
    BY <2>1, <2>2, <2>3 DEF Registers, Evicts, Held
  <2>5. Filled(d, c, k, from)
    BY <2>1, <2>2, <2>3, <2>4 DEF Filled, Registers, Evicts, Small
  <2> QED BY <1>2, <2>5 DEF WithBytes, d, b, a
<1> QED BY <1>1, <1>2

(* A lookup of q finds something, if only an entry past its time. *)
Named(c, q) == Held(c, q) \/ \E a \in Range(c.aliases) : a.from = q

LEMMA PrimaryIs ==
    ASSUME NEW c, Sound(c), NEW k \in Keys
    PROVE  /\ Primary(c, k) \in Keys
           /\ Held(c, k) => Primary(c, k) = k
           /\ \A a \in Range(c.aliases) : a.from = k /\ ~Held(c, k) => Primary(c, k) = a.to
           /\ Resolves(c, k) <=> Named(c, k)
<1> DEFINE targets == {a.to : a \in {x \in Range(c.aliases) : x.from = k}}
           led == ~Held(c, k) /\ \E t \in targets : Held(c, t)
           p == Primary(c, k)
<1>0. c.aliases \in Seq(Aliases) /\ NamesApart(c.aliases) /\ AliasesLead(c)
  BY CacheParts DEF Sound
<1>1. p = IF led THEN CHOOSE t \in targets : Held(c, t) ELSE k
  BY DEF Primary
<1>2. \A a, b \in Range(c.aliases) : a.from = b.from => a = b
  <2> SUFFICES ASSUME NEW a \in Range(c.aliases), NEW b \in Range(c.aliases), a.from = b.from
               PROVE  a = b
    OBVIOUS
  <2>1. PICK i \in 1..Len(c.aliases) : c.aliases[i] = a
    BY <1>0, RangeIs
  <2>2. PICK j \in 1..Len(c.aliases) : c.aliases[j] = b
    BY <1>0, RangeIs
  <2> QED BY <1>0, <2>1, <2>2 DEF NamesApart
<1>3. \A a \in Range(c.aliases) : a.to \in Keys /\ Held(c, a.to)
  <2>1. \A a \in Range(c.aliases) : a \in Aliases
    BY <1>0, RangeIs
  <2> QED BY <1>0, <2>1 DEF AliasesLead, Aliases
<1> HIDE DEF p
<1>4. CASE led
  <2>1. PICK t \in targets : Held(c, t)
    BY <1>4
  <2>2. PICK a \in Range(c.aliases) : a.from = k /\ a.to = t
    OBVIOUS
  <2>3. \A u \in targets : u = t
    BY <1>2, <2>2
  <2>4. p = t
    <3> HIDE DEF targets
    <3> QED BY <1>1, <1>4, <2>1, <2>3
  <2>5. \A b \in Range(c.aliases) : b.from = k => b.to = t
    BY <1>2, <2>2
  <2> QED BY <1>3, <1>4, <2>2, <2>4, <2>5 DEF Resolves, Named, p
<1>5. CASE ~led
  <2>1. p = k
    BY <1>1, <1>5
  <2>2. ASSUME NEW a \in Range(c.aliases), a.from = k PROVE Held(c, k)
    <3>1. a.to \in targets /\ Held(c, a.to)
      BY <1>3, <2>2
    <3> HIDE DEF targets
    <3> QED BY <1>5, <3>1
  <2> QED BY <2>1, <2>2 DEF Resolves, Named, p
<1> QED BY <1>4, <1>5

(* d is c after a lookup. *)
Finds(d, c) ==
    /\ Sound(d)
    /\ Small(c) => Small(d)
    /\ \A q : Named(d, q) => Named(c, q)

LEMMA LookedFinds ==
    ASSUME NEW c, Sound(c), NEW k \in Keys
    PROVE  /\ Finds(Looked(c, k), c)
           /\ ~Hits(c, k) => ~Named(Looked(c, k), k)
<1> DEFINE p == Primary(c, k)
           d == Looked(c, k)
<1>0. p \in Keys /\ c \in Caches /\ c.aliases \in Seq(Aliases)
  BY PrimaryIs, CacheParts DEF Sound
<1>1. d = IF ~Held(c, p) THEN [c EXCEPT !.aliases = Only(@, {a \in Range(@) : a.from # k})]
          ELSE IF Expired(c, p) THEN Without(c, Keyed(c, p))
          ELSE Touched(c, p)
  BY DEF Looked
<1>2. Hits(c, k) <=> Held(c, p) /\ ~Expired(c, p)
  BY DEF Hits, Resolves
<1>3. Held(c, p) <=> Named(c, k)
  BY PrimaryIs DEF Resolves
<1>4. Held(c, k) => p = k
  BY PrimaryIs
<1>5. \A a \in Range(c.aliases) : a.from = k /\ ~Held(c, k) => p = a.to
  BY PrimaryIs
<1> HIDE DEF d, p
<1>6. CASE ~Held(c, p)
  <2> DEFINE S == {a \in Range(c.aliases) : a.from # k}
             as == Only(c.aliases, S)
  <2>1. /\ as \in Seq(Aliases) /\ Len(as) <= Len(c.aliases)
        /\ Range(as) = Range(c.aliases) \cap S
    <3> HIDE DEF S
    <3> QED BY <1>0, OnlyIs
  <2>2. NamesApart(as)
    BY <1>0, NamesStayApart DEF Sound
  <2>3. d = [c EXCEPT !.aliases = as]
    BY <1>1, <1>6
  <2> HIDE DEF as
  <2>4. d.entries = c.entries /\ d.total = c.total /\ d.aliases = as /\ d \in Caches
    <3>1. c = [entries |-> c.entries, aliases |-> c.aliases, total |-> c.total]
      BY <1>0 DEF Caches
    <3> QED BY <1>0, <2>1, <2>3, <3>1 DEF Caches
  <2>5. Range(d.aliases) \subseteq Range(c.aliases) /\ \A a \in Range(d.aliases) : a.from # k
    BY <2>1, <2>4
  <2>6. \A q : Held(d, q) <=> Held(c, q)
    BY <2>4 DEF Held
  <2>7. AliasesLead(d)
    BY <2>5, <2>6 DEF Sound, AliasesLead
  <2>8. Sound(d)
    BY <2>2, <2>4, <2>7 DEF Sound
  <2>9. Small(c) => Small(d)
    <3>1. Len(c.entries) \in Nat /\ c.total \in Nat
      BY CacheParts
    <3>2. Len(d.entries) <= Len(c.entries) /\ d.total <= c.total
      BY <2>4, <3>1
    <3>3. Len(d.aliases) <= Len(c.aliases)
      BY <2>1, <2>4
    <3> QED BY <2>8, <3>2, <3>3, SmallStays
  <2>10. Finds(d, c)
    BY <2>5, <2>6, <2>8, <2>9 DEF Finds, Named
  <2>11. ~Named(d, k)
    BY <1>3, <1>6, <2>5, <2>6 DEF Named
  <2> QED BY <2>10, <2>11 DEF d
<1>7. CASE Held(c, p) /\ Expired(c, p)
  <2> DEFINE gone == Keyed(c, p)
  <2>1. gone \in SUBSET Range(c.entries) /\ \A e : e \in gone <=> e \in Range(c.entries) /\ e.key = p
    BY DEF Keyed
  <2>2. d = Without(c, gone)
    BY <1>1, <1>7
  <2> HIDE DEF gone
  <2>3. Drops(d, c, gone)
    BY <2>1, <2>2, WithoutDrops
  <2>4. \A q : Held(d, q) => Held(c, q) /\ q # p
    BY <2>1, <2>3 DEF Drops, Held
  <2>5. PICK e \in gone : e.key = p
    BY <1>7, <2>1 DEF Held
  <2>6. \A a \in Range(d.aliases) : a \in Range(c.aliases) /\ a.from # p /\ a.to # p
    BY <2>3, <2>5 DEF Drops
  <2>7. Small(c) => Small(d)
    <3>1. /\ Sound(d) /\ Len(d.entries) <= Len(c.entries)
          /\ Len(d.aliases) <= Len(c.aliases) /\ d.total <= c.total
      BY <2>3 DEF Drops
    <3> QED BY <3>1, SmallStays
  <2>8. Finds(d, c)
    BY <2>3, <2>4, <2>6, <2>7 DEF Finds, Drops, Named
  <2>9. ~Named(d, k)
    <3> SUFFICES ASSUME Named(d, k) PROVE FALSE
      OBVIOUS
    <3>1. CASE Held(d, k)
      BY <1>4, <2>4, <3>1
    <3>2. CASE \E a \in Range(d.aliases) : a.from = k
      <4>1. PICK a \in Range(d.aliases) : a.from = k
        BY <3>2
      <4> QED BY <1>4, <1>5, <2>6, <4>1
    <3> QED BY <3>1, <3>2 DEF Named
  <2> QED BY <2>8, <2>9 DEF d
<1>8. CASE Held(c, p) /\ ~Expired(c, p)
  <2>1. Alike(d, c)
    BY <1>0, <1>1, <1>8, TouchedIsAlike
  <2>2. Small(c) => Small(d)
    <3>1. /\ Sound(d) /\ Len(d.entries) <= Len(c.entries) /\ d.total <= c.total
          /\ Len(d.aliases) <= Len(c.aliases)
      BY <2>1, CacheParts DEF Alike
    <3> QED BY <3>1, SmallStays
  <2>3. Finds(d, c)
    BY <2>1, <2>2 DEF Finds, Alike, Named
  <2> QED BY <1>2, <1>8, <2>3 DEF d
<1> QED BY <1>6, <1>7, <1>8

-----------------------------------------------------------------------------
(* The sleepers. *)

Asleep(k) == {w \in Callers : sleeps[w] = k}

SleepTypes ==
    /\ serving \in BOOLEAN
    /\ sleepKeys \in Seq(Keys)
    /\ sleeps \in [Callers -> Keys \cup {NoKey}]

(* The table of sleepers has a set for each key that is slept on, and no more. *)
SleepInv ==
    /\ SleepTypes
    /\ Range(sleepKeys) = {sleeps[w] : w \in Callers} \ {NoKey}
    /\ Len(sleepKeys) <= MaxWaiterKeys
    /\ \A k \in Keys : Cardinality(Asleep(k)) <= MaxWaitersPerKey

(* Nobody sleeps on a key that an entry or an alias has. *)
SleptIsUnnamed == \A w \in Callers : sleeps[w] # NoKey => ~Named(hot, sleeps[w])

HotInv ==
    /\ Sound(hot) /\ Small(hot)
    /\ SleepInv
    /\ SleptIsUnnamed

LEMMA AsleepType ==
    ASSUME NEW k
    PROVE  IsFiniteSet(Asleep(k)) /\ Cardinality(Asleep(k)) \in Nat
<1>1. Asleep(k) \subseteq Callers /\ IsFiniteSet(Callers)
  BY LimitsAssumption DEF Asleep
<1> QED BY <1>1, FS_Subset, FS_CardinalityType

LEMMA FewerSleep ==
    ASSUME NEW k \in Keys, Cardinality(Asleep(k)) <= MaxWaitersPerKey,
           \A w \in Callers : sleeps'[w] \in {sleeps[w], NoKey}
    PROVE  Cardinality(Asleep(k)') <= MaxWaitersPerKey
<1> DEFINE new == {w \in Callers : sleeps'[w] = k}
<1>1. new \subseteq Asleep(k)
  BY LimitsAssumption DEF Asleep
<1>2. Cardinality(new) <= Cardinality(Asleep(k)) /\ Cardinality(new) \in Nat
  <2> HIDE DEF new
  <2> QED BY <1>1, AsleepType, FS_Subset, FS_CardinalityType
<1>3. Asleep(k)' = new
  BY DEF Asleep
<1> HIDE DEF new
<1> QED BY <1>2, <1>3, AsleepType, LimitTypes

(* Some or all of the sleepers wake up, and their keys go with them. *)
LEMMA SomeWake ==
    ASSUME SleepInv, serving' \in BOOLEAN,
           sleeps' \in [Callers -> Keys \cup {NoKey}],
           \A w \in Callers : sleeps'[w] \in {sleeps[w], NoKey},
           NEW S, sleepKeys' = Only(sleepKeys, S),
           \A k \in Range(sleepKeys) : k \in S <=> \E w \in Callers : sleeps'[w] = k
    PROVE  SleepInv'
<1>1. /\ sleepKeys \in Seq(Keys) /\ Len(sleepKeys) \in Nat /\ Len(sleepKeys) <= MaxWaiterKeys
      /\ Range(sleepKeys) = {sleeps[w] : w \in Callers} \ {NoKey}
  BY DEF SleepInv, SleepTypes
<1>2. /\ sleepKeys' \in Seq(Keys) /\ Len(sleepKeys') <= Len(sleepKeys)
      /\ Range(sleepKeys') = Range(sleepKeys) \cap S
  BY <1>1, OnlyIs
<1>3. SleepTypes'
  BY <1>2 DEF SleepTypes
<1>4. Range(sleepKeys') = {sleeps'[w] : w \in Callers} \ {NoKey}
  <2>1. ASSUME NEW k \in Range(sleepKeys') PROVE k \in {sleeps'[w] : w \in Callers} \ {NoKey}
    BY <1>1, <1>2, <2>1
  <2>2. ASSUME NEW w \in Callers, sleeps'[w] # NoKey PROVE sleeps'[w] \in Range(sleepKeys')
    <3>1. sleeps'[w] = sleeps[w] /\ sleeps'[w] \in Range(sleepKeys)
      BY <1>1, <2>2
    <3> QED BY <1>2, <3>1
  <2> QED BY <2>1, <2>2
<1>5. Len(sleepKeys') <= MaxWaiterKeys
  <2>1. Len(sleepKeys') \in Nat
    BY <1>2
  <2> QED BY <1>1, <1>2, <2>1, LimitTypes
<1>6. (\A k \in Keys : Cardinality(Asleep(k)) <= MaxWaitersPerKey)'
  BY FewerSleep DEF SleepInv
<1> QED BY <1>3, <1>4, <1>5, <1>6 DEF SleepInv

LEMMA WakeStep ==
    ASSUME SleepInv, NEW keys, Wake(keys), serving' \in BOOLEAN
    PROVE  /\ SleepInv'
           /\ \A w \in Callers : sleeps'[w] # NoKey => sleeps'[w] = sleeps[w] /\ sleeps[w] \notin keys
<1>1. sleeps \in [Callers -> Keys \cup {NoKey}]
  BY DEF SleepInv, SleepTypes
<1>2. \A w \in Callers : sleeps'[w] = IF sleeps[w] \in keys THEN NoKey ELSE sleeps[w]
  BY DEF Wake
<1>3. sleeps' \in [Callers -> Keys \cup {NoKey}]
  BY <1>1 DEF Wake
<1>4. \A k \in Range(sleepKeys) :
        k \in Range(sleepKeys) \ keys <=> \E w \in Callers : sleeps'[w] = k
  <2>1. Range(sleepKeys) = {sleeps[w] : w \in Callers} \ {NoKey}
    BY DEF SleepInv
  <2> SUFFICES ASSUME NEW k \in Range(sleepKeys)
               PROVE  k \notin keys <=> \E w \in Callers : sleeps'[w] = k
    OBVIOUS
  <2>2. PICK w \in Callers : sleeps[w] = k
    BY <2>1
  <2> QED BY <1>2, <2>1, <2>2
<1>5. sleepKeys' = Only(sleepKeys, Range(sleepKeys) \ keys)
  BY DEF Wake
<1>6. SleepInv'
  <2>1. \A w \in Callers : sleeps'[w] \in {sleeps[w], NoKey}
    BY <1>2
  <2> QED BY <1>3, <1>4, <1>5, <2>1, SomeWake
<1> QED BY <1>2, <1>6

LEMMA TimeOutStep ==
    ASSUME SleepInv, NEW w \in Callers, TimeOut(w)
    PROVE  SleepInv' /\ \A v \in Callers : sleeps'[v] # NoKey => sleeps'[v] = sleeps[v]
<1>1. sleeps \in [Callers -> Keys \cup {NoKey}] /\ serving \in BOOLEAN
  BY DEF SleepInv, SleepTypes
<1>2. /\ sleeps' = [sleeps EXCEPT ![w] = NoKey] /\ serving' = serving
      /\ sleepKeys' = Only(sleepKeys, {sleeps'[v] : v \in Callers})
  BY DEF TimeOut
<1>3. \A v \in Callers : sleeps'[v] \in {sleeps[v], NoKey}
  BY <1>1, <1>2
<1>4. sleeps' \in [Callers -> Keys \cup {NoKey}] /\ serving' \in BOOLEAN
  BY <1>1, <1>2
<1> DEFINE S == {sleeps'[v] : v \in Callers}
<1>5. \A k \in Range(sleepKeys) : k \in S <=> \E v \in Callers : sleeps'[v] = k
  OBVIOUS
<1>6. SleepInv'
  <2>1. sleepKeys' = Only(sleepKeys, S)
    BY <1>2
  <2> HIDE DEF S
  <2> QED BY <1>3, <1>4, <1>5, <2>1, SomeWake
<1> QED BY <1>3, <1>6

(* A caller falls asleep, where there is room for it. *)
LEMMA SleepStep ==
    ASSUME SleepInv, NEW w \in Callers, NEW k \in Keys, sleeps[w] = NoKey, Sleep(w, k),
           Cardinality(Asleep(k)) < MaxWaitersPerKey, serving' \in BOOLEAN
    PROVE  /\ SleepInv'
           /\ \A v \in Callers : sleeps'[v] # NoKey => sleeps'[v] \in {sleeps[v], k}
<1> DEFINE among == IF k \in Range(sleepKeys) THEN sleepKeys ELSE Append(sleepKeys, k)
           over == Minus(Len(among), MaxWaiterKeys)
           kept == SubSeq(among, over + 1, Len(among))
<1>0. /\ sleepKeys \in Seq(Keys) /\ sleeps \in [Callers -> Keys \cup {NoKey}]
      /\ Range(sleepKeys) = {sleeps[v] : v \in Callers} \ {NoKey}
      /\ Len(sleepKeys) \in Nat /\ Len(sleepKeys) <= MaxWaiterKeys /\ k # NoKey
  BY LimitsAssumption DEF SleepInv, SleepTypes
<1>1. /\ sleepKeys' = kept
      /\ sleeps' = [v \in Callers |-> IF v = w THEN k
                                     ELSE IF sleeps[v] \in Range(kept) THEN sleeps[v] ELSE NoKey]
  BY DEF Sleep
<1>2. /\ among \in Seq(Keys) /\ Len(among) \in Nat \ {0} /\ Len(among) <= MaxWaiterKeys + 1
      /\ Range(among) \subseteq Range(sleepKeys) \cup {k}
      /\ k \in Range(SubSeq(among, Minus(Len(among), MaxWaiterKeys) + 1, Len(among)))
  <2>1. CASE k \in Range(sleepKeys)
    <3>1. among = sleepKeys
      BY <2>1
    <3>2. PICK i \in 1..Len(sleepKeys) : sleepKeys[i] = k
      BY <1>0, <2>1, RangeIs
    <3>3. Minus(Len(sleepKeys), MaxWaiterKeys) = 0
      BY <1>0, LimitTypes DEF Minus
    <3>4. SubSeq(sleepKeys, 1, Len(sleepKeys)) = sleepKeys
      BY <1>0
    <3> HIDE DEF among
    <3>5. SubSeq(among, Minus(Len(among), MaxWaiterKeys) + 1, Len(among)) = sleepKeys
      BY <3>1, <3>3, <3>4
    <3>6. Len(among) \in Nat \ {0} /\ Len(among) <= MaxWaiterKeys + 1
      BY <1>0, <3>1, <3>2, LimitTypes
    <3> QED BY <1>0, <2>1, <3>1, <3>5, <3>6
  <2>2. CASE k \notin Range(sleepKeys)
    <3>1. /\ among \in Seq(Keys) /\ Len(among) = Len(sleepKeys) + 1 /\ among[Len(among)] = k
          /\ \A i \in 1..Len(sleepKeys) : among[i] = sleepKeys[i]
      BY <1>0, <2>2
    <3> HIDE DEF among
    <3>2. Range(among) \subseteq Range(sleepKeys) \cup {k}
      <4> SUFFICES ASSUME NEW x \in Range(among), x # k PROVE x \in Range(sleepKeys)
        OBVIOUS
      <4>1. PICK i \in 1..Len(among) : among[i] = x
        BY <3>1, RangeIs
      <4>2. i \in 1..Len(sleepKeys) /\ sleepKeys[i] = x
        BY <1>0, <3>1, <4>1
      <4> QED BY <1>0, <4>2, RangeIs
    <3> DEFINE m == Minus(Len(among), MaxWaiterKeys) + 1
               n == Len(among)
               tail == SubSeq(among, m, n)
    <3>3. m \in Int /\ n \in Int /\ m \in 1..n /\ n - m + 1 \in 1..n
      <4>1. Len(among) \in Int /\ Len(among) \in Nat \ {0} /\ MaxWaiterKeys \in Nat \ {0}
        BY <1>0, <3>1, LimitTypes
      <4>2. \A a, b \in Nat \ {0} : /\ Minus(a, b) + 1 \in 1..a
                                   /\ a - (Minus(a, b) + 1) + 1 \in 1..a
        BY DEF Minus
      <4>3. n \in Int /\ m \in 1..n /\ n - m + 1 \in 1..n
        BY <4>1, <4>2, Zenon
      <4> HIDE DEF m, n
      <4> QED BY <4>3
    <3>4. \A i \in m..n : among[i] \in Keys
      BY <3>1, <3>3
    <3> HIDE DEF m
    <3>5. /\ tail \in Seq(Keys) /\ Len(tail) = n - m + 1
          /\ tail[n - m + 1] = among[n]
      <4>1. /\ tail \in Seq(Keys)
            /\ Len(tail) = IF m <= n THEN n - m + 1 ELSE 0
            /\ \A i \in 1..(n - m + 1) : tail[i] = among[m + i - 1]
        BY <3>3, <3>4, SubSeqProperties
      <4>2. n - m + 1 \in 1..(n - m + 1) /\ m + (n - m + 1) - 1 = n /\ m <= n
        BY <3>3
      <4> HIDE DEF tail, n
      <4> QED BY <4>1, <4>2
    <3>6. k \in Range(tail)
      <4>1. n - m + 1 \in 1..Len(tail) /\ tail[n - m + 1] = k
        BY <3>1, <3>3, <3>5
      <4> HIDE DEF tail
      <4> QED BY <3>5, <4>1, RangeIs
    <3> QED BY <1>0, <3>1, <3>2, <3>6, LimitTypes DEF m
  <2> QED BY <2>1, <2>2
<1> HIDE DEF among
<1>3. over \in Nat /\ over <= Len(among) /\ Len(among) - over <= MaxWaiterKeys
  BY <1>2, LimitTypes DEF Minus
<1>4. kept \in Seq(Keys) /\ Len(kept) <= MaxWaiterKeys /\ Range(kept) \subseteq Range(among)
  <2> DEFINE m == over + 1
             n == Len(among)
  <2>1. m \in 1..(n + 1) /\ n \in Nat /\ n - over <= MaxWaiterKeys
    BY <1>2, <1>3
  <2>2. \A i \in m..n : among[i] \in Keys
    BY <1>2, <2>1
  <2>3. /\ SubSeq(among, m, n) \in Seq(Keys)
        /\ Len(SubSeq(among, m, n)) = IF m <= n THEN n - m + 1 ELSE 0
        /\ \A i \in 1..(n - m + 1) : SubSeq(among, m, n)[i] = among[m + i - 1]
    <3> HIDE DEF m, n
    <3> QED BY <2>1, <2>2, SubSeqProperties
  <2>4. kept = SubSeq(among, m, n)
    OBVIOUS
  <2>5. n - m + 1 = n - over
    BY <1>3, <2>1
  <2> HIDE DEF m, n, kept
  <2>6. Len(kept) <= MaxWaiterKeys /\ Len(kept) \in Nat /\ Len(kept) <= n - m + 1 
    BY <2>1, <2>3, <2>4, <2>5, LimitTypes
  <2>7. Range(kept) \subseteq Range(among)
    <3> SUFFICES ASSUME NEW x \in Range(kept) PROVE x \in Range(among)
      OBVIOUS
    <3>1. PICK i \in 1..Len(kept) : kept[i] = x
      BY <2>3, <2>4, RangeIs
    <3>2. m + i - 1 \in 1..n /\ among[m + i - 1] = x
      BY <2>1, <2>3, <2>4, <2>6, <3>1
    <3> QED BY <1>2, <3>2, RangeIs DEF n
  <2> QED BY <2>3, <2>4, <2>6, <2>7
<1>5. k \in Range(kept)
  BY <1>2
<1> HIDE DEF kept, over
<1>6. Range(kept) \subseteq Range(sleepKeys) \cup {k}
  BY <1>2, <1>4
<1>7. \A v \in Callers : sleeps'[v] = IF v = w THEN k
                                     ELSE IF sleeps[v] \in Range(kept) THEN sleeps[v] ELSE NoKey
  BY <1>1
<1>8. sleeps' \in [Callers -> Keys \cup {NoKey}]
  BY <1>0, <1>1
<1>9. SleepTypes'
  BY <1>1, <1>4, <1>8 DEF SleepTypes
<1>10. Range(kept) = {sleeps'[v] : v \in Callers} \ {NoKey}
  <2>1. ASSUME NEW q \in Range(kept) PROVE q # NoKey /\ \E v \in Callers : sleeps'[v] = q
    <3>1. CASE q = k
      BY <1>0, <1>7, <3>1
    <3>2. CASE q # k
      <4>1. q \in Range(sleepKeys)
        BY <1>6, <2>1, <3>2
      <4>2. PICK v \in Callers : sleeps[v] = q
        BY <1>0, <4>1
      <4>3. q # NoKey /\ v # w
        BY <1>0, <4>1, <4>2
      <4> QED BY <1>7, <2>1, <4>2, <4>3
    <3> QED BY <3>1, <3>2
  <2>2. ASSUME NEW v \in Callers, sleeps'[v] # NoKey PROVE sleeps'[v] \in Range(kept)
    BY <1>5, <1>7, <2>2
  <2> QED BY <2>1, <2>2
<1>11. \A q \in Keys : Cardinality({v \in Callers : sleeps'[v] = q}) <= MaxWaitersPerKey
  <2> SUFFICES ASSUME NEW q \in Keys
               PROVE  Cardinality({v \in Callers : sleeps'[v] = q}) <= MaxWaitersPerKey
    OBVIOUS
  <2> DEFINE new == {v \in Callers : sleeps'[v] = q}
  <2>1. CASE q = k
    <3>1. new \subseteq Asleep(k) \cup {w}
      BY <1>0, <1>7, <2>1 DEF Asleep
    <3>2. IsFiniteSet(Asleep(k)) /\ Cardinality(Asleep(k)) \in Nat
      BY AsleepType
    <3>3. w \notin Asleep(k)
      BY <1>0 DEF Asleep
    <3>4. /\ IsFiniteSet(Asleep(k) \cup {w})
          /\ Cardinality(Asleep(k) \cup {w}) = Cardinality(Asleep(k)) + 1
      BY <3>2, <3>3, FS_AddElement
    <3> HIDE DEF new
    <3>5. Cardinality(new) <= Cardinality(Asleep(k) \cup {w}) /\ Cardinality(new) \in Nat
      BY <3>1, <3>4, FS_Subset, FS_CardinalityType
    <3>6. Cardinality(new) <= MaxWaitersPerKey
      BY <3>2, <3>4, <3>5, LimitTypes
    <3> QED BY <3>6 DEF new
  <2>2. CASE q # k
    <3>1. new \subseteq Asleep(q)
      BY <1>7, <2>2, LimitsAssumption DEF Asleep
    <3>2. IsFiniteSet(Asleep(q)) /\ Cardinality(Asleep(q)) \in Nat
      BY AsleepType
    <3> HIDE DEF new
    <3>3. Cardinality(new) <= Cardinality(Asleep(q)) /\ Cardinality(new) \in Nat
      BY <3>1, <3>2, FS_Subset, FS_CardinalityType
    <3>4. Cardinality(Asleep(q)) <= MaxWaitersPerKey
      BY DEF SleepInv
    <3>5. Cardinality(new) <= MaxWaitersPerKey
      BY <3>2, <3>3, <3>4, LimitTypes
    <3> QED BY <3>5 DEF new
  <2> QED BY <2>1, <2>2
<1>12. SleepInv'
  BY <1>1, <1>4, <1>9, <1>10, <1>11 DEF SleepInv, Asleep
<1>13. \A v \in Callers : sleeps'[v] # NoKey => sleeps'[v] \in {sleeps[v], k}
  BY <1>7
<1> QED BY <1>12, <1>13

-----------------------------------------------------------------------------
(* Every step keeps HotInv. *)

LEMMA InitHot == Init => HotInv
<1> SUFFICES ASSUME Init PROVE HotInv
  OBVIOUS
<1>1. <<>> \in Seq(Entries) /\ <<>> \in Seq(Aliases) /\ <<>> \in Seq(Keys)
  OBVIOUS
<1>2. Range(<<>>) = {} /\ Len(<<>>) = 0
  BY DEF Range
<1>3. hot = Empty /\ Empty.entries = <<>> /\ Empty.aliases = <<>> /\ Empty.total = 0
  BY DEF Init, Empty
<1>4. Empty \in Caches
  BY <1>1 DEF Empty, Caches
<1>5. Sound(Empty) /\ Small(Empty)
  BY <1>2, <1>3, <1>4, SumOfNothing, LimitTypes
     DEF Sound, Small, KeysApart, NamesApart, AliasesLead
<1>6. sleepKeys = <<>> /\ serving = TRUE /\ sleeps = [w \in Callers |-> NoKey]
  BY DEF Init
<1>7. \A k \in Keys : Cardinality(Asleep(k)) <= MaxWaitersPerKey
  <2> SUFFICES ASSUME NEW k \in Keys PROVE Cardinality(Asleep(k)) <= MaxWaitersPerKey
    OBVIOUS
  <2>1. Asleep(k) = {}
    BY <1>6, LimitsAssumption DEF Asleep
  <2> QED BY <2>1, FS_EmptySet, LimitTypes
<1>8. SleepInv
  BY <1>1, <1>2, <1>6, <1>7, LimitTypes DEF SleepInv, SleepTypes
<1>9. SleptIsUnnamed
  BY <1>6 DEF SleptIsUnnamed
<1> QED BY <1>3, <1>5, <1>8, <1>9 DEF HotInv

LEMMA PutStep ==
    ASSUME HotInv, NEW k \in Keys, NEW size \in Sizes, NEW pageKey \in Keys, Put(k, size, pageKey)
    PROVE  HotInv'
<1> DEFINE d == WithBytes(hot, k, size, pageKey)
<1>0. size \in Nat /\ Sound(hot) /\ Small(hot) /\ SleepInv /\ SleptIsUnnamed
  BY LimitsAssumption DEF HotInv
<1>1. Filled(d, hot, k, pageKey)
  BY <1>0, WithBytesFills
<1>2. hot' = d /\ Wake(WokenBy(hot', k)) /\ serving' = serving
  BY DEF Put
<1> HIDE DEF d
<1>3. Sound(hot') /\ Small(hot')
  BY <1>1, <1>2 DEF Filled
<1>4. serving' \in BOOLEAN
  BY <1>0, <1>2 DEF SleepInv, SleepTypes
<1> DEFINE woken == WokenBy(hot', k)
<1>5. /\ SleepInv'
      /\ \A w \in Callers : sleeps'[w] # NoKey => sleeps'[w] = sleeps[w] /\ sleeps[w] \notin woken
  <2>1. Wake(woken)
    BY <1>2
  <2> HIDE DEF woken
  <2> QED BY <1>0, <1>4, <2>1, WakeStep
<1>6. k \in woken /\ \A a \in Range(hot'.aliases) : a.to = k => a.from \in woken
  BY DEF WokenBy
<1> HIDE DEF woken
<1>7. SleptIsUnnamed'
  <2> SUFFICES ASSUME NEW w \in Callers, sleeps'[w] # NoKey, Named(hot', sleeps'[w])
               PROVE  FALSE
    BY DEF SleptIsUnnamed
  <2> DEFINE q == sleeps[w]
  <2>1. q # NoKey /\ q \notin woken /\ Named(d, q)
    BY <1>2, <1>5
  <2>2. ~Named(hot, q)
    BY <1>0, <2>1 DEF SleptIsUnnamed
  <2> HIDE DEF q
  <2>3. CASE Held(d, q)
    BY <1>1, <1>6, <2>1, <2>2, <2>3 DEF Filled, Named
  <2>4. CASE \E a \in Range(d.aliases) : a.from = q
    <3>1. PICK a \in Range(d.aliases) : a.from = q
      BY <2>4
    <3>2. a \in Range(hot.aliases) \/ a = [from |-> pageKey, to |-> k]
      BY <1>1, <3>1 DEF Filled
    <3>3. a.to # k
      BY <1>2, <1>6, <2>1, <3>1
    <3>4. a \in Range(hot.aliases)
      BY <3>2, <3>3
    <3> QED BY <2>2, <3>1, <3>4 DEF Named
  <2> QED BY <2>1, <2>3, <2>4 DEF Named
<1> QED BY <1>3, <1>5, <1>7 DEF HotInv

LEMMA GetStep ==
    ASSUME HotInv, NEW k \in Keys, Get(k)
    PROVE  HotInv'
<1> DEFINE d == Looked(hot, k)
<1>0. Sound(hot) /\ Small(hot) /\ SleepInv /\ SleptIsUnnamed
  BY DEF HotInv
<1>1. Finds(d, hot)
  BY <1>0, LookedFinds
<1>2. hot' = d /\ serving' = serving /\ sleepKeys' = sleepKeys /\ sleeps' = sleeps
  BY DEF Get
<1> HIDE DEF d
<1>3. SleepInv'
  BY <1>0, <1>2 DEF SleepInv, SleepTypes, Asleep
<1>4. SleptIsUnnamed'
  BY <1>0, <1>1, <1>2 DEF SleptIsUnnamed, Finds
<1> QED BY <1>0, <1>1, <1>2, <1>3, <1>4 DEF HotInv, Finds

LEMMA AwaitStep ==
    ASSUME HotInv, NEW w \in Callers, NEW k \in Keys, Await(w, k)
    PROVE  HotInv'
<1> DEFINE d == Looked(hot, k)
<1>0. Sound(hot) /\ Small(hot) /\ SleepInv /\ SleptIsUnnamed
  BY DEF HotInv
<1>1. Finds(d, hot) /\ (~Hits(hot, k) => ~Named(d, k))
  BY <1>0, LookedFinds
<1>2. hot' = d /\ serving' = serving /\ sleeps[w] = NoKey
  BY DEF Await
<1> HIDE DEF d
<1>3. Sound(hot') /\ Small(hot')
  BY <1>0, <1>1, <1>2 DEF Finds
<1>4. CASE sleepKeys' = sleepKeys /\ sleeps' = sleeps
  <2>1. SleepInv'
    BY <1>0, <1>2, <1>4 DEF SleepInv, SleepTypes, Asleep
  <2>2. SleptIsUnnamed'
    BY <1>0, <1>1, <1>2, <1>4 DEF SleptIsUnnamed, Finds
  <2> QED BY <1>3, <2>1, <2>2 DEF HotInv
<1>5. CASE ~Hits(hot, k) /\ ~(Cardinality(Asleep(k)) >= MaxWaitersPerKey) /\ Sleep(w, k)
  <2>1. serving' \in BOOLEAN
    BY <1>0, <1>2 DEF SleepInv, SleepTypes
  <2>2. Cardinality(Asleep(k)) < MaxWaitersPerKey
    BY <1>5, AsleepType, LimitTypes
  <2>3. SleepInv' /\ \A v \in Callers : sleeps'[v] # NoKey => sleeps'[v] \in {sleeps[v], k}
    BY <1>0, <1>2, <1>5, <2>1, <2>2, SleepStep
  <2>4. SleptIsUnnamed'
    BY <1>0, <1>1, <1>2, <1>5, <2>3 DEF SleptIsUnnamed, Finds
  <2> QED BY <1>3, <2>3, <2>4 DEF HotInv
<1>6. \/ sleepKeys' = sleepKeys /\ sleeps' = sleeps
      \/ ~Hits(hot, k) /\ ~(Cardinality(Asleep(k)) >= MaxWaitersPerKey) /\ Sleep(w, k)
  BY DEF Await, Asleep
<1> QED BY <1>4, <1>5, <1>6

LEMMA TimerStep ==
    ASSUME HotInv, NEW w \in Callers, TimeOut(w)
    PROVE  HotInv'
<1>1. hot' = hot
  BY DEF TimeOut
<1>2. SleepInv' /\ \A v \in Callers : sleeps'[v] # NoKey => sleeps'[v] = sleeps[v]
  BY TimeOutStep DEF HotInv
<1>3. SleptIsUnnamed'
  BY <1>1, <1>2 DEF HotInv, SleptIsUnnamed
<1> QED BY <1>1, <1>2, <1>3 DEF HotInv

LEMMA ClearStep ==
    ASSUME HotInv, Clear
    PROVE  HotInv'
<1>1. hot' = Empty /\ serving' = serving /\ Wake(Keys)
  BY DEF Clear
<1>2. Sound(Empty) /\ Small(Empty)
  <2>1. <<>> \in Seq(Entries) /\ <<>> \in Seq(Aliases)
    OBVIOUS
  <2>2. Range(<<>>) = {} /\ Len(<<>>) = 0
    BY DEF Range
  <2>3. Empty.entries = <<>> /\ Empty.aliases = <<>> /\ Empty.total = 0 /\ Empty \in Caches
    BY <2>1 DEF Empty, Caches
  <2> QED BY <2>2, <2>3, SumOfNothing, LimitTypes
          DEF Sound, Small, KeysApart, NamesApart, AliasesLead
<1>3. SleepInv /\ serving' \in BOOLEAN
  BY <1>1 DEF HotInv, SleepInv, SleepTypes
<1>4. /\ SleepInv'
      /\ \A w \in Callers : sleeps'[w] # NoKey => sleeps'[w] = sleeps[w] /\ sleeps[w] \notin Keys
  BY <1>1, <1>3, WakeStep
<1>5. SleptIsUnnamed'
  BY <1>3, <1>4 DEF SleptIsUnnamed, SleepInv, SleepTypes
<1> QED BY <1>1, <1>2, <1>4, <1>5 DEF HotInv

LEMMA TickStep ==
    ASSUME HotInv, Tick
    PROVE  HotInv'
<1> DEFINE es == hot.entries
           older == [i \in DOMAIN es |-> Older(es[i])]
           d == [hot EXCEPT !.entries = older]
<1>0. /\ Sound(hot) /\ hot \in Caches /\ es \in Seq(Entries) /\ Small(hot)
      /\ SleepInv /\ SleptIsUnnamed
  BY CacheParts DEF HotInv, Sound
<1>1. hot' = d /\ serving' = serving /\ sleepKeys' = sleepKeys /\ sleeps' = sleeps
  BY DEF Tick
<1>2. /\ older \in Seq(Entries) /\ Len(older) = Len(es)
      /\ \A i \in 1..Len(es) : older[i].key = es[i].key /\ older[i].size = es[i].size
  <2>1. \A e \in Entries : Older(e) \in Entries /\ Older(e).key = e.key /\ Older(e).size = e.size
    BY LimitsAssumption DEF Entries, Older
  <2>2. older = [i \in 1..Len(es) |-> Older(es[i])]
    BY <1>0
  <2>3. \A i \in 1..Len(es) : es[i] \in Entries
    BY <1>0
  <2> HIDE DEF older, es
  <2>4. \A i \in 1..Len(es) : Older(es[i]) \in Entries
    BY <2>1, <2>3
  <2>5. older \in Seq(Entries) /\ Len(older) = Len(es)
    BY <1>0, <2>2, <2>4
  <2>6. \A i \in 1..Len(es) : older[i] = Older(es[i])
    BY <2>2
  <2> QED BY <2>1, <2>3, <2>5, <2>6
<1> HIDE DEF older
<1>3. d.entries = older /\ d.aliases = hot.aliases /\ d.total = hot.total /\ d \in Caches
  <2>1. hot = [entries |-> hot.entries, aliases |-> hot.aliases, total |-> hot.total]
    BY <1>0 DEF Caches
  <2> QED BY <1>0, <1>2, <2>1 DEF Caches
<1> HIDE DEF d
<1>4. Sum(older) = Sum(es)
  BY <1>0, <1>2, SumsEqual
<1>5. KeysApart(older)
  BY <1>0, <1>2 DEF Sound, KeysApart
<1>6. \A q : Held(d, q) <=> Held(hot, q)
  <2> SUFFICES ASSUME NEW q PROVE Held(d, q) <=> Held(hot, q)
    OBVIOUS
  <2>1. Held(hot, q) <=> \E i \in 1..Len(es) : es[i].key = q
    BY <1>0, RangeIs DEF Held
  <2>2. Held(d, q) <=> \E i \in 1..Len(older) : older[i].key = q
    BY <1>2, <1>3, RangeIs DEF Held
  <2> QED BY <1>2, <2>1, <2>2
<1>7. Sound(d) /\ Small(d)
  BY <1>0, <1>2, <1>3, <1>4, <1>5, <1>6 DEF Sound, Small, AliasesLead
<1>8. SleepInv'
  BY <1>0, <1>1 DEF SleepInv, SleepTypes, Asleep
<1>9. SleptIsUnnamed'
  BY <1>0, <1>1, <1>3, <1>6 DEF SleptIsUnnamed, Named
<1> QED BY <1>1, <1>7, <1>8, <1>9 DEF HotInv

LEMMA HotStep == HotInv /\ [Next]_vars => HotInv'
<1> SUFFICES ASSUME HotInv, [Next]_vars PROVE HotInv'
  OBVIOUS
<1>1. ASSUME NEW k \in Keys, NEW pageKey \in Keys, NEW size \in Sizes, Put(k, size, pageKey)
      PROVE  HotInv'
  BY <1>1, PutStep
<1>2. ASSUME NEW k \in Keys, Get(k) PROVE HotInv'
  BY <1>2, GetStep
<1>3. ASSUME NEW w \in Callers, NEW k \in Keys, Await(w, k) PROVE HotInv'
  BY <1>3, AwaitStep
<1>4. ASSUME NEW w \in Callers, TimeOut(w) PROVE HotInv'
  BY <1>4, TimerStep
<1>5. CASE Clear
  BY <1>5, ClearStep
<1>6. CASE Toggle
  <2>1. hot' = hot /\ sleepKeys' = sleepKeys /\ sleeps' = sleeps /\ serving' \in BOOLEAN
    BY <1>6 DEF Toggle
  <2> QED BY <2>1 DEF HotInv, SleepInv, SleepTypes, SleptIsUnnamed, Asleep
<1>7. CASE Tick
  BY <1>7, TickStep
<1>8. CASE UNCHANGED vars
  BY <1>8 DEF vars, HotInv, SleepInv, SleepTypes, SleptIsUnnamed, Asleep
<1> QED BY <1>1, <1>2, <1>3, <1>4, <1>5, <1>6, <1>7, <1>8 DEF Next

-----------------------------------------------------------------------------
(* In every execution, whatever puts, lookups, timers and clears there are, the Maps,
   the total and the sleepers agree and all limits hold. *)
THEOREM HotInvariant == Spec => []HotInv
<1>1. Init => HotInv
  BY InitHot
<1>2. HotInv /\ [Next]_vars => HotInv'
  BY HotStep
<1> QED BY <1>1, <1>2, PTL DEF Spec

(* totalBytes is exactly what the entries hold, and the entries, the bytes, the
   aliases and the sleepers never exceed their limits (hot-byte-cache.js:15). *)
THEOREM LimitsAreKept == Spec => []WithinLimits
<1>1. HotInv => WithinLimits
  BY DEF HotInv, Sound, Small, SleepInv, Asleep, WithinLimits
<1> QED BY <1>1, HotInvariant, PTL

(* Nobody sleeps on bytes that a lookup would find: the put that brings them wakes
   whoever waits for them under any name (hot-byte-cache.js:235). *)
THEOREM SleepersAreWoken == Spec => []SleepersHaveNoBytes
<1>1. HotInv => SleepersHaveNoBytes
  <2> SUFFICES ASSUME HotInv, NEW w \in Callers, sleeps[w] # NoKey PROVE ~Resolves(hot, sleeps[w])
    BY DEF SleepersHaveNoBytes
  <2>1. sleeps[w] \in Keys /\ Sound(hot) /\ ~Named(hot, sleeps[w])
    BY DEF HotInv, SleepInv, SleepTypes, SleptIsUnnamed
  <2> QED BY <2>1, PrimaryIs
<1> QED BY <1>1, HotInvariant, PTL

(* No alias outlives its entry, so no name is led to an entry stored later under a key
   that was evicted, and no name leads two ways; the sets of sleepers are exactly those
   somebody is in (hot-byte-cache.js:86 and 339). *)
THEOREM AliasesAndSleepersAgree == Spec => []MapsAgree
<1>1. HotInv => MapsAgree
  <2> SUFFICES ASSUME HotInv PROVE MapsAgree
    OBVIOUS
  <2>1. Sound(hot) /\ hot.aliases \in Seq(Aliases)
    BY CacheParts DEF HotInv
  <2>2. \A a, b \in Range(hot.aliases) : a.from = b.from => a = b
    <3> SUFFICES ASSUME NEW a \in Range(hot.aliases), NEW b \in Range(hot.aliases), a.from = b.from
                 PROVE  a = b
      OBVIOUS
    <3>1. PICK i \in 1..Len(hot.aliases) : hot.aliases[i] = a
      BY <2>1, RangeIs
    <3>2. PICK j \in 1..Len(hot.aliases) : hot.aliases[j] = b
      BY <2>1, RangeIs
    <3> QED BY <2>1, <3>1, <3>2 DEF Sound, NamesApart
  <2> QED BY <2>1, <2>2 DEF HotInv, SleepInv, Sound, AliasesLead, MapsAgree
<1> QED BY <1>1, HotInvariant, PTL

-----------------------------------------------------------------------------
(* The state of the scheduler and its page. *)

Gens == 0 .. MaxGen
Sources == Asking \cup {"teleport-mode", "teleport-mode-retained", "depth-fill",
                        "speculative-rung", "flush"}
Timers == [src : Sources, gen : Gens]
Coalesced == [urls : SUBSET Urls, gen : Gens]
TabObjects ==
    [pl : Playlists \cup {None}, gen : Gens, asleep : {"no", "sleeping", "playing"},
     runway : Runways \cup {"unknown"}, batch : Coalesced \cup {None},
     cap : Timers \cup {None}, retry : Timers \cup {None}, holds : Objects \cup {0}]
Requests == [pl : Playlists \cup {None}, gen : Gens, src : Asking, armed : BOOLEAN]
Marks == [deep : BOOLEAN, fresh : BOOLEAN]
Backgrounds ==
    [live : Objects \cup {0}, obj : [Objects -> TabObjects], strays : Nat,
     debounce : Requests \cup {None}, marks : [SegmentKeys -> Marks \cup {None}],
     failed : SUBSET SegmentKeys, cached : SUBSET SegmentKeys, depth : SUBSET Objects,
     lost : SUBSET SegmentKeys, forgot : BOOLEAN]
Pages == [gen : Gens, holds : SUBSET Urls, skips : SUBSET Urls]
Cancels == [type : {"cancel"}, gen : Gens \cup {None}]
Delegations ==
    [type : {"prefetch"}, urls : SUBSET Urls, gen : Gens, counted : BOOLEAN,
     by : Objects \cup {0}, src : Sources]
Messages == Cancels \cup Delegations

-----------------------------------------------------------------------------
(* What the two properties are about: the generation of the live object, the keys a
   batch waits with, those under way, and the marks nothing of the background explains. *)

GenOf(b) == IF b.live = 0 THEN 0 ELSE b.obj[b.live].gen
Waits(b) == IF b.live = 0 \/ Live(b).batch = None THEN {} ELSE KeysOf(Live(b).batch.urls)
Sent(ms) == UNION {KeysOf(m.urls) : m \in {n \in Span(ms) : n.type = "prefetch"}}
Loose(b) == Inflight(b) \ (Waits(b) \cup b.lost)
UpTo(ms, g) == \A m \in Span(ms) : m.gen \in Gens => m.gen <= g

(* c may stand for b: it is of no earlier generation and no more marks are loose. *)
Succeeds(c, b) ==
    /\ c \in Backgrounds
    /\ c.forgot = b.forgot
    /\ GenOf(b) <= GenOf(c)
    /\ Loose(c) \subseteq Loose(b)

(* ... and the tab plays what it played. *)
Stays(c, b) ==
    /\ Succeeds(c, b)
    /\ c.live = b.live
    /\ \A o \in Objects : c.obj[o].pl = b.obj[o].pl

(* The inductive invariant. What nothing names is blank; no message and no page is of a
   later generation than the tab's, unless the background forgot the tab; a loose mark is
   of what is under way to the page or held there. *)
TabInv ==
    /\ bg \in Backgrounds /\ page \in Pages /\ line \in Seq(Messages)
    /\ bg.strays <= MaxStrays /\ Len(line) <= MaxLine
    /\ \A o \in Objects \ Referenced(bg, line) : bg.obj[o] = Blank
    /\ bg.forgot \/ (page.gen <= GenOf(bg) /\ UpTo(line, GenOf(bg)))
    /\ Loose(bg) \subseteq Sent(line) \cup KeysOf(page.holds \cup page.skips)

(* A pair of a handler: the messages posted are of no later generation than the object
   and no mark is loose but what they explain and what X does. *)
Answers(s, X, g) ==
    /\ s = <<s[1], s[2]>>
    /\ s[1] \in Backgrounds
    /\ s[2] \in Seq(Messages)
    /\ s[1].forgot \/ (g <= GenOf(s[1]) /\ UpTo(s[2], GenOf(s[1])))
    /\ Loose(s[1]) \subseteq Sent(s[2]) \cup X

LEMMA GensAre == MaxGen \in Nat /\ 0 \in Gens /\ Gens \subseteq Nat
  BY TabAssumption DEF Gens

LEMMA GenIsNat == ASSUME NEW b \in Backgrounds PROVE GenOf(b) \in Gens /\ GenOf(b) \in Nat
<1>1. b.live # 0 => b.live \in Objects /\ b.obj[b.live] \in TabObjects
  BY DEF Backgrounds
<1> QED BY <1>1, GensAre DEF GenOf, TabObjects

LEMMA SucceedsAgain ==
    ASSUME NEW b, NEW c, NEW d, b \in Backgrounds, Succeeds(c, b), Succeeds(d, c)
    PROVE  Succeeds(d, b)
<1>1. GenOf(b) \in Nat /\ GenOf(c) \in Nat /\ GenOf(d) \in Nat
  BY GenIsNat DEF Succeeds
<1> QED BY <1>1 DEF Succeeds

LEMMA StaysAgain ==
    ASSUME NEW b, NEW c, NEW d, b \in Backgrounds, Stays(c, b), Stays(d, c)
    PROVE  Stays(d, b)
<1>1. Succeeds(d, b)
  BY SucceedsAgain DEF Stays
<1> QED BY <1>1 DEF Stays

LEMMA StaysSelf == ASSUME NEW b \in Backgrounds PROVE Stays(b, b)
<1>1. GenOf(b) \in Nat
  BY GenIsNat
<1> QED BY <1>1 DEF Stays, Succeeds

LEMMA AnswersAgain ==
    ASSUME NEW b, NEW c, NEW out, NEW X, NEW g \in Nat, Answers(<<b, out>>, X, g), Succeeds(c, b)
    PROVE  Answers(<<c, out>>, X, g)
<1>1. b \in Backgrounds /\ out \in Seq(Messages) /\ Loose(b) \subseteq Sent(out) \cup X
      /\ (b.forgot \/ (g <= GenOf(b) /\ UpTo(out, GenOf(b))))
  BY DEF Answers
<1>2. GenOf(b) \in Nat /\ GenOf(c) \in Nat /\ GenOf(b) <= GenOf(c)
  BY <1>1, GenIsNat DEF Succeeds
<1>3. UpTo(out, GenOf(b)) => UpTo(out, GenOf(c))
  <2> SUFFICES ASSUME UpTo(out, GenOf(b)), NEW m \in Span(out), m.gen \in Gens
               PROVE  m.gen <= GenOf(c)
    BY DEF UpTo
  <2>1. m.gen <= GenOf(b) /\ m.gen \in Nat
    BY TabAssumption DEF UpTo, Gens
  <2> QED BY <2>1, <1>2
<1>4. g <= GenOf(b) => g <= GenOf(c)
  BY <1>2
<1>5. c \in Backgrounds /\ c.forgot = b.forgot /\ Loose(c) \subseteq Sent(out) \cup X
  BY <1>1 DEF Succeeds
<1> QED BY <1>1, <1>3, <1>4, <1>5 DEF Answers

-----------------------------------------------------------------------------
(* The small steps. *)

LEMMA PutObject ==
    ASSUME NEW b \in Backgrounds, NEW o \in Objects, NEW r \in TabObjects
    PROVE  LET c == [b EXCEPT !.obj[o] = r]
           IN  /\ c \in Backgrounds
               /\ c.live = b.live /\ c.forgot = b.forgot /\ c.marks = b.marks
               /\ c.lost = b.lost /\ c.strays = b.strays /\ c.debounce = b.debounce
               /\ c.failed = b.failed /\ c.depth = b.depth /\ c.cached = b.cached
               /\ \A x \in Objects : c.obj[x] = IF x = o THEN r ELSE b.obj[x]
  BY DEF Backgrounds

LEMMA ObjectIs ==
    ASSUME NEW b \in Backgrounds, NEW o \in Objects
    PROVE  b.obj[o] \in TabObjects
  BY DEF Backgrounds

(* What does not touch generations, batches, playlists and marks. *)
LEMMA AsideStays ==
    ASSUME NEW b \in Backgrounds, NEW c \in Backgrounds, c.live = b.live,
           c.forgot = b.forgot, c.marks = b.marks, c.lost = b.lost,
           \A o \in Objects : /\ c.obj[o].gen = b.obj[o].gen
                              /\ c.obj[o].batch = b.obj[o].batch
                              /\ c.obj[o].pl = b.obj[o].pl
    PROVE  Stays(c, b)
<1>1. b.live \in Objects \cup {0}
  BY DEF Backgrounds
<1>2. GenOf(c) = GenOf(b) /\ Waits(c) = Waits(b)
  BY <1>1 DEF GenOf, Waits, Live
<1>3. Inflight(c) = Inflight(b)
  BY DEF Inflight, Marked
<1>4. GenOf(b) \in Nat
  BY GenIsNat
<1> QED BY <1>2, <1>3, <1>4 DEF Stays, Succeeds, Loose

LEMMA ReleaseStays ==
    ASSUME NEW b \in Backgrounds, NEW ks
    PROVE  /\ Stays(Release(b, ks), b)
           /\ Marked(Release(b, ks)) = Marked(b) \ ks
<1> DEFINE c == Release(b, ks)
<1>1. /\ c \in Backgrounds /\ c.live = b.live /\ c.obj = b.obj /\ c.forgot = b.forgot
      /\ c.lost = b.lost \ ks
      /\ \A k \in SegmentKeys : c.marks[k] = IF k \in ks THEN None ELSE b.marks[k]
  BY DEF Release, Backgrounds
<1>2. Marked(c) = Marked(b) \ ks
  BY <1>1 DEF Marked
<1>3. Inflight(c) = Inflight(b) \ ks
  BY <1>1, <1>2 DEF Inflight, Marked
<1>4. GenOf(c) = GenOf(b) /\ Waits(c) = Waits(b) /\ GenOf(b) \in Nat
  BY <1>1, GenIsNat DEF GenOf, Waits, Live
<1>5. Succeeds(c, b)
  BY <1>1, <1>3, <1>4 DEF Succeeds, Loose
<1> QED BY <1>1, <1>2, <1>5 DEF Stays

LEMMA LoseStays ==
    ASSUME NEW b \in Backgrounds, NEW us
    PROVE  /\ Stays(Lose(b, us), b)
           /\ Lose(b, us).obj = b.obj
           /\ Inflight(b) \cap KeysOf(us) \subseteq Lose(b, us).lost
           /\ Inflight(Lose(b, us)) = Inflight(b)
           /\ b.lost \subseteq Lose(b, us).lost
<1> DEFINE c == Lose(b, us)
<1>1. Marked(b) \subseteq SegmentKeys /\ Inflight(b) \subseteq Marked(b)
  BY DEF Marked, Inflight
<1>2. /\ c \in Backgrounds /\ c.live = b.live /\ c.obj = b.obj /\ c.forgot = b.forgot
      /\ c.lost = b.lost \cup (KeysOf(us) \cap Marked(b)) /\ c.marks = b.marks
  BY <1>1 DEF Lose, Backgrounds
<1>3. Inflight(c) = Inflight(b)
  BY <1>2 DEF Inflight, Marked
<1>4. GenOf(c) = GenOf(b) /\ Waits(c) = Waits(b) /\ GenOf(b) \in Nat
  BY <1>2, GenIsNat DEF GenOf, Waits, Live
<1>5. Succeeds(c, b)
  BY <1>2, <1>3, <1>4 DEF Succeeds, Loose
<1> QED BY <1>1, <1>2, <1>3, <1>5 DEF Stays

(* A waiting batch is dropped, its marks known to be lost. *)
LEMMA UnbatchStays ==
    ASSUME NEW b \in Backgrounds, b.live # 0, Live(b).batch # None
    PROVE  Stays([Lose(b, Live(b).batch.urls) EXCEPT !.obj[b.live].batch = None], b)
<1> DEFINE l == Lose(b, Live(b).batch.urls)
           c == [l EXCEPT !.obj[b.live].batch = None]
<1>1. /\ l \in Backgrounds /\ Stays(l, b) /\ l.obj = b.obj
      /\ Inflight(b) \cap KeysOf(Live(b).batch.urls) \subseteq l.lost
      /\ Inflight(l) = Inflight(b) /\ b.lost \subseteq l.lost
  BY LoseStays DEF Stays, Succeeds
<1>2. b.live \in Objects /\ l.live = b.live /\ l.forgot = b.forgot
  BY <1>1 DEF Backgrounds, Stays, Succeeds
<1> HIDE DEF l
<1> DEFINE r == [l.obj[b.live] EXCEPT !.batch = None]
<1>a. l.obj[b.live] \in TabObjects
  BY <1>1, <1>2, ObjectIs
<1>b. /\ r \in TabObjects /\ r.gen = b.obj[b.live].gen /\ r.pl = b.obj[b.live].pl
      /\ r.batch = None
  BY <1>1, <1>a DEF TabObjects
<1>c. c = [l EXCEPT !.obj[b.live] = r]
  OBVIOUS
<1> HIDE DEF r, c
<1>3. /\ c \in Backgrounds /\ c.live = b.live /\ c.marks = l.marks /\ c.lost = l.lost
      /\ c.forgot = b.forgot
      /\ \A x \in Objects : c.obj[x] = IF x = b.live THEN r ELSE b.obj[x]
  BY <1>1, <1>2, <1>b, <1>c, PutObject
<1>5. \A o \in Objects : c.obj[o].gen = b.obj[o].gen /\ c.obj[o].pl = b.obj[o].pl
  BY <1>b, <1>3
<1>6. GenOf(c) = GenOf(b) /\ GenOf(b) \in Nat
  BY <1>2, <1>3, <1>5, GenIsNat DEF GenOf
<1>7. Inflight(c) = Inflight(b)
  BY <1>1, <1>3 DEF Inflight, Marked
<1>8. Waits(b) = KeysOf(Live(b).batch.urls)
  BY DEF Waits
<1>9. Loose(c) \subseteq Loose(b)
  BY <1>1, <1>3, <1>7, <1>8 DEF Loose
<1>10. GenOf(b) <= GenOf(c)
  BY <1>6
<1>11. Succeeds(c, b)
  BY <1>3, <1>9, <1>10 DEF Succeeds
<1>12. Stays(c, b)
  BY <1>3, <1>5, <1>11 DEF Stays
<1> QED BY <1>12 DEF c, l

LEMMA BumpStays ==
    ASSUME NEW b \in Backgrounds, NEW out \in Seq(Messages), b.live # 0, b.obj[b.live].gen < MaxGen,
           NEW t, t = bumpPlaybackGeneration(<<b, out>>, b.live)
    PROVE  /\ t = <<t[1], t[2]>> /\ Stays(t[1], b)
           /\ GenOf(t[1]) = GenOf(b) + 1
           /\ t[2] = Append(out, Cancel(GenOf(t[1]))) /\ t[2] \in Seq(Messages)
           /\ t[1].marks = b.marks /\ t[1].lost = b.lost /\ t[1].strays = b.strays
           /\ Live(t[1]).batch = Live(b).batch
<1> DEFINE next == b.obj[b.live].gen + 1
           c == [b EXCEPT !.obj[b.live].gen = next]
<1>1. b.live \in Objects /\ next \in Gens /\ b.obj[b.live].gen \in Nat
  BY GensAre, GenIsNat DEF Backgrounds, Gens, GenOf
<1> DEFINE r == [b.obj[b.live] EXCEPT !.gen = next]
<1>2. t = <<c, Append(out, Cancel(next))>>
  BY DEF bumpPlaybackGeneration
<1>a. b.obj[b.live] \in TabObjects
  BY <1>1, ObjectIs
<1>b. /\ r \in TabObjects /\ r.gen = next /\ r.batch = b.obj[b.live].batch
      /\ r.pl = b.obj[b.live].pl
  BY <1>1, <1>a DEF TabObjects
<1>c. c = [b EXCEPT !.obj[b.live] = r]
  OBVIOUS
<1>13. t[1] = c /\ t[2] = Append(out, Cancel(next)) /\ t = <<t[1], t[2]>>
  BY DEF bumpPlaybackGeneration
<1> HIDE DEF r, c, next
<1>3. /\ c \in Backgrounds /\ c.live = b.live /\ c.forgot = b.forgot /\ c.marks = b.marks
      /\ c.lost = b.lost /\ c.strays = b.strays
      /\ \A x \in Objects : c.obj[x] = IF x = b.live THEN r ELSE b.obj[x]
  BY <1>1, <1>b, <1>c, PutObject
<1>4. /\ c.live = b.live /\ c.forgot = b.forgot /\ c.marks = b.marks /\ c.lost = b.lost
      /\ c.strays = b.strays
      /\ \A o \in Objects : /\ c.obj[o].gen = IF o = b.live THEN next ELSE b.obj[o].gen
                            /\ c.obj[o].batch = b.obj[o].batch /\ c.obj[o].pl = b.obj[o].pl
  BY <1>b, <1>3
<1>5. GenOf(c) = GenOf(b) + 1 /\ GenOf(b) \in Nat /\ GenOf(c) = next
  BY <1>1, <1>4, GenIsNat DEF GenOf, next
<1>6. Waits(c) = Waits(b) /\ Inflight(c) = Inflight(b)
  BY <1>1, <1>4 DEF Waits, Inflight, Marked, Live
<1>7. Cancel(next) \in Messages
  BY <1>1 DEF Cancel, Messages, Cancels
<1>8. Append(out, Cancel(next)) \in Seq(Messages)
  BY <1>7
<1>9. Live(c).batch = Live(b).batch
  BY <1>1, <1>4 DEF Live
<1>10. Loose(c) = Loose(b)
  BY <1>4, <1>6 DEF Loose
<1>11. GenOf(b) <= GenOf(c)
  BY <1>5
<1>12. Stays(c, b)
  BY <1>3, <1>4, <1>10, <1>11 DEF Stays, Succeeds
<1>14. t[2] = Append(out, Cancel(GenOf(c)))
  BY <1>5, <1>13
<1>15. t[1].marks = b.marks /\ t[1].lost = b.lost /\ t[1].strays = b.strays
  BY <1>4, <1>13
<1> QED BY <1>5, <1>8, <1>9, <1>12, <1>13, <1>14, <1>15

(* What the timers of an object are cleared or set to is aside. *)
LEMMA CapStays ==
    ASSUME NEW b \in Backgrounds, NEW o \in Objects, NEW v \in Timers \cup {None}
    PROVE  Stays([b EXCEPT !.obj[o].cap = v], b)
<1> DEFINE c == [b EXCEPT !.obj[o].cap = v]
<1>1. c \in Backgrounds
  BY DEF Backgrounds, TabObjects
<1>2. /\ c.live = b.live /\ c.forgot = b.forgot /\ c.marks = b.marks /\ c.lost = b.lost
      /\ \A x \in Objects : /\ c.obj[x].gen = b.obj[x].gen
                            /\ c.obj[x].batch = b.obj[x].batch /\ c.obj[x].pl = b.obj[x].pl
  BY DEF Backgrounds, TabObjects
<1> QED BY <1>1, <1>2, AsideStays

LEMMA RetryStays ==
    ASSUME NEW b \in Backgrounds, NEW o \in Objects, NEW v \in Timers \cup {None}
    PROVE  Stays([b EXCEPT !.obj[o].retry = v], b)
<1> DEFINE c == [b EXCEPT !.obj[o].retry = v]
<1>1. c \in Backgrounds
  BY DEF Backgrounds, TabObjects
<1>2. /\ c.live = b.live /\ c.forgot = b.forgot /\ c.marks = b.marks /\ c.lost = b.lost
      /\ \A x \in Objects : /\ c.obj[x].gen = b.obj[x].gen
                            /\ c.obj[x].batch = b.obj[x].batch /\ c.obj[x].pl = b.obj[x].pl
  BY DEF Backgrounds, TabObjects
<1> QED BY <1>1, <1>2, AsideStays

LEMMA ClearInflightStays ==
    ASSUME NEW b \in Backgrounds, NEW o \in Objects
    PROVE  Stays(clearPrefetchInflightRetry(b, o), b)
<1> DEFINE t == b.obj[o].holds
           r == [b EXCEPT !.obj[t].retry = None]
           c == [r EXCEPT !.obj[o].holds = 0]
<1>1. t \in Objects \cup {0}
  BY DEF Backgrounds, TabObjects
<1>2. CASE t = 0
  <2>1. clearPrefetchInflightRetry(b, o) = b
    BY <1>2 DEF clearPrefetchInflightRetry
  <2> QED BY <2>1, StaysSelf
<1>3. CASE t # 0
  <2>1. clearPrefetchInflightRetry(b, o) = c
    BY <1>3 DEF clearPrefetchInflightRetry
  <2>2. Stays(r, b)
    BY <1>1, <1>3, RetryStays
  <2>3. r \in Backgrounds
    BY <2>2 DEF Stays, Succeeds
  <2> HIDE DEF r
  <2>4. c \in Backgrounds
    BY <2>3 DEF Backgrounds, TabObjects
  <2>5. /\ c.live = r.live /\ c.forgot = r.forgot /\ c.marks = r.marks /\ c.lost = r.lost
        /\ \A x \in Objects : /\ c.obj[x].gen = r.obj[x].gen
                              /\ c.obj[x].batch = r.obj[x].batch /\ c.obj[x].pl = r.obj[x].pl
    BY <2>3 DEF Backgrounds, TabObjects
  <2>6. Stays(c, r)
    BY <2>3, <2>4, <2>5, AsideStays
  <2> QED BY <2>1, <2>2, <2>6, StaysAgain
<1> QED BY <1>2, <1>3

LEMMA DropStays ==
    ASSUME NEW b \in Backgrounds, NEW o \in Objects \cup {0}
    PROVE  Stays(dropStalePrefetchWork(b, o), b)
<1>1. CASE o = 0
  BY <1>1, StaysSelf DEF dropStalePrefetchWork
<1>2. CASE o # 0
  <2> DEFINE c == clearPrefetchCapRetry(b, o)
  <2>1. Stays(c, b)
    BY <1>2, CapStays DEF clearPrefetchCapRetry
  <2>2. c \in Backgrounds
    BY <2>1 DEF Stays, Succeeds
  <2> HIDE DEF c
  <2>3. Stays(clearPrefetchInflightRetry(c, o), c)
    BY <1>2, <2>2, ClearInflightStays
  <2>4. dropStalePrefetchWork(b, o) = clearPrefetchInflightRetry(c, o)
    BY <1>2 DEF dropStalePrefetchWork, c
  <2> QED BY <2>1, <2>3, <2>4, StaysAgain
<1> QED BY <1>1, <1>2

LEMMA ArmCapStays ==
    ASSUME NEW b \in Backgrounds, NEW o \in Objects, NEW src \in Sources
    PROVE  Stays(ArmCapRetry(b, o, src), b)
<1>1. [src |-> src, gen |-> b.obj[o].gen] \in Timers
  BY DEF Backgrounds, TabObjects, Timers
<1> QED BY <1>1, CapStays DEF ArmCapRetry

LEMMA ArmInflightStays ==
    ASSUME NEW b \in Backgrounds, NEW o \in Objects, NEW src \in Sources
    PROVE  Stays(ArmInflightRetry(b, o, src), b)
<1> DEFINE r == clearPrefetchInflightRetry(b, o)
           c == ArmInflightRetry(b, o, src)
           armed == [src |-> src, gen |-> r.obj[o].gen]
           arm(x) == IF x = o THEN [r.obj[o] EXCEPT !.retry = armed, !.holds = o]
                     ELSE IF r.obj[x].holds = o THEN [r.obj[x] EXCEPT !.holds = 0]
                     ELSE r.obj[x]
<1>1. Stays(r, b)
  BY ClearInflightStays
<1>2. r \in Backgrounds
  BY <1>1 DEF Stays, Succeeds
<1>3. c = [r EXCEPT !.obj = [x \in Objects |-> arm(x)]]
  BY DEF ArmInflightRetry
<1> HIDE DEF r, c
<1>4. armed \in Timers
  BY <1>2 DEF Backgrounds, TabObjects, Timers
<1> HIDE DEF armed
<1>5. \A x \in Objects : /\ arm(x) \in TabObjects
                         /\ arm(x).gen = r.obj[x].gen /\ arm(x).batch = r.obj[x].batch
                         /\ arm(x).pl = r.obj[x].pl
  <2> TAKE x \in Objects
  <2>1. r.obj[x] \in TabObjects /\ r.obj[o] \in TabObjects
    BY <1>2, ObjectIs
  <2>2. CASE x = o
    BY <1>4, <2>1, <2>2 DEF TabObjects
  <2>3. CASE x # o
    BY <2>1, <2>3 DEF TabObjects
  <2> QED BY <2>2, <2>3
<1> HIDE DEF arm
<1>6. /\ c \in Backgrounds /\ c.live = r.live /\ c.forgot = r.forgot /\ c.marks = r.marks
      /\ c.lost = r.lost /\ \A x \in Objects : c.obj[x] = arm(x)
  BY <1>2, <1>3, <1>5 DEF Backgrounds
<1>7. Stays(c, r)
  BY <1>2, <1>5, <1>6, AsideStays
<1> QED BY <1>1, <1>7, StaysAgain DEF c

LEMMA NoBatchIsNone == ASSUME NEW r \in Coalesced PROVE r # None
  BY TabAssumption DEF Coalesced, Gens

LEMMA KeysAre == ASSUME NEW us \in SUBSET Urls PROVE KeysOf(us) \subseteq SegmentKeys
  BY TabAssumption DEF KeysOf

(* The live object's batch is another. *)
LEMMA Rebatch ==
    ASSUME NEW b \in Backgrounds, b.live # 0, NEW r \in Coalesced \cup {None},
           NEW c, c = [b EXCEPT !.obj[b.live].batch = r]
    PROVE  /\ c \in Backgrounds /\ c.live = b.live /\ c.forgot = b.forgot
           /\ c.lost = b.lost /\ Inflight(c) = Inflight(b) /\ GenOf(c) = GenOf(b)
           /\ Waits(c) = IF r = None THEN {} ELSE KeysOf(r.urls)
           /\ \A o \in Objects : c.obj[o].pl = b.obj[o].pl
<1> DEFINE n == [b.obj[b.live] EXCEPT !.batch = r]
<1>1. b.live \in Objects
  BY DEF Backgrounds
<1>2. b.obj[b.live] \in TabObjects
  BY <1>1, ObjectIs
<1>3. /\ n \in TabObjects /\ n.gen = b.obj[b.live].gen /\ n.pl = b.obj[b.live].pl
      /\ n.batch = r
  BY <1>2 DEF TabObjects
<1>4. c = [b EXCEPT !.obj[b.live] = n]
  OBVIOUS
<1> HIDE DEF n
<1> DEFINE d == [b EXCEPT !.obj[b.live] = n]
<1>a. /\ d \in Backgrounds /\ d.live = b.live /\ d.marks = b.marks /\ d.lost = b.lost
      /\ d.forgot = b.forgot
      /\ \A x \in Objects : d.obj[x] = IF x = b.live THEN n ELSE b.obj[x]
  BY <1>1, <1>3, PutObject
<1>b. c = d
  BY <1>4
<1> HIDE DEF d
<1>5. /\ c \in Backgrounds /\ c.live = b.live /\ c.marks = b.marks /\ c.lost = b.lost
      /\ c.forgot = b.forgot
      /\ \A x \in Objects : c.obj[x] = IF x = b.live THEN n ELSE b.obj[x]
  BY <1>a, <1>b
<1>6. GenOf(c) = GenOf(b)
  BY <1>1, <1>3, <1>5 DEF GenOf
<1>7. Waits(c) = IF r = None THEN {} ELSE KeysOf(r.urls)
  BY <1>1, <1>3, <1>5 DEF Waits, Live
<1>8. Inflight(c) = Inflight(b)
  BY <1>5 DEF Inflight, Marked
<1>9. \A o \in Objects : c.obj[o].pl = b.obj[o].pl
  BY <1>3, <1>5
<1> QED BY <1>5, <1>6, <1>7, <1>8, <1>9

(* What is marked for a batch is loose until the batch is handed on. *)
LEMMA MarkLoosens ==
    ASSUME NEW b \in Backgrounds, NEW us \in SUBSET Urls, NEW src,
           NEW c, c = MarkInflight(b, us, src)
    PROVE  /\ c \in Backgrounds /\ c.live = b.live /\ c.forgot = b.forgot
           /\ c.obj = b.obj /\ GenOf(c) = GenOf(b)
           /\ Loose(c) \subseteq Loose(b) \cup KeysOf(us)
<1> DEFINE mark == [deep |-> src = "depth-fill", fresh |-> TRUE]
<1>1. mark \in Marks
  BY DEF Marks
<1> DEFINE f == [k \in SegmentKeys |-> IF k \in KeysOf(us) THEN mark ELSE b.marks[k]]
<1>2. c = [b EXCEPT !.marks = f, !.lost = b.lost \ KeysOf(us)]
  BY DEF MarkInflight
<1> HIDE DEF mark
<1>a. f \in [SegmentKeys -> Marks \cup {None}]
  BY <1>1 DEF Backgrounds
<1>b. \A k \in SegmentKeys : f[k] = IF k \in KeysOf(us) THEN mark ELSE b.marks[k]
  OBVIOUS
<1> HIDE DEF f
<1>c. c.marks = f /\ c \in Backgrounds
  BY <1>2, <1>a DEF Backgrounds
<1>3. /\ c \in Backgrounds /\ c.live = b.live /\ c.forgot = b.forgot /\ c.obj = b.obj
      /\ c.lost = b.lost \ KeysOf(us)
      /\ \A k \in SegmentKeys : c.marks[k] = IF k \in KeysOf(us) THEN mark ELSE b.marks[k]
  BY <1>2, <1>b, <1>c DEF Backgrounds
<1>4. Inflight(c) \subseteq Inflight(b) \cup KeysOf(us)
  BY <1>3 DEF Inflight, Marked
<1>5. GenOf(c) = GenOf(b) /\ Waits(c) = Waits(b)
  BY <1>3 DEF GenOf, Waits, Live
<1> QED BY <1>3, <1>4, <1>5 DEF Loose

-----------------------------------------------------------------------------
(* The messages. *)

LEMMA SpanAppend ==
    ASSUME NEW out \in Seq(Messages), NEW m PROVE Span(Append(out, m)) = Span(out) \cup {m}
<1>1. /\ DOMAIN Append(out, m) = 1 .. Len(out) + 1 /\ DOMAIN out = 1 .. Len(out)
      /\ Len(out) \in Nat
  OBVIOUS
<1>2. \A i \in 1 .. Len(out) : Append(out, m)[i] = out[i]
  OBVIOUS
<1>3. Append(out, m)[Len(out) + 1] = m
  OBVIOUS
<1>4. Span(Append(out, m)) \subseteq Span(out) \cup {m}
  <2> SUFFICES ASSUME NEW i \in 1 .. Len(out) + 1
               PROVE  Append(out, m)[i] \in Span(out) \cup {m}
    BY <1>1 DEF Span
  <2>1. CASE i = Len(out) + 1
    BY <2>1, <1>3
  <2>2. CASE i # Len(out) + 1
    <3>1. i \in 1 .. Len(out)
      BY <2>2, <1>1
    <3> QED BY <3>1, <1>1, <1>2 DEF Span
  <2> QED BY <2>1, <2>2
<1>5. Span(out) \subseteq Span(Append(out, m))
  <2> SUFFICES ASSUME NEW i \in 1 .. Len(out) PROVE out[i] \in Span(Append(out, m))
    BY <1>1 DEF Span
  <2>1. i \in 1 .. Len(out) + 1
    BY <1>1
  <2> QED BY <2>1, <1>1, <1>2 DEF Span
<1>6. m \in Span(Append(out, m))
  <2>1. Len(out) + 1 \in 1 .. Len(out) + 1
    BY <1>1
  <2> QED BY <2>1, <1>1, <1>3 DEF Span
<1> QED BY <1>4, <1>5, <1>6

LEMMA SpanCat ==
    ASSUME NEW p \in Seq(Messages), NEW q \in Seq(Messages)
    PROVE  Span(p \o q) = Span(p) \cup Span(q)
<1>1. /\ DOMAIN (p \o q) = 1 .. Len(p) + Len(q) /\ DOMAIN p = 1 .. Len(p)
      /\ DOMAIN q = 1 .. Len(q) /\ Len(p) \in Nat /\ Len(q) \in Nat
  OBVIOUS
<1>2. \A i \in 1 .. Len(p) : (p \o q)[i] = p[i]
  OBVIOUS
<1>3. \A i \in 1 .. Len(q) : (p \o q)[Len(p) + i] = q[i]
  OBVIOUS
<1>4. Span(p \o q) \subseteq Span(p) \cup Span(q)
  <2> SUFFICES ASSUME NEW i \in 1 .. Len(p) + Len(q)
               PROVE  (p \o q)[i] \in Span(p) \cup Span(q)
    BY <1>1 DEF Span
  <2>1. CASE i <= Len(p)
    <3>1. i \in 1 .. Len(p)
      BY <2>1, <1>1
    <3> QED BY <3>1, <1>1, <1>2 DEF Span
  <2>2. CASE i > Len(p)
    <3> DEFINE j == i - Len(p)
    <3>1. j \in 1 .. Len(q) /\ i = Len(p) + j
      BY <2>2, <1>1
    <3> HIDE DEF j
    <3>2. (p \o q)[i] = q[j]
      BY <3>1, <1>3
    <3> QED BY <3>1, <3>2, <1>1 DEF Span
  <2> QED BY <2>1, <2>2, <1>1
<1>5. Span(p) \subseteq Span(p \o q)
  <2> SUFFICES ASSUME NEW i \in 1 .. Len(p) PROVE p[i] \in Span(p \o q)
    BY <1>1 DEF Span
  <2>1. i \in 1 .. Len(p) + Len(q)
    BY <1>1
  <2> QED BY <2>1, <1>1, <1>2 DEF Span
<1>6. Span(q) \subseteq Span(p \o q)
  <2> SUFFICES ASSUME NEW i \in 1 .. Len(q) PROVE q[i] \in Span(p \o q)
    BY <1>1 DEF Span
  <2>1. Len(p) + i \in 1 .. Len(p) + Len(q)
    BY <1>1
  <2> QED BY <2>1, <1>1, <1>3 DEF Span
<1> QED BY <1>4, <1>5, <1>6

LEMMA SpanTail ==
    ASSUME NEW q \in Seq(Messages), q # <<>>
    PROVE  /\ Head(q) \in Messages /\ Tail(q) \in Seq(Messages)
           /\ Span(q) = {Head(q)} \cup Span(Tail(q))
           /\ Len(Tail(q)) <= Len(q)
<1>1. /\ DOMAIN Tail(q) = 1 .. Len(q) - 1 /\ DOMAIN q = 1 .. Len(q) /\ Len(q) \in Nat
      /\ Len(q) >= 1 /\ Tail(q) \in Seq(Messages) /\ Len(Tail(q)) = Len(q) - 1
  OBVIOUS
<1>2. Head(q) = q[1] /\ q[1] \in Messages
  BY <1>1
<1>3. \A i \in 1 .. Len(q) - 1 : Tail(q)[i] = q[i + 1]
  OBVIOUS
<1>4. Span(q) \subseteq {Head(q)} \cup Span(Tail(q))
  <2> SUFFICES ASSUME NEW i \in 1 .. Len(q) PROVE q[i] \in {Head(q)} \cup Span(Tail(q))
    BY <1>1 DEF Span
  <2>1. CASE i = 1
    BY <2>1, <1>2
  <2>2. CASE i # 1
    <3> DEFINE j == i - 1
    <3>1. j \in 1 .. Len(q) - 1 /\ i = j + 1
      BY <2>2, <1>1
    <3> HIDE DEF j
    <3>2. Tail(q)[j] = q[i]
      BY <3>1, <1>3
    <3> QED BY <3>1, <3>2, <1>1 DEF Span
  <2> QED BY <2>1, <2>2
<1>5. Span(Tail(q)) \subseteq Span(q)
  <2> SUFFICES ASSUME NEW i \in 1 .. Len(q) - 1 PROVE Tail(q)[i] \in Span(q)
    BY <1>1 DEF Span
  <2>1. i + 1 \in 1 .. Len(q)
    BY <1>1
  <2> QED BY <2>1, <1>1, <1>3 DEF Span
<1>6. Head(q) \in Span(q)
  <2>1. 1 \in 1 .. Len(q)
    BY <1>1
  <2> QED BY <2>1, <1>1, <1>2 DEF Span
<1>7. Len(Tail(q)) <= Len(q)
  BY <1>1
<1> QED BY <1>1, <1>2, <1>4, <1>5, <1>6, <1>7

LEMMA SentAppend ==
    ASSUME NEW out \in Seq(Messages), NEW m
    PROVE  Sent(Append(out, m)) = Sent(out) \cup (IF m.type = "prefetch" THEN KeysOf(m.urls) ELSE {})
<1>1. Span(Append(out, m)) = Span(out) \cup {m}
  BY SpanAppend
<1> QED BY <1>1 DEF Sent

LEMMA SentCat ==
    ASSUME NEW p \in Seq(Messages), NEW q \in Seq(Messages)
    PROVE  Sent(p \o q) = Sent(p) \cup Sent(q)
<1>1. Span(p \o q) = Span(p) \cup Span(q)
  BY SpanCat
<1> QED BY <1>1 DEF Sent

(* What is posted last is of the live object's generation and may explain loose marks. *)
LEMMA PostAnswers ==
    ASSUME NEW b, NEW out, NEW X, NEW Y, NEW g \in Nat, NEW m \in Messages,
           Answers(<<b, out>>, X \cup Y, g), b.forgot \/ m.gen = GenOf(b),
           Y \subseteq (IF m.type = "prefetch" THEN KeysOf(m.urls) ELSE {})
    PROVE  Answers(<<b, Append(out, m)>>, X, g)
<1>1. /\ b \in Backgrounds /\ out \in Seq(Messages)
      /\ b.forgot \/ (g <= GenOf(b) /\ UpTo(out, GenOf(b)))
      /\ Loose(b) \subseteq Sent(out) \cup X \cup Y
  BY DEF Answers
<1>2. Append(out, m) \in Seq(Messages)
  BY <1>1
<1>3. Span(Append(out, m)) = Span(out) \cup {m}
  BY <1>1, SpanAppend
<1>4. Sent(out) \cup Y \subseteq Sent(Append(out, m))
  BY <1>1, SentAppend
<1>5. GenOf(b) \in Nat
  BY <1>1, GenIsNat
<1>6. b.forgot \/ (g <= GenOf(b) /\ UpTo(Append(out, m), GenOf(b)))
  BY <1>1, <1>3, <1>5 DEF UpTo
<1>7. Loose(b) \subseteq Sent(Append(out, m)) \cup X
  BY <1>1, <1>4
<1> QED BY <1>1, <1>2, <1>6, <1>7 DEF Answers

(* A pair that follows from another without touching which tab plays what. *)
Goes(t, s, X, g) ==
    /\ Answers(t, X, g)
    /\ t[1].live = s[1].live
    /\ \A o \in Objects : t[1].obj[o].pl = s[1].obj[o].pl

LEMMA BumpsAnswer ==
    ASSUME NEW b, NEW out, NEW X, NEW g \in Nat, Answers(<<b, out>>, X, g), b.live # 0,
           NEW t \in Bumps(<<b, out>>, b.live)
    PROVE  /\ t = <<t[1], t[2]>> /\ Stays(t[1], b) /\ Answers(t, X, g)
           /\ Live(t[1]).batch = Live(b).batch
<1>1. b \in Backgrounds /\ out \in Seq(Messages)
  BY DEF Answers
<1>2. CASE t = <<b, out>>
  <2>1. t[1] = b /\ t[2] = out
    BY <1>2
  <2> QED BY <1>1, <1>2, <2>1, StaysSelf
<1>3. CASE t # <<b, out>>
  <2>1. b.obj[b.live].gen < MaxGen /\ t = bumpPlaybackGeneration(<<b, out>>, b.live)
    BY <1>3 DEF Bumps
  <2>2. /\ t = <<t[1], t[2]>> /\ Stays(t[1], b)
        /\ t[2] = Append(out, Cancel(GenOf(t[1])))
        /\ Live(t[1]).batch = Live(b).batch
    BY <1>1, <2>1, BumpStays
  <2>3. Succeeds(t[1], b)
    BY <2>2 DEF Stays
  <2>4. Answers(<<t[1], out>>, X, g)
    BY <2>3, AnswersAgain
  <2>5. t[1] \in Backgrounds /\ GenOf(t[1]) \in Gens
    BY <2>3, GenIsNat DEF Succeeds
  <2> DEFINE m == Cancel(GenOf(t[1]))
  <2>6. m \in Messages /\ m.gen = GenOf(t[1])
    BY <2>5 DEF Cancel, Messages, Cancels
  <2> HIDE DEF m
  <2>7. Answers(<<t[1], out>>, X \cup {}, g)
    <3>1. X \cup {} = X
      OBVIOUS
    <3> QED BY <2>4, <3>1
  <2>8. Answers(<<t[1], Append(out, m)>>, X, g)
    BY <2>6, <2>7, PostAnswers
  <2> QED BY <2>2, <2>8 DEF m
<1> QED BY <1>2, <1>3

LEMMA CoalesceAnswers ==
    ASSUME NEW b, NEW out, NEW X, NEW g \in Nat, NEW us \in SUBSET Urls, b.live # 0,
           Answers(<<b, out>>, X \cup KeysOf(us), g)
    PROVE  Goes(CoalesceDelegate(<<b, out>>, us), <<b, out>>, X, g)
<1> DEFINE waiting == Live(b).batch
           merges == waiting # None /\ waiting.gen = Live(b).gen
           l == IF waiting = None \/ merges THEN b ELSE Lose(b, waiting.urls)
           r == [urls |-> us \cup (IF merges THEN waiting.urls ELSE {}), gen |-> Live(b).gen]
           c == [l EXCEPT !.obj[b.live].batch = r]
<1>1. CoalesceDelegate(<<b, out>>, us) = <<c, out>>
  BY DEF CoalesceDelegate
<1>2. /\ b \in Backgrounds /\ out \in Seq(Messages)
      /\ b.forgot \/ (g <= GenOf(b) /\ UpTo(out, GenOf(b)))
      /\ Loose(b) \subseteq Sent(out) \cup X \cup KeysOf(us)
  BY DEF Answers
<1>3. b.live \in Objects /\ b.obj[b.live] \in TabObjects
  BY <1>2, ObjectIs DEF Backgrounds
<1>4. waiting \in Coalesced \cup {None} /\ Live(b).gen \in Gens
  BY <1>3 DEF Live, TabObjects
<1>5. Waits(b) = IF waiting = None THEN {} ELSE KeysOf(waiting.urls)
  BY <1>3 DEF Waits
<1>6. r \in Coalesced /\ r # None
  <2>1. r \in Coalesced
    BY <1>4 DEF Coalesced
  <2> QED BY <2>1, NoBatchIsNone
<1>7. KeysOf(us) \subseteq KeysOf(r.urls) /\ (merges => Waits(b) \subseteq KeysOf(r.urls))
  BY <1>5 DEF KeysOf
<1>8. /\ l \in Backgrounds /\ l.live = b.live /\ l.obj = b.obj /\ l.forgot = b.forgot
      /\ Inflight(l) = Inflight(b) /\ b.lost \subseteq l.lost
      /\ merges \/ waiting = None \/ Inflight(b) \cap KeysOf(waiting.urls) \subseteq l.lost
  BY <1>2, LoseStays DEF Stays, Succeeds
<1> HIDE DEF merges, l, r
<1>9. /\ c \in Backgrounds /\ c.live = l.live /\ c.forgot = l.forgot
      /\ c.lost = l.lost /\ Inflight(c) = Inflight(l) /\ GenOf(c) = GenOf(l)
      /\ Waits(c) = KeysOf(r.urls)
      /\ \A o \in Objects : c.obj[o].pl = l.obj[o].pl
  BY <1>3, <1>6, <1>8, Rebatch
<1> HIDE DEF c
<1>10. Loose(c) \subseteq Sent(out) \cup X
  <2> SUFFICES ASSUME NEW k \in Loose(c) PROVE k \in Loose(b) /\ k \notin KeysOf(us)
    BY <1>2
  <2>1. k \in Inflight(b) /\ k \notin KeysOf(r.urls) /\ k \notin l.lost
    BY <1>8, <1>9 DEF Loose
  <2>2. k \notin Waits(b)
    BY <2>1, <1>5, <1>7, <1>8
  <2> QED BY <2>1, <2>2, <1>7, <1>8 DEF Loose
<1>11. GenOf(c) = GenOf(b)
  BY <1>8, <1>9 DEF GenOf
<1>12. Answers(<<c, out>>, X, g)
  BY <1>2, <1>8, <1>9, <1>10, <1>11 DEF Answers
<1>13. c.live = b.live /\ \A o \in Objects : c.obj[o].pl = b.obj[o].pl
  BY <1>8, <1>9
<1> QED BY <1>1, <1>12, <1>13 DEF Goes

LEMMA DirectAnswers ==
    ASSUME NEW b, NEW out, NEW X, NEW g \in Nat, NEW us \in SUBSET Urls, b.live # 0,
           Answers(<<b, out>>, X \cup KeysOf(us), g), NEW counted \in BOOLEAN,
           NEW by \in Objects \cup {0}, NEW src \in Sources,
           NEW t \in DirectDelegates(<<b, out>>, us, counted, by, src)
    PROVE  Goes(t, <<b, out>>, X, g)
<1> DEFINE Y == X \cup KeysOf(us)
           l == IF Live(b).batch = None THEN b
                ELSE [Lose(b, Live(b).batch.urls) EXCEPT !.obj[b.live].batch = None]
           aborted(u) == IF u[1].obj[b.live].gen = Live(b).gen THEN u
                         ELSE <<Release(u[1], SegmentKeys), u[2]>>
<1>1. PICK u \in Bumps(<<l, out>>, b.live) :
         t = <<aborted(u)[1], Append(aborted(u)[2], Prefetch(us, Live(aborted(u)[1]).gen, counted, by, src))>>
  BY DEF DirectDelegates
<1>2. b \in Backgrounds /\ out \in Seq(Messages)
  BY DEF Answers
<1>3. Stays(l, b)
  BY <1>2, StaysSelf, UnbatchStays
<1> HIDE DEF l
<1>4. Answers(<<l, out>>, Y, g) /\ l.live = b.live
  BY <1>3, AnswersAgain DEF Stays
<1>5. u = <<u[1], u[2]>> /\ Stays(u[1], l) /\ Answers(u, Y, g)
  BY <1>1, <1>4, BumpsAnswer
<1> DEFINE v == aborted(u)
<1>6. v = <<v[1], v[2]>> /\ Stays(v[1], u[1]) /\ Answers(v, Y, g)
  <2>1. u[1] \in Backgrounds
    BY <1>5 DEF Answers
  <2>2. CASE v = u
    BY <2>1, <2>2, <1>5, StaysSelf
  <2>3. CASE v = <<Release(u[1], SegmentKeys), u[2]>>
    <3>1. Stays(Release(u[1], SegmentKeys), u[1])
      BY <2>1, ReleaseStays
    <3>2. Answers(<<Release(u[1], SegmentKeys), u[2]>>, Y, g)
      BY <3>1, <1>5, AnswersAgain DEF Stays
    <3> QED BY <2>3, <3>1, <3>2
  <2> QED BY <2>2, <2>3
<1> HIDE DEF v
<1>7. Stays(v[1], b)
  BY <1>2, <1>3, <1>5, <1>6, StaysAgain DEF Stays, Succeeds
<1>8. v[1] \in Backgrounds /\ v[1].live = b.live
  BY <1>7 DEF Stays, Succeeds
<1> DEFINE m == Prefetch(us, Live(v[1]).gen, counted, by, src)
<1>9. m \in Messages /\ m.gen = GenOf(v[1]) /\ m.type = "prefetch" /\ m.urls = us
  <2>1. Live(v[1]).gen = GenOf(v[1]) /\ GenOf(v[1]) \in Gens
    BY <1>8, GenIsNat DEF GenOf, Live
  <2> QED BY <2>1 DEF Prefetch, Messages, Delegations
<1>10. t = <<v[1], Append(v[2], m)>>
  BY <1>1 DEF v
<1> HIDE DEF m
<1>11. Answers(t, X, g)
  BY <1>6, <1>9, <1>10, PostAnswers
<1>12. t[1] = v[1]
  BY <1>10
<1> QED BY <1>7, <1>11, <1>12 DEF Goes, Stays

LEMMA BlankIs == Blank \in TabObjects
  BY GensAre DEF Blank, TabObjects

(* What nothing names is blank afterwards; the live object keeps what matters. *)
LEMMA SweptIs ==
    ASSUME NEW b \in Backgrounds, NEW ms \in Seq(Messages), NEW c, c = Swept(b, ms)
    PROVE  /\ Succeeds(c, b) /\ c.live = b.live /\ c.strays = b.strays
           /\ b.live # 0 => c.obj[b.live].pl = b.obj[b.live].pl
           /\ \A o \in Objects \ Referenced(c, ms) : c.obj[o] = Blank
<1> DEFINE kept == Referenced(b, ms)
           handle(o) == LET t == b.obj[o].holds
                        IN  IF t # 0 /\ b.obj[t].retry # None THEN t ELSE 0
           timed(o) == b.obj[o].cap # None \/ b.obj[o].retry # None
           tidy(o) == CASE o = b.live -> [b.obj[o] EXCEPT !.holds = handle(o)]
                     [] o # b.live /\ timed(o) ->
                           [b.obj[o] EXCEPT !.holds = handle(o), !.batch = None,
                                            !.asleep = "no", !.runway = "unknown"]
                     [] o # b.live /\ o \in kept /\ ~timed(o) ->
                           [Blank EXCEPT !.gen = b.obj[o].gen, !.pl = b.obj[o].pl]
                     [] OTHER -> Blank
<1>1. c = [b EXCEPT !.obj = [o \in Objects |-> tidy(o)]]
  BY DEF Swept
<1>2. ASSUME NEW o \in Objects
      PROVE  /\ tidy(o) \in TabObjects
             /\ o = b.live => /\ tidy(o).gen = b.obj[o].gen /\ tidy(o).pl = b.obj[o].pl
                              /\ tidy(o).batch = b.obj[o].batch
             /\ o = b.live \/ timed(o) => /\ tidy(o).cap = b.obj[o].cap
                                          /\ tidy(o).retry = b.obj[o].retry
             /\ o \notin kept => tidy(o) = Blank
  <2>1. b.obj[o] \in TabObjects
    BY ObjectIs
  <2>2. handle(o) \in Objects \cup {0}
    BY <2>1 DEF TabObjects
  <2>3. Blank \in TabObjects
    BY BlankIs
  <2> HIDE DEF handle
  <2>4. CASE o = b.live
    <3>1. tidy(o) = [b.obj[o] EXCEPT !.holds = handle(o)] /\ o \in kept
      BY <2>4 DEF Referenced
    <3> HIDE DEF tidy, kept
    <3> QED BY <2>1, <2>2, <2>4, <3>1 DEF TabObjects
  <2>5. CASE o # b.live /\ timed(o)
    <3>1. /\ tidy(o) = [b.obj[o] EXCEPT !.holds = handle(o), !.batch = None,
                                       !.asleep = "no", !.runway = "unknown"]
          /\ o \in kept
      BY <2>5 DEF Referenced
    <3> HIDE DEF tidy, kept
    <3> QED BY <2>1, <2>2, <2>5, <3>1 DEF TabObjects
  <2>6. CASE o # b.live /\ o \in kept /\ ~timed(o)
    <3>1. tidy(o) = [Blank EXCEPT !.gen = b.obj[o].gen, !.pl = b.obj[o].pl]
      BY <2>6
    <3> HIDE DEF tidy, kept
    <3>2. tidy(o) \in TabObjects
      BY <2>1, <2>3, <3>1 DEF TabObjects
    <3> QED BY <2>6, <3>2
  <2>7. CASE o # b.live /\ o \notin kept
    <3>1. ~timed(o)
      BY <2>7 DEF Referenced
    <3>2. tidy(o) = Blank
      BY <2>7, <3>1
    <3> HIDE DEF tidy, kept
    <3> QED BY <2>3, <2>7, <3>1, <3>2
  <2> QED BY <2>4, <2>5, <2>6, <2>7
<1> HIDE DEF tidy
<1> DEFINE f == [o \in Objects |-> tidy(o)]
<1>3. f \in [Objects -> TabObjects] /\ \A o \in Objects : f[o] = tidy(o)
  BY <1>2
<1>4. c = [b EXCEPT !.obj = f]
  BY <1>1
<1> HIDE DEF f
<1>5. /\ c \in Backgrounds /\ c.live = b.live /\ c.forgot = b.forgot /\ c.marks = b.marks
      /\ c.lost = b.lost /\ c.strays = b.strays /\ c.depth = b.depth /\ c.obj = f
  BY <1>3, <1>4 DEF Backgrounds
<1>6. b.live \in Objects \cup {0}
  BY DEF Backgrounds
<1>7. GenOf(c) = GenOf(b) /\ Waits(c) = Waits(b) /\ GenOf(b) \in Nat
  BY <1>2, <1>3, <1>5, <1>6, GenIsNat DEF GenOf, Waits, Live
<1>8. Inflight(c) = Inflight(b)
  BY <1>5 DEF Inflight, Marked
<1>9. Succeeds(c, b)
  BY <1>5, <1>7, <1>8 DEF Succeeds, Loose
<1>10. b.live # 0 => c.obj[b.live].pl = b.obj[b.live].pl
  BY <1>2, <1>3, <1>5, <1>6
<1>11. ASSUME NEW o \in Objects, o \notin Referenced(c, ms) PROVE o \notin kept
  <2>1. /\ o # c.live /\ o \notin c.depth /\ c.obj[o].cap = None /\ c.obj[o].retry = None
        /\ o \notin {m.by : m \in {n \in Span(ms) : n.type = "prefetch"}}
    BY <1>11 DEF Referenced
  <2>2. ~timed(o)
    <3> SUFFICES ASSUME timed(o) PROVE FALSE
      OBVIOUS
    <3>1. tidy(o).cap = b.obj[o].cap /\ tidy(o).retry = b.obj[o].retry
      BY <1>2
    <3>2. c.obj[o] = tidy(o)
      BY <1>3, <1>5
    <3> QED BY <2>1, <3>1, <3>2
  <2> QED BY <2>1, <2>2, <1>5 DEF Referenced
<1>12. \A o \in Objects \ Referenced(c, ms) : c.obj[o] = Blank
  BY <1>2, <1>3, <1>5, <1>11
<1> QED BY <1>5, <1>9, <1>10, <1>12

LEMMA RetiredStays ==
    ASSUME NEW b \in Backgrounds
    PROVE  Stays(Retired(b), b) /\ Waits(Retired(b)) = {}
<1>1. CASE Old(b).batch = None
  <2>1. Retired(b) = b
    BY <1>1 DEF Retired
  <2>2. Waits(b) = {}
    BY <1>1 DEF Old, Waits
  <2> QED BY <2>1, <2>2, StaysSelf
<1>2. CASE Old(b).batch # None
  <2> DEFINE us == Live(b).batch.urls
             d == Lose(b, us)
             l == [d EXCEPT !.strays = @ + 1]
             c == [l EXCEPT !.obj[b.live].batch = None]
  <2>1. b.live # 0 /\ Old(b) = Live(b) /\ Live(b).batch # None
    BY <1>2 DEF Old, Blank
  <2>2. Retired(b) = c
    BY <1>2, <2>1 DEF Retired
  <2>3. /\ Stays(d, b) /\ d.obj = b.obj /\ Inflight(b) \cap KeysOf(us) \subseteq d.lost
        /\ Inflight(d) = Inflight(b) /\ b.lost \subseteq d.lost
    BY LoseStays
  <2>4. d \in Backgrounds /\ d.live = b.live /\ d.forgot = b.forgot
    BY <2>3 DEF Stays, Succeeds
  <2> HIDE DEF d
  <2>5. /\ l \in Backgrounds /\ l.live = b.live /\ l.obj = b.obj /\ l.forgot = b.forgot
        /\ l.lost = d.lost /\ l.marks = d.marks
    BY <2>3, <2>4 DEF Backgrounds
  <2>6. Inflight(l) = Inflight(b)
    BY <2>3, <2>5 DEF Inflight, Marked
  <2> HIDE DEF l
  <2>7. /\ c \in Backgrounds /\ c.live = l.live /\ c.forgot = l.forgot
        /\ c.lost = l.lost /\ Inflight(c) = Inflight(l) /\ GenOf(c) = GenOf(l)
        /\ Waits(c) = {}
        /\ \A o \in Objects : c.obj[o].pl = l.obj[o].pl
    BY <2>1, <2>5, Rebatch
  <2> HIDE DEF c
  <2>8. GenOf(c) = GenOf(b) /\ GenOf(b) \in Nat
    BY <2>5, <2>7, GenIsNat DEF GenOf
  <2>9. Waits(b) = KeysOf(us)
    BY <2>1 DEF Waits
  <2>10. Loose(c) \subseteq Loose(b)
    BY <2>3, <2>5, <2>6, <2>7, <2>9 DEF Loose
  <2>11. Stays(c, b)
    BY <2>5, <2>7, <2>8, <2>10 DEF Stays, Succeeds
  <2> QED BY <2>2, <2>7, <2>11
<1> QED BY <1>1, <1>2

LEMMA EnteredIs ==
    ASSUME NEW b \in Backgrounds, NEW n \in Objects, NEW pl \in Playlists \cup {None},
           NEW c, c = Entered(b, n, pl)
    PROVE  Succeeds(c, b) /\ c.live = n /\ c.obj[n].pl = pl
<1> DEFINE r == Retired(b)
           new == [Blank EXCEPT !.pl = pl, !.gen = Old(b).gen, !.holds = Old(b).holds]
           d == [r EXCEPT !.obj[n] = new]
<1>1. Stays(r, b) /\ Waits(r) = {}
  BY RetiredStays
<1>2. r \in Backgrounds /\ r.forgot = b.forgot /\ Loose(r) \subseteq Loose(b)
  BY <1>1 DEF Stays, Succeeds
<1> HIDE DEF r
<1>3. Old(b) \in TabObjects /\ Old(b).gen = GenOf(b)
  <2>1. b.live # 0 => b.live \in Objects
    BY DEF Backgrounds
  <2>2. CASE b.live = 0
    BY <2>2, BlankIs DEF Old, GenOf, Blank
  <2>3. CASE b.live # 0
    BY <2>1, <2>3, ObjectIs DEF Old, GenOf, Live
  <2> QED BY <2>2, <2>3
<1>4. /\ new \in TabObjects /\ new.gen = GenOf(b) /\ new.batch = None /\ new.pl = pl
  BY <1>3, BlankIs DEF TabObjects, Blank
<1>5. c = [d EXCEPT !.live = n]
  BY <1>2 DEF Entered, r, Backgrounds
<1> HIDE DEF new
<1>6. /\ d \in Backgrounds /\ d.forgot = r.forgot /\ d.marks = r.marks /\ d.lost = r.lost
      /\ \A x \in Objects : d.obj[x] = IF x = n THEN new ELSE r.obj[x]
  BY <1>2, <1>4, PutObject
<1> HIDE DEF d
<1>7. /\ c \in Backgrounds /\ c.live = n /\ c.forgot = r.forgot /\ c.marks = r.marks
      /\ c.lost = r.lost /\ c.obj[n] = new
  BY <1>5, <1>6 DEF Backgrounds
<1>8. n # 0
  BY TabAssumption
<1>9. GenOf(c) = GenOf(b) /\ Waits(c) = {} /\ GenOf(b) \in Nat
  BY <1>4, <1>7, <1>8, GenIsNat DEF GenOf, Waits, Live
<1>10. Inflight(c) = Inflight(r)
  BY <1>7 DEF Inflight, Marked
<1>11. Loose(c) \subseteq Loose(b)
  BY <1>1, <1>2, <1>7, <1>9, <1>10 DEF Loose
<1>12. Succeeds(c, b)
  BY <1>2, <1>7, <1>9, <1>11 DEF Succeeds
<1> QED BY <1>4, <1>7, <1>12

LEMMA FailedStays ==
    ASSUME NEW b \in Backgrounds, NEW ks \in SUBSET SegmentKeys
    PROVE  Stays([b EXCEPT !.failed = ks], b)
<1> DEFINE c == [b EXCEPT !.failed = ks]
<1>1. /\ c \in Backgrounds /\ c.live = b.live /\ c.forgot = b.forgot /\ c.marks = b.marks
      /\ c.lost = b.lost /\ c.obj = b.obj
  BY DEF Backgrounds
<1> QED BY <1>1, AsideStays

LEMMA DebounceStays ==
    ASSUME NEW b \in Backgrounds, NEW v \in Requests \cup {None}
    PROVE  Stays([b EXCEPT !.debounce = v], b)
<1> DEFINE c == [b EXCEPT !.debounce = v]
<1>1. /\ c \in Backgrounds /\ c.live = b.live /\ c.forgot = b.forgot /\ c.marks = b.marks
      /\ c.lost = b.lost /\ c.obj = b.obj
  BY DEF Backgrounds
<1> QED BY <1>1, AsideStays

LEMMA ForgivenStays ==
    ASSUME NEW b \in Backgrounds, NEW ks, NEW lots
    PROVE  Stays(Release([b EXCEPT !.failed = @ \ lots], ks), b)
<1> DEFINE c == [b EXCEPT !.failed = b.failed \ lots]
<1>1. Stays(c, b)
  <2>1. b.failed \ lots \in SUBSET SegmentKeys
    BY DEF Backgrounds
  <2> QED BY <2>1, FailedStays
<1>2. c \in Backgrounds
  BY <1>1 DEF Stays, Succeeds
<1> HIDE DEF c
<1>3. Stays(Release(c, ks), c)
  BY <1>2, ReleaseStays
<1>4. Stays(Release(c, ks), b)
  BY <1>1, <1>3, StaysAgain
<1> QED BY <1>4 DEF c

(* The object is replaced by one that plays pl. *)
Takes(e, pl, X, g) ==
    /\ Answers(e, X, g)
    /\ e[1].live # 0
    /\ Live(e[1]).pl = pl

LEMMA UpsertTakes ==
    ASSUME NEW b, NEW out, NEW X, NEW g \in Nat, Answers(<<b, out>>, X, g),
           NEW pl \in Playlists \cup {None}, NEW e \in upsertPlaylistState(<<b, out>>, pl)
    PROVE  Takes(e, pl, X, g)
<1> DEFINE free == Objects \ Referenced(b, line \o out)
           n == CHOOSE o \in free : TRUE
           old == Old(b).pl
           enter(t) == <<Entered(t[1], n, pl), t[2]>>
           forgiven(t, ks) ==
               <<Release([t[1] EXCEPT !.failed = @ \ KeysOf(Segs[old])], ks), t[2]>>
<1>1. free # {}
  BY DEF upsertPlaylistState
<1>2. n \in Objects /\ n # 0
  BY <1>1, TabAssumption
<1> HIDE DEF n
<1>3. b \in Backgrounds
  BY DEF Answers
<1>4. \/ e = enter(<<b, out>>)
      \/ e = enter(forgiven(<<b, out>>, KeysOf(Segs[old])))
      \/ old # None /\ \E t \in Bumps(<<b, out>>, b.live) : e = enter(forgiven(t, SegmentKeys))
  BY <1>1 DEF upsertPlaylistState, n
<1>5. ASSUME NEW u, u = <<u[1], u[2]>>, Answers(u, X, g), e = enter(u)
      PROVE  Takes(e, pl, X, g)
  <2>1. u[1] \in Backgrounds
    BY <1>5 DEF Answers
  <2> DEFINE c == Entered(u[1], n, pl)
  <2>2. Succeeds(c, u[1]) /\ c.live = n /\ c.obj[n].pl = pl
    BY <2>1, <1>2, EnteredIs
  <2>3. e = <<c, u[2]>>
    BY <1>5
  <2> HIDE DEF c
  <2>4. Answers(e, X, g)
    BY <1>5, <2>2, <2>3, AnswersAgain
  <2>5. e[1] = c
    BY <2>3
  <2> QED BY <1>2, <2>2, <2>4, <2>5 DEF Takes, Live
<1>6. ASSUME NEW t, NEW ks, t = <<t[1], t[2]>>, Answers(t, X, g)
      PROVE  /\ Answers(forgiven(t, ks), X, g)
             /\ forgiven(t, ks) = <<forgiven(t, ks)[1], forgiven(t, ks)[2]>>
  <2>1. t[1] \in Backgrounds
    BY <1>6 DEF Answers
  <2> DEFINE c == Release([t[1] EXCEPT !.failed = @ \ KeysOf(Segs[old])], ks)
  <2>2. Succeeds(c, t[1])
    BY <2>1, ForgivenStays DEF Stays
  <2>3. forgiven(t, ks) = <<c, t[2]>>
    OBVIOUS
  <2> HIDE DEF c
  <2>4. Answers(<<c, t[2]>>, X, g)
    BY <1>6, <2>2, AnswersAgain
  <2> QED BY <2>3, <2>4
<1> HIDE DEF forgiven, enter
<1>7. CASE e = enter(<<b, out>>)
  BY <1>5, <1>7
<1>8. CASE e = enter(forgiven(<<b, out>>, KeysOf(Segs[old])))
  BY <1>5, <1>6, <1>8
<1>9. CASE old # None /\ \E t \in Bumps(<<b, out>>, b.live) : e = enter(forgiven(t, SegmentKeys))
  <2>1. PICK t \in Bumps(<<b, out>>, b.live) : e = enter(forgiven(t, SegmentKeys))
    BY <1>9
  <2>2. b.live # 0
    BY <1>9 DEF Old, Blank
  <2>3. t = <<t[1], t[2]>> /\ Answers(t, X, g)
    BY <2>2, BumpsAnswer
  <2> QED BY <2>1, <2>3, <1>5, <1>6
<1> QED BY <1>4, <1>7, <1>8, <1>9

LEMMA GoesOn ==
    ASSUME NEW s, NEW t, NEW X, NEW g \in Nat, Goes(t, s, X, g), t = <<t[1], t[2]>>,
           NEW c, Stays(c, t[1])
    PROVE  Goes(<<c, t[2]>>, s, X, g)
<1>1. Answers(<<c, t[2]>>, X, g)
  BY AnswersAgain DEF Goes, Stays
<1> QED BY <1>1 DEF Goes, Stays

(* A pass keeps the object and its playlist. *)
LEMMA PassGoes ==
    ASSUME NEW b, NEW out, NEW X, NEW g \in Nat, Answers(<<b, out>>, X, g), b.live # 0,
           NEW src \in Sources, NEW isRetry, NEW t \in Pass(<<b, out>>, src, isRetry)
    PROVE  Goes(t, <<b, out>>, X, g)
<1> DEFINE o == b.live
           cleared == clearPrefetchInflightRetry(b, o)
           marked(us) == MarkInflight(cleared, us, src)
           more(us) == us # Open(b, src)
           coalesced(us) == CoalesceDelegate(<<marked(us), out>>, us)
<1>1. PICK us \in Batches(b, src) :
         \/ us = {} /\ t \in {<<ArmInflightRetry(b, o, src), out>>, <<b, out>>}
         \/ Soft(src) /\ t = <<IF more(us) THEN ArmCapRetry(coalesced(us)[1], o, src)
                               ELSE coalesced(us)[1], coalesced(us)[2]>>
         \/ t \in DirectDelegates(<<marked(us), out>>, us, TRUE, IF more(us) THEN o ELSE 0, src)
  BY DEF Pass
<1>2. b \in Backgrounds
  BY DEF Answers
<1>3. o \in Objects /\ b.obj[o] \in TabObjects
  BY <1>2, ObjectIs DEF Backgrounds
<1>4. us \in SUBSET Urls
  <2>1. b.obj[o].pl \in Playlists \cup {None}
    BY <1>3 DEF TabObjects
  <2>2. Segments(b) \subseteq Urls /\ Urgent(b) \subseteq Urls
    BY <2>1, TabAssumption DEF Segments, Urgent, Live
  <2>3. us \subseteq Open(b, src) /\ Open(b, src) \subseteq Targets(b, src)
    BY <1>1 DEF Batches, Open, Uncached
  <2> QED BY <2>2, <2>3 DEF Targets
<1>5. Goes(<<b, out>>, <<b, out>>, X, g)
  BY DEF Goes
<1>6. CASE us = {} /\ t \in {<<ArmInflightRetry(b, o, src), out>>, <<b, out>>}
  <2>1. Stays(ArmInflightRetry(b, o, src), b)
    BY <1>2, <1>3, ArmInflightStays
  <2>2. Goes(<<ArmInflightRetry(b, o, src), out>>, <<b, out>>, X, g)
    BY <2>1, <1>5, GoesOn
  <2> QED BY <1>5, <1>6, <2>2
<1>7. /\ Answers(<<marked(us), out>>, X \cup KeysOf(us), g)
      /\ marked(us).live = b.live
      /\ \A x \in Objects : marked(us).obj[x].pl = b.obj[x].pl
  <2>1. Stays(cleared, b)
    BY <1>2, <1>3, ClearInflightStays
  <2>2. Answers(<<cleared, out>>, X, g) /\ cleared \in Backgrounds
    BY <2>1, AnswersAgain DEF Stays, Succeeds
  <2>3. cleared.live = b.live /\ \A x \in Objects : cleared.obj[x].pl = b.obj[x].pl
    BY <2>1 DEF Stays
  <2> HIDE DEF cleared
  <2> DEFINE m == marked(us)
  <2>4. /\ m \in Backgrounds /\ m.live = cleared.live /\ m.forgot = cleared.forgot
        /\ m.obj = cleared.obj /\ GenOf(m) = GenOf(cleared)
        /\ Loose(m) \subseteq Loose(cleared) \cup KeysOf(us)
    BY <2>2, <1>4, MarkLoosens
  <2> HIDE DEF m
  <2>5. Answers(<<m, out>>, X \cup KeysOf(us), g)
    BY <2>2, <2>4 DEF Answers
  <2> QED BY <2>3, <2>4, <2>5 DEF m
<1> DEFINE m == marked(us)
<1> HIDE DEF m
<1>8. ASSUME NEW u, Goes(u, <<m, out>>, X, g) PROVE Goes(u, <<b, out>>, X, g)
  BY <1>7, <1>8 DEF Goes, m
<1>9. CASE Soft(src) /\ t = <<IF more(us) THEN ArmCapRetry(coalesced(us)[1], o, src)
                             ELSE coalesced(us)[1], coalesced(us)[2]>>
  <2> DEFINE u == coalesced(us)
  <2>1. Goes(u, <<m, out>>, X, g)
    BY <1>4, <1>7, CoalesceAnswers DEF m
  <2>2. Goes(u, <<b, out>>, X, g) /\ u = <<u[1], u[2]>> /\ u[1] \in Backgrounds
    BY <2>1, <1>8 DEF Goes, Answers
  <2> HIDE DEF u
  <2>3. Stays(ArmCapRetry(u[1], o, src), u[1]) /\ Stays(u[1], u[1])
    BY <2>2, <1>3, ArmCapStays, StaysSelf
  <2>4. t \in {<<ArmCapRetry(u[1], o, src), u[2]>>, <<u[1], u[2]>>}
    BY <1>9 DEF u
  <2> QED BY <2>2, <2>3, <2>4, GoesOn
<1>10. CASE t \in DirectDelegates(<<marked(us), out>>, us, TRUE, IF more(us) THEN o ELSE 0, src)
  <2>1. (IF more(us) THEN o ELSE 0) \in Objects \cup {0}
    BY <1>3
  <2>2. m.live # 0 /\ Answers(<<m, out>>, X \cup KeysOf(us), g)
    BY <1>7 DEF m
  <2>3. Goes(t, <<m, out>>, X, g)
    BY <1>4, <1>10, <2>1, <2>2, DirectAnswers DEF m
  <2> QED BY <2>3, <1>8
<1> QED BY <1>1, <1>6, <1>9, <1>10

(* A deeper pass replaces the object by one that plays the same. *)
LEMMA DepthFillTakes ==
    ASSUME NEW b, NEW out, NEW X, NEW g \in Nat, Answers(<<b, out>>, X, g),
           NEW t \in maybeScheduleDepthFill(<<b, out>>)
    PROVE  b.live # 0 /\ Takes(t, Live(b).pl, X, g)
<1>1. b \in Backgrounds
  BY DEF Answers
<1>2. Deeper(b) /\ \E e \in upsertPlaylistState(<<b, out>>, Live(b).pl) :
                       t \in Pass(e, "depth-fill", FALSE)
  BY DEF maybeScheduleDepthFill
<1>3. b.live # 0
  BY <1>2 DEF Deeper, Segments
<1>4. Live(b).pl \in Playlists \cup {None}
  <2>1. b.live \in Objects
    BY <1>1, <1>3 DEF Backgrounds
  <2>2. b.obj[b.live] \in TabObjects
    BY <1>1, <2>1, ObjectIs
  <2> QED BY <2>2 DEF TabObjects, Live
<1>5. PICK e \in upsertPlaylistState(<<b, out>>, Live(b).pl) : t \in Pass(e, "depth-fill", FALSE)
  BY <1>2
<1>6. Takes(e, Live(b).pl, X, g)
  BY <1>4, <1>5, UpsertTakes
<1>7. e = <<e[1], e[2]>> /\ e[1].live # 0 /\ e[1].live \in Objects /\ "depth-fill" \in Sources
  BY <1>6 DEF Takes, Answers, Backgrounds, Sources
<1>8. Goes(t, e, X, g)
  <2>1. Answers(<<e[1], e[2]>>, X, g) /\ t \in Pass(<<e[1], e[2]>>, "depth-fill", FALSE)
    BY <1>5, <1>6, <1>7 DEF Takes
  <2> HIDE DEF Pass
  <2>2. Goes(t, <<e[1], e[2]>>, X, g)
    BY <1>7, <2>1, PassGoes
  <2> QED BY <1>7, <2>2
<1> QED BY <1>3, <1>6, <1>7, <1>8 DEF Goes, Takes, Live

LEMMA ScheduleIs ==
    ASSUME NEW s, NEW pl, NEW src, NEW isRetry, NEW t \in schedulePrefetch(s, pl, src, isRetry)
    PROVE  \/ t = s
           \/ t \in upsertPlaylistState(s, pl)
           \/ \E e \in upsertPlaylistState(s, pl) : t \in Pass(e, src, isRetry)
           \/ \E e \in upsertPlaylistState(s, pl) : t \in maybeScheduleDepthFill(e)
  BY DEF schedulePrefetch

LEMMA ScheduleAnswers ==
    ASSUME NEW b, NEW out, NEW X, NEW g \in Nat, Answers(<<b, out>>, X, g),
           NEW pl \in Playlists \cup {None}, NEW src \in Sources, NEW isRetry,
           NEW t \in schedulePrefetch(<<b, out>>, pl, src, isRetry)
    PROVE  Answers(t, X, g)
<1>1. CASE t = <<b, out>>
  BY <1>1
<1>2. CASE t \in upsertPlaylistState(<<b, out>>, pl)
  BY <1>2, UpsertTakes DEF Takes
<1>3. ASSUME NEW e \in upsertPlaylistState(<<b, out>>, pl)
      PROVE  /\ e = <<e[1], e[2]>> /\ Answers(<<e[1], e[2]>>, X, g)
             /\ e[1].live # 0
  <2>1. Takes(e, pl, X, g)
    BY <1>3, UpsertTakes
  <2>2. e = <<e[1], e[2]>>
    BY <2>1 DEF Takes, Answers
  <2> QED BY <2>1, <2>2 DEF Takes
<1>4. CASE \E e \in upsertPlaylistState(<<b, out>>, pl) : t \in Pass(e, src, isRetry)
  <2>1. PICK e \in upsertPlaylistState(<<b, out>>, pl) : t \in Pass(e, src, isRetry)
    BY <1>4
  <2>2. t \in Pass(<<e[1], e[2]>>, src, isRetry)
    BY <2>1, <1>3
  <2>3. Goes(t, <<e[1], e[2]>>, X, g)
    BY <2>2, <1>3, PassGoes
  <2> QED BY <2>3 DEF Goes
<1>5. CASE \E e \in upsertPlaylistState(<<b, out>>, pl) : t \in maybeScheduleDepthFill(e)
  <2>1. PICK e \in upsertPlaylistState(<<b, out>>, pl) : t \in maybeScheduleDepthFill(e)
    BY <1>5
  <2>2. t \in maybeScheduleDepthFill(<<e[1], e[2]>>)
    BY <2>1, <1>3
  <2> QED BY <2>2, <1>3, DepthFillTakes DEF Takes
<1> QED BY <1>1, <1>2, <1>4, <1>5, ScheduleIs

LEMMA RequestStays ==
    ASSUME NEW b \in Backgrounds, NEW src, NEW c \in requestPrefetchForTab(b, src)
    PROVE  Stays(c, b)
<1> DEFINE d == b.debounce
           asks == [pl |-> Live(b).pl, gen |-> Live(b).gen, src |-> src, armed |-> TRUE]
           v == IF d = None THEN None ELSE [d EXCEPT !.armed = FALSE]
           stale == [b EXCEPT !.debounce = v]
<1>1. CASE c = b
  BY <1>1, StaysSelf
<1>2. CASE c # b
  <2>1. /\ src \in Asking /\ b.live # 0
        /\ c = [b EXCEPT !.debounce = asks] \/ c = dropStalePrefetchWork(stale, b.live)
    BY <1>2 DEF requestPrefetchForTab, Segments
  <2>2. b.live \in Objects
    BY <2>1 DEF Backgrounds
  <2>3. b.obj[b.live] \in TabObjects
    BY <2>2, ObjectIs
  <2>4. asks \in Requests
    BY <2>1, <2>3 DEF Requests, TabObjects, Live
  <2>5. v \in Requests \cup {None}
    <3>1. d \in Requests \cup {None}
      BY DEF Backgrounds
    <3> QED BY <3>1 DEF Requests
  <2> HIDE DEF asks, v
  <2>6. Stays([b EXCEPT !.debounce = asks], b) /\ Stays(stale, b)
    BY <2>4, <2>5, DebounceStays
  <2>7. stale \in Backgrounds
    BY <2>6 DEF Stays, Succeeds
  <2> HIDE DEF stale
  <2>8. Stays(dropStalePrefetchWork(stale, b.live), stale)
    BY <2>2, <2>7, DropStays
  <2>9. Stays(dropStalePrefetchWork(stale, b.live), b)
    BY <2>6, <2>8, StaysAgain
  <2> QED BY <2>1, <2>6, <2>9
<1> QED BY <1>1, <1>2

LEMMA OutcomeStays ==
    ASSUME NEW b \in Backgrounds, NEW u \in Urls, NEW ok
    PROVE  /\ Stays(updatePrefetchOutcome(b, u, ok), b)
           /\ KeyOf[u] \notin Inflight(updatePrefetchOutcome(b, u, ok))
<1> DEFINE done == Release(b, {KeyOf[u]})
<1>1. Stays(done, b) /\ done \in Backgrounds /\ KeyOf[u] \notin Marked(done)
  BY ReleaseStays DEF Stays, Succeeds
<1>2. updatePrefetchOutcome(b, u, ok) = [done EXCEPT !.failed =
                       IF ok THEN done.failed \ {KeyOf[u]} ELSE done.failed \cup {KeyOf[u]}]
  BY DEF updatePrefetchOutcome
<1> HIDE DEF done
<1> DEFINE ks == IF ok THEN done.failed \ {KeyOf[u]} ELSE done.failed \cup {KeyOf[u]}
<1>3. ks \in SUBSET SegmentKeys
  <2>1. KeyOf[u] \in SegmentKeys
    BY TabAssumption
  <2> QED BY <1>1, <2>1 DEF Backgrounds
<1> HIDE DEF ks
<1>4. Stays([done EXCEPT !.failed = ks], done)
  BY <1>1, <1>3, FailedStays
<1>5. Stays([done EXCEPT !.failed = ks], b)
  BY <1>1, <1>4, StaysAgain
<1>6. [done EXCEPT !.failed = ks].marks = done.marks
  BY <1>1 DEF Backgrounds
<1>7. KeyOf[u] \notin Inflight([done EXCEPT !.failed = ks])
  BY <1>1, <1>6 DEF Inflight, Marked
<1> QED BY <1>2, <1>5, <1>7 DEF ks

(* Stray timers are beside all that. *)
LEMMA StraysStay ==
    ASSUME NEW b \in Backgrounds, NEW n \in Nat
    PROVE  Stays([b EXCEPT !.strays = n], b)
<1> DEFINE c == [b EXCEPT !.strays = n]
<1>1. /\ c \in Backgrounds /\ c.live = b.live /\ c.forgot = b.forgot /\ c.marks = b.marks
      /\ c.lost = b.lost /\ c.obj = b.obj
  BY DEF Backgrounds
<1> QED BY <1>1, AsideStays

LEMMA FlushAnswers ==
    ASSUME NEW b, NEW X, NEW g \in Nat, Answers(<<b, <<>>>>, X, g)
    PROVE  Answers(flushPendingDelegatePrefetch(b), X, g)
<1>1. CASE b.live = 0 \/ Live(b).batch = None
  BY <1>1 DEF flushPendingDelegatePrefetch
<1>2. CASE b.live # 0 /\ Live(b).batch # None
  <2>1. /\ b \in Backgrounds /\ <<>> \in Seq(Messages)
        /\ b.forgot \/ (g <= GenOf(b) /\ UpTo(<<>>, GenOf(b)))
        /\ Loose(b) \subseteq Sent(<<>>) \cup X
    BY DEF Answers
  <2>2. b.live \in Objects
    BY <2>1, <1>2 DEF Backgrounds
  <2>3. b.obj[b.live] \in TabObjects
    BY <2>1, <2>2, ObjectIs
  <2> DEFINE us == Live(b).batch.urls
             c == [b EXCEPT !.obj[b.live].batch = None]
             m == Prefetch(us, Live(b).gen, FALSE, 0, "flush")
  <2>4. us \in SUBSET Urls /\ Live(b).gen \in Gens /\ Live(b).gen = GenOf(b)
    BY <2>3, <1>2 DEF TabObjects, Coalesced, Live, GenOf
  <2>5. m \in Messages /\ m.gen = GenOf(b) /\ m.type = "prefetch" /\ m.urls = us
    BY <2>4 DEF Prefetch, Messages, Delegations, Sources
  <2>6. flushPendingDelegatePrefetch(b) = <<c, <<m>>>>
    BY <1>2 DEF flushPendingDelegatePrefetch
  <2>7. Waits(b) = KeysOf(us)
    BY <1>2 DEF Waits
  <2> HIDE DEF us, m
  <2>8. /\ c \in Backgrounds /\ c.live = b.live /\ c.forgot = b.forgot
        /\ c.lost = b.lost /\ Inflight(c) = Inflight(b) /\ GenOf(c) = GenOf(b)
    BY <2>1, <1>2, Rebatch
  <2> HIDE DEF c
  <2>9. Loose(c) \subseteq Loose(b) \cup KeysOf(us)
    BY <2>7, <2>8 DEF Loose
  <2>10. Answers(<<c, <<>>>>, X \cup KeysOf(us), g)
    BY <2>1, <2>8, <2>9 DEF Answers
  <2>11. Answers(<<c, Append(<<>>, m)>>, X, g)
    BY <2>5, <2>8, <2>10, PostAnswers
  <2>12. Append(<<>>, m) = <<m>>
    OBVIOUS
  <2> QED BY <2>6, <2>11, <2>12
<1> QED BY <1>1, <1>2

(* A tab that is forgotten is at no generation. *)
LEMMA ForgottenAnswers ==
    ASSUME NEW b \in Backgrounds, NEW X, NEW g \in Nat, Loose(b) \subseteq X
    PROVE  Answers(<<Forgotten(b), <<>>>>, X, g) /\ Forgotten(b).forgot = TRUE
<1> DEFINE flushed == IF b.live = 0 \/ Live(b).batch = None THEN b
                      ELSE [Lose(b, Live(b).batch.urls) EXCEPT !.strays = @ + 1]
           c == [flushed EXCEPT !.live = 0, !.debounce = None, !.forgot = TRUE]
<1>1. Forgotten(b) = c
  BY DEF Forgotten
<1>2. /\ flushed \in Backgrounds /\ Inflight(flushed) = Inflight(b)
      /\ b.lost \subseteq flushed.lost /\ Waits(b) \cap Inflight(b) \subseteq flushed.lost
  <2>1. CASE b.live = 0 \/ Live(b).batch = None
    BY <2>1 DEF Waits
  <2>2. CASE b.live # 0 /\ Live(b).batch # None
    <3> DEFINE d == Lose(b, Live(b).batch.urls)
    <3>1. /\ Stays(d, b) /\ Inflight(d) = Inflight(b) /\ b.lost \subseteq d.lost
          /\ Inflight(b) \cap KeysOf(Live(b).batch.urls) \subseteq d.lost
      BY LoseStays
    <3>2. d \in Backgrounds
      BY <3>1 DEF Stays, Succeeds
    <3>3. flushed = [d EXCEPT !.strays = d.strays + 1]
      BY <2>2
    <3> HIDE DEF d, flushed
    <3>4. flushed \in Backgrounds /\ flushed.lost = d.lost /\ flushed.marks = d.marks
      BY <3>2, <3>3 DEF Backgrounds
    <3>5. Inflight(flushed) = Inflight(d)
      BY <3>4 DEF Inflight, Marked
    <3>6. Waits(b) = KeysOf(Live(b).batch.urls)
      BY <2>2 DEF Waits
    <3> QED BY <3>1, <3>4, <3>5, <3>6
  <2> QED BY <2>1, <2>2
<1> HIDE DEF flushed
<1>3. /\ c \in Backgrounds /\ c.forgot = TRUE /\ c.lost = flushed.lost
      /\ c.marks = flushed.marks
  BY <1>2 DEF Backgrounds
<1>4. Inflight(c) = Inflight(b)
  BY <1>2, <1>3 DEF Inflight, Marked
<1>5. Loose(c) \subseteq Loose(b)
  BY <1>2, <1>3, <1>4 DEF Loose
<1>6. <<>> \in Seq(Messages)
  OBVIOUS
<1> QED BY <1>1, <1>3, <1>5, <1>6 DEF Answers

-----------------------------------------------------------------------------
(* What a handler leaves behind. *)

Accounts == Sent(line) \cup KeysOf(page.holds \cup page.skips)
(* A background that forgot the tab owes nobody a generation: none is that far. *)
Reached == IF bg.forgot THEN MaxGen + 1 ELSE GenOf(bg)

LEMMA NowAnswers ==
    ASSUME TabInv
    PROVE  Answers(<<bg, <<>>>>, Accounts, Reached) /\ Reached \in Nat /\ bg \in Backgrounds
<1>1. bg \in Backgrounds /\ Loose(bg) \subseteq Accounts
  BY DEF TabInv, Accounts
<1>2. GenOf(bg) \in Nat /\ Reached \in Nat
  BY <1>1, GenIsNat, GensAre DEF Reached
<1>3. <<>> \in Seq(Messages)
  OBVIOUS
<1>4. UpTo(<<>>, GenOf(bg))
  BY DEF UpTo, Span
<1>5. bg.forgot \/ (Reached <= GenOf(bg) /\ UpTo(<<>>, GenOf(bg)))
  BY <1>2, <1>4 DEF Reached
<1> QED BY <1>1, <1>2, <1>3, <1>5 DEF Answers

LEMMA BecomesInv ==
    ASSUME NEW outs, NEW rest \in Seq(Messages), NEW X, NEW g \in Nat, Becomes(outs, rest),
           \A s \in outs : Answers(s, X, g),
           page' \in Pages, X \subseteq Sent(rest) \cup KeysOf(page'.holds \cup page'.skips),
           \A s \in outs : s[1].forgot \/ (page'.gen <= g /\ UpTo(rest, g))
    PROVE  TabInv'
<1>1. PICK s \in outs : /\ Len(rest \o s[2]) <= MaxLine /\ s[1].strays <= MaxStrays
                        /\ line' = rest \o s[2] /\ bg' = Swept(s[1], line')
  BY DEF Becomes
<1>2. /\ s[1] \in Backgrounds /\ s[2] \in Seq(Messages)
      /\ s[1].forgot \/ (g <= GenOf(s[1]) /\ UpTo(s[2], GenOf(s[1])))
      /\ Loose(s[1]) \subseteq Sent(s[2]) \cup X
  BY <1>1 DEF Answers
<1>3. line' \in Seq(Messages)
  BY <1>1, <1>2
<1>4. /\ Succeeds(bg', s[1]) /\ bg'.strays = s[1].strays
      /\ \A o \in Objects \ Referenced(bg', line') : bg'.obj[o] = Blank
  <2>1. bg' = Swept(s[1], line') /\ s[1] \in Backgrounds
    BY <1>1, <1>2
  <2> QED BY <2>1, <1>3, SweptIs
<1>5. /\ bg' \in Backgrounds /\ bg'.forgot = s[1].forgot /\ GenOf(s[1]) <= GenOf(bg')
      /\ Loose(bg') \subseteq Loose(s[1])
  BY <1>4 DEF Succeeds
<1>6. GenOf(s[1]) \in Nat /\ GenOf(bg') \in Nat
  BY <1>2, <1>5, GenIsNat
<1>7. Span(line') = Span(rest) \cup Span(s[2]) /\ Sent(line') = Sent(rest) \cup Sent(s[2])
  BY <1>1, <1>2, SpanCat, SentCat
<1>8. bg'.forgot \/ (page'.gen <= GenOf(bg') /\ UpTo(line', GenOf(bg')))
  <2>1. CASE s[1].forgot
    BY <2>1, <1>5
  <2>2. CASE ~s[1].forgot
    <3>1. /\ g <= GenOf(s[1]) /\ UpTo(s[2], GenOf(s[1])) /\ page'.gen <= g /\ UpTo(rest, g)
      BY <2>2, <1>1, <1>2
    <3>2. page'.gen \in Nat
      BY GensAre DEF Pages
    <3>3. page'.gen <= GenOf(bg') /\ g <= GenOf(bg')
      BY <3>1, <3>2, <1>5, <1>6
    <3>4. UpTo(line', GenOf(bg'))
      <4> SUFFICES ASSUME NEW m \in Span(line'), m.gen \in Gens PROVE m.gen <= GenOf(bg')
        BY DEF UpTo
      <4>1. m.gen \in Nat /\ (m.gen <= g \/ m.gen <= GenOf(s[1]))
        BY <3>1, <1>7, GensAre DEF UpTo
      <4> QED BY <4>1, <3>3, <1>5, <1>6
    <3> QED BY <3>3, <3>4
  <2> QED BY <2>1, <2>2
<1>9. Loose(bg') \subseteq Sent(line') \cup KeysOf(page'.holds \cup page'.skips)
  BY <1>2, <1>5, <1>7
<1>10. bg'.strays <= MaxStrays /\ Len(line') <= MaxLine
  BY <1>1, <1>4
<1> QED BY <1>3, <1>4, <1>5, <1>8, <1>9, <1>10 DEF TabInv

(* A handler that leaves the page and what is under way alone. *)
LEMMA PageAsideInv ==
    ASSUME TabInv, NEW outs, Becomes(outs, line), UNCHANGED page,
           \A s \in outs : Answers(s, Accounts, Reached)
    PROVE  TabInv'
<1>1. Reached \in Nat /\ line \in Seq(Messages) /\ page' \in Pages /\ bg \in Backgrounds
  BY NowAnswers DEF TabInv
<1>2. Accounts \subseteq Sent(line) \cup KeysOf(page'.holds \cup page'.skips)
  BY DEF Accounts
<1>3. ASSUME NEW s \in outs
      PROVE  s[1].forgot \/ (page'.gen <= Reached /\ UpTo(line, Reached))
  <2>1. CASE bg.forgot
    <3>1. s[1] \in Backgrounds /\ (s[1].forgot \/ MaxGen + 1 <= GenOf(s[1]))
      BY <2>1 DEF Answers, Reached
    <3>2. GenOf(s[1]) \in 0 .. MaxGen /\ MaxGen \in Nat
      BY <3>1, GenIsNat, GensAre DEF Gens
    <3> QED BY <3>1, <3>2
  <2>2. CASE ~bg.forgot
    BY <2>2 DEF Reached, TabInv
  <2> QED BY <2>1, <2>2
<1>4. \A s \in outs : Answers(s, Accounts, Reached)
  OBVIOUS
<1> HIDE DEF Accounts, Reached
<1> QED BY <1>1, <1>2, <1>3, <1>4, BecomesInv

LEMMA QuietInv ==
    ASSUME TabInv, NEW bs, Quietly(bs), UNCHANGED page, \A b \in bs : Succeeds(b, bg)
    PROVE  TabInv'
<1> DEFINE outs == {<<b, <<>>>> : b \in bs}
<1>1. Becomes(outs, line)
  BY DEF Quietly
<1>2. ASSUME NEW s \in outs PROVE Answers(s, Accounts, Reached)
  <2>1. PICK b \in bs : s = <<b, <<>>>>
    OBVIOUS
  <2> QED BY <2>1, NowAnswers, AnswersAgain
<1> HIDE DEF outs
<1> QED BY <1>1, <1>2, PageAsideInv

-----------------------------------------------------------------------------
(* The actions. *)

LEMMA SourcesAre ==
    /\ Asking \subseteq Sources
    /\ {"teleport-mode", "teleport-mode-retained", "depth-fill", "speculative-rung", "flush"}
          \subseteq Sources
  BY DEF Sources

LEMMA LiveIs ==
    ASSUME NEW b \in Backgrounds, b.live # 0
    PROVE  b.live \in Objects /\ b.obj[b.live] \in TabObjects /\ Live(b) \in TabObjects
<1>1. b.live \in Objects
  BY DEF Backgrounds
<1> QED BY <1>1, ObjectIs DEF Live

LEMMA CaptureKeeps ==
    ASSUME TabInv, NEW pl \in Playlists, NEW src, Capture(pl, src) PROVE TabInv'
<1> DEFINE outs == UNION {{<<b, e[2]>> : b \in requestPrefetchForTab(e[1], src)} :
                          e \in upsertPlaylistState(<<bg, <<>>>>, pl)}
<1>1. Becomes(outs, line) /\ UNCHANGED page
  BY DEF Capture
<1>2. ASSUME NEW s \in outs PROVE Answers(s, Accounts, Reached)
  <2>1. PICK e \in upsertPlaylistState(<<bg, <<>>>>, pl) :
               \E b \in requestPrefetchForTab(e[1], src) : s = <<b, e[2]>>
    OBVIOUS
  <2>2. PICK b \in requestPrefetchForTab(e[1], src) : s = <<b, e[2]>>
    BY <2>1
  <2>3. Answers(e, Accounts, Reached) /\ e = <<e[1], e[2]>> /\ e[1] \in Backgrounds
    <3>1. Takes(e, pl, Accounts, Reached)
      BY NowAnswers, UpsertTakes
    <3> QED BY <3>1 DEF Takes, Answers
  <2>4. Stays(b, e[1])
    BY <2>2, <2>3, RequestStays
  <2> QED BY <2>2, <2>3, <2>4, NowAnswers, AnswersAgain DEF Stays
<1> HIDE DEF outs
<1> QED BY <1>1, <1>2, PageAsideInv

LEMMA ChunkObservedKeeps == ASSUME TabInv, ChunkObserved PROVE TabInv'
<1> DEFINE bs == requestPrefetchForTab(bg, "chunk-observed")
<1>1. Quietly(bs) /\ UNCHANGED page
  BY DEF ChunkObserved
<1>2. \A b \in bs : Succeeds(b, bg)
  BY NowAnswers, RequestStays DEF Stays
<1> HIDE DEF bs
<1> QED BY <1>1, <1>2, QuietInv

LEMMA TeleportKeeps ==
    ASSUME TabInv, NEW src \in {"teleport-mode", "teleport-mode-retained"}, enterTeleportMode(src)
    PROVE  TabInv'
<1> DEFINE forgiven(b) == [b EXCEPT !.failed = @ \ KeysOf(Segments(b)), !.debounce = None]
           purge(t) == <<Release(dropStalePrefetchWork(forgiven(t[1]), bg.live), SegmentKeys), t[2]>>
           ended == IF src = "teleport-mode" THEN {purge(t) : t \in Bumps(<<bg, <<>>>>, bg.live)} ELSE {}
           starts == {<<bg, <<>>>>} \cup ended
           outs == UNION {schedulePrefetch(t, Live(bg).pl, src, FALSE) : t \in starts}
<1>1. Becomes(outs, line) /\ UNCHANGED page /\ bg.live # 0
  BY DEF enterTeleportMode, Segments
<1>2. Live(bg).pl \in Playlists \cup {None} /\ bg.live \in Objects
  BY <1>1, NowAnswers, LiveIs DEF TabObjects
<1>3. ASSUME NEW t \in starts PROVE t = <<t[1], t[2]>> /\ Answers(t, Accounts, Reached)
  <2>1. CASE t = <<bg, <<>>>>
    BY <2>1, NowAnswers
  <2>2. CASE t # <<bg, <<>>>>
    <3>1. PICK u \in Bumps(<<bg, <<>>>>, bg.live) : t = purge(u)
      BY <2>2
    <3>2. u = <<u[1], u[2]>> /\ Answers(u, Accounts, Reached) /\ u[1] \in Backgrounds
      BY <1>1, NowAnswers, BumpsAnswer DEF Stays, Succeeds
    <3> DEFINE c == [u[1] EXCEPT !.failed = @ \ KeysOf(Segments(u[1]))]
               d == [c EXCEPT !.debounce = None]
               e == dropStalePrefetchWork(d, bg.live)
               f == Release(e, SegmentKeys)
    <3>3. t = <<f, u[2]>>
      <4>1. forgiven(u[1]) = d
        BY <3>2 DEF Backgrounds
      <4> QED BY <3>1, <4>1
    <3>4. Stays(c, u[1])
      <4>1. u[1].failed \ KeysOf(Segments(u[1])) \in SUBSET SegmentKeys
        BY <3>2 DEF Backgrounds
      <4> QED BY <3>2, <4>1, FailedStays
    <3>5. c \in Backgrounds
      BY <3>4 DEF Stays, Succeeds
    <3> HIDE DEF c
    <3>6. Stays(d, c)
      BY <3>5, DebounceStays
    <3>7. d \in Backgrounds
      BY <3>6 DEF Stays, Succeeds
    <3> HIDE DEF d
    <3>8. Stays(e, d)
      BY <3>7, <1>2, DropStays
    <3>9. e \in Backgrounds
      BY <3>8 DEF Stays, Succeeds
    <3> HIDE DEF e
    <3>10. Stays(f, e)
      BY <3>9, ReleaseStays
    <3> HIDE DEF f
    <3>11. Stays(f, u[1])
      BY <3>2, <3>4, <3>5, <3>6, <3>7, <3>8, <3>10, StaysAgain
    <3>12. Answers(<<f, u[2]>>, Accounts, Reached)
      BY <3>2, <3>11, NowAnswers, AnswersAgain DEF Stays
    <3> QED BY <3>3, <3>12
  <2> QED BY <2>1, <2>2
<1>4. ASSUME NEW s \in outs PROVE Answers(s, Accounts, Reached)
  <2>1. PICK t \in starts : s \in schedulePrefetch(t, Live(bg).pl, src, FALSE)
    OBVIOUS
  <2>2. t = <<t[1], t[2]>> /\ Answers(t, Accounts, Reached)
    BY <1>3
  <2>3. s \in schedulePrefetch(<<t[1], t[2]>>, Live(bg).pl, src, FALSE)
    BY <2>1, <2>2
  <2>4. Answers(<<t[1], t[2]>>, Accounts, Reached)
    BY <2>2
  <2>5. src \in Sources
    BY SourcesAre
  <2> QED BY <1>2, <2>3, <2>4, <2>5, NowAnswers, ScheduleAnswers
<1> HIDE DEF outs
<1> QED BY <1>1, <1>4, PageAsideInv

LEMMA SpeculateKeeps == ASSUME TabInv, Speculate PROVE TabInv'
<1> DEFINE outs == DirectDelegates(<<bg, <<>>>>, {}, FALSE, 0, "speculative-rung")
<1>1. Becomes(outs, line) /\ UNCHANGED page /\ bg.live # 0
  BY DEF Speculate, Segments
<1>2. Answers(<<bg, <<>>>>, Accounts \cup KeysOf({}), Reached)
  <2>1. Accounts \cup KeysOf({}) = Accounts
    BY DEF KeysOf
  <2> QED BY <2>1, NowAnswers
<1>3. \A s \in outs : Answers(s, Accounts, Reached)
  <2> TAKE s \in outs
  <2>1. Goes(s, <<bg, <<>>>>, Accounts, Reached)
    BY <1>1, <1>2, NowAnswers, SourcesAre, DirectAnswers
  <2> QED BY <2>1 DEF Goes
<1> HIDE DEF outs
<1> QED BY <1>1, <1>3, PageAsideInv

LEMMA RunwayStays ==
    ASSUME NEW b \in Backgrounds, NEW o \in Objects, NEW r \in Runways
    PROVE  Stays([b EXCEPT !.obj[o].runway = r], b)
<1> DEFINE n == [b.obj[o] EXCEPT !.runway = r]
           c == [b EXCEPT !.obj[o] = n]
<1>1. b.obj[o] \in TabObjects
  BY ObjectIs
<1>2. /\ n \in TabObjects /\ n.gen = b.obj[o].gen /\ n.batch = b.obj[o].batch
      /\ n.pl = b.obj[o].pl
  BY <1>1 DEF TabObjects
<1>3. [b EXCEPT !.obj[o].runway = r] = c
  OBVIOUS
<1> HIDE DEF n
<1>4. /\ c \in Backgrounds /\ c.live = b.live /\ c.marks = b.marks /\ c.lost = b.lost
      /\ c.forgot = b.forgot
      /\ \A x \in Objects : c.obj[x] = IF x = o THEN n ELSE b.obj[x]
  BY <1>2, PutObject
<1> HIDE DEF c
<1>5. Stays(c, b)
  BY <1>2, <1>4, AsideStays
<1> QED BY <1>3, <1>5

LEMMA AsleepStays ==
    ASSUME NEW b \in Backgrounds, NEW o \in Objects, NEW v \in {"no", "sleeping", "playing"}
    PROVE  Stays([b EXCEPT !.obj[o].asleep = v], b)
<1> DEFINE n == [b.obj[o] EXCEPT !.asleep = v]
           c == [b EXCEPT !.obj[o] = n]
<1>1. b.obj[o] \in TabObjects
  BY ObjectIs
<1>2. /\ n \in TabObjects /\ n.gen = b.obj[o].gen /\ n.batch = b.obj[o].batch
      /\ n.pl = b.obj[o].pl
  BY <1>1 DEF TabObjects
<1>3. [b EXCEPT !.obj[o].asleep = v] = c
  OBVIOUS
<1> HIDE DEF n
<1>4. /\ c \in Backgrounds /\ c.live = b.live /\ c.marks = b.marks /\ c.lost = b.lost
      /\ c.forgot = b.forgot
      /\ \A x \in Objects : c.obj[x] = IF x = o THEN n ELSE b.obj[x]
  BY <1>2, PutObject
<1> HIDE DEF c
<1>5. Stays(c, b)
  BY <1>2, <1>4, AsideStays
<1> QED BY <1>3, <1>5

(* The first report makes the tab's object, which is blank. *)
LEMMA FirstReport ==
    ASSUME TabInv, bg.live = 0, NEW n \in Objects, n \notin Referenced(bg, line),
           NEW c, c = [bg EXCEPT !.live = n]
    PROVE  Succeeds(c, bg) /\ c.live = n
<1>1. bg.obj[n] = Blank /\ bg \in Backgrounds /\ n # 0
  BY TabAssumption DEF TabInv
<1>2. /\ c \in Backgrounds /\ c.live = n /\ c.obj = bg.obj /\ c.marks = bg.marks
      /\ c.lost = bg.lost /\ c.forgot = bg.forgot
  BY <1>1 DEF Backgrounds
<1>3. GenOf(c) = 0 /\ GenOf(bg) = 0 /\ Waits(c) = {} /\ Waits(bg) = {}
  BY <1>1, <1>2 DEF GenOf, Waits, Live, Blank
<1>4. Inflight(c) = Inflight(bg)
  BY <1>2 DEF Inflight, Marked
<1> QED BY <1>2, <1>3, <1>4 DEF Succeeds, Loose

LEMMA BufferHealthKeeps ==
    ASSUME TabInv, NEW r \in Runways, updateTabBufferHealth(r) PROVE TabInv'
<1> DEFINE n == CHOOSE o \in Objects \ Referenced(bg, line) : TRUE
           b == IF bg.live # 0 THEN bg ELSE [bg EXCEPT !.live = n]
           known == [b EXCEPT !.obj[b.live].runway = r]
           pushed == IF r = "low" THEN requestPrefetchForTab(known, "buffer-load-push") ELSE {known}
           rescued == IF r = "low" /\ Segments(b) # {}
                      THEN {CoalesceDelegate(<<p, <<>>>>, Urgent(p)) : p \in pushed} ELSE {}
           outs == {<<p, <<>>>> : p \in pushed} \cup rescued
<1>1. /\ bg.live # 0 \/ Objects \ Referenced(bg, line) # {}
      /\ Becomes(outs, line) /\ UNCHANGED page
  BY DEF updateTabBufferHealth
<1>2. Succeeds(b, bg) /\ b.live # 0
  <2>1. CASE bg.live # 0
    BY <2>1, NowAnswers, StaysSelf DEF Stays
  <2>2. CASE bg.live = 0
    <3>1. n \in Objects /\ n \notin Referenced(bg, line) /\ n # 0
      BY <2>2, <1>1, TabAssumption
    <3> HIDE DEF n
    <3> QED BY <2>2, <3>1, FirstReport
  <2> QED BY <2>1, <2>2
<1>3. b \in Backgrounds /\ b.live \in Objects
  BY <1>2, LiveIs DEF Succeeds
<1> HIDE DEF b
<1>4. Stays(known, b)
  BY <1>3, RunwayStays
<1>5. known \in Backgrounds
  BY <1>4 DEF Stays, Succeeds
<1> HIDE DEF known
<1>6. ASSUME NEW p \in pushed
      PROVE  /\ Answers(<<p, <<>>>>, Accounts, Reached)
             /\ p.live # 0 /\ p \in Backgrounds
  <2>1. Stays(p, known)
    BY <1>5, RequestStays, StaysSelf
  <2>2. Stays(p, b)
    BY <1>3, <1>4, <2>1, StaysAgain
  <2>3. Succeeds(p, bg)
    BY <1>2, <2>2, NowAnswers, SucceedsAgain DEF Stays
  <2> QED BY <1>2, <2>2, <2>3, NowAnswers, AnswersAgain DEF Stays, Succeeds
<1> HIDE DEF pushed
<1>7. ASSUME NEW s \in outs PROVE Answers(s, Accounts, Reached)
  <2>1. CASE \E p \in pushed : s = <<p, <<>>>>
    BY <2>1, <1>6
  <2>2. CASE \E p \in pushed : s = CoalesceDelegate(<<p, <<>>>>, Urgent(p))
    <3>1. PICK p \in pushed : s = CoalesceDelegate(<<p, <<>>>>, Urgent(p))
      BY <2>2
    <3>2. Urgent(p) \in SUBSET Urls
      <4>1. Live(p).pl \in Playlists \cup {None}
        BY <1>6, LiveIs DEF TabObjects
      <4> QED BY <4>1, TabAssumption DEF Urgent
    <3>3. Answers(<<p, <<>>>>, Accounts \cup KeysOf(Urgent(p)), Reached)
      BY <1>6 DEF Answers
    <3>4. Goes(s, <<p, <<>>>>, Accounts, Reached)
      BY <1>6, <3>1, <3>2, <3>3, NowAnswers, CoalesceAnswers
    <3> QED BY <3>4 DEF Goes
  <2> QED BY <2>1, <2>2
<1> HIDE DEF outs
<1> QED BY <1>1, <1>7, PageAsideInv

LEMMA DebounceFiresKeeps == ASSUME TabInv, DebounceFires PROVE TabInv'
<1> DEFINE d == bg.debounce
           b == [bg EXCEPT !.debounce = None]
           stale == b.live # 0 /\ d.gen # Live(b).gen
           scheduled == schedulePrefetch(<<b, <<>>>>, d.pl, d.src, FALSE)
           outs == {<<dropStalePrefetchWork(b, b.live), <<>>>>} \cup (IF stale THEN {} ELSE scheduled)
<1>1. d # None /\ Becomes(outs, line) /\ UNCHANGED page
  BY DEF DebounceFires
<1>2. d.pl \in Playlists \cup {None} /\ d.src \in Sources
  BY <1>1, NowAnswers, SourcesAre DEF Backgrounds, Requests
<1>3. Stays(b, bg)
  BY NowAnswers, DebounceStays
<1>4. b \in Backgrounds /\ b.live \in Objects \cup {0}
  BY <1>3 DEF Stays, Succeeds, Backgrounds
<1> HIDE DEF b, d
<1>5. Answers(<<b, <<>>>>, Accounts, Reached)
  BY <1>3, NowAnswers, AnswersAgain DEF Stays
<1>6. Stays(dropStalePrefetchWork(b, b.live), b)
  BY <1>4, DropStays
<1>7. Answers(<<dropStalePrefetchWork(b, b.live), <<>>>>, Accounts, Reached)
  BY <1>5, <1>6, NowAnswers, AnswersAgain DEF Stays
<1>8. \A s \in outs : Answers(s, Accounts, Reached)
  <2>1. \A s \in scheduled : Answers(s, Accounts, Reached)
    BY <1>2, <1>5, NowAnswers, ScheduleAnswers
  <2> QED BY <2>1, <1>7
<1> HIDE DEF outs
<1> QED BY <1>1, <1>8, PageAsideInv

LEMMA RetryKeeps ==
    ASSUME TabInv, NEW o \in Objects, NEW timer \in Timers \cup {None}, NEW b,
           Stays(b, bg), NEW isRetry, RetryFires(o, timer, b, isRetry)
    PROVE  TabInv'
<1> DEFINE pl == bg.obj[o].pl
           scheduled == schedulePrefetch(<<b, <<>>>>, pl, timer.src, isRetry)
           outs == {<<dropStalePrefetchWork(b, o), <<>>>>}
                   \cup (IF timer.gen # bg.obj[o].gen THEN {} ELSE scheduled)
<1>1. timer # None /\ Becomes(outs, line) /\ UNCHANGED page
  BY DEF RetryFires
<1>2. pl \in Playlists \cup {None} /\ timer.src \in Sources
  <2>1. bg.obj[o] \in TabObjects
    BY NowAnswers, ObjectIs
  <2> QED BY <1>1, <2>1 DEF TabObjects, Timers
<1> HIDE DEF pl
<1>3. b \in Backgrounds /\ Answers(<<b, <<>>>>, Accounts, Reached)
  BY NowAnswers, AnswersAgain DEF Stays, Succeeds
<1>4. Stays(dropStalePrefetchWork(b, o), b)
  BY <1>3, DropStays
<1>5. Answers(<<dropStalePrefetchWork(b, o), <<>>>>, Accounts, Reached)
  BY <1>3, <1>4, NowAnswers, AnswersAgain DEF Stays
<1>6. \A s \in outs : Answers(s, Accounts, Reached)
  <2>1. \A s \in scheduled : Answers(s, Accounts, Reached)
    BY <1>2, <1>3, NowAnswers, ScheduleAnswers
  <2> QED BY <2>1, <1>5
<1> HIDE DEF outs
<1> QED BY <1>1, <1>6, PageAsideInv

LEMMA RetriesKeep ==
    ASSUME TabInv, NEW o \in Objects, CapRetryFires(o) \/ InflightRetryFires(o)
    PROVE  TabInv'
<1>1. bg.obj[o].cap \in Timers \cup {None} /\ bg.obj[o].retry \in Timers \cup {None}
  <2>1. bg.obj[o] \in TabObjects
    BY NowAnswers, ObjectIs
  <2> QED BY <2>1 DEF TabObjects
<1>2. /\ Stays([bg EXCEPT !.obj[o].cap = None], bg)
      /\ Stays([bg EXCEPT !.obj[o].retry = None], bg)
  BY NowAnswers, CapStays, RetryStays
<1>3. CASE CapRetryFires(o)
  <2>1. RetryFires(o, bg.obj[o].cap, [bg EXCEPT !.obj[o].cap = None], FALSE)
    BY <1>3 DEF CapRetryFires
  <2> QED BY <1>1, <1>2, <2>1, RetryKeeps
<1>4. CASE InflightRetryFires(o)
  <2>1. RetryFires(o, bg.obj[o].retry, [bg EXCEPT !.obj[o].retry = None], TRUE)
    BY <1>4 DEF InflightRetryFires
  <2> QED BY <1>1, <1>2, <2>1, RetryKeeps
<1> QED BY <1>3, <1>4

LEMMA FlushKeeps == ASSUME TabInv, FlushFires \/ StrayFlushFires PROVE TabInv'
<1>1. PICK c \in {bg, [bg EXCEPT !.strays = bg.strays - 1]} :
         /\ c = bg \/ bg.strays > 0
         /\ Becomes({flushPendingDelegatePrefetch(c)}, line) /\ UNCHANGED page
  BY DEF FlushFires, StrayFlushFires
<1>2. Stays(c, bg)
  <2>1. CASE c = bg
    BY <2>1, NowAnswers, StaysSelf
  <2>2. CASE c # bg
    <3>1. bg.strays \in Nat /\ bg.strays > 0
      BY <1>1, <2>2, NowAnswers DEF Backgrounds
    <3>2. bg.strays - 1 \in Nat
      BY <3>1
    <3> QED BY <1>1, <2>2, <3>2, NowAnswers, StraysStay
  <2> QED BY <2>1, <2>2
<1>3. Answers(<<c, <<>>>>, Accounts, Reached)
  BY <1>2, NowAnswers, AnswersAgain DEF Stays
<1>4. Answers(flushPendingDelegatePrefetch(c), Accounts, Reached)
  BY <1>3, NowAnswers, FlushAnswers
<1> QED BY <1>1, <1>4, PageAsideInv

LEMMA DepthStays ==
    ASSUME NEW b \in Backgrounds, NEW os \in SUBSET Objects
    PROVE  Stays([b EXCEPT !.depth = os], b)
<1> DEFINE c == [b EXCEPT !.depth = os]
<1>1. /\ c \in Backgrounds /\ c.live = b.live /\ c.forgot = b.forgot /\ c.marks = b.marks
      /\ c.lost = b.lost /\ c.obj = b.obj
  BY DEF Backgrounds
<1> QED BY <1>1, AsideStays

LEMMA DepthTimerKeeps ==
    ASSUME TabInv, NEW o \in Objects, DepthTimerFires(o) PROVE TabInv'
<1> DEFINE b == [bg EXCEPT !.depth = bg.depth \ {o}]
           outs == {<<b, <<>>>>} \cup (IF b.live # o THEN {} ELSE maybeScheduleDepthFill(<<b, <<>>>>))
<1>1. Becomes(outs, line) /\ UNCHANGED page
  BY DEF DepthTimerFires
<1>2. Stays(b, bg)
  <2>1. bg.depth \ {o} \in SUBSET Objects
    BY NowAnswers DEF Backgrounds
  <2> QED BY <2>1, NowAnswers, DepthStays
<1>3. Answers(<<b, <<>>>>, Accounts, Reached) /\ b \in Backgrounds
  BY <1>2, NowAnswers, AnswersAgain DEF Stays, Succeeds
<1> HIDE DEF b
<1>4. ASSUME NEW s \in outs PROVE Answers(s, Accounts, Reached)
  <2>1. CASE s = <<b, <<>>>>
    BY <2>1, <1>3
  <2>2. CASE s # <<b, <<>>>>
    <3>1. s \in maybeScheduleDepthFill(<<b, <<>>>>)
      BY <2>2
    <3> QED BY <3>1, <1>3, NowAnswers, DepthFillTakes DEF Takes
  <2> QED BY <2>1, <2>2
<1> HIDE DEF outs
<1> QED BY <1>1, <1>4, PageAsideInv

-----------------------------------------------------------------------------
(* The page and the messages. *)

LEMMA ReleaseLoose ==
    ASSUME NEW b \in Backgrounds, NEW ks
    PROVE  Succeeds(Release(b, ks), b) /\ Loose(Release(b, ks)) \subseteq Loose(b) \ ks
<1>1. Succeeds(Release(b, ks), b) /\ Marked(Release(b, ks)) = Marked(b) \ ks
  BY ReleaseStays DEF Stays
<1>2. Loose(Release(b, ks)) \subseteq Loose(b)
  BY <1>1 DEF Succeeds
<1>3. Loose(Release(b, ks)) \subseteq Marked(Release(b, ks))
  BY DEF Loose, Inflight
<1> QED BY <1>1, <1>2, <1>3

LEMMA LoseLoose ==
    ASSUME NEW b \in Backgrounds, NEW us
    PROVE  Succeeds(Lose(b, us), b) /\ Loose(Lose(b, us)) \subseteq Loose(b) \ KeysOf(us)
<1> DEFINE c == Lose(b, us)
<1>1. /\ Succeeds(c, b) /\ Inflight(b) \cap KeysOf(us) \subseteq c.lost
      /\ Inflight(c) = Inflight(b)
  BY LoseStays DEF Stays
<1> HIDE DEF c
<1>2. Loose(c) \subseteq Loose(b) /\ Loose(c) \subseteq Inflight(b) /\ Loose(c) \cap c.lost = {}
  BY <1>1 DEF Succeeds, Loose
<1> QED BY <1>1, <1>2 DEF c

(* A handler that takes a message, or what the page did, into account. *)
LEMMA MovesInv ==
    ASSUME TabInv, NEW outs, NEW rest \in Seq(Messages), Becomes(outs, rest),
           Span(rest) \subseteq Span(line), page' \in Pages,
           bg.forgot \/ page'.gen <= GenOf(bg),
           \A s \in outs : /\ s = <<s[1], <<>>>> /\ Succeeds(s[1], bg)
                           /\ Loose(s[1]) \subseteq Sent(rest) \cup KeysOf(page'.holds \cup page'.skips)
    PROVE  TabInv'
<1> DEFINE X == Sent(rest) \cup KeysOf(page'.holds \cup page'.skips)
<1>1. <<>> \in Seq(Messages) /\ GenOf(bg) \in Nat
  BY NowAnswers, GenIsNat
<1>2. ASSUME NEW s \in outs
      PROVE  /\ Answers(s, X, GenOf(bg))
             /\ s[1].forgot \/ (page'.gen <= GenOf(bg) /\ UpTo(rest, GenOf(bg)))
  <2> DEFINE b == s[1]
  <2>1. s = <<b, <<>>>> /\ Succeeds(b, bg) /\ Loose(b) \subseteq X
    OBVIOUS
  <2> HIDE DEF b, X
  <2>2. /\ b \in Backgrounds /\ b.forgot = bg.forgot /\ GenOf(bg) <= GenOf(b)
        /\ Loose(b) \subseteq X
    BY <2>1 DEF Succeeds
  <2>3. UpTo(<<>>, GenOf(b))
    BY DEF UpTo, Span
  <2>4. Answers(<<b, <<>>>>, X, GenOf(bg))
    BY <1>1, <2>2, <2>3 DEF Answers
  <2>5. bg.forgot \/ UpTo(rest, GenOf(bg))
    BY DEF TabInv, UpTo
  <2>6. s[1].forgot = bg.forgot
    BY <2>2 DEF b
  <2> QED BY <2>1, <2>4, <2>5, <2>6
<1>3. X \subseteq Sent(rest) \cup KeysOf(page'.holds \cup page'.skips)
  OBVIOUS
<1> HIDE DEF X
<1> QED BY <1>1, <1>2, <1>3, BecomesInv

LEMMA MoveInv ==
    ASSUME TabInv, NEW b, NEW rest \in Seq(Messages), Becomes({<<b, <<>>>>}, rest),
           Span(rest) \subseteq Span(line), page' \in Pages,
           bg.forgot \/ page'.gen <= GenOf(bg),
           Succeeds(b, bg),
           Loose(b) \subseteq Sent(rest) \cup KeysOf(page'.holds \cup page'.skips)
    PROVE  TabInv'
<1> DEFINE outs == {<<b, <<>>>>}
<1>1. ASSUME NEW s \in outs
      PROVE  /\ s = <<s[1], <<>>>> /\ Succeeds(s[1], bg)
             /\ Loose(s[1]) \subseteq Sent(rest) \cup KeysOf(page'.holds \cup page'.skips)
  <2>1. s = <<b, <<>>>> /\ s[1] = b
    OBVIOUS
  <2> QED BY <2>1
<1>2. Becomes(outs, rest)
  OBVIOUS
<1> HIDE DEF outs
<1> QED BY <1>1, <1>2, MovesInv

LEMMA LineIs ==
    ASSUME TabInv, line # <<>>
    PROVE  /\ Head(line) \in Messages /\ Tail(line) \in Seq(Messages)
           /\ Head(line) \in Span(line) /\ Span(Tail(line)) \subseteq Span(line)
           /\ Sent(line) = Sent(Tail(line)) \cup
                 (IF Head(line).type = "prefetch" THEN KeysOf(Head(line).urls) ELSE {})
           /\ bg.forgot \/ (Head(line).gen \in Gens => Head(line).gen <= GenOf(bg))
<1>1. /\ line \in Seq(Messages) /\ Head(line) \in Messages /\ Tail(line) \in Seq(Messages)
      /\ Span(line) = {Head(line)} \cup Span(Tail(line))
  BY SpanTail DEF TabInv
<1>2. Sent(line) = Sent(Tail(line)) \cup
                 (IF Head(line).type = "prefetch" THEN KeysOf(Head(line).urls) ELSE {})
  BY <1>1 DEF Sent
<1>3. bg.forgot \/ (Head(line).gen \in Gens => Head(line).gen <= GenOf(bg))
  BY <1>1 DEF TabInv, UpTo
<1> QED BY <1>1, <1>2, <1>3

LEMMA KeysGrow ==
    ASSUME NEW p, NEW q PROVE KeysOf(p \cup q) = KeysOf(p) \cup KeysOf(q)
  BY DEF KeysOf

LEMMA LooseNow ==
    ASSUME TabInv
    PROVE  /\ bg \in Backgrounds /\ Succeeds(bg, bg)
           /\ Loose(bg) \subseteq Sent(line) \cup KeysOf(page.holds \cup page.skips)
  BY NowAnswers, StaysSelf DEF TabInv, Stays

LEMMA CancelKeeps == ASSUME TabInv, CancelDelivered PROVE TabInv'
<1> DEFINE m == Head(line)
<1>1. line # <<>> /\ m.type = "cancel" /\ Becomes({<<bg, <<>>>>}, Tail(line))
  BY DEF CancelDelivered
<1>2. PICK keep \in SUBSET page.holds :
         page' = [page EXCEPT !.gen = IF m.gen = None THEN @ ELSE m.gen, !.holds = keep,
                              !.skips = @ \cup (page.holds \ keep)]
  BY DEF CancelDelivered
<1>3. /\ m \in Messages /\ Tail(line) \in Seq(Messages) /\ Span(Tail(line)) \subseteq Span(line)
      /\ Sent(line) = Sent(Tail(line))
      /\ bg.forgot \/ (m.gen \in Gens => m.gen <= GenOf(bg))
  BY <1>1, LineIs
<1>4. m.gen \in Gens \cup {None}
  BY <1>1, <1>3 DEF Messages, Cancels, Delegations
<1> HIDE DEF m
<1>5. page \in Pages /\ (bg.forgot \/ page.gen <= GenOf(bg))
  BY DEF TabInv
<1>6. /\ page' \in Pages /\ page'.gen = (IF m.gen = None THEN page.gen ELSE m.gen)
      /\ page.holds \cup page.skips \subseteq page'.holds \cup page'.skips
  BY <1>2, <1>4, <1>5 DEF Pages
<1>7. bg.forgot \/ page'.gen <= GenOf(bg)
  BY <1>3, <1>4, <1>5, <1>6
<1>8. Loose(bg) \subseteq Sent(Tail(line)) \cup KeysOf(page'.holds \cup page'.skips)
  BY <1>3, <1>6, LooseNow DEF KeysOf
<1>10. /\ Succeeds(bg, bg)
        /\ Loose(bg) \subseteq Sent(Tail(line)) \cup KeysOf(page'.holds \cup page'.skips)
  BY <1>8, LooseNow
<1> QED BY <1>1, <1>3, <1>6, <1>7, <1>10, MoveInv

LEMMA DelegatedStays ==
    ASSUME TabInv, NEW m \in Delegations PROVE Stays(Delegated(m), bg)
<1>1. m.by \in Objects \cup {0} /\ m.src \in Sources
  BY DEF Delegations
<1> QED BY <1>1, NowAnswers, StaysSelf, ArmCapStays DEF Delegated

LEMMA PrefetchKeeps == ASSUME TabInv, prefetchSegmentsFromPage PROVE TabInv'
<1> DEFINE m == Head(line)
           rest == Tail(line)
<1>1. line # <<>> /\ m.type = "prefetch"
  BY DEF prefetchSegmentsFromPage
<1>2. /\ m \in Messages /\ rest \in Seq(Messages) /\ Span(rest) \subseteq Span(line)
      /\ Sent(line) = Sent(rest) \cup KeysOf(m.urls)
      /\ bg.forgot \/ (m.gen \in Gens => m.gen <= GenOf(bg))
  BY <1>1, LineIs
<1>3. m \in Delegations
  BY <1>1, <1>2 DEF Messages, Cancels
<1>4. m.urls \in SUBSET Urls /\ m.gen \in Gens
  BY <1>3 DEF Delegations
<1>5. page \in Pages /\ (bg.forgot \/ page.gen <= GenOf(bg))
  BY DEF TabInv
<1> DEFINE d == Delegated(m)
<1>6. Succeeds(d, bg) /\ d \in Backgrounds /\ Loose(d) \subseteq Loose(bg)
  BY <1>3, DelegatedStays DEF Stays, Succeeds
<1>7. CASE m.gen < page.gen
  <2> DEFINE c == Lose(d, m.urls)
  <2>1. UNCHANGED page /\ Becomes({<<c, <<>>>>}, rest)
    BY <1>7 DEF prefetchSegmentsFromPage
  <2> HIDE DEF d, m, rest
  <2>2. Succeeds(c, d) /\ Loose(c) \subseteq Loose(d) \ KeysOf(m.urls)
    BY <1>6, LoseLoose
  <2>3. Succeeds(c, bg)
    BY <1>6, <2>2, NowAnswers, SucceedsAgain
  <2> HIDE DEF c
  <2>5. Becomes({<<c, <<>>>>}, rest) /\ page' = page
    BY <2>1
  <2>6. /\ Succeeds(c, bg)
        /\ Loose(c) \subseteq Sent(rest) \cup KeysOf(page'.holds \cup page'.skips)
    BY <1>2, <1>6, <2>2, <2>3, <2>5, LooseNow
  <2> QED BY <1>2, <1>5, <2>5, <2>6, MoveInv
<1>8. CASE ~(m.gen < page.gen)
  <2>1. Becomes({<<d, <<>>>>}, rest)
    BY <1>8 DEF prefetchSegmentsFromPage
  <2>2. PICK keep \in IF m.gen > page.gen THEN SUBSET page.holds ELSE {page.holds},
             visible \in BOOLEAN, active \in SUBSET (page.holds \cap m.urls) :
             page' = [page EXCEPT
                            !.gen = m.gen,
                            !.holds = IF visible THEN keep \cup m.urls ELSE keep,
                            !.skips = @ \cup (page.holds \ keep)
                                        \cup (IF visible THEN active ELSE m.urls)]
    BY <1>8 DEF prefetchSegmentsFromPage
  <2> HIDE DEF d, m, rest
  <2>3. keep \subseteq page.holds
    OBVIOUS
  <2>4. /\ page' \in Pages /\ page'.gen = m.gen
        /\ page.holds \cup page.skips \cup m.urls \subseteq page'.holds \cup page'.skips
    BY <1>4, <1>5, <2>2, <2>3 DEF Pages
  <2>5. Sent(rest) \cup KeysOf(m.urls) \cup KeysOf(page.holds \cup page.skips)
          \subseteq Sent(rest) \cup KeysOf(page'.holds \cup page'.skips)
    BY <2>4 DEF KeysOf
  <2>8. bg.forgot \/ page'.gen <= GenOf(bg)
    BY <1>2, <1>4, <2>4
  <2>9. /\ Succeeds(d, bg)
        /\ Loose(d) \subseteq Sent(rest) \cup KeysOf(page'.holds \cup page'.skips)
    BY <1>2, <1>6, <2>5, LooseNow
  <2> QED BY <1>2, <2>1, <2>4, <2>8, <2>9, MoveInv
<1> QED BY <1>7, <1>8

LEMMA MessageLostKeeps == ASSUME TabInv, MessageLost PROVE TabInv'
<1> DEFINE m == Head(line)
           rest == Tail(line)
           released == Release(bg, KeysOf(m.urls))
           failed == [released EXCEPT !.failed = @ \cup KeysOf(m.urls)]
           c == CASE m.type = "cancel" -> bg
                  [] m.type = "prefetch" /\ m.counted -> failed
                  [] OTHER -> Lose(bg, m.urls)
<1>1. line # <<>> /\ Becomes({<<c, <<>>>>}, rest) /\ UNCHANGED page
  BY DEF MessageLost
<1>2. /\ m \in Messages /\ rest \in Seq(Messages) /\ Span(rest) \subseteq Span(line)
      /\ Sent(line) = Sent(rest) \cup (IF m.type = "prefetch" THEN KeysOf(m.urls) ELSE {})
  BY <1>1, LineIs
<1>3. \/ m.type = "cancel"
      \/ m.type = "prefetch" /\ m.urls \in SUBSET Urls
  BY <1>2 DEF Messages, Cancels, Delegations
<1> HIDE DEF m, rest
<1>4. CASE m.type = "cancel"
  <2>1. c = bg
    BY <1>4
  <2>2. Becomes({<<bg, <<>>>>}, rest) /\ page' = page
    BY <1>1, <2>1
  <2>3. /\ Succeeds(bg, bg)
        /\ Loose(bg) \subseteq Sent(rest) \cup KeysOf(page'.holds \cup page'.skips)
    BY <1>2, <1>4, <2>2, LooseNow
  <2>4. page' \in Pages /\ (bg.forgot \/ page'.gen <= GenOf(bg))
    BY <2>2 DEF TabInv
  <2> QED BY <1>2, <2>2, <2>3, <2>4, MoveInv
<1>5. CASE m.type = "prefetch" /\ m.urls \in SUBSET Urls
  <2>1. c = failed \/ c = Lose(bg, m.urls)
    BY <1>5
  <2>2. Succeeds(c, bg) /\ Loose(c) \subseteq Loose(bg) \ KeysOf(m.urls)
    <3>1. CASE c = Lose(bg, m.urls)
      BY <3>1, NowAnswers, LoseLoose
    <3>2. CASE c = failed
      <4>1. /\ Succeeds(released, bg) /\ released \in Backgrounds
            /\ Loose(released) \subseteq Loose(bg) \ KeysOf(m.urls)
        BY NowAnswers, ReleaseLoose DEF Succeeds
      <4> HIDE DEF released
      <4>2. released.failed \cup KeysOf(m.urls) \in SUBSET SegmentKeys
        BY <1>5, <4>1, KeysAre DEF Backgrounds
      <4>3. Stays(failed, released)
        BY <4>1, <4>2, FailedStays
      <4> HIDE DEF failed
      <4>4. Succeeds(failed, bg) /\ Loose(failed) \subseteq Loose(released)
        BY <4>1, <4>3, NowAnswers, SucceedsAgain DEF Stays, Succeeds
      <4> QED BY <3>2, <4>1, <4>4
    <3> QED BY <2>1, <3>1, <3>2
  <2> HIDE DEF c
  <2>3. Becomes({<<c, <<>>>>}, rest) /\ page' = page
    BY <1>1
  <2>4. /\ Succeeds(c, bg)
        /\ Loose(c) \subseteq Sent(rest) \cup KeysOf(page'.holds \cup page'.skips)
    BY <1>2, <1>5, <2>2, <2>3, LooseNow
  <2>5. page' \in Pages /\ (bg.forgot \/ page'.gen <= GenOf(bg))
    BY <2>3 DEF TabInv
  <2> QED BY <1>2, <2>3, <2>4, <2>5, MoveInv
<1> QED BY <1>3, <1>4, <1>5

LEMMA QuietMovesInv ==
    ASSUME TabInv, NEW bs, Quietly(bs), page' \in Pages, page'.gen = page.gen,
           \A b \in bs : /\ Succeeds(b, bg)
                         /\ Loose(b) \subseteq Sent(line) \cup KeysOf(page'.holds \cup page'.skips)
    PROVE  TabInv'
<1> DEFINE outs == {<<b, <<>>>> : b \in bs}
<1>1. Becomes(outs, line)
  BY DEF Quietly
<1>2. ASSUME NEW s \in outs
      PROVE  /\ s = <<s[1], <<>>>> /\ Succeeds(s[1], bg)
             /\ Loose(s[1]) \subseteq Sent(line) \cup KeysOf(page'.holds \cup page'.skips)
  <2>1. PICK b \in bs : s = <<b, <<>>>>
    OBVIOUS
  <2>2. s[1] = b
    BY <2>1
  <2> QED BY <2>1, <2>2
<1>3. line \in Seq(Messages) /\ (bg.forgot \/ page'.gen <= GenOf(bg))
  BY DEF TabInv
<1> HIDE DEF outs
<1> QED BY <1>1, <1>2, <1>3, MovesInv

LEMMA ReportsKeep == ASSUME TabInv, NEW u \in Urls, PageReports(u) PROVE TabInv'
<1> DEFINE c == updatePrefetchOutcome(bg, u, TRUE)
<1>1. Quietly({c}) /\ page' = [page EXCEPT !.skips = @ \ {u}]
  BY DEF PageReports
<1>2. Succeeds(c, bg) /\ KeyOf[u] \notin Inflight(c)
  BY NowAnswers, OutcomeStays DEF Stays
<1>3. Loose(c) \subseteq Loose(bg) \ {KeyOf[u]}
  BY <1>2 DEF Succeeds, Loose
<1> HIDE DEF c
<1>4. /\ page' \in Pages /\ page'.gen = page.gen
      /\ page.holds \cup page.skips \subseteq page'.holds \cup page'.skips \cup {u}
  BY <1>1 DEF TabInv, Pages
<1>5. KeysOf(page.holds \cup page.skips) \subseteq KeysOf(page'.holds \cup page'.skips) \cup {KeyOf[u]}
  BY <1>4 DEF KeysOf
<1>6. \A b \in {c} : /\ Succeeds(b, bg)
                     /\ Loose(b) \subseteq Sent(line) \cup KeysOf(page'.holds \cup page'.skips)
  BY <1>2, <1>3, <1>5, LooseNow
<1> QED BY <1>1, <1>4, <1>6, QuietMovesInv

LEMMA DropsKeep == ASSUME TabInv, NEW u \in Urls, PageDrops(u) PROVE TabInv'
<1> DEFINE c == Lose(bg, {u})
<1>1. Quietly({c}) /\ page' = [page EXCEPT !.holds = @ \ {u}]
  BY DEF PageDrops
<1>2. Succeeds(c, bg) /\ Loose(c) \subseteq Loose(bg) \ KeysOf({u})
  BY NowAnswers, LoseLoose
<1>3. Loose(c) \subseteq Loose(bg) \ {KeyOf[u]}
  BY <1>2 DEF KeysOf
<1> HIDE DEF c
<1>4. /\ page' \in Pages /\ page'.gen = page.gen
      /\ page.holds \cup page.skips \subseteq page'.holds \cup page'.skips \cup {u}
  BY <1>1 DEF TabInv, Pages
<1>5. KeysOf(page.holds \cup page.skips) \subseteq KeysOf(page'.holds \cup page'.skips) \cup {KeyOf[u]}
  BY <1>4 DEF KeysOf
<1>6. \A b \in {c} : /\ Succeeds(b, bg)
                     /\ Loose(b) \subseteq Sent(line) \cup KeysOf(page'.holds \cup page'.skips)
  BY <1>2, <1>3, <1>5, LooseNow
<1> QED BY <1>1, <1>4, <1>6, QuietMovesInv

LEMMA CachedStays ==
    ASSUME NEW b \in Backgrounds, NEW ks \in SUBSET SegmentKeys
    PROVE  Stays([b EXCEPT !.cached = ks], b) /\ Inflight([b EXCEPT !.cached = ks]) = Inflight(b)
<1> DEFINE c == [b EXCEPT !.cached = ks]
<1>1. /\ c \in Backgrounds /\ c.live = b.live /\ c.forgot = b.forgot /\ c.marks = b.marks
      /\ c.lost = b.lost /\ c.obj = b.obj
  BY DEF Backgrounds
<1>2. Inflight(c) = Inflight(b)
  BY <1>1 DEF Inflight, Marked
<1> QED BY <1>1, <1>2, AsideStays

LEMMA FinishesKeep ==
    ASSUME TabInv, NEW u \in Urls, NEW ok \in BOOLEAN, PageFinishes(u, ok) PROVE TabInv'
<1> DEFINE k == KeyOf[u]
           stale == bg.live # 0 /\ page.gen # Live(bg).gen
           done == updatePrefetchOutcome(bg, u, ok \/ stale \/ k \in bg.cached)
           held == IF ok THEN [done EXCEPT !.cached = done.cached \cup {k}] ELSE done
           deep == [held EXCEPT !.depth = held.depth \cup {bg.live}]
           deepens == /\ ok /\ ~stale /\ Deeper(bg) /\ k \in KeysOf(Segments(bg))
                      /\ bg.marks[k] = None \/ ~bg.marks[k].deep
           bs == (IF deepens THEN {deep} ELSE {})
                 \cup (IF deepens /\ bg.marks[k] # None THEN {} ELSE {held})
<1>1. Quietly(bs) /\ page' = [page EXCEPT !.holds = @ \ {u}]
  BY DEF PageFinishes
<1>2. deepens => bg.live # 0
  BY DEF Deeper, Segments
<1> HIDE DEF deepens
<1>3. \A b \in bs : b = held \/ (bg.live # 0 /\ b = deep)
  BY <1>2
<1> HIDE DEF bs
<1>4. Succeeds(done, bg) /\ done \in Backgrounds /\ k \notin Inflight(done) /\ done.live = bg.live
  BY NowAnswers, OutcomeStays DEF Stays, Succeeds
<1> HIDE DEF done
<1>5. k \in SegmentKeys
  BY TabAssumption
<1> HIDE DEF k
<1>6. /\ Stays(held, done) /\ Inflight(held) = Inflight(done)
  <2>1. done.cached \cup {k} \in SUBSET SegmentKeys
    BY <1>4, <1>5 DEF Backgrounds
  <2> QED BY <1>4, <2>1, CachedStays, StaysSelf
<1>7. Succeeds(held, bg) /\ held \in Backgrounds /\ held.live = bg.live /\ k \notin Inflight(held)
  <2>1. Succeeds(held, done) /\ held.live = done.live
    BY <1>6 DEF Stays
  <2> HIDE DEF held
  <2>2. Succeeds(held, bg)
    BY <1>4, <2>1, NowAnswers, SucceedsAgain
  <2>3. held \in Backgrounds
    BY <2>1 DEF Succeeds
  <2> QED BY <1>4, <1>6, <2>1, <2>2, <2>3
<1> HIDE DEF held
<1>8. bg.live # 0 => Succeeds(deep, bg) /\ k \notin Inflight(deep)
  <2> HAVE bg.live # 0
  <2>1. held.depth \cup {bg.live} \in SUBSET Objects
    BY <1>7, NowAnswers DEF Backgrounds
  <2>2. Stays(deep, held)
    BY <1>7, <2>1, DepthStays
  <2>3. deep.marks = held.marks
    BY <1>7 DEF Backgrounds
  <2>4. Inflight(deep) = Inflight(held)
    BY <2>3 DEF Inflight, Marked
  <2> QED BY <1>7, <2>2, <2>4, NowAnswers, SucceedsAgain DEF Stays
<1> HIDE DEF deep
<1>9. \A b \in bs : Succeeds(b, bg) /\ k \notin Inflight(b)
  BY <1>3, <1>7, <1>8
<1>10. /\ page' \in Pages /\ page'.gen = page.gen
       /\ page.holds \cup page.skips \subseteq page'.holds \cup page'.skips \cup {u}
  BY <1>1 DEF TabInv, Pages
<1>11. KeysOf(page.holds \cup page.skips) \subseteq KeysOf(page'.holds \cup page'.skips) \cup {k}
  BY <1>10 DEF KeysOf, k
<1>12. \A b \in bs : /\ Succeeds(b, bg)
                      /\ Loose(b) \subseteq Sent(line) \cup KeysOf(page'.holds \cup page'.skips)
  <2> TAKE b \in bs
  <2>1. Succeeds(b, bg) /\ k \notin Inflight(b)
    BY <1>9
  <2>2. Loose(b) \subseteq Loose(bg) \ {k}
    BY <2>1 DEF Succeeds, Loose
  <2> QED BY <2>1, <2>2, <1>11, LooseNow
<1> QED BY <1>1, <1>10, <1>12, QuietMovesInv

-----------------------------------------------------------------------------
(* Time and the tab. *)

LEMMA AgeKeeps == ASSUME TabInv, NEW k \in SegmentKeys, Age(k) PROVE TabInv'
<1> DEFINE mark == [bg.marks[k] EXCEPT !.fresh = FALSE]
           f == [bg.marks EXCEPT ![k] = mark]
           c == [bg EXCEPT !.marks = f]
<1>1. Quietly({c}) /\ UNCHANGED page /\ k \in Inflight(bg)
  BY DEF Age
<1>2. bg \in Backgrounds /\ bg.marks \in [SegmentKeys -> Marks \cup {None}]
  BY NowAnswers DEF Backgrounds
<1>3. bg.marks[k] \in Marks
  BY <1>1, <1>2 DEF Inflight, Marked
<1>4. mark \in Marks /\ ~mark.fresh
  BY <1>3 DEF Marks
<1> HIDE DEF mark
<1>5. /\ f \in [SegmentKeys -> Marks \cup {None}]
      /\ \A x \in SegmentKeys : f[x] = IF x = k THEN mark ELSE bg.marks[x]
  BY <1>2, <1>4
<1> HIDE DEF f
<1>6. /\ c \in Backgrounds /\ c.live = bg.live /\ c.obj = bg.obj /\ c.forgot = bg.forgot
      /\ c.lost = bg.lost /\ c.marks = f
  BY <1>2, <1>5 DEF Backgrounds
<1> HIDE DEF c
<1>7. Inflight(c) \subseteq Inflight(bg)
  BY <1>4, <1>5, <1>6 DEF Inflight, Marked
<1>8. GenOf(c) = GenOf(bg) /\ Waits(c) = Waits(bg) /\ GenOf(bg) \in Nat
  BY <1>2, <1>6, GenIsNat DEF GenOf, Waits, Live
<1>9. Succeeds(c, bg)
  BY <1>6, <1>7, <1>8 DEF Succeeds, Loose
<1> QED BY <1>1, <1>9, QuietInv

LEMMA PrunedStays == ASSUME NEW b \in Backgrounds PROVE Stays(Pruned(b), b)
  BY ReleaseStays DEF Pruned

LEMMA PruneKeeps == ASSUME TabInv, pruneStaleInflightForTab PROVE TabInv'
<1>1. Quietly({Pruned(bg)}) /\ UNCHANGED page
  BY DEF pruneStaleInflightForTab
<1>2. Succeeds(Pruned(bg), bg)
  BY NowAnswers, PrunedStays DEF Stays
<1> QED BY <1>1, <1>2, QuietInv

LEMMA CoolDownKeeps == ASSUME TabInv, NEW k \in SegmentKeys, CoolDown(k) PROVE TabInv'
<1> DEFINE c == [bg EXCEPT !.failed = bg.failed \ {k}]
<1>1. Quietly({c}) /\ UNCHANGED page
  BY DEF CoolDown
<1>2. Succeeds(c, bg)
  <2>1. bg.failed \ {k} \in SUBSET SegmentKeys
    BY NowAnswers DEF Backgrounds
  <2> QED BY <2>1, NowAnswers, FailedStays DEF Stays
<1> HIDE DEF c
<1> QED BY <1>1, <1>2, QuietInv

LEMMA PauseKeeps ==
    ASSUME TabInv, NEW sleep, pauseTabPrefetchForVisibility(sleep) PROVE TabInv'
<1> DEFINE a == [bg EXCEPT !.obj[bg.live].asleep = sleep]
           b == [a EXCEPT !.debounce = None]
           c == Pruned(b)
           d == dropStalePrefetchWork(c, bg.live)
<1>1. /\ Quietly({d}) /\ UNCHANGED page /\ bg.live # 0 /\ sleep \in {"sleeping", "playing"}
  <2>1. b = [bg EXCEPT !.obj[bg.live].asleep = sleep, !.debounce = None]
    BY NowAnswers DEF Backgrounds
  <2> QED BY <2>1 DEF pauseTabPrefetchForVisibility
<1>2. bg.live \in Objects
  BY <1>1, NowAnswers, LiveIs
<1>3. Stays(a, bg)
  BY <1>1, <1>2, NowAnswers, AsleepStays
<1>4. a \in Backgrounds
  BY <1>3 DEF Stays, Succeeds
<1> HIDE DEF a
<1>5. Stays(b, a)
  BY <1>4, DebounceStays
<1>6. b \in Backgrounds
  BY <1>5 DEF Stays, Succeeds
<1> HIDE DEF b
<1>7. Stays(c, b)
  BY <1>6, PrunedStays
<1>8. c \in Backgrounds
  BY <1>7 DEF Stays, Succeeds
<1> HIDE DEF c
<1>9. Stays(d, c)
  BY <1>2, <1>8, DropStays
<1> HIDE DEF d
<1>10. Succeeds(d, bg)
  BY <1>3, <1>4, <1>5, <1>6, <1>7, <1>9, NowAnswers, StaysAgain DEF Stays
<1> QED BY <1>1, <1>10, QuietInv

LEMMA ResumeKeeps == ASSUME TabInv, resumeTabPrefetchForVisibility PROVE TabInv'
<1> DEFINE a == [bg EXCEPT !.obj[bg.live].asleep = "no"]
           b == Pruned(a)
           bs == {b} \cup requestPrefetchForTab(b, "visibility-resume")
<1>1. Quietly(bs) /\ UNCHANGED page /\ bg.live # 0
  BY DEF resumeTabPrefetchForVisibility
<1>2. bg.live \in Objects
  BY <1>1, NowAnswers, LiveIs
<1>3. Stays(a, bg)
  BY <1>2, NowAnswers, AsleepStays
<1>4. a \in Backgrounds
  BY <1>3 DEF Stays, Succeeds
<1> HIDE DEF a
<1>5. Stays(b, bg)
  BY <1>3, <1>4, NowAnswers, PrunedStays, StaysAgain
<1>6. b \in Backgrounds
  BY <1>5 DEF Stays, Succeeds
<1> HIDE DEF b
<1>7. ASSUME NEW c \in bs PROVE Succeeds(c, bg)
  <2>1. Stays(c, b)
    BY <1>6, StaysSelf, RequestStays
  <2> QED BY <1>5, <2>1, NowAnswers, StaysAgain DEF Stays
<1> HIDE DEF bs
<1> QED BY <1>1, <1>7, QuietInv

LEMMA BridgeReadyKeeps == ASSUME TabInv, BridgeReady PROVE TabInv'
<1> DEFINE b == [bg EXCEPT !.debounce = None]
           bs == {b} \cup requestPrefetchForTab(b, "bridge-ready")
<1>1. Quietly(bs) /\ UNCHANGED page
  BY DEF BridgeReady
<1>2. Stays(b, bg)
  BY NowAnswers, DebounceStays
<1>3. b \in Backgrounds
  BY <1>2 DEF Stays, Succeeds
<1> HIDE DEF b
<1>4. ASSUME NEW c \in bs PROVE Succeeds(c, bg)
  <2>1. Stays(c, b)
    BY <1>3, StaysSelf, RequestStays
  <2> QED BY <1>2, <2>1, NowAnswers, StaysAgain DEF Stays
<1> HIDE DEF bs
<1> QED BY <1>1, <1>4, QuietInv

(* What was under way to the old document is lost, and so is what it held. *)
LEMMA ReloadKeeps == ASSUME TabInv, PageReloads PROVE TabInv'
<1> DEFINE us == page.holds \cup page.skips
           a == Lose(bg, us)
           c == [a EXCEPT !.forgot = FALSE]
<1>1. Quietly({c}) /\ line = <<>> /\ page' = FreshPage
  BY DEF PageReloads
<1>2. /\ Succeeds(a, bg) /\ a \in Backgrounds
      /\ Loose(a) \subseteq Loose(bg) \ KeysOf(us)
  BY NowAnswers, LoseLoose DEF Succeeds
<1>3. Sent(<<>>) = {} /\ Span(<<>>) = {} /\ <<>> \in Seq(Messages)
  BY DEF Sent, Span
<1>4. Loose(a) = {}
  BY <1>1, <1>2, <1>3, LooseNow
<1> HIDE DEF a, us
<1>5. /\ c \in Backgrounds /\ c.live = a.live /\ c.obj = a.obj /\ c.marks = a.marks
      /\ c.lost = a.lost
  BY <1>2 DEF Backgrounds
<1> HIDE DEF c
<1>6. Loose(c) = {}
  <2>1. Inflight(c) = Inflight(a) /\ Waits(c) = Waits(a)
    BY <1>5 DEF Inflight, Marked, Waits, Live
  <2> QED BY <1>4, <1>5, <2>1 DEF Loose
<1>7. 0 <= GenOf(c)
  <2>1. GenOf(c) \in Nat
    BY <1>5, GenIsNat
  <2> QED BY <2>1
<1>8. UpTo(<<>>, GenOf(c)) /\ UpTo(<<>>, 0)
  BY <1>3 DEF UpTo
<1>9. Answers(<<c, <<>>>>, {}, 0)
  BY <1>3, <1>5, <1>6, <1>7, <1>8 DEF Answers
<1>10. page' \in Pages /\ page'.gen = 0
  BY <1>1, GensAre DEF FreshPage, Pages
<1> DEFINE outs == {<<b, <<>>>> : b \in {c}}
<1>11. Becomes(outs, <<>>)
  BY <1>1 DEF Quietly
<1>12. \A s \in outs : s = <<c, <<>>>>
  OBVIOUS
<1>13. \A s \in outs : Answers(s, {}, 0)
  BY <1>9, <1>12
<1> HIDE DEF outs
<1>14. page'.gen <= 0 /\ {} \subseteq Sent(<<>>) \cup KeysOf(page'.holds \cup page'.skips)
  BY <1>10
<1>15. \A s \in outs : s[1].forgot \/ (page'.gen <= 0 /\ UpTo(<<>>, 0))
  BY <1>8, <1>14
<1> DEFINE rest == <<>>
           X == {}
           g == 0
<1>16. /\ g \in Nat /\ rest \in Seq(Messages) /\ Becomes(outs, rest)
       /\ X \subseteq Sent(rest) \cup KeysOf(page'.holds \cup page'.skips)
       /\ \A s \in outs : Answers(s, X, g)
       /\ \A s \in outs : s[1].forgot \/ (page'.gen <= g /\ UpTo(rest, g))
  BY <1>3, <1>11, <1>13, <1>14, <1>15
<1> HIDE DEF rest, X, g
<1> QED BY <1>10, <1>16, BecomesInv

LEMMA NavigationKeeps == ASSUME TabInv, handleTabNavigation PROVE TabInv'
<1> DEFINE a == Release(bg, SegmentKeys)
           b == [a EXCEPT !.obj[bg.live].batch = None]
           c == Forgotten(b)
           m == Cancel(None)
<1>1. Becomes({<<c, <<m>>>>}, line) /\ UNCHANGED page /\ bg.live # 0
  BY DEF handleTabNavigation
<1>2. /\ Stays(a, bg) /\ a \in Backgrounds /\ a.live = bg.live
      /\ Marked(a) = Marked(bg) \ SegmentKeys
  BY NowAnswers, ReleaseStays DEF Stays, Succeeds
<1>3. Inflight(a) = {}
  BY <1>2 DEF Inflight, Marked
<1> HIDE DEF a
<1>4. b \in Backgrounds /\ Inflight(b) = Inflight(a)
  BY <1>1, <1>2, Rebatch
<1>5. Loose(b) \subseteq Accounts
  BY <1>3, <1>4 DEF Loose
<1> HIDE DEF b
<1>6. Answers(<<c, <<>>>>, Accounts, Reached) /\ c.forgot
  BY <1>4, <1>5, NowAnswers, ForgottenAnswers
<1> HIDE DEF c
<1>7. m \in Messages
  BY DEF Cancel, Messages, Cancels
<1> HIDE DEF m
<1>8. Answers(<<c, <<>>>>, Accounts \cup {}, Reached)
  <2>1. Accounts \cup {} = Accounts
    OBVIOUS
  <2> QED BY <1>6, <2>1
<1>9. Answers(<<c, Append(<<>>, m)>>, Accounts, Reached)
  BY <1>6, <1>7, <1>8, NowAnswers, PostAnswers
<1>10. Append(<<>>, m) = <<m>>
  OBVIOUS
<1> QED BY <1>1, <1>9, <1>10, PageAsideInv

LEMMA RuntimePruneKeeps == ASSUME TabInv, pruneRuntimeState PROVE TabInv'
<1> DEFINE a == Pruned(bg)
           c == Forgotten(a)
           outs == {<<x, <<>>>> : x \in {c}}
<1>1. Becomes(outs, line) /\ UNCHANGED page
  BY DEF pruneRuntimeState, Quietly
<1>2. a \in Backgrounds /\ Loose(a) \subseteq Loose(bg)
  BY NowAnswers, PrunedStays DEF Stays, Succeeds
<1> HIDE DEF a
<1>3. Loose(a) \subseteq Accounts
  BY <1>2, LooseNow DEF Accounts
<1>4. Answers(<<c, <<>>>>, Accounts, Reached)
  BY <1>2, <1>3, NowAnswers, ForgottenAnswers
<1> HIDE DEF c
<1>5. \A s \in outs : s = <<c, <<>>>>
  OBVIOUS
<1>6. \A s \in outs : Answers(s, Accounts, Reached)
  BY <1>4, <1>5
<1> HIDE DEF outs
<1> QED BY <1>1, <1>6, PageAsideInv

LEMMA ClearKeeps == ASSUME TabInv, ClearCache PROVE TabInv'
<1> DEFINE a == Release(bg, SegmentKeys)
           c == Forgotten(a)
           e == [c EXCEPT !.failed = {}]
           d == [e EXCEPT !.cached = {}]
           outs == {<<x, <<>>>> : x \in {d}}
<1>1. a \in Backgrounds /\ Loose(a) \subseteq Loose(bg)
  BY NowAnswers, ReleaseStays DEF Stays, Succeeds
<1> HIDE DEF a
<1>2. Loose(a) \subseteq Accounts
  BY <1>1, LooseNow DEF Accounts
<1>3. Answers(<<c, <<>>>>, Accounts, Reached) /\ c \in Backgrounds
  BY <1>1, <1>2, NowAnswers, ForgottenAnswers DEF Answers
<1>4. Becomes(outs, line) /\ UNCHANGED page
  <2>1. d = [c EXCEPT !.failed = {}, !.cached = {}]
    BY <1>3 DEF Backgrounds
  <2> QED BY <2>1 DEF ClearCache, Quietly, a
<1> HIDE DEF c
<1>5. Stays(e, c)
  BY <1>3, FailedStays
<1>6. e \in Backgrounds
  BY <1>5 DEF Stays, Succeeds
<1> HIDE DEF e
<1>7. Stays(d, e)
  BY <1>6, CachedStays
<1>8. Answers(<<d, <<>>>>, Accounts, Reached)
  BY <1>3, <1>5, <1>7, NowAnswers, AnswersAgain, StaysAgain DEF Stays
<1> HIDE DEF d
<1>9. \A s \in outs : s = <<d, <<>>>>
  OBVIOUS
<1>10. \A s \in outs : Answers(s, Accounts, Reached)
  BY <1>8, <1>9
<1> HIDE DEF outs
<1> QED BY <1>4, <1>10, PageAsideInv

LEMMA RestartKeeps == ASSUME TabInv, Restart PROVE TabInv'
<1> DEFINE orphan(m) == IF m.type = "cancel" THEN m ELSE [m EXCEPT !.counted = FALSE, !.by = 0]
           f == FreshBackground(bg.cached)
<1>1. /\ line' = [i \in DOMAIN line |-> orphan(line[i])]
      /\ bg' = [f EXCEPT !.forgot = TRUE] /\ UNCHANGED page
  BY DEF Restart
<1>2. line \in Seq(Messages) /\ bg.cached \in SUBSET SegmentKeys /\ page' \in Pages
  BY <1>1 DEF TabInv, Backgrounds
<1>3. /\ f.live = 0 /\ f.obj = [o \in Objects |-> Blank] /\ f.strays = 0
      /\ f.marks = [k \in SegmentKeys |-> None] /\ f \in Backgrounds
  BY <1>2, BlankIs DEF FreshBackground, Backgrounds
<1> HIDE DEF f
<1>4. /\ bg' \in Backgrounds /\ bg'.obj = f.obj /\ bg'.strays = 0 /\ bg'.forgot
      /\ bg'.marks = f.marks
  BY <1>1, <1>3 DEF Backgrounds
<1>5. Marked(bg') = {}
  BY <1>3, <1>4 DEF Marked
<1>6. Loose(bg') = {}
  BY <1>5 DEF Loose, Inflight
<1>7. \A m \in Messages : orphan(m) \in Messages
  BY DEF Messages, Cancels, Delegations
<1> HIDE DEF orphan
<1>8. line' \in Seq(Messages) /\ Len(line') = Len(line)
  <2>1. DOMAIN line = 1 .. Len(line) /\ Len(line) \in Nat
    BY <1>2
  <2>2. \A i \in 1 .. Len(line) : line[i] \in Messages
    BY <1>2
  <2>3. line' \in [1 .. Len(line) -> Messages]
    BY <1>1, <1>7, <2>1, <2>2
  <2> QED BY <2>1, <2>3
<1>9. \A o \in Objects : bg'.obj[o] = Blank
  BY <1>3, <1>4
<1>10. bg'.strays <= MaxStrays /\ Len(line') <= MaxLine
  <2>1. MaxStrays \in Nat
    BY TabAssumption
  <2> QED BY <2>1, <1>4, <1>8 DEF TabInv
<1> QED BY <1>2, <1>4, <1>6, <1>8, <1>9, <1>10 DEF TabInv

-----------------------------------------------------------------------------
LEMMA TabInitInv == TabInit => TabInv
<1> SUFFICES ASSUME TabInit PROVE TabInv
  OBVIOUS
<1>1. bg = FreshBackground({}) /\ page = FreshPage /\ line = <<>>
  BY DEF TabInit
<1>2. /\ bg \in Backgrounds /\ bg.live = 0 /\ bg.strays = 0
      /\ bg.marks = [k \in SegmentKeys |-> None] /\ \A o \in Objects : bg.obj[o] = Blank
  BY <1>1, BlankIs DEF FreshBackground, Backgrounds
<1>3. page \in Pages /\ page.gen = 0
  BY <1>1, GensAre DEF FreshPage, Pages
<1>4. line \in Seq(Messages) /\ Len(line) = 0 /\ UpTo(line, 0)
  BY <1>1 DEF UpTo, Span
<1>5. Marked(bg) = {}
  BY <1>2 DEF Marked
<1>6. Loose(bg) = {} /\ GenOf(bg) = 0
  BY <1>2, <1>5 DEF Loose, Inflight, GenOf
<1>7. MaxStrays \in Nat /\ MaxLine \in Nat
  BY TabAssumption
<1> QED BY <1>2, <1>3, <1>4, <1>6, <1>7 DEF TabInv

LEMMA TabNextInv == TabInv /\ [TabNext]_tabVars => TabInv'
<1> SUFFICES ASSUME TabInv, [TabNext]_tabVars PROVE TabInv'
  OBVIOUS
<1>1. CASE UNCHANGED tabVars
  BY <1>1 DEF TabInv, tabVars, Referenced, GenOf, UpTo, Loose, Inflight, Marked, Waits, Live
<1>2. CASE TabNext
  <2>1. ASSUME NEW pl \in Playlists, NEW src, Capture(pl, src) PROVE TabInv'
    BY <2>1, CaptureKeeps
  <2>2. ASSUME NEW r \in Runways, updateTabBufferHealth(r) PROVE TabInv'
    BY <2>2, BufferHealthKeeps
  <2>3. ASSUME NEW src \in {"teleport-mode", "teleport-mode-retained"}, enterTeleportMode(src)
        PROVE  TabInv'
    BY <2>3, TeleportKeeps
  <2>4. ASSUME NEW o \in Objects, CapRetryFires(o) \/ InflightRetryFires(o) \/ DepthTimerFires(o)
        PROVE  TabInv'
    BY <2>4, RetriesKeep, DepthTimerKeeps
  <2>5. ASSUME NEW u \in Urls, \/ PageReports(u) \/ PageDrops(u)
                               \/ PageFinishes(u, TRUE) \/ PageFinishes(u, FALSE)
        PROVE  TabInv'
    BY <2>5, ReportsKeep, DropsKeep, FinishesKeep
  <2>6. ASSUME NEW k \in SegmentKeys, Age(k) \/ CoolDown(k) PROVE TabInv'
    BY <2>6, AgeKeeps, CoolDownKeeps
  <2>7. ASSUME NEW sleep, pauseTabPrefetchForVisibility(sleep) PROVE TabInv'
    BY <2>7, PauseKeeps
  <2>8. CASE ChunkObserved \/ Speculate \/ DebounceFires \/ FlushFires \/ StrayFlushFires
    BY <2>8, ChunkObservedKeeps, SpeculateKeeps, DebounceFiresKeeps, FlushKeeps
  <2>9. CASE CancelDelivered \/ prefetchSegmentsFromPage \/ MessageLost
    BY <2>9, CancelKeeps, PrefetchKeeps, MessageLostKeeps
  <2>10. CASE resumeTabPrefetchForVisibility \/ PageReloads \/ BridgeReady \/ pruneStaleInflightForTab
    BY <2>10, ResumeKeeps, ReloadKeeps, BridgeReadyKeeps, PruneKeeps
  <2>11. CASE handleTabNavigation \/ pruneRuntimeState \/ ClearCache \/ Restart
    BY <2>11, NavigationKeeps, RuntimePruneKeeps, ClearKeeps, RestartKeeps
  <2> QED BY <1>2, <2>1, <2>2, <2>3, <2>4, <2>5, <2>6, <2>7, <2>8, <2>9, <2>10, <2>11 DEF TabNext
<1> QED BY <1>1, <1>2

LEMMA TabSpecInv == TabSpec => []TabInv
  BY TabInitInv, TabNextInv, PTL DEF TabSpec

(* What the invariant says of the record, the page and the messages under way: the
   scheduler, its page and what is between them are well formed at all times. *)
THEOREM TabTypeCorrect == TabSpec => []TabTypeOK
<1>1. TabInv => TabTypeOK
  <2> SUFFICES ASSUME TabInv PROVE TabTypeOK
    OBVIOUS
  <2>1. bg.live \in Objects \cup {0} /\ bg.strays \in Nat /\ bg.strays <= MaxStrays
    BY DEF TabInv, Backgrounds
  <2>2. bg.strays \in 0 .. MaxStrays
    BY <2>1, TabAssumption
  <2>3. \A o \in Objects : bg.obj[o].gen \in 0 .. MaxGen
    BY NowAnswers, ObjectIs DEF TabObjects, Gens
  <2>4. page.gen \in 0 .. MaxGen /\ Len(line) <= MaxLine
    BY DEF TabInv, Pages, Gens
  <2> QED BY <2>1, <2>2, <2>3, <2>4 DEF TabTypeOK
<1> QED BY <1>1, TabSpecInv, PTL

(* The page never runs ahead of the generation the scheduler delegates with, and so never
   refuses its batches without a word, whatever order replacements, bumps, messages and
   reloads come in, unless the background forgot the tab. *)
THEOREM PageIsNeverAhead == TabSpec => []GenerationsAgree
<1>1. TabInv => GenerationsAgree
  BY DEF TabInv, GenerationsAgree, GenOf, Live
<1> QED BY <1>1, TabSpecInv, PTL

(* No mark in flight is waited for by nobody: each is of a batch that waits, a message
   under way, something the page holds or reports, or a delegation known to be lost. *)
THEOREM MarksAreWaitedFor == TabSpec => []MarksAreAccountedFor
<1>1. TabInv => MarksAreAccountedFor
  <2> SUFFICES ASSUME TabInv PROVE MarksAreAccountedFor
    OBVIOUS
  <2>1. Inflight(bg) \subseteq Waits(bg) \cup bg.lost \cup Sent(line) \cup KeysOf(page.holds \cup page.skips)
    BY DEF TabInv, Loose
  <2> QED BY <2>1 DEF MarksAreAccountedFor, Waits, Sent
<1> QED BY <1>1, TabSpecInv, PTL
=============================================================================
