-------------------------- MODULE ScuOperatorProofs ---------------------------
(***************************************************************************)
(* What the operators of the interrupt controller and of the DMA levels do *)
(* to the registers and queues: the lemmas of ScuProofs.  The queues may   *)
(* be of any length.                                                       *)
(***************************************************************************)
EXTENDS ScuDma, SequenceTheorems, FiniteSetTheorems, WellFoundedInduction, TLAPS

Less == {ss \in Nat \X Nat : ss[1] < ss[2]}

(* Every set of numbers has a least one: induction without an operator     *)
(* parameter.                                                              *)
LEMMA Least ==
  ASSUME NEW T \in SUBSET Nat, T # {}
  PROVE  \E m \in T : \A k \in T : m <= k
<1>1. IsWellFoundedOn(Less, Nat)
  BY NatLessThanWellFounded DEF OpToRel, Less
<1>2. T \subseteq Nat
  OBVIOUS
<1>3. \E x \in T : \A y \in T : ~(<<y, x>> \in Less)
  BY ONLY <1>2, T # {}, <1>1, WFMin, Zenon
<1>4. \A a, b \in Nat : a < b => <<a, b>> \in Less
  BY DEF Less
<1>5. PICK m \in T : \A k \in T : ~(<<k, m>> \in Less)
  BY <1>3
<1>6. \A k \in T : ~(k < m)
  BY <1>2, <1>4, <1>5, Zenon
<1>7. \A a, b \in Nat : ~(a < b) => b <= a
  OBVIOUS
<1>8. \A k \in T : m <= k
  BY <1>2, <1>6, <1>7, Zenon
<1> QED
  BY <1>8, Zenon

(* A set of numbers with a bound has a greatest one. *)
LEMMA Greatest ==
  ASSUME NEW n \in Nat, NEW T \in SUBSET (0 .. n), T # {}
  PROVE  \E m \in T : \A k \in T : k <= m
<1> DEFINE R == {n - k : k \in T}
<1>1. R \in SUBSET Nat /\ R # {}
  <2>1. \A k \in T : n - k \in Nat
    OBVIOUS
  <2> QED
    BY <2>1
<1>2. PICK r \in R : \A k \in R : r <= k
  BY <1>1, Least
<1>3. PICK m \in T : r = n - m
  OBVIOUS
<1>4. ASSUME NEW k \in T PROVE k <= m
  <2>1. n - m <= n - k
    BY <1>2, <1>3
  <2> QED
    BY <2>1
<1> QED
  BY <1>4
-------------------------------------------------------------------------------
(* The recursion of Keep has a solution. *)
KeepStep(q, S, f, i) ==
  IF i = 0 THEN <<>> ELSE IF q[i] \in S THEN Append(f[i - 1], q[i]) ELSE f[i - 1]

LEMMA KeepExists ==
  ASSUME NEW A, NEW q \in Seq(A), NEW S
  PROVE  \E f : f = [i \in 0 .. Len(q) |-> KeepStep(q, S, f, i)]
<1> DEFINE N == Len(q)
           Solved(k) == \E f : f = [i \in 0 .. k |-> KeepStep(q, S, f, i)]
           T == {k \in 0 .. N : ~Solved(k)}
<1>1. N \in Nat
  OBVIOUS
<1> SUFFICES ASSUME ~Solved(N) PROVE FALSE
  OBVIOUS
<1>2. T \in SUBSET Nat /\ T # {}
  BY <1>1
<1>3. PICK m \in T : \A k \in T : m <= k
  BY <1>2, Least
<1>4. m # 0
  <2> DEFINE g == [i \in 0 .. 0 |-> <<>>]
  <2>1. g = [i \in 0 .. 0 |-> KeepStep(q, S, g, i)]
    BY DEF KeepStep
  <2> QED
    BY <2>1
<1>5. m - 1 \in 0 .. N /\ m - 1 \notin T /\ m \in Nat
  BY <1>1, <1>3, <1>4
<1>6. PICK f : f = [i \in 0 .. m - 1 |-> KeepStep(q, S, f, i)]
  BY <1>5
<1> DEFINE g == [i \in 0 .. m |-> IF i = m THEN KeepStep(q, S, f, m) ELSE f[i]]
<1>7. g = [i \in 0 .. m |-> KeepStep(q, S, g, i)]
  <2>1. ASSUME NEW i \in 0 .. m PROVE g[i] = KeepStep(q, S, g, i)
    <3>1. i # 0 => g[i - 1] = f[i - 1]
      BY <1>4, <1>5
    <3>2. KeepStep(q, S, g, i) = KeepStep(q, S, f, i)
      BY <3>1 DEF KeepStep
    <3>3. CASE i = m
      BY <3>2, <3>3
    <3>4. CASE i # m
      <4>1. i \in 0 .. m - 1
        BY <3>4, <1>5
      <4>2. f[i] = KeepStep(q, S, f, i)
        BY <4>1, <1>6
      <4> QED
        BY <4>2, <3>2, <3>4, <1>5
    <3> QED
      BY <3>3, <3>4
  <2> HIDE DEF g
  <2>2. g = [i \in 0 .. m |-> g[i]]
    BY DEF g
  <2> QED
    BY <2>1, <2>2
<1> QED
  BY <1>7, <1>3

(* p has the entries of q below i that are in S, in their order. *)
IsKept(p, q, S, i) ==
  /\ p \in Seq(S)
  /\ Items(p) = {q[j] : j \in 1 .. i} \cap S
  /\ \A a, b \in DOMAIN p : a < b => \E c, d \in 1 .. i : c < d /\ p[a] = q[c] /\ p[b] = q[d]

LEMMA AppendKept ==
  ASSUME NEW A, NEW q \in Seq(A), NEW S, NEW i \in DOMAIN q, NEW p, IsKept(p, q, S, i - 1)
  PROVE  IsKept(IF q[i] \in S THEN Append(p, q[i]) ELSE p, q, S, i)
<1>1. i \in 1 .. Len(q) /\ Len(q) \in Nat /\ p \in Seq(S)
  BY DEF IsKept
<1>2. {q[j] : j \in 1 .. i} = {q[j] : j \in 1 .. i - 1} \cup {q[i]}
  BY <1>1
<1>3. CASE q[i] \notin S
  <2>1. Items(p) = {q[j] : j \in 1 .. i} \cap S
    BY <1>2, <1>3 DEF IsKept
  <2>2. 1 .. i - 1 \subseteq 1 .. i
    BY <1>1
  <2>3. \A a, b \in DOMAIN p : a < b => \E c, d \in 1 .. i : c < d /\ p[a] = q[c] /\ p[b] = q[d]
    BY <2>2 DEF IsKept
  <2> QED
    BY <1>1, <1>3, <2>1, <2>3 DEF IsKept
<1>4. CASE q[i] \in S
  <2> DEFINE r == Append(p, q[i])
             n == Len(p)
  <2>1. r \in Seq(S) /\ Len(r) = n + 1 /\ n \in Nat
    BY <1>1, <1>4
  <2>2. r[n + 1] = q[i] /\ \A k \in 1 .. n : r[k] = p[k]
    BY <1>1, <1>4
  <2>3. DOMAIN r = 1 .. n + 1 /\ DOMAIN p = 1 .. n
    BY <1>1, <2>1
  <2> HIDE DEF r
  <2>4. Items(r) = Items(p) \cup {q[i]}
    BY <2>1, <2>2, <2>3 DEF Items
  <2>5. Items(r) = {q[j] : j \in 1 .. i} \cap S
    BY <1>2, <1>4, <2>4 DEF IsKept
  <2>6. ASSUME NEW a \in DOMAIN r, NEW b \in DOMAIN r, a < b
        PROVE  \E c, d \in 1 .. i : c < d /\ r[a] = q[c] /\ r[b] = q[d]
    <3>1. a \in DOMAIN p /\ r[a] = p[a]
      BY <2>1, <2>2, <2>3, <2>6
    <3>2. CASE b = n + 1
      <4>1. p[a] \in {q[j] : j \in 1 .. i - 1}
        BY <3>1 DEF IsKept, Items
      <4>2. PICK c \in 1 .. i - 1 : p[a] = q[c]
        BY <4>1
      <4> QED
        BY <1>1, <2>2, <3>1, <3>2, <4>2
    <3>3. CASE b # n + 1
      <4>1. b \in DOMAIN p /\ r[b] = p[b]
        BY <2>1, <2>2, <2>3, <3>3
      <4>2. PICK c, d \in 1 .. i - 1 : c < d /\ p[a] = q[c] /\ p[b] = q[d]
        BY <2>6, <3>1, <4>1 DEF IsKept
      <4> QED
        BY <1>1, <3>1, <4>1, <4>2
    <3> QED
      BY <3>2, <3>3
  <2> QED
    BY <1>4, <2>1, <2>5, <2>6 DEF IsKept, r
<1> QED
  BY <1>3, <1>4

(* A removal keeps the others, in their order. *)
LEMMA KeepKept ==
  ASSUME NEW A, NEW q \in Seq(A), NEW S
  PROVE  IsKept(Keep(q, S), q, S, Len(q))
<1> DEFINE N == Len(q)
<1>1. N \in Nat /\ DOMAIN q = 1 .. N
  OBVIOUS
<1>2. PICK f : /\ f = [i \in 0 .. N |-> KeepStep(q, S, f, i)]
               /\ Keep(q, S) = f[N]
  <2> DEFINE h == CHOOSE f : f = [i \in 0 .. N |-> KeepStep(q, S, f, i)]
  <2>1. Keep(q, S) = h[N]
    BY DEF Keep, KeepStep
  <2>2. \E f : f = [i \in 0 .. N |-> KeepStep(q, S, f, i)]
    BY KeepExists
  <2>3. h = [i \in 0 .. N |-> KeepStep(q, S, h, i)]
    BY <2>2
  <2> QED
    BY <2>1, <2>3
<1> DEFINE T == {k \in 0 .. N : ~IsKept(f[k], q, S, k)}
<1> SUFFICES ASSUME ~IsKept(f[N], q, S, N) PROVE FALSE
  BY <1>2
<1>3. T \in SUBSET Nat /\ T # {}
  BY <1>1
<1>4. PICK m \in T : \A k \in T : m <= k
  BY <1>3, Least
<1>5. \A i \in 0 .. N : f[i] = KeepStep(q, S, f, i)
  BY <1>2
<1>6. m # 0
  <2>1. f[0] = <<>>
    BY <1>1, <1>5 DEF KeepStep
  <2>2. IsKept(<<>>, q, S, 0)
    BY DEF IsKept, Items
  <2> QED
    BY <2>1, <2>2
<1>7. m \in DOMAIN q /\ m - 1 \in 0 .. N /\ m - 1 \notin T /\ m \in 0 .. N
  BY <1>1, <1>4, <1>6
<1>8. IsKept(f[m - 1], q, S, m - 1)
  BY <1>7
<1>9. f[m] = IF q[m] \in S THEN Append(f[m - 1], q[m]) ELSE f[m - 1]
  BY <1>5, <1>6, <1>7 DEF KeepStep
<1>10. IsKept(f[m], q, S, m)
  BY <1>7, <1>8, <1>9, AppendKept
<1> QED
  BY <1>10

(* ... so it keeps a queue a queue. *)
LEMMA KeepQueue ==
  ASSUME NEW A, NEW q, QueueOK(q, A), NEW S
  PROVE  /\ QueueOK(Keep(q, S), A)
         /\ Items(Keep(q, S)) = Items(q) \cap S
         /\ \A level : Sorted(q, level) => Sorted(Keep(q, S), level)
<1> DEFINE p == Keep(q, S)
           N == Len(q)
<1>1. q \in Seq(A) /\ N \in Nat /\ DOMAIN q = 1 .. N
  BY DEF QueueOK
<1>2. IsKept(p, q, S, N)
  BY <1>1, KeepKept
<1> HIDE DEF p
<1>3. Items(p) = Items(q) \cap S
  BY <1>1, <1>2 DEF IsKept, Items
<1>4. p \in Seq(S) /\ DOMAIN p = 1 .. Len(p) /\ Len(p) \in Nat
  BY <1>2 DEF IsKept
<1>5. \A i \in DOMAIN p : p[i] \in A
  <2>1. Items(q) \subseteq A
    BY <1>1 DEF Items
  <2> QED
    BY <1>3, <2>1 DEF Items
<1>6. p \in Seq(A)
  BY <1>4, <1>5
<1>7. \A a, b \in DOMAIN p : a < b => \E c, d \in 1 .. N : c < d /\ p[a] = q[c] /\ p[b] = q[d]
  BY <1>2 DEF IsKept
<1>8. ASSUME NEW i \in DOMAIN p, NEW j \in DOMAIN p, p[i] = p[j] PROVE i = j
  <2>1. ASSUME NEW a \in DOMAIN p, NEW b \in DOMAIN p, a < b PROVE p[a] # p[b]
    <3>1. PICK c, d \in DOMAIN q : c < d /\ p[a] = q[c] /\ p[b] = q[d]
      BY <1>1, <1>7, <2>1
    <3> QED
      BY <1>1, <3>1 DEF QueueOK
  <2>2. i < j \/ j < i \/ i = j
    BY <1>4
  <2> QED
    BY <1>8, <2>1, <2>2
<1>9. \A level : Sorted(q, level) => Sorted(p, level)
  BY <1>1, <1>7 DEF Sorted
<1> QED
  BY <1>3, <1>6, <1>8, <1>9 DEF QueueOK, p
-------------------------------------------------------------------------------
(* The sort by exchanges permutes the entries above the new one: src[i] is *)
(* the old position of the entry that ends at i.                           *)
IsRotation(src, L, p, n) ==
  \A i \in p + 2 .. n + 1 :
    IF i <= n /\ L[i] = L[i - 1] THEN src[i] = i
    ELSE /\ src[i] \in 1 .. n /\ L[src[i]] = L[i - 1]
         /\ \A k \in 1 .. n : L[k] = L[i - 1] => src[i] <= k

(* L rises, and leaps after p. *)
Rising(L, p, n) ==
  /\ n \in Nat /\ p \in 0 .. n /\ L \in [1 .. n -> Int]
  /\ \A i, j \in 1 .. n : i <= j => L[i] <= L[j]
  /\ \A i \in 1 .. p, j \in p + 1 .. n : L[i] < L[j]

(* Every entry above p moves to one place above p + 1. *)
Permutes(src, L, p, n) ==
  /\ \A i \in p + 2 .. n + 1 : src[i] \in p + 1 .. n /\ L[src[i]] = L[i - 1]
  /\ \A i, j \in p + 2 .. n + 1 : src[i] = src[j] => i = j
  /\ \A k \in p + 1 .. n : \E i \in p + 2 .. n + 1 : src[i] = k

LEMMA Rotation ==
  ASSUME NEW n, NEW p, NEW L, Rising(L, p, n), NEW src, IsRotation(src, L, p, n)
  PROVE  Permutes(src, L, p, n)
<1> USE DEF Rising
<1> DEFINE turned(i) == ~(i <= n /\ L[i] = L[i - 1])
<1>1. ASSUME NEW i \in p + 2 .. n + 1 PROVE src[i] \in p + 1 .. n /\ L[src[i]] = L[i - 1]
  <2>1. i - 1 \in p + 1 .. n
    OBVIOUS
  <2>2. CASE turned(i)
    <3>1. src[i] \in 1 .. n /\ L[src[i]] = L[i - 1]
      BY <2>2 DEF IsRotation
    <3>2. src[i] \notin 1 .. p
      BY <2>1, <3>1
    <3> QED
      BY <3>1, <3>2
  <2>3. CASE ~turned(i)
    BY <2>3 DEF IsRotation
  <2> QED
    BY <2>2, <2>3
<1>2. ASSUME NEW i \in p + 2 .. n + 1, NEW j \in p + 2 .. n + 1, src[i] = src[j], i < j
      PROVE  FALSE
  <2>1. i \in 1 .. n /\ i - 1 \in 1 .. n /\ j - 1 \in 1 .. n
    BY <1>2
  <2>2. L[i - 1] = L[j - 1]
    BY <1>1, <1>2
  <2>3. L[i - 1] <= L[i] /\ L[i] <= L[j - 1]
    BY <1>2, <2>1
  <2>4. L[i] = L[i - 1]
    BY <2>1, <2>2, <2>3
  <2>5. src[i] = i
    BY <2>1, <2>4 DEF IsRotation
  <2>6. CASE turned(j)
    <3>1. src[j] <= i - 1
      BY <2>1, <2>2, <2>6 DEF IsRotation
    <3> QED
      BY <1>2, <2>1, <2>5, <3>1
  <2>7. CASE ~turned(j)
    <3>1. src[j] = j
      BY <2>7 DEF IsRotation
    <3>2. i = j
      BY <1>2, <2>5, <3>1, Zenon
    <3> QED
      BY <1>2, <2>1, <3>2
  <2> QED
    BY <2>6, <2>7
<1>3. ASSUME NEW i \in p + 2 .. n + 1, NEW j \in p + 2 .. n + 1, src[i] = src[j]
      PROVE  i = j
  <2>1. i < j \/ j < i \/ i = j
    OBVIOUS
  <2> QED
    BY <1>2, <1>3, <2>1
<1>4. ASSUME NEW k \in p + 1 .. n PROVE \E i \in p + 2 .. n + 1 : src[i] = k
  <2>1. k \in 1 .. n
    OBVIOUS
  <2>2. CASE k - 1 \in p + 1 .. n /\ L[k] = L[k - 1]
    <3>1. k \in p + 2 .. n + 1 /\ ~turned(k)
      BY <2>2
    <3>2. src[k] = k
      BY <3>1 DEF IsRotation
    <3> QED
      BY <3>1, <3>2
  <2>3. CASE ~(k - 1 \in p + 1 .. n /\ L[k] = L[k - 1])
    <3> DEFINE T == {i \in 1 .. n : L[i] = L[k]}
    <3>1. T \in SUBSET (0 .. n) /\ T # {}
      BY <2>1
    <3>2. PICK m \in T : \A i \in T : i <= m
      BY <3>1, Greatest
    <3>3. m \in 1 .. n /\ k <= m /\ L[m] = L[k]
      BY <2>1, <3>2
    <3>4. m + 1 \in p + 2 .. n + 1 /\ (m + 1) - 1 = m
      BY <3>3
    <3>5. turned(m + 1)
      <4>1. ASSUME m + 1 <= n, L[m + 1] = L[m] PROVE FALSE
        <5>1. m + 1 \in T
          BY <3>3, <4>1
        <5> QED
          BY <3>2, <3>3, <5>1
      <4> QED
        BY <3>4, <4>1
    <3>6. /\ src[m + 1] \in 1 .. n /\ L[src[m + 1]] = L[m]
          /\ \A i \in 1 .. n : L[i] = L[m] => src[m + 1] <= i
      BY <3>4, <3>5 DEF IsRotation
    <3>7. src[m + 1] <= k /\ src[m + 1] \in p + 1 .. n
      BY <1>1, <2>1, <3>3, <3>4, <3>6
    <3>8. ASSUME src[m + 1] < k PROVE FALSE
      <4>1. k - 1 \in p + 1 .. n /\ src[m + 1] <= k - 1
        BY <3>7, <3>8
      <4>2. L[src[m + 1]] <= L[k - 1] /\ L[k - 1] <= L[k]
        BY <2>1, <3>6, <4>1
      <4>3. L[k] = L[k - 1]
        BY <2>1, <3>3, <3>6, <4>1, <4>2
      <4> QED
        BY <2>3, <4>1, <4>3
    <3>9. src[m + 1] = k
      BY <3>7, <3>8
    <3> QED
      BY <3>4, <3>9
  <2> QED
    BY <2>2, <2>3
<1> QED
  BY <1>1, <1>3, <1>4 DEF Permutes

(* The requests in A have levels. *)
Levelled(A, level) == \A t \in A : level[t] \in Int

(* An insertion: the new request is there, once, and the queue is sorted. *)
LEMMA EnqueueQueue ==
  ASSUME NEW A, NEW level, Levelled(A, level),
         NEW q, QueueOK(q, A), Sorted(q, level), NEW s \in A
  PROVE  /\ QueueOK(Enqueue(q, s, level), A)
         /\ Items(Enqueue(q, s, level)) = Items(q) \cup {s}
         /\ Sorted(Enqueue(q, s, level), level)
<1> DEFINE n == Len(q)
           below(i) == i = 0 \/ (i <= n /\ level[q[i]] <= level[s])
           L == [i \in 1 .. n |-> level[q[i]]]
           same(i) == {j \in 1 .. n : level[q[j]] = level[q[i]]}
           first(i) == CHOOSE j \in same(i) : \A k \in same(i) : j <= k
           src == [i \in 1 .. n + 1 |-> IF i \in same(i - 1) THEN i ELSE first(i - 1)]
           e == Enqueue(q, s, level)
<1> USE DEF Levelled
<1>1. CASE s \in Items(q)
  <2>1. Enqueue(q, s, level) = q
    BY <1>1 DEF Enqueue
  <2>2. Items(q) = Items(q) \cup {s}
    BY <1>1
  <2> QED
    BY <2>1, <2>2
<1>2. CASE s \notin Items(q)
  <2>1. q \in Seq(A) /\ n \in Nat /\ DOMAIN q = 1 .. n
    BY DEF QueueOK
  <2>2. level[s] \in Int /\ L \in [1 .. n -> Int] /\ \A i \in 1 .. n : L[i] = level[q[i]] /\ q[i] \in A
    BY <2>1
  <2>3. \A i, j \in 1 .. n : i <= j => L[i] <= L[j]
    BY <2>1, <2>2 DEF Sorted
  <2>4. \A i \in 1 .. n : same(i) = {j \in 1 .. n : L[j] = L[i]}
    BY <2>2
  <2> DEFINE T == {i \in 0 .. n : below(i)}
  <2>5. T \in SUBSET (0 .. n) /\ T # {}
    BY <2>1
  <2>6. PICK p \in T : \A i \in T : i <= p
    BY <2>1, <2>5, Greatest
  <2>7. p \in 0 .. n
    OBVIOUS
  <2>8. \A i \in 1 .. p : L[i] <= level[s]
    <3>1. p # 0 => L[p] <= level[s]
      BY <2>2, <2>7
    <3> QED
      BY <2>2, <2>3, <2>7, <3>1
  <2>9. \A i \in p + 1 .. n : L[i] > level[s]
    <3>1. \A i \in p + 1 .. n : i \in 0 .. n /\ i \notin T
      BY <2>6, <2>7
    <3> QED
      BY <2>2, <3>1
  <2>10. ASSUME NEW i \in 0 .. n + 1 PROVE below(i) <=> i <= p
    <3> HIDE DEF L, same, first, src, T, e, n
    <3>1. CASE i = 0
      BY <2>7, <3>1
    <3>2. CASE i \in 1 .. p
      <4>1. L[i] <= level[s] /\ i \in 1 .. n
        BY <2>1, <2>7, <2>8, <3>2
      <4>2. level[q[i]] = L[i]
        BY <2>2, <4>1
      <4> QED
        BY <2>1, <2>7, <3>2, <4>1, <4>2
    <3>3. CASE i \in p + 1 .. n
      <4>1. L[i] > level[s] /\ i \in 1 .. n
        BY <2>1, <2>7, <2>9, <3>3
      <4>2. level[q[i]] = L[i]
        BY <2>2, <4>1
      <4>3. L[i] \in Int
        BY <2>2, <4>1
      <4> QED
        BY <2>1, <2>2, <2>7, <3>3, <4>1, <4>2, <4>3
    <3>4. CASE i = n + 1
      BY <2>1, <2>7, <3>4
    <3> QED
      BY <2>1, <2>7, <3>1, <3>2, <3>3, <3>4
  <2>11. e = [i \in 1 .. n + 1 |-> IF i <= p THEN q[i] ELSE IF i = p + 1 THEN s ELSE q[src[i]]]
    <3>1. e = [i \in 1 .. n + 1 |->
                IF below(i) THEN q[i]
                ELSE IF below(i - 1) THEN s
                ELSE IF i \in same(i - 1) THEN q[i] ELSE q[first(i - 1)]]
      BY <1>2 DEF Enqueue
    <3> HIDE DEF below, same, first, e
    <3>2. \A i \in 1 .. n + 1 : (below(i) <=> i <= p) /\ (below(i - 1) <=> i - 1 <= p)
      BY <2>1, <2>10
    <3> QED
      BY <2>1, <2>7, <3>1, <3>2
  <2>12. IsRotation(src, L, p, n)
    <3>1. SUFFICES ASSUME NEW i \in p + 2 .. n + 1
                   PROVE  IF i <= n /\ L[i] = L[i - 1] THEN src[i] = i
                          ELSE /\ src[i] \in 1 .. n /\ L[src[i]] = L[i - 1]
                               /\ \A k \in 1 .. n : L[k] = L[i - 1] => src[i] <= k
      BY DEF IsRotation
    <3>2. i \in 1 .. n + 1 /\ i - 1 \in 1 .. n
      BY <2>1, <2>7, <3>1
    <3>3. i \in same(i - 1) <=> i <= n /\ L[i] = L[i - 1]
      BY <2>2, <3>2
    <3>4. first(i - 1) \in same(i - 1) /\ \A k \in same(i - 1) : first(i - 1) <= k
      <4>1. same(i - 1) \in SUBSET Nat /\ same(i - 1) # {}
        BY <2>1, <3>2
      <4> HIDE DEF same
      <4>2. \E j \in same(i - 1) : \A k \in same(i - 1) : j <= k
        BY <4>1, Least
      <4> QED
        BY <4>2
    <3>5. src[i] = IF i \in same(i - 1) THEN i ELSE first(i - 1)
      BY <3>2
    <3>6. same(i - 1) = {j \in 1 .. n : L[j] = L[i - 1]}
      BY <2>4, <3>2
    <3> HIDE DEF same, first, src, L
    <3> QED
      BY <3>3, <3>4, <3>5, <3>6
  <2> HIDE DEF L, same, first, src, T, below, e
  <2>13. \A i \in 1 .. p, j \in p + 1 .. n : L[i] < L[j]
    <3>1. ASSUME NEW i \in 1 .. p, NEW j \in p + 1 .. n PROVE L[i] < L[j]
      <4>1. L[i] \in Int /\ L[j] \in Int
        BY <2>1, <2>2, <2>7
      <4> QED
        BY <2>2, <2>8, <2>9, <4>1
    <3> QED
      BY <3>1
  <2>14. /\ \A i \in p + 2 .. n + 1 : src[i] \in p + 1 .. n /\ L[src[i]] = L[i - 1]
         /\ \A i, j \in p + 2 .. n + 1 : src[i] = src[j] => i = j
         /\ \A k \in p + 1 .. n : \E i \in p + 2 .. n + 1 : src[i] = k
    <3> HIDE DEF n
    <3>1. Rising(L, p, n)
      BY <2>1, <2>2, <2>3, <2>7, <2>13 DEF Rising
    <3>2. Permutes(src, L, p, n)
      BY <2>12, <3>1, Rotation, Zenon
    <3> QED
      BY <3>2 DEF Permutes
  <2>15. /\ \A i \in 1 .. p : e[i] = q[i]
         /\ e[p + 1] = s
         /\ \A i \in p + 2 .. n + 1 : e[i] = q[src[i]]
    BY <2>1, <2>7, <2>11
  <2>16. e \in Seq(A) /\ Len(e) = n + 1 /\ DOMAIN e = 1 .. n + 1
    <3>1. \A i \in 1 .. n + 1 : e[i] \in A
      <4>1. ASSUME NEW i \in p + 2 .. n + 1 PROVE e[i] \in A
        <5>1. src[i] \in 1 .. n
          BY <2>1, <2>7, <2>14
        <5>2. q[src[i]] \in A
          BY <2>1, <5>1
        <5> QED
          BY <2>15, <5>2
      <4>2. \A i \in 1 .. p : e[i] \in A
        BY <2>1, <2>2, <2>7, <2>15
      <4> QED
        BY <2>1, <2>7, <2>15, <4>1, <4>2
    <3>2. e \in [1 .. n + 1 -> A]
      BY <2>11, <3>1
    <3> QED
      BY <2>1, <3>2
  <2>17. Items(e) = Items(q) \cup {s}
    <3>1. ASSUME NEW i \in 1 .. n + 1 PROVE e[i] \in Items(q) \cup {s}
      <4>1. CASE i \in 1 .. p
        BY <2>1, <2>7, <2>15, <4>1 DEF Items
      <4>2. CASE i = p + 1
        BY <2>15, <4>2
      <4>3. CASE i \in p + 2 .. n + 1
        <5>1. src[i] \in DOMAIN q
          BY <2>1, <2>7, <2>14, <4>3
        <5> QED
          BY <2>15, <4>3, <5>1 DEF Items
      <4> QED
        BY <2>1, <2>7, <4>1, <4>2, <4>3
    <3>2. ASSUME NEW k \in 1 .. n PROVE q[k] \in Items(e)
      <4>1. CASE k \in 1 .. p
        BY <2>1, <2>7, <2>15, <2>16, <4>1 DEF Items
      <4>2. CASE k \in p + 1 .. n
        <5>1. PICK i \in p + 2 .. n + 1 : src[i] = k
          BY <2>14, <4>2
        <5>2. i \in DOMAIN e /\ e[i] = q[k]
          BY <2>1, <2>7, <2>15, <2>16, <5>1
        <5> QED
          BY <5>2 DEF Items
      <4> QED
        BY <2>1, <2>7, <4>1, <4>2
    <3>3. s \in Items(e)
      BY <2>1, <2>7, <2>15, <2>16 DEF Items
    <3> QED
      BY <2>1, <2>16, <3>1, <3>2, <3>3 DEF Items
  <2>18. ASSUME NEW i \in 1 .. n + 1, NEW j \in 1 .. n + 1, i < j
         PROVE  e[i] # e[j] /\ level[e[i]] <= level[e[j]]
    <3>1. \A k \in 1 .. n : q[k] # s
      BY <1>2, <2>1 DEF Items
    <3>2. \A k, m \in 1 .. n : q[k] = q[m] => k = m
      BY <2>1 DEF QueueOK
    <3>3. i \in 1 .. p \/ i = p + 1 \/ i \in p + 2 .. n + 1
      BY <2>1, <2>7
    <3>4. ASSUME NEW k \in p + 2 .. n + 1
          PROVE  /\ e[k] = q[src[k]] /\ src[k] \in p + 1 .. n /\ src[k] \in 1 .. n
                 /\ level[e[k]] = L[k - 1] /\ L[k - 1] > level[s] /\ k - 1 \in p + 1 .. n
      <4>1. e[k] = q[src[k]] /\ src[k] \in p + 1 .. n /\ L[src[k]] = L[k - 1]
        BY <2>14, <2>15
      <4>2. src[k] \in 1 .. n /\ k - 1 \in p + 1 .. n
        BY <2>1, <2>7, <4>1
      <4> QED
        BY <2>2, <2>9, <4>1, <4>2
    <3>5. ASSUME NEW k \in 1 .. p
          PROVE  e[k] = q[k] /\ k \in 1 .. n /\ level[e[k]] = L[k] /\ L[k] <= level[s]
      BY <2>1, <2>2, <2>7, <2>8, <2>15
    <3>6. CASE i \in 1 .. p
      <4>1. CASE j \in 1 .. p
        BY <2>3, <2>18, <3>2, <3>5, <3>6, <4>1
      <4>2. CASE j = p + 1
        BY <2>15, <3>1, <3>5, <3>6, <4>2
      <4>3. CASE j \in p + 2 .. n + 1
        <5>1. src[j] # i
          BY <2>7, <3>4, <3>6, <4>3
        <5>2. e[i] # e[j]
          BY <3>2, <3>4, <3>5, <3>6, <4>3, <5>1
        <5>3. L[i] \in Int /\ L[j - 1] \in Int
          BY <2>1, <2>2, <2>7, <3>4, <3>5, <3>6, <4>3
        <5> QED
          BY <2>2, <3>4, <3>5, <3>6, <4>3, <5>2, <5>3
      <4> QED
        BY <2>1, <2>7, <4>1, <4>2, <4>3
    <3>7. CASE i = p + 1
      <4>1. j \in p + 2 .. n + 1
        BY <2>1, <2>7, <2>18, <3>7
      <4>2. L[j - 1] \in Int
        BY <2>1, <2>2, <2>7, <3>4, <4>1
      <4> QED
        BY <2>2, <2>15, <3>1, <3>4, <3>7, <4>1, <4>2
    <3>8. CASE i \in p + 2 .. n + 1
      <4>1. j \in p + 2 .. n + 1
        BY <2>1, <2>7, <2>18, <3>8
      <4>2. src[i] # src[j]
        BY <2>14, <2>18, <3>8, <4>1
      <4>3. e[i] # e[j]
        BY <3>2, <3>4, <3>8, <4>1, <4>2
      <4>4. i - 1 \in 1 .. n /\ j - 1 \in 1 .. n /\ i - 1 <= j - 1
        BY <2>1, <2>7, <2>18, <3>8, <4>1
      <4>5. L[i - 1] <= L[j - 1]
        BY <2>3, <4>4
      <4> QED
        BY <3>4, <3>8, <4>1, <4>3, <4>5
    <3> QED
      BY <3>3, <3>6, <3>7, <3>8
  <2>19. ASSUME NEW i \in DOMAIN e, NEW j \in DOMAIN e, e[i] = e[j] PROVE i = j
    <3>1. i \in 1 .. n + 1 /\ j \in 1 .. n + 1
      BY <2>16
    <3>2. i < j \/ j < i \/ i = j
      BY <2>1, <3>1
    <3> QED
      BY <2>18, <2>19, <3>1, <3>2
  <2>20. Sorted(e, level)
    BY <2>16, <2>18 DEF Sorted
  <2> QED
    BY <2>16, <2>17, <2>19, <2>20 DEF QueueOK, e
<1> QED
  BY <1>1, <1>2
-------------------------------------------------------------------------------
(* What irq is, its queues and its DMA levels.                             *)
Requests == Sources \ {"NMI"}

Registers ==
  [IST : SUBSET Requests, AIACK : BOOLEAN, interrupts : Seq(Requests),
   sh2 : [Cpus -> Seq(Sources)], dma : [DmaEnds -> DmaLevel]]

QueuesOK(r) ==
  /\ QueueOK(r.interrupts, Requests) /\ Sorted(r.interrupts, Level)
  /\ QueueOK(r.sh2["MSH2"], Sources) /\ Sorted(r.sh2["MSH2"], Level)
  /\ QueueOK(r.sh2["SSH2"], DOMAIN SlaveLevel) /\ Sorted(r.sh2["SSH2"], SlaveLevel)
  /\ ABus \cap Items(r.interrupts) \subseteq r.IST

ControlOK(r) == r \in Registers /\ QueuesOK(r)

LEMMA LevelNumbers ==
  /\ Levelled(Sources, Level) /\ Levelled(Requests, Level)
  /\ Levelled(DOMAIN SlaveLevel, SlaveLevel)
  /\ DOMAIN SlaveLevel \subseteq Requests
  /\ ABus \subseteq Requests /\ Transferred \subseteq Requests
  /\ ABus \cap Transferred = {}
BY DEF Levelled, Level, SlaveLevel, Sources, Requests, ABus, Transferred, DmaEnds

(* The enqueued request is at the CPUs it is sent to.                      *)
LEMMA AssertFacts ==
  ASSUME NEW r, ControlOK(r), NEW s \in Sources
  PROVE  LET a == AssertIrq(r, s) IN
         /\ ControlOK(a)
         /\ a.IST = r.IST /\ a.AIACK = r.AIACK /\ a.interrupts = r.interrupts /\ a.dma = r.dma
         /\ Items(a.sh2["MSH2"]) = Items(r.sh2["MSH2"]) \cup {s}
<1> DEFINE a == AssertIrq(r, s)
           m == r.sh2["MSH2"]
           w == r.sh2["SSH2"]
           toSlave == IsSSH2Running /\ s \in DOMAIN SlaveLevel
<1>1. r \in Registers /\ QueuesOK(r)
  BY DEF ControlOK
<1>2. "MSH2" \in Cpus /\ "SSH2" \in Cpus /\ "MSH2" # "SSH2"
  BY DEF Cpus
<1> DEFINE sent == [c \in Cpus |->
                      IF c = "MSH2" THEN Enqueue(r.sh2[c], s, Level)
                      ELSE IF toSlave THEN Enqueue(r.sh2[c], s, SlaveLevel) ELSE r.sh2[c]]
<1>3. a = [r EXCEPT !.sh2 = sent]
  BY DEF AssertIrq
<1>4. /\ sent["MSH2"] = Enqueue(m, s, Level)
      /\ sent["SSH2"] = IF toSlave THEN Enqueue(w, s, SlaveLevel) ELSE w
  BY <1>2
<1>5. /\ QueueOK(sent["MSH2"], Sources) /\ Sorted(sent["MSH2"], Level)
      /\ Items(sent["MSH2"]) = Items(m) \cup {s}
  <2>1. QueueOK(m, Sources) /\ Sorted(m, Level)
    BY <1>1 DEF QueuesOK
  <2> HIDE DEF m, sent
  <2>2. Levelled(Sources, Level)
    BY LevelNumbers
  <2>3. /\ QueueOK(Enqueue(m, s, Level), Sources)
        /\ Items(Enqueue(m, s, Level)) = Items(m) \cup {s}
        /\ Sorted(Enqueue(m, s, Level), Level)
    BY ONLY <2>1, <2>2, s \in Sources, EnqueueQueue
  <2> QED
    BY <1>4, <2>3
<1>6. QueueOK(sent["SSH2"], DOMAIN SlaveLevel) /\ Sorted(sent["SSH2"], SlaveLevel)
  <2>1. CASE toSlave
    <3>1. QueueOK(w, DOMAIN SlaveLevel) /\ Sorted(w, SlaveLevel)
      BY <1>1 DEF QueuesOK
    <3>2. Levelled(DOMAIN SlaveLevel, SlaveLevel)
      BY LevelNumbers
    <3> HIDE DEF w, sent
    <3> QED
      BY <1>4, <2>1, <3>1, <3>2, EnqueueQueue
  <2>2. CASE ~toSlave
    BY <1>1, <1>4, <2>2 DEF QueuesOK
  <2> QED
    BY <2>1, <2>2
<1> HIDE DEF toSlave
<1>7. sent \in [Cpus -> Seq(Sources)]
  <2>1. sent["MSH2"] \in Seq(Sources)
    BY <1>5 DEF QueueOK
  <2>2. sent["SSH2"] \in Seq(Sources)
    <3>1. sent["SSH2"] \in Seq(DOMAIN SlaveLevel) /\ DOMAIN SlaveLevel \subseteq Sources
      BY <1>6, LevelNumbers DEF QueueOK, Requests
    <3> HIDE DEF sent
    <3> QED
      BY <3>1
  <2>3. \A c \in Cpus : c = "MSH2" \/ c = "SSH2"
    BY DEF Cpus
  <2>4. sent = [c \in Cpus |-> sent[c]]
    OBVIOUS
  <2> HIDE DEF sent
  <2> QED
    BY <2>1, <2>2, <2>3, <2>4
<1> HIDE DEF sent
<1>8. /\ a.IST = r.IST /\ a.AIACK = r.AIACK /\ a.interrupts = r.interrupts /\ a.dma = r.dma
      /\ a.sh2 = sent /\ a \in Registers
  BY <1>1, <1>3, <1>7 DEF Registers
<1>9. QueuesOK(a)
  BY <1>1, <1>5, <1>6, <1>8 DEF QueuesOK
<1> QED
  BY <1>5, <1>8, <1>9 DEF ControlOK

(* From r to x a chain of handlers adds requests of S at most, and removes *)
(* none from the queues.                                                   *)
Adds(r, x, S) ==
  /\ Items(r.interrupts) \subseteq Items(x.interrupts)
  /\ Items(x.interrupts) \subseteq Items(r.interrupts) \cup S
  /\ Items(r.sh2["MSH2"]) \subseteq Items(x.sh2["MSH2"])
  /\ Items(x.sh2["MSH2"]) \subseteq Items(r.sh2["MSH2"]) \cup S
  /\ x.IST \subseteq r.IST \cup S
  /\ x.AIACK => r.AIACK

LEMMA QueueFacts ==
  ASSUME NEW r, ControlOK(r), NEW s \in Requests
  PROVE  LET x == Queue(r, s) IN
         /\ ControlOK(x)
         /\ x.AIACK = r.AIACK /\ x.sh2 = r.sh2 /\ x.dma = r.dma /\ x.IST = r.IST \cup {s}
         /\ Items(x.interrupts) = Items(r.interrupts) \cup {s}
<1> DEFINE x == Queue(r, s)
           e == Enqueue(r.interrupts, s, Level)
<1>1. r \in Registers /\ QueuesOK(r)
  BY DEF ControlOK
<1>2. Levelled(Requests, Level)
  BY LevelNumbers
<1>3. QueueOK(r.interrupts, Requests) /\ Sorted(r.interrupts, Level)
  BY <1>1 DEF QueuesOK
<1>4. /\ QueueOK(e, Requests) /\ Sorted(e, Level)
      /\ Items(e) = Items(r.interrupts) \cup {s}
  BY ONLY <1>2, <1>3, s \in Requests, EnqueueQueue
<1>5. e \in Seq(Requests)
  BY <1>4 DEF QueueOK
<1>6. x = [r EXCEPT !.interrupts = e, !.IST = r.IST \cup {s}]
  BY <1>1 DEF Queue, Registers
<1> HIDE DEF e
<1>7. /\ x.AIACK = r.AIACK /\ x.sh2 = r.sh2 /\ x.dma = r.dma
      /\ x.IST = r.IST \cup {s} /\ x.interrupts = e /\ x \in Registers
  BY <1>1, <1>5, <1>6 DEF Registers
<1> HIDE DEF x
<1>8. QueuesOK(x)
  BY <1>1, <1>4, <1>7 DEF QueuesOK
<1> QED
  BY <1>4, <1>7, <1>8 DEF ControlOK, x

(* A request goes to one of the queues; one of the A-bus disarms AIACK     *)
(* when it goes to the CPU.                                                *)
LEMMA SendFacts ==
  ASSUME NEW r, ControlOK(r), NEW s \in Requests
  PROVE  LET x == SendInterrupt(r, s) IN
         /\ ControlOK(x) /\ x.dma = r.dma
         /\ Adds(r, x, {s}) /\ s \in Told(x)
         /\ s \in ABus \cap (Items(x.sh2["MSH2"]) \ Items(r.sh2["MSH2"])) => ~x.AIACK
<1> DEFINE x == SendInterrupt(r, s)
<1>1. r \in Registers /\ QueuesOK(r) /\ s \in Sources
  BY DEF ControlOK, Requests
<1>2. CASE MaskOf(s) \in IMS \/ (s \in ABus /\ ~r.AIACK)
  <2>1. x = Queue(r, s)
    BY <1>2 DEF SendInterrupt
  <2> HIDE DEF x
  <2> QED
    BY <2>1, QueueFacts DEF Adds, Told, x
<1>3. CASE ~(MaskOf(s) \in IMS \/ (s \in ABus /\ ~r.AIACK)) /\ s \in ABus
  <2> DEFINE y == [r EXCEPT !.AIACK = FALSE]
  <2>1. x = AssertIrq(y, s)
    BY <1>3 DEF SendInterrupt
  <2>2. /\ y \in Registers /\ y.AIACK = FALSE /\ y.IST = r.IST /\ y.sh2 = r.sh2
        /\ y.interrupts = r.interrupts /\ y.dma = r.dma
    BY <1>1 DEF Registers
  <2> HIDE DEF x, y
  <2>3. ControlOK(y)
    BY <1>1, <2>2 DEF QueuesOK, ControlOK
  <2>4. /\ ControlOK(x)
        /\ x.IST = y.IST /\ x.AIACK = y.AIACK /\ x.interrupts = y.interrupts /\ x.dma = y.dma
        /\ Items(x.sh2["MSH2"]) = Items(y.sh2["MSH2"]) \cup {s}
    BY <1>1, <2>1, <2>3, AssertFacts
  <2> QED
    BY <2>2, <2>4 DEF Adds, Told, x
<1>4. CASE ~(MaskOf(s) \in IMS \/ (s \in ABus /\ ~r.AIACK)) /\ s \notin ABus
  <2> DEFINE ist == IF Level[s] > I["MSH2"] THEN r.IST \ {s} ELSE r.IST \cup {s}
             y == [r EXCEPT !.IST = ist]
  <2>1. x = AssertIrq(y, s)
    <3>1. [r EXCEPT !.IST = IF Level[s] > I["MSH2"] THEN @ \ {s} ELSE @ \cup {s}] = y
      BY <1>1 DEF Registers
    <3> QED
      BY <1>4, <3>1 DEF SendInterrupt
  <2>2. ist \in SUBSET Requests /\ ist \subseteq r.IST \cup {s} /\ r.IST \ {s} \subseteq ist
    BY <1>1 DEF Registers
  <2> HIDE DEF ist
  <2>3. /\ y \in Registers /\ y.AIACK = r.AIACK /\ y.IST = ist /\ y.sh2 = r.sh2
        /\ y.interrupts = r.interrupts /\ y.dma = r.dma
    BY <1>1, <2>2 DEF Registers
  <2> HIDE DEF x, y
  <2>4. ControlOK(y)
    BY <1>1, <1>4, <2>2, <2>3 DEF QueuesOK, ControlOK
  <2>5. /\ ControlOK(x)
        /\ x.IST = y.IST /\ x.AIACK = y.AIACK /\ x.interrupts = y.interrupts /\ x.dma = y.dma
        /\ Items(x.sh2["MSH2"]) = Items(y.sh2["MSH2"]) \cup {s}
    BY <1>1, <2>1, <2>4, AssertFacts
  <2> QED
    BY <1>4, <2>2, <2>3, <2>5 DEF Adds, Told, x
<1> QED
  BY <1>2, <1>3, <1>4

(* A withdrawal at some of the CPUs.                                       *)
Withdraws(r, x, s, cpus) ==
  /\ x.IST = r.IST /\ x.AIACK = r.AIACK /\ x.interrupts = r.interrupts /\ x.dma = r.dma
  /\ Items(x.sh2["MSH2"]) =
       IF "MSH2" \in cpus THEN Items(r.sh2["MSH2"]) \ {s} ELSE Items(r.sh2["MSH2"])

LEMMA RetractFacts ==
  ASSUME NEW r, ControlOK(r), NEW s, NEW cpus
  PROVE  LET x == Retract(r, s, cpus) IN ControlOK(x) /\ Withdraws(r, x, s, cpus)
<1> DEFINE x == Retract(r, s, cpus)
           left == [c \in Cpus |-> IF c \in cpus THEN Without(r.sh2[c], s) ELSE r.sh2[c]]
<1>1. r \in Registers /\ QueuesOK(r)
  BY DEF ControlOK
<1>2. "MSH2" \in Cpus /\ "SSH2" \in Cpus
  BY DEF Cpus
<1>3. x = [r EXCEPT !.sh2 = left]
  BY <1>1 DEF Retract, Registers
<1>4. /\ left["MSH2"] = IF "MSH2" \in cpus THEN Without(r.sh2["MSH2"], s) ELSE r.sh2["MSH2"]
      /\ left["SSH2"] = IF "SSH2" \in cpus THEN Without(r.sh2["SSH2"], s) ELSE r.sh2["SSH2"]
  BY <1>2
<1>5. ASSUME NEW q, NEW A, QueueOK(q, A), NEW level, Sorted(q, level)
      PROVE  /\ QueueOK(Without(q, s), A) /\ Sorted(Without(q, s), level)
             /\ Items(Without(q, s)) = Items(q) \ {s}
  <2>1. Without(q, s) = Keep(q, Items(q) \ {s})
    BY DEF Without
  <2>2. /\ QueueOK(Keep(q, Items(q) \ {s}), A)
        /\ Items(Keep(q, Items(q) \ {s})) = Items(q) \cap (Items(q) \ {s})
        /\ \A l : Sorted(q, l) => Sorted(Keep(q, Items(q) \ {s}), l)
    BY ONLY QueueOK(q, A), KeepQueue
  <2> QED
    BY <1>5, <2>1, <2>2
<1> HIDE DEF left
<1>6. /\ QueueOK(left["MSH2"], Sources) /\ Sorted(left["MSH2"], Level)
      /\ Items(left["MSH2"]) =
           IF "MSH2" \in cpus THEN Items(r.sh2["MSH2"]) \ {s} ELSE Items(r.sh2["MSH2"])
  BY <1>1, <1>4, <1>5 DEF QueuesOK
<1>7. QueueOK(left["SSH2"], DOMAIN SlaveLevel) /\ Sorted(left["SSH2"], SlaveLevel)
  BY <1>1, <1>4, <1>5 DEF QueuesOK
<1>8. left \in [Cpus -> Seq(Sources)]
  <2>1. left["MSH2"] \in Seq(Sources)
    BY <1>6 DEF QueueOK
  <2>2. left["SSH2"] \in Seq(Sources)
    <3>1. left["SSH2"] \in Seq(DOMAIN SlaveLevel) /\ DOMAIN SlaveLevel \subseteq Sources
      BY <1>7, LevelNumbers DEF QueueOK, Requests
    <3> QED
      BY <3>1
  <2>3. \A c \in Cpus : c = "MSH2" \/ c = "SSH2"
    BY DEF Cpus
  <2>4. left = [c \in Cpus |-> left[c]]
    BY DEF left
  <2> QED
    BY <2>1, <2>2, <2>3, <2>4
<1>9. /\ x.IST = r.IST /\ x.AIACK = r.AIACK /\ x.interrupts = r.interrupts /\ x.dma = r.dma
      /\ x.sh2 = left /\ x \in Registers
  BY <1>1, <1>3, <1>8 DEF Registers
<1> HIDE DEF x
<1>10. QueuesOK(x)
  BY <1>1, <1>6, <1>7, <1>9 DEF QueuesOK
<1> QED
  BY <1>6, <1>9, <1>10 DEF ControlOK, Withdraws, x

(* A removal from the queue of the SCU, with the bits that IST keeps.      *)
Drop(r, S, ist) == [r EXCEPT !.interrupts = Keep(r.interrupts, S), !.IST = ist]

LEMMA DropFacts ==
  ASSUME NEW r, ControlOK(r), NEW S, NEW ist \in SUBSET Requests,
         ABus \cap Items(r.interrupts) \cap S \subseteq ist
  PROVE  LET x == Drop(r, S, ist) IN
         /\ ControlOK(x)
         /\ x.IST = ist /\ x.AIACK = r.AIACK /\ x.sh2 = r.sh2 /\ x.dma = r.dma
         /\ Items(x.interrupts) = Items(r.interrupts) \cap S
<1> DEFINE k == Keep(r.interrupts, S)
           x == Drop(r, S, ist)
<1>1. r \in Registers /\ QueuesOK(r)
  BY DEF ControlOK
<1>2. QueueOK(r.interrupts, Requests) /\ Sorted(r.interrupts, Level)
  BY <1>1 DEF QueuesOK
<1>3. /\ QueueOK(k, Requests) /\ Items(k) = Items(r.interrupts) \cap S
      /\ \A l : Sorted(r.interrupts, l) => Sorted(k, l)
  BY ONLY <1>2, KeepQueue
<1>4. Sorted(k, Level) /\ k \in Seq(Requests)
  BY <1>2, <1>3 DEF QueueOK
<1> HIDE DEF k
<1>5. /\ x.IST = ist /\ x.AIACK = r.AIACK /\ x.sh2 = r.sh2 /\ x.dma = r.dma
      /\ x.interrupts = k /\ x \in Registers
  BY <1>1, <1>4 DEF Registers, Drop, k
<1> HIDE DEF x
<1>6. QueuesOK(x)
  BY <1>1, <1>3, <1>4, <1>5 DEF QueuesOK
<1> QED
  BY <1>3, <1>5, <1>6 DEF ControlOK, x

(* A timer that withdraws its request leaves it nowhere.                   *)
LEMMA RemoveTimerFacts ==
  ASSUME NEW r, ControlOK(r), NEW s \in Requests \ ABus
  PROVE  LET x == RemoveTimer(r, s) IN
         /\ ControlOK(x)
         /\ x.IST = r.IST \ {s} /\ x.AIACK = r.AIACK /\ x.dma = r.dma
         /\ Items(x.interrupts) = Items(r.interrupts) \ {s}
         /\ Items(x.sh2["MSH2"]) = Items(r.sh2["MSH2"]) \ {s}
<1> DEFINE x == RemoveTimer(r, s)
           S == Items(r.interrupts) \ {s}
           y == Drop(r, S, r.IST \ {s})
<1>1. r \in Registers /\ QueuesOK(r)
  BY DEF ControlOK
<1>2. [r EXCEPT !.IST = @ \ {s}, !.interrupts = Without(@, s)] = y
  BY <1>1 DEF Registers, Without, Drop
<1>3. x = Retract(y, s, {"MSH2"})
  BY <1>2 DEF RemoveTimer
<1>4. r.IST \ {s} \in SUBSET Requests /\ ABus \cap Items(r.interrupts) \cap S \subseteq r.IST \ {s}
  BY <1>1 DEF QueuesOK, Registers
<1> HIDE DEF x, y, S
<1>5. /\ ControlOK(y)
      /\ y.IST = r.IST \ {s} /\ y.AIACK = r.AIACK /\ y.sh2 = r.sh2 /\ y.dma = r.dma
      /\ Items(y.interrupts) = Items(r.interrupts) \cap S
  BY <1>1, <1>4, DropFacts DEF y
<1> DEFINE z == Retract(y, s, {"MSH2"})
<1>7. ControlOK(z) /\ Withdraws(y, z, s, {"MSH2"})
  BY ONLY <1>5, RetractFacts
<1> HIDE DEF z
<1>8. Items(r.interrupts) \cap S = Items(r.interrupts) \ {s}
  BY DEF S
<1> QED
  BY <1>3, <1>5, <1>7, <1>8 DEF Withdraws, x, z

LEMMA DeliverFacts ==
  ASSUME NEW r, ControlOK(r), NEW ss \in SUBSET Sources, \A s, t \in ss : s = t
  PROVE  LET a == Deliver(r, ss) IN
         /\ ControlOK(a)
         /\ a.IST = r.IST /\ a.AIACK = r.AIACK /\ a.interrupts = r.interrupts /\ a.dma = r.dma
         /\ Items(a.sh2["MSH2"]) = Items(r.sh2["MSH2"]) \cup ss
<1>1. CASE ss = {}
  BY <1>1 DEF Deliver
<1>2. CASE ss # {}
  <2> DEFINE s == CHOOSE s \in ss : TRUE
  <2>1. s \in ss /\ ss = {s}
    BY <1>2
  <2>2. Deliver(r, ss) = AssertIrq(r, s)
    BY <1>2 DEF Deliver
  <2> DEFINE a == AssertIrq(r, s)
  <2> HIDE DEF s
  <2>3. /\ ControlOK(a)
        /\ a.IST = r.IST /\ a.AIACK = r.AIACK /\ a.interrupts = r.interrupts /\ a.dma = r.dma
        /\ Items(a.sh2["MSH2"]) = Items(r.sh2["MSH2"]) \cup {s}
    BY <2>1, AssertFacts
  <2> QED
    BY <2>1, <2>2, <2>3
<1> QED
  BY <1>1, <1>2

(* The least of a set of numbers is one, if any.                           *)
LEMMA FirstIsOne ==
  ASSUME NEW ks \in SUBSET Nat
  PROVE  \A i, j \in {k \in ks : \A m \in ks : k <= m} : i = j
OBVIOUS

(* The scan of the queue: A are the indices of the A-bus requests it may   *)
(* deliver, O those of the others; it finds a and last.                    *)
Scans(A, O, a, open, last) ==
  /\ A \cap O = {}
  /\ a = {k \in A : \A m \in A : k <= m}
  /\ open = {k \in O : \A i \in a : k < i \/ k > i + 1}
  /\ last = {k \in open : \A m \in open : k <= m}

Finds(A, O, a, last) ==
  \E k \in A \cup O :
    /\ (k \in a /\ \A j \in last : k < j) \/ k \in last
    /\ \A j \in A \cup O : k <= j

(* One of the two it finds is the first of all the indices.                *)
LEMMA ScanFindsFirst ==
  ASSUME NEW A \in SUBSET Nat, NEW O \in SUBSET Nat, A \cup O # {},
         NEW a, NEW open, NEW last, Scans(A, O, a, open, last)
  PROVE  Finds(A, O, a, last)
<1> USE DEF Scans, Finds
<1>1. PICK k \in A \cup O : \A j \in A \cup O : k <= j
  <2>1. A \cup O \in SUBSET Nat
    OBVIOUS
  <2> QED
    BY <2>1, Least
<1>2. CASE k \in A
  <2>1. k \in a
    BY <1>1, <1>2
  <2>2. \A j \in last : j \in O /\ j \in Nat
    OBVIOUS
  <2>3. \A j \in last : k < j
    <3>1. \A j \in last : k <= j /\ k # j /\ k \in Nat
      BY <1>1, <1>2, <2>2
    <3> QED
      BY <2>2, <3>1
  <2> QED
    BY <1>1, <2>1, <2>3
<1>3. CASE k \in O
  <2>1. \A i \in a : k < i
    <3>1. \A i \in a : k <= i /\ k # i /\ i \in Nat /\ k \in Nat
      BY <1>1, <1>3
    <3> QED
      BY <3>1
  <2>2. k \in open
    BY <1>3, <2>1
  <2>3. k \in last
    BY <1>1, <2>2
  <2> QED
    BY <1>1, <2>3
<1> QED
  BY <1>2, <1>3

(* The queued requests that a write with these masks may deliver.          *)
Open(r, mask) ==
  {s \in Items(r.interrupts) : /\ MaskOf(s) \notin mask
                              /\ IF s \in ABus THEN r.AIACK ELSE s \in r.IST}

(* From r to x one of the most urgent of them went to the master.          *)
ServesMostUrgent(r, x, mask) ==
  Open(r, mask) # {} =>
    \E t \in Open(r, mask) : /\ t \notin Items(x.interrupts)
                             /\ t \in Items(x.sh2["MSH2"])
                             /\ \A s \in Open(r, mask) : Level[s] <= Level[t]

(* What a write delivers leaves IST and the queue for the master; of the   *)
(* A-bus it is one request, and it disarms AIACK.                          *)
Delivers(r, x, sent) ==
  /\ Items(x.interrupts) = Items(r.interrupts) \ sent
  /\ Items(x.sh2["MSH2"]) = Items(r.sh2["MSH2"]) \cup sent
  /\ x.IST = r.IST \ sent /\ x.dma = r.dma
  /\ \A s, t \in sent \cap ABus : s = t
  /\ sent \cap ABus # {} => ~x.AIACK
  /\ x.AIACK => r.AIACK

LEMMA TestFacts ==
  ASSUME NEW r, ControlOK(r), NEW mask
  PROVE  LET x == TestInterruptMask(r, mask) IN
         /\ ControlOK(x)
         /\ \E sent \in SUBSET Items(r.interrupts) : Delivers(r, x, sent)
         /\ ServesMostUrgent(r, x, mask)
<1> DEFINE n == Len(r.interrupts)
           from(k) == r.interrupts[n + 1 - k]
           first(ks) == {k \in ks : \A j \in ks : k <= j}
           abusAll == {k \in 1 .. n : from(k) \in ABus}
           abus == IF r.AIACK /\ "ABus" \notin mask THEN first(abusAll) ELSE {}
           other == {k \in 1 .. n : /\ from(k) \notin ABus
                                    /\ from(k) \notin mask /\ from(k) \in r.IST}
           open == {k \in other : \A a \in abus : k < a \/ k > a + 1}
           last == first(open)
           sentABus == {from(k) : k \in {a \in abus : \A k \in last : a < k}}
           sentLast == {from(k) : k \in last}
           sent == sentABus \cup sentLast
           S == Items(r.interrupts) \ sent
           y == Deliver(Deliver(r, sentABus), sentLast)
           x == TestInterruptMask(r, mask)
<1>1. r \in Registers /\ QueuesOK(r)
  BY DEF ControlOK
<1>2. x = [y EXCEPT !.AIACK = @ /\ sentABus = {}, !.IST = @ \ sent,
                    !.interrupts = Keep(@, Items(@) \ sent)]
  BY DEF TestInterruptMask
<1>3. n \in Nat /\ DOMAIN r.interrupts = 1 .. n /\ r.interrupts \in Seq(Requests)
  BY <1>1 DEF Registers
<1>4. \A k \in 1 .. n : from(k) \in Items(r.interrupts)
  <2>1. \A k \in 1 .. n : n + 1 - k \in 1 .. n
    BY <1>3
  <2> QED
    BY <1>3, <2>1 DEF Items
<1> HIDE DEF n, x
<1>5. abusAll \in SUBSET Nat /\ open \in SUBSET Nat
  BY <1>3
<1>6. abus \subseteq abusAll /\ last \subseteq open /\ open \subseteq other
      /\ abusAll \subseteq 1 .. n /\ other \subseteq 1 .. n
  OBVIOUS
<1>7. (\A i, j \in abus : i = j) /\ (\A i, j \in last : i = j)
  <2> HIDE DEF abusAll, open
  <2>1. \A i, j \in first(abusAll) : i = j
    BY <1>5, FirstIsOne
  <2>2. \A i, j \in first(open) : i = j
    BY <1>5, FirstIsOne
  <2> QED
    BY <2>1, <2>2
<1>8. (\A k \in abusAll : from(k) \in ABus) /\ (\A k \in other : from(k) \notin ABus)
  OBVIOUS
<1>9. abus # {} => r.AIACK
  OBVIOUS
<1> DEFINE A == IF r.AIACK /\ "ABus" \notin mask THEN abusAll ELSE {}
<1>10. /\ A \in SUBSET (1 .. n) /\ other \in SUBSET (1 .. n) /\ A \cap other = {}
       /\ abus = {k \in A : \A m \in A : k <= m}
  OBVIOUS
<1>11. Open(r, mask) = {from(k) : k \in A \cup other}
  <2>1. Items(r.interrupts) = {from(k) : k \in 1 .. n}
    <3>1. \A i \in 1 .. n : n + 1 - i \in 1 .. n /\ n + 1 - (n + 1 - i) = i
      BY <1>3
    <3>2. ASSUME NEW s \in Items(r.interrupts) PROVE s \in {from(k) : k \in 1 .. n}
      <4>1. PICK i \in 1 .. n : s = r.interrupts[i]
        BY <1>3 DEF Items
      <4>2. s = from(n + 1 - i)
        BY <3>1, <4>1
      <4> QED
        BY <3>1, <4>2
    <3> QED
      BY <1>4, <3>2
  <2>2. \A s \in Items(r.interrupts) :
          s \in Open(r, mask) <=>
            (\/ s \in ABus /\ r.AIACK /\ "ABus" \notin mask
             \/ s \notin ABus /\ s \notin mask /\ s \in r.IST)
    BY DEF Open, MaskOf
  <2>3. \A k \in 1 .. n :
          k \in A \cup other <=>
            (\/ from(k) \in ABus /\ r.AIACK /\ "ABus" \notin mask
             \/ from(k) \notin ABus /\ from(k) \notin mask /\ from(k) \in r.IST)
    OBVIOUS
  <2>4. Open(r, mask) \subseteq Items(r.interrupts)
    BY DEF Open
  <2> HIDE DEF from, A, other
  <2> QED
    BY <1>10, <2>1, <2>2, <2>3, <2>4
<1>12. ASSUME NEW k \in 1 .. n, NEW j \in 1 .. n, k <= j
       PROVE  Level[from(j)] <= Level[from(k)]
  <2>1. \A i, m \in 1 .. n : i < m => Level[r.interrupts[i]] <= Level[r.interrupts[m]]
    BY <1>1, <1>3 DEF QueuesOK, Sorted
  <2>2. n + 1 - j \in 1 .. n /\ n + 1 - k \in 1 .. n
    BY <1>3
  <2>3. CASE k = j
    <3>1. Level[from(k)] \in Int
      <4>1. from(k) \in Requests
        BY <1>3, <2>2
      <4> QED
        BY <4>1, LevelNumbers DEF Levelled
    <3> QED
      BY <2>3, <3>1
  <2>4. CASE k # j
    <3>1. n + 1 - j < n + 1 - k
      BY <1>3, <1>12, <2>4
    <3> QED
      BY <2>1, <2>2, <3>1
  <2> QED
    BY <2>3, <2>4
<1> HIDE DEF from, first, abusAll, abus, other, A
<1>13. Open(r, mask) # {} => \E t \in Open(r, mask) \cap sent :
                               \A s \in Open(r, mask) : Level[s] <= Level[t]
  <2> SUFFICES ASSUME Open(r, mask) # {}
               PROVE  \E t \in Open(r, mask) \cap sent :
                        \A s \in Open(r, mask) : Level[s] <= Level[t]
    OBVIOUS
  <2>1. A \cup other # {} /\ A \in SUBSET Nat /\ other \in SUBSET Nat
    BY <1>10, <1>11
  <2>2. last = {k \in open : \A m \in open : k <= m}
    BY DEF first
  <2>3. open = {k \in other : \A i \in abus : k < i \/ k > i + 1}
    OBVIOUS
  <2>4. A \cap other = {} /\ abus = {k \in A : \A m \in A : k <= m}
    BY <1>10
  <2> HIDE DEF open, last
  <2>5. Scans(A, other, abus, open, last)
    BY <2>2, <2>3, <2>4 DEF Scans
  <2>6. Finds(A, other, abus, last)
    BY ONLY <2>1, <2>5, ScanFindsFirst
  <2>7. PICK k \in A \cup other : /\ (k \in abus /\ (\A j \in last : k < j)) \/ k \in last
                                  /\ \A j \in A \cup other : k <= j
    BY <2>6 DEF Finds
  <2>8. from(k) \in Open(r, mask)
    BY <1>11, <2>7
  <2>9. from(k) \in sent
    BY <2>7
  <2>10. \A s \in Open(r, mask) : Level[s] <= Level[from(k)]
    BY <1>10, <1>11, <1>12, <2>7
  <2> QED
    BY <2>8, <2>9, <2>10
<1> HIDE DEF open, last
<1>14. /\ sentABus \subseteq Items(r.interrupts) \cap ABus
       /\ \A s, t \in sentABus : s = t
       /\ sentABus # {} => r.AIACK
  BY <1>4, <1>6, <1>7, <1>8, <1>9
<1>15. /\ sentLast \subseteq Items(r.interrupts) \ ABus
       /\ \A s, t \in sentLast : s = t
  BY <1>4, <1>6, <1>7, <1>8
<1>16. Items(r.interrupts) \subseteq Requests /\ Requests \subseteq Sources
  BY <1>3 DEF Items, Requests
<1> HIDE DEF sentABus, sentLast, y
<1>17. /\ ControlOK(y)
       /\ y.IST = r.IST /\ y.AIACK = r.AIACK /\ y.interrupts = r.interrupts /\ y.dma = r.dma
       /\ Items(y.sh2["MSH2"]) = Items(r.sh2["MSH2"]) \cup sent
  <2> DEFINE z == Deliver(r, sentABus)
  <2>1. sentABus \in SUBSET Sources /\ sentLast \in SUBSET Sources
    BY <1>14, <1>15, <1>16
  <2>2. /\ ControlOK(z)
        /\ z.IST = r.IST /\ z.AIACK = r.AIACK /\ z.interrupts = r.interrupts /\ z.dma = r.dma
        /\ Items(z.sh2["MSH2"]) = Items(r.sh2["MSH2"]) \cup sentABus
    BY <1>14, <2>1, DeliverFacts
  <2>3. y = Deliver(z, sentLast)
    BY DEF y
  <2> HIDE DEF z
  <2>4. /\ ControlOK(y)
        /\ y.IST = z.IST /\ y.AIACK = z.AIACK /\ y.interrupts = z.interrupts /\ y.dma = z.dma
        /\ Items(y.sh2["MSH2"]) = Items(z.sh2["MSH2"]) \cup sentLast
    BY <1>15, <2>1, <2>2, <2>3, DeliverFacts
  <2> QED
    BY <2>2, <2>4
<1> DEFINE ack == r.AIACK /\ sentABus = {}
           v == [y EXCEPT !.AIACK = ack]
<1>18. y \in Registers /\ QueuesOK(y)
  BY <1>17 DEF ControlOK
<1>19. ack \in BOOLEAN
  BY <1>1 DEF Registers
<1> HIDE DEF ack
<1>20. /\ v \in Registers /\ v.AIACK = ack /\ v.IST = y.IST /\ v.sh2 = y.sh2
       /\ v.interrupts = y.interrupts /\ v.dma = y.dma
  BY <1>18, <1>19 DEF Registers
<1>21. x = Drop(v, S, v.IST \ sent)
  <2> HIDE DEF sent, S
  <2>1. x = [y EXCEPT !.AIACK = y.AIACK /\ sentABus = {}, !.IST = y.IST \ sent,
                      !.interrupts = Keep(y.interrupts, Items(y.interrupts) \ sent)]
    BY <1>2, <1>18 DEF Registers
  <2>2. (y.AIACK /\ sentABus = {}) = ack
    BY <1>17 DEF ack
  <2>3. Items(y.interrupts) \ sent = S
    BY <1>17 DEF S
  <2> QED
    BY <1>18, <1>20, <2>1, <2>2, <2>3 DEF Registers, Drop
<1> HIDE DEF v
<1>22. ControlOK(v)
  BY <1>18, <1>20 DEF ControlOK, QueuesOK
<1>23. /\ v.IST \ sent \in SUBSET Requests
       /\ ABus \cap Items(v.interrupts) \cap S \subseteq v.IST \ sent
  BY <1>22 DEF ControlOK, QueuesOK, Registers
<1>24. /\ ControlOK(x)
       /\ x.IST = v.IST \ sent /\ x.AIACK = v.AIACK /\ x.sh2 = v.sh2 /\ x.dma = v.dma
       /\ Items(x.interrupts) = Items(v.interrupts) \cap S
  <2> HIDE DEF S, sent
  <2> QED
    BY <1>21, <1>22, <1>23, DropFacts
<1>25. Delivers(r, x, sent)
  BY <1>14, <1>15, <1>17, <1>20, <1>24 DEF Delivers, ack
<1>26. sent \in SUBSET Items(r.interrupts)
  BY <1>14, <1>15
<1>27. ServesMostUrgent(r, x, mask)
  <2> HIDE DEF sent
  <2> QED
    BY <1>25, <1>13 DEF ServesMostUrgent, Delivers
<1> QED
  BY <1>24, <1>25, <1>26, <1>27 DEF x

(* An acknowledgement, before the write delivers.                          *)
LEMMA AcknowledgeFacts ==
  ASSUME NEW r, ControlOK(r), NEW kept
  PROVE  LET x == [RemoveInterruptByCPU(r, kept) EXCEPT !.IST = @ \cap kept] IN
         /\ ControlOK(x)
         /\ x.IST = r.IST \cap kept /\ x.AIACK = r.AIACK /\ x.sh2 = r.sh2 /\ x.dma = r.dma
         /\ Items(x.interrupts) = Items(r.interrupts) \ (r.IST \ kept)
<1> DEFINE S == kept \cup (Items(r.interrupts) \ r.IST)
           x == [RemoveInterruptByCPU(r, kept) EXCEPT !.IST = @ \cap kept]
<1>1. r \in Registers /\ QueuesOK(r)
  BY DEF ControlOK
<1>2. x = Drop(r, S, r.IST \cap kept)
  BY <1>1 DEF RemoveInterruptByCPU, Registers, Drop
<1>3. /\ r.IST \cap kept \in SUBSET Requests
      /\ ABus \cap Items(r.interrupts) \cap S \subseteq r.IST \cap kept
  BY <1>1 DEF QueuesOK, Registers
<1> HIDE DEF S, x
<1>4. /\ ControlOK(x)
      /\ x.IST = r.IST \cap kept /\ x.AIACK = r.AIACK /\ x.sh2 = r.sh2 /\ x.dma = r.dma
      /\ Items(x.interrupts) = Items(r.interrupts) \cap S
  BY <1>2, <1>3, DropFacts
<1>5. Items(r.interrupts) \cap S = Items(r.interrupts) \ (r.IST \ kept)
  BY DEF S
<1> QED
  BY <1>4, <1>5 DEF x
-------------------------------------------------------------------------------
(* A transfer under way has words left; a level that waits for a factor    *)
(* has something to start.                                                 *)
LeftOK(d) == Busy(d) => d.left \in 1 .. Flush

DmaOK(r) ==
  \A l \in DmaEnds : /\ LeftOK(r.dma[l]) /\ r.dma[l].left <= Flush
                     /\ r.dma[l].factor # "none" => r.dma[l].selected \in Transfers

IrqOK(r) == ControlOK(r) /\ DmaOK(r)

Ending(d, l) == IF d.then = "illegal" THEN "DMAIllegal" ELSE l

(* From r to x the transfer of level l goes on, or ends and is told; or it *)
(* is told and another one begins.                                         *)
Continues(r, x, l) ==
  LET d == r.dma[l]
      e == x.dma[l]
  IN /\ e.run = d.run /\ e.factor = d.factor /\ e.selected = d.selected
     /\ Busy(e) => Busy(d) /\ e.then = d.then
     /\ Busy(d) /\ ~Busy(e) => Ending(d, l) \in Told(x)
     /\ l \in Told(x) \ Told(r) => Busy(d) /\ ~Busy(e)

Begins(r, x, l) ==
  LET d == r.dma[l]
      e == x.dma[l]
  IN /\ e.run = 1 - d.run /\ e.factor = "none"
     /\ Busy(d) => Ending(d, l) \in Told(x)

LEMMA FlushWords == Flush \in Nat \ {0}
BY SMT DEF Flush

(* One slice of one level.                                                 *)
LEMMA CheckFacts ==
  ASSUME NEW r, ControlOK(r), NEW l \in DmaEnds, NEW words \in Nat \ {0},
         r.dma[l].left <= Flush
  PROVE  LET x == SucDmaCheck(r, l, words) IN
         /\ ControlOK(x) /\ Adds(r, x, Transferred)
         /\ Continues(r, x, l) /\ LeftOK(x.dma[l]) /\ x.dma[l].left <= Flush
         /\ words = Flush => ~Busy(x.dma[l])
         /\ \A k \in DmaEnds \ {l} : x.dma[k] = r.dma[k] /\ k \notin Told(x) \ Told(r)
<1> DEFINE d == r.dma[l]
           moved == SucDmaExec(d, words)
           x == SucDmaCheck(r, l, words)
<1>1. r \in Registers /\ QueuesOK(r) /\ d \in DmaLevel /\ d.left \in Int
  BY DEF ControlOK, Registers, DmaLevel
<1>2. /\ moved \in DmaLevel /\ moved.then = d.then /\ moved.run = d.run
      /\ moved.factor = d.factor /\ moved.selected = d.selected
      /\ moved.left = IF words < d.left THEN d.left - words
                      ELSE IF d.then = "overshoot" THEN -1 ELSE 0
  BY <1>1 DEF SucDmaExec, DmaLevel
<1> HIDE DEF moved
<1>3. moved.left \in Int /\ moved.left <= Flush /\ (words = Flush => moved.left <= 0)
  BY <1>1, <1>2, FlushWords
<1>4. CASE ~Busy(d)
  <2>1. x = r
    BY <1>4 DEF SucDmaCheck
  <2> HIDE DEF x
  <2> QED
    BY <1>4, <2>1 DEF Adds, Continues, LeftOK, x
<1>5. CASE Busy(d) /\ moved.left > 0
  <2>1. x = [r EXCEPT !.dma[l] = moved]
    BY <1>5 DEF SucDmaCheck, moved
  <2>2. /\ x \in Registers /\ x.IST = r.IST /\ x.AIACK = r.AIACK /\ x.sh2 = r.sh2
        /\ x.interrupts = r.interrupts
        /\ x.dma[l] = moved /\ \A k \in DmaEnds \ {l} : x.dma[k] = r.dma[k]
    BY <1>1, <1>2, <2>1 DEF Registers
  <2> HIDE DEF x
  <2>3. ControlOK(x) /\ Told(x) = Told(r)
    BY <1>1, <2>2 DEF ControlOK, QueuesOK, Told
  <2>4. Adds(r, x, Transferred)
    BY <2>2 DEF Adds
  <2>5. Busy(moved)
    BY <1>2, <1>5 DEF Busy
  <2>6. Continues(r, x, l)
    BY <1>2, <1>5, <2>2, <2>3, <2>5 DEF Continues
  <2>7. LeftOK(x.dma[l])
    BY <1>3, <1>5, <2>2, FlushWords DEF LeftOK
  <2> QED
    BY <1>3, <1>5, <2>2, <2>3, <2>4, <2>6, <2>7 DEF x
<1>6. CASE Busy(d) /\ ~(moved.left > 0)
  <2> DEFINE over == [moved EXCEPT !.then = "none"]
             y == [r EXCEPT !.dma[l] = over]
             s == Ending(d, l)
  <2>1. x = SendInterrupt(y, s)
    BY <1>6 DEF SucDmaCheck, Ending, moved
  <2>2. /\ over \in DmaLevel /\ over.then = "none" /\ over.run = d.run
        /\ over.factor = d.factor /\ over.selected = d.selected /\ over.left = moved.left
    BY <1>2 DEF DmaLevel
  <2> HIDE DEF over
  <2>3. /\ y \in Registers /\ y.IST = r.IST /\ y.AIACK = r.AIACK /\ y.sh2 = r.sh2
        /\ y.interrupts = r.interrupts
        /\ y.dma[l] = over /\ \A k \in DmaEnds \ {l} : y.dma[k] = r.dma[k]
    BY <1>1, <2>2 DEF Registers
  <2> HIDE DEF x, y, d
  <2>4. ControlOK(y)
    BY <1>1, <2>3 DEF ControlOK, QueuesOK
  <2>5. s \in Transferred /\ s \in Requests /\ (s = l \/ s = "DMAIllegal")
    <3>1. s = l \/ s = "DMAIllegal"
      BY DEF Ending
    <3> QED
      BY <3>1, LevelNumbers DEF Transferred
  <2> HIDE DEF s
  <2>6. /\ ControlOK(x) /\ x.dma = y.dma /\ Adds(y, x, {s}) /\ s \in Told(x)
    BY <2>1, <2>4, <2>5, SendFacts
  <2>7. Adds(r, x, Transferred)
    BY <2>3, <2>5, <2>6 DEF Adds
  <2>8. Told(x) \subseteq Told(r) \cup {s}
    BY <2>3, <2>6 DEF Adds, Told
  <2>9. ~Busy(x.dma[l])
    BY <2>2, <2>3, <2>6 DEF Busy
  <2>10. Continues(r, x, l)
    BY <1>6, <2>2, <2>3, <2>6, <2>9 DEF Continues, d, s
  <2>11. "DMAIllegal" \notin DmaEnds
    BY DEF DmaEnds
  <2>12. \A k \in DmaEnds \ {l} : x.dma[k] = r.dma[k] /\ k \notin Told(x) \ Told(r)
    BY <2>3, <2>5, <2>6, <2>8, <2>11
  <2> QED
    BY <1>3, <2>2, <2>3, <2>6, <2>7, <2>9, <2>10, <2>12 DEF LeftOK, x
<1> QED
  BY <1>4, <1>5, <1>6

(* What goes on goes on over two steps.                                    *)
LEMMA ContinuesTwice ==
  ASSUME NEW r, NEW x, NEW y, NEW l \in DmaEnds,
         Told(r) \cap Transferred \subseteq Told(x), Told(x) \cap Transferred \subseteq Told(y),
         Continues(r, x, l), Continues(x, y, l)
  PROVE  Continues(r, y, l)
<1>1. l \in Transferred /\ Ending(r.dma[l], l) \in Transferred
  BY DEF Transferred, Ending
<1>2. Busy(x.dma[l]) => Ending(x.dma[l], l) = Ending(r.dma[l], l)
  BY DEF Continues, Ending
<1> QED
  BY <1>1, <1>2 DEF Continues

LEMMA AddsTwice ==
  ASSUME NEW r, NEW x, NEW y, NEW S, Adds(r, x, S), Adds(x, y, S)
  PROVE  Adds(r, y, S)
BY DEF Adds

LEMMA AddsTold ==
  ASSUME NEW r, NEW x, NEW S, Adds(r, x, S)
  PROVE  Told(r) \subseteq Told(x) /\ Told(x) \subseteq Told(r) \cup S
BY DEF Adds, Told
-------------------------------------------------------------------------------
(* No level has more words left than a flush moves.                        *)
Short(r) == \A l \in DmaEnds : r.dma[l].left <= Flush

Running(r) == \A l \in DmaEnds : LeftOK(r.dma[l])

GoesOn(r, x) == \A l \in DmaEnds : Continues(r, x, l)

(* A slice of one level, as the other levels see it.                       *)
LEMMA SliceFacts ==
  ASSUME NEW r, ControlOK(r), Short(r), NEW l \in DmaEnds, NEW words \in Nat \ {0}
  PROVE  LET x == SucDmaCheck(r, l, words) IN
         /\ ControlOK(x) /\ Short(x) /\ Adds(r, x, Transferred) /\ GoesOn(r, x)
         /\ LeftOK(x.dma[l]) /\ (words = Flush => ~Busy(x.dma[l]))
         /\ \A k \in DmaEnds \ {l} : x.dma[k] = r.dma[k]
<1> DEFINE x == SucDmaCheck(r, l, words)
<1>1. r.dma[l].left <= Flush
  BY DEF Short
<1>2. /\ ControlOK(x) /\ Adds(r, x, Transferred)
      /\ Continues(r, x, l) /\ LeftOK(x.dma[l]) /\ x.dma[l].left <= Flush
      /\ words = Flush => ~Busy(x.dma[l])
      /\ \A k \in DmaEnds \ {l} : x.dma[k] = r.dma[k] /\ k \notin Told(x) \ Told(r)
  BY <1>1, CheckFacts
<1> HIDE DEF x
<1>3. ASSUME NEW k \in DmaEnds PROVE Continues(r, x, k)
  <2>1. CASE k = l
    BY <1>2, <2>1
  <2>2. CASE k # l
    <3>1. x.dma[k] = r.dma[k] /\ k \notin Told(x) \ Told(r)
      BY <1>2, <2>2
    <3> QED
      BY <3>1 DEF Continues
  <2> QED
    BY <2>1, <2>2
<1>4. GoesOn(r, x)
  BY <1>3 DEF GoesOn
<1>5. Short(x)
  <2>1. \A k \in DmaEnds : x.dma[k].left <= Flush
    BY <1>2 DEF Short
  <2> QED
    BY <2>1 DEF Short
<1> QED
  BY <1>2, <1>4, <1>5 DEF x

LEMMA GoesOnTwice ==
  ASSUME NEW r, NEW x, NEW y, NEW S, NEW T, Adds(r, x, S), Adds(x, y, T),
         GoesOn(r, x), GoesOn(x, y)
  PROVE  GoesOn(r, y)
<1>1. Told(r) \subseteq Told(x) /\ Told(x) \subseteq Told(y)
  BY AddsTold
<1>2. /\ Told(r) \cap Transferred \subseteq Told(x)
      /\ Told(x) \cap Transferred \subseteq Told(y)
  BY <1>1
<1>3. ASSUME NEW l \in DmaEnds PROVE Continues(r, y, l)
  <2>1. Continues(r, x, l) /\ Continues(x, y, l)
    BY DEF GoesOn
  <2> QED
    BY <1>2, <2>1, ContinuesTwice
<1> QED
  BY <1>3 DEF GoesOn

(* A slice of all levels; the words of a flush finish them.                *)
LEMMA ProcFacts ==
  ASSUME NEW r, ControlOK(r), Short(r), NEW words \in Nat \ {0}
  PROVE  LET x == ScuDmaProc(r, words) IN
         /\ ControlOK(x) /\ Short(x) /\ Running(x)
         /\ Adds(r, x, Transferred) /\ GoesOn(r, x)
         /\ words = Flush => \A l \in DmaEnds : ~Busy(x.dma[l])
<1> DEFINE a == SucDmaCheck(r, "DMA0End", words)
           b == SucDmaCheck(a, "DMA1End", words)
           x == SucDmaCheck(b, "DMA2End", words)
<1>1. x = ScuDmaProc(r, words)
  BY DEF ScuDmaProc
<1>2. "DMA0End" \in DmaEnds /\ "DMA1End" \in DmaEnds /\ "DMA2End" \in DmaEnds
      /\ \A l \in DmaEnds : l = "DMA0End" \/ l = "DMA1End" \/ l = "DMA2End"
  BY DEF DmaEnds
<1>3. /\ ControlOK(a) /\ Short(a) /\ Adds(r, a, Transferred) /\ GoesOn(r, a)
      /\ LeftOK(a.dma["DMA0End"]) /\ (words = Flush => ~Busy(a.dma["DMA0End"]))
      /\ \A k \in DmaEnds \ {"DMA0End"} : a.dma[k] = r.dma[k]
  BY <1>2, SliceFacts
<1> HIDE DEF a
<1>4. /\ ControlOK(b) /\ Short(b) /\ Adds(a, b, Transferred) /\ GoesOn(a, b)
      /\ LeftOK(b.dma["DMA1End"]) /\ (words = Flush => ~Busy(b.dma["DMA1End"]))
      /\ \A k \in DmaEnds \ {"DMA1End"} : b.dma[k] = a.dma[k]
  BY <1>2, <1>3, SliceFacts
<1> HIDE DEF b
<1>5. /\ ControlOK(x) /\ Short(x) /\ Adds(b, x, Transferred) /\ GoesOn(b, x)
      /\ LeftOK(x.dma["DMA2End"]) /\ (words = Flush => ~Busy(x.dma["DMA2End"]))
      /\ \A k \in DmaEnds \ {"DMA2End"} : x.dma[k] = b.dma[k]
  BY <1>2, <1>4, SliceFacts
<1> HIDE DEF x
<1>6. Adds(r, b, Transferred) /\ GoesOn(r, b)
  BY <1>3, <1>4, AddsTwice, GoesOnTwice
<1>7. Adds(r, x, Transferred) /\ GoesOn(r, x)
  BY <1>5, <1>6, AddsTwice, GoesOnTwice
<1>8. /\ x.dma["DMA0End"] = a.dma["DMA0End"]
      /\ x.dma["DMA1End"] = b.dma["DMA1End"]
  BY <1>2, <1>4, <1>5
<1>9. Running(x)
  BY <1>2, <1>3, <1>4, <1>5, <1>8 DEF Running
<1>10. ASSUME words = Flush, NEW l \in DmaEnds PROVE ~Busy(x.dma[l])
  BY <1>2, <1>3, <1>4, <1>5, <1>8, <1>10
<1> QED
  BY <1>1, <1>5, <1>7, <1>9, <1>10

(* What the registers describe is a transfer that a flush finishes.        *)
LEMMA StartedFacts ==
  ASSUME NEW d \in DmaLevel, NEW t \in Transfers
  PROVE  /\ Started(d, t) \in DmaLevel /\ Started(d, t).left <= Flush
         /\ Started(d, t).run = 1 - d.run /\ Started(d, t).factor = "none"
<1>1. t \in Transfer
  BY DmaAssumption
<1>2. t.words \in Int /\ t.words <= Flush /\ t.then \in {"none", "end", "overshoot", "illegal"}
  BY <1>1, FlushWords DEF Transfer
<1>3. 1 - d.run \in 0 .. 1
  BY DEF DmaLevel
<1> QED
  BY <1>2, <1>3 DEF Started, DmaLevel

(* A level is not put down before its transfer is told: the start of       *)
(* another one flushes it first.                                           *)
LEMMA StartFacts ==
  ASSUME NEW r, IrqOK(r), NEW l \in DmaEnds, NEW t \in Transfers, NEW flush,
         Busy(r.dma[l]) => flush
  PROVE  LET x == Start(r, l, t, flush) IN
         /\ IrqOK(x) /\ Adds(r, x, Transferred) /\ Begins(r, x, l)
         /\ \A k \in DmaEnds \ {l} : Continues(r, x, k)
<1> DEFINE f == IF flush THEN ScuDmaProc(r, Flush) ELSE r
           d == Started(f.dma[l], t)
           s == [f EXCEPT !.dma[l] = d]
           x == ScuDmaProc(s, StartWords)
<1>1. x = Start(r, l, t, flush)
  BY DEF Start
<1>2. ControlOK(r) /\ DmaOK(r) /\ Short(r) /\ Running(r)
  <2>1. ControlOK(r) /\ DmaOK(r)
    BY DEF IrqOK
  <2> QED
    BY <2>1 DEF DmaOK, Running, Short
<1>3. /\ ControlOK(f) /\ Short(f) /\ Running(f) /\ Adds(r, f, Transferred) /\ GoesOn(r, f)
      /\ ~Busy(f.dma[l])
  <2>1. CASE flush
    <3> DEFINE y == ScuDmaProc(r, Flush)
    <3>1. /\ ControlOK(y) /\ Short(y) /\ Running(y) /\ Adds(r, y, Transferred) /\ GoesOn(r, y)
          /\ Flush = Flush => \A k \in DmaEnds : ~Busy(y.dma[k])
      BY ONLY <1>2, FlushWords, ProcFacts
    <3> HIDE DEF y
    <3>2. f = y
      BY <2>1 DEF y
    <3> QED
      BY <3>1, <3>2
  <2>2. CASE ~flush
    <3>1. f = r
      BY <2>2
    <3>2. Adds(r, r, Transferred) /\ GoesOn(r, r)
      BY DEF Adds, GoesOn, Continues
    <3> QED
      BY <1>2, <2>2, <3>1, <3>2
  <2> QED
    BY <2>1, <2>2
<1> HIDE DEF f
<1>4. f \in Registers /\ QueuesOK(f) /\ f.dma[l] \in DmaLevel
  BY <1>3 DEF ControlOK, Registers
<1>5. d \in DmaLevel /\ d.left <= Flush /\ d.run = 1 - f.dma[l].run /\ d.factor = "none"
  BY <1>4, StartedFacts
<1> HIDE DEF d
<1>6. /\ s \in Registers /\ s.IST = f.IST /\ s.AIACK = f.AIACK /\ s.sh2 = f.sh2
      /\ s.interrupts = f.interrupts
      /\ s.dma[l] = d /\ \A k \in DmaEnds \ {l} : s.dma[k] = f.dma[k]
  BY <1>4, <1>5 DEF Registers
<1> HIDE DEF s
<1>7. ControlOK(s) /\ Short(s) /\ Told(s) = Told(f)
  BY <1>3, <1>4, <1>5, <1>6 DEF ControlOK, QueuesOK, Short, Told
<1>8. StartWords \in Nat \ {0}
  BY DmaAssumption
<1>9. /\ ControlOK(x) /\ Short(x) /\ Running(x)
      /\ Adds(s, x, Transferred) /\ GoesOn(s, x)
  BY ONLY <1>7, <1>8, ProcFacts
<1> HIDE DEF x
<1>10. Adds(r, x, Transferred)
  BY <1>3, <1>6, <1>9 DEF Adds
<1>11. Told(r) \subseteq Told(f) /\ Told(f) \subseteq Told(x)
  BY <1>3, <1>7, <1>9, AddsTold
<1>12. ASSUME NEW k \in DmaEnds \ {l} PROVE Continues(r, x, k)
  <2>1. Continues(r, f, k) /\ Continues(s, x, k)
    BY <1>3, <1>9 DEF GoesOn
  <2>2. Continues(f, x, k)
    BY <1>6, <1>7, <2>1 DEF Continues
  <2> QED
    BY <1>11, <2>1, <2>2, ContinuesTwice
<1>13. Begins(r, x, l)
  <2>1. Continues(r, f, l) /\ Continues(s, x, l)
    BY <1>3, <1>9 DEF GoesOn
  <2>2. x.dma[l].run = d.run /\ x.dma[l].factor = "none" /\ f.dma[l].run = r.dma[l].run
    BY <1>5, <1>6, <2>1 DEF Continues
  <2>3. Busy(r.dma[l]) => Ending(r.dma[l], l) \in Told(x)
    BY <1>3, <1>11, <2>1 DEF Continues
  <2> QED
    BY <1>5, <2>2, <2>3 DEF Begins
<1>14. DmaOK(x)
  <2>1. ASSUME NEW k \in DmaEnds, x.dma[k].factor # "none" PROVE x.dma[k].selected \in Transfers
    <3>1. k # l
      BY <1>13, <2>1 DEF Begins
    <3>2. Continues(r, x, k)
      BY <1>12, <3>1
    <3> QED
      BY <1>2, <2>1, <3>2 DEF Continues, DmaOK
  <2> QED
    BY <1>9, <2>1 DEF DmaOK, Running, Short
<1> QED
  BY <1>1, <1>9, <1>10, <1>12, <1>13, <1>14 DEF IrqOK
-------------------------------------------------------------------------------
(* What a chain of handlers may do from r to x: it adds requests of A, it  *)
(* withdraws requests of W, and a level for whose factor it is the request *)
(* starts at most once.                                                    *)
Moves(r, x, A, W) ==
  /\ Items(x.interrupts) \subseteq Items(r.interrupts) \cup A
  /\ Items(r.interrupts) \subseteq Items(x.interrupts) \cup W
  /\ Items(x.sh2["MSH2"]) \subseteq Items(r.sh2["MSH2"]) \cup A
  /\ Items(r.sh2["MSH2"]) \subseteq Items(x.sh2["MSH2"]) \cup W
  /\ x.IST \subseteq r.IST \cup A
  /\ x.AIACK => r.AIACK
  /\ \A l \in DmaEnds : Continues(r, x, l) \/ (r.dma[l].factor # "none" /\ Begins(r, x, l))

LEMMA MovesMore ==
  ASSUME NEW r, NEW x, NEW A, NEW W, NEW B, NEW V, Moves(r, x, A, W), A \subseteq B, W \subseteq V
  PROVE  Moves(r, x, B, V)
BY DEF Moves

LEMMA MovesTwice ==
  ASSUME NEW r, NEW x, NEW y, NEW A, NEW W, Moves(r, x, A, W), Moves(x, y, A, W),
         W \cap Transferred = {}
  PROVE  Moves(r, y, A, W)
<1>1. Told(r) \cap Transferred \subseteq Told(x) /\ Told(x) \cap Transferred \subseteq Told(y)
  BY DEF Moves, Told
<1>2. ASSUME NEW l \in DmaEnds
      PROVE  Continues(r, y, l) \/ (r.dma[l].factor # "none" /\ Begins(r, y, l))
  <2>1. /\ Continues(r, x, l) \/ (r.dma[l].factor # "none" /\ Begins(r, x, l))
        /\ Continues(x, y, l) \/ (x.dma[l].factor # "none" /\ Begins(x, y, l))
    BY DEF Moves
  <2>2. Ending(r.dma[l], l) \in Transferred
    BY DEF Transferred, Ending
  <2>3. CASE Continues(r, x, l) /\ Continues(x, y, l)
    BY <1>1, <2>3, ContinuesTwice
  <2>4. CASE Continues(r, x, l) /\ x.dma[l].factor # "none" /\ Begins(x, y, l)
    <3>1. Busy(r.dma[l]) => Ending(r.dma[l], l) \in Told(y)
      <4>1. CASE Busy(x.dma[l])
        <5>1. Ending(x.dma[l], l) = Ending(r.dma[l], l)
          BY <2>4, <4>1 DEF Continues, Ending
        <5> QED
          BY <2>4, <4>1, <5>1 DEF Begins
      <4>2. CASE ~Busy(x.dma[l])
        BY <1>1, <2>2, <2>4, <4>2 DEF Continues
      <4> QED
        BY <4>1, <4>2
    <3> QED
      BY <2>4, <3>1 DEF Continues, Begins
  <2>5. CASE r.dma[l].factor # "none" /\ Begins(r, x, l) /\ Continues(x, y, l)
    BY <1>1, <2>2, <2>5 DEF Continues, Begins
  <2>6. CASE Begins(r, x, l) /\ x.dma[l].factor # "none"
    BY <2>6 DEF Begins
  <2> QED
    BY <2>1, <2>3, <2>4, <2>5, <2>6
<1> QED
  BY <1>2 DEF Moves

(* A request of a device or of the scanlines.                              *)
LEMMA SentMoves ==
  ASSUME NEW r, IrqOK(r), NEW s \in Requests \ Transferred
  PROVE  LET x == SendInterrupt(r, s) IN
         /\ IrqOK(x) /\ Moves(r, x, {s}, {}) /\ s \in Told(x)
         /\ s \in ABus \cap (Items(x.sh2["MSH2"]) \ Items(r.sh2["MSH2"])) => ~x.AIACK
<1> DEFINE x == SendInterrupt(r, s)
<1>1. ControlOK(r) /\ DmaOK(r)
  BY DEF IrqOK
<1>2. /\ ControlOK(x) /\ x.dma = r.dma
      /\ Adds(r, x, {s}) /\ s \in Told(x)
      /\ s \in ABus \cap (Items(x.sh2["MSH2"]) \ Items(r.sh2["MSH2"])) => ~x.AIACK
  BY ONLY <1>1, s \in Requests, SendFacts
<1> HIDE DEF x
<1>3. Told(x) \subseteq Told(r) \cup {s}
  BY <1>2, AddsTold
<1>4. ASSUME NEW l \in DmaEnds PROVE Continues(r, x, l)
  BY <1>2, <1>3 DEF Continues, Transferred
<1>5. Moves(r, x, {s}, {})
  BY <1>2, <1>4 DEF Moves, Adds
<1>6. IrqOK(x)
  BY <1>1, <1>2 DEF IrqOK, DmaOK
<1> QED
  BY <1>2, <1>5, <1>6 DEF x

LEMMA RetractMoves ==
  ASSUME NEW r, IrqOK(r), NEW s \in Requests \ Transferred, NEW cpus
  PROVE  LET x == Retract(r, s, cpus) IN IrqOK(x) /\ Moves(r, x, {}, {s})
<1> DEFINE x == Retract(r, s, cpus)
<1>1. ControlOK(r) /\ DmaOK(r)
  BY DEF IrqOK
<1>2. ControlOK(x) /\ Withdraws(r, x, s, cpus)
  BY <1>1, RetractFacts
<1> HIDE DEF x
<1>3. Told(x) \subseteq Told(r)
  BY <1>2 DEF Told, Withdraws
<1>4. ASSUME NEW l \in DmaEnds PROVE Continues(r, x, l)
  BY <1>2, <1>3 DEF Continues, Withdraws
<1>5. Moves(r, x, {}, {s})
  BY <1>2, <1>4 DEF Moves, Withdraws
<1>6. IrqOK(x)
  BY <1>1, <1>2 DEF IrqOK, DmaOK, Withdraws
<1> QED
  BY <1>5, <1>6 DEF x

(* Waiting(r, s): a request of s waits somewhere.                          *)
Waiting(r, s) == s \in r.IST \cup Told(r)

LEMMA RemoveTimerMoves ==
  ASSUME NEW r, IrqOK(r), NEW s \in Requests \ (ABus \cup Transferred)
  PROVE  LET x == RemoveTimer(r, s) IN IrqOK(x) /\ Moves(r, x, {}, {s}) /\ ~Waiting(x, s)
<1> DEFINE x == RemoveTimer(r, s)
<1>1. ControlOK(r) /\ DmaOK(r)
  BY DEF IrqOK
<1>2. /\ ControlOK(x)
      /\ x.IST = r.IST \ {s} /\ x.AIACK = r.AIACK /\ x.dma = r.dma
      /\ Items(x.interrupts) = Items(r.interrupts) \ {s}
      /\ Items(x.sh2["MSH2"]) = Items(r.sh2["MSH2"]) \ {s}
  BY ONLY <1>1, s \in Requests \ (ABus \cup Transferred), RemoveTimerFacts
<1> HIDE DEF x
<1>3. Told(x) \subseteq Told(r)
  BY <1>2 DEF Told
<1>4. ASSUME NEW l \in DmaEnds PROVE Continues(r, x, l)
  BY <1>2, <1>3 DEF Continues
<1>5. Moves(r, x, {}, {s})
  BY <1>2, <1>4 DEF Moves
<1>6. IrqOK(x)
  BY <1>1, <1>2 DEF IrqOK, DmaOK
<1>7. ~Waiting(x, s)
  BY <1>2 DEF Waiting, Told
<1> QED
  BY <1>5, <1>6, <1>7 DEF x

(* The DMA levels in ScuExec.                                              *)
LEMMA ProcMoves ==
  ASSUME NEW r, IrqOK(r), NEW words \in Nat \ {0}
  PROVE  LET x == ScuDmaProc(r, words) IN IrqOK(x) /\ Moves(r, x, Transferred, {})
<1> DEFINE x == ScuDmaProc(r, words)
<1>1. ControlOK(r) /\ DmaOK(r)
  BY DEF IrqOK
<1>2. Short(r)
  BY <1>1 DEF DmaOK, Short
<1>3. /\ ControlOK(x) /\ Short(x) /\ Running(x)
      /\ Adds(r, x, Transferred) /\ GoesOn(r, x)
  BY ONLY <1>1, <1>2, words \in Nat \ {0}, ProcFacts
<1> HIDE DEF x
<1>4. ASSUME NEW l \in DmaEnds, x.dma[l].factor # "none" PROVE x.dma[l].selected \in Transfers
  BY <1>1, <1>3, <1>4 DEF GoesOn, Continues, DmaOK
<1>5. DmaOK(x)
  BY <1>3, <1>4 DEF DmaOK, Short, Running
<1>6. Moves(r, x, Transferred, {})
  BY <1>3 DEF Moves, Adds, GoesOn
<1> QED
  BY <1>3, <1>5, <1>6 DEF IrqOK, x

LEMMA StartIfWaitingMoves ==
  ASSUME NEW r, IrqOK(r), NEW l \in DmaEnds, NEW s, s # "none"
  PROVE  LET x == StartIfWaiting(r, l, s) IN IrqOK(x) /\ Moves(r, x, Transferred, {})
<1> DEFINE x == StartIfWaiting(r, l, s)
<1>1. DmaOK(r) /\ r.dma[l] \in DmaLevel
  BY DEF IrqOK, ControlOK, Registers
<1>2. CASE r.dma[l].factor = s
  <2> DEFINE t == r.dma[l].selected
             flush == r.dma[l].left > 0
             y == Start(r, l, t, flush)
  <2>1. x = y
    BY <1>2 DEF StartIfWaiting
  <2>2. t \in Transfers /\ (Busy(r.dma[l]) => flush)
    <3>1. Busy(r.dma[l]) => r.dma[l].left \in 1 .. Flush
      BY <1>1 DEF DmaOK, LeftOK
    <3> QED
      BY <1>1, <1>2, <3>1, FlushWords DEF DmaOK
  <2> HIDE DEF t, flush, x
  <2>3. /\ IrqOK(y) /\ Adds(r, y, Transferred) /\ Begins(r, y, l)
        /\ \A k \in DmaEnds \ {l} : Continues(r, y, k)
    BY <2>2, StartFacts
  <2> HIDE DEF y
  <2>4. r.dma[l].factor # "none"
    BY <1>2
  <2>5. ASSUME NEW k \in DmaEnds
        PROVE  Continues(r, y, k) \/ (r.dma[k].factor # "none" /\ Begins(r, y, k))
    BY <2>3, <2>4
  <2>6. Moves(r, y, Transferred, {})
    BY <2>3, <2>5 DEF Moves, Adds
  <2> QED
    BY <2>1, <2>3, <2>6 DEF x
<1>3. CASE r.dma[l].factor # s
  <2>1. x = r
    BY <1>3 DEF StartIfWaiting
  <2>2. Moves(r, r, Transferred, {})
    BY DEF Moves, Continues
  <2> QED
    BY <2>1, <2>2
<1> QED
  BY <1>2, <1>3

LEMMA ChekMoves ==
  ASSUME NEW r, IrqOK(r), NEW s \in Sources
  PROVE  LET x == ScuChekIntrruptDMA(r, s) IN IrqOK(x) /\ Moves(r, x, Transferred, {})
<1> DEFINE a == StartIfWaiting(r, "DMA0End", s)
           b == StartIfWaiting(a, "DMA1End", s)
           x == StartIfWaiting(b, "DMA2End", s)
<1>1. x = ScuChekIntrruptDMA(r, s)
  BY DEF ScuChekIntrruptDMA
<1>2. "DMA0End" \in DmaEnds /\ "DMA1End" \in DmaEnds /\ "DMA2End" \in DmaEnds
  BY DEF DmaEnds
<1>3. s # "none"
  BY DEF Sources, Level
<1>4. IrqOK(a) /\ Moves(r, a, Transferred, {})
  BY <1>2, <1>3, StartIfWaitingMoves
<1> HIDE DEF a
<1>5. IrqOK(b) /\ Moves(a, b, Transferred, {})
  BY <1>2, <1>3, <1>4, StartIfWaitingMoves
<1> HIDE DEF b
<1>6. IrqOK(x) /\ Moves(b, x, Transferred, {})
  BY <1>2, <1>3, <1>5, StartIfWaitingMoves
<1> HIDE DEF x
<1>7. Moves(r, b, Transferred, {})
  BY <1>4, <1>5, MovesTwice
<1>8. Moves(r, x, Transferred, {})
  BY <1>6, <1>7, MovesTwice
<1> QED
  BY <1>1, <1>6, <1>8

(* A request with the DMA levels that it starts: of the A-bus, and of all  *)
(* but the DMA, the only new request is its own.                           *)
LEMMA SendAndStartMoves ==
  ASSUME NEW r, IrqOK(r), NEW s \in Requests \ Transferred
  PROVE  LET x == SendAndStart(r, s) IN
         /\ IrqOK(x) /\ Moves(r, x, {s} \cup Transferred, {}) /\ s \in Told(x)
         /\ s \in ABus \cap (Items(x.sh2["MSH2"]) \ Items(r.sh2["MSH2"])) => ~x.AIACK
<1> DEFINE y == SendInterrupt(r, s)
           x == ScuChekIntrruptDMA(y, s)
<1>1. x = SendAndStart(r, s)
  BY DEF SendAndStart
<1>2. s \in Sources
  BY DEF Requests
<1>3. /\ IrqOK(y) /\ Moves(r, y, {s}, {}) /\ s \in Told(y)
      /\ s \in ABus \cap (Items(y.sh2["MSH2"]) \ Items(r.sh2["MSH2"])) => ~y.AIACK
  BY SentMoves
<1> HIDE DEF y
<1>4. IrqOK(x) /\ Moves(y, x, Transferred, {})
  BY <1>2, <1>3, ChekMoves
<1> HIDE DEF x
<1>5. Moves(r, y, {s} \cup Transferred, {}) /\ Moves(y, x, {s} \cup Transferred, {})
  BY <1>3, <1>4, MovesMore
<1>6. Moves(r, x, {s} \cup Transferred, {})
  BY <1>5, MovesTwice
<1>7. s \in Told(x)
  BY <1>3, <1>4 DEF Moves, Told
<1>8. s \in ABus \cap (Items(x.sh2["MSH2"]) \ Items(r.sh2["MSH2"])) => ~x.AIACK
  BY <1>3, <1>4 DEF Moves
<1> QED
  BY <1>1, <1>4, <1>6, <1>7, <1>8
-------------------------------------------------------------------------------
(* A CPU takes the end of its queue, the most urgent request.              *)
LEMMA TakeQueue ==
  ASSUME NEW A, NEW q, QueueOK(q, A), q # <<>>
  PROVE  LET n == Len(q)
             x == SubSeq(q, 1, n - 1)
         IN /\ QueueOK(x, A) /\ q[n] \in Items(q) /\ q[n] \in A
            /\ Items(x) = Items(q) \ {q[n]}
            /\ \A level : Sorted(q, level) => Sorted(x, level)
            /\ \A level : Sorted(q, level) /\ Levelled(A, level) =>
                  \A t \in Items(q) : level[t] <= level[q[n]]
<1> DEFINE n == Len(q)
           x == SubSeq(q, 1, n - 1)
<1>1. q \in Seq(A) /\ n \in Nat \ {0} /\ DOMAIN q = 1 .. n /\ \A i \in 1 .. n : q[i] \in A
  BY DEF QueueOK
<1>2. /\ x \in Seq(A) /\ Len(x) = n - 1 /\ DOMAIN x = 1 .. n - 1
      /\ \A i \in 1 .. n - 1 : x[i] = q[i]
  BY <1>1
<1> HIDE DEF n, x
<1>3. \A i, j \in 1 .. n : q[i] = q[j] => i = j
  BY <1>1 DEF QueueOK
<1>4. QueueOK(x, A)
  BY <1>1, <1>2, <1>3 DEF QueueOK
<1>5. Items(x) = Items(q) \ {q[n]}
  <2>1. ASSUME NEW i \in 1 .. n - 1 PROVE x[i] \in Items(q) \ {q[n]}
    BY <1>1, <1>2, <1>3 DEF Items
  <2>2. ASSUME NEW i \in 1 .. n, q[i] # q[n] PROVE q[i] \in Items(x)
    <3>1. i \in 1 .. n - 1
      BY <1>1, <2>2
    <3> QED
      BY <1>2, <3>1 DEF Items
  <2> QED
    BY <1>1, <1>2, <2>1, <2>2 DEF Items
<1>6. ASSUME NEW level, Sorted(q, level) PROVE Sorted(x, level)
  BY <1>1, <1>2, <1>6 DEF Sorted
<1>7. ASSUME NEW level, Sorted(q, level), Levelled(A, level), NEW t \in Items(q)
      PROVE  level[t] <= level[q[n]]
  <2>1. PICK i \in 1 .. n : t = q[i]
    BY <1>1 DEF Items
  <2>2. level[q[i]] \in Int
    BY <1>1, <1>7 DEF Levelled
  <2> QED
    BY <1>1, <1>7, <2>1, <2>2 DEF Sorted
<1>8. q[n] \in Items(q) /\ q[n] \in A
  BY <1>1 DEF Items
<1> QED
  BY <1>4, <1>5, <1>6, <1>7, <1>8 DEF n, x

(* Emptied(r, x, c, s): s has left the queue of the CPU c.                 *)
Emptied(r, x, c, s) ==
  /\ x.IST = r.IST /\ x.AIACK = r.AIACK /\ x.interrupts = r.interrupts /\ x.dma = r.dma
  /\ Items(x.sh2["MSH2"]) =
       IF c = "MSH2" THEN Items(r.sh2["MSH2"]) \ {s} ELSE Items(r.sh2["MSH2"])

LEMMA TakeFacts ==
  ASSUME NEW r, IrqOK(r), NEW c \in Cpus, r.sh2[c] # <<>>
  PROVE  LET q == r.sh2[c]
             top == q[Len(q)]
             x == [r EXCEPT !.sh2[c] = SubSeq(q, 1, Len(q) - 1)]
         IN /\ IrqOK(x) /\ Emptied(r, x, c, top) /\ top \in Items(q)
            /\ top \in Sources /\ (c = "SSH2" => top \in DOMAIN SlaveLevel)
            /\ c = "MSH2" => \A t \in Items(q) : Level[t] <= Level[top]
<1> DEFINE q == r.sh2[c]
           top == q[Len(q)]
           rest == SubSeq(q, 1, Len(q) - 1)
           x == [r EXCEPT !.sh2[c] = rest]
           A == IF c = "MSH2" THEN Sources ELSE DOMAIN SlaveLevel
           level == IF c = "MSH2" THEN Level ELSE SlaveLevel
<1>1. r \in Registers /\ QueuesOK(r) /\ DmaOK(r)
  BY DEF IrqOK, ControlOK
<1>2. "MSH2" \in Cpus /\ "SSH2" \in Cpus /\ (c = "MSH2" \/ c = "SSH2") /\ "MSH2" # "SSH2"
  BY DEF Cpus
<1>3. QueueOK(q, A) /\ Sorted(q, level) /\ Levelled(A, level) /\ A \subseteq Sources
  BY <1>1, <1>2, LevelNumbers DEF QueuesOK, Requests
<1> HIDE DEF A, level
<1>4. /\ QueueOK(rest, A) /\ top \in Items(q) /\ top \in A
      /\ Items(rest) = Items(q) \ {top} /\ Sorted(rest, level)
      /\ \A t \in Items(q) : level[t] <= level[top]
  <2> HIDE DEF q
  <2>1. q # <<>>
    BY DEF q
  <2> QED
    BY <1>3, <2>1, TakeQueue
<1> HIDE DEF rest, top
<1>5. rest \in Seq(Sources)
  BY <1>3, <1>4 DEF QueueOK
<1>6. /\ x \in Registers /\ x.IST = r.IST /\ x.AIACK = r.AIACK /\ x.interrupts = r.interrupts
      /\ x.dma = r.dma /\ x.sh2[c] = rest
      /\ \A k \in Cpus \ {c} : x.sh2[k] = r.sh2[k]
  BY <1>1, <1>5 DEF Registers
<1> HIDE DEF x
<1>7. CASE c = "MSH2"
  <2>1. A = Sources /\ level = Level
    BY <1>7 DEF A, level
  <2>2. x.sh2["MSH2"] = rest /\ x.sh2["SSH2"] = r.sh2["SSH2"]
    BY <1>2, <1>6, <1>7
  <2>3. QueuesOK(x)
    BY <1>1, <1>4, <1>6, <2>1, <2>2 DEF QueuesOK
  <2>4. Emptied(r, x, c, top)
    BY <1>4, <1>6, <1>7, <2>2 DEF Emptied, q
  <2> QED
    BY <1>1, <1>2, <1>4, <1>6, <1>7, <2>1, <2>3, <2>4
       DEF IrqOK, ControlOK, DmaOK, x, q, top, rest
<1>8. CASE c = "SSH2"
  <2>1. A = DOMAIN SlaveLevel /\ level = SlaveLevel
    BY <1>2, <1>8 DEF A, level
  <2>2. x.sh2["SSH2"] = rest /\ x.sh2["MSH2"] = r.sh2["MSH2"]
    BY <1>2, <1>6, <1>8
  <2>3. QueuesOK(x)
    BY <1>1, <1>4, <1>6, <2>1, <2>2 DEF QueuesOK
  <2>4. Emptied(r, x, c, top)
    BY <1>6, <1>8, <2>2 DEF Emptied
  <2> QED
    BY <1>1, <1>2, <1>3, <1>4, <1>6, <1>8, <2>1, <2>3, <2>4
       DEF IrqOK, ControlOK, DmaOK, x, q, top, rest
<1> QED
  BY <1>2, <1>7, <1>8

(* The writes that only select what a level waits for.                     *)
LEMMA SelectFacts ==
  ASSUME NEW r, IrqOK(r), NEW l \in DmaEnds, NEW f \in Factors \cup {"none"}, NEW t \in Transfers
  PROVE  LET x == Select(r, l, f, t) IN
         /\ IrqOK(x) /\ x.IST = r.IST /\ x.AIACK = r.AIACK /\ x.sh2 = r.sh2
         /\ x.interrupts = r.interrupts
         /\ \A k \in DmaEnds : x.dma[k].then = r.dma[k].then /\ x.dma[k].run = r.dma[k].run
<1> DEFINE chosen == IF f = "none" THEN Nothing ELSE t
           d == [r.dma[l] EXCEPT !.factor = f, !.selected = chosen]
           x == [r EXCEPT !.dma = [r.dma EXCEPT ![l] = d]]
<1>1. r \in Registers /\ QueuesOK(r) /\ DmaOK(r) /\ r.dma[l] \in DmaLevel
      /\ r.dma \in [DmaEnds -> DmaLevel]
  BY DEF IrqOK, ControlOK, Registers
<1>2. Select(r, l, f, t) = x
  BY <1>1 DEF Select, Registers, DmaLevel
<1>3. chosen \in Transfers \cup {Nothing} /\ (f # "none" => chosen \in Transfers)
  OBVIOUS
<1> HIDE DEF chosen
<1>4. /\ d \in DmaLevel /\ d.left = r.dma[l].left /\ d.then = r.dma[l].then
      /\ d.run = r.dma[l].run /\ d.factor = f /\ d.selected = chosen
  BY <1>1, <1>3 DEF DmaLevel
<1> HIDE DEF d
<1>5. /\ x \in Registers /\ x.IST = r.IST /\ x.AIACK = r.AIACK /\ x.sh2 = r.sh2
      /\ x.interrupts = r.interrupts
      /\ x.dma[l] = d /\ \A k \in DmaEnds \ {l} : x.dma[k] = r.dma[k]
  BY <1>1, <1>4 DEF Registers
<1> HIDE DEF x
<1>6. QueuesOK(x)
  BY <1>1, <1>5 DEF QueuesOK
<1>7. DmaOK(x)
  BY <1>1, <1>3, <1>4, <1>5 DEF DmaOK, LeftOK, Busy
<1>8. \A k \in DmaEnds : x.dma[k].then = r.dma[k].then /\ x.dma[k].run = r.dma[k].run
  BY <1>4, <1>5
<1> QED
  BY <1>2, <1>5, <1>6, <1>7, <1>8 DEF IrqOK, ControlOK

(* An empty queue, and one that holds the NMI.                             *)
LEMMA EmptyQueue ==
  ASSUME NEW A, NEW level
  PROVE  QueueOK(<<>>, A) /\ Sorted(<<>>, level) /\ Items(<<>>) = {}
BY DEF QueueOK, Sorted, Items

(* A queue without duplicates is not longer than there are sources.        *)
LEMMA QueueFits ==
  ASSUME NEW q, QueueOK(q, Sources)
  PROVE  Len(q) <= 16
<1> DEFINE n == Len(q)
           number == [VBlankIN |-> 1, VBlankOUT |-> 2, HBlankIN |-> 3, Timer0 |-> 4,
                      Timer1 |-> 5, DSPEnd |-> 6, SoundRequest |-> 7, SystemManager |-> 8,
                      DMA2End |-> 9, DMA1End |-> 10, DMA0End |-> 11, DMAIllegal |-> 12,
                      DrawEnd |-> 13, External00 |-> 14, External12 |-> 15, NMI |-> 16]
           f == [i \in 1 .. n |-> number[q[i]]]
<1>1. n \in Nat /\ DOMAIN q = 1 .. n /\ \A i \in 1 .. n : q[i] \in Sources
  BY DEF QueueOK
<1>2. /\ \A s \in Sources : number[s] \in 1 .. 16
      /\ \A s, t \in Sources : number[s] = number[t] => s = t
  BY DEF Sources, Level
<1>3. \A i, j \in 1 .. n : q[i] = q[j] => i = j
  BY <1>1 DEF QueueOK
<1> HIDE DEF n, number
<1>4. f \in [1 .. n -> 1 .. 16]
  BY <1>1, <1>2
<1>5. \A i, j \in 1 .. n : f[i] = f[j] => i = j
  BY <1>1, <1>2, <1>3
<1>6. /\ IsFiniteSet(1 .. n) /\ Cardinality(1 .. n) = n
      /\ IsFiniteSet(1 .. 16) /\ Cardinality(1 .. 16) = 16
  <2>1. 1 \in Int /\ n \in Int /\ 16 \in Int /\ (1 > n => n = 0)
    BY <1>1
  <2>2. IsFiniteSet(1 .. n) /\ Cardinality(1 .. n) = IF 1 > n THEN 0 ELSE n - 1 + 1
    BY ONLY <2>1, FS_Interval
  <2>3. IsFiniteSet(1 .. 16) /\ Cardinality(1 .. 16) = IF 1 > 16 THEN 0 ELSE 16 - 1 + 1
    BY ONLY <2>1, FS_Interval
  <2>4. (IF 1 > n THEN 0 ELSE n - 1 + 1) = n /\ (IF 1 > 16 THEN 0 ELSE 16 - 1 + 1) = 16
    BY <1>1
  <2> QED
    BY <2>2, <2>3, <2>4
<1> HIDE DEF f
<1>7. ~(Cardinality(1 .. 16) < Cardinality(1 .. n))
  <2>1. SUFFICES ASSUME Cardinality(1 .. 16) < Cardinality(1 .. n) PROVE FALSE
    OBVIOUS
  <2>2. \E i, j \in 1 .. n : i # j /\ f[i] = f[j]
    <3> DEFINE S == 1 .. n
               T == 1 .. 16
    <3>1. IsFiniteSet(S) /\ IsFiniteSet(T) /\ Cardinality(T) < Cardinality(S) /\ f \in [S -> T]
      BY <1>4, <1>6, <2>1
    <3> HIDE DEF S, T
    <3>2. \E i, j \in S : i # j /\ f[i] = f[j]
      BY ONLY <3>1, FS_PigeonHole
    <3> QED
      BY <3>2 DEF S
  <2> QED
    BY <1>5, <2>2
<1> QED
  BY <1>1, <1>6, <1>7 DEF n
===============================================================================
