--------------------------- MODULE SoundStreamProofs ---------------------------
(***************************************************************************)
(* The sound path implements SoundStream, for every block length, buffer,  *)
(* ring and counter width: the reader gets the samples in order, none      *)
(* twice, torn or stale, and misses only what an overrun dropped.          *)
(***************************************************************************)
EXTENDS SoundOutProofs

(* The queue of SoundOut, as an operator of the two buffers: the ring s    *)
(* from slot r, k samples long, and the l samples of d before position g.  *)
RingOf(s, r, k) == [i \in 1 .. k |-> s[(r + i - 1) % RingFrames]]
BufOf(d, g, l) == [i \in 1 .. l |-> d[(g - l + i - 1) % BufSize]]
Join(s, r, k, d, g, l) == RingOf(s, r, k) \o BufOf(d, g, l)

LEMMA QueueIsJoin ==
  Queue = Join(samples, read, Held, data, scspsoundgenpos, scspsoundoutleft)
BY DEF Queue, RingContents, BufContents, Join, RingOf, BufOf, Held

IsJoin(q, s, r, k, d, g, l) ==
  /\ q \in Seq(Nat) /\ Len(q) = k + l
  /\ \A i \in 1 .. k : q[i] = s[(r + i - 1) % RingFrames]
  /\ \A i \in 1 .. l : q[k + i] = d[(g - l + i - 1) % BufSize]

LEMMA JoinIs ==
  ASSUME NEW s \in [Slots -> Nat], NEW r \in Cursors, NEW k \in Nat,
         NEW d \in [Places -> Nat], NEW g \in 0 .. BufSize, NEW l \in 0 .. BufSize
  PROVE  IsJoin(Join(s, r, k, d, g, l), s, r, k, d, g, l)
<1>1. /\ RingOf(s, r, k) \in Seq(Nat) /\ Len(RingOf(s, r, k)) = k
      /\ \A i \in 1 .. k : RingOf(s, r, k)[i] = s[(r + i - 1) % RingFrames]
  <2>1. ASSUME NEW i \in 1 .. k
        PROVE  s[(r + i - 1) % RingFrames] \in Nat
    <3>1. r + i - 1 \in Int
      BY DEF Cursors
    <3>2. (r + i - 1) % RingFrames \in Slots
      BY <3>1, Sizes, ModRange DEF Slots
    <3> QED
      BY <3>2
  <2> QED
    BY <2>1 DEF RingOf
<1>2. /\ BufOf(d, g, l) \in Seq(Nat) /\ Len(BufOf(d, g, l)) = l
      /\ \A i \in 1 .. l : BufOf(d, g, l)[i] = d[(g - l + i - 1) % BufSize]
  <2>1. ASSUME NEW i \in 1 .. l
        PROVE  d[(g - l + i - 1) % BufSize] \in Nat
    <3>1. g - l + i - 1 \in Int
      BY Sizes
    <3>2. (g - l + i - 1) % BufSize \in Places
      BY <3>1, Sizes, ModRange DEF Places
    <3> QED
      BY <3>2
  <2>2. l \in Nat
    BY Sizes
  <2> QED
    BY <2>1, <2>2 DEF BufOf
<1> DEFINE a == RingOf(s, r, k)
<1> DEFINE b == BufOf(d, g, l)
<1>3. /\ a \o b \in Seq(Nat) /\ Len(a \o b) = Len(a) + Len(b)
      /\ \A i \in 1 .. Len(a) + Len(b) :
           (a \o b)[i] = IF i <= Len(a) THEN a[i] ELSE b[i - Len(a)]
  BY <1>1, <1>2, ConcatProperties
<1>4. l \in Nat
  BY Sizes
<1> HIDE DEF a, b
<1>5. Len(a) = k /\ Len(b) = l
  BY <1>1, <1>2 DEF a, b
<1>6. \A i \in 1 .. k : (a \o b)[i] = a[i]
  BY <1>3, <1>4, <1>5
<1>7. ASSUME NEW i \in 1 .. l
      PROVE  (a \o b)[k + i] = b[i]
  <2>1. k + i \in 1 .. k + l /\ ~(k + i <= k) /\ k + i - k = i
    BY <1>4
  <2> QED
    BY <1>3, <1>5, <2>1
<1> QED
  BY <1>1, <1>2, <1>3, <1>5, <1>6, <1>7 DEF a, b, Join, IsJoin

(* A slice of a sequence, and a sequence with a slice dropped and another  *)
(* one appended.                                                           *)
LEMMA SliceIs ==
  ASSUME NEW q \in Seq(Nat), NEW a \in Nat, NEW b \in Nat,
         1 <= a, a <= b + 1, b <= Len(q)
  PROVE  /\ SubSeq(q, a, b) \in Seq(Nat)
         /\ Len(SubSeq(q, a, b)) = b - a + 1
         /\ \A i \in 1 .. b - a + 1 : SubSeq(q, a, b)[i] = q[a + i - 1]
<1>1. Len(q) \in Nat /\ \A i \in 1 .. Len(q) : q[i] \in Nat
  OBVIOUS
<1>2. \A i \in a .. b : q[i] \in Nat
  BY <1>1
<1>3. a \in Int /\ b \in Int
  OBVIOUS
<1>4. /\ SubSeq(q, a, b) \in Seq(Nat)
      /\ Len(SubSeq(q, a, b)) = IF a <= b THEN b - a + 1 ELSE 0
      /\ \A i \in 1 .. b - a + 1 : SubSeq(q, a, b)[i] = q[a + i - 1]
  BY <1>2, <1>3, SubSeqProperties
<1> QED
  BY <1>4

IsDropped(t, q, h, v, blk) ==
  /\ t \in Seq(Nat) /\ Len(t) = Len(q) - v + Len(blk)
  /\ \A i \in 1 .. h : t[i] = q[i]
  /\ \A i \in 1 .. Len(q) - h - v : t[h + i] = q[h + v + i]
  /\ \A i \in 1 .. Len(blk) : t[Len(q) - v + i] = blk[i]

LEMMA DroppedIs ==
  ASSUME NEW q \in Seq(Nat), NEW h \in Nat, NEW v \in Nat, h + v <= Len(q),
         NEW blk \in Seq(Nat)
  PROVE  IsDropped(SubSeq(q, 1, h) \o SubSeq(q, h + v + 1, Len(q)) \o blk, q, h, v, blk)
<1> DEFINE a == SubSeq(q, 1, h)
<1> DEFINE b == SubSeq(q, h + v + 1, Len(q))
<1> DEFINE m == Len(q) - h - v
<1>1. Len(q) \in Nat /\ m \in Nat /\ Len(blk) \in Nat
  OBVIOUS
<1>2. /\ a \in Seq(Nat) /\ Len(a) = h
      /\ \A i \in 1 .. h : a[i] = q[i]
  <2> DEFINE f == 1
  <2>1. f \in Nat /\ 1 <= f /\ f <= h + 1 /\ h <= Len(q) /\ h - f + 1 = h
    BY <1>1
  <2>2. \A i \in 1 .. h : f + i - 1 = i
    OBVIOUS
  <2> HIDE DEF f
  <2>3. /\ SubSeq(q, f, h) \in Seq(Nat) /\ Len(SubSeq(q, f, h)) = h - f + 1
        /\ \A i \in 1 .. h - f + 1 : SubSeq(q, f, h)[i] = q[f + i - 1]
    BY <2>1, SliceIs
  <2> QED
    BY <2>1, <2>2, <2>3 DEF f
<1>3. /\ b \in Seq(Nat) /\ Len(b) = m
      /\ \A i \in 1 .. m : b[i] = q[h + v + i]
  <2> DEFINE f == h + v + 1
  <2>1. f \in Nat /\ 1 <= f /\ f <= Len(q) + 1 /\ Len(q) - f + 1 = m
    BY <1>1
  <2>2. \A i \in 1 .. m : f + i - 1 = h + v + i
    BY <1>1
  <2> HIDE DEF f, m
  <2>3. /\ SubSeq(q, f, Len(q)) \in Seq(Nat) /\ Len(SubSeq(q, f, Len(q))) = Len(q) - f + 1
        /\ \A i \in 1 .. Len(q) - f + 1 : SubSeq(q, f, Len(q))[i] = q[f + i - 1]
    BY <1>1, <2>1, SliceIs
  <2> QED
    BY <2>1, <2>2, <2>3 DEF f
<1> HIDE DEF a, b, m
<1> DEFINE c == a \o b
<1>4. /\ c \in Seq(Nat) /\ Len(c) = h + m
      /\ \A i \in 1 .. h + m : c[i] = IF i <= h THEN a[i] ELSE b[i - h]
  <2>1. /\ c \in Seq(Nat) /\ Len(c) = Len(a) + Len(b)
        /\ \A i \in 1 .. Len(a) + Len(b) :
             c[i] = IF i <= Len(a) THEN a[i] ELSE b[i - Len(a)]
    BY <1>2, <1>3, ConcatProperties
  <2> HIDE DEF c
  <2> QED
    BY <2>1, <1>2, <1>3
<1> HIDE DEF c
<1> DEFINE t == c \o blk
<1>5. /\ t \in Seq(Nat) /\ Len(t) = h + m + Len(blk)
      /\ \A i \in 1 .. h + m + Len(blk) :
           t[i] = IF i <= h + m THEN c[i] ELSE blk[i - (h + m)]
  <2>1. /\ t \in Seq(Nat) /\ Len(t) = Len(c) + Len(blk)
        /\ \A i \in 1 .. Len(c) + Len(blk) :
             t[i] = IF i <= Len(c) THEN c[i] ELSE blk[i - Len(c)]
    BY <1>4, ConcatProperties
  <2> HIDE DEF t
  <2> QED
    BY <2>1, <1>4
<1> HIDE DEF t
<1>6. ASSUME NEW i \in 1 .. h
      PROVE  t[i] = q[i]
  <2>1. i \in 1 .. h + m /\ i \in 1 .. h + m + Len(blk) /\ i <= h + m /\ i <= h
    BY <1>1
  <2> QED
    BY <2>1, <1>2, <1>4, <1>5
<1>7. ASSUME NEW i \in 1 .. m
      PROVE  t[h + i] = q[h + v + i]
  <2> DEFINE x == h + i
  <2>1. /\ x \in 1 .. h + m /\ x \in 1 .. h + m + Len(blk) /\ x <= h + m
        /\ ~(x <= h) /\ x - h = i
    BY <1>1
  <2> HIDE DEF x
  <2>2. t[x] = c[x]
    BY <2>1, <1>5
  <2>3. c[x] = b[i]
    BY <2>1, <1>4
  <2> QED
    BY <2>2, <2>3, <1>3 DEF x
<1>8. ASSUME NEW i \in 1 .. Len(blk)
      PROVE  t[h + m + i] = blk[i]
  <2> DEFINE x == h + m + i
  <2>1. x \in 1 .. h + m + Len(blk) /\ ~(x <= h + m) /\ x - (h + m) = i
    BY <1>1
  <2> HIDE DEF x
  <2>2. t[x] = blk[i]
    BY <2>1, <1>5
  <2> QED
    BY <2>2 DEF x
<1>9. h + m = Len(q) - v
  BY <1>1 DEF m
<1>10. IsDropped(t, q, h, v, blk)
  BY <1>5, <1>6, <1>7, <1>8, <1>9 DEF m, IsDropped
<1> QED
  BY <1>10 DEF t, c, a, b
-------------------------------------------------------------------------------
(* What the steps do to the queue. *)

(* A chunk moves from the SCSP's buffer to the ring. *)
LEMMA HandedOver ==
  ASSUME NEW s \in [Slots -> Nat], NEW r \in Cursors, NEW k \in Nat,
         NEW d \in [Places -> Nat], NEW g \in 0 .. BufSize, NEW l \in 0 .. BufSize,
         NEW m \in 1 .. l,
         \A i \in 0 .. m - 1 : s[(r + k + i) % RingFrames] = d[(g - l + i) % BufSize]
  PROVE  Join(s, r, k + m, d, g, l - m) = Join(s, r, k, d, g, l)
<1> DEFINE p == Join(s, r, k + m, d, g, l - m)
<1> DEFINE q == Join(s, r, k, d, g, l)
<1>1. /\ k + m \in Nat /\ l - m \in 0 .. BufSize /\ m \in Nat /\ l \in Nat /\ r \in Int
      /\ g \in Int
  BY Sizes DEF Cursors
<1>2. IsJoin(p, s, r, k + m, d, g, l - m)
  BY <1>1, JoinIs, Zenon
<1>3. IsJoin(q, s, r, k, d, g, l)
  BY JoinIs, Zenon
<1> HIDE DEF p, q
<1>4. Len(p) = Len(q)
  BY <1>1, <1>2, <1>3 DEF IsJoin
<1>5. ASSUME NEW i \in 1 .. k + l
      PROVE  p[i] = q[i]
  <2>1. CASE i \in 1 .. k
    <3>1. i \in 1 .. k + m
      BY <1>1, <2>1
    <3> QED
      BY <1>2, <1>3, <2>1, <3>1 DEF IsJoin
  <2>2. CASE i \in k + 1 .. k + m
    <3> DEFINE j == i - k - 1
    <3>1. /\ j \in 0 .. m - 1 /\ i \in 1 .. k + m /\ j + 1 \in 1 .. l
          /\ i = k + (j + 1) /\ r + i - 1 = r + k + j /\ g - l + (j + 1) - 1 = g - l + j
      BY <1>1, <2>2
    <3> HIDE DEF j
    <3>2. p[i] = s[(r + k + j) % RingFrames]
      BY <1>2, <3>1 DEF IsJoin
    <3>3. q[i] = d[(g - l + j) % BufSize]
      BY <1>3, <3>1 DEF IsJoin
    <3> QED
      BY <3>1, <3>2, <3>3
  <2>3. CASE i \in k + m + 1 .. k + l
    <3> DEFINE j == i - k - m
    <3>1. /\ j \in 1 .. l - m /\ m + j \in 1 .. l
          /\ i = (k + m) + j /\ i = k + (m + j)
          /\ g - (l - m) + j - 1 = g - l + (m + j) - 1
      BY <1>1, <2>3
    <3> HIDE DEF j
    <3>2. p[i] = d[(g - (l - m) + j - 1) % BufSize]
      BY <1>2, <3>1 DEF IsJoin
    <3>3. q[i] = d[(g - l + (m + j) - 1) % BufSize]
      BY <1>3, <3>1 DEF IsJoin
    <3> QED
      BY <3>1, <3>2, <3>3
  <2> QED
    BY <1>1, <2>1, <2>2, <2>3
<1>6. p = q
  BY <1>2, <1>3, <1>4, <1>5, SeqEqual DEF IsJoin
<1> QED
  BY <1>6 DEF p, q

(* The reader takes m samples off the front. *)
LEMMA Taken ==
  ASSUME NEW s \in [Slots -> Nat], NEW r \in Cursors, NEW k \in 0 .. Counters - 1,
         NEW d \in [Places -> Nat], NEW g \in 0 .. BufSize, NEW l \in 0 .. BufSize,
         NEW m \in 0 .. k
  PROVE  Join(s, (r + m) % Counters, k - m, d, g, l)
           = SubSeq(Join(s, r, k, d, g, l), m + 1, k + l)
<1> DEFINE q == Join(s, r, k, d, g, l)
<1> DEFINE c == (r + m) % Counters
<1> DEFINE p == Join(s, c, k - m, d, g, l)
<1> DEFINE f == m + 1
<1>1. /\ m \in 0 .. Counters - 1 /\ m \in Nat /\ k \in Nat /\ k - m \in Nat /\ l \in Nat
      /\ r \in Int
  BY Sizes DEF Cursors
<1>2. c \in Cursors
  BY <1>1, CursorMoves
<1>3. \A j \in Int : (c + j) % RingFrames = (r + m + j) % RingFrames
  BY <1>1, SlotOfMoved
<1> HIDE DEF c
<1>4. IsJoin(q, s, r, k, d, g, l)
  BY <1>1, JoinIs, Zenon
<1>5. IsJoin(p, s, c, k - m, d, g, l)
  BY <1>1, <1>2, JoinIs, Zenon
<1> HIDE DEF p, q
<1>6. f \in Nat /\ 1 <= f /\ f <= k + l + 1 /\ k + l \in Nat /\ k + l - f + 1 = (k - m) + l
  BY <1>1
<1> DEFINE e == k + l
<1> DEFINE t == SubSeq(q, f, e)
<1>7. /\ t \in Seq(Nat) /\ Len(t) = (k - m) + l
      /\ \A i \in 1 .. (k - m) + l : t[i] = q[f + i - 1]
  <2>1. f \in Nat /\ 1 <= f /\ f <= e + 1 /\ e \in Nat /\ e - f + 1 = (k - m) + l
    BY <1>6
  <2>2. q \in Seq(Nat) /\ e <= Len(q)
    BY <1>4, <1>6 DEF IsJoin
  <2> HIDE DEF f, e
  <2>3. /\ t \in Seq(Nat) /\ Len(t) = e - f + 1
        /\ \A i \in 1 .. e - f + 1 : t[i] = q[f + i - 1]
    BY <2>1, <2>2, SliceIs
  <2> QED
    BY <2>1, <2>3
<1> HIDE DEF t
<1>8. ASSUME NEW i \in 1 .. (k - m) + l
      PROVE  p[i] = t[i]
  <2>1. CASE i \in 1 .. k - m
    <3>1. f + i - 1 \in 1 .. k /\ i - 1 \in Int /\ r + (f + i - 1) - 1 = r + m + (i - 1)
          /\ c + i - 1 = c + (i - 1)
      BY <1>1, <1>2, <2>1 DEF Cursors
    <3> HIDE DEF f
    <3>2. t[i] = s[(r + (f + i - 1) - 1) % RingFrames]
      BY <1>4, <1>7, <3>1 DEF IsJoin
    <3>3. p[i] = s[(c + (i - 1)) % RingFrames]
      BY <1>5, <2>1, <3>1 DEF IsJoin
    <3>4. (c + (i - 1)) % RingFrames = (r + m + (i - 1)) % RingFrames
      BY <1>3, <3>1 DEF IsJoin
    <3> QED
      BY <3>1, <3>2, <3>3, <3>4
  <2>2. CASE i \in (k - m) + 1 .. (k - m) + l
    <3> DEFINE j == i - (k - m)
    <3>1. j \in 1 .. l /\ i = (k - m) + j /\ f + i - 1 = k + j
      BY <1>1, <2>2
    <3> HIDE DEF j, f
    <3>2. t[i] = q[k + j]
      BY <1>7, <3>1
    <3>3. q[k + j] = d[(g - l + j - 1) % BufSize]
      BY <1>4, <3>1 DEF IsJoin
    <3>4. p[i] = d[(g - l + j - 1) % BufSize]
      BY <1>5, <3>1 DEF IsJoin
    <3> QED
      BY <3>2, <3>3, <3>4
  <2> QED
    BY <1>1, <2>1, <2>2
<1>9. p = t
  BY <1>5, <1>7, <1>8, SeqEqual DEF IsJoin
<1> QED
  BY <1>9 DEF p, t, q, c, f, e

(* A block, numbered from x, replaces what stands from h on; in the queue  *)
(* it is appended and the v samples after the first k are dropped.         *)
Overwrites(e, d, h, x) ==
  e = [i \in Places |-> IF i \in h .. h + BlockLen - 1 THEN x + i - h ELSE d[i]]

IsAppended(q, p, k, l, v, blk) ==
  /\ Len(q) = k + l
  /\ p = SubSeq(q, 1, k) \o SubSeq(q, k + v + 1, Len(q)) \o blk

LEMMA Appended ==
  ASSUME NEW s \in [Slots -> Nat], NEW r \in Cursors, NEW k \in Nat,
         NEW d \in [Places -> Nat], NEW g \in 0 .. BufSize, NEW l \in 0 .. BufSize,
         NEW e \in [Places -> Nat], NEW h \in 0 .. BufSize - BlockLen, NEW v \in 0 .. l,
         NEW x \in Nat,
         h = g \/ (h = 0 /\ g = BufSize),
         l - v + BlockLen <= BufSize,
         Overwrites(e, d, h, x)
  PROVE  IsAppended(Join(s, r, k, d, g, l),
                    Join(s, r, k, e, h + BlockLen, l - v + BlockLen),
                    k, l, v, [i \in 1 .. BlockLen |-> x + i - 1])
<1> DEFINE q == Join(s, r, k, d, g, l)
<1> DEFINE hh == h + BlockLen
<1> DEFINE ll == l - v + BlockLen
<1> DEFINE p == Join(s, r, k, e, hh, ll)
<1> DEFINE blk == [i \in 1 .. BlockLen |-> x + i - 1]
<1> DEFINE t == SubSeq(q, 1, k) \o SubSeq(q, k + v + 1, Len(q)) \o blk
<1>1. /\ hh \in 0 .. BufSize /\ ll \in 0 .. BufSize /\ v \in Nat /\ l \in Nat /\ h \in Nat
      /\ r \in Int /\ g \in Int
  BY Sizes DEF Cursors
<1>2. blk \in Seq(Nat) /\ Len(blk) = BlockLen /\ \A i \in 1 .. BlockLen : blk[i] = x + i - 1
  BY Sizes
<1> HIDE DEF hh, ll
<1>3. IsJoin(q, s, r, k, d, g, l)
  BY JoinIs, Zenon
<1>4. IsJoin(p, s, r, k, e, hh, ll)
  BY <1>1, JoinIs, Zenon
<1> HIDE DEF p, q, blk
<1>5. q \in Seq(Nat) /\ Len(q) = k + l /\ k + v <= Len(q)
  BY <1>1, <1>3 DEF IsJoin
<1>6. IsDropped(t, q, k, v, blk)
  BY <1>1, <1>2, <1>5, DroppedIs, Zenon
<1> HIDE DEF t
<1>7. /\ ll = (l - v) + BlockLen /\ l - v \in Nat
      /\ Len(q) - k - v = l - v /\ Len(q) - v = k + (l - v)
  BY <1>1, <1>5, Sizes DEF ll
<1>8. ASSUME NEW i \in 1 .. k
      PROVE  p[i] = t[i]
  BY <1>3, <1>4, <1>6 DEF IsJoin, IsDropped
<1>9. ASSUME NEW i \in 1 .. l - v
      PROVE  p[k + i] = t[k + i]
  <2> DEFINE y == h - (l - v) + i - 1
  <2> DEFINE w == v + i
  <2> DEFINE z == g - l + w - 1
  <2>1. /\ y \in Int /\ z \in Int /\ i \in 1 .. ll /\ w \in 1 .. l
        /\ k + v + i = k + w /\ z = g - l + w - 1
        /\ hh - ll + i - 1 = y
        /\ 0 - BufSize <= y /\ y < h /\ h + BlockLen <= y + BufSize
        /\ z = y \/ (z = y + BufSize /\ h = 0)
    BY <1>1, <1>7, Sizes DEF hh
  <2> HIDE DEF y, z, w
  <2>2. y % BufSize = IF y < 0 THEN y + BufSize ELSE y
    <3>1. /\ 0 <= y /\ y < BufSize => y % BufSize = y
          /\ 0 - BufSize <= y /\ y < 0 => y % BufSize = y + BufSize
      <4>1. y \in Int /\ BufSize \in Nat /\ BufSize > 0
        BY <2>1, Sizes
      <4> QED
        BY ONLY <4>1, ModNear
    <3> QED
      BY <3>1, <2>1, <1>1, Sizes
  <2>3. z % BufSize = y % BufSize
    <3>1. CASE z = y
      BY <3>1
    <3>2. CASE z = y + BufSize /\ h = 0
      <4>1. 0 <= z /\ z < BufSize /\ y < 0
        BY <2>1, <3>2, Sizes
      <4>2. z % BufSize = z
        BY <4>1, <2>1, Sizes, ModNear
      <4> QED
        BY <2>2, <3>2, <4>1, <4>2
    <3> QED
      BY <2>1, <3>1, <3>2
  <2>4. y % BufSize \in Places /\ y % BufSize \notin h .. h + BlockLen - 1
    BY <1>1, <2>1, <2>2, Sizes DEF Places
  <2>5. e[y % BufSize] = d[y % BufSize]
    BY <2>4 DEF Overwrites
  <2>6. p[k + i] = e[y % BufSize]
    BY <1>4, <2>1 DEF IsJoin
  <2>7. q[k + v + i] = d[z % BufSize]
    <3>1. q[k + w] = d[z % BufSize]
      BY <1>3, <2>1 DEF IsJoin
    <3> QED
      BY <2>1, <3>1
  <2>8. t[k + i] = q[k + v + i]
    BY <1>6, <1>7 DEF IsDropped
  <2> QED
    BY <2>3, <2>5, <2>6, <2>7, <2>8
<1>10. ASSUME NEW j \in 1 .. BlockLen
       PROVE  p[k + (l - v) + j] = t[k + (l - v) + j]
  <2> DEFINE i == (l - v) + j
  <2> DEFINE y == h + j - 1
  <2>1. /\ i \in 1 .. ll /\ y \in Places /\ y \in h .. h + BlockLen - 1
        /\ hh - ll + i - 1 = y /\ k + (l - v) + j = k + i /\ x + y - h = x + j - 1
        /\ y \in Int /\ 0 <= y /\ y < BufSize
    BY <1>1, <1>7, Sizes DEF hh, Places
  <2> HIDE DEF i, y
  <2>2. y % BufSize = y
    BY <2>1, Sizes, ModNear
  <2>3. p[k + i] = e[y]
    BY <1>4, <2>1, <2>2 DEF IsJoin
  <2>4. e[y] = x + y - h
    BY <2>1 DEF Overwrites
  <2>5. t[k + (l - v) + j] = x + j - 1
    BY <1>2, <1>6, <1>7 DEF IsDropped
  <2> QED
    BY <2>1, <2>3, <2>4, <2>5
<1>11. Len(p) = Len(t) /\ p \in Seq(Nat) /\ Len(p) = k + (l - v) + BlockLen
  <2>1. Len(p) = k + ll /\ p \in Seq(Nat)
    BY <1>4 DEF IsJoin
  <2>2. Len(t) = Len(q) - v + BlockLen
    BY <1>2, <1>6 DEF IsDropped
  <2> QED
    BY <2>1, <2>2, <1>7, Sizes
<1>12. ASSUME NEW i \in 1 .. Len(p)
       PROVE  p[i] = t[i]
  <2>1. CASE i \in 1 .. k
    BY <1>8, <2>1
  <2>2. CASE i \in k + 1 .. k + (l - v)
    <3>1. i - k \in 1 .. l - v /\ i = k + (i - k)
      BY <1>7, <2>2
    <3> QED
      BY <1>9, <3>1
  <2>3. CASE i \in k + (l - v) + 1 .. k + (l - v) + BlockLen
    <3> DEFINE j == i - (k + (l - v))
    <3>1. j \in 1 .. BlockLen /\ i = k + (l - v) + j
      BY <1>7, <2>3, Sizes
    <3> HIDE DEF j
    <3> QED
      BY <1>10, <3>1
  <2>4. /\ i \in Int /\ 1 <= i /\ i <= k + (l - v) + BlockLen
        /\ k + (l - v) \in Int /\ k + (l - v) + BlockLen \in Int
    BY <1>7, <1>11, Sizes
  <2> QED
    BY <2>1, <2>2, <2>3, <2>4
<1>13. p = t
  BY <1>6, <1>11, <1>12, SeqEqual DEF IsDropped
<1> QED
  BY <1>5, <1>13 DEF p, t, q, blk, hh, ll, IsAppended
-------------------------------------------------------------------------------
(* The steps of the sound path are steps of the stream. *)

LEMMA Quiet ==
  ASSUME UNCHANGED <<samples, write, read, data, scspsoundgenpos, scspsoundoutleft, got, next>>
  PROVE  UNCHANGED Stream!vars
BY DEF Stream!vars, Queue, RingContents, BufContents, Available

LEMMA Shapes ==
  ASSUME IInv
  PROVE  /\ samples \in [Slots -> Nat] /\ data \in [Places -> Nat]
         /\ write \in Cursors /\ read \in Cursors
         /\ Held \in 0 .. Counters - 1 /\ Held \in Nat
         /\ scspsoundgenpos \in 0 .. BufSize
         /\ scspsoundoutleft \in 0 .. BufSize /\ scspsoundoutleft \in Nat
         /\ next \in Nat
<1>1. Types
  BY DEF IInv
<1>2. Held \in 0 .. Counters - 1 /\ scspsoundgenpos \in 0 .. BufSize
  BY <1>1, Typed
<1>3. scspsoundoutleft \in 0 .. BufSize
  BY <1>1 DEF Types
<1>4. Held \in Nat /\ scspsoundoutleft \in Nat
  BY <1>2, <1>3, Sizes
<1> QED
  BY <1>1, <1>2, <1>3, <1>4 DEF Types

LEMMA CopyInIsQuiet == IInv /\ CopyIn => UNCHANGED Stream!vars
<1> SUFFICES ASSUME IInv, CopyIn PROVE UNCHANGED Stream!vars
  OBVIOUS
<1> DEFINE slot == (write + copied) % RingFrames
<1>1. slot \in Slots /\ \A i \in 1 .. Held : (read + i - 1) % RingFrames # slot
  BY CopyInIs
<1>2. samples \in [Slots -> Nat] /\ Held \in Nat /\ read \in Cursors
  BY Shapes
<1>3. samples' = [samples EXCEPT ![slot] = data[OutStart + copied]]
  BY DEF CopyIn
<1> HIDE DEF slot
<1>4. Held' = Held /\ read' = read /\ data' = data
      /\ scspsoundgenpos' = scspsoundgenpos /\ scspsoundoutleft' = scspsoundoutleft
      /\ got' = got /\ next' = next
  BY DEF CopyIn, Held, scspVars, readVars
<1>5. ASSUME NEW i \in 1 .. Held
      PROVE  samples'[(read + i - 1) % RingFrames] = samples[(read + i - 1) % RingFrames]
  <2>1. read + i - 1 \in Int
    BY <1>2 DEF Cursors
  <2>2. (read + i - 1) % RingFrames \in Slots
    BY <2>1, Sizes, ModRange DEF Slots
  <2> QED
    BY <1>1, <1>2, <1>3, <2>2
<1> HIDE DEF Held
<1>6. RingOf(samples', read, Held) = RingOf(samples, read, Held)
  BY <1>5 DEF RingOf
<1>7. Queue' = Join(samples', read', Held', data', scspsoundgenpos', scspsoundoutleft')
  BY DEF Queue, RingContents, BufContents, Join, RingOf, BufOf, Held
<1>8. Queue' = Queue
  BY <1>4, <1>6, <1>7, QueueIsJoin DEF Join
<1> QED
  BY <1>4, <1>8 DEF Stream!vars

LEMMA PublishIsQuiet == IInv /\ Publish => UNCHANGED Stream!vars
<1> SUFFICES ASSUME IInv, Publish PROVE UNCHANGED Stream!vars
  OBVIOUS
<1> DEFINE m == audiosize
<1> DEFINE k == Held
<1> DEFINE g == scspsoundgenpos
<1> DEFINE l == scspsoundoutleft
<1> DEFINE o == OutStart
<1>1. /\ m \in 1 .. l /\ Held' = k + m /\ scspsoundoutleft' = l - m
      /\ k + m <= RingFrames /\ o + m <= BufSize
      /\ \A i \in 0 .. m - 1 : samples[(write + i) % RingFrames] = data[o + i]
  BY PublishIs
<1>2. /\ samples \in [Slots -> Nat] /\ data \in [Places -> Nat]
      /\ write \in Cursors /\ read \in Cursors
      /\ k \in Nat /\ g \in 0 .. BufSize /\ l \in 0 .. BufSize /\ l \in Nat
  BY Shapes
<1>3. o \in Places /\ (o = g - l \/ o = g - l + BufSize)
  <2>1. l > 0
    BY <1>1, <1>2
  <2> QED
    BY <2>1, Typed DEF IInv
<1>4. \A i \in Int : (write + i) % RingFrames = (read + k + i) % RingFrames
  BY <1>2, SlotOfWriter DEF Held
<1>5. /\ samples' = samples /\ read' = read /\ data' = data
      /\ scspsoundgenpos' = g /\ got' = got /\ next' = next
  BY DEF Publish, readVars
<1>6. Queue' = Join(samples', read', Held', data', scspsoundgenpos', scspsoundoutleft')
  BY DEF Queue, RingContents, BufContents, Join, RingOf, BufOf, Held
<1>7. Queue = Join(samples, read, k, data, g, l)
  BY QueueIsJoin
<1> HIDE DEF m, k, g, l, o
<1>8. ASSUME NEW i \in 0 .. m - 1
      PROVE  samples[(read + k + i) % RingFrames] = data[(g - l + i) % BufSize]
  <2> DEFINE z == g - l + i
  <2>1. z \in Int /\ i \in Int /\ 0 <= o + i /\ o + i < BufSize
        /\ (z = o + i \/ z = o + i - BufSize) /\ BufSize \in Nat /\ BufSize > 0
    BY <1>1, <1>2, <1>3, Sizes DEF Places
  <2> HIDE DEF z
  <2>2. /\ 0 <= z /\ z < BufSize => z % BufSize = z
        /\ 0 - BufSize <= z /\ z < 0 => z % BufSize = z + BufSize
    BY ONLY <2>1, ModNear
  <2>3. z % BufSize = o + i
    <3>1. o \in Int
      BY <1>3 DEF Places
    <3> QED
      BY <2>1, <2>2, <3>1
  <2>4. samples[(write + i) % RingFrames] = data[o + i]
    BY <1>1
  <2>5. (write + i) % RingFrames = (read + k + i) % RingFrames
    BY <1>4, <2>1
  <2> QED
    BY <2>3, <2>4, <2>5 DEF z
<1>9. Join(samples, read, k + m, data, g, l - m) = Join(samples, read, k, data, g, l)
  BY <1>1, <1>2, <1>8, HandedOver, Zenon
<1>10. Queue' = Queue
  BY <1>1, <1>5, <1>6, <1>7, <1>9
<1> QED
  BY <1>5, <1>10 DEF Stream!vars

LEMMA GenerateGenerates == IInv /\ Generate => Stream!Generate
<1> SUFFICES ASSUME IInv, Generate PROVE Stream!Generate
  OBVIOUS
<1> DEFINE k == Held
<1> DEFINE g == scspsoundgenpos
<1> DEFINE l == scspsoundoutleft
<1> DEFINE h == GenPos
<1> DEFINE v == Overrun
<1>1. /\ h \in 0 .. BufSize - BlockLen /\ (h = g \/ (h = 0 /\ g = BufSize))
      /\ v \in 0 .. l /\ (v > 0 => l + BlockLen > BufSize)
      /\ scspsoundoutleft' = l - v + BlockLen /\ scspsoundoutleft' \in 0 .. BufSize
      /\ scspsoundgenpos' = h + BlockLen
      /\ data' = [i \in Places |-> IF i \in h .. h + BlockLen - 1
                                  THEN next + i - h ELSE data[i]]
  BY GenerateIs DEF IInv
<1>2. /\ samples \in [Slots -> Nat] /\ data \in [Places -> Nat] /\ read \in Cursors
      /\ k \in Nat /\ g \in 0 .. BufSize /\ l \in 0 .. BufSize /\ l \in Nat
      /\ next \in Nat
  BY Shapes
<1>3. data' \in [Places -> Nat]
  BY GenerateStep DEF IInv, Types
<1>4. Held' = k /\ samples' = samples /\ read' = read /\ got' = got
      /\ next' = next + BlockLen
  BY DEF Generate, Held, readVars
<1>5. Queue' = Join(samples', read', Held', data', scspsoundgenpos', scspsoundoutleft')
  BY DEF Queue, RingContents, BufContents, Join, RingOf, BufOf, Held
<1>6. Queue = Join(samples, read, k, data, g, l)
  BY QueueIsJoin
<1> HIDE DEF k, g, l, h, v
<1>7. l - v + BlockLen <= BufSize
  BY <1>1, <1>2, Sizes
<1>8. IsAppended(Queue, Join(samples, read, k, data', h + BlockLen, l - v + BlockLen),
                  k, l, v, Stream!Block)
  <2> DEFINE e == data'
  <2> DEFINE blk == Stream!Block
  <2>1. e \in [Places -> Nat] /\ Overwrites(e, data, h, next)
    BY <1>1, <1>3 DEF Overwrites
  <2>2. blk = [i \in 1 .. BlockLen |-> next + i - 1]
    BY DEF Stream!Block
  <2> HIDE DEF e, blk
  <2>3. IsAppended(Join(samples, read, k, data, g, l),
                   Join(samples, read, k, e, h + BlockLen, l - v + BlockLen),
                   k, l, v, [i \in 1 .. BlockLen |-> next + i - 1])
    <3>1. /\ samples \in [Slots -> Nat] /\ read \in Cursors /\ k \in Nat
          /\ data \in [Places -> Nat] /\ g \in 0 .. BufSize /\ l \in 0 .. BufSize
          /\ h \in 0 .. BufSize - BlockLen /\ v \in 0 .. l /\ next \in Nat
          /\ (h = g \/ (h = 0 /\ g = BufSize))
      BY <1>1, <1>2
    <3> QED
      BY ONLY <3>1, <1>7, <2>1, Appended
  <2> QED
    BY <1>6, <2>2, <2>3 DEF e, blk
<1>9. Queue' = SubSeq(Queue, 1, k) \o SubSeq(Queue, k + v + 1, Len(Queue)) \o Stream!Block
  BY <1>1, <1>4, <1>5, <1>8 DEF IsAppended
<1> DEFINE first == k + 1
<1> DEFINE last == k + v
<1>10. /\ first \in 1 .. Len(Queue) + 1 /\ last \in first - 1 .. Len(Queue)
       /\ first - 1 = k /\ last + 1 = k + v + 1
       /\ (last >= first => Len(Queue) + BlockLen > BufSize)
  BY <1>1, <1>2, <1>8, Sizes DEF IsAppended
<1> HIDE DEF first, last
<1>11. Queue' = SubSeq(Queue, 1, first - 1) \o SubSeq(Queue, last + 1, Len(Queue))
                  \o Stream!Block
  BY <1>9, <1>10
<1> QED
  BY <1>4, <1>10, <1>11 DEF Stream!Generate

LEMMA ReturnReads == IInv /\ Return => Stream!Read
<1> SUFFICES ASSUME IInv, Return PROVE Stream!Read
  OBVIOUS
<1> DEFINE k == Held
<1> DEFINE g == scspsoundgenpos
<1> DEFINE l == scspsoundoutleft
<1>1. /\ n \in 0 .. k /\ read' = (read + n) % Counters /\ Held' = k - n
      /\ Len(out) = n /\ got' = out
      /\ \A i \in 1 .. n : out[i] = samples[(read + i - 1) % RingFrames]
  BY ReturnIs
<1>2. /\ samples \in [Slots -> Nat] /\ data \in [Places -> Nat] /\ read \in Cursors
      /\ k \in 0 .. Counters - 1 /\ k \in Nat
      /\ g \in 0 .. BufSize /\ l \in 0 .. BufSize /\ l \in Nat
  BY Shapes
<1>3. out \in Seq(Nat)
  BY DEF IInv, Types
<1>4. /\ samples' = samples /\ data' = data
      /\ scspsoundgenpos' = g /\ scspsoundoutleft' = l /\ next' = next
  BY DEF Return, scspVars
<1>5. Queue' = Join(samples', read', Held', data', scspsoundgenpos', scspsoundoutleft')
  BY DEF Queue, RingContents, BufContents, Join, RingOf, BufOf, Held
<1>6. Queue = Join(samples, read, k, data, g, l)
  BY QueueIsJoin
<1> HIDE DEF k, g, l
<1>7. IsJoin(Queue, samples, read, k, data, g, l)
  BY <1>2, <1>6, JoinIs
<1>8. Queue \in Seq(Nat) /\ Len(Queue) = k + l
  BY <1>7 DEF IsJoin
<1>9. Queue' = SubSeq(Queue, n + 1, Len(Queue))
  <2>1. Join(samples, (read + n) % Counters, k - n, data, g, l)
          = SubSeq(Join(samples, read, k, data, g, l), n + 1, k + l)
    BY <1>1, <1>2, Taken, Zenon
  <2> QED
    BY <1>1, <1>4, <1>5, <1>6, <1>8, <2>1
<1>10. got' = SubSeq(Queue, 1, n)
  <2> DEFINE f == 1
  <2> DEFINE t == SubSeq(Queue, f, n)
  <2>1. f \in Nat /\ n \in Nat /\ 1 <= f /\ f <= n + 1 /\ n <= Len(Queue) /\ n - f + 1 = n
    BY <1>1, <1>2, <1>8
  <2>2. \A i \in 1 .. n : f + i - 1 = i
    OBVIOUS
  <2> HIDE DEF f
  <2>3. /\ t \in Seq(Nat) /\ Len(t) = n - f + 1
        /\ \A i \in 1 .. n - f + 1 : t[i] = Queue[f + i - 1]
    BY <1>8, <2>1, SliceIs
  <2> HIDE DEF t
  <2>4. ASSUME NEW i \in 1 .. n
        PROVE  out[i] = t[i]
    <3>1. i \in 1 .. k /\ t[i] = Queue[i]
      BY <1>1, <1>2, <2>1, <2>2, <2>3
    <3>2. Queue[i] = samples[(read + i - 1) % RingFrames]
      BY <1>7, <3>1 DEF IsJoin
    <3> QED
      BY <1>1, <3>1, <3>2
  <2>5. out = t
    BY <1>1, <1>3, <2>1, <2>3, <2>4, SeqEqual
  <2> QED
    BY <1>1, <2>5 DEF t, f
<1>11. n \in 0 .. Len(Queue)
  BY <1>1, <1>2, <1>8
<1> QED
  BY <1>4, <1>9, <1>10, <1>11 DEF Stream!Read

LEMMA NoQueue ==
  ASSUME NEW s, NEW r, NEW d, NEW g
  PROVE  Join(s, r, 0, d, g, 0) = <<>>
<1>1. RingOf(s, r, 0) = <<>> /\ BufOf(d, g, 0) = <<>>
  BY DEF RingOf, BufOf
<1>2. <<>> \o <<>> = <<>>
  OBVIOUS
<1> QED
  BY <1>1, <1>2 DEF Join

LEMMA NewSessionClears == NewSession => Stream!Clear
<1> SUFFICES ASSUME NewSession PROVE Stream!Clear
  OBVIOUS
<1>1. Queue' = Join(samples', read', Held', data', scspsoundgenpos', scspsoundoutleft')
  BY DEF Queue, RingContents, BufContents, Join, RingOf, BufOf, Held
<1>2. 0 \in Cursors
  BY Sizes DEF Cursors
<1>3. Held' = 0 /\ scspsoundoutleft' = 0
  BY <1>2, AvailableIs DEF NewSession, Held
<1>4. Queue' = <<>>
  BY <1>1, <1>3, NoQueue
<1> QED
  BY <1>4 DEF NewSession, Stream!Clear, readVars

LEMMA StartsEmpty == Init => Stream!Init
<1> SUFFICES ASSUME Init PROVE Stream!Init
  OBVIOUS
<1>1. 0 \in Cursors
  BY Sizes DEF Cursors
<1>2. Held = 0
  BY <1>1, AvailableIs DEF Init, Held
<1>3. Queue = <<>>
  BY <1>2, QueueIsJoin, NoQueue DEF Init
<1> QED
  BY <1>3 DEF Init, Stream!Init

(* StreamSpec: the samples come in order, none twice, torn or stale, and   *)
(* the only ones missing are those a block overwrote in the SCSP's buffer  *)
(* because it was not read for longer than the buffers hold.               *)
THEOREM KeepsTheStream == Spec => StreamSpec
<1>1. IInv /\ [Next]_vars => [Stream!Next]_(Stream!vars)
  <2> SUFFICES ASSUME IInv, [Next]_vars PROVE Stream!Next \/ UNCHANGED Stream!vars
    OBVIOUS
  <2>1. CASE Generate
    BY <2>1, GenerateGenerates DEF Stream!Next
  <2>2. CASE Return
    BY <2>2, ReturnReads DEF Stream!Next
  <2>3. CASE NewSession
    BY <2>3, NewSessionClears DEF Stream!Next
  <2>4. CASE CopyIn
    BY <2>4, CopyInIsQuiet
  <2>5. CASE Publish
    BY <2>5, PublishIsQuiet
  <2>6. CASE LineWithoutBlock
    BY <2>6, Quiet DEF LineWithoutBlock, scspVars, readVars
  <2>7. CASE HandOver
    BY <2>7, Quiet DEF HandOver, scspVars, readVars
  <2>8. CASE UpdateAudio
    BY <2>8, Quiet DEF UpdateAudio, scspVars, readVars
  <2>9. CASE ReadAudio
    BY <2>9, Quiet DEF ReadAudio, scspVars
  <2>10. CASE LoadRead
    BY <2>10, Quiet DEF LoadRead, scspVars
  <2>11. CASE CopyOut
    BY <2>11, Quiet DEF CopyOut, scspVars
  <2>12. CASE UNCHANGED vars
    BY <2>12, Quiet DEF vars, scspVars, readVars
  <2> QED
    BY <2>1, <2>2, <2>3, <2>4, <2>5, <2>6, <2>7, <2>8, <2>9, <2>10, <2>11, <2>12
    DEF Next, Emulation, Reader
<1> QED
  BY Invariance, StartsEmpty, <1>1, PTL DEF Spec, StreamSpec, Stream!Spec
===============================================================================
