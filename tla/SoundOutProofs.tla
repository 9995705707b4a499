----------------------------- MODULE SoundOutProofs ----------------------------
(***************************************************************************)
(* The inductive invariant of the sound path, for every block length,      *)
(* buffer, ring and counter width: neither buffer ever holds more than it  *)
(* has room for, and the reader and the writer never touch the same slot.  *)
(***************************************************************************)
EXTENDS SoundOut, SequenceTheorems, TLAPS

Slots == 0 .. RingFrames - 1
Places == 0 .. BufSize - 1
Cursors == 0 .. Counters - 1
-------------------------------------------------------------------------------
(* Arithmetic of the cursors and positions. *)

LEMMA Sizes ==
  /\ BlockLen \in Nat /\ BlockLen > 0 /\ Bufs \in Nat /\ Bufs > 0
  /\ RingFrames \in Nat /\ RingFrames > 0
  /\ Counters \in Nat /\ Counters > RingFrames
  /\ BufSize \in Nat /\ BufSize >= BlockLen
BY SoundAssumption DEF SoundAssumption, BufSize

LEMMA ModRange ==
  ASSUME NEW m \in Nat, m > 0, NEW a \in Int
  PROVE  a % m \in 0 .. m - 1
OBVIOUS

LEMMA ModNear ==
  ASSUME NEW m \in Nat, m > 0, NEW a \in Int
  PROVE  /\ 0 <= a /\ a < m => a % m = a
         /\ m <= a /\ a < 2 * m => a % m = a - m
         /\ 0 - m <= a /\ a < 0 => a % m = a + m
OBVIOUS

LEMMA Division ==
  ASSUME NEW m \in Nat, m > 0, NEW a \in Int
  PROVE  /\ a \div m \in Int
         /\ a % m \in 0 .. m - 1
         /\ a = m * (a \div m) + (a % m)
OBVIOUS

LEMMA Remainder ==
  ASSUME NEW m \in Nat, m > 0, NEW a \in Int,
         NEW q \in Int, NEW r \in 0 .. m - 1, a = m * q + r
  PROVE  a % m = r
OBVIOUS

LEMMA ModShift ==
  ASSUME NEW m \in Nat, m > 0, NEW a \in Int, NEW k \in Int
  PROVE  (a + m * k) % m = a % m
<1> DEFINE q == a \div m
<1> DEFINE r == a % m
<1>1. q \in Int /\ r \in 0 .. m - 1 /\ a = m * q + r
  BY Division
<1> HIDE DEF q, r
<1>2. m * (q + k) = m * q + m * k /\ m * k \in Int /\ m * q \in Int
  BY <1>1
<1>3. a + m * k = m * (q + k) + r
  BY <1>1, <1>2
<1>4. q + k \in Int /\ a + m * k \in Int
  BY <1>1, <1>2
<1>5. (a + m * k) % m = r
  BY <1>1, <1>3, <1>4, Remainder
<1> QED
  BY <1>5 DEF r

LEMMA SumGrows ==
  ASSUME NEW a \in Int, NEW b \in Int, NEW c \in Int, NEW d \in Int, a <= b
  PROVE  b + c <= d => a + c <= d
OBVIOUS

(* A turn of the counters ends at the same slot. *)
LEMMA SlotAfterTurn ==
  ASSUME NEW a \in Int
  PROVE  (a + Counters) % RingFrames = a % RingFrames
<1> DEFINE k == Counters \div RingFrames
<1>1. Counters % RingFrames = 0
  BY SoundAssumption DEF SoundAssumption
<1>2. k \in Int /\ Counters = RingFrames * k + (Counters % RingFrames)
  BY Sizes, Division
<1> HIDE DEF k
<1>3. Counters = RingFrames * k
  BY <1>1, <1>2, Sizes
<1> QED
  BY <1>2, <1>3, Sizes, ModShift

(* Numbers less than m apart have different remainders. *)
LEMMA RemaindersDiffer ==
  ASSUME NEW m \in Nat, m > 0, NEW a \in Int, NEW b \in Int, a < b, b - a < m
  PROVE  a % m # b % m
<1> DEFINE q == a \div m
<1> DEFINE r == a % m
<1> DEFINE p == b \div m
<1>1. q \in Int /\ r \in 0 .. m - 1 /\ a = m * q + r
  BY Division
<1>2. p \in Int /\ b % m \in 0 .. m - 1 /\ b = m * p + (b % m)
  BY Division
<1>3. SUFFICES ASSUME b % m = r PROVE FALSE
  OBVIOUS
<1> HIDE DEF q, r, p
<1>4. b = m * p + r
  BY <1>2, <1>3
<1>5. m * p \in Int /\ m * q \in Int /\ m * (p - q) = m * p - m * q
  BY <1>1, <1>2
<1>6. m * (p - q) > 0 /\ m * (p - q) < m
  BY <1>1, <1>4, <1>5
<1>7. p - q \in Int /\ (p - q >= 1 \/ p - q <= 0)
  BY <1>1, <1>2
<1>8. CASE p - q >= 1
  <2>1. m * (p - q) >= m
    BY <1>7, <1>8
  <2> QED
    BY <2>1, <1>6, <1>5, <1>1, <1>2
<1>9. CASE p - q <= 0
  <2>1. m * (p - q) <= 0
    BY <1>7, <1>9
  <2> QED
    BY <2>1, <1>6, <1>5, <1>1, <1>2
<1> QED
  BY <1>7, <1>8, <1>9

(* Available is the distance from r up to w. *)
LEMMA AvailableIs ==
  ASSUME NEW w \in Cursors, NEW r \in Cursors
  PROVE  /\ Available(w, r) = IF w >= r THEN w - r ELSE w - r + Counters
         /\ Available(w, r) \in 0 .. Counters - 1
<1>1. w - r \in Int /\ 0 - Counters <= w - r /\ w - r < Counters
  BY Sizes DEF Cursors
<1> QED
  BY <1>1, Sizes, ModNear DEF Available, Cursors

LEMMA CursorMoves ==
  ASSUME NEW w \in Cursors, NEW k \in 0 .. Counters - 1
  PROVE  /\ (w + k) % Counters = IF w + k < Counters THEN w + k ELSE w + k - Counters
         /\ (w + k) % Counters \in Cursors
<1>1. w + k \in Int /\ 0 <= w + k /\ w + k < 2 * Counters
  BY Sizes DEF Cursors
<1> QED
  BY <1>1, Sizes, ModNear DEF Cursors

(* The writer goes on, and the reader. *)
LEMMA WriterMoves ==
  ASSUME NEW w \in Cursors, NEW r \in Cursors, NEW k \in Nat,
         Available(w, r) + k < Counters
  PROVE  Available((w + k) % Counters, r) = Available(w, r) + k
<1> DEFINE v == (w + k) % Counters
<1>1. Available(w, r) \in 0 .. Counters - 1
      /\ Available(w, r) = IF w >= r THEN w - r ELSE w - r + Counters
  BY AvailableIs
<1>2. k \in 0 .. Counters - 1
  BY <1>1, Sizes
<1>3. v \in Cursors /\ v = IF w + k < Counters THEN w + k ELSE w + k - Counters
  BY <1>2, CursorMoves
<1> HIDE DEF v
<1>4. Available(v, r) = IF v >= r THEN v - r ELSE v - r + Counters
  BY <1>3, AvailableIs
<1>5. Available(v, r) = Available(w, r) + k
  BY <1>1, <1>2, <1>3, <1>4, Sizes DEF Cursors
<1> QED
  BY <1>5 DEF v

LEMMA ReaderMoves ==
  ASSUME NEW w \in Cursors, NEW r \in Cursors, NEW k \in Nat, k <= Available(w, r)
  PROVE  Available(w, (r + k) % Counters) = Available(w, r) - k
<1> DEFINE v == (r + k) % Counters
<1>1. Available(w, r) \in 0 .. Counters - 1
      /\ Available(w, r) = IF w >= r THEN w - r ELSE w - r + Counters
  BY AvailableIs
<1>2. k \in 0 .. Counters - 1
  BY <1>1, Sizes
<1>3. v \in Cursors /\ v = IF r + k < Counters THEN r + k ELSE r + k - Counters
  BY <1>2, CursorMoves
<1> HIDE DEF v
<1>4. Available(w, v) = IF w >= v THEN w - v ELSE w - v + Counters
  BY <1>3, AvailableIs
<1>5. Available(w, v) = Available(w, r) - k
  BY <1>1, <1>2, <1>3, <1>4, Sizes DEF Cursors
<1> QED
  BY <1>5 DEF v

(* A wrapped cursor points to the same slots. *)
LEMMA SlotOfMoved ==
  ASSUME NEW c \in Cursors, NEW k \in 0 .. Counters - 1, NEW j \in Int
  PROVE  (((c + k) % Counters) + j) % RingFrames = (c + k + j) % RingFrames
<1> DEFINE d == (c + k) % Counters
<1>1. d \in Cursors /\ (d = c + k \/ d = c + k - Counters)
  BY CursorMoves
<1> HIDE DEF d
<1>2. d + j \in Int /\ (d + j = c + k + j \/ d + j + Counters = c + k + j)
  BY <1>1, Sizes DEF Cursors
<1>3. (d + j + Counters) % RingFrames = (d + j) % RingFrames
  BY <1>2, SlotAfterTurn
<1>4. (d + j) % RingFrames = (c + k + j) % RingFrames
  BY ONLY <1>2, <1>3, Zenon
<1> QED
  BY <1>4 DEF d

(* The writer's slots follow those between the cursors. *)
LEMMA SlotOfWriter ==
  ASSUME NEW w \in Cursors, NEW r \in Cursors, NEW j \in Int
  PROVE  (w + j) % RingFrames = (r + Available(w, r) + j) % RingFrames
<1> DEFINE d == Available(w, r)
<1>1. d = IF w >= r THEN w - r ELSE w - r + Counters
  BY AvailableIs
<1> HIDE DEF d
<1>2. w + j \in Int /\ (w + j = r + d + j \/ w + j + Counters = r + d + j)
  BY <1>1, Sizes DEF Cursors
<1>3. (w + j + Counters) % RingFrames = (w + j) % RingFrames
  BY <1>2, SlotAfterTurn
<1>4. (w + j) % RingFrames = (r + d + j) % RingFrames
  BY ONLY <1>2, <1>3, Zenon
<1> QED
  BY <1>4 DEF d
-------------------------------------------------------------------------------
(* The invariant. *)

Held == Available(write, read)

(* The SCSP's position is at the end of a block. *)
Types ==
  /\ pc \in {"idle", "space", "update", "copy"}
  /\ data \in [Places -> Nat] /\ samples \in [Slots -> Nat]
  /\ write \in Cursors /\ read \in Cursors
  /\ scspsoundoutleft \in 0 .. BufSize
  /\ \E j \in 0 .. Bufs : scspsoundgenpos = BlockLen * j
  /\ audiosize \in Nat /\ toWrite \in Nat /\ copied \in Nat
  /\ next \in Nat
  /\ rpc \in {"idle", "available", "copy"}
  /\ maxFrames \in Nat /\ seenWrite \in Cursors /\ n \in Nat /\ cursor \in Cursors
  /\ out \in Seq(Nat)

(* A chunk that is handed over fits the free slots, which only the reader  *)
(* changes meanwhile, and what has been copied of it lies behind the       *)
(* writer's cursor.                                                        *)
WriterInv ==
  /\ Held <= RingFrames
  /\ pc \in {"update", "copy"} =>
       /\ 0 < audiosize /\ audiosize <= scspsoundoutleft
       /\ Held + audiosize <= RingFrames
       /\ OutStart + audiosize <= BufSize
  /\ pc = "copy" =>
       /\ toWrite = audiosize /\ copied <= toWrite
       /\ \A i \in 0 .. copied - 1 :
            samples[(write + i) % RingFrames] = data[OutStart + i]

(* A read takes no more than the ring holds, whenever it looked, and what  *)
(* it has copied is still what the ring holds first.                       *)
ReaderInv ==
  /\ rpc = "available" => Available(seenWrite, read) <= Held
  /\ rpc = "copy" =>
       /\ n <= Held /\ Len(out) <= n
       /\ cursor = (read + Len(out)) % Counters
       /\ \A i \in 1 .. Len(out) : out[i] = samples[(read + i - 1) % RingFrames]

IInv == Types /\ WriterInv /\ ReaderInv

LEMMA Start == Init => IInv
<1> SUFFICES ASSUME Init PROVE IInv
  OBVIOUS
<1>1. BlockLen * 0 = 0 /\ 0 \in 0 .. Bufs /\ 0 \in Cursors /\ 0 \in 0 .. BufSize
  BY Sizes DEF Cursors
<1>2. Types
  BY <1>1 DEF Init, Types, Places, Slots
<1>3. Available(0, 0) = 0
  BY <1>1, AvailableIs
<1>4. WriterInv /\ ReaderInv
  BY <1>3, Sizes DEF Init, WriterInv, ReaderInv, Held
<1> QED
  BY <1>2, <1>4 DEF IInv

LEMMA Position ==
  ASSUME NEW j \in 0 .. Bufs
  PROVE  /\ BlockLen * j \in 0 .. BufSize
         /\ BlockLen * j + BlockLen > BufSize => BlockLen * j = BufSize
         /\ BlockLen * j + BlockLen = BlockLen * (j + 1)
<1>1. j \in Int /\ 0 <= j /\ j <= Bufs
  BY Sizes
<1>2. BlockLen * j + BlockLen = BlockLen * (j + 1) /\ BlockLen * j \in Nat
  BY <1>1, Sizes
<1>3. j <= Bufs => BlockLen * j <= BlockLen * Bufs
  BY <1>1, Sizes
<1>4. j + 1 <= Bufs => BlockLen * (j + 1) <= BlockLen * Bufs
  BY <1>1, Sizes
<1>5. j + 1 > Bufs => j = Bufs
  BY <1>1, Sizes
<1> QED
  BY <1>1, <1>2, <1>3, <1>4, <1>5, Sizes DEF BufSize

(* The three readings of the positions that the proofs need. *)
LEMMA Typed ==
  ASSUME Types
  PROVE  /\ Held \in 0 .. Counters - 1
         /\ scspsoundgenpos \in 0 .. BufSize
         /\ scspsoundoutleft > 0 =>
              /\ OutStart \in Places
              /\ OutStart = scspsoundgenpos - scspsoundoutleft
                 \/ OutStart = scspsoundgenpos - scspsoundoutleft + BufSize
<1>1. Held \in 0 .. Counters - 1
  BY AvailableIs DEF Types, Held
<1>2. PICK j \in 0 .. Bufs : scspsoundgenpos = BlockLen * j
  BY DEF Types
<1>3. scspsoundgenpos \in 0 .. BufSize
  BY <1>2, Position
<1>4. scspsoundoutleft \in 0 .. BufSize
  BY DEF Types
<1> QED
  BY <1>1, <1>3, <1>4, Sizes DEF OutStart, Places

LEMMA SpaceIs ==
  ASSUME Types, Held <= RingFrames
  PROVE  Space = RingFrames - Held
<1>1. Held \in 0 .. Counters - 1
  BY Typed
<1>2. RingFrames - Held \in Int /\ 0 <= RingFrames - Held /\ RingFrames - Held < Counters
  BY <1>1, Sizes
<1>3. (RingFrames - Held) % Counters = RingFrames - Held
  BY <1>2, Sizes, ModNear
<1> QED
  BY <1>3 DEF Space, Held

LEMMA HeldIsInt ==
  ASSUME Types, Types'
  PROVE  Held \in Int /\ Held' \in Int
<1>1. write \in Cursors /\ read \in Cursors /\ write' \in Cursors /\ read' \in Cursors
  BY DEF Types
<1>2. \A k \in 0 .. Counters - 1 : k \in Int
  OBVIOUS
<1>3. Available(write, read) \in Int /\ Available(write', read') \in Int
  BY ONLY <1>1, <1>2, AvailableIs, Zenon
<1> QED
  BY ONLY <1>3 DEF Held

(* The writer's part does not mind that the ring becomes emptier. *)
LEMMA WriterKept ==
  ASSUME IInv, Types', UNCHANGED <<pc, scspVars, callVars, samples, write>>, Held' <= Held
  PROVE  WriterInv'
<1>1. Held \in Int /\ Held' \in Int
  BY HeldIsInt DEF IInv
<1>2. OutStart' = OutStart
  BY DEF scspVars, OutStart
<1>3. WriterInv /\ audiosize \in Nat
  BY DEF IInv, Types
<1> HIDE DEF Held, OutStart
<1>4. Held' <= RingFrames
  BY <1>1, <1>3, Sizes DEF WriterInv
<1>5. Held + audiosize <= RingFrames => Held' + audiosize <= RingFrames
  <2>1. audiosize \in Int /\ RingFrames \in Int
    BY <1>3, Sizes
  <2>2. Held' <= Held
    OBVIOUS
  <2> QED
    BY ONLY <1>1, <2>1, <2>2, SumGrows
<1>6. /\ pc' = pc /\ data' = data /\ samples' = samples /\ write' = write
      /\ scspsoundoutleft' = scspsoundoutleft
      /\ audiosize' = audiosize /\ toWrite' = toWrite /\ copied' = copied
  BY DEF scspVars, callVars
<1>7. pc \in {"update", "copy"} =>
        /\ 0 < audiosize /\ audiosize <= scspsoundoutleft
        /\ Held' + audiosize <= RingFrames
        /\ OutStart + audiosize <= BufSize
  BY <1>3, <1>5 DEF WriterInv
<1>8. pc = "copy" =>
        /\ toWrite = audiosize /\ copied <= toWrite
        /\ \A i \in 0 .. copied - 1 :
             samples[(write + i) % RingFrames] = data[OutStart + i]
  BY <1>3 DEF WriterInv
<1> QED
  BY ONLY <1>2, <1>4, <1>6, <1>7, <1>8, Zenon DEF WriterInv

(* Nor the reader's that it becomes fuller, or that free slots change. *)
LEMMA ReaderKept ==
  ASSUME IInv, Types', UNCHANGED <<readVars, read>>, Held' >= Held,
         \A i \in 1 .. Held : samples'[(read + i - 1) % RingFrames]
                              = samples[(read + i - 1) % RingFrames]
  PROVE  ReaderInv'
<1>1. Held \in Int /\ Held' \in Int
  BY HeldIsInt DEF IInv
<1>2. /\ Available(seenWrite, read) \in Int /\ n \in Nat /\ Len(out) \in Nat
      /\ ReaderInv
  <2>1. Types /\ ReaderInv
    BY DEF IInv
  <2>2. seenWrite \in Cursors /\ read \in Cursors /\ n \in Nat /\ out \in Seq(Nat)
    BY ONLY <2>1 DEF Types
  <2>3. \A k \in 0 .. Counters - 1 : k \in Int
    OBVIOUS
  <2>4. Available(seenWrite, read) \in Int
    BY ONLY <2>2, <2>3, AvailableIs, Zenon
  <2>5. Len(out) \in Nat
    BY ONLY <2>2, LenProperties
  <2> QED
    BY ONLY <2>1, <2>2, <2>4, <2>5
<1> HIDE DEF Held
<1>3. rpc = "available" => Available(seenWrite, read) <= Held'
  BY <1>1, <1>2 DEF ReaderInv
<1>4. rpc = "copy" => n <= Held'
  BY <1>1, <1>2 DEF ReaderInv
<1>5. ASSUME rpc = "copy", NEW i \in 1 .. Len(out)
      PROVE  out[i] = samples'[(read + i - 1) % RingFrames]
  <2>1. i \in 1 .. Held
    BY <1>1, <1>2, <1>5 DEF ReaderInv
  <2> QED
    BY <2>1, <1>2, <1>5 DEF ReaderInv
<1> QED
  BY <1>2, <1>3, <1>4, <1>5 DEF ReaderInv, readVars
-------------------------------------------------------------------------------
(* The reader's steps. *)

LEMMA ReaderTypes == IInv /\ Reader => Types'
<1> SUFFICES ASSUME IInv, Reader PROVE Types'
  OBVIOUS
<1>1. Types
  BY DEF IInv
<1>2. CASE ReadAudio
  <2>1. maxFrames' \in Nat
    BY <1>2, SoundAssumption DEF ReadAudio, SoundAssumption
  <2> QED
    BY <1>1, <1>2, <2>1 DEF Types, ReadAudio, scspVars, callVars
<1>3. CASE LoadRead
  <2>1. Available(seenWrite, read) \in Nat
    BY <1>1, AvailableIs DEF Types
  <2>2. n' \in Nat /\ out' \in Seq(Nat) /\ cursor' \in Cursors
    BY <1>1, <1>3, <2>1 DEF Types, LoadRead, Least
  <2> QED
    BY <1>1, <1>3, <2>2 DEF Types, LoadRead, scspVars, callVars
<1>4. CASE CopyOut
  <2>1. cursor % RingFrames \in Slots
    BY <1>1, Sizes, ModRange DEF Types, Slots, Cursors
  <2>2. 1 \in 0 .. Counters - 1
    BY Sizes
  <2>3. cursor' \in Cursors
    BY <1>1, <1>4, <2>2, CursorMoves DEF Types, CopyOut
  <2>4. out' \in Seq(Nat)
    BY <1>1, <1>4, <2>1 DEF Types, CopyOut
  <2> QED
    BY <1>1, <1>4, <2>3, <2>4 DEF Types, CopyOut, scspVars, callVars
<1>5. CASE Return
  BY <1>1, <1>5 DEF Types, Return, scspVars, callVars
<1> QED
  BY <1>2, <1>3, <1>4, <1>5 DEF Reader

LEMMA ReadAudioStep == IInv /\ ReadAudio => IInv'
<1> SUFFICES ASSUME IInv, ReadAudio PROVE IInv'
  OBVIOUS
<1>1. Types'
  BY ReaderTypes DEF Reader
<1>2. Held' = Held /\ Held \in Int
  BY Typed DEF IInv, ReadAudio, Held
<1>3. WriterInv'
  <2>1. Held' <= Held
    BY <1>2
  <2> QED
    BY <1>1, <2>1, WriterKept DEF ReadAudio
<1>4. ReaderInv'
  <2>1. Available(seenWrite', read') = Held /\ rpc' = "available"
    BY DEF ReadAudio, Held
  <2>2. Available(seenWrite', read') <= Held'
    BY <1>2, <2>1
  <2> QED
    BY <2>1, <2>2 DEF ReaderInv
<1> QED
  BY <1>1, <1>3, <1>4 DEF IInv

LEMMA LoadReadStep == IInv /\ LoadRead => IInv'
<1> SUFFICES ASSUME IInv, LoadRead PROVE IInv'
  OBVIOUS
<1>1. Types'
  BY ReaderTypes DEF Reader
<1>2. Held' = Held /\ Held \in Int
  BY Typed DEF IInv, LoadRead, Held
<1>3. WriterInv'
  <2>1. Held' <= Held
    BY <1>2
  <2> QED
    BY <1>1, <2>1, WriterKept DEF LoadRead
<1>4. ReaderInv'
  <2>1. Available(seenWrite, read) \in Int /\ maxFrames \in Nat /\ read \in Cursors
    BY AvailableIs DEF IInv, Types
  <2>2. Available(seenWrite, read) <= Held
    BY DEF IInv, ReaderInv, LoadRead
  <2>3. n' <= Held /\ n' >= 0
    <3>1. n' = Least(maxFrames, Available(seenWrite, read))
      BY DEF LoadRead
    <3>2. Available(seenWrite, read) >= 0
      BY AvailableIs DEF IInv, Types
    <3> QED
      BY <1>2, <2>1, <2>2, <3>1, <3>2 DEF Least
  <2>4. read' = read /\ cursor' = read /\ out' = <<>> /\ rpc' = "copy" /\ Len(<<>>) = 0
    BY DEF LoadRead
  <2>5. (read + 0) % Counters = read
    BY <2>1, Sizes, ModNear DEF Cursors
  <2>6. n' <= Held' /\ Len(out') <= n' /\ cursor' = (read' + Len(out')) % Counters
    BY <1>2, <2>3, <2>4, <2>5
  <2>7. \A i \in 1 .. Len(out') : out'[i] = samples'[(read' + i - 1) % RingFrames]
    BY <2>4
  <2> QED
    BY <2>4, <2>6, <2>7 DEF ReaderInv
<1> QED
  BY <1>1, <1>3, <1>4 DEF IInv

LEMMA CopyOutStep == IInv /\ CopyOut => IInv'
<1> SUFFICES ASSUME IInv, CopyOut PROVE IInv'
  OBVIOUS
<1>1. Types'
  BY ReaderTypes DEF Reader
<1>2. Held' = Held /\ Held \in 0 .. Counters - 1
  BY Typed DEF IInv, CopyOut, Held
<1>3. WriterInv'
  <2>1. Held' <= Held
    BY <1>2
  <2> QED
    BY <1>1, <2>1, WriterKept DEF CopyOut
<1>4. ReaderInv'
  <2> DEFINE k == Len(out)
  <2>1. /\ read \in Cursors /\ out \in Seq(Nat) /\ n \in Nat /\ k \in Nat
        /\ samples \in [Slots -> Nat]
    BY DEF IInv, Types
  <2>2. /\ k < n /\ n <= Held /\ cursor = (read + k) % Counters
        /\ \A i \in 1 .. k : out[i] = samples[(read + i - 1) % RingFrames]
    BY DEF IInv, ReaderInv, CopyOut
  <2>3. /\ out' = Append(out, samples[cursor % RingFrames])
        /\ cursor' = (cursor + 1) % Counters
        /\ read' = read /\ samples' = samples /\ n' = n /\ rpc' = rpc /\ rpc = "copy"
    BY DEF CopyOut
  <2>4. Len(out') = k + 1
    BY <2>1, <2>3
  <2>5. k \in 0 .. Counters - 1 /\ k + 1 \in 0 .. Counters - 1
    BY <1>2, <2>1, <2>2, Sizes
  <2> HIDE DEF k
  <2>6. cursor % RingFrames = (read + k) % RingFrames
    <3>1. (((read + k) % Counters) + 0) % RingFrames = (read + k + 0) % RingFrames
      BY <2>1, <2>5, SlotOfMoved
    <3>2. ((read + k) % Counters) + 0 = cursor /\ read + k + 0 = read + k
      <4>1. (read + k) % Counters \in Cursors
        BY <2>1, <2>5, CursorMoves
      <4> QED
        BY <2>1, <2>2, <2>5, <4>1 DEF Cursors
    <3> QED
      BY ONLY <3>1, <3>2, Zenon
  <2>7. cursor' = (read + (k + 1)) % Counters
    <3>1. cursor = IF read + k < Counters THEN read + k ELSE read + k - Counters
      BY <2>1, <2>2, <2>5, CursorMoves
    <3>2. (read + (k + 1)) % Counters =
            IF read + (k + 1) < Counters THEN read + (k + 1) ELSE read + (k + 1) - Counters
      BY <2>1, <2>5, CursorMoves
    <3>3. cursor \in Cursors /\ 1 \in 0 .. Counters - 1
      BY Sizes DEF IInv, Types
    <3>4. (cursor + 1) % Counters =
            IF cursor + 1 < Counters THEN cursor + 1 ELSE cursor + 1 - Counters
      BY <3>3, CursorMoves
    <3> QED
      BY <2>1, <2>3, <2>5, <3>1, <3>2, <3>3, <3>4, Sizes DEF Cursors
  <2>8. ASSUME NEW i \in 1 .. k + 1
        PROVE  out'[i] = samples[(read + i - 1) % RingFrames]
    <3>1. CASE i \in 1 .. k
      BY <2>1, <2>2, <2>3, <3>1 DEF k
    <3>2. CASE i = k + 1
      <4>1. out'[i] = samples[cursor % RingFrames]
        BY <2>1, <2>3, <3>2 DEF k
      <4>2. read + i - 1 = read + k
        BY <2>1, <2>5, <3>2 DEF Cursors
      <4> QED
        BY <4>1, <4>2, <2>6
    <3> QED
      BY <2>5, <3>1, <3>2
  <2>9. n' <= Held' /\ Len(out') <= n' /\ cursor' = (read' + Len(out')) % Counters
    BY <1>2, <2>1, <2>2, <2>3, <2>4, <2>5, <2>7
  <2>10. \A i \in 1 .. Len(out') : out'[i] = samples'[(read' + i - 1) % RingFrames]
    BY <2>3, <2>4, <2>8
  <2> QED
    BY <2>3, <2>9, <2>10 DEF ReaderInv
<1> QED
  BY <1>1, <1>3, <1>4 DEF IInv

(* What is returned is what the ring held first. *)
LEMMA ReturnIs ==
  ASSUME IInv, Return
  PROVE  /\ n \in 0 .. Held
         /\ read' = (read + n) % Counters
         /\ Held' = Held - n
         /\ Len(out) = n /\ got' = out
         /\ \A i \in 1 .. n : out[i] = samples[(read + i - 1) % RingFrames]
<1>1. read \in Cursors /\ write \in Cursors /\ n \in Nat
  BY DEF IInv, Types
<1>2. /\ Len(out) = n /\ n <= Held /\ cursor = (read + Len(out)) % Counters
      /\ \A i \in 1 .. Len(out) : out[i] = samples[(read + i - 1) % RingFrames]
  BY DEF IInv, ReaderInv, Return
<1>3. Held \in 0 .. Counters - 1
  BY Typed DEF IInv
<1>4. Available(write, (read + n) % Counters) = Available(write, read) - n
  BY <1>1, <1>2, ReaderMoves DEF Held
<1> QED
  BY <1>1, <1>2, <1>3, <1>4 DEF Return, Held

LEMMA ReturnStep == IInv /\ Return => IInv'
<1> SUFFICES ASSUME IInv, Return PROVE IInv'
  OBVIOUS
<1>1. Types'
  BY ReaderTypes DEF Reader
<1>2. Held' = Held - n /\ n \in 0 .. Held /\ Held \in 0 .. Counters - 1
  BY ReturnIs, Typed DEF IInv
<1>3. Held' <= Held
  BY <1>2
<1>4. WriterInv'
  BY <1>1, <1>3, WriterKept DEF Return
<1>5. ReaderInv'
  BY DEF ReaderInv, Return
<1> QED
  BY <1>1, <1>4, <1>5 DEF IInv
-------------------------------------------------------------------------------
(* The emulation thread's steps. *)

(* The block that Generate writes: where it starts, how many of the oldest *)
(* samples it overwrites, and where it stands in the buffer.               *)
GenPos == IF scspsoundgenpos + BlockLen > BufSize THEN 0 ELSE scspsoundgenpos

Overrun ==
  IF scspsoundoutleft + BlockLen > BufSize
  THEN scspsoundoutleft + BlockLen - BufSize ELSE 0

LEMMA GenerateIs ==
  ASSUME Types, Generate
  PROVE  /\ GenPos \in 0 .. BufSize - BlockLen
         /\ \E j \in 0 .. Bufs : GenPos + BlockLen = BlockLen * j
         /\ GenPos = scspsoundgenpos \/ (GenPos = 0 /\ scspsoundgenpos = BufSize)
         /\ Overrun \in 0 .. scspsoundoutleft
         /\ Overrun > 0 => scspsoundoutleft + BlockLen > BufSize
         /\ scspsoundoutleft' = scspsoundoutleft - Overrun + BlockLen
         /\ scspsoundoutleft' \in 0 .. BufSize
         /\ scspsoundgenpos' = GenPos + BlockLen
         /\ data' = [i \in Places |-> IF i \in GenPos .. GenPos + BlockLen - 1
                                     THEN next + i - GenPos ELSE data[i]]
<1>1. PICK j \in 0 .. Bufs : scspsoundgenpos = BlockLen * j
  BY DEF Types
<1>2. /\ scspsoundgenpos \in 0 .. BufSize
      /\ scspsoundgenpos + BlockLen > BufSize => scspsoundgenpos = BufSize
      /\ scspsoundgenpos + BlockLen = BlockLen * (j + 1)
  BY <1>1, Position
<1>3. GenPos = scspsoundgenpos \/ (GenPos = 0 /\ scspsoundgenpos = BufSize)
  BY <1>2, Sizes DEF GenPos
<1>4. GenPos \in 0 .. BufSize - BlockLen
  BY <1>2, Sizes DEF GenPos
<1>5. \E k \in 0 .. Bufs : GenPos + BlockLen = BlockLen * k
  <2>1. CASE GenPos = 0
    <3>1. GenPos + BlockLen = BlockLen * 1 /\ 1 \in 0 .. Bufs
      BY <2>1, Sizes
    <3> QED
      BY <3>1
  <2>2. CASE GenPos # 0
    <3>1. GenPos = scspsoundgenpos /\ scspsoundgenpos + BlockLen <= BufSize
      BY <2>2, <1>2, Sizes DEF GenPos
    <3>2. j \in Int /\ 0 <= j /\ j <= Bufs
      BY Sizes
    <3>3. j # Bufs
      BY <1>1, <3>1, Sizes DEF BufSize
    <3>4. j + 1 \in 0 .. Bufs
      BY <3>2, <3>3, Sizes
    <3>5. GenPos + BlockLen = BlockLen * (j + 1)
      BY <3>1, <1>2
    <3> QED
      BY <3>4, <3>5
  <2> QED
    BY <2>1, <2>2
<1>6. scspsoundoutleft \in 0 .. BufSize
  BY DEF Types
<1>7. /\ Overrun \in 0 .. scspsoundoutleft
      /\ Overrun > 0 => scspsoundoutleft + BlockLen > BufSize
  BY <1>6, Sizes DEF Overrun
<1>8. /\ scspsoundoutleft' = scspsoundoutleft - Overrun + BlockLen
      /\ scspsoundgenpos' = GenPos + BlockLen
  BY DEF Generate, GenPos, Overrun
<1>9. scspsoundoutleft' \in 0 .. BufSize
  BY <1>6, <1>8, Sizes DEF Overrun
<1>10. DOMAIN data = Places
  BY DEF Types
<1>11. data' = [i \in Places |-> IF i \in GenPos .. GenPos + BlockLen - 1
                                THEN next + i - GenPos ELSE data[i]]
  BY <1>10 DEF Generate, GenPos
<1> QED
  BY <1>3, <1>4, <1>5, <1>7, <1>8, <1>9, <1>11

LEMMA GenerateStep == IInv /\ Generate => IInv'
<1> SUFFICES ASSUME IInv, Generate PROVE IInv'
  OBVIOUS
<1>1. Types
  BY DEF IInv
<1>2. Types'
  <2>1. next \in Nat /\ data \in [Places -> Nat]
    BY <1>1 DEF Types
  <2>2. GenPos \in Int /\ 0 <= GenPos
    BY <1>1, GenerateIs, Sizes
  <2>3. data' = [i \in Places |-> IF i \in GenPos .. GenPos + BlockLen - 1
                                THEN next + i - GenPos ELSE data[i]]
    BY <1>1, GenerateIs
  <2>4. \A i \in Places : i \in GenPos .. GenPos + BlockLen - 1 => next + i - GenPos \in Nat
    BY <2>1, <2>2, Sizes DEF Places
  <2>5. data' \in [Places -> Nat]
    BY <2>1, <2>3, <2>4
  <2>6. scspsoundoutleft' \in 0 .. BufSize
        /\ \E j \in 0 .. Bufs : scspsoundgenpos' = BlockLen * j
    BY <1>1, GenerateIs
  <2>7. next' \in Nat
    BY <2>1, Sizes DEF Generate
  <2> QED
    BY <1>1, <2>5, <2>6, <2>7, Zenon DEF Types, Generate, callVars, readVars
<1>3. Held' = Held /\ Held \in Int
  BY <1>1, Typed DEF Generate, Held
<1>4. WriterInv'
  <2>1. pc' = "space" /\ Held <= RingFrames
    BY DEF Generate, IInv, WriterInv
  <2> QED
    BY <2>1, <1>3 DEF WriterInv
<1>5. ReaderInv'
  <2>1. Held' >= Held
    BY <1>3
  <2> QED
    BY <1>2, <2>1, ReaderKept DEF Generate
<1> QED
  BY <1>2, <1>4, <1>5 DEF IInv

LEMMA LineWithoutBlockStep == IInv /\ LineWithoutBlock => IInv'
<1> SUFFICES ASSUME IInv, LineWithoutBlock PROVE IInv'
  OBVIOUS
<1>1. Types'
  BY Zenon DEF IInv, Types, LineWithoutBlock, scspVars, callVars, readVars
<1>2. Held' = Held /\ Held \in Int
  BY Typed DEF IInv, LineWithoutBlock, Held
<1>3. WriterInv'
  BY <1>2 DEF IInv, WriterInv, LineWithoutBlock
<1>4. ReaderInv'
  <2>1. Held' >= Held
    BY <1>2
  <2> QED
    BY <1>1, <2>1, ReaderKept DEF LineWithoutBlock
<1> QED
  BY <1>1, <1>3, <1>4 DEF IInv

LEMMA HandOverStep == IInv /\ HandOver => IInv'
<1> SUFFICES ASSUME IInv, HandOver PROVE IInv'
  OBVIOUS
<1>1. Types /\ Held <= RingFrames
  BY DEF IInv, WriterInv
<1>2. Space = RingFrames - Held /\ Held \in Nat
  BY <1>1, SpaceIs, Typed, Sizes
<1>3. Held' = Held
  BY DEF HandOver, Held
<1>4. \/ pc' = "idle" /\ audiosize' = audiosize
      \/ /\ pc' = "update" /\ audiosize' \in Nat
         /\ 0 < audiosize' /\ audiosize' <= scspsoundoutleft
         /\ Held + audiosize' <= RingFrames
         /\ OutStart + audiosize' <= BufSize
  <2>1. CASE scspsoundoutleft > 0 /\ Space > 0
    <3>1. audiosize' = Least(Least(Space, scspsoundoutleft), BufSize - OutStart)
          /\ pc' = "update"
      BY <2>1 DEF HandOver
    <3>2. OutStart \in 0 .. BufSize - 1 /\ scspsoundoutleft \in 0 .. BufSize
      BY <1>1, <2>1, Typed DEF Places, Types
    <3> HIDE DEF OutStart, Space, Held
    <3> QED
      BY <1>2, <2>1, <3>1, <3>2, Sizes DEF Least
  <2>2. CASE ~(scspsoundoutleft > 0 /\ Space > 0)
    BY <2>2 DEF HandOver
  <2> QED
    BY <2>1, <2>2
<1>5. Types'
  <2>1. pc' \in {"idle", "space", "update", "copy"} /\ audiosize' \in Nat
    BY <1>1, <1>4 DEF Types
  <2> QED
    BY <1>1, <2>1, Zenon DEF Types, HandOver, scspVars, readVars
<1>6. WriterInv'
  <2>1. OutStart' = OutStart /\ scspsoundoutleft' = scspsoundoutleft
    BY DEF OutStart, HandOver, scspVars
  <2> HIDE DEF OutStart, Held
  <2> QED
    BY <1>1, <1>3, <1>4, <2>1 DEF WriterInv
<1>7. ReaderInv'
  <2>1. Held' >= Held
    BY <1>2, <1>3
  <2> QED
    BY <1>5, <2>1, ReaderKept DEF HandOver
<1> QED
  BY <1>5, <1>6, <1>7 DEF IInv

LEMMA UpdateAudioStep == IInv /\ UpdateAudio => IInv'
<1> SUFFICES ASSUME IInv, UpdateAudio PROVE IInv'
  OBVIOUS
<1>1. Types /\ Held <= RingFrames /\ audiosize \in Nat
  BY DEF IInv, WriterInv, Types
<1>2. Space = RingFrames - Held /\ Held \in Nat
  BY <1>1, SpaceIs, Typed, Sizes
<1>3. /\ 0 < audiosize /\ audiosize <= scspsoundoutleft
      /\ Held + audiosize <= RingFrames
      /\ OutStart + audiosize <= BufSize
  BY DEF IInv, WriterInv, UpdateAudio
<1>4. toWrite' = audiosize
  <2>1. toWrite' = Least(audiosize, Space)
    BY DEF UpdateAudio
  <2> HIDE DEF Held, Space
  <2> QED
    BY <1>1, <1>2, <1>3, <2>1, Sizes DEF Least
<1>5. Types'
  <2>1. pc' \in {"idle", "space", "update", "copy"} /\ toWrite' \in Nat /\ copied' \in Nat
    BY <1>1, <1>4 DEF UpdateAudio
  <2> QED
    BY <1>1, <2>1, Zenon DEF Types, UpdateAudio, scspVars, readVars
<1>6. Held' = Held
  BY DEF UpdateAudio, Held
<1>7. WriterInv'
  <2>1. /\ OutStart' = OutStart /\ scspsoundoutleft' = scspsoundoutleft
        /\ audiosize' = audiosize /\ pc' = "copy" /\ copied' = 0
    BY DEF OutStart, UpdateAudio, scspVars
  <2> HIDE DEF OutStart, Held
  <2>2. \A i \in 0 .. copied' - 1 :
          samples'[(write' + i) % RingFrames] = data'[OutStart' + i]
    BY <2>1
  <2>3. copied' <= toWrite'
    BY <2>1, <1>4, <1>1
  <2> QED
    BY <1>1, <1>3, <1>4, <1>6, <2>1, <2>2, <2>3 DEF WriterInv
<1>8. ReaderInv'
  <2>1. Held' >= Held
    BY <1>2, <1>6
  <2> QED
    BY <1>5, <2>1, ReaderKept DEF UpdateAudio
<1> QED
  BY <1>5, <1>7, <1>8 DEF IInv
(* A copied sample does not touch a slot that holds one. *)
LEMMA CopyInIs ==
  ASSUME IInv, CopyIn
  PROVE  LET slot == (write + copied) % RingFrames IN
         /\ slot \in Slots
         /\ \A i \in 1 .. Held : (read + i - 1) % RingFrames # slot
         /\ \A i \in 0 .. copied - 1 : (write + i) % RingFrames # slot
         /\ OutStart + copied \in Places
<1> DEFINE slot == (write + copied) % RingFrames
<1>1. /\ write \in Cursors /\ read \in Cursors /\ copied \in Nat /\ audiosize \in Nat
      /\ Held \in 0 .. Counters - 1
      /\ scspsoundoutleft \in 0 .. BufSize
  BY Typed DEF IInv, Types
<1>2. /\ copied < audiosize /\ Held + audiosize <= RingFrames
      /\ OutStart + audiosize <= BufSize /\ scspsoundoutleft > 0
  <2>1. /\ copied < toWrite /\ toWrite = audiosize /\ Held + audiosize <= RingFrames
        /\ OutStart + audiosize <= BufSize
        /\ 0 < audiosize /\ audiosize <= scspsoundoutleft
    BY DEF IInv, WriterInv, CopyIn
  <2> HIDE DEF Held, OutStart
  <2> QED
    BY <1>1, <2>1, Sizes
<1>3. slot \in Slots
  BY <1>1, Sizes, ModRange DEF Slots, Cursors
<1>4. OutStart + copied \in Places
  <2>1. OutStart \in 0 .. BufSize - 1
    BY <1>2, Typed DEF IInv, Places
  <2> HIDE DEF OutStart, Held
  <2> QED
    BY <1>1, <1>2, <2>1, Sizes DEF Places
<1>5. ASSUME NEW i \in 0 .. copied - 1
      PROVE  (write + i) % RingFrames # slot
  <2>1. /\ write + i \in Int /\ write + copied \in Int /\ write + i < write + copied
        /\ (write + copied) - (write + i) < RingFrames
    BY <1>1, <1>2, Sizes DEF Cursors
  <2> QED
    BY <2>1, Sizes, RemaindersDiffer
<1>6. ASSUME NEW i \in 1 .. Held
      PROVE  (read + i - 1) % RingFrames # slot
  <2>1. slot = (read + Held + copied) % RingFrames
    BY <1>1, SlotOfWriter DEF Held
  <2> HIDE DEF Held
  <2>2. /\ read + i - 1 \in Int /\ read + Held + copied \in Int
        /\ read + i - 1 < read + Held + copied
        /\ (read + Held + copied) - (read + i - 1) < RingFrames
    BY <1>1, <1>2, Sizes DEF Cursors
  <2>3. (read + i - 1) % RingFrames # (read + Held + copied) % RingFrames
    BY <2>2, Sizes, RemaindersDiffer
  <2> QED
    BY <2>1, <2>3
<1> QED
  BY <1>3, <1>4, <1>5, <1>6

LEMMA CopyInStep == IInv /\ CopyIn => IInv'
<1> SUFFICES ASSUME IInv, CopyIn PROVE IInv'
  OBVIOUS
<1> DEFINE slot == (write + copied) % RingFrames
<1>1. /\ slot \in Slots
      /\ \A i \in 1 .. Held : (read + i - 1) % RingFrames # slot
      /\ \A i \in 0 .. copied - 1 : (write + i) % RingFrames # slot
      /\ OutStart + copied \in Places
  BY CopyInIs
<1>2. /\ data \in [Places -> Nat] /\ samples \in [Slots -> Nat] /\ copied \in Nat
      /\ read \in Cursors /\ write \in Cursors /\ Held \in 0 .. Counters - 1
      /\ toWrite \in Nat
  BY Typed DEF IInv, Types
<1>3. samples' = [samples EXCEPT ![slot] = data[OutStart + copied]]
      /\ copied' = copied + 1
  BY DEF CopyIn
<1> HIDE DEF slot
<1>4. Types'
  <2>1. samples' \in [Slots -> Nat] /\ copied' \in Nat
    BY <1>1, <1>2, <1>3
  <2> QED
    BY <2>1, Zenon DEF IInv, Types, CopyIn, scspVars, readVars
<1>5. Held' = Held
  BY DEF CopyIn, Held
<1>6. \A x \in Slots : x # slot => samples'[x] = samples[x]
  BY <1>2, <1>3
<1>7. samples'[slot] = data[OutStart + copied]
  BY <1>1, <1>2, <1>3
<1>8. WriterInv'
  <2>1. /\ OutStart' = OutStart /\ scspsoundoutleft' = scspsoundoutleft
        /\ audiosize' = audiosize /\ toWrite' = toWrite /\ pc' = pc /\ pc = "copy"
        /\ write' = write /\ data' = data
    BY DEF OutStart, CopyIn, scspVars
  <2>2. /\ Held <= RingFrames
        /\ 0 < audiosize /\ audiosize <= scspsoundoutleft
        /\ Held + audiosize <= RingFrames
        /\ OutStart + audiosize <= BufSize
        /\ toWrite = audiosize
        /\ copied < toWrite
        /\ \A i \in 0 .. copied - 1 :
             samples[(write + i) % RingFrames] = data[OutStart + i]
    BY <2>1 DEF IInv, WriterInv, CopyIn
  <2> HIDE DEF OutStart, Held
  <2>3. ASSUME NEW i \in 0 .. copied'- 1
        PROVE  samples'[(write + i) % RingFrames] = data[OutStart + i]
    <3>1. CASE i = copied
      BY <3>1, <1>7 DEF slot
    <3>2. CASE i \in 0 .. copied - 1
      <4>1. (write + i) % RingFrames \in Slots
        <5>1. write + i \in Int
          BY <1>2, <3>2 DEF Cursors
        <5> QED
          BY <5>1, Sizes, ModRange DEF Slots
      <4>2. samples'[(write + i) % RingFrames] = samples[(write + i) % RingFrames]
        BY <1>1, <1>6, <3>2, <4>1
      <4> QED
        BY <2>2, <3>2, <4>2
    <3> QED
      BY <1>2, <1>3, <3>1, <3>2
  <2>4. copied' <= toWrite
    BY <1>2, <1>3, <2>2
  <2> QED
    BY <1>5, <2>1, <2>2, <2>3, <2>4 DEF WriterInv
<1>9. ReaderInv'
  <2>1. Held' >= Held
    BY <1>2, <1>5
  <2>2. ASSUME NEW i \in 1 .. Held
        PROVE  samples'[(read + i - 1) % RingFrames] = samples[(read + i - 1) % RingFrames]
    <3>1. read + i - 1 \in Int
      BY <1>2 DEF Cursors
    <3>2. (read + i - 1) % RingFrames \in Slots
      BY <3>1, Sizes, ModRange DEF Slots
    <3> QED
      BY <1>1, <1>6, <3>2
  <2> QED
    BY <1>4, <2>1, <2>2, ReaderKept DEF CopyIn
<1> QED
  BY <1>4, <1>8, <1>9 DEF IInv

(* The chunk that is published follows what the ring held. *)
LEMMA PublishIs ==
  ASSUME IInv, Publish
  PROVE  /\ audiosize \in 1 .. scspsoundoutleft
         /\ Held' = Held + audiosize
         /\ Held + audiosize <= RingFrames
         /\ scspsoundoutleft' = scspsoundoutleft - audiosize
         /\ OutStart + audiosize <= BufSize
         /\ write' \in Cursors
         /\ \A i \in 0 .. audiosize - 1 :
              samples[(write + i) % RingFrames] = data[OutStart + i]
<1>1. /\ write \in Cursors /\ read \in Cursors /\ audiosize \in Nat
      /\ Held \in 0 .. Counters - 1 /\ scspsoundoutleft \in 0 .. BufSize
  BY Typed DEF IInv, Types
<1>2. /\ copied = toWrite /\ toWrite = audiosize
      /\ 0 < audiosize /\ audiosize <= scspsoundoutleft
      /\ Held + audiosize <= RingFrames
      /\ OutStart + audiosize <= BufSize
      /\ \A i \in 0 .. copied - 1 :
           samples[(write + i) % RingFrames] = data[OutStart + i]
  BY DEF IInv, WriterInv, Publish
<1>3. write' = (write + audiosize) % Counters /\ read' = read
      /\ scspsoundoutleft' = scspsoundoutleft - audiosize
  BY <1>2 DEF Publish
<1>4. Held' = Held + audiosize /\ write' \in Cursors
  <2>1. audiosize \in 0 .. Counters - 1 /\ Available(write, read) + audiosize < Counters
    BY <1>1, <1>2, Sizes DEF Held
  <2>2. Available((write + audiosize) % Counters, read) = Available(write, read) + audiosize
    BY <1>1, <2>1, WriterMoves
  <2>3. (write + audiosize) % Counters \in Cursors
    BY <1>1, <2>1, CursorMoves
  <2> QED
    BY <1>3, <2>2, <2>3 DEF Held
<1>5. audiosize \in 1 .. scspsoundoutleft
  BY <1>1, <1>2
<1> QED
  BY <1>2, <1>3, <1>4, <1>5

LEMMA PublishStep == IInv /\ Publish => IInv'
<1> SUFFICES ASSUME IInv, Publish PROVE IInv'
  OBVIOUS
<1>1. /\ audiosize \in 1 .. scspsoundoutleft
      /\ Held' = Held + audiosize /\ Held + audiosize <= RingFrames
      /\ scspsoundoutleft' = scspsoundoutleft - audiosize /\ write' \in Cursors
  BY PublishIs
<1>2. scspsoundoutleft \in 0 .. BufSize /\ Held \in Int
  BY Typed DEF IInv, Types
<1>3. scspsoundoutleft' \in 0 .. BufSize
  BY <1>1, <1>2, Sizes
<1>4. pc' = "space"
  BY DEF Publish
<1>5. Types'
  BY <1>1, <1>3, <1>4, Zenon DEF IInv, Types, Publish, callVars, readVars
<1>6. WriterInv'
  BY <1>1, <1>4 DEF WriterInv
<1>7. ReaderInv'
  <2>1. Held' >= Held
    <3> HIDE DEF Held
    <3>1. audiosize \in Int /\ 0 <= audiosize
      BY <1>1, <1>2
    <3> QED
      BY <1>1, <1>2, <3>1
  <2> QED
    BY <1>5, <2>1, ReaderKept DEF Publish
<1> QED
  BY <1>5, <1>6, <1>7 DEF IInv

LEMMA NewSessionStep == IInv /\ NewSession => IInv'
<1> SUFFICES ASSUME IInv, NewSession PROVE IInv'
  OBVIOUS
<1>1. BlockLen * 0 = 0 /\ 0 \in 0 .. Bufs /\ 0 \in Cursors /\ 0 \in 0 .. BufSize
  BY Sizes DEF Cursors
<1>2. data' \in [Places -> Nat] /\ scspsoundgenpos' = BlockLen * 0
  BY <1>1 DEF NewSession, Places
<1>3. Types'
  BY <1>1, <1>2, Zenon DEF IInv, Types, NewSession, callVars, readVars
<1>4. Held' = 0
  BY <1>1, AvailableIs DEF NewSession, Held
<1>5. WriterInv' /\ ReaderInv'
  BY <1>4, Sizes DEF NewSession, readVars, WriterInv, ReaderInv
<1> QED
  BY <1>3, <1>5 DEF IInv

LEMMA Stuttering == IInv /\ UNCHANGED vars => IInv'
BY DEF IInv, Types, WriterInv, ReaderInv, Held, Available, OutStart, vars, scspVars,
       callVars, readVars

THEOREM Invariance == Spec => []IInv
<1>1. IInv /\ [Next]_vars => IInv'
  BY ReadAudioStep, LoadReadStep, CopyOutStep, ReturnStep, GenerateStep,
     LineWithoutBlockStep, HandOverStep, UpdateAudioStep, CopyInStep, PublishStep,
     NewSessionStep, Stuttering DEF Next, Emulation, Reader
<1> QED
  BY Start, <1>1, PTL DEF Spec

(* WithinCapacity: whatever the wrapped cursors say while the two threads  *)
(* interleave, neither buffer ever holds more than it has room for.        *)
THEOREM CapacityKept == Spec => []WithinCapacity
<1>1. IInv => WithinCapacity
  BY DEF IInv, Types, WriterInv, Held, WithinCapacity
<1> QED
  BY Invariance, <1>1, PTL
===============================================================================
