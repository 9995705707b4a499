---------------------------- MODULE CdBlockProofs ----------------------------
(***************************************************************************)
(* What CdBlock promises for every disc, filter setting, pool and number   *)
(* of commands: the pool is counted right, the drive knows when it is      *)
(* full, a transfer keeps its sectors, and the reports, the answers and    *)
(* the delayed interrupts do not overtake each other.  It implements       *)
(* SectorRead: however the play is paused, resumed, repeated and           *)
(* superseded, its sectors arrive in order, each once, and none arrives    *)
(* without a play, but for one that comes back.                            *)
(***************************************************************************)
EXTENDS CdBlock, FiniteSetTheorems, SequenceTheorems, TLAPS

PortInv ==
  /\ phase \in {"idle", "writing", "waiting", "answered"} /\ issues \in 0 .. Issues
  /\ CR \in {"command", "response", "report"} /\ cmd \in Requests
  /\ _command \in BOOLEAN /\ _commandtiming \in BOOLEAN
  /\ _commandtiming => phase = "waiting"
  /\ phase # "idle" => _command
  /\ phase \in {"writing", "waiting"} => CR = "command"
  /\ phase = "answered" => CR = "response"

(* Only the interrupt that the lock delays is owed. *)
LockInv ==
  /\ _command_execlock \in BOOLEAN /\ _delay_irq \in {"none", "ESEL", "EHST"}
  /\ owed \subseteq {"ESEL", "EHST"}
  /\ owed \subseteq (IF _command_execlock THEN {_delay_irq} ELSE {})

DriveInv ==
  /\ status \in {"PAUSE", "SEEK", "PLAY", "BUSY", "STANDBY"}
  /\ nextStatus \in {None, "PAUSE", "STANDBY"} /\ (status = "BUSY" => nextStatus # None)
  /\ FAD \in First .. Never /\ playFAD \in First .. Never /\ playendFAD \in First .. Never
  /\ repcnt \in 0 .. 255 /\ maxrepeat \in Repeats \cup {0}
  /\ bufferfullpause \in BOOLEAN /\ outconcddev \in BOOLEAN
  /\ playing \in BOOLEAN /\ PEND \in BOOLEAN

Counts ==
  /\ partition \in [Partitions -> Seq(Sectors)] /\ numblocks \in [Partitions -> Nat]
  /\ \A p \in Partitions : numblocks[p] = Len(partition[p]) /\ numblocks[p] <= MAX_BLOCKS
  /\ blockfreespace \in Nat /\ IsFiniteSet(AllBlocks)
  /\ Cardinality(AllBlocks) = MAX_BLOCKS - blockfreespace

(* A full buffer is forgotten only while it is full. *)
Fullness ==
  /\ isbufferfull \in BOOLEAN /\ forgotten \in BOOLEAN
  /\ isbufferfull <=> blockfreespace = 0 /\ ~forgotten
  /\ forgotten => blockfreespace = 0

TransferTypes ==
  /\ open \in Partitions \cup {None} /\ promised \in Seq(Sectors)
  /\ datatranstype \in {"INVALID", "GETSECTOR", "GETDELSECTOR"}
  /\ datatranspartition \in Partitions \cup {None} /\ datatranspartitionnum \in Partitions
  /\ datatranssectpos \in 0 .. MAX_BLOCKS /\ datasectstotrans \in 0 .. MAX_BLOCKS
  /\ datanumsecttrans \in 0 .. datasectstotrans

(* A transfer that deletes is open until it ends; the number of the        *)
(* partition is that of a transfer that does not delete.                   *)
TransferInv ==
  /\ datatranstype = "GETDELSECTOR" => open # None
  /\ open # None /\ datatranstype = "GETSECTOR" => datatranspartitionnum = open
  /\ TransferIntact

(* What the program could ask for stays allowed until it is executed. *)
RequestInv == phase \in {"writing", "waiting"} => Allowed(cmd)

IInv ==
  /\ PortInv /\ LockInv /\ DriveInv /\ Counts /\ Fullness
  /\ TransferTypes /\ TransferInv /\ RequestInv
-------------------------------------------------------------------------------
(* The requests. *)
LEMMA RequestShape ==
  ASSUME NEW c \in Requests
  PROVE  /\ c.op \in {"Get", "GetThenDelete", "Delete"} =>
              /\ c.part \in Partitions
              /\ c.sel.pos \in {0, 1, Sentinel} /\ c.sel.n \in 0 .. MAX_BLOCKS \cup {Sentinel}
              /\ c.sel.pos = Sentinel => c.sel.n = 1
         /\ c.op = "ResetPartition" => c.part \in Partitions
         /\ c.op \in {"Play", "PlayOn"} => c.range \in Plays /\ c.repeats \in Repeats
         /\ c.op = "ReadFile" => c.range \in Plays
         /\ c.op = "Seek" => c.fad \in Sectors
         /\ c.op = "Initialize" => c.clear \in BOOLEAN
         /\ c.op = "Connect" => c.on \in BOOLEAN
<1>1. CASE c \in [op : {"GetStatus", "Refresh", "SeekPause", "SeekStop", "AbortFile",
                      "EndDataTransfer", "ResetFilters", "ResetAll"}]
  BY <1>1
<1>2. CASE c \in [op : {"Play", "PlayOn"}, range : Plays, repeats : Repeats]
  BY <1>2
<1>3. CASE c \in [op : {"ReadFile"}, range : Plays]
  BY <1>3
<1>4. CASE c \in [op : {"Seek"}, fad : Sectors]
  BY <1>4
<1>5. CASE c \in [op : {"Initialize"}, clear : BOOLEAN]
  BY <1>5
<1>6. CASE c \in [op : {"Connect"}, on : BOOLEAN]
  BY <1>6
<1>7. CASE c \in [op : {"ResetPartition"}, part : Partitions]
  BY <1>7
<1>8. ASSUME NEW p \in Partitions,
             c \in [op : {"Get", "GetThenDelete", "Delete"}, part : {p}, sel : Selections(p)]
      PROVE  /\ c.op \in {"Get", "GetThenDelete", "Delete"} /\ c.part \in Partitions
             /\ c.sel.pos \in {0, 1, Sentinel} /\ c.sel.n \in 0 .. MAX_BLOCKS \cup {Sentinel}
             /\ c.sel.pos = Sentinel => c.sel.n = 1
  <2>1. c.sel \in Selections(p) /\ c.part = p /\ c.op \in {"Get", "GetThenDelete", "Delete"}
    BY <1>8
  <2>2. MAX_BLOCKS \in Nat \ {0}
    BY CdAssumption
  <2>3. CASE c.sel \in [pos : {0, 1}, n : 0 .. MAX_BLOCKS]
    BY <2>1, <2>3 DEF Sentinel
  <2>4. CASE c.sel = [pos |-> Sentinel, n |-> 1]
    BY <2>1, <2>2, <2>4
  <2>5. CASE c.sel = [pos |-> 1, n |-> Sentinel]
    BY <2>1, <2>5 DEF Sentinel
  <2> QED
    BY <2>1, <2>3, <2>4, <2>5 DEF Selections
<1>9. CASE \E p \in Partitions :
             c \in [op : {"Get", "GetThenDelete", "Delete"}, part : {p}, sel : Selections(p)]
  <2>1. /\ c.op \in {"Get", "GetThenDelete", "Delete"} /\ c.part \in Partitions
        /\ c.sel.pos \in {0, 1, Sentinel} /\ c.sel.n \in 0 .. MAX_BLOCKS \cup {Sentinel}
        /\ c.sel.pos = Sentinel => c.sel.n = 1
    BY <1>8, <1>9
  <2> QED
    BY <2>1
<1>10. c \in UNION {[op : {"Get", "GetThenDelete", "Delete"}, part : {p}, sel : Selections(p)] :
                     p \in Partitions} =>
         \E p \in Partitions :
           c \in [op : {"Get", "GetThenDelete", "Delete"}, part : {p}, sel : Selections(p)]
  OBVIOUS
<1> QED
  BY <1>1, <1>2, <1>3, <1>4, <1>5, <1>6, <1>7, <1>9, <1>10 DEF Requests

(* The piece of a partition that an allowed selection names. *)
LEMMA SelectionFits ==
  ASSUME Counts, NEW c \in Requests, c.op \in {"Get", "GetThenDelete", "Delete"},
         Counted(c.part, c.sel), numblocks[c.part] # 0
  PROVE  /\ Offset(c.part, c.sel) \in Nat /\ Number(c.part, c.sel) \in Nat
         /\ Offset(c.part, c.sel) + Number(c.part, c.sel) <= Len(partition[c.part])
<1> DEFINE n == c.sel.n  pos == c.sel.pos  size == numblocks[c.part]
<1>1. /\ c.part \in Partitions
      /\ pos \in {0, 1, Sentinel} /\ n \in 0 .. MAX_BLOCKS \cup {Sentinel}
      /\ pos = Sentinel => n = 1
  BY RequestShape
<1>2. size \in Nat /\ size # 0 /\ Len(partition[c.part]) = size /\ MAX_BLOCKS \in Nat
  BY <1>1, CdAssumption DEF Counts
<1>3. IF n = Sentinel THEN size > 1 ELSE pos = Sentinel \/ n = 0 \/ pos + n <= size
  BY <1>2 DEF Counted
<1>4. /\ Offset(c.part, c.sel) = (IF pos = Sentinel THEN size - 1 ELSE pos)
      /\ Number(c.part, c.sel) = (IF n = Sentinel THEN size - pos ELSE n)
  BY DEF Offset, Number
<1> HIDE DEF n, pos, size
<1> QED
  BY <1>1, <1>2, <1>3, <1>4 DEF Sentinel

LEMMA AllowedKept ==
  ASSUME NEW c \in Requests, Allowed(c), UNCHANGED <<open, datatranstype>>,
         Counts, Counts', \A p \in Partitions : numblocks[p] <= numblocks'[p]
  PROVE  Allowed(c)'
<1>1. ASSUME c.op \in {"Get", "GetThenDelete", "Delete"} PROVE Counted(c.part, c.sel)'
  <2> DEFINE n == c.sel.n  pos == c.sel.pos  old == Len(partition[c.part])
             new == Len(partition[c.part])'
  <2>1. c.part \in Partitions /\ pos \in {0, 1, Sentinel} /\ n \in 0 .. MAX_BLOCKS \cup {Sentinel}
    BY <1>1, RequestShape
  <2>2. old \in Nat /\ new \in Nat /\ old <= new /\ MAX_BLOCKS \in Nat
    BY <2>1, CdAssumption DEF Counts
  <2>3. IF n = Sentinel THEN old > 1 ELSE pos = Sentinel \/ n = 0 \/ pos + n <= old
    BY <1>1 DEF Allowed, Counted
  <2> HIDE DEF n, pos, old, new
  <2>4. IF n = Sentinel THEN new > 1 ELSE pos = Sentinel \/ n = 0 \/ pos + n <= new
    BY <2>1, <2>2, <2>3 DEF Sentinel
  <2> QED
    BY <2>4 DEF Counted, n, pos, new
<1> QED
  BY <1>1 DEF Allowed
-------------------------------------------------------------------------------
(* Pieces of a partition. *)
LEMMA WithoutProperties ==
  ASSUME NEW s \in Seq(Sectors), NEW pos \in Nat, NEW n \in Nat, pos + n <= Len(s)
  PROVE  Without(s, pos, n) \in Seq(Sectors) /\ Len(Without(s, pos, n)) = Len(s) - n
<1>1. Len(s) \in Nat /\ \A i \in 1 .. Len(s) : s[i] \in Sectors
  BY LenProperties, ElementOfSeq
<1>2. SubSeq(s, 1, pos) \in Seq(Sectors) /\ Len(SubSeq(s, 1, pos)) = pos
  <2>1. \A i \in 1 .. pos : s[i] \in Sectors
    BY <1>1
  <2>2. /\ SubSeq(s, 1, pos) \in Seq(Sectors)
        /\ Len(SubSeq(s, 1, pos)) = IF 1 <= pos THEN pos - 1 + 1 ELSE 0
    BY <2>1, SubSeqProperties
  <2> QED
    BY <2>2
<1>3. /\ SubSeq(s, pos + n + 1, Len(s)) \in Seq(Sectors)
      /\ Len(SubSeq(s, pos + n + 1, Len(s))) = Len(s) - pos - n
  <2>1. \A i \in pos + n + 1 .. Len(s) : s[i] \in Sectors
    BY <1>1
  <2>2. pos + n + 1 \in Int /\ Len(s) \in Int
    BY <1>1
  <2>3. /\ SubSeq(s, pos + n + 1, Len(s)) \in Seq(Sectors)
        /\ Len(SubSeq(s, pos + n + 1, Len(s))) =
             IF pos + n + 1 <= Len(s) THEN Len(s) - (pos + n + 1) + 1 ELSE 0
    BY <2>1, <2>2, SubSeqProperties
  <2> QED
    BY <1>1, <2>3
<1>4. Len(Without(s, pos, n)) = pos + (Len(s) - pos - n) /\ Without(s, pos, n) \in Seq(Sectors)
  BY <1>2, <1>3, ConcatProperties DEF Without
<1> QED
  BY <1>1, <1>4

LEMMA PieceOfAppend ==
  ASSUME NEW s \in Seq(Sectors), NEW f \in Sectors,
         NEW pos \in Nat, NEW n \in Nat, pos + n <= Len(s)
  PROVE  SubSeq(Append(s, f), pos + 1, pos + n) = SubSeq(s, pos + 1, pos + n)
<1> DEFINE t == Append(s, f)
<1>1. /\ Len(s) \in Nat /\ \A i \in 1 .. Len(s) : s[i] \in Sectors
      /\ \A i \in 1 .. Len(s) : t[i] = s[i]
  BY LenProperties, ElementOfSeq, AppendProperties
<1> HIDE DEF t
<1>2. \A i \in pos + 1 .. pos + n : s[i] \in Sectors /\ t[i] = s[i] /\ t[i] \in Sectors
  BY <1>1
<1>3. pos + 1 \in Int /\ pos + n \in Int
  OBVIOUS
<1> DEFINE u == SubSeq(t, pos + 1, pos + n)  v == SubSeq(s, pos + 1, pos + n)
<1>4. /\ u \in Seq(Sectors) /\ Len(u) = (IF pos + 1 <= pos + n THEN pos + n - (pos + 1) + 1 ELSE 0)
      /\ \A i \in 1 .. pos + n - (pos + 1) + 1 : u[i] = t[pos + 1 + i - 1]
  BY <1>2, <1>3, SubSeqProperties
<1>5. /\ v \in Seq(Sectors) /\ Len(v) = (IF pos + 1 <= pos + n THEN pos + n - (pos + 1) + 1 ELSE 0)
      /\ \A i \in 1 .. pos + n - (pos + 1) + 1 : v[i] = s[pos + 1 + i - 1]
  BY <1>2, <1>3, SubSeqProperties
<1> HIDE DEF u, v
<1>6. Len(u) = Len(v) /\ \A i \in 1 .. Len(u) : u[i] = v[i]
  <2>1. Len(u) = n /\ Len(v) = n
    BY <1>4, <1>5
  <2>2. ASSUME NEW i \in 1 .. n PROVE u[i] = v[i]
    <3>1. i \in 1 .. pos + n - (pos + 1) + 1 /\ pos + 1 + i - 1 \in pos + 1 .. pos + n
      OBVIOUS
    <3>2. u[i] = t[pos + 1 + i - 1] /\ v[i] = s[pos + 1 + i - 1]
      BY <1>4, <1>5, <3>1
    <3> QED
      BY <1>2, <3>1, <3>2
  <2> QED
    BY <2>1, <2>2
<1>7. u = v
  BY <1>4, <1>5, <1>6, SeqEqual
<1> QED
  BY <1>7 DEF t, u, v

LEMMA PieceLength ==
  ASSUME NEW s \in Seq(Sectors), NEW pos \in Nat, NEW n \in Nat, pos + n <= Len(s)
  PROVE  SubSeq(s, pos + 1, pos + n) \in Seq(Sectors) /\ Len(SubSeq(s, pos + 1, pos + n)) = n
<1>1. Len(s) \in Nat /\ \A i \in 1 .. Len(s) : s[i] \in Sectors
  BY LenProperties, ElementOfSeq
<1>2. /\ \A i \in pos + 1 .. pos + n : s[i] \in Sectors
      /\ pos + 1 \in Int /\ pos + n \in Int
  BY <1>1
<1>3. /\ SubSeq(s, pos + 1, pos + n) \in Seq(Sectors)
      /\ Len(SubSeq(s, pos + 1, pos + n)) =
           IF pos + 1 <= pos + n THEN pos + n - (pos + 1) + 1 ELSE 0
  BY <1>2, SubSeqProperties
<1> QED
  BY <1>3
-------------------------------------------------------------------------------
(* The pool. *)
LEMMA BlockOf ==
  \A b : b \in AllBlocks <=>
          \E p \in Partitions : \E i \in 1 .. Len(partition[p]) : b = <<p, i>>
BY DEF AllBlocks

LEMMA Column ==
  ASSUME NEW p, NEW a \in Nat, NEW b \in Nat, a <= b + 1
  PROVE  IsFiniteSet({p} \X (a .. b)) /\ Cardinality({p} \X (a .. b)) = b - a + 1
<1>1. IsFiniteSet({p}) /\ Cardinality({p}) = 1
  BY FS_Singleton
<1>2. /\ IsFiniteSet(a .. b)
      /\ Cardinality(a .. b) = IF a > b THEN 0 ELSE b - a + 1
  BY FS_Interval
<1>3. Cardinality(a .. b) = b - a + 1 /\ b - a + 1 \in Nat
  BY <1>2
<1>4. /\ IsFiniteSet({p} \X (a .. b))
      /\ Cardinality({p} \X (a .. b)) = Cardinality({p}) * Cardinality(a .. b)
  BY <1>1, <1>2, FS_Product
<1> QED
  BY <1>1, <1>3, <1>4

(* A partition that has lost n sectors. *)
LEMMA CountRemoved ==
  ASSUME Counts, NEW p \in Partitions, NEW n \in Nat, n <= Len(partition[p]),
         NEW t \in Seq(Sectors), Len(t) = Len(partition[p]) - n,
         partition' = [partition EXCEPT ![p] = t],
         numblocks' = [numblocks EXCEPT ![p] = @ - n],
         blockfreespace' = blockfreespace + n
  PROVE  Counts'
<1> DEFINE A == AllBlocks  B == AllBlocks'  C == {p} \X (Len(t) + 1 .. Len(partition[p]))
<1>1. /\ partition \in [Partitions -> Seq(Sectors)] /\ numblocks \in [Partitions -> Nat]
      /\ \A q \in Partitions : numblocks[q] = Len(partition[q]) /\ numblocks[q] <= MAX_BLOCKS
      /\ blockfreespace \in Nat /\ IsFiniteSet(A)
      /\ Cardinality(A) = MAX_BLOCKS - blockfreespace /\ MAX_BLOCKS \in Nat
  BY CdAssumption DEF Counts
<1>2. /\ Len(t) \in Nat /\ Len(partition[p]) \in Nat /\ Len(t) <= Len(partition[p])
      /\ n = Len(partition[p]) - Len(t)
  BY <1>1, LenProperties
<1>3. /\ partition' \in [Partitions -> Seq(Sectors)]
      /\ \A q \in Partitions : partition'[q] = IF q = p THEN t ELSE partition[q]
  BY <1>1
<1>4. /\ numblocks' \in [Partitions -> Nat]
      /\ \A q \in Partitions : numblocks'[q] = Len(partition'[q]) /\ numblocks'[q] <= MAX_BLOCKS
  BY <1>1, <1>2, <1>3
<1>5. \A b : b \in B <=> \E q \in Partitions : \E i \in 1 .. Len(partition'[q]) : b = <<q, i>>
  BY DEF AllBlocks
<1>6. \A b : b \in A <=> \E q \in Partitions : \E i \in 1 .. Len(partition[q]) : b = <<q, i>>
  BY BlockOf
<1>7. \A b : b \in C <=> \E i \in Len(t) + 1 .. Len(partition[p]) : b = <<p, i>>
  OBVIOUS
<1>8. IsFiniteSet(C) /\ Cardinality(C) = n
  <2>1. Len(t) + 1 \in Nat /\ Len(t) + 1 <= Len(partition[p]) + 1
    BY <1>2
  <2>2. IsFiniteSet(C) /\ Cardinality(C) = Len(partition[p]) - (Len(t) + 1) + 1
    BY <1>2, <2>1, Column
  <2> QED
    BY <1>2, <2>2
<1> HIDE DEF A, B, C
<1>9. \A b \in B : b \in A /\ b \notin C
  <2> SUFFICES ASSUME NEW q \in Partitions, NEW i \in 1 .. Len(partition'[q])
               PROVE  <<q, i>> \in A /\ <<q, i>> \notin C
    BY <1>5
  <2>1. CASE q = p
    <3>1. i \in 1 .. Len(partition[q]) /\ i \notin Len(t) + 1 .. Len(partition[p])
      BY <1>2, <1>3, <2>1
    <3> QED
      BY <1>6, <1>7, <3>1
  <2>2. CASE q # p
    BY <1>3, <1>6, <1>7, <2>2
  <2> QED
    BY <2>1, <2>2
<1>10. \A b \in A : b \in B \/ b \in C
  <2> SUFFICES ASSUME NEW q \in Partitions, NEW i \in 1 .. Len(partition[q])
               PROVE  <<q, i>> \in B \/ <<q, i>> \in C
    BY <1>6
  <2>1. CASE q = p
    <3>1. i \in 1 .. Len(partition'[q]) \/ i \in Len(t) + 1 .. Len(partition[p])
      BY <1>2, <1>3, <2>1
    <3> QED
      BY <1>5, <1>7, <2>1, <3>1
  <2>2. CASE q # p
    BY <1>3, <1>5, <2>2
  <2> QED
    BY <2>1, <2>2
<1>11. \A b \in C : b \in A
  <2>1. \A i \in Len(t) + 1 .. Len(partition[p]) : i \in 1 .. Len(partition[p])
    BY <1>2
  <2> QED
    BY <1>6, <1>7, <2>1
<1>12. A = B \cup C /\ B \cap C = {} /\ B \subseteq A
  BY <1>9, <1>10, <1>11
<1>13. IsFiniteSet(B) /\ Cardinality(B) \in Nat
  BY <1>1, <1>12, FS_Subset, FS_CardinalityType
<1>14. Cardinality(A) = Cardinality(B) + Cardinality(C) - Cardinality(B \cap C)
  BY <1>8, <1>12, <1>13, FS_Union
<1>15. Cardinality(B) = MAX_BLOCKS - blockfreespace'
  <2>1. Cardinality(B \cap C) = 0
    BY <1>12, FS_EmptySet
  <2>2. Cardinality(B) + n = MAX_BLOCKS - blockfreespace
    BY <1>1, <1>8, <1>13, <1>14, <2>1
  <2> QED
    BY <1>1, <1>13, <2>2
<1>16. blockfreespace' \in Nat
  BY <1>1
<1> QED
  BY <1>3, <1>4, <1>13, <1>15, <1>16 DEF Counts, B

LEMMA PartitionFits ==
  ASSUME Counts, NEW p \in Partitions
  PROVE  Len(partition[p]) \in Nat /\ Len(partition[p]) + blockfreespace <= MAX_BLOCKS
<1> DEFINE C == {p} \X (1 .. Len(partition[p]))
<1>1. /\ Len(partition[p]) \in Nat /\ blockfreespace \in Nat /\ MAX_BLOCKS \in Nat
      /\ IsFiniteSet(AllBlocks) /\ Cardinality(AllBlocks) = MAX_BLOCKS - blockfreespace
  BY CdAssumption DEF Counts
<1>2. IsFiniteSet(C) /\ Cardinality(C) = Len(partition[p])
  <2>1. 1 \in Nat /\ 1 <= Len(partition[p]) + 1 /\ Len(partition[p]) \in Nat
    BY <1>1
  <2>2. IsFiniteSet(C) /\ Cardinality(C) = Len(partition[p]) - 1 + 1
    BY ONLY <2>1, Column
  <2> QED
    BY <1>1, <2>2
<1>3. C \subseteq AllBlocks
  BY BlockOf
<1>4. Cardinality(C) <= Cardinality(AllBlocks)
  BY <1>1, <1>3, FS_Subset
<1> HIDE DEF C
<1> QED
  BY <1>1, <1>2, <1>4

LEMMA CountStored ==
  ASSUME Counts, NEW p \in Partitions, NEW f \in Sectors, blockfreespace > 0,
         partition' = [partition EXCEPT ![p] = Append(@, f)],
         numblocks' = [numblocks EXCEPT ![p] = @ + 1],
         blockfreespace' = blockfreespace - 1
  PROVE  Counts'
<1> DEFINE A == AllBlocks  B == AllBlocks'  len == Len(partition[p])  b0 == <<p, len + 1>>
<1>1. /\ partition \in [Partitions -> Seq(Sectors)] /\ numblocks \in [Partitions -> Nat]
      /\ \A q \in Partitions : numblocks[q] = Len(partition[q]) /\ numblocks[q] <= MAX_BLOCKS
      /\ blockfreespace \in Nat /\ IsFiniteSet(A)
      /\ Cardinality(A) = MAX_BLOCKS - blockfreespace /\ MAX_BLOCKS \in Nat
  BY CdAssumption DEF Counts
<1>2. len \in Nat /\ len + blockfreespace <= MAX_BLOCKS
  BY PartitionFits
<1>3. /\ Append(partition[p], f) \in Seq(Sectors) /\ Len(Append(partition[p], f)) = len + 1
  BY <1>1, AppendProperties
<1>4. /\ partition' \in [Partitions -> Seq(Sectors)]
      /\ \A q \in Partitions : Len(partition'[q]) = IF q = p THEN len + 1 ELSE Len(partition[q])
  BY <1>1, <1>3
<1>5. /\ numblocks' \in [Partitions -> Nat]
      /\ \A q \in Partitions : numblocks'[q] = Len(partition'[q]) /\ numblocks'[q] <= MAX_BLOCKS
  BY <1>1, <1>2, <1>4
<1>6. \A b : b \in B <=> \E q \in Partitions : \E i \in 1 .. Len(partition'[q]) : b = <<q, i>>
  BY DEF AllBlocks
<1>7. \A b : b \in A <=> \E q \in Partitions : \E i \in 1 .. Len(partition[q]) : b = <<q, i>>
  BY BlockOf
<1> HIDE DEF A, B
<1>8. 1 .. len + 1 = (1 .. len) \cup {len + 1} /\ len + 1 \notin 1 .. len
  BY <1>2
<1>9. b0 \notin A
  BY <1>7, <1>8
<1>10. B = A \cup {b0}
  <2>1. ASSUME NEW q \in Partitions, NEW i \in 1 .. Len(partition'[q])
        PROVE  <<q, i>> \in A \cup {b0}
    BY <1>4, <1>7, <1>8, <2>1
  <2>2. ASSUME NEW q \in Partitions, NEW i \in 1 .. Len(partition[q])
        PROVE  <<q, i>> \in B
    BY <1>4, <1>6, <1>8, <2>2
  <2>3. b0 \in B
    BY <1>4, <1>6, <1>8
  <2> HIDE DEF b0
  <2> QED
    BY <1>6, <1>7, <2>1, <2>2, <2>3
<1>11. IsFiniteSet(B) /\ Cardinality(B) = Cardinality(A) + 1
  BY <1>1, <1>9, <1>10, FS_AddElement
<1>12. Cardinality(B) = MAX_BLOCKS - blockfreespace' /\ blockfreespace' \in Nat
  BY <1>1, <1>11
<1> QED
  BY <1>4, <1>5, <1>11, <1>12 DEF Counts, B

LEMMA ClearStep ==
  ASSUME ClearPartitions
  PROVE  Counts' /\ Fullness'
<1>1. MAX_BLOCKS \in Nat /\ MAX_BLOCKS # 0
  BY CdAssumption
<1>2. /\ partition' = [p \in Partitions |-> <<>>] /\ numblocks' = [p \in Partitions |-> 0]
      /\ blockfreespace' = MAX_BLOCKS /\ isbufferfull' = FALSE /\ forgotten' = FALSE
  BY DEF ClearPartitions
<1>3. /\ partition' \in [Partitions -> Seq(Sectors)] /\ numblocks' \in [Partitions -> Nat]
      /\ \A p \in Partitions : /\ numblocks'[p] = Len(partition'[p])
                               /\ numblocks'[p] <= MAX_BLOCKS /\ partition'[p] = <<>>
  BY <1>1, <1>2, EmptySeq
<1>4. AllBlocks' = {}
  <2>1. \A p \in Partitions : 1 .. Len(partition'[p]) = {}
    BY <1>3
  <2> QED
    BY <2>1 DEF AllBlocks
<1>5. IsFiniteSet(AllBlocks') /\ Cardinality(AllBlocks') = MAX_BLOCKS - blockfreespace'
  BY <1>1, <1>2, <1>4, FS_EmptySet
<1>6. Counts'
  BY <1>1, <1>2, <1>3, <1>5 DEF Counts
<1> QED
  BY <1>1, <1>2, <1>6 DEF Fullness

LEMMA FreeStep ==
  ASSUME Counts, Fullness, NEW p \in Partitions, NEW pos \in Nat, NEW n \in Nat,
         pos + n <= Len(partition[p]), Free(p, pos, n)
  PROVE  Counts' /\ Fullness'
<1>1. partition[p] \in Seq(Sectors) /\ Len(partition[p]) \in Nat /\ blockfreespace \in Nat
  BY LenProperties DEF Counts
<1>2. /\ Without(partition[p], pos, n) \in Seq(Sectors)
      /\ Len(Without(partition[p], pos, n)) = Len(partition[p]) - n
  BY <1>1, WithoutProperties
<1>3. n <= Len(partition[p])
  BY <1>1
<1>4. /\ partition' = [partition EXCEPT ![p] = Without(partition[p], pos, n)]
      /\ numblocks' = [numblocks EXCEPT ![p] = @ - n]
      /\ blockfreespace' = blockfreespace + n
  BY DEF Free
<1>5. Counts'
  BY <1>2, <1>3, <1>4, CountRemoved
<1>6. /\ isbufferfull' = (isbufferfull /\ n = 0) /\ forgotten' = (forgotten /\ n = 0)
      /\ (blockfreespace' = 0 <=> blockfreespace = 0 /\ n = 0)
  BY <1>1, <1>4 DEF Free
<1> QED
  BY <1>5, <1>6 DEF Fullness

LEMMA StoreStep ==
  ASSUME Counts, Fullness, NEW p \in Partitions, FAD \in Sectors, ~isbufferfull, Allocated(p)
  PROVE  Counts' /\ Fullness'
<1>1. blockfreespace \in Nat /\ blockfreespace > 0 /\ blockfreespace' = blockfreespace - 1
  BY DEF Allocated, Counts
<1>2. Counts'
  BY <1>1, CountStored DEF Allocated
<1>3. /\ isbufferfull' = (isbufferfull \/ blockfreespace' <= 0) /\ forgotten' = forgotten
      /\ ~forgotten /\ blockfreespace' \in Nat
  BY <1>1, <1>2 DEF Allocated, Fullness, Counts
<1>4. isbufferfull' = (blockfreespace' = 0) /\ forgotten' = FALSE
  <2>1. blockfreespace' <= 0 <=> blockfreespace' = 0
    BY <1>3
  <2> QED
    BY <1>3, <2>1 DEF Fullness
<1> QED
  BY <1>2, <1>4 DEF Fullness

LEMMA LoseStep ==
  ASSUME Counts, Fullness, NotAllocated
  PROVE  Counts' /\ Fullness'
<1>1. blockfreespace = 0
  BY DEF NotAllocated, Counts
<1> QED
  BY <1>1 DEF NotAllocated, Counts, AllBlocks, Fullness

LEMMA KeepStep ==
  ASSUME Counts, Fullness, KeepBuffer
  PROVE  Counts' /\ Fullness'
BY DEF KeepBuffer, buffer, Counts, AllBlocks, Fullness

LEMMA ResetStep ==
  ASSUME Counts, Fullness, cmd.part \in Partitions, ResetPartition
  PROVE  Counts' /\ Fullness'
<1> DEFINE p == cmd.part
<1>1. /\ partition' = [partition EXCEPT ![p] = <<>>] /\ numblocks' = [numblocks EXCEPT ![p] = 0]
      /\ blockfreespace' = blockfreespace + numblocks[p]
      /\ isbufferfull' = (isbufferfull /\ blockfreespace' = 0)
      /\ forgotten' = (forgotten /\ numblocks[p] = 0)
  BY DEF ResetPartition
<1>2. /\ numblocks[p] \in Nat /\ numblocks[p] = Len(partition[p]) /\ blockfreespace \in Nat
      /\ partition[p] \in Seq(Sectors)
  BY DEF Counts
<1>3. /\ <<>> \in Seq(Sectors) /\ Len(<<>>) = Len(partition[p]) - numblocks[p]
      /\ numblocks' = [numblocks EXCEPT ![p] = @ - numblocks[p]]
      /\ numblocks[p] <= Len(partition[p])
  BY <1>1, <1>2
<1>4. Counts'
  BY <1>1, <1>2, <1>3, CountRemoved
<1>5. blockfreespace' = 0 <=> blockfreespace = 0 /\ numblocks[p] = 0
  BY <1>1, <1>2
<1> QED
  BY <1>1, <1>4, <1>5 DEF Fullness
-------------------------------------------------------------------------------
(* The command port. *)
LEMMA Executed ==
  ASSUME Cs2Execute
  PROVE  /\ Ready /\ phase' = "answered" /\ CR' = "response" /\ cmd' = NoCommand
         /\ _commandtiming' = FALSE /\ PEND' = FALSE /\ UNCHANGED <<issues, _command>>
BY DEF Cs2Execute, Execute

LEMMA PeriodicIs ==
  ASSUME PeriodicHalf
  PROVE  Periodic
BY DEF PeriodicHalf, Resume, SeekSlice, SeekDone, BusyDone, StoreSector, LoseSector, SkipSector,
       NotReady, Quiescent

LEMMA PortStep == PortInv /\ [Next]_vars => PortInv'
<1> SUFFICES ASSUME PortInv, [Next]_vars PROVE PortInv'
  OBVIOUS
<1> USE DEF PortInv
<1>1. CASE WriteCR1
  <2>1. issues' \in 0 .. Issues
    BY <1>1, CdAssumption DEF WriteCR1
  <2> QED
    BY <1>1, <2>1 DEF WriteCR1
<1>2. CASE WriteCR4
  BY <1>2 DEF WriteCR4
<1>3. CASE ReadCR4
  BY <1>3 DEF ReadCR4
<1>4. CASE ReadData
  BY <1>4 DEF ReadData, port
<1>5. CASE Unlock
  BY <1>5 DEF Unlock, program, port
<1>6. CASE Cs2Execute
  <2>1. NoCommand \in Requests
    BY DEF NoCommand, Requests
  <2> QED
    BY <1>6, <2>1, Executed DEF Ready
<1>7. CASE PeriodicHalf
  BY <1>7, PeriodicIs DEF Periodic, Report, program
<1>8. CASE UNCHANGED vars
  BY <1>8 DEF vars, program, port
<1> QED
  BY <1>1, <1>2, <1>3, <1>4, <1>5, <1>6, <1>7, <1>8 DEF Next, CommandHalf

(* What the commands do to the lock. *)
LEMMA LockEffect ==
  ASSUME Cs2Execute
  PROVE  \/ KeepLock
         \/ \E irq \in {"ESEL", "EHST"} : Locked(irq)
         \/ _command_execlock' = FALSE /\ _delay_irq' = "EHST" /\ UNCHANGED owed
<1> USE DEF Execute
<1>1. CASE Execute(Delete, {"Delete"})
  BY <1>1 DEF Delete
<1>2. CASE Execute(ResetSelector, {"ResetFilters", "ResetAll"})
  BY <1>2 DEF ResetSelector
<1> QED
  BY <1>1, <1>2
  DEF Cs2Execute, GetStatus, Initialize, EndDataTransfer, Play, PlayOn, Refresh, ReadFile,
      SeekDisc, AbortFile, Connect, ResetPartition, Get

LEMMA LockStep == LockInv /\ [Next]_vars => LockInv'
<1> SUFFICES ASSUME LockInv, [Next]_vars PROVE LockInv'
  OBVIOUS
<1> USE DEF LockInv
<1>1. CASE WriteCR1 \/ WriteCR4 \/ ReadCR4 \/ ReadData
  BY <1>1 DEF WriteCR1, WriteCR4, ReadCR4, ReadData, lock, history
<1>2. CASE Unlock
  BY <1>2 DEF Unlock
<1>3. CASE Cs2Execute
  <2>1. ~_command_execlock
    BY <1>3, Executed DEF Ready
  <2>2. CASE KeepLock
    BY <2>2 DEF KeepLock, lock
  <2>3. ASSUME NEW irq \in {"ESEL", "EHST"}, Locked(irq) PROVE LockInv'
    BY <2>3 DEF Locked
  <2>4. CASE _command_execlock' = FALSE /\ _delay_irq' = "EHST" /\ UNCHANGED owed
    BY <2>1, <2>4
  <2> QED
    BY <1>3, <2>2, <2>3, <2>4, LockEffect
<1>4. CASE PeriodicHalf
  BY <1>4, PeriodicIs DEF Periodic, lock
<1>5. CASE UNCHANGED vars
  BY <1>5 DEF vars, lock, history
<1> QED
  BY <1>1, <1>2, <1>3, <1>4, <1>5 DEF Next, CommandHalf
-------------------------------------------------------------------------------
(* The drive. *)
LEMMA Places ==
  /\ First \in First .. Never /\ Never \in First .. Never
  /\ \A f \in Sectors : f \in First .. Never /\ f + 1 \in First .. Never
  /\ \A r \in Plays : r[1] \in First .. Never /\ r[1] + r[2] \in First .. Never
  /\ None \notin {"PAUSE", "STANDBY"}
<1>1. First \in Nat /\ Last \in Nat /\ First <= Last
  BY CdAssumption
<1>2. \A r \in Plays : r[1] \in First .. Last /\ r[2] \in 1 .. Last - r[1] + 1
  BY CdAssumption
<1>3. \A r \in Plays : r[1] \in First .. Never /\ r[1] + r[2] \in First .. Never
  BY <1>1, <1>2 DEF Never
<1> QED
  BY <1>1, <1>3, CdAssumption DEF Never, Sectors

LEMMA DriveCommands ==
  ASSUME DriveInv, PortInv, Cs2Execute
  PROVE  DriveInv'
<1> USE DEF DriveInv, Execute, range
<1>1. PEND' = FALSE /\ cmd \in Requests
  BY Executed DEF PortInv
<1>2. CASE KeepDrive
  BY <1>1, <1>2 DEF KeepDrive, drive
<1>3. CASE Execute(Initialize, {"Initialize"})
  BY <1>1, <1>3, Places DEF Initialize, Interrupted
<1>4. CASE Execute(Play, {"Play"})
  <2>1. cmd.range \in Plays /\ cmd.repeats \in Repeats
    BY <1>1, <1>4, RequestShape
  <2> QED
    <3>1. /\ playFAD' = cmd.range[1] /\ FAD' = cmd.range[1] /\ repcnt' = 0
          /\ playendFAD' = cmd.range[1] + cmd.range[2] /\ maxrepeat' = cmd.repeats
          /\ status' = "SEEK" /\ nextStatus' = None /\ playing' = TRUE
          /\ bufferfullpause' = FALSE /\ UNCHANGED outconcddev
      BY <1>4 DEF Play, PlayFrom, ToSeek, PlayStarts, Superseded
    <3>2. 0 \in 0 .. 255
      OBVIOUS
    <3> QED
      BY <1>1, <2>1, <3>1, <3>2, Places
<1>5. CASE Execute(PlayOn, {"PlayOn"})
  <2>1. cmd.range \in Plays /\ cmd.repeats \in Repeats
    BY <1>1, <1>5, RequestShape
  <2> QED
    <3>1. /\ playFAD' = cmd.range[1] /\ repcnt' = 0 /\ UNCHANGED FAD
          /\ playendFAD' = cmd.range[1] + cmd.range[2] /\ maxrepeat' = cmd.repeats
          /\ playing' = TRUE
          /\ bufferfullpause' = FALSE /\ UNCHANGED outconcddev
      BY <1>5 DEF PlayOn, PlayFrom, PlayStarts, Superseded
    <3>2. \/ status = "PLAY" /\ UNCHANGED <<status, nextStatus>>
          \/ status' = "SEEK" /\ nextStatus' = None
      BY <1>5 DEF PlayOn, ToSeek
    <3>3. 0 \in 0 .. 255
      OBVIOUS
    <3> QED
      BY <1>1, <2>1, <3>1, <3>2, <3>3, Places
<1>6. CASE Execute(Refresh, {"Refresh"})
  BY <1>1, <1>6 DEF Refresh, ToSeek, PlayStarts, Superseded
<1>7. CASE Execute(ReadFile, {"ReadFile"})
  <2>1. cmd.range \in Plays
    BY <1>1, <1>7, RequestShape
  <2> QED
    <3>1. /\ playFAD' = cmd.range[1] /\ FAD' = cmd.range[1] /\ repcnt' = 0 /\ maxrepeat' = 0
          /\ playendFAD' = cmd.range[1] + cmd.range[2]
          /\ status' = "PLAY" /\ playing' = TRUE /\ outconcddev' = TRUE
          /\ UNCHANGED <<nextStatus, bufferfullpause>>
      BY <1>7 DEF ReadFile, PlayStarts
    <3>2. 0 \in 0 .. 255
      OBVIOUS
    <3> QED
      BY <1>1, <2>1, <3>1, <3>2, Places
<1>8. CASE Execute(SeekDisc, {"Seek", "SeekPause", "SeekStop"})
  <2>1. cmd.op = "Seek" => cmd.fad \in Sectors
    BY <1>1, RequestShape
  <2> QED
    <3>1. /\ bufferfullpause' = FALSE /\ playing' = FALSE
          /\ UNCHANGED <<playFAD, playendFAD, maxrepeat, outconcddev>>
      BY <1>8 DEF SeekDisc, Superseded
    <3>2. \/ status' = "BUSY" /\ nextStatus' = "STANDBY" /\ FAD' = Never /\ repcnt' = 255
          \/ status' = "BUSY" /\ nextStatus' = "PAUSE" /\ UNCHANGED <<FAD, repcnt>>
          \/ cmd.op = "Seek" /\ status' = "SEEK" /\ nextStatus' = "PAUSE"
             /\ FAD' = cmd.fad /\ repcnt' = 0
      BY <1>8 DEF SeekDisc, Interrupted
    <3>3. 0 \in 0 .. 255 /\ 255 \in 0 .. 255
      OBVIOUS
    <3> QED
      BY <1>1, <2>1, <3>1, <3>2, <3>3, Places
<1>9. CASE Execute(AbortFile, {"AbortFile"})
  BY <1>1, <1>9, Places DEF AbortFile, Interrupted
<1>10. CASE Execute(Connect, {"Connect"})
  <2>1. cmd.on \in BOOLEAN
    BY <1>1, <1>10, RequestShape
  <2> QED
    BY <1>1, <1>10, <2>1 DEF Connect, drive
<1>11. CASE Execute(ResetSelector, {"ResetFilters", "ResetAll"})
  BY <1>1, <1>11 DEF ResetSelector
<1> QED
  BY <1>2, <1>3, <1>4, <1>5, <1>6, <1>7, <1>8, <1>9, <1>10, <1>11
  DEF Cs2Execute, GetStatus, EndDataTransfer, ResetPartition, Get, Delete

LEMMA DrivePeriodic ==
  ASSUME DriveInv, PeriodicHalf
  PROVE  DriveInv'
<1> USE DEF DriveInv, range
<1>1. UNCHANGED outconcddev
  BY PeriodicIs DEF Periodic
<1>2. ASSUME NEW full \in BOOLEAN, FAD \in Sectors, status = "PLAY", Advance(full) PROVE DriveInv'
  <2>1. repcnt \in 0 .. 255 /\ (repcnt < 14 => repcnt + 1 \in 0 .. 255)
    OBVIOUS
  <2>2. FAD + 1 \in First .. Never
    BY <1>2, Places
  <2>3. /\ FAD' \in First .. Never /\ repcnt' \in 0 .. 255
        /\ UNCHANGED <<playFAD, playendFAD, maxrepeat>>
    BY <1>2, <2>1, <2>2 DEF Advance
  <2>4. status' \in {"PAUSE", "PLAY"} /\ nextStatus' \in {None, nextStatus}
    BY <1>2 DEF Advance
  <2>5. bufferfullpause' \in BOOLEAN /\ playing' \in BOOLEAN
        /\ PEND' \in BOOLEAN
    BY <1>2 DEF Advance
  <2> QED
    BY <1>1, <2>3, <2>4, <2>5
<1>3. CASE Resume
  BY <1>1, <1>3 DEF Resume
<1>4. CASE SeekSlice \/ NotReady \/ Quiescent
  <2>1. /\ UNCHANGED <<status, nextStatus, FAD, playFAD, playendFAD, repcnt, maxrepeat>>
        /\ UNCHANGED <<bufferfullpause, playing>> /\ PEND' = FALSE
    BY <1>4 DEF SeekSlice, NotReady, Quiescent, drive
  <2> QED
    BY <1>1, <2>1
<1>5. CASE SeekDone
  BY <1>1, <1>5 DEF SeekDone
<1>6. CASE BusyDone
  BY <1>1, <1>6 DEF BusyDone
<1>7. CASE StoreSector
  <2>1. isbufferfull' \in BOOLEAN
    BY <1>7 DEF StoreSector, Allocated
  <2> QED
    BY <1>2, <1>7, <2>1 DEF StoreSector, Wanted
<1>8. CASE LoseSector
  BY <1>2, <1>8 DEF LoseSector, Wanted
<1>9. CASE SkipSector
  BY <1>2, <1>9 DEF SkipSector
<1> QED
  BY <1>3, <1>4, <1>5, <1>6, <1>7, <1>8, <1>9 DEF PeriodicHalf

LEMMA DriveStep == DriveInv /\ PortInv /\ [Next]_vars => DriveInv'
<1> SUFFICES ASSUME DriveInv, PortInv, [Next]_vars PROVE DriveInv'
  OBVIOUS
<1>1. CASE WriteCR1 \/ WriteCR4 \/ ReadCR4 \/ ReadData \/ Unlock
  <2>1. /\ UNCHANGED <<status, nextStatus, FAD, playFAD, playendFAD, repcnt, maxrepeat>>
        /\ UNCHANGED <<bufferfullpause, outconcddev, playing>> /\ PEND' = FALSE
    BY <1>1 DEF WriteCR1, WriteCR4, ReadCR4, ReadData, Unlock, drive, range, history
  <2> QED
    BY <2>1 DEF DriveInv
<1>2. CASE UNCHANGED vars
  BY <1>2 DEF vars, drive, range, history, DriveInv
<1> QED
  BY <1>1, <1>2, DriveCommands, DrivePeriodic DEF Next, CommandHalf
-------------------------------------------------------------------------------
(* The buffer. *)
LEMMA Opened ==
  ASSUME TransferTypes, TransferInv, open # None
  PROVE  /\ open \in Partitions /\ datatranspartition = open /\ datatranstype # "INVALID"
         /\ datatranssectpos \in Nat /\ datasectstotrans \in Nat
         /\ datatranssectpos + datasectstotrans <= Len(partition[open])
BY CdAssumption DEF TransferTypes, TransferInv, TransferIntact

LEMMA Waits ==
  ASSUME PortInv, RequestInv, Cs2Execute
  PROVE  cmd \in Requests /\ Allowed(cmd)
BY Executed DEF PortInv, RequestInv, Ready

LEMMA BufferCommands ==
  ASSUME IInv, Cs2Execute
  PROVE  Counts' /\ Fullness'
<1> USE DEF Execute
<1>1. cmd \in Requests /\ Allowed(cmd) /\ Counts /\ Fullness
  BY Waits DEF IInv
<1>2. CASE KeepBuffer
  BY <1>1, <1>2, KeepStep
<1>3. CASE Execute(Initialize, {"Initialize"})
  <2>1. CASE cmd.clear
    BY <1>3, <2>1, ClearStep DEF Initialize
  <2>2. CASE ~cmd.clear
    <3>1. UNCHANGED <<partition, numblocks, blockfreespace>> /\ isbufferfull' = FALSE
          /\ forgotten' = (blockfreespace = 0)
      BY <1>3, <2>2 DEF Initialize
    <3> QED
      BY <1>1, <3>1 DEF Counts, AllBlocks, Fullness
  <2> QED
    BY <2>1, <2>2
<1>4. CASE Execute(EndDataTransfer, {"EndDataTransfer"})
  <2>1. CASE datatranstype = "GETDELSECTOR"
    <3>1. /\ open # None /\ TransferTypes /\ TransferInv
          /\ Free(datatranspartition, datatranssectpos, datasectstotrans)
      BY <1>4, <2>1 DEF EndDataTransfer, IInv, TransferInv
    <3> QED
      BY <1>1, <3>1, Opened, FreeStep
  <2> QED
    BY <1>2, <1>4, <2>1 DEF EndDataTransfer
<1>5. CASE Execute(ResetPartition, {"ResetPartition"})
  <2>1. cmd.part \in Partitions
    BY <1>1, <1>5, RequestShape
  <2> QED
    BY <1>1, <1>5, <2>1, ResetStep
<1>6. CASE Execute(ResetSelector, {"ResetFilters", "ResetAll"})
  BY <1>2, <1>6, ClearStep DEF ResetSelector
<1>7. CASE Execute(Delete, {"Delete"})
  <2>1. CASE numblocks[cmd.part] # 0
    <3>1. cmd.op = "Delete" /\ Free(cmd.part, Offset(cmd.part, cmd.sel), Number(cmd.part, cmd.sel))
      BY <1>7, <2>1 DEF Delete
    <3>2. Counted(cmd.part, cmd.sel) /\ cmd.part \in Partitions
      BY <1>1, <3>1, RequestShape DEF Allowed
    <3>3. /\ Offset(cmd.part, cmd.sel) \in Nat /\ Number(cmd.part, cmd.sel) \in Nat
          /\ Offset(cmd.part, cmd.sel) + Number(cmd.part, cmd.sel) <= Len(partition[cmd.part])
      BY <1>1, <2>1, <3>1, <3>2, SelectionFits
    <3> QED
      BY <1>1, <3>1, <3>2, <3>3, FreeStep
  <2> QED
    BY <1>2, <1>7, <2>1 DEF Delete
<1> QED
  BY <1>2, <1>3, <1>4, <1>5, <1>6, <1>7
  DEF Cs2Execute, GetStatus, Play, PlayOn, Refresh, ReadFile, SeekDisc, AbortFile, Connect, Get

LEMMA BufferStep == IInv /\ [Next]_vars => Counts' /\ Fullness'
<1> SUFFICES ASSUME IInv, [Next]_vars PROVE Counts' /\ Fullness'
  OBVIOUS
<1>1. Counts /\ Fullness /\ TransferTypes /\ TransferInv
  BY DEF IInv
<1>2. CASE KeepBuffer
  BY <1>1, <1>2, KeepStep
<1>3. CASE WriteCR1 \/ WriteCR4 \/ ReadCR4 \/ Unlock \/ UNCHANGED vars
  <2>1. KeepBuffer
    BY <1>3 DEF WriteCR1, WriteCR4, ReadCR4, Unlock, vars, history, KeepBuffer
  <2> QED
    BY <1>2, <2>1
<1>4. CASE ReadData
  <2>1. KeepBuffer \/ Free(datatranspartition, datatranssectpos, datasectstotrans)
    BY <1>4 DEF ReadData, KeepBuffer
  <2>2. open # None
    BY <1>4 DEF ReadData
  <2> QED
    BY <1>1, <1>2, <2>1, <2>2, Opened, FreeStep
<1>5. CASE Cs2Execute
  BY <1>5, BufferCommands
<1>6. CASE PeriodicHalf
  <2>1. CASE StoreSector
    <3>1. /\ Route[FAD] \in Partitions /\ FAD \in Sectors /\ ~isbufferfull
          /\ Allocated(Route[FAD])
      BY <2>1 DEF StoreSector, Wanted
    <3> QED
      BY <1>1, <3>1, StoreStep
  <2>2. CASE LoseSector
    BY <1>1, <2>2, LoseStep DEF LoseSector
  <2>3. CASE ~StoreSector /\ ~LoseSector
    <3>1. KeepBuffer
      BY <1>6, <2>3 DEF PeriodicHalf, Resume, SeekSlice, SeekDone, BusyDone, SkipSector,
                        NotReady, Quiescent, KeepBuffer
    <3> QED
      BY <1>2, <3>1
  <2> QED
    BY <2>1, <2>2, <2>3
<1> QED
  BY <1>3, <1>4, <1>5, <1>6 DEF Next, CommandHalf
-------------------------------------------------------------------------------
(* The transfer. *)
LEMMA TransferKept ==
  ASSUME Counts, TransferTypes, TransferInv, KeepTransfer,
         open # None => \/ partition'[open] = partition[open]
                        \/ \E f \in Sectors : partition'[open] = Append(partition[open], f)
  PROVE  TransferTypes' /\ TransferInv'
<1>1. UNCHANGED <<open, promised, datatranstype, datatranspartition, datatranspartitionnum>>
      /\ UNCHANGED <<datatranssectpos, datasectstotrans, datanumsecttrans>>
  BY DEF KeepTransfer, transfer
<1>2. TransferTypes'
  BY <1>1 DEF TransferTypes
<1>3. CASE open = None
  BY <1>1, <1>2, <1>3 DEF TransferInv, TransferIntact
<1>4. CASE open # None /\ partition'[open] = partition[open]
  BY <1>1, <1>2, <1>4 DEF TransferInv, TransferIntact
<1>5. CASE open # None /\ \E f \in Sectors : partition'[open] = Append(partition[open], f)
  <2>1. PICK f \in Sectors : partition'[open] = Append(partition[open], f)
    BY <1>5
  <2>2. open \in Partitions /\ partition[open] \in Seq(Sectors) /\ Len(partition[open]) \in Nat
    BY <1>5, Opened, LenProperties DEF Counts
  <2>3. /\ datatranssectpos \in Nat /\ datasectstotrans \in Nat
        /\ datatranssectpos + datasectstotrans <= Len(partition[open])
    BY <1>5, Opened
  <2>4. Len(partition'[open]) = Len(partition[open]) + 1
    BY <2>1, <2>2, AppendProperties
  <2>5. datatranssectpos + datasectstotrans <= Len(partition'[open])
    BY <2>2, <2>3, <2>4
  <2>6. SubSeq(partition'[open], datatranssectpos + 1, datatranssectpos + datasectstotrans)
          = SubSeq(partition[open], datatranssectpos + 1, datatranssectpos + datasectstotrans)
    <3>1. SubSeq(Append(partition[open], f), datatranssectpos + 1,
                 datatranssectpos + datasectstotrans)
            = SubSeq(partition[open], datatranssectpos + 1, datatranssectpos + datasectstotrans)
      BY ONLY <2>2, <2>3, PieceOfAppend
    <3> QED
      BY ONLY <2>1, <3>1
  <2> QED
    BY <1>1, <1>2, <1>5, <2>5, <2>6 DEF TransferInv, TransferIntact
<1> QED
  BY <1>3, <1>4, <1>5

LEMMA TransferClosed ==
  ASSUME TransferTypes, open' = None, promised' = <<>>, OpenTransfer,
         datatranstype' \in {"INVALID", "GETSECTOR"}
  PROVE  TransferTypes' /\ TransferInv'
<1>1. TransferTypes'
  BY EmptySeq DEF TransferTypes, OpenTransfer
<1> QED
  BY <1>1 DEF TransferInv, TransferIntact

LEMMA TransferOpened ==
  ASSUME IInv, cmd \in Requests, cmd.op \in {"Get", "GetThenDelete"}, Allowed(cmd), Get, ~Refused
  PROVE  TransferTypes' /\ TransferInv'
<1> DEFINE p == cmd.part  pos == Offset(p, cmd.sel)  n == Number(p, cmd.sel)
<1>1. Counts /\ TransferTypes /\ Counted(p, cmd.sel) /\ numblocks[p] # 0 /\ p \in Partitions
  BY RequestShape DEF IInv, Allowed, Refused
<1>2. pos \in Nat /\ n \in Nat /\ pos + n <= Len(partition[p])
  BY <1>1, SelectionFits
<1>3. /\ partition[p] \in Seq(Sectors) /\ Len(partition[p]) \in Nat
      /\ Len(partition[p]) <= MAX_BLOCKS /\ MAX_BLOCKS \in Nat
  BY <1>1, LenProperties, CdAssumption DEF Counts
<1>4. /\ datatranspartition' = p /\ datatranssectpos' = pos
      /\ datasectstotrans' = n /\ datanumsecttrans' = 0
      /\ \/ datatranstype' = "GETSECTOR" /\ datatranspartitionnum' = p
         \/ datatranstype' = "GETDELSECTOR" /\ UNCHANGED datatranspartitionnum
      /\ open' = p /\ promised' = SubSeq(partition[p], pos + 1, pos + n)
      /\ partition' = partition
  BY DEF Get, KeepBuffer, buffer
<1> HIDE DEF p, pos, n
<1>5. SubSeq(partition[p], pos + 1, pos + n) \in Seq(Sectors)
      /\ Len(SubSeq(partition[p], pos + 1, pos + n)) = n
  BY <1>2, <1>3, PieceLength
<1>6. pos \in 0 .. MAX_BLOCKS /\ n \in 0 .. MAX_BLOCKS /\ 0 \in 0 .. n
  BY <1>2, <1>3
<1>7. TransferTypes'
  BY <1>1, <1>4, <1>5, <1>6 DEF TransferTypes
<1>8. open' # None
  BY <1>1, <1>4, CdAssumption
<1> QED
  BY <1>2, <1>4, <1>5, <1>7, <1>8 DEF TransferInv, TransferIntact

LEMMA TransferCommands ==
  ASSUME IInv, Cs2Execute
  PROVE  TransferTypes' /\ TransferInv'
<1> USE DEF Execute
<1>1. cmd \in Requests /\ Allowed(cmd) /\ Counts /\ TransferTypes /\ TransferInv
  BY Waits DEF IInv
<1>2. CASE KeepTransfer /\ UNCHANGED partition
  BY <1>1, <1>2, TransferKept
<1>3. CASE Execute(Initialize, {"Initialize"})
  <2>1. CASE cmd.clear
    <3>1. datatranstype # "GETDELSECTOR"
      BY <1>1, <1>3, <2>1 DEF Allowed
    <3>2. open' = None /\ promised' = <<>> /\ UNCHANGED transfer
      BY <1>3, <2>1 DEF Initialize
    <3> QED
      BY <1>1, <3>1, <3>2, TransferClosed DEF transfer, OpenTransfer, TransferTypes
  <2> QED
    BY <1>2, <1>3, <2>1 DEF Initialize
<1>4. CASE Execute(EndDataTransfer, {"EndDataTransfer"})
  <2>1. CASE datatranstype = "GETDELSECTOR"
    BY <1>1, <1>4, <2>1, TransferClosed DEF EndDataTransfer, EndTransfer
  <2>2. CASE datatranstype # "GETDELSECTOR"
    <3>1. open' = None /\ promised' = <<>> /\ UNCHANGED transfer
      BY <1>4, <2>2 DEF EndDataTransfer
    <3> QED
      BY <1>1, <2>2, <3>1, TransferClosed DEF transfer, OpenTransfer, TransferTypes
  <2> QED
    BY <2>1, <2>2
<1>5. CASE Execute(AbortFile, {"AbortFile"})
  BY <1>1, <1>5, TransferClosed DEF AbortFile, EndTransfer
<1>6. CASE Execute(ResetPartition, {"ResetPartition"})
  <2>1. CASE Cancelled(cmd.part)
    BY <1>1, <1>6, <2>1, TransferClosed DEF ResetPartition, EndTransfer
  <2>2. CASE ~Cancelled(cmd.part)
    <3>1. /\ KeepTransfer /\ partition' = [partition EXCEPT ![cmd.part] = <<>>]
          /\ datatranspartitionnum # cmd.part /\ cmd.op = "ResetPartition"
      BY <1>6, <2>2 DEF ResetPartition, Cancelled
    <3>2. ASSUME open # None PROVE partition'[open] = partition[open]
      <4>1. open \in Partitions /\ datatranstype # "INVALID" /\ partition[open] \in Seq(Sectors)
        BY <1>1, <3>2, Opened DEF Counts
      <4>2. datatranstype \in {"GETSECTOR", "GETDELSECTOR"}
        BY <1>1, <4>1 DEF TransferTypes
      <4>3. cmd.part # open
        BY <1>1, <3>1, <3>2, <4>2 DEF TransferInv, Allowed
      <4> QED
        BY <1>1, <3>1, <4>1, <4>3 DEF Counts
    <3> QED
      BY <1>1, <3>1, <3>2, TransferKept
  <2> QED
    BY <2>1, <2>2
<1>7. CASE Execute(ResetSelector, {"ResetFilters", "ResetAll"})
  <2>1. CASE cmd.op = "ResetAll"
    BY <1>1, <1>7, <2>1, TransferClosed DEF ResetSelector, EndTransfer
  <2> QED
    BY <1>2, <1>7, <2>1 DEF ResetSelector, KeepBuffer, buffer
<1>8. CASE Execute(Get, {"Get", "GetThenDelete"})
  <2>1. CASE Refused
    BY <1>2, <1>8, <2>1 DEF Get, KeepBuffer, buffer
  <2> QED
    BY <1>1, <1>8, <2>1, TransferOpened
<1>9. CASE Execute(Delete, {"Delete"})
  <2>1. KeepTransfer /\ cmd.op = "Delete" /\ cmd.part # open /\ cmd.part \in Partitions
    BY <1>1, <1>9, RequestShape DEF Delete, Allowed
  <2>2. ASSUME open # None PROVE partition'[open] = partition[open]
    <3>1. open \in Partitions /\ partition \in [Partitions -> Seq(Sectors)]
      BY <1>1, <2>2, Opened DEF Counts
    <3>2. \/ partition' = partition
          \/ \E t : partition' = [partition EXCEPT ![cmd.part] = t]
      BY <1>9 DEF Delete, Free, KeepBuffer, buffer
    <3> QED
      BY <2>1, <3>1, <3>2
  <2> QED
    BY <1>1, <2>1, <2>2, TransferKept
<1>10. CASE KeepTransfer /\ KeepBuffer
  BY <1>2, <1>10 DEF KeepBuffer, buffer
<1> QED
  BY <1>3, <1>4, <1>5, <1>6, <1>7, <1>8, <1>9, <1>10
  DEF Cs2Execute, GetStatus, Play, PlayOn, Refresh, ReadFile, SeekDisc, Connect

LEMMA TransferStep == IInv /\ [Next]_vars => TransferTypes' /\ TransferInv'
<1> SUFFICES ASSUME IInv, [Next]_vars PROVE TransferTypes' /\ TransferInv'
  OBVIOUS
<1>1. Counts /\ TransferTypes /\ TransferInv
  BY DEF IInv
<1>2. CASE WriteCR1 \/ WriteCR4 \/ ReadCR4 \/ Unlock \/ UNCHANGED vars
  <2>1. KeepTransfer /\ partition' = partition
    BY <1>2 DEF WriteCR1, WriteCR4, ReadCR4, Unlock, vars, program, transfer, buffer, KeepTransfer
  <2> QED
    BY <1>1, <2>1, TransferKept
<1>3. CASE ReadData
  <2>1. CASE datanumsecttrans < datasectstotrans
    <3>1. /\ datanumsecttrans' = datanumsecttrans + 1
          /\ UNCHANGED <<open, promised, datatranstype, partition>>
          /\ UNCHANGED <<datatranspartition, datatranspartitionnum, datatranssectpos>>
          /\ UNCHANGED datasectstotrans
      <4>1. datanumsecttrans # datasectstotrans
        BY <1>1, <2>1 DEF TransferTypes
      <4> QED
        BY <1>3, <4>1 DEF ReadData, buffer
    <3>2. datanumsecttrans' \in 0 .. datasectstotrans
      BY <1>1, <2>1, <3>1 DEF TransferTypes
    <3> QED
      BY <1>1, <3>1, <3>2 DEF TransferTypes, TransferInv, TransferIntact
  <2>2. CASE ~(datanumsecttrans < datasectstotrans)
    BY <1>1, <1>3, <2>2, TransferClosed DEF ReadData, EndTransfer, OpenTransfer
  <2> QED
    BY <2>1, <2>2
<1>4. CASE Cs2Execute
  BY <1>4, TransferCommands
<1>5. CASE PeriodicHalf
  <2>1. KeepTransfer
    BY <1>5, PeriodicIs DEF Periodic, KeepTransfer, program
  <2>2. CASE StoreSector
    <3>1. /\ Route[FAD] \in Partitions /\ FAD \in Sectors
          /\ partition' = [partition EXCEPT ![Route[FAD]] = Append(@, FAD)]
      BY <2>2 DEF StoreSector, Wanted, Allocated
    <3>2. ASSUME open # None
          PROVE  \/ partition'[open] = partition[open]
                 \/ \E f \in Sectors : partition'[open] = Append(partition[open], f)
      BY <1>1, <3>1, <3>2, Opened DEF Counts
    <3> QED
      BY <1>1, <2>1, <3>2, TransferKept
  <2>3. CASE ~StoreSector
    <3>1. partition' = partition
      BY <1>5, <2>3 DEF PeriodicHalf, Resume, SeekSlice, SeekDone, BusyDone, LoseSector,
                        NotAllocated, SkipSector, NotReady, Quiescent, buffer
    <3> QED
      BY <1>1, <2>1, <3>1, TransferKept
  <2> QED
    BY <2>2, <2>3
<1> QED
  BY <1>2, <1>3, <1>4, <1>5 DEF Next, CommandHalf

LEMMA RequestStep == IInv /\ Counts' /\ [Next]_vars => RequestInv'
<1> SUFFICES ASSUME IInv, Counts', [Next]_vars PROVE RequestInv'
  OBVIOUS
<1> USE DEF RequestInv
<1>1. Counts /\ RequestInv /\ cmd \in Requests
  BY DEF IInv, PortInv
<1>2. CASE WriteCR1
  <2>1. UNCHANGED <<open, datatranstype, partition>> /\ Allowed(cmd')
    BY <1>2 DEF WriteCR1, buffer, transfer
  <2> QED
    BY <2>1 DEF Allowed, Counted
<1>3. CASE WriteCR4 \/ Unlock \/ UNCHANGED vars
  <2>1. UNCHANGED <<open, datatranstype, partition, cmd>>
        /\ (phase' \in {"writing", "waiting"} => phase \in {"writing", "waiting"})
    BY <1>3 DEF WriteCR4, Unlock, vars, program, port, buffer, transfer
  <2> QED
    BY <1>1, <2>1 DEF Allowed, Counted
<1>4. CASE ReadCR4 \/ ReadData
  BY <1>4 DEF ReadCR4, ReadData
<1>5. CASE Cs2Execute
  BY <1>5, Executed
<1>6. CASE PeriodicHalf
  <2>1. UNCHANGED <<open, datatranstype, cmd, phase>>
    BY <1>6, PeriodicIs DEF Periodic, program, transfer
  <2>2. \A p \in Partitions : numblocks[p] <= numblocks'[p]
    <3>1. CASE StoreSector
      <4>1. numblocks' = [numblocks EXCEPT ![Route[FAD]] = @ + 1]
        BY <3>1 DEF StoreSector, Allocated
      <4> QED
        BY <1>1, <4>1 DEF Counts
    <3>2. CASE ~StoreSector
      <4>1. numblocks' = numblocks
        BY <1>6, <3>2 DEF PeriodicHalf, Resume, SeekSlice, SeekDone, BusyDone, LoseSector,
                          NotAllocated, SkipSector, NotReady, Quiescent, buffer
      <4> QED
        BY <1>1, <4>1 DEF Counts
    <3> QED
      BY <3>1, <3>2
  <2>3. Allowed(cmd) => Allowed(cmd)'
    <3>1. ASSUME NEW c \in Requests, Allowed(c) PROVE Allowed(c)'
      BY <1>1, <2>1, <2>2, <3>1, AllowedKept
    <3> QED
      BY <1>1, <2>1, <3>1
  <2> QED
    BY <1>1, <2>1, <2>3
<1> QED
  BY <1>2, <1>3, <1>4, <1>5, <1>6 DEF Next, CommandHalf
-------------------------------------------------------------------------------
LEMMA InitIInv == Init => IInv
<1> SUFFICES ASSUME Init PROVE IInv
  OBVIOUS
<1>1. MAX_BLOCKS \in Nat \ {0} /\ Issues \in Nat
  BY CdAssumption
<1>2. NoCommand \in Requests
  BY DEF NoCommand, Requests
<1>3. Counts /\ Fullness
  <2>1. /\ partition = [p \in Partitions |-> <<>>] /\ numblocks = [p \in Partitions |-> 0]
        /\ blockfreespace = MAX_BLOCKS /\ isbufferfull = FALSE /\ forgotten = FALSE
    BY DEF Init
  <2>2. /\ partition \in [Partitions -> Seq(Sectors)] /\ numblocks \in [Partitions -> Nat]
        /\ \A p \in Partitions : /\ numblocks[p] = Len(partition[p])
                                 /\ numblocks[p] <= MAX_BLOCKS /\ partition[p] = <<>>
    BY <1>1, <2>1, EmptySeq
  <2>3. AllBlocks = {}
    <3>1. \A p \in Partitions : 1 .. Len(partition[p]) = {}
      BY <2>2
    <3> QED
      BY <3>1 DEF AllBlocks
  <2>4. IsFiniteSet(AllBlocks) /\ Cardinality(AllBlocks) = MAX_BLOCKS - blockfreespace
    BY <1>1, <2>1, <2>3, FS_EmptySet
  <2> QED
    BY <1>1, <2>1, <2>2, <2>4 DEF Counts, Fullness
<1>4. PortInv /\ LockInv /\ RequestInv
  <2>1. Issues \in 0 .. Issues
    BY <1>1
  <2>2. PortInv /\ RequestInv
    BY <1>2, <2>1 DEF Init, PortInv, RequestInv
  <2>3. LockInv
    BY DEF Init, LockInv
  <2> QED
    BY <2>2, <2>3
<1>5. DriveInv
  <2>1. 0 \in 0 .. 255
    OBVIOUS
  <2> QED
    BY <2>1, Places DEF Init, DriveInv
<1>6. TransferTypes /\ TransferInv
  BY <1>1, EmptySeq DEF Init, TransferTypes, TransferInv, TransferIntact
<1> QED
  BY <1>3, <1>4, <1>5, <1>6 DEF IInv

LEMMA NextStep == IInv /\ [Next]_vars => IInv'
<1> SUFFICES ASSUME IInv, [Next]_vars PROVE IInv'
  OBVIOUS
<1>1. Counts' /\ Fullness'
  BY BufferStep
<1> QED
  BY <1>1, PortStep, LockStep, DriveStep, TransferStep, RequestStep DEF IInv

LEMMA Consequences ==
  IInv => TypeOK /\ BlocksCounted /\ FullIsKnown /\ TransferIntact /\ ResponseKept
<1> SUFFICES ASSUME IInv
             PROVE  TypeOK /\ BlocksCounted /\ FullIsKnown /\ TransferIntact /\ ResponseKept
  OBVIOUS
<1>1. PortInv /\ LockInv /\ DriveInv /\ Counts /\ Fullness /\ TransferTypes /\ TransferInv
  BY DEF IInv
<1>2. /\ blockfreespace \in Nat /\ MAX_BLOCKS \in Nat /\ IsFiniteSet(AllBlocks)
      /\ Cardinality(AllBlocks) = MAX_BLOCKS - blockfreespace
      /\ Cardinality(AllBlocks) \in Nat
  BY <1>1, CdAssumption, FS_CardinalityType DEF Counts
<1>3. blockfreespace \in 0 .. MAX_BLOCKS /\ blockfreespace = MAX_BLOCKS - Cardinality(AllBlocks)
  BY <1>2
<1>4. numblocks \in [Partitions -> 0 .. MAX_BLOCKS]
  BY <1>1, <1>2 DEF Counts
<1>5. TypeOK
  <2>1. <<playing, forgotten, PEND>> \in BOOLEAN \X BOOLEAN \X BOOLEAN
    BY <1>1 DEF DriveInv, Fullness
  <2>2. partition \in [Partitions -> Seq(Sectors)] /\ isbufferfull \in BOOLEAN
    BY <1>1 DEF Counts, Fullness
  <2> QED
    BY <1>1, <1>3, <1>4, <2>1, <2>2 DEF TypeOK, PortInv, LockInv, DriveInv, TransferTypes
<1>6. BlocksCounted
  BY <1>1, <1>3 DEF BlocksCounted, Counts
<1>7. FullIsKnown
  BY <1>1 DEF FullIsKnown, Fullness
<1> QED
  BY <1>1, <1>5, <1>6, <1>7 DEF TransferInv, ResponseKept, PortInv
-------------------------------------------------------------------------------
(* The invariant holds from the start and every step keeps it. *)
THEOREM Invariant == Spec => []IInv
<1> QED
  BY InitIInv, NextStep, PTL DEF Spec

(* Every variable of the CD block keeps its type; the counts stay within   *)
(* the pool (cs2.c, Cs2AllocateBlock, Cs2FreeBlock).                       *)
THEOREM Typing == Spec => []TypeOK
<1> QED
  BY Invariant, Consequences, PTL

(* Whatever is stored, deleted, transferred and reset in whatever order,   *)
(* the counts of the partitions and of the free blocks are those of the    *)
(* sectors they hold.                                                      *)
THEOREM PoolIsCounted == Spec => []BlocksCounted
<1> QED
  BY Invariant, Consequences, PTL

(* isbufferfull, kept by each routine that takes or gives a block, is      *)
(* right except after a CDInitialize that does not clear a full buffer.    *)
THEOREM PoolIsKnown == Spec => []FullIsKnown
<1> QED
  BY Invariant, Consequences, PTL

(* The sectors a Get has promised stay at their place until the transfer   *)
(* ends, for every order of arrivals, deletions and resets that a program  *)
(* with the stated discipline can ask for.                                 *)
THEOREM TransfersIntact == Spec => []TransferIntact
<1> QED
  BY Invariant, Consequences, PTL

(* A periodic report never overwrites a command being written or an        *)
(* unread answer (Cs2Exec, _command).                                      *)
THEOREM ResponsesKept == Spec => []ResponseKept
<1> QED
  BY Invariant, Consequences, PTL

(* No command runs while the one before owes its delayed interrupt.        *)
THEOREM DelayedIrqComesFirst == Spec => DelayedIrqFirst
<1>1. IInv /\ [Next]_vars => [_commandtiming /\ ~_commandtiming' => owed = {}]_vars
  <2> SUFFICES ASSUME IInv, Next, _commandtiming, ~_commandtiming' PROVE owed = {}
    OBVIOUS
  <2>1. Cs2Execute
    <3>1. CASE WriteCR1 \/ ReadCR4 \/ ReadData \/ Unlock
      BY <3>1 DEF WriteCR1, ReadCR4, ReadData, Unlock, port
    <3>2. CASE WriteCR4
      BY <3>2 DEF WriteCR4
    <3>3. CASE PeriodicHalf
      BY <3>3, PeriodicIs DEF Periodic
    <3> QED
      BY <3>1, <3>2, <3>3 DEF Next, CommandHalf
  <2>2. ~_command_execlock
    BY <2>1, Executed DEF Ready
  <2> QED
    BY <2>2 DEF IInv, LockInv
<1> QED
  BY <1>1, Invariant, PTL DEF Spec, DelayedIrqFirst
-------------------------------------------------------------------------------
(* A drive that plays, or will, has a play to serve. *)
PlayInv == status = "PLAY" \/ (status = "SEEK" /\ nextStatus = None) => playing
-------------------------------------------------------------------------------
(* The drive has a play whenever it reads. *)
LEMMA PlayCommands ==
  ASSUME PlayInv, DriveInv, Cs2Execute
  PROVE  PlayInv'
<1> USE DEF Execute, PlayInv
<1>1. CASE KeepDrive
  BY <1>1 DEF KeepDrive, drive
<1>2. CASE Execute(Initialize, {"Initialize"})
  BY <1>2 DEF Initialize, Interrupted
<1>3. CASE Execute(Play, {"Play"})
  BY <1>3 DEF Play, PlayStarts
<1>4. CASE Execute(PlayOn, {"PlayOn"})
  BY <1>4 DEF PlayOn, PlayStarts
<1>5. CASE Execute(Refresh, {"Refresh"})
  <2>1. CASE status \in {"SEEK", "PLAY"}
    BY <1>5, <2>1 DEF Refresh
  <2>2. CASE status \notin {"SEEK", "PLAY"}
    BY <1>5, <2>2 DEF Refresh, PlayStarts
  <2> QED
    BY <2>1, <2>2
<1>6. CASE Execute(ReadFile, {"ReadFile"})
  BY <1>6 DEF ReadFile, PlayStarts
<1>7. CASE Execute(SeekDisc, {"Seek", "SeekPause", "SeekStop"})
  <2>1. status' = "BUSY" \/ (status' = "SEEK" /\ nextStatus' = "PAUSE")
    BY <1>7 DEF SeekDisc, Interrupted
  <2>2. None # "PAUSE"
    BY Places
  <2> QED
    BY <2>1, <2>2
<1>8. CASE Execute(AbortFile, {"AbortFile"})
  BY <1>8 DEF AbortFile, Interrupted
<1>9. CASE Execute(Connect, {"Connect"})
  BY <1>9 DEF Connect, drive
<1>10. CASE Execute(ResetSelector, {"ResetFilters", "ResetAll"})
  BY <1>10 DEF ResetSelector
<1> QED
  BY <1>1, <1>2, <1>3, <1>4, <1>5, <1>6, <1>7, <1>8, <1>9, <1>10
  DEF Cs2Execute, GetStatus, EndDataTransfer, ResetPartition, Get, Delete

LEMMA PlayPeriodic ==
  ASSUME PlayInv, DriveInv, PeriodicHalf
  PROVE  PlayInv'
<1> USE DEF PlayInv
<1>1. ASSUME NEW full, status = "PLAY", Advance(full) PROVE PlayInv'
  BY <1>1 DEF Advance
<1>2. CASE Resume
  BY <1>2 DEF Resume
<1>3. CASE SeekSlice \/ NotReady \/ Quiescent
  BY <1>3 DEF SeekSlice, NotReady, Quiescent, drive
<1>4. CASE SeekDone
  BY <1>4 DEF SeekDone, DriveInv
<1>5. CASE BusyDone
  BY <1>5 DEF BusyDone, DriveInv
<1>6. CASE StoreSector \/ LoseSector \/ SkipSector
  BY <1>1, <1>6 DEF StoreSector, LoseSector, SkipSector
<1> QED
  BY <1>2, <1>3, <1>4, <1>5, <1>6 DEF PeriodicHalf

LEMMA PlayStep == PlayInv /\ DriveInv /\ [Next]_vars => PlayInv'
<1> SUFFICES ASSUME PlayInv, DriveInv, [Next]_vars PROVE PlayInv'
  OBVIOUS
<1>1. CASE WriteCR1 \/ WriteCR4 \/ ReadCR4 \/ ReadData \/ Unlock \/ UNCHANGED vars
  <2>1. UNCHANGED <<status, nextStatus, playing>>
    BY <1>1 DEF WriteCR1, WriteCR4, ReadCR4, ReadData, Unlock, vars, drive, history
  <2> QED
    BY <2>1 DEF PlayInv
<1> QED
  BY <1>1, PlayCommands, PlayPeriodic DEF Next, CommandHalf
-------------------------------------------------------------------------------
(* What commands and the data port remove from the partitions. *)
LEMMA Shrinking ==
  ASSUME NEW s \in Seq(Sectors)
  PROVE  /\ Read!Shrinks(s, s) /\ Read!Shrinks(s, <<>>)
         /\ \A pos, n \in Nat : pos + n <= Len(s) => Read!Shrinks(s, Without(s, pos, n))
<1>1. Len(s) \in Nat
  BY LenProperties
<1>2. ASSUME NEW pos \in Nat, NEW n \in Nat, pos + n <= Len(s)
      PROVE  Read!Shrinks(s, Without(s, pos, n))
  <2>1. pos \in 0 .. Len(s) /\ pos + n + 1 \in pos + 1 .. Len(s) + 1
    BY <1>1, <1>2
  <2> QED
    BY <2>1 DEF Read!Shrinks, Without
<1>3. Without(s, Len(s), 0) = s
  <2>1. SubSeq(s, 1, Len(s)) = s
    BY SubSeqFull
  <2>2. Len(s) + 0 + 1 \in Int /\ Len(s) \in Int /\ Len(s) < Len(s) + 0 + 1
    BY <1>1
  <2>3. SubSeq(s, Len(s) + 0 + 1, Len(s)) = <<>>
    BY <2>2, SubSeqEmpty
  <2> QED
    BY <2>1, <2>3, ConcatEmptySeq DEF Without
<1>4. Without(s, 0, Len(s)) = <<>>
  <2>1. SubSeq(s, 1, 0) = <<>>
    BY SubSeqEmpty
  <2>2. 0 + Len(s) + 1 \in Int /\ Len(s) \in Int /\ Len(s) < 0 + Len(s) + 1
    BY <1>1
  <2>3. SubSeq(s, 0 + Len(s) + 1, Len(s)) = <<>>
    BY <2>2, SubSeqEmpty
  <2>4. <<>> \in Seq(Sectors)
    BY EmptySeq
  <2>5. SubSeq(s, 1, 0) \o SubSeq(s, 0 + Len(s) + 1, Len(s)) = <<>>
    BY <2>1, <2>3, <2>4, ConcatEmptySeq
  <2> QED
    BY <2>5 DEF Without
<1>5. Read!Shrinks(s, s)
  BY <1>1, <1>2, <1>3
<1>6. Read!Shrinks(s, <<>>)
  BY <1>1, <1>2, <1>4
<1> QED
  BY <1>2, <1>5, <1>6

LEMMA ShrinkEffect ==
  ASSUME Counts,
         \/ partition' = partition
         \/ \E p \in Partitions, pos, n \in Nat :
              pos + n <= Len(partition[p])
              /\ partition' = [partition EXCEPT ![p] = Without(@, pos, n)]
         \/ \E p \in Partitions : partition' = [partition EXCEPT ![p] = <<>>]
         \/ partition' = [p \in Partitions |-> <<>>]
  PROVE  DOMAIN partition' = DOMAIN partition /\ Read!PartitionsShrink
<1>1. partition \in [Partitions -> Seq(Sectors)]
  BY DEF Counts
<1>2. DOMAIN partition' = Partitions /\ DOMAIN partition = Partitions
  BY <1>1
<1>3. ASSUME NEW q \in Partitions PROVE Read!Shrinks(partition[q], partition'[q])
  <2>1. partition[q] \in Seq(Sectors)
    BY <1>1
  <2>2. \/ partition'[q] = partition[q] \/ partition'[q] = <<>>
        \/ \E pos, n \in Nat : /\ pos + n <= Len(partition[q])
                               /\ partition'[q] = Without(partition[q], pos, n)
    BY <1>1
  <2> QED
    BY <2>1, <2>2, Shrinking
<1> QED
  BY <1>2, <1>3 DEF Read!PartitionsShrink

LEMMA CommandsShrink ==
  ASSUME IInv, Cs2Execute
  PROVE  DOMAIN partition' = DOMAIN partition /\ Read!PartitionsShrink
<1> USE DEF Execute
<1>1. cmd \in Requests /\ Allowed(cmd) /\ Counts /\ TransferTypes /\ TransferInv
  BY Waits DEF IInv
<1>2. CASE partition' = partition
  BY <1>1, <1>2, ShrinkEffect
<1>3. CASE partition' = [p \in Partitions |-> <<>>]
  BY <1>1, <1>3, ShrinkEffect
<1>4. ASSUME NEW p \in Partitions, NEW pos \in Nat, NEW n \in Nat,
             pos + n <= Len(partition[p]), Free(p, pos, n)
      PROVE  DOMAIN partition' = DOMAIN partition /\ Read!PartitionsShrink
  BY <1>1, <1>4, ShrinkEffect DEF Free
<1>5. CASE Execute(Initialize, {"Initialize"})
  BY <1>2, <1>3, <1>5 DEF Initialize, ClearPartitions
<1>6. CASE Execute(ResetSelector, {"ResetFilters", "ResetAll"})
  BY <1>2, <1>3, <1>6 DEF ResetSelector, ClearPartitions, KeepBuffer, buffer
<1>7. CASE Execute(ResetPartition, {"ResetPartition"})
  <2>1. cmd.part \in Partitions /\ partition' = [partition EXCEPT ![cmd.part] = <<>>]
    BY <1>1, <1>7, RequestShape DEF ResetPartition
  <2> QED
    BY <1>1, <2>1, ShrinkEffect
<1>8. CASE Execute(EndDataTransfer, {"EndDataTransfer"})
  <2>1. CASE datatranstype = "GETDELSECTOR"
    <3>1. open # None /\ Free(datatranspartition, datatranssectpos, datasectstotrans)
      BY <1>1, <1>8, <2>1 DEF EndDataTransfer, TransferInv
    <3> QED
      BY <1>1, <1>4, <3>1, Opened
  <2> QED
    BY <1>2, <1>8, <2>1 DEF EndDataTransfer, KeepBuffer, buffer
<1>9. CASE Execute(Delete, {"Delete"})
  <2>1. CASE numblocks[cmd.part] # 0
    <3>1. cmd.op = "Delete" /\ Free(cmd.part, Offset(cmd.part, cmd.sel), Number(cmd.part, cmd.sel))
      BY <1>9, <2>1 DEF Delete
    <3>2. Counted(cmd.part, cmd.sel) /\ cmd.part \in Partitions
      BY <1>1, <3>1, RequestShape DEF Allowed
    <3>3. /\ Offset(cmd.part, cmd.sel) \in Nat /\ Number(cmd.part, cmd.sel) \in Nat
          /\ Offset(cmd.part, cmd.sel) + Number(cmd.part, cmd.sel) <= Len(partition[cmd.part])
      BY <1>1, <2>1, <3>1, <3>2, SelectionFits
    <3> QED
      BY <1>4, <3>1, <3>2, <3>3
  <2> QED
    BY <1>2, <1>9, <2>1 DEF Delete, KeepBuffer, buffer
<1> QED
  BY <1>2, <1>5, <1>6, <1>7, <1>8, <1>9
  DEF Cs2Execute, GetStatus, Play, PlayOn, Refresh, ReadFile, SeekDisc, AbortFile, Connect, Get,
      KeepBuffer, buffer

(* What each kind of command does to a play, and to one that may come back. *)
LEMMA CommandsPlay ==
  ASSUME Cs2Execute
  PROVE  /\ Waiting = "play" => ~Revivable'
         /\ Waiting = "seek" => ~playing' /\ ~Revivable'
         /\ Waiting = "other" =>
              /\ bufferfullpause' => bufferfullpause
              /\ playing' => playing
                   /\ UNCHANGED <<FAD, playFAD, playendFAD, repcnt, maxrepeat>>
         /\ Waiting # "none"
<1> USE DEF Waiting, Revivable
<1>1. _commandtiming
  BY Executed DEF Ready
<1>2. CASE cmd.op \in {"Play", "PlayOn", "Refresh", "ReadFile"}
  <2>1. bufferfullpause' = FALSE \/ playing' = TRUE
    BY <1>2 DEF Cs2Execute, Execute, Play, PlayOn, Refresh, ReadFile, Superseded, PlayStarts
  <2> QED
    BY <1>1, <1>2, <2>1
<1>3. CASE cmd.op \in {"Seek", "SeekPause", "SeekStop"}
  <2>1. bufferfullpause' = FALSE /\ playing' = FALSE
    BY <1>3 DEF Cs2Execute, Execute, SeekDisc, Superseded
  <2> QED
    BY <1>1, <1>3, <2>1
<1>4. CASE cmd.op \notin {"Play", "PlayOn", "Refresh", "ReadFile", "Seek", "SeekPause", "SeekStop"}
  <2>1. \/ UNCHANGED <<drive, playing>>
        \/ playing' = FALSE /\ UNCHANGED bufferfullpause
        \/ (playing' => playing) /\ UNCHANGED <<FAD, range, bufferfullpause>>
    BY <1>4 DEF Cs2Execute, Execute, GetStatus, Initialize, EndDataTransfer, AbortFile, Connect,
                ResetPartition, ResetSelector, Get, Delete, KeepDrive
  <2> QED
    BY <1>1, <1>4, <2>1 DEF drive, range
<1> QED
  BY <1>2, <1>3, <1>4
-------------------------------------------------------------------------------
(* The steps of the drive map to those of SectorRead. *)
LEMMA IdleMaps ==
  ASSUME UNCHANGED <<Waiting, playing, Revivable, FAD, playFAD, playendFAD, repcnt, maxrepeat>>,
         UNCHANGED <<partition, forgotten>>, PEND' = FALSE
  PROVE  Read!Other
<1>1. UNCHANGED Again
  BY DEF Again
<1> QED
  BY <1>1 DEF Read!Other, Read!Keep

LEMMA SectorMaps ==
  ASSUME PlayInv, DriveInv, status = "PLAY", FAD \in Sectors, NEW full, Advance(full),
         Read!Stored \/ Read!Lost, forgotten' => forgotten, UNCHANGED Waiting
  PROVE  Read!Read
<1>1. playing /\ Revivable = FALSE
  BY DEF PlayInv, Revivable
<1>2. /\ repcnt \in Nat /\ maxrepeat \in Nat /\ Again \in Int
      /\ Again # 0 <=> repcnt < maxrepeat
  <2>1. repcnt \in Nat /\ maxrepeat \in Nat
    BY CdAssumption DEF DriveInv
  <2> QED
    BY <2>1 DEF Again
<1>3. UNCHANGED <<playFAD, playendFAD, maxrepeat>>
  BY DEF Advance
<1>4. CASE AtEnd /\ repcnt >= maxrepeat
  <2>1. /\ FAD' = FAD + 1 /\ PEND' = TRUE /\ playing' = FALSE
        /\ bufferfullpause' = FALSE /\ UNCHANGED repcnt
    BY <1>4 DEF Advance
  <2>2. Again = 0 /\ Again' = 0
    BY <1>2, <1>3, <1>4, <2>1 DEF Again
  <2>3. FAD + 1 >= playendFAD /\ Revivable' = FALSE
    BY <1>4, <2>1 DEF AtEnd, Revivable
  <2>4. /\ FAD' = (IF Read!AtEnd /\ Again # 0 THEN playFAD ELSE FAD + 1)
        /\ Again' = (IF Read!AtEnd /\ Again > 0 THEN Again - 1 ELSE Again)
        /\ playing' = (~Read!AtEnd \/ Again # 0) /\ PEND' = ~playing'
    <3>1. Read!AtEnd /\ ~(Again # 0) /\ ~(Again > 0)
      BY <2>2, <2>3 DEF Read!AtEnd
    <3>2. playing' = FALSE /\ PEND' = TRUE
      BY <2>1
    <3> QED
      BY <2>1, <2>2, <3>1, <3>2
  <2> QED
    BY <1>1, <1>3, <2>3, <2>4 DEF Read!Read
<1>5. CASE AtEnd /\ ~(repcnt >= maxrepeat)
  <2>1. /\ FAD' = playFAD /\ PEND' = FALSE /\ UNCHANGED playing
        /\ repcnt' = (IF repcnt < 14 THEN repcnt + 1 ELSE repcnt)
    BY <1>5 DEF Advance
  <2>2. Again # 0 /\ Again' = IF Again > 0 THEN Again - 1 ELSE Again
    <3>1. CASE maxrepeat > 14
      BY <1>2, <1>3, <1>5, <2>1, <3>1 DEF Again
    <3>2. CASE ~(maxrepeat > 14)
      BY <1>2, <1>3, <1>5, <2>1, <3>2 DEF Again
    <3> QED
      BY <3>1, <3>2
  <2>3. FAD + 1 >= playendFAD /\ Revivable' = FALSE
    BY <1>1, <1>5, <2>1 DEF AtEnd, Revivable
  <2> QED
    BY <1>1, <1>3, <2>1, <2>2, <2>3 DEF Read!Read, Read!AtEnd
<1>6. CASE ~AtEnd
  <2>1. /\ FAD' = FAD + 1 /\ PEND' = FALSE /\ UNCHANGED <<playing, repcnt>>
    BY <1>6 DEF Advance
  <2>2. Again' = Again
    BY <1>3, <2>1 DEF Again
  <2>3. ~(FAD + 1 >= playendFAD) /\ Revivable' = FALSE
    BY <1>1, <1>6, <2>1 DEF AtEnd, Revivable
  <2> QED
    BY <1>1, <1>3, <2>1, <2>2, <2>3 DEF Read!Read, Read!AtEnd
<1> QED
  BY <1>4, <1>5, <1>6

(* A play that goes on resumes unseen; one that was stopped comes back. *)
LEMMA ResumeMaps ==
  ASSUME IInv, Resume
  PROVE  Read!Next
<1>1. UNCHANGED <<Waiting, FAD, playFAD, playendFAD, repcnt, maxrepeat>>
      /\ UNCHANGED <<partition, forgotten, Again>> /\ PEND' = FALSE
  BY DEF Resume, Periodic, range, buffer, Again, Waiting
<1>2. bufferfullpause /\ FAD < playendFAD /\ playing' = TRUE /\ Revivable' = FALSE
  BY DEF Resume, MayResume, Revivable
<1>3. CASE playing
  <2>1. UNCHANGED <<playing, Revivable>>
    BY <1>2, <1>3 DEF Revivable, IInv, DriveInv
  <2> QED
    BY <1>1, <2>1, IdleMaps DEF Read!Next
<1>4. CASE ~playing
  <2>1. Revivable
    BY <1>2, <1>4 DEF Revivable
  <2> QED
    BY <1>1, <1>2, <2>1 DEF Read!Next, Read!Revive
<1> QED
  BY <1>3, <1>4

LEMMA PeriodicMaps ==
  ASSUME IInv, PlayInv, PeriodicHalf
  PROVE  Read!Next
<1>1. UNCHANGED Waiting /\ DriveInv /\ Counts /\ Fullness
  BY PeriodicIs DEF Periodic, IInv, Waiting
<1>2. CASE SeekSlice \/ SeekDone \/ BusyDone \/ NotReady \/ Quiescent
  <2>1. UNCHANGED <<playing, Revivable, FAD, playFAD, playendFAD, repcnt, maxrepeat>>
    BY <1>2 DEF SeekSlice, SeekDone, BusyDone, NotReady, Quiescent, drive, range, Revivable
  <2>2. UNCHANGED <<partition, forgotten>> /\ PEND' = FALSE
    BY <1>2 DEF SeekSlice, SeekDone, BusyDone, NotReady, Quiescent, buffer
  <2> QED
    BY <1>1, <2>1, <2>2, IdleMaps DEF Read!Next
<1>3. CASE StoreSector
  <2>1. /\ FAD \in Wanted /\ FAD \in Sectors /\ status = "PLAY" /\ Advance(isbufferfull')
        /\ partition' = [partition EXCEPT ![Route[FAD]] = Append(@, FAD)]
        /\ UNCHANGED forgotten
    BY <1>3 DEF StoreSector, Allocated, Wanted
  <2>2. Read!Stored
    BY <2>1 DEF Read!Stored
  <2> QED
    BY <1>1, <2>1, <2>2, SectorMaps DEF Read!Next
<1>4. CASE LoseSector
  <2>1. /\ FAD \in Wanted /\ FAD \in Sectors /\ status = "PLAY" /\ Advance(FALSE)
        /\ ~isbufferfull /\ blockfreespace <= 0 /\ forgotten' = FALSE /\ UNCHANGED partition
    BY <1>4 DEF LoseSector, NotAllocated, Wanted
  <2>2. forgotten
    BY <1>1, <2>1 DEF Counts, Fullness
  <2>3. Read!Lost
    BY <2>1, <2>2 DEF Read!Lost
  <2> QED
    BY <1>1, <2>1, <2>3, SectorMaps DEF Read!Next
<1>5. CASE SkipSector
  <2>1. /\ FAD \in Sectors /\ status = "PLAY" /\ Advance(FALSE)
        /\ Route[FAD] \in {Audio, Reject} /\ UNCHANGED <<partition, forgotten>>
    BY <1>5 DEF SkipSector, buffer
  <2>2. FAD \notin Wanted
    BY <2>1, CdAssumption DEF Wanted
  <2>3. Read!Stored
    BY <2>1, <2>2 DEF Read!Stored
  <2> QED
    BY <1>1, <2>1, <2>3, SectorMaps DEF Read!Next
<1> QED
  BY <1>2, <1>3, <1>4, <1>5, ResumeMaps DEF PeriodicHalf

LEMMA NextMaps == IInv /\ PlayInv /\ [Next]_vars => [Read!Next]_(Read!vars)
<1> SUFFICES ASSUME IInv, PlayInv, [Next]_vars PROVE Read!Next \/ UNCHANGED Read!vars
  OBVIOUS
<1>1. Counts /\ TransferTypes /\ TransferInv /\ Fullness
  BY DEF IInv
<1>2. CASE WriteCR1 \/ ReadCR4 \/ Unlock
  <2>1. UNCHANGED <<playing, Revivable, FAD, playFAD, playendFAD, repcnt, maxrepeat>>
    BY <1>2 DEF WriteCR1, ReadCR4, Unlock, drive, range, history, Revivable
  <2>2. UNCHANGED <<partition, forgotten>> /\ PEND' = FALSE
    BY <1>2 DEF WriteCR1, ReadCR4, Unlock, buffer, history
  <2>3. UNCHANGED Waiting
    BY <1>2 DEF WriteCR1, ReadCR4, Unlock, port, Waiting, IInv, PortInv
  <2> QED
    BY <2>1, <2>2, <2>3, IdleMaps DEF Read!Next
<1>3. CASE WriteCR4
  <2>1. UNCHANGED <<playing, Revivable, FAD, playFAD, playendFAD, repcnt, maxrepeat>>
        /\ UNCHANGED <<partition, forgotten>> /\ PEND' = FALSE /\ Waiting = "none"
    BY <1>3 DEF WriteCR4, drive, range, history, buffer, Revivable, Waiting, IInv, PortInv
  <2>2. UNCHANGED Again
    BY <2>1 DEF Again
  <2> QED
    BY <2>1, <2>2 DEF Read!Next, Read!Other, Read!Keep
<1>4. CASE ReadData
  <2>1. UNCHANGED <<Waiting, playing, Revivable, FAD, playFAD, playendFAD, repcnt, maxrepeat>>
        /\ PEND' = FALSE /\ open # None
    BY <1>4 DEF ReadData, port, drive, range, Revivable, Waiting
  <2>2. CASE UNCHANGED <<partition, forgotten>>
    BY <2>1, <2>2, IdleMaps DEF Read!Next
  <2>3. CASE Free(datatranspartition, datatranssectpos, datasectstotrans)
    <3>1. DOMAIN partition' = DOMAIN partition /\ Read!PartitionsShrink
      BY <1>1, <2>1, <2>3, Opened, ShrinkEffect DEF Free
    <3>2. UNCHANGED Again
      BY <2>1 DEF Again
    <3>3. forgotten' => forgotten
      BY <2>3 DEF Free
    <3> QED
      BY <2>1, <3>1, <3>2, <3>3 DEF Read!Next, Read!Take, Read!Keep
  <2> QED
    BY <1>4, <2>2, <2>3 DEF ReadData, buffer
<1>5. CASE Cs2Execute
  <2>1. Waiting' = "none" /\ PEND' = FALSE
    BY <1>5, Executed DEF Waiting
  <2>2. Waiting = "other" =>
          /\ playing' => playing /\ UNCHANGED <<FAD, playFAD, playendFAD, Again>>
          /\ Revivable' => ~playing' /\ (playing \/ Revivable)
    BY <1>5, CommandsPlay DEF Again, Revivable, IInv, DriveInv
  <2>3. /\ Waiting = "play" => ~Revivable'
        /\ Waiting = "seek" => ~playing' /\ ~Revivable'
        /\ Waiting # "none"
    BY <1>5, CommandsPlay
  <2> QED
    BY <1>5, <2>1, <2>2, <2>3, CommandsShrink DEF Read!Next, Read!Command
<1>6. CASE PeriodicHalf
  BY <1>6, PeriodicMaps
<1>7. CASE UNCHANGED vars
  <2>1. UNCHANGED <<Waiting, playing, Revivable, FAD, playFAD, playendFAD, repcnt, maxrepeat>>
        /\ UNCHANGED <<partition, forgotten, PEND>>
    BY <1>7 DEF vars, port, drive, range, history, buffer, Revivable, Waiting
  <2>2. UNCHANGED Again
    BY <2>1 DEF Again
  <2> QED
    BY <2>1, <2>2 DEF Read!vars
<1> QED
  BY <1>2, <1>3, <1>4, <1>5, <1>6, <1>7 DEF Next, CommandHalf
-------------------------------------------------------------------------------
(* The CD block delivers the sectors of a play as SectorRead says: in      *)
(* order, each once, through pauses for a full buffer, resumptions,        *)
(* repeats, the endless ones too, and commands; without a play it delivers *)
(* none, unless one that was stopped while it waited for space comes back; *)
(* a seek leaves none that does (cs2.c, Cs2Exec and ReadFilteredSector).   *)
THEOREM DeliversInOrder == Spec => ReadSpec
<1>1. Init => PlayInv /\ Read!Init
  <2> SUFFICES ASSUME Init PROVE PlayInv /\ Read!Init
    OBVIOUS
  <2>1. Revivable = FALSE /\ Waiting = "none"
    BY DEF Init, Revivable, Waiting
  <2> QED
    BY <2>1 DEF Init, PlayInv, Read!Init
<1>2. PlayInv /\ IInv /\ [Next]_vars => PlayInv'
  BY PlayStep DEF IInv
<1>3. Spec => [](IInv /\ PlayInv)
  BY <1>1, <1>2, Invariant, PTL DEF Spec
<1>4. IInv /\ PlayInv /\ [Next]_vars => [Read!Next]_(Read!vars)
  BY NextMaps
<1> QED
  BY <1>1, <1>3, <1>4, PTL DEF Spec, ReadSpec, Read!Spec
===============================================================================
