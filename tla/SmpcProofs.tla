------------------------------ MODULE SmpcProofs ------------------------------
(***************************************************************************)
(* What Smpc promises for every size of an answer and of the ports, every  *)
(* field and every number of writes: the port never hangs, a command is    *)
(* performed once, and the bytes of the peripherals arrive in order.       *)
(***************************************************************************)
EXTENDS Smpc, SequenceTheorems, TLAPS

(* What the commands leave behind them, for a program in the protocol: a   *)
(* claimed port is idle, and a command that runs is the one asked for.     *)
PoliteInv ==
  ~rude => /\ claimed => SF /\ timing = 0
           /\ timing > 0 => SF /\ asked = COMREG

(* The ports are read together and used up in order: port 2 is whole while *)
(* port 1 is not used up, and `reported' says how far it has come.         *)
PortsInv ==
  /\ port1.size \in {0, Size1} /\ port2.size \in {0, Size2}
  /\ port1.size = 0 /\ port2.size = 0 => reported \in {0, Size1 + Size2}
  /\ port1.size # 0 =>
       /\ Size1 >= Oregs /\ port1.offset = Oregs /\ reported = Oregs
       /\ port2.size = Size2 /\ port2.offset = 0
  /\ port1.size = 0 /\ port2.size # 0 =>
       /\ reported = Size1 + port2.offset /\ reported \in {Oregs, 2 * Oregs}
       /\ port2.offset \in 1 .. Size2 - 1 /\ Size2 - port2.offset < Oregs

IInv == TypeOK /\ BusyIsPending /\ PoliteInv /\ FirstOnce /\ PortsInv
-------------------------------------------------------------------------------
(* Data of a port. *)
LEMMA BytesFacts ==
  ASSUME NEW port \in {1, 2}, NEW from \in Nat, NEW n \in Nat
  PROVE  /\ Bytes(port, from, n) \in Seq({1, 2} \X Nat)
         /\ Len(Bytes(port, from, n)) = n
         /\ \A i \in 1 .. n : Bytes(port, from, n)[i] = <<port, from + i - 1>>
<1>1. \A i \in 1 .. n : from + i - 1 \in Nat
  OBVIOUS
<1>2. \A i \in 1 .. n : <<port, from + i - 1>> \in {1, 2} \X Nat
  BY <1>1
<1> QED
  BY <1>2 DEF Bytes

(* What the two ports hold together. *)
LEMMA CollectedFacts ==
  /\ Collected \in Seq({1, 2} \X Nat)
  /\ Len(Collected) = Size1 + Size2
  /\ \A i \in 1 .. Size1 : Collected[i] = <<1, i - 1>>
  /\ \A i \in 1 .. Size2 : Collected[Size1 + i] = <<2, i - 1>>
<1> DEFINE b1 == Bytes(1, 0, Size1)  b2 == Bytes(2, 0, Size2)
<1>1. Size1 \in Nat /\ Size2 \in Nat
  BY SmpcAssumption
<1>2. b1 \in Seq({1, 2} \X Nat) /\ Len(b1) = Size1
  BY <1>1, BytesFacts
<1>3. b2 \in Seq({1, 2} \X Nat) /\ Len(b2) = Size2
  BY <1>1, BytesFacts
<1>4. \A i \in 1 .. Size1 : b1[i] = <<1, i - 1>>
  <2>1. \A i \in 1 .. Size1 : b1[i] = <<1, 0 + i - 1>>
    BY <1>1, BytesFacts
  <2>2. \A i \in 1 .. Size1 : 0 + i - 1 = i - 1
    BY <1>1
  <2> HIDE DEF b1
  <2> QED
    BY <2>1, <2>2
<1>5. \A i \in 1 .. Size2 : b2[i] = <<2, i - 1>>
  <2>1. \A i \in 1 .. Size2 : b2[i] = <<2, 0 + i - 1>>
    BY <1>1, BytesFacts
  <2>2. \A i \in 1 .. Size2 : 0 + i - 1 = i - 1
    BY <1>1
  <2> HIDE DEF b2
  <2> QED
    BY <2>1, <2>2
<1>6. Collected = b1 \o b2
  BY DEF Collected
<1> HIDE DEF b1, b2
<1>7. b1 \o b2 \in Seq({1, 2} \X Nat) /\ Len(b1 \o b2) = Size1 + Size2
  BY <1>2, <1>3, ConcatProperties
<1>8. \A i \in 1 .. Len(b1) + Len(b2) :
        (b1 \o b2)[i] = IF i <= Len(b1) THEN b1[i] ELSE b2[i - Len(b1)]
  BY <1>2, <1>3, ConcatProperties
<1>9. \A i \in 1 .. Size1 + Size2 : Collected[i] = IF i <= Size1 THEN b1[i] ELSE b2[i - Size1]
  BY <1>2, <1>3, <1>6, <1>8
<1>10. ASSUME NEW i \in 1 .. Size1 PROVE Collected[i] = <<1, i - 1>>
  <2>1. Collected[i] = b1[i]
    BY <1>1, <1>9
  <2> QED
    BY <2>1, <1>4
<1>11. ASSUME NEW i \in 1 .. Size2 PROVE Collected[Size1 + i] = <<2, i - 1>>
  <2>1. Collected[Size1 + i] = b2[i]
    <3>1. /\ Size1 + i \in 1 .. Size1 + Size2 /\ ~(Size1 + i <= Size1)
          /\ (Size1 + i) - Size1 = i
      BY <1>1
    <3> QED
      BY <3>1, <1>9
  <2> QED
    BY <2>1, <1>5
<1> QED
  BY <1>6, <1>7, <1>10, <1>11

Piece(from, to) == SubSeq(Collected, from + 1, to)

Follows(f1, n1, f2, n2, from, to) ==
  /\ n1 > 0 => f1 = from /\ from + n1 <= Size1
  /\ n2 > 0 => from + n1 = Size1 + f2 /\ f2 + n2 <= Size2
  /\ to = from + n1 + n2 /\ to <= Size1 + Size2

IsPiece(data, n, from, to) ==
  data = Piece(from, to) /\ data \in Seq({1, 2} \X Nat) /\ Len(data) = n

(* A piece of each port, the second where the first one ends, is a piece   *)
(* of what was collected.                                                  *)
LEMMA Pieces ==
  ASSUME NEW f1 \in Nat, NEW n1 \in Nat, NEW f2 \in Nat, NEW n2 \in Nat, NEW from \in Nat,
         NEW to \in Nat, Follows(f1, n1, f2, n2, from, to)
  PROVE  IsPiece(Bytes(1, f1, n1) \o Bytes(2, f2, n2), n1 + n2, from, to)
<1> USE DEF Follows
<1> DEFINE b1 == Bytes(1, f1, n1)  b2 == Bytes(2, f2, n2)
           data == b1 \o b2
           sub == SubSeq(Collected, from + 1, from + n1 + n2)
<1>1. Size1 \in Nat /\ Size2 \in Nat
  BY SmpcAssumption
<1>2. b1 \in Seq({1, 2} \X Nat) /\ Len(b1) = n1
  BY BytesFacts
<1>3. b2 \in Seq({1, 2} \X Nat) /\ Len(b2) = n2
  BY BytesFacts
<1>4. \A i \in 1 .. n1 : b1[i] = <<1, f1 + i - 1>>
  BY BytesFacts
<1>5. \A i \in 1 .. n2 : b2[i] = <<2, f2 + i - 1>>
  BY BytesFacts
<1> HIDE DEF b1, b2
<1>6. data \in Seq({1, 2} \X Nat) /\ Len(data) = n1 + n2
  BY <1>2, <1>3, ConcatProperties
<1>7. \A i \in 1 .. n1 + n2 : data[i] = IF i <= n1 THEN b1[i] ELSE b2[i - n1]
  BY <1>2, <1>3, ConcatProperties
<1>8. \A i \in from + 1 .. from + n1 + n2 : Collected[i] \in {1, 2} \X Nat
  <2>1. \A i \in 1 .. Len(Collected) : Collected[i] \in {1, 2} \X Nat
    BY CollectedFacts
  <2>2. Len(Collected) \in Nat /\ from + n1 + n2 <= Len(Collected)
    BY <1>1, CollectedFacts
  <2>3. from + 1 .. from + n1 + n2 \subseteq 1 .. Len(Collected)
    BY ONLY <2>2, from \in Nat, n1 \in Nat, n2 \in Nat
  <2> QED
    BY ONLY <2>1, <2>3
<1>9. /\ sub \in Seq({1, 2} \X Nat) /\ Len(sub) = n1 + n2
      /\ \A i \in 1 .. n1 + n2 : sub[i] = Collected[from + i]
  <2>1. from + 1 \in Int /\ from + n1 + n2 \in Int
    OBVIOUS
  <2>2. /\ sub \in Seq({1, 2} \X Nat)
        /\ Len(sub) = IF from + 1 <= from + n1 + n2 THEN from + n1 + n2 - (from + 1) + 1 ELSE 0
        /\ \A i \in 1 .. from + n1 + n2 - (from + 1) + 1 : sub[i] = Collected[from + 1 + i - 1]
    BY <2>1, <1>8, SubSeqProperties
  <2> HIDE DEF sub
  <2>3. from + n1 + n2 - (from + 1) + 1 = n1 + n2
    OBVIOUS
  <2>4. ASSUME NEW i \in 1 .. n1 + n2 PROVE sub[i] = Collected[from + i]
    <3>1. from + 1 + i - 1 = from + i
      OBVIOUS
    <3> QED
      BY <2>2, <2>3, <3>1
  <2> QED
    BY <2>2, <2>3, <2>4
<1> HIDE DEF data, sub
<1>10. ASSUME NEW i \in 1 .. n1 + n2 PROVE data[i] = sub[i]
  <2>1. CASE i <= n1
    <3>1. from + i \in 1 .. Size1 /\ i \in 1 .. n1 /\ f1 = from
      BY <2>1, <1>1
    <3>2. data[i] = <<1, f1 + i - 1>>
      BY <2>1, <3>1, <1>4, <1>7
    <3>3. Collected[from + i] = <<1, (from + i) - 1>>
      BY <3>1, CollectedFacts
    <3> QED
      BY <3>1, <3>2, <3>3, <1>9
  <2>2. CASE i > n1
    <3>1. i - n1 \in 1 .. n2 /\ f2 + (i - n1) \in 1 .. Size2
      BY <2>2, <1>1
    <3>2. Size1 + (f2 + (i - n1)) = from + i
      BY <2>2, <1>1
    <3>3. data[i] = <<2, f2 + (i - n1) - 1>>
      BY <2>2, <3>1, <1>5, <1>7
    <3>4. Collected[Size1 + (f2 + (i - n1))] = <<2, (f2 + (i - n1)) - 1>>
      BY <3>1, CollectedFacts
    <3> QED
      BY <3>2, <3>3, <3>4, <1>9
  <2> QED
    BY <2>1, <2>2
<1>11. data = sub
  BY <1>6, <1>9, <1>10, SeqEqual
<1> QED
  BY <1>6, <1>11 DEF b1, b2, data, sub, Piece, IsPiece

(* Every peripheral answer takes the next bytes, in each state the ports   *)
(* can be in, and leaves them in one.                                      *)
LEMMA CollectFollows ==
  ASSUME TypeOK, PortsInv
  PROVE  LET got  == Answer
             from == IF UsedUp \/ reported = Size1 + Size2 THEN 0 ELSE reported
             to   == IF from + Oregs < Size1 + Size2 THEN from + Oregs ELSE Size1 + Size2
         IN /\ got.data = Piece(from, to)
            /\ got.data \in Seq({1, 2} \X Nat) /\ Len(got.data) = to - from
            /\ Len(got.data) <= Oregs
<1> DEFINE p == Fresh(port1, Size1)  q == Fresh(port2, Size2)
           from == IF UsedUp \/ reported = Size1 + Size2 THEN 0 ELSE reported
           to == IF from + Oregs < Size1 + Size2 THEN from + Oregs ELSE Size1 + Size2
           whole1 == p.size - p.offset < Oregs
           f1 == IF whole1 THEN p.offset ELSE 0
           n1 == IF p.size = 0 THEN 0 ELSE IF whole1 THEN p.size - p.offset ELSE Oregs
           whole2 == q.size - q.offset < Oregs - n1
           f2 == IF whole2 THEN q.offset ELSE 0
           n2 == IF q.size = 0 \/ Oregs - n1 = 0 THEN 0
                 ELSE IF whole2 THEN q.size - q.offset ELSE Oregs - n1
<1>1. Collect(p, q).data = Bytes(1, f1, n1) \o Bytes(2, f2, n2)
  BY DEF Collect
<1>2. /\ f1 \in Nat /\ n1 \in Nat /\ f2 \in Nat /\ n2 \in Nat /\ from \in Nat
      /\ n1 > 0 => f1 = from /\ from + n1 <= Size1
      /\ n2 > 0 => from + n1 = Size1 + f2 /\ f2 + n2 <= Size2
      /\ from + n1 + n2 = to /\ n1 + n2 <= Oregs /\ to <= Size1 + Size2
  <2>1. CASE UsedUp
    BY <2>1, SmpcAssumption DEF UsedUp, Fresh
  <2>2. CASE port1.size # 0
    BY <2>2, SmpcAssumption DEF UsedUp, Fresh, PortsInv
  <2>3. CASE port1.size = 0 /\ port2.size # 0
    <3>1. port1.offset \in Nat
      BY DEF TypeOK, PortsOK
    <3>2. ~UsedUp /\ p = port1 /\ q = port2
      BY <2>3 DEF UsedUp, Fresh
    <3>3. /\ reported = Size1 + port2.offset /\ reported \in {Oregs, 2 * Oregs}
          /\ port2.offset \in 1 .. Size2 - 1 /\ Size2 - port2.offset < Oregs
          /\ port2.size = Size2
      BY <2>3 DEF PortsInv
    <3>4. n1 = 0 /\ f1 \in Nat /\ from = reported
      BY <2>3, <3>1, <3>2, <3>3, SmpcAssumption
    <3>5. f2 = port2.offset /\ n2 = Size2 - port2.offset
      BY <2>3, <3>2, <3>3, <3>4, SmpcAssumption
    <3> HIDE DEF p, q, f1, n1, f2, n2, from
    <3> QED
      BY <3>3, <3>4, <3>5, SmpcAssumption
  <2> QED
    BY <2>1, <2>2, <2>3 DEF UsedUp
<1> HIDE DEF p, q, from, f1, n1, f2, n2
<1>3. to = from + n1 + n2
  BY <1>2
<1> HIDE DEF to
<1>4. IsPiece(Bytes(1, f1, n1) \o Bytes(2, f2, n2), n1 + n2, from, to)
  <2>1. f1 \in Nat /\ n1 \in Nat /\ f2 \in Nat /\ n2 \in Nat /\ from \in Nat /\ to \in Nat
    BY <1>2, <1>3
  <2>2. Follows(f1, n1, f2, n2, from, to)
    BY <1>2, <1>3 DEF Follows
  <2> QED
    BY <2>1, <2>2, Pieces
<1>5. /\ Collect(p, q).data = Piece(from, to)
      /\ Collect(p, q).data \in Seq({1, 2} \X Nat) /\ Len(Collect(p, q).data) = to - from
      /\ Len(Collect(p, q).data) <= Oregs
  <2>1. n1 \in Nat /\ n2 \in Nat /\ from \in Nat /\ n1 + n2 <= Oregs
    BY <1>2
  <2>2. to - from = n1 + n2
    BY <2>1, <1>3
  <2> QED
    BY <2>1, <2>2, <1>1, <1>3, <1>4 DEF IsPiece
<1> QED
  BY <1>5 DEF p, q, from, to, Answer

(* The code of a command replaces a byte or nothing. *)
LEMMA CodeWrittenType ==
  ASSUME NEW S, NEW answer \in Seq(S \X Nat), Len(answer) <= Oregs, S \subseteq {0, 1, 2}
  PROVE  /\ answer \in Seq({0, 1, 2} \X Nat)
         /\ CodeWritten(answer) \in Seq({0, 1, 2} \X Nat)
         /\ Len(CodeWritten(answer)) <= Oregs
<1>1. answer \in Seq({0, 1, 2} \X Nat)
  <2> DEFINE From == S \X Nat  To == {0, 1, 2} \X Nat
  <2>1. From \subseteq To
    OBVIOUS
  <2>2. answer \in Seq(From)
    OBVIOUS
  <2> HIDE DEF From, To
  <2> QED
    BY <2>1, <2>2 DEF To
<1>2. Code \in {0, 1, 2} \X Nat
  BY DEF Code
<1>3. Oregs \in Nat \ {0}
  BY SmpcAssumption
<1>4. CASE Len(answer) = Oregs
  <2>1. CodeWritten(answer) = [answer EXCEPT ![Oregs] = Code]
    BY <1>4 DEF CodeWritten
  <2> HIDE DEF Code
  <2> QED
    BY <1>1, <1>2, <1>3, <1>4, <2>1
<1> QED
  BY <1>1, <1>4 DEF CodeWritten

(* SmpcINTBACKPeripheral as a step: types, the state of the ports, and the  *)
(* bytes it takes.                                                         *)
LEMMA PeripheralPorts ==
  ASSUME TypeOK, PortsInv, NEW kind, Peripheral(kind)
  PROVE  /\ Answer.data \in Seq({1, 2} \X Nat) /\ Len(Answer.data) <= Oregs
         /\ port1' \in [size : {0, Size1}, offset : 0 .. Size1]
         /\ port2' \in [size : {0, Size2}, offset : 0 .. Size2]
         /\ reported' \in 0 .. Size1 + Size2
         /\ PortsInv'
         /\ Answer.data = NextBytes
<1> DEFINE got == Answer
           total == Size1 + Size2
           from == IF UsedUp \/ reported = total THEN 0 ELSE reported
           to == IF from + Oregs < total THEN from + Oregs ELSE total
<1>1. /\ got.data = Piece(from, to) /\ got.data \in Seq({1, 2} \X Nat)
      /\ Len(got.data) = to - from /\ Len(got.data) <= Oregs
  BY CollectFollows
<1>2. port1' = got.port1 /\ port2' = got.port2
  BY DEF Peripheral
<1>3. reported \in 0 .. total /\ total \in Nat /\ Oregs \in Nat
  BY SmpcAssumption DEF TypeOK, PortsOK
<1>4. reported = total => UsedUp
  BY SmpcAssumption DEF PortsInv, UsedUp
<1>5. UsedUp => reported \in {0, total}
  BY DEF PortsInv, UsedUp
<1>6. reported' = (IF UsedUp THEN 0 ELSE reported) + Len(got.data)
  BY DEF Peripheral
<1> HIDE DEF got
<1>7. reported' = to /\ to \in 0 .. total
  BY <1>1, <1>3, <1>4, <1>6
<1>8. got.data = NextBytes
  <2>1. from = IF reported = total THEN 0 ELSE reported
    BY <1>3, <1>4, <1>5
  <2> HIDE DEF from
  <2> QED
    BY <1>1, <2>1, CollectedFacts DEF NextBytes, Piece
<1>9. /\ PortsInv'
      /\ port1' \in [size : {0, Size1}, offset : 0 .. Size1]
      /\ port2' \in [size : {0, Size2}, offset : 0 .. Size2]
  <2>1. /\ port1 \in [size : {0, Size1}, offset : 0 .. Size1]
        /\ port2 \in [size : {0, Size2}, offset : 0 .. Size2]
    BY DEF TypeOK, PortsOK
  <2>2. CASE UsedUp /\ Size1 < Oregs
    <3>1. got.port1 = [size |-> 0, offset |-> 0]
      BY <2>2, SmpcAssumption DEF got, Answer, Collect, Fresh
    <3>2. got.port2 = IF total < Oregs THEN [size |-> 0, offset |-> 0]
                      ELSE [size |-> Size2, offset |-> Oregs - Size1]
      BY <2>2, SmpcAssumption DEF got, Answer, Collect, Fresh
    <3> QED
      BY <2>2, <3>1, <3>2, <1>2, <1>7, SmpcAssumption DEF PortsInv
  <2>3. CASE UsedUp /\ Size1 >= Oregs
    <3>1. got.port1 = [size |-> Size1, offset |-> Oregs]
      BY <2>3, SmpcAssumption DEF got, Answer, Collect, Fresh
    <3>2. got.port2 = [size |-> Size2, offset |-> 0]
      BY <2>3, SmpcAssumption DEF got, Answer, Collect, Fresh
    <3> QED
      BY <2>3, <3>1, <3>2, <1>2, <1>7, SmpcAssumption DEF PortsInv
  <2>4. CASE port1.size # 0
    <3>1. /\ Size1 >= Oregs /\ port1 = [size |-> Size1, offset |-> Oregs]
          /\ port2 = [size |-> Size2, offset |-> 0] /\ reported = Oregs /\ ~UsedUp
      BY <2>1, <2>4 DEF PortsInv, UsedUp
    <3>2. got.port1 = [size |-> 0, offset |-> Oregs]
      BY <3>1, SmpcAssumption DEF got, Answer, Collect, Fresh
    <3>3. got.port2 = IF total < 2 * Oregs THEN [size |-> 0, offset |-> 0]
                      ELSE [size |-> Size2, offset |-> 2 * Oregs - Size1]
      BY <3>1, SmpcAssumption DEF got, Answer, Collect, Fresh
    <3> QED
      BY <3>1, <3>2, <3>3, <1>2, <1>7, SmpcAssumption DEF PortsInv
  <2>5. CASE port1.size = 0 /\ port2.size # 0
    <3>1. /\ ~UsedUp /\ port2.size = Size2 /\ port2.offset \in 1 .. Size2 - 1
          /\ Size2 - port2.offset < Oregs /\ reported = Size1 + port2.offset
          /\ reported \in {Oregs, 2 * Oregs}
      BY <2>1, <2>5 DEF PortsInv, UsedUp
    <3>2. got.port1 = port1
      BY <2>5, <3>1 DEF got, Answer, Collect, Fresh
    <3>3. got.port2 = [port2 EXCEPT !.size = 0]
      BY <2>5, <3>1, SmpcAssumption DEF got, Answer, Collect, Fresh
    <3> QED
      BY <2>1, <2>5, <3>1, <3>2, <3>3, <1>2, <1>7, SmpcAssumption DEF PortsInv
  <2> QED
    BY <2>2, <2>3, <2>4, <2>5, SmpcAssumption DEF UsedUp
<1> QED
  BY <1>1, <1>2, <1>7, <1>8, <1>9 DEF got

(* ... and what it leaves in the OREGs. *)
LEMMA PeripheralStep ==
  ASSUME TypeOK, PortsInv, NEW kind, Peripheral(kind),
         OREG' = IF OpenAfterLine THEN Answer.data ELSE CodeWritten(Answer.data)
  PROVE  /\ OREG' \in Seq({0, 1, 2} \X Nat) /\ Len(OREG') <= Oregs
         /\ port1' \in [size : {0, Size1}, offset : 0 .. Size1]
         /\ port2' \in [size : {0, Size2}, offset : 0 .. Size2]
         /\ reported' \in 0 .. Size1 + Size2
         /\ PortsInv'
         /\ AnswerFollows
<1> DEFINE data == Answer.data
<1>1. /\ data \in Seq({1, 2} \X Nat) /\ Len(data) <= Oregs /\ data = NextBytes
  BY PeripheralPorts
<1>2. {1, 2} \subseteq {0, 1, 2}
  OBVIOUS
<1>3. OREG' = IF OpenAfterLine THEN data ELSE CodeWritten(data)
  OBVIOUS
<1> HIDE DEF data
<1>4. /\ data \in Seq({0, 1, 2} \X Nat)
      /\ CodeWritten(data) \in Seq({0, 1, 2} \X Nat) /\ Len(CodeWritten(data)) <= Oregs
  BY ONLY <1>1, <1>2, CodeWrittenType
<1> QED
  BY <1>1, <1>3, <1>4, PeripheralPorts DEF AnswerFollows
-------------------------------------------------------------------------------
(* The parts of the assumption that the provers need again and again. *)
LEMMA Constants ==
  /\ Comreg \subseteq Commands /\ Ireg0 \subseteq SUBSET {"status", "break", "continue"}
  /\ Quick \in Nat \ {0} /\ Short \in Nat \ {0} /\ Long \in Nat \ {0} /\ Writes \in Nat
  /\ ResetVBlankLine \in VBlankLines /\ Decilines \in Nat \ {0}
  /\ Size1 \in Nat /\ Size2 \in Nat /\ Oregs \in Nat
BY SmpcAssumption

(* SmpcSetTiming arms what it does not reject. *)
LEMMA SetTimingStep ==
  ASSUME SequencerOK, NEW c, SetTiming(c)
  PROVE  /\ timing' \in Nat /\ intback_wait_for_line' \in BOOLEAN
         /\ Armed(c) => timing' > 0
         /\ ~Armed(c) => timing' = timing
BY Constants DEF SequencerOK, SetTiming, Waits

(* The line counters stay within the field. *)
LEMMA DecilineStep ==
  ASSUME LinesOK, Deciline
  PROVE  deciline' \in 0 .. Decilines - 1 /\ LineCount' \in 0 .. MaxLineCount - 1
<1>1. deciline \in 0 .. Decilines - 1 /\ LineCount \in 0 .. MaxLineCount - 1
  BY DEF LinesOK
<1>2. Decilines \in Nat \ {0} /\ MaxLineCount \in Nat \ {0}
  BY <1>1, SmpcAssumption
<1> QED
  BY <1>1, <1>2 DEF Deciline, NextLine

(* Types: at the start, and over every step. *)
LEMMA InitType == Init => TypeOK
<1> SUFFICES ASSUME Init PROVE TypeOK
  OBVIOUS
<1>1. RegistersOK /\ SequencerOK /\ HistoryOK
  BY DEF Init, RegistersOK, SequencerOK, HistoryOK, Answers, Commands, Known
<1>2. PortsOK
  BY Constants DEF Init, PortsOK, NoData
<1>3. LinesOK
  BY SmpcAssumption DEF Init, LinesOK
<1> QED
  BY <1>1, <1>2, <1>3 DEF TypeOK

(* Each action is taken apart by the groups of variables. *)
LEMMA TypeStep == TypeOK /\ PortsInv /\ [Next]_vars => TypeOK'
<1> SUFFICES ASSUME TypeOK, PortsInv, [Next]_vars PROVE TypeOK'
  OBVIOUS
<1>1. RegistersOK /\ PortsOK /\ SequencerOK /\ LinesOK /\ HistoryOK
  BY DEF TypeOK
<1>2. Write => writes' \in 0 .. Writes
  BY <1>1, Constants DEF Write, LinesOK
<1>3. CASE WriteSF
  <2>1. RegistersOK'
    BY <1>3, <1>1 DEF WriteSF, RegistersOK
  <2>2. PortsOK'
    BY <1>3, <1>1 DEF WriteSF, internal, PortsOK
  <2>3. SequencerOK'
    BY <1>3, <1>1 DEF WriteSF, internal, SequencerOK
  <2>4. LinesOK'
    BY <1>3, <1>1, <1>2 DEF WriteSF, lines, LinesOK
  <2>5. HistoryOK'
    BY <1>3, <1>1 DEF WriteSF, Write, HistoryOK
  <2> QED
    BY <2>1, <2>2, <2>3, <2>4, <2>5 DEF TypeOK
<1>4. CASE WriteIREG1
  <2>1. RegistersOK'
    BY <1>4, <1>1 DEF WriteIREG1, RegistersOK
  <2>2. PortsOK'
    BY <1>4, <1>1 DEF WriteIREG1, internal, PortsOK
  <2>3. SequencerOK'
    BY <1>4, <1>1 DEF WriteIREG1, internal, SequencerOK
  <2>4. LinesOK'
    BY <1>4, <1>1, <1>2 DEF WriteIREG1, lines, LinesOK
  <2>5. HistoryOK'
    BY <1>4, <1>1 DEF WriteIREG1, Write, HistoryOK
  <2> QED
    BY <2>1, <2>2, <2>3, <2>4, <2>5 DEF TypeOK
<1>5. CASE WriteTVMD
  <2>1. RegistersOK'
    BY <1>5, <1>1 DEF WriteTVMD, registers, RegistersOK
  <2>2. PortsOK'
    BY <1>5, <1>1 DEF WriteTVMD, registers, internal, PortsOK
  <2>3. SequencerOK'
    BY <1>5, <1>1 DEF WriteTVMD, internal, SequencerOK
  <2>4. LinesOK'
    BY <1>5, <1>1, <1>2 DEF WriteTVMD, LinesOK
  <2>5. HistoryOK'
    BY <1>5, <1>1 DEF WriteTVMD, Write, HistoryOK
  <2> QED
    BY <2>1, <2>2, <2>3, <2>4, <2>5 DEF TypeOK
<1>6. ASSUME NEW c \in Comreg, WriteCOMREG(c) PROVE TypeOK'
  <2>1. RegistersOK'
    BY <1>6, <1>1, Constants DEF WriteCOMREG, StaysBusy, RegistersOK
  <2>2. PortsOK'
    BY <1>6, <1>1 DEF WriteCOMREG, PortsOK
  <2>3. SequencerOK'
    BY <1>6, <1>1, SetTimingStep DEF WriteCOMREG, SequencerOK
  <2>4. LinesOK'
    BY <1>6, <1>1, <1>2 DEF WriteCOMREG, lines, LinesOK
  <2>5. HistoryOK'
    BY <1>6, <1>1, Constants DEF WriteCOMREG, Write, HistoryOK
  <2> QED
    BY <2>1, <2>2, <2>3, <2>4, <2>5 DEF TypeOK
<1>7. ASSUME NEW v \in Ireg0, WriteParameter(v) PROVE TypeOK'
  <2>1. RegistersOK'
    BY <1>7, <1>1, Constants DEF WriteParameter, RegistersOK
  <2>2. PortsOK'
    BY <1>7, <1>1 DEF WriteParameter, internal, PortsOK
  <2>3. SequencerOK'
    BY <1>7, <1>1 DEF WriteParameter, internal, SequencerOK
  <2>4. LinesOK'
    BY <1>7, <1>1, <1>2 DEF WriteParameter, lines, LinesOK
  <2>5. HistoryOK'
    BY <1>7, <1>1 DEF WriteParameter, Write, HistoryOK
  <2> QED
    BY <2>1, <2>2, <2>3, <2>4, <2>5 DEF TypeOK
<1>8. ASSUME NEW v \in Ireg0, Break(v) PROVE TypeOK'
  <2>1. RegistersOK'
    BY <1>8, <1>1, Constants DEF Break, Answers, RegistersOK
  <2>2. PortsOK'
    BY <1>8, <1>1 DEF Break, PortsOK
  <2>3. SequencerOK'
    BY <1>8, <1>1 DEF Break, SequencerOK
  <2>4. LinesOK'
    BY <1>8, <1>1, <1>2 DEF Break, lines, LinesOK
  <2>5. HistoryOK'
    BY <1>8, <1>1 DEF Break, Write, HistoryOK
  <2> QED
    BY <2>1, <2>2, <2>3, <2>4, <2>5 DEF TypeOK
<1>9. ASSUME NEW v \in Ireg0, Continue(v) PROVE TypeOK'
  <2>1. RegistersOK'
    BY <1>9, <1>1, Constants DEF Continue, Rearm, Commands, Known, RegistersOK
  <2>2. PortsOK'
    BY <1>9, <1>1 DEF Continue, PortsOK
  <2>3. SequencerOK'
    BY <1>9, <1>1, SetTimingStep DEF Continue, Rearm, SequencerOK
  <2>4. LinesOK'
    BY <1>9, <1>1, <1>2 DEF Continue, lines, LinesOK
  <2>5. HistoryOK'
    BY <1>9, <1>1 DEF Continue, Write, Commands, Known, HistoryOK
  <2> QED
    BY <2>1, <2>2, <2>3, <2>4, <2>5 DEF TypeOK
<1>10. CASE CountDown
  <2>1. RegistersOK'
    BY <1>10, <1>1 DEF CountDown, Deciline, RegistersOK
  <2>2. PortsOK'
    BY <1>10, <1>1 DEF CountDown, PortsOK
  <2>3. SequencerOK'
    BY <1>10, <1>1 DEF CountDown, OpenAfterLine, Tick, SequencerOK
  <2>4. LinesOK'
    BY <1>10, <1>1, DecilineStep DEF CountDown, Deciline, LinesOK
  <2>5. HistoryOK'
    BY <1>10, <1>1 DEF CountDown, Deciline, HistoryOK
  <2> QED
    BY <2>1, <2>2, <2>3, <2>4, <2>5 DEF TypeOK
<1>11. ASSUME NEW c \in Commands, ExecuteCommand(c) PROVE TypeOK'
  <2>1. RegistersOK'
    BY <1>11, <1>1 DEF ExecuteCommand, Execute, Deciline, RegistersOK
  <2>2. PortsOK'
    <3>1. OREG' \in Seq({0, 1, 2} \X Nat) /\ Len(OREG') <= Oregs
      BY <1>11, <1>1, CodeWrittenType DEF ExecuteCommand, PortsOK
    <3> QED
      BY <1>11, <1>1, <3>1 DEF ExecuteCommand, PortsOK
  <2>3. SequencerOK'
    <3>1. machine' \in [slave : BOOLEAN, sound : BOOLEAN, resd : BOOLEAN, dotsel : {0, 1}]
      BY <1>11, <1>1 DEF ExecuteCommand, Effect, SequencerOK
    <3>2. intback' \in BOOLEAN /\ intback_wait_for_line' \in BOOLEAN
      BY <1>11 DEF ExecuteCommand, Execute, OpenAfterLine
    <3>3. timing' \in Nat /\ firstPeri' \in BOOLEAN
      BY <1>11, <1>1 DEF ExecuteCommand, Execute, SequencerOK
    <3> QED
      BY <3>1, <3>2, <3>3 DEF SequencerOK
  <2>4. LinesOK'
    BY <1>11, <1>1, DecilineStep, Constants DEF ExecuteCommand, Execute, Deciline, LinesOK
  <2>5. HistoryOK'
    BY <1>11, <1>1 DEF ExecuteCommand, Execute, Deciline, HistoryOK
  <2> QED
    BY <2>1, <2>2, <2>3, <2>4, <2>5 DEF TypeOK
<1>12. CASE IntbackGoesOn
  <2>1. RegistersOK'
    BY <1>12, <1>1 DEF IntbackGoesOn, Execute, Deciline, Peripheral, Answers, RegistersOK
  <2>2. PortsOK'
    BY <1>12, <1>1, PeripheralStep DEF IntbackGoesOn, PortsOK
  <2>3. SequencerOK'
    BY <1>12, <1>1 DEF IntbackGoesOn, Execute, Peripheral, SequencerOK
  <2>4. LinesOK'
    BY <1>12, <1>1, DecilineStep DEF IntbackGoesOn, Execute, Deciline, LinesOK
  <2>5. HistoryOK'
    BY <1>12, <1>1 DEF IntbackGoesOn, Execute, Deciline, Peripheral, Commands, Known, HistoryOK
  <2> QED
    BY <2>1, <2>2, <2>3, <2>4, <2>5 DEF TypeOK
<1>13. CASE IntbackStatus
  <2>1. RegistersOK'
    BY <1>13, <1>1 DEF IntbackStatus, Execute, Deciline, Answers, RegistersOK
  <2>2. PortsOK'
    BY <1>13, <1>1, Constants DEF IntbackStatus, PortsOK
  <2>3. SequencerOK'
    BY <1>13, <1>1 DEF IntbackStatus, Execute, RegistersOK, SequencerOK
  <2>4. LinesOK'
    BY <1>13, <1>1, DecilineStep DEF IntbackStatus, Execute, Deciline, LinesOK
  <2>5. HistoryOK'
    BY <1>13, <1>1 DEF IntbackStatus, Execute, Deciline, Commands, Known, HistoryOK
  <2> QED
    BY <2>1, <2>2, <2>3, <2>4, <2>5 DEF TypeOK
<1>14. CASE IntbackPeripheral
  <2>1. RegistersOK'
    BY <1>14, <1>1 DEF IntbackPeripheral, Execute, Deciline, Peripheral, Answers, RegistersOK
  <2>2. PortsOK'
    BY <1>14, <1>1, PeripheralStep DEF IntbackPeripheral, PortsOK
  <2>3. SequencerOK'
    BY <1>14, <1>1 DEF IntbackPeripheral, Execute, Peripheral, SequencerOK
  <2>4. LinesOK'
    BY <1>14, <1>1, DecilineStep DEF IntbackPeripheral, Execute, Deciline, LinesOK
  <2>5. HistoryOK'
    BY <1>14, <1>1 DEF IntbackPeripheral, Execute, Deciline, Peripheral, Commands, Known, HistoryOK
  <2> QED
    BY <2>1, <2>2, <2>3, <2>4, <2>5 DEF TypeOK
<1>15. CASE IntbackNothing
  <2>1. RegistersOK'
    BY <1>15, <1>1 DEF IntbackNothing, Execute, Deciline, RegistersOK
  <2>2. PortsOK'
    BY <1>15, <1>1 DEF IntbackNothing, PortsOK
  <2>3. SequencerOK'
    BY <1>15, <1>1 DEF IntbackNothing, Execute, SequencerOK
  <2>4. LinesOK'
    BY <1>15, <1>1, DecilineStep DEF IntbackNothing, Execute, Deciline, LinesOK
  <2>5. HistoryOK'
    BY <1>15, <1>1 DEF IntbackNothing, Execute, Deciline, Commands, Known, HistoryOK
  <2> QED
    BY <2>1, <2>2, <2>3, <2>4, <2>5 DEF TypeOK
<1>16. CASE Reset
  <2>1. RegistersOK'
    BY <1>16, <1>1 DEF Reset, Answers, Commands, Known, RegistersOK
  <2>2. PortsOK'
    BY <1>16, <1>1, Constants DEF Reset, NoData, PortsOK
  <2>3. SequencerOK'
    BY <1>16, <1>1 DEF Reset, SequencerOK
  <2>4. LinesOK'
    BY <1>16, <1>1, <1>2, Constants DEF Reset, LinesOK
  <2>5. HistoryOK'
    BY <1>16, <1>1 DEF Reset, Write, HistoryOK
  <2> QED
    BY <2>1, <2>2, <2>3, <2>4, <2>5 DEF TypeOK
<1>17. CASE LoadState
  <2>1. RegistersOK'
    BY <1>17, <1>1 DEF LoadState, registers, RegistersOK
  <2>2. PortsOK'
    BY <1>17, <1>1 DEF LoadState, registers, PortsOK
  <2>3. SequencerOK'
    BY <1>17, <1>1 DEF LoadState, SequencerOK
  <2>4. LinesOK'
    BY <1>17, <1>1, <1>2 DEF LoadState, lines, LinesOK
  <2>5. HistoryOK'
    BY <1>17, <1>1 DEF LoadState, Write, HistoryOK
  <2> QED
    BY <2>1, <2>2, <2>3, <2>4, <2>5 DEF TypeOK
<1>18. CASE UNCHANGED vars
  BY <1>18, <1>1 DEF vars, registers, internal, lines, history, TypeOK, RegistersOK, PortsOK,
                     SequencerOK, LinesOK, HistoryOK
<1> QED
  BY <1>3, <1>4, <1>5, <1>6, <1>7, <1>8, <1>9, <1>10, <1>11, <1>12, <1>13, <1>14, <1>15,
     <1>16, <1>17, <1>18 DEF Next, SmpcExec, Program

(* The rest of the invariant, over every step. *)
LEMMA ControlStep ==
  IInv /\ [Next]_vars => BusyIsPending' /\ PoliteInv' /\ FirstOnce' /\ PortsInv'
<1> DEFINE Goal == BusyIsPending' /\ PoliteInv' /\ FirstOnce' /\ PortsInv'
<1> SUFFICES ASSUME IInv, [Next]_vars PROVE Goal
  OBVIOUS
<1>1. BusyIsPending /\ PoliteInv /\ FirstOnce /\ PortsInv
  BY DEF IInv
<1>2. timing \in Nat /\ SequencerOK /\ TypeOK
  BY DEF IInv, TypeOK, SequencerOK
<1>3. ASSUME UNCHANGED <<port1, port2, reported>> PROVE PortsInv'
  BY <1>1, <1>3 DEF PortsInv
<1>4. CASE WriteSF
  <2>1. BusyIsPending' /\ PoliteInv'
    <3>1. UNCHANGED timing /\ (claimed' <=> SF') /\ (rude' <=> (rude \/ SF \/ ~SF'))
      BY <1>4 DEF WriteSF, internal
    <3>2. ~rude /\ ~SF => timing = 0
      BY <1>1, <1>2 DEF PoliteInv
    <3>3. BusyIsPending'
      BY <3>1 DEF BusyIsPending
    <3>4. PoliteInv'
      BY <3>1, <3>2, <1>2 DEF PoliteInv
    <3> QED
      BY <3>3, <3>4
  <2>2. FirstOnce'
    BY <1>4, <1>1 DEF WriteSF, internal, FirstOnce
  <2>3. PortsInv'
    BY <1>4, <1>3 DEF WriteSF, internal
  <2> QED
    BY <2>1, <2>2, <2>3
<1>5. CASE WriteIREG1
  <2>1. BusyIsPending' /\ PoliteInv'
    BY <1>5, <1>1, <1>2 DEF WriteIREG1, internal, BusyIsPending, PoliteInv
  <2>2. FirstOnce'
    BY <1>5, <1>1 DEF WriteIREG1, internal, FirstOnce
  <2>3. PortsInv'
    BY <1>5, <1>3 DEF WriteIREG1, internal
  <2> QED
    BY <2>1, <2>2, <2>3
<1>6. CASE WriteTVMD
  <2>1. BusyIsPending' /\ PoliteInv'
    BY <1>6, <1>1, <1>2 DEF WriteTVMD, registers, internal, BusyIsPending, PoliteInv
  <2>2. FirstOnce'
    BY <1>6, <1>1 DEF WriteTVMD, registers, internal, FirstOnce
  <2>3. PortsInv'
    BY <1>6, <1>3 DEF WriteTVMD, registers, internal
  <2> QED
    BY <2>1, <2>2, <2>3
<1>7. ASSUME NEW c \in Comreg, WriteCOMREG(c) PROVE Goal
  <2>1. BusyIsPending' /\ PoliteInv'
    <3>1. /\ ~claimed' /\ (SF' <=> SF /\ Armed(c)) /\ (rude' <=> (rude \/ ~claimed))
          /\ asked' = c /\ COMREG' = c
      BY <1>7 DEF WriteCOMREG, StaysBusy
    <3>2. (Armed(c) => timing' > 0) /\ (~Armed(c) => timing' = timing)
      BY <1>7, <1>2, SetTimingStep DEF WriteCOMREG
    <3>3. BusyIsPending'
      BY <3>1, <3>2 DEF BusyIsPending
    <3>4. ~rude /\ claimed => SF /\ ~(timing > 0)
      BY <1>1 DEF PoliteInv
    <3>5. PoliteInv'
      BY <3>1, <3>2, <3>4 DEF PoliteInv
    <3> QED
      BY <3>3, <3>5
  <2>2. FirstOnce'
    BY <1>7, <1>1 DEF WriteCOMREG, FirstOnce
  <2>3. PortsInv'
    BY <1>7, <1>3 DEF WriteCOMREG
  <2> QED
    BY <2>1, <2>2, <2>3
<1>8. ASSUME NEW v \in Ireg0, WriteParameter(v) PROVE Goal
  <2>1. BusyIsPending' /\ PoliteInv'
    BY <1>8, <1>1, <1>2 DEF WriteParameter, internal, BusyIsPending, PoliteInv
  <2>2. FirstOnce'
    BY <1>8, <1>1 DEF WriteParameter, internal, FirstOnce
  <2>3. PortsInv'
    BY <1>8, <1>3 DEF WriteParameter, internal
  <2> QED
    BY <2>1, <2>2, <2>3
<1>9. ASSUME NEW v \in Ireg0, Break(v) PROVE Goal
  <2>1. BusyIsPending' /\ PoliteInv'
    BY <1>9, <1>1, <1>2 DEF Break, BusyIsPending, PoliteInv
  <2>2. FirstOnce'
    BY <1>9, <1>1 DEF Break, FirstOnce
  <2>3. PortsInv'
    BY <1>9, <1>3 DEF Break
  <2> QED
    BY <2>1, <2>2, <2>3
<1>10. ASSUME NEW v \in Ireg0, Continue(v) PROVE Goal
  <2>1. BusyIsPending' /\ PoliteInv'
    BY <1>10, <1>1, <1>2, SetTimingStep DEF Continue, Rearm, Armed, BusyIsPending, PoliteInv
  <2>2. FirstOnce'
    BY <1>10, <1>1 DEF Continue, FirstOnce
  <2>3. PortsInv'
    BY <1>10, <1>3 DEF Continue
  <2> QED
    BY <2>1, <2>2, <2>3
<1>11. CASE CountDown
  <2>1. BusyIsPending' /\ PoliteInv'
    BY <1>11, <1>1, <1>2 DEF CountDown, Deciline, Due, Tick, OpenAfterLine, BusyIsPending, PoliteInv
  <2>2. FirstOnce'
    BY <1>11, <1>1 DEF CountDown, OpenAfterLine, FirstOnce
  <2>3. PortsInv'
    BY <1>11, <1>3 DEF CountDown
  <2> QED
    BY <2>1, <2>2, <2>3
<1>12. ASSUME NEW c \in Commands, ExecuteCommand(c) PROVE Goal
  <2>1. BusyIsPending' /\ PoliteInv'
    BY <1>12, <1>1, <1>2 DEF ExecuteCommand, Execute, BusyIsPending, PoliteInv
  <2>2. FirstOnce'
    BY <1>12, <1>1 DEF ExecuteCommand, OpenAfterLine, FirstOnce
  <2>3. PortsInv'
    BY <1>12, <1>3 DEF ExecuteCommand
  <2> QED
    BY <2>1, <2>2, <2>3
<1>13. CASE IntbackGoesOn
  <2>1. BusyIsPending' /\ PoliteInv'
    BY <1>13, <1>1, <1>2 DEF IntbackGoesOn, Execute, BusyIsPending, PoliteInv
  <2>2. FirstOnce'
    BY <1>13, <1>1 DEF IntbackGoesOn, Peripheral, FirstOnce
  <2>3. PortsInv'
    BY <1>13, <1>1, <1>2, PeripheralStep DEF IntbackGoesOn
  <2> QED
    BY <2>1, <2>2, <2>3
<1>14. CASE IntbackStatus
  <2>1. BusyIsPending' /\ PoliteInv'
    BY <1>14, <1>1, <1>2 DEF IntbackStatus, Execute, BusyIsPending, PoliteInv
  <2>2. FirstOnce'
    BY <1>14, <1>1 DEF IntbackStatus, FirstOnce
  <2>3. PortsInv'
    BY <1>14, <1>3 DEF IntbackStatus
  <2> QED
    BY <2>1, <2>2, <2>3
<1>15. CASE IntbackPeripheral
  <2>1. BusyIsPending' /\ PoliteInv'
    BY <1>15, <1>1, <1>2 DEF IntbackPeripheral, Execute, BusyIsPending, PoliteInv
  <2>2. FirstOnce'
    BY <1>15, <1>1 DEF IntbackPeripheral, Peripheral, FirstOnce
  <2>3. PortsInv'
    BY <1>15, <1>1, <1>2, PeripheralStep DEF IntbackPeripheral
  <2> QED
    BY <2>1, <2>2, <2>3
<1>16. CASE IntbackNothing
  <2>1. BusyIsPending' /\ PoliteInv'
    BY <1>16, <1>1, <1>2 DEF IntbackNothing, Execute, BusyIsPending, PoliteInv
  <2>2. FirstOnce'
    BY <1>16, <1>1 DEF IntbackNothing, FirstOnce
  <2>3. PortsInv'
    BY <1>16, <1>3 DEF IntbackNothing
  <2> QED
    BY <2>1, <2>2, <2>3
<1>17. CASE Reset
  <2>1. BusyIsPending' /\ PoliteInv'
    BY <1>17, <1>1, <1>2 DEF Reset, BusyIsPending, PoliteInv
  <2>2. FirstOnce'
    BY <1>17, <1>1 DEF Reset, FirstOnce
  <2>3. PortsInv'
    BY <1>17, SmpcAssumption DEF Reset, NoData, PortsInv
  <2> QED
    BY <2>1, <2>2, <2>3
<1>18. CASE LoadState
  <2>1. BusyIsPending' /\ PoliteInv'
    BY <1>18, <1>1, <1>2 DEF LoadState, registers, BusyIsPending, PoliteInv
  <2>2. FirstOnce'
    BY <1>18, <1>1 DEF LoadState, registers, FirstOnce
  <2>3. PortsInv'
    BY <1>18, <1>3 DEF LoadState, registers
  <2> QED
    BY <2>1, <2>2, <2>3
<1>19. CASE UNCHANGED vars
  BY <1>19, <1>1 DEF vars, registers, internal, lines, history, BusyIsPending, PoliteInv,
                     FirstOnce, PortsInv
<1> QED
  BY <1>4, <1>5, <1>6, <1>7, <1>8, <1>9, <1>10, <1>11, <1>12, <1>13, <1>14, <1>15, <1>16,
     <1>17, <1>18, <1>19 DEF Next, SmpcExec, Program

(* The inductive invariant of the sequencer. *)
THEOREM Invariance == Spec => []IInv
<1>1. Init => IInv
  BY InitType, Constants DEF Init, IInv, BusyIsPending, PoliteInv, FirstOnce, PortsInv, NoData
<1>2. IInv /\ [Next]_vars => IInv'
  BY TypeStep, ControlStep DEF IInv
<1> QED
  BY <1>1, <1>2, PTL DEF Spec
-------------------------------------------------------------------------------
(* Every variable keeps its type: no piece of port data runs past its port.  *)
THEOREM TypeCorrect == Spec => []TypeOK
BY Invariance, PTL DEF IInv

(* SF that the program has not set has a command behind it, and a program  *)
(* in the protocol finds no command running behind a clear SF.             *)
THEOREM BusyFlagIsTrue == Spec => []SFTellsThePort
<1>1. TypeOK => timing \in Nat
  BY DEF TypeOK, SequencerOK
<1>2. IInv => ReadyMeansIdle
  BY <1>1 DEF IInv, PoliteInv, ReadyMeansIdle
<1>3. IInv => SFTellsThePort
  BY <1>2 DEF IInv, SFTellsThePort
<1> QED
  BY <1>3, Invariance, PTL

(* An open sequence has exactly one first answer.                          *)
THEOREM FirstAlwaysOnce == Spec => []FirstOnce
BY Invariance, PTL DEF IInv

(* The bytes of the ports arrive in order, each once, but for the one an   *)
(* INTBACK without status writes its code over.                            *)
THEOREM DataInOrder == Spec => PortDataInOrder
<1>1. IInv /\ [Next]_vars => [DataAnswered => AnswerFollows]_vars
  <2> SUFFICES ASSUME IInv, Next, DataAnswered PROVE AnswerFollows
    OBVIOUS
  <2>1. TypeOK /\ PortsInv
    BY DEF IInv
  <2>3. CASE IntbackGoesOn
    BY <2>1, <2>3, PeripheralStep DEF IntbackGoesOn
  <2>4. CASE IntbackPeripheral
    BY <2>1, <2>4, PeripheralStep DEF IntbackPeripheral
  <2>5. CASE IntbackStatus
    BY <2>5 DEF IntbackStatus, DataAnswered
  <2>6. CASE IntbackNothing
    BY <2>6 DEF IntbackNothing, DataAnswered
  <2>7. CASE CountDown
    BY <2>7 DEF CountDown, DataAnswered
  <2>8. ASSUME NEW c \in Commands, ExecuteCommand(c) PROVE AnswerFollows
    BY <2>8 DEF ExecuteCommand, DataAnswered
  <2>9. ASSUME Write PROVE AnswerFollows
    BY <2>9 DEF Write, DataAnswered
  <2>10. CASE Program \/ Reset \/ LoadState
    BY <2>9, <2>10 DEF Program, WriteSF, WriteIREG1, WriteTVMD, WriteCOMREG, WriteParameter,
                      Break, Continue, Reset, LoadState
  <2> QED
    BY <2>3, <2>4, <2>5, <2>6, <2>7, <2>8, <2>10 DEF Next, SmpcExec
<1> QED
  BY <1>1, Invariance, PTL DEF Spec, PortDataInOrder

(* The SMPC implements a command port: each step of a program that keeps   *)
(* to the protocol, and of the loop, is a step of the port.                *)
THEOREM KeepsThePort == Spec => PortSpec
<1> DEFINE stage == IF ~SF THEN "ready" ELSE IF timing > 0 THEN "busy" ELSE "claimed"
<1>1. Init => Port!Init
  BY DEF Init, Port!Init
<1>2. ASSUME IInv, [Next]_vars PROVE [Port!Next]_Port!vars
  <2>1. PoliteInv /\ timing \in Nat /\ SequencerOK
    BY <1>2 DEF IInv, TypeOK, SequencerOK
  <2>0. rude \in BOOLEAN /\ rude' \in BOOLEAN
    <3>1. TypeOK'
      BY <1>2, TypeStep DEF IInv
    <3> QED
      BY <1>2, <3>1 DEF IInv, TypeOK, HistoryOK
  <2>2. CASE rude'
    BY <2>2 DEF Port!Next
  <2>3. ASSUME ~rude', WriteSF PROVE Port!Claim
    <3>1. ~rude /\ ~SF /\ SF'
      BY <2>3 DEF WriteSF
    <3>3. timing' = timing /\ asked' = asked /\ performed' = "none" /\ rude' = rude
      BY <2>0, <2>3, <3>1 DEF WriteSF, Write, internal
    <3>2. timing = 0
      BY <3>1, <2>1 DEF PoliteInv
    <3> QED
      BY <3>1, <3>2, <3>3 DEF Port!Claim, Port!Quiet
  <2>4. ASSUME NEW c \in Comreg, ~rude', WriteCOMREG(c) PROVE Port!Ask(c) /\ c \in Commands
    <3>1. ~rude /\ claimed /\ (SF' <=> SF /\ Armed(c))
      BY <2>4 DEF WriteCOMREG, StaysBusy
    <3>7. performed' = "none" /\ rude' = rude /\ asked' = c
      BY <2>0, <2>4, <3>1 DEF WriteCOMREG, Write
    <3>2. SF /\ timing = 0
      BY <3>1, <2>1 DEF PoliteInv
    <3>3. (Armed(c) => timing' > 0) /\ (~Armed(c) => timing' = timing)
      BY <2>4, <2>1, SetTimingStep DEF WriteCOMREG
    <3>4. c \in Commands /\ (~Armed(c) => c \in {"unknown", "INTBACK"})
      BY Constants DEF Armed, Commands
    <3>5. stage' \in {"busy"} \cup {s \in {"ready"} : c \in {"unknown", "INTBACK"}}
      <4>1. CASE Armed(c)
        BY <4>1, <3>1, <3>2, <3>3
      <4>2. CASE ~Armed(c)
        BY <4>2, <3>1, <3>4
      <4> QED
        BY <4>1, <4>2
    <3>6. stage = "claimed"
      BY <3>2
    <3> HIDE DEF stage
    <3> QED
      BY <3>4, <3>5, <3>6, <3>7 DEF Port!Ask, Port!Quiet, stage
  <2>5. ASSUME NEW v \in Ireg0, ~rude', Continue(v) PROVE Port!Continue("INTBACK")
    <3>1. ~rude /\ ~SF /\ SF' /\ intback
      BY <2>5 DEF Continue, Rearm
    <3>3. rude' = rude /\ asked' = "INTBACK" /\ performed' = "none"
      BY <2>0, <2>5, <3>1 DEF Continue, Write
    <3>2. timing' > 0
      BY <2>5, <2>1, <3>1, SetTimingStep DEF Continue, Rearm, Armed
    <3> QED
      BY <3>1, <3>2, <3>3 DEF Port!Continue, Port!Quiet
  <2>6. ASSUME UNCHANGED <<SF, timing, asked, rude>>, performed' = "none" PROVE Port!Idle
    BY <2>6 DEF Port!Idle, Port!Quiet
  <2>7. ASSUME WriteTVMD \/ LoadState PROVE Port!Next
    <3>1. Port!Idle
      BY <2>6, <2>7 DEF WriteTVMD, LoadState, Write, internal, registers
    <3> QED
      BY <3>1 DEF Port!Next
  <2>8. ASSUME NEW v \in Ireg0, WriteParameter(v) \/ Break(v), ~rude' PROVE Port!Idle
    <3>1. CASE WriteParameter(v)
      <4>1. rude' = rude
        BY <2>0, <2>8, <3>1 DEF WriteParameter
      <4> QED
        BY <2>6, <3>1, <4>1 DEF WriteParameter, Write, internal
    <3>2. CASE Break(v)
      <4>1. rude' = rude
        BY <2>0, <2>8, <3>2 DEF Break
      <4> QED
        BY <2>6, <3>2, <4>1 DEF Break, Write
    <3> QED
      BY <2>8, <3>1, <3>2
  <2>9. ASSUME CountDown PROVE Port!Idle
    <3>1. UNCHANGED <<SF, asked, rude>> /\ performed' = "none"
      BY <2>9 DEF CountDown, Deciline
    <3>2. timing' > 0 <=> timing > 0
      BY <2>9, <2>1 DEF CountDown, Due, Tick
    <3> QED
      BY <3>1, <3>2 DEF Port!Idle, Port!Quiet
  <2>10. ASSUME NEW c, Execute(c), ~rude' PROVE Port!Perform
    <3>1. /\ timing > 0 /\ COMREG = c /\ ~SF' /\ performed' = c /\ UNCHANGED <<asked, rude>>
      BY <2>10 DEF Execute, Due, Deciline
    <3>2. SF /\ asked = COMREG
      BY <2>1, <2>10, <3>1 DEF PoliteInv
    <3> QED
      BY <3>1, <3>2 DEF Port!Perform
  <2>11. ASSUME Reset PROVE Port!Reset
    BY <2>11 DEF Reset, Write, Port!Reset
  <2>12. CASE UNCHANGED vars
    BY <2>12 DEF vars, registers, internal, history, Port!vars
  <2>13. ASSUME ~rude', SmpcExec PROVE Port!Next
    <3>1. CASE CountDown
      BY <2>9, <3>1 DEF Port!Next
    <3>2. CASE \E c \in Commands : ExecuteCommand(c)
      BY <2>10, <2>13, <3>2 DEF ExecuteCommand, Port!Next
    <3>3. CASE IntbackGoesOn \/ IntbackStatus \/ IntbackPeripheral \/ IntbackNothing
      BY <2>10, <2>13, <3>3
         DEF IntbackGoesOn, IntbackStatus, IntbackPeripheral, IntbackNothing, Port!Next
    <3> QED
      BY <2>13, <3>1, <3>2, <3>3 DEF SmpcExec
  <2>14. ASSUME ~rude', Program PROVE Port!Next
    <3>1. CASE WriteSF
      BY <2>3, <2>14, <3>1 DEF Port!Next
    <3>2. CASE WriteIREG1
      <4>1. rude' = rude
        BY <2>0, <2>14, <3>2 DEF WriteIREG1
      <4> QED
        BY <2>6, <3>2, <4>1 DEF WriteIREG1, Write, internal, Port!Next
    <3>6. CASE WriteTVMD
      BY <2>7, <3>6
    <3>3. CASE \E c \in Comreg : WriteCOMREG(c)
      BY <2>4, <2>14, <3>3 DEF Port!Next
    <3>4. CASE \E v \in Ireg0 : WriteParameter(v) \/ Break(v)
      BY <2>8, <2>14, <3>4 DEF Port!Next
    <3>5. CASE \E v \in Ireg0 : Continue(v)
      BY <2>5, <2>14, <3>5 DEF Port!Next, Commands, Known
    <3> QED
      BY <2>14, <3>1, <3>2, <3>3, <3>4, <3>5, <3>6 DEF Program
  <2> QED
    BY <1>2, <2>2, <2>7, <2>11, <2>12, <2>13, <2>14 DEF Next, Port!Next
<1> QED
  BY <1>1, <1>2, Invariance, PTL DEF Spec, PortSpec, Port!Spec
===============================================================================
