----------------------------- MODULE ScuInterrupts -----------------------------
(***************************************************************************)
(* The interrupt controller of the SCU and the interrupt queues of the two *)
(* SH-2 interpreters as operators on a record r: r.IST, r.AIACK, the queue *)
(* r.interrupts of the SCU and the queues r.sh2[c] of the CPUs, the most   *)
(* urgent request last, and the DMA levels r.dma of ScuDma.  A handler of  *)
(* the code calls several of them, an action of Scu composes them.         *)
(***************************************************************************)
EXTENDS Integers, Sequences

(* The levels of the SendInterrupt calls, and 16 for the NMI. *)
Level == [VBlankIN |-> 15, VBlankOUT |-> 14, HBlankIN |-> 13, Timer0 |-> 12,
          Timer1 |-> 11, DSPEnd |-> 10, SoundRequest |-> 9, SystemManager |-> 8,
          DMA2End |-> 6, DMA1End |-> 6, DMA0End |-> 5, DMAIllegal |-> 3,
          DrawEnd |-> 2, External00 |-> 7, External12 |-> 1, NMI |-> 16]

Sources == DOMAIN Level

ABus == {"External00", "External12"}

(* The sources whose IST bit the byte write to 0x25FE00A7 reaches. *)
LowByte == {"VBlankIN", "VBlankOUT", "HBlankIN", "Timer0", "Timer1", "DSPEnd",
            "SoundRequest", "SystemManager"}

(* Bits of IMS: one per source of the SCU, one for the whole A-bus. *)
MaskOf(s) == IF s \in ABus THEN "ABus" ELSE s

Masks == {MaskOf(s) : s \in Sources \ {"NMI"}}

Cpus == {"MSH2", "SSH2"}

VARIABLES
  IMS,               \* the masked bits
  I,                 \* I[c]: SR.I of CPU c
  IsSSH2Running

Items(q) == {q[i] : i \in DOMAIN q}

(* The requests that wait in the SCU or at the master. *)
Told(r) == Items(r.interrupts) \cup Items(r.sh2["MSH2"])

(* No request is queued twice; the queue rises to its end. *)
QueueOK(q, sources) ==
  /\ q \in Seq(sources)
  /\ \A i, j \in DOMAIN q : q[i] = q[j] => i = j

Sorted(q, level) == \A i, j \in DOMAIN q : i < j => level[q[i]] <= level[q[j]]

-------------------------------------------------------------------------------
(* SH2InterpreterSendInterrupt and ScuQueueInterrupt keep their queues     *)
(* alike: one entry per vector, sorted by exchanges, which rotate the      *)
(* entries of an equal level above the new one.                            *)

(* Mutant: the vector is not looked up. *)
EnqueueTwice(q, s, level) ==
  LET n == Len(q)
      below(i) == i = 0 \/ (i <= n /\ level[q[i]] <= level[s])
  IN [i \in 1 .. n + 1 |-> IF below(i) THEN q[i] ELSE IF below(i - 1) THEN s ELSE q[i - 1]]

(* Mutant: the queue is not sorted. *)
EnqueueLast(q, s, level) == IF s \in Items(q) THEN q ELSE Append(q, s)

Enqueue(q, s, level) ==
  LET n        == Len(q)
      below(i) == i = 0 \/ (i <= n /\ level[q[i]] <= level[s])
      same(i)  == {j \in 1 .. n : level[q[j]] = level[q[i]]}
      first(i) == CHOOSE j \in same(i) : \A k \in same(i) : j <= k
  IN IF s \in Items(q) THEN q
     ELSE [i \in 1 .. n + 1 |->
             IF below(i) THEN q[i]
             ELSE IF below(i - 1) THEN s
             ELSE IF i \in same(i - 1) THEN q[i] ELSE q[first(i - 1)]]

(* The entries of q in S, in their order: how the removals close the gaps. *)
Keep(q, S) ==
  LET kept[i \in 0 .. Len(q)] ==
        IF i = 0 THEN <<>>
        ELSE IF q[i] \in S THEN Append(kept[i - 1], q[i]) ELSE kept[i - 1]
  IN kept[Len(q)]

Without(q, s) == Keep(q, Items(q) \ {s})

(* Levels at the slave: HBlank-IN and VBlank-IN reach it as 1 and 2. *)
SlaveLevel == [HBlankIN |-> 1, VBlankIN |-> 2]

(* SH2SendInterrupt to the master, and to a running slave what it gets. *)
AssertIrq(r, s) ==
  [r EXCEPT !.sh2 =
     [c \in Cpus |->
        IF c = "MSH2" THEN Enqueue(r.sh2[c], s, Level)
        ELSE IF IsSSH2Running /\ s \in DOMAIN SlaveLevel
        THEN Enqueue(r.sh2[c], s, SlaveLevel) ELSE r.sh2[c]]]

Retract(r, s, cpus) ==
  [r EXCEPT !.sh2 = [c \in Cpus |-> IF c \in cpus THEN Without(@[c], s) ELSE @[c]]]

Queue(r, s) ==
  [r EXCEPT !.interrupts = Enqueue(@, s, Level), !.IST = @ \cup {s}]

SendInterrupt(r, s) ==
  IF MaskOf(s) \in IMS \/ (s \in ABus /\ ~r.AIACK) THEN Queue(r, s)
  ELSE IF s \in ABus THEN AssertIrq([r EXCEPT !.AIACK = FALSE], s)
  ELSE AssertIrq([r EXCEPT !.IST = IF Level[s] > I["MSH2"] THEN @ \ {s} ELSE @ \cup {s}], s)

(* Mutant: the request stays in the queue of the SCU. *)
RemoveTimerQueued(r, s) == Retract([r EXCEPT !.IST = @ \ {s}], s, {"MSH2"})

(* ScuRemoveTimer0, ScuRemoveTimer1. *)
RemoveTimer(r, s) ==
  Retract([r EXCEPT !.IST = @ \ {s}, !.interrupts = Without(@, s)], s, {"MSH2"})

(* The deliveries to the CPUs of a set of at most one request. *)
Deliver(r, ss) == IF ss = {} THEN r ELSE AssertIrq(r, CHOOSE s \in ss : TRUE)

(* Mutant: AIACK stays armed, the A-bus requests come one by one. *)
TestInterruptMaskKeepsAck(r, mask) ==
  LET n == Len(r.interrupts)
      open == {s \in r.IST : MaskOf(s) \notin mask /\ (s \in ABus => r.AIACK)}
      sent == Keep(r.interrupts, open)
      step[i \in 0 .. Len(sent)] == IF i = 0 THEN r ELSE AssertIrq(step[i - 1], sent[i])
  IN [step[Len(sent)] EXCEPT
        !.IST = @ \ Items(sent),
        !.interrupts = Keep(@, Items(@) \ open)]

(* ScuTestInterruptMask, from the top of the queue: it delivers the first  *)
(* open A-bus request, for which it skips the next entry, and stops at the *)
(* first other request that is open.                                       *)
TestInterruptMask(r, mask) ==
  LET n == Len(r.interrupts)
      from(k) == r.interrupts[n + 1 - k]
      first(ks) == {k \in ks : \A j \in ks : k <= j}
      abus == IF r.AIACK /\ "ABus" \notin mask
              THEN first({k \in 1 .. n : from(k) \in ABus}) ELSE {}
      other == {k \in 1 .. n : /\ from(k) \notin ABus
                               /\ from(k) \notin mask /\ from(k) \in r.IST}
      last == first({k \in other : \A a \in abus : k < a \/ k > a + 1})
      sentABus == {from(k) : k \in {a \in abus : \A k \in last : a < k}}
      sentLast == {from(k) : k \in last}
  IN [Deliver(Deliver(r, sentABus), sentLast) EXCEPT
        !.AIACK = @ /\ sentABus = {},
        !.IST = @ \ (sentABus \cup sentLast),
        !.interrupts = Keep(@, Items(@) \ (sentABus \cup sentLast))]

(* Mutant: the old implementation, which indexed the queue with the bit. *)
RemoveInterruptByCPUAtBottom(r, kept) ==
  IF r.IST \subseteq kept \/ r.interrupts = <<>> THEN r
  ELSE [r EXCEPT !.interrupts = Tail(@)]

(* Mutant: the queue is left alone. *)
RemoveInterruptByCPUForgotten(r, kept) == r

(* ScuRemoveInterruptByCPU: IST bits outside kept are cleared. *)
RemoveInterruptByCPU(r, kept) ==
  [r EXCEPT !.interrupts = Keep(@, kept \cup (Items(@) \ r.IST))]
===============================================================================
