------------------------------- MODULE ScuProofs -------------------------------
(***************************************************************************)
(* The interrupt controller of the SCU, for every program, set of devices, *)
(* field height and set of transfers: Timer 1 raises its interrupt at most *)
(* once per field in mode 1; the queues stay sorted and free of duplicates *)
(* and the DMA levels in order, which gives the properties of the steps    *)
(* and the refinement of the latch.                                        *)
(***************************************************************************)
EXTENDS Scu, ScuOperatorProofs

TimerTypes ==
  /\ T1MD \in {"off", "each", "compare"}
  /\ T0C \in Nat /\ timer0 \in Nat /\ timer1_counter \in Nat /\ timer1_preset \in Nat
  /\ timer0_set \in BOOLEAN /\ timer1_set \in BOOLEAN /\ compareFixed \in BOOLEAN
  /\ timer1Raised \in 0 .. 2

(* While the program leaves the compare alone, timer0_set marks the only   *)
(* line of the field on which Timer 0 matches, and a Timer 1 that has      *)
(* expired on it is not loaded again before Timer 0 counts on.             *)
TimerInv ==
  compareFixed /\ T1MD = "compare" =>
    /\ timer0_set => timer0 = T0C
    /\ timer1Raised <= 1
    /\ timer1Raised = 1 => timer0 > T0C \/ (timer0 = T0C /\ timer1_counter = 0)

TimersOK == TimerTypes /\ TimerInv

(* What the compare of Timer 0 leaves in timer0_set. *)
LEMMA MatchSets ==
  ASSUME NEW r, NEW count \in Nat, NEW on \in BOOLEAN
  PROVE  Timer0Match(r, count, on)[2] =
           IF ~on THEN timer0_set ELSE IF count = T0C THEN TRUE ELSE FALSE
BY DEF Timer0Match

LEMMA InitInv == Init => TimersOK
<1> SUFFICES ASSUME Init PROVE TimersOK
  OBVIOUS
<1>1. T1MD = "off" /\ T0C = 0 /\ timer0 = 0 /\ timer1_counter = 0 /\ timer1_preset = 0
  BY Zenon DEF Init
<1>2. timer0_set = FALSE /\ timer1_set = FALSE /\ compareFixed = FALSE
  BY Zenon DEF Init
<1>3. timer1Raised = 0
  BY Zenon DEF Init
<1>4. timer0_set \in BOOLEAN /\ timer1_set \in BOOLEAN /\ compareFixed \in BOOLEAN
  BY <1>2, Zenon
<1>5. TimerTypes
  BY <1>1, <1>3, <1>4 DEF TimerTypes
<1>6. TimerInv
  BY <1>1 DEF TimerInv
<1> QED
  BY <1>5, <1>6 DEF TimersOK

(* ScuExec: Timer 1 expires only while it runs. *)
LEMMA ExecStep == TimersOK /\ ScuExec => TimersOK'
<1> SUFFICES ASSUME TimersOK, ScuExec PROVE TimersOK'
  OBVIOUS
<1> DEFINE counter == IF Timer1Runs THEN timer1_counter - 1 ELSE timer1_counter
           expired == Timer1Runs /\ counter = 0
           sends == expired /\ (T1MD = "each" \/ timer0_set)
<1>1. /\ timer1_counter' = counter
      /\ timer1_set' = (timer1_set \/ expired)
      /\ timer1Raised' = IF sends /\ timer1Raised < 2 THEN timer1Raised + 1 ELSE timer1Raised
      /\ UNCHANGED <<T1MD, T0C, timer0, timer0_set, timer1_preset, compareFixed>>
  BY DEF ScuExec
<1>2. Timer1Runs => timer1_counter > 0
  BY DEF Timer1Runs
<1>3. TimerTypes /\ TimerInv
  BY DEF TimersOK
<1>4. timer1_counter' \in Nat /\ timer1Raised' \in 0 .. 2
  BY <1>1, <1>2, <1>3 DEF TimerTypes
<1>5. timer1_set' \in BOOLEAN
  BY <1>1, <1>3 DEF TimerTypes
<1>6. TimerTypes'
  BY <1>1, <1>3, <1>4, <1>5 DEF TimerTypes
<1>7. TimerInv'
  BY <1>1, <1>2, <1>3 DEF TimerTypes, TimerInv
<1> QED
  BY <1>6, <1>7 DEF TimersOK

(* The scanlines: HBlank-IN counts Timer 0 on and may load Timer 1 again,  *)
(* VBlank-OUT begins a field.                                              *)
LEMMA LineStep ==
  ASSUME ScuAssumption, TimersOK, HBlankIN \/ NextLine \/ VBlankIN \/ VBlankOUT
  PROVE  TimersOK'
<1>1. TimerTypes /\ TimerInv
  BY DEF TimersOK
<1>2. CASE HBlankIN
  <2>1. UNCHANGED <<T1MD, T0C, timer1_preset, timer1Raised, compareFixed>>
    BY <1>2 DEF HBlankIN
  <2>2. CASE LineCount >= VBlankLineCount
    <3>1. UNCHANGED <<timer0, timer0_set, timer1_set, timer1_counter>>
      BY <1>2, <2>2 DEF HBlankIN
    <3> QED
      BY <1>1, <2>1, <3>1 DEF TimersOK, TimerTypes, TimerInv
  <2>3. CASE ~(LineCount >= VBlankLineCount)
    <3> DEFINE on == T1MD # "off"
               sent == SendInterrupt(irq, "HBlankIN")
               reload == on /\ timer1_set
    <3>1. /\ timer0' = timer0 + 1
          /\ timer0_set' = Timer0Match(sent, timer0 + 1, on)[2]
          /\ timer1_set' = (timer1_set /\ ~reload)
          /\ timer1_counter' = IF reload THEN timer1_preset ELSE timer1_counter
      BY <1>2, <2>3 DEF HBlankIN
    <3>2. timer0 + 1 \in Nat /\ on \in BOOLEAN
      BY <1>1 DEF TimerTypes
    <3>3. timer0_set' = IF ~on THEN timer0_set
                        ELSE IF timer0 + 1 = T0C THEN TRUE ELSE FALSE
      BY <3>1, <3>2, MatchSets
    <3>4. timer0_set' \in BOOLEAN /\ timer1_set' \in BOOLEAN
      BY <1>1, <3>1, <3>3 DEF TimerTypes
    <3>5. timer0' \in Nat /\ timer1_counter' \in Nat
      BY <1>1, <3>1 DEF TimerTypes
    <3>6. TimerTypes'
      BY <1>1, <2>1, <3>4, <3>5 DEF TimerTypes
    <3>7. TimerInv'
      <4>1. SUFFICES ASSUME compareFixed, T1MD = "compare" PROVE TimerInv'
        BY <2>1 DEF TimerInv
      <4>2. /\ timer1Raised <= 1
            /\ timer1Raised = 1 => timer0 >= T0C
        BY <1>1, <4>1 DEF TimerInv, TimerTypes
      <4>3. timer0_set' => timer0' = T0C
        BY <3>1, <3>3, <4>1
      <4> QED
        BY <1>1, <2>1, <3>1, <4>2, <4>3 DEF TimerInv, TimerTypes
    <3> QED
      BY <3>6, <3>7 DEF TimersOK
  <2> QED
    BY <2>2, <2>3
<1>3. CASE NextLine \/ VBlankIN
  <2>1. UNCHANGED <<T1MD, T0C, timer0, timer0_set, timer1_set, timer1_counter,
                    timer1_preset, timer1Raised, compareFixed>>
    BY <1>3 DEF NextLine, VBlankIN, LineEnd
  <2> QED
    BY <1>1, <2>1 DEF TimersOK, TimerTypes, TimerInv
<1>4. CASE VBlankOUT
  <2> DEFINE on == T1MD # "off"
             sent == RemoveTimer(RemoveTimer(Retract(SendInterrupt(AfterHBlank, "VBlankOUT"),
                                                     "VBlankIN", Cpus), "Timer0"), "Timer1")
  <2>1. /\ UNCHANGED <<T1MD, T0C, timer1_set, timer1_counter, timer1_preset>>
        /\ timer0' = 0 /\ timer1Raised' = 0 /\ compareFixed' = TRUE
        /\ timer0_set' = Timer0Match(sent, 0, on)[2]
    BY <1>4 DEF VBlankOUT, LineEnd
  <2>2. timer0_set' = IF ~on THEN timer0_set ELSE IF 0 = T0C THEN TRUE ELSE FALSE
    BY <2>1, MatchSets
  <2>3. timer0_set' \in BOOLEAN
    BY <1>1, <2>2 DEF TimerTypes
  <2>4. TimerTypes'
    BY <1>1, <2>1, <2>3 DEF TimerTypes
  <2>5. T1MD = "compare" /\ timer0_set' => timer0' = T0C
    BY <2>1, <2>2
  <2> QED
    BY <2>1, <2>4, <2>5 DEF TimersOK, TimerInv
<1> QED
  BY <1>2, <1>3, <1>4

(* The program and the devices: whoever moves the compare starts a field   *)
(* of which nothing is promised.                                           *)
LEMMA ProgramStep ==
  ASSUME ScuAssumption, TimersOK, Program \/ \E s \in Devices : Raise(s)
  PROVE  TimersOK'
<1>1. TimerTypes /\ TimerInv
  BY DEF TimersOK
<1>2. CASE WriteT0C
  <2>1. T0C' \in T0Values /\ compareFixed' = FALSE
    BY <1>2 DEF WriteT0C
  <2>2. UNCHANGED <<T1MD, timer0, timer0_set, timer1_set, timer1_counter,
                    timer1_preset, timer1Raised>>
    BY <1>2 DEF WriteT0C
  <2>3. T0C' \in Nat
    BY <2>1 DEF ScuAssumption
  <2> QED
    BY <1>1, <2>1, <2>2, <2>3 DEF TimersOK, TimerTypes, TimerInv
<1>3. CASE WriteT1S
  <2>1. timer1_preset' \in T1Values /\ timer1_set' = TRUE
    BY <1>3 DEF WriteT1S
  <2>2. UNCHANGED <<T1MD, T0C, timer0, timer0_set, timer1_counter, timer1Raised, compareFixed>>
    BY <1>3 DEF WriteT1S
  <2>3. timer1_preset' \in Nat
    BY <2>1 DEF ScuAssumption
  <2> QED
    BY <1>1, <2>1, <2>2, <2>3 DEF TimersOK, TimerTypes, TimerInv
<1>4. CASE WriteT1MD
  <2>1. T1MD' \in {"off", "each", "compare"} /\ compareFixed' = FALSE
    BY <1>4 DEF WriteT1MD
  <2>2. UNCHANGED <<T0C, timer0, timer0_set, timer1_set, timer1_counter,
                    timer1_preset, timer1Raised>>
    BY <1>4 DEF WriteT1MD
  <2> QED
    BY <1>1, <2>1, <2>2 DEF TimersOK, TimerTypes, TimerInv
<1>5. CASE ClockChange
  <2>1. T1MD' = "off" /\ timer0' = 0 /\ compareFixed' = FALSE
    BY <1>5 DEF ClockChange
  <2>2. UNCHANGED <<T0C, timer0_set, timer1_set, timer1_counter, timer1_preset, timer1Raised>>
    BY <1>5 DEF ClockChange
  <2> QED
    BY <1>1, <2>1, <2>2 DEF TimersOK, TimerTypes, TimerInv
<1>6. CASE \/ WriteIMS \/ WriteIST \/ WriteISTByte \/ WriteAIACK \/ StartDMA \/ SelectDMA
           \/ StartSlave \/ StopSlave \/ (\E c \in Cpus : Take(c) \/ SetSR(c))
           \/ \E s \in Devices : Raise(s)
  <2>1. UNCHANGED <<timers, timer1Raised, compareFixed>>
    BY <1>6 DEF WriteIMS, WriteIST, WriteISTByte, Acknowledge, WriteAIACK, StartDMA, SelectDMA,
                StartSlave, StopSlave, Take, SetSR, Raise
  <2> QED
    BY <1>1, <2>1 DEF timers, TimersOK, TimerTypes, TimerInv
<1> QED
  BY <1>2, <1>3, <1>4, <1>5, <1>6 DEF Program

(* The invariant of the timers. *)
THEOREM TimersInvariant == Spec => []TimersOK
<1>1. Init => TimersOK
  BY InitInv
<1>2. TimersOK /\ [Next]_vars => TimersOK'
  <2> SUFFICES ASSUME TimersOK, [Next]_vars PROVE TimersOK'
    OBVIOUS
  <2>1. CASE Program \/ \E s \in Devices : Raise(s)
    BY <2>1, ScuAssumption, ProgramStep
  <2>2. CASE HBlankIN \/ NextLine \/ VBlankIN \/ VBlankOUT
    BY <2>2, ScuAssumption, LineStep
  <2>3. CASE ScuExec
    BY <2>3, ExecStep
  <2>4. CASE UNCHANGED vars
    BY <2>4 DEF vars, timers, TimersOK, TimerTypes, TimerInv
  <2> QED
    BY <2>1, <2>2, <2>3, <2>4 DEF Next, Scanline
<1> QED
  BY <1>1, <1>2, PTL DEF Spec

(* "Mode 1 raises it only on the line selected by the Timer 0 compare      *)
(* register, i.e. once per frame" (scu.c:1056).                            *)
THEOREM OncePerField == Spec => []Timer1OncePerField
<1>1. TimersOK => Timer1OncePerField
  BY DEF TimersOK, TimerInv, TimerTypes, Timer1OncePerField
<1> QED
  BY <1>1, TimersInvariant, PTL
-------------------------------------------------------------------------------
(* What the scanlines request, and what they withdraw.                     *)
Gone == Periodic \ {"VBlankOUT"}

Line == Periodic \cup Transferred

LEMMA LineSources ==
  /\ Periodic \subseteq Requests \ (ABus \cup Transferred)
  /\ "VBlankIN" \in Periodic /\ "VBlankOUT" \in Periodic /\ "HBlankIN" \in Periodic
  /\ "Timer0" \in Periodic /\ "Timer1" \in Periodic
  /\ Gone \cap Transferred = {} /\ Line \cap ABus = {}
BY DEF Periodic, Requests, Sources, Level, ABus, Transferred, DmaEnds, Gone, Line

(* No request of s waits that did not.                                     *)
LEMMA MovesWaiting ==
  ASSUME NEW r, NEW x, NEW A, NEW W, Moves(r, x, A, W), NEW s, s \notin A, Waiting(x, s)
  PROVE  Waiting(r, s)
BY DEF Moves, Waiting, Told

(* A chain of handlers: what it makes of r, and whether it requests Timer 0. *)
Chain(r, x) ==
  /\ IrqOK(x) /\ Moves(r, x, Line, Gone)
  /\ Waiting(x, "Timer0") => Waiting(r, "Timer0")

LEMMA ChainTwice ==
  ASSUME NEW r, NEW x, NEW y, Chain(r, x), Chain(x, y)
  PROVE  Chain(r, y)
BY MovesTwice, LineSources DEF Chain

(* The links of the chains.                                                *)
LEMMA SentChain ==
  ASSUME NEW r, IrqOK(r), NEW s \in Periodic \ {"Timer0"}
  PROVE  Chain(r, SendInterrupt(r, s))
<1> DEFINE x == SendInterrupt(r, s)
<1>1. s \in Requests \ Transferred
  BY LineSources
<1>2. IrqOK(x) /\ Moves(r, x, {s}, {})
  BY <1>1, SentMoves
<1> HIDE DEF x
<1>3. Moves(r, x, Line, Gone)
  BY <1>2, MovesMore DEF Line
<1>4. Waiting(x, "Timer0") => Waiting(r, "Timer0")
  BY <1>2, MovesWaiting
<1> QED
  BY <1>2, <1>3, <1>4 DEF Chain, x

LEMMA RetractChain ==
  ASSUME NEW r, IrqOK(r), NEW s \in Gone, NEW cpus
  PROVE  Chain(r, Retract(r, s, cpus))
<1> DEFINE x == Retract(r, s, cpus)
<1>1. s \in Requests \ Transferred
  BY LineSources DEF Gone
<1>2. IrqOK(x) /\ Moves(r, x, {}, {s})
  BY <1>1, RetractMoves
<1> HIDE DEF x
<1>3. Moves(r, x, Line, Gone)
  BY <1>2, MovesMore
<1>4. Waiting(x, "Timer0") => Waiting(r, "Timer0")
  BY <1>2, MovesWaiting
<1> QED
  BY <1>2, <1>3, <1>4 DEF Chain, x

LEMMA RemoveTimerChain ==
  ASSUME NEW r, IrqOK(r), NEW s \in {"Timer0", "Timer1"}
  PROVE  Chain(r, RemoveTimer(r, s)) /\ ~Waiting(RemoveTimer(r, s), s)
<1> DEFINE x == RemoveTimer(r, s)
<1>1. s \in Requests \ (ABus \cup Transferred) /\ s \in Gone
  BY LineSources DEF Gone
<1>2. IrqOK(x) /\ Moves(r, x, {}, {s}) /\ ~Waiting(x, s)
  BY <1>1, RemoveTimerMoves
<1> HIDE DEF x
<1>3. Moves(r, x, Line, Gone)
  BY <1>1, <1>2, MovesMore
<1>4. Waiting(x, "Timer0") => Waiting(r, "Timer0")
  BY <1>2, MovesWaiting
<1> QED
  BY <1>2, <1>3, <1>4 DEF Chain, x

LEMMA Timer0Transferred == "Timer0" \notin Transferred
BY DEF Transferred, DmaEnds

LEMMA ChekChain ==
  ASSUME NEW r, IrqOK(r), NEW s \in Periodic
  PROVE  Chain(r, ScuChekIntrruptDMA(r, s))
<1> DEFINE x == ScuChekIntrruptDMA(r, s)
<1>1. s \in Sources
  BY LineSources DEF Requests
<1>2. IrqOK(x) /\ Moves(r, x, Transferred, {})
  BY <1>1, ChekMoves
<1> HIDE DEF x
<1>3. Moves(r, x, Line, Gone)
  BY <1>2, MovesMore DEF Line
<1>4. Waiting(x, "Timer0") => Waiting(r, "Timer0")
  BY <1>2, MovesWaiting, Timer0Transferred
<1> QED
  BY <1>2, <1>3, <1>4 DEF Chain, x

LEMMA ProcChain ==
  ASSUME NEW r, IrqOK(r), NEW words \in Nat \ {0}
  PROVE  Chain(r, ScuDmaProc(r, words))
<1> DEFINE x == ScuDmaProc(r, words)
<1>1. IrqOK(x) /\ Moves(r, x, Transferred, {})
  BY ProcMoves
<1> HIDE DEF x
<1>2. Moves(r, x, Line, Gone)
  BY <1>1, MovesMore DEF Line
<1>3. Waiting(x, "Timer0") => Waiting(r, "Timer0")
  BY <1>1, MovesWaiting, Timer0Transferred
<1> QED
  BY <1>1, <1>2, <1>3 DEF Chain, x

LEMMA SendAndStartChain ==
  ASSUME NEW r, IrqOK(r), NEW s \in Periodic \ {"Timer0"}
  PROVE  Chain(r, SendAndStart(r, s))
<1> DEFINE y == SendInterrupt(r, s)
           x == ScuChekIntrruptDMA(y, s)
<1>1. Chain(r, y)
  BY SentChain
<1> HIDE DEF y
<1>2. Chain(y, x)
  BY <1>1, ChekChain DEF Chain
<1> HIDE DEF x
<1>3. Chain(r, x)
  BY <1>1, <1>2, ChainTwice
<1> QED
  BY <1>3 DEF SendAndStart, x, y

LEMMA ChainSelf ==
  ASSUME NEW r, IrqOK(r)
  PROVE  Chain(r, r)
BY DEF Chain, Moves, Continues

(* A step of the scanlines, with the state of Timer 0.                     *)
LineMoves ==
  /\ IrqOK(irq') /\ Moves(irq, irq', Line, Gone)
  /\ Waiting(irq', "Timer0") => timer0_set'

LEMMA MatchMoves ==
  ASSUME NEW r, IrqOK(r), NEW count, NEW on \in BOOLEAN
  PROVE  LET m == Timer0Match(r, count, on) IN
         /\ IrqOK(m[1]) /\ Moves(r, m[1], Line, Gone)
         /\ Waiting(m[1], "Timer0") => m[2] \/ (Waiting(r, "Timer0") /\ m[2] = timer0_set)
<1> DEFINE m == Timer0Match(r, count, on)
<1>1. CASE ~on
  <2>1. m = <<r, timer0_set>>
    BY <1>1 DEF Timer0Match
  <2> QED
    BY <2>1, ChainSelf DEF Chain
<1>2. CASE on /\ count = T0C
  <2> DEFINE x == SendAndStart(r, "Timer0")
  <2>1. m = <<x, TRUE>>
    BY <1>2 DEF Timer0Match
  <2>2. "Timer0" \in Requests \ Transferred
    BY LineSources
  <2>3. IrqOK(x) /\ Moves(r, x, {"Timer0"} \cup Transferred, {})
    BY <2>2, SendAndStartMoves
  <2> HIDE DEF x
  <2>4. Moves(r, x, Line, Gone)
    BY <2>3, LineSources, MovesMore DEF Line
  <2> QED
    BY <2>1, <2>3, <2>4
<1>3. CASE on /\ count # T0C
  <2> DEFINE x == RemoveTimer(r, "Timer0")
  <2>1. m = <<x, FALSE>>
    BY <1>3 DEF Timer0Match
  <2>2. Chain(r, x) /\ ~Waiting(x, "Timer0")
    BY RemoveTimerChain
  <2> HIDE DEF x
  <2>3. m[1] = x
    BY <2>1
  <2> HIDE DEF m
  <2>4. IrqOK(m[1]) /\ Moves(r, m[1], Line, Gone) /\ ~Waiting(m[1], "Timer0")
    BY <2>2, <2>3 DEF Chain
  <2> QED
    BY <2>4 DEF m
<1> QED
  BY <1>1, <1>2, <1>3

LEMMA HBlankINMoves ==
  ASSUME IrqOK(irq), Timer0Current, timer0_set \in BOOLEAN, HBlankIN
  PROVE  LineMoves
<1>0. Waiting(irq, "Timer0") => timer0_set
  BY DEF Timer0Current, Waiting, Told
<1>1. CASE LineCount >= VBlankLineCount
  <2>1. irq' = irq /\ timer0_set' = timer0_set
    BY <1>1 DEF HBlankIN
  <2> QED
    BY <1>0, <2>1, ChainSelf DEF LineMoves, Chain
<1>2. CASE ~(LineCount >= VBlankLineCount)
  <2> DEFINE on == T1MD # "off"
             a == SendInterrupt(irq, "HBlankIN")
             match == Timer0Match(a, timer0 + 1, on)
             b == match[1]
             reload == on /\ timer1_set
             c == IF reload THEN RemoveTimer(b, "Timer1") ELSE b
             x == ScuChekIntrruptDMA(c, "HBlankIN")
  <2>1. irq' = x /\ timer0_set' = match[2]
    BY <1>2 DEF HBlankIN
  <2>2. Chain(irq, a)
    BY LineSources, SentChain
  <2> HIDE DEF a
  <2>3. /\ IrqOK(b) /\ Moves(a, b, Line, Gone)
        /\ Waiting(b, "Timer0") => match[2] \/ (Waiting(a, "Timer0") /\ match[2] = timer0_set)
    <3>1. on \in BOOLEAN
      OBVIOUS
    <3> HIDE DEF on
    <3> QED
      BY <2>2, <3>1, MatchMoves DEF Chain
  <2> HIDE DEF match, b
  <2>4. Chain(b, c)
    <3>1. CASE reload
      BY <2>3, <3>1, RemoveTimerChain
    <3>2. CASE ~reload
      BY <2>3, <3>2, ChainSelf
    <3> QED
      BY <3>1, <3>2
  <2> HIDE DEF c
  <2>5. Chain(c, x)
    BY <2>4, LineSources, ChekChain DEF Chain
  <2> HIDE DEF x
  <2>6. Chain(b, x)
    BY <2>4, <2>5, ChainTwice
  <2>7. Moves(irq, b, Line, Gone)
    BY <2>2, <2>3, MovesTwice, LineSources DEF Chain
  <2>8. Moves(irq, x, Line, Gone)
    BY <2>6, <2>7, MovesTwice, LineSources DEF Chain
  <2>9. Waiting(x, "Timer0") => match[2]
    BY <1>0, <2>2, <2>3, <2>6 DEF Chain
  <2> QED
    BY <2>1, <2>6, <2>8, <2>9 DEF LineMoves, Chain
<1> QED
  BY <1>1, <1>2

LEMMA AfterHBlankChain ==
  ASSUME IrqOK(irq)
  PROVE  Chain(irq, AfterHBlank)
<1>1. "HBlankIN" \in Gone
  BY LineSources DEF Gone
<1> QED
  BY <1>1, RetractChain, ChainSelf DEF AfterHBlank

LEMMA VBlankINMoves ==
  ASSUME IrqOK(irq), Timer0Current, VBlankIN
  PROVE  LineMoves
<1>0. Waiting(irq, "Timer0") => timer0_set
  BY DEF Timer0Current, Waiting, Told
<1> DEFINE a == AfterHBlank
           b == RemoveTimer(a, "Timer0")
           x == SendAndStart(b, "VBlankIN")
<1>1. irq' = x /\ timer0_set' = timer0_set
  BY DEF VBlankIN
<1>2. Chain(irq, a)
  BY AfterHBlankChain
<1> HIDE DEF a
<1>3. Chain(a, b)
  BY <1>2, RemoveTimerChain DEF Chain
<1> HIDE DEF b
<1>4. Chain(b, x)
  BY <1>3, LineSources, SendAndStartChain DEF Chain
<1> HIDE DEF x
<1>5. Chain(irq, x)
  BY <1>2, <1>3, <1>4, ChainTwice
<1> QED
  BY <1>0, <1>1, <1>5 DEF LineMoves, Chain

LEMMA NextLineMoves ==
  ASSUME IrqOK(irq), Timer0Current, NextLine
  PROVE  LineMoves
<1>1. irq' = AfterHBlank /\ timer0_set' = timer0_set
  BY DEF NextLine
<1>2. Waiting(irq, "Timer0") => timer0_set
  BY DEF Timer0Current, Waiting, Told
<1> QED
  BY <1>1, <1>2, AfterHBlankChain DEF LineMoves, Chain

LEMMA VBlankOUTMoves ==
  ASSUME IrqOK(irq), Timer0Current, timer0_set \in BOOLEAN, VBlankOUT
  PROVE  LineMoves
<1>0. Waiting(irq, "Timer0") => timer0_set
  BY DEF Timer0Current, Waiting, Told
<1> DEFINE a == AfterHBlank
           b == SendInterrupt(a, "VBlankOUT")
           c == Retract(b, "VBlankIN", Cpus)
           d == RemoveTimer(c, "Timer0")
           e == RemoveTimer(d, "Timer1")
           on == T1MD # "off"
           match == Timer0Match(e, 0, on)
           f == match[1]
           x == ScuChekIntrruptDMA(f, "VBlankOUT")
<1>1. irq' = x /\ timer0_set' = match[2]
  BY DEF VBlankOUT
<1>2. Chain(irq, a)
  BY AfterHBlankChain
<1> HIDE DEF a
<1>3. Chain(a, b)
  BY <1>2, LineSources, SentChain DEF Chain
<1> HIDE DEF b
<1>4. Chain(b, c)
  <2>1. "VBlankIN" \in Gone
    BY LineSources DEF Gone
  <2> QED
    BY <1>3, <2>1, RetractChain DEF Chain
<1> HIDE DEF c
<1>5. Chain(c, d)
  BY <1>4, RemoveTimerChain DEF Chain
<1> HIDE DEF d
<1>6. Chain(d, e)
  BY <1>5, RemoveTimerChain DEF Chain
<1> HIDE DEF e
<1>7. Chain(irq, e)
  <2>1. Chain(irq, c)
    BY <1>2, <1>3, <1>4, ChainTwice
  <2> QED
    BY <1>5, <1>6, <2>1, ChainTwice
<1>8. /\ IrqOK(f) /\ Moves(e, f, Line, Gone)
      /\ Waiting(f, "Timer0") => match[2] \/ (Waiting(e, "Timer0") /\ match[2] = timer0_set)
  <2>1. on \in BOOLEAN
    OBVIOUS
  <2> HIDE DEF on
  <2> QED
    BY <1>7, <2>1, MatchMoves DEF Chain
<1> HIDE DEF match, f
<1>9. Chain(f, x)
  BY <1>8, LineSources, ChekChain
<1> HIDE DEF x
<1>10. Moves(irq, f, Line, Gone)
  BY <1>7, <1>8, MovesTwice, LineSources DEF Chain
<1>11. Moves(irq, x, Line, Gone)
  BY <1>9, <1>10, MovesTwice, LineSources DEF Chain
<1>12. Waiting(x, "Timer0") => match[2]
  BY <1>0, <1>7, <1>8, <1>9 DEF Chain
<1> QED
  BY <1>1, <1>9, <1>11, <1>12 DEF LineMoves, Chain

LEMMA ScuExecMoves ==
  ASSUME IrqOK(irq), Timer0Current, ScuExec
  PROVE  LineMoves
<1>0. Waiting(irq, "Timer0") => timer0_set
  BY DEF Timer0Current, Waiting, Told
<1> DEFINE counter == IF Timer1Runs THEN timer1_counter - 1 ELSE timer1_counter
           expired == Timer1Runs /\ counter = 0
           sends   == expired /\ (T1MD = "each" \/ timer0_set)
           timed   == IF sends THEN SendAndStart(irq, "Timer1") ELSE irq
           x == ScuDmaProc(timed, ExecWords)
<1>1. irq' = x /\ timer0_set' = timer0_set
  BY DEF ScuExec
<1> HIDE DEF sends
<1>2. Chain(irq, timed)
  <2>1. CASE sends
    BY <2>1, LineSources, SendAndStartChain
  <2>2. CASE ~sends
    BY <2>2, ChainSelf
  <2> QED
    BY <2>1, <2>2
<1> HIDE DEF timed
<1>3. Chain(timed, x)
  BY <1>2, DmaAssumption, ProcChain DEF Chain
<1> HIDE DEF x
<1>4. Chain(irq, x)
  BY <1>2, <1>3, ChainTwice
<1> QED
  BY <1>0, <1>1, <1>4 DEF LineMoves, Chain
-------------------------------------------------------------------------------
(* What holds of every step that keeps IrqOK and Timer0Current.            *)
StepOK ==
  /\ IrqOK(irq') /\ Timer0Current'
  /\ ABusOnce(irq, irq')
  /\ ClockChange \/ \A l \in DmaEnds : OverIsTold(irq, irq', l)
  /\ Latch!Next

(* A level that goes on, or that begins another transfer, tells the end.   *)
LEMMA OverFacts ==
  ASSUME NEW r, IrqOK(r), NEW x, NEW l \in DmaEnds, Continues(r, x, l) \/ Begins(r, x, l)
  PROVE  OverIsTold(r, x, l)
<1>1. r.dma[l].run \in 0 .. 1
  BY DEF IrqOK, ControlOK, Registers, DmaLevel
<1>2. CASE Continues(r, x, l)
  BY <1>2 DEF Continues, Ending, OverIsTold
<1>3. CASE Begins(r, x, l)
  <2>1. x.dma[l].run # r.dma[l].run
    BY <1>1, <1>3 DEF Begins
  <2> QED
    BY <1>3, <2>1 DEF Begins, Ending, OverIsTold
<1> QED
  BY <1>2, <1>3

LEMMA MovesOver ==
  ASSUME NEW r, IrqOK(r), NEW x, NEW A, NEW W, Moves(r, x, A, W)
  PROVE  \A l \in DmaEnds : OverIsTold(r, x, l)
BY OverFacts DEF Moves

(* The DMA levels of a step that is not about them.                        *)
LEMMA SameOver ==
  ASSUME NEW r, NEW x, Told(x) \subseteq Told(r),
         \A l \in DmaEnds : x.dma[l].then = r.dma[l].then /\ x.dma[l].run = r.dma[l].run
  PROVE  \A l \in DmaEnds : OverIsTold(r, x, l)
BY DEF OverIsTold, Busy

LEMMA Timer0Step ==
  ASSUME Waiting(irq', "Timer0") => timer0_set'
  PROVE  Timer0Current'
BY DEF Timer0Current, Waiting, Told

LEMMA LineStepOK ==
  ASSUME IrqOK(irq), LineMoves, acked' = {}
  PROVE  StepOK
<1>1. IrqOK(irq') /\ Moves(irq, irq', Line, Gone)
  BY DEF LineMoves
<1>2. Timer0Current'
  BY Timer0Step DEF LineMoves
<1>3. Items(irq'.sh2["MSH2"]) \subseteq Items(irq.sh2["MSH2"]) \cup Line
  BY <1>1 DEF Moves
<1>4. ABusOnce(irq, irq')
  BY <1>3, LineSources DEF ABusOnce
<1>5. \A l \in DmaEnds : OverIsTold(irq, irq', l)
  BY <1>1, MovesOver
<1>6. Latch!LineEvent
  BY <1>1 DEF Moves, Line, Gone, Latch!LineEvent, Latch!Changes
<1> QED
  BY <1>1, <1>2, <1>4, <1>5, <1>6 DEF StepOK, Latch!Next

(* The scanlines, and ScuExec. *)
LEMMA ScanlineOK ==
  ASSUME IrqOK(irq), Timer0Current, timer0_set \in BOOLEAN, Scanline
  PROVE  StepOK
<1>1. LineMoves
  BY HBlankINMoves, NextLineMoves, VBlankINMoves, VBlankOUTMoves, ScuExecMoves DEF Scanline
<1>2. acked' = {}
  BY DEF Scanline, HBlankIN, NextLine, VBlankIN, VBlankOUT, ScuExec, LineEnd
<1> QED
  BY <1>1, <1>2, LineStepOK

(* A request of a device. *)
LEMMA RaiseOK ==
  ASSUME IrqOK(irq), Timer0Current, NEW s \in Devices, Raise(s)
  PROVE  StepOK
<1>1. s \in Requests \ Transferred /\ s \notin Periodic
  BY ScuAssumption DEF Requests
<1> DEFINE x == SendAndStart(irq, s)
           A == {s} \cup Transferred
<1>2. irq' = x /\ acked' = {} /\ timer0_set' = timer0_set
  BY DEF Raise, timers
<1>3. /\ IrqOK(x) /\ Moves(irq, x, A, {}) /\ s \in Told(x)
      /\ s \in ABus \cap (Items(x.sh2["MSH2"]) \ Items(irq.sh2["MSH2"])) => ~x.AIACK
  BY <1>1, SendAndStartMoves
<1> HIDE DEF x
<1>4. Timer0Current'
  <2>1. "Timer0" \notin A
    BY <1>1, LineSources, Timer0Transferred
  <2>2. Waiting(x, "Timer0") => Waiting(irq, "Timer0")
    BY <1>3, <2>1, MovesWaiting
  <2> QED
    BY <1>2, <2>2, Timer0Step DEF Timer0Current, Waiting, Told
<1>5. ABusOnce(irq, x)
  <2>1. Items(x.sh2["MSH2"]) \subseteq Items(irq.sh2["MSH2"]) \cup A
    BY <1>3 DEF Moves
  <2>2. (Items(x.sh2["MSH2"]) \ Items(irq.sh2["MSH2"])) \cap ABus \subseteq {s}
    BY <2>1, LevelNumbers
  <2> QED
    BY <1>3, <2>2 DEF ABusOnce
<1>6. \A l \in DmaEnds : OverIsTold(irq, x, l)
  BY <1>3, MovesOver
<1>7. Latch!Raise
  BY <1>2, <1>3 DEF Moves, Told, Latch!Raise, Latch!Changes
<1> QED
  BY <1>2, <1>3, <1>4, <1>5, <1>6, <1>7 DEF StepOK, Latch!Next

(* A write that acknowledges acks and then delivers.                       *)
Written(r, x, acks) ==
  /\ Items(x.interrupts) \subseteq Items(r.interrupts) \ acks
  /\ Items(x.sh2["MSH2"]) =
       Items(r.sh2["MSH2"]) \cup ((Items(r.interrupts) \ acks) \ Items(x.interrupts))
  /\ x.IST \subseteq r.IST /\ x.dma = r.dma
  /\ ABusOnce(r, x)

(* Prepares(r, y, acks): the state in which such a write delivers.         *)
Prepares(r, y, acks) ==
  /\ y.sh2 = r.sh2 /\ y.dma = r.dma /\ y.IST \subseteq r.IST
  /\ Items(y.interrupts) = Items(r.interrupts) \ acks

LEMMA TestWritten ==
  ASSUME NEW r, NEW y, IrqOK(y), NEW acks, Prepares(r, y, acks), NEW mask
  PROVE  LET x == TestInterruptMask(y, mask) IN IrqOK(x) /\ Written(r, x, acks)
<1> DEFINE x == TestInterruptMask(y, mask)
<1>1. ControlOK(y) /\ DmaOK(y)
  BY DEF IrqOK
<1>2. ControlOK(x) /\ \E sent \in SUBSET Items(y.interrupts) : Delivers(y, x, sent)
  BY ONLY <1>1, TestFacts
<1> HIDE DEF x
<1>3. PICK sent \in SUBSET Items(y.interrupts) : Delivers(y, x, sent)
  BY <1>2
<1>4. IrqOK(x)
  BY <1>1, <1>2, <1>3 DEF IrqOK, DmaOK, Delivers
<1>5. ABusOnce(r, x)
  <2>1. (Items(x.sh2["MSH2"]) \ Items(r.sh2["MSH2"])) \cap ABus \subseteq sent \cap ABus
    BY <1>3 DEF Delivers, Prepares
  <2> QED
    BY <1>3, <2>1 DEF Delivers, ABusOnce
<1>6. Written(r, x, acks)
  BY <1>3, <1>5 DEF Delivers, Prepares, Written
<1> QED
  BY <1>4, <1>6 DEF x

LEMMA WrittenOK ==
  ASSUME Timer0Current, timer0_set' = timer0_set, IrqOK(irq'), acked' \subseteq Sources,
         Written(irq, irq', acked')
  PROVE  StepOK
<1>1. Told(irq') \subseteq Told(irq)
  BY DEF Written, Told
<1>2. Timer0Current'
  <2>1. Waiting(irq', "Timer0") => Waiting(irq, "Timer0")
    BY <1>1 DEF Waiting, Written
  <2> QED
    BY <2>1, Timer0Step DEF Timer0Current, Waiting, Told
<1>3. \A l \in DmaEnds : OverIsTold(irq, irq', l)
  BY <1>1, SameOver DEF Written
<1>4. Latch!Write
  BY DEF Written, Latch!Write
<1> QED
  BY <1>2, <1>3, <1>4 DEF StepOK, Latch!Next, Written

(* The writes of IMS, IST and AIACK. *)
LEMMA WriteIMSOK ==
  ASSUME IrqOK(irq), Timer0Current, WriteIMS
  PROVE  StepOK
<1>1. irq' = TestInterruptMask(irq, IMS') /\ acked' = {} /\ timer0_set' = timer0_set
  BY DEF WriteIMS, timers
<1>2. Prepares(irq, irq, {})
  BY DEF Prepares
<1>3. IrqOK(irq') /\ Written(irq, irq', {})
  BY <1>1, <1>2, TestWritten
<1> QED
  BY <1>1, <1>3, WrittenOK

LEMMA AcknowledgeOK ==
  ASSUME IrqOK(irq), Timer0Current, NEW kept, Acknowledge(kept)
  PROVE  StepOK
<1> DEFINE acks == irq.IST \ kept
           y == [RemoveInterruptByCPU(irq, kept) EXCEPT !.IST = @ \cap kept]
<1>1. irq' = TestInterruptMask(y, IMS) /\ acked' = acks /\ timer0_set' = timer0_set
  BY DEF Acknowledge, timers
<1>2. ControlOK(irq) /\ DmaOK(irq)
  BY DEF IrqOK
<1>3. /\ ControlOK(y)
      /\ y.IST = irq.IST \cap kept /\ y.AIACK = irq.AIACK /\ y.sh2 = irq.sh2 /\ y.dma = irq.dma
      /\ Items(y.interrupts) = Items(irq.interrupts) \ acks
  BY <1>2, AcknowledgeFacts
<1> HIDE DEF y
<1>4. IrqOK(y) /\ Prepares(irq, y, acks)
  BY <1>2, <1>3 DEF IrqOK, DmaOK, Prepares
<1>5. acks \subseteq Sources
  BY <1>2 DEF ControlOK, Registers, Requests
<1> HIDE DEF acks
<1>6. IrqOK(irq') /\ Written(irq, irq', acks)
  BY <1>1, <1>4, TestWritten
<1> QED
  BY <1>1, <1>5, <1>6, WrittenOK

LEMMA WriteAIACKOK ==
  ASSUME IrqOK(irq), Timer0Current, WriteAIACK
  PROVE  StepOK
<1>1. PICK armed \in BOOLEAN : irq' = TestInterruptMask([irq EXCEPT !.AIACK = armed], IMS)
  BY DEF WriteAIACK
<1>2. acked' = {} /\ timer0_set' = timer0_set
  BY DEF WriteAIACK, timers
<1> DEFINE y == [irq EXCEPT !.AIACK = armed]
<1>3. irq \in Registers /\ QueuesOK(irq) /\ DmaOK(irq)
  BY DEF IrqOK, ControlOK
<1>4. /\ y \in Registers /\ y.IST = irq.IST /\ y.sh2 = irq.sh2
      /\ y.interrupts = irq.interrupts /\ y.dma = irq.dma
  BY <1>3 DEF Registers
<1>5. irq' = TestInterruptMask(y, IMS)
  BY <1>1
<1> HIDE DEF y
<1>6. IrqOK(y) /\ Prepares(irq, y, {})
  BY <1>3, <1>4 DEF IrqOK, ControlOK, QueuesOK, DmaOK, Prepares
<1>7. IrqOK(irq') /\ Written(irq, irq', {})
  BY <1>5, <1>6, TestWritten
<1> QED
  BY <1>2, <1>7, WrittenOK

(* The steps of the DMA registers, and those that leave irq alone.         *)
LEMMA StartDMAOK ==
  ASSUME IrqOK(irq), Timer0Current, StartDMA
  PROVE  StepOK
<1>1. PICK l \in Levels, t \in Transfers : irq' = StartByWrite(irq, l, t)
  BY DEF StartDMA
<1>2. acked' = {} /\ timer0_set' = timer0_set
  BY DEF StartDMA, timers
<1> DEFINE flush == Finishes(irq.dma[l])
           x == Start(irq, l, t, flush)
<1>3. irq' = x
  BY <1>1 DEF StartByWrite
<1>4. l \in DmaEnds
  BY DmaAssumption
<1>5. Busy(irq.dma[l]) => flush
  <2>1. Busy(irq.dma[l]) => irq.dma[l].left \in 1 .. Flush
    BY <1>4 DEF IrqOK, DmaOK, LeftOK
  <2> QED
    BY <2>1, FlushWords DEF Finishes
<1> HIDE DEF flush
<1>6. /\ IrqOK(x) /\ Adds(irq, x, Transferred) /\ Begins(irq, x, l)
      /\ \A k \in DmaEnds \ {l} : Continues(irq, x, k)
  BY <1>4, <1>5, StartFacts
<1> HIDE DEF x
<1>7. Timer0Current'
  <2>1. Waiting(x, "Timer0") => Waiting(irq, "Timer0")
    BY <1>6, Timer0Transferred DEF Adds, Waiting, Told
  <2> QED
    BY <1>2, <1>3, <2>1, Timer0Step DEF Timer0Current, Waiting, Told
<1>8. ABusOnce(irq, x)
  BY <1>6, LevelNumbers DEF Adds, ABusOnce
<1>9. \A k \in DmaEnds : OverIsTold(irq, x, k)
  BY <1>6, OverFacts
<1>10. Latch!LineEvent
  BY <1>2, <1>3, <1>6 DEF Adds, Latch!LineEvent, Latch!Changes
<1> QED
  BY <1>3, <1>6, <1>7, <1>8, <1>9, <1>10 DEF StepOK, Latch!Next

(* Quiet: the queues for the master only lose the requests in lost.        *)
LEMMA QuietOK ==
  ASSUME Timer0Current, timer0_set' = timer0_set, IrqOK(irq'), Latch!Next,
         irq'.IST \subseteq irq.IST,
         Items(irq'.interrupts) \subseteq Items(irq.interrupts),
         Items(irq'.sh2["MSH2"]) \subseteq Items(irq.sh2["MSH2"]),
         \A l \in DmaEnds : irq'.dma[l].then = irq.dma[l].then /\ irq'.dma[l].run = irq.dma[l].run
  PROVE  StepOK
<1>1. Told(irq') \subseteq Told(irq)
  BY DEF Told
<1>2. Timer0Current'
  BY DEF Timer0Current
<1>3. ABusOnce(irq, irq')
  BY DEF ABusOnce
<1>4. \A l \in DmaEnds : OverIsTold(irq, irq', l)
  BY <1>1, SameOver
<1> QED
  BY <1>2, <1>3, <1>4 DEF StepOK

LEMMA SelectDMAOK ==
  ASSUME IrqOK(irq), Timer0Current, SelectDMA
  PROVE  StepOK
<1>1. PICK l \in Levels, f \in Factors \cup {"none"}, t \in Transfers : irq' = Select(irq, l, f, t)
  BY DEF SelectDMA
<1>2. acked' = {} /\ timer0_set' = timer0_set
  BY DEF SelectDMA, timers
<1>3. l \in DmaEnds
  BY DmaAssumption
<1> DEFINE x == Select(irq, l, f, t)
<1>4. /\ IrqOK(x) /\ x.IST = irq.IST /\ x.AIACK = irq.AIACK /\ x.sh2 = irq.sh2
      /\ x.interrupts = irq.interrupts
      /\ \A k \in DmaEnds : x.dma[k].then = irq.dma[k].then /\ x.dma[k].run = irq.dma[k].run
  BY <1>3, SelectFacts
<1>5. irq' = x
  BY <1>1
<1> HIDE DEF x
<1>6. Latch!Next
  BY <1>2, <1>4, <1>5 DEF Latch!Next, Latch!LineEvent, Latch!Changes
<1> QED
  BY <1>2, <1>4, <1>5, <1>6, QuietOK

(* The CPU takes the most urgent request of its queue. *)
LEMMA TakeOK ==
  ASSUME IrqOK(irq), Timer0Current, NEW c \in Cpus, Take(c)
  PROVE  StepOK
<1> DEFINE q == irq.sh2[c]
           top == q[Len(q)]
           x == [irq EXCEPT !.sh2[c] = SubSeq(q, 1, Len(q) - 1)]
<1>1. q # <<>> /\ irq' = x /\ acked' = {} /\ timer0_set' = timer0_set
  BY DEF Take, timers
<1>2. /\ IrqOK(x) /\ Emptied(irq, x, c, top) /\ top \in Items(q)
      /\ top \in Sources /\ (c = "SSH2" => top \in DOMAIN SlaveLevel)
      /\ c = "MSH2" => \A t \in Items(q) : Level[t] <= Level[top]
  BY <1>1, TakeFacts
<1> HIDE DEF x, top
<1>3. Latch!Next
  <2>1. CASE c = "MSH2"
    <3>1. q = irq.sh2["MSH2"]
      BY <2>1
    <3> HIDE DEF q
    <3>2. Latch!Take
      BY <1>1, <1>2, <2>1, <3>1 DEF Emptied, Latch!Take
    <3> QED
      BY <3>2 DEF Latch!Next
  <2>2. CASE c # "MSH2"
    BY <1>1, <1>2, <2>2 DEF Emptied, Latch!Next, Latch!LineEvent, Latch!Changes
  <2> QED
    BY <2>1, <2>2
<1>4. /\ x.IST = irq.IST /\ x.interrupts = irq.interrupts /\ x.dma = irq.dma
      /\ Items(x.sh2["MSH2"]) \subseteq Items(irq.sh2["MSH2"])
  BY <1>2 DEF Emptied
<1> QED
  BY <1>1, <1>2, <1>3, <1>4, QuietOK

LEMMA SameIrqOK ==
  ASSUME IrqOK(irq), Timer0Current, irq' = irq, acked' = {}, timer0_set' = timer0_set
  PROVE  StepOK
<1>1. Latch!Next
  BY DEF Latch!Next, Latch!LineEvent, Latch!Changes
<1> QED
  BY <1>1, QuietOK

(* The slave stops: its queue is emptied. *)
LEMMA StopSlaveOK ==
  ASSUME IrqOK(irq), Timer0Current, StopSlave
  PROVE  StepOK
<1> DEFINE x == [irq EXCEPT !.sh2["SSH2"] = <<>>]
<1>1. irq' = x /\ acked' = {} /\ timer0_set' = timer0_set
  BY DEF StopSlave, timers
<1>2. irq \in Registers /\ QueuesOK(irq) /\ DmaOK(irq)
  BY DEF IrqOK, ControlOK
<1>3. "MSH2" \in Cpus /\ "SSH2" \in Cpus /\ <<>> \in Seq(Sources)
  BY DEF Cpus
<1>4. /\ x \in Registers /\ x.IST = irq.IST /\ x.AIACK = irq.AIACK /\ x.dma = irq.dma
      /\ x.interrupts = irq.interrupts
      /\ x.sh2["SSH2"] = <<>> /\ x.sh2["MSH2"] = irq.sh2["MSH2"]
  BY <1>2, <1>3 DEF Registers
<1> HIDE DEF x
<1>5. QueueOK(<<>>, DOMAIN SlaveLevel) /\ Sorted(<<>>, SlaveLevel)
  BY EmptyQueue
<1>6. IrqOK(x)
  BY <1>2, <1>4, <1>5 DEF IrqOK, ControlOK, QueuesOK, DmaOK
<1>7. Latch!Next
  BY <1>1, <1>4 DEF Latch!Next, Latch!LineEvent, Latch!Changes
<1> QED
  BY <1>1, <1>4, <1>6, <1>7, QuietOK

LEMMA IdleLevel == Idle \in DmaLevel /\ LeftOK(Idle) /\ Idle.left <= Flush /\ Idle.factor = "none"
BY FlushWords DEF Idle, DmaLevel, LeftOK, Busy

(* The reset by a clock change: the NMI is added to the master's queue.    *)
LEMMA ClockChangeOK ==
  ASSUME IrqOK(irq), Timer0Current, ClockChange
  PROVE  StepOK
<1> DEFINE m == Enqueue(irq.sh2["MSH2"], "NMI", Level)
           queues == [c \in Cpus |-> IF c = "MSH2" THEN Enqueue(irq.sh2[c], "NMI", Level) ELSE <<>>]
           levels == [l \in DmaEnds |-> Idle]
           x == [irq EXCEPT !.AIACK = FALSE, !.interrupts = <<>>, !.sh2 = queues, !.dma = levels]
<1>1. irq \in Registers /\ QueuesOK(irq) /\ DmaOK(irq)
  BY DEF IrqOK, ControlOK
<1>2. irq' = x /\ acked' = {} /\ timer0_set' = timer0_set
  BY <1>1 DEF ClockChange, timers, Registers
<1>3. /\ QueueOK(m, Sources) /\ Sorted(m, Level)
      /\ Items(m) = Items(irq.sh2["MSH2"]) \cup {"NMI"}
  <2>1. QueueOK(irq.sh2["MSH2"], Sources) /\ Sorted(irq.sh2["MSH2"], Level)
    BY <1>1 DEF QueuesOK
  <2>2. Levelled(Sources, Level) /\ "NMI" \in Sources
    BY LevelNumbers DEF Sources, Level
  <2> QED
    BY ONLY <2>1, <2>2, EnqueueQueue
<1>4. queues["MSH2"] = m /\ queues["SSH2"] = <<>>
  BY DEF Cpus
<1> HIDE DEF m
<1>5. m \in Seq(Sources) /\ <<>> \in Seq(Sources) /\ <<>> \in Seq(Requests)
  BY <1>3 DEF QueueOK
<1>6. queues \in [Cpus -> Seq(Sources)]
  <2>1. \A c \in Cpus : queues[c] \in Seq(Sources)
    BY <1>5, <1>4 DEF Cpus
  <2> QED
    BY <2>1
<1>7. levels \in [DmaEnds -> DmaLevel]
  BY IdleLevel
<1> HIDE DEF queues
<1>8. /\ x \in Registers /\ x.IST = irq.IST /\ x.AIACK = FALSE /\ x.interrupts = <<>>
      /\ x.sh2 = queues /\ x.dma = levels
  BY <1>1, <1>5, <1>6, <1>7 DEF Registers
<1> HIDE DEF x
<1>9. QueuesOK(x)
  BY <1>3, <1>4, <1>8, EmptyQueue DEF QueuesOK
<1>10. DmaOK(x)
  BY <1>8, IdleLevel DEF DmaOK
<1>11. IrqOK(x)
  BY <1>8, <1>9, <1>10 DEF IrqOK, ControlOK
<1>12. Items(x.interrupts) = {} /\ Items(x.sh2["MSH2"]) = Items(irq.sh2["MSH2"]) \cup {"NMI"}
  BY <1>3, <1>4, <1>8, EmptyQueue
<1>13. Timer0Current'
  BY <1>2, <1>8, <1>12 DEF Timer0Current
<1>14. ABusOnce(irq, x)
  BY <1>8, <1>12 DEF ABusOnce
<1>15. Latch!Reset
  BY <1>2, <1>12 DEF Latch!Reset
<1> QED
  BY <1>2, <1>11, <1>13, <1>14, <1>15 DEF StepOK, Latch!Next

LEMMA NextOK ==
  ASSUME IrqOK(irq), Timer0Current, timer0_set \in BOOLEAN, Next
  PROVE  StepOK
<1>1. CASE Scanline
  BY <1>1, ScanlineOK
<1>2. CASE \E s \in Devices : Raise(s)
  BY <1>2, RaiseOK
<1>3. CASE WriteIMS
  BY <1>3, WriteIMSOK
<1>4. CASE WriteIST \/ WriteISTByte
  BY <1>4, AcknowledgeOK DEF WriteIST, WriteISTByte
<1>5. CASE WriteAIACK
  BY <1>5, WriteAIACKOK
<1>6. CASE StartDMA
  BY <1>6, StartDMAOK
<1>7. CASE SelectDMA
  BY <1>7, SelectDMAOK
<1>8. CASE WriteT0C \/ WriteT1S \/ WriteT1MD \/ StartSlave \/ (\E c \in Cpus : SetSR(c))
  <2>1. irq' = irq /\ acked' = {} /\ timer0_set' = timer0_set
    BY <1>8 DEF WriteT0C, WriteT1S, WriteT1MD, StartSlave, SetSR, timers
  <2> QED
    BY <2>1, SameIrqOK
<1>9. CASE \E c \in Cpus : Take(c)
  BY <1>9, TakeOK
<1>10. CASE StopSlave
  BY <1>10, StopSlaveOK
<1>11. CASE ClockChange
  BY <1>11, ClockChangeOK
<1> QED
  BY <1>1, <1>2, <1>3, <1>4, <1>5, <1>6, <1>7, <1>8, <1>9, <1>10, <1>11 DEF Next, Program
-------------------------------------------------------------------------------
(* The other registers, and the place in the field.                        *)
ControlTypes ==
  /\ IMS \in SUBSET Masks
  /\ I \in [Cpus -> 0 .. 15]
  /\ IsSSH2Running \in BOOLEAN
  /\ LineCount \in 0 .. MaxLineCount - 1 /\ phase \in {"line", "hblank"}
  /\ events \in 0 .. Events

IInv == TimersOK /\ ControlTypes /\ IrqOK(irq) /\ Timer0Current

LEMMA InitIrq == Init => IrqOK(irq) /\ Timer0Current
<1> SUFFICES ASSUME Init PROVE IrqOK(irq) /\ Timer0Current
  OBVIOUS
<1> DEFINE queues == [c \in Cpus |-> <<>>]
           levels == [l \in DmaEnds |-> Idle]
<1>1. irq = [IST |-> {}, AIACK |-> FALSE, interrupts |-> <<>>, sh2 |-> queues, dma |-> levels]
  BY DEF Init
<1>2. "MSH2" \in Cpus /\ "SSH2" \in Cpus
  BY DEF Cpus
<1>3. queues \in [Cpus -> Seq(Sources)] /\ queues["MSH2"] = <<>> /\ queues["SSH2"] = <<>>
  BY <1>2
<1>4. levels \in [DmaEnds -> DmaLevel] /\ \A l \in DmaEnds : levels[l] = Idle
  BY IdleLevel
<1> HIDE DEF queues, levels
<1>5. /\ irq.IST = {} /\ irq.AIACK = FALSE /\ irq.interrupts = <<>> /\ irq.sh2 = queues
      /\ irq.dma = levels /\ irq \in Registers
  BY <1>1, <1>3, <1>4 DEF Registers
<1>6. Items(irq.interrupts) = {} /\ Items(irq.sh2["MSH2"]) = {}
  BY <1>3, <1>5, EmptyQueue
<1>7. QueuesOK(irq)
  BY <1>3, <1>5, <1>6, EmptyQueue DEF QueuesOK
<1>8. DmaOK(irq)
  BY <1>4, <1>5, IdleLevel DEF DmaOK
<1>9. Timer0Current
  BY <1>5, <1>6 DEF Timer0Current
<1> QED
  BY <1>5, <1>7, <1>8, <1>9 DEF IrqOK, ControlOK

LEMMA InitTypes == Init => ControlTypes
<1> SUFFICES ASSUME Init PROVE ControlTypes
  OBVIOUS
<1>1. /\ IMS = Masks /\ I = [c \in Cpus |-> 15] /\ LineCount = 0 /\ phase = "line"
      /\ events = Events
  BY DEF Init
<1>2. IsSSH2Running \in BOOLEAN
  BY Zenon DEF Init
<1>3. I \in [Cpus -> 0 .. 15]
  BY <1>1
<1> QED
  BY <1>1, <1>2, <1>3, ScuAssumption DEF ControlTypes

(* The levels of the requests that a CPU takes fit into SR.I.              *)
LEMMA LevelNumbersFit ==
  /\ \A s \in Sources : Level[s] \in 1 .. 16
  /\ \A s \in DOMAIN SlaveLevel : SlaveLevel[s] \in 1 .. 16
BY DEF Sources, Level, SlaveLevel

LEMMA TypesStep ==
  ASSUME IrqOK(irq), ControlTypes, Next
  PROVE  ControlTypes'
<1> USE ScuAssumption
<1>1. CASE WriteIMS
  <2>1. IMS' \in SUBSET Masks
    BY <1>1 DEF WriteIMS
  <2> QED
    BY <1>1, <2>1 DEF WriteIMS, Event, ControlTypes
<1>2. CASE \/ WriteIST \/ WriteISTByte \/ WriteAIACK \/ StartDMA \/ SelectDMA
           \/ WriteT0C \/ WriteT1S \/ WriteT1MD \/ \E s \in Devices : Raise(s)
  <2>1. UNCHANGED <<IMS, I, IsSSH2Running, LineCount, phase>> /\ Event
    BY <1>2 DEF WriteIST, WriteISTByte, Acknowledge, WriteAIACK, StartDMA, SelectDMA,
                WriteT0C, WriteT1S, WriteT1MD, Raise
  <2> QED
    BY <2>1 DEF Event, ControlTypes
<1>3. CASE \E c \in Cpus : SetSR(c)
  <2>1. PICK c \in Cpus, level \in SrValues : I' = [I EXCEPT ![c] = level]
    BY <1>3 DEF SetSR
  <2>2. I' \in [Cpus -> 0 .. 15]
    BY <2>1 DEF ControlTypes
  <2> QED
    BY <1>3, <2>2 DEF SetSR, Event, ControlTypes
<1>4. CASE StartSlave
  BY <1>4 DEF StartSlave, Event, ControlTypes
<1>5. CASE StopSlave \/ ClockChange
  <2>1. I' \in [Cpus -> 0 .. 15]
    BY <1>5 DEF StopSlave, ClockChange, ControlTypes
  <2>2. IMS' \in SUBSET Masks
    BY <1>5 DEF StopSlave, ClockChange, ControlTypes
  <2>3. IsSSH2Running' \in BOOLEAN
    BY <1>5, Zenon DEF StopSlave, ClockChange
  <2>4. UNCHANGED <<LineCount, phase>> /\ Event
    BY <1>5, Zenon DEF StopSlave, ClockChange
  <2> QED
    BY <2>1, <2>2, <2>3, <2>4 DEF Event, ControlTypes
<1>6. ASSUME NEW c \in Cpus, Take(c) PROVE ControlTypes'
  <2> DEFINE q == irq.sh2[c]
             top == q[Len(q)]
             level == IF c = "SSH2" THEN SlaveLevel[top] ELSE Level[top]
  <2>1. q # <<>> /\ I' = [I EXCEPT ![c] = IF level = 16 THEN 15 ELSE level]
    BY <1>6 DEF Take
  <2>2. top \in Sources /\ (c = "SSH2" => top \in DOMAIN SlaveLevel)
    BY <2>1, TakeFacts
  <2>3. level \in 1 .. 16
    BY <2>2, LevelNumbersFit
  <2> HIDE DEF level
  <2>4. I' \in [Cpus -> 0 .. 15]
    BY <2>1, <2>3 DEF ControlTypes
  <2> QED
    BY <1>6, <2>4 DEF Take, ControlTypes
<1>7. CASE HBlankIN \/ ScuExec
  BY <1>7 DEF HBlankIN, ScuExec, ControlTypes
<1>8. CASE NextLine \/ VBlankIN \/ VBlankOUT
  <2>1. LineCount' \in 0 .. MaxLineCount - 1
    BY <1>8 DEF NextLine, VBlankIN, VBlankOUT, ControlTypes
  <2> QED
    BY <1>8, <2>1 DEF NextLine, VBlankIN, VBlankOUT, LineEnd, ControlTypes
<1> QED
  BY <1>1, <1>2, <1>3, <1>4, <1>5, <1>6, <1>7, <1>8 DEF Next, Program, Scanline

(* The invariant of the controller: its registers and timers have their    *)
(* types, its queues are in order, its DMA levels have words left while    *)
(* they run, and Timer 0 waits only for the last match.                    *)
THEOREM ControllerInvariant == Spec => []IInv
<1>1. Init => ControlTypes /\ IrqOK(irq) /\ Timer0Current
  BY InitIrq, InitTypes
<1>2. TimersOK /\ ControlTypes /\ IrqOK(irq) /\ Timer0Current /\ [Next]_vars
        => (ControlTypes /\ IrqOK(irq) /\ Timer0Current)'
  <2> SUFFICES ASSUME TimersOK, ControlTypes, IrqOK(irq), Timer0Current, [Next]_vars
               PROVE  (ControlTypes /\ IrqOK(irq) /\ Timer0Current)'
    OBVIOUS
  <2>1. CASE Next
    <3>1. timer0_set \in BOOLEAN
      BY DEF TimersOK, TimerTypes
    <3>2. StepOK
      BY <2>1, <3>1, NextOK
    <3> QED
      BY <2>1, <3>2, TypesStep DEF StepOK
  <2>2. CASE UNCHANGED vars
    <3>1. UNCHANGED <<IMS, irq, I, IsSSH2Running, timer0_set, LineCount, phase, events>>
      BY <2>2 DEF vars, timers
    <3> QED
      BY <3>1 DEF ControlTypes, Timer0Current
  <2> QED
    BY <2>1, <2>2
<1> QED
  BY <1>1, <1>2, TimersInvariant, PTL DEF Spec, IInv

LEMMA StepFacts == IInv /\ Next => StepOK
BY NextOK DEF IInv, TimersOK, TimerTypes

(* The types: no source is queued twice, so that no queue can be longer    *)
(* than there are sources.                                                 *)
THEOREM TypeCorrect == Spec => []TypeOK
<1>1. IInv => TypeOK
  <2> SUFFICES ASSUME IInv PROVE TypeOK
    OBVIOUS
  <2>1. irq \in Registers /\ QueuesOK(irq)
    BY DEF IInv, IrqOK, ControlOK
  <2>2. /\ irq.IST \in SUBSET (Sources \ {"NMI"}) /\ irq.AIACK \in BOOLEAN
        /\ irq.dma \in [DmaEnds -> DmaLevel]
    BY <2>1 DEF Registers, Requests
  <2>3. /\ QueueOK(irq.interrupts, Sources \ {"NMI"})
        /\ QueueOK(irq.sh2["MSH2"], Sources)
        /\ QueueOK(irq.sh2["SSH2"], DOMAIN SlaveLevel)
    BY <2>1 DEF QueuesOK, Requests
  <2>4. /\ T1MD \in {"off", "each", "compare"}
        /\ {T0C, timer0, timer1_counter, timer1_preset} \subseteq Nat
        /\ {timer0_set, timer1_set} \subseteq BOOLEAN
    BY DEF IInv, TimersOK, TimerTypes
  <2> QED
    BY <2>2, <2>3, <2>4 DEF IInv, ControlTypes, TypeOK
<1> QED
  BY <1>1, ControllerInvariant, PTL

(* interrupts[30] of the SCU and interrupts[MAX_INTERRUPTS] of the CPUs    *)
(* (scu.h:132, sh2core.h:52) hold the queues, however long the program     *)
(* leaves requests pending, and have room left for the fourteen A-bus      *)
(* requests beside External00 and External12.                              *)
QueuesFit ==
  /\ Len(irq.interrupts) <= 30 - 14
  /\ \A c \in Cpus : Len(irq.sh2[c]) <= 50 - 14

(* No array of requests overflows.                                         *)
THEOREM NoQueueOverflows == Spec => []QueuesFit
<1>1. TypeOK => QueuesFit
  <2> SUFFICES ASSUME TypeOK PROVE QueuesFit
    OBVIOUS
  <2>1. /\ QueueOK(irq.interrupts, Sources) /\ QueueOK(irq.sh2["MSH2"], Sources)
        /\ QueueOK(irq.sh2["SSH2"], Sources)
    BY LevelNumbers DEF TypeOK, QueueOK, Requests
  <2>2. \A q : QueueOK(q, Sources) => Len(q) \in Nat /\ Len(q) <= 16
    BY QueueFits DEF QueueOK
  <2>3. /\ Len(irq.interrupts) \in Nat /\ Len(irq.interrupts) <= 16
        /\ Len(irq.sh2["MSH2"]) \in Nat /\ Len(irq.sh2["MSH2"]) <= 16
        /\ Len(irq.sh2["SSH2"]) \in Nat /\ Len(irq.sh2["SSH2"]) <= 16
    BY <2>1, <2>2
  <2>4. \A c \in Cpus : Len(irq.sh2[c]) \in Nat /\ Len(irq.sh2[c]) <= 16
    BY <2>3 DEF Cpus
  <2> QED
    BY <2>3, <2>4 DEF QueuesFit
<1> QED
  BY <1>1, TypeCorrect, PTL

(* The queues: the most urgent request is at the end of each.              *)
THEOREM QueuesAreSorted == Spec => []MostUrgentLast
<1>1. IInv => MostUrgentLast
  BY DEF IInv, IrqOK, ControlOK, QueuesOK, MostUrgentLast
<1> QED
  BY <1>1, ControllerInvariant, PTL

(* An A-bus request that was acknowledged is not in the queue any more.    *)
THEOREM QueuedAreLatched == Spec => []ABusQueuedIsLatched
<1>1. IInv => ABusQueuedIsLatched
  BY DEF IInv, IrqOK, ControlOK, QueuesOK, ABusQueuedIsLatched
<1> QED
  BY <1>1, ControllerInvariant, PTL

(* A request of Timer 0 does not outlive its line.                         *)
THEOREM Timer0IsCurrent == Spec => []Timer0Current
<1>1. IInv => Timer0Current
  BY DEF IInv
<1> QED
  BY <1>1, ControllerInvariant, PTL

(* One A-bus request per AIACK.                                            *)
THEOREM OneABusRequest == Spec => ABusOncePerAck
<1>1. IInv /\ [Next]_vars => [ABusOnce(irq, irq')]_vars
  BY StepFacts DEF StepOK
<1> QED
  BY <1>1, ControllerInvariant, PTL DEF Spec, ABusOncePerAck

(* No transfer of the DMA ends untold, and no end is told that was none.   *)
THEOREM TransfersAreTold == Spec => TransfersTold
<1>1. IInv /\ [Next]_vars
        => [~ClockChange => \A l \in DmaEnds : OverIsTold(irq, irq', l)]_vars
  BY StepFacts DEF StepOK
<1> QED
  BY <1>1, ControllerInvariant, PTL DEF Spec, TransfersTold

(* The controller implements the latch: each of its steps is one of the    *)
(* latch, as the master sees it.                                           *)
THEOREM ImplementsTheLatch == Spec => LatchSpec
<1>1. Init => Latch!Init
  <2> SUFFICES ASSUME Init PROVE Latch!Init
    OBVIOUS
  <2>1. irq.interrupts = <<>> /\ irq.sh2["MSH2"] = <<>> /\ acked = {}
    BY DEF Init, Cpus
  <2> QED
    BY <2>1, EmptyQueue DEF Latch!Init
<1>2. IInv /\ [Next]_vars => [Latch!Next]_(Latch!vars)
  <2>1. UNCHANGED vars => UNCHANGED Latch!vars
    BY DEF vars, Latch!vars
  <2> QED
    BY <2>1, StepFacts DEF StepOK
<1> QED
  BY <1>1, <1>2, ControllerInvariant, PTL DEF Spec, LatchSpec, Latch!Spec

(* A write of IMS or AIACK serves a most urgent request of those it opens. *)
MostUrgentServed ==
  [][/\ WriteIMS => ServesMostUrgent(irq, irq', IMS')
     /\ WriteAIACK => \E armed \in BOOLEAN :
          LET written == [irq EXCEPT !.AIACK = armed]
          IN  irq' = TestInterruptMask(written, IMS) /\ ServesMostUrgent(written, irq', IMS)]_vars

(* ScuTestInterruptMask looks at the requests in their order: no open      *)
(* request is passed over for a less urgent one.                           *)
THEOREM WritesServeTheMostUrgent == Spec => MostUrgentServed
<1> DEFINE Served == \E armed \in BOOLEAN :
             LET written == [irq EXCEPT !.AIACK = armed]
             IN  irq' = TestInterruptMask(written, IMS) /\ ServesMostUrgent(written, irq', IMS)
<1>1. ASSUME IInv, WriteIMS PROVE ServesMostUrgent(irq, irq', IMS')
  <2>1. irq' = TestInterruptMask(irq, IMS') /\ ControlOK(irq)
    BY <1>1 DEF WriteIMS, IInv, IrqOK
  <2> QED
    BY <2>1, TestFacts
<1>2. ASSUME IInv, WriteAIACK PROVE Served
  <2>1. PICK armed \in BOOLEAN : irq' = TestInterruptMask([irq EXCEPT !.AIACK = armed], IMS)
    BY <1>2 DEF WriteAIACK
  <2> DEFINE y == [irq EXCEPT !.AIACK = armed]
  <2>2. irq \in Registers /\ QueuesOK(irq)
    BY <1>2 DEF IInv, IrqOK, ControlOK
  <2>3. y \in Registers /\ y.IST = irq.IST /\ y.sh2 = irq.sh2 /\ y.interrupts = irq.interrupts
    BY <2>2 DEF Registers
  <2>4. irq' = TestInterruptMask(y, IMS)
    BY <2>1
  <2>5. y = [irq EXCEPT !.AIACK = armed]
    OBVIOUS
  <2> HIDE DEF y
  <2>6. ControlOK(y)
    BY <2>2, <2>3 DEF ControlOK, QueuesOK
  <2>7. ServesMostUrgent(y, irq', IMS)
    BY <2>4, <2>6, TestFacts
  <2> QED
    BY <2>4, <2>5, <2>7
<1>3. IInv /\ [Next]_vars
        => [(WriteIMS => ServesMostUrgent(irq, irq', IMS')) /\ (WriteAIACK => Served)]_vars
  BY <1>1, <1>2
<1> QED
  BY <1>3, ControllerInvariant, PTL DEF Spec, MostUrgentServed

(* What remains of "delivers on IMS/AIACK writes" (scu.c:3302): a write    *)
(* that unmasks or arms the A-bus leaves a request of it only behind one   *)
(* that is at least as urgent and goes to the master with the same write.  *)
ABusLeftBehind(r, x) ==
  \A s \in ABus \cap Items(x.interrupts) :
    \E t \in Items(r.interrupts) \ Items(x.interrupts) :
      t \in Items(x.sh2["MSH2"]) /\ Level[s] <= Level[t]

ABusWaitsBehind ==
  [][(WriteIMS \/ WriteAIACK) /\ "ABus" \notin IMS' /\ irq'.AIACK
       => ABusLeftBehind(irq, irq')]_vars

(* A CD request waits for a later write only behind a more urgent one.     *)
THEOREM ABusWaitsOnlyBehind == Spec => ABusWaitsBehind
<1>1. ASSUME NEW r, NEW x, NEW mask, Items(x.interrupts) \subseteq Items(r.interrupts),
             "ABus" \notin mask, r.AIACK, ServesMostUrgent(r, x, mask)
      PROVE  ABusLeftBehind(r, x)
  <2> SUFFICES ASSUME NEW s \in ABus \cap Items(x.interrupts)
               PROVE  \E t \in Items(r.interrupts) \ Items(x.interrupts) :
                        t \in Items(x.sh2["MSH2"]) /\ Level[s] <= Level[t]
    BY DEF ABusLeftBehind
  <2>1. s \in Open(r, mask)
    BY <1>1 DEF Open, MaskOf
  <2>2. Open(r, mask) \subseteq Items(r.interrupts)
    BY DEF Open
  <2> QED
    BY <1>1, <2>1, <2>2 DEF ServesMostUrgent
<1>2. ASSUME IInv, WriteIMS, "ABus" \notin IMS', irq'.AIACK
      PROVE  ABusLeftBehind(irq, irq')
  <2>1. irq' = TestInterruptMask(irq, IMS') /\ ControlOK(irq)
    BY <1>2 DEF WriteIMS, IInv, IrqOK
  <2> DEFINE x == TestInterruptMask(irq, IMS')
  <2>2. /\ \E sent \in SUBSET Items(irq.interrupts) : Delivers(irq, x, sent)
        /\ ServesMostUrgent(irq, x, IMS')
    BY ONLY <2>1, TestFacts
  <2>3. x = irq'
    BY <2>1
  <2> HIDE DEF x
  <2>4. irq.AIACK /\ Items(irq'.interrupts) \subseteq Items(irq.interrupts)
    BY <1>2, <2>2, <2>3 DEF Delivers
  <2>5. ServesMostUrgent(irq, irq', IMS')
    BY <2>2, <2>3
  <2> QED
    BY <1>1, <1>2, <2>4, <2>5
<1>3. ASSUME IInv, WriteAIACK, "ABus" \notin IMS', irq'.AIACK
      PROVE  ABusLeftBehind(irq, irq')
  <2>1. PICK armed \in BOOLEAN : irq' = TestInterruptMask([irq EXCEPT !.AIACK = armed], IMS)
    BY <1>3 DEF WriteAIACK
  <2> DEFINE y == [irq EXCEPT !.AIACK = armed]
  <2>2. irq \in Registers /\ QueuesOK(irq)
    BY <1>3 DEF IInv, IrqOK, ControlOK
  <2>3. /\ y \in Registers /\ y.AIACK = armed /\ y.IST = irq.IST /\ y.sh2 = irq.sh2
        /\ y.interrupts = irq.interrupts
    BY <2>2 DEF Registers
  <2>4. irq' = TestInterruptMask(y, IMS) /\ IMS' = IMS
    BY <1>3, <2>1 DEF WriteAIACK
  <2> HIDE DEF y
  <2>5. ControlOK(y)
    BY <2>2, <2>3 DEF ControlOK, QueuesOK
  <2> DEFINE x == TestInterruptMask(y, IMS)
  <2>6. /\ \E sent \in SUBSET Items(y.interrupts) : Delivers(y, x, sent)
        /\ ServesMostUrgent(y, x, IMS)
    BY ONLY <2>5, TestFacts
  <2>7. x = irq'
    BY <2>4
  <2> HIDE DEF x
  <2>8. y.AIACK /\ Items(irq'.interrupts) \subseteq Items(y.interrupts)
    BY <1>3, <2>6, <2>7 DEF Delivers
  <2>9. ABusLeftBehind(y, irq')
    <3>1. ServesMostUrgent(y, irq', IMS) /\ "ABus" \notin IMS
      BY <1>3, <2>4, <2>6, <2>7
    <3> QED
      BY <1>1, <2>8, <3>1
  <2> QED
    BY <2>3, <2>9 DEF ABusLeftBehind
<1>4. IInv /\ [Next]_vars
        => [(WriteIMS \/ WriteAIACK) /\ "ABus" \notin IMS' /\ irq'.AIACK
              => ABusLeftBehind(irq, irq')]_vars
  BY <1>2, <1>3
<1> QED
  BY <1>4, ControllerInvariant, PTL DEF Spec, ABusWaitsBehind
===============================================================================
