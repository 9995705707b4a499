---------------------------------- MODULE Scu ----------------------------------
(***************************************************************************)
(* The interrupt controller of the SCU and the interrupt queues of the two *)
(* SH-2 interpreters: how a request gets from a device through IMS, IST    *)
(* and AIACK to a CPU.  The two timers are modelled with it, they are the  *)
(* sources that withdraw requests; so are the DMA levels of ScuDma, which  *)
(* requests start and which raise some at their end.  The DSP is a device  *)
(* here that may raise its interrupt at any time.                          *)
(*                                                                         *)
(* A scanline has two phases: "line" until Vdp2HBlankIN, "hblank" from     *)
(* there to its end.  The programs on the CPUs and the devices step at any *)
(* point of both.                                                          *)
(***************************************************************************)
EXTENDS ScuDma

Periodic == {"VBlankIN", "VBlankOUT", "HBlankIN", "Timer0", "Timer1"}

CONSTANTS
  Devices,           \* the other sources that may raise in a run
  ImsValues,         \* IMS values the program writes, as sets of masked bits
  IstValues,         \* ... and IST values, as the sets of bits it leaves set
  SrValues,          \* SR.I values of the programs
  T0Values, T1Values,\* T0C and T1S values
  MaxLineCount, VBlankLineCount,
  Events             \* bound: writes and device requests in a behaviour

ASSUME ScuAssumption ==
  /\ Devices \subseteq Sources \ (Periodic \cup Transferred \cup {"NMI"})
  /\ ImsValues \subseteq SUBSET Masks
  /\ IstValues \subseteq SUBSET (Sources \ {"NMI"})
  /\ SrValues \subseteq 0 .. 15
  /\ T0Values \subseteq Nat /\ T1Values \subseteq Nat
  /\ MaxLineCount \in Nat /\ VBlankLineCount \in 1 .. MaxLineCount - 1
  /\ Events \in Nat

VARIABLES
  irq,               \* what a chain of handlers changes: IST, AIACK, the SCU's
                     \* queue and the queues of the CPUs, by rising level, and
                     \* the DMA levels
  T1MD, T0C, timer0, timer0_set, timer1_set, timer1_counter, timer1_preset,
  LineCount, phase,
  events,
  \* history
  acked,             \* IST bits cleared by the program in this step
  timer1Raised,      \* Timer 1 requests of the field, up to 2
  compareFixed       \* T0C and T1MD were not written in the field

timers == <<T1MD, T0C, timer0, timer0_set, timer1_set, timer1_counter, timer1_preset>>
vars == <<IMS, irq, I, IsSSH2Running, timers, LineCount, phase, events, acked,
          timer1Raised, compareFixed>>

-------------------------------------------------------------------------------
Init ==
  /\ IMS = Masks
  /\ irq = [IST |-> {}, AIACK |-> FALSE, interrupts |-> <<>>,
            sh2 |-> [c \in Cpus |-> <<>>], dma |-> [l \in DmaEnds |-> Idle]]
  /\ I = [c \in Cpus |-> 15]
  /\ IsSSH2Running = FALSE
  /\ T1MD = "off" /\ T0C = 0 /\ timer0 = 0 /\ timer0_set = FALSE
  /\ timer1_set = FALSE /\ timer1_counter = 0 /\ timer1_preset = 0
  /\ LineCount = 0 /\ phase = "line"
  /\ events = Events
  /\ acked = {} /\ timer1Raised = 0 /\ compareFixed = FALSE

Event == events > 0 /\ events' = events - 1

(* A device that has no part in the scanlines; for the sound request and   *)
(* the draw-end the DMA levels that wait for them start.                   *)
Raise(s) ==
  /\ Event
  /\ irq' = SendAndStart(irq, s)
  /\ acked' = {}
  /\ UNCHANGED <<IMS, I, IsSSH2Running, timers, LineCount, phase, timer1Raised, compareFixed>>

WriteIMS ==
  /\ Event
  /\ IMS' \in ImsValues
  /\ irq' = TestInterruptMask(irq, IMS')
  /\ acked' = {}
  /\ UNCHANGED <<I, IsSSH2Running, timers, LineCount, phase, timer1Raised, compareFixed>>

(* IST is written with the bits of kept set. *)
Acknowledge(kept) ==
  /\ Event
  /\ LET r == RemoveInterruptByCPU(irq, kept) IN
     irq' = TestInterruptMask([r EXCEPT !.IST = @ \cap kept], IMS)
  /\ acked' = irq.IST \ kept
  /\ UNCHANGED <<IMS, I, IsSSH2Running, timers, LineCount, phase, timer1Raised, compareFixed>>

WriteIST == \E kept \in IstValues : Acknowledge(kept)

WriteISTByte == \E kept \in IstValues : Acknowledge(kept \cup (Sources \ LowByte))

WriteAIACK ==
  /\ Event
  /\ \E armed \in BOOLEAN : irq' = TestInterruptMask([irq EXCEPT !.AIACK = armed], IMS)
  /\ acked' = {}
  /\ UNCHANGED <<IMS, I, IsSSH2Running, timers, LineCount, phase, timer1Raised, compareFixed>>

(* A write of DxEN that starts a transfer of a level. *)
StartDMA ==
  /\ Event
  /\ \E l \in Levels, t \in Transfers : irq' = StartByWrite(irq, l, t)
  /\ acked' = {}
  /\ UNCHANGED <<IMS, I, IsSSH2Running, timers, LineCount, phase, timer1Raised, compareFixed>>

(* Writes of DxEN, DxMD and the other registers of a level, after which it *)
(* waits for a start factor or for none.                                   *)
SelectDMA ==
  /\ Event
  /\ \E l \in Levels, f \in Factors \cup {"none"}, t \in Transfers :
       irq' = Select(irq, l, f, t)
  /\ acked' = {}
  /\ UNCHANGED <<IMS, I, IsSSH2Running, timers, LineCount, phase, timer1Raised, compareFixed>>

WriteT0C ==
  /\ Event
  /\ T0C' \in T0Values
  /\ compareFixed' = FALSE
  /\ acked' = {}
  /\ UNCHANGED <<IMS, irq, I, IsSSH2Running, T1MD, timer0, timer0_set, timer1_set,
                 timer1_counter, timer1_preset, LineCount, phase, timer1Raised>>

WriteT1S ==
  /\ Event
  /\ timer1_preset' \in T1Values
  /\ timer1_set' = TRUE
  /\ acked' = {}
  /\ UNCHANGED <<IMS, irq, I, IsSSH2Running, T1MD, T0C, timer0, timer0_set,
                 timer1_counter, LineCount, phase, timer1Raised, compareFixed>>

(* Timers off, Timer 1 on each line, Timer 1 on the line of the compare. *)
WriteT1MD ==
  /\ Event
  /\ T1MD' \in {"off", "each", "compare"}
  /\ compareFixed' = FALSE
  /\ acked' = {}
  /\ UNCHANGED <<IMS, irq, I, IsSSH2Running, T0C, timer0, timer0_set, timer1_set,
                 timer1_counter, timer1_preset, LineCount, phase, timer1Raised>>

(* SH2HandleInterrupts. *)
Take(c) ==
  /\ irq.sh2[c] # <<>>
  /\ LET q     == irq.sh2[c]
         top   == q[Len(q)]
         level == IF c = "SSH2" THEN SlaveLevel[top] ELSE Level[top] IN
     /\ level > I[c]
     /\ I' = [I EXCEPT ![c] = IF level = 16 THEN 15 ELSE level]
     /\ irq' = [irq EXCEPT !.sh2[c] = SubSeq(q, 1, Len(q) - 1)]
  /\ acked' = {}
  /\ UNCHANGED <<IMS, IsSSH2Running, timers, LineCount, phase, events,
                 timer1Raised, compareFixed>>

(* LDC SR, LDC.L SR, RTE. *)
SetSR(c) ==
  /\ Event
  /\ c = "SSH2" => IsSSH2Running
  /\ \E level \in SrValues : I' = [I EXCEPT ![c] = level]
  /\ acked' = {}
  /\ UNCHANGED <<IMS, irq, IsSSH2Running, timers, LineCount, phase,
                 timer1Raised, compareFixed>>

(* SMPC commands: slave on and off, and a clock change, which resets the   *)
(* SCU (IST is left alone), stops the slave and sends the NMI.             *)
StartSlave ==
  /\ Event
  /\ ~IsSSH2Running /\ IsSSH2Running' = TRUE
  /\ acked' = {}
  /\ UNCHANGED <<IMS, irq, I, timers, LineCount, phase, timer1Raised, compareFixed>>

StopSlave ==
  /\ Event
  /\ IsSSH2Running' = FALSE
  /\ irq' = [irq EXCEPT !.sh2["SSH2"] = <<>>]
  /\ I' = [I EXCEPT !["SSH2"] = 15]
  /\ acked' = {}
  /\ UNCHANGED <<IMS, timers, LineCount, phase, timer1Raised, compareFixed>>

ClockChange ==
  /\ Event
  /\ IMS' = Masks
  /\ irq' = [irq EXCEPT !.AIACK = FALSE, !.interrupts = <<>>,
               !.sh2 = [c \in Cpus |-> IF c = "MSH2" THEN Enqueue(@[c], "NMI", Level) ELSE <<>>],
               !.dma = [l \in DmaEnds |-> Idle]]
  /\ I' = [I EXCEPT !["SSH2"] = 15]
  /\ IsSSH2Running' = FALSE
  /\ T1MD' = "off" /\ timer0' = 0
  /\ compareFixed' = FALSE
  /\ acked' = {}
  /\ UNCHANGED <<T0C, timer0_set, timer1_set, timer1_counter, timer1_preset,
                 LineCount, phase, timer1Raised>>
-------------------------------------------------------------------------------
Timer1Runs ==
  /\ T1MD = "each" \/ (T1MD = "compare" /\ (LineCount = T0C \/ T0C > 500))
  /\ timer1_counter > 0

(* Each of the ten calls in a line: a running Timer 1 counts, and may      *)
(* expire, and the DMA levels go on.                                       *)
ScuExec ==
  /\ Timer1Runs \/ \E l \in DmaEnds : Busy(irq.dma[l])
  /\ LET counter == IF Timer1Runs THEN timer1_counter - 1 ELSE timer1_counter
         expired == Timer1Runs /\ counter = 0
         sends   == expired /\ (T1MD = "each" \/ timer0_set)
         timed   == IF sends THEN SendAndStart(irq, "Timer1") ELSE irq IN
     /\ timer1_counter' = counter
     /\ timer1_set' = (timer1_set \/ expired)
     /\ irq' = ScuDmaProc(timed, ExecWords)
     /\ timer1Raised' = IF sends /\ timer1Raised < 2 THEN timer1Raised + 1 ELSE timer1Raised
  /\ acked' = {}
  /\ UNCHANGED <<IMS, I, IsSSH2Running, T1MD, T0C, timer0, timer0_set, timer1_preset,
                 LineCount, phase, events, compareFixed>>

(* Mutant: the match of an earlier line stays. *)
Timer0MatchKept(r, count, on) ==
  IF on /\ count = T0C THEN <<SendAndStart(r, "Timer0"), TRUE>> ELSE <<r, timer0_set>>

(* The compare of Timer 0 with its new count: the request and timer0_set.  *)
Timer0Match(r, count, on) ==
  IF ~on THEN <<r, timer0_set>>
  ELSE IF count = T0C THEN <<SendAndStart(r, "Timer0"), TRUE>>
  ELSE <<RemoveTimer(r, "Timer0"), FALSE>>

(* ScuSendHBlankIN, on the lines of the display. *)
HBlankIN ==
  /\ phase = "line" /\ phase' = "hblank"
  /\ IF LineCount >= VBlankLineCount
     THEN UNCHANGED <<irq, timer0, timer0_set, timer1_set, timer1_counter>>
     ELSE LET on     == T1MD # "off"
              match  == Timer0Match(SendInterrupt(irq, "HBlankIN"), timer0 + 1, on)
              reload == on /\ timer1_set IN
          /\ timer0' = timer0 + 1
          /\ timer0_set' = match[2]
          /\ irq' = ScuChekIntrruptDMA(IF reload THEN RemoveTimer(match[1], "Timer1") ELSE match[1],
                                       "HBlankIN")
          /\ timer1_set' = (timer1_set /\ ~reload)
          /\ timer1_counter' = IF reload THEN timer1_preset ELSE timer1_counter
  /\ acked' = {}
  /\ UNCHANGED <<IMS, I, IsSSH2Running, T1MD, T0C, timer1_preset, LineCount,
                 events, timer1Raised, compareFixed>>

(* ScuRemoveHBlankIN in Vdp2HBlankOUT, then the line counter. *)
LineEnd ==
  /\ phase = "hblank" /\ phase' = "line"
  /\ acked' = {}
  /\ UNCHANGED <<IMS, I, IsSSH2Running, T1MD, T0C, timer1_set, timer1_counter,
                 timer1_preset, events>>

AfterHBlank ==
  IF LineCount < VBlankLineCount THEN Retract(irq, "HBlankIN", Cpus) ELSE irq

NextLine ==
  /\ LineEnd
  /\ LineCount + 1 \notin {VBlankLineCount, MaxLineCount}
  /\ LineCount' = LineCount + 1
  /\ irq' = AfterHBlank
  /\ UNCHANGED <<timer0, timer0_set, timer1Raised, compareFixed>>

(* ScuSendVBlankIN. *)
VBlankIN ==
  /\ LineEnd
  /\ LineCount + 1 = VBlankLineCount
  /\ LineCount' = LineCount + 1
  /\ irq' = SendAndStart(RemoveTimer(AfterHBlank, "Timer0"), "VBlankIN")
  /\ UNCHANGED <<timer0, timer0_set, timer1Raised, compareFixed>>

(* ScuSendVBlankOUT: a VBlank-IN that no CPU took is withdrawn. *)
VBlankOUT ==
  /\ LineEnd
  /\ LineCount + 1 = MaxLineCount
  /\ LineCount' = 0
  /\ LET sent  == Retract(SendInterrupt(AfterHBlank, "VBlankOUT"), "VBlankIN", Cpus)
         match == Timer0Match(RemoveTimer(RemoveTimer(sent, "Timer0"), "Timer1"),
                              0, T1MD # "off") IN
     /\ irq' = ScuChekIntrruptDMA(match[1], "VBlankOUT")
     /\ timer0_set' = match[2]
  /\ timer0' = 0
  /\ timer1Raised' = 0 /\ compareFixed' = TRUE
-------------------------------------------------------------------------------
Program == \/ WriteIMS \/ WriteIST \/ WriteISTByte \/ WriteAIACK
           \/ WriteT0C \/ WriteT1S \/ WriteT1MD \/ StartDMA \/ SelectDMA
           \/ StartSlave \/ StopSlave \/ ClockChange
           \/ \E c \in Cpus : Take(c) \/ SetSR(c)

Scanline == HBlankIN \/ NextLine \/ VBlankIN \/ VBlankOUT \/ ScuExec

Next == Program \/ Scanline \/ \E s \in Devices : Raise(s)

Spec == Init /\ [][Next]_vars
-------------------------------------------------------------------------------
(* The registers and queues keep their form.  A source is queued at most   *)
(* once, so that the arrays of 30 and 50 entries never overflow, however   *)
(* long the program leaves requests pending.                               *)
TypeOK ==
  /\ IMS \in SUBSET Masks
  /\ irq.IST \in SUBSET (Sources \ {"NMI"}) /\ irq.AIACK \in BOOLEAN
  /\ irq.dma \in [DmaEnds -> DmaLevel]
  /\ QueueOK(irq.interrupts, Sources \ {"NMI"})
  /\ QueueOK(irq.sh2["MSH2"], Sources)
  /\ QueueOK(irq.sh2["SSH2"], DOMAIN SlaveLevel)
  /\ I \in [Cpus -> 0 .. 15]
  /\ IsSSH2Running \in BOOLEAN
  /\ T1MD \in {"off", "each", "compare"}
  /\ {T0C, timer0, timer1_counter, timer1_preset} \subseteq Nat
  /\ {timer0_set, timer1_set} \subseteq BOOLEAN
  /\ LineCount \in 0 .. MaxLineCount - 1 /\ phase \in {"line", "hblank"}
  /\ events \in 0 .. Events

(* ScuTestInterruptMask and the CPUs look at the end of their queues: the  *)
(* most urgent request is there, after every insertion and removal.        *)
MostUrgentLast ==
  /\ Sorted(irq.interrupts, Level)
  /\ Sorted(irq.sh2["MSH2"], Level)
  /\ Sorted(irq.sh2["SSH2"], SlaveLevel)

(* A queued A-bus request still has its IST bit: what the CD driver        *)
(* acknowledged is not delivered to it later (ScuTestInterruptMask does    *)
(* not look at IST for the A-bus).                                         *)
ABusQueuedIsLatched ==
  \A s \in ABus \cap Items(irq.interrupts) : s \in irq.IST

ABusOnce(r, x) ==
  LET new == (Items(x.sh2["MSH2"]) \ Items(r.sh2["MSH2"])) \cap ABus IN
  /\ \A s, t \in new : s = t
  /\ new # {} => ~x.AIACK

(* One A-bus request per AIACK: no step asserts two, and the one it        *)
(* asserts disarms AIACK unless the same write armed it.                   *)
ABusOncePerAck == [][ABusOnce(irq, irq')]_vars

(* "Mode 1 raises it only on the line selected by the Timer 0 compare      *)
(* register, i.e. once per frame" (scu.c:1056), as long as the program     *)
(* does not move the line.                                                 *)
Timer1OncePerField ==
  compareFixed /\ T1MD = "compare" => timer1Raised <= 1

(* A Timer 0 request that waits anywhere belongs to the last match: a later *)
(* line, VBlank-IN and VBlank-OUT withdraw it from IST, queue and CPU.     *)
Timer0Current ==
  (\/ "Timer0" \in irq.IST
   \/ "Timer0" \in Items(irq.interrupts)
   \/ "Timer0" \in Items(irq.sh2["MSH2"])) => timer0_set

OverIsTold(r, x, l) ==
  LET before == r.dma[l]
      after  == x.dma[l]
      over   == Busy(before) /\ (before.run # after.run \/ ~Busy(after))
      told   == IF before.then = "illegal" THEN "DMAIllegal" ELSE l
  IN /\ over => told \in Told(x)
     /\ l \in Told(x) \ Told(r) => over \/ before.run # after.run

(* A DMA transfer that is under way is told to the master when it is not   *)
(* any more, also when another transfer of its level replaces it; the      *)
(* interrupt of a level comes only from a transfer of that level.          *)
TransfersTold == [][~ClockChange => \A l \in DmaEnds : OverIsTold(irq, irq', l)]_vars

(* The controller implements the latch of requests, as seen by the master. *)
Latch == INSTANCE InterruptLatch WITH
           Withdrawn <- Periodic \ {"VBlankOUT"},
           Transferred <- Transferred,
           NMI <- "NMI",
           latched <- Items(irq.interrupts),
           asserted <- Items(irq.sh2["MSH2"])

LatchSpec == Latch!Spec
-------------------------------------------------------------------------------
(* "latch: ScuTestInterruptMask() delivers on IMS/AIACK writes"            *)
(* (scu.c:3302): no A-bus request is left in the queue by a write after    *)
(* which the A-bus is unmasked and AIACK armed.                            *)
ABusDeliveredOnWrite ==
  [][WriteIMS \/ WriteAIACK =>
       ~(/\ "ABus" \notin IMS' /\ irq'.AIACK
         /\ ABus \cap Items(irq'.interrupts) # {})]_vars
===============================================================================
