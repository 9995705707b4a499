--------------------------------- MODULE Vdp1 ---------------------------------
(***************************************************************************)
(* The VDP1 draw pipeline in the configuration the port builds: the        *)
(* software renderer, rendering inline on the emulation thread.            *)
(*                                                                         *)
(* The CPU edits the command list and the VDP1 registers during a line     *)
(* (pc = "cpu").  A line ends with Vdp2HBlankOUT, which may run the field  *)
(* (frame change, erase, frame-change plot), polls the scheduled draw-end  *)
(* and gives a running list its budget for the line; then the main loop    *)
(* moves to the next line.  Vdp1DrawCommands is called from three places   *)
(* (the plot trigger, the field, the line end); site says which call pc    *)
(* is inside.  Every step with pc # "cpu" runs to completion before the    *)
(* CPU resumes.                                                            *)
(***************************************************************************)
EXTENDS Integers

CONSTANTS
  Slots,             \* number of command slots of the VDP1 RAM
  Commands,          \* the commands a slot may hold
  RamWrites,         \* <<slot, command>> pairs the CPU may write
  RamImages,         \* command lists the RAM may hold at power-on
  TerminatorSlot,    \* the slot at 0x40000 where Vdp1Reset puts an END
  EndCommand,        \* the END command it puts there
  FbcrValues, PtmrValues,
  PowerOnEDSR,       \* what EDSR may hold at power-on: Vdp1Init clears the size
                     \* of a pointer, not of the registers
  MaxLineCount,      \* lines of a field: 263 (NTSC), 313 (PAL)
  VBlankLineCounts,  \* first line of VBlank: 225, 241 or 257, from TVMD
  ResetVBlankLineCount, \* the one Vdp2Reset chooses: 225
  MAX_LINES,         \* cap of the draw-time estimate: 50
  DRAW_END_FLOOR,    \* least delay of a plot that outlives VBlank: 45
  POLL_AGAIN,        \* delay of a draw-end that finds the list running: 10
  CYCLES_PER_LINE,   \* VDP1_SOFT_CYCLES_PER_LINE: 100
  CYCLES_PER_COMMAND,\* VDP1_SOFT_CYCLES_PER_COMMAND: 10
  CpuWrites,         \* bound: CPU writes in a behaviour
  NoAddr             \* 0xffffffff

Addr == 0 .. Slots - 1

ASSUME LinesAssumption ==
  /\ MaxLineCount \in Nat
  /\ ResetVBlankLineCount \in VBlankLineCounts
  /\ VBlankLineCounts \subseteq 2 .. MaxLineCount - 1
  /\ MAX_LINES \in Nat
  /\ DRAW_END_FLOOR \in Nat \ {0}
  /\ POLL_AGAIN \in Nat
  /\ CYCLES_PER_LINE \in Nat \ {0}
  /\ CYCLES_PER_COMMAND \in Nat \ {0}
  /\ CpuWrites \in Nat

ASSUME RamAssumption ==
  /\ Slots \in Nat \ {0}
  /\ NoAddr \notin Nat
  /\ Commands \subseteq [op : {"draw", "skip", "bad", "end"},
                         jump : {"next", "assign", "call", "return"},
                         link : Addr]
  /\ RamWrites \subseteq Addr \X Commands
  /\ RamImages \subseteq [Addr -> Commands]
  /\ TerminatorSlot \in Addr
  /\ EndCommand \in Commands
  /\ EndCommand.op = "end"
  /\ FbcrValues \subseteq 0 .. 3
  /\ PtmrValues \subseteq 0 .. 2
  /\ PowerOnEDSR \subseteq Nat

VARIABLES
  pc, site,
  ram,
  \* registers
  PTMR, FBCR, VBE, EDSR,
  addr, status,
  \* Vdp1DrawCommands: its local, the static kept between chunks, the budget
  returnAddr, softReturnAddr, softBudget,
  \* Vdp1External and the software renderer
  manualchange, manualerase, vblankErase, deferredErase,
  dirty,             \* dirty[b]: buffer b holds pixels drawn since its erase
  \* the line scheduler
  lineCount, vblankLineCount, waitLineCount,
  clockRan,          \* vdp1_clock > 0: no VDP1 RAM write since the last line
  frameRenderFlg,
  \* bound and history
  writesLeft,
  owed,              \* a plot was started and its draw-end is not sent yet
  lost,              \* a clock change dropped the draw-end of the last plot and
                     \* no field has scheduled it again
  stray,             \* what the starts have left in EDSR of its power-on contents
  plotReturn,        \* softReturnAddr when the current list was (re)started
  edited             \* the RAM was written since then

walkVars == <<addr, status, returnAddr, softReturnAddr, softBudget>>
regVars  == <<PTMR, FBCR, VBE>>
extVars  == <<manualchange, manualerase, vblankErase, deferredErase, dirty>>
lineVars == <<lineCount, vblankLineCount, frameRenderFlg>>
histVars == <<plotReturn, edited>>
endFlags == <<EDSR, stray>>
jobVars  == <<owed, lost>>
vars == <<pc, site, ram, regVars, endFlags, walkVars, extVars, lineVars,
          waitLineCount, clockRan, writesLeft, jobVars, histVars>>
-------------------------------------------------------------------------------
Fetch(a) == ram[a % Slots]

IsEnd(a) == Fetch(a).op = "end"

(* The CMDLINK of a command past the end of the RAM is read out of bounds. *)
Links(a) == IF a < Slots THEN {ram[a].link} ELSE Addr

(* Where the walker goes after the command at a with return address r.     *)
(* One call level: CALL keeps an address already held, RETURN without one  *)
(* falls through.                                                          *)
After(a, r) ==
  LET jump == Fetch(a).jump IN
  CASE jump = "next"   -> {<<a + 1, r>>}
    [] jump = "assign" -> {<<l, r>> : l \in Links(a)}
    [] jump = "call"   -> {<<l, IF r = NoAddr THEN a + 1 ELSE r>> : l \in Links(a)}
    [] jump = "return" -> IF r = NoAddr THEN {<<a + 1, r>>} ELSE {<<r, NoAddr>>}

(* Vdp1EstimateDrawLines: texel areas decide the estimate, except that a   *)
(* list whose first command is END costs nothing.                          *)
EstimateDrawLines ==
  IF IsEnd(IF status = "IDLE" THEN 0 ELSE addr) THEN {0} ELSE 0 .. MAX_LINES

(* EDSR bit 1, "current end flag", and EDSR |= 2: neither it nor the shift *)
(* below can widen the register.                                           *)
Bit1(n) == (n \div 2) % 2 = 1
CEF == Bit1(EDSR)
SetCEF == EDSR' = (IF CEF THEN EDSR ELSE EDSR + 2) /\ UNCHANGED stray

OneCycle == FBCR \in {0, 1}

(* Mutant: the schedule survives its draw-end. *)
DrawEndStaysArmed == SetCEF /\ owed' = FALSE /\ UNCHANGED <<waitLineCount, lost>>

(* The draw-end interrupt is sent and its schedule cleared. *)
DrawEnd == waitLineCount' = -1 /\ SetCEF /\ owed' = FALSE /\ UNCHANGED lost

(* Mutant: the postponed line is not wrapped. *)
LaterLineNoWrap(n) == waitLineCount + n

(* The scheduled line, n lines later, among the lines before VBlank. *)
LaterLine(n) == (waitLineCount + n) % vblankLineCount
-------------------------------------------------------------------------------
Init ==
  /\ pc = "cpu" /\ site = "hblank"
  /\ ram \in RamImages
  /\ PTMR = 0 /\ FBCR = 0 /\ VBE = FALSE
  /\ EDSR \in PowerOnEDSR
  /\ addr = 0 /\ status = "IDLE"
  /\ returnAddr = NoAddr /\ softReturnAddr = NoAddr /\ softBudget = 0
  /\ manualchange = FALSE /\ manualerase = FALSE
  /\ vblankErase = FALSE /\ deferredErase = FALSE
  /\ dirty = [b \in {"front", "back"} |-> FALSE]
  /\ lineCount = 0 /\ vblankLineCount = ResetVBlankLineCount
  /\ waitLineCount = -1
  /\ clockRan = FALSE /\ frameRenderFlg = FALSE
  /\ writesLeft = CpuWrites
  /\ owed = FALSE /\ lost = FALSE /\ stray = EDSR
  /\ plotReturn = NoAddr /\ edited = FALSE

(* The CPU, between two line ends. *)
CpuStep == pc = "cpu" /\ writesLeft > 0 /\ writesLeft' = writesLeft - 1

RamWrite ==
  /\ CpuStep
  /\ \E w \in RamWrites : ram' = [ram EXCEPT ![w[1]] = w[2]]
  /\ clockRan' = FALSE
  /\ edited' = TRUE
  /\ UNCHANGED <<pc, site, regVars, endFlags, walkVars, extVars, lineVars,
                 waitLineCount, jobVars, plotReturn>>

WriteFBCR ==
  /\ CpuStep
  /\ FBCR' \in FbcrValues
  /\ manualchange' = (manualchange \/ FBCR' = 3)
  /\ manualerase' = (manualerase \/ FBCR' = 2)
  /\ UNCHANGED <<pc, site, ram, PTMR, VBE, endFlags, walkVars,
                 vblankErase, deferredErase, dirty, lineVars, waitLineCount,
                 clockRan, jobVars, histVars>>

WriteTVMR ==
  /\ CpuStep
  /\ VBE' = ~VBE
  /\ UNCHANGED <<pc, site, ram, PTMR, FBCR, endFlags, walkVars, extVars,
                 lineVars, waitLineCount, clockRan, jobVars, histVars>>

WriteTVMD ==
  /\ CpuStep
  /\ vblankLineCount' \in VBlankLineCounts \ {vblankLineCount}
  /\ UNCHANGED <<pc, site, ram, PTMR, FBCR, VBE, endFlags, walkVars, extVars,
                 lineCount, frameRenderFlg, waitLineCount, clockRan, jobVars, histVars>>

(* Mutant: the forced stop cancels the draw-end and leaves the list running. *)
WriteENDRKeepsDrawing ==
  /\ CpuStep
  /\ waitLineCount' = -1
  /\ owed' = FALSE /\ lost' = FALSE
  /\ UNCHANGED <<pc, site, ram, regVars, endFlags, walkVars, extVars, lineVars,
                 clockRan, histVars>>

WriteENDR ==
  /\ CpuStep
  /\ status' = "IDLE"
  /\ waitLineCount' = -1
  /\ owed' = FALSE /\ lost' = FALSE
  /\ UNCHANGED <<pc, site, ram, regVars, endFlags, addr, returnAddr, softReturnAddr,
                 softBudget, extVars, lineVars, clockRan, histVars>>

(* SmpcCKCHG352/320, as far as the VDP1 is concerned: Vdp1Reset and        *)
(* Vdp2Reset.  The drawing status is not part of what they reset, the      *)
(* schedule of the draw-end is.                                            *)
ClockChange ==
  /\ CpuStep
  /\ PTMR' = 0
  /\ ram' = [ram EXCEPT ![TerminatorSlot] = EndCommand]
  /\ vblankLineCount' = ResetVBlankLineCount
  /\ waitLineCount' = -1
  /\ clockRan' = FALSE
  /\ edited' = TRUE
  /\ owed' = FALSE /\ lost' = (owed \/ lost)
  /\ UNCHANGED <<pc, site, FBCR, VBE, endFlags, walkVars, extVars,
                 lineCount, frameRenderFlg, plotReturn>>

WritePTMR ==
  /\ CpuStep
  /\ PTMR' \in PtmrValues \ {1}
  /\ UNCHANGED <<pc, site, ram, FBCR, VBE, endFlags, walkVars, extVars,
                 lineVars, waitLineCount, clockRan, jobVars, histVars>>
-------------------------------------------------------------------------------
(* Mutant: a new list inherits what the last one left unspent. *)
FreshBudgetKept == softBudget

(* A list that starts has no budget, one that is restarted keeps its own. *)
FreshBudget == IF status = "IDLE" THEN 0 ELSE softBudget

(* Vdp1Draw: an idle VDP1 starts at the head of the list with no budget, a *)
(* running one goes on from head, the address the caller leaves it.        *)
Draw(from, head) ==
  /\ addr' = IF status = "IDLE" THEN 0 ELSE head
  /\ softBudget' = FreshBudget
  /\ status' = "RUNNING"
  /\ pc' = "enter" /\ site' = from
  /\ plotReturn' = IF addr' = 0 THEN softReturnAddr ELSE plotReturn
  /\ edited' = (edited /\ addr' # 0)
  /\ UNCHANGED <<returnAddr, softReturnAddr>>

(* Mutant: the start of a list leaves EDSR alone. *)
ShiftEDSRForgotten == UNCHANGED endFlags

(* EDSR >>= 1: BEF takes CEF, CEF is cleared. *)
ShiftEDSR == EDSR' = EDSR \div 2 /\ stray' = stray \div 2

(* PTMR = 1, up to the call of Vdp1Draw. *)
PlotTrigger ==
  /\ CpuStep
  /\ 1 \in PtmrValues
  /\ PTMR' = 1
  /\ ShiftEDSR
  /\ Draw("plot", addr)
  /\ owed' = TRUE /\ lost' = FALSE
  /\ UNCHANGED <<ram, FBCR, VBE, extVars, lineVars, waitLineCount, clockRan>>

(* Mutant: a zero estimate is enough. *)
OverAtOnceByEstimate(est) == est = 0

OverAtOnce(est) == est = 0 /\ status = "IDLE"

(* ... and after it: a list estimated at zero lines that is already over   *)
(* raises its draw-end at once.                                            *)
PlotDone ==
  /\ pc = "done" /\ site = "plot"
  /\ pc' = "cpu" /\ UNCHANGED site
  /\ \E est \in EstimateDrawLines :
       IF OverAtOnce(est)
       THEN DrawEnd
       ELSE /\ waitLineCount' = (lineCount + (IF est = 0 THEN 1 ELSE est)) % MaxLineCount
            /\ UNCHANGED <<endFlags, jobVars>>
  /\ UNCHANGED <<ram, regVars, walkVars, extVars, lineVars, clockRan,
                 writesLeft, histVars>>
-------------------------------------------------------------------------------
(* Vdp1DrawCommands, one step per command. *)
EnterDrawCommands ==
  /\ pc = "enter"
  /\ IF addr >= Slots \/ IsEnd(addr)
     THEN /\ status' = "IDLE" /\ pc' = "done"
          /\ UNCHANGED returnAddr
     ELSE /\ returnAddr' = softReturnAddr /\ pc' = "loop"
          /\ UNCHANGED status
  /\ UNCHANGED <<site, ram, regVars, endFlags, addr, softReturnAddr, softBudget,
                 extVars, lineVars, waitLineCount, clockRan, writesLeft, jobVars, histVars>>

(* Mutant: the pending return address is lost at the end of a chunk. *)
OutOfBudgetForgetsReturn ==
  /\ pc = "loop" /\ softBudget <= 0
  /\ softReturnAddr' = NoAddr
  /\ returnAddr' = NoAddr
  /\ pc' = "done"
  /\ UNCHANGED <<site, ram, regVars, endFlags, addr, status, softBudget, extVars,
                 lineVars, waitLineCount, clockRan, writesLeft, jobVars, histVars>>

OutOfBudget ==
  /\ pc = "loop" /\ softBudget <= 0
  /\ softReturnAddr' = returnAddr
  /\ returnAddr' = NoAddr
  /\ pc' = "done"
  /\ UNCHANGED <<site, ram, regVars, endFlags, addr, status, softBudget, extVars,
                 lineVars, waitLineCount, clockRan, writesLeft, jobVars, histVars>>

SpendCommand ==
  /\ pc = "loop" /\ softBudget > 0
  /\ softBudget' = softBudget - CYCLES_PER_COMMAND
  /\ dirty' = [dirty EXCEPT !["back"] = @ \/ Fetch(addr).op = "draw"]
  /\ UNCHANGED <<site, ram, regVars, manualchange, manualerase, vblankErase,
                 deferredErase, lineVars, waitLineCount, clockRan, writesLeft, jobVars,
                 histVars>>

(* A bad command, or any command executed while EDSR says the list ended.  *)
AbortCommand ==
  /\ SpendCommand
  /\ Fetch(addr).op = "bad" \/ CEF
  /\ SetCEF
  /\ status' = "IDLE" /\ pc' = "done"
  /\ returnAddr' = NoAddr
  /\ UNCHANGED <<addr, softReturnAddr>>

ExecuteCommand ==
  /\ SpendCommand
  /\ Fetch(addr).op # "bad" /\ ~CEF
  /\ \E next \in After(addr, returnAddr) :
       /\ addr' = next[1]
       /\ IF IsEnd(next[1])
          THEN /\ status' = "IDLE" /\ pc' = "done"
               /\ softReturnAddr' = next[2] /\ returnAddr' = NoAddr
          ELSE /\ returnAddr' = next[2]
               /\ UNCHANGED <<status, pc, softReturnAddr>>
  /\ UNCHANGED endFlags
-------------------------------------------------------------------------------
(* Vdp2HBlankOUT: line 1 asks for the field, which waits for a line during *)
(* which no VDP1 RAM was written.                                          *)
FieldPending == lineCount = 1 \/ ~frameRenderFlg

LineEndNoField ==
  /\ pc = "cpu"
  /\ ~(FieldPending /\ clockRan)
  /\ frameRenderFlg' = ~FieldPending
  /\ pc' = "poll"
  /\ UNCHANGED <<site, ram, regVars, endFlags, walkVars, extVars, lineCount,
                 vblankLineCount, waitLineCount, clockRan, writesLeft, jobVars, histVars>>

(* The latch, then vdp2VBlankOUT: Vdp2DrawStart turns an armed manual erase *)
(* into one deferred to VBlank-IN, vdp2Vdp1FrameOps erases the display     *)
(* buffer, changes the frame and kicks the plot.                           *)
Swap == manualchange \/ OneCycle

FieldDraws == (Swap /\ PTMR = 2) \/ status = "RUNNING"

Erase(buffers) == [buffers EXCEPT !["front"] = FALSE]

Change(buffers) == [front |-> buffers["back"], back |-> buffers["front"]]

(* Mutant: the frame changes before the erase. *)
FrameOpsChangeFirst ==
  LET changed == IF Swap THEN Change(dirty) ELSE dirty IN
  IF vblankErase \/ OneCycle THEN Erase(changed) ELSE changed

(* The displayed buffer is erased, then handed to the VDP1. *)
FrameOps ==
  LET erased == IF vblankErase \/ OneCycle THEN Erase(dirty) ELSE dirty IN
  IF Swap THEN Change(erased) ELSE erased

LineEndField ==
  /\ pc = "cpu"
  /\ FieldPending /\ clockRan
  /\ frameRenderFlg' = TRUE
  /\ manualchange' = FALSE
  /\ manualerase' = FALSE
  /\ deferredErase' = (deferredErase \/ manualerase)
  /\ dirty' = FrameOps
  /\ IF Swap THEN ShiftEDSR ELSE UNCHANGED endFlags
  /\ IF FieldDraws
     THEN Draw("field", IF Swap THEN 0 ELSE addr)
     ELSE pc' = "poll" /\ UNCHANGED <<site, walkVars, histVars>>
  /\ owed' = (owed \/ FieldDraws)
  /\ lost' = (lost /\ ~FieldDraws)
  /\ UNCHANGED <<ram, regVars, vblankErase, lineCount, vblankLineCount,
                 waitLineCount, clockRan, writesLeft>>

(* The rest of vdp2VBlankOUT after a draw: the schedule of its draw-end. *)
FieldDone ==
  /\ pc = "done" /\ site = "field"
  /\ pc' = "poll" /\ UNCHANGED site
  /\ \E est \in EstimateDrawLines :
       LET lines == est - (MaxLineCount - vblankLineCount) IN
       waitLineCount' =
         IF lines <= 0 /\ status = "IDLE"
         THEN (vblankLineCount + est) % MaxLineCount
         ELSE LaterLine(IF lines < DRAW_END_FLOOR THEN DRAW_END_FLOOR ELSE lines)
  /\ UNCHANGED <<ram, regVars, endFlags, walkVars, extVars, lineVars, clockRan,
                 writesLeft, jobVars, histVars>>

(* The end of Vdp2HBlankOUT: the draw-end scheduled on this line is sent if *)
(* the list is over and put off if it is not; Vdp1_onHblank.                *)
PollDrawEnd ==
  /\ pc = "poll"
  /\ IF waitLineCount = lineCount
     THEN IF status = "IDLE"
          THEN DrawEnd
          ELSE /\ waitLineCount' = LaterLine(POLL_AGAIN)
               /\ UNCHANGED <<endFlags, jobVars>>
     ELSE UNCHANGED <<waitLineCount, endFlags, jobVars>>
  /\ clockRan' = TRUE
  /\ site' = "hblank"
  /\ IF status = "RUNNING"
     THEN softBudget' = softBudget + CYCLES_PER_LINE /\ pc' = "enter"
     ELSE pc' = "done" /\ UNCHANGED softBudget
  /\ UNCHANGED <<ram, regVars, addr, status, returnAddr, softReturnAddr, extVars,
                 lineVars, writesLeft, histVars>>

(* YabauseEmulate after the line end: Vdp2VBlankIN applies a deferred     *)
(* erase to the display buffer, Vdp2VBlankOUT latches the VBlank erase.    *)
NextLine ==
  /\ pc = "done" /\ site = "hblank"
  /\ pc' = "cpu" /\ UNCHANGED site
  /\ LET vin  == lineCount + 1 = vblankLineCount
         vout == ~vin /\ lineCount + 1 = MaxLineCount IN
     /\ lineCount' = IF vout THEN 0 ELSE lineCount + 1
     /\ vblankErase' = IF vout THEN VBE ELSE vblankErase
     /\ deferredErase' = (deferredErase /\ ~vin)
     /\ dirty' = IF vin /\ deferredErase THEN Erase(dirty) ELSE dirty
  /\ UNCHANGED <<ram, regVars, endFlags, walkVars, manualchange, manualerase,
                 vblankLineCount, frameRenderFlg, waitLineCount, clockRan,
                 writesLeft, jobVars, histVars>>
-------------------------------------------------------------------------------
Cpu == \/ RamWrite \/ WriteFBCR \/ WriteTVMR \/ WriteTVMD \/ WriteENDR
       \/ ClockChange \/ WritePTMR \/ PlotTrigger

DrawCommands == EnterDrawCommands \/ OutOfBudget \/ AbortCommand \/ ExecuteCommand

Emulator == \/ PlotDone \/ DrawCommands \/ LineEndNoField \/ LineEndField
            \/ FieldDone \/ PollDrawEnd \/ NextLine

Next == Cpu \/ Emulator

Spec == Init /\ [][Next]_vars

(* The main loop never waits for anything in this configuration. *)
FairSpec == Spec /\ WF_vars(Emulator)
-------------------------------------------------------------------------------
ControlType ==
  /\ pc \in {"cpu", "enter", "loop", "done", "poll"}
  /\ site \in {"plot", "field", "hblank"}
  /\ writesLeft \in 0 .. CpuWrites

RegType ==
  /\ ram \in [Addr -> Commands]
  /\ PTMR \in 0 .. 2 /\ FBCR \in 0 .. 3
  /\ EDSR \in Nat /\ stray \in Nat

WalkType ==
  /\ addr \in Nat /\ status \in {"IDLE", "RUNNING"}
  /\ {returnAddr, softReturnAddr, plotReturn} \subseteq Nat \cup {NoAddr}
  /\ softBudget \in Int

Lines == 0 .. MaxLineCount - 1

LineType ==
  /\ lineCount \in Lines
  /\ vblankLineCount \in VBlankLineCounts
  /\ waitLineCount \in Lines \cup {-1}

FlagType ==
  /\ {VBE, manualchange, manualerase, vblankErase, deferredErase} \subseteq BOOLEAN
  /\ {clockRan, frameRenderFlg, owed, lost, edited} \subseteq BOOLEAN
  /\ dirty \in [{"front", "back"} -> BOOLEAN]

(* The registers keep their width, the scheduler its lines of the field    *)
(* (its sums wrap modulo the field or modulo the first line of VBlank), and *)
(* the walker an address that CMDLINK and the end of the RAM can give it.  *)
TypeOK ==
  ControlType /\ RegType /\ WalkType /\ LineType /\ FlagType

(* A game that polls EDSR never reads "drawing ended" while the list is    *)
(* still being walked, and no running list is cut short as an internal     *)
(* command error: every path that (re)starts a list shifted EDSR first.    *)
(* Only a bit that EDSR held at power-on, where nobody cleared it, can pass *)
(* through CEF while a list is drawn.                                      *)
NoEndFlagWhileDrawing ==
  status = "RUNNING" /\ CEF => Bit1(stray)

(* The pacing of the command list: what a plot trigger or a frame change   *)
(* starts runs only on the budget of the line ends that follow, and no     *)
(* budget is carried over, so a line never executes more commands than     *)
(* CYCLES_PER_LINE pays for.                                               *)
NoBudgetCarriedOver ==
  status = "RUNNING" /\ (pc = "cpu" \/ site \in {"plot", "field"}) =>
    softBudget \in (1 - CYCLES_PER_COMMAND) .. 0

(* A draw-end is scheduled only for a plot that was started, and sent at   *)
(* most once for it, whatever stops, resets and frame changes come between *)
(* the schedule and its line.                                              *)
NoUnownedDrawEnd ==
  waitLineCount # -1 => owed

(* The game waits for the draw-end of a list that is being drawn: whatever *)
(* triggers, postponements, fields and forced stops come, one is scheduled. *)
(* The exception is a clock change in the middle of the list, which drops  *)
(* the schedule and lets the list run on: until a field finds it running   *)
(* or a new plot starts, none is scheduled.                                *)
RunningIsScheduled ==
  pc = "cpu" /\ status = "RUNNING" => (waitLineCount # -1) # lost

(* In one-cycle mode the buffer a frame change hands to the VDP1 was erased *)
(* while it was displayed: the list starts on a clean buffer.              *)
OneCycleStartsClean ==
  [][LineEndField /\ OneCycle => ~dirty'["back"]]_vars

(* Reference for the paced walk: the list walked in one go from its head,  *)
(* as the upstream renderers do, with the return address it starts with.   *)
OneShot ==
  LET walk[n \in 0 .. (Slots + 1) * (Slots + 2)] ==
        IF n = 0 THEN <<0, plotReturn>>
        ELSE LET p == walk[n - 1] IN
             IF p[1] >= Slots \/ IsEnd(p[1]) THEN p
             ELSE CHOOSE next \in After(p[1], p[2]) : TRUE
  IN  {walk[n] : n \in DOMAIN walk}

(* Cutting the walk into lines does not change it: as long as nobody edits *)
(* the list and it stays in the RAM, the VDP1 stands where the one-shot    *)
(* walk passes, with the same return address in hand.                      *)
ChunksFollowTheList ==
  pc = "cpu" /\ status = "RUNNING" /\ ~edited /\ (\A p \in OneShot : p[1] < Slots) =>
    <<addr, softReturnAddr>> \in OneShot

(* The promise to the game, with the history variables telling whether the *)
(* plot is still to be reported.                                           *)
Job == INSTANCE PlotJob WITH
         job <- IF owed THEN IF status = "RUNNING" THEN "drawing" ELSE "due"
                ELSE IF lost /\ status = "RUNNING" THEN "unscheduled" ELSE "none",
         cef <- CEF

PlotJobSpec == Job!Spec

(* A scheduled draw-end is sent (or cancelled by a forced stop or a reset) *)
(* unless the list never ends.                                             *)
DrawEndArrives ==
  waitLineCount # -1 ~> (waitLineCount = -1 \/ status = "RUNNING")

-------------------------------------------------------------------------------
(* "survives budget-limited chunks" (vdp1.cpp:689): the return address is  *)
(* carried between the chunks of one list and not into the next list.      *)
ReturnAddrEndsWithTheList ==
  pc = "cpu" /\ status = "IDLE" => softReturnAddr = NoAddr

(* "Manual erase without change [...] is applied after the sprite layer has *)
(* been composited" (vidsoft.c:96): an erase armed together with a change  *)
(* is no such erase, it cleans the buffer the change hands to the VDP1.    *)
ManualEraseBeforeChange ==
  [][LineEndField /\ manualerase /\ manualchange => ~dirty'["back"]]_vars
===============================================================================
