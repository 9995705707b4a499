------------------------------ MODULE Vdp1Proofs ------------------------------
(***************************************************************************)
(* Theorems about Vdp1 for every command list, every number of slots and   *)
(* lines, every pacing and every order of CPU writes.                      *)
(***************************************************************************)
EXTENDS Vdp1, FiniteSetTheorems, WellFoundedInduction, TLAPS

(* a % b of the scheduler and of the RAM mask stays below b. *)
LEMMA ModRange ==
  ASSUME NEW a \in Int, NEW b \in Nat \ {0}
  PROVE  a % b \in 0 .. b - 1
OBVIOUS

(* Every slot holds a command, also the one an address past the end wraps to. *)
LEMMA FetchType ==
  ASSUME TypeOK, NEW a \in Nat
  PROVE  Fetch(a) \in Commands
<1>1. Slots \in Nat \ {0}
  BY RamAssumption
<1>2. a % Slots \in 0 .. Slots - 1
  BY <1>1, ModRange
<1>3. ram \in [Addr -> Commands]
  BY DEF TypeOK, RegType
<1> QED BY <1>2, <1>3 DEF Fetch, Addr

(* What a command is made of. *)
LEMMA CommandType ==
  ASSUME NEW c \in Commands
  PROVE  /\ c.op \in {"draw", "skip", "bad", "end"}
         /\ c.jump \in {"next", "assign", "call", "return"}
         /\ c.link \in Nat
<1>1. c \in [op : {"draw", "skip", "bad", "end"},
             jump : {"next", "assign", "call", "return"},
             link : Addr]
  BY RamAssumption
<1>2. Addr \subseteq Nat
  BY RamAssumption DEF Addr
<1> QED BY <1>1, <1>2

(* Where a command may link to: an address of the RAM. *)
LEMMA LinksType ==
  ASSUME TypeOK, NEW a \in Nat
  PROVE  Links(a) \subseteq Nat
<1>1. Slots \in Nat \ {0}
  BY RamAssumption
<1>2. ram \in [Addr -> Commands]
  BY DEF TypeOK, RegType
<1>3. CASE a < Slots
  <2>1. ram[a] \in Commands
    BY <1>1, <1>2, <1>3 DEF Addr
  <2> QED BY <1>3, <2>1, CommandType DEF Links
<1>4. CASE ~(a < Slots)
  BY <1>1, <1>4 DEF Links, Addr
<1> QED BY <1>3, <1>4

LEMMA AfterType ==
  ASSUME TypeOK, NEW a \in Nat, NEW r \in Nat \cup {NoAddr},
         NEW next \in After(a, r)
  PROVE  next[1] \in Nat /\ next[2] \in Nat \cup {NoAddr}
<1> DEFINE jump == Fetch(a).jump
<1>1. jump \in {"next", "assign", "call", "return"}
  BY FetchType, CommandType
<1>2. Links(a) \subseteq Nat
  BY LinksType
<1>3. CASE jump = "next"
  BY <1>3 DEF After
<1>4. CASE jump = "assign"
  BY <1>2, <1>4 DEF After
<1>5. CASE jump = "call"
  BY <1>2, <1>5 DEF After
<1>6. CASE jump = "return"
  BY <1>6 DEF After
<1> QED BY <1>1, <1>3, <1>4, <1>5, <1>6
-------------------------------------------------------------------------------
(* Shifting EDSR or setting its CEF gives a register value again. *)
LEMMA EdsrType ==
  ASSUME EDSR \in Nat, stray \in Nat, SetCEF \/ ShiftEDSR \/ UNCHANGED endFlags
  PROVE  EDSR' \in Nat /\ stray' \in Nat
<1>1. EDSR \div 2 \in Nat /\ stray \div 2 \in Nat
  OBVIOUS
<1> QED BY <1>1 DEF SetCEF, ShiftEDSR, endFlags

(* The first line of VBlank lies inside the field. *)
LEMMA LinesFacts ==
  /\ MaxLineCount \in Nat \ {0}
  /\ 0 \in Lines /\ Lines \subseteq Nat
  /\ \A v \in VBlankLineCounts : v \in Nat \ {0} /\ v < MaxLineCount
<1>1. MaxLineCount \in Nat /\ VBlankLineCounts \subseteq 2 .. MaxLineCount - 1
      /\ ResetVBlankLineCount \in VBlankLineCounts
  BY LinesAssumption
<1> QED BY <1>1 DEF Lines

(* A line number wrapped by the field or by its first VBlank line is one of *)
(* the lines of the field.                                                 *)
LEMMA LineRange ==
  ASSUME NEW l \in Int, NEW v \in VBlankLineCounts
  PROVE  /\ l % MaxLineCount \in Lines
         /\ l % v \in Lines
<1>1. MaxLineCount \in Nat \ {0} /\ v \in Nat \ {0} /\ v < MaxLineCount
  BY LinesFacts
<1>2. l % MaxLineCount \in 0 .. MaxLineCount - 1
  BY <1>1, ModRange
<1>3. l % v \in 0 .. v - 1
  BY <1>1, ModRange
<1> QED BY <1>1, <1>2, <1>3 DEF Lines
-------------------------------------------------------------------------------
(* The types of the registers, of the walker and of the line scheduler. *)
LEMMA TypeInit == Init => TypeOK
<1> SUFFICES ASSUME Init PROVE TypeOK
  OBVIOUS
<1>1. ControlType
  BY LinesAssumption DEF Init, ControlType
<1>2. RegType
  <2>1. RamImages \subseteq [Addr -> Commands] /\ PowerOnEDSR \subseteq Nat
    BY RamAssumption
  <2> QED BY <2>1 DEF Init, RegType
<1>3. WalkType
  BY DEF Init, WalkType
<1>4. LineType
  BY LinesFacts, LinesAssumption DEF Init, LineType
<1>5. FlagType
  BY DEF Init, FlagType
<1> QED BY <1>1, <1>2, <1>3, <1>4, <1>5 DEF TypeOK

(* Every action keeps the types; the CPU's writes first. *)
LEMMA TypeCpu == TypeOK /\ Cpu => TypeOK'
<1> SUFFICES ASSUME TypeOK, Cpu PROVE TypeOK'
  OBVIOUS
<1> USE DEF TypeOK, endFlags, jobVars
<1>1. CpuStep => writesLeft' \in 0 .. CpuWrites
  BY LinesAssumption DEF CpuStep, ControlType
<1>2. CASE RamWrite
  <2>1. RegType'
    <3>1. RamWrites \subseteq Addr \X Commands
      BY RamAssumption
    <3> QED BY <1>2, <3>1 DEF RamWrite, RegType, regVars
  <2>2. FlagType'
    BY <1>2 DEF RamWrite, FlagType, regVars, extVars, lineVars
  <2> QED BY <1>1, <1>2, <2>1, <2>2
        DEF RamWrite, ControlType, WalkType, LineType, walkVars, lineVars
<1>3. CASE WriteFBCR
  <2>1. RegType'
    BY <1>3, RamAssumption DEF WriteFBCR, RegType
  <2>2. FlagType'
    BY <1>3 DEF WriteFBCR, FlagType, lineVars, histVars
  <2> QED BY <1>1, <1>3, <2>1, <2>2
        DEF WriteFBCR, ControlType, WalkType, LineType, walkVars, lineVars, histVars
<1>4. CASE WriteTVMR
  <2>1. FlagType'
    BY <1>4 DEF WriteTVMR, FlagType, extVars, lineVars, histVars
  <2> QED BY <1>1, <1>4, <2>1
        DEF WriteTVMR, ControlType, RegType, WalkType, LineType, walkVars, lineVars, histVars
<1>5. CASE WriteTVMD
  <2>1. FlagType'
    BY <1>5 DEF WriteTVMD, FlagType, regVars, extVars, histVars
  <2> QED BY <1>1, <1>5, <2>1
        DEF WriteTVMD, ControlType, RegType, WalkType, LineType, regVars, walkVars, histVars
<1>6. CASE WriteENDR
  <2>1. FlagType'
    BY <1>6 DEF WriteENDR, FlagType, regVars, extVars, lineVars, histVars
  <2> QED BY <1>1, <1>6, <2>1
        DEF WriteENDR, ControlType, RegType, WalkType, LineType, regVars, lineVars, histVars
<1>7. CASE ClockChange
  <2>1. RegType'
    <3>1. TerminatorSlot \in Addr /\ EndCommand \in Commands
      BY RamAssumption
    <3> QED BY <1>7, <3>1 DEF ClockChange, RegType
  <2>2. LineType'
    BY <1>7, LinesAssumption DEF ClockChange, LineType
  <2>3. FlagType'
    BY <1>7 DEF ClockChange, FlagType, extVars
  <2> QED BY <1>1, <1>7, <2>1, <2>2, <2>3
        DEF ClockChange, ControlType, WalkType, walkVars
<1>8. CASE WritePTMR
  <2>1. PTMR' \in 0 .. 2
    BY <1>8, RamAssumption DEF WritePTMR
  <2>2. FlagType'
    BY <1>8 DEF WritePTMR, FlagType, extVars, lineVars, histVars
  <2> QED BY <1>1, <1>8, <2>1, <2>2
        DEF WritePTMR, ControlType, RegType, WalkType, LineType, walkVars, lineVars, histVars
<1>9. CASE PlotTrigger
  <2>1. RegType'
    BY <1>9, EdsrType DEF PlotTrigger, RegType
  <2>2. WalkType'
    BY <1>9 DEF PlotTrigger, Draw, FreshBudget, WalkType
  <2>3. FlagType'
    BY <1>9 DEF PlotTrigger, Draw, FlagType, extVars, lineVars
  <2> QED BY <1>1, <1>9, <2>1, <2>2, <2>3
        DEF PlotTrigger, Draw, ControlType, LineType, lineVars
<1> QED BY <1>2, <1>3, <1>4, <1>5, <1>6, <1>7, <1>8, <1>9 DEF Cpu

(* One step of Vdp1DrawCommands. *)
LEMMA TypeDrawCommands == TypeOK /\ DrawCommands => TypeOK'
<1> SUFFICES ASSUME TypeOK, DrawCommands PROVE TypeOK'
  OBVIOUS
<1> USE DEF TypeOK, endFlags, jobVars
<1>1. CASE EnterDrawCommands
  <2>1. FlagType'
    BY <1>1 DEF EnterDrawCommands, FlagType, regVars, extVars, lineVars, histVars
  <2> QED BY <1>1, <2>1 DEF EnterDrawCommands, ControlType, RegType, WalkType,
        LineType, regVars, lineVars, histVars
<1>2. CASE OutOfBudget
  <2>1. FlagType'
    BY <1>2 DEF OutOfBudget, FlagType, regVars, extVars, lineVars, histVars
  <2> QED BY <1>2, <2>1 DEF OutOfBudget, ControlType, RegType, WalkType,
        LineType, regVars, lineVars, histVars
<1>3. ASSUME SpendCommand
      PROVE  softBudget' \in Int /\ LineType' /\ FlagType'
  <2>1. CYCLES_PER_COMMAND \in Nat
    BY LinesAssumption
  <2>2. softBudget' \in Int
    BY <1>3, <2>1 DEF SpendCommand, WalkType
  <2>3. FlagType'
    BY <1>3 DEF SpendCommand, FlagType, regVars, lineVars, histVars
  <2> QED BY <1>3, <2>2, <2>3 DEF SpendCommand, LineType, lineVars
<1>4. CASE AbortCommand
  <2>1. RegType'
    BY <1>4, EdsrType DEF AbortCommand, SpendCommand, RegType, regVars
  <2> QED BY <1>3, <1>4, <2>1 DEF AbortCommand, SpendCommand, ControlType,
        WalkType, histVars
<1>5. CASE ExecuteCommand
  <2>1. PICK next \in After(addr, returnAddr) :
          /\ addr' = next[1]
          /\ IF IsEnd(next[1])
             THEN /\ status' = "IDLE" /\ pc' = "done"
                  /\ softReturnAddr' = next[2] /\ returnAddr' = NoAddr
             ELSE /\ returnAddr' = next[2]
                  /\ UNCHANGED <<status, pc, softReturnAddr>>
    BY <1>5 DEF ExecuteCommand
  <2>2. next[1] \in Nat /\ next[2] \in Nat \cup {NoAddr}
    BY AfterType DEF WalkType
  <2>3. WalkType' /\ ControlType'
    BY <1>3, <1>5, <2>1, <2>2
       DEF ExecuteCommand, SpendCommand, WalkType, ControlType, histVars
  <2> QED BY <1>3, <1>5, <2>3 DEF ExecuteCommand, SpendCommand, RegType, regVars
<1> QED BY <1>1, <1>2, <1>4, <1>5 DEF DrawCommands

(* The draw-time estimate is a number of lines. *)
LEMMA EstimateType == EstimateDrawLines \subseteq Nat
BY LinesAssumption DEF EstimateDrawLines

(* The rest of the main loop: the end of a plot, of a field and of a line. *)
LEMMA TypeLine == TypeOK /\ Emulator => TypeOK'
<1> SUFFICES ASSUME TypeOK, Emulator PROVE TypeOK'
  OBVIOUS
<1> USE DEF TypeOK, endFlags, jobVars
<1>1. CASE PlotDone
  <2>1. PICK est \in EstimateDrawLines :
          IF OverAtOnce(est)
          THEN DrawEnd
          ELSE /\ waitLineCount' = (lineCount + (IF est = 0 THEN 1 ELSE est)) % MaxLineCount
               /\ UNCHANGED <<endFlags, jobVars>>
    BY <1>1 DEF PlotDone
  <2>2. lineCount + (IF est = 0 THEN 1 ELSE est) \in Int
    BY EstimateType, LinesFacts DEF LineType
  <2>3. LineType'
    BY <1>1, <2>1, <2>2, LineRange DEF PlotDone, DrawEnd, LineType, lineVars
  <2>4. RegType'
    BY <1>1, <2>1, EdsrType DEF PlotDone, DrawEnd, RegType, regVars
  <2>5. FlagType'
    BY <1>1, <2>1 DEF PlotDone, DrawEnd, FlagType, regVars, extVars, lineVars, histVars
  <2> QED BY <1>1, <2>3, <2>4, <2>5 DEF PlotDone, ControlType, WalkType, walkVars, histVars
<1>2. CASE DrawCommands
  BY <1>2, TypeDrawCommands
<1>3. CASE LineEndNoField
  <2>1. FlagType'
    BY <1>3 DEF LineEndNoField, FlagType, regVars, extVars, histVars
  <2> QED BY <1>3, <2>1 DEF LineEndNoField, ControlType, RegType, WalkType, LineType,
        regVars, walkVars, histVars
<1>4. CASE LineEndField
  <2>1. RegType'
    BY <1>4, EdsrType DEF LineEndField, RegType, regVars
  <2>2. dirty' \in [{"front", "back"} -> BOOLEAN]
    <3> DEFINE Buffers == [{"front", "back"} -> BOOLEAN]
               erased == IF vblankErase \/ OneCycle THEN Erase(dirty) ELSE dirty
    <3>1. \A b \in Buffers : Erase(b) \in Buffers /\ Change(b) \in Buffers
      BY DEF Erase, Change
    <3>2. erased \in Buffers
      BY <3>1 DEF FlagType
    <3>3. dirty' = IF Swap THEN Change(erased) ELSE erased
      BY <1>4 DEF LineEndField, FrameOps
    <3> QED BY <3>1, <3>2, <3>3
  <2>3. {VBE, manualchange, manualerase, vblankErase, deferredErase,
         clockRan, frameRenderFlg, owed, lost}' \subseteq BOOLEAN
    BY <1>4 DEF LineEndField, FlagType, regVars
  <2>4. CASE FieldDraws
    <3>1. Draw("field", IF Swap THEN 0 ELSE addr)
      BY <1>4, <2>4 DEF LineEndField
    <3>2. WalkType'
      BY <3>1 DEF Draw, FreshBudget, WalkType
    <3>3. FlagType'
      BY <2>2, <2>3, <3>1 DEF Draw, FlagType
    <3> QED BY <1>4, <2>1, <3>1, <3>2, <3>3 DEF LineEndField, Draw, ControlType, LineType
  <2>5. CASE ~FieldDraws
    <3>1. pc' = "poll" /\ UNCHANGED <<site, walkVars, histVars>>
      BY <1>4, <2>5 DEF LineEndField
    <3>2. FlagType'
      BY <2>2, <2>3, <3>1 DEF FlagType, histVars
    <3> QED BY <1>4, <2>1, <3>1, <3>2 DEF LineEndField, ControlType, WalkType, LineType,
          walkVars, histVars
  <2> QED BY <2>4, <2>5
<1>5. CASE FieldDone
  <2>1. LineType'
    <3> DEFINE Lines0(est) == est - (MaxLineCount - vblankLineCount)
    <3>1. PICK est \in EstimateDrawLines :
            waitLineCount' =
              IF Lines0(est) <= 0 /\ status = "IDLE"
              THEN (vblankLineCount + est) % MaxLineCount
              ELSE LaterLine(IF Lines0(est) < DRAW_END_FLOOR
                             THEN DRAW_END_FLOOR ELSE Lines0(est))
      BY <1>5 DEF FieldDone
    <3>2. /\ vblankLineCount + est \in Int
          /\ waitLineCount + (IF Lines0(est) < DRAW_END_FLOOR
                              THEN DRAW_END_FLOOR ELSE Lines0(est)) \in Int
      BY EstimateType, LinesFacts, LinesAssumption DEF LineType
    <3>3. waitLineCount' \in Lines
      BY <3>1, <3>2, LineRange DEF LineType, LaterLine
    <3> QED BY <1>5, <3>3 DEF FieldDone, LineType, lineVars
  <2>2. FlagType'
    BY <1>5 DEF FieldDone, FlagType, regVars, extVars, lineVars, histVars
  <2> QED BY <1>5, <2>1, <2>2 DEF FieldDone, ControlType, RegType, WalkType,
        regVars, walkVars, histVars
<1>6. CASE PollDrawEnd
  <2>1. RegType'
    BY <1>6, EdsrType DEF PollDrawEnd, DrawEnd, RegType, regVars
  <2>2. LineType'
    <3>1. waitLineCount + POLL_AGAIN \in Int
      BY LinesFacts, LinesAssumption DEF LineType
    <3>2. LaterLine(POLL_AGAIN) \in Lines
      BY <3>1, LineRange DEF LineType, LaterLine
    <3> QED BY <1>6, <3>2 DEF PollDrawEnd, DrawEnd, LineType, lineVars
  <2>3. FlagType'
    BY <1>6 DEF PollDrawEnd, DrawEnd, FlagType, regVars, extVars, lineVars, histVars
  <2>4. WalkType'
    <3>1. softBudget + CYCLES_PER_LINE \in Int
      BY LinesAssumption DEF WalkType
    <3> QED BY <1>6, <3>1 DEF PollDrawEnd, WalkType, histVars
  <2> QED BY <1>6, <2>1, <2>2, <2>3, <2>4 DEF PollDrawEnd, ControlType
<1>7. CASE NextLine
  <2>1. LineType'
    <3>1. lineCount' \in Lines
      <4>1. lineCount + 1 # MaxLineCount => lineCount + 1 \in Lines
        BY LinesFacts DEF LineType, Lines
      <4>2. lineCount + 1 = vblankLineCount => lineCount + 1 # MaxLineCount
        BY LinesFacts DEF LineType
      <4> QED BY <1>7, <4>1, <4>2, LinesFacts DEF NextLine
    <3> QED BY <1>7, <3>1 DEF NextLine, LineType
  <2>2. FlagType'
    BY <1>7 DEF NextLine, Erase, FlagType, regVars, histVars
  <2> QED BY <1>7, <2>1, <2>2 DEF NextLine, ControlType, RegType, WalkType,
        regVars, walkVars, histVars
<1> QED BY <1>1, <1>2, <1>3, <1>4, <1>5, <1>6, <1>7 DEF Emulator

(* The registers, the walker and the scheduler stay in their types for     *)
(* every command list and every order of CPU writes and line ends.         *)
THEOREM TypeCorrect == Spec => []TypeOK
<1>1. TypeOK /\ [Next]_vars => TypeOK'
  <2> SUFFICES ASSUME TypeOK, [Next]_vars PROVE TypeOK'
    OBVIOUS
  <2>1. CASE Next
    BY <2>1, TypeCpu, TypeLine DEF Next
  <2>2. CASE UNCHANGED vars
    BY <2>2 DEF TypeOK, ControlType, RegType, WalkType, LineType, FlagType,
         vars, endFlags, jobVars, regVars, walkVars, extVars, lineVars, histVars
  <2> QED BY <2>1, <2>2
<1> QED BY TypeInit, <1>1, PTL DEF Spec

-------------------------------------------------------------------------------
(* Inside Vdp1DrawCommands the list is running; whoever runs it spends at  *)
(* most one command more than it has, and returns with nothing left.  Only *)
(* the line end has anything to spend.                                     *)
Paced ==
  /\ pc \in {"enter", "loop"} => status = "RUNNING"
  /\ status = "RUNNING" =>
       /\ 1 - CYCLES_PER_COMMAND <= softBudget
       /\ softBudget <= IF pc \in {"enter", "loop"} /\ site = "hblank"
                         THEN CYCLES_PER_LINE ELSE 0

LEMMA PacedCpu == TypeOK /\ Paced /\ Cpu => Paced'
<1> SUFFICES ASSUME TypeOK, Paced, Cpu PROVE Paced'
  OBVIOUS
<1>1. /\ softBudget \in Int /\ status \in {"IDLE", "RUNNING"}
      /\ CYCLES_PER_COMMAND \in Nat \ {0} /\ CYCLES_PER_LINE \in Nat
  BY LinesAssumption DEF TypeOK, WalkType
<1>2. CASE PlotTrigger
  BY <1>1, <1>2 DEF PlotTrigger, Draw, FreshBudget, CpuStep, Paced
<1>3. CASE WriteENDR
  BY <1>3 DEF WriteENDR, CpuStep, Paced
<1>4. CASE RamWrite \/ WriteFBCR \/ WriteTVMR \/ WriteTVMD \/ ClockChange \/ WritePTMR
  <2>1. UNCHANGED <<pc, site, walkVars>>
    BY <1>4 DEF RamWrite, WriteFBCR, WriteTVMR, WriteTVMD, ClockChange, WritePTMR
  <2> QED BY <2>1 DEF Paced, walkVars
<1> QED BY <1>2, <1>3, <1>4 DEF Cpu

LEMMA PacedDrawCommands == TypeOK /\ Paced /\ DrawCommands => Paced'
<1> SUFFICES ASSUME TypeOK, Paced, DrawCommands PROVE Paced'
  OBVIOUS
<1>1. /\ softBudget \in Int /\ status \in {"IDLE", "RUNNING"}
      /\ CYCLES_PER_COMMAND \in Nat \ {0} /\ CYCLES_PER_LINE \in Nat
  BY LinesAssumption DEF TypeOK, WalkType
<1>2. CASE EnterDrawCommands
  BY <1>2 DEF EnterDrawCommands, Paced
<1>3. CASE OutOfBudget
  BY <1>1, <1>3 DEF OutOfBudget, Paced
<1>4. CASE AbortCommand
  BY <1>4 DEF AbortCommand, Paced
<1>5. CASE ExecuteCommand
  <2>1. /\ pc = "loop" /\ softBudget > 0 /\ UNCHANGED site
        /\ softBudget' = softBudget - CYCLES_PER_COMMAND
    BY <1>5 DEF ExecuteCommand, SpendCommand
  <2>2. \/ status' = "IDLE" /\ pc' = "done"
        \/ UNCHANGED <<status, pc>>
    BY <1>5 DEF ExecuteCommand
  <2> QED BY <1>1, <2>1, <2>2 DEF Paced
<1> QED BY <1>2, <1>3, <1>4, <1>5 DEF DrawCommands

LEMMA PacedLine == TypeOK /\ Paced /\ Emulator => Paced'
<1> SUFFICES ASSUME TypeOK, Paced, Emulator PROVE Paced'
  OBVIOUS
<1>1. /\ softBudget \in Int /\ status \in {"IDLE", "RUNNING"}
      /\ CYCLES_PER_COMMAND \in Nat \ {0} /\ CYCLES_PER_LINE \in Nat
  BY LinesAssumption DEF TypeOK, WalkType
<1>2. CASE DrawCommands
  BY <1>2, PacedDrawCommands
<1>3. CASE LineEndField
  <2>1. \/ Draw("field", IF Swap THEN 0 ELSE addr)
        \/ pc' = "poll" /\ UNCHANGED <<site, walkVars, histVars>>
    BY <1>3 DEF LineEndField
  <2> QED BY <1>1, <1>3, <2>1 DEF LineEndField, Draw, FreshBudget, Paced, walkVars
<1>4. CASE PollDrawEnd
  BY <1>1, <1>4 DEF PollDrawEnd, Paced
<1>5. CASE PlotDone \/ LineEndNoField \/ FieldDone \/ NextLine
  <2>1. /\ UNCHANGED walkVars
        /\ pc \notin {"enter", "loop"} /\ pc' \notin {"enter", "loop"}
    BY <1>5 DEF PlotDone, LineEndNoField, FieldDone, NextLine
  <2> QED BY <2>1 DEF Paced, walkVars
<1> QED BY <1>2, <1>3, <1>4, <1>5 DEF Emulator

LEMMA PacedInvariant == Spec => []Paced
<1>1. Init => Paced
  BY DEF Init, Paced
<1>2. TypeOK /\ Paced /\ [Next]_vars => Paced'
  <2> SUFFICES ASSUME TypeOK, Paced, [Next]_vars PROVE Paced'
    OBVIOUS
  <2>1. CASE Next
    BY <2>1, PacedCpu, PacedLine DEF Next
  <2>2. CASE UNCHANGED vars
    BY <2>2 DEF Paced, vars, walkVars
  <2> QED BY <2>1, <2>2
<1> QED BY <1>1, <1>2, TypeCorrect, PTL DEF Spec

(* No list, however the CPU restarts it, takes budget from one line to the *)
(* next: a line executes at most the commands CYCLES_PER_LINE pays for.    *)
THEOREM BudgetIsPerLine == Spec => []NoBudgetCarriedOver
<1>1. TypeOK /\ Paced => NoBudgetCarriedOver
  <2>1. TypeOK => softBudget \in Int /\ CYCLES_PER_COMMAND \in Nat \ {0}
    BY LinesAssumption DEF TypeOK, WalkType
  <2> QED BY <2>1 DEF Paced, NoBudgetCarriedOver
<1> QED BY <1>1, TypeCorrect, PacedInvariant, PTL
-------------------------------------------------------------------------------
(* Inside a plot trigger or a field, which schedules the draw-end of the   *)
(* list it starts when Vdp1DrawCommands has returned.                      *)
Starting == pc \in {"enter", "loop", "done"} /\ site \in {"plot", "field"}

(* The debt of a draw-end: a scheduled one is owed, a list runs with its   *)
(* debt unless a clock change took it, and a debt of a running list is on  *)
(* the schedule.                                                           *)
Owing ==
  /\ status = "RUNNING" => owed \/ lost
  /\ waitLineCount # -1 => owed
  /\ Starting => owed
  /\ ~(owed /\ lost)
  /\ ~Starting /\ status = "RUNNING" /\ owed => waitLineCount # -1

(* A step that touches nothing the debt is about keeps it. *)
LEMMA OwingStutter ==
  ASSUME Owing, UNCHANGED <<status, waitLineCount, jobVars>>, Starting' <=> Starting
  PROVE  Owing'
BY DEF Owing, jobVars

(* Whatever is put on the schedule is a line. *)
LEMMA Scheduled ==
  ASSUME TypeOK
  PROVE  /\ PlotDone => waitLineCount' # -1 \/ (status = "IDLE" /\ DrawEnd)
         /\ FieldDone => waitLineCount' # -1
         /\ LaterLine(POLL_AGAIN) # -1
<1>1. -1 \notin Lines
  BY LinesFacts
<1>2. lineCount \in Int /\ vblankLineCount \in Int /\ waitLineCount \in Int
      /\ vblankLineCount \in VBlankLineCounts /\ MaxLineCount \in Int
  BY LinesFacts DEF TypeOK, LineType
<1>3. \A n \in Int : LaterLine(n) # -1
  BY <1>1, <1>2, LineRange DEF LaterLine
<1>4. ASSUME PlotDone PROVE waitLineCount' # -1 \/ (status = "IDLE" /\ DrawEnd)
  <2>1. PICK est \in EstimateDrawLines :
          IF OverAtOnce(est)
          THEN DrawEnd
          ELSE /\ waitLineCount' = (lineCount + (IF est = 0 THEN 1 ELSE est)) % MaxLineCount
               /\ UNCHANGED <<endFlags, jobVars>>
    BY <1>4 DEF PlotDone
  <2>2. lineCount + (IF est = 0 THEN 1 ELSE est) \in Int
    BY <1>2, EstimateType
  <2> QED BY <1>1, <1>2, <2>1, <2>2, LineRange DEF OverAtOnce
<1>5. ASSUME FieldDone PROVE waitLineCount' # -1
  <2> DEFINE lines(est) == est - (MaxLineCount - vblankLineCount)
             delay(est) == IF lines(est) < DRAW_END_FLOOR THEN DRAW_END_FLOOR ELSE lines(est)
  <2>1. PICK est \in EstimateDrawLines :
          waitLineCount' = IF lines(est) <= 0 /\ status = "IDLE"
                           THEN (vblankLineCount + est) % MaxLineCount
                           ELSE LaterLine(delay(est))
    BY <1>5 DEF FieldDone
  <2>2. vblankLineCount + est \in Int /\ delay(est) \in Int
    BY <1>2, EstimateType, LinesAssumption
  <2> QED BY <1>1, <1>2, <1>3, <2>1, <2>2, LineRange
<1> QED BY <1>3, <1>4, <1>5, LinesAssumption

LEMMA OwingCpu == Owing /\ Cpu => Owing'
<1> SUFFICES ASSUME Owing, Cpu PROVE Owing'
  OBVIOUS
<1>1. CpuStep
  BY DEF Cpu, RamWrite, WriteFBCR, WriteTVMR, WriteTVMD, WriteENDR, ClockChange,
         WritePTMR, PlotTrigger
<1>2. CASE PlotTrigger
  BY <1>2 DEF PlotTrigger, Draw, Owing, Starting
<1>3. CASE WriteENDR
  BY <1>1, <1>3 DEF WriteENDR, CpuStep, Owing, Starting
<1>4. CASE ClockChange
  BY <1>1, <1>4 DEF ClockChange, CpuStep, Owing, Starting, walkVars
<1>5. CASE RamWrite \/ WriteFBCR \/ WriteTVMR \/ WriteTVMD \/ WritePTMR
  <2>1. UNCHANGED <<pc, status, site, waitLineCount, jobVars>>
    BY <1>5 DEF RamWrite, WriteFBCR, WriteTVMR, WriteTVMD, WritePTMR, walkVars
  <2> QED BY <2>1, OwingStutter DEF Starting
<1> QED BY <1>2, <1>3, <1>4, <1>5 DEF Cpu

LEMMA OwingLine == TypeOK /\ Paced /\ Owing /\ Emulator => Owing'
<1> SUFFICES ASSUME TypeOK, Paced, Owing, Emulator PROVE Owing'
  OBVIOUS
<1>1. CASE DrawCommands
  <2>1. /\ pc \in {"enter", "loop"} /\ pc' \in {"loop", "done"}
        /\ status' \in {status, "IDLE"}
        /\ UNCHANGED <<site, waitLineCount, owed, lost>>
    BY <1>1 DEF DrawCommands, EnterDrawCommands, OutOfBudget, AbortCommand,
         ExecuteCommand, SpendCommand, jobVars
  <2>2. Starting' <=> Starting
    BY <2>1 DEF Starting
  <2> QED BY <2>1, <2>2 DEF Paced, Owing
<1>2. CASE PlotDone
  <2>1. Starting /\ ~Starting' /\ UNCHANGED status /\ (UNCHANGED jobVars \/ DrawEnd)
    BY <1>2 DEF PlotDone, Starting, walkVars
  <2>2. CASE DrawEnd
    <3>1. status = "IDLE"
      BY <1>2, <2>2, Scheduled DEF DrawEnd
    <3> QED BY <2>1, <2>2, <3>1 DEF DrawEnd, Owing
  <2>3. CASE ~DrawEnd
    <3>1. waitLineCount' # -1
      BY <1>2, <2>3, Scheduled
    <3>2. (owed' <=> owed) /\ (lost' <=> lost)
      BY <2>1, <2>3 DEF jobVars
    <3> QED BY <2>1, <3>1, <3>2 DEF Owing
  <2> QED BY <2>2, <2>3
<1>3. CASE FieldDone
  <2>1. Starting /\ ~Starting' /\ UNCHANGED <<status, owed, lost>>
    BY <1>3 DEF FieldDone, Starting, walkVars, jobVars
  <2> QED BY <1>3, <2>1, Scheduled DEF Owing
<1>4. CASE LineEndField
  <2>1. CASE FieldDraws
    BY <1>4, <2>1 DEF LineEndField, Draw, Owing, Starting
  <2>2. CASE ~FieldDraws
    <3>1. /\ ~Starting /\ ~Starting' /\ UNCHANGED <<status, waitLineCount>>
          /\ (owed' <=> owed) /\ (lost' <=> lost)
      BY <1>4, <2>2 DEF LineEndField, Starting, walkVars
    <3> QED BY <3>1 DEF Owing
  <2> QED BY <2>1, <2>2
<1>5. CASE PollDrawEnd
  <2>1. ~Starting /\ ~Starting' /\ UNCHANGED status /\ status \in {"IDLE", "RUNNING"}
    BY <1>5 DEF PollDrawEnd, Starting, TypeOK, WalkType
  <2>2. CASE waitLineCount = lineCount /\ status = "IDLE"
    BY <1>5, <2>1, <2>2 DEF PollDrawEnd, DrawEnd, Owing
  <2>3. CASE waitLineCount = lineCount /\ status = "RUNNING"
    <3>1. lineCount # -1
      BY LinesFacts DEF TypeOK, LineType
    <3>2. /\ waitLineCount' = LaterLine(POLL_AGAIN)
          /\ (owed' <=> owed) /\ (lost' <=> lost)
      BY <1>5, <2>3 DEF PollDrawEnd, jobVars
    <3> QED BY <2>1, <2>3, <3>1, <3>2, Scheduled DEF Owing
  <2>4. CASE waitLineCount # lineCount
    <3>1. UNCHANGED <<status, waitLineCount, jobVars>>
      BY <1>5, <2>4 DEF PollDrawEnd
    <3> QED BY <2>1, <3>1, OwingStutter
  <2> QED BY <2>1, <2>2, <2>3, <2>4
<1>6. CASE LineEndNoField \/ NextLine
  <2>1. ~Starting /\ ~Starting' /\ UNCHANGED <<status, waitLineCount, jobVars>>
    BY <1>6 DEF LineEndNoField, NextLine, Starting, walkVars
  <2> QED BY <2>1, OwingStutter
<1> QED BY <1>1, <1>2, <1>3, <1>4, <1>5, <1>6 DEF Emulator

LEMMA OwingInvariant == Spec => []Owing
<1>1. Init => Owing
  BY DEF Init, Owing, Starting
<1>2. TypeOK /\ Paced /\ Owing /\ [Next]_vars => Owing'
  <2> SUFFICES ASSUME TypeOK, Paced, Owing, [Next]_vars PROVE Owing'
    OBVIOUS
  <2>1. CASE Next
    BY <2>1, OwingCpu, OwingLine DEF Next
  <2>2. CASE UNCHANGED vars
    <3>1. UNCHANGED <<pc, site, status, waitLineCount, jobVars>>
      BY <2>2 DEF vars, walkVars
    <3> QED BY <3>1, OwingStutter DEF Starting
  <2> QED BY <2>1, <2>2
<1> QED BY <1>1, <1>2, TypeCorrect, PacedInvariant, PTL DEF Spec

(* Whenever the game runs, the draw-end of a list being drawn is scheduled, *)
(* unless a clock change dropped it and no field or plot came since.       *)
THEOREM RunningPlotIsScheduled == Spec => []RunningIsScheduled
<1>1. TypeOK /\ Owing => RunningIsScheduled
  BY DEF Owing, Starting, RunningIsScheduled, TypeOK, FlagType
<1> QED BY <1>1, OwingInvariant, TypeCorrect, PTL

(* No draw-end is scheduled for a plot that was cancelled or never started. *)
THEOREM ScheduledDrawEndIsOwed == Spec => []NoUnownedDrawEnd
<1>1. Owing => NoUnownedDrawEnd
  BY DEF Owing, NoUnownedDrawEnd
<1> QED BY <1>1, OwingInvariant, PTL

-------------------------------------------------------------------------------
(* EDSR holds what is left of its power-on contents, and in its two lowest *)
(* bits the end of a list; while a list runs, CEF is a bit of the former.  *)
EndFlag ==
  /\ EDSR \div 4 = stray \div 4
  /\ status = "RUNNING" => (CEF <=> Bit1(stray))

(* The shift moves the same bit into EDSR.CEF and into what is left of the *)
(* power-on contents; setting CEF leaves the bits above it alone.          *)
LEMMA EdsrBits ==
  ASSUME TypeOK, EDSR \div 4 = stray \div 4
  PROVE  /\ ShiftEDSR => EDSR' \div 4 = stray' \div 4 /\ (CEF' <=> Bit1(stray)')
         /\ SetCEF => EDSR' \div 4 = stray' \div 4 /\ CEF'
<1>1. EDSR \in Nat /\ stray \in Nat
  BY DEF TypeOK, RegType
<1>2. \A n \in Nat : (n \div 2) \div 4 = (n \div 4) \div 2 /\ (n \div 2) \div 2 = n \div 4
  OBVIOUS
<1>3. ShiftEDSR => EDSR' \div 4 = stray' \div 4 /\ (CEF' <=> Bit1(stray)')
  BY <1>1, <1>2 DEF ShiftEDSR, CEF, Bit1
<1>4. ~CEF => (EDSR + 2) \div 4 = EDSR \div 4 /\ ((EDSR + 2) \div 2) % 2 = 1
  BY <1>1 DEF CEF, Bit1
<1>5. SetCEF => EDSR' \div 4 = stray' \div 4 /\ CEF'
  BY <1>4 DEF SetCEF, CEF, Bit1
<1> QED BY <1>3, <1>5

LEMMA EndFlagStep == TypeOK /\ Paced /\ EndFlag /\ [Next]_vars => EndFlag'
<1> SUFFICES ASSUME TypeOK, Paced, EndFlag, [Next]_vars PROVE EndFlag'
  OBVIOUS
<1>1. UNCHANGED endFlags /\ (status' = status \/ status' = "IDLE") => EndFlag'
  BY DEF EndFlag, CEF, Bit1, endFlags
<1>2. SetCEF /\ status' = "IDLE" => EndFlag'
  BY EdsrBits DEF EndFlag
<1>3. ShiftEDSR => EndFlag'
  BY EdsrBits DEF EndFlag
<1>4. CASE Cpu
  <2>1. CASE PlotTrigger
    BY <1>3, <2>1 DEF PlotTrigger
  <2>2. CASE ~PlotTrigger
    <3>1. UNCHANGED endFlags /\ (status' = status \/ status' = "IDLE")
      BY <1>4, <2>2 DEF Cpu, RamWrite, WriteFBCR, WriteTVMR, WriteTVMD, WriteENDR,
           ClockChange, WritePTMR, walkVars
    <3> QED BY <1>1, <3>1
  <2> QED BY <2>1, <2>2
<1>5. CASE DrawCommands
  <2>1. CASE AbortCommand
    BY <1>2, <2>1 DEF AbortCommand
  <2>2. CASE ~AbortCommand
    <3>1. UNCHANGED endFlags /\ (status' = status \/ status' = "IDLE")
      BY <1>5, <2>2 DEF DrawCommands, EnterDrawCommands, OutOfBudget, ExecuteCommand
    <3> QED BY <1>1, <3>1
  <2> QED BY <2>1, <2>2
<1>6. CASE PlotDone
  <2>1. UNCHANGED status /\ (UNCHANGED endFlags \/ (SetCEF /\ status = "IDLE"))
    BY <1>6 DEF PlotDone, DrawEnd, OverAtOnce, walkVars
  <2> QED BY <1>1, <1>2, <2>1
<1>7. CASE LineEndField
  <2>1. CASE Swap
    BY <1>3, <1>7, <2>1 DEF LineEndField
  <2>2. CASE ~Swap
    <3>1. UNCHANGED endFlags /\ UNCHANGED status
      BY <1>7, <2>2 DEF LineEndField, FieldDraws, Draw, walkVars
    <3> QED BY <1>1, <3>1
  <2> QED BY <2>1, <2>2
<1>8. CASE PollDrawEnd
  <2>1. UNCHANGED status /\ (UNCHANGED endFlags \/ (SetCEF /\ status = "IDLE"))
    BY <1>8 DEF PollDrawEnd, DrawEnd
  <2> QED BY <1>1, <1>2, <2>1
<1>9. CASE LineEndNoField \/ FieldDone \/ NextLine \/ UNCHANGED vars
  <2>1. UNCHANGED endFlags /\ UNCHANGED status
    BY <1>9 DEF LineEndNoField, FieldDone, NextLine, vars, walkVars
  <2> QED BY <1>1, <2>1
<1> QED BY <1>4, <1>5, <1>6, <1>7, <1>8, <1>9 DEF Next, Emulator

LEMMA EndFlagInvariant == Spec => []EndFlag
<1>1. Init => EndFlag
  BY DEF Init, EndFlag
<1> QED BY <1>1, EndFlagStep, TypeCorrect, PacedInvariant, PTL DEF Spec

(* Whatever the CPU does and whatever EDSR held at power-on, EDSR never    *)
(* says "ended" of a list that is drawn, but for a power-on bit on its way *)
(* through CEF.                                                            *)
THEOREM EndFlagMeansEnded == Spec => []NoEndFlagWhileDrawing
<1>1. EndFlag => NoEndFlagWhileDrawing
  BY DEF EndFlag, NoEndFlagWhileDrawing
<1> QED BY <1>1, EndFlagInvariant, PTL
-------------------------------------------------------------------------------
(* Every step of the pipeline is a step of the abstract job or leaves it   *)
(* alone; one lemma per group of actions.                                  *)
job == IF owed THEN IF status = "RUNNING" THEN "drawing" ELSE "due"
       ELSE IF lost /\ status = "RUNNING" THEN "unscheduled" ELSE "none"

JobStep == [Job!Next]_(Job!vars)

LEMMA JobStepDefinition ==
  JobStep <=> \/ job' = "drawing" /\ stray' = stray \div 2 /\ CEF' = Bit1(stray')
              \/ stray' = stray \div 2 /\ CEF' = Bit1(stray') /\ UNCHANGED job
              \/ /\ \/ job = "drawing" /\ job' = "due"
                    \/ job = "unscheduled" /\ job' = "none"
                 /\ CEF' \in {CEF, TRUE}
                 /\ UNCHANGED stray
              \/ job = "due" /\ job' = "none" /\ CEF' = TRUE /\ UNCHANGED stray
              \/ job = "drawing" /\ job' = "unscheduled" /\ UNCHANGED <<CEF, stray>>
              \/ job = "unscheduled" /\ job' = "drawing" /\ UNCHANGED <<CEF, stray>>
              \/ job # "none" /\ job' = "none" /\ UNCHANGED <<CEF, stray>>
              \/ UNCHANGED <<job, CEF, stray>>
BY DEF JobStep, Job!Next, Job!vars, Job!Start, Job!Change, Job!Shift, Job!Flag, Job!Finish,
       Job!Deliver, Job!Drop, Job!Reschedule, Job!Cancel, job, Bit1

(* A step that touches neither the list, its debt nor EDSR leaves the job alone. *)
LEMMA JobStutter ==
  ASSUME UNCHANGED <<status, jobVars, endFlags>>
  PROVE  JobStep
<1>1. UNCHANGED <<job, CEF, stray>>
  BY DEF job, CEF, Bit1, jobVars, endFlags
<1> QED BY <1>1, JobStepDefinition

(* The start of a list. *)
LEMMA JobStart ==
  ASSUME TypeOK, EndFlag, ShiftEDSR
  PROVE  /\ stray' = stray \div 2 /\ CEF' = Bit1(stray')
         /\ job' \in {"drawing", job} => JobStep
<1>1. stray' = stray \div 2
  BY DEF ShiftEDSR
<1>2. CEF' = Bit1(stray')
  BY EdsrBits DEF EndFlag, CEF, Bit1
<1> QED BY <1>1, <1>2, JobStepDefinition

LEMMA JobCpu == TypeOK /\ EndFlag /\ Owing /\ Cpu => JobStep
<1> SUFFICES ASSUME TypeOK, EndFlag, Owing, Cpu PROVE JobStep
  OBVIOUS
<1>1. UNCHANGED endFlags => UNCHANGED <<CEF, stray>>
  BY DEF CEF, Bit1, endFlags
<1>2. CASE PlotTrigger
  <2>1. job' = "drawing"
    BY <1>2 DEF PlotTrigger, Draw, job
  <2> QED BY <1>2, <2>1, JobStart DEF PlotTrigger
<1>3. CASE WriteENDR
  <2>1. job' = "none" /\ UNCHANGED endFlags
    BY <1>3 DEF WriteENDR, job
  <2> QED BY <1>1, <2>1, JobStepDefinition
<1>4. CASE ClockChange
  <2>1. UNCHANGED <<endFlags, status>> /\ owed' = FALSE /\ lost' = (owed \/ lost)
    BY <1>4 DEF ClockChange, walkVars
  <2>2. CASE status = "RUNNING"
    <3>1. lost' /\ job \in {"drawing", "unscheduled"} /\ job' = "unscheduled"
      BY <2>1, <2>2 DEF Owing, job
    <3> QED BY <1>1, <2>1, <3>1, JobStepDefinition
  <2>3. CASE status # "RUNNING"
    <3>1. job' = "none"
      BY <2>1, <2>3 DEF job
    <3> QED BY <1>1, <2>1, <3>1, JobStepDefinition
  <2> QED BY <2>2, <2>3
<1>5. CASE RamWrite \/ WriteFBCR \/ WriteTVMR \/ WriteTVMD \/ WritePTMR
  <2>1. UNCHANGED <<status, jobVars, endFlags>>
    BY <1>5 DEF RamWrite, WriteFBCR, WriteTVMR, WriteTVMD, WritePTMR, walkVars
  <2> QED BY <2>1, JobStutter
<1> QED BY <1>2, <1>3, <1>4, <1>5 DEF Cpu

(* The list ends inside Vdp1DrawCommands: the job turns from drawing to    *)
(* due, with CEF already set when a command error ended it; the end of an  *)
(* unscheduled list goes unreported.                                       *)
LEMMA JobDrawCommands ==
  TypeOK /\ Paced /\ EndFlag /\ Owing /\ DrawCommands => JobStep
<1> SUFFICES ASSUME TypeOK, Paced, EndFlag, Owing, DrawCommands PROVE JobStep
  OBVIOUS
<1>1. status = "RUNNING" /\ (owed \/ lost) /\ UNCHANGED jobVars
  BY DEF DrawCommands, EnterDrawCommands, OutOfBudget, AbortCommand,
         ExecuteCommand, SpendCommand, Paced, Owing
<1>2. CASE UNCHANGED <<status, endFlags>>
  BY <1>1, <1>2, JobStutter
<1>3. CASE status' = "IDLE" /\ (UNCHANGED endFlags \/ SetCEF)
  <2>1. \/ job = "drawing" /\ job' = "due"
        \/ job = "unscheduled" /\ job' = "none"
    BY <1>1, <1>3 DEF job, jobVars
  <2>2. CEF' \in {CEF, TRUE} /\ UNCHANGED stray
    <3>1. UNCHANGED endFlags => UNCHANGED <<CEF, stray>>
      BY DEF CEF, Bit1, endFlags
    <3>2. SetCEF => CEF' = TRUE /\ UNCHANGED stray
      BY EdsrBits DEF EndFlag, CEF, Bit1, SetCEF
    <3> QED BY <1>3, <3>1, <3>2
  <2> QED BY <2>1, <2>2, JobStepDefinition
<1> QED BY <1>2, <1>3 DEF DrawCommands, EnterDrawCommands, OutOfBudget, AbortCommand,
      ExecuteCommand

(* The draw-end of a plot that is due is delivered. *)
LEMMA JobDeliver ==
  ASSUME TypeOK, EndFlag, Owing, status = "IDLE", status' = "IDLE", owed, DrawEnd
  PROVE  JobStep
<1>1. job = "due" /\ job' = "none"
  BY DEF job, DrawEnd
<1>2. CEF' = TRUE /\ UNCHANGED stray
  BY EdsrBits DEF EndFlag, CEF, Bit1, DrawEnd, SetCEF
<1> QED BY <1>1, <1>2, JobStepDefinition

LEMMA JobLine == TypeOK /\ Paced /\ EndFlag /\ Owing /\ Emulator => JobStep
<1> SUFFICES ASSUME TypeOK, Paced, EndFlag, Owing, Emulator PROVE JobStep
  OBVIOUS
<1>1. CASE DrawCommands
  BY <1>1, JobDrawCommands
<1>2. CASE PlotDone
  <2>1. UNCHANGED status /\ owed
    BY <1>2 DEF PlotDone, Owing, Starting, walkVars
  <2>2. \/ status = "IDLE" /\ DrawEnd
        \/ UNCHANGED <<endFlags, jobVars>>
    BY <1>2 DEF PlotDone, OverAtOnce
  <2> QED BY <2>1, <2>2, JobDeliver, JobStutter
<1>3. CASE PollDrawEnd
  <2>1. waitLineCount = lineCount => owed
    BY LinesFacts DEF Owing, TypeOK, LineType
  <2>2. UNCHANGED status
    BY <1>3 DEF PollDrawEnd
  <2>3. \/ waitLineCount = lineCount /\ status = "IDLE" /\ DrawEnd
        \/ UNCHANGED <<endFlags, jobVars>>
    BY <1>3 DEF PollDrawEnd
  <2> QED BY <2>1, <2>2, <2>3, JobDeliver, JobStutter
<1>4. CASE LineEndField
  <2>1. CASE FieldDraws
    <3>1. status' = "RUNNING" /\ job' = "drawing"
      BY <1>4, <2>1 DEF LineEndField, Draw, job
    <3>2. CASE Swap
      BY <1>4, <3>1, <3>2, JobStart DEF LineEndField
    <3>3. CASE ~Swap
      <4>1. job \in {"drawing", "unscheduled"}
        BY <2>1, <3>3 DEF FieldDraws, Owing, job
      <4>2. UNCHANGED <<CEF, stray>>
        BY <1>4, <3>3 DEF LineEndField, CEF, Bit1, endFlags
      <4> QED BY <3>1, <4>1, <4>2, JobStepDefinition
    <3> QED BY <3>2, <3>3
  <2>2. CASE ~FieldDraws
    <3>1. UNCHANGED status /\ (owed' <=> owed) /\ (lost' <=> lost)
      BY <1>4, <2>2 DEF LineEndField, walkVars
    <3>2. UNCHANGED job
      BY <3>1 DEF job
    <3>3. CASE Swap
      BY <1>4, <3>2, <3>3, JobStart DEF LineEndField
    <3>4. CASE ~Swap
      <4>1. UNCHANGED <<CEF, stray>>
        BY <1>4, <3>4 DEF LineEndField, CEF, Bit1, endFlags
      <4> QED BY <3>2, <4>1, JobStepDefinition
    <3> QED BY <3>3, <3>4
  <2> QED BY <2>1, <2>2
<1>5. CASE LineEndNoField \/ FieldDone \/ NextLine
  <2>1. UNCHANGED <<status, jobVars, endFlags>>
    BY <1>5 DEF LineEndNoField, FieldDone, NextLine, walkVars
  <2> QED BY <2>1, JobStutter
<1> QED BY <1>1, <1>2, <1>3, <1>4, <1>5 DEF Emulator

(* The pipeline keeps its promise: a draw-end for every plot that is not   *)
(* cancelled and whose schedule no clock change drops, never before the    *)
(* list is over and never twice, whatever EDSR held at power-on.           *)
THEOREM PipelineImplementsPlotJob == Spec => PlotJobSpec
<1>1. Init => Job!Init
  BY RamAssumption DEF Init, Job!Init, Job!Flag, CEF, Bit1
<1>2. TypeOK /\ Paced /\ EndFlag /\ Owing /\ [Next]_vars => JobStep
  <2>1. UNCHANGED vars => JobStep
    BY JobStutter DEF vars, walkVars
  <2> QED BY <2>1, JobCpu, JobLine DEF Next
<1> QED BY <1>1, <1>2, TypeCorrect, PacedInvariant, EndFlagInvariant, OwingInvariant, PTL
     DEF Spec, PlotJobSpec, Job!Spec, JobStep
-------------------------------------------------------------------------------
(* In one-cycle mode the displayed buffer is erased and then handed over,  *)
(* so that the list a frame change starts finds no pixel of an earlier one. *)
THEOREM OneCycleHandsOverAnErasedBuffer == Spec => OneCycleStartsClean
<1>1. TypeOK /\ [Next]_vars => [LineEndField /\ OneCycle => ~dirty'["back"]]_vars
  <2> SUFFICES ASSUME TypeOK, LineEndField, OneCycle PROVE ~dirty'["back"]
    OBVIOUS
  <2>1. dirty' = Change(Erase(dirty))
    BY DEF LineEndField, FrameOps, Swap
  <2>2. Erase(dirty)["front"] = FALSE
    BY DEF Erase, TypeOK, FlagType
  <2> QED
    BY <2>1, <2>2 DEF Change
<1> QED
  BY <1>1, TypeCorrect, PTL DEF Spec, OneCycleStartsClean
-------------------------------------------------------------------------------
(* The order of the natural numbers, for proofs by the least counterexample. *)
Less == {ss \in Nat \X Nat : ss[1] < ss[2]}

LEMMA Least ==
  ASSUME NEW T \in SUBSET Nat, T # {}
  PROVE  \E m \in T : \A k \in T : m <= k
<1>1. IsWellFoundedOn(Less, Nat)
  BY NatLessThanWellFounded DEF OpToRel, Less
<1>2. T \subseteq Nat
  OBVIOUS
<1>3. \E x \in T : \A y \in T : ~(<<y, x>> \in Less)
  BY ONLY <1>2, T # {}, <1>1, WFMin, Zenon
<1>4. \A a, b \in Nat : a < b => <<a, b>> \in Less
  BY DEF Less
<1>5. PICK m \in T : \A k \in T : ~(<<k, m>> \in Less)
  BY <1>3
<1>6. \A k \in T : ~(k < m)
  BY <1>2, <1>4, <1>5, Zenon
<1>7. \A a, b \in Nat : ~(a < b) => b <= a
  OBVIOUS
<1>8. \A k \in T : m <= k
  BY <1>2, <1>6, <1>7, Zenon
<1> QED
  BY <1>8, Zenon

(* Inside the RAM a command has one successor.  The return address it      *)
(* leaves is the one it found, none, or the command after it.              *)
LEMMA AfterInRam ==
  ASSUME TypeOK, NEW a \in Addr, NEW r
  PROVE  \E b, s : After(a, r) = {<<b, s>>} /\ s \in {r, NoAddr, a + 1}
<1> DEFINE jump == Fetch(a).jump
<1>1. Slots \in Nat \ {0} /\ a \in Nat /\ a < Slots
  BY RamAssumption DEF Addr
<1>2. jump \in {"next", "assign", "call", "return"}
  BY <1>1, FetchType, CommandType
<1>3. Links(a) = {ram[a].link}
  BY <1>1 DEF Links
<1>4. CASE jump = "next"
  <2>1. After(a, r) = {<<a + 1, r>>}
    BY <1>4 DEF After
  <2> QED
    BY <2>1
<1>5. CASE jump = "assign"
  <2>1. After(a, r) = {<<ram[a].link, r>>}
    BY <1>3, <1>5 DEF After
  <2> QED
    BY <2>1
<1>6. CASE jump = "call"
  <2> DEFINE s == IF r = NoAddr THEN a + 1 ELSE r
  <2>1. After(a, r) = {<<ram[a].link, s>>}
    BY <1>3, <1>6 DEF After
  <2>2. s \in {r, NoAddr, a + 1}
    OBVIOUS
  <2> HIDE DEF s
  <2> QED
    BY <2>1, <2>2
<1>7. CASE jump = "return"
  <2>1. After(a, r) = {<<a + 1, r>>} \/ After(a, r) = {<<r, NoAddr>>}
    BY <1>7 DEF After
  <2> QED
    BY <2>1
<1> QED
  BY <1>2, <1>4, <1>5, <1>6, <1>7
-------------------------------------------------------------------------------
(* One step of the one-shot walk, and the walk as a sequence of steps. *)
Steps == (Slots + 1) * (Slots + 2)

Goes(p) ==
  IF p[1] >= Slots \/ IsEnd(p[1]) THEN p ELSE CHOOSE next \in After(p[1], p[2]) : TRUE

WalkStep(w, n) == IF n = 0 THEN <<0, plotReturn>> ELSE Goes(w[n - 1])

IsWalk(w) == w = [n \in 0 .. Steps |-> WalkStep(w, n)]

LEMMA StepsType == Slots \in Nat \ {0} /\ Steps \in Nat /\ Steps > 0
<1>1. Slots \in Nat \ {0}
  BY RamAssumption
<1>2. Steps = Slots * Slots + 3 * Slots + 2
  BY <1>1 DEF Steps
<1>3. Slots * Slots \in Nat
  BY <1>1
<1> HIDE DEF Steps
<1> QED
  BY <1>1, <1>2, <1>3

(* The recursion has a solution. *)
LEMMA WalkExists == \E w : IsWalk(w)
<1> DEFINE Solved(k) == \E w : w = [n \in 0 .. k |-> WalkStep(w, n)]
           T == {k \in 0 .. Steps : ~Solved(k)}
<1> SUFFICES ASSUME ~Solved(Steps) PROVE FALSE
  BY DEF IsWalk
<1>1. T \in SUBSET Nat /\ T # {}
  BY StepsType
<1>2. PICK m \in T : \A k \in T : m <= k
  BY <1>1, Least
<1>3. m # 0
  <2> DEFINE g == [n \in 0 .. 0 |-> <<0, plotReturn>>]
  <2>1. g = [n \in 0 .. 0 |-> WalkStep(g, n)]
    BY DEF WalkStep
  <2> QED
    BY <2>1
<1>4. m - 1 \in 0 .. Steps /\ m - 1 \notin T /\ m \in Nat
  BY StepsType, <1>2, <1>3
<1>5. PICK w : w = [n \in 0 .. m - 1 |-> WalkStep(w, n)]
  BY <1>4
<1> DEFINE g == [n \in 0 .. m |-> IF n = m THEN WalkStep(w, m) ELSE w[n]]
<1>6. g = [n \in 0 .. m |-> WalkStep(g, n)]
  <2>1. ASSUME NEW n \in 0 .. m PROVE g[n] = WalkStep(g, n)
    <3>1. n # 0 => g[n - 1] = w[n - 1]
      BY <1>3, <1>4
    <3>2. WalkStep(g, n) = WalkStep(w, n)
      BY <3>1 DEF WalkStep
    <3>3. CASE n = m
      BY <3>2, <3>3
    <3>4. CASE n # m
      <4>1. n \in 0 .. m - 1
        BY <3>4, <1>4
      <4>2. w[n] = WalkStep(w, n)
        BY <4>1, <1>5
      <4> QED
        BY <4>2, <3>2, <3>4, <1>4
    <3> QED
      BY <3>3, <3>4
  <2> HIDE DEF g
  <2>2. g = [n \in 0 .. m |-> g[n]]
    BY DEF g
  <2> QED
    BY <2>1, <2>2
<1> QED
  BY <1>6, <1>2

LEMMA OneShotWalk ==
  \E w : IsWalk(w) /\ OneShot = {w[n] : n \in 0 .. Steps}
<1> DEFINE h == CHOOSE w : w = [n \in 0 .. Steps |-> WalkStep(w, n)]
<1>1. OneShot = {h[n] : n \in DOMAIN h}
  BY DEF OneShot, WalkStep, Goes, Steps
<1>2. h = [n \in 0 .. Steps |-> WalkStep(h, n)]
  BY WalkExists DEF IsWalk
<1>3. DOMAIN h = 0 .. Steps
  BY <1>2
<1> QED
  BY <1>1, <1>2, <1>3 DEF IsWalk

(* The one-shot walk stays in the RAM. *)
InRam == \A p \in OneShot : p[1] < Slots

(* Its positions: an address of the RAM, and one of Slots + 2 return addresses. *)
Positions == Addr \X (1 .. Slots \cup {NoAddr, plotReturn})

LEMMA GoesInRam ==
  ASSUME TypeOK, NEW p \in Positions
  PROVE  /\ Goes(p)[1] \in Nat
         /\ Goes(p) = <<Goes(p)[1], Goes(p)[2]>>
         /\ Goes(p)[2] \in 1 .. Slots \cup {NoAddr, plotReturn}
         /\ ~IsEnd(p[1]) => After(p[1], p[2]) = {Goes(p)}
<1>1. /\ Slots \in Nat \ {0} /\ plotReturn \in Nat \cup {NoAddr}
      /\ p[1] \in Addr /\ p[1] \in Nat /\ p[1] < Slots
      /\ p[2] \in 1 .. Slots \cup {NoAddr, plotReturn}
      /\ p = <<p[1], p[2]>>
  BY RamAssumption DEF Positions, Addr, TypeOK, WalkType
<1>2. p[2] \in Nat \cup {NoAddr} /\ p[1] + 1 \in 1 .. Slots
  BY <1>1
<1>3. CASE IsEnd(p[1])
  BY <1>1, <1>3 DEF Goes
<1>4. CASE ~IsEnd(p[1])
  <2>1. PICK b, s : /\ After(p[1], p[2]) = {<<b, s>>}
                    /\ s \in {p[2], NoAddr, p[1] + 1}
    BY <1>1, AfterInRam
  <2>2. ~(p[1] >= Slots)
    BY <1>1
  <2>3. Goes(p) = <<b, s>>
    BY <2>1, <2>2, <1>4 DEF Goes
  <2>4. b \in Nat
    <3>1. <<b, s>> \in After(p[1], p[2])
      BY <2>1
    <3>2. <<b, s>>[1] \in Nat
      BY ONLY TypeOK, <1>1, <1>2, <3>1, AfterType
    <3> QED
      BY <3>2
  <2> QED
    BY <1>1, <1>2, <2>1, <2>3, <2>4
<1> QED
  BY <1>3, <1>4

(* Every position of a one-shot walk that stays in the RAM is one of these. *)
LEMMA WalkPositions ==
  ASSUME TypeOK, InRam, NEW w, IsWalk(w), OneShot = {w[n] : n \in 0 .. Steps}
  PROVE  /\ \A n \in 0 .. Steps : w[n] \in Positions
         /\ \A n \in 1 .. Steps : w[n] = Goes(w[n - 1])
<1>1. Slots \in Nat \ {0} /\ Steps \in Nat
  BY StepsType
<1>2. w[0] = <<0, plotReturn>> /\ \A n \in 1 .. Steps : w[n] = Goes(w[n - 1])
  BY <1>1 DEF IsWalk, WalkStep
<1> DEFINE T == {n \in 0 .. Steps : w[n] \notin Positions}
<1>3. CASE T = {}
  BY <1>2, <1>3
<1>4. CASE T # {}
  <2>1. T \in SUBSET Nat
    BY <1>1
  <2>2. PICK m \in T : \A k \in T : m <= k
    BY <1>4, <2>1, Least
  <2>3. m # 0
    <3>1. w[0] \in Positions
      BY <1>1, <1>2 DEF Positions, Addr
    <3> QED
      BY <3>1
  <2>4. m \in 1 .. Steps /\ m - 1 \in 0 .. Steps /\ m - 1 \notin T
    BY <1>1, <2>2, <2>3
  <2>5. w[m - 1] \in Positions
    BY <2>4
  <2>6. w[m] = Goes(w[m - 1]) /\ w[m] \in OneShot
    BY <1>2, <2>4
  <2>7. w[m][1] < Slots
    BY <2>6 DEF InRam
  <2>8. /\ w[m] = <<w[m][1], w[m][2]>>
        /\ w[m][1] \in Nat
        /\ w[m][2] \in 1 .. Slots \cup {NoAddr, plotReturn}
    BY <2>5, <2>6, GoesInRam
  <2>9. w[m][1] \in Addr
    BY <1>1, <2>7, <2>8 DEF Addr
  <2>10. w[m] \in Positions
    BY <2>8, <2>9 DEF Positions
  <2> QED
    BY <2>10
<1> QED
  BY <1>3, <1>4

(* There are fewer positions than steps. *)
LEMMA PositionsAreFew ==
  IsFiniteSet(Positions) /\ Cardinality(Positions) \in Nat /\ Cardinality(Positions) < Steps
<1> DEFINE I == 1 .. Slots
           J == I \cup {NoAddr}
           K == J \cup {plotReturn}
<1>1. Slots \in Nat \ {0}
  BY RamAssumption
<1>2. IsFiniteSet(I) /\ Cardinality(I) = Slots
  BY <1>1, FS_Interval
<1>3. IsFiniteSet(Addr) /\ Cardinality(Addr) = Slots
  BY <1>1, FS_Interval DEF Addr
<1>4. IsFiniteSet(J) /\ Cardinality(J) \in {Slots, Slots + 1}
  <2> HIDE DEF I
  <2> QED
    BY <1>2, FS_AddElement
<1>5. IsFiniteSet(K) /\ Cardinality(K) \in {Slots, Slots + 1, Slots + 2}
  <2>1. Cardinality(K) \in {Cardinality(J), Cardinality(J) + 1} /\ IsFiniteSet(K)
    <3> HIDE DEF J
    <3> QED
      BY <1>4, FS_AddElement
  <2> HIDE DEF J, K
  <2> QED
    BY <1>1, <1>4, <2>1
<1>6. Positions = Addr \X K
  BY DEF Positions
<1>7. /\ IsFiniteSet(Positions)
      /\ Cardinality(Positions) = Slots * Cardinality(K)
  <2> HIDE DEF K
  <2> QED
    BY <1>3, <1>5, <1>6, FS_Product
<1>8. /\ Slots * Slots \in Nat
      /\ Slots * (Slots + 1) = Slots * Slots + Slots
      /\ Slots * (Slots + 2) = Slots * Slots + 2 * Slots
      /\ Steps = Slots * Slots + 3 * Slots + 2
  BY <1>1 DEF Steps
<1> HIDE DEF K, Steps
<1>9. Cardinality(Positions) \in
        {Slots * Slots, Slots * Slots + Slots, Slots * Slots + 2 * Slots}
  BY <1>5, <1>7, <1>8
<1> DEFINE q == Slots * Slots
<1>10. q \in Nat /\ Steps = q + 3 * Slots + 2 /\ Cardinality(Positions) \in {q, q + Slots, q + 2 * Slots}
  BY <1>8, <1>9
<1> HIDE DEF q
<1> QED
  BY <1>1, <1>7, <1>10

(* A walk that stays in the RAM comes back to a position it was at. *)
LEMMA WalkRepeats ==
  ASSUME TypeOK, InRam, NEW w, IsWalk(w), OneShot = {w[n] : n \in 0 .. Steps}
  PROVE  \E i, j \in 0 .. Steps : i < j /\ w[i] = w[j]
<1>1. Steps \in Nat
  BY StepsType
<1>2. IsFiniteSet(0 .. Steps) /\ Cardinality(0 .. Steps) = Steps + 1
  BY <1>1, FS_Interval
<1>3. w \in [0 .. Steps -> Positions]
  <2>1. w = [n \in 0 .. Steps |-> WalkStep(w, n)]
    BY DEF IsWalk
  <2>2. \A n \in 0 .. Steps : w[n] \in Positions
    BY WalkPositions
  <2>3. w = [n \in 0 .. Steps |-> w[n]]
    BY <2>1
  <2> QED
    BY <2>2, <2>3
<1>4. Cardinality(Positions) < Cardinality(0 .. Steps)
  BY <1>1, <1>2, PositionsAreFew
<1>5. PICK i, j \in 0 .. Steps : i # j /\ w[i] = w[j]
  BY ONLY <1>2, <1>3, <1>4, PositionsAreFew, FS_PigeonHole
<1> QED
  BY <1>1, <1>5

(* ... and goes round from there, so that it ends where it has been before: *)
(* a longer walk would reach nothing new.                                  *)
LEMMA WalkGoesRound ==
  ASSUME TypeOK, InRam, NEW w, IsWalk(w), OneShot = {w[n] : n \in 0 .. Steps}
  PROVE  \E n \in 0 .. Steps - 1 : w[n] = w[Steps]
<1>1. Steps \in Nat
  BY StepsType
<1>2. PICK i, j \in 0 .. Steps : i < j /\ w[i] = w[j]
  BY WalkRepeats
<1>3. \A n \in 1 .. Steps : w[n] = Goes(w[n - 1])
  BY WalkPositions
<1> DEFINE d == j - i
           T == {n \in j .. Steps : w[n] # w[n - d]}
<1>4. d \in 1 .. Steps
  BY <1>1, <1>2
<1>5. CASE T # {}
  <2>1. T \in SUBSET Nat
    BY <1>1
  <2>2. PICK m \in T : \A k \in T : m <= k
    BY <1>5, <2>1, Least
  <2>3. m # j
    <3>1. j - d = i
      BY <1>1
    <3> QED
      BY <1>2, <3>1
  <2>4. m - 1 \in j .. Steps /\ m - 1 \notin T
    BY <1>1, <2>2, <2>3
  <2>5. w[m - 1] = w[m - 1 - d]
    BY <2>4
  <2>6. w[m] = Goes(w[m - 1])
    BY <1>1, <1>2, <1>3, <2>4
  <2>7. w[m - d] = Goes(w[m - 1 - d])
    <3>1. m - d \in 1 .. Steps /\ (m - d) - 1 = m - 1 - d
      BY <1>1, <1>2, <2>4
    <3> QED
      BY <1>3, <3>1
  <2> QED
    BY <2>5, <2>6, <2>7
<1>6. CASE T = {}
  <2>1. Steps \in j .. Steps
    BY <1>1, <1>2
  <2>2. w[Steps] = w[Steps - d]
    BY <1>6, <2>1
  <2>3. Steps - d \in 0 .. Steps - 1
    BY <1>1, <1>4
  <2> HIDE DEF d
  <2> QED
    BY <2>2, <2>3
<1> QED
  BY <1>5, <1>6

(* The one-shot walk visits the successor of every command it visits. *)
LEMMA OneShotClosed ==
  ASSUME TypeOK, InRam, NEW p \in OneShot
  PROVE  p \in Positions /\ Goes(p) \in OneShot
<1>1. PICK w : IsWalk(w) /\ OneShot = {w[n] : n \in 0 .. Steps}
  BY OneShotWalk
<1>2. /\ \A n \in 0 .. Steps : w[n] \in Positions
      /\ \A n \in 1 .. Steps : w[n] = Goes(w[n - 1])
  BY <1>1, WalkPositions
<1>3. Steps \in Nat
  BY StepsType
<1>4. PICK n \in 0 .. Steps : p = w[n]
  BY <1>1
<1>5. PICK k \in 0 .. Steps - 1 : p = w[k]
  <2>1. CASE n = Steps
    BY <1>1, <1>4, <2>1, WalkGoesRound
  <2>2. CASE n # Steps
    BY <1>3, <1>4, <2>2
  <2> QED
    BY <2>1, <2>2
<1>6. k + 1 \in 1 .. Steps /\ k + 1 \in 0 .. Steps /\ (k + 1) - 1 = k
  BY <1>3
<1>7. w[k + 1] = Goes(p)
  BY <1>2, <1>5, <1>6
<1> QED
  BY <1>1, <1>2, <1>4, <1>6, <1>7

(* ... and starts at the head of the list. *)
LEMMA OneShotStarts == <<0, plotReturn>> \in OneShot
<1>1. PICK w : IsWalk(w) /\ OneShot = {w[n] : n \in 0 .. Steps}
  BY OneShotWalk
<1>2. 0 \in 0 .. Steps
  BY StepsType
<1>3. w[0] = <<0, plotReturn>>
  BY <1>1, <1>2 DEF IsWalk, WalkStep
<1> QED
  BY <1>1, <1>2, <1>3
-------------------------------------------------------------------------------
(* Where the VDP1 stands in an unedited list: at a position of the one-shot *)
(* walk, with the return address in the local while Vdp1DrawCommands loops *)
(* and in the static between its calls.  The loop never stands at an END.  *)
Following ==
  status = "RUNNING" /\ ~edited /\ InRam =>
    <<addr, IF pc = "loop" THEN returnAddr ELSE softReturnAddr>> \in OneShot

NotAtEnd == pc = "loop" => ~IsEnd(addr)

OnTheWay == Following /\ NotAtEnd

LEMMA SameWalk ==
  ASSUME UNCHANGED <<ram, plotReturn>>
  PROVE  /\ UNCHANGED <<OneShot, InRam>>
         /\ \A a : IsEnd(a)' = IsEnd(a)
<1>1. \A a : IsEnd(a)' = IsEnd(a)
  BY DEF IsEnd, Fetch
<1>2. UNCHANGED OneShot
  BY DEF OneShot, After, Links, Fetch, IsEnd
<1> QED
  BY <1>1, <1>2 DEF InRam

(* A step that leaves the walker and the list alone. *)
LEMMA StandsStill ==
  ASSUME OnTheWay,
         UNCHANGED <<ram, plotReturn, addr, returnAddr, softReturnAddr>>,
         edited => edited',
         status' = "RUNNING" => status = "RUNNING",
         pc # "loop", pc' # "loop"
  PROVE  OnTheWay'
<1>1. NotAtEnd'
  BY DEF NotAtEnd
<1>2. UNCHANGED <<OneShot, InRam>>
  BY SameWalk
<1>3. Following'
  BY <1>2 DEF OnTheWay, Following
<1> QED
  BY <1>1, <1>3 DEF OnTheWay

(* Vdp1Draw: a list that starts at its head starts its one-shot walk, one  *)
(* that goes on stands where it stood.                                     *)
LEMMA DrawOnTheWay ==
  ASSUME TypeOK, OnTheWay, pc # "loop", UNCHANGED ram, NEW from, NEW head,
         head \in {0, addr}, Draw(from, head)
  PROVE  OnTheWay'
<1>1. pc' = "enter" /\ UNCHANGED softReturnAddr
  BY DEF Draw
<1>2. NotAtEnd'
  BY <1>1 DEF NotAtEnd
<1>3. CASE addr' = 0
  <2>1. plotReturn' = softReturnAddr'
    BY <1>3 DEF Draw
  <2>2. <<0, plotReturn'>> \in OneShot'
    <3>1. (<<0, plotReturn>> \in OneShot)'
      BY OneShotStarts, PTL
    <3> QED
      BY <3>1
  <2> QED
    BY <1>1, <1>2, <1>3, <2>1, <2>2 DEF OnTheWay, Following
<1>4. CASE addr' # 0
  <2>1. status = "RUNNING" /\ addr' = addr /\ UNCHANGED plotReturn /\ (edited' <=> edited)
    BY <1>4 DEF Draw, TypeOK, WalkType
  <2>2. UNCHANGED <<OneShot, InRam>>
    BY <2>1, SameWalk
  <2> QED
    BY <1>1, <1>2, <2>1, <2>2 DEF OnTheWay, Following
<1> QED
  BY <1>3, <1>4

LEMMA OnTheWayCpu == TypeOK /\ Paced /\ OnTheWay /\ Cpu => OnTheWay'
<1> SUFFICES ASSUME TypeOK, Paced, OnTheWay, Cpu PROVE OnTheWay'
  OBVIOUS
<1>1. pc = "cpu"
  BY DEF Cpu, RamWrite, WriteFBCR, WriteTVMR, WriteTVMD, WriteENDR, ClockChange,
         WritePTMR, PlotTrigger, CpuStep
<1>2. CASE PlotTrigger
  BY <1>1, <1>2, DrawOnTheWay DEF PlotTrigger
<1>3. CASE RamWrite \/ ClockChange
  <2>1. pc' = "cpu" /\ edited'
    BY <1>1, <1>3 DEF RamWrite, ClockChange
  <2> QED
    BY <2>1 DEF OnTheWay, Following, NotAtEnd
<1>4. CASE WriteFBCR \/ WriteTVMR \/ WriteTVMD \/ WriteENDR \/ WritePTMR
  <2>1. /\ UNCHANGED <<ram, plotReturn, addr, returnAddr, softReturnAddr, pc>>
        /\ edited => edited'
        /\ status' = "RUNNING" => status = "RUNNING"
    BY <1>4 DEF WriteFBCR, WriteTVMR, WriteTVMD, WriteENDR, WritePTMR, walkVars, histVars
  <2> QED
    BY <1>1, <2>1, StandsStill
<1> QED
  BY <1>2, <1>3, <1>4 DEF Cpu

(* A command is executed: the walker moves to the next position. *)
LEMMA ExecuteOnTheWay == TypeOK /\ Paced /\ OnTheWay /\ ExecuteCommand => OnTheWay'
<1> SUFFICES ASSUME TypeOK, Paced, OnTheWay, ExecuteCommand PROVE OnTheWay'
  OBVIOUS
<1>1. /\ pc = "loop"
      /\ UNCHANGED <<ram, plotReturn>>
      /\ UNCHANGED edited
    BY DEF ExecuteCommand, SpendCommand, histVars
<1>2. UNCHANGED <<OneShot, InRam>> /\ \A a : IsEnd(a)' = IsEnd(a)
  BY <1>1, SameWalk
<1>3. PICK next \in After(addr, returnAddr) :
        /\ addr' = next[1]
        /\ IF IsEnd(next[1])
           THEN /\ status' = "IDLE" /\ pc' = "done"
                /\ softReturnAddr' = next[2] /\ returnAddr' = NoAddr
           ELSE /\ returnAddr' = next[2]
                /\ UNCHANGED <<status, pc, softReturnAddr>>
  BY DEF ExecuteCommand
<1>4. CASE IsEnd(next[1])
  <2>1. status' = "IDLE" /\ pc' = "done"
    BY <1>3, <1>4
  <2> QED
    BY <2>1 DEF OnTheWay, Following, NotAtEnd
<1>5. CASE ~IsEnd(next[1])
  <2>1. /\ addr' = next[1] /\ returnAddr' = next[2]
        /\ UNCHANGED status /\ pc' = "loop"
    BY <1>1, <1>3, <1>5
  <2>2. NotAtEnd'
    BY <1>2, <1>5, <2>1 DEF NotAtEnd
  <2>3. ASSUME status = "RUNNING", ~edited, InRam
        PROVE  <<addr', returnAddr'>> \in OneShot
    <3> DEFINE p == <<addr, returnAddr>>
    <3>1. p \in OneShot
      BY <1>1, <2>3 DEF OnTheWay, Following
    <3>2. p \in Positions /\ Goes(p) \in OneShot
      BY <2>3, <3>1, OneShotClosed
    <3>3. ~IsEnd(p[1])
      BY <1>1 DEF OnTheWay, NotAtEnd
    <3>4. After(p[1], p[2]) = {Goes(p)} /\ Goes(p) = <<Goes(p)[1], Goes(p)[2]>>
      BY <3>2, <3>3, GoesInRam
    <3>5. next = Goes(p)
      BY <1>3, <3>4
    <3> QED
      BY <2>1, <3>2, <3>4, <3>5
  <2>4. Following'
    BY <1>1, <1>2, <2>1, <2>3 DEF Following
  <2> QED
    BY <2>2, <2>4 DEF OnTheWay
<1> QED
  BY <1>4, <1>5

LEMMA OnTheWayDrawCommands == TypeOK /\ Paced /\ OnTheWay /\ DrawCommands => OnTheWay'
<1> SUFFICES ASSUME TypeOK, Paced, OnTheWay, DrawCommands PROVE OnTheWay'
  OBVIOUS
<1>1. CASE EnterDrawCommands
  <2>1. pc = "enter" /\ UNCHANGED <<ram, plotReturn, addr, softReturnAddr, edited>>
    BY <1>1 DEF EnterDrawCommands, histVars
  <2>2. UNCHANGED <<OneShot, InRam>> /\ \A a : IsEnd(a)' = IsEnd(a)
    BY <2>1, SameWalk
  <2>3. CASE addr >= Slots \/ IsEnd(addr)
    <3>1. status' = "IDLE" /\ pc' = "done"
      BY <1>1, <2>3 DEF EnterDrawCommands
    <3> QED
      BY <3>1 DEF OnTheWay, Following, NotAtEnd
  <2>4. CASE ~(addr >= Slots \/ IsEnd(addr))
    <3>1. returnAddr' = softReturnAddr /\ pc' = "loop" /\ UNCHANGED status
      BY <1>1, <2>4 DEF EnterDrawCommands
    <3>2. NotAtEnd'
      BY <2>1, <2>2, <2>4 DEF NotAtEnd
    <3>3. Following'
      BY <2>1, <2>2, <3>1 DEF OnTheWay, Following
    <3> QED
      BY <3>2, <3>3 DEF OnTheWay
  <2> QED
    BY <2>3, <2>4
<1>2. CASE OutOfBudget
  <2>1. /\ pc = "loop" /\ pc' = "done" /\ softReturnAddr' = returnAddr
        /\ UNCHANGED <<ram, plotReturn, addr, status, edited>>
    BY <1>2 DEF OutOfBudget, histVars
  <2>2. UNCHANGED <<OneShot, InRam>>
    BY <2>1, SameWalk
  <2> QED
    BY <2>1, <2>2 DEF OnTheWay, Following, NotAtEnd
<1>3. CASE AbortCommand
  <2>1. status' = "IDLE" /\ pc' = "done"
    BY <1>3 DEF AbortCommand
  <2> QED
    BY <2>1 DEF OnTheWay, Following, NotAtEnd
<1>4. CASE ExecuteCommand
  BY <1>4, ExecuteOnTheWay
<1> QED
  BY <1>1, <1>2, <1>3, <1>4 DEF DrawCommands

LEMMA OnTheWayLine == TypeOK /\ Paced /\ OnTheWay /\ Emulator => OnTheWay'
<1> SUFFICES ASSUME TypeOK, Paced, OnTheWay, Emulator PROVE OnTheWay'
  OBVIOUS
<1>1. CASE DrawCommands
  BY <1>1, OnTheWayDrawCommands
<1>2. CASE LineEndField
  <2>1. pc = "cpu" /\ UNCHANGED ram
    BY <1>2 DEF LineEndField
  <2>2. \/ Draw("field", IF Swap THEN 0 ELSE addr)
        \/ pc' = "poll" /\ UNCHANGED <<walkVars, histVars>>
    BY <1>2 DEF LineEndField
  <2>3. CASE Draw("field", IF Swap THEN 0 ELSE addr)
    <3> DEFINE head == IF Swap THEN 0 ELSE addr
    <3>1. head \in {0, addr}
      OBVIOUS
    <3> HIDE DEF head
    <3>2. Draw("field", head)
      BY <2>3 DEF head
    <3> QED
      BY <2>1, <3>1, <3>2, DrawOnTheWay
  <2>4. CASE pc' = "poll" /\ UNCHANGED <<walkVars, histVars>>
    BY <2>1, <2>4, StandsStill DEF walkVars, histVars
  <2> QED
    BY <2>2, <2>3, <2>4
<1>3. CASE PlotDone \/ LineEndNoField \/ FieldDone \/ PollDrawEnd \/ NextLine
  <2>1. /\ UNCHANGED <<ram, plotReturn, addr, returnAddr, softReturnAddr, status>>
        /\ UNCHANGED edited
        /\ pc # "loop" /\ pc' # "loop"
    BY <1>3 DEF PlotDone, LineEndNoField, FieldDone, PollDrawEnd, NextLine, walkVars, histVars
  <2> QED
    BY <2>1, StandsStill
<1> QED
  BY <1>1, <1>2, <1>3 DEF Emulator

(* Cutting the draw into lines does not change what it walks: whatever the *)
(* list, the budget of a line and the moments the CPU restarts, stops or   *)
(* resets it, an unedited list that stays in the RAM is walked as in one go. *)
THEOREM ChunksWalkTheList == Spec => []ChunksFollowTheList
<1>1. Init => OnTheWay
  BY DEF Init, OnTheWay, Following, NotAtEnd
<1>2. TypeOK /\ Paced /\ OnTheWay /\ [Next]_vars => OnTheWay'
  <2> SUFFICES ASSUME TypeOK, Paced, OnTheWay, [Next]_vars PROVE OnTheWay'
    OBVIOUS
  <2>1. CASE Next
    BY <2>1, OnTheWayCpu, OnTheWayLine DEF Next
  <2>2. CASE UNCHANGED vars
    <3>1. /\ UNCHANGED <<ram, plotReturn, addr, returnAddr, softReturnAddr, status, pc>>
          /\ UNCHANGED edited
      BY <2>2 DEF vars, walkVars, histVars
    <3>2. UNCHANGED <<OneShot, InRam>> /\ \A a : IsEnd(a)' = IsEnd(a)
      BY <3>1, SameWalk
    <3> QED
      BY <3>1, <3>2 DEF OnTheWay, Following, NotAtEnd
  <2> QED
    BY <2>1, <2>2
<1>3. OnTheWay => ChunksFollowTheList
  BY DEF OnTheWay, Following, InRam, ChunksFollowTheList
<1> QED
  BY <1>1, <1>2, <1>3, TypeCorrect, PacedInvariant, PTL DEF Spec
===============================================================================
