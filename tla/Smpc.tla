--------------------------------- MODULE Smpc ---------------------------------
(***************************************************************************)
(* The command sequencer of the SMPC: a program writes COMREG, the command *)
(* is performed when its time has run out, and SF says whether the port is *)
(* busy.  INTBACK is the long one: it answers with an interrupt, leaves a  *)
(* sequence open that the program continues or breaks through IREG0, and   *)
(* waits for one line of the field to collect the data of the peripherals. *)
(*                                                                         *)
(* A step of the emulation loop is a deciline; after it SmpcExec runs.     *)
(* The program steps at any point between two of them.                     *)
(***************************************************************************)
EXTENDS Integers, Sequences

(* The commands whose effects differ, one that is known and does nothing   *)
(* (MSHON, CDON, CDOFF and SYSRES), and one that SmpcSetTiming rejects.    *)
Known == {"SSHON", "SSHOFF", "SNDON", "SNDOFF", "CKCHG352", "CKCHG320", "INTBACK",
          "SETSMEM", "NMIREQ", "RESENAB", "RESDISA", "MSHON"}

Commands == Known \cup {"unknown"}

CONSTANTS
  Comreg,            \* the commands the program writes in a run
  Ireg0,             \* values of IREG0, as sets of the bits that matter
  Oregs,             \* bytes an answer has room for
  Size1, Size2,      \* bytes the peripherals of the two ports have
  Decilines,         \* of a line
  WaitLine,          \* line 207
  VBlankLines,       \* values of VBlankLineCount
  ResetVBlankLine,   \* 225, the one Vdp2Reset sets
  MaxLineCount,
  Quick, Short, Long,\* 1, 250 and 16000 microseconds, in decilines
  Writes             \* bound: writes of the program in a behaviour

(* Line 207 is before every VBlank line.  The bytes of the ports: a piece  *)
(* that fills an answer is copied from the start of its port, so no port   *)
(* may have a second one; and the last byte may not fill an answer, which  *)
(* is followed by an empty one.                                            *)
ASSUME SmpcAssumption ==
  /\ Comreg \subseteq Commands /\ Ireg0 \subseteq SUBSET {"status", "break", "continue"}
  /\ Oregs \in Nat \ {0} /\ Size1 \in 1 .. 2 * Oregs - 1 /\ Size2 \in 1 .. 2 * Oregs - 1
  /\ Size1 < Oregs => Size1 + Size2 < 2 * Oregs
  /\ Size1 + Size2 < 3 * Oregs /\ Size1 + Size2 \notin {Oregs, 2 * Oregs}
  /\ Decilines \in Nat \ {0} /\ MaxLineCount \in Nat
  /\ ResetVBlankLine \in VBlankLines /\ VBlankLines \subseteq 1 .. MaxLineCount - 1
  /\ WaitLine \in 0 .. MaxLineCount - 1 /\ \A v \in VBlankLines : WaitLine < v
  /\ {Quick, Short, Long} \subseteq Nat \ {0}
  /\ Writes \in Nat

Answers == {"none", "status", "statusOnly", "first", "next"}

VARIABLES
  COMREG, IREG0,
  peripherals,       \* bit 3 of IREG1: the program wants peripheral data
  SF,
  SR,                \* the last answer it tells of: bits 5 to 7
  OREG,              \* what the OREGs hold of the last peripheral data, as
                     \* <<port, byte>>
  intback,           \* an INTBACK sequence is open
  firstPeri,
  timing, intback_wait_for_line,
  port1, port2,      \* the collected data: size and offset
  machine,           \* what the other commands switch
  LineCount, VBlankLineCount, deciline,
  writes,
  \* history
  asked,             \* the last command asked for, by COMREG or by a continue
  performed,         \* the command performed by the last step
  interrupt,         \* the last step sent the System Manager interrupt
  claimed,           \* the program has set SF and not yet written COMREG
  rude,              \* the program has broken the protocol
  begun,             \* the open sequence has given peripheral data
  reported           \* bytes of the collected data that were reported

registers == <<COMREG, IREG0, peripherals, SF, SR, OREG>>
internal  == <<intback, firstPeri, timing, intback_wait_for_line, port1, port2, machine>>
lines     == <<LineCount, VBlankLineCount, deciline>>
history   == <<asked, performed, interrupt, claimed, rude, begun, reported>>
vars      == <<registers, internal, lines, writes, history>>

NoData == [size |-> 0, offset |-> 0]

Init ==
  /\ COMREG = "MSHON" /\ IREG0 = {} /\ peripherals = FALSE
  /\ SF = FALSE /\ SR = "none" /\ OREG = <<>>
  /\ intback = FALSE /\ firstPeri = FALSE
  /\ timing = 0 /\ intback_wait_for_line = FALSE
  /\ port1 = NoData /\ port2 = NoData
  /\ machine = [slave |-> FALSE, sound |-> FALSE, resd |-> TRUE, dotsel |-> 0]
  /\ LineCount = 0 /\ VBlankLineCount = ResetVBlankLine /\ deciline = 0
  /\ writes = Writes
  /\ asked = "none" /\ performed = "none" /\ interrupt = FALSE
  /\ claimed = FALSE /\ rude = FALSE /\ begun = FALSE /\ reported = 0
-------------------------------------------------------------------------------
Write == writes > 0 /\ writes' = writes - 1 /\ performed' = "none" /\ interrupt' = FALSE

(* SmpcSetTiming for command c: the command is armed, or rejected, which   *)
(* clears SF and leaves the rest alone.                                    *)
Armed(c) ==
  IF c # "INTBACK" THEN c \in Known
  ELSE intback \/ IREG0' = {"status"} \/ (IREG0' = {} /\ peripherals)

Waits(c) == c = "INTBACK" /\ (intback \/ IREG0' = {})

SetTiming(c) ==
  /\ timing' = IF ~Armed(c) THEN timing
               ELSE IF Waits(c) THEN Long ELSE IF c = "INTBACK" THEN Short ELSE Quick
  /\ intback_wait_for_line' = (intback_wait_for_line \/ (Armed(c) /\ Waits(c)))

(* The protocol: SF is set when it is clear, and then one COMREG written.  *)
WriteSF ==
  /\ Write
  /\ SF' \in BOOLEAN
  /\ claimed' = SF'
  /\ rude' = (rude \/ SF \/ ~SF')
  /\ UNCHANGED <<COMREG, IREG0, peripherals, SR, OREG, internal, lines, asked, begun, reported>>

WriteIREG1 ==
  /\ Write
  /\ peripherals' \in BOOLEAN
  /\ rude' = (rude \/ (SF /\ ~claimed))
  /\ UNCHANGED <<COMREG, IREG0, SF, SR, OREG, internal, lines, asked, claimed, begun, reported>>

(* Mutant: the rejected command leaves SF to the program. *)
StaysBusyRejected(c) == SF

StaysBusy(c) == SF /\ Armed(c)

WriteCOMREG(c) ==
  /\ Write
  /\ COMREG' = c /\ UNCHANGED IREG0
  /\ SetTiming(c)
  /\ SF' = StaysBusy(c)
  /\ asked' = c /\ claimed' = FALSE
  /\ rude' = (rude \/ ~claimed)
  /\ UNCHANGED <<peripherals, SR, OREG, intback, firstPeri, port1, port2, machine, lines,
                 begun, reported>>

(* A write to IREG0 that is no more than a parameter.  *)
WriteParameter(v) ==
  /\ Write
  /\ ~intback \/ v \cap {"break", "continue"} = {}
  /\ IREG0' = v
  /\ rude' = (rude \/ (SF /\ ~claimed))
  /\ UNCHANGED <<COMREG, peripherals, SF, SR, OREG, internal, lines, asked, claimed, begun,
                 reported>>

(* ... and the ones that break or continue an open sequence. *)
Break(v) ==
  /\ Write
  /\ intback /\ "break" \in v
  /\ IREG0' = v
  /\ intback' = FALSE /\ SR' = "none"
  /\ rude' = (rude \/ SF)
  /\ begun' = FALSE
  /\ UNCHANGED <<COMREG, peripherals, SF, OREG, firstPeri, timing, intback_wait_for_line,
                 port1, port2, machine, lines, asked, claimed, reported>>

(* Mutant: a continue that does not replace the command. *)
RearmLast == SetTiming("INTBACK") /\ SF' = TRUE /\ UNCHANGED COMREG

Rearm == COMREG' = "INTBACK" /\ SetTiming("INTBACK") /\ SF' = TRUE

Continue(v) ==
  /\ Write
  /\ intback /\ "continue" \in v /\ "break" \notin v
  /\ IREG0' = v
  /\ Rearm
  /\ asked' = "INTBACK" /\ claimed' = FALSE
  /\ rude' = (rude \/ SF)
  /\ UNCHANGED <<peripherals, SR, OREG, intback, firstPeri, port1, port2, machine, lines,
                 begun, reported>>

(* Vdp2WriteWord, TVMD: the VBlank line is moved, in mid-field too. *)
WriteTVMD ==
  /\ Write
  /\ VBlankLineCount' \in VBlankLines
  /\ UNCHANGED <<registers, internal, LineCount, deciline, asked, claimed, rude, begun,
                 reported>>
-------------------------------------------------------------------------------
(* The end of a deciline: the next line, and its VBlank-IN.  *)
LineEnds == deciline + 1 = Decilines

VBlankIN == LineEnds /\ LineCount + 1 = VBlankLineCount

NextLine == IF LineEnds THEN (LineCount + 1) % MaxLineCount ELSE LineCount

Deciline ==
  /\ deciline' = (deciline + 1) % Decilines
  /\ LineCount' = NextLine
  /\ UNCHANGED <<writes, COMREG, IREG0, peripherals, asked, rude>>

(* SmpcINTBACKEnd. *)
OpenAfterLineForgotten == intback   \* mutant

OpenAfterLine == intback /\ ~VBlankIN

(* The countdown of SmpcExec, which line 207 cuts short. *)
WaitOver == intback_wait_for_line /\ NextLine = WaitLine

Due == timing > 0 /\ (WaitOver \/ timing = 1)

(* Mutants: no test for an idle port, and a continue cancelled at VBlank.  *)
TickPast == timing - 1

TickCancels == IF timing > 0 /\ ~(VBlankIN /\ intback) THEN timing - 1 ELSE 0

Tick == IF timing > 0 THEN timing - 1 ELSE 0

CountDown ==
  /\ ~Due
  /\ Deciline
  /\ timing' = Tick
  /\ intback' = OpenAfterLine /\ begun' = (begun /\ ~VBlankIN)
  /\ performed' = "none" /\ interrupt' = FALSE
  /\ UNCHANGED <<SF, SR, OREG, firstPeri, intback_wait_for_line, port1, port2, machine,
                 VBlankLineCount, claimed, reported>>

(* The rest of SmpcExec is common to the commands. *)
Execute(c) ==
  /\ Due /\ COMREG = c
  /\ Deciline
  /\ timing' = 0 /\ intback_wait_for_line' = (intback_wait_for_line /\ ~WaitOver)
  /\ SF' = FALSE
  /\ performed' = c /\ claimed' = FALSE

(* What the commands other than INTBACK do.  A second SSHON is ignored.    *)
Effect(m, c) ==
  CASE c = "SSHON"    -> [m EXCEPT !.slave = TRUE]
    [] c = "SSHOFF"   -> [m EXCEPT !.slave = FALSE]
    [] c = "SNDON"    -> [m EXCEPT !.sound = TRUE]
    [] c = "SNDOFF"   -> [m EXCEPT !.sound = FALSE]
    [] c = "CKCHG352" -> [m EXCEPT !.slave = FALSE, !.sound = FALSE, !.dotsel = 1]
    [] c = "CKCHG320" -> [m EXCEPT !.slave = FALSE, !.sound = FALSE, !.dotsel = 0]
    [] c = "RESENAB"  -> [m EXCEPT !.resd = FALSE]
    [] c = "RESDISA"  -> [m EXCEPT !.resd = TRUE]
    [] OTHER          -> m

(* OREG[31] takes the code of a command, over a byte of data if the answer *)
(* fills all the OREGs.                                                    *)
Code == <<0, 0>>

CodeWritten(answer) ==
  IF Len(answer) = Oregs THEN [answer EXCEPT ![Oregs] = Code] ELSE answer

Coded == {"SNDON", "SNDOFF", "SETSMEM", "NMIREQ", "RESENAB", "RESDISA"}

ExecuteCommand(c) ==
  /\ c # "INTBACK"
  /\ Execute(c)
  /\ machine' = Effect(machine, c)
  /\ VBlankLineCount' = IF c \in {"CKCHG352", "CKCHG320"} THEN ResetVBlankLine
                                                        ELSE VBlankLineCount
  /\ intback' = OpenAfterLine /\ begun' = (begun /\ ~VBlankIN)
  /\ OREG' = IF c \in Coded THEN CodeWritten(OREG) ELSE OREG
  /\ interrupt' = FALSE
  /\ UNCHANGED <<SR, firstPeri, port1, port2, reported>>

(* SmpcINTBACKPeripheral: the ports are read when both are used up, and    *)
(* what fits is copied.  A port that fills the answer to its end is not    *)
(* marked as used up before the next answer.                               *)
Bytes(port, from, n) == [i \in 1 .. n |-> <<port, from + i - 1>>]

(* Mutant: port 2 may start in an answer that port 1 has filled. *)
CollectOver(p, q) ==
  LET rest1 == p.size - p.offset
      rest2 == q.size - q.offset IN
  [data  |-> Bytes(1, p.offset, IF rest1 < Oregs THEN rest1 ELSE Oregs) \o
             Bytes(2, q.offset, IF rest2 < Oregs THEN rest2 ELSE Oregs),
   port1 |-> IF rest1 < Oregs THEN [p EXCEPT !.size = 0] ELSE [p EXCEPT !.offset = @ + Oregs],
   port2 |-> IF rest2 < Oregs THEN [q EXCEPT !.size = 0] ELSE [q EXCEPT !.offset = @ + Oregs]]

Collect(p, q) ==
  LET rest1 == p.size - p.offset
      whole1 == rest1 < Oregs
      n1    == IF p.size = 0 THEN 0 ELSE IF whole1 THEN rest1 ELSE Oregs
      room  == Oregs - n1
      rest2 == q.size - q.offset
      whole2 == rest2 < room
      n2    == IF q.size = 0 \/ room = 0 THEN 0 ELSE IF whole2 THEN rest2 ELSE room
  IN [data  |-> Bytes(1, IF whole1 THEN p.offset ELSE 0, n1) \o
                Bytes(2, IF whole2 THEN q.offset ELSE 0, n2),
      port1 |-> IF p.size = 0 THEN p
                ELSE IF whole1 THEN [p EXCEPT !.size = 0] ELSE [p EXCEPT !.offset = @ + Oregs],
      port2 |-> IF q.size = 0 \/ room = 0 THEN q
                ELSE IF whole2 THEN [q EXCEPT !.size = 0] ELSE [q EXCEPT !.offset = @ + room]]

UsedUp == port1.size = 0 /\ port2.size = 0

Fresh(port, size) == IF UsedUp THEN [size |-> size, offset |-> 0] ELSE port

Answer == Collect(Fresh(port1, Size1), Fresh(port2, Size2))

Peripheral(kind) ==
  /\ port1' = Answer.port1 /\ port2' = Answer.port2
  /\ reported' = (IF UsedUp THEN 0 ELSE reported) + Len(Answer.data)
  /\ SR' = kind /\ firstPeri' = FALSE
  /\ begun' = TRUE

(* SmpcINTBACK goes on with an open sequence, ...                          *)
IntbackGoesOn ==
  /\ Execute("INTBACK")
  /\ OpenAfterLine
  /\ Peripheral(IF firstPeri THEN "first" ELSE "next")
  /\ OREG' = Answer.data
  /\ intback' = TRUE /\ interrupt' = TRUE
  /\ UNCHANGED <<machine, VBlankLineCount>>

(* ... gives the status of the system, over what the OREGs held, and may   *)
(* open one, ...                                                           *)
IntbackStatus ==
  /\ Execute("INTBACK")
  /\ ~OpenAfterLine /\ "status" \in IREG0
  /\ intback' = peripherals /\ firstPeri' = TRUE
  /\ SR' = IF peripherals THEN "status" ELSE "statusOnly"
  /\ OREG' = <<>>
  /\ begun' = FALSE
  /\ interrupt' = TRUE
  /\ UNCHANGED <<port1, port2, machine, VBlankLineCount, reported>>

(* ... opens one with data of the peripherals and then writes its code, or *)
(* does nothing.                                                           *)
IntbackPeripheral ==
  /\ Execute("INTBACK")
  /\ ~OpenAfterLine /\ "status" \notin IREG0 /\ peripherals
  /\ Peripheral("first")
  /\ OREG' = CodeWritten(Answer.data)
  /\ intback' = TRUE /\ interrupt' = TRUE
  /\ UNCHANGED <<machine, VBlankLineCount>>

IntbackNothing ==
  /\ Execute("INTBACK")
  /\ ~OpenAfterLine /\ "status" \notin IREG0 /\ ~peripherals
  /\ intback' = FALSE /\ begun' = FALSE /\ interrupt' = FALSE
  /\ UNCHANGED <<SR, OREG, firstPeri, port1, port2, machine, VBlankLineCount, reported>>

SmpcExec == \/ CountDown
            \/ \E c \in Commands : ExecuteCommand(c)
            \/ IntbackGoesOn \/ IntbackStatus \/ IntbackPeripheral \/ IntbackNothing
-------------------------------------------------------------------------------
(* Between two frames: SmpcReset, which keeps intback_wait_for_line, and   *)
(* the load of a state, which does too: the state that was saved has come  *)
(* from another value of it.                                               *)
FrameBoundary == LineCount = 0 /\ deciline = 0

Reset ==
  /\ FrameBoundary /\ Write
  /\ COMREG' = "MSHON" /\ IREG0' = {} /\ peripherals' = FALSE
  /\ SF' = FALSE /\ SR' = "none" /\ OREG' = <<>>
  /\ intback' = FALSE /\ firstPeri' = FALSE /\ timing' = 0
  /\ port1' = NoData /\ port2' = NoData
  /\ machine' = [machine EXCEPT !.slave = FALSE, !.resd = TRUE, !.dotsel = 0]
  /\ VBlankLineCount' = ResetVBlankLine
  /\ asked' = "none" /\ claimed' = FALSE /\ begun' = FALSE /\ reported' = 0
  /\ rude' = FALSE
  /\ UNCHANGED <<intback_wait_for_line, LineCount, deciline>>

LoadState ==
  /\ FrameBoundary /\ Write
  /\ intback_wait_for_line' \in BOOLEAN
  /\ UNCHANGED <<registers, intback, firstPeri, timing, port1, port2, machine, lines,
                 asked, claimed, rude, begun, reported>>

Program == \/ WriteSF \/ WriteIREG1 \/ WriteTVMD
           \/ \E c \in Comreg : WriteCOMREG(c)
           \/ \E v \in Ireg0 : WriteParameter(v) \/ Break(v) \/ Continue(v)

Next == SmpcExec \/ Program \/ Reset \/ LoadState

Spec == Init /\ [][Next]_vars

(* The loop calls SmpcExec after each deciline and never waits. *)
FairSpec == Spec /\ WF_vars(SmpcExec)
-------------------------------------------------------------------------------
RegistersOK ==
  /\ COMREG \in Commands /\ IREG0 \subseteq {"status", "break", "continue"}
  /\ peripherals \in BOOLEAN /\ SF \in BOOLEAN /\ SR \in Answers

PortsOK ==
  /\ OREG \in Seq({0, 1, 2} \X Nat) /\ Len(OREG) <= Oregs
  /\ port1 \in [size : {0, Size1}, offset : 0 .. Size1]
  /\ port2 \in [size : {0, Size2}, offset : 0 .. Size2]
  /\ reported \in 0 .. Size1 + Size2

SequencerOK ==
  /\ intback \in BOOLEAN /\ firstPeri \in BOOLEAN
  /\ timing \in Nat /\ intback_wait_for_line \in BOOLEAN
  /\ machine \in [slave : BOOLEAN, sound : BOOLEAN, resd : BOOLEAN, dotsel : {0, 1}]

LinesOK ==
  /\ LineCount \in 0 .. MaxLineCount - 1 /\ VBlankLineCount \in VBlankLines
  /\ deciline \in 0 .. Decilines - 1 /\ writes \in 0 .. Writes

HistoryOK ==
  /\ asked \in Commands \cup {"none"} /\ performed \in Commands \cup {"none"}
  /\ interrupt \in BOOLEAN /\ claimed \in BOOLEAN /\ rude \in BOOLEAN /\ begun \in BOOLEAN

TypeOK == RegistersOK /\ PortsOK /\ SequencerOK /\ LinesOK /\ HistoryOK

(* Whatever a program does, SF set by anything but the program has a       *)
(* command behind it that will clear it: no program polls a dead port.     *)
BusyIsPending == SF /\ ~claimed => timing > 0

(* A program that keeps to the protocol never finds the port ready with a  *)
(* command still to run, which the next write of COMREG would replace.     *)
ReadyMeansIdle == ~rude /\ ~SF => timing = 0

(* SF tells the program both ways whether a command is under way. *)
SFTellsThePort == BusyIsPending /\ ReadyMeansIdle

(* The answer to an open sequence is told as the first one exactly until   *)
(* the sequence has given data, after a break, a VBlank-IN, a reset and a  *)
(* command that came between too: firstPeri outlives all of them.          *)
FirstOnce == intback => (firstPeri <=> ~begun)

Collected == Bytes(1, 0, Size1) \o Bytes(2, 0, Size2)

NextBytes ==
  LET from == IF reported = Len(Collected) THEN 0 ELSE reported
      to   == IF from + Oregs < Len(Collected) THEN from + Oregs ELSE Len(Collected)
  IN SubSeq(Collected, from + 1, to)

AnswerFollows == OREG' = IF OpenAfterLine THEN NextBytes ELSE CodeWritten(NextBytes)

DataAnswered == performed' = "INTBACK" /\ interrupt' /\ SR' \in {"first", "next"}

(* The bytes of the two ports reach the program in order, each once, with  *)
(* as many as fit in each answer and a new reading of the ports only after *)
(* the last one; a sequence that is broken loses none of them.  One byte   *)
(* may be lost: an INTBACK that opens its sequence with data, and finds    *)
(* enough to fill the OREGs, writes its code over the last of them.        *)
PortDataInOrder == [][DataAnswered => AnswerFollows]_vars

Port == INSTANCE CommandPort WITH
  stage <- IF ~SF THEN "ready" ELSE IF timing > 0 THEN "busy" ELSE "claimed",
  Refusable <- {"unknown", "INTBACK"},
  None <- "none"

(* The SMPC keeps the promise of a command port, to a program that keeps   *)
(* to the protocol: a command is performed once, and before the port is    *)
(* ready again; SF is what the program sees of it.                         *)
PortSpec == Port!Spec

(* A busy port becomes ready, whatever the program writes meanwhile.       *)
BusyEnds == (SF /\ ~claimed) ~> ~SF
===============================================================================
