--------------------------------- MODULE ScuDma --------------------------------
(***************************************************************************)
(* The three DMA levels of the SCU: transfers that the program or a start  *)
(* factor begins, that move some words at each ScuExec and that end with   *)
(* an interrupt, which goes through the controller at once.  The operators *)
(* work on the record r of ScuInterrupts: r.dma are the levels.  A level   *)
(* is named by the interrupt of its end.                                   *)
(*                                                                         *)
(* A transfer, direct or an indirect table, is the number of words it      *)
(* moves and what follows them: its end; an end with less than a word left *)
(* to move, which leaves a negative TransferNumber; or an entry that names *)
(* an unreachable bus.                                                     *)
(***************************************************************************)
EXTENDS ScuInterrupts

CONSTANTS
  Levels,        \* the levels the program uses
  Transfers,     \* what the registers of a level may describe
  Factors,       \* the start factors the program selects in DxMD
  StartWords,    \* moved by the start itself: 128
  ExecWords      \* moved by a ScuExec

DmaEnds == {"DMA0End", "DMA1End", "DMA2End"}

(* What a DMA level raises. *)
Transferred == DmaEnds \cup {"DMAIllegal"}

(* The sources of ScuChekIntrruptDMA, in the order of their numbers. *)
StartFactors == {"VBlankIN", "VBlankOUT", "HBlankIN", "Timer0", "Timer1",
                 "SoundRequest", "DrawEnd"}

(* The budget of a flush; no transfer is longer. *)
Flush == 2147483647

Transfer == [words : 0 .. Flush, then : {"end", "overshoot", "illegal"}]

ASSUME DmaAssumption ==
  /\ Levels \subseteq DmaEnds
  /\ \A t \in Transfers : t \in Transfer /\ (t.then # "illegal" => t.words > 0)
  /\ Factors \subseteq StartFactors
  /\ StartWords \in Nat \ {0} /\ ExecWords \in Nat \ {0}

(* left is TransferNumber, run counts the starts modulo two, factor and    *)
(* selected are what DxEN and DxMD, and the other registers, wait for.     *)
Nothing == [words |-> 0, then |-> "none"]

Idle == [left |-> 0, then |-> "none", run |-> 0, factor |-> "none", selected |-> Nothing]

DmaLevel == [left : Int, then : {"none", "end", "overshoot", "illegal"}, run : 0 .. 1,
             factor : Factors \cup {"none"}, selected : Transfers \cup {Nothing}]

Busy(d) == d.then # "none"
-------------------------------------------------------------------------------
(* The words of a slice, as far as there are some; the last one is moved   *)
(* whole.                                                                  *)
SucDmaExec(d, words) ==
  [d EXCEPT !.left = IF words < @ THEN @ - words
                     ELSE IF d.then = "overshoot" THEN -1 ELSE 0]

SucDmaCheck(r, l, words) ==
  LET d     == r.dma[l]
      moved == SucDmaExec(d, words)
  IN IF ~Busy(d) THEN r
     ELSE IF moved.left > 0 THEN [r EXCEPT !.dma[l] = moved]
     ELSE SendInterrupt([r EXCEPT !.dma[l] = [moved EXCEPT !.then = "none"]],
                        IF d.then = "illegal" THEN "DMAIllegal" ELSE l)

(* Every level gets the words, whichever is started or flushed. *)
ScuDmaProc(r, words) ==
  SucDmaCheck(SucDmaCheck(SucDmaCheck(r, "DMA0End", words), "DMA1End", words), "DMA2End", words)

Started(d, t) ==
  [left |-> t.words, then |-> t.then, run |-> 1 - d.run, factor |-> "none", selected |-> Nothing]

(* A transfer that is under way is finished at once, then the new one      *)
(* starts.  A started level waits for no factor: DxEN is cleared, or DxMD  *)
(* selects none.                                                           *)
Start(r, l, t, flush) ==
  LET flushed == IF flush THEN ScuDmaProc(r, Flush) ELSE r
  IN ScuDmaProc([flushed EXCEPT !.dma[l] = Started(@, t)], StartWords)

(* Mutant: the sign is taken for the end. *)
FinishesIfNegative(d) == d.left < 0

(* A write finishes the levels first also after a negative count. *)
Finishes(d) == d.left # 0

(* A write of DxEN that starts: the factor is 7. *)
StartByWrite(r, l, t) == Start(r, l, t, Finishes(r.dma[l]))

(* Writes after which the level waits for a factor, or for none. *)
Select(r, l, factor, t) ==
  [r EXCEPT !.dma[l].factor = factor,
            !.dma[l].selected = IF factor = "none" THEN Nothing ELSE t]

(* The level starts if it waits for the factor s; no end is a factor. *)
StartIfWaiting(r, l, s) ==
  IF r.dma[l].factor = s THEN Start(r, l, r.dma[l].selected, r.dma[l].left > 0) ELSE r

ScuChekIntrruptDMA(r, s) ==
  StartIfWaiting(StartIfWaiting(StartIfWaiting(r, "DMA0End", s), "DMA1End", s), "DMA2End", s)

(* A request, and the DMA levels that it starts. *)
SendAndStart(r, s) == ScuChekIntrruptDMA(SendInterrupt(r, s), s)
===============================================================================
