------------------------------- MODULE PlotJob -------------------------------
(***************************************************************************)
(* What the VDP1 promises the game about a plot, whatever the pacing of    *)
(* the command list, the frame changes and the scanline the draw-end is    *)
(* scheduled on: a plot is drawing, then it is over and its draw-end is    *)
(* due, then the draw-end interrupt is delivered, once, and CEF (bit 1 of  *)
(* EDSR) is set.  CEF is never set by anything but the end of a list,      *)
(* though a bit EDSR held at power-on may be shifted into it.  A clock     *)
(* change leaves a list unscheduled: it is drawn to its end in silence,    *)
(* unless a field finds it first.                                          *)
(***************************************************************************)
EXTENDS Naturals

VARIABLES
  job,   \* the plot whose draw-end interrupt has not been sent yet
  cef,   \* EDSR.CEF, "current end flag"
  stray  \* the power-on contents still in EDSR

vars == <<job, cef, stray>>

Flag(edsr) == (edsr \div 2) % 2 = 1

(* Power-on: no plot; EDSR is whatever it happens to hold. *)
Init == job = "none" /\ stray \in Nat /\ cef = Flag(stray)

(* EDSR is shifted: the end of an earlier list is no longer in CEF. *)
Shift == stray' = stray \div 2 /\ cef' = Flag(stray')

(* A plot trigger or a frame-change plot; a plot whose draw-end was still  *)
(* due is merged with the new one.                                         *)
Start == job' = "drawing" /\ Shift

(* A frame change with no plot moves CEF to BEF. *)
Change == Shift /\ UNCHANGED job

(* The list is over; a command error reports CEF before the interrupt.     *)
(* Nobody is told of the end of an unscheduled list.                       *)
Finish ==
  /\ \/ job = "drawing" /\ job' = "due"
     \/ job = "unscheduled" /\ job' = "none"
  /\ cef' \in {cef, TRUE}
  /\ UNCHANGED stray

Deliver == job = "due" /\ job' = "none" /\ cef' = TRUE /\ UNCHANGED stray

(* A clock change in the middle of a list, and the field that finds it.    *)
Drop == job = "drawing" /\ job' = "unscheduled" /\ UNCHANGED <<cef, stray>>

Reschedule == job = "unscheduled" /\ job' = "drawing" /\ UNCHANGED <<cef, stray>>

(* A forced stop, or a clock change after the end of the list. *)
Cancel == job # "none" /\ job' = "none" /\ UNCHANGED <<cef, stray>>

Next == Start \/ Change \/ Finish \/ Deliver \/ Drop \/ Reschedule \/ Cancel

Spec == Init /\ [][Next]_vars
==============================================================================
