------------------------------ MODULE SoundStream ------------------------------
(***************************************************************************)
(* What the sound path promises the application that reads it: samples     *)
(* come in the order the SCSP generated them, none twice, and the only     *)
(* ones missing are those dropped, while a new block is generated, because *)
(* the application did not read for longer than the buffers hold.          *)
(***************************************************************************)
EXTENDS Integers, Sequences

CONSTANTS
  BlockLen,   \* samples the SCSP generates at a time
  Capacity    \* samples the SCSP can hold while the application reads none

VARIABLES
  queue,      \* generated, neither read nor dropped
  got,        \* what the last read returned
  next        \* number of the next sample

vars == <<queue, got, next>>

Init == queue = <<>> /\ got = <<>> /\ next = 1

Block == [i \in 1 .. BlockLen |-> next + i - 1]

(* The samples from first to last of the queue are dropped, if any. *)
Generate ==
  /\ \E first \in 1 .. Len(queue) + 1 : \E last \in first - 1 .. Len(queue) :
       /\ last >= first => Len(queue) + BlockLen > Capacity
       /\ queue' = SubSeq(queue, 1, first - 1)
                     \o SubSeq(queue, last + 1, Len(queue)) \o Block
  /\ next' = next + BlockLen
  /\ UNCHANGED got

Read ==
  /\ \E n \in 0 .. Len(queue) :
       /\ got' = SubSeq(queue, 1, n)
       /\ queue' = SubSeq(queue, n + 1, Len(queue))
  /\ UNCHANGED next

(* A new session starts with empty buffers. *)
Clear == queue' = <<>> /\ UNCHANGED <<got, next>>

Next == Generate \/ Read \/ Clear

Spec == Init /\ [][Next]_vars
===============================================================================
