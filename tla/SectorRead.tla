------------------------------ MODULE SectorRead ------------------------------
(***************************************************************************)
(* What the CD block promises about a play: its sectors arrive in order,   *)
(* each once, the wanted ones at the end of the partition the filters send *)
(* them to; and the end of the range ends the play and is told once.       *)
(* Pauses while the buffer is full do not show.  The commands of the       *)
(* program start and stop plays and change the partitions.                 *)
(*                                                                         *)
(* No sector arrives without a play.  But a play that a command stopped    *)
(* while it waited for space may come back by itself, from where that      *)
(* command left the drive: the stopping commands do not withdraw the       *)
(* resumption, a play and a seek do.  No other command starts a play, or   *)
(* moves one that goes on.                                                 *)
(***************************************************************************)
EXTENDS Integers, Sequences

CONSTANTS
  Partitions,
  Sectors,    \* sectors of the disc
  Wanted,     \* those that are stored
  Route       \* the partition of each wanted sector

VARIABLES
  pending,    \* the command that waits: "none", "play", "seek", "other"
  on,         \* a play goes on
  revivable,  \* one was stopped that may come back
  sector,     \* the next one it reads
  first, last,\* its range
  again,      \* times it will start over; -1: for ever
  buffer,     \* the sectors in each partition
  ended,      \* the last step told of the end of a play
  lossy       \* the program has made the block forget that its buffer is full

vars == <<pending, on, revivable, sector, first, last, again, buffer, ended, lossy>>

(* The program removes sectors from a partition, in one piece. *)
Shrinks(s, t) ==
  \E i \in 0 .. Len(s) : \E j \in i + 1 .. Len(s) + 1 :
    t = SubSeq(s, 1, i) \o SubSeq(s, j, Len(s))

PartitionsShrink == \A p \in DOMAIN buffer : Shrinks(buffer[p], buffer'[p])

Init ==
  /\ on = FALSE /\ revivable = FALSE /\ pending = "none" /\ ended = FALSE /\ lossy = FALSE
  /\ buffer = [p \in Partitions |-> <<>>]

(* A command is executed.  Any may remove sectors. *)
Command ==
  /\ pending # "none" /\ pending' = "none" /\ ~ended'
  /\ pending = "play" => ~revivable'
  /\ pending = "seek" => ~on' /\ ~revivable'
  /\ pending = "other" =>
       /\ on' => on /\ UNCHANGED <<sector, first, last, again>>
       /\ revivable' => ~on' /\ (on \/ revivable)
  /\ DOMAIN buffer' = DOMAIN buffer /\ PartitionsShrink

Keep ==
  /\ UNCHANGED <<on, revivable, sector, first, last, again>>
  /\ ~ended' /\ (lossy' => lossy)

(* A command is written, or nothing happens; or sectors that have been     *)
(* transferred go.                                                         *)
Other == Keep /\ (pending # "none" => UNCHANGED pending) /\ UNCHANGED buffer

Take ==
  /\ Keep /\ UNCHANGED pending
  /\ DOMAIN buffer' = DOMAIN buffer /\ PartitionsShrink

Stored ==
  buffer' = IF sector \in Wanted THEN [buffer EXCEPT ![Route[sector]] = Append(@, sector)]
                                 ELSE buffer

Lost == lossy /\ ~lossy' /\ sector \in Wanted /\ UNCHANGED buffer

Revive ==
  /\ revivable /\ sector < last
  /\ on' = TRUE /\ revivable' = FALSE /\ ~ended'
  /\ UNCHANGED <<pending, sector, first, last, again, buffer, lossy>>

(* A play of an empty range reads one sector. *)
AtEnd == sector + 1 >= last

Read ==
  /\ on /\ sector \in Sectors
  /\ Stored \/ Lost
  /\ sector' = IF AtEnd /\ again # 0 THEN first ELSE sector + 1
  /\ again' = IF AtEnd /\ again > 0 THEN again - 1 ELSE again
  /\ on' = (~AtEnd \/ again # 0)
  /\ ended' = ~on'
  /\ lossy' => lossy
  /\ UNCHANGED <<revivable, first, last, pending>>

Next == Command \/ Other \/ Take \/ Revive \/ Read

Spec == Init /\ [][Next]_vars
===============================================================================
