------------------------------- MODULE SoundOut --------------------------------
(***************************************************************************)
(* The way of a sample from the SCSP to the application: ScspExec          *)
(* generates a block per field into its own circular buffer and hands what *)
(* fits to the bridge's lock-free ring (SNDRingUpdateAudio), which the     *)
(* application drains from any thread (PASaturnSessionReadAudio).          *)
(* The emulation thread and the reader interleave at every access to the   *)
(* shared cursors and to a slot of the ring.  Samples are numbered in the  *)
(* order they are generated; clamping to 16 bits does not concern them.    *)
(***************************************************************************)
EXTENDS Integers, Sequences

CONSTANTS
  BlockLen,      \* scspsoundlen: 735 (NTSC), 882 (PAL)
  Bufs,          \* scspsoundbufs: 10
  RingFrames,    \* kAudioRingFrames: 2^15
  Counters,      \* values of a cursor: 2^32, cursors wrap there
  ReadSizes,     \* the max_frames an application asks for
  MaxBlocks,     \* bound: blocks generated in a behaviour
  MaxSessions    \* bound: sessions in a behaviour

BufSize == BlockLen * Bufs

ASSUME SoundAssumption ==
  /\ BlockLen \in Nat \ {0} /\ Bufs \in Nat \ {0}
  /\ RingFrames \in Nat \ {0}
  /\ Counters \in Nat /\ Counters > RingFrames /\ Counters % RingFrames = 0
  /\ ReadSizes \subseteq Nat
  /\ MaxBlocks \in Nat /\ MaxSessions \in Nat \ {0}

VARIABLES
  \* the emulation thread: ScspExec and SNDRingUpdateAudio
  pc,
  data, scspsoundgenpos, scspsoundoutleft,
  audiosize,          \* what ScspExec hands over
  toWrite, copied,    \* SNDRingUpdateAudio's locals
  \* the ring
  samples, write, read, overruns,
  \* a reader's call
  rpc, maxFrames, seenWrite, n, cursor, out,
  \* bound and history
  got,                \* what the last call returned
  next,               \* the next sample's number
  dropped,            \* samples that never reached the ring
  sessions

scspVars == <<data, scspsoundgenpos, scspsoundoutleft>>
callVars == <<audiosize, toWrite, copied>>
readVars == <<rpc, maxFrames, seenWrite, n, cursor, out, got>>
vars == <<pc, scspVars, callVars, samples, write, read, overruns, readVars,
          next, dropped, sessions>>
-------------------------------------------------------------------------------
Init ==
  /\ pc = "idle"
  /\ data = [i \in 0 .. BufSize - 1 |-> 0]
  /\ scspsoundgenpos = 0 /\ scspsoundoutleft = 0
  /\ audiosize = 0 /\ toWrite = 0 /\ copied = 0
  /\ samples = [i \in 0 .. RingFrames - 1 |-> 0]
  /\ write = 0 /\ read = 0 /\ overruns = 0
  /\ rpc = "idle" /\ maxFrames = 0 /\ seenWrite = 0 /\ n = 0 /\ cursor = 0
  /\ out = <<>> /\ got = <<>>
  /\ next = 1 /\ dropped = 0 /\ sessions = 1

Least(a, b) == IF a < b THEN a ELSE b

(* uint32_t differences of the cursors. *)
Available(w, r) == (w - r) % Counters

(* Mutant: one slot more than the ring has. *)
SpaceOneTooMany == (RingFrames + 1 - Available(write, read)) % Counters

Space == (RingFrames - Available(write, read)) % Counters

(* ScspExec, a field's worth of lines after the last block: a block        *)
(* overwrites the oldest samples that were not handed over.                *)
Generate ==
  /\ pc = "idle" /\ next <= BlockLen * MaxBlocks
  /\ LET genpos == IF scspsoundgenpos + BlockLen > BufSize THEN 0 ELSE scspsoundgenpos
         full   == scspsoundoutleft + BlockLen > BufSize
         overrun == IF full THEN scspsoundoutleft + BlockLen - BufSize ELSE 0
     IN
     /\ data' = [i \in DOMAIN data |->
                   IF i \in genpos .. genpos + BlockLen - 1
                   THEN next + i - genpos ELSE data[i]]
     /\ scspsoundgenpos' = genpos + BlockLen
     /\ scspsoundoutleft' = scspsoundoutleft - overrun + BlockLen
     /\ dropped' = dropped + overrun
  /\ next' = next + BlockLen
  /\ pc' = "space"
  /\ UNCHANGED <<callVars, samples, write, read, overruns, readVars, sessions>>

(* Mutant: the hand-over belongs to the block. *)
LineWithoutBlockSkips == FALSE

(* ScspExec on a line that completes no block: it still hands over. *)
LineWithoutBlock ==
  /\ pc = "idle" /\ scspsoundoutleft > 0
  /\ pc' = "space"
  /\ UNCHANGED <<scspVars, callVars, samples, write, read, overruns, readVars,
                 next, dropped, sessions>>

(* Mutant: the position does not wrap to the end of the buffer. *)
OutStartNoWrap ==
  LET start == scspsoundgenpos - scspsoundoutleft IN
  IF start < 0 THEN 0 ELSE start

OutStart ==
  LET start == scspsoundgenpos - scspsoundoutleft IN
  IF start < 0 THEN start + BufSize ELSE start

(* The loop of ScspExec: GetAudioSpace, then the largest contiguous chunk. *)
HandOver ==
  /\ pc = "space"
  /\ IF scspsoundoutleft > 0 /\ Space > 0
     THEN /\ audiosize' = Least(Least(Space, scspsoundoutleft), BufSize - OutStart)
          /\ pc' = "update"
     ELSE pc' = "idle" /\ UNCHANGED audiosize
  /\ UNCHANGED <<scspVars, toWrite, copied, samples, write, read, overruns, readVars,
                 next, dropped, sessions>>

UpdateAudio ==
  /\ pc = "update"
  /\ toWrite' = Least(audiosize, Space)
  /\ overruns' = overruns + audiosize - toWrite'
  /\ copied' = 0
  /\ pc' = "copy"
  /\ UNCHANGED <<scspVars, audiosize, samples, write, read, readVars,
                 next, dropped, sessions>>

CopyIn ==
  /\ pc = "copy" /\ copied < toWrite
  /\ samples' = [samples EXCEPT ![(write + copied) % RingFrames] = data[OutStart + copied]]
  /\ copied' = copied + 1
  /\ UNCHANGED <<pc, scspVars, audiosize, toWrite, write, read, overruns, readVars,
                 next, dropped, sessions>>

Publish ==
  /\ pc = "copy" /\ copied = toWrite
  /\ write' = (write + toWrite) % Counters
  /\ scspsoundoutleft' = scspsoundoutleft - audiosize
  /\ pc' = "space"
  /\ UNCHANGED <<data, scspsoundgenpos, callVars, samples, read, overruns, readVars,
                 next, dropped, sessions>>

(* PASaturnSessionDestroy and PASaturnSessionCreate: ScspInit empties the   *)
(* SCSP's buffer, SNDRingInit resets the two cursors one after the other.  *)
(* Nobody reads meanwhile: the application serialises both on its          *)
(* emulation queue.                                                        *)
NewSession ==
  /\ pc = "idle" /\ rpc = "idle" /\ sessions < MaxSessions
  /\ sessions' = sessions + 1
  /\ data' = [i \in 0 .. BufSize - 1 |-> 0]
  /\ scspsoundgenpos' = 0 /\ scspsoundoutleft' = 0
  /\ write' = 0 /\ read' = 0
  /\ UNCHANGED <<pc, callVars, samples, overruns, readVars, next, dropped>>
-------------------------------------------------------------------------------
(* PASaturnSessionReadAudio: available() loads write, then read; the cursor *)
(* is loaded again for the copy.                                           *)
ReadAudio ==
  /\ rpc = "idle"
  /\ maxFrames' \in ReadSizes \ {0}
  /\ seenWrite' = write
  /\ rpc' = "available"
  /\ UNCHANGED <<pc, scspVars, callVars, samples, write, read, overruns,
                 n, cursor, out, got, next, dropped, sessions>>

LoadRead ==
  /\ rpc = "available"
  /\ n' = Least(maxFrames, Available(seenWrite, read))
  /\ cursor' = read
  /\ out' = <<>>
  /\ rpc' = "copy"
  /\ UNCHANGED <<pc, scspVars, callVars, samples, write, read, overruns,
                 maxFrames, seenWrite, got, next, dropped, sessions>>

CopyOut ==
  /\ rpc = "copy" /\ Len(out) < n
  /\ out' = Append(out, samples[cursor % RingFrames])
  /\ cursor' = (cursor + 1) % Counters
  /\ UNCHANGED <<pc, scspVars, callVars, samples, write, read, overruns,
                 rpc, maxFrames, seenWrite, n, got, next, dropped, sessions>>

Return ==
  /\ rpc = "copy" /\ Len(out) = n
  /\ read' = cursor
  /\ got' = out
  /\ rpc' = "idle"
  /\ UNCHANGED <<pc, scspVars, callVars, samples, write, overruns,
                 maxFrames, seenWrite, n, cursor, out, next, dropped, sessions>>
-------------------------------------------------------------------------------
Emulation == \/ Generate \/ LineWithoutBlock \/ HandOver \/ UpdateAudio
             \/ CopyIn \/ Publish \/ NewSession

Reader == ReadAudio \/ LoadRead \/ CopyOut \/ Return

Next == Emulation \/ Reader

Spec == Init /\ [][Next]_vars

(* The emulation thread goes on to the next line and the application keeps *)
(* reading; neither waits for the other.                                   *)
FairSpec == Spec /\ WF_vars(Emulation) /\ WF_vars(Reader)
-------------------------------------------------------------------------------
(* What lies between the cursors, and what the SCSP has not handed over. *)
RingContents ==
  [i \in 1 .. Available(write, read) |-> samples[(read + i - 1) % RingFrames]]

BufContents ==
  [i \in 1 .. scspsoundoutleft |->
     data[(scspsoundgenpos - scspsoundoutleft + i - 1) % BufSize]]

Queue == RingContents \o BufContents

(* The ring never holds more than it has slots, whatever the wrapped       *)
(* cursors say, and the SCSP's buffer neither.                             *)
WithinCapacity ==
  /\ Available(write, read) <= RingFrames
  /\ scspsoundoutleft <= BufSize

(* The reader gets the samples in order, none twice, torn or stale, and    *)
(* misses only what an overrun of the SCSP's buffer dropped.               *)
Stream == INSTANCE SoundStream WITH queue <- Queue, Capacity <- BufSize

StreamSpec == Stream!Spec

(* As long as the application reads, every sample is read or dropped. *)
EverySampleLeaves ==
  \A s \in 1 .. BlockLen * MaxBlocks :
    (\E i \in DOMAIN Queue : Queue[i] = s) ~> ~(\E i \in DOMAIN Queue : Queue[i] = s)
-------------------------------------------------------------------------------
(* "stereo frames dropped because the ring was full" (PASaturnBridge.h:50), *)
(* the audioOverruns of PASaturnSessionGetStats: between two lines it has  *)
(* counted every sample that never reached the ring.                       *)
OverrunsAreCounted == pc = "idle" => overruns = dropped
===============================================================================
