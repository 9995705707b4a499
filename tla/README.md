# A verification project for the Saturn core of Pocket Arcade

This directory specifies parts of the Sega Saturn emulator in this repository: the Yabause/YabaSanshiro
core under `yabause/`, the native bridge under `PocketSaturn/` and the Swift adapter under `PocketArcade/`.
Paths below are relative to the source tree; `yabause/src/` is left out of core file names.

The modules describe the configuration the iOS port builds: `IOS=1`, interpreter SH-2, software renderer
running inline (`usethreads = 0`, no asynchronous rendering), synchronous SCSP (`ASYNC_SCSP` undefined),
`use_new_scsp = 0`, `frameskip = 0`, a real BIOS image.

## 1. Inventory

The emulator is one big loop, `YabauseEmulate` (`yabause.c`). It cuts a video line into ten decilines, runs
both SH-2 for each, and calls the other components at fixed points: HBlank-IN at deciline 9, at deciline 10
HBlank-OUT, the SCSP and the line counter, with VBlank-IN and VBlank-OUT on two of the lines. Nothing in the
core is preempted. The concurrency is that of *simulated* processors: between any two decilines a program on
either CPU may write any register, devices raise interrupts, and state that a handler leaves for a later
line meets whatever happened meanwhile. Real threads exist at the edge: the application reads audio while the
emulation thread produces it, and the Swift adapter has a main thread and a serial emulation queue.

| Component | State | Operations | Hard behaviour | What makes it correct |
|---|---|---|---|---|
| VDP1 draw pipeline (`vdp1.cpp`, `vdp2.cpp`) | command list in RAM, address, status, return address, budget, EDSR, FBCR/PTMR, erase and change flags, scheduled draw-end line | plot trigger, forced stop, frame change, erase, chunked walk, draw-end poll, reset by clock change | a list is walked over many lines while the CPU edits it; its draw-end is scheduled by an estimate; triggers, stops and swaps come between | chunks equal one walk; one draw-end per plot and after it; flags in EDSR agree; a buffer is erased before it is drawn |
| SCU interrupts and timers (`scu.c`), SH-2 interrupt queues (`sh2int.c`) | IMS, IST, AIACK, queue of requests, a queue and SR.I per CPU, timer registers | raise, mask, acknowledge, arm AIACK, accept, timers, reset | requests arrive masked, are queued, delivered later by a register write, withdrawn by a later line | no request lost or delivered after its acknowledgement, most urgent first, bounded queues |
| Sound output (`scsp.cpp`, `PASaturnBridge.cpp`) | circular sample buffer with two positions, lock-free ring with two 32-bit cursors | generate a block, hand over what fits, publish, read | a reader on another thread; full buffers; wrap-around | samples in order, once, dropped only by an overrun, which is counted |
| Scanline driver (`yabause.c`) | deciline, line, VBlank line, frame count | see above | VBlank line changed by a register in mid-field | each event once per field |
| SMPC (`smpc.c`) | COMREG, SF, INTBACK state, delay, port data | commands, INTBACK with continue and break, pad data | a command overwritten while pending; VBlank-IN ends an INTBACK; a global flag waits for line 207 | every accepted command clears SF; an INTBACK answers with one interrupt |
| CD block (`cs2.c`) | command registers, HIRQ, execution lock, play state, sector partitions | 60 commands, sector reads, periodic report | command timing against execution lock and merged CMOK | a command is answered once; blocks are conserved |
| SCU DMA (`scu.c`) | three levels: count, indirect pointer, start factor | start by write or by interrupt, step, end | a start finishes or advances the transfers of other levels; an end interrupt is sent from inside another interrupt's sender | a transfer that ends is told, an end comes from its transfer |
| SCU DSP, SH-2 instructions, on-chip modules, 68000, SCSP synthesis | registers | interpreters | none of their own | bit-exact results |
| VDP2 and renderer (`vdp2.cpp`, `vidsoft.c`) | registers, frame buffers | draw a line, compose, swap | only the frame operations | - |
| Bridge session (`PASaturnBridge.cpp`) | one global session, last error, frame pixels | create, destroy, run, buttons, state, stats | shared error buffer, pixels valid until the next frame | calls on dead sessions do nothing |
| Swift adapter (`SaturnEmulatorCore.swift`) | session handle, timer, serial queue | load, start, pause, stop, save, buttons | handle read and written on two threads; `deinit` on the queue it waits for | never two sessions, no call after destroy |
| Save states (`memory.c`) | - | save, load chunk by chunk | a missing chunk leaves the earlier ones loaded | all or nothing |
| Event queues (`thr-linux.cpp`) | bounded queues | add, wait, clear | not used in this build | - |
| Backup RAM, memory map, cartridges, HLE BIOS, cheats, movies, other front-ends, `libchdr`, `mini18n`, `yabauseut` | - | - | host I/O, data, third party, or not used by the application | - |

How they interact: devices call `ScuSend*`, which reach the CPUs through the SCU; the CPUs write memory-mapped
registers; the driver calls `Vdp2HBlankOUT`, which owns the VDP1 schedule; SMPC commands stop the slave and reset
VDP1, VDP2, SCU and SCSP at once; the bridge calls `YabauseExec` once per frame and is called back for
sound and pixels. `PROJECT.json` lists every component with its status and every hazard at its line.

## 2. Plan

1. `Vdp1` with `PlotJob`: the component with the most state carried from line to line. *Done, with proofs.*
2. `SoundOut` with `SoundStream`: the one place with real threads. *Done; capacity and refinement proved.*
3. `Scu` with `InterruptLatch`, over the operators of `ScuInterrupts`. *Done, with proofs.*
4. `Smpc` with `CommandPort`: command sequencer and INTBACK against the lines of a field. *Done, with proofs.*
5. `Session`: main thread, emulation queues and timers over the one core. *Done, with proofs.*
6. `CdBlock` with `SectorRead`: command port, lock, drive, buffer, transfers. *Done, with proofs.*
7. `ScuDma`: the levels and their starts by interrupts, inside `Scu`. *Done, with proofs.*

Every safety invariant, action property and refinement that a run checks is now also a theorem. Left, in this order:
the put, copy and move commands of the CD block; CD requests of `CdBlock` sent into `Scu` instead of a free device
request; save states across all components; what does hold where a run finds a comment violated and no
theorem says it yet (which lists leave a return address behind).

## 3. Modules

| Module | Role |
|---|---|
| `PlotJob` | abstract: a plot is drawing, then due, then its draw-end is delivered once, unless a clock change drops it; CEF |
| `Vdp1` | the draw pipeline, refines `PlotJob` |
| `MCVdp1` | small command lists for TLC |
| `Vdp1Proofs` | theorems about `Vdp1` |
| `SoundStream` | abstract: a queue of numbered samples |
| `SoundOut` | SCSP buffer, ring and reader, refines `SoundStream` |
| `SoundOutProofs`, `SoundStreamProofs` | inductive invariant and capacity; the refinement |
| `InterruptLatch` | abstract: requests latched, asserted, taken, acknowledged |
| `ScuInterrupts` | operators of the interrupt controller and of the CPU queues |
| `ScuDma` | operators of the three DMA levels, over `ScuInterrupts` |
| `Scu` | the actions: interrupt controller, timers, CPU queues and DMA, refines `InterruptLatch` |
| `MCScu` | the transfers a program sets up in the runs |
| `ScuOperatorProofs` | lemmas about the operators of `ScuInterrupts` and `ScuDma` |
| `ScuProofs` | inductive invariant, action properties and refinement of `Scu` |
| `CommandPort` | abstract: a busy command port with an answer sequence |
| `Smpc` | the SMPC's sequencer, refines `CommandPort` |
| `SmpcProofs` | inductive invariant and refinement of `Smpc` |
| `SectorRead` | abstract: a play delivers the sectors of its range in order, once per pass; one stopped while it waits for space may come back |
| `CdBlock` | the CD block, refines `SectorRead` |
| `MCCdBlock` | a disc of five sectors |
| `CdBlockProofs` | inductive invariant and refinement of `CdBlock` |
| `Session` | adapters, queues and the core's one session |
| `SessionProofs` | inductive invariant of `Session` |

The operators next to a definition and marked as mutants are plausible bugs of that definition. They are not
used by the specifications; replacing the definition by one of them breaks the property `PROJECT.json` names.

### 3.1 Vdp1

*State.* `addr`, `status`, `returnAddr`, `softReturnAddr`, `softBudget` are the registers and statics of
`Vdp1DrawCommands`; `waitLineCount` is `yabsys.wait_line_count`; `clockRan` is `vdp1_clock > 0`; `dirty` stands for
the pixels of the two frame buffers. `pc` and `site` say where the emulation thread is: while `pc # "cpu"` the
CPUs do not run. History: `owed` (a plot is still to be reported), `lost` (a clock change has dropped its draw-end, and no
field or trigger has scheduled one since), `stray` (what the shifts have left in EDSR of its power-on contents), `plotReturn`
and `edited`.

*Actions.* One per register write (`WriteFBCR`, `WriteTVMR`, `WriteTVMD`, `WriteENDR`, `WritePTMR`,
`PlotTrigger`, `RamWrite`, `ClockChange`), one per kind of iteration of the command loop (`EnterDrawCommands`,
`OutOfBudget`, `AbortCommand`, `ExecuteCommand`), and the line: `LineEndNoField` or `LineEndField` and
`FieldDone`, `PollDrawEnd`, `NextLine`.

*Abstractions.* An address is a command slot; a fetch past the end wraps as the RAM mask does, a CMDLINK past the
end is an out-of-bounds read and gives any link. `EstimateDrawLines` sums texel areas: here any number up to
its cap, zero for an empty list. The cap of 4096 commands per call cannot be reached with a line's budget of 100
and is left out. `PowerOnEDSR` is a constant because `Vdp1Init` clears `sizeof` of a pointer and leaves the
registers to the heap; nothing is assumed of it. A bit above CEF that was there at power-on may be shifted into CEF while a
list is drawn: `NoEndFlagWhileDrawing` and `PlotJob` name this as the only way. `ClockChange` is `Vdp1Reset` and `Vdp2Reset`:
the list goes on and its schedule is dropped (`vdp2.cpp:712`), so that it ends without a word to the game, unless a field
that draws finds it first; `RunningIsScheduled` says exactly this. Not modelled: drawing with the layer switched off (`Vdp1NoDraw`), frame skip, threads of
`vidsoft.c`, save states.

### 3.2 SoundOut

One process is the emulation thread: `Generate` or `LineWithoutBlock` (`ScspExec` with and without a block),
`HandOver`, then `UpdateAudio`, `CopyIn` per sample, `Publish`. The other is the reader: `ReadAudio` (loads `write`),
`LoadRead`, `CopyOut` per sample, `Return`. The loads and stores of the atomic cursors are separate steps, which is
what acquire and release order guarantees; cursors wrap at `Counters`, a multiple of the ring as 2^32 is.
Sample values are replaced by their number. A new session (`NewSession`) resets positions and cursors with the
reader idle, because the adapter reads on the queue that creates sessions. `muted` is never set by any code and
`SNDRingReset` never called; both are left out.

### 3.3 ScuInterrupts, ScuDma and Scu

`irq` is a record of what a chain of handlers changes: IST, AIACK, the SCU's queue and the CPUs' queues, from the
bottom of the array to the top, and the DMA levels. A handler of the code calls others that change the same state, so
they are operators from record to record, and an action of `Scu` composes them as its handler does. Those of
`ScuInterrupts` (`SendInterrupt`, `TestInterruptMask`, `RemoveInterruptByCPU`, `RemoveTimer`, `Enqueue`, `Without`)
are the functions of `scu.c` and `sh2int.c` of the same names; `Enqueue` reproduces what the exchange sort does with entries of equal level. The actions are the
register writes, acceptance by a CPU (`Take`), changes of SR, slave on and off, a clock change, device requests
(`Raise`), `ScuExec` (Timer 1 and the slices of the DMA levels) and the scanline events. The A-bus has two of the
sixteen external requests, with different levels.

`ScuDma` is the DMA half of `scu.c`. A transfer is a number of words and what follows the last of them: its end; a
rest shorter than a word, which leaves `TransferNumber` negative; or an entry of an indirect table on a bus that
cannot be reached. `run` toggles with every start and tells a transfer from the one that replaces it. A level waits for
a start factor (`factor`, the registers it will use are `selected`) until DxEN is written or the factor comes; an event
start clears DxEN. A start by a write first finishes every level if the level's `TransferNumber` is not zero,
also when it is negative; a start by a factor does so only if it is positive. Every start then gives 128 words, and every
`ScuExec` its own number, to *each* level. A clock change drops the transfers without a word. An illegal entry sends
the illegal interrupt instead of an end. The end of a transfer is sent from inside the sender of the interrupt that started it, so
`SucDmaCheck` applies `SendInterrupt` to the record at the point where the code calls it, and the orders of the code are
kept; since no DMA end is itself a start factor the nesting is one deep. A transfer is assumed not longer than the
budget of a flush (2^31 - 1 words), which the width of `TransferNumber` gives. Left out: addresses, fills and bus widths, indirect entries of length zero,
transfers that cross the end of a bus, DSTA, DSTP (stored and read by no code), the DMA of the DSP, and the
`OLD_DMA` variant.

### 3.4 Smpc

A program writes SF, IREG0, IREG1 and COMREG; the loop advances a deciline and `SmpcExec` runs; VBlank-IN and line 207
come on their lines. `SetTiming` arms a command or rejects it, `ExecuteCommand` performs it when its time has run out, and an INTBACK
(`IntbackStatus`, `IntbackPeripheral`, `IntbackGoesOn`) collects the ports on line 207, answers with as many bytes as the registers hold and stays open until it is continued,
broken, or ended by VBlank-IN. `rude` records that the program broke the protocol (wrote while SF was set); `Reset` and
`LoadState` come between frames. `port1` and `port2` are size and offset of the collected bytes, `OREG` which bytes were
told. An INTBACK that opens its sequence with port data writes its code to OREG[31] afterwards (`smpc.c:508`), and so do six
other commands: if the data fills all the registers, its last byte is gone, and the next answer goes on behind it. The model
has this, `PortDataInOrder` names it as the one byte that may be lost. The flag `intback_wait_for_line` is a global of the file: neither a reset, nor another command, nor a load clears it.

`SmpcAssumption` bounds the sizes of the ports, because a second whole piece of one port is copied from the start of
its data (`smpc.c:448`, `smpc.c:463`); the application connects one pad per port, far below the bound. A pending
continue that meets VBlank-IN runs as a fresh INTBACK; the model does so too. The comment at `smpc.c:492` speaks of an
INTBACK that asks for nothing, which `SmpcSetTiming` has rejected before. Not modelled: PDR/DDR (direct mode), the clock,
SMEM, the NMI button, the NPE bit, which no code sets.

### 3.5 CdBlock

*State.* The command registers (`CR` says what they hold), the pending command, the execution lock and its delayed
interrupt, the drive, the partitions as sequences of sectors with `numblocks`, `blockfreespace` and `isbufferfull` as the
code keeps them beside, the open transfer, and history: `owed` interrupts, `playing`, `forgotten`. `outconcddev` starts
connected: `Cs2GetIP`, which every reset calls through `SmpcRecheckRegion`, points it at filter 0 (`cs2.c:4445`).

*Actions.* The program begins a command (`WriteCR1`), starts it (`WriteCR4`), waits for CMOK, reads the answer (`ReadCR4`)
and reads the data port (`ReadData`). `Cs2Exec` is two actions, `CommandHalf` (execute a command or count the lock down) and
`PeriodicHalf` (a period of the drive: a sector, a pause, a repeat, the end, a report); `SeekDone` ends a seek.
Commands: play, seek, read file, abort, Initialize soft and clearing, reset selector, connect the CD device, get, get then
delete, delete, end of transfer, and the reports.

*Program.* It asks for sectors it was told are there; it does not delete from the partition of an open transfer, nor,
during get-then-delete, reset that partition or clear with Initialize. These are conditions on the commands it issues,
named in the module; the CD library of a game keeps them.

*What the code does that the model keeps.* A soft Initialize on a full buffer takes it for one with space: the next sector
is lost (`forgotten`). Initialize, AbortFile and a reset of the selectors leave `bufferfullpause`, so that a play they stop
comes back by itself (`Revivable`), after Initialize at the start of the disc. `SectorRead` has a step of its own for this, `Revive`,
and allows no other sector without a play; a command that seeks leaves no play and nothing to come back, and one that is
neither a play nor a seek starts no play and moves none; the run `CdStaleResume` shows the sector that is out of range. A play repeats up to
14 times or for ever, because `repcnt` stops at 14 and `maxrepeat` does not. Get-then-delete
leaves `datatranspartitionnum` of an earlier get, so a later reset of that partition cancels the transfer; at power-on it is
any partition. A delete of zero sectors never sends EHST.

*Left out.* The test `size <= 0` of `Cs2EndDataTransfer` (`cs2.c:1943`), which no modelled command reaches. Put (which zeroes a size), copy and move, track-mode plays and scan, tray and disc change,
directories, MPEG, netlink, most HIRQ bits, save states (a load restores neither the partition of a transfer nor,
`cs2.h:195` and `cs2.c:4699` disagreeing, is clear about the delayed interrupt), cycles of filters, and the quirks of an empty
range and of a refresh after an ended play.

### 3.6 Session

Two adapters, each with its own serial queue and timer, over the one `g_session` of the bridge. The main thread runs
`loadROM`, `start`, `pause`, `stop`, `setButton` (added to the queue without waiting) and `SyncCall` (the
calls that wait for the queue). `Fire` adds a frame to the queue, coalesced as a dispatch timer does. A block on a queue is at a
place (`at`) and holds the handle it has read (`mine`); the test of a handle in the bridge and the work behind it are
separate steps. Handles are addresses and are used again. The owner of an adapter is assumed to stop it before dropping
its last reference, because `deinit` from a frame would wait for its own queue (`SaturnEmulatorCore.swift:82`).
`PASaturnSessionReset` is not used by the adapter and left out, as are the error buffer and the statistics.

## 4. What is checked

| Run | Question | Bounds |
|---|---|---|
| `Vdp1List` | lists with a subroutine, loops, bad commands and edits, cut into chunks: `TypeOK`, `NoEndFlagWhileDrawing`, `NoBudgetCarriedOver`, `ChunksFollowTheList` | 3 slots, 4 lists, 6 edits, 4 CPU writes, 6 lines per field |
| `Vdp1Field` | triggers, stops, resets, swaps, resolution and clock changes against the schedule: `NoUnownedDrawEnd`, `RunningIsScheduled`, `OneCycleStartsClean`, `PlotJobSpec`, `DrawEndArrives` | 2 lists, 2 edits, 4 CPU writes, 2 VBlank lines |
| `SoundOut` | producer and consumer interleaved at every load and store: `WithinCapacity`, `StreamSpec`, `EverySampleLeaves` | block 2, SCSP buffer 4, ring 2, cursors mod 4, 5 blocks, 2 sessions |
| `Scu` | every order of requests, writes, acceptance, lines and transfers: `TypeOK`, `MostUrgentLast`, `ABusQueuedIsLatched`, `Timer0Current`, `Timer1OncePerField`, `ABusOncePerAck`, `TransfersTold`, `LatchSpec` | 2 external devices, 2 DMA levels, 3 lines per field, 4 writes or requests |
| `Smpc` | commands, sequences and writes against the lines, resets and loads: `TypeOK`, `SFTellsThePort`, `FirstOnce`, `PortDataInOrder`, `PortSpec`, `BusyEnds` | 2 decilines, 5 lines, 3 output registers, 4 bytes per port, 7 writes |
| `CdBlock` | commands, drive, buffer and transfer in every order: `TypeOK`, `BlocksCounted`, `FullIsKnown`, `TransferIntact`, `ResponseKept`, `DelayedIrqFirst`, `ReadSpec`, `CommandAnswered`, `NoStall` | 5 sectors, 2 partitions, 2 blocks, 3 commands; plays once, twice or for ever |
| `Session` | the main thread, queues and timers of two adapters: `TypeOK`, `CoreExclusive`, `OwnSession`, `NoOrphan`, `MainReturns` | 2 adapters, 2 handles, 3 blocks before a button is refused |

The numbers of a line are scaled down with their relations kept: a field has fewer lines than the cap of the estimate
plus the floor, so that a schedule wraps; a line's budget (3) is not a multiple of a command's cost (2), so that
a chunk ends with a debt; the VBlank line is below the field's end, so that an estimate can fall on either side
of it. Four CPU writes reach every pair of trigger, stop, swap and edit with one write to spare; each mutant is
found with less. In `SoundOut` every wrap happens within five blocks, and a stalled reader fills both buffers within
three. In `Scu` a field is two lines of display and one of VBlank, and four events are enough for two queued A-bus
requests with an AIACK and an unmask after them, for the four writes that a Timer 1 in mode 1 needs, and for a
transfer that is started, replaced and ended. In `Smpc` an answer holds three bytes and each port has four, so that
an INTBACK needs three answers and one of them is of both ports; seven writes are an INTBACK by the protocol (SF, IREG1, IREG0, COMREG)
with two continues and one write out of turn. The long delay is longer than the way to line 207, the short one is not.
In `CdBlock` the disc sends its sectors to both partitions, one to none and one that is audio; a buffer of two fills
inside every play of three; three commands are enough to fill the buffer, open a transfer and end or disturb it, and for a soft
Initialize between a play that paused and its resumption. `Session` is finite without bounded histories: the queues are
bounded by the one awaited block, the coalesced timer and `Depth`; two handles are enough for a used one to come again.

`CpuWrites`, `Events`, `MaxBlocks`, `MaxSessions`, `Writes`, `Issues` and `Depth` bound behaviours, nothing else.

**Fairness.** `Vdp1!FairSpec` is weak fairness of the emulation loop: nothing in this configuration makes it wait. The
CPU's writes have none, a game may stop writing. `SoundOut!FairSpec` has weak fairness of both sides: the loop
goes on, and the adapter reads on every frame (`EverySampleLeaves` is about an application that keeps reading).
`Scu` states no fairness and no liveness: a program may mask a request for ever. `Smpc!FairSpec` has weak fairness of the
step that is a deciline with its `SmpcExec` (the loop calls it unconditionally), which is enough for `BusyEnds`: SF set by the
SMPC is cleared. `CdBlock!FairSpec` has weak fairness of the two halves of `Cs2Exec`, of the end of a seek, which is a timer of
the drive, and of the last register write, since a command half written is nobody's fault; `CommandAnswered` says that a
command gets its CMOK and `NoStall` that a drive paused on a full buffer goes on when there is space.
`Session!FairSpec` has weak fairness of the queues and of the return from one; a user and a timer owe nothing.
`CdBlock` switches the deadlock check off: when its commands are used up a program that is idle beside a paused drive stops.

**Disagreements between code and comments.** Five runs are expected to find a violation:

- `Vdp1ReturnAddr`: the return address of a list that ends in a subroutine survives into the next list
  (`vdp1.cpp:813` after the clear at 810), although it is documented to survive chunks only (`vdp1.cpp:689`).
- `Vdp1ManualErase`: an erase armed together with a change is applied to the display buffer after the change; the branch
  meant for it at `vdp2.cpp:1637` is never taken.
- `SoundOverruns`: `audioOverruns` stays zero while samples are dropped in the SCSP's own buffer.
- `ScuABusOnWrite`: unmasking the A-bus with AIACK armed does not deliver a waiting CD request when the same write
  delivers a more urgent one, although the latch relies on it (`scu.c:3278`, `scu.c:3302`). What does hold is the theorem
  `ABusWaitsOnlyBehind`: that a request as urgent goes to the master instead is the only reason why it waits.
- `CdStaleResume`: a soft Initialize stops a play that waits for space, and the drive resumes it before the range of that
  play (`cs2.c:1145-1149` means to rule out resumes that deliver an out-of-range sector). What does hold is `ReadSpec`.

One more is visible in `Vdp1` without a run: a list estimated at zero lines starts without budget (`PlotDone`), and is not done
on the line of its trigger as `vdp1.cpp:529` says it must be.

## 5. What is proved

A theorem holds for every value of the constants that meets the named assumption of the component's module; TLC evaluates the
same assumption in each run. Almost none of the invariants the runs check is inductive. Each proof module states the
strengthening it uses, one conjunct per concern, and one lemma per action or group of actions.

| Module | Theorems | Assumption |
|---|---|---|
| `Vdp1Proofs` | `TypeCorrect`, `BudgetIsPerLine`, `RunningPlotIsScheduled`, `ScheduledDrawEndIsOwed`, `EndFlagMeansEnded`, `OneCycleHandsOverAnErasedBuffer`, `ChunksWalkTheList`; `PipelineImplementsPlotJob` (`Vdp1` implements `PlotJob`) | `LinesAssumption`, `RamAssumption` |
| `SoundOutProofs` | `Invariance`, `CapacityKept` | `SoundAssumption` |
| `SoundStreamProofs` | `KeepsTheStream` (`SoundOut` implements `SoundStream`) | `SoundAssumption` |
| `ScuOperatorProofs` | lemmas only | `DmaAssumption` |
| `ScuProofs` | `ControllerInvariant`, `TypeCorrect`, `NoQueueOverflows`, `QueuesAreSorted`, `QueuedAreLatched`, `Timer0IsCurrent`, `TimersInvariant`, `OncePerField`; `OneABusRequest`, `TransfersAreTold`, `WritesServeTheMostUrgent`, `ABusWaitsOnlyBehind`; `ImplementsTheLatch` (`Scu` implements `InterruptLatch`) | `DmaAssumption`, `ScuAssumption` |
| `SmpcProofs` | `Invariance`, `TypeCorrect`, `BusyFlagIsTrue`, `FirstAlwaysOnce`, `DataInOrder`, `KeepsThePort` (`Smpc` implements `CommandPort`) | `SmpcAssumption` |
| `CdBlockProofs` | `Invariant`, `Typing`, `PoolIsCounted`, `PoolIsKnown`, `TransfersIntact`, `ResponsesKept`, `DelayedIrqComesFirst`, `DeliversInOrder` (`CdBlock` implements `SectorRead`) | `CdAssumption` |
| `SessionProofs` | `Invariant`, `Typing`, `Exclusive`, `Ownership`, `NothingLeft` | `SessionAssumption` |

**Vdp1.** A call of `Vdp1DrawCommands` takes many steps, so the invariants have to say what holds inside it. `Paced` says what
the budget may be at each `pc` of a call from each `site`: a trigger and a field enter with no budget, a line end with
at most one line's, and what is left when a call returns is a debt smaller than a command. `Owing` relates the
schedule, the status and the history variables `owed` and `lost` also inside the calls, where a plot has been started and its
line not chosen yet. `EndFlag` says that above its two bits EDSR is what the shifts left of the power-on contents, and that
whenever the VDP1 is `RUNNING` CEF is one of those bits. The refinement maps each action to `Start`, `Change`,
`Finish`, `Deliver`, `Drop`, `Reschedule`, `Cancel` or a stutter and uses all three.

`ChunksWalkTheList` compares the paced walk with a reference that is a recursive function of the number of steps. It is cut off
at (Slots + 1)(Slots + 2) steps, so the first thing to prove is that nothing lies beyond: a walk that stays in the RAM has
at most Slots (Slots + 2) positions (an address, and a return address that is none, the one of the start, or the
one after some slot), so by the pigeonhole principle it repeats one (`WalkRepeats`), and from then on it goes round
(`WalkGoesRound`). Hence the positions of the reference are closed under the walker's step (`OneShotClosed`), and the invariant
`OnTheWay` is: while the list is unedited the walker stands at one of them, with the return address in the local inside the
loop and in the static outside, and the loop never stands at an END.

**SoundOut.** The cursors wrap and the two sides see each other's only through an earlier load. `WriterInv`: the chunk
in flight fits the free slots, because meanwhile only the reader changes them and it only frees some; it does not pass
the end of the buffer; its copied part stands behind the write cursor. `ReaderInv`: the loaded write cursor is never
ahead of the real one, the reader takes no more than is held, and what it has copied is still what the ring holds
first. Underneath is arithmetic: cursors less than a ring apart name different slots (`RemaindersDiffer`), and a whole turn of
the counters ends at the slot where it began (`SlotAfterTurn`), which needs the ring to divide the counters, as every
power of two does 2^32. The refinement maps the queue to the ring's part followed by the SCSP's: copies and cursor
stores stutter, `Return` is the read, `Generate` drops the oldest samples that an overrun costs.

**Scu.** Timer 1 in mode 1 is armed by a match of Timer 0 and expires in a step of its own, so "once per field" is not
inductive. `TimerInv`: while the program leaves the compare alone, the flag of the match says that the counter stands at
T0C; at most one request was raised; if one was, the match is past, or it is now and Timer 1 is not loaded again.

For the rest the work is in the operators, because one action of `Scu` may go through a dozen of them: a scanline event sends a
request, which starts a transfer, which flushes the other levels, each of which sends its end. So `IInv` says of `irq` what
every operator keeps of a record, `IrqOK(r)`: queues without repetition and sorted, a queued A-bus request with its IST bit, and
a busy DMA level with words left, no more than a flush moves; without the last a start could overwrite a transfer
that the flush had not finished. Beside it stand the types and `Timer0Current`. Sortedness of `Enqueue` rests on what the exchange
sort does to a run of equal levels. A queue without repetition is no longer than the set of its sources, which bounds the
arrays: `NoQueueOverflows` leaves room in them for the fourteen A-bus requests that the model leaves out.

For the action properties and the refinement an operator is described by what it may do (`Moves`): which requests it adds and
withdraws, that it never arms AIACK, and that each DMA level goes on, ends and is told, or begins what it waited for.
Such descriptions compose (`MovesTwice`), so that of a whole handler (`Chain`) follows from its operators in the order of
the code. `StepOK` collects what each action then satisfies: the invariant again, at most one A-bus request, no transfer
ended untold, and a step of `InterruptLatch`. `ScuTestInterruptMask` delivers one A-bus request and
one other at most, and skips the neighbour of an A-bus request it has removed; `ScanFindsFirst` says that of all it may
deliver the first it comes to goes nevertheless, and in a sorted queue that is a most urgent one.

**Smpc.** `BusyIsPending` (SF that the SMPC holds has a command with time to run), `PoliteInv` (for a program in the
protocol a claimed port is idle, and a command that runs is the one asked for), `FirstOnce` itself, and `PortsInv`, which relates sizes and offsets of
both ports to the number of bytes told: port 2 is whole until port 1 is used up. `PortDataInOrder` compares each answer with
the piece of the collected bytes that follows what was told, the code over its last byte where an opening answer is full.

**CdBlock.** `PortInv` and `LockInv` tie command, lock and owed interrupt together; `DriveInv` bounds the positions;
`Counts` and `Fullness` are the invariants of the pool; `TransferInv` says where the sectors of a transfer are, that a
get-then-delete stays open while its sectors are to be removed, and which partition its number names;
`RequestInv` says that what the program asked for is still allowed when it is executed, because partitions only
grow while a command waits. `DeliversInOrder` needs `PlayInv` besides: a drive that plays or
seeks in order to play has a play. A resumption maps to a stutter while the play goes on and to `Revive` if it was stopped; the
times a play starts over are what `repcnt` leaves of `maxrepeat`, or endless (`SectorMaps`).

**Session.** Exclusion is not by a lock but by the main thread waiting: `QueueInv` says that
only the queue it waits for has an awaited block, and only one; `MainInv` and `HandleInv` that a handle held by the main thread, an
adapter or a block is that of the adapter's own session, although addresses are used again; `Known` that somebody knows of
the session.

**Induction.** The walk of a command list and the removal of queue entries (`Keep`) are recursive functions. The induction
theorems of the library take the induction hypothesis as an operator, which the provers at hand cannot instantiate, so these
proofs go by the least counterexample: every non-empty set of numbers has a least element (`Least`, from the well-foundedness of
the order of the numbers), and with it the function is shown to exist (`WalkExists`, `KeepExists`) and its values to have the
property in question.

**Only model-checked.** Liveness under fairness, which is out of the prover's reach: `DrawEndArrives`, `EverySampleLeaves`,
`BusyEnds`, `CommandAnswered`, `NoStall`, `MainReturns`. Every other property of a passing run is a theorem.

## 6. What is not modelled

Most of the repository is data and third-party code: pixels, samples, instructions, DMA words, disc formats, host files,
the OpenGL and Vulkan headers, other front-ends, tools. What has control and is left out is named with each
module in section 3 and with its reason in `PROJECT.json`. The chief ones:

- Save states. A load applies each chunk as it reads it and returns at the first that is missing (`memory.c:2124`), so a
  failed load leaves a mixed machine. That is a straight line; what matters is which state of each component a chunk omits.
  `Smpc!LoadState` is the one load modelled.
- The SCU DSP, the SH-2, the 68000 and the SCSP's synthesis are sequential interpreters; a model of them would be a
  transliteration.
- Backup RAM is a mapped file whose order on disc is the host's.
- Threads and event queues of the core are compiled in and unused: `usethreads` is 0.
- `lastFrameSequence` of an adapter is not reset when it loads again, and the bridge's `lastError` may be replaced by
  a message of another session; both are visible to the user only as a skipped frame or another text.

## 7. Running

    tlc -config Vdp1List.cfg MCVdp1.tla      # the Vdp1 runs use MCVdp1
    tlc -config SoundOut.cfg SoundOut.tla
    tlc -config Scu.cfg MCScu.tla
    tlc -config Smpc.cfg Smpc.tla
    tlc -config CdBlock.cfg MCCdBlock.tla
    tlc -config Session.cfg Session.tla
    tlapm Vdp1Proofs.tla                     # and the other seven ...Proofs modules
