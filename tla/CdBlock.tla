-------------------------------- MODULE CdBlock --------------------------------
(***************************************************************************)
(* The CD block: the command port, the drive, the sector buffer with its   *)
(* partitions, and the transfer of sectors to the program.  Cs2Exec runs   *)
(* after every deciline.  Its first half executes the command that waits,  *)
(* or counts down the lock of the one before; its second half runs when a  *)
(* period of the drive is over.  The two halves are actions of their own:  *)
(* the program need not step between them.                                 *)
(*                                                                         *)
(* Positions on the disc are the FADs First .. Last.  Never stands for the *)
(* 0xFFFFFFFF of FAD and playendFAD, None for the 0xFF of nextStatus.      *)
(***************************************************************************)
EXTENDS Integers, Sequences, FiniteSets

CONSTANTS
  Partitions,
  MAX_BLOCKS,
  First, Last,      \* FAD 150 and the last one of the disc
  Route,            \* where the filters send a sector: a partition, Reject, Audio
  Reject, Audio, None,
  Plays,            \* <<start, length>> of the plays of the program
  Repeats,
  Issues            \* bound: commands in a behaviour

ASSUME CdAssumption ==
  /\ MAX_BLOCKS \in Nat \ {0}
  /\ First \in Nat /\ Last \in Nat /\ First <= Last
  /\ Reject \notin Partitions /\ Audio \notin Partitions /\ Reject # Audio
  /\ None \notin Partitions \cup {"PAUSE", "STANDBY"}
  /\ Route \in [First .. Last -> Partitions \cup {Reject, Audio}]
  /\ \A r \in Plays : r[1] \in First .. Last /\ r[2] \in 1 .. Last - r[1] + 1
  /\ Repeats \subseteq 0 .. 126
  /\ Issues \in Nat

Sectors == First .. Last

Wanted == {f \in Sectors : Route[f] \in Partitions}

Never == Last + 2

NoCommand == [op |-> "GetStatus"]

VARIABLES
  \* the program
  phase,            \* "idle", "writing", "waiting" for CMOK, "answered"
  open, promised,   \* the partition it has a transfer from, and its sectors
  issues,
  \* the command port
  CR,               \* what the registers hold: "command", "response", "report"
  cmd,              \* the command that was written to them
  _command, _commandtiming,
  _command_execlock, _delay_irq,
  \* the drive
  status, nextStatus, FAD, playFAD, playendFAD, repcnt, maxrepeat,
  bufferfullpause, outconcddev,
  \* the buffer
  partition, numblocks, blockfreespace, isbufferfull,
  \* the transfer
  datatranstype, datatranspartition, datatranspartitionnum,
  datatranssectpos, datasectstotrans, datanumsecttrans,
  \* history
  owed,             \* the interrupts that executed commands still owe
  playing,          \* the last play has neither ended nor been stopped
  forgotten,        \* CDInitialize has taken a full buffer for one with space
  PEND              \* the last step sent it

program   == <<phase, open, promised, issues>>
port      == <<CR, cmd, _command, _commandtiming>>
lock      == <<_command_execlock, _delay_irq>>
range     == <<playFAD, playendFAD, repcnt, maxrepeat>>
drive     == <<status, nextStatus, FAD, range, bufferfullpause>>
buffer    == <<partition, numblocks, blockfreespace, isbufferfull>>
transfer  == <<datatranstype, datatranspartition, datatranspartitionnum,
               datatranssectpos, datasectstotrans, datanumsecttrans>>
history   == <<owed, playing, forgotten>>
vars      == <<program, port, lock, drive, outconcddev, buffer, transfer, history, PEND>>

Init ==
  /\ phase = "idle" /\ open = None /\ promised = <<>> /\ issues = Issues
  /\ CR = "report" /\ cmd = NoCommand /\ _command = FALSE /\ _commandtiming = FALSE
  /\ _command_execlock = FALSE /\ _delay_irq = "none"
  /\ status = "PAUSE" /\ nextStatus = None /\ FAD = First
  /\ playFAD = Never /\ playendFAD = Never /\ repcnt = 0 /\ maxrepeat = 0
  /\ bufferfullpause = FALSE /\ outconcddev = TRUE
  /\ partition = [p \in Partitions |-> <<>>] /\ numblocks = [p \in Partitions |-> 0]
  /\ blockfreespace = MAX_BLOCKS /\ isbufferfull = FALSE
  /\ datatranstype = "INVALID" /\ datatranspartition = None
  /\ datatranspartitionnum \in Partitions
  /\ datatranssectpos = 0 /\ datasectstotrans = 0 /\ datanumsecttrans = 0
  /\ owed = {} /\ playing = FALSE /\ forgotten = FALSE /\ PEND = FALSE
-------------------------------------------------------------------------------
(* The requests of a program.  It asks for the sectors it has counted, and *)
(* for the last one or all from the second on by the sentinels; the count  *)
(* may be zero.  While it has a transfer it does not delete sectors of     *)
(* that partition, and during one that deletes it resets no partition.     *)
Sentinel == 65535

Selections(p) ==
  [pos : {0, 1}, n : 0 .. MAX_BLOCKS] \cup
  {[pos |-> Sentinel, n |-> 1], [pos |-> 1, n |-> Sentinel]}

Counted(p, sel) ==
  IF sel.n = Sentinel THEN Len(partition[p]) > 1
  ELSE sel.pos = Sentinel \/ sel.n = 0 \/ sel.pos + sel.n <= Len(partition[p])

Requests ==
  [op : {"GetStatus", "Refresh", "SeekPause", "SeekStop", "AbortFile", "EndDataTransfer",
         "ResetFilters", "ResetAll"}] \cup
  [op : {"Play", "PlayOn"}, range : Plays, repeats : Repeats] \cup
  [op : {"ReadFile"}, range : Plays] \cup
  [op : {"Seek"}, fad : Sectors] \cup
  [op : {"Initialize"}, clear : BOOLEAN] \cup
  [op : {"Connect"}, on : BOOLEAN] \cup
  [op : {"ResetPartition"}, part : Partitions] \cup
  UNION {[op : {"Get", "GetThenDelete", "Delete"}, part : {p}, sel : Selections(p)] :
           p \in Partitions}

Allowed(c) ==
  /\ c.op \in {"Get", "GetThenDelete", "Delete"} => Counted(c.part, c.sel)
  /\ c.op = "Delete" => c.part # open
  /\ datatranstype = "GETDELSECTOR" =>
       /\ c.op = "ResetPartition" => c.part # open
       /\ c.op = "Initialize" => ~c.clear

WriteCR1 ==
  /\ phase = "idle" /\ issues > 0
  /\ \E c \in Requests : Allowed(c) /\ cmd' = c
  /\ phase' = "writing" /\ CR' = "command" /\ _command' = TRUE
  /\ issues' = issues - 1 /\ PEND' = FALSE
  /\ UNCHANGED <<open, promised, _commandtiming, lock, drive, outconcddev, buffer,
                 transfer, history>>

WriteCR4 ==
  /\ phase = "writing"
  /\ phase' = "waiting" /\ _commandtiming' = TRUE /\ PEND' = FALSE
  /\ UNCHANGED <<open, promised, issues, CR, cmd, _command, lock, drive, outconcddev,
                 buffer, transfer, history>>

ReadCR4 ==
  /\ phase = "answered"
  /\ phase' = "idle" /\ _command' = FALSE /\ PEND' = FALSE
  /\ UNCHANGED <<open, promised, issues, CR, cmd, _commandtiming, lock, drive,
                 outconcddev, buffer, transfer, history>>
-------------------------------------------------------------------------------
(* The buffer. *)
AllBlocks == UNION {{p} \X (1 .. Len(partition[p])) : p \in Partitions}

Without(s, pos, n) == SubSeq(s, 1, pos) \o SubSeq(s, pos + n + 1, Len(s))

(* Cs2FreeBlock for the sectors pos .. pos + n - 1, and Cs2SortBlocks. *)
Free(p, pos, n) ==
  /\ partition' = [partition EXCEPT ![p] = Without(@, pos, n)]
  /\ numblocks' = [numblocks EXCEPT ![p] = @ - n]
  /\ blockfreespace' = blockfreespace + n
  /\ isbufferfull' = (isbufferfull /\ n = 0)
  /\ forgotten' = (forgotten /\ n = 0)

ClearPartitions ==
  /\ partition' = [p \in Partitions |-> <<>>] /\ numblocks' = [p \in Partitions |-> 0]
  /\ blockfreespace' = MAX_BLOCKS /\ isbufferfull' = FALSE
  /\ forgotten' = FALSE

AllocatedOneTooMany(p) ==   \* mutant
  /\ blockfreespace > 0
  /\ partition' = [partition EXCEPT ![p] = Append(@, FAD)]
  /\ numblocks' = [numblocks EXCEPT ![p] = @ + 1]
  /\ blockfreespace' = blockfreespace - 1
  /\ isbufferfull' = (isbufferfull \/ blockfreespace' < 0)
  /\ UNCHANGED forgotten

Allocated(p) ==
  /\ blockfreespace > 0
  /\ partition' = [partition EXCEPT ![p] = Append(@, FAD)]
  /\ numblocks' = [numblocks EXCEPT ![p] = @ + 1]
  /\ blockfreespace' = blockfreespace - 1
  /\ isbufferfull' = (isbufferfull \/ blockfreespace' <= 0)
  /\ UNCHANGED forgotten

(* The pool has no block: the sector is lost. *)
NotAllocated ==
  /\ blockfreespace <= 0
  /\ isbufferfull' = TRUE /\ forgotten' = FALSE
  /\ UNCHANGED <<partition, numblocks, blockfreespace>>

EndTransferKeepsType == UNCHANGED datatranstype /\ open' = None /\ promised' = <<>>   \* mutant

EndTransfer == datatranstype' = "INVALID" /\ open' = None /\ promised' = <<>>

KeepTransfer == UNCHANGED <<transfer, open, promised>>

KeepBuffer == UNCHANGED <<buffer, forgotten>>

KeepDrive == UNCHANGED <<drive, outconcddev, playing>>

KeepLock == UNCHANGED <<lock, owed>>

Locked(irq) == _command_execlock' = TRUE /\ _delay_irq' = irq /\ owed' = {irq}

OpenTransfer ==
  UNCHANGED <<datatranspartition, datatranspartitionnum, datatranssectpos,
              datasectstotrans, datanumsecttrans>>
-------------------------------------------------------------------------------
(* The commands: what each does to the lock, the drive, the buffer and the *)
(* transfer.                                                               *)
GetStatus == KeepLock /\ KeepDrive /\ KeepBuffer /\ KeepTransfer

(* An explicit play or seek cancels a pending resumption. *)
NotSuperseded == UNCHANGED bufferfullpause   \* mutant

Superseded == bufferfullpause' = FALSE

PlayStarts == playing' = TRUE

BusyForGood(next) == status' = "BUSY" /\ nextStatus' = None   \* mutant

Interrupted(next) == status' = "BUSY" /\ nextStatus' = next

Initialize ==
  /\ Interrupted("PAUSE") /\ FAD' = First
  /\ UNCHANGED <<repcnt, bufferfullpause, outconcddev>>
  /\ playing' = FALSE
  /\ IF cmd.clear
       THEN /\ playFAD' = Never /\ playendFAD' = Never /\ maxrepeat' = 0
            /\ ClearPartitions
            /\ open' = None /\ promised' = <<>> /\ UNCHANGED transfer
       ELSE /\ UNCHANGED <<playFAD, playendFAD, maxrepeat, partition, numblocks,
                           blockfreespace>>
            /\ isbufferfull' = FALSE /\ forgotten' = (blockfreespace = 0)
            /\ KeepTransfer
  /\ KeepLock

EndDataTransfer ==
  /\ KeepLock /\ KeepDrive
  /\ IF datatranstype = "GETDELSECTOR"
       THEN EndTransfer /\ Free(datatranspartition, datatranssectpos, datasectstotrans)
            /\ OpenTransfer
       ELSE KeepBuffer /\ UNCHANGED transfer /\ open' = None /\ promised' = <<>>

PlayFrom(start, length) ==
  /\ playFAD' = start /\ playendFAD' = start + length /\ repcnt' = 0
  /\ maxrepeat' = cmd.repeats

ToSeek == status' = "SEEK" /\ nextStatus' = None

Play ==
  /\ Superseded /\ UNCHANGED outconcddev
  /\ PlayFrom(cmd.range[1], cmd.range[2]) /\ FAD' = cmd.range[1]
  /\ ToSeek /\ PlayStarts
  /\ KeepLock /\ KeepBuffer /\ KeepTransfer

(* The pick-up stays where it is; a drive that plays does not seek. *)
PlayOn ==
  /\ Superseded /\ UNCHANGED <<FAD, outconcddev>>
  /\ PlayFrom(cmd.range[1], cmd.range[2])
  /\ IF status = "PLAY" THEN UNCHANGED <<status, nextStatus>> ELSE ToSeek
  /\ PlayStarts
  /\ KeepLock /\ KeepBuffer /\ KeepTransfer

(* A Play that changes nothing. *)
Refresh ==
  /\ Superseded /\ UNCHANGED <<FAD, range, outconcddev>>
  /\ IF status \in {"SEEK", "PLAY"} THEN UNCHANGED <<status, nextStatus, playing>>
                                   ELSE ToSeek /\ PlayStarts
  /\ KeepLock /\ KeepBuffer /\ KeepTransfer

ReadFile ==
  /\ playFAD' = cmd.range[1] /\ FAD' = cmd.range[1]
  /\ playendFAD' = cmd.range[1] + cmd.range[2]
  /\ repcnt' = 0 /\ maxrepeat' = 0
  /\ outconcddev' = TRUE /\ status' = "PLAY" /\ PlayStarts
  /\ UNCHANGED <<nextStatus, bufferfullpause>>
  /\ KeepLock /\ KeepBuffer /\ KeepTransfer

SeekDisc ==
  /\ Superseded /\ UNCHANGED <<playFAD, playendFAD, maxrepeat, outconcddev>>
  /\ \/ /\ cmd.op = "SeekStop"
        /\ Interrupted("STANDBY") /\ FAD' = Never /\ repcnt' = 255
     \/ /\ cmd.op = "SeekPause"
        /\ Interrupted("PAUSE") /\ UNCHANGED <<FAD, repcnt>>
     \/ /\ cmd.op = "Seek"
        /\ status' = "SEEK" /\ nextStatus' = "PAUSE" /\ FAD' = cmd.fad /\ repcnt' = 0
  /\ playing' = FALSE
  /\ KeepLock /\ KeepBuffer /\ KeepTransfer

AbortFile ==
  /\ Interrupted("PAUSE")
  /\ UNCHANGED <<FAD, range, bufferfullpause, outconcddev>>
  /\ playing' = FALSE
  /\ EndTransfer /\ OpenTransfer
  /\ KeepLock /\ KeepBuffer

Connect ==
  /\ outconcddev' = cmd.on
  /\ UNCHANGED <<drive, playing>>
  /\ KeepLock /\ KeepBuffer /\ KeepTransfer

CancelledIfEmpty(p) == blockfreespace' = MAX_BLOCKS   \* mutant

Cancelled(p) == blockfreespace' = MAX_BLOCKS \/ datatranspartitionnum = p

ResetPartition ==
  LET p == cmd.part IN
  /\ partition' = [partition EXCEPT ![p] = <<>>] /\ numblocks' = [numblocks EXCEPT ![p] = 0]
  /\ blockfreespace' = blockfreespace + numblocks[p]
  /\ isbufferfull' = (isbufferfull /\ blockfreespace' = 0)
  /\ forgotten' = (forgotten /\ numblocks[p] = 0)
  /\ IF Cancelled(p)
       THEN EndTransfer /\ OpenTransfer
       ELSE KeepTransfer
  /\ KeepLock /\ KeepDrive

(* The flags of ResetSelector: filters only, or the partitions too. *)
ResetSelector ==
  /\ IF cmd.op = "ResetAll" THEN ClearPartitions /\ EndTransfer /\ OpenTransfer
                            ELSE KeepBuffer /\ KeepTransfer
  /\ status' = "PAUSE"
  /\ playing' = (playing /\ status = "PAUSE" /\ bufferfullpause)
  /\ UNCHANGED <<nextStatus, FAD, range, bufferfullpause, outconcddev>>
  /\ Locked("ESEL")

(* CalcSectorOffsetNumber. *)
Offset(p, sel) == IF sel.pos = Sentinel THEN numblocks[p] - 1 ELSE sel.pos

Number(p, sel) == IF sel.n = Sentinel THEN numblocks[p] - sel.pos ELSE sel.n

Refused == numblocks[cmd.part] = 0 \/ cmd.sel.n = 0

Get ==
  LET p == cmd.part  pos == Offset(p, cmd.sel)  n == Number(p, cmd.sel) IN
  /\ IF Refused
       THEN KeepTransfer
       ELSE /\ datatranspartition' = p /\ datatranssectpos' = pos
            /\ datasectstotrans' = n /\ datanumsecttrans' = 0
            /\ \/ cmd.op = "Get" /\ datatranstype' = "GETSECTOR"
                  /\ datatranspartitionnum' = p
               \/ cmd.op = "GetThenDelete" /\ datatranstype' = "GETDELSECTOR"
                  /\ UNCHANGED datatranspartitionnum
            /\ open' = p /\ promised' = SubSeq(partition[p], pos + 1, pos + n)
  /\ KeepLock /\ KeepDrive /\ KeepBuffer

(* The lock is 30 us for a sector: none for zero sectors. *)
Delete ==
  LET p == cmd.part  pos == Offset(p, cmd.sel)  n == Number(p, cmd.sel) IN
  /\ IF numblocks[p] = 0
       THEN KeepLock /\ KeepBuffer
       ELSE /\ Free(p, pos, n)
            /\ IF n > 0 THEN Locked("EHST")
                        ELSE /\ _command_execlock' = FALSE /\ _delay_irq' = "EHST"
                             /\ UNCHANGED owed
  /\ KeepDrive /\ KeepTransfer
-------------------------------------------------------------------------------
(* The first half of Cs2Exec. *)
UnlockWhenIdle ==   \* mutant
  /\ _command_execlock /\ ~_commandtiming
  /\ _command_execlock' = FALSE /\ owed' = owed \ {_delay_irq}
  /\ PEND' = FALSE
  /\ UNCHANGED <<program, port, _delay_irq, drive, outconcddev, buffer, transfer,
                 playing, forgotten>>

Unlock ==
  /\ _command_execlock
  /\ _command_execlock' = FALSE /\ owed' = owed \ {_delay_irq}
  /\ PEND' = FALSE
  /\ UNCHANGED <<program, port, _delay_irq, drive, outconcddev, buffer, transfer,
                 playing, forgotten>>

ReadyWhenWritten == _commandtiming   \* mutant

Ready == _commandtiming /\ ~_command_execlock

Execute(command, ops) ==
  /\ Ready
  /\ cmd.op \in ops /\ command
  /\ _commandtiming' = FALSE /\ CR' = "response" /\ cmd' = NoCommand
  /\ phase' = "answered" /\ PEND' = FALSE
  /\ UNCHANGED <<issues, _command>>

Cs2Execute ==
  \/ Execute(GetStatus, {"GetStatus"})
  \/ Execute(Initialize, {"Initialize"})
  \/ Execute(EndDataTransfer, {"EndDataTransfer"})
  \/ Execute(Play, {"Play"})
  \/ Execute(PlayOn, {"PlayOn"})
  \/ Execute(Refresh, {"Refresh"})
  \/ Execute(ReadFile, {"ReadFile"})
  \/ Execute(SeekDisc, {"Seek", "SeekPause", "SeekStop"})
  \/ Execute(AbortFile, {"AbortFile"})
  \/ Execute(Connect, {"Connect"})
  \/ Execute(ResetPartition, {"ResetPartition"})
  \/ Execute(ResetSelector, {"ResetFilters", "ResetAll"})
  \/ Execute(Get, {"Get", "GetThenDelete"})
  \/ Execute(Delete, {"Delete"})

CommandHalf == Unlock \/ Cs2Execute
-------------------------------------------------------------------------------
(* The second half: the drive, and a report unless the program has the     *)
(* registers.                                                              *)
ReportAlways == CR' = "report"   \* mutant

Report == CR' = IF _command THEN CR ELSE "report"

Periodic ==
  /\ Report
  /\ UNCHANGED <<program, cmd, _command, _commandtiming, lock, transfer, outconcddev, owed>>

MayResumeAfterEnd == bufferfullpause /\ ~isbufferfull /\ FAD >= playendFAD   \* mutant

MayResume == bufferfullpause /\ ~isbufferfull /\ FAD < playendFAD

Resume ==
  /\ status = "PAUSE" /\ MayResume
  /\ bufferfullpause' = FALSE /\ status' = "PLAY" /\ PEND' = FALSE
  /\ playing' = TRUE
  /\ UNCHANGED <<nextStatus, FAD, range, buffer, forgotten>>
  /\ Periodic

SeekSlice ==
  /\ status = "SEEK" /\ PEND' = FALSE
  /\ UNCHANGED <<drive, buffer, playing, forgotten>>
  /\ Periodic

SeekDone ==
  /\ status = "SEEK" /\ PEND' = FALSE
  /\ status' = IF nextStatus # None THEN nextStatus
               ELSE IF isbufferfull THEN "SEEK" ELSE "PLAY"
  /\ nextStatus' = None
  /\ UNCHANGED <<FAD, range, bufferfullpause, buffer, playing, forgotten>>
  /\ Periodic

BusyDone ==
  /\ status = "BUSY" /\ PEND' = FALSE
  /\ status' = nextStatus /\ nextStatus' = None
  /\ UNCHANGED <<FAD, range, bufferfullpause, buffer, playing, forgotten>>
  /\ Periodic

(* The sector has been read: on to the next one, from the start, or the    *)
(* end.  The end overrides the pause of a full buffer.                     *)
AtEnd == FAD + 1 >= playendFAD

Advance(full) ==
  /\ nextStatus' = IF full THEN None ELSE nextStatus
  /\ UNCHANGED <<playFAD, playendFAD, maxrepeat>>
  /\ IF AtEnd /\ repcnt >= maxrepeat
       THEN /\ FAD' = FAD + 1 /\ status' = "PAUSE" /\ bufferfullpause' = FALSE
            /\ PEND' = TRUE /\ playing' = FALSE
            /\ UNCHANGED repcnt
       ELSE /\ FAD' = IF AtEnd THEN playFAD ELSE FAD + 1
            /\ repcnt' = IF AtEnd /\ repcnt < 14 THEN repcnt + 1 ELSE repcnt
            /\ status' = IF full THEN "PAUSE" ELSE status
            /\ bufferfullpause' = (full \/ bufferfullpause)
            /\ PEND' = FALSE /\ UNCHANGED playing

StoreSector ==
  /\ status = "PLAY" /\ FAD \in Wanted /\ outconcddev /\ ~isbufferfull
  /\ Allocated(Route[FAD]) /\ Advance(isbufferfull')
  /\ Periodic

LoseSector ==
  /\ status = "PLAY" /\ FAD \in Wanted /\ outconcddev /\ ~isbufferfull
  /\ NotAllocated /\ Advance(FALSE)
  /\ Periodic

(* An audio sector needs neither buffer nor connection. *)
SkipSector ==
  /\ status = "PLAY" /\ FAD \in Sectors
  /\ \/ Route[FAD] = Audio
     \/ Route[FAD] = Reject /\ outconcddev /\ ~isbufferfull
  /\ UNCHANGED <<buffer, forgotten>> /\ Advance(FALSE)
  /\ Periodic

(* A data sector with no place to go, or one the drive cannot read. *)
NotReady ==
  /\ status = "PLAY"
  /\ FAD \in Sectors => Route[FAD] # Audio /\ (isbufferfull \/ ~outconcddev)
  /\ PEND' = FALSE
  /\ UNCHANGED <<drive, buffer, playing, forgotten>>
  /\ Periodic

(* PAUSE with nothing to resume, STANDBY. *)
Quiescent ==
  /\ \/ status = "STANDBY"
     \/ status = "PAUSE" /\ ~MayResume
  /\ PEND' = FALSE
  /\ UNCHANGED <<drive, buffer, playing, forgotten>>
  /\ Periodic

PeriodicHalf ==
  \/ Resume \/ SeekSlice \/ SeekDone \/ BusyDone
  \/ StoreSector \/ LoseSector \/ SkipSector \/ NotReady \/ Quiescent
-------------------------------------------------------------------------------
(* The data port (ReadLong, and the word form of it). *)
ReadData ==
  /\ open # None /\ phase \in {"idle", "answered"}
  /\ \/ /\ datanumsecttrans < datasectstotrans
        /\ datanumsecttrans' = datanumsecttrans + 1
        /\ UNCHANGED <<open, promised, datatranstype, buffer, forgotten>>
     \/ /\ datanumsecttrans = datasectstotrans /\ datatranstype = "GETDELSECTOR"
        /\ EndTransfer /\ UNCHANGED datanumsecttrans
        /\ Free(datatranspartition, datatranssectpos, datasectstotrans)
  /\ PEND' = FALSE
  /\ UNCHANGED <<phase, issues, port, lock, drive, outconcddev, owed, playing,
                 datatranspartition, datatranspartitionnum, datatranssectpos, datasectstotrans>>

Next == WriteCR1 \/ WriteCR4 \/ ReadCR4 \/ ReadData \/ CommandHalf \/ PeriodicHalf

Spec == Init /\ [][Next]_vars

(* The loop runs Cs2Exec after every deciline; a seek takes a finite       *)
(* number of slices; the program writes what it has begun.                 *)
FairSpec ==
  /\ Spec
  /\ WF_vars(CommandHalf) /\ WF_vars(PeriodicHalf) /\ WF_vars(SeekDone)
  /\ WF_vars(WriteCR4)
-------------------------------------------------------------------------------
(* Every variable holds a value the program can store. *)
TypeOK ==
  /\ phase \in {"idle", "writing", "waiting", "answered"} /\ open \in Partitions \cup {None}
  /\ promised \in Seq(Sectors) /\ issues \in 0 .. Issues
  /\ CR \in {"command", "response", "report"} /\ cmd \in Requests
  /\ _command \in BOOLEAN /\ _commandtiming \in BOOLEAN
  /\ _command_execlock \in BOOLEAN /\ _delay_irq \in {"none", "ESEL", "EHST"}
  /\ status \in {"PAUSE", "SEEK", "PLAY", "BUSY", "STANDBY"}
  /\ nextStatus \in {None, "PAUSE", "STANDBY"} /\ (status = "BUSY" => nextStatus # None)
  /\ FAD \in First .. Never /\ playFAD \in First .. Never /\ playendFAD \in First .. Never
  /\ repcnt \in 0 .. 255 /\ maxrepeat \in Repeats \cup {0}
  /\ bufferfullpause \in BOOLEAN /\ outconcddev \in BOOLEAN
  /\ partition \in [Partitions -> Seq(Sectors)] /\ numblocks \in [Partitions -> 0 .. MAX_BLOCKS]
  /\ blockfreespace \in 0 .. MAX_BLOCKS /\ isbufferfull \in BOOLEAN
  /\ datatranstype \in {"INVALID", "GETSECTOR", "GETDELSECTOR"}
  /\ datatranspartition \in Partitions \cup {None} /\ datatranspartitionnum \in Partitions
  /\ datatranssectpos \in 0 .. MAX_BLOCKS /\ datasectstotrans \in 0 .. MAX_BLOCKS
  /\ datanumsecttrans \in 0 .. datasectstotrans
  /\ owed \subseteq {"ESEL", "EHST"}
  /\ <<playing, forgotten, PEND>> \in BOOLEAN \X BOOLEAN \X BOOLEAN

(* The count of each partition is the number of its sectors, and the       *)
(* blocks of all partitions and the free ones make up the pool, although   *)
(* five routines count them, each for itself.                              *)
BlocksCounted ==
  /\ \A p \in Partitions : numblocks[p] = Len(partition[p])
  /\ blockfreespace = MAX_BLOCKS - Cardinality(AllBlocks)

(* The drive takes the buffer for full exactly when no block is free: it   *)
(* neither waits for ever nor loses sectors.  Except after CDInitialize,   *)
(* which takes a full buffer for one with space if it does not clear it.   *)
FullIsKnown == isbufferfull = (blockfreespace = 0 /\ ~forgotten)

(* The sectors of a transfer are those that were at the positions the      *)
(* program asked for, whatever arrives or is removed meanwhile.            *)
TransferIntact ==
  open # None =>
    /\ datatranstype # "INVALID" /\ datatranspartition = open
    /\ Len(promised) = datasectstotrans
    /\ datatranssectpos + datasectstotrans <= Len(partition[open])
    /\ promised = SubSeq(partition[open], datatranssectpos + 1,
                         datatranssectpos + datasectstotrans)

(* A report of the drive overwrites neither a command in the registers nor *)
(* an answer the program has not read.                                     *)
ResponseKept ==
  /\ phase \in {"writing", "waiting"} => CR = "command"
  /\ phase = "answered" => CR = "response"

(* A command does not run before the interrupt the one before still owes. *)
DelayedIrqFirst == [][_commandtiming /\ ~_commandtiming' => owed = {}]_vars

(* repcnt stops at 14: a play with more repeats goes on for ever. *)
Again == IF repcnt >= maxrepeat THEN 0 ELSE IF maxrepeat > 14 THEN -1 ELSE maxrepeat - repcnt

(* A play has been stopped, the note that it waits for space stands.  *)
Revivable == bufferfullpause /\ ~playing

(* The command that waits to be executed, as far as plays are concerned. *)
Waiting ==
  IF ~_commandtiming THEN "none"
  ELSE IF cmd.op \in {"Play", "PlayOn", "Refresh", "ReadFile"} THEN "play"
  ELSE IF cmd.op \in {"Seek", "SeekPause", "SeekStop"} THEN "seek" ELSE "other"

Read == INSTANCE SectorRead WITH
  pending <- Waiting, on <- playing, revivable <- Revivable, sector <- FAD,
  first <- playFAD, last <- playendFAD, again <- Again, buffer <- partition,
  ended <- PEND, lossy <- forgotten

(* The drive delivers the sectors of a play in order, each once, through   *)
(* pauses for a full buffer, resumptions and repeats; it delivers none     *)
(* without a play, but for one that was stopped while it waited for space  *)
(* and comes back.  A seek leaves nothing that comes back.                 *)
ReadSpec == Read!Spec

(* A play that was stopped while it waited for space, if it comes back,    *)
(* delivers no sector that is out of the range it was given.               *)
ResumeStaysInRange ==
  [][Resume /\ ~playing /\ playFAD # Never => FAD \in playFAD .. playendFAD - 1]_vars

(* The program gets an answer to each command. *)
CommandAnswered == phase = "waiting" ~> phase = "answered"

(* A play goes on until it ends or is stopped, the buffer is full, there   *)
(* is no connection, or the next sector is not on the disc.                *)
NoStall == playing ~> \/ ~playing \/ isbufferfull \/ ~outconcddev \/ FAD \notin Sectors
===============================================================================
