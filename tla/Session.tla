------------------------------- MODULE Session -------------------------------
(***************************************************************************)
(* Who may enter the core.  The core is one set of global variables behind *)
(* g_session; the adapters that use it have each a serial queue of their   *)
(* own.  The main thread creates and destroys sessions, saves and loads    *)
(* with emulationQueue.sync, and sends buttons with emulationQueue.async;  *)
(* a timer runs frames on the queue.  A handle is the address of a         *)
(* Session: a later session may get the same one.                          *)
(*                                                                         *)
(* The owner of an adapter stops it before it gives up the last reference: *)
(* a deinit from the frame handler would wait for its own queue.           *)
(***************************************************************************)
EXTENDS Naturals, Sequences

CONSTANTS
  Adapters, Handles, None,
  Depth       \* bound: blocks on a queue when a button is added

ASSUME SessionAssumption ==
  None \notin Adapters /\ None \notin Handles /\ Depth \in Nat

VARIABLES
  main,       \* "free", "waiting" for a queue, "back" from it
  on,         \* the adapter whose queue it waits for
  result,     \* what PASaturnSessionCreate returned
  old,        \* oldSession in stop
  session, timer, emulationQueue,   \* of each adapter
  at,         \* of each queue: "idle", or where its block is
  mine,       \* the handle that block has read
  g_session,
  creator     \* history: the adapter that created g_session

vars == <<main, on, result, old, session, timer, emulationQueue, at, mine, g_session,
          creator>>

mainVars == <<main, on, result, old>>
core     == <<g_session, creator>>

Init ==
  /\ main = "free" /\ on = None /\ result = None /\ old = None
  /\ session = [a \in Adapters |-> None] /\ timer = [a \in Adapters |-> FALSE]
  /\ emulationQueue = [a \in Adapters |-> <<>>]
  /\ at = [a \in Adapters |-> "idle"] /\ mine = [a \in Adapters |-> None]
  /\ g_session = None /\ creator = None
-------------------------------------------------------------------------------
(* The main thread. *)
Enqueue(a, block) == emulationQueue' = [emulationQueue EXCEPT ![a] = Append(@, block)]

Sync(a, block) == main' = "waiting" /\ on' = a /\ Enqueue(a, block)

loadROM(a) ==
  /\ main = "free" /\ Sync(a, "create")
  /\ UNCHANGED <<result, old, session, timer, at, mine, core>>

start(a) ==
  /\ main = "free" /\ session[a] # None /\ ~timer[a]
  /\ timer' = [timer EXCEPT ![a] = TRUE]
  /\ UNCHANGED <<mainVars, session, emulationQueue, at, mine, core>>

pause(a) ==
  /\ main = "free" /\ timer[a]
  /\ timer' = [timer EXCEPT ![a] = FALSE]
  /\ UNCHANGED <<mainVars, session, emulationQueue, at, mine, core>>

stopKeepsSession(a) ==   \* mutant
  /\ main = "free" /\ session[a] # None
  /\ timer' = [timer EXCEPT ![a] = FALSE]
  /\ old' = session[a] /\ Sync(a, "destroy")
  /\ UNCHANGED <<result, session, at, mine, core>>

stop(a) ==
  /\ main = "free" /\ session[a] # None
  /\ timer' = [timer EXCEPT ![a] = FALSE]
  /\ session' = [session EXCEPT ![a] = None]
  /\ old' = session[a] /\ Sync(a, "destroy")
  /\ UNCHANGED <<result, at, mine, core>>

setButton(a) ==
  /\ main = "free" /\ Len(emulationQueue[a]) < Depth
  /\ Enqueue(a, "button")
  /\ UNCHANGED <<mainVars, session, timer, at, mine, core>>

(* saveState, loadState, flushPersistentSaves. *)
SyncCall(a) ==
  /\ main = "free" /\ Sync(a, "call")
  /\ UNCHANGED <<result, old, session, timer, at, mine, core>>

Return ==
  /\ main = "back"
  /\ main' = "free" /\ on' = None /\ result' = None /\ old' = None
  /\ session' = IF result = None THEN session ELSE [session EXCEPT ![on] = result]
  /\ UNCHANGED <<timer, emulationQueue, at, mine, core>>

FireEach(a) ==   \* mutant
  /\ timer[a] /\ Len(emulationQueue[a]) < 2 * Depth
  /\ Enqueue(a, "frame")
  /\ UNCHANGED <<mainVars, session, timer, at, mine, core>>

(* The events of a timer that have not run are merged into one. *)
Fire(a) ==
  /\ timer[a] /\ \A i \in 1 .. Len(emulationQueue[a]) : emulationQueue[a][i] # "frame"
  /\ Enqueue(a, "frame")
  /\ UNCHANGED <<mainVars, session, timer, at, mine, core>>
-------------------------------------------------------------------------------
(* The queues. *)
Goto(a, place) == at' = [at EXCEPT ![a] = place]

Begin(a) ==
  /\ at[a] = "idle" /\ emulationQueue[a] # <<>>
  /\ emulationQueue' = [emulationQueue EXCEPT ![a] = Tail(@)]
  /\ Goto(a, Head(emulationQueue[a]))
  /\ mine' = [mine EXCEPT ![a] = IF Head(emulationQueue[a]) = "destroy" THEN old
                                                                     ELSE session[a]]
  /\ UNCHANGED <<mainVars, session, timer, core>>

InQueue == UNCHANGED <<on, old, session, timer, emulationQueue, mine>>

SyncEnds(a) == Goto(a, "idle") /\ main' = "back"

CreateUnchecked(a) ==   \* mutant
  /\ at[a] = "create"
  /\ \E h \in Handles : g_session' = h
  /\ creator' = a /\ Goto(a, "init") /\ UNCHANGED <<main, result>>
  /\ InQueue

PASaturnSessionCreate(a) ==
  /\ at[a] = "create"
  /\ IF g_session # None
       THEN SyncEnds(a) /\ UNCHANGED <<result, core>>
       ELSE /\ \E h \in Handles : g_session' = h
            /\ creator' = a /\ Goto(a, "init") /\ UNCHANGED <<main, result>>
  /\ InQueue

Created(a) ==
  /\ at[a] = "init"
  /\ result' = g_session /\ SyncEnds(a) /\ UNCHANGED core
  /\ InQueue

InitFailsLeavesSession(a) ==   \* mutant
  /\ at[a] = "init"
  /\ SyncEnds(a) /\ UNCHANGED <<result, core>>
  /\ InQueue

(* YabauseInit has failed. *)
InitFails(a) ==
  /\ at[a] = "init"
  /\ g_session' = None /\ creator' = None /\ SyncEnds(a) /\ UNCHANGED result
  /\ InQueue

(* FlushPersistentSaves and Destroy. *)
Destroy(a) ==
  /\ at[a] = "destroy"
  /\ IF mine[a] = g_session THEN Goto(a, "deinit") /\ UNCHANGED main
                            ELSE SyncEnds(a)
  /\ UNCHANGED <<result, core>> /\ InQueue

Destroyed(a) ==
  /\ at[a] = "deinit"
  /\ g_session' = None /\ creator' = None /\ SyncEnds(a) /\ UNCHANGED result
  /\ InQueue

Valid(a) == mine[a] # None /\ mine[a] = g_session

(* A frame that finds no session ends; one whose handle the bridge refuses *)
(* still drains the ring.                                                  *)
RunFrame(a) ==
  /\ at[a] = "frame"
  /\ Goto(a, IF mine[a] = None THEN "idle" ELSE IF Valid(a) THEN "run" ELSE "pump")
  /\ UNCHANGED <<main, result, core>> /\ InQueue

(* PASaturnSessionGetVideo, if the frame was rendered and is a new one. *)
FrameRun(a) ==
  /\ at[a] = "run"
  /\ \E place \in {"copy", "pump"} : (place = "copy" => Valid(a)) /\ Goto(a, place)
  /\ UNCHANGED <<main, result, core>> /\ InQueue

CopiedToMain(a) ==   \* mutant
  /\ at[a] = "copy" /\ main = "free" /\ Goto(a, "pump")
  /\ UNCHANGED <<main, result, core>> /\ InQueue

(* The pixels are copied and handed to the main thread, which is not       *)
(* waited for.                                                             *)
Copied(a) ==
  /\ at[a] = "copy" /\ Goto(a, "pump")
  /\ UNCHANGED <<main, result, core>> /\ InQueue

(* The ring is drained; every 30 s the frame flushes the backup RAM. *)
Pumped(a) ==
  /\ at[a] = "pump"
  /\ \E place \in {"idle", "button"} : Goto(a, place)
  /\ UNCHANGED <<main, result, core>> /\ InQueue

AsyncUse(a) ==
  /\ at[a] = "button"
  /\ Goto(a, IF Valid(a) THEN "use" ELSE "idle")
  /\ UNCHANGED <<main, result, core>> /\ InQueue

AsyncUsed(a) ==
  /\ at[a] = "use" /\ Goto(a, "idle")
  /\ UNCHANGED <<main, result, core>> /\ InQueue

SyncUse(a) ==
  /\ at[a] = "call"
  /\ IF Valid(a) THEN Goto(a, "serve") /\ UNCHANGED main ELSE SyncEnds(a)
  /\ UNCHANGED <<result, core>> /\ InQueue

SyncUsed(a) ==
  /\ at[a] = "serve" /\ SyncEnds(a)
  /\ UNCHANGED <<result, core>> /\ InQueue

Queue(a) ==
  \/ Begin(a) \/ PASaturnSessionCreate(a) \/ Created(a) \/ InitFails(a)
  \/ Destroy(a) \/ Destroyed(a) \/ RunFrame(a) \/ FrameRun(a) \/ Copied(a) \/ Pumped(a)
  \/ AsyncUse(a) \/ AsyncUsed(a) \/ SyncUse(a) \/ SyncUsed(a)

Main(a) == loadROM(a) \/ start(a) \/ pause(a) \/ stop(a) \/ setButton(a) \/ SyncCall(a)

Next == Return \/ \E a \in Adapters : Main(a) \/ Fire(a) \/ Queue(a)

Spec == Init /\ [][Next]_vars

(* A queue runs the blocks it has; a wait that is over returns.  What the  *)
(* user does and when the timer fires is not promised.                     *)
FairSpec == Spec /\ WF_vars(Return) /\ \A a \in Adapters : WF_vars(Queue(a))
-------------------------------------------------------------------------------
Blocks == {"create", "destroy", "frame", "button", "call"}

(* A queue holds at most the buttons, one frame and one block that the     *)
(* main thread waits for.                                                  *)
TypeOK ==
  /\ main \in {"free", "waiting", "back"} /\ on \in Adapters \cup {None}
  /\ result \in Handles \cup {None} /\ old \in Handles \cup {None}
  /\ session \in [Adapters -> Handles \cup {None}] /\ timer \in [Adapters -> BOOLEAN]
  /\ emulationQueue \in [Adapters -> Seq(Blocks)]
  /\ \A a \in Adapters : Len(emulationQueue[a]) <= Depth + 2
  /\ at \in [Adapters -> Blocks \cup {"idle", "init", "deinit", "run", "copy", "pump", "use",
                                      "serve"}]
  /\ mine \in [Adapters -> Handles \cup {None}]
  /\ g_session \in Handles \cup {None} /\ creator \in Adapters \cup {None}

Uses(a) == at[a] \in {"run", "copy", "pump", "use", "serve"}

Inside(a) == Uses(a) \/ at[a] \in {"init", "deinit"}

(* At most one queue is in the core, its frame buffer or its audio ring,   *)
(* although nothing locks them.                                            *)
CoreExclusive == \A a, b \in Adapters : a # b => ~(Inside(a) /\ Inside(b))

(* A call that the bridge lets through is for the session its adapter      *)
(* created, also when a later session has the same address.                *)
OwnSession == \A a \in Adapters : Uses(a) => Valid(a) /\ creator = a

(* A session is never left behind: an adapter refers to it, or the main    *)
(* thread is about to store or destroy it.                                 *)
NoOrphan ==
  g_session # None =>
    /\ creator \in Adapters
    /\ session[creator] = g_session \/ (main # "free" /\ on = creator)

(* No call of the user waits for ever. *)
MainReturns == main = "waiting" ~> main = "free"
===============================================================================
