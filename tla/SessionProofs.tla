---------------------------- MODULE SessionProofs ----------------------------
(***************************************************************************)
(* What Session promises for every set of adapters and handles: the core   *)
(* is entered by one queue at a time, for the session its adapter created, *)
(* and no session is left behind.                                          *)
(***************************************************************************)
EXTENDS Session, SequenceTheorems, TLAPS

SyncBlocks == {"create", "destroy", "call"}

SyncPlaces == SyncBlocks \cup {"init", "deinit", "serve"}

UsePlaces == {"run", "copy", "pump", "use", "serve"}

Has(q, B) == \E i \in 1 .. Len(q) : q[i] \in B

(* A queue has one block the main thread waits for, and is short. *)
Once(q) == \A i, j \in 1 .. Len(q) : q[i] \in SyncBlocks /\ q[j] \in SyncBlocks => i = j

Short(q) ==
  Len(q) <= Depth + (IF Has(q, {"frame"}) THEN 1 ELSE 0) + (IF Has(q, SyncBlocks) THEN 1 ELSE 0)

Types ==
  /\ main \in {"free", "waiting", "back"} /\ on \in Adapters \cup {None}
  /\ result \in Handles \cup {None} /\ old \in Handles \cup {None}
  /\ session \in [Adapters -> Handles \cup {None}] /\ timer \in [Adapters -> BOOLEAN]
  /\ emulationQueue \in [Adapters -> Seq(Blocks)]
  /\ at \in [Adapters -> Blocks \cup {"idle", "init", "deinit", "run", "copy", "pump", "use",
                                      "serve"}]
  /\ mine \in [Adapters -> Handles \cup {None}]
  /\ g_session \in Handles \cup {None} /\ creator \in Adapters \cup {None}

(* The main thread waits for the queue that has its block. *)
Waiting(a) == main = "waiting" /\ on = a

QueueInv(a) ==
  /\ Once(emulationQueue[a]) /\ Short(emulationQueue[a])
  /\ Has(emulationQueue[a], SyncBlocks) => Waiting(a) /\ at[a] \notin SyncPlaces
  /\ at[a] \in SyncPlaces => Waiting(a)

MainInv ==
  /\ main # "free" => on \in Adapters
  /\ result # None => main = "back" /\ result = g_session /\ creator = on

(* A handle that an adapter, a block or the main thread holds is that of   *)
(* the session of the adapter.                                             *)
HandleInv(a) ==
  /\ session[a] # None => session[a] = g_session /\ creator = a
  /\ at[a] \in UsePlaces \cup {"frame", "button", "call"} /\ mine[a] # None =>
       mine[a] = g_session /\ creator = a
  /\ at[a] \in UsePlaces => mine[a] # None
  /\ Has(emulationQueue[a], {"destroy"}) =>
       session[a] = None /\ old # None /\ old = g_session /\ creator = a
  /\ at[a] \in {"destroy", "deinit"} =>
       session[a] = None /\ mine[a] # None /\ mine[a] = g_session /\ creator = a
  /\ at[a] = "init" => session[a] = None /\ g_session # None /\ creator = a

(* Who knows of the session. *)
Known ==
  g_session # None =>
    /\ creator \in Adapters
    /\ \/ session[creator] = g_session
       \/ at[creator] \in {"init", "destroy", "deinit"}
       \/ result = g_session
       \/ Has(emulationQueue[creator], {"destroy"})

IInv == Types /\ MainInv /\ Known /\ \A a \in Adapters : QueueInv(a) /\ HandleInv(a)
-------------------------------------------------------------------------------
(* Queues. *)
LEMMA AppendHas ==
  ASSUME NEW q \in Seq(Blocks), NEW block \in Blocks, NEW B
  PROVE  /\ Append(q, block) \in Seq(Blocks)
         /\ Has(Append(q, block), B) <=> Has(q, B) \/ block \in B
<1> DEFINE t == Append(q, block)
<1>1. /\ t \in Seq(Blocks) /\ Len(t) = Len(q) + 1 /\ Len(q) \in Nat
      /\ \A i \in 1 .. Len(q) : t[i] = q[i]
      /\ t[Len(q) + 1] = block
  OBVIOUS
<1> HIDE DEF t
<1>2. ASSUME Has(q, B) PROVE Has(t, B)
  BY <1>1, <1>2 DEF Has
<1>3. ASSUME block \in B PROVE Has(t, B)
  <2>1. Len(q) + 1 \in 1 .. Len(t)
    BY <1>1
  <2> QED
    BY <1>1, <1>3, <2>1 DEF Has
<1>4. ASSUME Has(t, B), ~Has(q, B) PROVE block \in B
  <2>1. PICK i \in 1 .. Len(t) : t[i] \in B
    BY <1>4 DEF Has
  <2>2. i \notin 1 .. Len(q)
    BY <1>1, <1>4, <2>1 DEF Has
  <2>3. i = Len(q) + 1
    BY <1>1, <2>2
  <2> QED
    BY <1>1, <2>1, <2>3
<1> QED
  BY <1>1, <1>2, <1>3, <1>4 DEF t

LEMMA TailHas ==
  ASSUME NEW q \in Seq(Blocks), q # <<>>, NEW B
  PROVE  /\ Tail(q) \in Seq(Blocks) /\ Head(q) \in Blocks
         /\ Has(q, B) <=> Has(Tail(q), B) \/ Head(q) \in B
<1> DEFINE t == Tail(q)
<1>1. /\ t \in Seq(Blocks) /\ Len(q) = Len(t) + 1 /\ Len(t) \in Nat
      /\ \A i \in 1 .. Len(t) : t[i] = q[i + 1]
      /\ Head(q) = q[1] /\ Head(q) \in Blocks
  OBVIOUS
<1> HIDE DEF t
<1>2. ASSUME Has(t, B) PROVE Has(q, B)
  <2>1. PICK i \in 1 .. Len(t) : t[i] \in B
    BY <1>2 DEF Has
  <2>2. i + 1 \in 1 .. Len(q) /\ q[i + 1] \in B
    BY <1>1, <2>1
  <2> QED
    BY <2>2 DEF Has
<1>3. ASSUME Head(q) \in B PROVE Has(q, B)
  <2>1. 1 \in 1 .. Len(q)
    BY <1>1
  <2> QED
    BY <1>1, <1>3, <2>1 DEF Has
<1>4. ASSUME Has(q, B), ~Has(t, B) PROVE Head(q) \in B
  <2>1. PICK i \in 1 .. Len(q) : q[i] \in B
    BY <1>4 DEF Has
  <2>2. CASE i = 1
    BY <1>1, <2>1, <2>2
  <2>3. CASE i # 1
    <3>1. i - 1 \in 1 .. Len(t) /\ t[i - 1] = q[i]
      BY <1>1, <2>3
    <3> QED
      BY <1>4, <2>1, <3>1 DEF Has
  <2> QED
    BY <2>2, <2>3
<1> QED
  BY <1>1, <1>2, <1>3, <1>4 DEF t

LEMMA AppendQueue ==
  ASSUME NEW q \in Seq(Blocks), NEW block \in Blocks, Once(q), Short(q),
         block \in SyncBlocks => ~Has(q, SyncBlocks),
         block = "frame" => ~Has(q, {"frame"}),
         block = "button" => Len(q) < Depth /\ ~Has(q, SyncBlocks)
  PROVE  Once(Append(q, block)) /\ Short(Append(q, block))
<1> DEFINE t == Append(q, block)
<1>1. /\ Len(t) = Len(q) + 1 /\ Len(q) \in Nat
      /\ \A i \in 1 .. Len(q) : t[i] = q[i]
      /\ t[Len(q) + 1] = block
  OBVIOUS
<1>2. /\ Has(t, SyncBlocks) <=> Has(q, SyncBlocks) \/ block \in SyncBlocks
      /\ Has(t, {"frame"}) <=> Has(q, {"frame"}) \/ block \in {"frame"}
  BY AppendHas
<1>3. block \in SyncBlocks \/ block = "frame" \/ block = "button"
  BY DEF Blocks, SyncBlocks
<1> HIDE DEF t
<1>4. Short(t)
  <2> DEFINE f == Has(q, {"frame"})  s == Has(q, SyncBlocks)
             f2 == Has(t, {"frame"})  s2 == Has(t, SyncBlocks)
  <2>1. Depth \in Nat
    BY SessionAssumption
  <2>2. Len(q) <= Depth + (IF f THEN 1 ELSE 0) + (IF s THEN 1 ELSE 0)
    BY DEF Short
  <2>3. (f2 <=> f \/ block = "frame") /\ (s2 <=> s \/ block \in SyncBlocks)
    BY <1>2
  <2>4. "frame" \notin SyncBlocks /\ "button" \notin SyncBlocks
    BY DEF SyncBlocks
  <2>5. Len(t) <= Depth + (IF f2 THEN 1 ELSE 0) + (IF s2 THEN 1 ELSE 0)
    <3>1. CASE block = "button"
      <4>1. Len(q) < Depth /\ Len(t) <= Depth
        BY <1>1, <2>1, <3>1
      <4> HIDE DEF f2, s2
      <4> QED
        BY <1>1, <2>1, <4>1
    <3>2. CASE block = "frame"
      <4>1. ~f /\ f2 /\ (s2 <=> s)
        BY <2>3, <2>4, <3>2
      <4> HIDE DEF f, s, f2, s2
      <4> QED
        BY <1>1, <2>1, <2>2, <4>1
    <3>3. CASE block \in SyncBlocks
      <4>1. ~s /\ s2 /\ (f2 <=> f)
        BY <2>3, <2>4, <3>3
      <4> HIDE DEF f, s, f2, s2
      <4> QED
        BY <1>1, <2>1, <2>2, <4>1
    <3> QED
      BY <1>3, <3>1, <3>2, <3>3
  <2> QED
    BY <2>5 DEF Short
<1>5. Once(t)
  <2> SUFFICES ASSUME NEW i \in 1 .. Len(t), NEW j \in 1 .. Len(t),
                      t[i] \in SyncBlocks, t[j] \in SyncBlocks
               PROVE  i = j
    BY DEF Once
  <2>1. CASE block \in SyncBlocks
    <3>1. \A k \in 1 .. Len(q) : t[k] \notin SyncBlocks
      BY <1>1, <2>1 DEF Has
    <3> QED
      BY <1>1, <3>1
  <2>2. CASE block \notin SyncBlocks
    <3>1. i # Len(q) + 1 /\ j # Len(q) + 1
      BY <1>1, <2>2
    <3>2. i \in 1 .. Len(q) /\ j \in 1 .. Len(q)
      BY <1>1, <3>1
    <3> QED
      BY <1>1, <3>2 DEF Once
  <2> QED
    BY <2>1, <2>2
<1> QED
  BY <1>4, <1>5 DEF t

LEMMA TailQueue ==
  ASSUME NEW q \in Seq(Blocks), q # <<>>, Once(q), Short(q)
  PROVE  /\ Once(Tail(q)) /\ Short(Tail(q))
         /\ Head(q) \in SyncBlocks => ~Has(Tail(q), SyncBlocks)
<1> DEFINE t == Tail(q)
<1>1. /\ Len(q) = Len(t) + 1 /\ Len(t) \in Nat
      /\ \A i \in 1 .. Len(t) : t[i] = q[i + 1]
      /\ Head(q) = q[1]
  OBVIOUS
<1>2. /\ Has(q, SyncBlocks) <=> Has(t, SyncBlocks) \/ Head(q) \in SyncBlocks
      /\ Has(q, {"frame"}) <=> Has(t, {"frame"}) \/ Head(q) \in {"frame"}
  BY TailHas
<1> HIDE DEF t
<1>3. ~(Head(q) \in SyncBlocks /\ Head(q) = "frame")
  BY DEF SyncBlocks
<1>4. Short(t)
  <2> DEFINE f == Has(q, {"frame"})  s == Has(q, SyncBlocks)
             f2 == Has(t, {"frame"})  s2 == Has(t, SyncBlocks)
  <2>1. Depth \in Nat
    BY SessionAssumption
  <2>2. Len(q) <= Depth + (IF f THEN 1 ELSE 0) + (IF s THEN 1 ELSE 0)
    BY DEF Short
  <2>3. (f <=> f2) \/ (s <=> s2)
    BY <1>2, <1>3
  <2> HIDE DEF f, s, f2, s2
  <2>4. Len(t) <= Depth + (IF f2 THEN 1 ELSE 0) + (IF s2 THEN 1 ELSE 0)
    BY <1>1, <2>1, <2>2, <2>3
  <2> QED
    BY <2>4 DEF Short, f2, s2
<1>5. Once(t)
  <2> SUFFICES ASSUME NEW i \in 1 .. Len(t), NEW j \in 1 .. Len(t),
                      t[i] \in SyncBlocks, t[j] \in SyncBlocks
               PROVE  i = j
    BY DEF Once
  <2>1. i + 1 \in 1 .. Len(q) /\ j + 1 \in 1 .. Len(q)
    BY <1>1
  <2>2. i + 1 = j + 1
    BY <1>1, <2>1 DEF Once
  <2> QED
    BY <1>1, <2>2
<1>6. ASSUME Head(q) \in SyncBlocks PROVE ~Has(t, SyncBlocks)
  <2> SUFFICES ASSUME NEW i \in 1 .. Len(t), t[i] \in SyncBlocks PROVE FALSE
    BY DEF Has
  <2>1. i + 1 \in 1 .. Len(q) /\ 1 \in 1 .. Len(q) /\ q[i + 1] \in SyncBlocks
    BY <1>1
  <2>2. i + 1 = 1
    BY <1>1, <1>6, <2>1 DEF Once
  <2> QED
    BY <1>1, <2>2
<1> QED
  BY <1>4, <1>5, <1>6 DEF t
-------------------------------------------------------------------------------
LEMMA InitIInv == Init => IInv
<1> SUFFICES ASSUME Init PROVE IInv
  OBVIOUS
<1>1. /\ \A B : ~Has(<<>>, B)
      /\ Once(<<>>) /\ Short(<<>>)
  <2>1. Len(<<>>) = 0 /\ 1 .. 0 = {} /\ Depth \in Nat
    BY SessionAssumption
  <2> QED
    BY <2>1 DEF Has, Once, Short
<1>2. Types
  BY DEF Init, Types, Blocks
<1>3. \A a \in Adapters : QueueInv(a) /\ HandleInv(a)
  BY <1>1 DEF Init, QueueInv, HandleInv, SyncPlaces, SyncBlocks, UsePlaces
<1> QED
  BY <1>2, <1>3 DEF Init, IInv, MainInv, Known
-------------------------------------------------------------------------------
(* Types. *)
LEMMA EnqueueTypes ==
  ASSUME Types, NEW a \in Adapters, NEW block \in Blocks, Enqueue(a, block)
  PROVE  /\ emulationQueue' \in [Adapters -> Seq(Blocks)]
         /\ emulationQueue'[a] = Append(emulationQueue[a], block)
         /\ \A b \in Adapters : b # a => emulationQueue'[b] = emulationQueue[b]
<1>1. emulationQueue \in [Adapters -> Seq(Blocks)] /\ emulationQueue[a] \in Seq(Blocks)
  BY DEF Types
<1>2. Append(emulationQueue[a], block) \in Seq(Blocks)
  BY <1>1
<1> QED
  BY <1>1, <1>2 DEF Enqueue

LEMMA TypesStep == Types /\ [Next]_vars => Types'
<1> SUFFICES ASSUME Types, [Next]_vars PROVE Types'
  OBVIOUS
<1>1. ASSUME NEW a \in Adapters, Main(a) PROVE Types'
  <2>1. {"create", "destroy", "button", "call"} \subseteq Blocks
    BY DEF Blocks
  <2>2. CASE loadROM(a)
    BY <2>1, <2>2, EnqueueTypes DEF loadROM, Sync, Types, core
  <2>3. CASE start(a)
    BY <2>3 DEF start, Types, mainVars, core
  <2>4. CASE pause(a)
    BY <2>4 DEF pause, Types, mainVars, core
  <2>5. CASE stop(a)
    BY <2>1, <2>5, EnqueueTypes DEF stop, Sync, Types, core
  <2>6. CASE setButton(a)
    BY <2>1, <2>6, EnqueueTypes DEF setButton, Types, mainVars, core
  <2>7. CASE SyncCall(a)
    BY <2>1, <2>7, EnqueueTypes DEF SyncCall, Sync, Types, core
  <2> QED
    BY <1>1, <2>2, <2>3, <2>4, <2>5, <2>6, <2>7 DEF Main
<1>2. ASSUME NEW a \in Adapters, Fire(a) PROVE Types'
  <2>1. "frame" \in Blocks
    BY DEF Blocks
  <2> QED
    BY <1>2, <2>1, EnqueueTypes DEF Fire, Types, mainVars, core
<1>3. ASSUME NEW a \in Adapters, Begin(a) PROVE Types'
  <2>1. /\ emulationQueue[a] \in Seq(Blocks) /\ emulationQueue[a] # <<>>
    BY <1>3 DEF Begin, Types
  <2>2. Tail(emulationQueue[a]) \in Seq(Blocks) /\ Head(emulationQueue[a]) \in Blocks
    BY <2>1
  <2> QED
    BY <1>3, <2>2 DEF Begin, Goto, Types, mainVars, core
<1>4. ASSUME NEW a \in Adapters, Queue(a), ~Begin(a) PROVE Types'
  <2> USE DEF InQueue, SyncEnds, Goto, core, Types
  <2>1. CASE PASaturnSessionCreate(a)
    BY <2>1 DEF PASaturnSessionCreate
  <2>2. CASE Created(a)
    BY <2>2 DEF Created
  <2>3. CASE InitFails(a)
    BY <2>3 DEF InitFails
  <2>4. CASE Destroy(a)
    BY <2>4 DEF Destroy
  <2>5. CASE Destroyed(a)
    BY <2>5 DEF Destroyed
  <2>6. CASE RunFrame(a)
    BY <2>6 DEF RunFrame
  <2>7. CASE FrameRun(a) \/ Copied(a) \/ Pumped(a)
    BY <2>7 DEF FrameRun, Copied, Pumped, Blocks
  <2>8. CASE AsyncUse(a) \/ AsyncUsed(a)
    BY <2>8 DEF AsyncUse, AsyncUsed
  <2>9. CASE SyncUse(a) \/ SyncUsed(a)
    BY <2>9 DEF SyncUse, SyncUsed
  <2> QED
    BY <1>4, <2>1, <2>2, <2>3, <2>4, <2>5, <2>6, <2>7, <2>8, <2>9 DEF Queue
<1>5. CASE Return
  BY <1>5 DEF Return, Types, core
<1>6. CASE UNCHANGED vars
  BY <1>6 DEF vars, Types
<1> QED
  BY <1>1, <1>2, <1>3, <1>4, <1>5, <1>6 DEF Next
-------------------------------------------------------------------------------
(* A block is added to a queue. *)
LEMMA MainStep ==
  ASSUME IInv, Types', NEW c \in Adapters, Main(c) \/ Fire(c)
  PROVE  IInv'
<1> USE DEF IInv, Types, mainVars, core
<1>1. \A a \in Adapters : emulationQueue[a] \in Seq(Blocks)
  OBVIOUS
<1>2. main = "free" =>
        /\ result = None
        /\ \A a \in Adapters : ~Has(emulationQueue[a], SyncBlocks) /\ at[a] \notin SyncPlaces
  BY DEF QueueInv, MainInv, Waiting
<1>3. \A q \in Seq(Blocks) : Has(q, {"destroy"}) => Has(q, SyncBlocks)
  BY DEF Has, SyncBlocks
<1>4. ASSUME NEW block \in SyncBlocks \cup {"button"}, Enqueue(c, block), main = "free",
             block = "button" => Len(emulationQueue[c]) < Depth /\ UNCHANGED <<main, on>>,
             block \in SyncBlocks => main' = "waiting" /\ on' = c,
             UNCHANGED at
      PROVE  \A a \in Adapters : QueueInv(a)'
  <2>1. block \in Blocks
    BY DEF Blocks, SyncBlocks
  <2>2. /\ emulationQueue'[c] = Append(emulationQueue[c], block)
        /\ \A b \in Adapters : b # c => emulationQueue'[b] = emulationQueue[b]
    BY <1>4, <2>1, EnqueueTypes
  <2>3. Once(emulationQueue[c]) /\ Short(emulationQueue[c])
    BY DEF QueueInv
  <2>4. ~Has(emulationQueue[c], SyncBlocks)
    BY <1>2, <1>4
  <2>5. block # "frame" /\ "button" \notin SyncBlocks
    BY DEF SyncBlocks
  <2>6. Once(emulationQueue'[c]) /\ Short(emulationQueue'[c])
    BY <1>1, <1>4, <2>1, <2>2, <2>3, <2>4, <2>5, AppendQueue
  <2>7. Has(emulationQueue'[c], SyncBlocks) <=> block \in SyncBlocks
    BY <1>1, <2>1, <2>2, <2>4, AppendHas
  <2>8. QueueInv(c)'
    BY <1>2, <1>4, <2>6, <2>7 DEF QueueInv, Waiting
  <2>9. ASSUME NEW b \in Adapters, b # c PROVE QueueInv(b)'
    BY <1>2, <1>4, <2>2, <2>9 DEF QueueInv
  <2> QED
    BY <2>8, <2>9
<1>5. ASSUME NEW block \in Blocks, Enqueue(c, block)
      PROVE  /\ Has(emulationQueue'[c], {"destroy"}) <=>
                  Has(emulationQueue[c], {"destroy"}) \/ block = "destroy"
             /\ \A b \in Adapters : b # c => emulationQueue'[b] = emulationQueue[b]
  <2>1. /\ emulationQueue'[c] = Append(emulationQueue[c], block)
        /\ \A b \in Adapters : b # c => emulationQueue'[b] = emulationQueue[b]
    BY <1>5, EnqueueTypes
  <2>2. /\ Has(Append(emulationQueue[c], block), {"destroy"}) <=>
             Has(emulationQueue[c], {"destroy"}) \/ block \in {"destroy"}
    BY <1>1, AppendHas
  <2> QED
    BY <2>1, <2>2
<1>6. "create" \in Blocks /\ "destroy" \in Blocks /\ "call" \in Blocks /\ "button" \in Blocks
      /\ "frame" \in Blocks /\ {"create", "destroy", "call"} \subseteq SyncBlocks
      /\ {"init", "destroy", "deinit"} \subseteq SyncPlaces
  BY DEF Blocks, SyncBlocks, SyncPlaces
<1>7. CASE loadROM(c)
  <2>1. \A a \in Adapters : QueueInv(a)'
    BY <1>4, <1>6, <1>7 DEF loadROM, Sync
  <2>2. \A a \in Adapters : HandleInv(a)'
    BY <1>5, <1>6, <1>7 DEF loadROM, Sync, HandleInv
  <2>3. MainInv' /\ Known'
    BY <1>2, <1>5, <1>6, <1>7 DEF loadROM, Sync, MainInv, Known
  <2> QED
    BY <2>1, <2>2, <2>3
<1>8. CASE start(c) \/ pause(c)
  <2>1. UNCHANGED <<main, on, result, old, session, emulationQueue, at, mine, g_session, creator>>
    BY <1>8 DEF start, pause
  <2> QED
    BY <2>1 DEF QueueInv, HandleInv, MainInv, Known, Waiting
<1>9. CASE stop(c)
  <2>1. \A a \in Adapters : QueueInv(a)'
    BY <1>4, <1>6, <1>9 DEF stop, Sync
  <2>2. session[c] # None /\ session[c] = g_session /\ creator = c
    BY <1>9 DEF stop, HandleInv
  <2>3. main = "free" /\ Enqueue(c, "destroy") /\ old' = session[c] /\ main' = "waiting"
        /\ on' = c /\ session'[c] = None
        /\ (\A b \in Adapters : b # c => session'[b] = session[b])
        /\ UNCHANGED <<result, at, mine, g_session, creator>>
    BY <1>9 DEF stop, Sync
  <2>4. ASSUME NEW a \in Adapters PROVE HandleInv(a)'
    <3>1. HandleInv(a) /\ at[a] \notin SyncPlaces /\ ~Has(emulationQueue[a], {"destroy"})
      BY <1>1, <1>2, <1>3, <2>3
    <3>2. CASE a = c
      BY <1>6, <2>2, <2>3, <3>1, <3>2 DEF HandleInv
    <3>3. CASE a # c
      BY <1>5, <1>6, <2>3, <3>1, <3>3 DEF HandleInv
    <3> QED
      BY <3>2, <3>3
  <2>5. Has(emulationQueue'[c], {"destroy"})
    BY <1>5, <1>6, <2>3
  <2>6. MainInv' /\ Known'
    BY <1>2, <2>2, <2>3, <2>5 DEF MainInv, Known
  <2> QED
    BY <2>1, <2>4, <2>6
<1>10. CASE setButton(c)
  <2>1. \A a \in Adapters : QueueInv(a)'
    BY <1>4, <1>10 DEF setButton, SyncBlocks
  <2>2. \A a \in Adapters : HandleInv(a)'
    BY <1>5, <1>6, <1>10 DEF setButton, HandleInv
  <2>3. MainInv' /\ Known'
    BY <1>5, <1>6, <1>10 DEF setButton, MainInv, Known
  <2> QED
    BY <2>1, <2>2, <2>3
<1>11. CASE SyncCall(c)
  <2>1. \A a \in Adapters : QueueInv(a)'
    BY <1>4, <1>6, <1>11 DEF SyncCall, Sync
  <2>2. \A a \in Adapters : HandleInv(a)'
    BY <1>5, <1>6, <1>11 DEF SyncCall, Sync, HandleInv
  <2>3. MainInv' /\ Known'
    BY <1>2, <1>5, <1>6, <1>11 DEF SyncCall, Sync, MainInv, Known
  <2> QED
    BY <2>1, <2>2, <2>3
<1>12. CASE Fire(c)
  <2>1. Enqueue(c, "frame") /\ ~Has(emulationQueue[c], {"frame"})
    BY <1>12 DEF Fire, Has
  <2>2. /\ emulationQueue'[c] = Append(emulationQueue[c], "frame")
        /\ \A b \in Adapters : b # c => emulationQueue'[b] = emulationQueue[b]
    BY <1>6, <2>1, EnqueueTypes
  <2>3. UNCHANGED <<main, on, result, old, session, at, mine, g_session, creator>>
    BY <1>12 DEF Fire
  <2>4. Once(emulationQueue[c]) /\ Short(emulationQueue[c])
    BY DEF QueueInv
  <2>5. "frame" \notin SyncBlocks /\ "frame" # "button"
    BY DEF SyncBlocks
  <2>6. Once(emulationQueue'[c]) /\ Short(emulationQueue'[c])
    BY <1>1, <1>6, <2>1, <2>2, <2>4, <2>5, AppendQueue
  <2>7. Has(emulationQueue'[c], SyncBlocks) <=> Has(emulationQueue[c], SyncBlocks)
    BY <1>1, <1>6, <2>2, <2>5, AppendHas
  <2>8. \A a \in Adapters : QueueInv(a)'
    BY <2>2, <2>3, <2>6, <2>7 DEF QueueInv, Waiting
  <2>9. \A a \in Adapters : HandleInv(a)'
    BY <1>5, <1>6, <2>1, <2>3 DEF HandleInv
  <2>10. MainInv' /\ Known'
    BY <1>5, <1>6, <2>1, <2>3 DEF MainInv, Known
  <2> QED
    BY <2>8, <2>9, <2>10
<1> QED
  BY <1>7, <1>8, <1>9, <1>10, <1>11, <1>12 DEF Main
-------------------------------------------------------------------------------
(* A queue takes a block, or runs a step of the one it has. *)
LEMMA BeginStep ==
  ASSUME IInv, Types', NEW c \in Adapters, Begin(c)
  PROVE  IInv'
<1> USE DEF IInv, Types, mainVars, core
<1> DEFINE q == emulationQueue[c]
<1>1. /\ q \in Seq(Blocks) /\ q # <<>> /\ Head(q) \in Blocks /\ at[c] = "idle"
      /\ emulationQueue'[c] = Tail(q) /\ at'[c] = Head(q)
      /\ mine'[c] = (IF Head(q) = "destroy" THEN old ELSE session[c])
  BY DEF Begin, Goto
<1>2. /\ \A a \in Adapters : a # c => /\ emulationQueue'[a] = emulationQueue[a]
                                    /\ at'[a] = at[a] /\ mine'[a] = mine[a]
      /\ UNCHANGED <<main, on, result, old, session, g_session, creator>>
  BY DEF Begin, Goto
<1>3. \A B : Has(q, B) <=> Has(emulationQueue'[c], B) \/ Head(q) \in B
  BY <1>1, TailHas
<1>4. QueueInv(c) /\ HandleInv(c)
  OBVIOUS
<1>5. /\ Once(emulationQueue'[c]) /\ Short(emulationQueue'[c])
      /\ Head(q) \in SyncBlocks => ~Has(emulationQueue'[c], SyncBlocks)
  BY <1>1, <1>4, TailQueue DEF QueueInv
<1> HIDE DEF q
<1>6. Head(q) \in SyncPlaces <=> Head(q) \in SyncBlocks
  BY <1>1 DEF SyncPlaces, SyncBlocks, Blocks
<1>7. QueueInv(c)'
  BY <1>1, <1>2, <1>3, <1>4, <1>5, <1>6 DEF QueueInv, Waiting, q
<1>8. ASSUME NEW a \in Adapters, a # c PROVE QueueInv(a)'
  BY <1>2, <1>8 DEF QueueInv, Waiting
<1>9. HandleInv(c)'
  <2>1. Has(q, {"destroy"}) <=> Has(emulationQueue'[c], {"destroy"}) \/ Head(q) = "destroy"
    BY <1>3
  <2>2. Head(q) \notin UsePlaces /\ Head(q) # "init" /\ Head(q) # "deinit"
    BY <1>1 DEF UsePlaces, Blocks
  <2> QED
    BY <1>1, <1>2, <1>4, <2>1, <2>2 DEF HandleInv, q
<1>10. ASSUME NEW a \in Adapters, a # c PROVE HandleInv(a)'
  BY <1>2, <1>10 DEF HandleInv
<1>11. MainInv'
  BY <1>2 DEF MainInv
<1>12. Known'
  <2>1. Has(q, {"destroy"}) => Has(emulationQueue'[c], {"destroy"}) \/ at'[c] = "destroy"
    BY <1>1, <1>3
  <2> QED
    BY <1>1, <1>2, <2>1 DEF Known, q
<1> QED
  BY <1>7, <1>8, <1>9, <1>10, <1>11, <1>12

(* A step inside a block: the other queues and all queued blocks stay. *)
LEMMA InQueueStep ==
  ASSUME IInv, Types', NEW c \in Adapters, InQueue,
         NEW place, at' = [at EXCEPT ![c] = place],
         \/ main' = main /\ (place \in SyncPlaces => at[c] \in SyncPlaces)
         \/ main' = "back" /\ at[c] \in SyncPlaces /\ place = "idle"
  PROVE  \A a \in Adapters : QueueInv(a)'
<1> USE DEF IInv, Types, InQueue
<1>1. at'[c] = place /\ \A a \in Adapters : a # c => at'[a] = at[a]
  OBVIOUS
<1>2. "idle" \notin SyncPlaces
  BY DEF SyncPlaces, SyncBlocks
<1>3. CASE main' = main /\ (place \in SyncPlaces => at[c] \in SyncPlaces)
  <2>1. ASSUME NEW a \in Adapters PROVE QueueInv(a)'
    <3>1. QueueInv(a) /\ QueueInv(c)
      OBVIOUS
    <3>2. at'[a] \in SyncPlaces => at[a] \in SyncPlaces
      BY <1>1, <1>3
    <3> QED
      BY <1>3, <3>1, <3>2 DEF QueueInv, Waiting
  <2> QED
    BY <2>1
<1>4. CASE main' = "back" /\ at[c] \in SyncPlaces /\ place = "idle"
  <2>1. Waiting(c)
    BY <1>4 DEF QueueInv
  <2>2. ASSUME NEW a \in Adapters
        PROVE  ~Has(emulationQueue[a], SyncBlocks) /\ at'[a] \notin SyncPlaces
    BY <1>1, <1>2, <1>4, <2>1 DEF QueueInv, Waiting
  <2> QED
    BY <2>2 DEF QueueInv
<1> QED
  BY <1>3, <1>4

(* A step of a block that uses the handle it has read. *)
LEMMA UseStep ==
  ASSUME IInv, Types', NEW c \in Adapters, InQueue, UNCHANGED <<result, core>>,
         NEW place, at' = [at EXCEPT ![c] = place],
         at[c] \in UsePlaces \cup {"frame", "button", "call"},
         place \in UsePlaces \cup {"button", "idle"},
         place \in UsePlaces => mine[c] # None,
         \/ main' = main /\ (place \in SyncPlaces => at[c] \in SyncPlaces)
         \/ main' = "back" /\ at[c] \in SyncPlaces /\ place = "idle"
  PROVE  IInv'
<1>1. \A a \in Adapters : QueueInv(a)'
  BY InQueueStep
<1> USE DEF IInv, Types, InQueue, core
<1>2. at'[c] = place /\ \A a \in Adapters : a # c => at'[a] = at[a]
  OBVIOUS
<1>3. /\ at[c] \notin {"init", "destroy", "deinit"}
      /\ place \notin {"init", "destroy", "deinit"}
  BY DEF UsePlaces
<1>4. ASSUME NEW a \in Adapters PROVE HandleInv(a)'
  <2>1. HandleInv(a)
    OBVIOUS
  <2>2. CASE a # c
    BY <1>2, <2>1, <2>2 DEF HandleInv
  <2>3. CASE a = c
    BY <1>2, <1>3, <2>1, <2>3 DEF HandleInv
  <2> QED
    BY <2>2, <2>3
<1>5. MainInv'
  <2>1. CASE main' = main
    BY <2>1 DEF MainInv
  <2>2. CASE main' = "back" /\ at[c] \in SyncPlaces
    <3>1. Waiting(c)
      BY <2>2 DEF QueueInv
    <3> QED
      BY <2>2, <3>1 DEF MainInv, Waiting
  <2> QED
    BY <2>1, <2>2
<1>6. Known'
  BY <1>2, <1>3 DEF Known
<1> QED
  BY <1>1, <1>4, <1>5, <1>6

LEMMA CreateStep ==
  ASSUME IInv, Types', NEW c \in Adapters,
         PASaturnSessionCreate(c) \/ Created(c) \/ InitFails(c)
  PROVE  IInv'
<1> USE DEF IInv, Types, InQueue, core, Goto, SyncEnds
<1>1. "create" \in SyncPlaces /\ "init" \in SyncPlaces
  BY DEF SyncPlaces, SyncBlocks
<1>2. at[c] \in SyncPlaces
  BY <1>1 DEF PASaturnSessionCreate, Created, InitFails
<1>3. Waiting(c) /\ ~Has(emulationQueue[c], SyncBlocks) /\ result = None
  BY <1>2 DEF QueueInv, MainInv, Waiting
<1>4. ~Has(emulationQueue[c], {"destroy"})
  BY <1>3 DEF Has, SyncBlocks
<1>5. InQueue
  BY DEF PASaturnSessionCreate, Created, InitFails
<1>6. CASE PASaturnSessionCreate(c) /\ g_session # None
  <2>1. /\ at' = [at EXCEPT ![c] = "idle"] /\ main' = "back" /\ at[c] = "create"
        /\ UNCHANGED <<result, g_session, creator>>
    BY <1>6 DEF PASaturnSessionCreate
  <2>2. \A a \in Adapters : QueueInv(a)'
    BY <1>2, <1>5, <2>1, InQueueStep
  <2>3. ASSUME NEW a \in Adapters PROVE HandleInv(a)'
    <3>1. HandleInv(a) /\ at'[a] = (IF a = c THEN "idle" ELSE at[a])
      BY <2>1
    <3> QED
      BY <1>5, <2>1, <3>1 DEF HandleInv, UsePlaces
  <2>4. MainInv' /\ Known'
    BY <1>3, <1>5, <2>1 DEF MainInv, Known, Waiting
  <2> QED
    BY <2>2, <2>3, <2>4
<1>7. CASE PASaturnSessionCreate(c) /\ g_session = None
  <2>1. /\ at' = [at EXCEPT ![c] = "init"] /\ at[c] = "create" /\ creator' = c
        /\ g_session' \in Handles /\ UNCHANGED <<main, result>>
    BY <1>7 DEF PASaturnSessionCreate
  <2>2. \A a \in Adapters : QueueInv(a)'
    BY <1>2, <1>5, <2>1, InQueueStep
  <2>3. g_session' # None
    BY <2>1, SessionAssumption
  <2>4. ASSUME NEW a \in Adapters PROVE HandleInv(a)'
    <3>1. HandleInv(a) /\ at'[a] = (IF a = c THEN "init" ELSE at[a])
      BY <2>1
    <3>2. session[a] = None /\ ~Has(emulationQueue[a], {"destroy"})
      BY <1>7, <3>1 DEF HandleInv
    <3>3. a # c => at[a] \notin {"destroy", "deinit", "init"}
                   /\ (at[a] \in UsePlaces \cup {"frame", "button", "call"} => mine[a] = None)
                   /\ at[a] \notin UsePlaces
      BY <1>7, <3>1 DEF HandleInv
    <3>4. "init" \notin UsePlaces \cup {"frame", "button", "call"}
      BY DEF UsePlaces
    <3>5. CASE a = c
      BY <1>5, <2>1, <2>3, <3>1, <3>2, <3>4, <3>5 DEF HandleInv
    <3>6. CASE a # c
      BY <1>5, <3>1, <3>2, <3>3, <3>6 DEF HandleInv
    <3> QED
      BY <3>5, <3>6
  <2>5. MainInv' /\ Known'
    BY <1>3, <1>5, <2>1 DEF MainInv, Known, Waiting
  <2> QED
    BY <2>2, <2>4, <2>5
<1>8. CASE Created(c)
  <2>1. /\ at' = [at EXCEPT ![c] = "idle"] /\ main' = "back" /\ at[c] = "init"
        /\ result' = g_session /\ UNCHANGED <<g_session, creator>>
    BY <1>8 DEF Created
  <2>2. \A a \in Adapters : QueueInv(a)'
    BY <1>2, <1>5, <2>1, InQueueStep
  <2>3. ASSUME NEW a \in Adapters PROVE HandleInv(a)'
    <3>1. HandleInv(a) /\ at'[a] = (IF a = c THEN "idle" ELSE at[a])
      BY <2>1
    <3> QED
      BY <1>5, <2>1, <3>1 DEF HandleInv, UsePlaces
  <2>4. MainInv' /\ Known'
    BY <1>3, <1>5, <2>1 DEF MainInv, Known, Waiting, HandleInv
  <2> QED
    BY <2>2, <2>3, <2>4
<1>9. CASE InitFails(c)
  <2>1. /\ at' = [at EXCEPT ![c] = "idle"] /\ main' = "back" /\ at[c] = "init"
        /\ g_session' = None /\ UNCHANGED result
    BY <1>9 DEF InitFails
  <2>2. \A a \in Adapters : QueueInv(a)'
    BY <1>2, <1>5, <2>1, InQueueStep
  <2>3. creator = c /\ session[c] = None
    BY <2>1 DEF HandleInv
  <2>4. ASSUME NEW a \in Adapters PROVE HandleInv(a)'
    <3>1. HandleInv(a) /\ at'[a] = (IF a = c THEN "idle" ELSE at[a])
      BY <2>1
    <3>2. CASE a = c
      BY <1>4, <1>5, <2>3, <3>1, <3>2 DEF HandleInv, UsePlaces
    <3>3. CASE a # c
      BY <1>5, <2>3, <3>1, <3>3 DEF HandleInv
    <3> QED
      BY <3>2, <3>3
  <2>5. MainInv' /\ Known'
    BY <1>3, <1>5, <2>1 DEF MainInv, Known, Waiting
  <2> QED
    BY <2>2, <2>4, <2>5
<1> QED
  BY <1>6, <1>7, <1>8, <1>9

LEMMA DestroyStep ==
  ASSUME IInv, Types', NEW c \in Adapters, Destroy(c) \/ Destroyed(c)
  PROVE  IInv'
<1> USE DEF IInv, Types, InQueue, core, Goto, SyncEnds
<1>1. "destroy" \in SyncPlaces /\ "deinit" \in SyncPlaces
  BY DEF SyncPlaces, SyncBlocks
<1>2. at[c] \in SyncPlaces
  BY <1>1 DEF Destroy, Destroyed
<1>3. Waiting(c) /\ ~Has(emulationQueue[c], SyncBlocks) /\ result = None
  BY <1>2 DEF QueueInv, MainInv, Waiting
<1>4. ~Has(emulationQueue[c], {"destroy"})
  BY <1>3 DEF Has, SyncBlocks
<1>5. InQueue
  BY DEF Destroy, Destroyed
<1>6. session[c] = None /\ mine[c] # None /\ mine[c] = g_session /\ creator = c
  BY DEF Destroy, Destroyed, HandleInv
<1>7. CASE Destroy(c)
  <2>1. /\ at' = [at EXCEPT ![c] = "deinit"] /\ UNCHANGED <<main, result, g_session, creator>>
    BY <1>6, <1>7 DEF Destroy
  <2>2. \A a \in Adapters : QueueInv(a)'
    BY <1>2, <1>5, <2>1, InQueueStep
  <2>3. ASSUME NEW a \in Adapters PROVE HandleInv(a)'
    <3>1. HandleInv(a) /\ at'[a] = (IF a = c THEN "deinit" ELSE at[a])
      BY <2>1
    <3> QED
      BY <1>4, <1>5, <1>6, <2>1, <3>1 DEF HandleInv, UsePlaces
  <2>4. MainInv' /\ Known'
    BY <1>3, <1>5, <1>6, <2>1 DEF MainInv, Known, Waiting
  <2> QED
    BY <2>2, <2>3, <2>4
<1>8. CASE Destroyed(c)
  <2>1. /\ at' = [at EXCEPT ![c] = "idle"] /\ main' = "back"
        /\ g_session' = None /\ UNCHANGED result
    BY <1>8 DEF Destroyed
  <2>2. \A a \in Adapters : QueueInv(a)'
    BY <1>2, <1>5, <2>1, InQueueStep
  <2>3. ASSUME NEW a \in Adapters PROVE HandleInv(a)'
    <3>1. HandleInv(a) /\ at'[a] = (IF a = c THEN "idle" ELSE at[a])
      BY <2>1
    <3>2. CASE a = c
      BY <1>4, <1>5, <1>6, <3>1, <3>2 DEF HandleInv, UsePlaces
    <3>3. CASE a # c
      BY <1>5, <1>6, <3>1, <3>3 DEF HandleInv
    <3> QED
      BY <3>2, <3>3
  <2>4. MainInv' /\ Known'
    BY <1>3, <1>5, <2>1 DEF MainInv, Known, Waiting
  <2> QED
    BY <2>2, <2>3, <2>4
<1> QED
  BY <1>7, <1>8

LEMMA UseSteps ==
  ASSUME IInv, Types', NEW c \in Adapters,
         \/ RunFrame(c) \/ FrameRun(c) \/ Copied(c) \/ Pumped(c)
         \/ AsyncUse(c) \/ AsyncUsed(c) \/ SyncUse(c) \/ SyncUsed(c)
  PROVE  IInv'
<1> USE DEF Goto, SyncEnds
<1>1. /\ {"run", "copy", "pump", "use", "serve"} \subseteq UsePlaces
      /\ {"call", "serve"} \subseteq SyncPlaces
      /\ {"idle", "run", "copy", "pump", "use", "button"} \cap SyncPlaces = {}
      /\ {"idle", "button"} \cap UsePlaces = {}
  BY DEF UsePlaces, SyncPlaces, SyncBlocks
<1>2. HandleInv(c)
  BY DEF IInv
<1>3. CASE RunFrame(c)
  <2>1. PICK place \in {"idle", "run", "pump"} :
          /\ at' = [at EXCEPT ![c] = place] /\ (place # "idle" => mine[c] # None)
    BY <1>3 DEF RunFrame
  <2> QED
    BY <1>1, <1>3, <2>1, UseStep DEF RunFrame
<1>4. CASE FrameRun(c)
  <2>1. PICK place \in {"copy", "pump"} : at' = [at EXCEPT ![c] = place]
    BY <1>4 DEF FrameRun
  <2> QED
    BY <1>1, <1>2, <1>4, <2>1, UseStep DEF FrameRun, HandleInv
<1>5. CASE Copied(c)
  BY <1>1, <1>2, <1>5, UseStep DEF Copied, HandleInv
<1>6. CASE Pumped(c)
  <2>1. PICK place \in {"idle", "button"} : at' = [at EXCEPT ![c] = place]
    BY <1>6 DEF Pumped
  <2> QED
    BY <1>1, <1>2, <1>6, <2>1, UseStep DEF Pumped, HandleInv
<1>7. CASE AsyncUse(c)
  <2>1. PICK place \in {"idle", "use"} :
          /\ at' = [at EXCEPT ![c] = place] /\ (place = "use" => mine[c] # None)
    BY <1>7 DEF AsyncUse, Valid
  <2> QED
    BY <1>1, <1>7, <2>1, UseStep DEF AsyncUse
<1>8. CASE AsyncUsed(c)
  BY <1>1, <1>2, <1>8, UseStep DEF AsyncUsed
<1>9. CASE SyncUse(c) /\ Valid(c)
  BY <1>1, <1>9, UseStep DEF SyncUse, Valid
<1>10. CASE SyncUse(c) /\ ~Valid(c)
  BY <1>1, <1>10, UseStep DEF SyncUse
<1>11. CASE SyncUsed(c)
  BY <1>1, <1>11, UseStep DEF SyncUsed
<1> QED
  BY <1>3, <1>4, <1>5, <1>6, <1>7, <1>8, <1>9, <1>10, <1>11

LEMMA ReturnStep == IInv /\ Types' /\ Return => IInv'
<1> SUFFICES ASSUME IInv, Types', Return PROVE IInv'
  OBVIOUS
<1> USE DEF IInv, Types, core, Return
<1>1. \A a \in Adapters : ~Has(emulationQueue[a], SyncBlocks) /\ at[a] \notin SyncPlaces
  BY DEF QueueInv, Waiting
<1>2. \A a \in Adapters : QueueInv(a)'
  BY <1>1 DEF QueueInv
<1>3. \A a \in Adapters : ~Has(emulationQueue[a], {"destroy"})
  BY <1>1 DEF Has, SyncBlocks
<1>4. {"init", "destroy", "deinit"} \subseteq SyncPlaces
  BY DEF SyncPlaces, SyncBlocks
<1>5. ASSUME NEW a \in Adapters PROVE HandleInv(a)'
  BY <1>1, <1>3, <1>4 DEF HandleInv, MainInv
<1>6. MainInv'
  BY DEF MainInv
<1>7. Known'
  <2>1. g_session # None => session[creator] = g_session \/ result = g_session
    BY <1>1, <1>3, <1>4 DEF Known
  <2>2. result # None => result = g_session /\ creator = on /\ on \in Adapters
    BY DEF MainInv
  <2> QED
    BY <2>1, <2>2 DEF Known
<1> QED
  BY <1>2, <1>5, <1>6, <1>7

LEMMA NextStep == IInv /\ [Next]_vars => IInv'
<1> SUFFICES ASSUME IInv, [Next]_vars PROVE IInv'
  OBVIOUS
<1>1. Types'
  BY TypesStep DEF IInv
<1>2. ASSUME NEW c \in Adapters, Main(c) \/ Fire(c) PROVE IInv'
  BY <1>1, <1>2, MainStep
<1>3. ASSUME NEW c \in Adapters, Queue(c) PROVE IInv'
  BY <1>1, <1>3, BeginStep, CreateStep, DestroyStep, UseSteps DEF Queue
<1>4. CASE Return
  BY <1>1, <1>4, ReturnStep
<1>5. CASE UNCHANGED vars
  BY <1>5 DEF vars, IInv, Types, MainInv, Known, QueueInv, HandleInv, Waiting
<1> QED
  BY <1>2, <1>3, <1>4, <1>5 DEF Next

LEMMA Consequences == IInv => TypeOK /\ CoreExclusive /\ OwnSession /\ NoOrphan
<1> SUFFICES ASSUME IInv PROVE TypeOK /\ CoreExclusive /\ OwnSession /\ NoOrphan
  OBVIOUS
<1>1. Types /\ MainInv /\ Known /\ \A a \in Adapters : QueueInv(a) /\ HandleInv(a)
  BY DEF IInv
<1>2. TypeOK
  <2>1. ASSUME NEW a \in Adapters PROVE Len(emulationQueue[a]) <= Depth + 2
    <3>1. emulationQueue[a] \in Seq(Blocks) /\ Depth \in Nat /\ Short(emulationQueue[a])
      BY <1>1, SessionAssumption DEF Types, QueueInv
    <3>2. Len(emulationQueue[a]) \in Nat
      BY <3>1
    <3> QED
      BY <3>1, <3>2 DEF Short
  <2> QED
    BY <1>1, <2>1 DEF Types, TypeOK
<1>3. \A a \in Adapters : Inside(a) => creator = a
  BY <1>1 DEF HandleInv, Inside, Uses, UsePlaces
<1>4. CoreExclusive
  BY <1>3 DEF CoreExclusive
<1>5. OwnSession
  BY <1>1 DEF OwnSession, HandleInv, Uses, UsePlaces, Valid
<1>6. NoOrphan
  <2>1. SUFFICES ASSUME g_session # None
                 PROVE  creator \in Adapters
                        /\ (session[creator] = g_session \/ (main # "free" /\ on = creator))
    BY DEF NoOrphan
  <2>2. creator \in Adapters /\ QueueInv(creator)
    BY <1>1, <2>1 DEF Known
  <2>3. CASE at[creator] \in {"init", "destroy", "deinit"}
    BY <2>2, <2>3 DEF QueueInv, SyncPlaces, SyncBlocks, Waiting
  <2>4. CASE result = g_session
    BY <1>1, <2>1, <2>2, <2>4 DEF MainInv
  <2>5. CASE Has(emulationQueue[creator], {"destroy"})
    <3>1. Has(emulationQueue[creator], SyncBlocks)
      BY <2>5 DEF Has, SyncBlocks
    <3> QED
      BY <2>2, <3>1 DEF QueueInv, Waiting
  <2> QED
    BY <1>1, <2>1, <2>2, <2>3, <2>4, <2>5 DEF Known
<1> QED
  BY <1>2, <1>4, <1>5, <1>6
-------------------------------------------------------------------------------
(* The invariant holds from the start and every step keeps it. *)
THEOREM Invariant == Spec => []IInv
<1> QED
  BY InitIInv, NextStep, PTL DEF Spec

(* Every variable keeps its type, and a queue never holds more than the    *)
(* buttons, one merged timer event and the one block the main thread       *)
(* waits for (SaturnCoreAdapter.swift, emulationQueue).                    *)
THEOREM Typing == Spec => []TypeOK
<1> QED
  BY Invariant, Consequences, PTL

(* Whatever the number of adapters, two queues are never both inside the   *)
(* core, its frame buffer or its ring: the check of g_session in           *)
(* PASaturnSessionCreate and of the handle in every other call suffices.   *)
THEOREM Exclusive == Spec => []CoreExclusive
<1> QED
  BY Invariant, Consequences, PTL

(* A call that passes the handle check of the bridge serves the session of *)
(* the adapter that made it, although a handle may name a later session.   *)
THEOREM Ownership == Spec => []OwnSession
<1> QED
  BY Invariant, Consequences, PTL

(* loadROM, stop and a failed YabauseInit never leave g_session set with   *)
(* no adapter or call to destroy it.                                       *)
THEOREM NothingLeft == Spec => []NoOrphan
<1> QED
  BY Invariant, Consequences, PTL
===============================================================================
