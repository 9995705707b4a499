---------------------------- MODULE InterruptLatch -----------------------------
(***************************************************************************)
(* What the interrupt controller promises the devices and the program on   *)
(* the master CPU, whatever the queues, masks and latches behind it: a     *)
(* request is latched, or asserted at the CPU, until the CPU takes it;     *)
(* only the periodic sources withdraw theirs, only the program cancels a   *)
(* latched one, by acknowledging it, and what it acknowledged does not     *)
(* come any more.  The CPU takes the most urgent request first.            *)
(***************************************************************************)
EXTENDS Integers

CONSTANTS
  Sources,
  Level,        \* priority of a source
  Periodic,     \* the sources driven by the scanlines
  Withdrawn,    \* those that a later line withdraws
  Transferred,  \* the sources of the DMA, which any step may start or end
  NMI           \* asserted by a reset

VARIABLES latched, asserted,
          acked   \* what the program acknowledged in the last step

vars == <<latched, asserted, acked>>

Init == latched = {} /\ asserted = {} /\ acked = {}

(* The step adds and withdraws requests of these sources only; the DMA may *)
(* end a transfer in any step.                                             *)
Changes(added, withdrawn) ==
  /\ latched' \ latched \subseteq added \cup Transferred
  /\ asserted' \ asserted \subseteq added \cup Transferred
  /\ (latched \ latched') \cup (asserted \ asserted') \subseteq withdrawn

Raise ==
  /\ \E s \in latched' \cup asserted' : Changes({s}, {})
  /\ acked' = {}

LineEvent ==
  /\ Changes(Periodic, Withdrawn)
  /\ acked' = {}

(* The program writes a register of the controller. *)
Write ==
  /\ acked' \subseteq Sources
  /\ latched' \subseteq latched \ acked'
  /\ asserted' = asserted \cup ((latched \ acked') \ latched')

Take ==
  /\ \E s \in asserted :
       /\ \A t \in asserted : Level[t] <= Level[s]
       /\ asserted' = asserted \ {s}
  /\ acked' = {}
  /\ UNCHANGED latched

Reset ==
  /\ latched' = {}
  /\ asserted' = asserted \cup {NMI}
  /\ acked' = {}

Next == LineEvent \/ Raise \/ Take \/ Write \/ Reset

Spec == Init /\ [][Next]_vars
===============================================================================
