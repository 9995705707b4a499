------------------------------ MODULE CommandPort ------------------------------
(***************************************************************************)
(* What the SMPC promises a program that keeps to the protocol of its      *)
(* command port: the program claims the port with SF, writes a command,    *)
(* and waits for SF to clear.  The command is performed once, before the   *)
(* port is ready again, and nothing is performed that was not asked for.   *)
(* A program that breaks the protocol has no promise.                      *)
(***************************************************************************)
CONSTANTS
  Commands,
  Refusable,   \* the commands that may turn out to ask for nothing
  None

VARIABLES
  stage,       \* "ready", "claimed" or "busy"
  asked,       \* the last command asked for
  performed,   \* the command performed by the last step
  rude         \* the program has broken the protocol

vars == <<stage, asked, performed, rude>>

Init == stage = "ready" /\ asked = None /\ performed = None /\ rude = FALSE

Quiet == performed' = None /\ UNCHANGED rude

Claim == stage = "ready" /\ stage' = "claimed" /\ Quiet /\ UNCHANGED asked

(* A command; the port is ready at once if it refuses it. *)
Ask(c) ==
  /\ stage = "claimed"
  /\ stage' \in {"busy"} \cup {s \in {"ready"} : c \in Refusable}
  /\ asked' = c
  /\ Quiet

(* The port need not be claimed to go on with the answers of a command. *)
Continue(c) ==
  /\ stage = "ready" /\ stage' = "busy"
  /\ asked' = c
  /\ Quiet

Perform ==
  /\ stage = "busy" /\ stage' = "ready"
  /\ performed' = asked
  /\ UNCHANGED <<asked, rude>>

Idle == Quiet /\ UNCHANGED <<stage, asked>>

(* A reset of the machine, after which the program begins anew. *)
Reset == stage' = "ready" /\ asked' = None /\ performed' = None /\ rude' = FALSE

Next == \/ rude'
        \/ Claim \/ Perform \/ Idle \/ Reset
        \/ \E c \in Commands : Ask(c) \/ Continue(c)

Spec == Init /\ [][Next]_vars
===============================================================================
