--------------------------- MODULE CommandChannel ---------------------------
(***************************************************************************)
(* What the snapshot registry and the service take the backend to promise: *)
(* a worker that is up, and commands of which one at a time runs in it.    *)
(* A command that was answered was applied by the worker that is up, one   *)
(* it refused was not, and one whose outcome is unknown is lost together   *)
(* with the worker and all it had applied.                                 *)
(***************************************************************************)
CONSTANTS Commands

VARIABLES
    up,         \* the backend is ready
    running,    \* the command in progress, if any
    applied,    \* the commands whose effect the worker holds
    outcome     \* how a command ended

channel == <<up, running, applied, outcome>>

Init ==
    /\ up = FALSE /\ running = {} /\ applied = {}
    /\ outcome = [c \in Commands |-> "none"]

Ends(cs, how) == outcome' = [c \in Commands |-> IF c \in cs THEN how ELSE outcome[c]]

Start == ~up /\ up' = TRUE /\ UNCHANGED <<running, applied, outcome>>

Send(c) ==
    /\ up /\ running = {} /\ outcome[c] = "none" /\ c \notin applied
    /\ running' = {c} /\ UNCHANGED <<up, applied, outcome>>

\* Too long to be sent, or cancelled while it waited to be.
Decline(c) ==
    /\ outcome[c] = "none" /\ c \notin running \cup applied /\ Ends({c}, "unsent")
    /\ UNCHANGED <<up, running, applied>>

Apply(c) ==
    /\ c \in running /\ applied' = applied \cup {c}
    /\ UNCHANGED <<up, running, outcome>>

Answer(c) ==
    /\ c \in running \cap applied /\ running' = {} /\ Ends({c}, "answered")
    /\ UNCHANGED <<up, applied>>

Refuse(c) ==
    /\ c \in running \ applied /\ running' = {} /\ Ends({c}, "refused")
    /\ UNCHANGED <<up, applied>>

\* An error once inference began may follow effects of its own.
Fail(c) ==
    /\ c \in running /\ running' = {} /\ Ends({c}, "failed")
    /\ UNCHANGED <<up, applied>>

Lose ==
    /\ up /\ up' = FALSE /\ running' = {} /\ applied' = {}
    /\ Ends(running, "lost")

Next ==
    \/ Start \/ Lose
    \/ \E c \in Commands :
          Send(c) \/ Decline(c) \/ Apply(c) \/ Answer(c) \/ Refuse(c) \/ Fail(c)

Spec == Init /\ [][Next]_channel
=============================================================================
