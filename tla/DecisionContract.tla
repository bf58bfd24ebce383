-------------------------- MODULE DecisionContract --------------------------
(***************************************************************************)
(* What the v1 API promises of a request (README.md, Errors): at most one  *)
(* answer, refused without a trace, or failed together with the backend,   *)
(* which then stays down until the application is started again.           *)
(***************************************************************************)
CONSTANTS Requests

VARIABLES
    backend,    \* "starting", "up" or "down"
    outcome,    \* of each request, "none" until it has one
    computed    \* the requests the model was run for

vars == <<backend, outcome, computed>>

\* Codes of a request the worker never ran, and of one that takes it down.
Refusals == {"400", "404", "413", "415", "422", "429", "500"}
Failures == {"408", "500", "cancelled"}

Init == backend = "starting" /\ outcome = [r \in Requests |-> "none"] /\ computed = {}

Ends(r, codes) == outcome[r] = "none" /\ \E c \in codes : outcome' = [outcome EXCEPT ![r] = c]

ComeUp == backend = "starting" /\ backend' = "up" /\ UNCHANGED <<outcome, computed>>
GoDown == backend # "down" /\ backend' = "down" /\ UNCHANGED <<outcome, computed>>

\* The backend runs one request at a time: one it has run and not answered
\* keeps it from another.
Compute(r) ==
    /\ outcome[r] = "none" /\ r \notin computed
    /\ backend = "up" => \A q \in computed : outcome[q] # "none"
    /\ computed' = computed \cup {r}
    /\ UNCHANGED <<backend, outcome>>

Answer(r) ==
    /\ backend = "up" /\ r \in computed /\ Ends(r, {"200"}) /\ UNCHANGED <<backend, computed>>

\* Nothing was run, or no trace of it is left.
Refuse(r) ==
    /\ r \notin computed /\ Ends(r, Refusals) /\ UNCHANGED <<backend, computed>>

\* The caller went away before its request reached the backend.
Abandon(r) ==
    /\ r \notin computed /\ Ends(r, {"cancelled"}) /\ UNCHANGED <<backend, computed>>

Unavailable(r) ==
    /\ backend # "up" /\ r \notin computed /\ Ends(r, {"529"}) /\ UNCHANGED <<backend, computed>>

Fail(r) == backend = "down" /\ Ends(r, Failures) /\ UNCHANGED <<backend, computed>>

Next ==
    \/ ComeUp \/ GoDown
    \/ \E r \in Requests :
           Compute(r) \/ Answer(r) \/ Refuse(r) \/ Abandon(r) \/ Unavailable(r) \/ Fail(r)

Spec == Init /\ [][Next]_vars
=============================================================================
