------------------------- MODULE ConnectionPromise -------------------------
(***************************************************************************)
(* What a served connection promises the code around it (the docs of       *)
(* `serve_connection`, `CloseReason` and `ConnectionClosed` in             *)
(* connectrpc/src/server.rs), without the task, the timers and the wakers  *)
(* that keep the promise: ConnectionLifecycle implements this module, and  *)
(* AcceptLoop relies on nothing more.                                      *)
(***************************************************************************)
EXTENDS FiniteSets

CONSTANT Requests

VARIABLES
    phase,    \* "open", "retiring" (deadline), "draining" (none), "closed"
    reason,   \* "none" while open; then final
    told,     \* the shutdown signal has fired
    gone,     \* the peer closed or the socket failed
    serving   \* the requests being served

vars == <<phase, reason, told, gone, serving>>

Retirements == {"MaxAge", "Idle", "MaxRequests"}
OwnEnds     == {"Closed", "Error", "HeaderReadTimeout"}

Init == /\ phase = "open" /\ reason = "none" /\ serving = {}
        /\ told \in BOOLEAN /\ gone = FALSE

Tell == told' = TRUE /\ UNCHANGED <<phase, reason, gone, serving>>
Fail == gone' = TRUE /\ UNCHANGED <<phase, reason, told, serving>>

(* Requests come and go; a wind-down does not by itself end one.           *)
Serve ==
    /\ phase # "closed"
    /\ serving' \in SUBSET Requests
    /\ UNCHANGED <<phase, reason, told, gone>>

(* A retirement trigger: drain, with a deadline.                           *)
Retire ==
    /\ phase = "open"
    /\ phase' = "retiring" /\ reason' \in Retirements
    /\ UNCHANGED <<told, gone, serving>>

(* The shutdown signal: drain with no deadline.  A retirement that had     *)
(* begun keeps its reason and loses its deadline.                          *)
Drain ==
    /\ told /\ phase \in {"open", "retiring"}
    /\ phase' = "draining"
    /\ reason' = IF phase = "open" THEN "Shutdown" ELSE reason
    /\ UNCHANGED <<told, gone, serving>>

(* The connection ends by itself.  It gives up on requests it is serving   *)
(* only if the peer or the socket is gone.                                 *)
End ==
    /\ phase # "closed"
    /\ gone \/ (phase = "open" /\ serving = {})
    /\ phase' = "closed" /\ serving' = {}
    /\ IF phase = "open" THEN reason' \in OwnEnds ELSE reason' = reason
    /\ UNCHANGED <<told, gone>>

(* The drain is complete, or a retirement's deadline passed.               *)
Drained ==
    /\ phase \in {"retiring", "draining"}
    /\ phase = "draining" => serving = {}
    /\ phase' = "closed" /\ serving' = {}
    /\ UNCHANGED <<reason, told, gone>>

Next == Tell \/ Fail \/ Serve \/ Retire \/ Drain \/ End \/ Drained

Spec == Init /\ [][Next]_vars
=============================================================================
