----------------------------- MODULE AcceptLoop -----------------------------
(***************************************************************************)
(* The built-in accept loop, `serve_with_listener` of                      *)
(* connectrpc/src/server.rs, and the connection tasks it spawns into its   *)
(* JoinSet.  A connection behaves as ConnectionPromise says; what is       *)
(* modelled here is the accept loop's own control: its biased select, its  *)
(* treatment of accept errors, the shutdown broadcast and the drain.       *)
(*                                                                         *)
(* A connection is a slot that is used again once its task has been        *)
(* reaped, so the loop runs for ever.                                      *)
(***************************************************************************)
EXTENDS Integers, FiniteSets

CONSTANTS
    Conns,      \* connection slots
    Requests,   \* the requests a connection may serve at once
    Tls         \* TRUE: a connection starts with a TLS handshake

ASSUME LoopAssumption == IsFiniteSet(Conns) /\ Conns # {} /\ Tls \in BOOLEAN

VARIABLES
    loop,       \* what the loop polls next, or how serve ended
    signal,     \* the caller's shutdown future is ready
    drainTx,    \* the watch channel: "false", "true", or "dropped"
    joinset,    \* the connections whose task the JoinSet holds
    task,       \* where each connection's task stands
    phase, reason, gone, serving,   \* ConnectionPromise's state, per connection
    winding     \* the peer knows the connection is winding down

loopVars == <<loop, signal, drainTx, joinset>>
connVars == <<task, phase, reason, gone, serving, winding>>
vars == <<loopVars, connVars>>

Polling  == {"shutdown", "join", "accept"}
Backoff  == {"backoff_shutdown", "backoff_sleep"}
Returned == {"ok", "err", "dropped"}

(* global_shutdown_future resolves on `true` and on a dropped sender.      *)
told == drainTx # "false"

P(c) == INSTANCE ConnectionPromise WITH
    phase <- phase[c], reason <- reason[c], gone <- gone[c],
    serving <- serving[c]

Init ==
    /\ loop = "shutdown" /\ signal = FALSE /\ drainTx = "false" /\ joinset = {}
    /\ task = [c \in Conns |-> "free"]
    /\ phase = [c \in Conns |-> "closed"] /\ reason = [c \in Conns |-> "none"]
    /\ gone = [c \in Conns |-> FALSE] /\ serving = [c \in Conns |-> {}]
    /\ winding = [c \in Conns |-> FALSE]

-----------------------------------------------------------------------------
(* The accept loop.                                                        *)

Goto(next) == loop' = next /\ UNCHANGED <<signal, drainTx, joinset, connVars>>

BreakUntold == Goto("drain")        \* mutant

(* `break`: drop the listener, tell every connection, start to drain.      *)
Break == /\ loop' = "drain" /\ drainTx' = "true"
         /\ UNCHANGED <<signal, joinset, connVars>>

PollSignal ==
    /\ loop = "shutdown"
    /\ IF signal THEN Break ELSE Goto("join")

Reap(c, next) ==
    /\ task[c] = "finished" /\ c \in joinset
    /\ joinset' = joinset \ {c} /\ task' = [task EXCEPT ![c] = "free"]
    /\ loop' = next
    /\ UNCHANGED <<signal, drainTx, phase, reason, gone, serving, winding>>

PollJoin ==
    /\ loop = "join"
    /\ \/ \E c \in Conns : Reap(c, "shutdown")
       \/ (\A c \in joinset : task[c] # "finished") /\ Goto("accept")

Accept(c) ==
    /\ loop = "accept" /\ task[c] = "free"
    /\ joinset' = joinset \cup {c}
    /\ task' = [task EXCEPT ![c] = IF Tls THEN "handshake" ELSE "accepted"]
    /\ loop' = "shutdown"
    /\ UNCHANGED <<signal, drainTx, phase, reason, gone, serving, winding>>

(* Nothing to accept, or a transient error: round again.                   *)
AcceptNothing == loop = "accept" /\ Goto("shutdown")

(* Out of file descriptors: pause, still listening to the signal.          *)
AcceptFdExhausted == loop = "accept" /\ Goto("backoff_shutdown")

(* serve's end but for the drain: the sender goes with the loop.           *)
Abandon(how) == loop' = how /\ drainTx' = "dropped" /\ UNCHANGED signal

(* What becomes of the tasks: detach_all lets them run, a dropped JoinSet  *)
(* aborts them.                                                            *)
DetachAll ==
    /\ joinset' = {}
    /\ task' = [c \in Conns |-> IF task[c] = "finished" THEN "free" ELSE task[c]]
    /\ UNCHANGED <<phase, reason, gone, serving, winding>>

AbortAll ==
    /\ joinset' = {}
    /\ task' = [c \in Conns |-> "free"]
    /\ phase' = [c \in Conns |-> "closed"]
    /\ serving' = [c \in Conns |-> {}]
    /\ UNCHANGED <<reason, gone, winding>>

(* Any other error: detach the connections, return it.                     *)
AcceptFatalAborts == loop = "accept" /\ Abandon("err") /\ AbortAll     \* mutant
AcceptFatal       == loop = "accept" /\ Abandon("err") /\ DetachAll

PollBackoffDeaf ==  \* mutant
    \/ loop = "backoff_shutdown" /\ Goto("backoff_sleep")
    \/ loop = "backoff_sleep" /\ (Goto("backoff_shutdown") \/ Goto("shutdown"))

(* The pause: the signal first, then the sleep, which is pending for as    *)
(* long as it likes.  (Nothing makes it end: the signal must.)             *)
PollBackoff ==
    \/ /\ loop = "backoff_shutdown"
       /\ IF signal THEN Break ELSE Goto("backoff_sleep")
    \/ /\ loop = "backoff_sleep"
       /\ Goto("backoff_shutdown") \/ Goto("shutdown")

DrainJoin == loop = "drain" /\ \E c \in Conns : Reap(c, "drain")

DrainDoneEarly ==   \* mutant
    loop = "drain" /\ (\A c \in joinset : task[c] = "handshake") /\ Goto("ok")

DrainDone == loop = "drain" /\ joinset = {} /\ Goto("ok")

(* The caller drops the serve future: the JoinSet aborts its tasks.        *)
DropServe == loop \notin Returned /\ Abandon("dropped") /\ AbortAll

LoopStep == \/ PollSignal \/ PollJoin \/ PollBackoff \/ DrainJoin \/ DrainDone
            \/ AcceptNothing \/ AcceptFdExhausted \/ AcceptFatal
            \/ \E c \in Conns : Accept(c)

-----------------------------------------------------------------------------
(* A connection's task.                                                    *)

(* A task that ended waits in the JoinSet, unless it was detached.         *)
Ended(c) == IF c \in joinset THEN "finished" ELSE "free"

(* The handshake succeeds; fails or times out.                             *)
Handshake(c) ==
    /\ task[c] = "handshake"
    /\ \E next \in {"accepted", Ended(c)} : task' = [task EXCEPT ![c] = next]
    /\ UNCHANGED <<loopVars, phase, reason, gone, serving, winding>>

(* The with_connection_extensions function runs, once, before the first    *)
(* request; if it panics the connection is dropped unserved.               *)
ApplyExtensions(c) ==
    /\ task[c] = "accepted"
    /\ \/ /\ task' = [task EXCEPT ![c] = "serving"]
          /\ phase' = [phase EXCEPT ![c] = "open"]
          /\ reason' = [reason EXCEPT ![c] = "none"]
          /\ gone' = [gone EXCEPT ![c] = FALSE]
          /\ winding' = [winding EXCEPT ![c] = FALSE]
       \/ /\ task' = [task EXCEPT ![c] = Ended(c)]
          /\ UNCHANGED <<phase, reason, gone, winding>>
    /\ UNCHANGED <<loopVars, serving>>

Serves(c) == task[c] = "serving"

(* A winding-down connection still takes what the peer sent before it      *)
(* learned of it.                                                          *)
StartRequest(c, r) ==
    /\ Serves(c) /\ ~winding[c]
    /\ serving' = [serving EXCEPT ![c] = @ \cup {r}]
    /\ UNCHANGED <<loopVars, task, phase, reason, gone, winding>>

FinishRequest(c, r) ==
    /\ r \in serving[c]
    /\ serving' = [serving EXCEPT ![c] = @ \ {r}]
    /\ UNCHANGED <<loopVars, task, phase, reason, gone, winding>>

PeerLearns(c) ==
    /\ Serves(c) /\ phase[c] \in {"retiring", "draining"} /\ ~winding[c]
    /\ winding' = [winding EXCEPT ![c] = TRUE]
    /\ UNCHANGED <<loopVars, task, phase, reason, gone, serving>>

ConnGone(c) ==
    /\ Serves(c) /\ ~gone[c]
    /\ gone' = [gone EXCEPT ![c] = TRUE]
    /\ UNCHANGED <<loopVars, task, phase, reason, serving, winding>>

Retire(c) ==
    /\ Serves(c) /\ phase[c] = "open"
    /\ phase' = [phase EXCEPT ![c] = "retiring"]
    /\ \E why \in P(c)!Retirements : reason' = [reason EXCEPT ![c] = why]
    /\ UNCHANGED <<loopVars, task, gone, serving, winding>>

Drain(c) ==
    /\ Serves(c) /\ told /\ phase[c] \in {"open", "retiring"}
    /\ phase' = [phase EXCEPT ![c] = "draining"]
    /\ reason' = [reason EXCEPT ![c] = IF phase[c] = "open" THEN "Shutdown" ELSE @]
    /\ UNCHANGED <<loopVars, task, gone, serving, winding>>

(* serve_connection returns, and the task with it.                         *)
Closed(c, why) ==
    /\ task' = [task EXCEPT ![c] = Ended(c)]
    /\ phase' = [phase EXCEPT ![c] = "closed"]
    /\ reason' = [reason EXCEPT ![c] = why]
    /\ serving' = [serving EXCEPT ![c] = {}]
    /\ UNCHANGED <<loopVars, gone, winding>>

End(c) ==
    /\ Serves(c)
    /\ gone[c] \/ (phase[c] = "open" /\ serving[c] = {})
    /\ IF phase[c] = "open" THEN \E why \in P(c)!OwnEnds : Closed(c, why)
                            ELSE Closed(c, reason[c])

Drained(c) ==
    /\ Serves(c) /\ phase[c] \in {"retiring", "draining"}
    /\ phase[c] = "draining" => serving[c] = {}
    /\ Closed(c, reason[c])

TaskStep(c) == Handshake(c) \/ ApplyExtensions(c) \/ Drain(c) \/ Drained(c)

Signal == ~signal /\ loop \notin Returned /\ signal' = TRUE
          /\ UNCHANGED <<loop, drainTx, joinset, connVars>>

Terminated == /\ loop \in Returned /\ \A c \in Conns : task[c] = "free"
              /\ UNCHANGED vars

Next ==
    \/ LoopStep \/ DropServe \/ Signal \/ Terminated
    \/ \E c \in Conns : \/ TaskStep(c) \/ Retire(c) \/ ConnGone(c) \/ End(c)
                        \/ PeerLearns(c)
    \/ \E c \in Conns, r \in Requests : StartRequest(c, r) \/ FinishRequest(c, r)

Spec == Init /\ [][Next]_vars

(* The executor runs the loop and the tasks; a peer learns of a GOAWAY; a  *)
(* handshake is under a timeout.  That handlers return is an assumption    *)
(* about user code: a shutdown drain has no deadline of its own.           *)
Fairness ==
    /\ WF_vars(LoopStep)
    /\ \A c \in Conns : /\ WF_vars(Handshake(c) \/ ApplyExtensions(c))
                         /\ WF_vars(Drain(c)) /\ WF_vars(Drained(c))
                         /\ WF_vars(PeerLearns(c))
                         /\ \A r \in Requests : WF_vars(FinishRequest(c, r))

FairSpec == Spec /\ Fairness

-----------------------------------------------------------------------------
TypeOK ==
    /\ loop \in Polling \cup Backoff \cup Returned \cup {"drain"}
    /\ signal \in BOOLEAN /\ drainTx \in {"false", "true", "dropped"}
    /\ joinset \subseteq {c \in Conns : task[c] # "free"}
    /\ task \in [Conns -> {"free", "handshake", "accepted", "serving", "finished"}]
    /\ phase \in [Conns -> {"open", "retiring", "draining", "closed"}]
    /\ reason \in [Conns -> {"none", "Shutdown", "MaxAge", "Idle", "MaxRequests",
                             "Closed", "Error", "HeaderReadTimeout"}]
    /\ gone \in [Conns -> BOOLEAN] /\ serving \in [Conns -> SUBSET Requests]
    /\ winding \in [Conns -> BOOLEAN]

(* Graceful shutdown: serve returns Ok only when every connection it ever  *)
(* accepted has ended, the ones still in their handshake included, so no   *)
(* request is cut off by the process exiting after serve.                  *)
DrainComplete ==
    loop = "ok" => \A c \in Conns : task[c] = "free" /\ serving[c] = {}

(* Whatever the loop does (a fatal accept error and its detach_all         *)
(* included), to a connection it is a step ConnectionPromise allows, so no *)
(* request is cut off and no close reason is rewritten, unless the caller  *)
(* drops the serve future.                                                 *)
ConnectionsKeepPromise ==
    [][\A c \in Conns : \/ [P(c)!Next]_(P(c)!vars)
                        \/ P(c)!Init'
                        \/ loop' = "dropped"]_vars

(* Once the signal fires, serve returns, also out of the descriptor        *)
(* backoff, if the handlers return.  A fatal accept error, after which     *)
(* nobody waits for them, leaves no connection open for ever either: they  *)
(* see the dropped sender as shutdown and drain.                           *)
ServeReturns ==
    /\ signal ~> loop \in Returned
    /\ loop = "err" ~> \A c \in Conns : task[c] = "free"
=============================================================================
