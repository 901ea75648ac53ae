-------------------------- MODULE AcceptLoopProofs --------------------------
(***************************************************************************)
(* Theorems about AcceptLoop, for any finite set of connections, any       *)
(* requests, with and without TLS.                                         *)
(***************************************************************************)
EXTENDS AcceptLoop, TLAPS

(* A connection has a life, and requests, only while its task serves it.   *)
ServingInv ==
    \A c \in Conns : /\ phase[c] # "closed" <=> task[c] = "serving"
                     /\ serving[c] # {} => task[c] = "serving"

(* Until it gives up on its connections the loop holds every task that was *)
(* spawned and not yet reaped; a complete drain has none left.             *)
HeldInv ==
    /\ loop \notin {"err", "dropped"} => \A c \in Conns : task[c] # "free" => c \in joinset
    /\ loop = "ok" => joinset = {}

LoopInv == TypeOK /\ ServingInv /\ HeldInv

-----------------------------------------------------------------------------
USE DEF loopVars, connVars, vars

Tasks   == {"free", "handshake", "accepted", "serving", "finished"}
Phases  == {"open", "retiring", "draining", "closed"}
Reasons == {"none", "Shutdown", "MaxAge", "Idle", "MaxRequests", "Closed", "Error",
            "HeaderReadTimeout"}
Loops   == Polling \cup Backoff \cup Returned \cup {"drain"}

(* A step of the loop that leaves the connections alone.                   *)
LEMMA LoopMoves ==
    ASSUME LoopInv, loop' \in Loops, signal' \in BOOLEAN,
           drainTx' \in {"false", "true", "dropped"},
           loop' = "ok" => joinset = {},
           loop' \notin {"err", "dropped"} => loop \notin {"err", "dropped"},
           UNCHANGED <<joinset, connVars>>
    PROVE  LoopInv'
  BY DEF LoopInv, TypeOK, ServingInv, HeldInv, Loops

(* A step of one connection's task, which the loop does not see.           *)
LEMMA TaskMoves ==
    ASSUME LoopInv, NEW c \in Conns,
           task' \in [Conns -> Tasks], phase' \in [Conns -> Phases],
           reason' \in [Conns -> Reasons], serving' \in [Conns -> SUBSET Requests],
           gone' \in [Conns -> BOOLEAN], winding' \in [Conns -> BOOLEAN],
           \A d \in Conns \ {c} : /\ task'[d] = task[d] /\ phase'[d] = phase[d]
                                  /\ serving'[d] = serving[d],
           task[c] # "free",
           task'[c] = "free" => c \notin joinset,
           phase'[c] # "closed" <=> task'[c] = "serving",
           serving'[c] # {} => task'[c] = "serving",
           UNCHANGED loopVars
    PROVE  LoopInv'
<1>1. TypeOK'
  <2>1. joinset' \in SUBSET {d \in Conns : task'[d] # "free"}
    BY DEF LoopInv, TypeOK
  <2>2. loop' \in Loops /\ signal' \in BOOLEAN /\ drainTx' \in {"false", "true", "dropped"}
    BY DEF LoopInv, TypeOK, Loops
  <2> QED
    BY <2>1, <2>2 DEF TypeOK, Tasks, Phases, Reasons, Loops
<1>2. ServingInv'
  BY DEF LoopInv, ServingInv
<1>3. HeldInv'
  BY DEF LoopInv, HeldInv
<1> QED
  BY <1>1, <1>2, <1>3 DEF LoopInv

(* A finished task is reaped.                                              *)
LEMMA Reaps ==
    ASSUME LoopInv, NEW c \in Conns, NEW next \in Loops \ {"ok"}, Reap(c, next),
           loop \notin {"err", "dropped"}
    PROVE  LoopInv'
<1>0. /\ task \in [Conns -> Tasks] /\ task[c] = "finished" /\ c \in joinset
      /\ joinset' = joinset \ {c} /\ task' = [task EXCEPT ![c] = "free"] /\ loop' = next
      /\ UNCHANGED <<signal, drainTx, phase, reason, gone, serving, winding>>
  BY DEF LoopInv, TypeOK, Tasks, Reap
<1>1. TypeOK'
  <2>1. joinset' \in SUBSET {d \in Conns : task'[d] # "free"}
    BY <1>0 DEF LoopInv, TypeOK
  <2>2. task' \in [Conns -> Tasks]
    BY <1>0 DEF Tasks
  <2> QED
    BY <1>0, <2>1, <2>2 DEF LoopInv, TypeOK, Tasks, Loops
<1>2. ServingInv'
  BY <1>0 DEF LoopInv, ServingInv
<1>3. HeldInv'
  BY <1>0 DEF LoopInv, HeldInv
<1> QED
  BY <1>1, <1>2, <1>3 DEF LoopInv

(* Each step keeps the invariant.                                          *)
LEMMA LoopStepInv == LoopInv /\ [Next]_vars => LoopInv'
<1> SUFFICES ASSUME LoopInv, [Next]_vars PROVE LoopInv'
  OBVIOUS
<1>0. /\ task \in [Conns -> Tasks] /\ phase \in [Conns -> Phases]
      /\ reason \in [Conns -> Reasons] /\ serving \in [Conns -> SUBSET Requests]
      /\ gone \in [Conns -> BOOLEAN] /\ winding \in [Conns -> BOOLEAN]
      /\ loop \in Loops /\ signal \in BOOLEAN /\ drainTx \in {"false", "true", "dropped"}
      /\ joinset \in SUBSET {c \in Conns : task[c] # "free"}
  BY DEF LoopInv, TypeOK, Tasks, Phases, Reasons, Loops
<1>i. \A c \in Conns : /\ phase[c] # "closed" <=> task[c] = "serving"
                       /\ serving[c] # {} => task[c] = "serving"
  BY DEF LoopInv, ServingInv
<1>g. ASSUME NEW x \in Loops, Goto(x), loop \notin {"err", "dropped"},
             x = "ok" => joinset = {}
      PROVE  LoopInv'
  BY <1>0, <1>g, LoopMoves DEF Goto
<1>b. ASSUME Break, loop \notin {"err", "dropped"} PROVE LoopInv'
  BY <1>0, <1>b, LoopMoves DEF Break, Loops
<1>1. CASE PollSignal
  BY <1>g, <1>b, <1>1 DEF PollSignal, Loops, Polling
<1>2. CASE PollJoin
  BY <1>g, <1>2, Reaps DEF PollJoin, Loops, Polling
<1>3. CASE PollBackoff
  BY <1>g, <1>b, <1>3 DEF PollBackoff, Loops, Polling, Backoff
<1>4. CASE DrainJoin
  BY <1>4, Reaps DEF DrainJoin, Loops
<1>5. CASE DrainDone
  BY <1>g, <1>5 DEF DrainDone, Loops, Returned
<1>6. CASE AcceptNothing \/ AcceptFdExhausted
  BY <1>g, <1>6 DEF AcceptNothing, AcceptFdExhausted, Loops, Polling, Backoff
<1>7. CASE AcceptFatal
  <2>1. /\ loop' = "err" /\ drainTx' = "dropped" /\ signal' = signal /\ joinset' = {}
        /\ task' = [c \in Conns |-> IF task[c] = "finished" THEN "free" ELSE task[c]]
        /\ UNCHANGED <<phase, reason, gone, serving, winding>>
    BY <1>7 DEF AcceptFatal, Abandon, DetachAll
  <2>2. task' \in [Conns -> Tasks]
    BY <1>0, <2>1 DEF Tasks
  <2>3. TypeOK'
    BY <1>0, <2>1, <2>2 DEF TypeOK, Tasks, Phases, Reasons, Loops, Returned
  <2>4. ServingInv'
    <3> SUFFICES ASSUME NEW c \in Conns
                 PROVE  /\ phase'[c] # "closed" <=> task'[c] = "serving"
                        /\ serving'[c] # {} => task'[c] = "serving"
      BY DEF ServingInv
    <3>1. /\ phase'[c] = phase[c] /\ serving'[c] = serving[c]
          /\ task'[c] = "serving" <=> task[c] = "serving"
      BY <1>0, <2>1
    <3> QED
      BY <1>i, <3>1
  <2>5. HeldInv'
    BY <2>1 DEF HeldInv
  <2> QED
    BY <2>3, <2>4, <2>5 DEF LoopInv
<1>8. ASSUME NEW c \in Conns, Accept(c) PROVE LoopInv'
  <2> DEFINE t == IF Tls THEN "handshake" ELSE "accepted"
  <2>1. /\ loop = "accept" /\ task[c] = "free" /\ joinset' = joinset \cup {c}
        /\ task' = [task EXCEPT ![c] = t] /\ loop' = "shutdown"
        /\ UNCHANGED <<signal, drainTx, phase, reason, gone, serving, winding>>
    BY <1>8 DEF Accept
  <2>2. t \in Tasks \ {"free", "serving"}
    BY DEF Tasks
  <2> HIDE DEF t
  <2>3. task' \in [Conns -> Tasks] /\ joinset' \in SUBSET {d \in Conns : task'[d] # "free"}
    BY <1>0, <2>1, <2>2
  <2>4. TypeOK'
    BY <1>0, <2>1, <2>3 DEF TypeOK, Tasks, Phases, Reasons, Loops, Polling
  <2>5. ServingInv'
    <3> SUFFICES ASSUME NEW d \in Conns
                 PROVE  /\ phase'[d] # "closed" <=> task'[d] = "serving"
                        /\ serving'[d] # {} => task'[d] = "serving"
      BY DEF ServingInv
    <3>1. /\ phase'[d] = phase[d] /\ serving'[d] = serving[d]
          /\ task'[d] = "serving" <=> task[d] = "serving"
      BY <1>0, <2>1, <2>2
    <3> QED
      BY <1>i, <3>1
  <2>6. HeldInv'
    BY <1>0, <2>1 DEF HeldInv, LoopInv
  <2> QED
    BY <2>4, <2>5, <2>6 DEF LoopInv
<1>9. CASE DropServe
  <2>1. /\ loop' = "dropped" /\ drainTx' = "dropped" /\ signal' = signal /\ joinset' = {}
        /\ task' = [c \in Conns |-> "free"] /\ phase' = [c \in Conns |-> "closed"]
        /\ serving' = [c \in Conns |-> {}] /\ UNCHANGED <<reason, gone, winding>>
    BY <1>9 DEF DropServe, Abandon, AbortAll
  <2>2. TypeOK'
    BY <1>0, <2>1 DEF TypeOK, Tasks, Phases, Reasons, Loops, Returned
  <2>3. ServingInv'
    BY <2>1 DEF ServingInv
  <2>4. HeldInv'
    BY <2>1 DEF HeldInv
  <2> QED
    BY <2>2, <2>3, <2>4 DEF LoopInv
<1>10. CASE Signal
  <2>1. /\ loop' = loop /\ signal' = TRUE /\ loop \notin Returned
        /\ UNCHANGED <<drainTx, joinset, connVars>>
    BY <1>10 DEF Signal
  <2> QED
    BY <1>0, <2>1, LoopMoves DEF Returned
<1>11. CASE UNCHANGED vars
  BY <1>11 DEF LoopInv, TypeOK, ServingInv, HeldInv
<1>e. ASSUME NEW c \in Conns
      PROVE  Ended(c) \in Tasks \ {"serving"} /\ (Ended(c) = "free" => c \notin joinset)
  BY DEF Ended, Tasks
<1>t. ASSUME NEW c \in Conns
      PROVE  /\ task[c] \in Tasks /\ phase[c] \in Phases /\ reason[c] \in Reasons
             /\ serving[c] \in SUBSET Requests /\ gone[c] \in BOOLEAN /\ winding[c] \in BOOLEAN
             /\ phase[c] # "closed" <=> task[c] = "serving"
             /\ serving[c] # {} => task[c] = "serving"
             /\ task[c] = "free" => c \notin joinset
  <2>1. task[c] \in Tasks /\ phase[c] \in Phases /\ reason[c] \in Reasons
    BY <1>0
  <2>2. serving[c] \in SUBSET Requests /\ gone[c] \in BOOLEAN /\ winding[c] \in BOOLEAN
    BY <1>0, Zenon
  <2>3. task[c] = "free" => c \notin joinset
    BY <1>0
  <2> QED
    BY <1>i, <2>1, <2>2, <2>3, Zenon
<1>12. ASSUME NEW c \in Conns, Handshake(c) PROVE LoopInv'
  <2>1. PICK t \in {"accepted", Ended(c)} : task' = [task EXCEPT ![c] = t]
    BY <1>12 DEF Handshake
  <2>2. /\ task[c] = "handshake" /\ t \in Tasks \ {"serving"} /\ (t = "free" => c \notin joinset)
        /\ UNCHANGED <<loopVars, phase, reason, gone, serving, winding>>
    BY <1>12, <1>e DEF Handshake, Tasks
  <2>3. phase[c] = "closed" /\ serving[c] = {} /\ task[c] # "free"
    BY <1>t, <2>2
  <2> QED
    BY <1>0, <1>t, <2>1, <2>2, <2>3, TaskMoves
<1>13. ASSUME NEW c \in Conns, ApplyExtensions(c) PROVE LoopInv'
  <2>1. task[c] = "accepted" /\ task[c] # "free" /\ UNCHANGED <<loopVars, serving>>
    BY <1>13 DEF ApplyExtensions
  <2>2. phase[c] = "closed" /\ serving[c] = {}
    BY <1>t, <2>1
  <2>3. CASE /\ task' = [task EXCEPT ![c] = "serving"] /\ phase' = [phase EXCEPT ![c] = "open"]
             /\ reason' = [reason EXCEPT ![c] = "none"] /\ gone' = [gone EXCEPT ![c] = FALSE]
             /\ winding' = [winding EXCEPT ![c] = FALSE]
    <3>1. "serving" \in Tasks /\ "open" \in Phases /\ "none" \in Reasons /\ FALSE \in BOOLEAN
      BY DEF Tasks, Phases, Reasons
    <3> QED
      BY <1>0, <1>t, <2>1, <2>2, <2>3, <3>1, TaskMoves
  <2>4. CASE task' = [task EXCEPT ![c] = Ended(c)] /\ UNCHANGED <<phase, reason, gone, winding>>
    BY <1>e, <1>0, <1>t, <2>1, <2>2, <2>4, TaskMoves
  <2> QED
    BY <1>13, <2>3, <2>4 DEF ApplyExtensions
<1>14. ASSUME NEW c \in Conns, NEW r \in Requests, StartRequest(c, r) PROVE LoopInv'
  <2>1. /\ task[c] = "serving" /\ serving' = [serving EXCEPT ![c] = serving[c] \cup {r}]
        /\ UNCHANGED <<loopVars, task, phase, reason, gone, winding>>
    BY <1>14 DEF StartRequest, Serves
  <2>2. serving[c] \cup {r} \in SUBSET Requests
    BY <1>t
  <2> QED
    BY <1>0, <1>t, <2>1, <2>2, TaskMoves
<1>15. ASSUME NEW c \in Conns, NEW r \in Requests, FinishRequest(c, r) PROVE LoopInv'
  <2>1. /\ serving[c] # {} /\ serving' = [serving EXCEPT ![c] = serving[c] \ {r}]
        /\ UNCHANGED <<loopVars, task, phase, reason, gone, winding>>
    BY <1>15 DEF FinishRequest
  <2>2. serving[c] \ {r} \in SUBSET Requests /\ task[c] = "serving"
    BY <1>t, <2>1
  <2> QED
    BY <1>0, <1>t, <2>1, <2>2, TaskMoves
<1>16. ASSUME NEW c \in Conns, PeerLearns(c) PROVE LoopInv'
  <2>1. /\ task[c] = "serving" /\ winding' = [winding EXCEPT ![c] = TRUE]
        /\ UNCHANGED <<loopVars, task, phase, reason, gone, serving>>
    BY <1>16 DEF PeerLearns, Serves
  <2> QED
    BY <1>0, <1>t, <2>1, TaskMoves
<1>17. ASSUME NEW c \in Conns, ConnGone(c) PROVE LoopInv'
  <2>1. /\ task[c] = "serving" /\ gone' = [gone EXCEPT ![c] = TRUE]
        /\ UNCHANGED <<loopVars, task, phase, reason, winding, serving>>
    BY <1>17 DEF ConnGone, Serves
  <2> QED
    BY <1>0, <1>t, <2>1, TaskMoves
<1>18. ASSUME NEW c \in Conns, Retire(c) PROVE LoopInv'
  <2>1. PICK why \in {"MaxAge", "Idle", "MaxRequests"} : reason' = [reason EXCEPT ![c] = why]
    BY <1>18 DEF Retire, P!Retirements
  <2>2. /\ task[c] = "serving" /\ phase' = [phase EXCEPT ![c] = "retiring"]
        /\ UNCHANGED <<loopVars, task, gone, winding, serving>>
    BY <1>18 DEF Retire, Serves
  <2>3. why \in Reasons /\ "retiring" \in Phases
    BY DEF Reasons, Phases
  <2> QED
    BY <1>0, <1>t, <2>1, <2>2, <2>3, TaskMoves
<1>19. ASSUME NEW c \in Conns, Drain(c) PROVE LoopInv'
  <2> DEFINE why == IF phase[c] = "open" THEN "Shutdown" ELSE reason[c]
  <2>1. /\ task[c] = "serving" /\ phase' = [phase EXCEPT ![c] = "draining"]
        /\ reason' = [reason EXCEPT ![c] = why]
        /\ UNCHANGED <<loopVars, task, gone, winding, serving>>
    BY <1>19 DEF Drain, Serves
  <2>2. why \in Reasons /\ "draining" \in Phases
    BY <1>t DEF Reasons, Phases
  <2> HIDE DEF why
  <2> QED
    BY <1>0, <1>t, <2>1, <2>2, TaskMoves
<1>c. ASSUME NEW c \in Conns, NEW why \in Reasons, Serves(c), Closed(c, why) PROVE LoopInv'
  <2>1. "closed" \in Phases /\ {} \in SUBSET Requests
    BY DEF Phases
  <2> QED
    BY <1>c, <1>e, <1>0, <1>t, <2>1, TaskMoves DEF Closed, Serves
<1>20. ASSUME NEW c \in Conns, End(c) PROVE LoopInv'
  <2>1. PICK why \in Reasons : Closed(c, why)
    BY <1>20, <1>t DEF End, P!OwnEnds, Reasons
  <2> QED
    BY <1>c, <1>20, <2>1 DEF End
<1>21. ASSUME NEW c \in Conns, Drained(c) PROVE LoopInv'
  BY <1>c, <1>t, <1>21 DEF Drained
<1> QED
  BY <1>1, <1>2, <1>3, <1>4, <1>5, <1>6, <1>7, <1>8, <1>9, <1>10, <1>11, <1>12, <1>13, <1>14,
     <1>15, <1>16, <1>17, <1>18, <1>19, <1>20, <1>21
  DEF Next, LoopStep, TaskStep, Terminated

(* The accept loop, its task set and the connections agree in every        *)
(* reachable state.                                                        *)
LEMMA LoopInvariant == Spec => []LoopInv
<1>1. Init => LoopInv
  <2> SUFFICES ASSUME Init PROVE LoopInv
    OBVIOUS
  <2>1. TypeOK
    BY DEF Init, TypeOK, Polling
  <2> QED
    BY <2>1 DEF Init, LoopInv, ServingInv, HeldInv
<1> QED
  BY <1>1, LoopStepInv, PTL DEF Spec

(* Every variable of the accept loop and its connections keeps its type;   *)
(* the JoinSet holds only tasks that were spawned and not yet reaped.      *)
THEOREM LoopTyped == Spec => []TypeOK
<1>1. LoopInv => TypeOK
  BY DEF LoopInv
<1> QED
  BY <1>1, LoopInvariant, PTL

(* serve returns Ok only once every connection task it spawned has ended,  *)
(* the ones still in their handshake included, and serves no request.      *)
THEOREM DrainIsComplete == Spec => []DrainComplete
<1>1. LoopInv => DrainComplete
  BY DEF LoopInv, TypeOK, ServingInv, HeldInv, DrainComplete
<1> QED
  BY <1>1, LoopInvariant, PTL

-----------------------------------------------------------------------------
(* Each connection keeps the promise.                                      *)

Keeps(c) == \/ [P(c)!Next]_(P(c)!vars)
            \/ P(c)!Init'
            \/ loop' = "dropped"

(* A step that changes nothing of a connection, and takes back no          *)
(* shutdown, is a step of the promise.                                     *)
LEMMA Undisturbed ==
    ASSUME NEW c \in Conns, phase'[c] = phase[c], reason'[c] = reason[c],
           gone'[c] = gone[c], serving'[c] = serving[c], told => told'
    PROVE  Keeps(c)
<1>1. CASE told'
  <2>1. P(c)!Tell
    BY <1>1 DEF P!Tell, told
  <2> QED
    BY <2>1 DEF Keeps, P!Next
<1>2. CASE ~told'
  BY <1>2 DEF Keeps, P!vars, told
<1> QED
  BY <1>1, <1>2

(* Every step of the loop or of a task is, for each connection, a step of  *)
(* the promise or none.                                                    *)
LEMMA PromiseStep ==
    ASSUME LoopInv, Next, NEW c \in Conns
    PROVE  Keeps(c)
<1>0. /\ task \in [Conns -> Tasks] /\ phase \in [Conns -> Phases]
      /\ reason \in [Conns -> Reasons] /\ serving \in [Conns -> SUBSET Requests]
      /\ gone \in [Conns -> BOOLEAN]
  BY DEF LoopInv, TypeOK, Tasks, Phases, Reasons
<1>i. /\ phase[c] # "closed" <=> task[c] = "serving"
      /\ serving[c] # {} => task[c] = "serving"
  BY DEF LoopInv, ServingInv
<1>u. ASSUME UNCHANGED <<phase, reason, gone, serving>>, told => told'
      PROVE  Keeps(c)
  BY <1>u, Undisturbed
<1>g. ASSUME NEW x, Goto(x) PROVE Keeps(c)
  BY <1>g, <1>u DEF Goto, told
<1>b. ASSUME Break PROVE Keeps(c)
  BY <1>b, <1>u DEF Break, told
<1>r. ASSUME NEW d, NEW x, Reap(d, x) PROVE Keeps(c)
  BY <1>r, <1>u DEF Reap, told
<1>1. CASE PollSignal
  BY <1>g, <1>b, <1>1 DEF PollSignal
<1>2. CASE PollJoin
  BY <1>g, <1>r, <1>2 DEF PollJoin
<1>3. CASE PollBackoff
  BY <1>g, <1>b, <1>3 DEF PollBackoff
<1>4. CASE DrainJoin
  BY <1>r, <1>4 DEF DrainJoin
<1>5. CASE DrainDone \/ AcceptNothing \/ AcceptFdExhausted
  BY <1>g, <1>5 DEF DrainDone, AcceptNothing, AcceptFdExhausted
<1>6. CASE AcceptFatal
  BY <1>u, <1>6 DEF AcceptFatal, Abandon, DetachAll, told
<1>7. CASE DropServe
  BY <1>7 DEF DropServe, Abandon, Keeps
<1>8. CASE Signal \/ Terminated
  BY <1>u, <1>8 DEF Signal, Terminated, told
<1>9. ASSUME NEW d \in Conns,
             Accept(d) \/ Handshake(d) \/ PeerLearns(d)
      PROVE  Keeps(c)
  BY <1>u, <1>9 DEF Accept, Handshake, PeerLearns, told
<1>o. ASSUME UNCHANGED loopVars, phase'[c] = phase[c], reason'[c] = reason[c],
             gone'[c] = gone[c], serving'[c] = serving[c]
      PROVE  Keeps(c)
  BY <1>o, Undisturbed DEF told
<1>10. ASSUME NEW d \in Conns, ApplyExtensions(d) PROVE Keeps(c)
  <2>1. CASE UNCHANGED <<phase, reason, gone>>
    BY <1>10, <1>u, <2>1 DEF ApplyExtensions, told
  <2>2. CASE /\ phase' = [phase EXCEPT ![d] = "open"] /\ reason' = [reason EXCEPT ![d] = "none"]
             /\ gone' = [gone EXCEPT ![d] = FALSE]
    <3>1. task[d] = "accepted" /\ UNCHANGED <<loopVars, serving>>
      BY <1>10 DEF ApplyExtensions
    <3>2. CASE d # c
      BY <1>0, <1>o, <2>2, <3>1, <3>2
    <3>3. CASE d = c
      <4>1. serving[c] = {}
        BY <1>i, <3>1, <3>3
      <4>2. /\ phase'[c] = "open" /\ reason'[c] = "none" /\ gone'[c] = FALSE /\ serving'[c] = {}
        BY <1>0, <2>2, <3>1, <3>3, <4>1
      <4>3. P(c)!Init'
        BY <4>2 DEF P!Init, told
      <4> QED
        BY <4>3 DEF Keeps
    <3> QED
      BY <3>2, <3>3
  <2> QED
    BY <1>10, <1>u, <2>1, <2>2 DEF ApplyExtensions
<1>11. ASSUME NEW d \in Conns, NEW r \in Requests, StartRequest(d, r) \/ FinishRequest(d, r)
       PROVE  Keeps(c)
  <2>1. PICK s : serving' = [serving EXCEPT ![d] = s]
    BY <1>11 DEF StartRequest, FinishRequest
  <2>2. UNCHANGED <<loopVars, phase, reason, gone>>
    BY <1>11 DEF StartRequest, FinishRequest
  <2>3. CASE d # c
    BY <1>0, <1>o, <2>1, <2>2, <2>3
  <2>4. CASE d = c
    <3>1. task[c] = "serving"
      BY <1>11, <1>i, <2>4 DEF StartRequest, FinishRequest, Serves
    <3>2. serving'[c] \in SUBSET Requests
      <4>1. serving[c] \in SUBSET Requests
        BY <1>0
      <4>2. serving'[c] = serving[c] \cup {r} \/ serving'[c] = serving[c] \ {r}
        BY <1>0, <1>11, <2>4 DEF StartRequest, FinishRequest
      <4> QED
        BY <4>1, <4>2
    <3>3. P(c)!Serve
      BY <1>i, <2>2, <3>1, <3>2 DEF P!Serve, told
    <3> QED
      BY <3>3 DEF Keeps, P!Next
  <2> QED
    BY <2>3, <2>4
<1>12. ASSUME NEW d \in Conns, ConnGone(d) PROVE Keeps(c)
  <2>1. gone' = [gone EXCEPT ![d] = TRUE] /\ UNCHANGED <<loopVars, phase, reason, serving>>
    BY <1>12 DEF ConnGone
  <2>2. CASE d # c
    BY <1>0, <1>o, <2>1, <2>2
  <2>3. CASE d = c
    <3>1. gone'[c] = TRUE
      BY <1>0, <2>1, <2>3
    <3>2. P(c)!Fail
      BY <2>1, <3>1 DEF P!Fail, told
    <3> QED
      BY <3>2 DEF Keeps, P!Next
  <2> QED
    BY <2>2, <2>3
<1>13. ASSUME NEW d \in Conns, Retire(d) PROVE Keeps(c)
  <2>1. PICK why \in {"MaxAge", "Idle", "MaxRequests"} : reason' = [reason EXCEPT ![d] = why]
    BY <1>13 DEF Retire, P!Retirements
  <2>2. /\ phase[d] = "open" /\ phase' = [phase EXCEPT ![d] = "retiring"]
        /\ UNCHANGED <<loopVars, gone, serving>>
    BY <1>13 DEF Retire
  <2>3. CASE d # c
    BY <1>0, <1>o, <2>1, <2>2, <2>3
  <2>4. CASE d = c
    <3>1. phase'[c] = "retiring" /\ reason'[c] = why
      BY <1>0, <2>1, <2>2, <2>4
    <3>2. P(c)!Retire
      BY <2>2, <2>4, <3>1 DEF P!Retire, P!Retirements, told
    <3> QED
      BY <3>2 DEF Keeps, P!Next
  <2> QED
    BY <2>3, <2>4
<1>14. ASSUME NEW d \in Conns, Drain(d) PROVE Keeps(c)
  <2> DEFINE why == IF phase[d] = "open" THEN "Shutdown" ELSE reason[d]
  <2>1. /\ told /\ phase[d] \in {"open", "retiring"} /\ phase' = [phase EXCEPT ![d] = "draining"]
        /\ reason' = [reason EXCEPT ![d] = why] /\ UNCHANGED <<loopVars, gone, serving>>
    BY <1>14 DEF Drain
  <2>2. CASE d # c
    <3> HIDE DEF why
    <3> QED
      BY <1>0, <1>o, <2>1, <2>2
  <2>3. CASE d = c
    <3>1. phase'[c] = "draining" /\ reason'[c] = IF phase[c] = "open" THEN "Shutdown" ELSE reason[c]
      BY <1>0, <2>1, <2>3
    <3>2. P(c)!Drain
      BY <2>1, <2>3, <3>1 DEF P!Drain, told
    <3> QED
      BY <3>2 DEF Keeps, P!Next
  <2> QED
    BY <2>2, <2>3
<1>c. ASSUME NEW d \in Conns, d # c, NEW why, Closed(d, why) PROVE Keeps(c)
  BY <1>0, <1>o, <1>c DEF Closed
<1>h. ASSUME NEW why, Closed(c, why)
      PROVE  /\ phase'[c] = "closed" /\ reason'[c] = why /\ serving'[c] = {}
             /\ UNCHANGED <<loopVars, gone>>
  BY <1>0, <1>h DEF Closed
<1>15. ASSUME NEW d \in Conns, End(d) PROVE Keeps(c)
  <2>1. PICK why : Closed(d, why) /\ IF phase[d] = "open" THEN why \in P(d)!OwnEnds ELSE why = reason[d]
    BY <1>15 DEF End
  <2>2. CASE d = c
    <3>1. P(c)!End
      BY <1>15, <1>h, <1>i, <2>1, <2>2 DEF End, Serves, P!End, P!OwnEnds, told
    <3> QED
      BY <3>1 DEF Keeps, P!Next
  <2> QED
    BY <1>c, <2>1, <2>2
<1>16. ASSUME NEW d \in Conns, Drained(d) PROVE Keeps(c)
  <2>1. CASE d = c
    <3>1. P(c)!Drained
      BY <1>16, <1>h, <2>1 DEF Drained, P!Drained, told
    <3> QED
      BY <3>1 DEF Keeps, P!Next
  <2> QED
    BY <1>c, <1>16, <2>1 DEF Drained
<1> QED
  BY <1>1, <1>2, <1>3, <1>4, <1>5, <1>6, <1>7, <1>8, <1>9, <1>10, <1>11, <1>12, <1>13, <1>14,
     <1>15, <1>16
  DEF Next, LoopStep, TaskStep

(* Whatever the loop does, a fatal accept error and its detach_all         *)
(* included, is to each connection a step that ConnectionPromise allows,   *)
(* unless the caller drops the serve future.                               *)
THEOREM PromiseKept == Spec => ConnectionsKeepPromise
<1>1. LoopInv /\ [Next]_vars
        => [\A c \in Conns : \/ [P(c)!Next]_(P(c)!vars)
                             \/ P(c)!Init'
                             \/ loop' = "dropped"]_vars
  <2> SUFFICES ASSUME LoopInv, Next, NEW c \in Conns PROVE Keeps(c)
    BY DEF Keeps
  <2> QED
    BY PromiseStep
<1> QED
  BY <1>1, LoopInvariant, PTL DEF Spec, ConnectionsKeepPromise
=============================================================================
