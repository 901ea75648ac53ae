----------------------------- MODULE SharedHttp2 -----------------------------
(***************************************************************************)
(* The client's shared HTTP/2 connection: `SharedHttp2Connection`, its     *)
(* `SharedState` and the `Reconnect` state machine behind the lock         *)
(* (connectrpc/src/client/http2.rs).                                       *)
(*                                                                         *)
(* Every request runs on a task of its own and may be dropped at any       *)
(* point; the attempt that (re)establishes the connection runs on another, *)
(* which owns the lock and is not dropped with the request that started    *)
(* it.  One action is one access to the shared state, so the loads of      *)
(* `attempts`, `sender` and the lock interleave as atomics do.             *)
(*                                                                         *)
(* hyper is external: a connection hands a request back unsent if it goes  *)
(* away before taking it off its queue, and a connection that starts to    *)
(* go away is not yet reported by is_closed().                             *)
(***************************************************************************)
EXTENDS Integers, Sequences, FiniteSets, SequencesExt

CONSTANTS
    Requests,   \* the requests made on any clone of the handle
    Tower,      \* those made with poll_ready and call; the others with send
    Bound,      \* the slots of the queue
    MaxResends  \* MAX_RESENDS

ASSUME SharedAssumption ==
    /\ IsFiniteSet(Requests) /\ Tower \subseteq Requests
    /\ Bound \in Nat \ {0} /\ MaxResends \in Nat

(* Connections; one that closed and that nothing refers to is used again.  *)
Conns == 1..(Cardinality(Requests) + 3)
None  == 0

VARIABLES
    line,       \* requests that want a slot, in arrival order: the first
                \*   Bound of them hold one (the semaphore is fair)
    sender,     \* SharedState.sender: the published handle's connection
    lock,       \* tasks that want SharedState.conn, in order: the first has it
    lastFailure,    \* SharedState.last_failure is Some
    state,      \* ReconnectState: "Idle", "Connecting" or "Connected" ...
    current,    \* ... to this connection
    deferred,   \* Reconnect.deferred_error is Some
    attempt,    \* the attempt task: "none", "poll", "bump", "publish"
    result,     \* what it publishes: a connection, or None for an error
    conn,       \* each connection: "open", "closing", "closed"
    pc,         \* where each request is
    me          \* its local variables

shared == <<line, sender, lock, lastFailure>>
recon  == <<state, current, deferred, attempt, result>>
vars   == <<shared, recon, conn, pc, me>>

(* A request's locals.  SharedState.attempts is only ever compared with    *)
(* the value a request loaded (`seen`, then `generation`), so it is kept   *)
(* as `moved`: attempts has changed since this request last loaded it.     *)
Fresh(r) ==
    [via     |-> IF r \in Tower THEN "poll" ELSE "send", \* reconnect()'s caller
     mine    |-> None,      \* the handle it sends on
     moved   |-> FALSE,
     resends |-> 0,
     failed  |-> FALSE,     \* SharedHttp2Connection.deferred_error
     wire    |-> 0,         \* history: times it was put on the wire
     during  |-> FALSE,     \* history: it called reconnect() during an attempt
     missed  |-> "none"]    \* history: since then, the last attempt failed,
                            \*   having begun "before" or "after" the call

Terminal == {"ok", "failed", "cancelled"}
Waiting  == {"seen", "enqueue", "lock", "await"}    \* inside reconnect()

HoldsSlot(r) == \E i \in 1..Len(line) : i <= Bound /\ line[i] = r

Live == sender # None /\ conn[sender] # "closed"    \* live_sender, is_connected

-----------------------------------------------------------------------------
(* Http2Connection::shared.  The connection it wraps may be up, may be     *)
(* dialling, may never have been used, or may owe its caller a deferred    *)
(* connect error.                                                          *)
Init ==
    /\ line = <<>> /\ lock = <<>> /\ lastFailure = FALSE
    /\ attempt = "none" /\ result = None
    /\ \/ /\ state \in {"Idle", "Connecting"} /\ current = None
          /\ deferred \in BOOLEAN /\ (deferred => state = "Idle")
          /\ sender = None /\ conn = [c \in Conns |-> "closed"]
       \/ /\ state = "Connected" /\ current = 1 /\ deferred = FALSE
          /\ sender = 1
          /\ conn = [c \in Conns |-> IF c = 1 THEN "open" ELSE "closed"]
    /\ pc = [r \in Requests |-> "new"]
    /\ me = [r \in Requests |-> Fresh(r)]

Goto(r, next) ==
    /\ pc' = [pc EXCEPT ![r] = next]
    /\ UNCHANGED me

(* The request is over.                                                    *)
Finish(r, how) ==
    /\ pc' = [pc EXCEPT ![r] = how]
    /\ me' = [me EXCEPT ![r] = Fresh(r)]

-----------------------------------------------------------------------------
(* Taking a slot, and the tower interface.                                 *)

Acquire(r) ==
    /\ pc[r] = "new"
    /\ line' = Append(line, r)
    /\ Goto(r, "slot")
    /\ UNCHANGED <<sender, lock, lastFailure, recon, conn>>

(* poll_ready with the slot: ready if connected, else wait for reconnect() *)
PollReady(r) ==
    /\ pc[r] = "slot" /\ HoldsSlot(r) /\ me[r].via = "poll"
    /\ Goto(r, IF Live THEN "ready" ELSE "seen")
    /\ UNCHANGED <<shared, recon, conn>>

(* call: return the deferred failure and the slot, or go on with send().   *)
Call(r) ==
    /\ pc[r] = "ready"
    /\ IF me[r].failed
       THEN line' = RemoveFirst(line, r) /\ Finish(r, "failed")
       ELSE /\ pc' = [pc EXCEPT ![r] = "slot"]
            /\ me' = [me EXCEPT ![r].via = "send"]
            /\ UNCHANGED line
    /\ UNCHANGED <<sender, lock, lastFailure, recon, conn>>

(* send: use the published handle, or reconnect().                         *)
LookUp(r) ==
    /\ pc[r] = "slot" /\ HoldsSlot(r) /\ me[r].via = "send"
    /\ IF Live
       THEN /\ pc' = [pc EXCEPT ![r] = "load"]
            /\ me' = [me EXCEPT ![r].mine = sender]
       ELSE Goto(r, "seen")
    /\ UNCHANGED <<shared, recon, conn>>

-----------------------------------------------------------------------------
(* reconnect().                                                            *)

LoadSeen(r) ==
    /\ pc[r] = "seen"
    /\ pc' = [pc EXCEPT ![r] = "enqueue"]
    /\ me' = [me EXCEPT ![r] = [me[r] EXCEPT !.moved = FALSE, !.missed = "none",
                                             !.during = (attempt # "none")]]
    /\ UNCHANGED <<shared, recon, conn>>

LockConn(r) ==
    /\ pc[r] = "enqueue"
    /\ lock' = Append(lock, r)
    /\ Goto(r, "lock")
    /\ UNCHANGED <<line, sender, lastFailure, recon, conn>>

HoldsLock(r) == pc[r] = "lock" /\ lock # <<>> /\ Head(lock) = r

(* reconnect() returns the handle of connection c to poll_ready or send.   *)
GetsHandle(r, c) ==
    LET poll == me[r].via = "poll"
    IN  /\ pc' = [pc EXCEPT ![r] = IF poll THEN "ready" ELSE "load"]
        /\ me' = [me EXCEPT ![r].mine = IF poll THEN None ELSE c]

(* It returns an error: poll_ready notes it for call() and is ready; send  *)
(* returns it and gives back the slot.                                     *)
DefersFailure(r) ==
    /\ pc' = [pc EXCEPT ![r] = "ready"]
    /\ me' = [me EXCEPT ![r].failed = TRUE]
    /\ UNCHANGED line

FailsWithSlot(r) ==     \* mutant
    IF me[r].via = "poll" THEN DefersFailure(r)
                          ELSE Finish(r, "failed") /\ UNCHANGED line
GetsFailure(r) ==
    IF me[r].via = "poll" THEN DefersFailure(r)
                          ELSE Finish(r, "failed") /\ line' = RemoveFirst(line, r)

(* With the lock: someone else reconnected meanwhile ...                   *)
FindReconnected(r) ==
    /\ HoldsLock(r) /\ Live
    /\ GetsHandle(r, sender)
    /\ lock' = Tail(lock)
    /\ UNCHANGED <<line, sender, lastFailure, recon, conn>>

(* ... or tried and failed: share that failure.                            *)
SharesAnyFailure(r) == lastFailure  \* mutant
SharesNoFailure(r)  == FALSE        \* mutant
SharesFailure(r) == me[r].moved /\ lastFailure

ShareFailure(r) ==
    /\ HoldsLock(r) /\ ~Live /\ SharesFailure(r)
    /\ GetsFailure(r)
    /\ lock' = Tail(lock)
    /\ UNCHANGED <<sender, lastFailure, recon, conn>>

(* Otherwise hand the lock to an attempt of its own and await it.          *)
StartFreshDial(r) ==    \* mutant
    /\ HoldsLock(r) /\ ~Live /\ ~SharesFailure(r)
    /\ sender' = None
    /\ attempt' = "poll" /\ state' = "Idle" /\ current' = None
    /\ Goto(r, "await")
    /\ UNCHANGED <<line, lock, lastFailure, deferred, result, conn>>

StartAttempt(r) ==
    /\ HoldsLock(r) /\ ~Live /\ ~SharesFailure(r)
    /\ sender' = None
    /\ attempt' = "poll"
    /\ Goto(r, "await")
    /\ UNCHANGED <<line, lock, lastFailure, state, current, deferred, result,
                   conn>>

-----------------------------------------------------------------------------
(* The attempt's task: Reconnect::poll_ready, then publish the outcome.    *)

AttemptHas(c) == attempt' = "bump" /\ result' = c

(* Idle: the connector is ready and a dial begins.                         *)
Dial ==
    /\ attempt = "poll" /\ ~deferred /\ state = "Idle"
    /\ state' = "Connecting"
    /\ UNCHANGED <<shared, current, deferred, attempt, result, conn, pc, me>>

(* There is a deferred error, or the connector or the dial fails (or times *)
(* out).  The attempt takes the error Reconnect would defer to call().     *)
DialFails ==
    /\ attempt = "poll"
    /\ deferred \/ state \in {"Idle", "Connecting"}
    /\ state' = IF deferred THEN state ELSE "Idle"
    /\ deferred' = FALSE
    /\ AttemptHas(None)
    /\ UNCHANGED <<shared, current, conn, pc, me>>

Unused == {c \in Conns : /\ conn[c] = "closed" /\ c # sender
                         /\ \A r \in Requests : me[r].mine # c}

DialSucceeds ==
    /\ attempt = "poll" /\ ~deferred /\ state = "Connecting"
    /\ \E c \in Unused :
         /\ \A d \in Unused : c <= d
         /\ conn' = [conn EXCEPT ![c] = "open"]
         /\ current' = c
    /\ state' = "Connected"
    /\ UNCHANGED <<shared, deferred, attempt, result, pc, me>>

(* Connected: the connection is still up, or has gone and Idle follows.    *)
PollConnected ==
    /\ attempt = "poll" /\ ~deferred /\ state = "Connected"
    /\ IF conn[current] # "closed"
       THEN AttemptHas(current) /\ UNCHANGED <<state, current>>
       ELSE state' = "Idle" /\ current' = None /\ UNCHANGED <<attempt, result>>
    /\ UNCHANGED <<shared, deferred, conn, pc, me>>

(* attempts.fetch_add(1)                                                   *)
Bump ==
    /\ attempt = "bump"
    /\ attempt' = "publish"
    /\ me' = [r \in Requests |->
                IF pc[r] \in {"enqueue", "lock", "await", "try", "hyper", "wire",
                              "unsent"}
                THEN [me[r] EXCEPT !.moved = TRUE] ELSE me[r]]
    /\ UNCHANGED <<shared, state, current, deferred, result, conn, pc>>

(* History: what the waiting requests have missed.                         *)
Missed(r) ==
    IF pc[r] \notin {"enqueue", "lock"} THEN me[r]
    ELSE [me[r] EXCEPT !.during = FALSE,
                       !.missed = IF result # None THEN "none"
                                  ELSE IF me[r].during THEN "before" ELSE "after"]

(* Record the failure or publish the handle; only then does the lock go,   *)
(* and the request that started the attempt, if still there, is answered.  *)
Publish ==
    /\ attempt = "publish"
    /\ attempt' = "none" /\ result' = None
    /\ lastFailure' = (result = None)
    /\ sender' = IF result = None THEN sender ELSE result
    /\ lock' = Tail(lock)
    /\ pc' = [r \in Requests |-> IF pc[r] = "await" THEN "joined" ELSE pc[r]]
    /\ me' = [r \in Requests |-> IF pc[r] = "await"
                                 THEN [me[r] EXCEPT !.mine = result]
                                 ELSE Missed(r)]
    /\ UNCHANGED <<line, state, current, deferred, conn>>

Attempt == Dial \/ DialFails \/ DialSucceeds \/ PollConnected \/ Bump \/ Publish

(* attempt.await returned.                                                 *)
Joined(r) ==
    /\ pc[r] = "joined"
    /\ IF me[r].mine = None THEN GetsFailure(r)
       ELSE GetsHandle(r, me[r].mine) /\ UNCHANGED line
    /\ UNCHANGED <<sender, lock, lastFailure, recon, conn>>

-----------------------------------------------------------------------------
(* send()'s loop.                                                          *)

LoadGeneration(r) ==
    /\ pc[r] = "load"
    /\ pc' = [pc EXCEPT ![r] = "try"]
    /\ me' = [me EXCEPT ![r].moved = FALSE]
    /\ UNCHANGED <<shared, recon, conn>>

(* try_send_request; the slot is given back either way.                    *)
TrySend(r) ==
    /\ pc[r] = "try"
    /\ line' = RemoveFirst(line, r)
    /\ Goto(r, IF conn[me[r].mine] = "open" THEN "hyper" ELSE "unsent")
    /\ UNCHANGED <<sender, lock, lastFailure, recon, conn>>

MayResend(r)         == me[r].resends < MaxResends

(* Handed back unsent: send it again, a bounded number of times, having    *)
(* retired the handle unless attempts says it has been replaced.           *)
Unsent(r) ==
    /\ pc[r] = "unsent"
    /\ IF MayResend(r)
       THEN /\ pc' = [pc EXCEPT ![r] = IF me[r].moved THEN "seen" ELSE "retire"]
            /\ me' = [me EXCEPT ![r] = [me[r] EXCEPT !.resends = @ + 1,
                                                     !.mine = None, !.moved = FALSE]]
       ELSE Finish(r, "failed")
    /\ UNCHANGED <<shared, recon, conn>>

RetireSender(r) ==
    /\ pc[r] = "retire"
    /\ sender' = None
    /\ Goto(r, "seen")
    /\ UNCHANGED <<line, lock, lastFailure, recon, conn>>

(* What a dropped request leaves of the lock's queue.                      *)
UnlockOnDrop(r)  == IF pc[r] = "lock" THEN RemoveFirst(lock, r) ELSE lock

(* The caller drops the request, at a deadline say: its slot and its place *)
(* in the lock's queue go with it, the attempt it started does not.        *)
Cancel(r) ==
    /\ pc[r] \notin Terminal \cup {"new"}
    /\ line' = RemoveFirst(line, r)
    /\ lock' = UnlockOnDrop(r)
    /\ Finish(r, "cancelled")
    /\ UNCHANGED <<sender, lastFailure, recon, conn>>

Step(r) ==
    \/ PollReady(r) \/ Call(r) \/ LookUp(r) \/ LoadSeen(r) \/ LockConn(r)
    \/ FindReconnected(r) \/ ShareFailure(r) \/ StartAttempt(r) \/ Joined(r)
    \/ LoadGeneration(r) \/ TrySend(r) \/ Unsent(r) \/ RetireSender(r)

-----------------------------------------------------------------------------
(* hyper's connection task and the peer.                                   *)

HyperTakes(r) ==
    /\ pc[r] = "hyper" /\ conn[me[r].mine] = "open"
    /\ pc' = [pc EXCEPT ![r] = "wire"]
    /\ me' = [me EXCEPT ![r].wire = @ + 1]
    /\ UNCHANGED <<shared, recon, conn>>

HyperHandsBack(r) ==
    /\ pc[r] = "hyper" /\ conn[me[r].mine] # "open"
    /\ Goto(r, "unsent")
    /\ UNCHANGED <<shared, recon, conn>>

(* The response head arrives, or the request fails on the wire: then hyper *)
(* returns no message and the error is the caller's.                       *)
RespondOrResend(r) ==   \* mutant
    /\ pc[r] = "wire"
    /\ \/ conn[me[r].mine] # "closed" /\ Finish(r, "ok")
       \/ Goto(r, "unsent")
    /\ UNCHANGED <<shared, recon, conn>>

Respond(r) ==
    /\ pc[r] = "wire"
    /\ \/ conn[me[r].mine] # "closed" /\ Finish(r, "ok")
       \/ Finish(r, "failed")
    /\ UNCHANGED <<shared, recon, conn>>

Hyper(r) == HyperTakes(r) \/ HyperHandsBack(r) \/ Respond(r)

ConnCloses(c) ==
    /\ \/ conn[c] = "open"    /\ conn' = [conn EXCEPT ![c] = "closing"]
       \/ conn[c] = "closing" /\ conn' = [conn EXCEPT ![c] = "closed"]
    /\ UNCHANGED <<shared, recon, pc, me>>

(* Every request has its answer.                                           *)
Settled == /\ \A r \in Requests : pc[r] \in Terminal
           /\ attempt = "none"
           /\ UNCHANGED vars

Next ==
    \/ \E r \in Requests : Acquire(r) \/ Step(r) \/ Cancel(r) \/ Hyper(r)
    \/ Attempt \/ Settled
    \/ \E c \in Conns : ConnCloses(c)

Spec == Init /\ [][Next]_vars

(* Tasks run, a dial ends (it is under establishment_timeout), the peer    *)
(* answers or the connection dies, and a handle polled ready is called.    *)
Fairness == WF_vars(Attempt)
            /\ \A r \in Requests : WF_vars(Step(r)) /\ WF_vars(Hyper(r))

(* Reconnect::poll_ready loops back to dialling if the connection is gone  *)
(* by the time it is polled; not every new connection dies that young.     *)
ConnectionsSurvive == SF_vars(PollConnected /\ attempt' = "bump")

FairSpec == Spec /\ Fairness /\ ConnectionsSurvive

-----------------------------------------------------------------------------
TypeOK ==
    /\ line \in Seq(Requests) /\ lock \in Seq(Requests)
    /\ sender \in Conns \cup {None} /\ current \in Conns \cup {None}
    /\ result \in Conns \cup {None}
    /\ lastFailure \in BOOLEAN /\ deferred \in BOOLEAN
    /\ state \in {"Idle", "Connecting", "Connected"}
    /\ attempt \in {"none", "poll", "bump", "publish"}
    /\ conn \in [Conns -> {"open", "closing", "closed"}]
    /\ pc \in [Requests -> Terminal \cup Waiting \cup
                 {"new", "slot", "ready", "joined", "load", "try", "hyper",
                  "wire", "unsent", "retire"}]
    /\ me \in [Requests -> [via : {"poll", "send"}, mine : Conns \cup {None},
                            moved : BOOLEAN, resends : 0..MaxResends,
                            failed : BOOLEAN, wire : Nat, during : BOOLEAN,
                            missed : {"none", "before", "after"}]]

(* All clones use one connection: a dial never leaves two open, also when  *)
(* a stale `generation` made a request retire a handle that is still live. *)
OneOpenConnection == Cardinality({c \in Conns : conn[c] = "open"}) <= 1

(* A slot is never lost: what holds one is a request that still waits to   *)
(* be handed to the connection, not one that failed or was dropped.        *)
SlotsHeldByWaiting ==
    \A i \in 1..Len(line) :
      pc[line[i]] \in Waiting \cup {"slot", "ready", "joined", "load", "try"}

Dials(r)  == pc[r] = "lock" /\ pc'[r] = "await"
Shares(r) == pc[r] = "lock" /\ (pc'[r] = "failed" \/ me'[r].failed)

(* A failure is only shared with a request that called reconnect() before  *)
(* that failure was published: an old outage never fails a new request.    *)
FailureIsFresh == [][\A r \in Requests : Shares(r) => me[r].missed # "none"]_vars

(* A request that waited through a whole attempt that failed does not dial *)
(* again: a burst of requests during an outage does not dial once each.    *)
WaitersShareFailure ==
    [][\A r \in Requests : Dials(r) => me[r].missed # "after"]_vars

(* A request that was put on the wire is never sent again.                 *)
SentAtMostOnce ==
    \A r \in Requests : /\ me[r].wire <= 1
                        /\ me[r].wire = 1 => pc[r] = "wire"

(* "A semaphore bounds how many requests may wait for that at once": at    *)
(* most Bound requests wait for the connection.                            *)
WaitersBounded == Cardinality({r \in Requests : pc[r] \in Waiting}) <= Bound

(* Every request is answered: no request waits for a slot, the lock or an  *)
(* attempt for ever, whatever others are dropped meanwhile.                *)
EveryRequestAnswered ==
    \A r \in Requests : pc[r] = "slot" ~> pc[r] \in Terminal
=============================================================================
