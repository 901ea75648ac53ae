------------------------ MODULE ConnectionLifecycle ------------------------
(***************************************************************************)
(* One served connection: the future `ConnectionLifecycle` of              *)
(* connectrpc/src/server.rs, the per-request accounting its `service_fn`   *)
(* keeps (`ConnectionActivity`, `RequestCounter`) and the pre-protocol     *)
(* read deadline (`DetectionTimeout`).                                     *)
(*                                                                         *)
(* `poll` runs on the connection's task.  It is a loop that polls several  *)
(* futures in a fixed order; every one of those polls is an action here,   *)
(* `pc` says which comes next, and the rest of the world (the peer, the    *)
(* handlers, hyper's per-stream tasks, the accept loop, the clock) may     *)
(* move between two of them.  A future that is not ready keeps the task's  *)
(* waker (`armed`); the task is polled again only if such a future wakes   *)
(* it (`woken`), so a wake-up that is lost shows as a connection that      *)
(* never ends.                                                             *)
(*                                                                         *)
(* Timers count down to 0, so no bound on time is needed.  An optional     *)
(* setting is 0 when absent: the setters reject a zero age, idle time and  *)
(* request count, and turn a zero header-read timeout into None.           *)
(***************************************************************************)
EXTENDS Integers, FiniteSets

CONSTANTS
    Requests,       \* the requests the peer may send on this connection
    Protocols,      \* the protocols the peer may speak: "http1", "http2"
    MaxAge,         \* max_connection_age, before jitter
    MaxIdle,        \* max_connection_idle
    MaxRequests,    \* max_requests_per_connection
    Grace,          \* max_connection_age_grace
    HeaderTimeout,  \* header_read_timeout
    Samples,        \* the random samples the age jitter may draw ...
    SampleMax,      \* ... from 0..SampleMax (u64::MAX in the code)
    Prompt          \* TRUE: runnable tasks run before the clock advances

ASSUME ConfigAssumption ==
    /\ IsFiniteSet(Requests)
    /\ Protocols \subseteq {"http1", "http2"} /\ Prompt \in BOOLEAN
    /\ MaxAge \in Nat /\ MaxIdle \in Nat /\ MaxRequests \in Nat
    /\ Grace \in Nat /\ HeaderTimeout \in Nat
    /\ SampleMax \in Nat \ {0} /\ Samples # {} /\ Samples \subseteq 0..SampleMax

VARIABLES
    state,      \* ConnectionLifecycleState, or "Done" once poll returned Ready
    reason,     \* its CloseReason: the wind-down's, then the one reported
    error,      \* ConnectionClosed.error: "none" or what hyper failed with
    pc,         \* the future poll() polls next; "parked" between polls
    woken,      \* the task is scheduled to be polled again
    armed,      \* the futures that hold the task's waker
    ageLeft, idleLeft, graceLeft, detectLeft,   \* the Sleeps
    inFlight, epoch,    \* ConnectionActivity
    armedEpoch,         \* IdleTracker.armed_epoch
    loaded,             \* in_flight as snapshot() loaded it, before epoch
    served, retire,     \* RequestCounter and its watch value
    shutdown,           \* the accept loop's watch value
    hello,      \* the protocol the peer's first bytes picked, or "none" ...
    picked,     \* ... and the connection has read it
    graceful,   \* graceful_shutdown() was called on hyper's connection
    fault,      \* what ended the socket, if anything has
    req,        \* where each request stands
    quiet,      \* history: ticks since a request last started or completed
    heard       \* history: shutdown had fired when this poll began

lifecycle == <<state, reason, error>>
task      == <<pc, woken, armed>>
timers    == <<ageLeft, idleLeft, graceLeft, detectLeft>>
activity  == <<inFlight, epoch, armedEpoch, loaded, quiet>>
counter   == <<served, retire>>
conn      == <<hello, picked, graceful, fault, req>>
vars == <<lifecycle, task, timers, activity, counter, shutdown, conn, heard>>

Retirements == {"MaxAge", "Idle", "MaxRequests"}
WindDowns   == Retirements \cup {"Shutdown"}
Reasons     == WindDowns \cup {"Closed", "Error", "HeaderReadTimeout"}
Sources     == {"conn", "global_shutdown", "age", "idle", "requests", "grace"}
ReqStates   == {"unsent", "arrived", "active", "ready", "dropping", "done",
                "refused", "aborted"}

QuietCap == 2 * MaxIdle + 2     \* `quiet` saturates here

-----------------------------------------------------------------------------
(* jitter_connection_age: +-10%, rounded towards the unjittered age.       *)

Floor(a, b)   == a \div b
Ceiling(a, b) == (a + b - 1) \div b

JitterBasisPoints(sample) == 9000 + Floor(sample * 2000, SampleMax)

JitterAge(age, sample) ==
    IF JitterBasisPoints(sample) < 10000
    THEN Ceiling(age * JitterBasisPoints(sample), 10000)
    ELSE Floor(age * JitterBasisPoints(sample), 10000)

-----------------------------------------------------------------------------
Init ==
    /\ state = "Serving" /\ reason = "none" /\ error = "none"
    /\ pc = "parked" /\ woken = TRUE /\ armed = {}
    /\ ageLeft \in {JitterAge(MaxAge, s) : s \in Samples}
    /\ idleLeft = MaxIdle /\ graceLeft = 0 /\ detectLeft = HeaderTimeout
    /\ inFlight = 0 /\ epoch = 0 /\ armedEpoch = 0 /\ loaded = 0
    /\ served = 0 /\ retire = FALSE
    /\ shutdown \in BOOLEAN
    /\ hello = "none" /\ picked = FALSE /\ graceful = FALSE /\ fault = "none"
    /\ req = [r \in Requests |-> "unsent"]
    /\ quiet = 0 /\ heard = FALSE

In(st) == {r \in Requests : req[r] = st}

-----------------------------------------------------------------------------
(* hyper's connection future, as `poll` uses it.                           *)

(* HTTP/2 multiplexes: each response is driven by a task of its own.       *)
Http2 == hello = "http2"

(* Whether it has a protocol, once it has read what there is to read.  It  *)
(* reads nothing more if it was told to wind down first.                   *)
Picked == picked \/ (hello # "none" /\ ~graceful)

(* What it fails with.  hyper-util gives up with "cancelled" when it is    *)
(* told to wind down before a protocol is picked; DetectionTimeout fails   *)
(* the read with "timeout" when no byte is there and its deadline passed.  *)
ConnError ==
    CASE ~Picked /\ graceful                                    -> "cancelled"
      [] (Picked \/ ~graceful) /\ fault \in {"io", "timeout"}   -> fault
      [] fault = "none" /\ ~Picked /\ ~graceful
           /\ HeaderTimeout # 0 /\ detectLeft = 0               -> "timeout"
      [] OTHER                                                  -> "none"

(* It ends cleanly when the peer closed, or once it has been told to wind  *)
(* down and no request is being served.                                    *)
ConnEnds == fault = "eof" \/ (Picked /\ graceful /\ In("active") = {})

(* The requests it may hand to the service in one poll.  HTTP/1.1 serves   *)
(* one at a time.  After GOAWAY a request that raced it may be taken or    *)
(* turned away; before, every one that has arrived is taken.               *)
Dispatchable(D) ==
    /\ D \subseteq In("arrived")
    /\ Picked \/ D = {}
    /\ ~Http2 => /\ Cardinality(D) <= 1
                 /\ D # {} => In("active") = {}
    /\ Picked /\ ~graceful =>
         IF Http2 THEN D = In("arrived")
                  ELSE In("active") = {} /\ In("arrived") # {} => D # {}

(* Returned responses whose body the connection's own task drops: only     *)
(* HTTP/1.1 drives the response from the connection's task.                *)
DroppedByConn == IF Http2 THEN {} ELSE In("ready")

LimitPassed(n)  == n > MaxRequests      \* mutant
LimitReached(n) == n >= MaxRequests

(* What poll() polls after the connection.                                 *)
GraceInGlobalDraining ==                \* mutant
    IF state = "GlobalDraining" THEN "grace" ELSE "global_shutdown"
GraceBeforeShutdown ==                  \* mutant
    CASE state = "Serving" -> "global_shutdown" [] state = "Draining" -> "grace"
      [] OTHER -> "parked"
AfterConnPoll == IF state = "GlobalDraining" THEN "parked" ELSE "global_shutdown"

Wake(src) ==
    /\ woken' = (woken \/ src \in armed)
    /\ armed' = armed \ {src}

(* The future resolved: the connection is dropped with what it still held. *)
Close(why, err) ==
    /\ state' = "Done" /\ reason' = why /\ error' = err
    /\ pc' = "parked" /\ woken' = FALSE /\ armed' = {}
    /\ req' = [r \in Requests |->
                 CASE req[r] = "active"                -> "aborted"
                   [] req[r] \in {"ready", "dropping"} -> "done"
                   [] req[r] = "arrived"               -> "refused"
                   [] OTHER                            -> req[r]]

(* log_connection_result: what ConnectionClosed reports.                   *)
LogEveryError(err, why) == Close(why, err)      \* mutant
LogConnectionResult(err, why) ==
    LET kept == err # "none" /\ (why = "Error" \/ err # "cancelled")
    IN  Close(IF kept /\ why = "Error" /\ err = "timeout"
                THEN "HeaderReadTimeout" ELSE why,
              IF kept THEN err ELSE "none")

-----------------------------------------------------------------------------
(* ConnectionLifecycle::poll, one action per future polled.                *)

BeginPoll ==
    /\ pc = "parked" /\ woken /\ state # "Done"
    /\ pc' = "conn" /\ woken' = FALSE
    /\ heard' = shutdown
    /\ UNCHANGED <<lifecycle, armed, timers, activity, counter, shutdown,
                   conn>>

PollConnReady ==
    /\ pc = "conn"
    /\ ConnError # "none" \/ ConnEnds
    /\ LogConnectionResult(ConnError,
           IF state # "Serving" THEN reason
           ELSE IF ConnError = "none" THEN "Closed" ELSE "Error")
    /\ UNCHANGED <<timers, activity, counter, shutdown, hello, picked,
                   graceful, fault, heard>>

(* Pending: hyper has called the service for every request in D.  The      *)
(* service counts it (RequestCounter::record_request) and marks it in      *)
(* flight (ActiveRequestGuard::new) before its future is first polled.     *)
(* Both happen in the service_fn closure, which hyper calls from within    *)
(* conn.poll on the connection's own task, over HTTP/2 too: only the       *)
(* future it returns goes to a stream's task.  The snapshot is taken later *)
(* in a poll of the same task, so request_started's two increments never   *)
(* fall between its loads, nor its loads between them, and one step stands *)
(* for both.  (The comment on snapshot() says that they may.)  What does   *)
(* run on another task is request_finished: FinishInFlight, FinishEpoch.   *)
PollConnPending ==
    /\ pc = "conn"
    /\ ConnError = "none" /\ fault = "none"
    /\ \E D \in SUBSET In("arrived") :
         /\ Dispatchable(D)
         /\ Picked /\ graceful => In("active") \cup D # {}
         /\ LET F    == DroppedByConn
                done == Cardinality(F)
                new  == Cardinality(D)
            IN  /\ req' = [r \in Requests |-> IF r \in D THEN "active"
                                              ELSE IF r \in F THEN "done"
                                              ELSE req[r]]
                /\ IF MaxIdle = 0 THEN UNCHANGED <<inFlight, epoch>>
                   ELSE /\ inFlight' = inFlight + new - done
                        /\ epoch' = epoch + new + done
                /\ IF MaxRequests = 0 THEN UNCHANGED counter
                   ELSE /\ served' = served + new
                        /\ retire' = (retire \/ (D # {} /\ LimitReached(served')))
                /\ quiet' = IF D \cup F = {} THEN quiet ELSE 0
         /\ woken' = (woken \/ (retire' /\ ~retire /\ "requests" \in armed))
         /\ armed' = (IF retire' /\ ~retire THEN armed \ {"requests"} ELSE armed)
                       \cup {"conn"}
    /\ picked' = Picked
    /\ pc' = AfterConnPoll
    /\ UNCHANGED <<lifecycle, timers, armedEpoch, loaded, shutdown, hello,
                   graceful, fault, heard>>

(* Enter Draining for `why`: graceful_shutdown(), arm the grace sleep.     *)
EnterDraining(why, grace, next) ==
    /\ graceful' = TRUE
    /\ state' = "Draining" /\ reason' = why /\ graceLeft' = grace
    /\ pc' = next
    /\ UNCHANGED <<error, woken, armed, ageLeft, idleLeft, detectLeft,
                   activity, counter, shutdown, hello, picked, fault, req,
                   heard>>

RetireAndReturn(why)    == EnterDraining(why, Grace, "parked")      \* mutant

(* ... and `continue`, so that the new state's futures are polled at once. *)
Retire(why) == EnterDraining(why, Grace, "conn")

(* The future `src` is pending: it keeps the waker and poll goes on.       *)
Pending(src, next) ==
    /\ armed' = armed \cup {src}
    /\ pc' = next
    /\ UNCHANGED <<lifecycle, woken, timers, activity, counter, shutdown,
                   conn, heard>>

Skip(next) ==
    /\ pc' = next
    /\ UNCHANGED <<lifecycle, woken, armed, timers, activity, counter,
                   shutdown, conn, heard>>

AfterShutdownNoGrace == IF state = "Serving" THEN "age" ELSE "parked"    \* mutant
AfterShutdownPoll == IF state = "Serving" THEN "age" ELSE "grace"

(* The shutdown signal drains a serving connection; a retirement under way *)
(* goes on draining, for its own reason.                                   *)
DrainForShutdown == reason' = "Shutdown" /\ graceful' = TRUE           \* mutant
DrainUntold ==                                                          \* mutant
    /\ reason' = IF state = "Serving" THEN "Shutdown" ELSE reason
    /\ UNCHANGED graceful
ObeyShutdown ==
    IF state = "Serving" THEN reason' = "Shutdown" /\ graceful' = TRUE
                         ELSE UNCHANGED <<reason, graceful>>

PollShutdown ==
    /\ pc = "global_shutdown"
    /\ IF shutdown
       THEN /\ state' = "GlobalDraining"
            /\ ObeyShutdown
            /\ pc' = "conn"
            /\ UNCHANGED <<error, woken, armed, timers, activity, counter,
                           shutdown, hello, picked, fault, req, heard>>
       ELSE Pending("global_shutdown", AfterShutdownPoll)

PollAge ==
    /\ pc = "age"
    /\ CASE MaxAge = 0                 -> Skip("idle")
         [] MaxAge # 0 /\ ageLeft = 0  -> Retire("MaxAge")
         [] OTHER                      -> Pending("age", "idle")

(* The idle timer, and the first of snapshot()'s two loads.                *)
PollIdle ==
    /\ pc = "idle"
    /\ CASE MaxIdle = 0                  -> Skip("requests")
         [] MaxIdle # 0 /\ idleLeft # 0  -> Pending("idle", "requests")
         [] OTHER ->
              /\ loaded' = inFlight
              /\ pc' = "snapshot"
              /\ UNCHANGED <<lifecycle, woken, armed, timers, inFlight,
                             epoch, armedEpoch, quiet, counter, shutdown,
                             conn, heard>>

IdleIgnoresInFlight == epoch = armedEpoch       \* mutant
IdleIgnoresEpoch    == loaded = 0               \* mutant
IdleThroughout      == loaded = 0 /\ epoch = armedEpoch

RearmStale == idleLeft' = MaxIdle /\ UNCHANGED armedEpoch      \* mutant
Rearm      == idleLeft' = MaxIdle /\ armedEpoch' = epoch

(* The second load, and the decision: retire, or re-arm the window.        *)
SnapshotEpoch ==
    /\ pc = "snapshot"
    /\ IF IdleThroughout
       THEN Retire("Idle")
       ELSE /\ Rearm
            /\ pc' = "conn"
            /\ UNCHANGED <<lifecycle, woken, armed, ageLeft, graceLeft,
                           detectLeft, inFlight, epoch, loaded, quiet,
                           counter, shutdown, conn, heard>>

PollRequests ==
    /\ pc = "requests"
    /\ CASE MaxRequests = 0             -> Skip("parked")
         [] MaxRequests # 0 /\ retire   -> Retire("MaxRequests")
         [] OTHER                       -> Pending("requests", "parked")

(* Draining only: the grace sleep.  When it has elapsed the connection is  *)
(* closed with whatever it was still serving.                              *)
PollGrace ==
    /\ pc = "grace"
    /\ IF graceLeft = 0
       THEN /\ Close(reason, "none")
            /\ UNCHANGED <<timers, activity, counter, shutdown, hello,
                           picked, graceful, fault, heard>>
       ELSE Pending("grace", "parked")

Poll == \/ BeginPoll \/ PollConnReady \/ PollConnPending \/ PollShutdown
        \/ PollAge \/ PollIdle \/ SnapshotEpoch \/ PollRequests \/ PollGrace

-----------------------------------------------------------------------------
(* The world around the task.                                              *)

(* The accept loop sends `true`, or goes away and drops the sender.        *)
FireShutdown ==
    /\ state # "Done" /\ ~shutdown
    /\ shutdown' = TRUE
    /\ Wake("global_shutdown")
    /\ UNCHANGED <<lifecycle, pc, timers, activity, counter, conn, heard>>

PeerPicksProtocol ==
    /\ state # "Done" /\ hello = "none" /\ fault = "none"
    /\ hello' \in Protocols
    /\ Wake("conn")
    /\ UNCHANGED <<lifecycle, pc, timers, activity, counter, shutdown,
                   picked, graceful, fault, req, heard>>

PeerSends(r) ==
    /\ state # "Done" /\ hello # "none" /\ fault = "none" /\ req[r] = "unsent"
    /\ req' = [req EXCEPT ![r] = "arrived"]
    /\ Wake("conn")
    /\ UNCHANGED <<lifecycle, pc, timers, activity, counter, shutdown, hello,
                   picked, graceful, fault, heard>>

(* The peer closes, the socket fails, or hyper's own header-read timeout   *)
(* (HTTP/1.1, between requests) expires.                                   *)
ConnFault(kind) ==
    /\ state # "Done" /\ fault = "none"
    /\ kind = "timeout" => /\ HeaderTimeout # 0 /\ picked /\ ~Http2
                           /\ In("active") \cup In("ready") = {}
    /\ fault' = kind
    /\ Wake("conn")
    /\ UNCHANGED <<lifecycle, pc, timers, activity, counter, shutdown, hello,
                   picked, graceful, req, heard>>

(* The handler's response has been written to its last byte.               *)
HandlerDone(r) ==
    /\ state # "Done" /\ req[r] = "active"
    /\ req' = [req EXCEPT ![r] = "ready"]
    /\ Wake("conn")
    /\ UNCHANGED <<lifecycle, pc, timers, activity, counter, shutdown, hello,
                   picked, graceful, fault, heard>>

(* HTTP/2: the stream's task drops the response body, and with it the      *)
(* ActiveRequestGuard: request_finished() is two atomic operations.        *)
FinishInFlight(r) ==
    /\ state # "Done" /\ Http2 /\ req[r] = "ready"
    /\ req' = [req EXCEPT ![r] = "dropping"]
    /\ inFlight' = IF MaxIdle = 0 THEN inFlight ELSE inFlight - 1
    /\ quiet' = 0
    /\ UNCHANGED <<lifecycle, task, timers, epoch, armedEpoch, loaded,
                   counter, shutdown, hello, picked, graceful, fault, heard>>

FinishEpoch(r) ==
    /\ state # "Done" /\ Http2 /\ req[r] = "dropping"
    /\ req' = [req EXCEPT ![r] = "done"]
    /\ epoch' = IF MaxIdle = 0 THEN epoch ELSE epoch + 1
    /\ UNCHANGED <<lifecycle, task, timers, inFlight, armedEpoch, loaded,
                   quiet, counter, shutdown, hello, picked, graceful, fault,
                   heard>>

Dec(n) == IF n = 0 THEN 0 ELSE n - 1

(* The futures a tick makes ready.                                         *)
Expiring ==
    {s \in Sources : \/ s = "age"   /\ ageLeft = 1
                     \/ s = "idle"  /\ idleLeft = 1
                     \/ s = "grace" /\ graceLeft = 1
                     \/ s = "conn"  /\ ~Picked /\ detectLeft = 1}

Tick ==
    /\ state # "Done"
    /\ Prompt => /\ pc = "parked" /\ ~woken
                 /\ In("ready") \cup In("dropping") = {}
    /\ ageLeft' = Dec(ageLeft) /\ idleLeft' = Dec(idleLeft)
    /\ graceLeft' = Dec(graceLeft) /\ detectLeft' = Dec(detectLeft)
    /\ woken' = (woken \/ armed \cap Expiring # {})
    /\ armed' = armed \ Expiring
    /\ quiet' = IF MaxIdle = 0 \/ quiet = QuietCap THEN quiet ELSE quiet + 1
    /\ UNCHANGED <<lifecycle, pc, inFlight, epoch, armedEpoch, loaded,
                   counter, shutdown, conn, heard>>

(* The future has returned Ready and is not polled again.                  *)
Finished == state = "Done" /\ UNCHANGED vars

StreamTask(r) == FinishInFlight(r) \/ FinishEpoch(r)

Next ==
    \/ Poll
    \/ FireShutdown \/ PeerPicksProtocol \/ Tick \/ Finished
    \/ \E kind \in {"eof", "io", "timeout"} : ConnFault(kind)
    \/ \E r \in Requests : PeerSends(r) \/ HandlerDone(r) \/ StreamTask(r)

Spec == Init /\ [][Next]_vars

(* The executor polls a woken task, hyper's stream tasks run and the clock *)
(* advances.  Handlers are user code: that they return is assumed only     *)
(* where a property says so.                                               *)
Fairness == /\ WF_vars(Poll) /\ WF_vars(Tick)
            /\ \A r \in Requests : WF_vars(StreamTask(r))

HandlersReturn == \A r \in Requests : WF_vars(HandlerDone(r))

FairSpec == Spec /\ Fairness

-----------------------------------------------------------------------------
TypeOK ==
    /\ state \in {"Serving", "GlobalDraining", "Draining", "Done"}
    /\ reason \in Reasons \cup {"none"}
    /\ error \in {"none", "io", "timeout", "cancelled"}
    /\ pc \in {"parked", "conn", "global_shutdown", "age", "idle", "snapshot",
               "requests", "grace"}
    /\ woken \in BOOLEAN /\ armed \subseteq Sources
    /\ ageLeft \in Nat /\ idleLeft \in Nat /\ graceLeft \in Nat
    /\ detectLeft \in Nat
    /\ inFlight \in Int /\ epoch \in Nat /\ armedEpoch \in Nat /\ loaded \in Int
    /\ served \in Nat /\ retire \in BOOLEAN /\ shutdown \in BOOLEAN
    /\ hello \in Protocols \cup {"none"} /\ picked \in BOOLEAN /\ graceful \in BOOLEAN
    /\ fault \in {"none", "eof", "io", "timeout"}
    /\ req \in [Requests -> ReqStates]
    /\ quiet \in Nat /\ heard \in BOOLEAN

(* The futures each lifecycle state waits for, and when they are ready.    *)
Awaited ==
    CASE state = "Serving" ->
           {"conn", "global_shutdown"}
             \cup (IF MaxAge # 0 THEN {"age"} ELSE {})
             \cup (IF MaxIdle # 0 THEN {"idle"} ELSE {})
             \cup (IF MaxRequests # 0 THEN {"requests"} ELSE {})
      [] state = "Draining"       -> {"conn", "global_shutdown", "grace"}
      [] state = "GlobalDraining" -> {"conn"}
      [] OTHER                    -> {}

ConnReady ==
    \/ ConnError # "none" \/ ConnEnds
    \/ In("arrived") # {} /\ Picked /\ ~graceful /\ (Http2 \/ In("active") = {})
    \/ DroppedByConn # {}

IsReady(src) ==
    \/ src = "conn"            /\ ConnReady
    \/ src = "global_shutdown" /\ shutdown
    \/ src = "age"             /\ ageLeft = 0
    \/ src = "idle"            /\ idleLeft = 0
    \/ src = "requests"        /\ retire
    \/ src = "grace"           /\ graceLeft = 0

(* poll() never returns Pending leaving something it should act on to be   *)
(* noticed by nobody: a connection that sleeps without a pending wake-up   *)
(* awaits no future that is ready.  (Every state change `continue`s, so    *)
(* the new state's futures get the waker before poll returns.)             *)
NoLostWakeup ==
    pc = "parked" /\ ~woken => \A src \in Awaited : ~IsReady(src)

Reaped == reason' = "Idle" /\ reason # "Idle"

(* Idle reaping never retires a connection that is serving a request,      *)
(* though snapshot() reads its two counters separately and streams end on  *)
(* tasks of their own.  The comment on snapshot() allows a reap "while a   *)
(* request is actually landing"; the code is better than that, because a   *)
(* request lands in a poll of the connection (see PollConnPending).        *)
ReapOnlyWhenQuiet == [][Reaped => In("active") = {}]_vars

(* with_max_connection_idle: a connection is retired only after a full     *)
(* idle window in which no request started or completed.                   *)
ReapAfterFullWindow == [][Reaped => quiet >= MaxIdle]_vars

(* The same of a connection whose own task does the accounting: one that   *)
(* speaks HTTP/1.1, or has picked no protocol yet.                         *)
ReapAfterFullWindowHttp1 == [][Reaped /\ ~Http2 => quiet >= MaxIdle]_vars

(* ... and no later than two windows after its last activity, if the       *)
(* executor keeps up with the clock.                                       *)
ReapWithinTwoWindows ==
    (Prompt /\ MaxIdle # 0 /\ state = "Serving"
       /\ In("arrived") \cup In("active") \cup In("ready") \cup In("dropping") = {})
    => quiet <= 2 * MaxIdle

(* CloseReason: "When a shutdown signal or retirement trigger tells a      *)
(* connection to wind down, that reason is final", through a later         *)
(* shutdown, a failed drain and the end of the grace period.               *)
WindDownReasonFinal == [][(reason \in WindDowns) => reason' = reason]_vars

(* A retirement's grace period never cuts short a shutdown drain: once the *)
(* shutdown signal had fired when a poll began, that poll aborts a request *)
(* only because the connection itself ended.                               *)
GraceNeverCapsShutdown ==
    [][\A r \in Requests :
         req[r] = "active" /\ req'[r] = "aborted" /\ heard => fault # "none"]_vars

(* ConnectionClosed::error: a wound-down connection reports an error only  *)
(* if its drain failed, so one cancelled before it picked a protocol and   *)
(* one closed by its grace period report none; a connection that ended by  *)
(* itself reports the error that its reason promises.                      *)
ErrorTellsFailedDrain ==
    state = "Done" =>
      /\ reason \in WindDowns /\ error # "none" => fault \in {"io", "timeout"}
      /\ reason \in {"Error", "HeaderReadTimeout"} => error # "none"
      /\ reason = "Closed" => error = "none"

(* The poll loop implements what a connection promises its surroundings.   *)
Promise == INSTANCE ConnectionPromise WITH
    phase   <- CASE state = "Serving"        -> "open"
                 [] state = "Draining"       -> "retiring"
                 [] state = "GlobalDraining" -> "draining"
                 [] OTHER                    -> "closed",
    told    <- shutdown,
    gone    <- fault # "none",
    serving <- In("active")

PromiseSpec == Promise!Spec

(* Every configured trigger (the age of a connection, the requests it has  *)
(* served) is acted on, and a retired connection does not outlive its      *)
(* grace period for ever, unless shutdown lifts the deadline: both         *)
(* although its handlers may never return.  The request limit is exact: no *)
(* poll returns with the limit reached and the connection still serving,   *)
(* and none retires a connection for it before the last request it grants. *)
RetirementEnds ==
    /\ MaxAge # 0 => <>(state # "Serving")
    /\ [](MaxRequests # 0 /\ state = "Serving" /\ pc = "parked" => served < MaxRequests)
    /\ [](reason = "MaxRequests" => served >= MaxRequests)
    /\ state = "Draining" ~> state \in {"GlobalDraining", "Done"}

(* After the shutdown signal the connection ends, if its handlers return.  *)
ShutdownDrains == HandlersReturn => (shutdown ~> state = "Done")
=============================================================================
