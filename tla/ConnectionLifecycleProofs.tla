--------------------- MODULE ConnectionLifecycleProofs ---------------------
(***************************************************************************)
(* Theorems about ConnectionLifecycle, for every configuration: any set of *)
(* requests, any timeouts (0 = absent) and both protocols.                 *)
(***************************************************************************)
EXTENDS ConnectionLifecycle, FiniteSetTheorems, TLAPS

(* Which states of the future the program counter of poll() can be in.     *)
PcInv ==
    /\ state = "Done" => pc = "parked"
    /\ pc = "global_shutdown" => state \in {"Serving", "Draining"}
    /\ pc \in {"age", "idle", "snapshot", "requests"} => state = "Serving"
    /\ pc = "snapshot" => MaxIdle # 0
    /\ pc = "grace" => state = "Draining"
    /\ state = "Serving" => "grace" \notin armed

(* A future that holds the waker is not ready (its wake-up would have      *)
(* taken the waker) -- except the connection, which graceful_shutdown()    *)
(* can make ready without a wake-up: that is why poll() must `continue`.   *)
ArmedInv == \A src \in armed \ {"conn"} : ~IsReady(src)

(* The task is about to be polled again, or src will wake it.              *)
Covered(src) == woken \/ (src \in armed /\ ~IsReady(src))

(* Every future that this poll has been past in this state is covered.     *)
CoverInv ==
    /\ state # "Done" /\ pc # "conn" => Covered("conn")
    /\ state \in {"Serving", "Draining"} /\ pc \notin {"conn", "global_shutdown"}
         => Covered("global_shutdown")
    /\ state = "Serving" /\ MaxAge # 0
         /\ pc \in {"idle", "snapshot", "requests", "parked"} => Covered("age")
    /\ state = "Serving" /\ MaxIdle # 0 /\ pc \in {"requests", "parked"}
         => Covered("idle")
    /\ state = "Serving" /\ MaxRequests # 0 /\ pc = "parked"
         => Covered("requests")
    /\ state = "Draining" /\ pc = "parked" => Covered("grace")

WakeInv == PcInv /\ ArmedInv /\ CoverInv

(* A wind-down has left Serving, and Serving has no reason yet.            *)
ReasonInv == state = "Serving" => reason = "none"

(* A wind-down has a reason and hyper has been told of it; a request is    *)
(* served only once a protocol is picked; and the poll that is about to    *)
(* look at the grace period began before the shutdown signal.              *)
DrainInv ==
    /\ state \in {"Draining", "GlobalDraining"} => reason \in WindDowns /\ graceful
    /\ state = "Serving" => ~graceful
    /\ ~picked => In("active") = {}
    /\ heard => shutdown
    /\ pc = "grace" => ~heard

Flying == In("active") \cup In("ready")
Live   == In("arrived") \cup Flying \cup In("dropping")

(* What the idle tracker knows: in_flight counts the requests whose guard  *)
(* is alive, and the epoch has moved if one of those it saw in flight has  *)
(* completed since.                                                        *)
CountInv ==
    state = "Serving" /\ MaxIdle # 0 =>
      /\ inFlight = Cardinality(Flying)
      /\ armedEpoch <= epoch
      /\ idleLeft <= MaxIdle
      /\ pc = "snapshot" => idleLeft = 0
      /\ pc = "snapshot" /\ loaded = 0 => In("active") = {}
      /\ pc = "snapshot" /\ loaded # 0 /\ epoch = armedEpoch
           => Flying \cup In("dropping") # {}

(* A window in which the epoch stands still is a window of silence, if the *)
(* connection's own task does the accounting ...                           *)
SilenceInv ==
    state = "Serving" /\ MaxIdle # 0 /\ ~Http2 /\ epoch = armedEpoch
      => quiet + idleLeft >= MaxIdle

(* ... and a silent connection is in the window of its last activity, or   *)
(* in the one after it.                                                    *)
WindowInv ==
    Prompt /\ state = "Serving" /\ MaxIdle # 0 =>
      /\ In("dropping") # {} => quiet = 0
      /\ Live = {} => quiet + idleLeft <= IF epoch = armedEpoch THEN 2 * MaxIdle
                                                                ELSE MaxIdle

IdleInv == CountInv /\ SilenceInv /\ WindowInv

-----------------------------------------------------------------------------
(* Dividing durations and basis points stays in the naturals.              *)
LEMMA DivNat == \A a \in Nat, b \in Nat \ {0} : a \div b \in Nat
  BY SMT

(* The jittered age is a duration.                                         *)
LEMMA JitterNat ==
    ASSUME NEW age \in Nat, NEW s \in Samples
    PROVE  JitterAge(age, s) \in Nat
<1>1. s \in Nat /\ SampleMax \in Nat \ {0}
  BY ConfigAssumption, SMT
<1>2. s * 2000 \in Nat
  BY <1>1, SMT
<1>3. Floor(s * 2000, SampleMax) \in Nat
  BY <1>1, <1>2, DivNat DEF Floor
<1>4. JitterBasisPoints(s) \in Nat
  BY <1>3 DEF JitterBasisPoints
<1>5. age * JitterBasisPoints(s) \in Nat /\ age * JitterBasisPoints(s) + 10000 - 1 \in Nat
  BY <1>4, SMT
<1>6. Floor(age * JitterBasisPoints(s), 10000) \in Nat
  BY <1>5, DivNat DEF Floor
<1>7. Ceiling(age * JitterBasisPoints(s), 10000) \in Nat
  BY <1>5, DivNat DEF Ceiling
<1> QED
  BY <1>6, <1>7 DEF JitterAge

(* Any set of requests of the connection can be counted.                   *)
LEMMA CardinalityNat ==
    ASSUME NEW S \in SUBSET Requests
    PROVE  Cardinality(S) \in Nat
  BY ConfigAssumption, FS_Subset, FS_CardinalityType

(* The requests in a given state are requests.                             *)
LEMMA InType == \A st : In(st) \in SUBSET Requests
  BY DEF In

(* A fresh connection is well typed, whatever age its jitter draws.        *)
LEMMA TypeInit == Init => TypeOK
<1> SUFFICES ASSUME Init PROVE TypeOK
  OBVIOUS
<1>1. ageLeft \in Nat
  BY JitterNat, ConfigAssumption DEF Init
<1>2. /\ woken \in BOOLEAN /\ retire \in BOOLEAN /\ shutdown \in BOOLEAN
      /\ hello \in Protocols \cup {"none"} /\ picked \in BOOLEAN /\ graceful \in BOOLEAN
      /\ heard \in BOOLEAN
  BY Zenon DEF Init
<1>3. /\ idleLeft \in Nat /\ graceLeft \in Nat /\ detectLeft \in Nat
      /\ inFlight \in Int /\ epoch \in Nat /\ armedEpoch \in Nat
      /\ loaded \in Int /\ served \in Nat /\ quiet \in Nat
  BY ConfigAssumption DEF Init
<1>4. req \in [Requests -> ReqStates]
  BY DEF Init, ReqStates
<1> QED
  BY <1>1, <1>2, <1>3, <1>4 DEF Init, TypeOK

USE DEF lifecycle, task, timers, activity, counter, conn, vars,
        AfterConnPoll, LimitReached, EnterDraining, ObeyShutdown, IdleThroughout,
        Rearm, Picked, Http2

(* Ending the future sets its fields to well-typed values.                 *)
LEMMA CloseType ==
    ASSUME TypeOK, NEW why,
           NEW err \in {"none", "io", "timeout", "cancelled"}, Close(why, err)
    PROVE  /\ state' = "Done" /\ reason' = why /\ error' = err
           /\ pc' = "parked" /\ woken' = FALSE /\ armed' = {}
           /\ req' \in [Requests -> ReqStates]
  BY DEF Close, TypeOK, ReqStates

(* What the connection fails with is a known error.                        *)
LEMMA ConnErrorType ==
    ASSUME TypeOK
    PROVE  ConnError \in {"none", "io", "timeout", "cancelled"}
  BY DEF ConnError, TypeOK

(* PollConnPending is the one action with counting in it.                  *)
LEMMA PendingType ==
    ASSUME TypeOK, PollConnPending
    PROVE  /\ inFlight' \in Int /\ epoch' \in Nat /\ served' \in Nat
           /\ quiet' \in Nat /\ req' \in [Requests -> ReqStates]
           /\ retire' \in BOOLEAN /\ woken' \in BOOLEAN
           /\ armed' \in SUBSET Sources
           /\ pc' \in {"parked", "global_shutdown"}
<1>1. PICK D \in SUBSET In("arrived") :
        /\ req' = [r \in Requests |-> IF r \in D THEN "active"
                                      ELSE IF r \in DroppedByConn THEN "done"
                                      ELSE req[r]]
        /\ IF MaxIdle = 0 THEN UNCHANGED <<inFlight, epoch>>
           ELSE /\ inFlight' = inFlight + Cardinality(D) - Cardinality(DroppedByConn)
                /\ epoch' = epoch + Cardinality(D) + Cardinality(DroppedByConn)
        /\ IF MaxRequests = 0 THEN UNCHANGED counter
           ELSE /\ served' = served + Cardinality(D)
                /\ retire' = (retire \/ (D # {} /\ served' >= MaxRequests))
        /\ quiet' = IF D \cup DroppedByConn = {} THEN quiet ELSE 0
        /\ woken' = (woken \/ (retire' /\ ~retire /\ "requests" \in armed))
        /\ armed' = (IF retire' /\ ~retire THEN armed \ {"requests"} ELSE armed)
                       \cup {"conn"}
  BY DEF PollConnPending
<1>2. Cardinality(D) \in Nat /\ Cardinality(DroppedByConn) \in Nat
  BY CardinalityNat DEF In, DroppedByConn
<1>3. inFlight' \in Int /\ epoch' \in Nat
  BY <1>1, <1>2 DEF TypeOK
<1>4. served' \in Nat
  BY <1>1, <1>2 DEF TypeOK
<1>5. retire' \in BOOLEAN
  <2>1. CASE MaxRequests = 0
    BY <1>1, <2>1, Zenon DEF TypeOK
  <2>2. CASE MaxRequests # 0
    BY <1>1, <2>2, Zenon
  <2> QED
    BY <2>1, <2>2
<1>6. woken' \in BOOLEAN
  BY <1>1, Zenon
<1>7. armed' \in SUBSET Sources
  BY <1>1 DEF TypeOK, Sources
<1>8. quiet' \in Nat /\ req' \in [Requests -> ReqStates]
  BY <1>1 DEF TypeOK, ReqStates
<1> QED
  BY <1>3, <1>4, <1>5, <1>6, <1>7, <1>8 DEF PollConnPending

(* log_connection_result reports a CloseReason and a known error.          *)
LEMMA LogType ==
    ASSUME TypeOK, NEW err \in {"none", "io", "timeout", "cancelled"},
           NEW why \in Reasons \cup {"none"}, LogConnectionResult(err, why)
    PROVE  /\ state' = "Done" /\ reason' \in Reasons \cup {"none"}
           /\ error' \in {"none", "io", "timeout", "cancelled"}
           /\ pc' = "parked" /\ woken' = FALSE /\ armed' = {}
           /\ req' \in [Requests -> ReqStates]
  BY DEF LogConnectionResult, Close, TypeOK, ReqStates, Reasons

PollSteps == {"parked", "conn", "global_shutdown", "age", "idle", "snapshot",
              "requests", "grace"}

(* Each of the pieces poll() is made of keeps the types: retiring ...      *)
LEMMA RetireType ==
    ASSUME TypeOK, NEW why \in Retirements, Retire(why)
    PROVE  TypeOK'
<1>1. graceful' \in BOOLEAN
  BY DEF Retire
<1>2. reason' \in Reasons \cup {"none"} /\ graceLeft' \in Nat
  BY ConfigAssumption DEF Retire, Reasons, WindDowns
<1> QED
  BY <1>1, <1>2 DEF Retire, TypeOK

(* ... leaving the waker with a pending future ...                         *)
LEMMA ArmType ==
    ASSUME TypeOK, NEW src \in Sources, NEW next \in PollSteps, Pending(src, next)
    PROVE  TypeOK'
<1>1. armed' \subseteq Sources
  BY DEF Pending, TypeOK
<1> QED
  BY <1>1 DEF Pending, TypeOK, PollSteps

(* ... and passing over a setting that is absent.                          *)
LEMMA SkipType ==
    ASSUME TypeOK, NEW next \in PollSteps, Skip(next)
    PROVE  TypeOK'
  BY DEF Skip, TypeOK, PollSteps

(* Every step keeps the types.                                             *)
LEMMA TypeStep == TypeOK /\ [Next]_vars => TypeOK'
<1> SUFFICES ASSUME TypeOK, [Next]_vars PROVE TypeOK'
  OBVIOUS
<1>1. CASE BeginPoll
  <2>1. woken' \in BOOLEAN /\ heard' \in BOOLEAN
    BY <1>1, Zenon DEF TypeOK, BeginPoll
  <2>2. pc' \in {"parked", "conn", "global_shutdown", "age", "idle", "snapshot",
                 "requests", "grace"}
    BY <1>1 DEF BeginPoll
  <2>3. UNCHANGED <<lifecycle, armed, timers, activity, counter, shutdown, conn>>
    BY <1>1, Zenon DEF BeginPoll
  <2> QED
    BY <2>1, <2>2, <2>3 DEF TypeOK
<1>2. CASE PollConnReady
  <2>1. ConnError \in {"none", "io", "timeout", "cancelled"}
    BY ConnErrorType
  <2>2. (IF state # "Serving" THEN reason
         ELSE IF ConnError = "none" THEN "Closed" ELSE "Error") \in Reasons \cup {"none"}
    BY DEF TypeOK, Reasons
  <2>3. /\ state' = "Done" /\ reason' \in Reasons \cup {"none"}
        /\ error' \in {"none", "io", "timeout", "cancelled"}
        /\ pc' = "parked" /\ woken' = FALSE /\ armed' = {}
        /\ req' \in [Requests -> ReqStates]
    BY <1>2, <2>1, <2>2, LogType DEF PollConnReady
  <2> QED
    BY <1>2, <2>3 DEF TypeOK, PollConnReady
<1>3. CASE PollConnPending
  BY <1>3, PendingType DEF TypeOK, PollConnPending
<1>4. CASE PollShutdown
  <2>1. CASE shutdown
    <3>1. graceful' \in BOOLEAN
      BY <1>4, <2>1 DEF PollShutdown, TypeOK
    <3>2. reason' \in Reasons \cup {"none"} /\ state' = "GlobalDraining" /\ pc' = "conn"
      BY <1>4, <2>1 DEF PollShutdown, TypeOK, Reasons, WindDowns
    <3> QED
      BY <1>4, <2>1, <3>1, <3>2 DEF PollShutdown, TypeOK
  <2>2. CASE ~shutdown
    <3>1. Pending("global_shutdown", AfterShutdownPoll)
      BY <1>4, <2>2 DEF PollShutdown
    <3>2. AfterShutdownPoll \in PollSteps /\ "global_shutdown" \in Sources
      BY DEF AfterShutdownPoll, PollSteps, Sources
    <3> QED
      BY <3>1, <3>2, ArmType
  <2> QED
    BY <2>1, <2>2
<1>5. CASE PollAge
  <2>1. Skip("idle") \/ Retire("MaxAge") \/ Pending("age", "idle")
    BY <1>5 DEF PollAge
  <2> QED
    BY <2>1, SkipType, RetireType, ArmType DEF PollSteps, Retirements, Sources
<1>6. CASE PollIdle
  BY <1>6, ConfigAssumption DEF TypeOK, PollIdle, Skip, Pending, Sources
<1>7. CASE SnapshotEpoch
  <2>1. CASE loaded = 0 /\ epoch = armedEpoch
    BY <1>7, <2>1, RetireType DEF SnapshotEpoch, Retirements
  <2>2. CASE ~(loaded = 0 /\ epoch = armedEpoch)
    BY <1>7, <2>2, ConfigAssumption DEF SnapshotEpoch, TypeOK
  <2> QED
    BY <2>1, <2>2
<1>8. CASE PollRequests
  <2>1. Skip("parked") \/ Retire("MaxRequests") \/ Pending("requests", "parked")
    BY <1>8 DEF PollRequests
  <2> QED
    BY <2>1, SkipType, RetireType, ArmType DEF PollSteps, Retirements, Sources
<1>9. CASE PollGrace
  <2>1. CASE graceLeft = 0
    <3>1. Close(reason, "none")
      BY <1>9, <2>1, Zenon DEF PollGrace
    <3>2. /\ state' = "Done" /\ reason' = reason /\ error' = "none"
          /\ pc' = "parked" /\ woken' = FALSE /\ armed' = {}
          /\ req' \in [Requests -> ReqStates]
      BY <3>1, CloseType
    <3>3. UNCHANGED <<timers, activity, counter, shutdown, hello, picked,
                      graceful, fault, heard>>
      BY <1>9, <2>1, Zenon DEF PollGrace
    <3> QED
      BY <3>2, <3>3 DEF TypeOK
  <2>2. CASE graceLeft # 0
    BY <1>9, <2>2, ArmType DEF PollGrace, PollSteps, Sources
  <2> QED
    BY <2>1, <2>2
<1>10. CASE FireShutdown
  BY <1>10 DEF TypeOK, FireShutdown, Wake
<1>11. CASE PeerPicksProtocol
  BY <1>11 DEF TypeOK, PeerPicksProtocol, Wake
<1>12. CASE Tick
  BY <1>12 DEF TypeOK, Tick, Dec
<1>13. CASE Finished
  BY <1>13 DEF TypeOK, Finished
<1>14. ASSUME NEW kind \in {"eof", "io", "timeout"}, ConnFault(kind) PROVE TypeOK'
  BY <1>14 DEF TypeOK, ConnFault, Wake
<1>15. ASSUME NEW r \in Requests, PeerSends(r) PROVE TypeOK'
  BY <1>15 DEF TypeOK, PeerSends, Wake, ReqStates
<1>16. ASSUME NEW r \in Requests, HandlerDone(r) PROVE TypeOK'
  BY <1>16 DEF TypeOK, HandlerDone, Wake, ReqStates
<1>17. ASSUME NEW r \in Requests, FinishInFlight(r) PROVE TypeOK'
  BY <1>17 DEF TypeOK, FinishInFlight, ReqStates
<1>18. ASSUME NEW r \in Requests, FinishEpoch(r) PROVE TypeOK'
  BY <1>18 DEF TypeOK, FinishEpoch, ReqStates
<1>19. CASE UNCHANGED vars
  BY <1>19 DEF TypeOK
<1> QED
  BY <1>1, <1>2, <1>3, <1>4, <1>5, <1>6, <1>7, <1>8, <1>9, <1>10, <1>11, <1>12,
     <1>13, <1>14, <1>15, <1>16, <1>17, <1>18, <1>19 DEF Next, Poll, StreamTask

(* Every reachable state is of the right type: the connection's future     *)
(* and the counters its requests keep never leave their domains.           *)
THEOREM TypeCorrect == Spec => []TypeOK
<1> QED
  BY TypeInit, TypeStep, PTL DEF Spec

-----------------------------------------------------------------------------
(* No wake-up is lost.                                                     *)

(* A fresh connection is scheduled to be polled.                           *)
LEMMA WakeInit == Init => WakeInv
  BY DEF Init, WakeInv, PcInv, ArmedInv, CoverInv, Covered

(* What readiness depends on.                                              *)
LEMMA ConnReadyStable ==
    ASSUME UNCHANGED <<fault, hello, picked, graceful, detectLeft, req>>
    PROVE  ConnReady' <=> ConnReady
  BY DEF ConnReady, ConnError, ConnEnds, In, DroppedByConn

(* ... for the connection above, for every other future here.              *)
LEMMA ReadyStable ==
    ASSUME UNCHANGED <<shutdown, timers, retire>>, NEW src \in Sources \ {"conn"}
    PROVE  IsReady(src)' <=> IsReady(src)
  BY DEF IsReady, Sources

(* A step of the world leaves pc and state alone: it keeps the invariant   *)
(* if it loses no cover and leaves the waker with nothing that is ready.   *)
LEMMA WorldKeeps ==
    ASSUME WakeInv, UNCHANGED <<pc, state>>, armed' \subseteq armed,
           \A src \in Sources : Covered(src) => Covered(src)',
           ArmedInv'
    PROVE  WakeInv'
<1>1. PcInv'
  BY DEF WakeInv, PcInv
<1>2. CoverInv'
  BY DEF WakeInv, CoverInv, Sources
<1> QED
  BY <1>1, <1>2 DEF WakeInv

(* ... as a step does that only affects the connection, and wakes it.      *)
LEMMA WakeConnKeeps ==
    ASSUME TypeOK, WakeInv, Wake("conn"),
           UNCHANGED <<pc, state, shutdown, timers, retire>>
    PROVE  WakeInv'
<1>1. armed' \subseteq armed
  BY DEF Wake
<1>2. ArmedInv'
  BY ReadyStable DEF ArmedInv, WakeInv, Wake, TypeOK
<1>3. ASSUME NEW src \in Sources, Covered(src) PROVE Covered(src)'
  <2>1. CASE woken
    BY <2>1 DEF Covered, Wake
  <2>2. CASE src = "conn" /\ ~woken
    BY <1>3, <2>2 DEF Covered, Wake
  <2>3. CASE src # "conn" /\ ~woken
    BY <1>3, <2>3, ReadyStable DEF Covered, Wake
  <2> QED
    BY <2>1, <2>2, <2>3
<1> QED
  BY <1>1, <1>2, <1>3, WorldKeeps

(* ... or one that affects nothing that poll() waits for.                  *)
LEMMA QuietKeeps ==
    ASSUME WakeInv, TypeOK, ConnReady' <=> ConnReady,
           UNCHANGED <<pc, state, woken, armed, shutdown, timers, retire>>
    PROVE  WakeInv'
<1>1. \A src \in Sources : IsReady(src)' <=> IsReady(src)
  BY ReadyStable DEF IsReady
<1>2. ArmedInv'
  BY <1>1 DEF ArmedInv, WakeInv, TypeOK
<1>3. \A src \in Sources : Covered(src) => Covered(src)'
  BY <1>1 DEF Covered
<1> QED
  BY <1>2, <1>3, WorldKeeps

(* After a Pending poll of the connection there is nothing left for it to  *)
(* do: every request that it may take has been taken.                      *)
LEMMA PendingNotReady ==
    ASSUME TypeOK, PollConnPending
    PROVE  ~ConnReady'
<1>1. PICK D \in SUBSET In("arrived") :
        /\ Dispatchable(D)
        /\ Picked /\ graceful => In("active") \cup D # {}
        /\ req' = [r \in Requests |-> IF r \in D THEN "active"
                                      ELSE IF r \in DroppedByConn THEN "done"
                                      ELSE req[r]]
  BY DEF PollConnPending
<1>2. UNCHANGED <<fault, hello, graceful, detectLeft>> /\ fault = "none"
      /\ ConnError = "none" /\ Picked' = Picked
  BY DEF PollConnPending
<1>3. ConnError' = "none"
  BY <1>2 DEF ConnError
<1>4. In("active")' = In("active") \cup D
  BY <1>1 DEF In, DroppedByConn
<1>5. In("arrived")' = In("arrived") \ D
  BY <1>1 DEF In, DroppedByConn
<1>6. DroppedByConn' = {}
  BY <1>1, <1>2 DEF In, DroppedByConn
<1>7. ~ConnEnds'
  BY <1>1, <1>2, <1>4 DEF ConnEnds
<1>8. ~(In("arrived")' # {} /\ Picked' /\ ~graceful' /\ (Http2' \/ In("active")' = {}))
  BY <1>1, <1>2, <1>4, <1>5 DEF Dispatchable
<1> QED
  BY <1>3, <1>6, <1>7, <1>8 DEF ConnReady

(* poll() ends: nothing is awaited any more.                               *)
LEMMA CloseKeeps ==
    ASSUME NEW why, NEW err, Close(why, err)
    PROVE  WakeInv'
  BY DEF Close, WakeInv, PcInv, ArmedInv, CoverInv

(* `continue`: the connection is polled next, so nothing needs cover yet.  *)
LEMMA ContinueKeeps ==
    ASSUME TypeOK, WakeInv, pc' = "conn", state' # "Done", armed' = armed,
           state' = "Serving" => state = "Serving",
           ArmedInv'
    PROVE  WakeInv'
<1>1. PcInv'
  BY DEF WakeInv, PcInv
<1>2. CoverInv'
  BY DEF CoverInv
<1> QED
  BY <1>1, <1>2 DEF WakeInv

(* Retiring arms nothing and polls the connection next.                    *)
LEMMA RetireKeeps ==
    ASSUME TypeOK, WakeInv, state = "Serving", NEW why, Retire(why)
    PROVE  WakeInv'
<1>1. ArmedInv'
  BY DEF ArmedInv, WakeInv, PcInv, Retire, IsReady
<1> QED
  BY <1>1, ContinueKeeps DEF Retire

(* The future src is pending and takes the waker.                          *)
LEMMA ArmKeepsReady ==
    ASSUME TypeOK, WakeInv, NEW src \in Sources \ {"conn"}, NEW next,
           Pending(src, next), ~IsReady(src)
    PROVE  /\ ArmedInv'
           /\ \A t \in Sources : Covered(t) => Covered(t)'
           /\ Covered(src)'
<1>1. \A t \in Sources \ {"conn"} : IsReady(t)' <=> IsReady(t)
  BY ReadyStable DEF Pending
<1>2. ConnReady' <=> ConnReady
  BY ConnReadyStable DEF Pending
<1>3. \A t \in Sources : IsReady(t)' <=> IsReady(t)
  BY <1>1, <1>2 DEF IsReady
<1>4. ArmedInv'
  BY <1>1 DEF ArmedInv, WakeInv, Pending, TypeOK
<1>5. \A t \in Sources : Covered(t) => Covered(t)'
  BY <1>3 DEF Covered, Pending
<1>6. Covered(src)'
  BY <1>1 DEF Covered, Pending
<1> QED
  BY <1>4, <1>5, <1>6

(* Passing over an absent setting changes nothing awaited.                 *)
LEMMA SkipKeepsReady ==
    ASSUME TypeOK, WakeInv, NEW next, Skip(next)
    PROVE  /\ ArmedInv'
           /\ \A t \in Sources : Covered(t) => Covered(t)'
<1>1. \A t \in Sources \ {"conn"} : IsReady(t)' <=> IsReady(t)
  BY ReadyStable DEF Skip
<1>2. ConnReady' <=> ConnReady
  BY ConnReadyStable DEF Skip
<1>3. \A t \in Sources : IsReady(t)' <=> IsReady(t)
  BY <1>1, <1>2 DEF IsReady
<1> QED
  BY <1>3 DEF ArmedInv, WakeInv, Covered, Skip, TypeOK

(* A tick wakes the task for each timer that it makes ready.               *)
LEMMA TickKeeps == ASSUME TypeOK, WakeInv, Tick PROVE WakeInv'
<1>1. armed' = armed \ Expiring /\ woken' = (woken \/ armed \cap Expiring # {})
      /\ UNCHANGED <<pc, state, shutdown, retire, fault, hello, picked,
                     graceful, req>>
  BY DEF Tick
<1>2. ASSUME NEW src \in Sources, src \notin Expiring, ~IsReady(src)
      PROVE  ~IsReady(src)'
  <2>1. CASE src = "conn"
    <3>1. ~ConnReady
      BY <1>2, <2>1 DEF IsReady
    <3>2. Picked \/ detectLeft # 1
      BY <1>2, <2>1 DEF Expiring
    <3>3. detectLeft' = 0 => detectLeft = 0 \/ Picked
      BY <3>2 DEF Tick, Dec, TypeOK
    <3>4. ConnEnds' <=> ConnEnds
      BY <1>1 DEF ConnEnds, In
    <3>5. ConnError = "none"
      BY <3>1 DEF ConnReady
    <3>6. ConnError' = "none"
      BY <1>1, <3>3, <3>5 DEF ConnError
    <3>7. DroppedByConn' = DroppedByConn /\ In("arrived")' = In("arrived")
          /\ In("active")' = In("active")
      BY <1>1 DEF DroppedByConn, In
    <3>8. ~ConnReady'
      BY <1>1, <3>1, <3>4, <3>6, <3>7 DEF ConnReady
    <3> QED
      BY <2>1, <3>8 DEF IsReady
  <2>2. CASE src # "conn"
    BY <1>1, <1>2, <2>2 DEF IsReady, Expiring, Tick, Dec, TypeOK, Sources
  <2> QED
    BY <2>1, <2>2
<1>3. ArmedInv'
  BY <1>1, <1>2 DEF ArmedInv, WakeInv, TypeOK
<1>4. ASSUME NEW src \in Sources, Covered(src) PROVE Covered(src)'
  <2>1. CASE woken
    BY <1>1, <2>1 DEF Covered
  <2>2. CASE ~woken /\ src \in Expiring
    BY <1>1, <1>4, <2>2 DEF Covered
  <2>3. CASE ~woken /\ src \notin Expiring
    BY <1>1, <1>2, <1>4, <2>3 DEF Covered
  <2> QED
    BY <2>1, <2>2, <2>3
<1> QED
  BY <1>1, <1>3, <1>4, WorldKeeps

(* A pending connection leaves its waker, also if a request it took        *)
(* reached the limit.                                                      *)
LEMMA PendingKeeps == ASSUME TypeOK, WakeInv, PollConnPending PROVE WakeInv'
<1>1. /\ pc = "conn" /\ state' = state
      /\ pc' = IF state = "GlobalDraining" THEN "parked" ELSE "global_shutdown"
      /\ UNCHANGED <<shutdown, timers>>
      /\ armed' = (IF retire' /\ ~retire THEN armed \ {"requests"} ELSE armed)
                    \cup {"conn"}
  BY DEF PollConnPending
<1>2. state # "Done" /\ state \in {"Serving", "Draining", "GlobalDraining"}
  BY <1>1 DEF WakeInv, PcInv, TypeOK
<1>3. PcInv'
  BY <1>1, <1>2 DEF PcInv, WakeInv
<1>4. ArmedInv'
  <2> SUFFICES ASSUME NEW src \in armed' \ {"conn"} PROVE ~IsReady(src)'
    BY DEF ArmedInv
  <2>1. src \in armed \ {"conn"} /\ ~IsReady(src)
    BY <1>1 DEF ArmedInv, WakeInv
  <2> QED
    BY <1>1, <2>1 DEF IsReady
<1>5. Covered("conn")'
  BY <1>1, PendingNotReady DEF Covered, IsReady
<1>6. CoverInv'
  BY <1>1, <1>2, <1>5 DEF CoverInv
<1> QED
  BY <1>3, <1>4, <1>6 DEF WakeInv

(* Every step keeps the wake-up invariant.                                 *)
LEMMA WakeStep == TypeOK /\ WakeInv /\ [Next]_vars => WakeInv'
<1> SUFFICES ASSUME TypeOK, WakeInv, [Next]_vars PROVE WakeInv'
  OBVIOUS
<1>1. CASE BeginPoll
  <2>1. ArmedInv'
    BY <1>1, ReadyStable DEF BeginPoll, ArmedInv, WakeInv, TypeOK
  <2> QED
    BY <1>1, <2>1, ContinueKeeps DEF BeginPoll
<1>2. CASE PollConnReady
  BY <1>2, CloseKeeps DEF PollConnReady, LogConnectionResult
<1>3. CASE PollConnPending
  BY <1>3, PendingKeeps
<1>4. CASE PollShutdown
  <2>1. CASE shutdown
    <3>1. ArmedInv'
      BY <1>4, <2>1, ReadyStable DEF PollShutdown, ArmedInv, WakeInv, TypeOK
    <3> QED
      BY <1>4, <2>1, <3>1, ContinueKeeps DEF PollShutdown
  <2>2. CASE ~shutdown
    <3>1. Pending("global_shutdown", AfterShutdownPoll) /\ pc = "global_shutdown"
      BY <1>4, <2>2 DEF PollShutdown
    <3>2. ~IsReady("global_shutdown") /\ "global_shutdown" \in Sources \ {"conn"}
      BY <2>2 DEF IsReady, Sources
    <3>3. /\ ArmedInv'
          /\ \A t \in Sources : Covered(t) => Covered(t)'
          /\ Covered("global_shutdown")'
      BY <3>1, <3>2, ArmKeepsReady
    <3>4. state' = state /\ pc' = AfterShutdownPoll
          /\ armed' = armed \cup {"global_shutdown"}
      BY <3>1 DEF Pending
    <3>5. state \in {"Serving", "Draining"}
      BY <3>1 DEF WakeInv, PcInv
    <3>6. PcInv'
      BY <3>4, <3>5 DEF WakeInv, PcInv, AfterShutdownPoll
    <3>7. CoverInv'
      BY <3>1, <3>3, <3>4, <3>5 DEF WakeInv, CoverInv, AfterShutdownPoll, Sources
    <3> QED
      BY <3>3, <3>6, <3>7 DEF WakeInv
  <2> QED
    BY <2>1, <2>2
<1>5. CASE PollAge
  <2>1. state = "Serving"
    BY <1>5 DEF PollAge, WakeInv, PcInv
  <2>2. CASE Retire("MaxAge")
    BY <2>1, <2>2, RetireKeeps
  <2>3. CASE Skip("idle") /\ MaxAge = 0
    <3>1. ArmedInv' /\ \A t \in Sources : Covered(t) => Covered(t)'
      BY <2>3, SkipKeepsReady
    <3>2. PcInv' /\ CoverInv'
      BY <1>5, <2>1, <2>3, <3>1 DEF WakeInv, PcInv, CoverInv, Skip, PollAge, Sources
    <3> QED
      BY <3>1, <3>2 DEF WakeInv
  <2>4. CASE Pending("age", "idle") /\ ageLeft # 0
    <3>1. ArmedInv' /\ (\A t \in Sources : Covered(t) => Covered(t)') /\ Covered("age")'
      BY <2>4, ArmKeepsReady DEF IsReady, Sources
    <3>2. PcInv' /\ CoverInv'
      BY <1>5, <2>1, <2>4, <3>1 DEF WakeInv, PcInv, CoverInv, Pending, PollAge, Sources
    <3> QED
      BY <3>1, <3>2 DEF WakeInv
  <2> QED
    BY <1>5, <2>2, <2>3, <2>4 DEF PollAge
<1>6. CASE PollIdle
  <2>1. state = "Serving"
    BY <1>6 DEF PollIdle, WakeInv, PcInv
  <2>2. CASE Skip("requests") /\ MaxIdle = 0
    <3>1. ArmedInv' /\ \A t \in Sources : Covered(t) => Covered(t)'
      BY <2>2, SkipKeepsReady
    <3>2. PcInv' /\ CoverInv'
      BY <1>6, <2>1, <2>2, <3>1 DEF WakeInv, PcInv, CoverInv, Skip, PollIdle, Sources
    <3> QED
      BY <3>1, <3>2 DEF WakeInv
  <2>3. CASE Pending("idle", "requests") /\ idleLeft # 0
    <3>1. ArmedInv' /\ (\A t \in Sources : Covered(t) => Covered(t)') /\ Covered("idle")'
      BY <2>3, ArmKeepsReady DEF IsReady, Sources
    <3>2. PcInv' /\ CoverInv'
      BY <1>6, <2>1, <2>3, <3>1 DEF WakeInv, PcInv, CoverInv, Pending, PollIdle, Sources
    <3> QED
      BY <3>1, <3>2 DEF WakeInv
  <2>4. CASE /\ MaxIdle # 0 /\ pc' = "snapshot"
             /\ UNCHANGED <<lifecycle, woken, armed, timers, retire, shutdown, conn>>
    <3>1. ConnReady' <=> ConnReady
      BY <2>4, ConnReadyStable
    <3>2. \A t \in Sources : IsReady(t)' <=> IsReady(t)
      BY <2>4, <3>1, ReadyStable DEF IsReady
    <3>3. ArmedInv' /\ \A t \in Sources : Covered(t) => Covered(t)'
      BY <2>4, <3>2 DEF ArmedInv, WakeInv, TypeOK, Covered
    <3>4. PcInv' /\ CoverInv'
      BY <1>6, <2>1, <2>4, <3>3 DEF WakeInv, PcInv, CoverInv, PollIdle, Sources
    <3> QED
      BY <3>3, <3>4 DEF WakeInv
  <2> QED
    BY <1>6, <2>2, <2>3, <2>4 DEF PollIdle
<1>7. CASE SnapshotEpoch
  <2>1. state = "Serving" /\ MaxIdle # 0
    BY <1>7 DEF SnapshotEpoch, WakeInv, PcInv
  <2>2. CASE Retire("Idle")
    BY <2>1, <2>2, RetireKeeps
  <2>3. CASE /\ idleLeft' = MaxIdle /\ pc' = "conn"
             /\ UNCHANGED <<lifecycle, armed, ageLeft, graceLeft, retire, shutdown>>
    <3>1. ArmedInv'
      BY <2>1, <2>3 DEF ArmedInv, WakeInv, IsReady
    <3> QED
      BY <2>1, <2>3, <3>1, ContinueKeeps
  <2> QED
    BY <1>7, <2>2, <2>3 DEF SnapshotEpoch
<1>8. CASE PollRequests
  <2>1. state = "Serving"
    BY <1>8 DEF PollRequests, WakeInv, PcInv
  <2>2. CASE Retire("MaxRequests")
    BY <2>1, <2>2, RetireKeeps
  <2>3. CASE Skip("parked") /\ MaxRequests = 0
    <3>1. ArmedInv' /\ \A t \in Sources : Covered(t) => Covered(t)'
      BY <2>3, SkipKeepsReady
    <3>2. PcInv' /\ CoverInv'
      BY <1>8, <2>1, <2>3, <3>1 DEF WakeInv, PcInv, CoverInv, Skip, PollRequests, Sources
    <3> QED
      BY <3>1, <3>2 DEF WakeInv
  <2>4. CASE Pending("requests", "parked") /\ ~retire
    <3>1. ArmedInv' /\ (\A t \in Sources : Covered(t) => Covered(t)') /\ Covered("requests")'
      BY <2>4, ArmKeepsReady DEF IsReady, Sources
    <3>2. PcInv' /\ CoverInv'
      BY <1>8, <2>1, <2>4, <3>1 DEF WakeInv, PcInv, CoverInv, Pending, PollRequests, Sources
    <3> QED
      BY <3>1, <3>2 DEF WakeInv
  <2> QED
    BY <1>8, <2>2, <2>3, <2>4 DEF PollRequests
<1>9. CASE PollGrace
  <2>1. state = "Draining"
    BY <1>9 DEF PollGrace, WakeInv, PcInv
  <2>2. CASE Close(reason, "none")
    BY <2>2, CloseKeeps
  <2>3. CASE Pending("grace", "parked") /\ graceLeft # 0
    <3>1. ArmedInv' /\ (\A t \in Sources : Covered(t) => Covered(t)') /\ Covered("grace")'
      BY <2>3, ArmKeepsReady DEF IsReady, Sources
    <3>2. PcInv' /\ CoverInv'
      BY <1>9, <2>1, <2>3, <3>1 DEF WakeInv, PcInv, CoverInv, Pending, PollGrace, Sources
    <3> QED
      BY <3>1, <3>2 DEF WakeInv
  <2> QED
    BY <1>9, <2>2, <2>3 DEF PollGrace
<1>10. CASE FireShutdown
  <2>1. armed' = armed \ {"global_shutdown"} /\ armed' \subseteq armed
        /\ woken' = (woken \/ "global_shutdown" \in armed)
        /\ UNCHANGED <<state, pc, timers, retire, conn>>
    BY <1>10 DEF FireShutdown, Wake
  <2>2. ConnReady' <=> ConnReady
    BY <2>1, ConnReadyStable
  <2>3. \A src \in Sources \ {"global_shutdown"} : IsReady(src)' <=> IsReady(src)
    BY <2>1, <2>2 DEF IsReady
  <2>4. ArmedInv'
    BY <2>1, <2>3 DEF ArmedInv, WakeInv, TypeOK
  <2>5. \A src \in Sources : Covered(src) => Covered(src)'
    BY <2>1, <2>3 DEF Covered
  <2> QED
    BY <2>1, <2>4, <2>5, WorldKeeps
<1>11. CASE PeerPicksProtocol
  BY <1>11, WakeConnKeeps DEF PeerPicksProtocol
<1>12. CASE Tick
  BY <1>12, TickKeeps
<1>13. CASE Finished
  BY <1>13, QuietKeeps, ConnReadyStable DEF Finished
<1>14. ASSUME NEW kind \in {"eof", "io", "timeout"}, ConnFault(kind) PROVE WakeInv'
  BY <1>14, WakeConnKeeps DEF ConnFault
<1>15. ASSUME NEW r \in Requests, PeerSends(r) PROVE WakeInv'
  BY <1>15, WakeConnKeeps DEF PeerSends
<1>16. ASSUME NEW r \in Requests, HandlerDone(r) PROVE WakeInv'
  BY <1>16, WakeConnKeeps DEF HandlerDone
<1>17. ASSUME NEW r \in Requests, StreamTask(r) PROVE WakeInv'
  <2>1. /\ Http2 /\ req' \in {[req EXCEPT ![r] = "dropping"], [req EXCEPT ![r] = "done"]}
        /\ req[r] \in {"ready", "dropping"}
        /\ UNCHANGED <<pc, state, woken, armed, shutdown, timers, retire, fault,
                       hello, picked, graceful>>
    BY <1>17 DEF StreamTask, FinishInFlight, FinishEpoch
  <2>2. In("active")' = In("active") /\ In("arrived")' = In("arrived")
    BY <2>1 DEF In, TypeOK
  <2>3. ConnReady' <=> ConnReady
    BY <2>1, <2>2 DEF ConnReady, ConnError, ConnEnds, DroppedByConn
  <2> QED
    BY <2>1, <2>3, QuietKeeps
<1>18. CASE UNCHANGED vars
  BY <1>18, QuietKeeps, ConnReadyStable
<1> QED
  BY <1>1, <1>2, <1>3, <1>4, <1>5, <1>6, <1>7, <1>8, <1>9, <1>10, <1>11, <1>12,
     <1>13, <1>14, <1>15, <1>16, <1>17, <1>18 DEF Next, Poll

(* So the invariant holds throughout.                                      *)
LEMMA WakeInvariant == Spec => [](TypeOK /\ WakeInv)
<1> QED
  BY TypeInit, TypeStep, WakeInit, WakeStep, PTL DEF Spec

(* A parked task is covered for everything its state awaits.               *)
LEMMA WakeInvSuffices == WakeInv => NoLostWakeup
  BY DEF WakeInv, CoverInv, Covered, NoLostWakeup, Awaited

(* poll() never goes to sleep on something that is already ready, whatever *)
(* the settings and however the peer, the handlers, the accept loop and    *)
(* the clock interleave with the polls of its futures.                     *)
THEOREM WakeupsNotLost == Spec => []NoLostWakeup
<1> QED
  BY WakeInvariant, WakeInvSuffices, PTL

-----------------------------------------------------------------------------
(* A wind-down reason is final.                                            *)

(* A fresh connection has no reason to close.                              *)
LEMMA ReasonInit == Init => ReasonInv
  BY DEF Init, ReasonInv

(* Only a step from Serving sets a reason to wind down.                    *)
LEMMA ReasonStep ==
    ASSUME TypeOK, WakeInv, ReasonInv, [Next]_vars
    PROVE  ReasonInv' /\ (reason \in WindDowns => reason' = reason)
<1> USE DEF ReasonInv
<1>1. CASE PollConnReady
  BY <1>1 DEF PollConnReady, LogConnectionResult, Close, WindDowns, Retirements
<1>2. CASE PollShutdown
  BY <1>2 DEF PollShutdown, Pending, WindDowns, Retirements
<1>3. CASE PollAge \/ PollIdle \/ SnapshotEpoch \/ PollRequests
  BY <1>3 DEF PollAge, PollIdle, SnapshotEpoch, PollRequests, Retire, Skip,
     Pending, WakeInv, PcInv, WindDowns, Retirements
<1>4. CASE PollGrace
  BY <1>4 DEF PollGrace, Close, Pending
<1>5. CASE UNCHANGED lifecycle
  BY <1>5
<1> QED
  BY <1>1, <1>2, <1>3, <1>4, <1>5 DEF Next, Poll, BeginPoll, PollConnPending,
     FireShutdown, PeerPicksProtocol, PeerSends, ConnFault, HandlerDone,
     StreamTask, FinishInFlight, FinishEpoch, Tick, Finished

(* Once a shutdown or a retirement trigger has told a connection to wind   *)
(* down, nothing rewrites the reason: not a shutdown that follows a        *)
(* retirement, a failing drain, nor the end of the grace period.           *)
THEOREM ReasonFinal == Spec => WindDownReasonFinal
<1>1. TypeOK /\ WakeInv /\ ReasonInv /\ [Next]_vars
        => ReasonInv' /\ (reason \in WindDowns => reason' = reason)
  BY ReasonStep
<1> QED
  BY <1>1, WakeInvariant, ReasonInit, PTL DEF Spec, WindDownReasonFinal

-----------------------------------------------------------------------------
(* How a wind-down ends.                                                   *)

(* A fresh connection is serving, with nothing told and nothing picked.    *)
LEMMA DrainInit == Init => DrainInv
  BY DEF Init, DrainInv, In

(* ConnError's arms, of a connection whose poll has come to it.            *)
LEMMA ConnErrorIs ==
    ASSUME TypeOK
    PROVE  /\ ConnError \in {"none", "io", "timeout", "cancelled"}
           /\ ConnError = "cancelled" => ~Picked /\ graceful
           /\ ConnError # "none" => ~Picked \/ fault \in {"io", "timeout"}
           /\ ConnError \in {"io", "timeout"} /\ graceful => fault \in {"io", "timeout"}
           /\ ConnError = "none" => ~(~Picked /\ graceful)
  BY DEF ConnError, TypeOK

(* Retiring tells hyper, and is done from Serving only.                    *)
LEMMA RetireDrains ==
    ASSUME DrainInv, NEW why \in Retirements, Retire(why)
    PROVE  DrainInv'
  BY DEF DrainInv, Retire, WindDowns, In

(* Every step keeps the invariant.                                         *)
LEMMA DrainStep ==
    ASSUME TypeOK, WakeInv, DrainInv, [Next]_vars
    PROVE  DrainInv'
<1>1. CASE BeginPoll
  BY <1>1 DEF BeginPoll, DrainInv, In
<1>2. CASE PollConnReady
  <2>1. /\ state' = "Done" /\ pc' = "parked"
        /\ req' = [r \in Requests |->
                     CASE req[r] = "active"                -> "aborted"
                       [] req[r] \in {"ready", "dropping"} -> "done"
                       [] req[r] = "arrived"               -> "refused"
                       [] OTHER                            -> req[r]]
        /\ UNCHANGED <<picked, shutdown, heard>>
    BY <1>2 DEF PollConnReady, LogConnectionResult, Close
  <2>2. ~picked => In("active")' = {}
    BY <2>1 DEF DrainInv, In
  <2> QED
    BY <2>1, <2>2 DEF DrainInv
<1>3. CASE PollConnPending
  <2>1. PICK D \in SUBSET In("arrived") :
          /\ Dispatchable(D)
          /\ req' = [r \in Requests |-> IF r \in D THEN "active"
                                        ELSE IF r \in DroppedByConn THEN "done"
                                        ELSE req[r]]
    BY <1>3 DEF PollConnPending
  <2>2. /\ picked' = Picked /\ pc' \in {"parked", "global_shutdown"}
        /\ UNCHANGED <<state, reason, graceful, shutdown, heard>>
    BY <1>3 DEF PollConnPending
  <2>3. ASSUME ~picked' PROVE In("active")' = {}
    <3>1. D = {} /\ In("active") = {}
      BY <2>1, <2>2, <2>3 DEF Dispatchable, DrainInv
    <3> QED
      BY <2>1, <3>1 DEF In
  <2> QED
    BY <2>2, <2>3 DEF DrainInv
<1>4. CASE PollShutdown
  <2>1. state \in {"Serving", "Draining"}
    BY <1>4 DEF PollShutdown, WakeInv, PcInv
  <2>2. CASE shutdown
    BY <1>4, <2>1, <2>2 DEF PollShutdown, DrainInv, In, WindDowns
  <2>3. CASE ~shutdown
    BY <1>4, <2>1, <2>3 DEF PollShutdown, Pending, DrainInv, In
  <2> QED
    BY <2>2, <2>3
<1>5. CASE PollAge
  <2>1. Skip("idle") \/ Retire("MaxAge") \/ Pending("age", "idle")
    BY <1>5 DEF PollAge
  <2> QED
    BY <2>1, RetireDrains DEF Skip, Pending, DrainInv, In, Retirements
<1>6. CASE PollIdle
  BY <1>6 DEF PollIdle, Skip, Pending, DrainInv, In
<1>7. CASE SnapshotEpoch
  <2>1. Retire("Idle") \/ (pc' = "conn" /\ UNCHANGED <<lifecycle, shutdown, conn, heard>>)
    BY <1>7 DEF SnapshotEpoch
  <2> QED
    BY <2>1, RetireDrains DEF DrainInv, In, Retirements
<1>8. CASE PollRequests
  <2>1. Skip("parked") \/ Retire("MaxRequests") \/ Pending("requests", "parked")
    BY <1>8 DEF PollRequests
  <2> QED
    BY <2>1, RetireDrains DEF Skip, Pending, DrainInv, In, Retirements
<1>9. CASE PollGrace
  <2>1. CASE Close(reason, "none") /\ UNCHANGED <<picked, shutdown, heard>>
    <3>1. /\ state' = "Done" /\ pc' = "parked"
          /\ req' = [r \in Requests |->
                       CASE req[r] = "active"                -> "aborted"
                         [] req[r] \in {"ready", "dropping"} -> "done"
                         [] req[r] = "arrived"               -> "refused"
                         [] OTHER                            -> req[r]]
      BY <2>1 DEF Close
    <3>2. ~picked => In("active")' = {}
      BY <3>1 DEF DrainInv, In
    <3> QED
      BY <2>1, <3>1, <3>2 DEF DrainInv
  <2>2. CASE Pending("grace", "parked")
    BY <2>2 DEF Pending, DrainInv, In
  <2> QED
    BY <1>9, <2>1, <2>2 DEF PollGrace
<1>10. CASE FireShutdown
  BY <1>10 DEF FireShutdown, DrainInv, In
<1>11. CASE PeerPicksProtocol \/ Tick \/ Finished \/ UNCHANGED vars
  BY <1>11 DEF PeerPicksProtocol, Tick, Finished, DrainInv, In
<1>12. ASSUME NEW kind \in {"eof", "io", "timeout"}, ConnFault(kind) PROVE DrainInv'
  BY <1>12 DEF ConnFault, DrainInv, In
<1>13. ASSUME NEW r \in Requests,
              PeerSends(r) \/ HandlerDone(r) \/ StreamTask(r)
       PROVE  DrainInv'
  <2>1. In("active")' \subseteq In("active")
    BY <1>13 DEF PeerSends, HandlerDone, StreamTask, FinishInFlight, FinishEpoch, In, TypeOK
  <2> QED
    BY <1>13, <2>1 DEF PeerSends, HandlerDone, StreamTask, FinishInFlight,
       FinishEpoch, DrainInv
<1> QED
  BY <1>1, <1>2, <1>3, <1>4, <1>5, <1>6, <1>7, <1>8, <1>9, <1>10, <1>11, <1>12,
     <1>13 DEF Next, Poll

(* The invariant of the drain holds in every reachable state.              *)
LEMMA DrainInvariant == Spec => [](TypeOK /\ WakeInv /\ ReasonInv /\ DrainInv)
<1>1. TypeOK /\ WakeInv /\ ReasonInv /\ DrainInv /\ [Next]_vars
        => ReasonInv' /\ DrainInv'
  BY ReasonStep, DrainStep
<1> QED
  BY <1>1, WakeInvariant, ReasonInit, DrainInit, PTL DEF Spec

(* The end of a connection that its own futures report.                    *)
LEMMA ReadyEnds ==
    ASSUME TypeOK, WakeInv, ReasonInv, DrainInv, PollConnReady
    PROVE  /\ state # "Done" /\ state' = "Done"
           /\ state = "Serving" => /\ fault # "none" \/ In("active") = {}
                                   /\ \/ reason' = "Closed" /\ error' = "none"
                                      \/ reason' \in {"Error", "HeaderReadTimeout"} /\ error' # "none"
           /\ state # "Serving" => /\ reason' = reason
                                   /\ fault # "none" \/ In("active") = {}
                                   /\ error' # "none" => fault \in {"io", "timeout"}
           /\ UNCHANGED <<fault, shutdown, heard>>
<1>1. /\ LogConnectionResult(ConnError, IF state # "Serving" THEN reason
                 ELSE IF ConnError = "none" THEN "Closed" ELSE "Error")
      /\ UNCHANGED <<fault, shutdown, heard>> /\ pc = "conn"
      /\ ConnError # "none" \/ ConnEnds
  BY DEF PollConnReady
<1>2. state # "Done" /\ state' = "Done"
  BY <1>1 DEF WakeInv, PcInv, LogConnectionResult, Close
<1>3. fault # "none" \/ In("active") = {}
  BY <1>1, ConnErrorIs DEF ConnEnds, DrainInv
<1>4. CASE state = "Serving"
  BY <1>1, <1>2, <1>3, <1>4 DEF LogConnectionResult, Close
<1>5. CASE state # "Serving"
  <2>1. reason \in WindDowns /\ graceful /\ reason \notin {"Error", "Closed"}
    BY <1>2, <1>5 DEF DrainInv, TypeOK, WindDowns, Retirements
  <2>2. LogConnectionResult(ConnError, reason)
    BY <1>1, <1>5
  <2>3. reason' = reason /\ (error' # "none" => ConnError \notin {"none", "cancelled"} /\ error' = ConnError)
    BY <2>1, <2>2 DEF LogConnectionResult, Close
  <2> QED
    BY <1>1, <1>2, <1>3, <1>5, <2>1, <2>3, ConnErrorIs
<1> QED
  BY <1>1, <1>2, <1>3, <1>4, <1>5

(* What the future reported when it ended stands: nothing changes it, and  *)
(* the fault it blames stays.                                              *)
LEMMA ErrorStep ==
    ASSUME TypeOK, WakeInv, ReasonInv, DrainInv, ErrorTellsFailedDrain, [Next]_vars
    PROVE  ErrorTellsFailedDrain'
<1>1. CASE PollConnReady
  BY <1>1, ReadyEnds DEF ErrorTellsFailedDrain, ReasonInv, DrainInv, WindDowns,
     Retirements, TypeOK
<1>2. CASE PollGrace
  <2>1. state = "Draining" /\ reason \in WindDowns
    BY <1>2 DEF PollGrace, WakeInv, PcInv, DrainInv
  <2>2. CASE Close(reason, "none")
    BY <2>1, <2>2 DEF Close, ErrorTellsFailedDrain, WindDowns, Retirements
  <2>3. CASE Pending("grace", "parked")
    BY <2>1, <2>3 DEF Pending, ErrorTellsFailedDrain
  <2> QED
    BY <1>2, <2>2, <2>3 DEF PollGrace
<1>3. CASE PollShutdown \/ PollAge \/ PollIdle \/ SnapshotEpoch \/ PollRequests
  <2>1. state # "Done"
    BY <1>3 DEF PollShutdown, PollAge, PollIdle, SnapshotEpoch, PollRequests,
       WakeInv, PcInv
  <2>2. state' # "Done"
    BY <1>3, <2>1 DEF PollShutdown, PollAge, PollIdle, SnapshotEpoch,
       PollRequests, Retire, Skip, Pending
  <2> QED
    BY <2>2 DEF ErrorTellsFailedDrain
<1>4. ASSUME NEW kind \in {"eof", "io", "timeout"}, ConnFault(kind)
      PROVE  ErrorTellsFailedDrain'
  BY <1>4 DEF ConnFault, ErrorTellsFailedDrain
<1>5. CASE UNCHANGED <<lifecycle, fault>>
  BY <1>5 DEF ErrorTellsFailedDrain
<1> QED
  BY <1>1, <1>2, <1>3, <1>4, <1>5 DEF Next, Poll, BeginPoll, PollConnPending,
     FireShutdown, PeerPicksProtocol, PeerSends, HandlerDone, StreamTask,
     FinishInFlight, FinishEpoch, Tick, Finished

(* A connection that wound down reports an error only if its drain failed, *)
(* and one that ended by itself the error its reason promises, for every   *)
(* setting and every race of timers, signals and faults.                   *)
THEOREM ErrorsAreTold == Spec => []ErrorTellsFailedDrain
<1>1. Init => ErrorTellsFailedDrain
  BY DEF Init, ErrorTellsFailedDrain
<1>2. TypeOK /\ WakeInv /\ ReasonInv /\ DrainInv /\ ErrorTellsFailedDrain /\ [Next]_vars
        => ErrorTellsFailedDrain'
  BY ErrorStep
<1> QED
  BY <1>1, <1>2, DrainInvariant, PTL DEF Spec

(* Only the end of the future aborts a request that is being served, and   *)
(* of a poll that began after the signal only the end of the connection.   *)
LEMMA AbortStep ==
    ASSUME TypeOK, WakeInv, ReasonInv, DrainInv, [Next]_vars,
           NEW r \in Requests, req[r] = "active", req'[r] = "aborted", heard
    PROVE  fault # "none"
<1>1. r \in In("active")
  BY DEF In
<1>2. CASE PollConnReady
  BY <1>1, <1>2, ReadyEnds
<1>3. CASE PollGrace
  BY <1>3 DEF PollGrace, DrainInv
<1>4. CASE PollConnPending
  BY <1>4 DEF PollConnPending
<1>5. CASE \E q \in Requests : PeerSends(q) \/ HandlerDone(q) \/ StreamTask(q)
  BY <1>5 DEF PeerSends, HandlerDone, StreamTask, FinishInFlight, FinishEpoch, TypeOK
<1>6. CASE PollShutdown \/ PollAge \/ PollIdle \/ SnapshotEpoch \/ PollRequests
  BY <1>6 DEF PollShutdown, PollAge, PollIdle, SnapshotEpoch, PollRequests,
     Retire, Skip, Pending
<1>7. CASE UNCHANGED req
  BY <1>7
<1> QED
  BY <1>2, <1>3, <1>4, <1>5, <1>6, <1>7 DEF Next, Poll, BeginPoll, FireShutdown,
     PeerPicksProtocol, ConnFault, Tick, Finished

(* A retirement's grace period never cuts short a shutdown drain.          *)
THEOREM ShutdownHasNoDeadline == Spec => GraceNeverCapsShutdown
<1>1. TypeOK /\ WakeInv /\ ReasonInv /\ DrainInv /\ [Next]_vars
        => \A r \in Requests :
             req[r] = "active" /\ req'[r] = "aborted" /\ heard => fault # "none"
  BY AbortStep
<1> QED
  BY <1>1, DrainInvariant, PTL DEF Spec, GraceNeverCapsShutdown

-----------------------------------------------------------------------------
(* The poll loop implements ConnectionPromise.                             *)

(* The phase the abstract connection is in.                                *)
Phase == CASE state = "Serving"        -> "open"
           [] state = "Draining"       -> "retiring"
           [] state = "GlobalDraining" -> "draining"
           [] OTHER                    -> "closed"

(* The promise's phase is the loop's state.                                *)
LEMMA PhaseOf ==
    /\ state = "Serving" => Phase = "open"
    /\ state = "Draining" => Phase = "retiring"
    /\ state = "GlobalDraining" => Phase = "draining"
    /\ state \notin {"Serving", "Draining", "GlobalDraining"} => Phase = "closed"
  BY DEF Phase

(* ... also after a step.                                                  *)
LEMMA PhaseOfNext ==
    /\ state' = "Serving" => Phase' = "open"
    /\ state' = "Draining" => Phase' = "retiring"
    /\ state' = "GlobalDraining" => Phase' = "draining"
    /\ state' \notin {"Serving", "Draining", "GlobalDraining"} => Phase' = "closed"
  BY DEF Phase

(* A connection that was just accepted is one the promise starts with.     *)
LEMMA PromiseInit == Init => Promise!Init
<1> SUFFICES ASSUME Init PROVE Promise!Init
  OBVIOUS
<1>1. Phase = "open"
  BY PhaseOf DEF Init
<1>2. In("active") = {}
  BY DEF Init, In
<1>3. (fault # "none") = FALSE
  BY DEF Init
<1> QED
  BY <1>1, <1>2, <1>3 DEF Promise!Init, Init, Phase

(* Closing the future leaves nothing being served.                         *)
LEMMA CloseServesNone ==
    ASSUME NEW why, NEW err, Close(why, err)
    PROVE  In("active")' = {} /\ state' = "Done"
<1>1. \A r \in Requests : req'[r] # "active"
  BY DEF Close
<1> QED
  BY <1>1 DEF In, Close

(* A retirement.                                                           *)
LEMMA RetirePromised ==
    ASSUME NEW why \in Retirements, Retire(why), state = "Serving"
    PROVE  Promise!Retire
<1>1. Phase = "open" /\ Phase' = "retiring"
  BY PhaseOf, PhaseOfNext DEF Retire
<1>2. In("active")' = In("active")
  BY DEF Retire, In
<1> QED
  BY <1>1, <1>2 DEF Promise!Retire, Promise!Retirements, Phase, Retire, Retirements

(* The future ends: by itself, or because the drain is complete.           *)
LEMMA ReadyPromised ==
    ASSUME TypeOK, WakeInv, ReasonInv, DrainInv, PollConnReady
    PROVE  Promise!End \/ Promise!Drained
<1>1. In("active")' = {} /\ state' = "Done"
  BY CloseServesNone DEF PollConnReady, LogConnectionResult
<1>2. Phase' = "closed"
  BY <1>1, PhaseOfNext
<1>3. (fault # "none")' = (fault # "none") /\ UNCHANGED shutdown
  BY ReadyEnds
<1>4. CASE state = "Serving"
  <2>1. Phase = "open"
    BY <1>4, PhaseOf
  <2>2. (fault # "none") \/ In("active") = {}
    BY <1>4, ReadyEnds
  <2>3. reason' \in {"Closed", "Error", "HeaderReadTimeout"}
    BY <1>4, ReadyEnds
  <2> QED
    BY <1>1, <1>2, <1>3, <2>1, <2>2, <2>3 DEF Promise!End, Promise!OwnEnds, Phase
<1>5. CASE state # "Serving"
  <2>1. Phase \in {"retiring", "draining"}
    BY <1>5, PhaseOf, ReadyEnds DEF TypeOK
  <2>2. ((fault # "none") \/ In("active") = {}) /\ reason' = reason
    BY <1>5, ReadyEnds
  <2>3. CASE fault # "none"
    BY <1>1, <1>2, <1>3, <2>1, <2>2, <2>3 DEF Promise!End, Phase
  <2>4. CASE In("active") = {}
    BY <1>1, <1>2, <1>3, <2>1, <2>2, <2>4 DEF Promise!Drained, Phase
  <2> QED
    BY <2>2, <2>3, <2>4
<1> QED
  BY <1>4, <1>5

(* Every step of the poll loop and of the world is one the promise allows. *)
LEMMA PromiseStep ==
    ASSUME TypeOK, WakeInv, ReasonInv, DrainInv, [Next]_vars
    PROVE  [Promise!Next]_Promise!vars
<1>s. ASSUME UNCHANGED <<state, reason, shutdown, fault, req>>
      PROVE  UNCHANGED Promise!vars
  BY <1>s DEF Promise!vars, In
<1>v. ASSUME UNCHANGED <<state, reason, shutdown, fault>>, state # "Done"
      PROVE  Promise!Serve
  <2>1. Phase # "closed" /\ Phase' = Phase
    BY <1>v, PhaseOf DEF TypeOK, Phase
  <2>2. In("active")' \in SUBSET Requests
    BY DEF In
  <2>3. (fault # "none")' = (fault # "none")
    BY <1>v
  <2> QED
    BY <1>v, <2>1, <2>2, <2>3 DEF Promise!Serve, Phase
<1>1. CASE BeginPoll \/ PollIdle \/ PeerPicksProtocol \/ Tick \/ Finished \/ UNCHANGED vars
  BY <1>1, <1>s DEF BeginPoll, PollIdle, Skip, Pending, PeerPicksProtocol, Tick, Finished
<1>2. CASE PollConnReady
  BY <1>2, ReadyPromised DEF Promise!Next
<1>3. CASE PollConnPending
  <2>1. state # "Done" /\ UNCHANGED <<state, reason, shutdown, fault>>
    BY <1>3 DEF PollConnPending, WakeInv, PcInv
  <2> QED
    BY <2>1, <1>v DEF Promise!Next
<1>4. CASE PollShutdown
  <2>1. CASE ~shutdown
    BY <1>4, <2>1, <1>s DEF PollShutdown, Pending
  <2>2. CASE shutdown
    <3>1. /\ state \in {"Serving", "Draining"} /\ state' = "GlobalDraining"
          /\ reason' = IF state = "Serving" THEN "Shutdown" ELSE reason
          /\ UNCHANGED <<shutdown, fault, req>>
      BY <1>4, <2>2 DEF PollShutdown, WakeInv, PcInv
    <3>2. /\ Phase \in {"open", "retiring"} /\ Phase' = "draining"
          /\ (Phase = "open") = (state = "Serving")
      BY <3>1, PhaseOf, PhaseOfNext
    <3>3. In("active")' = In("active") /\ (fault # "none")' = (fault # "none")
      BY <3>1 DEF In
    <3>4. Promise!Drain
      BY <2>2, <3>1, <3>2, <3>3 DEF Promise!Drain, Phase
    <3> QED
      BY <3>4 DEF Promise!Next
  <2> QED
    BY <2>1, <2>2
<1>5. CASE PollAge \/ SnapshotEpoch \/ PollRequests
  <2>1. state = "Serving"
    BY <1>5 DEF PollAge, SnapshotEpoch, PollRequests, WakeInv, PcInv
  <2>2. \/ \E why \in Retirements : Retire(why)
        \/ UNCHANGED <<state, reason, shutdown, fault, req>>
    BY <1>5 DEF PollAge, SnapshotEpoch, PollRequests, Skip, Pending, Retirements
  <2> QED
    BY <2>1, <2>2, <1>s, RetirePromised DEF Promise!Next
<1>6. CASE PollGrace
  <2>1. state = "Draining" /\ Phase = "retiring"
    BY <1>6, PhaseOf DEF PollGrace, WakeInv, PcInv
  <2>2. CASE Close(reason, "none") /\ UNCHANGED <<shutdown, fault>>
    <3>1. In("active")' = {} /\ state' = "Done" /\ reason' = reason
      BY <2>2, CloseServesNone DEF Close
    <3>2. Phase' = "closed" /\ (fault # "none")' = (fault # "none")
      BY <2>2, <3>1, PhaseOfNext
    <3>3. Promise!Drained
      BY <2>1, <2>2, <3>1, <3>2 DEF Promise!Drained, Phase
    <3> QED
      BY <3>3 DEF Promise!Next
  <2>3. CASE Pending("grace", "parked")
    BY <2>3, <1>s DEF Pending
  <2> QED
    BY <1>6, <2>2, <2>3 DEF PollGrace
<1>7. CASE FireShutdown
  <2>1. shutdown' = TRUE /\ UNCHANGED <<state, reason, fault, req>>
    BY <1>7 DEF FireShutdown
  <2>2. Promise!Tell
    BY <2>1 DEF Promise!Tell, In
  <2> QED
    BY <2>2 DEF Promise!Next
<1>8. CASE \E kind \in {"eof", "io", "timeout"} : ConnFault(kind)
  <2>1. fault' # "none" /\ UNCHANGED <<state, reason, shutdown, req>>
    BY <1>8 DEF ConnFault
  <2>2. Promise!Fail
    BY <2>1 DEF Promise!Fail, In
  <2> QED
    BY <2>2 DEF Promise!Next
<1>9. CASE \E r \in Requests : PeerSends(r) \/ HandlerDone(r) \/ StreamTask(r)
  <2>1. state # "Done" /\ UNCHANGED <<state, reason, shutdown, fault>>
    BY <1>9 DEF PeerSends, HandlerDone, StreamTask, FinishInFlight, FinishEpoch
  <2> QED
    BY <2>1, <1>v DEF Promise!Next
<1> QED
  BY <1>1, <1>2, <1>3, <1>4, <1>5, <1>6, <1>7, <1>8, <1>9 DEF Next, Poll

(* The poll loop, its timers and its wakers implement what a connection    *)
(* promises: it closes with requests unanswered only if the peer is gone   *)
(* or a retirement's deadline passed, never after a shutdown, and for the  *)
(* first reason it was given.                                              *)
THEOREM LoopKeepsPromise == Spec => PromiseSpec
<1>1. TypeOK /\ WakeInv /\ ReasonInv /\ DrainInv /\ [Next]_vars
        => [Promise!Next]_Promise!vars
  BY PromiseStep
<1> QED
  BY <1>1, PromiseInit, DrainInvariant, PTL DEF Spec, PromiseSpec, Promise!Spec

-----------------------------------------------------------------------------
(* Idle reaping.                                                           *)

(* The requests in flight are counted by a number.                         *)
LEMMA FlyingFinite == IsFiniteSet(Flying) /\ Cardinality(Flying) \in Nat
<1>1. Flying \in SUBSET Requests
  BY DEF Flying, In
<1> QED
  BY <1>1, ConfigAssumption, FS_Subset, FS_CardinalityType

(* Some members leave a set and others join it.                            *)
LEMMA SwapCardinality ==
    ASSUME NEW S, NEW T, NEW U, IsFiniteSet(S), IsFiniteSet(T), IsFiniteSet(U),
           T \subseteq S, U \cap S = {}
    PROVE  Cardinality((S \ T) \cup U) = Cardinality(S) - Cardinality(T) + Cardinality(U)
<1>1. S \cap T = T /\ (S \ T) \cap U = {}
  OBVIOUS
<1>2. IsFiniteSet(S \ T) /\ Cardinality(S \ T) = Cardinality(S) - Cardinality(T)
  BY <1>1, FS_Difference
<1>3. Cardinality((S \ T) \cup U) = Cardinality(S \ T) + Cardinality(U) - Cardinality({})
  BY <1>1, <1>2, FS_Union
<1>4. /\ Cardinality(S \ T) \in Nat /\ Cardinality(U) \in Nat /\ Cardinality({}) = 0
      /\ Cardinality(S) \in Nat /\ Cardinality(T) \in Nat
  BY <1>2, FS_CardinalityType, FS_EmptySet
<1>5. PICK x \in Nat, u \in Nat : x = Cardinality(S \ T) /\ u = Cardinality(U)
  BY <1>4
<1>6. Cardinality((S \ T) \cup U) = x + u
  BY <1>3, <1>4, <1>5
<1> QED
  BY <1>2, <1>5, <1>6

(* A connection starts idle and with a fresh window.                       *)
LEMMA IdleInit == Init => IdleInv
<1> SUFFICES ASSUME Init PROVE IdleInv
  OBVIOUS
<1>1. Flying = {} /\ In("dropping") = {} /\ In("active") = {}
  BY DEF Init, Flying, In
<1>2. Cardinality(Flying) = 0
  BY <1>1, FS_EmptySet
<1>3. CountInv
  BY <1>1, <1>2, ConfigAssumption DEF Init, CountInv
<1>4. SilenceInv /\ WindowInv
  BY <1>1, ConfigAssumption DEF Init, SilenceInv, WindowInv
<1> QED
  BY <1>3, <1>4 DEF IdleInv

(* A connection that has left Serving is not reaped.                       *)
LEMMA IdleLeft ==
    ASSUME state' # "Serving"
    PROVE  IdleInv'
  BY DEF IdleInv, CountInv, SilenceInv, WindowInv

(* A step that moves no request and no window.                             *)
LEMMA IdleFrame ==
    ASSUME IdleInv, UNCHANGED <<state, inFlight, epoch, armedEpoch, loaded,
                                idleLeft, quiet, req>>,
           pc' = "snapshot" => pc = "snapshot", ~Http2' => ~Http2
    PROVE  IdleInv'
<1>1. \A st : In(st)' = In(st)
  BY DEF In
<1>2. Flying' = Flying /\ Live' = Live
  BY <1>1 DEF Flying, Live
<1>3. CountInv'
  BY <1>1, <1>2 DEF IdleInv, CountInv
<1>4. SilenceInv'
  BY DEF IdleInv, SilenceInv
<1>5. WindowInv'
  BY <1>1, <1>2 DEF IdleInv, WindowInv
<1> QED
  BY <1>3, <1>4, <1>5 DEF IdleInv

(* snapshot() loads in_flight: none in flight, and none will start before  *)
(* the second load; or one is, and the epoch will move when it completes.  *)
LEMMA SnapshotLoads ==
    ASSUME TypeOK, IdleInv, state = "Serving", MaxIdle # 0, idleLeft = 0,
           loaded' = inFlight, pc' = "snapshot",
           UNCHANGED <<state, inFlight, epoch, armedEpoch, idleLeft, quiet, hello, req>>
    PROVE  IdleInv'
<1>1. \A st : In(st)' = In(st)
  BY DEF In
<1>2. Flying' = Flying /\ Live' = Live
  BY <1>1 DEF Flying, Live
<1>3. inFlight = Cardinality(Flying)
  BY DEF IdleInv, CountInv
<1>4. inFlight = 0 <=> Flying = {}
  BY <1>3, FlyingFinite, FS_EmptySet
<1>5. Flying = {} => In("active") = {}
  BY DEF Flying
<1>6. CountInv'
  BY <1>1, <1>2, <1>4, <1>5 DEF IdleInv, CountInv
<1>7. SilenceInv' /\ WindowInv'
  BY <1>1, <1>2 DEF IdleInv, SilenceInv, WindowInv
<1> QED
  BY <1>6, <1>7 DEF IdleInv

(* The window is armed again, from the epoch that snapshot() saw.          *)
LEMMA RearmKeeps ==
    ASSUME TypeOK, IdleInv, state = "Serving", MaxIdle # 0, pc = "snapshot",
           ~(loaded = 0 /\ epoch = armedEpoch), pc' = "conn",
           idleLeft' = MaxIdle, armedEpoch' = epoch,
           UNCHANGED <<state, inFlight, epoch, quiet, hello, req>>
    PROVE  IdleInv'
<1>1. \A st : In(st)' = In(st)
  BY DEF In
<1>2. Flying' = Flying /\ Live' = Live
  BY <1>1 DEF Flying, Live
<1>3. idleLeft = 0 /\ MaxIdle \in Nat /\ quiet \in Nat /\ epoch \in Nat
  BY ConfigAssumption DEF IdleInv, CountInv, TypeOK
<1>4. CountInv'
  BY <1>2, <1>3 DEF IdleInv, CountInv
<1>5. SilenceInv'
  BY <1>3 DEF SilenceInv
<1>6. ASSUME Prompt, Live = {} PROVE quiet <= MaxIdle
  <2>1. epoch # armedEpoch
    BY <1>6 DEF IdleInv, CountInv, Live
  <2> QED
    BY <1>3, <1>6, <2>1 DEF IdleInv, WindowInv
<1>7. WindowInv'
  BY <1>1, <1>2, <1>3, <1>6 DEF IdleInv, WindowInv
<1> QED
  BY <1>4, <1>5, <1>7 DEF IdleInv

(* Time passes.  If the executor keeps up, the timer of a sleeping         *)
(* connection has not expired.                                             *)
LEMMA TickWindow ==
    ASSUME TypeOK, WakeInv, IdleInv, Tick
    PROVE  IdleInv'
<1>1. \A st : In(st)' = In(st)
  BY DEF In, Tick
<1>2. Flying' = Flying /\ Live' = Live
  BY <1>1 DEF Flying, Live
<1>3. /\ MaxIdle \in Nat /\ quiet \in Nat /\ epoch \in Nat /\ idleLeft \in Nat
      /\ idleLeft' = IF idleLeft = 0 THEN 0 ELSE idleLeft - 1
      /\ MaxIdle # 0 => quiet' = IF quiet = 2 * MaxIdle + 2 THEN quiet ELSE quiet + 1
      /\ UNCHANGED <<state, pc, inFlight, epoch, armedEpoch, loaded, hello>>
  BY ConfigAssumption DEF TypeOK, Tick, Dec, QuietCap
<1>4. CountInv'
  BY <1>1, <1>2, <1>3 DEF IdleInv, CountInv
<1>5. SilenceInv'
  BY <1>3 DEF IdleInv, SilenceInv
<1>6. ASSUME Prompt, state = "Serving", MaxIdle # 0 PROVE idleLeft # 0 /\ In("dropping") = {}
  <2>1. pc = "parked" /\ ~woken /\ In("dropping") = {}
    BY <1>6 DEF Tick
  <2> QED
    BY <1>6, <2>1 DEF WakeInv, CoverInv, Covered, IsReady
<1>7. WindowInv'
  BY <1>1, <1>2, <1>3, <1>6 DEF IdleInv, WindowInv
<1> QED
  BY <1>4, <1>5, <1>7 DEF IdleInv

(* The connection's own poll starts requests and completes those it drives *)
(* itself: with either, the epoch moves and the silence begins anew.       *)
LEMMA PendingCounts ==
    ASSUME TypeOK, IdleInv, PollConnPending
    PROVE  IdleInv'
<1>1. PICK D \in SUBSET In("arrived") :
        /\ req' = [r \in Requests |-> IF r \in D THEN "active"
                                      ELSE IF r \in DroppedByConn THEN "done"
                                      ELSE req[r]]
        /\ MaxIdle # 0 => /\ inFlight' = inFlight + Cardinality(D) - Cardinality(DroppedByConn)
                          /\ epoch' = epoch + Cardinality(D) + Cardinality(DroppedByConn)
        /\ quiet' = IF D \cup DroppedByConn = {} THEN quiet ELSE 0
  BY DEF PollConnPending
<1>2. /\ UNCHANGED <<state, armedEpoch, loaded, idleLeft, hello>>
      /\ pc' # "snapshot"
  BY DEF PollConnPending
<1> DEFINE F == DroppedByConn
<1>3. D \cap Flying = {} /\ F \subseteq Flying /\ D \subseteq Requests /\ F \subseteq Requests
  BY DEF Flying, In, DroppedByConn
<1>4. Flying' = (Flying \ F) \cup D /\ In("dropping")' = In("dropping")
  BY <1>1 DEF Flying, In, DroppedByConn, TypeOK
<1>5. PICK d \in Nat, f \in Nat, n \in Nat : d = Cardinality(D) /\ f = Cardinality(F) /\ n = Cardinality(Flying)
  BY <1>3, CardinalityNat, FlyingFinite
<1>6. Cardinality(Flying') = n - f + d
  <2>1. IsFiniteSet(Flying) /\ IsFiniteSet(F) /\ IsFiniteSet(D)
    BY <1>3, FlyingFinite, ConfigAssumption, FS_Subset
  <2> QED
    BY <1>3, <1>4, <1>5, <2>1, SwapCardinality
<1>7. D \cup F # {} => d + f > 0
  <2>1. (D # {} => d # 0) /\ (F # {} => f # 0)
    BY <1>3, <1>5, ConfigAssumption, FS_Subset, FS_EmptySet
  <2> QED
    BY <1>5, <2>1
<1>8. /\ MaxIdle \in Nat /\ quiet \in Nat /\ epoch \in Nat /\ armedEpoch \in Nat
      /\ idleLeft \in Nat
  BY ConfigAssumption DEF TypeOK
<1>9. MaxIdle # 0 => inFlight' = inFlight + d - f /\ epoch' = epoch + d + f
  BY <1>1, <1>5
<1>10. D \cup F = {} => d = 0 /\ f = 0
  BY <1>5, FS_EmptySet
<1> HIDE DEF F
<1>11. CountInv'
  BY <1>2, <1>5, <1>6, <1>8, <1>9 DEF IdleInv, CountInv
<1>12. SilenceInv'
  <2> SUFFICES ASSUME state = "Serving", MaxIdle # 0, ~Http2, epoch' = armedEpoch
               PROVE  quiet' + idleLeft >= MaxIdle
    BY <1>2 DEF SilenceInv
  <2>1. armedEpoch <= epoch
    BY DEF IdleInv, CountInv
  <2>2. D \cup F = {} /\ epoch = armedEpoch
    BY <1>5, <1>7, <1>8, <1>9, <2>1
  <2>3. quiet' = quiet
    BY <1>1, <2>2 DEF F
  <2> QED
    BY <2>2, <2>3 DEF IdleInv, SilenceInv
<1>13. WindowInv'
  <2> SUFFICES ASSUME Prompt, state = "Serving", MaxIdle # 0
               PROVE  /\ In("dropping") # {} => quiet' = 0
                      /\ Live' = {} => quiet' + idleLeft <= IF epoch' = armedEpoch
                                                            THEN 2 * MaxIdle ELSE MaxIdle
    BY <1>2, <1>4 DEF WindowInv
  <2>1. In("dropping") # {} => quiet' = 0
    BY <1>1 DEF IdleInv, WindowInv
  <2>2. ASSUME Live' = {}
        PROVE  quiet' + idleLeft <= IF epoch' = armedEpoch THEN 2 * MaxIdle ELSE MaxIdle
    <3>1. CASE D \cup F = {}
      <4>1. quiet' = quiet /\ epoch' = epoch
        BY <1>1, <1>8, <1>9, <1>10, <3>1 DEF F
      <4>2. req' = req
        BY <1>1, <3>1 DEF F, TypeOK
      <4>3. Live = {}
        BY <2>2, <4>2 DEF Live, Flying, In
      <4> QED
        BY <4>1, <4>3 DEF IdleInv, WindowInv
    <3>2. CASE D \cup F # {}
      <4>1. quiet' = 0 /\ armedEpoch <= epoch /\ idleLeft <= MaxIdle
        BY <1>1, <3>2 DEF F, IdleInv, CountInv
      <4>2. epoch' # armedEpoch
        BY <1>5, <1>7, <1>8, <1>9, <3>2, <4>1
      <4> QED
        BY <1>8, <4>1, <4>2
    <3> QED
      BY <3>1, <3>2
  <2> QED
    BY <2>1, <2>2
<1> QED
  BY <1>11, <1>12, <1>13 DEF IdleInv

(* A stream's task completes a request in two steps.                       *)
LEMMA StreamTaskCounts ==
    ASSUME TypeOK, IdleInv, NEW r \in Requests, StreamTask(r)
    PROVE  IdleInv'
<1>0. /\ MaxIdle \in Nat /\ quiet \in Nat /\ epoch \in Nat /\ armedEpoch \in Nat
      /\ idleLeft \in Nat /\ Http2
      /\ UNCHANGED <<state, pc, armedEpoch, loaded, idleLeft, hello>>
  BY ConfigAssumption DEF TypeOK, StreamTask, FinishInFlight, FinishEpoch
<1>1. SilenceInv'
  BY <1>0 DEF SilenceInv
<1>2. CASE FinishInFlight(r)
  <2>1. Flying' = Flying \ {r} /\ r \in Flying /\ r \in In("dropping")' /\ In("active")' = In("active")
    BY <1>2 DEF FinishInFlight, Flying, In, TypeOK
  <2>2. Cardinality(Flying') = Cardinality(Flying) - 1
    BY <2>1, FlyingFinite, FS_RemoveElement
  <2>3. quiet' = 0 /\ epoch' = epoch /\ (MaxIdle # 0 => inFlight' = inFlight - 1)
    BY <1>2 DEF FinishInFlight
  <2>4. CountInv'
    BY <1>0, <2>1, <2>2, <2>3 DEF IdleInv, CountInv
  <2>5. WindowInv'
    BY <1>0, <2>1, <2>3 DEF WindowInv, Live
  <2> QED
    BY <1>1, <2>4, <2>5 DEF IdleInv
<1>3. CASE FinishEpoch(r)
  <2>1. Flying' = Flying /\ In("active")' = In("active") /\ r \in In("dropping")
    BY <1>3 DEF FinishEpoch, Flying, In, TypeOK
  <2>2. quiet' = quiet /\ inFlight' = inFlight /\ (MaxIdle # 0 => epoch' = epoch + 1)
    BY <1>3 DEF FinishEpoch
  <2>3. CountInv'
    BY <1>0, <2>1, <2>2 DEF IdleInv, CountInv
  <2>4. WindowInv'
    <3> SUFFICES ASSUME Prompt, state = "Serving", MaxIdle # 0
                 PROVE  quiet' = 0 /\ quiet' + idleLeft <= MaxIdle /\ epoch' # armedEpoch
      BY <1>0 DEF WindowInv
    <3>1. quiet = 0 /\ idleLeft <= MaxIdle /\ armedEpoch <= epoch
      BY <2>1 DEF IdleInv, WindowInv, CountInv
    <3> QED
      BY <1>0, <2>2, <3>1
  <2> QED
    BY <1>1, <2>3, <2>4 DEF IdleInv
<1> QED
  BY <1>2, <1>3 DEF StreamTask

(* Requests arrive and are answered: the guards of those in flight stay.   *)
LEMMA RequestMoves ==
    ASSUME TypeOK, IdleInv, NEW r \in Requests, PeerSends(r) \/ HandlerDone(r)
    PROVE  IdleInv'
<1>1. /\ UNCHANGED <<state, pc, inFlight, epoch, armedEpoch, loaded, idleLeft, quiet, hello>>
      /\ Flying' = Flying /\ In("dropping")' = In("dropping")
      /\ In("active")' \subseteq In("active") /\ Live' # {}
  BY DEF PeerSends, HandlerDone, Live, Flying, In, TypeOK
<1>2. CountInv'
  BY <1>1 DEF IdleInv, CountInv
<1>3. SilenceInv'
  BY <1>1 DEF IdleInv, SilenceInv
<1>4. WindowInv'
  BY <1>1 DEF IdleInv, WindowInv
<1> QED
  BY <1>2, <1>3, <1>4 DEF IdleInv

(* Every step keeps the idle invariant.                                    *)
LEMMA IdleStep ==
    ASSUME TypeOK, WakeInv, IdleInv, [Next]_vars
    PROVE  IdleInv'
<1>1. CASE BeginPoll
  BY <1>1, IdleFrame DEF BeginPoll
<1>2. CASE PollConnReady
  BY <1>2, IdleLeft DEF PollConnReady, LogConnectionResult, Close
<1>3. CASE PollConnPending
  BY <1>3, PendingCounts
<1>4. CASE PollShutdown
  <2>1. CASE shutdown
    BY <1>4, <2>1, IdleLeft DEF PollShutdown
  <2>2. CASE ~shutdown
    BY <1>4, <2>2, IdleFrame DEF PollShutdown, Pending, AfterShutdownPoll
  <2> QED
    BY <2>1, <2>2
<1>5. CASE PollAge
  <2>1. Skip("idle") \/ Retire("MaxAge") \/ Pending("age", "idle")
    BY <1>5 DEF PollAge
  <2> QED
    BY <2>1, IdleFrame, IdleLeft DEF Skip, Retire, Pending
<1>6. CASE PollIdle
  <2>1. CASE MaxIdle = 0 \/ idleLeft # 0
    BY <1>6, <2>1, IdleFrame DEF PollIdle, Skip, Pending
  <2>2. CASE MaxIdle # 0 /\ idleLeft = 0
    <3>1. state = "Serving"
      BY <1>6 DEF PollIdle, WakeInv, PcInv
    <3> QED
      BY <1>6, <2>2, <3>1, SnapshotLoads DEF PollIdle
  <2> QED
    BY <2>1, <2>2
<1>7. CASE SnapshotEpoch
  <2>1. state = "Serving" /\ MaxIdle # 0 /\ pc = "snapshot"
    BY <1>7 DEF SnapshotEpoch, WakeInv, PcInv
  <2>2. CASE Retire("Idle")
    BY <2>2, IdleLeft DEF Retire
  <2>3. CASE ~(loaded = 0 /\ epoch = armedEpoch)
    BY <1>7, <2>1, <2>3, RearmKeeps DEF SnapshotEpoch
  <2> QED
    BY <1>7, <2>2, <2>3 DEF SnapshotEpoch
<1>8. CASE PollRequests
  <2>1. Skip("parked") \/ Retire("MaxRequests") \/ Pending("requests", "parked")
    BY <1>8 DEF PollRequests
  <2> QED
    BY <2>1, IdleFrame, IdleLeft DEF Skip, Retire, Pending
<1>9. CASE PollGrace
  <2>1. state = "Draining"
    BY <1>9 DEF PollGrace, WakeInv, PcInv
  <2> QED
    BY <1>9, <2>1, IdleLeft DEF PollGrace, Close, Pending
<1>10. CASE FireShutdown \/ Finished \/ UNCHANGED vars
  BY <1>10, IdleFrame DEF FireShutdown, Finished
<1>11. CASE PeerPicksProtocol
  BY <1>11, IdleFrame DEF PeerPicksProtocol
<1>12. CASE Tick
  BY <1>12, TickWindow
<1>13. CASE \E kind \in {"eof", "io", "timeout"} : ConnFault(kind)
  BY <1>13, IdleFrame DEF ConnFault
<1>14. CASE \E r \in Requests : PeerSends(r) \/ HandlerDone(r) \/ StreamTask(r)
  BY <1>14, RequestMoves, StreamTaskCounts
<1> QED
  BY <1>1, <1>2, <1>3, <1>4, <1>5, <1>6, <1>7, <1>8, <1>9, <1>10, <1>11, <1>12,
     <1>13, <1>14 DEF Next, Poll

(* The invariant of the idle window holds in every reachable state.        *)
LEMMA IdleInvariant == Spec => [](TypeOK /\ WakeInv /\ ReasonInv /\ DrainInv /\ IdleInv)
<1>1. TypeOK /\ WakeInv /\ IdleInv /\ [Next]_vars => IdleInv'
  BY IdleStep
<1> QED
  BY <1>1, IdleInit, DrainInvariant, PTL DEF Spec

(* Only the decision after snapshot() reaps a connection.                  *)
LEMMA ReapedBySnapshot ==
    ASSUME TypeOK, WakeInv, ReasonInv, DrainInv, [Next]_vars, Reaped
    PROVE  /\ pc = "snapshot" /\ state = "Serving" /\ MaxIdle # 0
           /\ loaded = 0 /\ epoch = armedEpoch
<1>1. CASE SnapshotEpoch
  BY <1>1 DEF SnapshotEpoch, Reaped, WakeInv, PcInv
<1>2. CASE PollConnReady
  BY <1>2, ReadyEnds DEF Reaped
<1>3. CASE PollShutdown \/ PollAge \/ PollIdle \/ PollRequests \/ PollGrace
  BY <1>3 DEF PollShutdown, PollAge, PollIdle, PollRequests, PollGrace, Retire,
     Skip, Pending, Close, Reaped
<1>4. CASE UNCHANGED reason
  BY <1>4 DEF Reaped
<1> QED
  BY <1>1, <1>2, <1>3, <1>4 DEF Next, Poll, BeginPoll, PollConnPending,
     FireShutdown, PeerPicksProtocol, PeerSends, ConnFault, HandlerDone,
     StreamTask, FinishInFlight, FinishEpoch, Tick, Finished

(* Idle reaping never retires a connection that is serving a request,      *)
(* though snapshot() reads in_flight and the epoch one after the other and *)
(* streams complete in between, for any number of requests.                *)
THEOREM ReapsOnlyTheQuiet == Spec => ReapOnlyWhenQuiet
<1>1. TypeOK /\ WakeInv /\ ReasonInv /\ DrainInv /\ IdleInv /\ [Next]_vars
        => (Reaped => In("active") = {})
  BY ReapedBySnapshot DEF IdleInv, CountInv
<1> QED
  BY <1>1, IdleInvariant, PTL DEF Spec, ReapOnlyWhenQuiet

(* Over HTTP/1.1 a reaped connection has been silent for a full window.    *)
THEOREM ReapsAfterAFullWindow == Spec => ReapAfterFullWindowHttp1
<1>1. ASSUME TypeOK, WakeInv, ReasonInv, DrainInv, IdleInv, [Next]_vars, Reaped, ~Http2
      PROVE  quiet >= MaxIdle
  <2>1. quiet \in Nat /\ idleLeft = 0 /\ quiet + idleLeft >= MaxIdle
    BY <1>1, ReapedBySnapshot DEF IdleInv, CountInv, SilenceInv, TypeOK
  <2> QED
    BY <2>1, ConfigAssumption
<1>2. TypeOK /\ WakeInv /\ ReasonInv /\ DrainInv /\ IdleInv /\ [Next]_vars
        => (Reaped /\ ~Http2 => quiet >= MaxIdle)
  BY <1>1
<1> QED
  BY <1>2, IdleInvariant, PTL DEF Spec, ReapAfterFullWindowHttp1

(* A silent connection is reaped within two windows of its last activity,  *)
(* if the executor keeps up with the clock.                                *)
THEOREM ReapsInTime == Spec => []ReapWithinTwoWindows
<1>1. TypeOK /\ IdleInv => ReapWithinTwoWindows
  <2> SUFFICES ASSUME TypeOK, IdleInv, Prompt, MaxIdle # 0, state = "Serving", Live = {}
               PROVE  quiet <= 2 * MaxIdle
    BY DEF ReapWithinTwoWindows, Live, Flying
  <2>1. /\ MaxIdle \in Nat /\ quiet \in Nat /\ idleLeft \in Nat
        /\ quiet + idleLeft <= 2 * MaxIdle \/ quiet + idleLeft <= MaxIdle
    BY ConfigAssumption DEF TypeOK, IdleInv, WindowInv
  <2> QED
    BY <2>1
<1> QED
  BY <1>1, IdleInvariant, PTL
=============================================================================
