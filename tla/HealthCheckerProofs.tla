------------------------ MODULE HealthCheckerProofs ------------------------
(***************************************************************************)
(* Theorems about HealthChecker, for any finite set of services, any set   *)
(* of Watch calls and any number of registrations and status changes.      *)
(***************************************************************************)
EXTENDS HealthChecker, FiniteSetTheorems, FunctionTheorems, TLAPS

(* Each name has a Sender of its own, none of them dropped; what is not    *)
(* made yet is as new.  Only shutdown takes a version past MaxVersion.     *)
RegistryInv ==
    /\ \A s, t \in Services : Registered(s) /\ registry[s] = registry[t] => s = t
    /\ \A s \in Services : Registered(s) => ~closed[registry[s]]
    /\ \A c \in Channels : c > used => ~closed[c] /\ version[c] = 0
    /\ \A c \in Channels : version[c] > MaxVersion => status[c] = "NotServing"

(* While shutdown() holds the lock, the senders it has visited are         *)
(* NotServing and those it has not are still the registry's.               *)
ShutdownInv ==
    /\ todo \subseteq Senders
    /\ todo # {} => locked
    /\ locked => \A c \in Senders \ todo : status[c] = "NotServing"

(* A stream is never ahead of its channel; level with it, it has shown     *)
(* what the channel holds; and it ended only when level and closed.        *)
StreamInv(w) ==
    /\ watching[w] = NoChannel => ~ended[w] /\ seen[w] = -1
    /\ watching[w] # NoChannel =>
         /\ seen[w] <= version[watching[w]]
         /\ seen[w] = version[watching[w]] => shown[w] = status[watching[w]]
    /\ ended[w] => closed[watching[w]] /\ seen[w] = version[watching[w]]

WatchInv == \A w \in Watchers : StreamInv(w)

-----------------------------------------------------------------------------
USE DEF channels, streams, vars, NoChannel

(* The names can be given channels of their own: that is what Init's       *)
(* choice rests on.                                                        *)
LEMMA InitialRegistry ==
    ASSUME Init
    PROVE  /\ used \in Nat /\ used <= MaxChannels
           /\ registry \in [Services -> 1..used]
           /\ \A s, t \in Services : registry[s] = registry[t] => s = t
<1>1. used = Cardinality(Services) /\ used \in Nat /\ ExistsBijection(1..used, Services)
  BY HealthAssumption, FS_CardinalityType DEF Init
<1>2. ExistsBijection(Services, 1..used)
  BY <1>1, Fun_ExistsBijSymmetric
<1>3. Bijection(Services, 1..used) # {}
  BY <1>2, Fun_ExistsBij
<1>4. PICK g : g \in Bijection(Services, 1..used)
  BY <1>3
<1>5. g \in [Services -> 1..used] /\ \A s, t \in Services : g[s] = g[t] => s = t
  BY <1>4, Fun_BijectionProperties
<1>6. registry = CHOOSE f \in [Services -> 1..used] :
                     \A s, t \in Services : f[s] = f[t] => s = t
  BY DEF Init
<1>7. /\ registry \in [Services -> 1..used]
      /\ \A s, t \in Services : registry[s] = registry[t] => s = t
  BY <1>5, <1>6
<1> QED
  BY <1>1, <1>7, HealthAssumption

(* A registered name's channel has been made.                              *)
LEMMA SenderMade ==
    ASSUME TypeOK, NEW s \in Services, Registered(s)
    PROVE  registry[s] \in Channels /\ registry[s] \in 1..used
  BY HealthAssumption DEF TypeOK, Channels, Registered

(* send_if_modified keeps the types while the version is within its bound. *)
LEMMA SendType ==
    ASSUME TypeOK, RegistryInv, NEW c \in Channels, NEW st \in Statuses,
           version[c] < MaxVersion \/ st = "NotServing",
           SendIfModified(c, st)
    PROVE  /\ status' \in [Channels -> Statuses]
           /\ version' \in [Channels -> 0..(MaxVersion + 1)]
           /\ \A d \in Channels : version'[d] > MaxVersion => status'[d] = "NotServing"
<1>0. /\ status \in [Channels -> Statuses] /\ MaxVersion \in Nat
      /\ version \in [Channels -> 0..(MaxVersion + 1)]
      /\ \A d \in Channels : version[d] > MaxVersion => status[d] = "NotServing"
  BY HealthAssumption DEF TypeOK, RegistryInv
<1>1. CASE status[c] = st
  BY <1>0, <1>1 DEF SendIfModified
<1>2. CASE status[c] # st
  <2>1. /\ status' = [status EXCEPT ![c] = st]
        /\ version' = [version EXCEPT ![c] = @ + 1]
    BY <1>2 DEF SendIfModified
  <2>2. version[c] \in 0..MaxVersion
    BY <1>0, <1>2
  <2>3. version[c] + 1 \in 0..(MaxVersion + 1)
    BY <1>0, <2>2
  <2>4. version[c] + 1 > MaxVersion => st = "NotServing"
    BY <1>0, <2>2
  <2> QED
    BY <1>0, <2>1, <2>3, <2>4
<1> QED
  BY <1>1, <1>2

(* The checker starts well typed, each name with a Sender of its own.      *)
LEMMA RegistryInit == Init => TypeOK /\ RegistryInv
<1> SUFFICES ASSUME Init PROVE TypeOK /\ RegistryInv
  OBVIOUS
<1>1. /\ used \in 0..MaxChannels /\ registry \in [Services -> 0..used]
  BY InitialRegistry, HealthAssumption
<1>2. closed \in [Channels -> BOOLEAN] /\ locked \in BOOLEAN
  BY DEF Init
<1>3. ended \in [Watchers -> BOOLEAN]
  BY DEF Init
<1>4. /\ status \in [Channels -> Statuses]
      /\ version \in [Channels -> 0..(MaxVersion + 1)]
      /\ todo \subseteq 1..used
      /\ watching \in [Watchers -> 0..used]
      /\ seen \in [Watchers -> -1..(MaxVersion + 1)]
      /\ shown \in [Watchers -> Statuses \cup {"none"}]
  BY <1>1, HealthAssumption DEF Init, Statuses
<1>5. RegistryInv
  <2>1. \A c \in Channels : closed[c] = FALSE /\ version[c] = 0
    BY DEF Init
  <2>2. \A s, t \in Services : registry[s] = registry[t] => s = t
    BY InitialRegistry
  <2>3. \A s \in Services : Registered(s) => registry[s] \in Channels
    BY <1>1, HealthAssumption DEF Registered, Channels
  <2> QED
    BY <2>1, <2>2, <2>3, HealthAssumption DEF RegistryInv
<1> QED
  BY <1>1, <1>2, <1>3, <1>4, <1>5 DEF TypeOK

(* Registering a name makes the next channel, which nothing refers to yet. *)
LEMMA RegisterKeeps ==
    ASSUME TypeOK, RegistryInv, NEW s \in Services, NEW st \in Statuses, Register(s, st)
    PROVE  TypeOK' /\ RegistryInv'
<1>1. /\ used' = used + 1 /\ used < MaxChannels /\ ~Registered(s)
      /\ registry' = [registry EXCEPT ![s] = used + 1]
      /\ status' = [status EXCEPT ![used + 1] = st]
      /\ UNCHANGED <<version, closed, todo, locked, streams>>
  BY DEF Register
<1>2. /\ used \in 0..MaxChannels /\ MaxChannels \in Nat /\ MaxVersion \in Nat
      /\ registry \in [Services -> 0..used] /\ status \in [Channels -> Statuses]
      /\ version \in [Channels -> 0..(MaxVersion + 1)] /\ todo \subseteq 1..used
      /\ watching \in [Watchers -> 0..used]
  BY HealthAssumption DEF TypeOK
<1>3. used + 1 \in Channels
  BY <1>1, <1>2 DEF Channels
<1>4. TypeOK'
  <2>1. /\ used' \in 0..MaxChannels /\ todo' \subseteq 1..used'
        /\ registry' \in [Services -> 0..used'] /\ watching' \in [Watchers -> 0..used']
    BY <1>1, <1>2
  <2>2. status' \in [Channels -> Statuses]
    BY <1>1, <1>2
  <2> QED
    BY <1>1, <2>1, <2>2 DEF TypeOK
<1>5. \A t \in Services : registry'[t] = IF t = s THEN used + 1 ELSE registry[t]
  BY <1>1, <1>2
<1>6. \A t \in Services : registry[t] # used + 1
  BY <1>2
<1>7. version[used + 1] = 0 /\ ~closed[used + 1]
  BY <1>2, <1>3 DEF RegistryInv
<1>8. \A t, u \in Services : Registered(t)' /\ registry'[t] = registry'[u] => t = u
  BY <1>5, <1>6 DEF RegistryInv, Registered
<1>9. \A t \in Services : Registered(t)' => ~closed'[registry'[t]]
  BY <1>1, <1>5, <1>7 DEF RegistryInv, Registered
<1>10. \A c \in Channels : c > used' => ~closed'[c] /\ version'[c] = 0
  BY <1>1, <1>2 DEF RegistryInv, Channels
<1>11. \A c \in Channels : version'[c] > MaxVersion => status'[c] = "NotServing"
  BY <1>1, <1>2, <1>7 DEF RegistryInv
<1> QED
  BY <1>4, <1>8, <1>9, <1>10, <1>11 DEF RegistryInv

(* A status change leaves the registry and the streams alone.              *)
LEMMA SendKeeps ==
    ASSUME TypeOK, RegistryInv, NEW c \in 1..used, NEW st \in Statuses,
           version[c] < MaxVersion \/ st = "NotServing", SendIfModified(c, st),
           UNCHANGED <<registry, closed, used, locked, streams>>, todo' \subseteq todo
    PROVE  TypeOK' /\ RegistryInv'
<1>1. used \in 0..MaxChannels /\ MaxChannels \in Nat
  BY HealthAssumption DEF TypeOK
<1>2. c \in Channels
  BY <1>1 DEF Channels
<1>3. /\ status' \in [Channels -> Statuses]
      /\ version' \in [Channels -> 0..(MaxVersion + 1)]
      /\ \A d \in Channels : version'[d] > MaxVersion => status'[d] = "NotServing"
  BY <1>2, SendType
<1>4. TypeOK'
  BY <1>3 DEF TypeOK
<1>5. \A d \in Channels : d # c => version'[d] = version[d]
  BY DEF SendIfModified, TypeOK
<1>6. \A d \in Channels : d > used' => ~closed'[d] /\ version'[d] = 0
  BY <1>1, <1>5 DEF RegistryInv, Channels
<1> QED
  BY <1>3, <1>4, <1>6 DEF RegistryInv, Registered

(* Removing a name drops its own Sender and no other.                      *)
LEMMA RemoveKeeps ==
    ASSUME TypeOK, RegistryInv, NEW s \in Services, RemoveService(s)
    PROVE  TypeOK' /\ RegistryInv'
<1>1. /\ Registered(s)
      /\ registry' = [registry EXCEPT ![s] = 0]
      /\ closed' = [closed EXCEPT ![registry[s]] = TRUE]
      /\ UNCHANGED <<status, version, used, todo, locked, streams>>
  BY DEF RemoveService, DropSender
<1>2. registry[s] \in Channels /\ registry[s] \in 1..used
  BY <1>1, SenderMade
<1>3. /\ used \in Nat /\ registry \in [Services -> 0..used]
  BY HealthAssumption DEF TypeOK
<1>4. registry' \in [Services -> 0..used]
  BY <1>1, <1>3
<1>5. closed' \in [Channels -> BOOLEAN]
  <2>1. closed \in [Channels -> BOOLEAN]
    BY DEF TypeOK
  <2> QED
    BY <1>1, <2>1, Zenon
<1>6. TypeOK'
  BY <1>1, <1>4, <1>5 DEF TypeOK
<1>7. \A t \in Services : Registered(t)' => t # s /\ registry'[t] = registry[t] /\ Registered(t)
  BY <1>1, <1>3 DEF Registered
<1>8. \A t, u \in Services : Registered(t)' /\ registry'[t] = registry'[u] => t = u
  BY <1>7 DEF RegistryInv, Registered
<1>9. \A d \in Channels : d # registry[s] => closed'[d] = closed[d]
  BY <1>1 DEF TypeOK
<1>10. \A t \in Services : Registered(t)' => ~closed'[registry'[t]]
  <2> SUFFICES ASSUME NEW t \in Services, Registered(t)' PROVE ~closed'[registry'[t]]
    OBVIOUS
  <2>1. Registered(t) /\ t # s /\ registry'[t] = registry[t]
    BY <1>7
  <2>2. registry[t] # registry[s] /\ registry[t] \in Channels /\ ~closed[registry[t]]
    BY <2>1, SenderMade DEF RegistryInv
  <2> QED
    BY <2>1, <2>2, <1>9
<1>11. \A c \in Channels : c > used' => ~closed'[c] /\ version'[c] = 0
  BY <1>1, <1>2, <1>3, <1>9 DEF RegistryInv
<1> QED
  BY <1>1, <1>6, <1>8, <1>10, <1>11 DEF RegistryInv

(* Every step keeps the types and the registry's invariant.                *)
LEMMA RegistryStep == TypeOK /\ RegistryInv /\ [Next]_vars => TypeOK' /\ RegistryInv'
<1> SUFFICES ASSUME TypeOK, RegistryInv, [Next]_vars
             PROVE  TypeOK' /\ RegistryInv'
  OBVIOUS
<1>1. ASSUME NEW s \in Services, NEW st \in Statuses, Register(s, st)
      PROVE  TypeOK' /\ RegistryInv'
  BY <1>1, RegisterKeeps
<1>2. ASSUME NEW s \in Services, NEW st \in Statuses, SetStatus(s, st)
      PROVE  TypeOK' /\ RegistryInv'
  <2>1. Registered(s) /\ version[registry[s]] < MaxVersion
    BY <1>2 DEF SetStatus
  <2>2. registry[s] \in 1..used
    BY <2>1, SenderMade
  <2>3. /\ SendIfModified(registry[s], st)
        /\ UNCHANGED <<registry, closed, used, locked, streams>> /\ todo' \subseteq todo
    BY <1>2 DEF SetStatus
  <2> QED
    BY <2>1, <2>2, <2>3, SendKeeps
<1>3. ASSUME NEW s \in Services, RemoveService(s)
      PROVE  TypeOK' /\ RegistryInv'
  BY <1>3, RemoveKeeps
<1>4. ASSUME NEW c \in Channels, ShutdownOne(c)
      PROVE  TypeOK' /\ RegistryInv'
  <2>1. /\ c \in 1..used /\ SendIfModified(c, "NotServing")
        /\ UNCHANGED <<registry, closed, used, locked, streams>> /\ todo' \subseteq todo
    BY <1>4 DEF ShutdownOne, TypeOK
  <2> QED
    BY <2>1, SendKeeps DEF Statuses
<1>5. CASE BeginShutdown \/ EndShutdown
  <2>1. UNCHANGED <<registry, channels, streams>>
    BY <1>5 DEF BeginShutdown, EndShutdown
  <2>2. Senders \subseteq 1..used
    BY SenderMade DEF Senders
  <2>3. todo' \subseteq 1..used /\ locked' \in BOOLEAN
    BY <1>5, <2>2 DEF BeginShutdown, EndShutdown, LockAll, TypeOK
  <2> QED
    BY <2>1, <2>3 DEF TypeOK, RegistryInv, Registered
<1>6. ASSUME NEW w \in Watchers, NEW s \in Services, Watch(w, s)
      PROVE  TypeOK' /\ RegistryInv'
  <2>1. /\ watching' = [watching EXCEPT ![w] = registry[s]] /\ Registered(s)
        /\ UNCHANGED <<registry, channels, todo, locked, seen, shown, ended>>
    BY <1>6 DEF Watch
  <2>2. watching' \in [Watchers -> 0..used]
    BY <2>1 DEF TypeOK
  <2> QED
    BY <2>1, <2>2 DEF TypeOK, RegistryInv, Registered
<1>7. ASSUME NEW w \in Watchers, Yield(w)
      PROVE  TypeOK' /\ RegistryInv'
  <2>1. /\ watching[w] # 0
        /\ seen' = [seen EXCEPT ![w] = version[watching[w]]]
        /\ shown' = [shown EXCEPT ![w] = status[watching[w]]]
        /\ UNCHANGED <<registry, channels, todo, locked, watching, ended>>
    BY <1>7 DEF Yield
  <2>2. watching[w] \in Channels
    BY <2>1, HealthAssumption DEF TypeOK, Channels
  <2>3. /\ version[watching[w]] \in -1..(MaxVersion + 1)
        /\ status[watching[w]] \in Statuses
    BY <2>2, HealthAssumption DEF TypeOK
  <2>4. /\ seen' \in [Watchers -> -1..(MaxVersion + 1)]
        /\ shown' \in [Watchers -> Statuses \cup {"none"}]
    BY <2>1, <2>3 DEF TypeOK
  <2> QED
    BY <2>1, <2>4 DEF TypeOK, RegistryInv, Registered
<1>8. ASSUME NEW w \in Watchers, EndWatch(w)
      PROVE  TypeOK' /\ RegistryInv'
  <2>1. /\ ended' = [ended EXCEPT ![w] = TRUE]
        /\ UNCHANGED <<registry, channels, todo, locked, watching, seen, shown>>
    BY <1>8 DEF EndWatch
  <2>2. ended' \in [Watchers -> BOOLEAN]
    <3>1. ended \in [Watchers -> BOOLEAN]
      BY DEF TypeOK
    <3> QED
      BY <2>1, <3>1, Zenon
  <2> QED
    BY <2>1, <2>2 DEF TypeOK, RegistryInv, Registered
<1>9. CASE UNCHANGED vars
  BY <1>9 DEF TypeOK, RegistryInv, Registered
<1> QED
  BY <1>1, <1>2, <1>3, <1>4, <1>5, <1>6, <1>7, <1>8, <1>9 DEF Next, ShutdownStep, PollWatch

(* Every variable of the checker keeps its type, and no two names ever     *)
(* share a channel.                                                        *)
THEOREM CheckerTyped == Spec => [](TypeOK /\ RegistryInv)
  BY RegistryInit, RegistryStep, PTL DEF Spec

-----------------------------------------------------------------------------
(* A status change of an open channel moves its version past what any      *)
(* stream has seen, and no stream of an open channel has ended.            *)
LEMMA SendKeepsStream ==
    ASSUME TypeOK, NEW w \in Watchers, StreamInv(w), NEW c \in Channels, NEW st,
           ~closed[c], SendIfModified(c, st), UNCHANGED <<closed, streams>>
    PROVE  StreamInv(w)'
<1>1. CASE status[c] = st
  BY <1>1 DEF SendIfModified, StreamInv
<1>2. CASE status[c] # st
  <2>1. /\ version' = [version EXCEPT ![c] = version[c] + 1]
        /\ status' = [status EXCEPT ![c] = st]
    BY <1>2 DEF SendIfModified
  <2>2. /\ version \in [Channels -> Int] /\ status \in [Channels -> Statuses]
        /\ seen[w] \in Int
    BY HealthAssumption DEF TypeOK
  <2>3. watching[w] # 0 => watching[w] \in Channels
    BY HealthAssumption DEF TypeOK, Channels
  <2>4. CASE watching[w] = c
    <3>1. ~ended[w]
      BY <2>4 DEF StreamInv
    <3>2. c # 0 /\ seen[w] <= version[c] /\ version'[c] = version[c] + 1
      BY <2>1, <2>2, <2>4 DEF StreamInv, Channels
    <3>3. seen[w] <= version'[c] /\ seen[w] # version'[c]
      BY <2>2, <3>2
    <3> QED
      BY <2>4, <3>1, <3>2, <3>3 DEF StreamInv
  <2>5. CASE watching[w] # c
    <3>1. watching[w] # 0 => /\ version'[watching[w]] = version[watching[w]]
                            /\ status'[watching[w]] = status[watching[w]]
      BY <2>1, <2>2, <2>3, <2>5
    <3> QED
      BY <3>1 DEF StreamInv
  <2> QED
    BY <2>4, <2>5
<1> QED
  BY <1>1, <1>2

(* Every step keeps what the streams rely on.                              *)
LEMMA WatchStep ==
    TypeOK /\ RegistryInv /\ ShutdownInv /\ WatchInv /\ [Next]_vars => WatchInv'
<1> SUFFICES ASSUME TypeOK, RegistryInv, ShutdownInv, WatchInv, [Next]_vars,
                    NEW w \in Watchers
             PROVE  StreamInv(w)'
  BY DEF WatchInv
<1>0. StreamInv(w)
  BY DEF WatchInv
<1>m. watching[w] # 0 => watching[w] \in Channels /\ watching[w] <= used
  BY HealthAssumption DEF TypeOK, Channels
<1>1. ASSUME NEW s \in Services, NEW st \in Statuses, Register(s, st)
      PROVE  StreamInv(w)'
  <2>1. /\ status' = [status EXCEPT ![used + 1] = st]
        /\ UNCHANGED <<version, closed, streams>>
    BY <1>1 DEF Register
  <2>2. used \in Nat /\ watching[w] \in Nat
    BY DEF TypeOK
  <2>3. watching[w] # 0 => status'[watching[w]] = status[watching[w]]
    BY <1>m, <2>1, <2>2 DEF TypeOK
  <2> QED
    BY <1>0, <2>1, <2>3 DEF StreamInv
<1>2. ASSUME NEW s \in Services, NEW st \in Statuses, SetStatus(s, st)
      PROVE  StreamInv(w)'
  <2>1. /\ Registered(s) /\ SendIfModified(registry[s], st) /\ UNCHANGED <<closed, streams>>
    BY <1>2 DEF SetStatus
  <2>2. registry[s] \in Channels /\ ~closed[registry[s]]
    BY <2>1, SenderMade DEF RegistryInv
  <2> QED
    BY <1>0, <2>1, <2>2, SendKeepsStream
<1>3. ASSUME NEW s \in Services, RemoveService(s)
      PROVE  StreamInv(w)'
  <2>1. /\ closed' = [closed EXCEPT ![registry[s]] = TRUE]
        /\ UNCHANGED <<status, version, streams>>
    BY <1>3 DEF RemoveService, DropSender
  <2>2. \A c \in Channels : closed[c] => closed'[c]
    BY <2>1 DEF TypeOK
  <2>3. ended[w] => closed'[watching[w]]
    BY <1>0, <1>m, <2>2 DEF StreamInv
  <2> QED
    BY <1>0, <2>1, <2>3 DEF StreamInv
<1>4. ASSUME NEW c \in Channels, ShutdownOne(c)
      PROVE  StreamInv(w)'
  <2>1. /\ c \in todo /\ SendIfModified(c, "NotServing") /\ UNCHANGED <<closed, streams>>
    BY <1>4 DEF ShutdownOne
  <2>2. ~closed[c]
    BY <2>1 DEF ShutdownInv, Senders, RegistryInv
  <2> QED
    BY <1>0, <2>1, <2>2, SendKeepsStream
<1>5. CASE BeginShutdown \/ EndShutdown \/ UNCHANGED vars
  <2>1. UNCHANGED <<channels, streams>>
    BY <1>5 DEF BeginShutdown, EndShutdown
  <2> QED
    BY <1>0, <2>1 DEF StreamInv
<1>6. ASSUME NEW v \in Watchers, NEW s \in Services, Watch(v, s)
      PROVE  StreamInv(w)'
  <2>1. /\ watching[v] = 0 /\ Registered(s)
        /\ watching' = [watching EXCEPT ![v] = registry[s]]
        /\ UNCHANGED <<channels, seen, shown, ended>>
    BY <1>6 DEF Watch
  <2>2. CASE v = w
    <3>1. watching'[w] = registry[s] /\ registry[s] \in Channels /\ registry[s] # 0
      BY <2>1, <2>2, SenderMade DEF TypeOK, Channels
    <3>2. ~ended[w] /\ seen[w] = -1
      BY <1>0, <2>1, <2>2 DEF StreamInv
    <3>3. version[registry[s]] \in Nat
      BY <3>1, HealthAssumption DEF TypeOK
    <3>4. seen[w] <= version[registry[s]] /\ seen[w] # version[registry[s]]
      BY <3>2, <3>3
    <3> QED
      BY <2>1, <3>1, <3>2, <3>4 DEF StreamInv
  <2>3. CASE v # w
    <3>1. watching'[w] = watching[w]
      BY <2>1, <2>3 DEF TypeOK
    <3> QED
      BY <1>0, <2>1, <3>1 DEF StreamInv
  <2> QED
    BY <2>2, <2>3
<1>7. ASSUME NEW v \in Watchers, Yield(v)
      PROVE  StreamInv(w)'
  <2>1. /\ watching[v] # 0 /\ ~ended[v]
        /\ seen' = [seen EXCEPT ![v] = version[watching[v]]]
        /\ shown' = [shown EXCEPT ![v] = status[watching[v]]]
        /\ UNCHANGED <<channels, watching, ended>>
    BY <1>7 DEF Yield
  <2>2. CASE v = w
    <3>1. seen'[w] = version[watching[w]] /\ shown'[w] = status[watching[w]]
      BY <2>1, <2>2 DEF TypeOK
    <3>2. version[watching[w]] \in Int
      BY <1>m, <2>1, <2>2, HealthAssumption DEF TypeOK
    <3> QED
      BY <2>1, <2>2, <3>1, <3>2 DEF StreamInv
  <2>3. CASE v # w
    <3>1. seen'[w] = seen[w] /\ shown'[w] = shown[w]
      BY <2>1, <2>3 DEF TypeOK
    <3> QED
      BY <1>0, <2>1, <3>1 DEF StreamInv
  <2> QED
    BY <2>2, <2>3
<1>8. ASSUME NEW v \in Watchers, EndWatch(v)
      PROVE  StreamInv(w)'
  <2>1. /\ watching[v] # 0 /\ seen[v] = version[watching[v]] /\ closed[watching[v]]
        /\ ended' = [ended EXCEPT ![v] = TRUE]
        /\ UNCHANGED <<channels, watching, seen, shown>>
    BY <1>8 DEF EndWatch
  <2>2. v # w => ended'[w] = ended[w]
    BY <2>1 DEF TypeOK
  <2> QED
    BY <1>0, <2>1, <2>2 DEF StreamInv
<1> QED
  BY <1>1, <1>2, <1>3, <1>4, <1>5, <1>6, <1>7, <1>8 DEF Next, ShutdownStep, PollWatch

(* The registry's senders change only when a name is registered or removed.*)
LEMMA SendersStable ==
    ASSUME registry' = registry
    PROVE  Senders' = Senders
  BY DEF Senders, Registered

(* Nothing but shutdown() touches the registry while it holds the lock.    *)
LEMMA ShutdownStepKeeps ==
    TypeOK /\ RegistryInv /\ ShutdownInv /\ [Next]_vars => ShutdownInv'
<1> SUFFICES ASSUME TypeOK, RegistryInv, ShutdownInv, [Next]_vars
             PROVE  ShutdownInv'
  OBVIOUS
<1>0. ASSUME ~locked, UNCHANGED <<todo, locked>>
      PROVE  ShutdownInv'
  BY <1>0 DEF ShutdownInv
<1>1. ASSUME NEW s \in Services, NEW st \in Statuses, Register(s, st) \/ SetStatus(s, st)
      PROVE  ShutdownInv'
  BY <1>0, <1>1 DEF Register, SetStatus
<1>8. ASSUME NEW s \in Services, RemoveService(s)
      PROVE  ShutdownInv'
  BY <1>0, <1>8 DEF RemoveService
<1>2. ASSUME NEW c \in Channels, ShutdownOne(c)
      PROVE  ShutdownInv'
  <2>1. /\ c \in todo /\ SendIfModified(c, "NotServing") /\ todo' = todo \ {c}
        /\ UNCHANGED <<registry, locked>>
    BY <1>2 DEF ShutdownOne
  <2>2. status'[c] = "NotServing" /\ \A d \in Channels : d # c => status'[d] = status[d]
    BY <2>1 DEF SendIfModified, TypeOK
  <2>3. Senders \subseteq Channels
    BY SenderMade DEF Senders
  <2> QED
    BY <2>1, <2>2, <2>3, SendersStable DEF ShutdownInv
<1>3. CASE BeginShutdown
  <2>1. todo' = Senders /\ locked' = TRUE /\ UNCHANGED registry
    BY <1>3 DEF BeginShutdown, LockAll
  <2> QED
    BY <2>1, SendersStable DEF ShutdownInv
<1>4. CASE EndShutdown
  BY <1>4, SendersStable DEF EndShutdown, ShutdownInv
<1>5. ASSUME NEW w \in Watchers, NEW s \in Services, Watch(w, s)
      PROVE  ShutdownInv'
  BY <1>5, SendersStable DEF Watch, ShutdownInv
<1>6. ASSUME NEW w \in Watchers, PollWatch(w)
      PROVE  ShutdownInv'
  BY <1>6, SendersStable DEF PollWatch, Yield, EndWatch, ShutdownInv
<1>7. CASE UNCHANGED vars
  BY <1>7, SendersStable DEF ShutdownInv
<1> QED
  BY <1>1, <1>2, <1>3, <1>4, <1>5, <1>6, <1>7, <1>8 DEF Next, ShutdownStep

(* The invariants hold from the start.                                     *)
LEMMA CheckerInvariant == Spec => [](TypeOK /\ RegistryInv /\ ShutdownInv /\ WatchInv)
<1>1. Init => ShutdownInv /\ WatchInv
  <2> SUFFICES ASSUME Init PROVE ShutdownInv /\ WatchInv
    OBVIOUS
  <2>1. todo = {} /\ ~locked
    BY DEF Init
  <2>2. \A w \in Watchers : watching[w] = 0 /\ ~ended[w] /\ seen[w] = -1
    BY DEF Init
  <2> QED
    BY <2>1, <2>2 DEF ShutdownInv, WatchInv, StreamInv
<1> QED
  BY <1>1, RegistryInit, RegistryStep, ShutdownStepKeeps, WatchStep, PTL DEF Spec

(* A Watch stream that completes has yielded the last status its           *)
(* registration ever had, however close together the last set_status and   *)
(* remove_service came.                                                    *)
THEOREM LastStatusIsDelivered == Spec => []LastStatusDelivered
<1>1. WatchInv => LastStatusDelivered
  <2> SUFFICES ASSUME WatchInv, NEW w \in Watchers, ended[w]
               PROVE  shown[w] = status[watching[w]]
    BY DEF LastStatusDelivered
  <2>1. watching[w] # NoChannel /\ seen[w] = version[watching[w]]
    BY DEF WatchInv, StreamInv
  <2> QED
    BY <2>1 DEF WatchInv, StreamInv
<1> QED
  BY <1>1, CheckerInvariant, PTL

(* When shutdown()'s loop ends, every service then registered is           *)
(* NotServing: no call could get between two of its senders.               *)
THEOREM ShutdownIsComplete == Spec => ShutdownMarksAll
<1>1. TypeOK /\ RegistryInv /\ ShutdownInv /\ [Next]_vars =>
        (todo # {} /\ todo' = {} => \A c \in Senders' : status'[c] = "NotServing")
  <2> SUFFICES ASSUME TypeOK, ShutdownInv', todo # {}, todo' = {}, [Next]_vars, ShutdownInv
               PROVE  \A c \in Senders' : status'[c] = "NotServing"
    BY ShutdownStepKeeps
  <2>1. locked /\ todo' # todo
    BY DEF ShutdownInv
  <2>2. locked' = locked
    BY <2>1 DEF Next, ShutdownStep, PollWatch, Register, SetStatus, RemoveService,
            BeginShutdown, ShutdownOne, EndShutdown, Watch, Yield, EndWatch
  <2> QED
    BY <2>1, <2>2 DEF ShutdownInv
<1> QED
  BY <1>1, CheckerInvariant, PTL DEF Spec, ShutdownMarksAll
=============================================================================
