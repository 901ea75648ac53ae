--------------------------- MODULE HealthChecker ---------------------------
(***************************************************************************)
(* The health service's `StaticChecker` (connectrpc-health/src/            *)
(* static_checker.rs) and the `Watch` streams it hands out (checker.rs,    *)
(* service.rs).  Each registration of a service makes a watch channel; the *)
(* registry holds its Sender, each Watch stream a Receiver.                *)
(*                                                                         *)
(* Registry operations run under one mutex and are one step each, except   *)
(* shutdown(), which visits the senders one by one: a Watch stream takes   *)
(* no part in that lock and may be polled between two of them.             *)
(***************************************************************************)
EXTENDS Integers, FiniteSets

CONSTANTS
    Services,       \* the names; the whole-process "" is one of them
    Watchers,       \* the Watch calls clients make
    MaxChannels,    \* bound: registrations
    MaxVersion      \* bound: status changes of one registration

Statuses == {"Unknown", "Serving", "NotServing"}

ASSUME HealthAssumption ==
    /\ IsFiniteSet(Services) /\ MaxChannels >= Cardinality(Services)
    /\ MaxChannels \in Nat /\ MaxVersion \in Nat

Channels == 1..MaxChannels
NoChannel == 0

VARIABLES
    registry,   \* the channel whose Sender each name maps to, or NoChannel
    status,     \* each channel's value ...
    version,    \* ... its version, and whether its Sender is gone
    closed,
    used,       \* channels made so far
    todo,       \* the Senders shutdown() has still to visit
    locked,     \* shutdown() holds the mutex
    watching,   \* each Watch stream's channel, NoChannel before the call
    seen,       \* the version it yielded last, -1 before the first
    shown,      \* history: the status it yielded last
    ended       \* it has yielded None

channels == <<status, version, closed, used>>
streams  == <<watching, seen, shown, ended>>
vars == <<registry, channels, todo, locked, streams>>

(* with_services: every name starts out Serving.                           *)
Init ==
    /\ used = Cardinality(Services)
    /\ registry = CHOOSE f \in [Services -> 1..used] :
                       \A s, t \in Services : f[s] = f[t] => s = t
    /\ status = [c \in Channels |-> "Serving"]
    /\ version = [c \in Channels |-> 0]
    /\ closed = [c \in Channels |-> FALSE]
    /\ todo = {} /\ locked = FALSE
    /\ watching = [w \in Watchers |-> NoChannel]
    /\ seen = [w \in Watchers |-> -1]
    /\ shown = [w \in Watchers |-> "none"]
    /\ ended = [w \in Watchers |-> FALSE]

Registered(s) == registry[s] # NoChannel

-----------------------------------------------------------------------------
(* Operations on the registry.                                             *)

(* register_with_status: a known name keeps its status and subscribers.    *)
Register(s, st) ==
    /\ ~locked /\ ~Registered(s) /\ used < MaxChannels
    /\ used' = used + 1
    /\ registry' = [registry EXCEPT ![s] = used + 1]
    /\ status' = [status EXCEPT ![used + 1] = st]
    /\ UNCHANGED <<version, closed, todo, locked, streams>>

(* send_if_modified on channel c: a no-op transition notifies nobody.      *)
ModifySilently(c, st) ==                                            \* mutant
    /\ status' = [status EXCEPT ![c] = st]
    /\ UNCHANGED version
SendIfModified(c, st) ==
    IF status[c] = st THEN UNCHANGED <<status, version>>
    ELSE /\ status' = [status EXCEPT ![c] = st]
         /\ version' = [version EXCEPT ![c] = @ + 1]

(* set_status: an unknown name is an error and changes nothing.            *)
SetStatus(s, st) ==
    /\ ~locked /\ Registered(s) /\ version[registry[s]] < MaxVersion
    /\ SendIfModified(registry[s], st)
    /\ UNCHANGED <<registry, closed, used, todo, locked, streams>>

(* remove_service drops the Sender.                                        *)
KeepSender(c) == UNCHANGED closed                                   \* mutant
DropSender(c) == closed' = [closed EXCEPT ![c] = TRUE]

RemoveService(s) ==
    /\ ~locked /\ Registered(s)
    /\ registry' = [registry EXCEPT ![s] = NoChannel]
    /\ DropSender(registry[s])
    /\ UNCHANGED <<status, version, used, todo, locked, streams>>

Senders == {registry[s] : s \in {s \in Services : Registered(s)}}

(* shutdown() takes the lock and keeps it through its loop.                *)
SnapshotOnly == todo' = Senders /\ UNCHANGED locked                 \* mutant
LockAll      == todo' = Senders /\ locked' = TRUE

BeginShutdown ==
    /\ ~locked /\ todo = {}
    /\ LockAll
    /\ UNCHANGED <<registry, channels, streams>>

(* The status change may take the version one past MaxVersion.             *)
ShutdownOne(c) ==
    /\ c \in todo
    /\ SendIfModified(c, "NotServing")
    /\ todo' = todo \ {c}
    /\ UNCHANGED <<registry, closed, used, locked, streams>>

EndShutdown ==
    /\ locked /\ todo = {}
    /\ locked' = FALSE
    /\ UNCHANGED <<registry, channels, todo, streams>>

-----------------------------------------------------------------------------
(* Watch streams.  A client that hangs up drops its Receiver, which        *)
(* send_if_modified does not mind: a Watch that is never polled again.     *)

(* watch(): subscribe to the name's Sender; NotFound for an unknown name.  *)
Watch(w, s) ==
    /\ ~locked /\ watching[w] = NoChannel /\ Registered(s)
    /\ watching' = [watching EXCEPT ![w] = registry[s]]
    /\ UNCHANGED <<registry, channels, todo, locked, seen, shown, ended>>

(* The stream is polled: it yields the current status at first, and then   *)
(* whenever the version has moved, even if the Sender is gone.             *)
Yield(w) ==
    /\ watching[w] # NoChannel /\ ~ended[w]
    /\ seen[w] < version[watching[w]]
    /\ seen' = [seen EXCEPT ![w] = version[watching[w]]]
    /\ shown' = [shown EXCEPT ![w] = status[watching[w]]]
    /\ UNCHANGED <<registry, channels, todo, locked, watching, ended>>

(* It ends once it has nothing new to yield and the Sender is gone.        *)
EndWatch(w) ==
    /\ watching[w] # NoChannel /\ ~ended[w]
    /\ seen[w] = version[watching[w]] /\ closed[watching[w]]
    /\ ended' = [ended EXCEPT ![w] = TRUE]
    /\ UNCHANGED <<registry, channels, todo, locked, watching, seen, shown>>

PollWatch(w) == Yield(w) \/ EndWatch(w)

ShutdownStep == (\E c \in Channels : ShutdownOne(c)) \/ EndShutdown

Next ==
    \/ \E s \in Services :
         \/ \E st \in Statuses : Register(s, st) \/ SetStatus(s, st)
         \/ RemoveService(s)
         \/ \E w \in Watchers : Watch(w, s)
    \/ BeginShutdown \/ ShutdownStep
    \/ \E w \in Watchers : PollWatch(w)

Spec == Init /\ [][Next]_vars

(* A Watch stream whose client keeps reading is polled; shutdown() is a    *)
(* loop that nothing blocks.                                               *)
FairSpec == /\ Spec /\ WF_vars(ShutdownStep)
            /\ \A w \in Watchers : WF_vars(PollWatch(w))

-----------------------------------------------------------------------------
(* Properties.                                                             *)

TypeOK ==
    /\ used \in 0..MaxChannels
    /\ registry \in [Services -> 0..used]
    /\ status \in [Channels -> Statuses]
    /\ version \in [Channels -> 0..(MaxVersion + 1)]
    /\ closed \in [Channels -> BOOLEAN]
    /\ todo \subseteq 1..used /\ locked \in BOOLEAN
    /\ watching \in [Watchers -> 0..used]
    /\ seen \in [Watchers -> -1..(MaxVersion + 1)]
    /\ shown \in [Watchers -> Statuses \cup {"none"}]
    /\ ended \in [Watchers -> BOOLEAN]

(* static_checker.rs:266, remove_service: a Watch stream that completes    *)
(* has yielded the last status its registration ever had.  The change and  *)
(* the removal may come back to back, before the stream is polled.         *)
LastStatusDelivered ==
    \A w \in Watchers : ended[w] => shown[w] = status[watching[w]]

(* remove_service (line 184): "Active Watch streams complete when the      *)
(* underlying Sender is dropped" -- also when the name is registered anew  *)
(* before they notice -- and until then a stream catches up with every     *)
(* status that lasts, one set while it was subscribing included.           *)
WatchersCatchUp ==
    \A w \in Watchers, c \in Channels :
      /\ (watching[w] = c /\ c \notin Senders) ~> ended[w]
      /\ (watching[w] = c) ~> (shown[w] = status[c])

(* shutdown (line 193): when it returns, every service then registered is  *)
(* NotServing, whatever set_status, register and remove_service calls      *)
(* were made while it went through the registry.                           *)
ShutdownMarksAll ==
    [][todo # {} /\ todo' = {} => \A c \in Senders' : status'[c] = "NotServing"]_vars
=============================================================================
