--------------------------- MODULE ResponseStream ---------------------------
(***************************************************************************)
(* The response of a server-streaming or bidi call: the handler's stream,  *)
(* DeadlineStream around it (connectrpc/src/deadline.rs) and around that   *)
(* BatchingEnvelopeStream, which packs the messages into frames            *)
(* (connectrpc/src/service.rs).                                            *)
(*                                                                         *)
(* hyper polls the body whenever it was woken or was just given a frame,   *)
(* and when the peer has room for more: it may be late.  The handler's     *)
(* stream becomes ready and the clock advances between any two steps of a  *)
(* poll.                                                                   *)
(***************************************************************************)
EXTENDS Integers, Sequences

CONSTANTS
    Bodies,         \* encoded messages, each a sequence of segment sizes
    MaxItems,       \* bound: the messages a handler sends
    HeaderSize,     \* HEADER_SIZE
    MinChain,       \* MIN_CHAIN_SIZE
    Threshold,      \* STREAM_BATCH_THRESHOLD
    Asserted,       \* the timeouts a client may ask for, Absent among them
    MinTimeout, MaxTimeout, DefaultTimeout,     \* DeadlinePolicy.min, .max,
                                                \*   .default
    Enforce,        \* DeadlinePolicy.enforce_on_streams
    Gap             \* DeadlinePolicy.inter_message_timeout, 0 if there is none

Absent == -1        \* a timeout or a timer that is None

ASSUME StreamAssumption ==
    /\ Bodies \subseteq Seq(Nat) /\ MaxItems \in Nat
    /\ HeaderSize \in Nat /\ MinChain \in Nat \ {0} /\ Threshold \in Nat \ {0}
    /\ Asserted \subseteq Nat \cup {Absent}
    /\ MinTimeout \in Nat
    /\ MaxTimeout \in Nat \cup {Absent} /\ DefaultTimeout \in Nat \cup {Absent}
    /\ Enforce \in BOOLEAN /\ Gap \in Nat

VARIABLES
    phase,      \* "handler" until it returns a stream, then "streaming";
                \*   "error" if the response is an error without a stream
    left,       \* time to the request's deadline, Absent if it has none
    inner,      \* the handler's stream: "working", or ready with an "item",
                \*   an "error" or its end ("ended"), or "dropped"
    body,       \* the message it is ready with
    items,      \* messages it has sent
    gap,        \* DeadlineStream.per_item: time left, Absent if not armed
    pc,         \* "parked" between polls, else the next step of poll_next
    woken,      \* hyper will poll the body (again)
    armed,      \* the timers and streams that hold the task's waker
    buf,        \* BatchingEnvelopeStream.buf: units in wire order
    segs,       \* .pending_segments
    pendingFinal,   \* .pending_final: "ok", "error", or "none"
    done,       \* .done
    wire,       \* history: what hyper was given
    taken,      \* history: the envelopes of the messages that were encoded
    cause,      \* history: why the stream ended
    since       \* history: time since the last message or the first poll

call     == <<phase, left>>
handler  == <<inner, body, items>>
task     == <<pc, woken, armed>>
batch    == <<buf, segs, pendingFinal, done>>
vars     == <<call, handler, gap, task, batch, wire, taken, cause, since>>

-----------------------------------------------------------------------------
(* DeadlinePolicy::moderate: clamp what the client asks for; a floor above *)
(* the cap gives way to it.  The default is the server's and not clamped.  *)
Moderate(asserted) ==
    LET capped == MaxTimeout # Absent
        lower  == IF capped /\ MaxTimeout < MinTimeout THEN MaxTimeout
                                                        ELSE MinTimeout
    IN  CASE asserted = Absent                      -> DefaultTimeout
          [] asserted # Absent /\ asserted < lower  -> lower
          [] capped /\ asserted > MaxTimeout        -> MaxTimeout
          [] OTHER                                  -> asserted

(* The wire format.  A unit is written or moved as one piece: part 0 of a  *)
(* message is its envelope header, with the payload if that is small; the  *)
(* segments of a large payload follow as parts 1, 2, ...                   *)
Sum(sizes) == LET upTo[i \in 0..Len(sizes)] ==
                    IF i = 0 THEN 0 ELSE upTo[i - 1] + sizes[i]
              IN  upTo[Len(sizes)]

Total(b)   == Sum(b)
Chained(b) == Total(b) >= MinChain

Unit(n, p, b) == [item |-> n, part |-> p, body |-> b]

Head0(n, b)    == <<Unit(n, 0, b)>>
Segments(n, b) == IF Chained(b) THEN [p \in 1..Len(b) |-> Unit(n, p, b)] ELSE <<>>

SizeOf(u) == IF u.part > 0 THEN u.body[u.part]
             ELSE HeaderSize + IF Chained(u.body) THEN 0 ELSE Total(u.body)
Size(s)   == Sum([i \in 1..Len(s) |-> SizeOf(s[i])])

(* StreamFinalizer: an END_STREAM envelope or trailers, with the outcome.  *)
Final(how) == [final |-> how]

Outcome(why) == IF why = "end" THEN "ok" ELSE "error"

-----------------------------------------------------------------------------
Init ==
    /\ phase = "handler" /\ left \in {Moderate(a) : a \in Asserted}
    /\ inner = "working" /\ body = <<>> /\ items = 0
    /\ gap = Absent
    /\ pc = "parked" /\ woken = TRUE /\ armed = {}
    /\ buf = <<>> /\ segs = <<>> /\ pendingFinal = "none" /\ done = FALSE
    /\ wire = <<>> /\ taken = <<>> /\ cause = "none"
    /\ since = 0

(* The handler returns its stream in time (timeout_at polls it before it   *)
(* looks at the clock) ...                                                 *)
HandlerReturns ==
    /\ phase = "handler"
    /\ phase' = "streaming"
    /\ UNCHANGED <<left, handler, gap, task, batch, wire, taken, cause, since>>

(* ... or fails, or runs out of time: streaming_error_response.            *)
HandlerFails ==
    /\ phase = "handler"
    /\ phase' = "error" /\ inner' = "dropped"
    /\ done' = TRUE /\ wire' = <<Final("error")>>
    /\ \/ cause' = "error"
       \/ left = 0 /\ cause' = "deadline"
    /\ UNCHANGED <<left, body, items, gap, task, buf, segs, pendingFinal, taken,
                   since>>

Wake(src) == /\ woken' = (woken \/ src \in armed)
             /\ armed' = armed \ {src}

(* The handler's stream has a message, fails or ends.                      *)
Becomes(what) ==
    /\ phase = "streaming" /\ inner = "working"
    /\ inner' = what
    /\ Wake("inner")
    /\ UNCHANGED <<call, gap, pc, batch, wire, taken, cause, since>>

Produce == /\ items < MaxItems
           /\ Becomes("item")
           /\ items' = items + 1 /\ body' \in Bodies
Fail    == Becomes("error") /\ UNCHANGED <<items, body>>
End     == Becomes("ended") /\ UNCHANGED <<items, body>>

(* A deadline that has lapsed stays at zero.                               *)
Dec(t) == IF t > 0 THEN t - 1 ELSE t

Tick ==
    /\ left > 0 \/ gap > 0
    /\ left' = Dec(left) /\ gap' = Dec(gap)
    /\ since' = IF gap = Absent \/ since = Gap THEN since ELSE since + 1
    /\ LET fired == {src \in armed : \/ src = "absolute" /\ left' = 0
                                     \/ src = "gap" /\ gap' = 0}
       IN  woken' = (woken \/ fired # {}) /\ armed' = armed \ fired
    /\ UNCHANGED <<phase, handler, pc, batch, wire, taken, cause>>

-----------------------------------------------------------------------------
(* BatchingEnvelopeStream::poll_next.                                      *)

(* It returns a frame: hyper comes back for more, unless this was the last *)
Ready == pc' = "parked" /\ woken' = TRUE

Flush == wire' = wire \o buf /\ buf' = <<>>

(* The source ended: the partial batch goes first, the final frame with    *)
(* the next poll.                                                          *)
DropsPartialBatch(why) ==   \* mutant
    /\ cause' = why
    /\ wire' = Append(wire, Final(Outcome(why))) /\ done' = TRUE
    /\ Ready
    /\ UNCHANGED <<buf, segs, pendingFinal>>
FinishWith(why) ==
    /\ cause' = why
    /\ IF buf = <<>>
       THEN /\ wire' = Append(wire, Final(Outcome(why))) /\ done' = TRUE
            /\ UNCHANGED <<buf, pendingFinal>>
       ELSE /\ pendingFinal' = Outcome(why) /\ Flush
            /\ UNCHANGED done
    /\ Ready
    /\ UNCHANGED segs

BeginPoll ==
    /\ phase = "streaming" /\ pc = "parked" /\ woken
    /\ woken' = FALSE
    /\ pc' = IF done THEN "parked" ELSE "staged"
    /\ UNCHANGED <<call, handler, gap, armed, batch, wire, taken, cause, since>>

(* drain_segments, called at the start of a poll ("staged") and after a    *)
(* message was encoded ("segments"): a small segment joins the batch, a    *)
(* large one is a frame of its own once the batch before it has left.      *)
SegmentsUnbounded ==        \* mutant
    /\ pc \in {"staged", "segments"} /\ segs # <<>>
    /\ IF SizeOf(Head(segs)) < MinChain
       THEN /\ segs' = Tail(segs) /\ buf' = Append(buf, Head(segs))
            /\ UNCHANGED <<pc, woken, wire>>
       ELSE /\ IF buf = <<>> THEN /\ wire' = Append(wire, Head(segs))
                                  /\ segs' = Tail(segs) /\ UNCHANGED buf
                             ELSE Flush /\ UNCHANGED segs
            /\ Ready
    /\ UNCHANGED <<call, handler, gap, armed, pendingFinal, done, taken, cause,
                   since>>

DrainSegment ==
    /\ pc \in {"staged", "segments"} /\ segs # <<>>
    /\ LET s == Head(segs)
       IN  \/ /\ SizeOf(s) < MinChain
              /\ segs' = Tail(segs)
              /\ IF Size(Append(buf, s)) < Threshold
                 THEN buf' = Append(buf, s) /\ UNCHANGED <<pc, woken, wire>>
                 ELSE buf' = <<>> /\ wire' = wire \o Append(buf, s) /\ Ready
           \/ /\ SizeOf(s) >= MinChain /\ buf = <<>>
              /\ segs' = Tail(segs) /\ wire' = Append(wire, s) /\ Ready
              /\ UNCHANGED buf
           \/ /\ SizeOf(s) >= MinChain /\ buf # <<>>
              /\ Flush /\ Ready
              /\ UNCHANGED segs
    /\ UNCHANGED <<call, handler, gap, armed, pendingFinal, done, taken, cause,
                   since>>

(* Nothing is pending: emit the staged final frame or go to the source.    *)
EmitFinal ==
    /\ pc = "staged" /\ segs = <<>>
    /\ IF pendingFinal = "none"
       THEN pc' = "source" /\ UNCHANGED <<woken, wire, pendingFinal, done>>
       ELSE /\ wire' = Append(wire, Final(pendingFinal))
            /\ pendingFinal' = "none" /\ done' = TRUE /\ Ready
    /\ UNCHANGED <<call, handler, gap, armed, buf, segs, taken, cause, since>>

(* The message is encoded: flush a full batch, or ask for the next.        *)
Encoded ==
    /\ pc = "segments" /\ segs = <<>>
    /\ IF Size(buf) >= Threshold
       THEN Flush /\ Ready
       ELSE pc' = "source" /\ UNCHANGED <<woken, wire, buf>>
    /\ UNCHANGED <<call, handler, gap, armed, segs, pendingFinal, done, taken,
                   cause, since>>

-----------------------------------------------------------------------------
(* DeadlineStream::poll_next, called by the loop above.                    *)

LapsedUnlessReady(src) ==   \* mutant
    \/ src = "absolute" /\ Enforce /\ left = 0 /\ inner # "item"
    \/ src = "gap" /\ gap = 0
Lapsed(src) == \/ src = "absolute" /\ Enforce /\ left = 0
               \/ src = "gap" /\ gap = 0

TimersUnpolled(g) == {}     \* mutant
TimersOf(g) == (IF Enforce /\ left # Absent THEN {"absolute"} ELSE {})
                 \cup (IF g # Absent THEN {"gap"} ELSE {})

(* Arm the gap at the first poll, then look at the deadline and the gap.   *)
ArmGap == IF gap = Absent /\ Gap # 0 THEN Gap ELSE gap

PollTimers ==
    /\ pc = "source"
    /\ \/ /\ Lapsed("absolute")
          /\ inner' = "dropped" /\ gap' = ArmGap
          /\ FinishWith("deadline")
          /\ UNCHANGED armed
       \/ /\ ~Lapsed("absolute") /\ Lapsed("gap")
          /\ inner' = "dropped" /\ UNCHANGED gap
          /\ FinishWith("stall")
          /\ UNCHANGED armed
       \/ /\ ~Lapsed("absolute") /\ ~Lapsed("gap")
          /\ gap' = ArmGap
          /\ armed' = armed \cup TimersOf(gap')
          /\ pc' = "inner"
          /\ UNCHANGED <<inner, woken, batch, wire, cause>>
    /\ UNCHANGED <<call, body, items, taken, since>>

(* An item of the handler's stream restarts the gap: a new timer, which    *)
(* nothing has polled yet.                                                 *)
KeepsGap == armed' = armed /\ since' = 0 /\ gap' = gap  \* mutant
Rearm ==
    /\ gap' = IF Gap # 0 THEN Gap ELSE Absent
    /\ armed' = armed \ {"gap"}
    /\ since' = 0

(* encode_chained appends the message to the batch, or fails (it cannot be *)
(* compressed or is too long) and leaves the batch as it was.              *)
TakeItem ==
    /\ pc = "inner" /\ inner = "item"
    /\ inner' = "working"
    /\ Rearm
    /\ \/ /\ buf' = buf \o Head0(items, body)
          /\ segs' = segs \o Segments(items, body)
          /\ taken' = taken \o Head0(items, body) \o Segments(items, body)
          /\ pc' = "segments"
          /\ UNCHANGED <<woken, pendingFinal, done, wire, cause>>
       \/ FinishWith("encode") /\ UNCHANGED taken
    /\ UNCHANGED <<call, body, items>>

TakeError ==
    /\ pc = "inner" /\ inner = "error"
    /\ inner' = "working"
    /\ Rearm
    /\ FinishWith("error")
    /\ UNCHANGED <<call, body, items, taken>>

TakeEnd ==
    /\ pc = "inner" /\ inner = "ended"
    /\ inner' = "dropped"
    /\ FinishWith("end")
    /\ UNCHANGED <<call, body, items, gap, armed, taken, since>>

(* The handler has nothing yet: deliver the partial batch, or wait.        *)
HoldsPartialBatch ==        \* mutant
    /\ pc = "inner" /\ inner = "working"
    /\ armed' = armed \cup {"inner"}
    /\ pc' = "parked" /\ UNCHANGED <<woken, wire, buf>>
    /\ UNCHANGED <<call, handler, gap, segs, pendingFinal, done, taken, cause,
                   since>>
InnerPending ==
    /\ pc = "inner" /\ inner = "working"
    /\ armed' = armed \cup {"inner"}
    /\ IF buf = <<>>
       THEN pc' = "parked" /\ UNCHANGED <<woken, wire, buf>>
       ELSE Flush /\ Ready
    /\ UNCHANGED <<call, handler, gap, segs, pendingFinal, done, taken, cause,
                   since>>

Poll == \/ BeginPoll \/ DrainSegment \/ EmitFinal \/ Encoded
        \/ PollTimers \/ TakeItem \/ TakeError \/ TakeEnd \/ InnerPending

(* The body has ended and hyper has seen it end.                           *)
Finished == done /\ (phase = "error" \/ ~woken) /\ UNCHANGED vars

Next == \/ HandlerReturns \/ HandlerFails \/ Produce \/ Fail \/ End
        \/ Tick \/ Poll \/ Finished

Spec == Init /\ [][Next]_vars

(* The peer keeps reading, so that hyper keeps polling, and time passes.   *)
FairSpec == Spec /\ WF_vars(Poll) /\ WF_vars(Tick)

-----------------------------------------------------------------------------
Units  == [item : Nat, part : Nat, body : Bodies]
Finals == {Final("ok"), Final("error")}
Causes == {"none", "end", "error", "encode", "deadline", "stall"}

TypeOK ==
    /\ phase \in {"handler", "streaming", "error"}
    /\ left \in Nat \cup {Absent} /\ gap \in Nat \cup {Absent}
    /\ inner \in {"working", "item", "error", "ended", "dropped"}
    /\ inner = "item" => body \in Bodies
    /\ items \in Nat
    /\ pc \in {"parked", "staged", "segments", "source", "inner"}
    /\ woken \in BOOLEAN /\ armed \subseteq {"absolute", "gap", "inner"}
    /\ buf \in Seq(Units) /\ segs \in Seq(Units) /\ taken \in Seq(Units)
    /\ wire \in Seq(Units \cup Finals)
    /\ pendingFinal \in {"none", "ok", "error"} /\ done \in BOOLEAN
    /\ cause \in Causes
    /\ since \in Nat

(* Every message the framing took from the handler reaches the peer once   *)
(* and in order, also those of a partial batch and the segments of a large *)
(* one, and then one final frame with the outcome, however the stream ends *)
BytesInOrder ==
    IF done THEN wire = taken \o <<Final(Outcome(cause))>>
            ELSE wire \o buf \o segs = taken

(* A body that told hyper to wait has nothing it could deliver: neither an *)
(* unsent byte nor a ready message nor a timer that has lapsed.            *)
NothingWithheld ==
    phase = "streaming" /\ pc = "parked" /\ ~woken /\ ~done
      => /\ buf = <<>> /\ segs = <<>> /\ pendingFinal = "none"
         /\ inner = "working"
         /\ ~Lapsed("absolute") /\ ~Lapsed("gap")

(* What is copied for one frame is bounded whatever the handler sends:     *)
(* less than a full batch, and one more envelope or segment.               *)
BatchBounded == Size(buf) <= (Threshold - 1) + HeaderSize + (MinChain - 1)

(* A stream is not cut as stalled sooner than inter_message_timeout after  *)
(* its last message, or after hyper first polled it.                       *)
StallNotEarly == [][cause' = "stall" /\ cause = "none" => since >= Gap]_vars

(* A stream with an enforced deadline or an inter-message timeout ends,    *)
(* even if its handler hangs, and even if it never stops sending: a        *)
(* message is taken past the deadline only when the deadline lapsed after  *)
(* that very poll had looked at it, and then the wake-up is there that     *)
(* makes the next poll see it.                                             *)
StreamEnds ==
    /\ phase = "streaming" /\ (Gap # 0 \/ (Enforce /\ left # Absent)) ~> done
    /\ [][inner = "item" /\ inner' = "working" /\ Enforce /\ left = 0 => woken]_vars
=============================================================================
