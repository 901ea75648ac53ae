--------------------------- MODULE RequestStream ---------------------------
(***************************************************************************)
(* The request side of a streaming call: `RequestBodyStream` and its drain *)
(* (connectrpc/src/service.rs) over the incremental `EnvelopeDecoder` and  *)
(* `EnvelopeAssembler` (connectrpc/src/envelope.rs).                       *)
(*                                                                         *)
(* The client sends a sequence of envelopes.  Only lengths matter to the   *)
(* framing, so the wire is a line of byte offsets: an envelope is its kind *)
(* and its payload's length, and a decoded message is the interval of      *)
(* offsets it was cut from.  The transport hands the bytes over in frames  *)
(* of any size; the handler polls the stream or lets go of it; what it     *)
(* leaves of the body is drained by a task with a timer.                   *)
(***************************************************************************)
EXTENDS Integers, Sequences, FiniteSets

CONSTANTS
    Bodies,         \* the envelope sequences a client may send
    HeaderSize,     \* HEADER_SIZE
    SlabHalf,       \* READ_SLAB_SIZE / 2: larger payloads get a Vec
    MaxMessage,     \* max_message_size
    Encoded,        \* the request names a streaming encoding
    MaxDrain,       \* MAX_DRAIN_BYTES
    DrainTimeout    \* DRAIN_TIMEOUT

Kinds == {"message", "compressed", "corrupt", "end"}

ASSUME StreamAssumption ==
    /\ HeaderSize \in Nat \ {0}
    /\ SlabHalf \in Nat /\ MaxMessage \in Nat
    /\ MaxDrain \in Nat /\ DrainTimeout \in Nat \ {0}
    /\ Encoded \in BOOLEAN
    /\ Bodies \subseteq Seq([kind : Kinds, len : Nat])

VARIABLES
    sent,       \* the envelopes this client is sending
    arrived,    \* bytes of them the transport has received
    close,      \* how the client's side of the body ended: "no", "eof", "error"
    owner,      \* who holds the body: the stream, the drain or nobody
    read,       \* bytes poll_frame has handed out
    frame,      \* DecodeState.frame: bytes of the last frame not consumed
    headerLen,  \* EnvelopeAssembler: header_len ...
    header,     \* ... the envelope its header declares, once complete ...
    filled,     \* ... the length of the payload assembled so far ...
    capacity,   \* ... and the capacity of the Vec it is assembled in
    pc,         \* where poll_next is; "idle" between polls
    held,       \* the handler still holds the stream
    delivered,  \* the messages the stream has yielded
    outcome,    \* what it yielded last of all, "none" before
    drained,    \* Drained.bytes
    timeLeft    \* the drain's timer

wire      == <<sent, arrived, close>>
assembler == <<headerLen, header, filled, capacity>>
stream    == <<pc, held, delivered, outcome>>
drain     == <<drained, timeLeft>>
vars == <<wire, owner, read, frame, assembler, stream, drain>>

-----------------------------------------------------------------------------
(* The bytes on the wire.                                                  *)

(* Offset of the first byte of envelope k, and of the end of the wire.     *)
Start(k) ==
    LET at[i \in 1..Len(sent) + 1] ==
            IF i = 1 THEN 0 ELSE at[i - 1] + HeaderSize + sent[i - 1].len
    IN  at[k]

Last == Start(Len(sent) + 1)

(* HeaderSize bytes from `offset` on, read as a header.  Where no envelope *)
(* starts they are some payload's bytes: a one-byte message, say.          *)
HeaderAt(offset) ==
    IF \E k \in 1..Len(sent) : Start(k) = offset
    THEN sent[CHOOSE k \in 1..Len(sent) : Start(k) = offset]
    ELSE [kind |-> "message", len |-> 1]

(* The next byte the decoder will consume.                                 *)
Position == read - frame

NoHeader == [kind |-> "message", len |-> 0]

-----------------------------------------------------------------------------
Init ==
    /\ sent \in Bodies /\ arrived = 0 /\ close = "no"
    /\ owner = "stream" /\ read = 0 /\ frame = 0
    /\ headerLen = 0 /\ header = NoHeader /\ filled = 0 /\ capacity = 0
    /\ pc = "idle" /\ held = TRUE /\ delivered = <<>> /\ outcome = "none"
    /\ drained = 0 /\ timeLeft = DrainTimeout

Least(a, b)    == IF a < b THEN a ELSE b
Greatest(a, b) == IF a > b THEN a ELSE b

-----------------------------------------------------------------------------
(* EnvelopeAssembler::feed, in its two parts.                              *)

ExceedsLimit(h) == h.len > MaxMessage

(* Bytes of the header and of the payload the rest of the frame holds.     *)
TakeHeader == Least(HeaderSize - headerLen, frame)
TakePayload(h, left) == Least(h.len - filled, left)

(* fill_body's allocation: double what has been received, up to the        *)
(* declared length.                                                        *)
GrowToDeclared(h, take) == h.len                                    \* mutant
Grow(h, take) == Least(h.len, Greatest(2 * capacity, filled + take))

(* A payload of at most half a slab is copied into the slab, a larger one  *)
(* into a Vec of its own.                                                  *)
CapacityAfter(h, take) ==
    IF h.len <= SlabHalf THEN 0
    ELSE IF capacity - filled < take THEN Grow(h, take) ELSE capacity

-----------------------------------------------------------------------------
(* request_body_drain and RequestBodyStream::finish.                       *)

(* is_end_stream: the transport has nothing more to hand out.              *)
BodyEnded == close = "eof" /\ read = arrived

(* Drained::add breaks.                                                    *)
PastLimit(bytes) == bytes > MaxDrain

(* finish(): the decoder goes with what it had assembled; the frame's rest *)
(* counts as discarded, and the body is drained unless nothing is left or  *)
(* too much was discarded already.                                         *)
FinishDrops(left) ==                                                \* mutant
    /\ owner' = "none" /\ drained' = left /\ UNCHANGED timeLeft
Finish(left) ==
    /\ drained' = left
    /\ owner' = IF (left > 0 /\ PastLimit(left)) \/ BodyEnded
                THEN "none" ELSE "drain"
    /\ timeLeft' = DrainTimeout

Forget == /\ frame' = 0 /\ headerLen' = 0 /\ header' = NoHeader
          /\ filled' = 0 /\ capacity' = 0

(* The stream ends with `result`, leaving `left` bytes of the last frame.  *)
EndWith(result, left) ==
    /\ outcome' = result /\ pc' = "idle"
    /\ Finish(left) /\ Forget
    /\ UNCHANGED <<wire, read, held, delivered>>

(* ... or because the body is over: nothing is left to drain.              *)
EndWithBody(result) ==
    /\ outcome' = result /\ pc' = "idle"
    /\ owner' = "none" /\ Forget
    /\ UNCHANGED <<wire, read, held, delivered, drain>>

-----------------------------------------------------------------------------
(* RequestBodyStream::poll_next, called by the handler while it holds the  *)
(* stream.  Once decoding is None a poll yields None and changes nothing.  *)

Poll ==
    /\ held /\ pc = "idle" /\ owner = "stream"
    /\ pc' = "decode"
    /\ UNCHANGED <<wire, owner, read, frame, assembler, held, delivered,
                   outcome, drain>>

(* The frame ends inside the header: keep its bytes, ask for another.      *)
DecodeHeaderPart ==
    /\ pc = "decode" /\ headerLen + TakeHeader < HeaderSize
    /\ headerLen' = headerLen + TakeHeader
    /\ frame' = 0 /\ pc' = "read"
    /\ UNCHANGED <<wire, owner, read, header, filled, capacity, held,
                   delivered, outcome, drain>>

(* The envelope whose payload is being assembled, and what is left of the  *)
(* frame once its header is complete.                                      *)
Declared  == IF headerLen < HeaderSize
             THEN HeaderAt(Position + TakeHeader - HeaderSize) ELSE header
LeftAfter == IF headerLen < HeaderSize THEN frame - TakeHeader ELSE frame

DecodeTooLarge ==
    /\ pc = "decode" /\ headerLen < HeaderSize
    /\ headerLen + TakeHeader = HeaderSize
    /\ ExceedsLimit(Declared)
    /\ EndWith("too_large", LeftAfter)

(* The header is complete and within the limit: take what there is of the  *)
(* payload.                                                                *)
InPayload ==
    /\ pc = "decode" /\ headerLen + TakeHeader = HeaderSize
    /\ headerLen < HeaderSize => ~ExceedsLimit(Declared)

DecodePayloadPart ==
    LET take == TakePayload(Declared, LeftAfter)
    IN  /\ InPayload /\ filled + take < Declared.len
        /\ headerLen' = HeaderSize /\ header' = Declared
        /\ filled' = filled + take
        /\ capacity' = CapacityAfter(Declared, take)
        /\ frame' = 0 /\ pc' = "read"
        /\ UNCHANGED <<wire, owner, read, held, delivered, outcome, drain>>

(* EnvelopeDecoder::decode: the payload is complete.                       *)
Undecodable(h) == \/ h.kind = "compressed" /\ ~Encoded
                  \/ h.kind = "corrupt"

KeepsHeader == headerLen' = headerLen                               \* mutant
ResetHeader == headerLen' = 0

(* The message goes to the handler: poll_next returns.                     *)
DecodeMessage ==
    LET take == TakePayload(Declared, LeftAfter)
        at   == read - (LeftAfter - take)
    IN  /\ InPayload /\ filled + take = Declared.len
        /\ Declared.kind # "end" /\ ~Undecodable(Declared)
        /\ delivered' = Append(delivered, [from |-> at - Declared.len, to |-> at])
        /\ ResetHeader
        /\ header' = NoHeader /\ filled' = 0 /\ capacity' = 0
        /\ frame' = LeftAfter - take
        /\ pc' = "idle"
        /\ UNCHANGED <<wire, owner, read, held, outcome, drain>>

DecodeEnd ==
    LET take == TakePayload(Declared, LeftAfter)
    IN  /\ InPayload /\ filled + take = Declared.len
        /\ Declared.kind = "end"
        /\ EndWith("end", LeftAfter - take)

DecodeFails ==
    LET take == TakePayload(Declared, LeftAfter)
    IN  /\ InPayload /\ filled + take = Declared.len
        /\ Undecodable(Declared)
        /\ EndWith("undecodable", LeftAfter - take)

(* poll_frame is pending, and so is poll_next.                             *)
ReadPending ==
    /\ pc = "read" /\ read = arrived /\ close = "no"
    /\ pc' = "idle"
    /\ UNCHANGED <<wire, owner, read, frame, assembler, held, delivered,
                   outcome, drain>>

(* A frame of n bytes; an empty one, or trailers, when n is 0.             *)
ReadFrame(n) ==
    /\ pc = "read" /\ n <= arrived - read
    /\ read' = read + n /\ frame' = n
    /\ pc' = "decode"
    /\ UNCHANGED <<wire, owner, assembler, held, delivered, outcome, drain>>

(* The transport failed, perhaps with received bytes still unread.         *)
ReadError ==
    /\ pc = "read" /\ close = "error"
    /\ EndWithBody("failed")

(* EnvelopeDecoder::finish: the body may end between two envelopes only.   *)
FinishDecoder == IF headerLen > 0 THEN "incomplete" ELSE "end"

ReadEof ==
    /\ pc = "read" /\ BodyEnded
    /\ EndWithBody(FinishDecoder)

(* The handler returns, is cancelled or times out: Drop is finish(false).  *)
HandlerDrops ==
    /\ held /\ pc = "idle"
    /\ held' = FALSE
    /\ IF owner = "stream" THEN Finish(frame) /\ Forget
       ELSE UNCHANGED <<owner, frame, assembler, drain>>
    /\ UNCHANGED <<wire, read, pc, delivered, outcome>>

-----------------------------------------------------------------------------
(* The drain task.                                                         *)

StopDrain == owner' = "none" /\ UNCHANGED <<wire, read, frame, assembler, stream>>

DrainTimesOut ==
    /\ owner = "drain" /\ timeLeft = 0
    /\ StopDrain /\ UNCHANGED drain

(* The select is biased: a frame is read only while the timer is pending.  *)
DrainPolls == owner = "drain" /\ timeLeft > 0

DrainOver ==
    /\ DrainPolls
    /\ close = "error" \/ BodyEnded
    /\ StopDrain /\ UNCHANGED drain

RestartTimer == timeLeft' = DrainTimeout                            \* mutant
KeepTimer    == UNCHANGED timeLeft      \* one timer for the whole drain

(* An empty frame, or trailers, discards nothing.                          *)
DrainFrame(n) ==
    /\ DrainPolls /\ n <= arrived - read
    /\ read' = read + n
    /\ drained' = drained + n
    /\ owner' = IF n > 0 /\ PastLimit(drained + n) THEN "none" ELSE "drain"
    /\ KeepTimer
    /\ UNCHANGED <<wire, frame, assembler, stream>>

Tick ==
    /\ owner = "drain" /\ timeLeft > 0
    /\ timeLeft' = timeLeft - 1
    /\ UNCHANGED <<wire, owner, read, frame, assembler, stream, drained>>

-----------------------------------------------------------------------------
(* The client.                                                             *)

ClientSends ==
    /\ close = "no" /\ arrived < Last
    /\ arrived' = arrived + 1
    /\ UNCHANGED <<sent, close, owner, read, frame, assembler, stream, drain>>

(* It may end the body anywhere, or the connection may fail.               *)
ClientCloses(how) ==
    /\ close = "no"
    /\ close' = how
    /\ UNCHANGED <<sent, arrived, owner, read, frame, assembler, stream, drain>>

Decode == \/ DecodeHeaderPart \/ DecodeTooLarge \/ DecodePayloadPart
          \/ DecodeMessage \/ DecodeEnd \/ DecodeFails

ReadBody == \/ ReadPending \/ ReadError \/ ReadEof
            \/ \E n \in 0..(arrived - read) : ReadFrame(n)

DrainTask == \/ DrainTimesOut \/ DrainOver
             \/ \E n \in 0..(arrived - read) : DrainFrame(n)

(* The call is over and its body gone.                                     *)
Finished == ~held /\ owner = "none" /\ close # "no" /\ UNCHANGED vars

Next ==
    \/ Poll \/ Decode \/ ReadBody \/ HandlerDrops
    \/ DrainTask \/ Tick \/ Finished
    \/ ClientSends \/ \E how \in {"eof", "error"} : ClientCloses(how)

Spec == Init /\ [][Next]_vars

(* The runtime polls the drain's task and its clock advances.  Nothing is  *)
(* assumed of the client or the handler.                                   *)
FairSpec == Spec /\ WF_vars(DrainTask) /\ WF_vars(Tick)

-----------------------------------------------------------------------------
TypeOK ==
    /\ sent \in Bodies /\ arrived \in 0..Last
    /\ close \in {"no", "eof", "error"}
    /\ owner \in {"stream", "drain", "none"}
    /\ read \in 0..arrived /\ frame \in 0..read
    /\ headerLen \in 0..HeaderSize /\ header \in [kind : Kinds, len : Nat]
    /\ filled \in 0..header.len /\ capacity \in 0..header.len
    /\ pc \in {"idle", "decode", "read"} /\ held \in BOOLEAN
    /\ delivered \in Seq([from : 0..Last, to : 0..Last])
    /\ outcome \in {"none", "end", "too_large", "undecodable", "incomplete", "failed"}
    /\ drained \in Nat /\ timeLeft \in 0..DrainTimeout

(* The reference: what the bytes mean, however they were split.            *)
Terminal(k)  == sent[k].kind = "end" \/ ExceedsLimit(sent[k]) \/ Undecodable(sent[k])
Decodable(n) == \A k \in 1..n : ~Terminal(k)
Payload(k)   == [from |-> Start(k) + HeaderSize, to |-> Start(k + 1)]

(* What decode yields for the envelope that ends the stream.               *)
ResultOf(e) == CASE ExceedsLimit(e)                      -> "too_large"
                 [] ~ExceedsLimit(e) /\ e.kind = "end"   -> "end"
                 [] OTHER                                -> "undecodable"

(* The messages a handler gets, and how its stream ends, depend on the     *)
(* bytes the client sent and not on how the transport cut them into        *)
(* frames: each message is the payload of one envelope, none is skipped,   *)
(* joined or cut short, and the stream ends with END_STREAM or an error    *)
(* exactly at the envelope that calls for it, with the body between two    *)
(* envelopes, or with an error for a body that ends inside one.            *)
SplitIndependent ==
    LET n == Len(delivered)
    IN  /\ n <= Len(sent) /\ Decodable(n)
        /\ \A k \in 1..n : delivered[k] = Payload(k)
        /\ outcome \in {"too_large", "undecodable", "end"} =>
             \/ n < Len(sent) /\ Terminal(n + 1) /\ ResultOf(sent[n + 1]) = outcome
             \/ outcome = "end" /\ close = "eof" /\ arrived = Start(n + 1)
        /\ outcome = "incomplete" =>
             close = "eof" /\ Start(n + 1) < arrived /\ arrived < Start(n + 2)
        /\ outcome = "failed" => close = "error"

(* EnvelopeAssembler: "at most min(declared length, 2 x bytes received)    *)
(* while in flight", and nothing at all for a payload over the limit.      *)
AllocationBounded ==
    /\ filled <= header.len /\ header.len <= MaxMessage
    /\ capacity <= Least(header.len, 2 * filled)

(* A body is let go of before its end only if it failed, if more than      *)
(* MAX_DRAIN_BYTES of it were thrown away or if DRAIN_TIMEOUT passed: on   *)
(* HTTP/1.1 the connection of an early-returning handler stays usable.     *)
BodyReadToEnd ==
    owner = "none" =>
        BodyEnded \/ close = "error" \/ drained > MaxDrain \/ timeLeft = 0

(* A body nobody reads any more is let go of, even if the client stalls,   *)
(* trickles empty frames or never ends it.                                 *)
BodyReleased == (~held \/ outcome # "none") ~> owner = "none"
=============================================================================
