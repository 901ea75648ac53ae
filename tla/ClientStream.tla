---------------------------- MODULE ClientStream ----------------------------
(***************************************************************************)
(* One call of a client (connectrpc/src/client/mod.rs), of one `kind`:     *)
(*   bidi    the two halves of a `BidiStream`, the spawned transport send, *)
(*           the spawned construction of the response, and the             *)
(*           `ServerStream` that decodes it and records how the call ended *)
(*   server  call_server_stream, which awaits a `ServerStream`             *)
(*   client  call_client_stream, which awaits the one response message;    *)
(*           a unary gRPC call is one whose upload cannot fail             *)
(*                                                                         *)
(* The halves are driven by two callers, who may drop a pending future     *)
(* (cancel it) or a half at any time.  The transport and the server are    *)
(* external.  How envelopes are cut out of body frames is RequestStream's  *)
(* subject (both sides share the EnvelopeAssembler); here the body is a    *)
(* sequence of items, read one at a time:                                  *)
(*   msg   a complete message          bad   one that fails to decode      *)
(*   part  an envelope cut short                                           *)
(*   eos_* an envelope flagged END_STREAM (0x02), Connect's own end        *)
(*   end_* gRPC-Web's trailer frame (0x80)                                 *)
(*   tr_*  HTTP trailers                                                   *)
(* where the suffix tells an OK status, an error, no status, or unreadable.*)
(* An item is what the reader of its protocol makes of an envelope: the    *)
(* flags a reader does not look at are those of a msg or a bad one.        *)
(***************************************************************************)
EXTENDS Integers, Sequences, FiniteSets

CONSTANTS
    Kinds,      \* the kinds of call
    Protocols,  \* the protocols the client may be configured with
    Depth,      \* of the channel behind the request body (32)
    MaxSends,   \* bound: messages the caller sends
    MaxItems,   \* bound: items of a bidi response, and one less than of others
    Deadline    \* the whole call's, in ticks; 0 when there is none

ASSUME CallAssumption ==
    /\ Kinds \subseteq {"bidi", "server", "client"}
    /\ Protocols \subseteq {"connect", "grpc", "grpcweb"}
    /\ Depth \in Nat \ {0} /\ MaxSends \in Nat /\ MaxItems \in Nat
    /\ Deadline \in Nat

VARIABLES
    kind,
    protocol,
    timeLeft,   \* until the deadline
    sender,     \* the send half: "idle", "blocked" in send(), "closed"
    sends,      \* messages passed to send()
    chan,       \* envelopes in the channel
    rx,         \* the request body: "open", "ended" cleanly, "dropped"
    aborted,    \* EncodingBody's recorded error: the upload was cut off
    head,       \* the response's head, as the transport got it
    items,      \* the items of its body, as the server sends them ...
    bodyEnd,    \* ... and how it ended: "no", "eof", "reset"
    task,       \* the spawned transport send: "running", "done", "aborted"
    build,      \* the spawned construction: also "none"
    built,      \* what it returned: "ok" or the error
    recv,       \* RecvState, "Calling" before there is one, or "dropped"
    failure,    \* the error in RecvState::Failed
    call,       \* message(): "idle" or "waiting"
    next,       \* the item ServerStream reads next
    sawData,    \* ServerStream.saw_body_data
    end,        \* ServerStream.end: "none", "ok" or the error
    got,        \* history: messages the caller received
    last,       \* history: what message() last returned
    told        \* history: the first terminal result it returned

config   == <<kind, protocol>>
request  == <<sender, sends, chan, rx, aborted>>
response == <<head, items, bodyEnd>>
tasks    == <<task, build, built>>
reader   == <<next, sawData, end>>
caller   == <<call, got, last, told>>
vars == <<config, timeLeft, request, response, tasks, recv, failure, reader,
          caller>>

(* deadline_elapsed, and what with_deadline's timer sees.                  *)
Elapsed == Deadline # 0 /\ timeLeft = 0

Errors == {"server", "transport", "deadline", "decode", "no_status",
           "no_trailers", "no_end_stream", "count", "encode"}

-----------------------------------------------------------------------------
(* call_bidi_stream spawns the transport send and returns; the others send *)
(* within the future that their caller awaits.                             *)
Init ==
    /\ kind \in Kinds /\ protocol \in Protocols /\ timeLeft = Deadline
    /\ sender = IF kind = "server" THEN "closed" ELSE "idle"
    /\ sends = 0 /\ chan = 0 /\ rx = "open" /\ aborted = FALSE
    /\ head = "none" /\ items = <<>> /\ bodyEnd = "no"
    /\ task = "running" /\ build = "none" /\ built = "none"
    /\ recv = IF kind = "bidi" THEN "AwaitingHeaders" ELSE "Calling"
    /\ call = IF kind = "bidi" THEN "idle" ELSE "waiting"
    /\ failure = "none" /\ next = 1 /\ sawData = FALSE /\ end = "none"
    /\ got = 0 /\ last = "none" /\ told = "none"

-----------------------------------------------------------------------------
(* BidiSendHalf.                                                           *)

(* send(): refused after the deadline or once the body is gone; otherwise  *)
(* it puts the envelope into the channel, or waits for room.               *)
Send ==
    /\ kind = "bidi" /\ sender = "idle" /\ sends < MaxSends
    /\ sends' = sends + 1
    /\ IF Elapsed \/ rx = "dropped" THEN UNCHANGED <<sender, chan>>
       ELSE IF chan < Depth THEN chan' = chan + 1 /\ UNCHANGED sender
       ELSE sender' = "blocked" /\ UNCHANGED chan
    /\ UNCHANGED <<config, timeLeft, rx, aborted, response, tasks, recv,
                   failure, reader, caller>>

SendResumes ==
    /\ sender = "blocked" /\ (rx = "dropped" \/ chan < Depth)
    /\ sender' = "idle"
    /\ chan' = IF rx = "dropped" THEN chan ELSE chan + 1
    /\ UNCHANGED <<config, timeLeft, sends, rx, aborted, response, tasks,
                   recv, failure, reader, caller>>

(* The caller drops the future of a blocked send().                        *)
CancelSend ==
    /\ sender = "blocked"
    /\ sender' = "idle"
    /\ UNCHANGED <<config, timeLeft, sends, chan, rx, aborted, response,
                   tasks, recv, failure, reader, caller>>

(* close_send(), or dropping the half; a client stream's messages end.     *)
CloseSend ==
    /\ sender = "idle"
    /\ sender' = "closed"
    /\ UNCHANGED <<config, timeLeft, sends, chan, rx, aborted, response,
                   tasks, recv, failure, reader, caller>>

-----------------------------------------------------------------------------
(* The transport.                                                          *)

OnlyInMessage == call = "waiting"                                   \* mutant
(* The task, and then the connection, drive the request whatever the       *)
(* caller does.                                                            *)
Driven == task # "aborted"

(* ChannelBody::poll_frame: an envelope is sent, or the body has ended.    *)
PullRequest ==
    /\ Driven /\ rx = "open"
    /\ \/ chan > 0 /\ chan' = chan - 1 /\ UNCHANGED rx
       \/ chan = 0 /\ sender = "closed" /\ rx' = "ended" /\ UNCHANGED chan
    /\ UNCHANGED <<config, timeLeft, sender, sends, aborted, response,
                   tasks, recv, failure, reader, caller>>

(* EncodingBody::poll_frame: a message of the caller's stream cannot be    *)
(* encoded, the error is recorded and the upload cut off.  (After the call *)
(* has returned nobody reads the record.)                                  *)
EncodeFails ==
    /\ kind = "client" /\ recv = "Calling"
    /\ Driven /\ rx = "open" /\ sender = "idle"
    /\ sender' = "closed" /\ rx' = "dropped" /\ aborted' = TRUE
    /\ UNCHANGED <<config, timeLeft, sends, chan, response, tasks, recv,
                   failure, reader, caller>>

(* The call was given up, or the server is done with it: the request body  *)
(* goes.                                                                   *)
Abandoned == task = "aborted" \/ recv \in {"dropped", "Failed"}

StopRequest ==
    /\ rx # "dropped"
    /\ Abandoned \/ head = "failed" \/ bodyEnd # "no"
    /\ rx' = "dropped" /\ chan' = 0
    /\ UNCHANGED <<config, timeLeft, sender, sends, aborted, response,
                   tasks, recv, failure, reader, caller>>

(* The head of the response: a success ("status" when it also bears a      *)
(* grpc-status of OK), one that is rejected as it stands (a gRPC error or  *)
(* a wrong content type), an HTTP error whose body has to be read first, a *)
(* grpc-status that is an error but not final yet, or no response at all.  *)
Heads == {"ok", "reject", "failed"}
           \cup (IF protocol = "connect" THEN {"error"} ELSE {"status"})
           \cup (IF kind = "client" /\ protocol # "connect"
                 THEN {"error", "status_err"} ELSE {})

GetHead(h) ==
    /\ head = "none" /\ task = "running"
    /\ head' = h /\ task' = "done"
    /\ UNCHANGED <<config, timeLeft, request, items, bodyEnd, build, built,
                   recv, failure, reader, caller>>

HttpTrailers  == {"tr_ok", "tr_err", "tr_none"}
TrailerFrames == {"end_ok", "end_err", "end_none", "end_bad"}
EndStreams    == {"eos_ok", "eos_err", "eos_bad"}

(* A ServerStream heeds the END_STREAM flag whatever the protocol; of the  *)
(* readers of a single response only Connect's does.                       *)
HeedsEndStream == protocol = "connect" \/ kind # "client"

Terminal == (IF protocol = "connect" THEN {"tr_none"} ELSE HttpTrailers)
              \cup (IF protocol = "grpcweb" THEN TrailerFrames ELSE {})
              \cup (IF HeedsEndStream THEN EndStreams ELSE {})

ItemBound == IF kind = "bidi" THEN MaxItems ELSE MaxItems + 1

(* Nothing is read beyond a terminal item, an envelope cut short stays so, *)
(* and only trailers can follow it.                                        *)
ServerSends(i) ==
    /\ head \in {"ok", "status", "status_err"}
    /\ bodyEnd = "no" /\ Len(items) < ItemBound
    /\ items # <<>> => /\ items[Len(items)] \in {"msg", "bad", "part"}
                       /\ items[Len(items)] = "part" => i \in HttpTrailers
    /\ items' = Append(items, i)
    /\ UNCHANGED <<config, timeLeft, request, head, bodyEnd, tasks, recv,
                   failure, reader, caller>>

ServerEnds(how) ==
    /\ head \notin {"none", "failed"} /\ bodyEnd = "no"
    /\ bodyEnd' = how
    /\ UNCHANGED <<config, timeLeft, request, head, items, tasks, recv,
                   failure, reader, caller>>

-----------------------------------------------------------------------------
(* BidiRecvHalf::message.                                                  *)

CallMessage ==
    /\ recv # "dropped" /\ call = "idle"
    /\ call' = "waiting"
    /\ UNCHANGED <<config, timeLeft, request, response, tasks, recv, failure,
                   reader, got, last, told>>

(* The caller drops message()'s future: what it waited for stays in self.  *)
CancelMessage ==
    /\ call = "waiting" /\ recv # "Calling"
    /\ call' = "idle"
    /\ UNCHANGED <<config, timeLeft, request, response, tasks, recv, failure,
                   reader, got, last, told>>

(* message() returns `result`.                                             *)
Return(result) ==
    /\ call' = "idle" /\ last' = result
    /\ got' = IF result = "msg" \/ (kind = "client" /\ result = "ok")
              THEN got + 1 ELSE got
    /\ told' = IF told = "none" /\ result # "msg" THEN result ELSE told

(* ... and the receive half has failed for good.                           *)
Fail(error) ==
    /\ recv' = "Failed" /\ failure' = error
    /\ Return(error)

AwaitHeaders ==
    /\ call = "waiting" /\ recv = "AwaitingHeaders" /\ task = "done"
    /\ IF head = "failed"
       THEN Fail("transport") /\ UNCHANGED build
       ELSE /\ build' = "running" /\ recv' = "Constructing"
            /\ UNCHANGED <<failure, caller>>
    /\ UNCHANGED <<config, timeLeft, request, response, task, built, reader>>

HeadersTimeOut ==
    /\ call = "waiting" /\ recv = "AwaitingHeaders" /\ task # "done" /\ Elapsed
    /\ task' = "aborted"
    /\ Fail("deadline")
    /\ UNCHANGED <<config, timeLeft, request, response, build, built, reader>>

AwaitBuild ==
    /\ call = "waiting" /\ recv = "Constructing" /\ build = "done"
    /\ IF built = "ok" THEN recv' = "Ready" /\ UNCHANGED <<failure, caller>>
                       ELSE Fail(built)
    /\ UNCHANGED <<config, timeLeft, request, response, tasks, reader>>

AwaitFailed ==
    /\ call = "waiting" /\ recv = "Failed"
    /\ Return(failure)
    /\ UNCHANGED <<config, timeLeft, request, response, tasks, recv, failure,
                   reader>>

(* The construction task: make_server_stream under the call's deadline.    *)
(* Only the body of a Connect error is waited for.                         *)
BuildReturns(result) ==
    /\ build = "running"
    /\ build' = "done" /\ built' = result
    /\ UNCHANGED <<config, timeLeft, request, response, task, recv, failure,
                   reader, caller>>

HeadSettled == head # "error" \/ bodyEnd # "no"

(* classify_body_read_error.                                               *)
ReadError == IF Elapsed THEN "deadline" ELSE "transport"

(* make_server_stream.                                                     *)
Constructed == IF head \in {"ok", "status"} THEN "ok"
               ELSE IF head = "reject" \/ bodyEnd = "eof" THEN "server"
               ELSE ReadError

BuildDone == HeadSettled /\ BuildReturns(Constructed)

BuildUnbounded == FALSE                                             \* mutant
BuildBounded   == Elapsed

BuildTimesOut == ~HeadSettled /\ BuildBounded /\ BuildReturns("deadline")

-----------------------------------------------------------------------------
(* ServerStream::message, and next_message_or_end below it.                *)

(* The single writer of the terminal record.                               *)
EndStream(result) == end' = result /\ Return(result)

TrailersAnyTime(saw) == head = "status"                             \* mutant
(* A status in the response's head counts only while no data has flowed.   *)
TrailersOnly(saw) == head = "status" /\ ~saw

(* classify_grpc_end; `status` is what the trailers say, if there are any, *)
(* and `saw` whether body data has flowed.                                 *)
ClassifyGrpcEnd(status, saw) ==
    CASE status = "err"                                     -> "server"
      [] status = "ok"                                      -> "ok"
      [] status \notin {"ok", "err"} /\ TrailersOnly(saw)   -> "ok"
      [] OTHER -> IF Elapsed THEN "deadline"
                  ELSE IF status = "none" THEN "no_status" ELSE "no_trailers"

(* process_end_stream, of any protocol.                                    *)
ProcessEndStream(i) ==
    CASE i = "eos_ok" -> "ok" [] i = "eos_err" -> "server" [] OTHER -> "decode"

(* A gRPC-Web trailer frame.                                               *)
ClassifyFrame(i) ==
    ClassifyGrpcEnd(CASE i = "end_ok"   -> "ok"
                      [] i = "end_err"  -> "err"
                      [] i = "end_none" -> "none"
                      [] OTHER          -> "unusable",
                    TRUE)

ClassifyTrailers(i) ==
    ClassifyGrpcEnd(CASE i = "tr_ok" -> "ok" [] i = "tr_err" -> "err" [] OTHER -> "none",
                    sawData)

Ended      == end # "none"

Replay ==
    /\ call = "waiting" /\ recv = "Ready" /\ Ended
    /\ Return(end)
    /\ UNCHANGED <<config, timeLeft, request, response, tasks, recv, failure,
                   reader>>

Reading == call = "waiting" /\ recv = "Ready" /\ ~Ended
Await   == items[next]

(* A ready frame wins over the deadline.                                   *)
ReadMessage ==
    /\ Reading /\ next <= Len(items) /\ Await = "msg"
    /\ next' = next + 1 /\ sawData' = TRUE
    /\ Return("msg")
    /\ UNCHANGED <<config, timeLeft, request, response, tasks, recv, failure,
                   end>>

(* The loop goes on: an envelope is incomplete, or Connect got trailers.   *)
ReadOn ==
    /\ Reading /\ next <= Len(items)
    /\ Await = "part" \/ (Await \in HttpTrailers /\ protocol = "connect")
    /\ next' = next + 1
    /\ sawData' = (sawData \/ Await = "part")
    /\ UNCHANGED <<config, timeLeft, request, response, tasks, recv, failure,
                   end, caller>>

ReadTerminal ==
    /\ Reading /\ next <= Len(items)
    /\ Await \notin {"msg", "part"}
    /\ Await \in HttpTrailers => protocol # "connect"
    /\ next' = next + 1
    /\ sawData' = (sawData \/ Await \notin HttpTrailers)
    /\ EndStream(CASE Await = "bad"          -> "decode"
                   [] Await \in HttpTrailers -> ClassifyTrailers(Await)
                   [] Await \in EndStreams   -> ProcessEndStream(Await)
                   [] OTHER                  -> ClassifyFrame(Await))
    /\ UNCHANGED <<config, timeLeft, request, response, tasks, recv, failure>>

(* The body ends, fails, or has nothing ready at the deadline.             *)
ReadEnd ==
    /\ Reading /\ next > Len(items)
    /\ bodyEnd # "no" \/ Elapsed
    /\ EndStream(CASE bodyEnd = "eof" /\ protocol = "connect" -> "no_end_stream"
                   [] bodyEnd = "eof" /\ protocol # "connect" -> ClassifyGrpcEnd("absent", sawData)
                   [] OTHER -> ReadError)
    /\ UNCHANGED <<config, timeLeft, request, response, tasks, recv, failure,
                   next, sawData>>

-----------------------------------------------------------------------------
(* call_server_stream and call_client_stream: all under with_deadline, in  *)
(* which a future that is ready wins over the timer.                       *)

Sent(kinds) == {i \in 1..Len(items) : items[i] \in kinds}
Has(kinds)  == Sent(kinds) # {}
Several     == Cardinality(Sent({"msg", "bad"})) > 1

(* scan_connect_client_stream_envelopes, of a body that was read whole.    *)
ScanConnect ==
    IF head = "error" THEN "server"
    ELSE IF Several                THEN "count"
    ELSE IF Has({"eos_err"})       THEN "server"
    ELSE IF Has({"eos_bad"})       THEN "decode"
    ELSE IF ~Has({"msg", "bad"})   THEN "count"
    ELSE IF ~Has({"eos_ok"})       THEN "no_end_stream"
    ELSE IF Has({"bad"})           THEN "decode" ELSE "ok"

(* parse_grpc_unary_response: the trailers decide, or the head if there is *)
(* nothing else.                                                           *)
ScanGrpc ==
    LET fromHead == items = <<>>
    IN  IF Several                                           THEN "count"
        ELSE IF \/ Has({"end_err", "tr_err"})
                \/ fromHead /\ head = "status_err"
                \/ head = "error"                            THEN "server"
        ELSE IF ~(Has({"end_ok", "tr_ok"}) \/ (fromHead /\ head = "status"))
             THEN IF Elapsed THEN "deadline" ELSE "no_status"
        ELSE IF ~Has({"msg", "bad"})                         THEN "count"
        ELSE IF Has({"bad"})                                 THEN "decode" ELSE "ok"

(* gRPC-Web stops reading at the trailer frame.                            *)
SawTrailerFrame == protocol = "grpcweb" /\ Has(TrailerFrames)

Collected == head = "reject" \/ bodyEnd # "no" \/ SawTrailerFrame

(* What parsing the response may come to: a message that cannot be         *)
(* decompressed fails at once, one that cannot be decoded at the end.      *)
Parsed ==
    IF head = "reject" THEN {"server"}
    ELSE IF bodyEnd = "reset" /\ ~SawTrailerFrame
         THEN {IF head = "error" /\ protocol # "connect" THEN "server" ELSE ReadError}
    ELSE {IF protocol = "connect" THEN ScanConnect ELSE ScanGrpc}
           \cup (IF Has({"bad"}) THEN {"decode"} ELSE {})

(* The awaited call settles with `result`, an upload that was cut off      *)
(* overriding it; nothing is left of it unless it yields a ServerStream.   *)
Surfaced(result) == IF aborted THEN "encode" ELSE result

Settle(result) ==
    /\ Return(Surfaced(result))
    /\ recv' = "dropped"

(* The call yields its stream: nothing is told of the outcome yet.         *)
YieldStream == call' = "idle" /\ recv' = "Ready" /\ UNCHANGED <<got, last, told>>

ServerCallReturns ==
    /\ kind = "server" /\ recv = "Calling" /\ task = "done"
    /\ IF head = "failed" THEN Settle("transport")
       ELSE HeadSettled /\ IF Constructed = "ok" THEN YieldStream
                           ELSE Settle(Constructed)
    /\ UNCHANGED <<config, timeLeft, request, response, tasks, failure, reader>>

ClientCallReturns ==
    /\ kind = "client" /\ recv = "Calling" /\ task = "done"
    /\ IF head = "failed" THEN Settle("transport")
       ELSE Collected /\ \E result \in Parsed : Settle(result)
    /\ UNCHANGED <<config, timeLeft, request, response, tasks, failure, reader>>

(* The deadline, or the caller, drops the future with the transport send.  *)
AbandonSend == task' = IF task = "running" THEN "aborted" ELSE task

CallTimesOut ==
    /\ recv = "Calling" /\ Elapsed
    /\ task # "done" \/ (head # "failed" /\ IF kind = "server" THEN ~HeadSettled
                                                              ELSE ~Collected)
    /\ AbandonSend /\ Settle("deadline")
    /\ UNCHANGED <<config, timeLeft, request, response, build, built, failure,
                   reader>>

CancelCall ==
    /\ recv = "Calling"
    /\ AbandonSend
    /\ recv' = "dropped" /\ call' = "idle"
    /\ UNCHANGED <<config, timeLeft, request, response, build, built, failure,
                   reader, got, last, told>>

-----------------------------------------------------------------------------
(* BidiRecvHalf::drop aborts a task that still runs.                       *)
DropDetachesBuild ==                                                \* mutant
    /\ task' = IF recv = "AwaitingHeaders" /\ task = "running" THEN "aborted" ELSE task
    /\ UNCHANGED build
DropAborts ==
    /\ task' = IF recv = "AwaitingHeaders" /\ task = "running"
               THEN "aborted" ELSE task
    /\ build' = IF recv = "Constructing" /\ build = "running"
                THEN "aborted" ELSE build

DropRecv ==
    /\ recv # "dropped" /\ call = "idle"
    /\ recv' = "dropped"
    /\ DropAborts
    /\ UNCHANGED <<config, timeLeft, request, response, built, failure,
                   reader, caller>>

Tick ==
    /\ timeLeft > 0
    /\ timeLeft' = timeLeft - 1
    /\ UNCHANGED <<config, request, response, tasks, recv, failure, reader,
                   caller>>

MessageStep == \/ AwaitHeaders \/ HeadersTimeOut \/ AwaitBuild \/ AwaitFailed
               \/ ServerCallReturns \/ ClientCallReturns \/ CallTimesOut
               \/ Replay \/ ReadMessage \/ ReadOn \/ ReadTerminal \/ ReadEnd

BuildStep == BuildDone \/ BuildTimesOut

(* Both halves are gone and so is the request.                             *)
Finished ==
    /\ sender = "closed" /\ recv = "dropped" /\ rx = "dropped"
    /\ UNCHANGED vars

Next ==
    \/ Send \/ SendResumes \/ CancelSend \/ CloseSend
    \/ PullRequest \/ EncodeFails \/ StopRequest
    \/ \E h \in Heads : GetHead(h)
    \/ \E i \in {"msg", "bad", "part"} \cup Terminal : ServerSends(i)
    \/ \E how \in {"eof", "reset"} : ServerEnds(how)
    \/ CallMessage \/ CancelMessage \/ CancelCall \/ MessageStep \/ BuildStep
    \/ DropRecv \/ Tick \/ Finished

Spec == Init /\ [][Next]_vars

(* The executor runs the caller that awaits message() or send(), and the   *)
(* construction task; an abandoned stream is reset; the clock advances.    *)
(* Nothing is assumed of the server: that it keeps reading the request is  *)
(* assumed only where a property says so.                                  *)
FairSpec == /\ Spec
            /\ WF_vars(MessageStep) /\ WF_vars(BuildStep) /\ WF_vars(Tick)
            /\ WF_vars(SendResumes) /\ WF_vars(StopRequest)

ServerReads == WF_vars(PullRequest)

-----------------------------------------------------------------------------
TypeOK ==
    /\ kind \in Kinds /\ protocol \in Protocols /\ aborted \in BOOLEAN
    /\ timeLeft \in 0..Deadline
    /\ sender \in {"idle", "blocked", "closed"} /\ sends \in 0..MaxSends
    /\ chan \in 0..Depth /\ rx \in {"open", "ended", "dropped"}
    /\ head \in {"none", "ok", "status", "status_err", "reject", "error", "failed"}
    /\ items \in Seq({"msg", "bad", "part"} \cup EndStreams \cup TrailerFrames
                       \cup HttpTrailers)
    /\ bodyEnd \in {"no", "eof", "reset"}
    /\ task \in {"running", "done", "aborted"}
    /\ build \in {"none", "running", "done", "aborted"}
    /\ built \in Errors \cup {"none", "ok"}
    /\ recv \in {"Calling", "AwaitingHeaders", "Constructing", "Ready", "Failed", "dropped"}
    /\ failure \in Errors \cup {"none"}
    /\ call \in {"idle", "waiting"}
    /\ next \in 1..Len(items) + 1 /\ sawData \in BOOLEAN
    /\ end \in Errors \cup {"none", "ok"}
    /\ got \in Nat
    /\ last \in Errors \cup {"none", "ok", "msg"}
    /\ told \in Errors \cup {"none", "ok"}

Data    == {"msg", "bad", "part"} \cup EndStreams \cup TrailerFrames
SaysOk  == {"eos_ok", "end_ok", "tr_ok"}
SaysErr == {"eos_err", "end_err", "tr_err"}

(* message() tells the truth about the call.  Ok(None) is returned only if *)
(* the server said that the call succeeded, in trailers, in an envelope    *)
(* flagged END_STREAM or in the head of a response without a body, and     *)
(* every whole message it sent has been delivered: a status in the head is *)
(* no excuse for a body that stops after its first byte, nor the server's  *)
(* answer for an upload that was cut off, though the two race.  (OK        *)
(* trailers count even if they follow an envelope that was cut short.)     *)
(* The same holds of the one response of a client stream or unary call.    *)
(* An error names a cause that is there: the server's own error, a failed  *)
(* transport, or a deadline that has passed.  "Every Err is terminal and   *)
(* sticky", and so is Ok(None): what message() reported once it reports    *)
(* ever after, however the body and the deadline move on.                  *)
OutcomeIsTrue ==
    /\ told # "none" => last = told
    /\ told = "ok" =>
         /\ Sent(SaysOk) # {} \/ (head = "status" /\ Sent(Data) = {})
         /\ Sent({"bad"}) = {} /\ got = Cardinality(Sent({"msg"}))
         /\ ~aborted
    /\ told = "server" => head \in {"reject", "error", "status_err"} \/ Sent(SaysErr) # {}
    /\ told = "transport" => head = "failed" \/ bodyEnd = "reset"
    /\ told = "deadline" => Elapsed

(* classify_grpc_end: "An end is only clean if a grpc-status actually      *)
(* arrived", in the trailers or in the response's head.                    *)
CleanEndHasStatus ==
    told = "ok" /\ protocol # "connect"
      => Sent({"end_ok", "tr_ok"}) # {} \/ head = "status"

(* No task outlives its receive half: neither the transport send nor the   *)
(* construction of the response is left running, which a server that       *)
(* stalls could pin for ever, once the half is dropped or has failed.      *)
NoOrphanTask ==
    recv \in {"dropped", "Failed"} => task # "running" /\ build # "running"

(* With a deadline, a pending message() returns, though the server stalls  *)
(* the head, the body of an error or the response.                         *)
MessageReturns == Deadline # 0 => (call = "waiting" ~> call = "idle")

(* send() is never stuck because nobody calls message(): if the server     *)
(* keeps reading, a full channel drains; and dropping the receive half     *)
(* frees a sender even if the server reads nothing.                        *)
SendsProgress ==
    /\ ServerReads => (sender = "blocked" ~> sender # "blocked")
    /\ (sender = "blocked" /\ recv = "dropped") ~> sender # "blocked"
=============================================================================
