------------------------- MODULE ClientStreamProofs -------------------------
(***************************************************************************)
(* Proofs about ClientStream, for every set of kinds and protocols, every  *)
(* depth of the request channel, any number of sends and items, and with   *)
(* or without a deadline: no task outlives its receive half, and what      *)
(* message() reports is true and stays so.                                 *)
(***************************************************************************)
EXTENDS ClientStream, FiniteSetTheorems, TLAPS

(* Which task may run in which state of the receive half.  The transport   *)
(* send has ended exactly when the response's head is there; the           *)
(* construction starts from a head; only a call of its kind is in a state. *)
TaskInv ==
    /\ task = "running" => recv \in {"Calling", "AwaitingHeaders"}
    /\ (task = "done") = (head # "none")
    /\ build = "running" => recv = "Constructing"
    /\ build # "none" => kind = "bidi" /\ head \notin {"none", "failed"}
    /\ build = "done" => built # "none"
    /\ recv = "Calling" => call = "waiting" /\ kind # "bidi"
    /\ recv \in {"AwaitingHeaders", "Constructing", "Failed"} => kind = "bidi"
    /\ recv = "Ready" => kind # "client"
    /\ head = "status_err" => kind = "client"
    /\ aborted => kind = "client"

(* What message() has told is what it will tell: it is kept as the error   *)
(* of the failed half or as the end of the stream.                         *)
StickyInv ==
    /\ told # "none" => last = told /\ recv \in {"Failed", "Ready", "dropped"}
    /\ recv = "Ready" /\ told # "none" => end = told
    /\ recv = "Failed" => told = failure /\ failure # "none"
    /\ end # "none" => told = end

Open == {"msg", "bad", "part"}

(* The messages among the first `n` items.                                 *)
MessagesTo(n) == {i \in 1..n : items[i] = "msg"}

(* A terminal item is the last; what the stream has read up to `next` is   *)
(* what it has delivered, what it has not failed on, and what it has seen. *)
ReadInv ==
    /\ \A i \in 1..Len(items) : i < Len(items) => items[i] \in Open
    /\ kind # "client" => got = Cardinality(MessagesTo(next - 1))
    /\ recv = "Calling" => got = 0
    /\ end = "none" => \A i \in 1..next - 1 : items[i] # "bad"
    /\ ~sawData => \A i \in 1..next - 1 : items[i] \notin Data

(* The response is complete: nothing can be added to its body.             *)
Closed == bodyEnd # "no" \/ \E i \in 1..Len(items) : items[i] \notin Open

(* The cause an error names is there.                                      *)
Blame(r) ==
    /\ r = "server" => head \in {"reject", "error", "status_err"} \/ Sent(SaysErr) # {}
    /\ r = "transport" => head = "failed" \/ bodyEnd = "reset"
    /\ r = "deadline" => Elapsed

(* The server said that the call succeeded, everything it sent has been    *)
(* delivered, and no more can come.                                        *)
Success ==
    /\ Sent(SaysOk) # {} \/ (head = "status" /\ Sent(Data) = {})
    /\ Sent({"bad"}) = {} /\ got = Cardinality(Sent({"msg"}))
    /\ ~aborted
    /\ Closed

CauseInv ==
    /\ Blame(told) /\ Blame(built)
    /\ told = "ok" => Success

CallInv == TypeOK /\ TaskInv /\ StickyInv /\ ReadInv /\ CauseInv

-----------------------------------------------------------------------------
(* What the classifications return.                                        *)

Verdicts == Errors \cup {"ok"}

(* classify_body_read_error blames the deadline exactly if it has passed.  *)
LEMMA ReadErrorIs ==
    ReadError \in {"deadline", "transport"} /\ (ReadError = "deadline" => Elapsed)
BY Zenon DEF ReadError

(* classify_grpc_end: an error is the server's only if the trailers have   *)
(* one, a success only if they or the head of an empty response say so.    *)
LEMMA GrpcEnd ==
    ASSUME NEW status, NEW saw
    PROVE  LET r == ClassifyGrpcEnd(status, saw)
           IN  /\ r \in {"server", "ok", "deadline", "no_status", "no_trailers"}
               /\ r = "server" => status = "err"
               /\ r = "ok" => status = "ok" \/ (head = "status" /\ ~saw)
               /\ r = "deadline" => Elapsed
<1>1. CASE status = "err"
  BY <1>1 DEF ClassifyGrpcEnd
<1>2. CASE status = "ok"
  BY <1>2 DEF ClassifyGrpcEnd
<1>3. CASE status \notin {"ok", "err"} /\ TrailersOnly(saw)
  BY <1>3 DEF ClassifyGrpcEnd, TrailersOnly
<1>4. CASE status \notin {"ok", "err"} /\ ~TrailersOnly(saw)
  BY <1>4 DEF ClassifyGrpcEnd
<1> QED
  BY <1>1, <1>2, <1>3, <1>4

(* An envelope flagged END_STREAM, of any protocol.                        *)
LEMMA EndStreamEnd ==
    ASSUME NEW i
    PROVE  LET r == ProcessEndStream(i)
           IN  /\ r \in {"ok", "server", "decode"}
               /\ r = "server" => i = "eos_err"
               /\ r = "ok" => i = "eos_ok"
BY DEF ProcessEndStream

(* gRPC-Web's trailer frame: data has flowed with it, so the head decides  *)
(* nothing.                                                                *)
LEMMA FrameEnd ==
    ASSUME NEW i
    PROVE  LET r == ClassifyFrame(i)
           IN  /\ r \in Verdicts \ {"transport"}
               /\ r = "server" => i = "end_err"
               /\ r = "ok" => i = "end_ok"
               /\ r = "deadline" => Elapsed
<1> DEFINE status == CASE i = "end_ok"   -> "ok"
                       [] i = "end_err"  -> "err"
                       [] i = "end_none" -> "none"
                       [] OTHER          -> "unusable"
<1>1. ClassifyFrame(i) = ClassifyGrpcEnd(status, TRUE)
  BY DEF ClassifyFrame
<1>2. (status = "err" => i = "end_err") /\ (status = "ok" => i = "end_ok")
  OBVIOUS
<1> HIDE DEF status
<1> QED
  BY <1>1, <1>2, GrpcEnd DEF Verdicts, Errors

(* What the trailers make of a call: success needs a grpc-status of zero   *)
(* (or one already in the headers), a server error needs trailers that say *)
(* so.                                                                     *)
LEMMA TrailersEnd ==
    ASSUME NEW i
    PROVE  LET r == ClassifyTrailers(i)
           IN  /\ r \in Verdicts \ {"transport"}
               /\ r = "server" => i = "tr_err"
               /\ r = "ok" => i = "tr_ok" \/ (head = "status" /\ ~sawData)
               /\ r = "deadline" => Elapsed
<1>1. PICK status : /\ ClassifyTrailers(i) = ClassifyGrpcEnd(status, sawData)
                    /\ status = "err" => i = "tr_err"
                    /\ status = "ok" => i = "tr_ok"
  BY DEF ClassifyTrailers
<1> QED
  BY <1>1, GrpcEnd DEF Verdicts, Errors

(* The step that reads a terminal item: which verdict it records, and what *)
(* the item was.                                                           *)
LEMMA TerminalVerdict ==
    ASSUME ReadTerminal
    PROVE  \E r \in Verdicts \ {"transport"} :
               /\ EndStream(r)
               /\ r = "server" => items[next] \in SaysErr
               /\ r = "ok" => \/ items[next] \in SaysOk
                              \/ items[next] \in HttpTrailers /\ head = "status" /\ ~sawData
               /\ r = "deadline" => Elapsed
<1>1. CASE items[next] = "bad"
  <2>1. items[next] \notin HttpTrailers \cup EndStreams
    BY <1>1 DEF HttpTrailers, EndStreams
  <2>2. EndStream("decode")
    BY <1>1, <2>1 DEF ReadTerminal, Await
  <2> QED
    BY <2>2 DEF Verdicts, Errors
<1>2. CASE items[next] \in HttpTrailers
  <2>1. items[next] \notin EndStreams \cup {"bad"}
    BY <1>2 DEF HttpTrailers, EndStreams
  <2>2. EndStream(ClassifyTrailers(items[next]))
    BY <1>2, <2>1 DEF ReadTerminal, Await
  <2> QED
    BY <1>2, <2>2, TrailersEnd DEF SaysOk, SaysErr
<1>3. CASE items[next] \in EndStreams
  <2>1. items[next] \notin HttpTrailers \cup {"bad"}
    BY <1>3 DEF EndStreams, HttpTrailers
  <2>2. EndStream(ProcessEndStream(items[next]))
    BY <1>3, <2>1 DEF ReadTerminal, Await
  <2> QED
    BY <2>2, EndStreamEnd DEF SaysOk, SaysErr, Verdicts, Errors
<1>4. CASE items[next] \notin HttpTrailers \cup EndStreams \cup {"bad"}
  <2>1. EndStream(ClassifyFrame(items[next]))
    BY <1>4 DEF ReadTerminal, Await
  <2> QED
    BY <2>1, FrameEnd DEF SaysOk, SaysErr
<1> QED
  BY <1>1, <1>2, <1>3, <1>4

(* The step that finds the body ended, failed, or silent at the deadline.  *)
LEMMA EndVerdict ==
    ASSUME ReadEnd, bodyEnd \in {"no", "eof", "reset"}
    PROVE  \E r \in Verdicts :
               /\ EndStream(r)
               /\ r # "server"
               /\ r = "ok" => bodyEnd = "eof" /\ head = "status" /\ ~sawData
               /\ r = "transport" => bodyEnd = "reset"
               /\ r = "deadline" => Elapsed
<1>1. CASE bodyEnd = "eof" /\ protocol = "connect"
  <2>1. EndStream("no_end_stream")
    BY <1>1 DEF ReadEnd
  <2> QED
    BY <2>1 DEF Verdicts, Errors
<1>2. CASE bodyEnd = "eof" /\ protocol # "connect"
  <2>1. EndStream(ClassifyGrpcEnd("absent", sawData))
    BY <1>2 DEF ReadEnd
  <2> QED
    BY <1>2, <2>1, GrpcEnd DEF Verdicts, Errors
<1>3. CASE bodyEnd # "eof"
  <2>1. EndStream(ReadError)
    BY <1>3 DEF ReadEnd
  <2>2. ReadError = "transport" => bodyEnd = "reset"
    BY <1>3 DEF ReadEnd, ReadError
  <2> QED
    BY <2>1, <2>2, ReadErrorIs DEF Verdicts, Errors
<1> QED
  BY <1>1, <1>2, <1>3

(* make_server_stream, once the head has settled.                          *)
LEMMA ConstructedVerdict ==
    ASSUME HeadSettled, head \in {"ok", "status", "reject", "error"},
           bodyEnd \in {"no", "eof", "reset"}
    PROVE  /\ Constructed \in {"ok", "server", "deadline", "transport"}
           /\ Constructed = "server" => head \in {"reject", "error"}
           /\ Constructed = "transport" => bodyEnd = "reset"
           /\ Constructed = "deadline" => Elapsed
<1>1. CASE head \in {"ok", "status"}
  BY <1>1 DEF Constructed
<1>2. CASE head = "reject"
  BY <1>2 DEF Constructed
<1>3. CASE head = "error" /\ bodyEnd = "eof"
  BY <1>3 DEF Constructed
<1>4. CASE head = "error" /\ bodyEnd = "reset"
  BY <1>4, ReadErrorIs DEF Constructed
<1> QED
  BY <1>1, <1>2, <1>3, <1>4 DEF HeadSettled

(* scan_connect_client_stream_envelopes.                                   *)
LEMMA ConnectVerdict ==
    /\ ScanConnect \in Verdicts \ {"transport", "deadline"}
    /\ ScanConnect = "server" => head = "error" \/ Sent({"eos_err"}) # {}
    /\ ScanConnect = "ok" => /\ Sent({"eos_ok"}) # {} /\ Sent({"bad"}) = {}
                             /\ Sent({"msg", "bad"}) # {} /\ ~Several
BY DEF ScanConnect, Has, Verdicts, Errors

(* parse_grpc_unary_response.                                              *)
LEMMA GrpcVerdict ==
    /\ ScanGrpc \in Verdicts \ {"transport"}
    /\ ScanGrpc = "server" => \/ head \in {"error", "status_err"}
                              \/ Sent(SaysErr) # {}
    /\ ScanGrpc = "deadline" => Elapsed
    /\ ScanGrpc = "ok" => /\ \/ Sent(SaysOk) # {}
                             \/ items = <<>> /\ head = "status"
                          /\ Sent({"bad"}) = {}
                          /\ Sent({"msg", "bad"}) # {} /\ ~Several
<1>1. /\ Sent({"end_err", "tr_err"}) \subseteq Sent(SaysErr)
      /\ Sent({"end_ok", "tr_ok"}) \subseteq Sent(SaysOk)
  BY DEF Sent, SaysErr, SaysOk
<1> QED
  BY <1>1 DEF ScanGrpc, Has, Verdicts, Errors

(* What parsing the response of a client stream or unary call comes to.    *)
LEMMA ParsedVerdict ==
    ASSUME Collected, NEW r \in Parsed
    PROVE  /\ r \in Verdicts
           /\ r = "server" => head \in {"reject", "error", "status_err"} \/ Sent(SaysErr) # {}
           /\ r = "transport" => bodyEnd = "reset"
           /\ r = "deadline" => Elapsed
           /\ r = "ok" => /\ \/ Sent(SaysOk) # {}
                             \/ items = <<>> /\ head = "status"
                          /\ Sent({"bad"}) = {}
                          /\ Sent({"msg", "bad"}) # {} /\ ~Several
                          /\ bodyEnd # "no" \/ SawTrailerFrame
<1>1. CASE head = "reject"
  <2>1. r = "server"
    BY <1>1 DEF Parsed
  <2> QED
    BY <1>1, <2>1 DEF Verdicts, Errors
<1>2. CASE head # "reject" /\ bodyEnd = "reset" /\ ~SawTrailerFrame
  <2>1. r = IF head = "error" /\ protocol # "connect" THEN "server" ELSE ReadError
    BY <1>2 DEF Parsed
  <2> QED
    BY <1>2, <2>1, ReadErrorIs DEF Verdicts, Errors
<1>3. CASE head # "reject" /\ ~(bodyEnd = "reset" /\ ~SawTrailerFrame)
  <2>1. r \in {ScanConnect, ScanGrpc, "decode"}
    BY <1>3, Zenon DEF Parsed
  <2>2. bodyEnd # "no" \/ SawTrailerFrame
    BY <1>3 DEF Collected
  <2>3. CASE r = ScanConnect
    <3>1. Sent({"eos_err"}) \subseteq Sent(SaysErr) /\ Sent({"eos_ok"}) \subseteq Sent(SaysOk)
      BY DEF Sent, SaysErr, SaysOk
    <3> QED
      BY <2>2, <2>3, <3>1, ConnectVerdict
  <2>4. CASE r = ScanGrpc
    BY <2>2, <2>4, GrpcVerdict
  <2>5. CASE r = "decode"
    BY <2>5 DEF Verdicts, Errors
  <2> QED
    BY <2>1, <2>3, <2>4, <2>5
<1> QED
  BY <1>1, <1>2, <1>3

-----------------------------------------------------------------------------
(* A step of the call, its task, the response or the clock keeps the       *)
(* types.                                                                  *)
LEMMA TypeStep == TypeOK /\ [Next]_vars => TypeOK'
<1> SUFFICES ASSUME TypeOK, [Next]_vars
             PROVE  TypeOK'
  OBVIOUS
<1>t. TypeOK
  OBVIOUS
<1>next. Next \/ UNCHANGED vars
  OBVIOUS
<1>1. CASE Send
  BY <1>t, CallAssumption, <1>1 DEF Send, TypeOK, Errors, Elapsed, config,
     request, response, tasks, reader, caller
<1>2. CASE SendResumes
  BY <1>t, CallAssumption, <1>2 DEF SendResumes, TypeOK, Errors, Elapsed,
     config, request, response, tasks, reader, caller
<1>3. CASE CancelSend
  BY <1>t, <1>3 DEF CancelSend, TypeOK, Errors, Elapsed, config, request,
     response, tasks, reader, caller
<1>4. CASE CloseSend
  BY <1>t, <1>4 DEF CloseSend, TypeOK, Errors, Elapsed, config, request,
     response, tasks, reader, caller
<1>5. CASE PullRequest
  BY <1>t, CallAssumption, <1>5 DEF PullRequest, TypeOK, Errors, Elapsed,
     config, request, response, tasks, reader, caller
<1>6. CASE EncodeFails
  BY <1>t, <1>6 DEF EncodeFails, TypeOK, Errors, Elapsed, config, request,
     response, tasks, reader, caller
<1>7. CASE StopRequest
  BY <1>t, CallAssumption, <1>7 DEF StopRequest, TypeOK, Errors, Elapsed,
     config, request, response, tasks, reader, caller
<1>8. ASSUME NEW h \in Heads, GetHead(h)
       PROVE  TypeOK'
  <2>1. h \in {"ok", "status", "status_err", "reject", "error", "failed"}
    BY <1>8 DEF Heads
  <2> QED
    BY <1>t, <1>8, <2>1 DEF TypeOK, GetHead, config, request, response,
       tasks, reader, caller
<1>9. ASSUME NEW i \in Open \cup Terminal, ServerSends(i)
       PROVE  TypeOK'
  <2>2. Terminal \subseteq EndStreams \cup TrailerFrames \cup HttpTrailers
    BY DEF Terminal, HttpTrailers
  <2>3. i \in Data \cup HttpTrailers
    BY <1>9, <2>2 DEF Open, Data
  <2>4. items' \in Seq(Data \cup HttpTrailers) /\ Len(items') = Len(items) + 1
    BY <1>t, <1>9, <2>3 DEF TypeOK, ServerSends, Data
  <2>5. next \in 1..Len(items') + 1
    BY <1>t, <2>4 DEF TypeOK
  <2> QED
    BY <1>t, <1>9, <2>4, <2>5 DEF TypeOK, ServerSends, Data, config,
       request, response, tasks, reader, caller
<1>10. ASSUME NEW how \in {"eof", "reset"}, ServerEnds(how)
       PROVE  TypeOK'
  BY <1>t, <1>10 DEF ServerEnds, TypeOK, Errors, Elapsed, config, request,
     response, tasks, reader, caller
<1>11. CASE CallMessage
  BY <1>t, <1>11 DEF CallMessage, TypeOK, Errors, Elapsed, config, request,
     response, tasks, reader, caller
<1>12. CASE CancelMessage
  BY <1>t, <1>12 DEF CancelMessage, TypeOK, Errors, Elapsed, config,
     request, response, tasks, reader, caller
<1>13. CASE CancelCall
  BY <1>t, <1>13 DEF CancelCall, AbandonSend, TypeOK, Errors, Elapsed,
     config, request, response, tasks, reader, caller
<1>14. CASE AwaitHeaders
  BY <1>t, <1>14 DEF AwaitHeaders, Fail, Return, TypeOK, Errors, Elapsed,
     config, request, response, tasks, reader, caller
<1>15. CASE HeadersTimeOut
  BY <1>t, <1>15 DEF HeadersTimeOut, Fail, Return, TypeOK, Errors, Elapsed,
     config, request, response, tasks, reader, caller
<1>16. CASE AwaitBuild
  BY <1>t, <1>16 DEF AwaitBuild, Fail, Return, TypeOK, Errors, Elapsed,
     config, request, response, tasks, reader, caller
<1>17. CASE AwaitFailed
  BY <1>t, <1>17 DEF AwaitFailed, Return, TypeOK, Errors, Elapsed, config,
     request, response, tasks, reader, caller
<1>18. CASE ServerCallReturns
  BY <1>t, <1>18 DEF ServerCallReturns, Settle, Surfaced, YieldStream,
     Return, Constructed, ReadError, TypeOK, Errors, Elapsed, config,
     request, response, tasks, reader, caller
<1>19. CASE ClientCallReturns
  <2>1. PICK r \in Verdicts : Settle(r)
    BY <1>19, ParsedVerdict DEF ClientCallReturns, Verdicts, Errors
  <2>2. Surfaced(r) \in Verdicts
    BY <2>1 DEF Surfaced, Verdicts, Errors
  <2> QED
    BY <1>t, <1>19, <2>1, <2>2 DEF TypeOK, ClientCallReturns, Settle,
       Return, Verdicts, config, request, response, tasks, reader, caller
<1>20. CASE CallTimesOut
  BY <1>t, <1>20 DEF CallTimesOut, Settle, Surfaced, AbandonSend, Return,
     TypeOK, Errors, Elapsed, config, request, response, tasks, reader,
     caller
<1>21. CASE Replay
  BY <1>t, <1>21 DEF Replay, Return, TypeOK, Errors, Elapsed, config,
     request, response, tasks, reader, caller
<1>22. CASE ReadMessage
  BY <1>t, <1>22 DEF ReadMessage, Reading, Await, Return, TypeOK, Errors,
     Elapsed, config, request, response, tasks, reader, caller
<1>23. CASE ReadOn
  BY <1>t, <1>23 DEF ReadOn, Reading, Await, TypeOK, Errors, Elapsed,
     config, request, response, tasks, reader, caller
<1>24. CASE ReadTerminal
  <2>1. PICK r \in Verdicts : EndStream(r)
    BY <1>24, TerminalVerdict
  <2>2. next' \in 1..Len(items) + 1 /\ sawData' \in BOOLEAN
    BY <1>t, <1>24 DEF TypeOK, ReadTerminal
  <2> QED
    BY <1>t, <1>24, <2>1, <2>2 DEF TypeOK, ReadTerminal, EndStream,
       Return, Verdicts, config, request, response, tasks, reader, caller
<1>25. CASE ReadEnd
  <2>1. PICK r \in Verdicts : EndStream(r)
    BY <1>t, <1>25, EndVerdict DEF TypeOK
  <2> QED
    BY <1>t, <1>25, <2>1 DEF TypeOK, ReadEnd, EndStream, Return, Verdicts,
       config, request, response, tasks, reader, caller
<1>26. CASE BuildDone
  BY <1>t, <1>26 DEF BuildDone, BuildReturns, Constructed, ReadError,
     TypeOK, Errors, Elapsed, config, request, response, tasks, reader,
     caller
<1>27. CASE BuildTimesOut
  BY <1>t, <1>27 DEF BuildTimesOut, BuildReturns, TypeOK, Errors, Elapsed,
     config, request, response, tasks, reader, caller
<1>28. CASE DropRecv
  BY <1>t, <1>28 DEF DropRecv, DropAborts, TypeOK, Errors, Elapsed, config,
     request, response, tasks, reader, caller
<1>29. CASE Tick
  BY <1>t, CallAssumption, <1>29 DEF Tick, TypeOK, Errors, Elapsed, config,
     request, response, tasks, reader, caller
<1>30. CASE UNCHANGED vars
  BY <1>t, <1>30 DEF vars, TypeOK, Errors, Elapsed, config, request,
     response, tasks, reader, caller
<1> QED
  BY <1>1, <1>2, <1>3, <1>4, <1>5, <1>6, <1>7, <1>8, <1>9, <1>10, <1>11,
     <1>12, <1>13, <1>14, <1>15, <1>16, <1>17, <1>18, <1>19, <1>20, <1>21,
     <1>22, <1>23, <1>24, <1>25, <1>26, <1>27, <1>28, <1>29, <1>30, <1>next
     DEF Next, MessageStep, BuildStep, Finished, Open

(* Every way out of a state of the receive half ends its task or hands it  *)
(* on.                                                                     *)
LEMMA TaskStep == TypeOK /\ TaskInv /\ [Next]_vars => TaskInv'
<1> SUFFICES ASSUME TypeOK, TaskInv, [Next]_vars
             PROVE  TaskInv'
  OBVIOUS
<1>t. TypeOK /\ TaskInv
  OBVIOUS
<1>next. Next \/ UNCHANGED vars
  OBVIOUS
<1>1. CASE Send
  BY <1>t, <1>1 DEF Send, TypeOK, TaskInv, config, request, response, tasks,
     reader, caller
<1>2. CASE SendResumes
  BY <1>t, <1>2 DEF SendResumes, TypeOK, TaskInv, config, request, response,
     tasks, reader, caller
<1>3. CASE CancelSend
  BY <1>t, <1>3 DEF CancelSend, TypeOK, TaskInv, config, request, response,
     tasks, reader, caller
<1>4. CASE CloseSend
  BY <1>t, <1>4 DEF CloseSend, TypeOK, TaskInv, config, request, response,
     tasks, reader, caller
<1>5. CASE PullRequest
  BY <1>t, <1>5 DEF PullRequest, TypeOK, TaskInv, config, request, response,
     tasks, reader, caller
<1>6. CASE EncodeFails
  BY <1>t, <1>6 DEF EncodeFails, TypeOK, TaskInv, config, request, response,
     tasks, reader, caller
<1>7. CASE StopRequest
  BY <1>t, <1>7 DEF StopRequest, TypeOK, TaskInv, config, request, response,
     tasks, reader, caller
<1>8. ASSUME NEW h \in Heads, GetHead(h)
       PROVE  TaskInv'
  BY <1>t, <1>8 DEF GetHead, Heads, TypeOK, TaskInv, config, request,
     response, tasks, reader, caller
<1>9. ASSUME NEW i \in Open \cup Terminal, ServerSends(i)
       PROVE  TaskInv'
  BY <1>t, <1>9 DEF ServerSends, TypeOK, TaskInv, config, request, response,
     tasks, reader, caller
<1>10. ASSUME NEW how \in {"eof", "reset"}, ServerEnds(how)
       PROVE  TaskInv'
  BY <1>t, <1>10 DEF ServerEnds, TypeOK, TaskInv, config, request, response,
     tasks, reader, caller
<1>11. CASE CallMessage
  BY <1>t, <1>11 DEF CallMessage, TypeOK, TaskInv, config, request,
     response, tasks, reader, caller
<1>12. CASE CancelMessage
  BY <1>t, <1>12 DEF CancelMessage, TypeOK, TaskInv, config, request,
     response, tasks, reader, caller
<1>13. CASE CancelCall
  BY <1>t, <1>13 DEF CancelCall, AbandonSend, TypeOK, TaskInv, config,
     request, response, tasks, reader, caller
<1>14. CASE AwaitHeaders
  BY <1>t, <1>14 DEF AwaitHeaders, Fail, Return, TypeOK, TaskInv, config,
     request, response, tasks, reader, caller
<1>15. CASE HeadersTimeOut
  BY <1>t, <1>15 DEF HeadersTimeOut, Fail, Return, TypeOK, TaskInv, config,
     request, response, tasks, reader, caller
<1>16. CASE AwaitBuild
  BY <1>t, <1>16 DEF AwaitBuild, Fail, Return, TypeOK, TaskInv, config,
     request, response, tasks, reader, caller
<1>17. CASE AwaitFailed
  BY <1>t, <1>17 DEF AwaitFailed, Return, TypeOK, TaskInv, config, request,
     response, tasks, reader, caller
<1>18. CASE ServerCallReturns
  BY <1>t, <1>18 DEF ServerCallReturns, Settle, Surfaced, YieldStream,
     Return, TypeOK, TaskInv, config, request, response, tasks, reader,
     caller
<1>19. CASE ClientCallReturns
  BY <1>t, <1>19 DEF ClientCallReturns, Settle, Surfaced, Return, TypeOK,
     TaskInv, config, request, response, tasks, reader, caller
<1>20. CASE CallTimesOut
  BY <1>t, <1>20 DEF CallTimesOut, Settle, Surfaced, AbandonSend, Return,
     TypeOK, TaskInv, config, request, response, tasks, reader, caller
<1>21. CASE Replay
  BY <1>t, <1>21 DEF Replay, Return, TypeOK, TaskInv, config, request,
     response, tasks, reader, caller
<1>22. CASE ReadMessage
  BY <1>t, <1>22 DEF ReadMessage, Reading, Await, Return, TypeOK, TaskInv,
     config, request, response, tasks, reader, caller
<1>23. CASE ReadOn
  BY <1>t, <1>23 DEF ReadOn, Reading, Await, TypeOK, TaskInv, config,
     request, response, tasks, reader, caller
<1>24. CASE ReadTerminal
  BY <1>t, <1>24 DEF ReadTerminal, Reading, Await, EndStream, Return,
     TypeOK, TaskInv, config, request, response, tasks, reader, caller
<1>25. CASE ReadEnd
  BY <1>t, <1>25 DEF ReadEnd, Reading, EndStream, Return, TypeOK, TaskInv,
     config, request, response, tasks, reader, caller
<1>26. CASE BuildDone
  BY <1>t, <1>26 DEF BuildDone, BuildReturns, Constructed, ReadError,
     TypeOK, TaskInv, config, request, response, tasks, reader, caller
<1>27. CASE BuildTimesOut
  BY <1>t, <1>27 DEF BuildTimesOut, BuildReturns, TypeOK, TaskInv, config,
     request, response, tasks, reader, caller
<1>28. CASE DropRecv
  BY <1>t, <1>28 DEF DropRecv, DropAborts, TypeOK, TaskInv, config, request,
     response, tasks, reader, caller
<1>29. CASE Tick
  BY <1>t, <1>29 DEF Tick, TypeOK, TaskInv, config, request, response,
     tasks, reader, caller
<1>30. CASE UNCHANGED vars
  BY <1>t, <1>30 DEF vars, TypeOK, TaskInv, config, request, response,
     tasks, reader, caller
<1> QED
  BY <1>1, <1>2, <1>3, <1>4, <1>5, <1>6, <1>7, <1>8, <1>9, <1>10, <1>11,
     <1>12, <1>13, <1>14, <1>15, <1>16, <1>17, <1>18, <1>19, <1>20, <1>21,
     <1>22, <1>23, <1>24, <1>25, <1>26, <1>27, <1>28, <1>29, <1>30, <1>next
     DEF Next, MessageStep, BuildStep, Finished, Open

(* What has been told once is replayed by every later call.                *)
LEMMA StickyStep == TypeOK /\ TaskInv /\ StickyInv /\ [Next]_vars => StickyInv'
<1> SUFFICES ASSUME TypeOK, TaskInv, StickyInv, [Next]_vars
             PROVE  StickyInv'
  OBVIOUS
<1>t. TypeOK /\ TaskInv /\ StickyInv
  OBVIOUS
<1>next. Next \/ UNCHANGED vars
  OBVIOUS
<1>1. CASE Send
  BY <1>t, <1>1 DEF Send, TypeOK, TaskInv, StickyInv, Errors, config,
     request, response, tasks, reader, caller
<1>2. CASE SendResumes
  BY <1>t, <1>2 DEF SendResumes, TypeOK, TaskInv, StickyInv, Errors, config,
     request, response, tasks, reader, caller
<1>3. CASE CancelSend
  BY <1>t, <1>3 DEF CancelSend, TypeOK, TaskInv, StickyInv, Errors, config,
     request, response, tasks, reader, caller
<1>4. CASE CloseSend
  BY <1>t, <1>4 DEF CloseSend, TypeOK, TaskInv, StickyInv, Errors, config,
     request, response, tasks, reader, caller
<1>5. CASE PullRequest
  BY <1>t, <1>5 DEF PullRequest, TypeOK, TaskInv, StickyInv, Errors, config,
     request, response, tasks, reader, caller
<1>6. CASE EncodeFails
  BY <1>t, <1>6 DEF EncodeFails, TypeOK, TaskInv, StickyInv, Errors, config,
     request, response, tasks, reader, caller
<1>7. CASE StopRequest
  BY <1>t, <1>7 DEF StopRequest, TypeOK, TaskInv, StickyInv, Errors, config,
     request, response, tasks, reader, caller
<1>8. ASSUME NEW h \in Heads, GetHead(h)
       PROVE  StickyInv'
  BY <1>t, <1>8 DEF GetHead, TypeOK, TaskInv, StickyInv, Errors, config,
     request, response, tasks, reader, caller
<1>9. ASSUME NEW i \in Open \cup Terminal, ServerSends(i)
       PROVE  StickyInv'
  BY <1>t, <1>9 DEF ServerSends, TypeOK, TaskInv, StickyInv, Errors, config,
     request, response, tasks, reader, caller
<1>10. ASSUME NEW how \in {"eof", "reset"}, ServerEnds(how)
       PROVE  StickyInv'
  BY <1>t, <1>10 DEF ServerEnds, TypeOK, TaskInv, StickyInv, Errors, config,
     request, response, tasks, reader, caller
<1>11. CASE CallMessage
  BY <1>t, <1>11 DEF CallMessage, TypeOK, TaskInv, StickyInv, Errors,
     config, request, response, tasks, reader, caller
<1>12. CASE CancelMessage
  BY <1>t, <1>12 DEF CancelMessage, TypeOK, TaskInv, StickyInv, Errors,
     config, request, response, tasks, reader, caller
<1>13. CASE CancelCall
  BY <1>t, <1>13 DEF CancelCall, AbandonSend, TypeOK, TaskInv, StickyInv,
     Errors, config, request, response, tasks, reader, caller
<1>14. CASE AwaitHeaders
  BY <1>t, <1>14 DEF AwaitHeaders, Fail, Return, TypeOK, TaskInv, StickyInv,
     Errors, config, request, response, tasks, reader, caller
<1>15. CASE HeadersTimeOut
  BY <1>t, <1>15 DEF HeadersTimeOut, Fail, Return, TypeOK, TaskInv,
     StickyInv, Errors, config, request, response, tasks, reader, caller
<1>16. CASE AwaitBuild
  <2>1. told = "none" /\ end = "none"
    BY <1>t, <1>16 DEF AwaitBuild, StickyInv
  <2>2. build = "done" /\ built # "none"
    BY <1>t, <1>16 DEF AwaitBuild, TaskInv
  <2> QED
    BY <1>t, <1>16, <2>1, <2>2 DEF AwaitBuild, Fail, Return, TypeOK,
       TaskInv, StickyInv, Errors, config, request, response, tasks,
       reader, caller
<1>17. CASE AwaitFailed
  BY <1>t, <1>17 DEF AwaitFailed, Return, TypeOK, TaskInv, StickyInv,
     Errors, config, request, response, tasks, reader, caller
<1>18. CASE ServerCallReturns
  <2>1. told = "none" /\ end = "none" /\ recv = "Calling" /\ UNCHANGED <<failure, reader>>
    BY <1>t, <1>18 DEF ServerCallReturns, StickyInv
  <2>2. CASE YieldStream
    BY <1>t, <2>1, <2>2 DEF YieldStream, StickyInv, reader
  <2>3. CASE \E r \in Verdicts : Settle(r)
    <3>1. PICK r \in Verdicts : Settle(r)
      BY <2>3
    <3>2. Surfaced(r) \in Verdicts
      BY <3>1 DEF Surfaced, Verdicts, Errors
    <3> QED
      BY <1>t, <2>1, <3>1, <3>2 DEF Settle, Return, StickyInv, reader,
         Verdicts, Errors
  <2>4. Constructed \in Verdicts
    BY ReadErrorIs DEF Constructed, Verdicts, Errors
  <2> QED
    BY <1>18, <2>2, <2>3, <2>4 DEF ServerCallReturns, Verdicts, Errors
<1>19. CASE ClientCallReturns
  <2>1. PICK r \in Verdicts : Settle(r)
    BY <1>19, ParsedVerdict DEF ClientCallReturns, Verdicts, Errors
  <2>2. Surfaced(r) \in Verdicts
    BY <2>1 DEF Surfaced, Verdicts, Errors
  <2> QED
    BY <1>t, <1>19, <2>1, <2>2 DEF ClientCallReturns, Settle, Return,
       Verdicts, TypeOK, TaskInv, StickyInv, Errors, config, request,
       response, tasks, reader, caller
<1>20. CASE CallTimesOut
  BY <1>t, <1>20 DEF CallTimesOut, Settle, Surfaced, AbandonSend, Return,
     TypeOK, TaskInv, StickyInv, Errors, config, request, response, tasks,
     reader, caller
<1>21. CASE Replay
  BY <1>t, <1>21 DEF Replay, Return, Ended, TypeOK, TaskInv, StickyInv,
     Errors, config, request, response, tasks, reader, caller
<1>22. CASE ReadMessage
  BY <1>t, <1>22 DEF ReadMessage, Reading, Await, Return, Ended, TypeOK,
     TaskInv, StickyInv, Errors, config, request, response, tasks, reader,
     caller
<1>23. CASE ReadOn
  BY <1>t, <1>23 DEF ReadOn, Reading, Await, TypeOK, TaskInv, StickyInv,
     Errors, config, request, response, tasks, reader, caller
<1>24. CASE ReadTerminal
  <2>1. PICK r \in Verdicts : EndStream(r)
    BY <1>24, TerminalVerdict
  <2> QED
    BY <1>t, <1>24, <2>1 DEF ReadTerminal, Reading, Ended, EndStream,
       Return, Verdicts, TypeOK, TaskInv, StickyInv, Errors, config,
       request, response, tasks, reader, caller
<1>25. CASE ReadEnd
  <2>1. PICK r \in Verdicts : EndStream(r)
    BY <1>t, <1>25, EndVerdict DEF TypeOK
  <2> QED
    BY <1>t, <1>25, <2>1 DEF ReadEnd, Reading, Ended, EndStream, Return,
       Verdicts, TypeOK, TaskInv, StickyInv, Errors, config, request,
       response, tasks, reader, caller
<1>26. CASE BuildDone
  BY <1>t, <1>26 DEF BuildDone, BuildReturns, TypeOK, TaskInv, StickyInv,
     Errors, config, request, response, tasks, reader, caller
<1>27. CASE BuildTimesOut
  BY <1>t, <1>27 DEF BuildTimesOut, BuildReturns, TypeOK, TaskInv,
     StickyInv, Errors, config, request, response, tasks, reader, caller
<1>28. CASE DropRecv
  BY <1>t, <1>28 DEF DropRecv, DropAborts, TypeOK, TaskInv, StickyInv,
     Errors, config, request, response, tasks, reader, caller
<1>29. CASE Tick
  BY <1>t, <1>29 DEF Tick, TypeOK, TaskInv, StickyInv, Errors, config,
     request, response, tasks, reader, caller
<1>30. CASE UNCHANGED vars
  BY <1>t, <1>30 DEF vars, TypeOK, TaskInv, StickyInv, Errors, config,
     request, response, tasks, reader, caller
<1> QED
  BY <1>1, <1>2, <1>3, <1>4, <1>5, <1>6, <1>7, <1>8, <1>9, <1>10, <1>11,
     <1>12, <1>13, <1>14, <1>15, <1>16, <1>17, <1>18, <1>19, <1>20, <1>21,
     <1>22, <1>23, <1>24, <1>25, <1>26, <1>27, <1>28, <1>29, <1>30, <1>next
     DEF Next, MessageStep, BuildStep, Finished, Open

-----------------------------------------------------------------------------
(* What has been read of the body.                                         *)

(* The messages up to a point of the response are finitely many.           *)
LEMMA MessagesFinite == \A n \in Nat : IsFiniteSet(MessagesTo(n))
<1> SUFFICES ASSUME NEW n \in Nat
             PROVE  IsFiniteSet(MessagesTo(n))
  OBVIOUS
<1>1. IsFiniteSet(1..n)
  BY FS_Interval
<1>2. MessagesTo(n) \subseteq 1..n
  BY DEF MessagesTo
<1> QED
  BY <1>1, <1>2, FS_Subset

(* Reading an item adds it to the messages if it is one.                   *)
LEMMA ReadOne ==
    ASSUME TypeOK, next \in 1..Len(items), next' = next + 1, items' = items
    PROVE  /\ items[next] # "msg" => MessagesTo(next - 1)' = MessagesTo(next - 1)
           /\ items[next] = "msg" => Cardinality(MessagesTo(next - 1)')
                                       = Cardinality(MessagesTo(next - 1)) + 1
<1>1. PICK n \in Nat : n = next - 1
  BY DEF TypeOK
<1>2. MessagesTo(next - 1)' = {i \in 1..next : items[i] = "msg"}
  BY DEF MessagesTo
<1>3. CASE items[next] # "msg"
  BY <1>2, <1>3 DEF MessagesTo
<1>4. CASE items[next] = "msg"
  <2>1. MessagesTo(next - 1)' = MessagesTo(next - 1) \cup {next}
    BY <1>2, <1>4 DEF MessagesTo
  <2>2. next \notin MessagesTo(next - 1)
    BY DEF MessagesTo
  <2>3. IsFiniteSet(MessagesTo(next - 1))
    BY <1>1, MessagesFinite
  <2> QED
    BY <1>4, <2>1, <2>2, <2>3, FS_AddElement
<1> QED
  BY <1>3, <1>4

(* A step that reads nothing leaves the account of what was read as it     *)
(* was.                                                                    *)
LEMMA ReadFrame ==
    ASSUME ReadInv, UNCHANGED <<kind, items, next, sawData>>,
           kind # "client" \/ recv' = "Calling" => got' = got,
           recv' = "Calling" => recv = "Calling",
           end' = "none" => end = "none"
    PROVE  ReadInv'
BY DEF ReadInv, MessagesTo

(* Each step of the reader keeps the account of what has been read.        *)
LEMMA ReadStep == TypeOK /\ TaskInv /\ ReadInv /\ [Next]_vars => ReadInv'
<1> SUFFICES ASSUME TypeOK, TaskInv, ReadInv, [Next]_vars
             PROVE  ReadInv'
  OBVIOUS
<1>t. TypeOK /\ TaskInv /\ ReadInv
  OBVIOUS
<1>next. Next \/ UNCHANGED vars
  OBVIOUS
<1>1. CASE Send
  BY <1>t, <1>1, ReadFrame DEF Send, TypeOK, TaskInv, Errors, request,
     tasks, config, response, reader, caller
<1>2. CASE SendResumes
  BY <1>t, <1>2, ReadFrame DEF SendResumes, TypeOK, TaskInv, Errors,
     request, tasks, config, response, reader, caller
<1>3. CASE CancelSend
  BY <1>t, <1>3, ReadFrame DEF CancelSend, TypeOK, TaskInv, Errors, request,
     tasks, config, response, reader, caller
<1>4. CASE CloseSend
  BY <1>t, <1>4, ReadFrame DEF CloseSend, TypeOK, TaskInv, Errors, request,
     tasks, config, response, reader, caller
<1>5. CASE PullRequest
  BY <1>t, <1>5, ReadFrame DEF PullRequest, TypeOK, TaskInv, Errors,
     request, tasks, config, response, reader, caller
<1>6. CASE EncodeFails
  BY <1>t, <1>6, ReadFrame DEF EncodeFails, TypeOK, TaskInv, Errors,
     request, tasks, config, response, reader, caller
<1>7. CASE StopRequest
  BY <1>t, <1>7, ReadFrame DEF StopRequest, TypeOK, TaskInv, Errors,
     request, tasks, config, response, reader, caller
<1>8. ASSUME NEW h \in Heads, GetHead(h)
       PROVE  ReadInv'
  BY <1>t, <1>8, ReadFrame DEF GetHead, TypeOK, TaskInv, Errors, request,
     tasks, config, response, reader, caller
<1>9. ASSUME NEW i \in Open \cup Terminal, ServerSends(i)
       PROVE  ReadInv'
  <2>1. items' = Append(items, i) /\ UNCHANGED <<kind, got, next, sawData, end, recv>>
    BY <1>9 DEF ServerSends, config, response, reader, caller
  <2>2. /\ items \in Seq(Data \cup HttpTrailers) /\ next \in Nat /\ next - 1 <= Len(items)
        /\ Len(items) \in Nat /\ Len(items') = Len(items) + 1
        /\ \A j \in 1..Len(items) : items'[j] = items[j]
    BY <1>t, <2>1 DEF TypeOK, Data
  <2>3. \A j \in 1..Len(items') : j < Len(items') => items'[j] \in Open
    <3> SUFFICES ASSUME NEW j \in 1..Len(items'), j < Len(items')
                 PROVE  items'[j] \in Open
      OBVIOUS
    <3>1. j \in 1..Len(items) /\ items'[j] = items[j]
      BY <2>2
    <3>2. CASE j < Len(items)
      BY <1>t, <3>1, <3>2 DEF ReadInv
    <3>3. CASE j = Len(items)
      <4>1. items # <<>>
        BY <2>2, <3>1
      <4>2. items[Len(items)] \in Open
        BY <1>9, <4>1 DEF ServerSends, Open
      <4> QED
        BY <3>1, <3>3, <4>2
    <3> QED
      BY <2>2, <3>1, <3>2, <3>3
  <2>4. \A j \in 1..next - 1 : items'[j] = items[j]
    BY <2>2
  <2>5. MessagesTo(next - 1)' = MessagesTo(next - 1)
    BY <2>1, <2>4 DEF MessagesTo
  <2> QED
    BY <1>t, <2>1, <2>3, <2>4, <2>5 DEF ReadInv
<1>10. ASSUME NEW how \in {"eof", "reset"}, ServerEnds(how)
       PROVE  ReadInv'
  BY <1>t, <1>10, ReadFrame DEF ServerEnds, TypeOK, TaskInv, Errors,
     request, tasks, config, response, reader, caller
<1>11. CASE CallMessage
  BY <1>t, <1>11, ReadFrame DEF CallMessage, TypeOK, TaskInv, Errors,
     request, tasks, config, response, reader, caller
<1>12. CASE CancelMessage
  BY <1>t, <1>12, ReadFrame DEF CancelMessage, TypeOK, TaskInv, Errors,
     request, tasks, config, response, reader, caller
<1>13. CASE CancelCall
  BY <1>t, <1>13, ReadFrame DEF CancelCall, AbandonSend, TypeOK, TaskInv,
     Errors, request, tasks, config, response, reader, caller
<1>14. CASE AwaitHeaders
  BY <1>t, <1>14, ReadFrame DEF AwaitHeaders, Fail, Return, TypeOK, TaskInv,
     Errors, request, tasks, config, response, reader, caller
<1>15. CASE HeadersTimeOut
  BY <1>t, <1>15, ReadFrame DEF HeadersTimeOut, Fail, Return, TypeOK,
     TaskInv, Errors, request, tasks, config, response, reader, caller
<1>16. CASE AwaitBuild
  BY <1>t, <1>16, ReadFrame DEF AwaitBuild, Fail, Return, TypeOK, TaskInv,
     Errors, request, tasks, config, response, reader, caller
<1>17. CASE AwaitFailed
  BY <1>t, <1>17, ReadFrame DEF AwaitFailed, Return, TypeOK, TaskInv,
     Errors, request, tasks, config, response, reader, caller
<1>18. CASE ServerCallReturns
  <2>1. Constructed # "msg"
    BY ReadErrorIs DEF Constructed
  <2> QED
    BY <1>t, <1>18, <2>1, ReadFrame DEF ServerCallReturns, Settle,
       Surfaced, YieldStream, Return, config, response, reader, caller
<1>19. CASE ClientCallReturns
  <2>1. recv' = "dropped" /\ kind = "client"
    BY <1>19 DEF ClientCallReturns, Settle
  <2> QED
    BY <1>t, <1>19, <2>1, ReadFrame DEF ClientCallReturns, config,
       response, reader, caller
<1>20. CASE CallTimesOut
  BY <1>t, <1>20, ReadFrame DEF CallTimesOut, Settle, Surfaced, AbandonSend,
     Return, TypeOK, TaskInv, Errors, request, tasks, config, response,
     reader, caller
<1>21. CASE Replay
  BY <1>t, <1>21, ReadFrame DEF Replay, Return, TypeOK, TaskInv, Errors,
     request, tasks, config, response, reader, caller
<1>22. CASE ReadMessage
  <2>1. /\ next \in Nat /\ next \in 1..Len(items) /\ next' = next + 1
        /\ UNCHANGED <<kind, items, recv>>
        /\ kind # "client" /\ recv = "Ready" /\ end = "none"
    BY <1>t, <1>22 DEF ReadMessage, Reading, Ended, TypeOK, TaskInv,
       config, response, reader, caller
  <2>2. /\ items[next] = "msg" /\ got' = got + 1 /\ end' = end /\ sawData' = TRUE
    BY <1>22 DEF ReadMessage, Await, Return
  <2>3. \A j \in 1..next' - 1 : j \in 1..next - 1 \/ j = next
    BY <2>1
  <2>4. kind # "client" => got' = Cardinality(MessagesTo(next - 1)')
    BY <1>t, <2>1, <2>2, ReadOne DEF ReadInv
  <2>5. end' = "none" => \A j \in 1..next' - 1 : items[j] # "bad"
    BY <1>t, <2>1, <2>2, <2>3 DEF ReadInv
  <2>6. ~sawData' => \A j \in 1..next' - 1 : items[j] \notin Data
    BY <1>t, <2>1, <2>2, <2>3 DEF ReadInv
  <2> QED
    BY <1>t, <2>1, <2>4, <2>5, <2>6 DEF ReadInv
<1>23. CASE ReadOn
  <2>1. /\ next \in Nat /\ next \in 1..Len(items) /\ next' = next + 1
        /\ UNCHANGED <<kind, items, recv>>
        /\ kind # "client" /\ recv = "Ready" /\ end = "none"
    BY <1>t, <1>23 DEF ReadOn, Reading, Ended, TypeOK, TaskInv, config,
       response, reader, caller
  <2>2. /\ items[next] \notin {"msg", "bad"} /\ got' = got /\ end' = end
        /\ sawData' = FALSE => sawData = FALSE /\ items[next] \notin Data
    BY <1>t, <1>23 DEF ReadOn, Await, HttpTrailers, EndStreams,
       TrailerFrames, Data, TypeOK, caller
  <2>3. \A j \in 1..next' - 1 : j \in 1..next - 1 \/ j = next
    BY <2>1
  <2>4. kind # "client" => got' = Cardinality(MessagesTo(next - 1)')
    BY <1>t, <2>1, <2>2, ReadOne DEF ReadInv
  <2>5. end' = "none" => \A j \in 1..next' - 1 : items[j] # "bad"
    BY <1>t, <2>1, <2>2, <2>3 DEF ReadInv
  <2>6. ~sawData' => \A j \in 1..next' - 1 : items[j] \notin Data
    BY <1>t, <2>1, <2>2, <2>3 DEF ReadInv
  <2> QED
    BY <1>t, <2>1, <2>4, <2>5, <2>6 DEF ReadInv
<1>24. CASE ReadTerminal
  <2>1. /\ next \in Nat /\ next \in 1..Len(items) /\ next' = next + 1
        /\ UNCHANGED <<kind, items, recv>>
        /\ kind # "client" /\ recv = "Ready" /\ end = "none"
    BY <1>t, <1>24 DEF ReadTerminal, Reading, Ended, TypeOK, TaskInv,
       config, response, reader, caller
  <2>2. /\ items[next] # "msg" /\ got' = got /\ end' # "none"
        /\ sawData' = FALSE => sawData = FALSE /\ items[next] \notin Data
    <3>1. PICK r \in Verdicts : EndStream(r)
      BY <1>24, TerminalVerdict
    <3> QED
      BY <1>t, <1>24, <2>1, <3>1 DEF ReadTerminal, Await, EndStream,
         Return, Verdicts, Errors, HttpTrailers, EndStreams, TrailerFrames,
         Data, TypeOK
  <2>3. \A j \in 1..next' - 1 : j \in 1..next - 1 \/ j = next
    BY <2>1
  <2>4. kind # "client" => got' = Cardinality(MessagesTo(next - 1)')
    BY <1>t, <2>1, <2>2, ReadOne DEF ReadInv
  <2>5. end' = "none" => \A j \in 1..next' - 1 : items[j] # "bad"
    BY <1>t, <2>1, <2>2, <2>3 DEF ReadInv
  <2>6. ~sawData' => \A j \in 1..next' - 1 : items[j] \notin Data
    BY <1>t, <2>1, <2>2, <2>3 DEF ReadInv
  <2> QED
    BY <1>t, <2>1, <2>4, <2>5, <2>6 DEF ReadInv
<1>25. CASE ReadEnd
  <2>1. PICK r \in Verdicts : EndStream(r)
    BY <1>t, <1>25, EndVerdict DEF TypeOK
  <2> QED
    BY <1>t, <1>25, <2>1, ReadFrame DEF ReadEnd, Reading, Ended,
       EndStream, Return, Verdicts, Errors, TaskInv, config, response,
       reader, caller
<1>26. CASE BuildDone
  BY <1>t, <1>26, ReadFrame DEF BuildDone, BuildReturns, TypeOK, TaskInv,
     Errors, request, tasks, config, response, reader, caller
<1>27. CASE BuildTimesOut
  BY <1>t, <1>27, ReadFrame DEF BuildTimesOut, BuildReturns, TypeOK,
     TaskInv, Errors, request, tasks, config, response, reader, caller
<1>28. CASE DropRecv
  BY <1>t, <1>28, ReadFrame DEF DropRecv, DropAborts, TypeOK, TaskInv,
     Errors, request, tasks, config, response, reader, caller
<1>29. CASE Tick
  BY <1>t, <1>29, ReadFrame DEF Tick, TypeOK, TaskInv, Errors, request,
     tasks, config, response, reader, caller
<1>30. CASE UNCHANGED vars
  BY <1>t, <1>30, ReadFrame DEF vars, TypeOK, TaskInv, Errors, request,
     tasks, config, response, reader, caller
<1> QED
  BY <1>1, <1>2, <1>3, <1>4, <1>5, <1>6, <1>7, <1>8, <1>9, <1>10, <1>11,
     <1>12, <1>13, <1>14, <1>15, <1>16, <1>17, <1>18, <1>19, <1>20, <1>21,
     <1>22, <1>23, <1>24, <1>25, <1>26, <1>27, <1>28, <1>29, <1>30, <1>next
     DEF Next, MessageStep, BuildStep, Finished, Open

-----------------------------------------------------------------------------
(* What has been told stays true.                                          *)

(* The response is changed by the transport and the server only, and the   *)
(* deadline by the clock.                                                  *)
LEMMA ResponseSteps ==
    ASSUME [Next]_vars
    PROVE  \/ UNCHANGED <<kind, response, timeLeft>>
           \/ \E h \in Heads : GetHead(h)
           \/ \E i \in Open \cup Terminal : ServerSends(i)
           \/ \E how \in {"eof", "reset"} : ServerEnds(how)
           \/ Tick
<1>1. CASE \/ Send \/ SendResumes \/ CancelSend \/ CloseSend
           \/ PullRequest \/ EncodeFails \/ StopRequest
  BY <1>1 DEF Send, SendResumes, CancelSend, CloseSend, PullRequest,
     EncodeFails, StopRequest, config
<1>2. CASE \/ CallMessage \/ CancelMessage \/ CancelCall \/ AwaitHeaders
           \/ HeadersTimeOut \/ AwaitBuild \/ AwaitFailed
  BY <1>2 DEF CallMessage, CancelMessage, CancelCall, AwaitHeaders,
     HeadersTimeOut, AwaitBuild, AwaitFailed, config
<1>3. CASE \/ ServerCallReturns \/ ClientCallReturns \/ CallTimesOut \/ Replay
           \/ ReadMessage \/ ReadOn \/ ReadTerminal \/ ReadEnd
  BY <1>3 DEF ServerCallReturns, ClientCallReturns, CallTimesOut, Replay,
     ReadMessage, ReadOn, ReadTerminal, ReadEnd, config
<1>4. CASE \/ BuildDone \/ BuildTimesOut \/ DropRecv \/ UNCHANGED vars
  BY <1>4 DEF BuildDone, BuildTimesOut, DropRecv, vars, BuildReturns, config
<1> QED
  BY <1>1, <1>2, <1>3, <1>4 DEF Next, MessageStep, BuildStep, Finished, Open

(* The head and the end of the response come once, its items only grow in  *)
(* number, and a deadline that has passed has passed.                      *)
LEMMA ResponseGrows ==
    ASSUME TypeOK, [Next]_vars
    PROVE  /\ head # "none" => head' = head
           /\ bodyEnd # "no" => bodyEnd' = bodyEnd
           /\ Elapsed => Elapsed'
           /\ \A S : Sent(S) \subseteq Sent(S)'
           /\ kind' = kind
<1>1. CASE UNCHANGED <<kind, response, timeLeft>>
  BY <1>1 DEF response, Elapsed, Sent
<1>2. CASE \E h \in Heads : GetHead(h)
  BY <1>2 DEF GetHead, Elapsed, Sent, config
<1>3. ASSUME NEW i \in Open \cup Terminal, ServerSends(i)
      PROVE  /\ \A S : Sent(S) \subseteq Sent(S)'
             /\ UNCHANGED <<kind, head, bodyEnd, timeLeft>>
  <2>1. items' = Append(items, i) /\ UNCHANGED <<kind, head, bodyEnd, timeLeft>>
    BY <1>3 DEF ServerSends, config
  <2>2. Len(items) \in Nat /\ Len(items') = Len(items) + 1
        /\ \A j \in 1..Len(items) : items'[j] = items[j]
    BY <2>1 DEF TypeOK
  <2> QED
    BY <2>1, <2>2 DEF Sent
<1>4. CASE \E how \in {"eof", "reset"} : ServerEnds(how)
  BY <1>4 DEF ServerEnds, Elapsed, Sent, config
<1>5. CASE Tick
  BY <1>5 DEF Tick, Elapsed, Sent, config, response
<1> QED
  BY <1>1, <1>2, <1>3, <1>4, <1>5, ResponseSteps DEF Elapsed

(* The evidence behind a verdict is not taken back by a later step.        *)
LEMMA BlameStays ==
    ASSUME TypeOK, [Next]_vars, NEW r, Blame(r)
    PROVE  Blame(r)'
<1>1. Sent(SaysErr) \subseteq Sent(SaysErr)'
  BY ResponseGrows
<1> QED
  BY <1>1, ResponseGrows DEF Blame

(* A response that was complete when the call succeeded stays as it is.    *)
LEMMA SuccessStays ==
    ASSUME TypeOK, ReadInv, [Next]_vars, Success, UNCHANGED <<got, aborted>>
    PROVE  Success'
<1>1. CASE UNCHANGED <<kind, response, timeLeft>>
  BY <1>1 DEF response, Success, Sent, Closed
<1>2. CASE \E h \in Heads : GetHead(h)
  <2>1. head = "none" /\ UNCHANGED <<items, bodyEnd>>
    BY <1>2 DEF GetHead
  <2> QED
    BY <2>1 DEF Success, Sent, Closed
<1>3. ASSUME NEW i \in Open \cup Terminal, ServerSends(i)
      PROVE  FALSE
  <2>1. bodyEnd = "no" /\ (items # <<>> => items[Len(items)] \in Open)
    BY <1>3 DEF ServerSends, Open
  <2>2. PICK j \in 1..Len(items) : items[j] \notin Open
    BY <2>1 DEF Success, Closed
  <2>3. Len(items) \in Nat /\ j = Len(items) /\ items # <<>>
    BY <2>2 DEF ReadInv, TypeOK
  <2> QED
    BY <2>1, <2>2, <2>3
<1>4. CASE \E how \in {"eof", "reset"} : ServerEnds(how)
  <2>1. UNCHANGED <<items, head>> /\ bodyEnd' # "no"
    BY <1>4 DEF ServerEnds
  <2> QED
    BY <2>1 DEF Success, Sent, Closed
<1>5. CASE Tick
  BY <1>5 DEF Tick, response, Success, Sent, Closed
<1> QED
  BY <1>1, <1>2, <1>3, <1>4, <1>5, ResponseSteps

(* A step that tells nothing new ...                                       *)
LEMMA CauseFrame ==
    ASSUME TypeOK, ReadInv, CauseInv, [Next]_vars,
           UNCHANGED <<told, built>>, told = "ok" => UNCHANGED <<got, aborted>>
    PROVE  CauseInv'
<1>1. PICK r, b : r = told /\ b = built
  OBVIOUS
<1>2. Blame(r)' /\ Blame(b)'
  BY <1>1, BlameStays DEF CauseInv
<1>3. told = "ok" => Success'
  BY SuccessStays DEF CauseInv
<1> QED
  BY <1>1, <1>2, <1>3 DEF CauseInv, Blame

(* ... one that tells the outcome, whose cause is there ...                *)
LEMMA CauseTold ==
    ASSUME TypeOK, CauseInv, [Next]_vars, NEW r, told' = r, built' = built,
           Blame(r), r = "ok" => Success'
    PROVE  CauseInv'
<1>1. PICK b : b = built
  OBVIOUS
<1>2. Blame(r)' /\ Blame(b)'
  BY <1>1, BlameStays DEF CauseInv
<1> QED
  BY <1>1, <1>2 DEF CauseInv, Blame

(* ... and one that returns from the construction.                         *)
LEMMA CauseBuilt ==
    ASSUME TypeOK, ReadInv, CauseInv, [Next]_vars, NEW b, built' = b,
           Blame(b), UNCHANGED <<told, got, aborted>>
    PROVE  CauseInv'
<1>1. PICK r : r = told
  OBVIOUS
<1>2. Blame(r)' /\ Blame(b)'
  BY <1>1, BlameStays DEF CauseInv
<1>3. told = "ok" => Success'
  BY SuccessStays DEF CauseInv
<1> QED
  BY <1>1, <1>2, <1>3 DEF CauseInv, Blame

(* A response of one message, none of which is bad.                        *)
LEMMA OneMessage ==
    ASSUME TypeOK, Sent({"bad"}) = {}, Sent({"msg", "bad"}) # {}, ~Several
    PROVE  Cardinality(Sent({"msg"})) = 1
<1>1. Sent({"msg"}) = Sent({"msg", "bad"})
  BY DEF Sent
<1>2. IsFiniteSet(Sent({"msg"}))
  <2>1. IsFiniteSet(1..Len(items))
    BY FS_Interval DEF TypeOK
  <2> QED
    BY <2>1, FS_Subset DEF Sent
<1>3. Cardinality(Sent({"msg"})) \in Nat /\ Cardinality(Sent({"msg"})) # 0
  BY <1>1, <1>2, FS_CardinalityType, FS_EmptySet
<1>4. ~(Cardinality(Sent({"msg"})) > 1)
  BY <1>1 DEF Several
<1> QED
  BY <1>3, <1>4

(* Whatever message() tells has its cause when it is told, and keeps it.   *)
LEMMA CauseStep == TypeOK /\ TaskInv /\ StickyInv /\ ReadInv /\ CauseInv /\ [Next]_vars => CauseInv'
<1> SUFFICES ASSUME TypeOK, TaskInv, StickyInv, ReadInv, CauseInv, [Next]_vars
             PROVE  CauseInv'
  OBVIOUS
<1>t. TypeOK /\ TaskInv /\ StickyInv /\ ReadInv /\ CauseInv
  OBVIOUS
<1>next. Next \/ UNCHANGED vars
  OBVIOUS
<1>1. CASE Send
  BY <1>t, <1>1, CauseFrame DEF Send, request, tasks, caller
<1>2. CASE SendResumes
  BY <1>t, <1>2, CauseFrame DEF SendResumes, request, tasks, caller
<1>3. CASE CancelSend
  BY <1>t, <1>3, CauseFrame DEF CancelSend, request, tasks, caller
<1>4. CASE CloseSend
  BY <1>t, <1>4, CauseFrame DEF CloseSend, request, tasks, caller
<1>5. CASE PullRequest
  BY <1>t, <1>5, CauseFrame DEF PullRequest, request, tasks, caller
<1>6. CASE EncodeFails
  <2>1. told = "none"
    BY <1>t, <1>6 DEF EncodeFails, StickyInv
  <2> QED
    BY <1>t, <1>6, <2>1, CauseFrame DEF EncodeFails, tasks, caller
<1>7. CASE StopRequest
  BY <1>t, <1>7, CauseFrame DEF StopRequest, request, tasks, caller
<1>8. ASSUME NEW h \in Heads, GetHead(h)
       PROVE  CauseInv'
  BY <1>t, <1>8, CauseFrame DEF GetHead, request, tasks, caller
<1>9. ASSUME NEW i \in Open \cup Terminal, ServerSends(i)
       PROVE  CauseInv'
  BY <1>t, <1>9, CauseFrame DEF ServerSends, request, tasks, caller
<1>10. ASSUME NEW how \in {"eof", "reset"}, ServerEnds(how)
       PROVE  CauseInv'
  BY <1>t, <1>10, CauseFrame DEF ServerEnds, request, tasks, caller
<1>11. CASE CallMessage
  BY <1>t, <1>11, CauseFrame DEF CallMessage, request, tasks, caller
<1>12. CASE CancelMessage
  BY <1>t, <1>12, CauseFrame DEF CancelMessage, request, tasks, caller
<1>13. CASE CancelCall
  BY <1>t, <1>13, CauseFrame DEF CancelCall, request, tasks, caller
<1>14. CASE AwaitHeaders
  <2>1. told = "none" /\ UNCHANGED <<built, aborted>>
    BY <1>t, <1>14 DEF AwaitHeaders, StickyInv, request
  <2>2. CASE head = "failed"
    <3>1. told' = "transport"
      BY <1>14, <2>1, <2>2 DEF AwaitHeaders, Fail, Return
    <3> QED
      BY <1>t, <2>1, <2>2, <3>1, CauseTold DEF Blame
  <2>3. CASE head # "failed"
    BY <1>t, <1>14, <2>1, <2>3, CauseFrame DEF AwaitHeaders, caller
  <2> QED
    BY <2>2, <2>3
<1>15. CASE HeadersTimeOut
  <2>1. told = "none" /\ UNCHANGED built /\ Elapsed
    BY <1>t, <1>15 DEF HeadersTimeOut, StickyInv
  <2>2. told' = "deadline"
    BY <1>15, <2>1 DEF HeadersTimeOut, Fail, Return
  <2> QED
    BY <1>t, <2>1, <2>2, CauseTold DEF Blame
<1>16. CASE AwaitBuild
  <2>1. told = "none" /\ UNCHANGED <<built, aborted>>
    BY <1>t, <1>16 DEF AwaitBuild, StickyInv, tasks, request
  <2>2. CASE built = "ok"
    BY <1>t, <1>16, <2>1, <2>2, CauseFrame DEF AwaitBuild, caller
  <2>3. CASE built # "ok"
    <3>1. told' = built
      BY <1>t, <1>16, <2>1, <2>3 DEF AwaitBuild, Fail, Return, TypeOK, Errors
    <3>2. PICK b : b = built
      OBVIOUS
    <3> QED
      BY <1>t, <2>1, <2>3, <3>1, <3>2, CauseTold DEF CauseInv
  <2> QED
    BY <2>2, <2>3
<1>17. CASE AwaitFailed
  <2>1. told # "none" /\ kind # "client" /\ failure # "msg"
    BY <1>t, <1>17 DEF AwaitFailed, StickyInv, TaskInv, TypeOK, Errors
  <2>2. UNCHANGED <<told, got, built, aborted>>
    BY <1>17, <2>1 DEF AwaitFailed, Return, tasks, request
  <2> QED
    BY <1>t, <2>2, CauseFrame
<1>18. CASE ServerCallReturns
  <2>1. /\ told = "none" /\ UNCHANGED <<built, aborted>> /\ ~aborted
        /\ head # "none" /\ head # "status_err"
    BY <1>t, <1>18 DEF ServerCallReturns, StickyInv, TaskInv, tasks, request
  <2>2. CASE head = "failed"
    <3>1. told' = "transport"
      BY <1>18, <2>1, <2>2 DEF ServerCallReturns, Settle, Surfaced, Return
    <3> QED
      BY <1>t, <2>1, <2>2, <3>1, CauseTold DEF Blame
  <2>3. CASE head # "failed" /\ Constructed = "ok"
    BY <1>t, <1>18, <2>1, <2>3, CauseFrame DEF ServerCallReturns, YieldStream
  <2>4. CASE head # "failed" /\ Constructed # "ok"
    <3>1. HeadSettled /\ Settle(Constructed)
      BY <1>18, <2>4 DEF ServerCallReturns
    <3>2. head \in {"ok", "status", "reject", "error"} /\ bodyEnd \in {"no", "eof", "reset"}
      BY <1>t, <2>1, <2>4 DEF TypeOK
    <3>3. PICK r : r = Constructed
      OBVIOUS
    <3>4. r \in {"server", "deadline", "transport"} /\ Blame(r)
      BY <2>4, <3>1, <3>2, <3>3, ConstructedVerdict DEF Blame
    <3>5. told' = r
      BY <2>1, <3>1, <3>3, <3>4 DEF Settle, Surfaced, Return
    <3> QED
      BY <1>t, <2>1, <3>4, <3>5, CauseTold
  <2> QED
    BY <2>2, <2>3, <2>4
<1>19. CASE ClientCallReturns
  <2>1. told = "none" /\ UNCHANGED <<built, aborted, response>> /\ got = 0 /\ kind = "client"
    BY <1>t, <1>19 DEF ClientCallReturns, StickyInv, ReadInv, tasks, request
  <2>2. CASE aborted
    <3>1. told' = "encode"
      BY <1>19, <2>1, <2>2 DEF ClientCallReturns, Settle, Surfaced, Return
    <3> QED
      BY <1>t, <2>1, <3>1, CauseTold DEF Blame
  <2>3. CASE ~aborted /\ head = "failed"
    <3>1. told' = "transport"
      BY <1>19, <2>1, <2>3 DEF ClientCallReturns, Settle, Surfaced, Return
    <3> QED
      BY <1>t, <2>1, <2>3, <3>1, CauseTold DEF Blame
  <2>4. CASE ~aborted /\ head # "failed"
    <3>1. Collected
      BY <1>19, <2>4 DEF ClientCallReturns
    <3>2. PICK r \in Parsed : Settle(r)
      BY <1>19, <2>4 DEF ClientCallReturns
    <3>3. r \in Verdicts /\ Blame(r)
      BY <3>1, <3>2, ParsedVerdict DEF Blame
    <3>4. told' = r /\ (r = "ok" => got' = 1)
      BY <2>1, <2>4, <3>2, <3>3 DEF Settle, Surfaced, Return, Verdicts, Errors
    <3>5. ASSUME r = "ok"
          PROVE  Success'
      <4>1. /\ Sent(SaysOk) # {} \/ (items = <<>> /\ head = "status")
            /\ Sent({"bad"}) = {} /\ Sent({"msg", "bad"}) # {} /\ ~Several
            /\ bodyEnd # "no" \/ SawTrailerFrame
        BY <3>1, <3>2, <3>5, ParsedVerdict
      <4>2. Closed
        BY <4>1 DEF Closed, SawTrailerFrame, TrailerFrames, Has, Sent, Open
      <4>3. items = <<>> => Sent(Data) = {}
        BY DEF Sent
      <4>4. Cardinality(Sent({"msg"})) = 1
        BY <1>t, <4>1, OneMessage
      <4>5. Sent(SaysOk) # {} \/ (head = "status" /\ Sent(Data) = {})
        BY <4>1, <4>3
      <4> QED
        BY <2>1, <2>4, <3>4, <3>5, <4>1, <4>2, <4>4, <4>5 DEF Success,
           Sent, Closed, response
    <3> QED
      BY <1>t, <2>1, <3>3, <3>4, <3>5, CauseTold
  <2> QED
    BY <2>2, <2>3, <2>4
<1>20. CASE CallTimesOut
  <2>1. told = "none" /\ UNCHANGED built /\ Elapsed
    BY <1>t, <1>20 DEF CallTimesOut, StickyInv
  <2>2. told' \in {"deadline", "encode"}
    BY <1>20, <2>1 DEF CallTimesOut, Settle, Surfaced, Return
  <2>3. PICK r \in {"deadline", "encode"} : told' = r
    BY <2>2
  <2> QED
    BY <1>t, <2>1, <2>3, CauseTold DEF Blame
<1>21. CASE Replay
  <2>1. told # "none" /\ kind # "client" /\ end # "msg"
    BY <1>t, <1>21 DEF Replay, Ended, StickyInv, TaskInv, TypeOK, Errors
  <2>2. UNCHANGED <<told, got, built, aborted>>
    BY <1>21, <2>1 DEF Replay, Return, tasks, request
  <2> QED
    BY <1>t, <2>2, CauseFrame
<1>22. CASE ReadMessage
  <2>1. told = "none" /\ UNCHANGED <<told, built>>
    BY <1>t, <1>22 DEF ReadMessage, Reading, Ended, Return, StickyInv, tasks
  <2> QED
    BY <1>t, <2>1, CauseFrame
<1>23. CASE ReadOn
  BY <1>t, <1>23, CauseFrame DEF ReadOn, request, tasks, caller
<1>24. CASE ReadTerminal
  <2>1. /\ told = "none" /\ UNCHANGED <<built, aborted, response>> /\ ~aborted /\ end = "none"
        /\ next \in 1..Len(items) /\ Len(items) \in Nat /\ kind # "client"
    BY <1>t, <1>24 DEF ReadTerminal, Reading, Ended, StickyInv, TaskInv,
       TypeOK, tasks, request
  <2>2. PICK r \in Verdicts \ {"transport"} :
               /\ EndStream(r)
               /\ r = "server" => items[next] \in SaysErr
               /\ r = "ok" => \/ items[next] \in SaysOk
                              \/ items[next] \in HttpTrailers /\ head = "status" /\ ~sawData
               /\ r = "deadline" => Elapsed
    BY <1>24, TerminalVerdict
  <2>3. told' = r /\ got' = got
    BY <2>1, <2>2 DEF EndStream, Return, Verdicts, Errors
  <2>4. Blame(r)
    BY <2>1, <2>2 DEF Blame, Sent
  <2>5. ASSUME r = "ok"
        PROVE  Success'
    <3>1. items[next] \in {"eos_ok", "end_ok"} \cup HttpTrailers
      BY <2>2, <2>5 DEF HttpTrailers, SaysOk
    <3>2. items[next] \notin Open
      BY <3>1 DEF HttpTrailers, Open
    <3>3. next = Len(items)
      BY <1>t, <2>1, <3>2 DEF ReadInv
    <3>4. \A j \in 1..Len(items) : j \in 1..next - 1 \/ j = next
      BY <2>1, <3>3
    <3>5. MessagesTo(next - 1) = Sent({"msg"})
      BY <2>1, <3>2, <3>3, <3>4 DEF MessagesTo, Sent, Open
    <3>6. Sent({"bad"}) = {}
      BY <1>t, <2>1, <3>2, <3>4 DEF ReadInv, Sent, Open
    <3>7. Sent(SaysOk) # {} \/ (head = "status" /\ Sent(Data) = {})
      <4>1. CASE items[next] \in SaysOk
        BY <2>1, <4>1 DEF Sent
      <4>2. CASE items[next] \in HttpTrailers /\ head = "status" /\ ~sawData
        <5>1. items[next] \notin Data
          BY <4>2 DEF HttpTrailers, EndStreams, TrailerFrames, Data
        <5> QED
          BY <1>t, <4>2, <5>1, <3>4 DEF ReadInv, Sent
      <4> QED
        BY <2>2, <2>5, <4>1, <4>2
    <3>8. got = Cardinality(Sent({"msg"})) /\ Closed
      BY <1>t, <2>1, <3>2, <3>5 DEF ReadInv, Closed
    <3> QED
      BY <2>1, <2>3, <3>6, <3>7, <3>8 DEF Success, Sent, Closed, response
  <2> QED
    BY <1>t, <2>1, <2>3, <2>4, <2>5, CauseTold
<1>25. CASE ReadEnd
  <2>1. /\ told = "none" /\ UNCHANGED <<built, aborted, response>> /\ ~aborted /\ end = "none"
        /\ next = Len(items) + 1 /\ Len(items) \in Nat /\ kind # "client"
    BY <1>t, <1>25 DEF ReadEnd, Reading, Ended, StickyInv, TaskInv,
       TypeOK, tasks, request
  <2>2. PICK r \in Verdicts :
               /\ EndStream(r)
               /\ r # "server"
               /\ r = "ok" => bodyEnd = "eof" /\ head = "status" /\ ~sawData
               /\ r = "transport" => bodyEnd = "reset"
               /\ r = "deadline" => Elapsed
    BY <1>t, <1>25, EndVerdict DEF TypeOK
  <2>3. told' = r /\ got' = got
    BY <2>1, <2>2 DEF EndStream, Return, Verdicts, Errors
  <2>4. Blame(r)
    BY <2>2 DEF Blame
  <2>5. ASSUME r = "ok"
        PROVE  Success'
    <3>1. next - 1 = Len(items)
      BY <2>1
    <3>2. MessagesTo(next - 1) = Sent({"msg"})
      BY <3>1 DEF MessagesTo, Sent
    <3>3. Sent({"bad"}) = {} /\ Sent(Data) = {}
      BY <1>t, <2>1, <2>2, <2>5, <3>1 DEF ReadInv, Sent
    <3>4. got = Cardinality(Sent({"msg"})) /\ Closed
      BY <1>t, <2>1, <2>2, <2>5, <3>2 DEF ReadInv, Closed
    <3> QED
      BY <2>1, <2>2, <2>3, <2>5, <3>3, <3>4 DEF Success, Sent, Closed,
         response
  <2> QED
    BY <1>t, <2>1, <2>3, <2>4, <2>5, CauseTold
<1>26. CASE BuildDone
  <2>1. HeadSettled /\ built' = Constructed /\ UNCHANGED <<told, got, aborted>>
    BY <1>26 DEF BuildDone, BuildReturns, caller, request
  <2>2. head \in {"ok", "status", "reject", "error"} /\ bodyEnd \in {"no", "eof", "reset"}
    BY <1>t, <1>26 DEF BuildDone, BuildReturns, TypeOK, TaskInv
  <2>3. PICK b : b = Constructed
    OBVIOUS
  <2>4. Blame(b)
    BY <2>1, <2>2, <2>3, ConstructedVerdict DEF Blame
  <2> QED
    BY <1>t, <2>1, <2>3, <2>4, CauseBuilt
<1>27. CASE BuildTimesOut
  <2>1. Elapsed /\ built' = "deadline" /\ UNCHANGED <<told, got, aborted>>
    BY <1>27 DEF BuildTimesOut, BuildBounded, BuildReturns, caller, request
  <2>2. Blame("deadline")
    BY <2>1 DEF Blame
  <2> QED
    BY <1>t, <2>1, <2>2, CauseBuilt
<1>28. CASE DropRecv
  BY <1>t, <1>28, CauseFrame DEF DropRecv, request, tasks, caller
<1>29. CASE Tick
  BY <1>t, <1>29, CauseFrame DEF Tick, request, tasks, caller
<1>30. CASE UNCHANGED vars
  BY <1>t, <1>30, CauseFrame DEF vars, request, tasks, caller
<1> QED
  BY <1>1, <1>2, <1>3, <1>4, <1>5, <1>6, <1>7, <1>8, <1>9, <1>10, <1>11,
     <1>12, <1>13, <1>14, <1>15, <1>16, <1>17, <1>18, <1>19, <1>20, <1>21,
     <1>22, <1>23, <1>24, <1>25, <1>26, <1>27, <1>28, <1>29, <1>30, <1>next
     DEF Next, MessageStep, BuildStep, Finished, Open

-----------------------------------------------------------------------------
(* A call that has not started satisfies the invariant.                    *)
LEMMA InitCall == Init => CallInv
<1> SUFFICES ASSUME Init
             PROVE  CallInv
  OBVIOUS
<1>1. /\ Len(items) = 0 /\ items \in Seq(Data \cup HttpTrailers)
      /\ next \in 1..Len(items) + 1 /\ next - 1 = 0
  BY DEF Init
<1>2. /\ sender \in {"idle", "blocked", "closed"} /\ call \in {"idle", "waiting"}
      /\ recv \in {"Calling", "AwaitingHeaders"}
  BY Zenon DEF Init
<1>r. /\ timeLeft \in 0..Deadline /\ sends \in 0..MaxSends /\ chan \in 0..Depth
      /\ got \in Nat
  BY CallAssumption DEF Init
<1>3. TypeOK
  BY <1>1, <1>2, <1>r DEF Init, TypeOK, Errors, Data
<1>4. TaskInv /\ StickyInv
  BY DEF Init, TaskInv, StickyInv
<1>5. MessagesTo(next - 1) = {} /\ Cardinality({}) = 0
  BY <1>1, FS_EmptySet DEF MessagesTo
<1>6. got = Cardinality(MessagesTo(next - 1))
  BY <1>5 DEF Init
<1>7. ReadInv
  BY <1>1, <1>6 DEF Init, ReadInv
<1>8. CauseInv
  BY DEF Init, CauseInv, Blame
<1> QED
  BY <1>3, <1>4, <1>7, <1>8 DEF CallInv

(* For every call, every response the peer may send and every moment of    *)
(* cancellation, deadline or connection loss: the send task, the sticky    *)
(* verdict, the count of what was read and the evidence behind the verdict *)
(* agree.                                                                  *)
THEOREM CallInvariant == Spec => []CallInv
<1>1. CallInv /\ [Next]_vars => CallInv'
  BY TypeStep, TaskStep, StickyStep, ReadStep, CauseStep DEF CallInv
<1> QED
  BY <1>1, InitCall, PTL DEF Spec

(* Type correctness of a client call.                                      *)
THEOREM CallTyped == Spec => []TypeOK
<1>1. CallInv => TypeOK
  BY DEF CallInv
<1> QED
  BY <1>1, CallInvariant, PTL

(* No task outlives its receive half, whenever the deadline strikes and    *)
(* whatever the caller drops.  In BidiRecvHalf's terms: a transport send   *)
(* runs only before the head is taken, a construction only while the half  *)
(* is Constructing, and every way out of these states aborts or reaps it.  *)
THEOREM TasksAreReaped == Spec => []NoOrphanTask
<1>1. CallInv => NoOrphanTask
  BY DEF CallInv, TaskInv, NoOrphanTask
<1> QED
  BY <1>1, CallInvariant, PTL

(* message() tells the truth, and goes on telling it: a success was said   *)
(* by the server (in trailers, in a lone head, or in an envelope flagged   *)
(* END_STREAM, which counts in every protocol) and has all its messages,   *)
(* an error has its cause, and both are replayed.                          *)
THEOREM OutcomeIsTrueAlways == Spec => []OutcomeIsTrue
<1>1. CallInv => OutcomeIsTrue
  BY DEF CallInv, StickyInv, CauseInv, Blame, Success, OutcomeIsTrue
<1> QED
  BY <1>1, CallInvariant, PTL
=============================================================================
