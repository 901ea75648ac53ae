---------------------------- MODULE ServerCall ----------------------------
(***************************************************************************)
(* One call from its request head to its response head: `handle_request`   *)
(* and the handlers it chooses between (connectrpc/src/service.rs), and    *)
(* the interceptor chain they run the method through                       *)
(* (connectrpc/src/interceptor.rs).                                        *)
(*                                                                         *)
(* A request is its head and the content of its body.  The body arrives in *)
(* frames of one unit; collect_body_limited reads it, and one deadline     *)
(* runs over that and the method.  Interceptors and the method are user    *)
(* code: they take as long as they like and answer what they like.  The    *)
(* body of a streaming response is ResponseStream's, the body of a         *)
(* streaming request RequestStream's.                                      *)
(***************************************************************************)
EXTENDS Naturals

CONSTANTS
    Requests,       \* the requests a client may make
    Interceptors,   \* how many interceptors are registered
    MaxReruns,      \* how often interceptors re-run the rest of the chain
    MaxBody,        \* max_request_body_size, in frames
    DefaultTimeout, \* the policy's timeout for a request that names none
    NoTimeout

Verbs    == {"GET", "POST", "other"}
Methods  == {"none", "unary", "server", "client", "bidi"}
Contents == {"empty", "partial", "one", "two", "large", "flagged", "corrupt", "long"}

(* "grpc+x" and "web+x" are gRPC types with a codec the build lacks.       *)
Types == {"none", "other", "unary", "stream",
          "grpc", "grpc+x", "web", "web+x", "text"}

(* encoding: the compression its headers name; valid: its protocol version *)
(* and, for a GET, its query are in order.                                 *)
Request ==
    [verb : Verbs, type : Types, method : Methods, idempotent : BOOLEAN,
     encoding : {"none", "known", "unknown"}, valid : BOOLEAN,
     timeout : Nat \cup {NoTimeout}, content : Contents]

ASSUME CallAssumption ==
    /\ Requests \subseteq Request
    /\ Interceptors \in Nat /\ MaxReruns \in Nat /\ MaxBody \in Nat \ {0}
    /\ NoTimeout \notin Nat /\ DefaultTimeout \in Nat \cup {NoTimeout}

VARIABLES
    req,        \* the request
    arrived,    \* frames of its body the transport has received
    close,      \* how the client ended the body: "no", "eof", "error"
    read,       \* frames the service has read
    pc,         \* where the call's future is
    checked,    \* interceptors whose intercept_head has accepted
    at,         \* the interceptor the chain is in; one past the last: the method
    item,       \* the single message an interceptor may take from a stream
    result,     \* what the chain has returned so far
    ran,        \* times the method was called
    reruns,     \* times an interceptor ran the rest of the chain again
    budget,     \* time left until the deadline, once there is one
    age,        \* time since then
    answer      \* the response, or the one to give once the body is drained

body == <<arrived, close, read>>
chain == <<at, item, result, ran, reruns>>
time == <<budget, age>>
vars == <<req, body, pc, checked, chain, time, answer>>

-----------------------------------------------------------------------------
(* The content of a body.  "large" declares a message over the limit,      *)
(* "flagged" is compressed, "corrupt" is not what its encoding says,       *)
(* "long" is more than the service will read.                              *)

Frames == CASE req.content = "empty" -> 0
            [] req.content = "two"   -> 2
            [] req.content = "long"  -> MaxBody + 1
            [] OTHER                 -> 1

(* The one envelope of a unary gRPC or a server-streaming request: there,  *)
(* whole, within the limit, alone and inflatable.                          *)
EnvelopeFails ==
    \/ req.content \in {"empty", "partial", "large", "two"}
    \/ req.content \in {"flagged", "corrupt"} /\ req.encoding = "none"
    \/ req.content = "corrupt"

(* The body of a unary Connect POST is the message.                        *)
MessageFails ==
    \/ req.encoding = "unknown"
    \/ req.encoding = "known" /\ req.content = "corrupt"
    \/ req.content = "large"

-----------------------------------------------------------------------------
(* Protocol::detect and the choice of a handler.                           *)

Prefixes(type) == CASE type \in {"grpc", "grpc+x"}       -> {"grpc"}
                    [] type \in {"web", "web+x", "text"} -> {"grpc-web", "grpc"}
                    [] OTHER                             -> {}

PrefixGrpcFirst(type) ==                                            \* mutant
    CASE "grpc" \in Prefixes(type) -> "grpc" [] OTHER -> "connect"
ByPrefix(type) == CASE "grpc-web" \in Prefixes(type) -> "grpc_web"
                    [] Prefixes(type) = {"grpc"}     -> "grpc"
                    [] OTHER                         -> "connect"

Path ==
    CASE req.verb = "other"                                -> "verb"
      [] req.verb = "GET"                                  -> "unary"
      [] req.verb = "POST" /\ req.type \in {"none", "other", "grpc+x", "web+x"}
                                                           -> "media"
      [] req.verb = "POST" /\ req.type = "unary"           -> "unary"
      [] req.verb = "POST" /\ req.type = "text"            -> "text"
      [] req.verb = "POST" /\ req.type \in {"grpc", "web"} /\ req.method = "unary"
                                                           -> "grpc_unary"
      [] OTHER                                             -> "streaming"

(* The protocol the handler takes the request for.                         *)
Protocol == IF Path \in {"verb", "unary"} THEN "connect" ELSE ByPrefix(req.type)

(* timeout_from_headers and DeadlinePolicy::moderate: the client sends the *)
(* header of its own protocol, and values are within the policy's clamps.  *)
Timeout ==
    IF Protocol = ByPrefix(req.type) /\ req.timeout # NoTimeout
    THEN req.timeout ELSE DefaultTimeout

(* error_response_either; grpc_error_response and grpc_unary_error, which  *)
(* differ in the type of the body; and streaming_error_response.           *)
ErrorResponse             == "connect"
GrpcErrorResponse(p)      == p
StreamingErrorResponse(p) == IF p = "connect" THEN "connect_stream"
                             ELSE GrpcErrorResponse(p)

(* The builder each handler uses at all of its exits ...                   *)
Form == CASE Path \in {"verb", "unary"}       -> ErrorResponse
          [] Path = "text"                    -> GrpcErrorResponse("grpc_web")
          [] Path \in {"media", "grpc_unary"} -> GrpcErrorResponse(Protocol)
          [] OTHER                            -> StreamingErrorResponse(Protocol)

(* ... and the one for a rejection by a head check, before any of them.    *)
HeadForm == IF Path = "unary" THEN ErrorResponse
            ELSE StreamingErrorResponse(Protocol)

Reply(form, status) == [form |-> form, status |-> status]
Error(status)       == Reply(Form, status)
NoReply             == Reply("none", "none")

(* The request body goes to the method as a stream.                        *)
HandedOver == /\ Path = "streaming" /\ req.method \in {"client", "bidi"}
              /\ req.encoding # "unknown"

-----------------------------------------------------------------------------
Init ==
    /\ req \in Requests
    /\ arrived = 0 /\ close = "no" /\ read = 0
    /\ pc = "route" /\ checked = 0
    /\ at = 0 /\ item = TRUE /\ result = "none" /\ ran = 0 /\ reruns = 0
    /\ budget = NoTimeout /\ age = 0 /\ answer = NoReply

Live == pc \notin {"answered", "dropped"}

Arm == budget' = Timeout /\ UNCHANGED age

(* reject_unsupported_method, and the content types nobody speaks: neither *)
(* reaches an interceptor.                                                 *)
Reject ==
    /\ pc = "route" /\ Path \in {"verb", "media"}
    /\ answer' = CASE Path = "verb" /\ req.method # "none"      -> Reply("405", "refused")
                   [] Path = "verb" /\ req.method = "none"      -> Error("not_found")
                   [] Path = "media" /\ Protocol = "connect"    -> Reply("415", "refused")
                   [] OTHER                                     -> Error("refused")
    /\ pc' = "drain" /\ Arm
    /\ UNCHANGED <<req, body, checked, chain>>

StartGetUnchecked ==                                                \* mutant
    /\ pc = "route" /\ Path \notin {"verb", "media"}
    /\ IF req.verb = "GET" THEN pc' = "read" /\ Arm
                           ELSE pc' = "heads" /\ UNCHANGED time
    /\ UNCHANGED <<req, body, checked, chain, answer>>
StartHeads ==
    /\ pc = "route" /\ Path \notin {"verb", "media"}
    /\ pc' = "heads"
    /\ UNCHANGED <<req, body, checked, chain, time, answer>>

(* intercept_heads.  No deadline applies yet.                              *)
HeadAccepts ==
    /\ pc = "heads" /\ checked < Interceptors
    /\ checked' = checked + 1
    /\ UNCHANGED <<req, body, pc, chain, time, answer>>

HeadRejects ==
    /\ pc = "heads" /\ checked < Interceptors
    /\ pc' = "answered" /\ answer' = Reply(HeadForm, "rejected")
    /\ UNCHANGED <<req, body, checked, chain, time>>

HeadsDone == pc = "heads" /\ checked = Interceptors

(* Refused by its headers: gRPC-Web text mode, a compression the service   *)
(* does not have.  The body is drained first.                              *)
Unsupported ==
    Path = "text" \/ (Path \in {"grpc_unary", "streaming"} /\ req.encoding = "unknown")

RefuseAtOnce ==                                                     \* mutant
    /\ HeadsDone /\ Unsupported
    /\ pc' = "answered" /\ answer' = Error("refused") /\ Arm
    /\ UNCHANGED <<req, body, checked, chain>>
RefuseHead ==
    /\ HeadsDone /\ Unsupported
    /\ pc' = "drain" /\ answer' = Error("refused") /\ Arm
    /\ UNCHANGED <<req, body, checked, chain>>

(* handle_client_streaming_request, handle_bidi_streaming_request.         *)
HandOver ==
    /\ HeadsDone /\ HandedOver
    /\ pc' = "chain" /\ at' = 1 /\ Arm
    /\ UNCHANGED <<req, body, checked, item, result, ran, reruns, answer>>

StartRead ==
    /\ HeadsDone /\ ~Unsupported /\ ~HandedOver
    /\ pc' = "read" /\ Arm
    /\ UNCHANGED <<req, body, checked, chain, answer>>

-----------------------------------------------------------------------------
(* collect_body_limited, for a drain whose result is ignored or for the    *)
(* message.                                                                *)

Reading == pc \in {"drain", "read"}

(* The read ends without a message.                                        *)
ReadEnds(status) ==
    /\ pc' = "answered"
    /\ answer' = IF pc = "drain" THEN answer ELSE Error(status)
    /\ UNCHANGED <<req, arrived, close, checked, chain, time>>

ReadFrame ==
    /\ Reading /\ read < arrived /\ read < MaxBody
    /\ read' = read + 1
    /\ UNCHANGED <<req, arrived, close, pc, checked, chain, time, answer>>

ReadTooLong ==
    /\ Reading /\ read < arrived /\ read = MaxBody
    /\ read' = read + 1 /\ ReadEnds("too_large")

ReadFails ==
    /\ Reading /\ read = arrived /\ close = "error"
    /\ UNCHANGED read /\ ReadEnds("failed")

BodyRead == read = arrived /\ close = "eof"

DrainDone ==
    /\ pc = "drain" /\ BodyRead
    /\ UNCHANGED read /\ ReadEnds("refused")

(* The timer of with_request_deadline is asked only when the read is       *)
(* waiting for the client.                                                 *)
ReadTimesOutUnlessDraining ==                                       \* mutant
    /\ pc = "read" /\ budget = 0 /\ read = arrived /\ close = "no"
    /\ UNCHANGED read /\ ReadEnds("deadline")
ReadTimesOut ==
    /\ Reading /\ budget = 0 /\ read = arrived /\ close = "no"
    /\ UNCHANGED read /\ ReadEnds("deadline")

(* What is wrong with the request, looked at once its body is read.        *)
Refusal ==
    CASE req.method = "none"                               -> "not_found"
      [] req.method # "none" /\ req.verb = "GET"
           -> IF req.idempotent /\ req.valid THEN "no" ELSE "refused"
      [] req.method # "none" /\ req.verb = "POST" /\ Path = "unary"
           -> IF req.valid /\ ~MessageFails THEN "no" ELSE "refused"
      [] OTHER
           -> IF EnvelopeFails \/ (Path = "streaming" /\ req.method = "unary")
              THEN "refused" ELSE "no"

RefuseRead ==
    /\ pc = "read" /\ BodyRead /\ Refusal # "no"
    /\ UNCHANGED read /\ ReadEnds(Refusal)

CallAfresh ==                                                       \* mutant
    /\ pc = "read" /\ BodyRead /\ Refusal = "no"
    /\ pc' = "chain" /\ at' = 1 /\ budget' = Timeout
    /\ UNCHANGED <<req, body, checked, item, result, ran, reruns, age, answer>>
Call ==
    /\ pc = "read" /\ BodyRead /\ Refusal = "no"
    /\ pc' = "chain" /\ at' = 1
    /\ UNCHANGED <<req, body, checked, item, result, ran, reruns, time, answer>>

-----------------------------------------------------------------------------
(* The interceptor chain: Next::run, NextStream::run and the terminals.    *)

(* An interceptor runs the rest of the chain.  Of a server-streaming call  *)
(* it may have taken the request's one message out of the inbound stream.  *)
RunNext ==
    /\ pc = "chain" /\ at <= Interceptors
    /\ at' = at + 1
    /\ item' \in IF Path = "streaming" /\ req.method = "server" THEN {item, FALSE}
                 ELSE {item}
    /\ UNCHANGED <<req, body, pc, checked, result, ran, reruns, time, answer>>

(* Or it answers itself.                                                   *)
ShortCircuit ==
    /\ pc = "chain" /\ at <= Interceptors
    /\ pc' = "unwind" /\ at' = at - 1 /\ result' \in {"ok", "error"}
    /\ UNCHANGED <<req, body, checked, item, ran, reruns, time, answer>>

(* The router's entry for the method is of the kind the handler calls.     *)
Fits == IF Path = "streaming" THEN req.method # "unary" ELSE req.method = "unary"

DispatchFails ==
    /\ pc = "chain" /\ at = Interceptors + 1 /\ ~(Fits /\ item)
    /\ pc' = "unwind" /\ at' = Interceptors /\ result' = "error"
    /\ UNCHANGED <<req, body, checked, item, ran, reruns, time, answer>>

Dispatch ==
    /\ pc = "chain" /\ at = Interceptors + 1 /\ Fits /\ item
    /\ pc' = "method" /\ ran' = ran + 1
    /\ UNCHANGED <<req, body, checked, at, item, result, reruns, time, answer>>

(* The terminal of a server-streaming call first awaits its one message    *)
(* from the inbound stream, which an interceptor may have replaced by one  *)
(* that takes its time; the others call the method at once.                *)
AwaitsInbound == Path = "streaming" /\ req.method = "server"
Terminal      == DispatchFails \/ Dispatch

MethodReturns ==
    /\ pc = "method"
    /\ pc' = "unwind" /\ at' = Interceptors /\ result' \in {"ok", "error"}
    /\ UNCHANGED <<req, body, checked, item, ran, reruns, time, answer>>

(* On the way out an interceptor passes on what it got or something else.  *)
(* Of a client-streaming call it may take the response's one message.      *)
Return ==
    /\ pc = "unwind" /\ at > 0
    /\ at' = at - 1 /\ result' \in {"ok", "error"}
    /\ item' \in IF HandedOver /\ req.method = "client" THEN BOOLEAN ELSE {item}
    /\ UNCHANGED <<req, body, pc, checked, ran, reruns, time, answer>>

(* Next is Clone, NextStream is not: an interceptor of a unary call may run *)
(* the rest of the chain again, the method included (a retry).             *)
Rerun ==
    /\ pc = "unwind" /\ at > 0 /\ Path # "streaming"
    /\ reruns < MaxReruns
    /\ pc' = "chain" /\ at' = at + 1 /\ reruns' = reruns + 1
    /\ UNCHANGED <<req, body, checked, item, result, ran, time, answer>>

(* The response head is built in the poll that the chain returns in.       *)
Respond ==
    /\ pc = "unwind" /\ at = 0
    /\ pc' = "answered"
    /\ answer' = Error(IF HandedOver /\ ~item THEN "error" ELSE result)
    /\ UNCHANGED <<req, body, checked, chain, time>>

(* User code is pending when the deadline passes: it is dropped, and the   *)
(* request stream with it.                                                 *)
CallTimesOut ==
    /\ budget = 0
    /\ \/ pc = "chain" /\ (at <= Interceptors \/ AwaitsInbound)
       \/ pc = "method"
       \/ pc = "unwind" /\ (at > 0 \/ (HandedOver /\ req.method = "client"))
    /\ pc' = "answered" /\ answer' = Error("deadline")
    /\ UNCHANGED <<req, body, checked, chain, time>>

-----------------------------------------------------------------------------
(* The rest of the world.                                                  *)

ClientSends ==
    /\ Live /\ close = "no" /\ arrived < Frames
    /\ arrived' = arrived + 1
    /\ UNCHANGED <<req, close, read, pc, checked, chain, time, answer>>

ClientEnds ==
    /\ Live /\ close = "no"
    /\ close' \in {"error"} \cup IF arrived = Frames THEN {"eof"} ELSE {}
    /\ UNCHANGED <<req, arrived, read, pc, checked, chain, time, answer>>

(* The executor is prompt: a timer that has fired is seen to before time   *)
(* moves on.                                                               *)
Tick ==
    /\ Live /\ budget # NoTimeout /\ budget > 0
    /\ budget' = budget - 1 /\ age' = age + 1
    /\ UNCHANGED <<req, body, pc, checked, chain, answer>>

(* hyper drops the future when the client goes away.                       *)
HangUp ==
    /\ Live /\ pc # "route"
    /\ pc' = "dropped"
    /\ UNCHANGED <<req, body, checked, chain, time, answer>>

Finished == ~Live /\ UNCHANGED vars

Read == ReadFrame \/ ReadTooLong \/ ReadFails \/ DrainDone \/ ReadTimesOut

Service ==
    \/ Reject \/ StartHeads \/ RefuseHead \/ HandOver \/ StartRead
    \/ Read \/ RefuseRead \/ Call
    \/ (Terminal /\ ~AwaitsInbound) \/ Respond \/ CallTimesOut

UserCode == \/ HeadAccepts \/ HeadRejects
            \/ RunNext \/ ShortCircuit \/ (Terminal /\ AwaitsInbound) \/ MethodReturns \/ Return \/ Rerun

Next == Service \/ UserCode \/ ClientSends \/ ClientEnds \/ Tick \/ HangUp \/ Finished

Spec == Init /\ [][Next]_vars

(* The runtime polls the future and its clock advances.  Nothing is        *)
(* assumed of the client, the interceptors or the method.                  *)
FairSpec == Spec /\ WF_vars(Service) /\ WF_vars(Tick)

-----------------------------------------------------------------------------
TypeOK ==
    /\ req \in Request
    /\ arrived \in 0..Frames /\ read \in 0..arrived
    /\ close \in {"no", "eof", "error"}
    /\ pc \in {"route", "heads", "drain", "read", "chain", "method", "unwind",
              "answered", "dropped"}
    /\ checked \in 0..Interceptors /\ at \in 0..Interceptors + 1
    /\ item \in BOOLEAN /\ result \in {"none", "ok", "error"}
    /\ ran \in Nat /\ reruns \in 0..MaxReruns
    /\ budget \in Nat \cup {NoTimeout} /\ age \in Nat

(* The forms of response the sender of a request can make sense of: its    *)
(* own protocol's, or a bare HTTP status for what is no RPC at all.        *)
Understood ==
    CASE req.verb = "GET"                                    -> {"connect"}
      [] req.verb = "other"                                  -> {"connect", "405"}
      [] req.verb = "POST" /\ req.type \in {"grpc", "grpc+x"}       -> {"grpc"}
      [] req.verb = "POST" /\ req.type \in {"web", "web+x", "text"} -> {"grpc_web"}
      [] req.verb = "POST" /\ req.type = "stream"            -> {"connect_stream"}
      [] req.verb = "POST" /\ req.type = "unary"             -> {"connect"}
      [] OTHER                                               -> {"415"}

(* However a call ends (a head check, an unknown method, a body too long,  *)
(* cut off or late, a bad envelope, an interceptor, the deadline or the    *)
(* method itself), its answer is in the form of the protocol the client    *)
(* speaks, and it says "ok" only if the chain returned that.               *)
AnsweredInKind ==
    pc = "answered" =>
        /\ answer.form \in Understood
        /\ answer.status = "ok" => result = "ok" /\ Refusal # "not_found"

(* "Read the full request body BEFORE returning any errors": no answer is  *)
(* given while the client is still sending, unless the body failed, is     *)
(* over the limit or past the deadline, a head check rejected it unread,   *)
(* or the method has it as a stream (and RequestStream drains it).         *)
BodyReadFirst ==
    pc = "answered" =>
        \/ BodyRead \/ close = "error" \/ read > MaxBody \/ budget = 0
        \/ checked < Interceptors /\ answer.status = "rejected"
        \/ HandedOver

(* What a request must be for the method to see it.                        *)
Proper ==
    /\ req.type = "stream" /\ req.verb = "POST" => req.method # "unary"
    /\ req.type = "unary" \/ req.verb = "GET" => req.method = "unary" /\ req.valid
    /\ req.verb = "GET" => req.idempotent
    /\ req.verb = "POST" => req.encoding # "unknown" /\ req.type \notin {"none", "text"}
    /\ \/ req.verb = "GET" \/ req.method \in {"client", "bidi"}
       \/ req.content \in {"one", "flagged"}
       \/ req.type = "unary" /\ req.content \in {"empty", "partial", "two"}
       \/ req.type = "unary" /\ req.content = "corrupt" /\ req.encoding = "none"

(* Not a byte of the body is read, and no interceptor or method called,    *)
(* before every head check has accepted, a GET's without content type      *)
(* included; only another verb, or a POST of a content type that nobody    *)
(* speaks, is drained without one.  The method is called only              *)
(* for a proper request, whole and within the limits, and no more often    *)
(* than interceptors ask for: once if the call is streaming.               *)
ChecksFirst ==
    /\ read > 0 \/ at > 0 =>
          \/ checked = Interceptors
          \/ req.verb = "other"
          \/ req.verb = "POST" /\ req.type \in {"none", "other", "grpc+x", "web+x"}
    /\ ran > 0 => Proper /\ (BodyRead \/ HandedOver)
    /\ ran <= IF Path = "streaming" THEN 1 ELSE 1 + reruns

(* "The same budget covers body receipt and handler execution": from the   *)
(* moment the head checks are done, reading, draining, interceptors and    *)
(* method together, every re-run included ("a retry cannot extend it"),    *)
(* take no longer than the request's one timeout.                          *)
OneBudget == budget # NoTimeout => age <= Timeout

(* A call with a deadline is answered (or its client gone), even if the    *)
(* client stops sending in the middle of a body and whatever the           *)
(* interceptors and the method wait for.                                   *)
Answered == budget # NoTimeout ~> ~Live
=============================================================================
