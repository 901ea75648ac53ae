-------------------------- MODULE ServerCallProofs --------------------------
(***************************************************************************)
(* Theorems about ServerCall, for any requests, any number of interceptors *)
(* and re-runs, any body limit and any timeout.                            *)
(***************************************************************************)
EXTENDS ServerCall, TLAPS

InChain == pc \in {"chain", "method", "unwind"}
NoRpc   == Path \in {"verb", "media"}

(* The deadline is set once, after the head checks, and every unit of time *)
(* since then was taken from it.                                           *)
BudgetInv ==
    /\ pc \in {"route", "heads"} => budget = NoTimeout
    /\ budget = NoTimeout => age = 0
    /\ budget # NoTimeout => /\ Timeout # NoTimeout
                             /\ age + budget = Timeout

(* How far the head checks, the body and the chain are in each phase.      *)
PhaseInv ==
    /\ pc \in {"route", "heads"} => read = 0 /\ at = 0 /\ ran = 0
    /\ pc = "heads" => ~NoRpc
    /\ read > 0 \/ at > 0 \/ InChain \/ pc \in {"drain", "read"}
         => checked = Interceptors \/ NoRpc
    /\ pc \in {"drain", "read"} => at = 0 /\ ran = 0
    /\ pc = "read" => ~NoRpc /\ ~Unsupported /\ ~HandedOver
    /\ InChain => /\ ~NoRpc /\ ~Unsupported
                  /\ HandedOver \/ (BodyRead /\ Refusal = "no")

(* A body that ended is whole, and one that is still being read, or that   *)
(* the chain was started with, is within the limit.                        *)
BodyInv ==
    /\ close = "eof" => arrived = Frames
    /\ pc \in {"route", "heads", "drain", "read"} \/ InChain => read <= MaxBody

(* A method was called for what its call had been let through with.        *)
RanInv ==
    /\ ran > 0 => Proper /\ (BodyRead \/ HandedOver)
    /\ Path = "streaming" => reruns = 0
    /\ pc = "chain" => ran <= reruns
    /\ ran <= reruns + 1

(* What is to be answered once a drain is done, and what was answered.     *)
AnswerInv ==
    /\ pc = "drain" => answer.form \in Understood /\ answer.status # "ok"
    /\ AnsweredInKind

-----------------------------------------------------------------------------
(* An interceptor is entered from outside and left inwards, so the chain's *)
(* position stays between the service and the method.                      *)
PositionInv ==
    /\ pc = "chain" => at >= 1
    /\ pc = "method" => at = Interceptors + 1
    /\ pc = "unwind" => at <= Interceptors

(* Each request takes one of the handlers, by its verb and content type.   *)
LEMMA Routes ==
    ASSUME req \in Request
    PROVE  /\ Path \in {"verb", "media", "unary", "text", "grpc_unary", "streaming"}
           /\ Path = "verb" <=> req.verb = "other"
           /\ Path = "media" <=> req.verb = "POST" /\ req.type \in {"none", "other", "grpc+x", "web+x"}
           /\ Path = "unary" <=> req.verb = "GET" \/ (req.verb = "POST" /\ req.type = "unary")
           /\ Path = "text" <=> req.verb = "POST" /\ req.type = "text"
           /\ Path = "grpc_unary" <=> req.verb = "POST" /\ req.type \in {"grpc", "web"} /\ req.method = "unary"
           /\ Path = "streaming" <=> /\ req.verb = "POST" /\ req.type \in {"stream", "grpc", "web"}
                                     /\ req.type \in {"grpc", "web"} => req.method # "unary"
<1>1. req.verb \in Verbs /\ req.type \in Types
  BY DEF Request
<1> QED
  BY <1>1 DEF Path, Verbs, Types

(* The protocol of a content type.                                         *)
LEMMA Prefixed ==
    ASSUME NEW t \in Types
    PROVE  ByPrefix(t) = IF t \in {"grpc", "grpc+x"} THEN "grpc"
                         ELSE IF t \in {"web", "web+x", "text"} THEN "grpc_web"
                         ELSE "connect"
  BY DEF ByPrefix, Prefixes, Types

(* An error is answered in the form of the protocol that its request was   *)
(* made in, unless the request is no RPC at all.                           *)
LEMMA FormUnderstood ==
    ASSUME req \in Request, Path # "media" \/ Protocol # "connect"
    PROVE  Form \in Understood /\ (Path # "verb" => HeadForm \in Understood)
<1>1. req.verb \in Verbs /\ req.type \in Types
  BY DEF Request
<1>2. CASE req.verb \in {"other", "GET"}
  <2>1. Path \in {"verb", "unary"}
    BY <1>2, Routes
  <2>2. Form = "connect" /\ (Path # "verb" => HeadForm = "connect")
    BY <2>1 DEF Form, HeadForm, ErrorResponse
  <2>3. Understood = {"connect"} \/ Understood = {"connect", "405"}
    BY <1>2 DEF Understood
  <2> QED
    BY <2>2, <2>3
<1>3. CASE req.verb = "POST" /\ Path = "unary"
  <2>1. Form = "connect" /\ HeadForm = "connect"
    BY <1>3 DEF Form, HeadForm, ErrorResponse
  <2>2. Understood = {"connect"}
    BY <1>3, Routes DEF Understood
  <2> QED
    BY <2>1, <2>2
<1>4. CASE req.verb = "POST" /\ Path # "unary"
  <2>1. Protocol = ByPrefix(req.type)
    BY <1>4, Routes DEF Protocol
  <2>2. CASE req.type \in {"grpc", "grpc+x"}
    <3>1. Protocol = "grpc"
      BY <2>1, <2>2, <1>1, Prefixed
    <3>2. Form = "grpc" /\ HeadForm = "grpc"
      BY <1>4, <2>2, <3>1, Routes DEF Form, HeadForm, StreamingErrorResponse,
         GrpcErrorResponse
    <3> QED
      BY <1>4, <2>2, <3>2 DEF Understood
  <2>3. CASE req.type \in {"web", "web+x", "text"}
    <3>1. Protocol = "grpc_web"
      BY <2>1, <2>3, <1>1, Prefixed
    <3>2. Form = "grpc_web" /\ HeadForm = "grpc_web"
      BY <1>4, <2>3, <3>1, Routes DEF Form, HeadForm, StreamingErrorResponse,
         GrpcErrorResponse
    <3> QED
      BY <1>4, <2>3, <3>2 DEF Understood
  <2>4. CASE req.type = "stream"
    <3>1. Protocol = "connect"
      BY <2>1, <2>4, <1>1, Prefixed
    <3>2. Path = "streaming"
      BY <1>4, <2>4, Routes
    <3>3. Form = "connect_stream" /\ HeadForm = "connect_stream"
      BY <3>1, <3>2 DEF Form, HeadForm, StreamingErrorResponse
    <3> QED
      BY <1>4, <2>4, <3>3 DEF Understood
  <2>5. CASE req.type \in {"none", "other"}
    BY <1>4, <2>1, <2>5, <1>1, Routes, Prefixed
  <2>6. req.type # "unary"
    BY <1>4, Routes
  <2> QED
    BY <1>1, <2>2, <2>3, <2>4, <2>5, <2>6 DEF Types
<1> QED
  BY <1>1, <1>2, <1>3, <1>4 DEF Verbs

(* A refused verb or media type is answered in a form its sender knows.    *)
LEMMA RejectUnderstood ==
    ASSUME req \in Request, Reject
    PROVE  answer'.form \in Understood /\ answer'.status # "ok"
<1>1. Path \in {"verb", "media"}
  BY DEF Reject
<1>2. CASE Path = "verb"
  <2>1. req.verb = "other"
    BY <1>2, Routes
  <2>2. Form \in Understood
    BY <1>2, FormUnderstood
  <2>3. answer' = Reply("405", "refused") \/ answer' = Error("not_found")
    BY <1>2 DEF Reject
  <2>4. "405" \in Understood
    BY <2>1 DEF Understood
  <2> QED
    BY <2>2, <2>3, <2>4 DEF Reply, Error
<1>3. CASE Path = "media" /\ Protocol = "connect"
  <2>1. answer' = Reply("415", "refused")
    BY <1>3 DEF Reject
  <2>2. req.verb = "POST" /\ req.type \in {"none", "other", "grpc+x", "web+x"}
    BY <1>3, Routes
  <2>3. Protocol = ByPrefix(req.type)
    BY <1>3 DEF Protocol
  <2>4. req.type \in Types
    BY DEF Request
  <2>5. req.type \in {"none", "other"}
    BY <1>3, <2>2, <2>3, <2>4, Prefixed
  <2>6. "415" \in Understood
    BY <2>2, <2>5 DEF Understood
  <2> QED
    BY <2>1, <2>6 DEF Reply
<1>4. CASE Path = "media" /\ Protocol # "connect"
  <2>1. answer' = Error("refused")
    BY <1>4 DEF Reject
  <2>2. Form \in Understood
    BY <1>4, FormUnderstood
  <2> QED
    BY <2>1, <2>2 DEF Reply, Error
<1> QED
  BY <1>1, <1>2, <1>3, <1>4

(* What the handlers check amounts to what a method may rely on.           *)
LEMMA DispatchedProper ==
    ASSUME req \in Request, ~NoRpc, ~Unsupported, Fits,
           HandedOver \/ (Refusal = "no" /\ req.content # "long")
    PROVE  Proper
<1>1. /\ req.verb \in Verbs /\ req.type \in Types /\ req.method \in Methods
      /\ req.content \in Contents /\ req.encoding \in {"none", "known", "unknown"}
  BY DEF Request
<1>2. Path \notin {"verb", "media", "text"}
  BY DEF NoRpc, Unsupported
<1>3. CASE HandedOver
  <2>1. /\ Path = "streaming" /\ req.method \in {"client", "bidi"} /\ req.encoding # "unknown"
    BY <1>3 DEF HandedOver
  <2>2. req.verb = "POST" /\ req.type \in {"stream", "grpc", "web"}
    BY <2>1, Routes
  <2> QED
    BY <2>1, <2>2 DEF Proper
<1>4. CASE Path = "unary" /\ req.verb = "GET"
  <2>1. req.method = "unary"
    BY <1>4 DEF Fits
  <2>2. Refusal = IF req.idempotent /\ req.valid THEN "no" ELSE "refused"
    BY <1>4, <2>1 DEF Refusal
  <2>3. req.idempotent /\ req.valid
    BY <1>4, <2>2 DEF HandedOver
  <2> QED
    BY <1>4, <2>1, <2>3 DEF Proper
<1>5. CASE Path = "unary" /\ req.verb = "POST"
  <2>1. req.method = "unary" /\ req.type = "unary"
    BY <1>5, Routes DEF Fits
  <2>2. Refusal = IF req.valid /\ ~MessageFails THEN "no" ELSE "refused"
    BY <1>5, <2>1 DEF Refusal
  <2>3. req.valid /\ ~MessageFails
    BY <1>5, <2>2 DEF HandedOver
  <2>4. /\ req.encoding # "unknown" /\ req.content \notin {"large", "long"}
        /\ req.encoding = "known" => req.content # "corrupt"
    BY <1>5, <2>3 DEF MessageFails, HandedOver
  <2> QED
    BY <1>1, <1>5, <2>1, <2>3, <2>4 DEF Proper, Contents
<1>6. CASE Path \in {"grpc_unary", "streaming"} /\ ~HandedOver
  <2>1. req.verb = "POST" /\ req.type \in {"stream", "grpc", "web"}
    BY <1>6, Routes
  <2>2. req.encoding # "unknown"
    BY <1>6 DEF Unsupported
  <2>3. Refusal = "no" /\ req.content # "long"
    BY <1>6
  <2>4. ~EnvelopeFails /\ ~(Path = "streaming" /\ req.method = "unary")
    BY <1>6, <2>1, <2>3 DEF Refusal
  <2>5. req.content \in {"flagged", "one"}
    BY <1>1, <2>3, <2>4 DEF EnvelopeFails, Contents
  <2> QED
    BY <1>6, <2>1, <2>2, <2>4, <2>5, Routes DEF Proper
<1> QED
  BY <1>1, <1>2, <1>3, <1>4, <1>5, <1>6, Routes DEF Verbs

-----------------------------------------------------------------------------
USE DEF body, chain, time, vars

Pcs == {"route", "heads", "drain", "read", "chain", "method", "unwind",
        "answered", "dropped"}

(* A request's head and content do not change, nor does what follows from  *)
(* them.                                                                   *)
LEMMA RequestStable ==
    ASSUME req' = req
    PROVE  /\ Path' = Path /\ Timeout' = Timeout /\ Frames' = Frames
           /\ Form' = Form /\ Understood' = Understood /\ Refusal' = Refusal
           /\ HandedOver' <=> HandedOver
           /\ Unsupported' <=> Unsupported
           /\ NoRpc' <=> NoRpc
           /\ Proper' <=> Proper
<1>1. Path' = Path
  BY DEF Path
<1>2. Protocol' = Protocol
  BY <1>1 DEF Protocol
<1>3. Timeout' = Timeout
  BY <1>2 DEF Timeout
<1>4. Frames' = Frames
  BY DEF Frames
<1>5. Form' = Form
  BY <1>1, <1>2 DEF Form, StreamingErrorResponse, GrpcErrorResponse, ErrorResponse
<1>6. Understood' = Understood
  BY DEF Understood
<1>7. /\ EnvelopeFails' <=> EnvelopeFails
      /\ MessageFails' <=> MessageFails
  BY DEF EnvelopeFails, MessageFails
<1>8. Refusal' = Refusal
  BY <1>1, <1>7 DEF Refusal
<1>9. /\ HandedOver' <=> HandedOver
      /\ Unsupported' <=> Unsupported
      /\ NoRpc' <=> NoRpc
  BY <1>1 DEF HandedOver, Unsupported, NoRpc
<1>10. Proper' <=> Proper
  BY DEF Proper
<1> QED
  BY <1>1, <1>3, <1>4, <1>5, <1>6, <1>8, <1>9, <1>10

(* No step changes the request.                                            *)
LEMMA RequestKept == [Next]_vars => req' = req
  BY DEF Next, Service, UserCode, Terminal, Read, Reject, StartHeads, RefuseHead, HandOver,
         StartRead, ReadFrame, ReadTooLong, ReadFails, DrainDone, ReadTimesOut, ReadEnds,
         RefuseRead, Call, DispatchFails, Dispatch, Respond, CallTimesOut,
         HeadAccepts, HeadRejects, RunNext, ShortCircuit, MethodReturns, Return, Rerun,
         ClientSends, ClientEnds, Tick, HangUp, Finished

(* A timeout is a duration or absent, and a body some frames long.         *)
LEMMA RequestTypes ==
    ASSUME req \in Request
    PROVE  Timeout \in Nat \cup {NoTimeout} /\ Frames \in Nat
<1>1. req.timeout \in Nat \cup {NoTimeout}
  BY DEF Request
<1>2. Timeout \in Nat \cup {NoTimeout}
  BY <1>1, CallAssumption DEF Timeout
<1>3. Frames \in {0, 1, 2, MaxBody + 1}
  BY DEF Frames
<1> QED
  BY <1>2, <1>3, CallAssumption

(* The call starts well typed.                                             *)
LEMMA TypeInit == Init => TypeOK /\ PositionInv
<1> SUFFICES ASSUME Init PROVE TypeOK /\ PositionInv
  OBVIOUS
<1>1. req \in Request
  BY CallAssumption DEF Init
<1>2. Frames \in Nat
  BY <1>1, RequestTypes
<1>3. item \in BOOLEAN
  BY Zenon DEF Init
<1> QED
  BY <1>1, <1>2, <1>3, CallAssumption DEF Init, TypeOK, PositionInv

(* Every step keeps the types and the chain's position.                    *)
LEMMA TypeStep == TypeOK /\ PositionInv /\ [Next]_vars => TypeOK' /\ PositionInv'
<1> SUFFICES ASSUME TypeOK, PositionInv, [Next]_vars
             PROVE  TypeOK' /\ PositionInv'
  OBVIOUS
<1>0. /\ req \in Request /\ req' = req /\ Frames' = Frames /\ Frames \in Nat
      /\ Timeout \in Nat \cup {NoTimeout} /\ NoTimeout \notin Nat
      /\ Interceptors \in Nat /\ MaxReruns \in Nat
  BY RequestKept, RequestStable, RequestTypes, CallAssumption DEF TypeOK
<1>i. item' \in BOOLEAN
  <2>1. item \in BOOLEAN
    BY Zenon DEF TypeOK
  <2>2. CASE RunNext
    BY <2>1, <2>2, Zenon DEF RunNext
  <2>3. CASE Return
    BY <2>1, <2>3, Zenon DEF Return
  <2>4. CASE ~RunNext /\ ~Return
    <3>1. item' = item
      BY <2>4 DEF Next, Service, UserCode, Terminal, Read, Reject, StartHeads, RefuseHead, HandOver,
         StartRead, ReadFrame, ReadTooLong, ReadFails, DrainDone, ReadTimesOut, ReadEnds,
         RefuseRead, Call, DispatchFails, Dispatch, Respond, CallTimesOut,
         HeadAccepts, HeadRejects, ShortCircuit, MethodReturns, Rerun,
         ClientSends, ClientEnds, Tick, HangUp, Finished
    <3> QED
      BY <2>1, <3>1, Zenon
  <2> QED
    BY <2>2, <2>3, <2>4
<1>b. /\ arrived' \in 0..Frames /\ read' \in 0..arrived'
      /\ close' \in {"no", "eof", "error"}
  <2>1. CASE ReadFrame \/ ReadTooLong
    BY <1>0, <2>1 DEF ReadFrame, ReadTooLong, ReadEnds, TypeOK
  <2>2. CASE ClientSends
    BY <1>0, <2>2 DEF ClientSends, TypeOK
  <2>3. CASE ClientEnds
    BY <1>0, <2>3 DEF ClientEnds, TypeOK
  <2>4. CASE ~(ReadFrame \/ ReadTooLong \/ ClientSends \/ ClientEnds)
    <3>1. arrived' = arrived /\ read' = read /\ close' = close
      BY <2>4 DEF Next, Service, UserCode, Terminal, Read, Reject, StartHeads, RefuseHead, HandOver,
         StartRead, ReadFails, DrainDone, ReadTimesOut, ReadEnds,
         RefuseRead, Call, DispatchFails, Dispatch, Respond, CallTimesOut,
         HeadAccepts, HeadRejects, RunNext, ShortCircuit, MethodReturns, Return, Rerun,
         Tick, HangUp, Finished
    <3> QED
      BY <3>1, <1>0 DEF TypeOK
  <2> QED
    BY <2>1, <2>2, <2>3, <2>4
<1>t. budget' \in Nat \cup {NoTimeout} /\ age' \in Nat
  <2>1. CASE Tick
    BY <1>0, <2>1 DEF Tick, TypeOK
  <2>2. CASE ~Tick
    <3>1. (budget' = budget \/ budget' = Timeout) /\ age' = age
      BY <2>2 DEF Next, Service, UserCode, Terminal, Read, Reject, StartHeads, RefuseHead, HandOver,
         StartRead, ReadFrame, ReadTooLong, ReadFails, DrainDone, ReadTimesOut, ReadEnds,
         RefuseRead, Call, DispatchFails, Dispatch, Respond, CallTimesOut, Arm,
         HeadAccepts, HeadRejects, RunNext, ShortCircuit, MethodReturns, Return, Rerun,
         ClientSends, ClientEnds, HangUp, Finished
    <3> QED
      BY <3>1, <1>0 DEF TypeOK
  <2> QED
    BY <2>1, <2>2
<1>c. /\ pc' \in Pcs /\ PositionInv'
      /\ checked' \in 0..Interceptors /\ at' \in 0..Interceptors + 1
      /\ result' \in {"none", "ok", "error"} /\ ran' \in Nat /\ reruns' \in 0..MaxReruns
  <2> USE <1>0 DEF TypeOK, PositionInv, Pcs
  <2>1. CASE Reject \/ StartHeads \/ RefuseHead \/ HandOver \/ StartRead
    BY <2>1 DEF Reject, StartHeads, RefuseHead, HandOver, StartRead
  <2>2. CASE Read \/ RefuseRead \/ Call
    BY <2>2 DEF Read, RefuseRead, Call, ReadFrame, ReadTooLong, ReadFails, DrainDone,
                ReadTimesOut, ReadEnds
  <2>3. CASE DispatchFails \/ Dispatch \/ Respond \/ CallTimesOut
    BY <2>3 DEF DispatchFails, Dispatch, Respond, CallTimesOut
  <2>4. CASE HeadAccepts \/ HeadRejects
    BY <2>4 DEF HeadAccepts, HeadRejects
  <2>5. CASE RunNext \/ ShortCircuit \/ MethodReturns
    <3>1. CASE RunNext
      BY <3>1 DEF RunNext
    <3>2. CASE ShortCircuit
      BY <3>2 DEF ShortCircuit
    <3>3. CASE MethodReturns
      BY <3>3 DEF MethodReturns
    <3> QED
      BY <2>5, <3>1, <3>2, <3>3
  <2>6. CASE Return \/ Rerun
    BY <2>6 DEF Return, Rerun
  <2>7. CASE ClientSends \/ ClientEnds \/ Tick \/ HangUp \/ Finished \/ UNCHANGED vars
    BY <2>7 DEF ClientSends, ClientEnds, Tick, HangUp, Finished
  <2> QED
    BY <2>1, <2>2, <2>3, <2>4, <2>5, <2>6, <2>7 DEF Next, Service, UserCode, Terminal
<1> QED
  BY <1>0, <1>i, <1>b, <1>t, <1>c DEF TypeOK, Pcs

(* Every variable of a call keeps its type, and the chain's position stays *)
(* between the service and the method.                                     *)
THEOREM CallTyped == Spec => [](TypeOK /\ PositionInv)
  BY TypeInit, TypeStep, PTL DEF Spec

-----------------------------------------------------------------------------
(* The deadline is armed from nothing, once, and time is only moved from   *)
(* what is left to what has passed.                                        *)
LEMMA BudgetStep == TypeOK /\ BudgetInv /\ [Next]_vars => BudgetInv'
<1> SUFFICES ASSUME TypeOK, BudgetInv, [Next]_vars
             PROVE  BudgetInv'
  OBVIOUS
<1>0. /\ Timeout' = Timeout /\ Timeout \in Nat \cup {NoTimeout} /\ NoTimeout \notin Nat
      /\ budget \in Nat \cup {NoTimeout} /\ age \in Nat
  BY RequestKept, RequestStable, RequestTypes, CallAssumption DEF TypeOK
<1> USE <1>0 DEF BudgetInv
<1>1. CASE Reject \/ RefuseHead \/ HandOver \/ StartRead
  <2>1. /\ pc \in {"route", "heads"} /\ pc' \notin {"route", "heads"}
        /\ budget' = Timeout /\ age' = age
    BY <1>1 DEF Reject, RefuseHead, HandOver, StartRead, HeadsDone, Arm
  <2> QED
    BY <2>1
<1>2. CASE Tick
  BY <1>2 DEF Tick
<1>3. CASE ~(Reject \/ RefuseHead \/ HandOver \/ StartRead \/ Tick)
  <2>1. /\ budget' = budget /\ age' = age
        /\ pc' \in {"route", "heads"} => pc \in {"route", "heads"}
    BY <1>3 DEF Next, Service, UserCode, Terminal, Read, StartHeads,
         ReadFrame, ReadTooLong, ReadFails, DrainDone, ReadTimesOut, ReadEnds,
         RefuseRead, Call, DispatchFails, Dispatch, Respond, CallTimesOut,
         HeadAccepts, HeadRejects, RunNext, ShortCircuit, MethodReturns, Return, Rerun,
         ClientSends, ClientEnds, HangUp, Finished
  <2> QED
    BY <2>1
<1> QED
  BY <1>1, <1>2, <1>3

(* From the end of the head checks, body, interceptors and method together *)
(* never take more time than the request's one timeout: no later step      *)
(* starts the deadline of with_request_deadline afresh.                    *)
THEOREM BudgetIsOne == Spec => []OneBudget
<1>1. Init => BudgetInv
  BY DEF Init, BudgetInv
<1>2. TypeOK /\ BudgetInv => OneBudget
  <2> SUFFICES ASSUME TypeOK, BudgetInv, budget # NoTimeout PROVE age <= Timeout
    BY DEF OneBudget
  <2>1. budget \in Nat /\ age \in Nat /\ age + budget = Timeout
    BY DEF TypeOK, BudgetInv
  <2> QED
    BY <2>1
<1> QED
  BY <1>1, <1>2, BudgetStep, CallTyped, PTL DEF Spec

-----------------------------------------------------------------------------
(* What was read and how the client ended it are settled once the body is. *)
LEMMA BodyReadStable ==
    ASSUME TypeOK, [Next]_vars, BodyRead
    PROVE  BodyRead'
<1>1. read = arrived /\ close = "eof"
  BY DEF BodyRead
<1>2. arrived \in Nat
  BY RequestTypes DEF TypeOK
<1>3. ~(ReadFrame \/ ReadTooLong \/ ClientSends \/ ClientEnds)
  BY <1>1, <1>2 DEF ReadFrame, ReadTooLong, ClientSends, ClientEnds
<1>4. arrived' = arrived /\ close' = close /\ read' = read
  BY <1>3 DEF Next, Service, UserCode, Terminal, Read, Reject, StartHeads, RefuseHead, HandOver,
         StartRead, ReadFails, DrainDone, ReadTimesOut, ReadEnds,
         RefuseRead, Call, DispatchFails, Dispatch, Respond, CallTimesOut,
         HeadAccepts, HeadRejects, RunNext, ShortCircuit, MethodReturns, Return, Rerun,
         Tick, HangUp, Finished
<1> QED
  BY <1>1, <1>4 DEF BodyRead

(* Each phase is entered from the one before it, with that one's work      *)
(* done.                                                                   *)
LEMMA PhaseStep == TypeOK /\ PositionInv /\ PhaseInv /\ [Next]_vars => PhaseInv'
<1> SUFFICES ASSUME TypeOK, PositionInv, PhaseInv, [Next]_vars
             PROVE  PhaseInv'
  OBVIOUS
<1>0. /\ Refusal' = Refusal
      /\ HandedOver' <=> HandedOver
      /\ Unsupported' <=> Unsupported
      /\ NoRpc' <=> NoRpc
      /\ BodyRead => BodyRead'
  BY RequestKept, RequestStable, BodyReadStable
<1>t. /\ arrived \in Nat /\ read \in Nat /\ at \in Nat /\ Interceptors \in Nat
      /\ checked \in 0..Interceptors
  BY RequestTypes, CallAssumption DEF TypeOK
<1> USE <1>0, <1>t DEF PhaseInv, PositionInv, InChain
<1>1. CASE Reject
  BY <1>1 DEF Reject, NoRpc
<1>2. CASE StartHeads
  BY <1>2 DEF StartHeads, NoRpc
<1>3. CASE RefuseHead \/ HandOver \/ StartRead
  <2>1. HandedOver => ~Unsupported
    BY DEF HandedOver, Unsupported
  <2> QED
    BY <1>3, <2>1 DEF RefuseHead, HandOver, StartRead, HeadsDone
<1>4. CASE Read
  BY <1>4 DEF Read, ReadFrame, ReadTooLong, ReadFails, DrainDone, ReadTimesOut, ReadEnds,
              Reading
<1>5. CASE RefuseRead \/ Call
  BY <1>5 DEF RefuseRead, Call, ReadEnds
<1>6. CASE DispatchFails \/ Dispatch
  BY <1>6 DEF DispatchFails, Dispatch
<1>7. CASE Respond \/ CallTimesOut
  BY <1>7 DEF Respond, CallTimesOut
<1>8. CASE HeadAccepts \/ HeadRejects
  BY <1>8 DEF HeadAccepts, HeadRejects
<1>9. CASE RunNext
  BY <1>9 DEF RunNext
<1>10. CASE ShortCircuit \/ MethodReturns
  BY <1>10 DEF ShortCircuit, MethodReturns
<1>11. CASE Return
  BY <1>11 DEF Return
<1>12. CASE Rerun
  BY <1>12 DEF Rerun
<1>13. CASE ClientSends \/ ClientEnds \/ Tick \/ HangUp \/ Finished \/ UNCHANGED vars
  BY <1>13 DEF ClientSends, ClientEnds, Tick, HangUp, Finished
<1> QED
  BY <1>1, <1>2, <1>3, <1>4, <1>5, <1>6, <1>7, <1>8, <1>9, <1>10, <1>11, <1>12, <1>13
     DEF Next, Service, UserCode, Terminal

(* Only a whole body is ended, and nothing past the limit is read but the  *)
(* frame that ends the call.                                               *)
LEMMA BodyStep == TypeOK /\ PhaseInv /\ BodyInv /\ [Next]_vars => BodyInv'
<1> SUFFICES ASSUME TypeOK, PhaseInv, BodyInv, [Next]_vars
             PROVE  BodyInv'
  OBVIOUS
<1>0. /\ Frames' = Frames /\ MaxBody \in Nat /\ read \in Nat /\ arrived \in Nat
  BY RequestKept, RequestStable, RequestTypes, CallAssumption DEF TypeOK
<1> USE <1>0 DEF BodyInv, InChain
<1>1. CASE ReadFrame
  BY <1>1 DEF ReadFrame, Reading
<1>2. CASE ReadTooLong
  BY <1>2 DEF ReadTooLong, ReadEnds
<1>3. CASE ClientSends \/ ClientEnds
  BY <1>3 DEF ClientSends, ClientEnds
<1>4. CASE ~(ReadFrame \/ ReadTooLong \/ ClientSends \/ ClientEnds)
  <2>1. /\ arrived' = arrived /\ read' = read /\ close' = close
        /\ pc' \notin {"answered", "dropped"} => pc \notin {"answered", "dropped"}
        /\ pc' = "answered" \/ pc' = "dropped"
             \/ pc' \in {"route", "heads", "drain", "read", "chain", "method", "unwind"}
    BY <1>4 DEF TypeOK, Next, Service, UserCode, Terminal, Read, Reject, StartHeads, RefuseHead, HandOver,
         StartRead, ReadFails, DrainDone, ReadTimesOut, ReadEnds, HeadsDone, Live,
         RefuseRead, Call, DispatchFails, Dispatch, Respond, CallTimesOut,
         HeadAccepts, HeadRejects, RunNext, ShortCircuit, MethodReturns, Return, Rerun,
         Tick, HangUp, Finished
  <2>2. pc \in Pcs
    BY DEF TypeOK, Pcs
  <2> QED
    BY <2>1, <2>2 DEF Pcs
<1> QED
  BY <1>1, <1>2, <1>3, <1>4

(* A call that got into the chain has a method, and a body within the      *)
(* limit unless the method reads that itself.                              *)
LEMMA LetThrough ==
    ASSUME TypeOK, PhaseInv, BodyInv, InChain
    PROVE  /\ HandedOver \/ (Refusal = "no" /\ req.content # "long")
           /\ Refusal # "not_found"
<1>1. CASE HandedOver
  <2>1. req.method \in {"client", "bidi"}
    BY <1>1 DEF HandedOver
  <2>2. Refusal # "not_found"
    BY <2>1 DEF Refusal
  <2> QED
    BY <1>1, <2>2
<1>2. CASE ~HandedOver
  <2>1. BodyRead /\ Refusal = "no"
    BY <1>2 DEF PhaseInv
  <2>2. read = Frames /\ read <= MaxBody
    BY <2>1 DEF BodyInv, BodyRead
  <2>3. req.content = "long" => Frames = MaxBody + 1
    BY DEF Frames
  <2> QED
    BY <2>1, <2>2, <2>3, CallAssumption
<1> QED
  BY <1>1, <1>2

(* The method runs only on what LetThrough allows, and once more only for  *)
(* a re-run.                                                               *)
LEMMA RanStep ==
    TypeOK /\ PhaseInv /\ BodyInv /\ RanInv /\ [Next]_vars => RanInv'
<1> SUFFICES ASSUME TypeOK, PhaseInv, BodyInv, RanInv, [Next]_vars
             PROVE  RanInv'
  OBVIOUS
<1>0. /\ Path' = Path
      /\ HandedOver' <=> HandedOver
      /\ Proper' <=> Proper
      /\ BodyRead => BodyRead'
      /\ ran \in Nat /\ reruns \in Nat
  BY RequestKept, RequestStable, BodyReadStable, CallAssumption DEF TypeOK
<1> USE <1>0 DEF RanInv
<1>1. CASE Dispatch
  <2>1. InChain /\ pc = "chain" /\ Fits /\ pc' = "method" /\ ran' = ran + 1 /\ reruns' = reruns
    BY <1>1 DEF Dispatch, InChain
  <2>2. ~NoRpc /\ ~Unsupported /\ (BodyRead \/ HandedOver)
    BY <2>1 DEF PhaseInv
  <2>3. Proper
    BY <2>1, <2>2, LetThrough, DispatchedProper DEF TypeOK
  <2> QED
    BY <2>1, <2>2, <2>3
<1>2. CASE Rerun
  BY <1>2 DEF Rerun
<1>3. CASE HandOver \/ Call
  <2>1. ran = 0
    BY <1>3 DEF HandOver, Call, HeadsDone, PhaseInv
  <2> QED
    BY <1>3, <2>1 DEF HandOver, Call
<1>4. CASE ~(Dispatch \/ Rerun \/ HandOver \/ Call)
  <2>1. /\ ran' = ran /\ reruns' = reruns
        /\ pc' = "chain" => pc = "chain"
    BY <1>4 DEF Next, Service, UserCode, Terminal, Read, Reject, StartHeads, RefuseHead,
         StartRead, ReadFrame, ReadTooLong, ReadFails, DrainDone, ReadTimesOut, ReadEnds,
         RefuseRead, DispatchFails, Respond, CallTimesOut,
         HeadAccepts, HeadRejects, RunNext, ShortCircuit, MethodReturns, Return,
         ClientSends, ClientEnds, Tick, HangUp, Finished
  <2> QED
    BY <2>1
<1> QED
  BY <1>1, <1>2, <1>3, <1>4

(* Head checks come before the first byte read and the first interceptor,  *)
(* of every GET and of every POST whose content type somebody speaks;      *)
(* the method sees only a proper request, whole and within the limits, and *)
(* is called once, or once more for each re-run of a unary call.           *)
THEOREM ChecksComeFirst == Spec => []ChecksFirst
<1>1. Init => PhaseInv /\ BodyInv /\ RanInv
  <2> SUFFICES ASSUME Init PROVE PhaseInv /\ BodyInv /\ RanInv
    OBVIOUS
  <2> QED
    BY CallAssumption DEF Init, PhaseInv, BodyInv, RanInv, InChain
<1>2. TypeOK /\ PhaseInv /\ RanInv => ChecksFirst
  <2> SUFFICES ASSUME TypeOK, PhaseInv, RanInv PROVE ChecksFirst
    OBVIOUS
  <2>1. NoRpc => \/ req.verb = "other"
                 \/ req.verb = "POST" /\ req.type \in {"none", "other", "grpc+x", "web+x"}
    BY Routes DEF NoRpc, TypeOK
  <2>2. ran <= IF Path = "streaming" THEN 1 ELSE 1 + reruns
    BY CallAssumption DEF RanInv, TypeOK
  <2> QED
    BY <2>1, <2>2 DEF ChecksFirst, PhaseInv, RanInv
<1> QED
  BY <1>1, <1>2, PhaseStep, BodyStep, RanStep, CallTyped, PTL DEF Spec

-----------------------------------------------------------------------------
(* An error from anywhere but the media-type check is understood, and does *)
(* not say "ok".                                                           *)
LEMMA ErrorUnderstood ==
    ASSUME req \in Request, ~NoRpc, NEW status
    PROVE  Error(status).form \in Understood /\ Error(status).status = status
<1>1. Form \in Understood
  BY FormUnderstood DEF NoRpc
<1> QED
  BY <1>1 DEF Error, Reply

(* A refusal is not a success.                                             *)
LEMMA RefusalNotOk == Refusal # "ok"
  BY DEF Refusal

(* Every way to the end answers in the client's own form, and only the     *)
(* chain's own "ok" is reported as one.                                    *)
LEMMA AnswerStep ==
    TypeOK /\ PhaseInv /\ BodyInv /\ AnswerInv /\ [Next]_vars => AnswerInv'
<1> SUFFICES ASSUME TypeOK, PhaseInv, BodyInv, AnswerInv, [Next]_vars
             PROVE  AnswerInv'
  OBVIOUS
<1>0. /\ Understood' = Understood /\ Refusal' = Refusal /\ req \in Request
  BY RequestKept, RequestStable DEF TypeOK
<1> USE <1>0 DEF AnswerInv, AnsweredInKind
<1>1. CASE Reject
  <2>1. answer'.form \in Understood /\ answer'.status # "ok"
    BY <1>1, RejectUnderstood
  <2>2. pc' = "drain"
    BY <1>1 DEF Reject
  <2> QED
    BY <2>1, <2>2
<1>2. CASE RefuseHead \/ HeadRejects
  <2>1. ~NoRpc
    BY <1>2 DEF RefuseHead, HeadRejects, HeadsDone, PhaseInv
  <2>2. answer' = Error("refused") \/ answer' = Reply(HeadForm, "rejected")
    BY <1>2 DEF RefuseHead, HeadRejects
  <2>3. HeadForm \in Understood
    BY <2>1, FormUnderstood DEF NoRpc
  <2>5. answer'.form \in Understood /\ answer'.status # "ok"
    BY <2>1, <2>2, <2>3, ErrorUnderstood DEF Reply
  <2>4. pc' \in {"drain", "answered"}
    BY <1>2 DEF RefuseHead, HeadRejects
  <2> QED
    BY <2>4, <2>5
<1>3. CASE ReadTooLong \/ ReadFails \/ DrainDone \/ ReadTimesOut \/ RefuseRead
  <2>1. /\ pc \in {"drain", "read"} /\ pc' = "answered"
        /\ pc = "drain" => answer' = answer
        /\ pc = "read" => \/ answer' = Error("too_large") \/ answer' = Error("failed")
                          \/ answer' = Error("refused") \/ answer' = Error("deadline")
                          \/ answer' = Error(Refusal)
    BY <1>3 DEF ReadTooLong, ReadFails, DrainDone, ReadTimesOut, RefuseRead, ReadEnds, Reading
  <2>2. CASE pc = "drain"
    BY <2>1, <2>2
  <2>3. CASE pc = "read"
    <3>1. ~NoRpc
      BY <2>3 DEF PhaseInv
    <3>2. answer'.form \in Understood /\ answer'.status # "ok"
      BY <2>1, <2>3, <3>1, ErrorUnderstood, RefusalNotOk
    <3> QED
      BY <2>1, <3>2
  <2> QED
    BY <2>1, <2>2, <2>3
<1>4. CASE Respond
  <2>1. /\ pc = "unwind" /\ pc' = "answered" /\ result' = result
        /\ answer' = Error(IF HandedOver /\ ~item THEN "error" ELSE result)
    BY <1>4 DEF Respond
  <2>2. InChain
    BY <2>1 DEF InChain
  <2>3. ~NoRpc /\ Refusal # "not_found"
    BY <2>2, LetThrough DEF PhaseInv
  <2>4. /\ answer'.form \in Understood
        /\ answer'.status = "ok" => result = "ok"
    BY <2>1, <2>3, ErrorUnderstood
  <2> QED
    BY <2>1, <2>3, <2>4
<1>5. CASE CallTimesOut
  <2>1. InChain /\ pc' = "answered" /\ answer' = Error("deadline")
    BY <1>5 DEF CallTimesOut, InChain
  <2>2. ~NoRpc
    BY <2>1 DEF PhaseInv
  <2>3. answer'.form \in Understood /\ answer'.status # "ok"
    BY <2>1, <2>2, ErrorUnderstood
  <2> QED
    BY <2>1, <2>3
<1>6. CASE ~( Reject \/ RefuseHead \/ HeadRejects \/ ReadTooLong \/ ReadFails
             \/ DrainDone \/ ReadTimesOut \/ RefuseRead \/ Respond \/ CallTimesOut )
  <2>1. /\ answer' = answer
        /\ pc' = "drain" => pc = "drain"
        /\ pc' = "answered" => pc = "answered" /\ result' = result
    BY <1>6 DEF Next, Service, UserCode, Terminal, Read, StartHeads, HandOver, StartRead, ReadFrame,
         Reading, Call, DispatchFails, Dispatch, HeadAccepts, RunNext, ShortCircuit,
         MethodReturns, Return, Rerun, ClientSends, ClientEnds, Tick, HangUp, Finished
  <2> QED
    BY <2>1
<1> QED
  BY <1>1, <1>2, <1>3, <1>4, <1>5, <1>6

(* The call has been answered only for one of the reasons BodyReadFirst    *)
(* names.                                                                  *)
LEMMA ReadFirstStep ==
    TypeOK /\ PhaseInv /\ BodyReadFirst /\ [Next]_vars => BodyReadFirst'
<1> SUFFICES ASSUME TypeOK, PhaseInv, BodyReadFirst, [Next]_vars, pc' = "answered"
             PROVE  \/ BodyRead' \/ close' = "error" \/ read' > MaxBody \/ budget' = 0
                    \/ checked' < Interceptors /\ answer'.status = "rejected"
                    \/ HandedOver'
  BY DEF BodyReadFirst
<1>0. (HandedOver' <=> HandedOver) /\ (BodyRead => BodyRead')
  BY RequestKept, RequestStable, BodyReadStable
<1>1. CASE ReadTooLong
  BY <1>1, CallAssumption DEF ReadTooLong
<1>2. CASE ReadFails
  BY <1>2 DEF ReadFails, ReadEnds
<1>3. CASE DrainDone \/ RefuseRead
  <2>1. BodyRead
    BY <1>3 DEF DrainDone, RefuseRead
  <2> QED
    BY <2>1, <1>0
<1>4. CASE ReadTimesOut \/ CallTimesOut
  BY <1>4 DEF ReadTimesOut, CallTimesOut, ReadEnds
<1>5. CASE HeadRejects
  BY <1>5 DEF HeadRejects, Error, Reply
<1>6. CASE Respond
  <2>1. InChain
    BY <1>6 DEF Respond, InChain
  <2>2. HandedOver \/ BodyRead
    BY <2>1 DEF PhaseInv
  <2> QED
    BY <2>2, <1>0
<1>7. CASE ~( HeadRejects \/ ReadTooLong \/ ReadFails \/ DrainDone \/ ReadTimesOut
             \/ RefuseRead \/ Respond \/ CallTimesOut )
  <2>1. /\ pc = "answered" /\ close' = close /\ read' = read /\ budget' = budget
        /\ checked' = checked /\ answer' = answer
    BY <1>7 DEF Next, Service, UserCode, Terminal, Read, Reject, StartHeads, RefuseHead, HandOver,
         StartRead, ReadFrame, Reading, Call, DispatchFails, Dispatch, HeadAccepts, RunNext,
         ShortCircuit, MethodReturns, Return, Rerun, ClientSends, ClientEnds, Tick, HangUp,
         Finished, Live
  <2> QED
    BY <2>1, <1>0 DEF BodyReadFirst
<1> QED
  BY <1>1, <1>2, <1>3, <1>4, <1>5, <1>6, <1>7

(* However a call ends, its answer is in the form of the protocol its      *)
(* client speaks, and says "ok" only of a method that exists and a chain   *)
(* that returned it.                                                       *)
THEOREM KindOfAnswer == Spec => []AnsweredInKind
<1>1. Init => PhaseInv /\ BodyInv /\ AnswerInv
  <2> SUFFICES ASSUME Init PROVE PhaseInv /\ BodyInv /\ AnswerInv
    OBVIOUS
  <2> QED
    BY CallAssumption DEF Init, PhaseInv, BodyInv, AnswerInv, AnsweredInKind, InChain
<1>2. AnswerInv => AnsweredInKind
  BY DEF AnswerInv
<1> QED
  BY <1>1, <1>2, PhaseStep, BodyStep, AnswerStep, CallTyped, PTL DEF Spec

(* No answer is given while the client is still sending a body that could  *)
(* be read, except a head check's own rejection.                           *)
THEOREM ReadBeforeAnswer == Spec => []BodyReadFirst
<1>1. Init => PhaseInv /\ BodyReadFirst
  <2> SUFFICES ASSUME Init PROVE PhaseInv /\ BodyReadFirst
    OBVIOUS
  <2> QED
    BY DEF Init, PhaseInv, BodyReadFirst, InChain
<1> QED
  BY <1>1, PhaseStep, ReadFirstStep, CallTyped, PTL DEF Spec
=============================================================================
