# connect-rust: TLA+ models, model checking and proofs

connect-rust is a Rust implementation of the Connect, gRPC and gRPC-Web
protocols: a server (a tower service, an accept loop on hyper), clients (plain,
HTTP/2, shared HTTP/2), and satellite crates for health checks, reflection and
code generation. This directory models the parts of it whose correctness
depends on the order in which concurrent things happen.

## 1. Inventory

Paths are relative to `connectrpc/src/` unless they name another crate.

| Component | State it keeps | Operations | What is hard | What makes it correct |
|---|---|---|---|---|
| Served connection (`server.rs`: `serve_connection`, `ConnectionLifecycle`, `ConnectionActivity`, `RequestCounter`, `DetectionTimeout`) | lifecycle state and close reason; age, idle and grace sleeps; in-flight and epoch counters; request count; protocol detection | one `poll`; a service call per request; guards dropped on other tasks | wake-ups, several triggers ready at once, two-step atomics, timers against activity | no lost wake-up; reason final; shutdown never capped by grace; reaped only when idle, and then soon |
| Accept loop (`server.rs`: `serve_with_listener`) | listener, `JoinSet`, shutdown watch channel | accept, reap, back off, drain, fail, be dropped | biased select, accept errors, tasks that have not registered yet | drains everything before `Ok`; accepts nothing after the signal; never cuts off a request on its own |
| Shared HTTP/2 connection (`client/http2.rs`: `SharedHttp2Connection`, `SharedState`, `Reconnect`) | published handle, lock, attempts, last failure, slots | `poll_ready`, `call`, `send`, `reconnect` | many callers, cancellation at any await, a connection dying under a request, racy publication | one connection; no request sent twice; slots never lost; everyone answered; a failure shared, but never a stale one |
| Deadlines (`deadline.rs`) | absolute and per-message timers of a response stream | `moderate`, `DeadlineStream::poll_next` | timer against consumer, order of checks | the effective deadline within policy; an ended stream stays ended |
| Response streams (`service.rs`: `BatchingEnvelopeStream` and the finaliser) | batch buffer, pending segments, final frame | `poll_next`, `poll_frame` | order of partial batches, errors mid-batch | every message once, in order, trailer last |
| Request streams (`service.rs`: `RequestBodyStream`, `request_body_drain`) | the body, the decoder, the frame's rest; a drain with its timer and count | `poll_next`, drop, the drain task | a handler that stops anywhere, a client that stalls or trickles | the rest is read to its end, within limits, and let go of |
| Envelope framing (`envelope.rs`) | assembler: header, slab, body, limits | `feed`, `decode`, `encode` | arbitrary frame splits, limits at the boundary | decoding is independent of the split; memory follows what has arrived |
| Client calls (`client/mod.rs`: `BidiSendHalf`, `BidiRecvHalf`, `ServerStream`, `call_server_stream`, `call_client_stream`, `EncodingBody`) | channel to the request body, two spawned tasks, receive state, terminal record | `message`, `send`, `close_send`, drop, cancellation of each | a server that stops anywhere, status in the head or in trailers, an upload cut off, deadline races | one true outcome, final, by the deadline; no task left behind; sends independent of receives |
| Request handling (`service.rs`: `handle_request` and its handlers; `interceptor.rs`; `router.rs`) | one future per request: how far the body is read, which interceptor has control, the deadline | head checks, refusals and drains, reading, the chain, the method | a dozen ways out, each before or after the body; a deadline over several awaits; interceptors that answer, retry or hang | answered in its own protocol, with the body read first; checks before anything else; one deadline for all of it |
| Compression, codecs, errors | immutable once built | lookups, pure functions | none concurrent | negotiated encodings |
| Health (`connectrpc-health`: `StaticChecker`, `StatusStream`) | map of watch senders under a mutex | register, set, remove, shutdown, watch | watchers against updates, removal and re-registration | a watcher sees the last status; shutdown misses nobody |
| axum (`axum.rs`) | none: `Serve` hands an axum router to `serve_with_listener` | | as the accept loop | as the accept loop |
| Reflection, code generator, build helper, generated types | none, or read-only | | | not modelled |

Interaction: the accept loop spawns one task per connection and tells all of
them to wind down through a watch channel; a connection calls the service once
per request and learns of their ends through counters; the service reads the
request stream, moderates its deadline and wraps the response stream; on the
client, calls share one connection through the handle; a call's request body and
its response are driven by the transport while the caller waits, cancels or drops
what it holds.

`PROJECT.json` lists every component, and under "hazards" each place where
something can go wrong that a test would hardly reach.

## 2. Modules

| Module | Models | Proved about |
|---|---|---|
| `ConnectionPromise` | abstract: what a connection promises the code around it | - |
| `ConnectionLifecycle` | the connection's future, its counters and timers | `ConnectionLifecycleProofs` |
| `AcceptLoop` | the accept loop; its connections behave as `ConnectionPromise` | `AcceptLoopProofs` |
| `SharedHttp2` | the shared client connection | `SharedHttp2Proofs` |
| `ServerCall` | one call on the server, from the request head to the response head: routing, refusals, deadline, interceptors | `ServerCallProofs` |
| `ResponseStream` | a streaming response: handler, deadlines, batching | `ResponseStreamProofs` |
| `RequestStream` | a streaming request: envelope assembly, the handler's stream, the drain | `RequestStreamProofs` |
| `ClientStream` | one bidi, server-streaming or client-streaming call of a client | `ClientStreamProofs` |
| `HealthChecker` | the health registry and its Watch streams | `HealthCheckerProofs` |
| `MC*` | the instances TLC checks (symmetry sets, messages); `AcceptLoop`, `SharedHttp2`, `ClientStream` and `HealthChecker` need none | |

### ConnectionLifecycle

`ConnectionLifecycle::poll` is a loop that polls several futures in a fixed
order. Each of these polls is one action and `pc` says which comes next, so the
peer, the handlers, hyper's stream tasks, the accept loop and the clock may
move between any two. `state` is `ConnectionLifecycleState`; `reason` is the
`CloseReason` it carries and, once `Done`, the one reported. `armed` is the set
of futures that hold the task's waker and `woken` says that the task is
scheduled: the executor polls it only then, so forgetting to poll a future
after a state change is visible.

| Code | Model |
|---|---|
| `conn.poll`, `log_connection_result` | `PollConnReady`, `LogConnectionResult`, `Close` |
| `conn.poll` pending, the `service_fn` closure (`record_request`, `ActiveRequestGuard::new`) | `PollConnPending` |
| `global_shutdown.poll` in Serving and Draining | `PollShutdown`, `ObeyShutdown` |
| `age`, `idle`, `requests`, `grace` | `PollAge`, `PollIdle` + `SnapshotEpoch`, `PollRequests`, `PollGrace` |
| `snapshot()`: two loads | `PollIdle` loads `in_flight`, `SnapshotEpoch` loads `epoch` |
| `request_finished()`: two read-modify-writes on hyper's stream task | `FinishInFlight`, `FinishEpoch` (HTTP/2); within `PollConnPending` for HTTP/1.1, where the connection's own task drops the body |
| `DetectionTimeout`, hyper-util's choice of protocol | `detectLeft`, `hello`, `picked`, `Http2`, `ConnError` |
| `jitter_connection_age` | `JitterAge` |

Which task does the counting decides what can fall between `snapshot()`'s two loads.
The `service_fn` closure calls `record_request` and `ActiveRequestGuard::new` itself,
before it returns its future, and hyper calls the service from within `conn.poll`, on
the connection's own task; over HTTP/2 only the future it returns is given to a
stream's task. The snapshot is taken later in a poll of that same task. So
`request_started` cannot run between the two loads, nor the loads between its two
increments, and `PollConnPending` does both increments in one step.
`request_finished` runs where hyper drops the response body, over HTTP/2 on the
stream's task, and is two steps of its own. The comment on `snapshot()`
(`server.rs:1992-1999`) says that a request arriving between the loads can be seen
as `(0, armed_epoch)` and the connection reaped "while a request is actually
landing": by this argument it cannot, and `ReapOnlyWhenQuiet` states the contrary
(see the remarks in section 4).

hyper is external. Modelled of it: it fails or ends when the socket does; told
to wind down it ends once nothing is active, or at once, with an error hyper-util
calls "Cancelled", if it has not read enough to pick a protocol; HTTP/1.1 serves
one request at a time, HTTP/2 all of them; requests that race a GOAWAY may be
taken or refused. A handler's panic is a response (`InternalErrorForPanic`,
`ServedBody`) and not told apart from one.

Timers count down, so time is not bounded. The counters are bounded by the
number of requests the peer may send; u64 overflow of `served` and the
saturation of the jitter's u128 product are not modelled.

`Prompt` chooses between two clocks. FALSE: the clock may advance between any
two steps (the executor may be arbitrarily late); used for safety. TRUE: it
advances only when no task is runnable; used for liveness and for the bound on
idle reaping, which no code could keep on a stalled executor.

### AcceptLoop

`loop` is the position in the select loop; a biased select is a sequence of
polls. `drainTx` is the watch value: "true" after a `break`, "dropped" when
`serve_with_listener` returns an error or is dropped, and
`global_shutdown_future` resolves on both (`told`). A connection slot goes from
`free` through `handshake` and `accepted` to `serving` and `finished`, where it
waits in the `JoinSet` to be reaped. A fatal accept error detaches the tasks
(`DetachAll`), dropping the future aborts them (`AbortAll`).

### SharedHttp2

One action is one access to shared state. `line` is the fair semaphore with
those waiting for it (the first `Bound` hold a slot), `lock` the fair
`tokio::sync::Mutex` queue, its head the owner; an attempt's task keeps the head
when the request that started it is dropped. `SharedState.attempts` is only
compared with what a request loaded before, so it is kept per request as
`moved`. `me[r]` are the request's locals, with history variables that the code
does not have: `wire`, `during`, `missed`. `Reconnect::poll_ready` is `Dial`,
`DialFails`, `DialSucceeds` and `PollConnected`; `Reconnect::call` is not used
through the shared handle. A connection goes from open to closing, when hyper
hands requests back but `is_closed()` is still false, to closed. Not modelled: the
attempt's task being cancelled by the runtime's shutdown, or panicking.

### ServerCall

One request, chosen in `Init` by what its head and body are: verb, content type,
kind of the method it names, compression, timeout, and how its body is malformed
if it is. The body arrives in frames of one unit while the future runs. `pc` is
where the future is: routing, the head checks, a drain whose result is ignored,
the reading of the message, the chain on its way in, the method, the chain on
its way out. `at` is the interceptor that has control; `item` is the one message
that a server-streaming request or a client-streaming response carries through
the chain as a stream, which an interceptor may have taken out.

| Code | Model |
|---|---|
| `Protocol::detect`, the branches of `handle_request` | `ByPrefix`, `Path`, `Protocol` |
| `reject_unsupported_method`, content types nobody speaks | `Reject` |
| `intercept_heads` | `HeadAccepts`, `HeadRejects` |
| text mode, unsupported compression | `RefuseHead` |
| `collect_body_limited` under `with_request_deadline` | `ReadFrame`, `ReadTooLong`, `ReadFails`, `DrainDone`, `ReadTimesOut` |
| the checks of `handle_unary_request`, `handle_grpc_unary_request`, `handle_streaming_request` after the read | `Refusal` with `MessageFails`, `EnvelopeFails`; `RefuseRead` |
| the client-streaming and bidi handlers | `HandOver` |
| `Next::run`, `NextStream::run`, a cloned `Next` | `RunNext`, `ShortCircuit`, `Return`, `Rerun` |
| the terminals, `Router::call_*` | `Terminal`: `Dispatch`, `DispatchFails` |
| `error_response`, `grpc_error_response`, `streaming_error_response`, and which handler uses which | `ErrorResponse`, `GrpcErrorResponse`, `StreamingErrorResponse`; `Form`, `HeadForm`, `Error` |

`budget` is what is left of the deadline and `age` the time since it was set;
the head checks run before it, as `intercept_head` documents. A timer that has
fired is seen to before time moves on, since a late executor would exceed any
deadline. `timeout_at` polls its future first, so a read that can go on does. A
timeout is already within the policy's clamps (`ResponseStream` models
`moderate`), and a verb other than GET and POST is drained under Connect's
timeout header whatever its content type. Verbs other than GET and POST, and
content types of a POST that nobody speaks, are refused without a head check, as the
guide says; a GET has no content type and is checked like any call. The terminal of
a server-streaming call first awaits the one message of its inbound stream, which an
interceptor may have replaced by a stream of its own that never yields it
(`AwaitsInbound`): that wait is under the deadline and no fairness ends it. Not modelled: attempts
that one interceptor runs concurrently; `StreamingDispatchKind::Unary` and the
handlers' own checks of the verb, which no request reaches.

### ResponseStream

The body of a server-streaming or bidi response is a stack: the handler's
stream, `DeadlineStream`, `BatchingEnvelopeStream`, hyper. `pc` is the position
in the two nested `poll_next`; the handler and the clock move between any two
steps. `woken` and `armed` are as in `ConnectionLifecycle`: hyper polls a body
that was woken or has just returned a frame, as late as it likes, because the
peer decides when there is room for more.

| Code | Model |
|---|---|
| `DeadlinePolicy::moderate` | `Moderate`, applied in `Init` |
| `with_request_deadline`, `streaming_error_response` | `HandlerReturns`, `HandlerFails` |
| `DeadlineStream::poll_next` | `PollTimers`, then `TakeItem`, `TakeError`, `TakeEnd` or `InnerPending`; `Rearm` |
| `encode_chained` | `TakeItem` with `Head0`, `Segments` |
| `drain_segments`, `flush_buf` | `DrainSegment`, `Flush` |
| the three exits that stage a final frame | `FinishWith`, `EmitFinal` |

A message is a sequence of segment sizes. A unit is what the code copies or moves
as one piece: the header with a small payload, or one segment of a large one;
`wire`, `buf` and `segs` are sequences of units and keep which message and which
part each is. `taken`, `cause` and `since` are histories.
Compression changes a body before it is framed and is not told apart from the
body it yields; that it may fail is. `Gap = 0` stands for no inter-message
timeout: a timeout of zero is not modelled, nor are a deadline beyond the range
of `Instant` (it counts as none) and a peer that resets the stream.

### RequestStream

Only lengths matter to the framing, so the wire is a line of byte offsets and a
decoded message is the interval it was cut from. `ReadFrame(n)` hands over any
number of the bytes that have arrived, none included; `Decode` is one call of
`EnvelopeDecoder::decode`. A decoder that lost its place would read payload bytes
as a header (`HeaderAt`). `Finish` is `RequestBodyStream::finish`; `owner` says
whether the stream, the drain task or nobody holds the body.

| Code | Model |
|---|---|
| `EnvelopeAssembler::feed` | `DecodeHeaderPart`, `DecodeTooLarge`, `DecodePayloadPart`; `Grow` and `CapacityAfter` are `fill_body`'s allocation |
| `EnvelopeDecoder::decode`, `finish` | `DecodeMessage`, `DecodeEnd`, `DecodeFails`; `FinishDecoder` |
| `RequestBodyStream::poll_next`, drop | `Poll`, `ReadPending`, `ReadFrame`, `ReadError`, `ReadEof`; `HandlerDrops` |
| `request_body_drain`, `Drained::add` | `Finish`, `DrainFrame`, `DrainOver`, `DrainTimesOut`; `PastLimit` |

The reuse of the slab between small messages is not modelled (its size is fixed),
nor a stream that is created and dropped outside a Tokio runtime, whose drain
the code skips, nor wasm, which has no timer.

### ClientStream

One call, of a `kind` and over a `protocol` chosen in `Init`. A bidi call is two
callers: one sends through a bounded channel (`chan`, `sender`), one receives.
`task` is the spawned transport send and `build` the spawned construction of the
`ServerStream`; `recv` is `RecvState`. Dropping a pending `message()` or `send()`
(`CancelMessage`, `CancelSend`) and dropping a half (`DropRecv`, `CloseSend`) are
actions of their own. The server sends any sequence of items, in every shape the
reader tells apart, and ends or resets the response anywhere. An item stands for what
its reader makes of an envelope. `ServerStream` takes an envelope flagged END_STREAM
(0x02) as the end in every protocol (`eos_*`), and one flagged 0x80 as the trailers
over gRPC-Web only (`end_*`; to plain gRPC it is a message, which decodes or not).
The parser of a single gRPC response looks at 0x80 alone, so that one flagged
END_STREAM is a message to it (`HeedsEndStream`), and over plain gRPC it rejects 0x80
(`bad`). What follows a terminal item is not read and not modelled.

| Code | Model |
|---|---|
| `BidiSendHalf::send`, `close_send`; `ChannelBody` | `Send`, `SendResumes`, `CloseSend`; `PullRequest` |
| `BidiRecvHalf::message` | `AwaitHeaders`, `HeadersTimeOut`, `AwaitBuild`, `AwaitFailed`, then `ServerStream`'s |
| `make_server_stream` under `with_deadline` | `Constructed`, `BuildDone`, `BuildTimesOut` |
| `ServerStream::message`, `next_message_or_end`, `poll_body` | `Replay`, `ReadMessage`, `ReadOn`, `ReadTerminal`, `ReadEnd` |
| `classify_grpc_end`, `process_end_stream` | `ClassifyGrpcEnd`, `ClassifyFrame`, `ClassifyTrailers`; `ProcessEndStream` |
| `call_server_stream` | `ServerCallReturns`, `CallTimesOut` |
| `call_client_stream`, `EncodingBody`, the parsers of a single response | `ClientCallReturns`, `EncodeFails`, `ScanConnect`, `ScanGrpc`, `Surfaced` |

How envelopes are cut out of frames is `RequestStream`'s subject; both sides use
the same assembler. `got`, `last` and `told` are histories. Two things the model
makes visible and the properties do not forbid: over gRPC an envelope cut short
is dropped without notice if an OK status follows it, and `send()` checks the
deadline before it waits for room in the channel, not while it waits.

### HealthChecker

A registration makes a channel; `registry` maps names to channels, `status`,
`version` and `closed` are tokio's watch channel. Registry operations run under
the mutex and are one step each, except `shutdown()`, which visits the senders
one after the other while Watch streams, which do not take the lock, are polled
in between. `Yield` and `EndWatch` are `WatchStream`'s, external: the current
status first, then one for each change noticed, and the end only when the sender
is gone and nothing is left to yield.

## 3. Runs

| Run | Instance | Shows |
|---|---|---|
| `Lifecycle` | either protocol; 2 requests, age 5, idle 2, limit 2, grace 1, header timeout 2; the clock may run at any time | refinement of `ConnectionPromise`; no lost wake-up; a final reason; a grace period never caps a shutdown drain; only quiet connections are reaped, over HTTP/1.1 only after a full idle window; an error is reported exactly when the drain or the connection failed |
| `LifecycleLive` | either protocol; 2 requests, age 6, idle 2, limit 2, grace 1, header timeout 1; tasks run before the clock | reaped within two windows; the age and the limit retire, the limit neither a request early nor one late, and a retirement ends although handlers hang; a shutdown ends once handlers return |
| `LifecycleReapRace` | HTTP/2, 1 request, idle 2 | finding 1 (violation) |
| `AcceptLoop` | 2 connections with TLS, 1 request at a time each | drain is complete; no step of the loop but its being dropped breaks a connection's promise; `serve` returns after the signal, and connections detached by a fatal accept error end |
| `SharedHttp2` | 1 request by `send`, 1 by tower; 1 slot; 2 resends | one open connection; slots, the permit kept from `poll_ready` to `call` included; at most once on the wire; failures fresh and shared; every request is answered |
| `SharedHttp2Bound` | 2 requests, 1 slot | finding 2 (violation) |
| `ResponseStream` | 3 messages of 5 shapes; header 1, `MIN_CHAIN_SIZE` and threshold 3; deadlines none, 1, 2, 3; gap 2 | bytes in order, once, then one outcome; nothing withheld; bounded batches; no early stall; a stream whose handler hangs ends (of a stream without deadline only the gap can see to that), and a deadline wins over a handler that always has a message ready |
| `ServerCall` | every verb, content type, kind of method, compression and malformed body; 2 interceptors, 1 re-run; a limit of 2 frames; timeouts none, 0 and 2 | answers in the client's protocol, and "ok" only if the chain said so; the body read or drained first; no read, interceptor or method before the head checks, and no method for an improper request; one budget for reading, chain, re-runs and method; a call with a deadline is answered |
| `RequestStream` | every body of up to 2 envelopes of 8 shapes, and of 3 small messages; header 2, slab half 1, limit 4, drain 2 bytes or 2 ticks | decoding depends on the bytes and not on the frames; the allocation follows what has arrived; the rest of a body is read to its end unless it fails, is too long or takes too long; a body nobody reads is let go of |
| `ClientStream` | the 3 kinds of call, the 3 protocols; 2 sends through a channel of 1; up to 2 items (3 where the response is awaited whole); deadline 1 | the outcome told is true and final; no task outlives its receive half; `message()` returns by the deadline; sends do not wait for receives |
| `ClientStreamCleanEnd` | bidi and server streams over gRPC and gRPC-Web; 1 or 2 items; no deadline | finding 3 (violation) |
| `Health` | names `""` and `a`, 3 registrations of up to 2 changes, 1 watcher | a stream that ends has shown the last status; streams catch up and end; `shutdown` marks every service |

Bounds. The idle window is 2 ticks so that activity can fall inside it, the age
is long enough for two windows to pass before it, two requests let one end while
the other runs and reach the limit. In `SharedHttp2` two requests are enough for
one to wait for the slot, or for the lock without one, while the other's attempt runs
or outlives it, and two resends for a third connection to be dialled after a second
died; that more requests change nothing is what the proofs are for, as all five
safety properties of the run are theorems for any number of them. `wire` is a
history with its own cap. The sleep of `AcceptLoop`'s back-off need not end, so that
`ServeReturns` depends on the signal being heard in it.
In `ResponseStream` the code's sizes (5 bytes, `MIN_CHAIN_SIZE`, 16 KiB) are
scaled so that a batch fills after two small messages and each kind of body
occurs: small, small in two segments, large, large between small segments,
large but of small segments only; three messages are enough for a partial batch
before and after a large one. The asserted timeouts are none, below the floor,
in range and above the cap. In `ServerCall` two interceptors let an inner one
answer and the outer one re-run it, a body of three frames exceeds the limit, and a
timeout of 2 can lapse in each phase. In `RequestStream` a header of two bytes can be split,
payloads are empty, fit the slab, are assembled in a growing allocation (of 4,
which takes up to three steps) or exceed the limit, and what follows an
END_STREAM may be more than the drain's limit. In `ClientStream` a channel of one
makes the second send wait; two items are a message and the end of the response,
and three let a single response have one message too many. One Watch stream is
enough in `Health`, as streams share nothing but the channel they read; three
registrations let one name be registered anew.

Fairness. The executor polls a woken task, hyper's stream tasks run, the clock
advances (`Fairness`). That handlers return is assumed only by `ShutdownDrains`
and by `AcceptLoop`'s `FairSpec`, since a shutdown drain has no deadline by
design. In `SharedHttp2` a dial ends (it does under `establishment_timeout`), a
tower handle that was polled ready is called, and `ConnectionsSurvive`:
`Reconnect::poll_ready` loops for as long as each new connection is gone before it
is polled, so some connection must outlive that instant. `ResponseStream`'s
`FairSpec` assumes that the peer keeps reading, so that hyper keeps polling, and
that time passes; it assumes nothing of the handler. A peer that stops reading
leaves a lapsed deadline unenforced: the timers live in the body and are seen only
when it is polled. `ServerCall` assumes that the runtime
polls the future and that time passes, and nothing of the client, the interceptors
or the method. `RequestStream` assumes that the drain's task is polled and
that time passes, and nothing of the client or the handler. `ClientStream`
assumes that callers who wait are polled, that the construction task runs, that
the transport lets go of an abandoned request and that time passes; that the
server goes on reading is assumed only where `SendsProgress` says so.
`HealthChecker` assumes that a Watch stream is polled, as it is while its client
reads, and that `shutdown()`, which never waits, runs to its end.

Every property has a mutant in `PROJECT.json`, some have two: an operator (marked `mutant` in
the module) that changes one definition the way a slip in the code would, and
that makes TLC find the property violated. Each module's `TypeOK` was checked by
TLC while the module was written and is not a property of a run; all are proved.

## 4. Findings

1. `request_finished` (`server.rs:1985`) decrements `in_flight` before it bumps
   `epoch`, on another task than the one that takes the snapshot. A reap can
   therefore happen at the moment an HTTP/2 request completes, where the
   documentation promises a full idle window. Bumping `epoch` first, or loading
   it first in `snapshot`, closes it for completions.
2. `send` (`client/http2.rs:1171`) gives its slot back when hyper takes the
   request; one that is handed back waits for the reconnect without a slot, so
   the semaphore does not bound the waiters as the comment at 1005 says.
3. `next_message_or_end` (`client/mod.rs:3317`) takes an envelope flagged END_STREAM
   as the end of the stream without asking for the protocol. A gRPC or gRPC-Web
   stream that ends so is reported as `Ok(None)` though no `grpc-status` has arrived,
   and its trailers are not read, where the comments at 3221 and 3337 and the test
   comment at 7656 say that only a status makes a clean end. Asking for
   `Protocol::Connect` before `process_end_stream`, as is done for gRPC-Web's
   trailer frame, closes it. `OutcomeIsTrue` states what does hold.

Three remarks without a run. The comment on `snapshot()` (`server.rs:1992-1999`) is
contradicted by the code, in the code's favour: a starting request cannot race the
snapshot (section 2), and `ReapOnlyWhenQuiet` is proved; the race there is belongs to
completions (finding 1). Second, `reconnect` (`client/http2.rs:1108`) bumps `attempts`
before it publishes the failure and releases the lock; a caller that loads it in
between queues behind that attempt and dials again. `WaitersShareFailure` shows
that this window is the only one. Third,
`DeadlineStream` (`deadline.rs:380`) checks the inter-message timer before it
polls the handler's stream, and the timer counts the time the consumer takes: a
message that was ready in time is dropped, and its handler called stalled, when
hyper polls late. `StallNotEarly` shows what does hold: no cut sooner than the
timeout after the last message taken or the first poll.

## 5. Proofs

Every safety property of the passing runs, invariant or action property, and the
refinement of `ConnectionPromise` is proved for every value of the constants.
Each proof module extends the module it is about, defines the inductive
invariant, and has one lemma per part of it (what it is at the start, that every
action keeps it) before the theorems. TLC checked each invariant on the runs'
instances before it was proved. The only hypotheses are the ASSUMEs of the
modules: what the settings' types and builders guarantee, and that the sets of
requests, connections and services are finite.

### ConnectionLifecycleProofs

For every set of requests, every setting and both protocols (`ConfigAssumption`).

| Theorem | States | Rests on |
|---|---|---|
| `TypeCorrect` | `[]TypeOK` | |
| `WakeupsNotLost` | `[]NoLostWakeup` | `WakeInv` |
| `ReasonFinal` | `WindDownReasonFinal` | `ReasonInv`, `PcInv` |
| `ErrorsAreTold` | `[]ErrorTellsFailedDrain` | `DrainInv` |
| `ShutdownHasNoDeadline` | `GraceNeverCapsShutdown` | `DrainInv` |
| `LoopKeepsPromise` | `PromiseSpec` | all of the above |
| `ReapsOnlyTheQuiet` | `ReapOnlyWhenQuiet` | `CountInv` |
| `ReapsAfterAFullWindow` | `ReapAfterFullWindowHttp1` | `SilenceInv` |
| `ReapsInTime` | `[]ReapWithinTwoWindows` | `WindowInv` |

- `NoLostWakeup` speaks of a parked task only and is not inductive. `WakeInv` adds
  what holds in the middle of a poll: `PcInv` (which lifecycle states go with which
  program counter), `ArmedInv` (a future that holds the waker is not ready, except
  the connection, which `graceful_shutdown` makes ready without waking anyone) and
  `CoverInv` (every future that this poll has been past either is not ready and
  holds the waker, or the task is already woken). The exception in `ArmedInv` is
  why every state change must `continue`: the connection is covered again only
  once it has been polled.
- `DrainInv`: a wind-down has a reason and hyper was told of it; no request is
  served before a protocol is picked; a poll that looks at the grace period began
  before the shutdown signal, because it would otherwise have gone to the global
  drain first.
- The refinement maps the lifecycle state to the promise's phase and the requests
  being served to its own; each action of the poll loop is one step of the promise
  or none (`PromiseStep`, by cases on the actions).
- Idle reaping reads `in_flight` and the epoch one after the other. `CountInv`
  says what the pair is worth between the two reads: the count is the number of
  guards alive, and a guard that was alive at the first read is either alive still
  or has moved the epoch. `SilenceInv` and `WindowInv` relate the time left of the
  window to the time since the last activity, from below and from above.

### ResponseStreamProofs

For every set of messages, every size and every policy (`StreamAssumption`; the two
thresholds are positive, as the constants of the code are).

| Theorem | States | Rests on |
|---|---|---|
| `StreamTyped` | `[]TypeOK` | |
| `DeliveredInOrder` | `[]BytesInOrder` | `StageInv` |
| `NeverWithheld` | `[]NothingWithheld` | `ArmedInv`, `WaitInv` |
| `StallsAreNotEarly` | `StallNotEarly` | `GapInv` |
| `BatchesAreBounded` | `[]BatchBounded` | `BatchInv` |

- `StageInv`: the source is polled only when no segment is pending, a final frame
  is staged only with an empty batch and with the outcome of `cause`, and after it
  nothing is taken.
- `ArmedInv`: a source or timer that holds the waker is not ready. `WaitInv`: a body
  past the timer checks is woken or has left its waker with every timer in force,
  and one parked without being woken has left it with all of them and has nothing
  in hand. A re-armed timer holds no waker, which is why the loop must come round
  to it before it returns Pending.
- `GapInv`: what is left of an armed gap and the time since the last message make up
  the whole timeout.
- `BatchInv`: the batch is below the threshold whenever a message may be added to
  it, that is everywhere but between the encoding and the drain that follows. The
  lemmas before it are about `Sum`: it is a number, and a size added at the end
  adds to it.

### RequestStreamProofs

For every set of bodies, every limit and every cut into frames (`StreamAssumption`):
`StreamTyped`, `FramesDoNotMatter` (`SplitIndependent`), `AllocationIsBounded`
(`AllocationBounded`), `BodyIsReadToEnd` (`BodyReadToEnd`).

`SplitIndependent` says what a handler may have got; the invariant says where the
decoder is. `PositionInv`: what it has taken off the wire is the envelopes it has
delivered and what is assembled of the next one. `AssemblyInv`: that is a part of
its header, or the header and part of a payload within the limit, in a buffer no
larger than it may be. `OwnerInv`: the decoder, and not the drain, has the body
while it does so. `Start`, the offset of an envelope, is a recursive function over
a body of any length: that it exists, is a number and grows (`TableExists`,
`StartIsNat`, `StartGrows`) is proved by its least counterexample (`LeastNumber`),
from the fact that the natural numbers are well founded.

### ServerCallProofs

For every set of requests, any number of interceptors and re-runs, every limit and
default timeout (`CallAssumption`): `CallTyped` (`TypeOK` and the position in the
chain), `BudgetIsOne` (`OneBudget`), `ChecksComeFirst` (`ChecksFirst`),
`KindOfAnswer` (`AnsweredInKind`), `ReadBeforeAnswer` (`BodyReadFirst`).

`BudgetInv` is `age + budget = Timeout` from the moment the deadline is set.
`PhaseInv` says, for each phase of the call, which checks have passed, whether the
body is read and that the chain has not begun; `BodyInv` that a body which ended is
whole and one still being read is within the limit; `RanInv` that the method ran
at most once per attempt, and only for a request that was let through; `AnswerInv`
that the answer set aside while a body is drained is one its client can read.

### ClientStreamProofs

For every kind of call and protocol, every depth of the channel and length of the
response, with or without a deadline (`CallAssumption`): `CallTyped`,
`TasksAreReaped` (`NoOrphanTask`), `OutcomeIsTrueAlways` (`OutcomeIsTrue`), all from
`CallInvariant`.

`TaskInv`: which task may run in which state of the receive half, and which kind of
call may be in it. `StickyInv`: what was told is what the half or the stream keeps.
`ReadInv`: what was delivered is what was read so far, and only the last item of a
response is terminal. `CauseInv`: the evidence for a verdict (an END_STREAM counts as
evidence in every protocol, as it does in the code) is there, also for one
that the construction task has reached and nobody has seen; a success has a
response to which nothing can be added (`Closed`), without which a later item would
refute it.

### SharedHttp2Proofs

For every finite set of requests, every bound and number of resends
(`SharedAssumption`): `SharedTyped`, `NoSlotLost` (`SlotsHeldByWaiting`),
`OneConnection` (`OneOpenConnection`), `DialHasRoom`, `OnTheWireOnce` (`SentAtMostOnce`),
`SharedFailureIsFresh` (`FailureIsFresh`), `OneDialPerOutage` (`WaitersShareFailure`).

`LineInv`: a request stands in line once. `LockInv`: an attempt belongs to the first
in the lock's queue, also if its request is gone. `OpenInv`: only the connection
that `Reconnect` is connected to may be open or closing. `SharingInv`: what a request that waits
for the lock can tell from `attempts` and `last_failure` about the attempts it
missed. The model gives a connection number out again once nothing refers to it;
`DialHasRoom` shows that this bound is never felt: when `Reconnect` dials, every
connection has closed, and the handle and the requests refer to fewer than there
are.

### AcceptLoopProofs

For every finite set of connections, with or without TLS (`LoopAssumption`):
`LoopTyped`, `DrainIsComplete` (`DrainComplete`), `PromiseKept`
(`ConnectionsKeepPromise`). `ServingInv`: a connection has a life and requests only
while its task serves it. `HeldInv`: until it fails or is dropped, the loop holds
every task that it spawned and has not reaped.

### HealthCheckerProofs

For every finite set of services, any watchers and channels enough for them
(`HealthAssumption`): `CheckerTyped` (`TypeOK` and one channel per name),
`LastStatusIsDelivered` (`LastStatusDelivered`), `ShutdownIsComplete`
(`ShutdownMarksAll`). `ShutdownInv`: under the lock, a sender already visited is
NotServing. `WatchInv`: a stream that is level with its channel has shown what the
channel holds, and it ends only when level and closed.

### Only model-checked

Liveness, which needs fairness and ENABLED and is out of the prover's reach:
`RetirementEnds`, `ShutdownDrains`, `ServeReturns`, `EveryRequestAnswered`,
`Answered`, `StreamEnds`, `BodyReleased`, `MessageReturns`, `SendsProgress` and
`WatchersCatchUp`. The three runs of section 4 that find a violation show one on an
instance and have nothing to prove.

### What the proofs asked of the models

No theorem failed because the model did something the code does not. Four
definitions were rewritten so that they mean the same to the prover as to TLC: two
`CASE`s with overlapping arms (TLA+ leaves open which arm is taken; `Missed` in
`SharedHttp2`, `Moderate` in `ResponseStream`), a filter that is now `RemoveFirst`
of `SequencesExt` (a request leaves the line or the lock's queue from one place),
and the fold behind `Total` and `Size`, now the recursive function `Sum`.

## 6. Plan

The modules planned are written and their safety properties proved. What remains
worth doing:

1. Steps of the liveness arguments that are safety: that every wait of a component
   has an enabled step or a timer (the invariant behind each leads-to), stated as
   invariants and proved like `NoLostWakeup` and `NothingWithheld`.
2. `AcceptLoop` relies on `ConnectionPromise` alone and `ConnectionLifecycle`
   implements it; a theorem that joins the two would state what a request may
   expect of the whole server.
3. Lemmas that three proof modules share (`LeastNumber`) in one place.

## 7. Not modelled

Most of the repository's lines are generated types, the code generator, the
conformance harness, examples and tests; they keep no state at run time that a
model could check, which is why the models cover a small share of its lines. Of
the runtime itself:

- configuration builders, whose rules are the assumptions of the modules;
- unary Connect calls and GET on the client: one request, one body, one answer. The
  one race they have, a deadline against an answer, is that of `call_client_stream`;
- building of requests and headers, the wire form of timeouts, the
  syntax of content types and queries, compression negotiation, the building of a
  router, error tables and codecs: pure
  functions or lookups in tables that do not change, tested entry by entry.
  Where one can fail a call, the failure is modelled;
- the entry points for testing interceptors (`run_chain`), and attempts that one
  interceptor runs concurrently;
- reflection: a read-only index;
- `HttpClient` (hyper-util's pool) and an unshared `Http2Connection`, which is the
  `Reconnect` machine of `SharedHttp2` with a single owner;
- TLS, HTTP/2 framing, flow control, channels, mutexes and timers (hyper, rustls,
  tokio): external, modelled by what the code sees of them;
- the separate limit of a gRPC-Web trailer frame;
- wording of errors and log output.
