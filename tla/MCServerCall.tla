---------------------------- MODULE MCServerCall ----------------------------
(* TLC instance of ServerCall: every route with every way to refuse it.    *)
EXTENDS ServerCall

Plain == [verb |-> "POST", type |-> "unary", method |-> "unary",
          idempotent |-> FALSE, encoding |-> "none", valid |-> TRUE,
          timeout |-> NoTimeout, content |-> "one"]

Timeouts == {NoTimeout, 0, 2}
Bodies   == {"empty", "one", "long"}

(* Verbs and content types that carry no RPC, and text mode.               *)
NoRpcs ==
    {[Plain EXCEPT !.verb = "other", !.type = t, !.method = m, !.timeout = d, !.content = c] :
        t \in {"none", "grpc"}, m \in {"none", "unary"}, d \in Timeouts, c \in Bodies}
    \cup
    {[Plain EXCEPT !.type = t, !.timeout = d, !.content = c] :
        t \in {"none", "other", "grpc+x", "web+x", "text"}, d \in Timeouts, c \in Bodies}

Gets ==
    {[Plain EXCEPT !.verb = "GET", !.type = t, !.method = m, !.idempotent = i,
                   !.valid = v, !.timeout = d, !.content = c] :
        t \in {"none", "grpc"}, m \in {"none", "unary", "server"}, i \in BOOLEAN,
        v \in BOOLEAN, d \in Timeouts, c \in {"empty", "one"}}

Unaries ==
    {[Plain EXCEPT !.method = m, !.encoding = e, !.valid = v, !.timeout = d, !.content = c] :
        m \in {"none", "unary", "bidi"}, e \in {"none", "known", "unknown"},
        v \in BOOLEAN, d \in Timeouts, c \in Contents}

Streams ==
    {[Plain EXCEPT !.type = t, !.method = m, !.encoding = e, !.timeout = d, !.content = c] :
        t \in {"stream", "grpc", "web"}, m \in Methods,
        e \in {"none", "known", "unknown"}, d \in Timeouts, c \in Contents}

MCRequests == NoRpcs \cup Gets \cup Unaries \cup Streams
=============================================================================
