-------------------------- MODULE MCRequestStream --------------------------
(* TLC instance of RequestStream: up to three envelopes, with payloads     *)
(* that are empty, fit the slab, fill a Vec in steps, or are too large.    *)
EXTENDS RequestStream

Envelopes ==
    [kind : {"message"}, len : {0, 1, 4}]
      \cup {[kind |-> "message", len |-> MaxMessage + 1],
            [kind |-> "compressed", len |-> 2], [kind |-> "corrupt", len |-> 1],
            [kind |-> "end", len |-> 0], [kind |-> "end", len |-> 1]}

MCBodies == UNION {[1..n -> Envelopes] : n \in 0..2}
              \cup [1..3 -> [kind : {"message"}, len : {0, 1}]]
=============================================================================
