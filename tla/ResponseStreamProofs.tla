------------------------ MODULE ResponseStreamProofs ------------------------
(***************************************************************************)
(* Theorems about ResponseStream, for any messages, thresholds, timeouts   *)
(* and number of messages.                                                 *)
(***************************************************************************)
EXTENDS ResponseStream, SequenceTheorems, WellFoundedInduction, TLAPS

Frames == Units \cup Finals

(* Where the framing is while it has bytes in hand: a staged final frame   *)
(* has nothing left before it, and the source is polled with no segment    *)
(* pending.                                                                *)
StageInv ==
    /\ done => pc = "parked" /\ buf = <<>> /\ segs = <<>>
    /\ pendingFinal # "none" => /\ buf = <<>> /\ segs = <<>> /\ ~done
                                /\ pendingFinal = Outcome(cause)
                                /\ pc \in {"parked", "staged"}
    /\ pc \in {"source", "inner"} => segs = <<>>
    /\ phase # "streaming" => pc = "parked" /\ buf = <<>> /\ segs = <<>>
    /\ phase = "handler" => /\ ~done /\ wire = <<>> /\ taken = <<>>
                            /\ pendingFinal = "none"

(* A source holds the waker only while it is not ready; a parked body that *)
(* was not woken has left its waker with all of them, and a body that has  *)
(* looked at its timers has left it with those.                            *)
ArmedInv ==
    /\ "inner" \in armed => inner \in {"working", "dropped"}
    /\ "absolute" \in armed => left > 0
    /\ "gap" \in armed => gap > 0

WaitInv ==
    /\ phase = "handler" => woken
    /\ pc = "inner" => woken \/ TimersOf(gap) \subseteq armed
    /\ phase = "streaming" /\ pc = "parked" /\ ~woken /\ ~done
         => /\ TimersOf(gap) \cup {"inner"} \subseteq armed
            /\ buf = <<>> /\ segs = <<>> /\ pendingFinal = "none"
            /\ inner = "working"

(* What is left of a gap and the time since the last message make up the   *)
(* whole inter-message timeout.                                            *)
GapInv == gap # Absent => since + gap >= Gap

(* The batch and the segments hold pieces of messages, and a batch is full *)
(* only between the encoding of a message and the drain that follows it.   *)
Pieces == {u \in Units : u.part <= Len(u.body)}

BatchInv ==
    /\ buf \in Seq(Pieces) /\ segs \in Seq(Pieces)
    /\ pc # "segments" => Size(buf) < Threshold
    /\ BatchBounded

-----------------------------------------------------------------------------
(* A sequence that is not empty is its head before its tail.               *)
LEMMA HeadThenTail ==
    ASSUME NEW S, NEW s \in Seq(S), s # <<>>
    PROVE  s = <<Head(s)>> \o Tail(s) /\ Head(s) \in S /\ Tail(s) \in Seq(S)
  OBVIOUS

(* Moving the next segment into the batch leaves the bytes as they were.   *)
LEMMA MoveSegment ==
    ASSUME NEW w \in Seq(Frames), NEW b \in Seq(Frames), NEW s \in Seq(Frames), s # <<>>
    PROVE  (w \o Append(b, Head(s))) \o Tail(s) = (w \o b) \o s
<1>1. s = <<Head(s)>> \o Tail(s) /\ Head(s) \in Frames /\ Tail(s) \in Seq(Frames)
  BY HeadThenTail, Zenon
<1>2. \A x \in Frames : Append(b, x) = b \o <<x>> /\ <<x>> \in Seq(Frames)
  OBVIOUS
<1>3. \A h \in Seq(Frames), t \in Seq(Frames) : (w \o (b \o h)) \o t = (w \o b) \o (h \o t)
  <2> TAKE h \in Seq(Frames), t \in Seq(Frames)
  <2>1. w \o (b \o h) = (w \o b) \o h
    OBVIOUS
  <2>2. \A x \in Seq(Frames) : (x \o h) \o t = x \o (h \o t)
    OBVIOUS
  <2>3. w \o b \in Seq(Frames)
    OBVIOUS
  <2>4. ((w \o b) \o h) \o t = (w \o b) \o (h \o t)
    BY <2>2, <2>3, Zenon
  <2> QED
    BY <2>1, <2>4, Zenon
<1>4. (w \o (b \o <<Head(s)>>)) \o Tail(s) = (w \o b) \o (<<Head(s)>> \o Tail(s))
  BY <1>1, <1>2, <1>3, Zenon
<1>5. Append(b, Head(s)) = b \o <<Head(s)>>
  BY <1>1, <1>2, Zenon
<1> QED
  BY <1>1, <1>4, <1>5, Zenon

(* An empty batch changes nothing.                                         *)
LEMMA EmptyBatch ==
    ASSUME NEW S, NEW w \in Seq(S)
    PROVE  w \o <<>> = w /\ <<>> \o w = w
  OBVIOUS

(* The pieces of a message are units of it.                                *)
LEMMA PiecesType ==
    ASSUME NEW n \in Nat, NEW b \in Bodies
    PROVE  Head0(n, b) \in Seq(Units) /\ Segments(n, b) \in Seq(Units)
<1>1. \A p \in Nat : Unit(n, p, b) \in Units
  BY DEF Unit, Units
<1>2. Head0(n, b) \in Seq(Units)
  BY <1>1 DEF Head0
<1>3. Len(b) \in Nat
  BY StreamAssumption
<1>4. [p \in 1..Len(b) |-> Unit(n, p, b)] \in Seq(Units)
  BY <1>1, <1>3
<1> QED
  BY <1>2, <1>4 DEF Segments

(* The final frame of an outcome is one of the two.                        *)
LEMMA FinalType ==
    ASSUME NEW why
    PROVE  Outcome(why) \in {"ok", "error"} /\ Final(Outcome(why)) \in Finals
  BY DEF Outcome, Finals

-----------------------------------------------------------------------------
(* Timeouts are durations or absent.                                       *)
LEMMA ModerateType ==
    ASSUME NEW a \in Asserted
    PROVE  Moderate(a) \in Nat \cup {Absent}
  BY StreamAssumption DEF Moderate, Absent

(* The response starts well typed.                                         *)
LEMMA TypeInit == Init => TypeOK
<1> SUFFICES ASSUME Init PROVE TypeOK
  OBVIOUS
<1>1. left \in Nat \cup {Absent} /\ gap \in Nat \cup {Absent}
  BY ModerateType DEF Init
<1>2. woken \in BOOLEAN /\ done \in BOOLEAN
  BY Zenon DEF Init
<1>3. /\ buf \in Seq(Units) /\ segs \in Seq(Units) /\ taken \in Seq(Units)
      /\ wire \in Seq(Units \cup Finals)
  BY DEF Init
<1>4. items \in Nat /\ since \in Nat
  BY DEF Init
<1> QED
  BY <1>1, <1>2, <1>3, <1>4 DEF Init, TypeOK, Causes

USE DEF call, handler, task, batch, vars

Pcs == {"parked", "staged", "segments", "source", "inner"}

(* Ending the stream, with or without a partial batch, keeps the types.    *)
LEMMA FinishType ==
    ASSUME TypeOK, NEW why \in Causes, FinishWith(why)
    PROVE  /\ buf' \in Seq(Units) /\ segs' \in Seq(Units)
           /\ wire' \in Seq(Units \cup Finals)
           /\ pendingFinal' \in {"none", "ok", "error"} /\ done' \in BOOLEAN
           /\ cause' \in Causes /\ pc' = "parked" /\ woken' \in BOOLEAN
<1>1. pc' = "parked" /\ woken' = TRUE /\ cause' = why /\ segs' = segs
  BY Zenon DEF FinishWith, Ready
<1>2. Outcome(why) \in {"ok", "error"} /\ Final(Outcome(why)) \in Units \cup Finals
  BY FinalType
<1>3. wire \in Seq(Units \cup Finals) /\ buf \in Seq(Units \cup Finals)
  BY SeqMonotonic DEF TypeOK
<1>4. CASE buf = <<>>
  <2>1. wire' = Append(wire, Final(Outcome(why))) /\ done' = TRUE
        /\ buf' = buf /\ pendingFinal' = pendingFinal
    BY <1>4, Zenon DEF FinishWith
  <2>2. wire' \in Seq(Units \cup Finals)
    BY <2>1, <1>2, <1>3
  <2> QED
    BY <1>1, <2>1, <2>2 DEF TypeOK
<1>5. CASE buf # <<>>
  <2>1. wire' = wire \o buf /\ buf' = <<>> /\ pendingFinal' = Outcome(why)
        /\ done' = done
    BY <1>5, Zenon DEF FinishWith, Flush
  <2>2. wire' \in Seq(Units \cup Finals)
    BY <2>1, <1>3
  <2> QED
    BY <1>1, <1>2, <2>1, <2>2 DEF TypeOK
<1> QED
  BY <1>4, <1>5

(* A new gap is a duration or absent.                                      *)
LEMMA GapType ==
    ASSUME TypeOK
    PROVE  /\ ArmGap \in Nat \cup {Absent}
           /\ Rearm => gap' \in Nat \cup {Absent} /\ since' \in Nat
                       /\ armed' \subseteq {"absolute", "gap", "inner"}
<1>1. ArmGap \in Nat \cup {Absent}
  BY StreamAssumption DEF ArmGap, TypeOK
<1>2. ASSUME Rearm PROVE gap' \in Nat \cup {Absent} /\ since' \in Nat
  BY <1>2, StreamAssumption DEF Rearm
<1>3. ASSUME Rearm PROVE armed' \subseteq {"absolute", "gap", "inner"}
  BY <1>3 DEF Rearm, TypeOK
<1> QED
  BY <1>1, <1>2, <1>3

(* Every step of drain_segments keeps the types.                           *)
LEMMA DrainType ==
    ASSUME TypeOK, DrainSegment
    PROVE  /\ buf' \in Seq(Units) /\ segs' \in Seq(Units)
           /\ wire' \in Seq(Units \cup Finals)
           /\ pc' \in Pcs /\ woken' \in BOOLEAN
<1> DEFINE s == Head(segs)
<1>1. s \in Units /\ Tail(segs) \in Seq(Units)
  BY HeadThenTail DEF DrainSegment, TypeOK
<1>2. /\ Append(buf, s) \in Seq(Units) /\ wire \in Seq(Units \cup Finals)
      /\ buf \in Seq(Units) /\ s \in Units \cup Finals
  BY <1>1 DEF TypeOK
<1>3. /\ buf \in Seq(Units \cup Finals)
      /\ Append(buf, s) \in Seq(Units \cup Finals)
  BY <1>2, SeqMonotonic
<1> HIDE DEF s
<1> DEFINE F == Units \cup Finals
<1> HIDE DEF F
<1>4a. \A x \in Seq(F), y \in Seq(F) : x \o y \in Seq(F)
  OBVIOUS
<1>4b. \A x \in Seq(F), y \in F : Append(x, y) \in Seq(F)
  OBVIOUS
<1>4. /\ wire \o buf \in Seq(Units \cup Finals)
      /\ wire \o Append(buf, s) \in Seq(Units \cup Finals)
      /\ Append(wire, s) \in Seq(Units \cup Finals)
  BY <1>2, <1>3, <1>4a, <1>4b, Zenon DEF F
<1>5a. /\ segs' = segs \/ segs' = Tail(segs)
       /\ buf' = buf \/ buf' = <<>> \/ buf' = Append(buf, s)
  BY Zenon DEF DrainSegment, Flush, s
<1>5. segs' \in Seq(Units) /\ buf' \in Seq(Units)
  BY <1>1, <1>2, <1>5a, EmptySeq DEF TypeOK
<1>6. wire' \in {wire, wire \o buf, wire \o Append(buf, s), Append(wire, s)}
  BY DEF DrainSegment, Flush, s
<1>7. (pc' = pc /\ woken' = woken) \/ (pc' = "parked" /\ woken' = TRUE)
  BY Zenon DEF DrainSegment, Ready
<1>8. pc' \in Pcs /\ woken' \in BOOLEAN
  BY <1>7 DEF TypeOK, Pcs
<1> QED
  BY <1>2, <1>4, <1>5, <1>6, <1>8

(* Taking a message from the handler keeps the types.                      *)
LEMMA TakeType ==
    ASSUME TypeOK, TakeItem
    PROVE  TypeOK'
<1>1. inner' = "working" /\ items' = items /\ left' = left /\ phase' = phase
  BY Zenon DEF TakeItem
<1>4. /\ gap' \in Nat \cup {Absent} /\ since' \in Nat
      /\ armed' \subseteq {"absolute", "gap", "inner"}
  BY GapType, Zenon DEF TakeItem
<1>5. /\ buf' \in Seq(Units) /\ segs' \in Seq(Units) /\ taken' \in Seq(Units)
      /\ wire' \in Seq(Units \cup Finals)
      /\ pendingFinal' \in {"none", "ok", "error"} /\ done' \in BOOLEAN
      /\ cause' \in Causes /\ pc' \in Pcs /\ woken' \in BOOLEAN
  <2>1. CASE FinishWith("encode") /\ UNCHANGED taken
    BY <2>1, FinishType DEF Causes, Pcs, TypeOK
  <2>2. CASE /\ buf' = buf \o Head0(items, body)
             /\ segs' = segs \o Segments(items, body)
             /\ taken' = taken \o Head0(items, body) \o Segments(items, body)
             /\ pc' = "segments"
             /\ UNCHANGED <<woken, pendingFinal, done, wire, cause>>
    <3> DEFINE h == Head0(items, body)
               g == Segments(items, body)
    <3>1. h \in Seq(Units) /\ g \in Seq(Units)
      BY PiecesType DEF TakeItem, TypeOK
    <3>2. \A x \in Seq(Units), y \in Seq(Units) : x \o y \in Seq(Units)
      OBVIOUS
    <3> HIDE DEF h, g
    <3>3. /\ buf \o h \in Seq(Units) /\ segs \o g \in Seq(Units)
          /\ (taken \o h) \o g \in Seq(Units)
      BY <3>1, <3>2, Zenon DEF TypeOK
    <3>4. /\ buf' \in Seq(Units) /\ segs' \in Seq(Units) /\ taken' \in Seq(Units)
      BY <2>2, <3>3, Zenon DEF h, g
    <3> QED
      BY <2>2, <3>4 DEF TypeOK, Pcs
  <2> QED
    BY <2>1, <2>2 DEF TakeItem
<1> QED
  BY <1>1, <1>4, <1>5 DEF TypeOK, Pcs

(* Every step keeps the types.                                             *)
LEMMA TypeStep == TypeOK /\ [Next]_vars => TypeOK'
<1> SUFFICES ASSUME TypeOK, [Next]_vars PROVE TypeOK'
  OBVIOUS
<1>1. CASE HandlerReturns
  BY <1>1 DEF HandlerReturns, TypeOK
<1>2. CASE HandlerFails
  <2>1. wire' \in Seq(Units \cup Finals)
    BY <1>2 DEF HandlerFails, Finals
  <2>2. cause' \in Causes /\ done' \in BOOLEAN /\ inner' = "dropped" /\ phase' = "error"
    BY <1>2 DEF HandlerFails, Causes
  <2>3. UNCHANGED <<left, body, items, gap, task, buf, segs, pendingFinal, taken, since>>
    BY <1>2, Zenon DEF HandlerFails
  <2> QED
    BY <2>1, <2>2, <2>3 DEF TypeOK
<1>3. CASE Produce \/ Fail \/ End
  <2>1. /\ inner' \in {"item", "error", "ended"}
        /\ inner' = "item" => body' \in Bodies
        /\ items' \in Nat
    BY <1>3 DEF Produce, Fail, End, Becomes, TypeOK
  <2>2. PICK what \in {"item", "error", "ended"} : Becomes(what)
    BY <1>3 DEF Produce, Fail, End
  <2>3. woken' \in BOOLEAN
    BY <2>2, Zenon DEF Becomes, Wake
  <2>4. armed' \subseteq {"absolute", "gap", "inner"}
    BY <2>2 DEF Becomes, Wake, TypeOK
  <2>5. UNCHANGED <<call, gap, pc, batch, wire, taken, cause, since>>
    BY <2>2, Zenon DEF Becomes
  <2> QED
    BY <2>1, <2>3, <2>4, <2>5 DEF TypeOK
<1>4. CASE Tick
  <2>1. left' \in Nat \cup {Absent} /\ gap' \in Nat \cup {Absent}
    BY <1>4 DEF Tick, Dec, TypeOK, Absent
  <2>2. since' \in Nat
    BY <1>4 DEF Tick, TypeOK
  <2>3. woken' \in BOOLEAN
    BY <1>4, Zenon DEF Tick
  <2>4. armed' \subseteq {"absolute", "gap", "inner"}
    BY <1>4 DEF Tick, TypeOK
  <2>5. UNCHANGED <<phase, handler, pc, batch, wire, taken, cause>>
    BY <1>4, Zenon DEF Tick
  <2> QED
    BY <2>1, <2>2, <2>3, <2>4, <2>5 DEF TypeOK
<1>5. CASE BeginPoll
  <2>1. pc' \in Pcs
    BY <1>5 DEF BeginPoll, Pcs
  <2>2. woken' \in BOOLEAN
    BY <1>5, Zenon DEF BeginPoll
  <2>3. UNCHANGED <<call, handler, gap, armed, batch, wire, taken, cause, since>>
    BY <1>5, Zenon DEF BeginPoll
  <2> QED
    BY <2>1, <2>2, <2>3 DEF TypeOK, Pcs
<1>6. CASE DrainSegment
  <2>1. UNCHANGED <<call, handler, gap, armed, pendingFinal, done, taken, cause, since>>
    BY <1>6, Zenon DEF DrainSegment
  <2> QED
    BY <1>6, <2>1, DrainType DEF TypeOK, Pcs
<1>7. CASE EmitFinal
  <2>1. CASE pendingFinal = "none"
    BY <1>7, <2>1 DEF EmitFinal, TypeOK
  <2>2. CASE pendingFinal # "none"
    <3>1. Final(pendingFinal) \in Units \cup Finals
      BY <2>2 DEF TypeOK, Finals
    <3>2. wire' = Append(wire, Final(pendingFinal)) /\ pendingFinal' = "none"
          /\ done' = TRUE /\ pc' = "parked" /\ woken' = TRUE
      BY <1>7, <2>2, Zenon DEF EmitFinal, Ready
    <3>3. wire' \in Seq(Units \cup Finals)
      BY <3>1, <3>2 DEF TypeOK
    <3>4. UNCHANGED <<call, handler, gap, armed, buf, segs, taken, cause, since>>
      BY <1>7, Zenon DEF EmitFinal
    <3> QED
      BY <3>2, <3>3, <3>4 DEF TypeOK
  <2> QED
    BY <2>1, <2>2
<1>8. CASE Encoded \/ InnerPending
  <2>1. /\ armed' \in {armed, armed \cup {"inner"}}
        /\ \/ buf' = buf /\ wire' = wire
           \/ buf' = <<>> /\ wire' = wire \o buf
        /\ \/ pc' \in {"source", "parked"} /\ woken' = woken
           \/ pc' = "parked" /\ woken' = TRUE
        /\ UNCHANGED <<call, handler, gap, segs, pendingFinal, done, taken, cause, since>>
    BY <1>8 DEF Encoded, InnerPending, Flush, Ready
  <2>2. armed' \subseteq {"absolute", "gap", "inner"}
    BY <2>1 DEF TypeOK
  <2>3. buf \in Seq(Units \cup Finals)
    BY SeqMonotonic DEF TypeOK
  <2>6. wire \o buf \in Seq(Units \cup Finals)
    BY <2>3, ConcatProperties DEF TypeOK
  <2>4. buf' \in Seq(Units) /\ wire' \in Seq(Units \cup Finals)
    BY <2>1, <2>6, EmptySeq DEF TypeOK
  <2>5. pc' \in Pcs /\ woken' \in BOOLEAN
    BY <2>1 DEF TypeOK, Pcs
  <2> QED
    BY <2>1, <2>2, <2>4, <2>5 DEF TypeOK, Pcs
<1>9. CASE PollTimers
  <2>1. CASE FinishWith("deadline") \/ FinishWith("stall")
    <3>1. /\ buf' \in Seq(Units) /\ segs' \in Seq(Units)
          /\ wire' \in Seq(Units \cup Finals)
          /\ pendingFinal' \in {"none", "ok", "error"} /\ done' \in BOOLEAN
          /\ cause' \in Causes /\ pc' = "parked" /\ woken' \in BOOLEAN
      BY <2>1, FinishType DEF Causes
    <3>2. /\ gap' \in {ArmGap, gap} /\ inner' \in {"dropped", inner}
          /\ armed' \in {armed, armed \cup TimersOf(gap')}
          /\ UNCHANGED <<call, body, items, taken, since>>
      BY <1>9 DEF PollTimers
    <3>3. gap' \in Nat \cup {Absent}
      BY <3>2, GapType DEF TypeOK
    <3>4. armed' \subseteq {"absolute", "gap", "inner"}
      BY <3>2 DEF TypeOK, TimersOf
    <3>5. /\ inner' \in {"working", "item", "error", "ended", "dropped"}
          /\ inner' = "item" => body' \in Bodies
      BY <3>2 DEF TypeOK
    <3> QED
      BY <3>1, <3>2, <3>3, <3>4, <3>5 DEF TypeOK
  <2>2. CASE gap' = ArmGap /\ armed' = armed \cup TimersOf(gap') /\ pc' = "inner"
             /\ UNCHANGED <<inner, woken, batch, wire, cause>>
    <3>1. gap' \in Nat \cup {Absent}
      BY <2>2, GapType
    <3>2. armed' \subseteq {"absolute", "gap", "inner"}
      BY <2>2 DEF TypeOK, TimersOf
    <3>3. UNCHANGED <<call, body, items, taken, since>>
      BY <1>9, Zenon DEF PollTimers
    <3> QED
      BY <2>2, <3>1, <3>2, <3>3 DEF TypeOK
  <2> QED
    BY <1>9, <2>1, <2>2, Zenon DEF PollTimers
<1>10. CASE TakeItem
  BY <1>10, TakeType
<1>11. CASE TakeError
  <2>1. /\ FinishWith("error") /\ inner' = "working" /\ Rearm
        /\ UNCHANGED <<call, body, items, taken>>
    BY <1>11, Zenon DEF TakeError
  <2>3. /\ gap' \in Nat \cup {Absent} /\ since' \in Nat
        /\ armed' \subseteq {"absolute", "gap", "inner"}
    BY <2>1, GapType
  <2> QED
    BY <2>1, <2>3, FinishType DEF TypeOK, Causes
<1>12. CASE TakeEnd
  <2>1. /\ FinishWith("end") /\ inner' = "dropped"
        /\ UNCHANGED <<call, body, items, gap, armed, taken, since>>
    BY <1>12, Zenon DEF TakeEnd
  <2> QED
    BY <2>1, FinishType DEF TypeOK, Causes
<1>13. CASE UNCHANGED vars
  BY <1>13 DEF TypeOK
<1> QED
  BY <1>1, <1>2, <1>3, <1>4, <1>5, <1>6, <1>7, <1>8, <1>9, <1>10, <1>11, <1>12,
     <1>13, Zenon DEF Next, Poll, Finished

(* The response stream is well typed whatever the handler and hyper do.    *)
THEOREM StreamTyped == Spec => []TypeOK
  BY TypeInit, TypeStep, PTL DEF Spec

-----------------------------------------------------------------------------
(* Ending the stream keeps the bytes in order and stages or sends the one  *)
(* final frame.                                                            *)
LEMMA FinishInOrder ==
    ASSUME TypeOK, BytesInOrder, NEW why, FinishWith(why), ~done, segs = <<>>,
           pendingFinal = "none", taken' = taken, phase' = "streaming"
    PROVE  BytesInOrder' /\ StageInv'
<1>1. pc' = "parked" /\ cause' = why /\ segs' = <<>>
  BY Zenon DEF FinishWith, Ready
<1>2. /\ wire \o buf \o segs = taken /\ segs = <<>>
  BY DEF BytesInOrder
<1>3. buf \in Seq(Frames) /\ wire \in Seq(Frames)
  BY SeqMonotonic DEF TypeOK, Frames
<1>4. CASE buf = <<>>
  <2>1. /\ wire' = Append(wire, Final(Outcome(why))) /\ done' = TRUE
        /\ buf' = <<>> /\ pendingFinal' = pendingFinal
    BY <1>4, Zenon DEF FinishWith
  <2>2. wire = taken
    BY <1>2, <1>3, <1>4
  <2>3. Final(Outcome(why)) \in Frames
    BY FinalType DEF Frames
  <2>4. wire' = taken \o <<Final(Outcome(why))>>
    BY <1>3, <2>1, <2>2, <2>3, AppendIsConcat
  <2> QED
    BY <1>1, <2>1, <2>4 DEF BytesInOrder, StageInv
<1>5. CASE buf # <<>>
  <2>1. /\ wire' = wire \o buf /\ buf' = <<>> /\ pendingFinal' = Outcome(why)
        /\ done' = done
    BY <1>5, Zenon DEF FinishWith, Flush
  <2>2. wire' \o buf' \o segs' = taken'
    BY <1>1, <1>2, <1>3, <2>1
  <2> QED
    BY <1>1, <2>1, <2>2, FinalType DEF BytesInOrder, StageInv
<1> QED
  BY <1>4, <1>5

(* drain_segments moves bytes from the pending segments to the batch and   *)
(* from the batch to the wire, never past each other.                      *)
LEMMA DrainInOrder ==
    ASSUME TypeOK, StageInv, BytesInOrder, DrainSegment
    PROVE  StageInv' /\ BytesInOrder'
<1> DEFINE s == Head(segs)
<1>1. /\ ~done /\ done' = done /\ segs # <<>> /\ taken' = taken
      /\ pendingFinal = "none" /\ pendingFinal' = "none"
      /\ phase = "streaming" /\ phase' = "streaming" /\ cause' = cause
  BY DEF DrainSegment, StageInv, TypeOK
<1>2. wire \o buf \o segs = taken
  BY <1>1 DEF BytesInOrder
<1>3. /\ buf \in Seq(Frames) /\ wire \in Seq(Frames) /\ segs \in Seq(Frames)
  BY SeqMonotonic DEF TypeOK, Frames
<1>4. s \in Frames /\ Tail(segs) \in Seq(Frames)
  BY <1>1, <1>3, HeadTailProperties
<1>5. (wire \o Append(buf, s)) \o Tail(segs) = (wire \o buf) \o segs
  BY <1>1, <1>3, MoveSegment, Zenon
<1>6. Append(buf, s) \in Seq(Frames)
  BY <1>3, <1>4
<1> HIDE DEF s
<1>7. wire \o buf \in Seq(Frames) /\ wire \o Append(buf, s) \in Seq(Frames)
  BY <1>3, <1>6, ConcatProperties
<1>8. pc' \in {"parked", "staged", "segments"}
  BY DEF DrainSegment, Ready
<1>9. (wire' \o buf') \o segs' = (wire \o buf) \o segs
  <2>1. CASE buf' = Append(buf, s) /\ wire' = wire /\ segs' = Tail(segs)
    BY <2>1, <1>5, Zenon
  <2>2. CASE buf' = <<>> /\ wire' = wire \o Append(buf, s) /\ segs' = Tail(segs)
    <3>1. wire' \o buf' = wire'
      BY <1>7, <2>2, EmptyBatch
    <3> QED
      BY <3>1, <2>2, <1>5
  <2>3. CASE buf = <<>> /\ buf' = buf /\ wire' = Append(wire, s) /\ segs' = Tail(segs)
    <3>1. Append(<<>>, s) = <<s>> /\ Append(wire, s) = wire \o <<s>>
          /\ Append(wire, s) \in Seq(Frames)
      BY <1>3, <1>4
    <3>2. wire' \o buf' = wire \o Append(buf, s)
      BY <3>1, <2>3
    <3> QED
      BY <3>2, <2>3, <1>5
  <2>4. CASE buf' = <<>> /\ wire' = wire \o buf /\ segs' = segs
    <3>1. wire' \o buf' = wire'
      BY <1>7, <2>4, EmptyBatch
    <3> QED
      BY <3>1, <2>4
  <2> QED
    BY <2>1, <2>2, <2>3, <2>4, Zenon DEF DrainSegment, Flush, s
<1> QED
  BY <1>1, <1>2, <1>8, <1>9 DEF StageInv, BytesInOrder

(* Flushing the batch empties it onto the wire.                            *)
LEMMA FlushInOrder ==
    ASSUME TypeOK, BytesInOrder, ~done, done' = done, Flush, segs' = segs,
           taken' = taken
    PROVE  BytesInOrder'
<1>1. buf \in Seq(Frames) /\ wire \in Seq(Frames)
  BY SeqMonotonic DEF TypeOK, Frames
<1>2. wire \o buf \in Seq(Frames)
  BY <1>1, ConcatProperties
<1>3. wire' = wire \o buf /\ buf' = <<>>
  BY DEF Flush
<1>4. (wire \o buf) \o <<>> = wire \o buf
  BY <1>2, EmptyBatch
<1> QED
  BY <1>3, <1>4 DEF BytesInOrder

(* A message joins what is still to be sent, behind everything before it.  *)
LEMMA EncodeInOrder ==
    ASSUME TypeOK, BytesInOrder, ~done, done' = done, segs = <<>>, wire' = wire,
           NEW h \in Seq(Units), NEW g \in Seq(Units),
           buf' = buf \o h, segs' = segs \o g, taken' = (taken \o h) \o g
    PROVE  BytesInOrder'
<1>1. /\ buf \in Seq(Frames) /\ wire \in Seq(Frames) /\ h \in Seq(Frames)
      /\ g \in Seq(Frames)
  BY SeqMonotonic DEF TypeOK, Frames
<1>2. segs' = g
  BY <1>1, EmptyBatch
<1>3. wire \o buf \in Seq(Frames)
  BY <1>1, ConcatProperties
<1>4. taken = wire \o buf
  BY <1>3, EmptyBatch DEF BytesInOrder
<1>5. wire \o (buf \o h) = (wire \o buf) \o h
  BY <1>1
<1> QED
  BY <1>2, <1>4, <1>5 DEF BytesInOrder

(* Every step keeps the bytes in order.                                    *)
LEMMA OrderStep ==
    TypeOK /\ StageInv /\ BytesInOrder /\ [Next]_vars => StageInv' /\ BytesInOrder'
<1> SUFFICES ASSUME TypeOK, StageInv, BytesInOrder, [Next]_vars
             PROVE  StageInv' /\ BytesInOrder'
  OBVIOUS
<1>1. CASE HandlerReturns
  BY <1>1 DEF HandlerReturns, StageInv, BytesInOrder
<1>2. CASE HandlerFails
  <2>1. taken' = <<>> /\ wire' = <<Final("error")>> /\ Outcome(cause') = "error"
        /\ done' = TRUE
    BY <1>2 DEF HandlerFails, StageInv, Outcome
  <2>2. BytesInOrder'
    BY <2>1 DEF BytesInOrder
  <2>3. StageInv'
    BY <1>2 DEF HandlerFails, StageInv, TypeOK
  <2> QED
    BY <2>2, <2>3
<1>3. CASE Produce \/ Fail \/ End \/ Tick
  <2>1. UNCHANGED <<phase, pc, batch, wire, taken, cause>>
    BY <1>3 DEF Produce, Fail, End, Becomes, Tick
  <2> QED
    BY <2>1 DEF StageInv, BytesInOrder
<1>4. CASE BeginPoll
  BY <1>4 DEF BeginPoll, StageInv, BytesInOrder
<1>5. CASE DrainSegment
  BY <1>5, DrainInOrder
<1>6. CASE EmitFinal
  <2>1. CASE pendingFinal = "none"
    BY <1>6, <2>1 DEF EmitFinal, StageInv, BytesInOrder
  <2>2. CASE pendingFinal # "none"
    <3>1. /\ buf = <<>> /\ segs = <<>> /\ ~done /\ pendingFinal = Outcome(cause)
          /\ phase = "streaming"
      BY <1>6, <2>2 DEF StageInv, EmitFinal
    <3>2. /\ wire' = Append(wire, Final(pendingFinal)) /\ pendingFinal' = "none"
          /\ done' = TRUE /\ pc' = "parked"
          /\ UNCHANGED <<buf, segs, taken, cause, phase>>
      BY <1>6, <2>2, Zenon DEF EmitFinal, Ready
    <3>3. wire \in Seq(Frames) /\ Final(pendingFinal) \in Frames
      BY <3>1, FinalType DEF TypeOK, Frames
    <3>4. wire = taken
      BY <3>1, <3>3, EmptyBatch DEF BytesInOrder
    <3>5. wire' = taken \o <<Final(pendingFinal)>>
      BY <3>2, <3>3, <3>4, AppendIsConcat
    <3> QED
      BY <3>1, <3>2, <3>5 DEF BytesInOrder, StageInv
  <2> QED
    BY <2>1, <2>2
<1>7. CASE Encoded \/ InnerPending
  <2>1. /\ ~done /\ done' = done /\ segs = <<>> /\ segs' = segs /\ taken' = taken
        /\ pendingFinal = "none" /\ pendingFinal' = "none"
        /\ phase = "streaming" /\ phase' = phase /\ pc' \in {"parked", "source"}
    BY <1>7 DEF Encoded, InnerPending, StageInv, Ready, TypeOK
  <2>2. Flush \/ UNCHANGED <<wire, buf>>
    BY <1>7, Zenon DEF Encoded, InnerPending
  <2>3. BytesInOrder'
    BY <2>1, <2>2, FlushInOrder DEF BytesInOrder
  <2> QED
    BY <2>1, <2>3 DEF StageInv
<1>8. CASE PollTimers \/ TakeItem \/ TakeError \/ TakeEnd
  <2>1. /\ ~done /\ segs = <<>> /\ pendingFinal = "none" /\ phase = "streaming"
        /\ phase' = "streaming"
    BY <1>8 DEF PollTimers, TakeItem, TakeError, TakeEnd, StageInv
  <2>2. ASSUME NEW why, FinishWith(why), taken' = taken PROVE StageInv' /\ BytesInOrder'
    BY <2>1, <2>2, FinishInOrder
  <2>3. CASE UNCHANGED <<batch, wire, cause, taken>> /\ pc' = "inner"
    BY <2>1, <2>3 DEF StageInv, BytesInOrder
  <2>4. CASE /\ TakeItem
             /\ buf' = buf \o Head0(items, body)
             /\ segs' = segs \o Segments(items, body)
             /\ taken' = taken \o Head0(items, body) \o Segments(items, body)
             /\ pc' = "segments"
             /\ UNCHANGED <<woken, pendingFinal, done, wire, cause>>
    <3>1. Head0(items, body) \in Seq(Units) /\ Segments(items, body) \in Seq(Units)
      BY <2>4, PiecesType DEF TakeItem, TypeOK
    <3>2. BytesInOrder'
      BY <2>1, <2>4, <3>1, EncodeInOrder
    <3>3. StageInv'
      BY <2>1, <2>4 DEF StageInv
    <3> QED
      BY <3>2, <3>3
  <2>5. CASE PollTimers
    BY <2>5, <2>2, <2>3, Zenon DEF PollTimers
  <2>6. CASE TakeItem
    BY <2>6, <2>2, <2>4, Zenon DEF TakeItem
  <2>7. CASE TakeError \/ TakeEnd
    BY <2>7, <2>2, Zenon DEF TakeError, TakeEnd
  <2> QED
    BY <1>8, <2>5, <2>6, <2>7
<1>9. CASE UNCHANGED vars
  BY <1>9 DEF StageInv, BytesInOrder
<1> QED
  BY <1>1, <1>2, <1>3, <1>4, <1>5, <1>6, <1>7, <1>8, <1>9, Zenon
     DEF Next, Poll, Finished

(* Nothing has been sent before the handler returns.                       *)
LEMMA OrderInit == Init => StageInv /\ BytesInOrder
  BY DEF Init, StageInv, BytesInOrder

(* For every handler, every timing and every batch size: what was taken    *)
(* from the handler is what hyper gets, once and in order, and then one    *)
(* final frame with the outcome.                                           *)
THEOREM DeliveredInOrder == Spec => []BytesInOrder
<1>1. Init => TypeOK /\ StageInv /\ BytesInOrder
  BY TypeInit, OrderInit
<1>2. TypeOK /\ StageInv /\ BytesInOrder /\ [Next]_vars
        => (TypeOK /\ StageInv /\ BytesInOrder)'
  BY TypeStep, OrderStep
<1> QED
  BY <1>1, <1>2, PTL DEF Spec

-----------------------------------------------------------------------------
(* What has the waker is not ready, also after the next step.              *)
LEMMA ArmedStep == TypeOK /\ ArmedInv /\ [Next]_vars => ArmedInv'
<1> SUFFICES ASSUME TypeOK, ArmedInv, [Next]_vars PROVE ArmedInv'
  OBVIOUS
<1>1. CASE HandlerReturns \/ HandlerFails \/ BeginPoll \/ DrainSegment \/ EmitFinal
           \/ Encoded \/ TakeEnd
  <2>1. armed' = armed /\ left' = left /\ gap' = gap /\ inner' \in {inner, "dropped"}
    BY <1>1 DEF HandlerReturns, HandlerFails, BeginPoll, DrainSegment, EmitFinal,
                Encoded, TakeEnd
  <2> QED
    BY <2>1 DEF ArmedInv
<1>2. CASE Produce \/ Fail \/ End
  <2>1. armed' = armed \ {"inner"} /\ left' = left /\ gap' = gap
    BY <1>2 DEF Produce, Fail, End, Becomes, Wake
  <2> QED
    BY <2>1 DEF ArmedInv
<1>3. CASE Tick
  <2>1. /\ left' = Dec(left) /\ gap' = Dec(gap) /\ inner' = inner
        /\ "absolute" \in armed' => left' # 0 /\ "absolute" \in armed
        /\ "gap" \in armed' => gap' # 0 /\ "gap" \in armed
        /\ "inner" \in armed' => "inner" \in armed
    BY <1>3 DEF Tick
  <2> QED
    BY <2>1 DEF ArmedInv, TypeOK, Dec
<1>4. CASE PollTimers
  <2>1. inner' \in {inner, "dropped"} /\ left' = left
    BY <1>4 DEF PollTimers
  <2>2. CASE armed' = armed /\ (gap' = gap \/ gap' = ArmGap)
    BY <2>1, <2>2 DEF ArmedInv, ArmGap, Absent
  <2>3. CASE /\ ~Lapsed("absolute") /\ ~Lapsed("gap")
             /\ gap' = ArmGap /\ armed' = armed \cup TimersOf(gap')
    BY <2>1, <2>3, StreamAssumption
       DEF ArmedInv, ArmGap, TimersOf, Lapsed, Absent, TypeOK
  <2> QED
    BY <1>4, <2>2, <2>3, Zenon DEF PollTimers
<1>5. CASE TakeItem \/ TakeError
  <2>1. armed' = armed \ {"gap"} /\ left' = left /\ inner' = "working"
    BY <1>5 DEF TakeItem, TakeError, Rearm
  <2> QED
    BY <2>1 DEF ArmedInv
<1>6. CASE InnerPending
  <2>1. /\ armed' = armed \cup {"inner"} /\ left' = left /\ gap' = gap
        /\ inner = "working" /\ inner' = inner
    BY <1>6, Zenon DEF InnerPending
  <2> QED
    BY <2>1 DEF ArmedInv
<1>7. CASE UNCHANGED vars
  BY <1>7 DEF ArmedInv
<1> QED
  BY <1>1, <1>2, <1>3, <1>4, <1>5, <1>6, <1>7, Zenon DEF Next, Poll, Finished

(* A body that waits has left its waker everywhere, also after the next    *)
(* step.                                                                   *)
LEMMA WaitStep ==
    TypeOK /\ StageInv /\ ArmedInv /\ WaitInv /\ [Next]_vars => WaitInv'
<1> SUFFICES ASSUME TypeOK, StageInv, ArmedInv, WaitInv, [Next]_vars PROVE WaitInv'
  OBVIOUS
<1>1. CASE HandlerReturns \/ HandlerFails
  BY <1>1 DEF HandlerReturns, HandlerFails, WaitInv, StageInv
<1>2. CASE Produce \/ Fail \/ End
  <2>1. PICK what : Becomes(what)
    BY <1>2 DEF Produce, Fail, End
  <2>2. /\ phase = "streaming" /\ phase' = phase /\ pc' = pc /\ gap' = gap /\ left' = left
        /\ woken' = (woken \/ "inner" \in armed) /\ armed' = armed \ {"inner"}
        /\ done' = done
    BY <2>1, Zenon DEF Becomes, Wake
  <2>3. TimersOf(gap)' = TimersOf(gap) /\ "inner" \notin TimersOf(gap)
    BY <2>2 DEF TimersOf
  <2>4. pc = "parked" /\ ~done => woken'
    BY <2>2 DEF WaitInv
  <2>5. pc' = "inner" => woken' \/ TimersOf(gap)' \subseteq armed'
    BY <2>2, <2>3 DEF WaitInv
  <2> QED
    BY <2>2, <2>4, <2>5 DEF WaitInv
<1>3. CASE Tick
  <2>1. /\ left' = Dec(left) /\ gap' = Dec(gap)
        /\ UNCHANGED <<phase, handler, pc, batch>>
        /\ armed' \subseteq armed /\ (woken' \/ armed' = armed)
        /\ woken => woken'
    BY <1>3 DEF Tick
  <2>2. TimersOf(gap)' = TimersOf(gap)
    BY <2>1 DEF TimersOf, Dec, TypeOK, Absent
  <2> QED
    BY <2>1, <2>2 DEF WaitInv
<1>4. CASE BeginPoll
  BY <1>4 DEF BeginPoll, WaitInv
<1>5. CASE PollTimers
  <2>1. pc' = "inner" \/ (pc' = "parked" /\ woken')
    BY <1>5 DEF PollTimers, FinishWith, Ready
  <2>2. pc' = "inner" => armed' = armed \cup TimersOf(gap')
    BY <1>5 DEF PollTimers, FinishWith, Ready
  <2>3. left' = left /\ phase' = phase /\ phase = "streaming"
    BY <1>5 DEF PollTimers, StageInv
  <2>4. TimersOf(gap)' = TimersOf(gap')
    BY <2>3 DEF TimersOf
  <2> QED
    BY <2>1, <2>2, <2>3, <2>4 DEF WaitInv
<1>6. CASE InnerPending
  <2>1. /\ pc' = "parked" /\ phase' = "streaming" /\ gap' = gap /\ left' = left
        /\ armed' = armed \cup {"inner"} /\ inner' = "working"
    BY <1>6 DEF InnerPending, Ready, StageInv
  <2>2. CASE buf = <<>>
    <3>1. /\ woken' = woken /\ buf' = <<>> /\ segs' = <<>> /\ pendingFinal' = "none"
      BY <1>6, <2>2 DEF InnerPending, StageInv
    <3>2. woken \/ TimersOf(gap) \subseteq armed
      BY <1>6 DEF InnerPending, WaitInv
    <3>3. TimersOf(gap)' = TimersOf(gap)
      BY <2>1 DEF TimersOf
    <3> QED
      BY <2>1, <3>1, <3>2, <3>3 DEF WaitInv
  <2>3. CASE buf # <<>>
    <3>1. woken'
      BY <1>6, <2>3 DEF InnerPending, Ready
    <3> QED
      BY <2>1, <3>1 DEF WaitInv
  <2> QED
    BY <2>2, <2>3
<1>7. CASE DrainSegment \/ EmitFinal \/ Encoded \/ TakeItem \/ TakeError \/ TakeEnd
  <2>1. phase = "streaming" /\ phase' = phase
    BY <1>7 DEF DrainSegment, EmitFinal, Encoded, TakeItem, TakeError, TakeEnd, StageInv
  <2>2. pc' \in {"staged", "segments", "source"} \/ (pc' = "parked" /\ woken')
    <3>1. CASE DrainSegment
      BY <3>1 DEF DrainSegment, Ready
    <3>2. CASE EmitFinal \/ Encoded
      BY <3>2 DEF EmitFinal, Encoded, Ready
    <3>3. CASE TakeItem \/ TakeError \/ TakeEnd
      BY <3>3, Zenon DEF TakeItem, TakeError, TakeEnd, FinishWith, Ready
    <3> QED
      BY <1>7, <3>1, <3>2, <3>3
  <2> QED
    BY <2>1, <2>2 DEF WaitInv
<1>8. CASE UNCHANGED vars
  <2>1. TimersOf(gap)' = TimersOf(gap)
    BY <1>8 DEF TimersOf
  <2> QED
    BY <1>8, <2>1 DEF WaitInv
<1> QED
  BY <1>1, <1>2, <1>3, <1>4, <1>5, <1>6, <1>7, <1>8, Zenon DEF Next, Poll, Finished

(* hyper will poll a body that has just been returned.                     *)
LEMMA WaitInit == Init => ArmedInv /\ WaitInv
  BY DEF Init, ArmedInv, WaitInv

(* For every handler, every timing and every batch size: a body that told  *)
(* hyper to wait holds back no byte, no message and no lapsed deadline.    *)
THEOREM NeverWithheld == Spec => []NothingWithheld
<1>1. Init => TypeOK /\ StageInv /\ BytesInOrder /\ ArmedInv /\ WaitInv
  BY TypeInit, OrderInit, WaitInit
<1>2. TypeOK /\ StageInv /\ BytesInOrder /\ ArmedInv /\ WaitInv /\ [Next]_vars
        => (TypeOK /\ StageInv /\ BytesInOrder /\ ArmedInv /\ WaitInv)'
  BY TypeStep, OrderStep, ArmedStep, WaitStep
<1>3. TypeOK /\ ArmedInv /\ WaitInv => NothingWithheld
  BY DEF TypeOK, ArmedInv, WaitInv, NothingWithheld, TimersOf, Lapsed, Absent
<1> QED
  BY <1>1, <1>2, <1>3, PTL DEF Spec
-----------------------------------------------------------------------------
(* An armed gap and the time since the last message make up the timeout,   *)
(* also after the next step.                                               *)
LEMMA GapStep == TypeOK /\ GapInv /\ [Next]_vars => GapInv'
<1> SUFFICES ASSUME TypeOK, GapInv, [Next]_vars PROVE GapInv'
  OBVIOUS
<1> USE StreamAssumption
<1>1. CASE gap' = gap /\ since' = since
  BY <1>1 DEF GapInv
<1>2. CASE gap' = ArmGap /\ since' = since
  BY <1>2 DEF GapInv, ArmGap, TypeOK, Absent
<1>3. CASE Rearm
  BY <1>3 DEF Rearm, GapInv, Absent
<1>4. CASE Tick
  BY <1>4 DEF Tick, Dec, GapInv, TypeOK, Absent
<1>5. CASE PollTimers
  <2>1. since' = since /\ (gap' = gap \/ gap' = ArmGap)
    BY <1>5, Zenon DEF PollTimers
  <2> QED
    BY <2>1, <1>1, <1>2
<1>6. CASE TakeItem \/ TakeError
  BY <1>3, <1>6, Zenon DEF TakeItem, TakeError
<1>7. CASE HandlerReturns \/ HandlerFails \/ Produce \/ Fail \/ End \/ BeginPoll
           \/ DrainSegment \/ EmitFinal \/ Encoded \/ TakeEnd \/ InnerPending
           \/ UNCHANGED vars
  <2>1. gap' = gap /\ since' = since
    BY <1>7 DEF HandlerReturns, HandlerFails, Produce, Fail, End, Becomes, BeginPoll,
                DrainSegment, EmitFinal, Encoded, TakeEnd, InnerPending
  <2> QED
    BY <2>1, <1>1
<1> QED
  BY <1>4, <1>5, <1>6, <1>7, Zenon DEF Next, Poll, Finished

(* Only the lapsed gap cuts a stream as stalled.                           *)
LEMMA StallIsALapsedGap ==
    ASSUME [Next]_vars, cause' = "stall", cause # "stall"
    PROVE  gap = 0
<1>1. CASE PollTimers
  BY <1>1 DEF PollTimers, FinishWith, Lapsed
<1>2. CASE TakeItem \/ TakeError \/ TakeEnd
  BY <1>2 DEF TakeItem, TakeError, TakeEnd, FinishWith
<1>3. CASE HandlerFails
  BY <1>3 DEF HandlerFails
<1>4. CASE HandlerReturns \/ Produce \/ Fail \/ End \/ Tick \/ BeginPoll
           \/ DrainSegment \/ EmitFinal \/ Encoded \/ InnerPending
           \/ UNCHANGED vars
  BY <1>4 DEF HandlerReturns, Produce, Fail, End, Becomes, Tick, BeginPoll,
              DrainSegment, EmitFinal, Encoded, InnerPending
<1> QED
  BY <1>1, <1>2, <1>3, <1>4, Zenon DEF Next, Poll, Finished

(* For every handler and every inter-message timeout, and however late     *)
(* hyper polls: a stream is cut as stalled only when the whole timeout has *)
(* passed since its last message, or since the first poll.                 *)
THEOREM StallsAreNotEarly == Spec => StallNotEarly
<1>1. Init => TypeOK /\ GapInv
  BY TypeInit DEF Init, GapInv
<1>2. TypeOK /\ GapInv /\ [Next]_vars => (TypeOK /\ GapInv)'
  BY TypeStep, GapStep
<1>3. TypeOK /\ GapInv /\ [Next]_vars
        => [cause' = "stall" /\ cause = "none" => since >= Gap]_vars
  <2> SUFFICES ASSUME TypeOK, GapInv, [Next]_vars, cause' = "stall", cause = "none"
               PROVE  since >= Gap
    BY Zenon
  <2>1. gap = 0
    BY StallIsALapsedGap
  <2> QED
    BY <2>1, StreamAssumption DEF GapInv, TypeOK, Absent
<1> QED
  BY <1>1, <1>2, <1>3, PTL DEF Spec, StallNotEarly

-----------------------------------------------------------------------------
(* Sums of sizes.  Each is proved by its least counterexample.             *)

(* A set of numbers that is not empty has a least one.                     *)
LEMMA LeastNumber ==
    ASSUME NEW T \in SUBSET Nat, T # {}
    PROVE  \E m \in T : \A n \in T : m <= n
<1>1. IsWellFoundedOn(OpToRel(<, Nat), Nat)
  BY NatLessThanWellFounded
<1>2. PICK m \in T : \A n \in T : ~(<<n, m>> \in OpToRel(<, Nat))
  BY <1>1, WFMin, Zenon
<1>3. \A n \in T : ~(n < m)
  BY <1>2 DEF OpToRel
<1>4. m \in Nat /\ \A n \in T : n \in Nat
  OBVIOUS
<1>5. \A n \in T : m <= n
  BY <1>3, <1>4
<1> QED
  BY <1>5, Zenon

(* f holds the sums of the first sizes of s.                               *)
Sums(f, s, m) == f = [i \in 0..m |-> IF i = 0 THEN 0 ELSE f[i - 1] + s[i]]

(* The recursive table of sums exists, for any number of sizes.            *)
LEMMA SumsExist ==
    ASSUME NEW s, NEW n \in Nat
    PROVE  \E f : Sums(f, s, n)
<1> DEFINE T == {m \in Nat : ~\E f : Sums(f, s, m)}
<1> SUFFICES T = {}
  OBVIOUS
<1> SUFFICES ASSUME T # {} PROVE FALSE
  OBVIOUS
<1>1. PICK m \in T : \A k \in T : m <= k
  <2>1. T \in SUBSET Nat
    OBVIOUS
  <2> HIDE DEF T
  <2> QED
    BY <2>1, LeastNumber
<1>2. m \in Nat /\ ~\E f : Sums(f, s, m)
  BY <1>1
<1>3. m # 0
  <2> SUFFICES ASSUME m = 0 PROVE FALSE
    OBVIOUS
  <2> DEFINE e == [i \in 0..0 |-> 0]
  <2>1. e = [i \in 0..0 |-> IF i = 0 THEN 0 ELSE e[i - 1] + s[i]]
    OBVIOUS
  <2> QED
    BY <1>2, <2>1 DEF Sums
<1>4. m - 1 \in Nat /\ m - 1 \notin T
  <2>1. m - 1 \in Nat /\ ~(m <= m - 1)
    BY <1>2, <1>3
  <2> HIDE DEF T
  <2> QED
    BY <1>1, <2>1
<1>5. PICK f : Sums(f, s, m - 1)
  BY <1>4
<1> DEFINE g == [i \in 0..m |-> IF i = 0 THEN 0 ELSE f[i - 1] + s[i]]
<1>6. \A i \in 0..m : i # 0 => i - 1 \in 0..m - 1 /\ i - 1 \in 0..m
  BY <1>2
<1>7. \A i \in 0..m - 1 : i \in 0..m /\ f[i] = IF i = 0 THEN 0 ELSE f[i - 1] + s[i]
  BY <1>2, <1>5 DEF Sums
<1>8. \A i \in 0..m - 1 : g[i] = f[i]
  BY <1>7
<1>9. \A i \in 0..m : g[i] = IF i = 0 THEN 0 ELSE g[i - 1] + s[i]
  BY <1>6, <1>8
<1>10. Sums(g, s, m)
  <2>1. g = [i \in 0..m |-> g[i]]
    OBVIOUS
  <2> HIDE DEF g
  <2> QED
    BY <1>9, <2>1, Zenon DEF Sums
<1> QED
  BY <1>2, <1>10

(* Sum is the last entry of such a table.                                  *)
LEMMA SumUnfolds ==
    ASSUME NEW s, Len(s) \in Nat
    PROVE  \E f : Sums(f, s, Len(s)) /\ Sum(s) = f[Len(s)]
<1>1. \E f : f = [i \in 0..Len(s) |-> IF i = 0 THEN 0 ELSE f[i - 1] + s[i]]
  BY SumsExist DEF Sums
<1> QED
  BY <1>1, Zenon DEF Sum, Sums

(* Sums of sizes are sizes.                                                *)
LEMMA SumsNat ==
    ASSUME NEW s \in Seq(Nat), NEW f, Sums(f, s, Len(s))
    PROVE  \A i \in 0..Len(s) : f[i] \in Nat
<1> DEFINE T == {i \in 0..Len(s) : f[i] \notin Nat}
<1> SUFFICES ASSUME T # {} PROVE FALSE
  OBVIOUS
<1>1. PICK m \in T : \A k \in T : m <= k
  <2>1. T \in SUBSET Nat
    OBVIOUS
  <2> HIDE DEF T
  <2> QED
    BY <2>1, LeastNumber
<1>2. m \in 0..Len(s) /\ f[m] \notin Nat /\ Len(s) \in Nat
  BY <1>1
<1>3. f[m] = IF m = 0 THEN 0 ELSE f[m - 1] + s[m]
  BY <1>2, Zenon DEF Sums
<1>4. m # 0
  BY <1>2, <1>3
<1>5. m - 1 \in 0..Len(s) /\ m \in 1..Len(s) /\ m - 1 \notin T
  BY <1>1, <1>2, <1>4
<1>6. f[m - 1] \in Nat /\ s[m] \in Nat
  BY <1>5
<1> QED
  BY <1>2, <1>3, <1>4, <1>6

(* ... in particular the last.                                             *)
LEMMA SumNat ==
    ASSUME NEW s \in Seq(Nat)
    PROVE  Sum(s) \in Nat
<1>1. Len(s) \in Nat
  OBVIOUS
<1>2. PICK f : Sums(f, s, Len(s)) /\ Sum(s) = f[Len(s)]
  BY <1>1, SumUnfolds
<1>3. Len(s) \in 0..Len(s)
  BY <1>1
<1> QED
  BY <1>2, <1>3, SumsNat

(* Two sequences that agree so far have the same sums so far.              *)
LEMMA SumsAgree ==
    ASSUME NEW s, NEW t, NEW m \in Nat, NEW n \in Nat, m <= n,
           NEW f, NEW g, Sums(f, s, m), Sums(g, t, n), \A i \in 1..m : s[i] = t[i]
    PROVE  f[m] = g[m]
<1> DEFINE T == {i \in 0..m : f[i] # g[i]}
<1> SUFFICES ASSUME T # {} PROVE FALSE
  <2>1. m \in 0..m
    OBVIOUS
  <2> QED
    BY <2>1
<1>1. PICK k \in T : \A j \in T : k <= j
  <2>1. T \in SUBSET Nat
    OBVIOUS
  <2> HIDE DEF T
  <2> QED
    BY <2>1, LeastNumber
<1>2. k \in 0..m /\ k \in 0..n /\ f[k] # g[k]
  BY <1>1
<1>3. f[k] = (IF k = 0 THEN 0 ELSE f[k - 1] + s[k])
  BY <1>2, Zenon DEF Sums
<1>4. g[k] = (IF k = 0 THEN 0 ELSE g[k - 1] + t[k])
  BY <1>2, Zenon DEF Sums
<1>5. k # 0
  BY <1>2, <1>3, <1>4
<1>6. k - 1 \in 0..m /\ k \in 1..m /\ k - 1 \notin T
  BY <1>1, <1>2, <1>5
<1>7. f[k - 1] = g[k - 1] /\ s[k] = t[k]
  BY <1>6
<1> QED
  BY <1>2, <1>3, <1>4, <1>5, <1>7

(* Adding a size at the end adds it to the sum.                            *)
LEMMA SumAppend ==
    ASSUME NEW s \in Seq(Nat), NEW t \in Seq(Nat), Len(t) = Len(s) + 1,
           \A i \in 1..Len(s) : s[i] = t[i]
    PROVE  Sum(t) = Sum(s) + t[Len(t)]
<1>1. Len(s) \in Nat /\ Len(t) \in Nat /\ Len(s) <= Len(t) /\ Len(t) # 0
      /\ Len(t) \in 0..Len(t) /\ Len(t) - 1 = Len(s)
  OBVIOUS
<1>2. PICK f : Sums(f, s, Len(s)) /\ Sum(s) = f[Len(s)]
  BY <1>1, SumUnfolds
<1>3. PICK g : Sums(g, t, Len(t)) /\ Sum(t) = g[Len(t)]
  BY <1>1, SumUnfolds
<1>4. f[Len(s)] = g[Len(s)]
  <2>1. \A i \in 1..Len(s) : s[i] = t[i]
    OBVIOUS
  <2>2. ASSUME NEW m \in Nat, NEW n \in Nat, m <= n, Sums(f, s, m), Sums(g, t, n),
               \A i \in 1..m : s[i] = t[i]
        PROVE  f[m] = g[m]
    BY <2>2, SumsAgree
  <2> QED
    BY <1>1, <1>2, <1>3, <2>1, <2>2, Zenon
<1>5. g[Len(t)] = g[Len(t) - 1] + t[Len(t)]
  BY <1>1, <1>3, Zenon DEF Sums
<1> QED
  BY <1>1, <1>2, <1>3, <1>4, <1>5

-----------------------------------------------------------------------------
(* A piece has a size, an envelope's first piece less than HEADER_SIZE and *)
(* MIN_CHAIN_SIZE bytes.                                                   *)
LEMMA PieceSize ==
    ASSUME NEW u \in Pieces
    PROVE  /\ SizeOf(u) \in Nat
           /\ u.part = 0 => SizeOf(u) <= HeaderSize + (MinChain - 1)
<1>1. u.body \in Seq(Nat) /\ u.part \in Nat /\ u.part <= Len(u.body)
  BY StreamAssumption DEF Pieces, Units
<1>2. Total(u.body) \in Nat
  BY <1>1, SumNat DEF Total
<1>3. HeaderSize \in Nat /\ MinChain \in Nat /\ MinChain > 0
  BY StreamAssumption
<1>4. CASE u.part > 0
  <2>1. u.part \in 1..Len(u.body)
    BY <1>1, <1>4
  <2> QED
    BY <1>1, <1>4, <2>1 DEF SizeOf
<1>5. CASE ~(u.part > 0)
  BY <1>2, <1>3, <1>5 DEF SizeOf, Chained
<1> QED
  BY <1>4, <1>5

(* The sizes of pieces are a sequence of numbers.                          *)
LEMMA SizesType ==
    ASSUME NEW s \in Seq(Pieces)
    PROVE  /\ [i \in 1..Len(s) |-> SizeOf(s[i])] \in Seq(Nat)
           /\ Len([i \in 1..Len(s) |-> SizeOf(s[i])]) = Len(s)
<1>1. \A i \in 1..Len(s) : SizeOf(s[i]) \in Nat
  BY PieceSize
<1> QED
  BY <1>1

(* An empty batch has no bytes.                                            *)
LEMMA SizeEmpty == Size(<<>>) = 0
<1> DEFINE t == [i \in 1..Len(<<>>) |-> SizeOf(<<>>[i])]
<1>1. Len(t) = 0
  OBVIOUS
<1>2. \E f : Sums(f, t, Len(t)) /\ Sum(t) = f[Len(t)]
  BY <1>1, SumUnfolds
<1> HIDE DEF t
<1>3. PICK f : Sums(f, t, 0) /\ Sum(t) = f[0]
  BY <1>1, <1>2
<1>4. 0 \in 0..0
  OBVIOUS
<1>5. f[0] = 0
  BY <1>3, <1>4, Zenon DEF Sums
<1> QED
  BY <1>3, <1>5 DEF Size, t

(* A batch has a size, and one more piece adds its own.                    *)
LEMMA SizeAppend ==
    ASSUME NEW s \in Seq(Pieces), NEW u \in Pieces
    PROVE  /\ Append(s, u) \in Seq(Pieces)
           /\ Size(s) \in Nat
           /\ Size(Append(s, u)) = Size(s) + SizeOf(u)
<1> DEFINE a == Append(s, u)
           x == [i \in 1..Len(s) |-> SizeOf(s[i])]
           y == [i \in 1..Len(a) |-> SizeOf(a[i])]
<1>1. a \in Seq(Pieces) /\ Len(a) = Len(s) + 1 /\ Len(s) \in Nat /\ a[Len(a)] = u
      /\ \A i \in 1..Len(s) : a[i] = s[i]
  OBVIOUS
<1>2. x \in Seq(Nat) /\ Len(x) = Len(s)
  BY SizesType
<1>3. y \in Seq(Nat) /\ Len(y) = Len(a)
  BY <1>1, SizesType
<1>4. \A i \in 1..Len(s) : i \in 1..Len(a) /\ x[i] = y[i]
  BY <1>1
<1>5. y[Len(a)] = SizeOf(u)
  BY <1>1
<1>6. Size(s) = Sum(x) /\ Size(a) = Sum(y)
  BY DEF Size
<1>7. Size(s) \in Nat
  <2> HIDE DEF x, y
  <2> QED
    BY <1>2, <1>6, SumNat
<1>8. Sum(y) = Sum(x) + y[Len(y)]
  <2> HIDE DEF x, y
  <2> QED
    BY <1>1, <1>2, <1>3, <1>4, SumAppend
<1> QED
  BY <1>1, <1>3, <1>5, <1>6, <1>7, <1>8, Zenon

(* A message is encoded as pieces of it.                                   *)
LEMMA PiecesOfMessage ==
    ASSUME NEW n \in Nat, NEW b \in Bodies
    PROVE  Unit(n, 0, b) \in Pieces /\ Segments(n, b) \in Seq(Pieces)
<1>1. b \in Seq(Nat) /\ Len(b) \in Nat
  BY StreamAssumption
<1>2. \A p \in 0..Len(b) : Unit(n, p, b) \in Pieces
  BY <1>1 DEF Unit, Units, Pieces
<1>3. [p \in 1..Len(b) |-> Unit(n, p, b)] \in Seq(Pieces)
  BY <1>1, <1>2
<1> QED
  BY <1>1, <1>2, <1>3 DEF Segments

(* Whatever ends the stream leaves an empty batch.                         *)
LEMMA FinishEmpties ==
    ASSUME NEW why, FinishWith(why)
    PROVE  buf' = <<>> /\ segs' = segs
  BY DEF FinishWith, Flush

(* The batch stays bounded when it is emptied, or kept and not full.       *)
LEMMA BatchKept ==
    ASSUME BatchInv, segs' \in Seq(Pieces),
           \/ buf' = <<>>
           \/ buf' \in Seq(Pieces) /\ Size(buf') < Threshold
    PROVE  BatchInv'
<1> USE StreamAssumption
<1>1. buf' \in Seq(Pieces) /\ Size(buf') < Threshold
  <2>1. CASE buf' = <<>>
    <3>1. <<>> \in Seq(Pieces) /\ 0 < Threshold
      OBVIOUS
    <3> QED
      BY <2>1, <3>1, SizeEmpty, Zenon
  <2> QED
    BY <2>1
<1>2. Size(buf') \in Nat
  <2>1. [i \in 1..Len(buf') |-> SizeOf(buf'[i])] \in Seq(Nat)
    BY <1>1, SizesType
  <2> QED
    BY <2>1, SumNat DEF Size
<1>3. Size(buf)' = Size(buf')
  BY DEF Size, Sum, SizeOf, Chained, Total
<1>4. Size(buf') <= (Threshold - 1) + HeaderSize + (MinChain - 1)
  BY <1>1, <1>2
<1> QED
  BY <1>1, <1>3, <1>4 DEF BatchInv, BatchBounded

(* What is copied for a frame stays bounded.                               *)
LEMMA BatchStep == TypeOK /\ StageInv /\ BatchInv /\ [Next]_vars => BatchInv'
<1> SUFFICES ASSUME TypeOK, StageInv, BatchInv, [Next]_vars PROVE BatchInv'
  OBVIOUS
<1>a. buf \in Seq(Pieces) /\ segs \in Seq(Pieces)
  BY DEF BatchInv
<1>1. CASE UNCHANGED <<buf, segs>> /\ (pc # "segments" \/ pc' = pc)
  <2>1. CASE pc # "segments"
    <3>1. Size(buf) < Threshold
      BY <2>1 DEF BatchInv
    <3> QED
      BY <1>a, <1>1, <3>1, BatchKept
  <2>2. CASE pc' = pc
    <3>1. Size(buf)' = Size(buf)
      BY <1>1 DEF Size, Sum, SizeOf, Chained, Total
    <3> QED
      BY <1>1, <2>2, <3>1 DEF BatchInv, BatchBounded
  <2> QED
    BY <1>1, <2>1, <2>2
<1>2. CASE HandlerReturns \/ HandlerFails \/ Produce \/ Fail \/ End \/ Tick
           \/ BeginPoll \/ UNCHANGED vars
  <2>1. UNCHANGED <<buf, segs>> /\ (pc # "segments" \/ pc' = pc)
    BY <1>2 DEF HandlerReturns, HandlerFails, Produce, Fail, End, Becomes, Tick, BeginPoll
  <2> QED
    BY <1>1, <2>1
<1>3. CASE DrainSegment
  <2> DEFINE s == Head(segs)
  <2>1. segs # <<>>
    BY <1>3 DEF DrainSegment
  <2>2. s \in Pieces /\ Tail(segs) \in Seq(Pieces) /\ Append(buf, s) \in Seq(Pieces)
    BY <1>a, <2>1, HeadThenTail, SizeAppend
  <2>3. segs' = segs \/ segs' = Tail(segs)
    BY <1>3 DEF DrainSegment
  <2>4. \/ buf' = <<>>
        \/ buf' = Append(buf, s) /\ Size(Append(buf, s)) < Threshold
    BY <1>3, Zenon DEF DrainSegment, Flush
  <2> QED
    BY <1>a, <2>2, <2>3, <2>4, BatchKept
<1>4. CASE EmitFinal
  <2>1. UNCHANGED <<buf, segs>> /\ pc # "segments"
    BY <1>4 DEF EmitFinal
  <2> QED
    BY <1>1, <2>1
<1>5. CASE Encoded
  <2>1. segs' = segs /\ (buf' = <<>> \/ (buf' = buf /\ ~(Size(buf) >= Threshold)))
    <3>1. CASE Size(buf) >= Threshold
      BY <1>5, <3>1, Zenon DEF Encoded, Flush
    <3>2. CASE ~(Size(buf) >= Threshold)
      BY <1>5, <3>2, Zenon DEF Encoded, Flush
    <3> QED
      BY <3>1, <3>2, Zenon
  <2>2. Size(buf) \in Nat
    <3>1. [i \in 1..Len(buf) |-> SizeOf(buf[i])] \in Seq(Nat)
      BY <1>a, SizesType
    <3> QED
      BY <3>1, SumNat DEF Size
  <2>3. buf' = <<>> \/ (buf' \in Seq(Pieces) /\ Size(buf') < Threshold)
    BY <1>a, <2>1, <2>2, StreamAssumption
  <2> QED
    BY <1>a, <2>1, <2>3, BatchKept
<1>6. CASE PollTimers
  <2>1. CASE \E why : FinishWith(why)
    BY <1>a, <2>1, FinishEmpties, BatchKept
  <2>2. CASE UNCHANGED batch
    <3>1. pc # "segments"
      BY <1>6 DEF PollTimers
    <3> QED
      BY <1>1, <2>2, <3>1
  <2> QED
    BY <1>6, <2>1, <2>2, Zenon DEF PollTimers
<1>7. CASE TakeItem
  <2>1. CASE FinishWith("encode")
    BY <1>a, <2>1, FinishEmpties, BatchKept
  <2>2. CASE /\ buf' = buf \o Head0(items, body) /\ segs' = segs \o Segments(items, body)
             /\ pc' = "segments"
    <3> DEFINE u == Unit(items, 0, body)
    <3>1. items \in Nat /\ body \in Bodies /\ pc # "segments"
      BY <1>7 DEF TakeItem, TypeOK
    <3>2. u \in Pieces /\ Segments(items, body) \in Seq(Pieces) /\ u.part = 0
      BY <3>1, PiecesOfMessage DEF Unit
    <3>3. buf' = Append(buf, u)
      <4> HIDE DEF u
      <4> QED
        BY <1>a, <2>2, <3>2 DEF Head0, u
    <3>4. buf' \in Seq(Pieces) /\ segs' \in Seq(Pieces)
      <4>1. segs \o Segments(items, body) \in Seq(Pieces)
        BY <1>a, <3>2
      <4> QED
        BY <1>a, <2>2, <3>2, <3>3, <4>1, SizeAppend
    <3>5. Size(buf') = Size(buf) + SizeOf(u) /\ Size(buf) \in Nat
      BY <1>a, <3>2, <3>3, SizeAppend
    <3>6. SizeOf(u) \in Nat /\ SizeOf(u) <= HeaderSize + (MinChain - 1)
      BY <3>2, PieceSize
    <3>7. Size(buf) < Threshold
      BY <3>1 DEF BatchInv
    <3>8. Size(buf') <= (Threshold - 1) + HeaderSize + (MinChain - 1)
      <4> HIDE DEF u
      <4> QED
        BY <3>5, <3>6, <3>7, StreamAssumption
    <3>9. Size(buf)' = Size(buf')
      BY DEF Size, Sum, SizeOf, Chained, Total
    <3> QED
      BY <2>2, <3>4, <3>8, <3>9 DEF BatchInv, BatchBounded
  <2> QED
    BY <1>7, <2>1, <2>2, Zenon DEF TakeItem
<1>8. CASE TakeError \/ TakeEnd
  <2>1. \E why : FinishWith(why)
    BY <1>8, Zenon DEF TakeError, TakeEnd
  <2> QED
    BY <1>a, <2>1, FinishEmpties, BatchKept
<1>9. CASE InnerPending
  <2>1. segs' = segs /\ buf' = <<>>
    BY <1>9, Zenon DEF InnerPending, Flush
  <2> QED
    BY <1>a, <2>1, BatchKept
<1> QED
  BY <1>2, <1>3, <1>4, <1>5, <1>6, <1>7, <1>8, <1>9, Zenon DEF Next, Poll, Finished

(* For messages of any sizes, in any number of segments: what one frame    *)
(* copies is less than a full batch and one more envelope or segment.      *)
THEOREM BatchesAreBounded == Spec => []BatchBounded
<1>1. Init => TypeOK /\ StageInv /\ BytesInOrder /\ BatchInv
  <2> SUFFICES ASSUME Init PROVE BatchInv
    BY TypeInit, OrderInit
  <2>1. buf = <<>> /\ segs = <<>>
    BY DEF Init
  <2> QED
    BY <2>1, SizeEmpty, StreamAssumption DEF BatchInv, BatchBounded
<1>2. TypeOK /\ StageInv /\ BytesInOrder /\ BatchInv /\ [Next]_vars
        => (TypeOK /\ StageInv /\ BytesInOrder /\ BatchInv)'
  BY TypeStep, OrderStep, BatchStep
<1> QED
  BY <1>1, <1>2, PTL DEF Spec, BatchInv
=============================================================================
