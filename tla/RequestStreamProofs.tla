------------------------ MODULE RequestStreamProofs ------------------------
(***************************************************************************)
(* Theorems about RequestStream, for every set of bodies a client may      *)
(* send, however the transport cuts them into frames, and for every limit. *)
(***************************************************************************)
EXTENDS RequestStream, WellFoundedInduction, TLAPS

Envelope == [kind : Kinds, len : Nat]
Offsets  == [from : 0..Last, to : 0..Last]

(* Who has the body: the stream decodes only while it has it, and keeps    *)
(* nothing of a frame or an envelope once it has let go.                   *)
OwnerInv ==
    /\ pc # "idle" => owner = "stream" /\ held
    /\ owner = "stream" => outcome = "none"
    /\ owner # "stream" => frame = 0 /\ headerLen = 0
    /\ pc = "read" => frame = 0

(* What is assembled of the envelope after those delivered: part of its    *)
(* header, or all of that and part of a payload that is within the limit.  *)
AssemblyInv ==
    LET n == Len(delivered)
    IN  \/ /\ headerLen < HeaderSize /\ header = NoHeader /\ filled = 0 /\ capacity = 0
        \/ /\ headerLen = HeaderSize /\ n < Len(sent) /\ header = sent[n + 1]
           /\ ~ExceedsLimit(header) /\ filled < header.len
           /\ capacity <= Least(header.len, 2 * filled)

(* The decoder's place on the wire: it has consumed the envelopes it       *)
(* delivered and what it has assembled of the next, and nothing else.      *)
PositionInv ==
    owner = "stream" => Position = Start(Len(delivered) + 1) + headerLen + filled

StreamInv == TypeOK /\ OwnerInv /\ AssemblyInv /\ PositionInv /\ SplitIndependent

-----------------------------------------------------------------------------
USE DEF wire, assembler, stream, drain, vars

(* A nonempty set of natural numbers has a least element: a statement that *)
(* fails for some number fails for a least one.                            *)
LEMMA LeastNumber ==
    ASSUME NEW T \in SUBSET Nat, T # {}
    PROVE  \E m \in T : \A n \in T : m <= n
<1>1. IsWellFoundedOn(OpToRel(<, Nat), Nat)
  BY NatLessThanWellFounded
<1>2. PICK m \in T : \A n \in T : ~(<<n, m>> \in OpToRel(<, Nat))
  BY <1>1, WFMin, Zenon
<1>3. \A n \in T : ~(n < m)
  BY <1>2 DEF OpToRel
<1>4. m \in Nat /\ \A n \in T : n \in Nat
  OBVIOUS
<1>5. \A n \in T : m <= n
  BY <1>3, <1>4
<1> QED
  BY <1>5, Zenon

(* The recursive table of offsets exists, for a wire of any length.        *)
LEMMA TableExists ==
    ASSUME NEW n \in Nat
    PROVE  \E f : f = [i \in 1..n |->
                         IF i = 1 THEN 0 ELSE f[i - 1] + HeaderSize + sent[i - 1].len]
<1> DEFINE Good(m, f) == f = [i \in 1..m |->
                              IF i = 1 THEN 0 ELSE f[i - 1] + HeaderSize + sent[i - 1].len]
           T == {m \in Nat : ~\E f : Good(m, f)}
<1> SUFFICES T = {}
  OBVIOUS
<1> SUFFICES ASSUME T # {} PROVE FALSE
  OBVIOUS
<1>1. PICK m \in T : \A k \in T : m <= k
  <2>1. T \in SUBSET Nat
    OBVIOUS
  <2> HIDE DEF T
  <2> QED
    BY <2>1, LeastNumber
<1>2. m \in Nat /\ ~\E f : Good(m, f)
  BY <1>1
<1>3. m # 0
  <2> SUFFICES ASSUME m = 0 PROVE FALSE
    OBVIOUS
  <2> DEFINE e == [i \in 1..0 |-> 0]
  <2>1. e = [i \in 1..0 |-> IF i = 1 THEN 0 ELSE e[i - 1] + HeaderSize + sent[i - 1].len]
    OBVIOUS
  <2> QED
    BY <1>2, <2>1
<1>4. m - 1 \in Nat /\ m - 1 \notin T
  <2>1. m - 1 \in Nat /\ ~(m <= m - 1)
    BY <1>2, <1>3
  <2> HIDE DEF T
  <2> QED
    BY <1>1, <2>1
<1>5. PICK f : Good(m - 1, f)
  BY <1>4
<1> DEFINE g == [i \in 1..m |-> IF i = 1 THEN 0 ELSE f[i - 1] + HeaderSize + sent[i - 1].len]
<1>6. \A i \in 1..m : i # 1 => i - 1 \in 1..m - 1 /\ i - 1 \in 1..m
  BY <1>2
<1>7. \A i \in 1..m - 1 : /\ i \in 1..m
                          /\ f[i] = IF i = 1 THEN 0 ELSE f[i - 1] + HeaderSize + sent[i - 1].len
  BY <1>2, <1>5
<1>8. \A i \in 1..m - 1 : g[i] = f[i]
  BY <1>7
<1>9. \A i \in 1..m : g[i] = IF i = 1 THEN 0 ELSE g[i - 1] + HeaderSize + sent[i - 1].len
  BY <1>6, <1>8
<1>10. Good(m, g)
  <2>1. g = [i \in 1..m |-> g[i]]
    OBVIOUS
  <2> HIDE DEF g
  <2> QED
    BY <1>9, <2>1, Zenon
<1> QED
  BY <1>2, <1>10

(* Each envelope starts where the one before it ends.                      *)
LEMMA StartUnfolds ==
    ASSUME sent \in Seq(Envelope)
    PROVE  \A i \in 1..Len(sent) + 1 :
             Start(i) = IF i = 1 THEN 0 ELSE Start(i - 1) + HeaderSize + sent[i - 1].len
<1>1. PICK a : /\ a = [i \in 1..Len(sent) + 1 |->
                         IF i = 1 THEN 0 ELSE a[i - 1] + HeaderSize + sent[i - 1].len]
               /\ \A k : Start(k) = a[k]
  <2>1. Len(sent) + 1 \in Nat
    OBVIOUS
  <2>2. \E f : f = [i \in 1..Len(sent) + 1 |->
                      IF i = 1 THEN 0 ELSE f[i - 1] + HeaderSize + sent[i - 1].len]
    BY <2>1, TableExists
  <2> QED
    BY <2>2, Zenon DEF Start
<1>2. \A i \in 1..Len(sent) + 1 :
        a[i] = IF i = 1 THEN 0 ELSE a[i - 1] + HeaderSize + sent[i - 1].len
  BY <1>1, Zenon
<1> QED
  BY <1>1, <1>2, Zenon

(* Every envelope on the wire has a length.                                *)
LEMMA Envelopes ==
    ASSUME sent \in Seq(Envelope), NEW i \in 1..Len(sent)
    PROVE  sent[i] \in Envelope /\ sent[i].len \in Nat
<1>1. sent[i] \in Envelope
  OBVIOUS
<1> QED
  BY <1>1 DEF Envelope

(* Offsets are natural numbers.                                            *)
LEMMA StartIsNat ==
    ASSUME sent \in Seq(Envelope)
    PROVE  \A i \in 1..Len(sent) + 1 : Start(i) \in Nat
<1> DEFINE T == {i \in 1..Len(sent) + 1 : Start(i) \notin Nat}
<1> SUFFICES ASSUME T # {} PROVE FALSE
  OBVIOUS
<1>1. PICK m \in T : \A k \in T : m <= k
  <2>1. T \in SUBSET Nat
    OBVIOUS
  <2> HIDE DEF T
  <2> QED
    BY <2>1, LeastNumber
<1>2. m \in 1..Len(sent) + 1 /\ Start(m) \notin Nat /\ Len(sent) \in Nat
  BY <1>1
<1>3. m # 1
  BY <1>2, StartUnfolds
<1>4. m - 1 \in 1..Len(sent) + 1 /\ m - 1 \in 1..Len(sent) /\ m - 1 \notin T
  BY <1>1, <1>2, <1>3
<1>5. Start(m - 1) \in Nat
  BY <1>4
<1>6. sent[m - 1].len \in Nat
  BY <1>4, Envelopes
<1>7. Start(m) = Start(m - 1) + HeaderSize + sent[m - 1].len
  BY <1>2, <1>3, StartUnfolds
<1> QED
  BY <1>2, <1>5, <1>6, <1>7, StreamAssumption

(* Envelopes do not overlap.                                               *)
LEMMA StartGrows ==
    ASSUME sent \in Seq(Envelope)
    PROVE  \A j \in 1..Len(sent) + 1 : \A i \in 1..Len(sent) + 1 :
             i < j => Start(i) + HeaderSize + sent[i].len <= Start(j)
<1> DEFINE Bad(j) == \E i \in 1..Len(sent) + 1 :
                       i < j /\ ~(Start(i) + HeaderSize + sent[i].len <= Start(j))
           T == {j \in 1..Len(sent) + 1 : Bad(j)}
<1> SUFFICES ASSUME T # {} PROVE FALSE
  OBVIOUS
<1>1. PICK m \in T : \A k \in T : m <= k
  <2>1. T \in SUBSET Nat
    OBVIOUS
  <2> HIDE DEF T
  <2> QED
    BY <2>1, LeastNumber
<1>2. m \in 1..Len(sent) + 1 /\ Bad(m) /\ Len(sent) \in Nat
  BY <1>1
<1>3. PICK i \in 1..Len(sent) + 1 : i < m /\ ~(Start(i) + HeaderSize + sent[i].len <= Start(m))
  BY <1>2
<1>4. m - 1 \in 1..Len(sent) + 1 /\ m - 1 \in 1..Len(sent) /\ m - 1 \notin T /\ m # 1
  BY <1>1, <1>2, <1>3
<1>5. Start(m) = Start(m - 1) + HeaderSize + sent[m - 1].len
  BY <1>2, <1>4, StartUnfolds
<1>6. Start(i) \in Nat /\ Start(m) \in Nat /\ Start(m - 1) \in Nat
  BY <1>2, <1>3, <1>4, StartIsNat
<1>7. i \in 1..Len(sent) /\ sent[i].len \in Nat /\ sent[m - 1].len \in Nat
  <2>1. i \in 1..Len(sent)
    BY <1>2, <1>3
  <2> QED
    BY <1>4, <2>1, Envelopes
<1>8. CASE i = m - 1
  BY <1>3, <1>5, <1>6, <1>7, <1>8, StreamAssumption
<1>9. CASE i # m - 1
  <2>1. i < m - 1
    BY <1>2, <1>3, <1>9
  <2>2. ~Bad(m - 1)
    BY <1>4
  <2>3. Start(i) + HeaderSize + sent[i].len <= Start(m - 1)
    BY <2>1, <2>2
  <2>4. HeaderSize \in Nat
    BY StreamAssumption
  <2> DEFINE li == sent[i].len
             lm == sent[m - 1].len
  <2>5. /\ li \in Nat /\ lm \in Nat /\ Start(m) = Start(m - 1) + HeaderSize + lm
        /\ Start(i) + HeaderSize + li <= Start(m - 1)
    BY <1>5, <1>7, <2>3
  <2>6. ~(Start(i) + HeaderSize + li <= Start(m))
    BY <1>3
  <2> HIDE DEF li, lm, T, Bad
  <2> QED
    BY <1>6, <2>4, <2>5, <2>6
<1> QED
  BY <1>8, <1>9

(* No envelope is replaced on the wire.                                    *)
LEMMA SameStart == sent' = sent => \A k : Start(k)' = Start(k)
  BY Zenon DEF Start

(* Offsets and payloads depend only on what the client has sent.           *)
LEMMA SameWire ==
    ASSUME sent' = sent
    PROVE  /\ Last' = Last /\ Offsets' = Offsets
           /\ \A k : Start(k)' = Start(k) /\ Payload(k)' = Payload(k)
           /\ \A k : Terminal(k)' = Terminal(k) /\ Decodable(k)' = Decodable(k)
<1>1. \A k : Start(k)' = Start(k)
  BY SameStart
<1>2. Last' = Last
  BY <1>1 DEF Last
<1>3. \A k : Payload(k)' = Payload(k)
  BY <1>1 DEF Payload
<1>4. \A k : Terminal(k)' = Terminal(k)
  BY Zenon DEF Terminal
<1>5. \A k : Decodable(k)' = Decodable(k)
  BY <1>4, Zenon DEF Decodable
<1> QED
  BY <1>1, <1>2, <1>3, <1>4, <1>5, Zenon DEF Offsets

(* What the types say, part by part.                                       *)
LEMMA Types ==
    ASSUME TypeOK
    PROVE  /\ sent \in Seq(Envelope) /\ Len(sent) \in Nat /\ Last \in Nat
           /\ Last = Start(Len(sent) + 1)
           /\ arrived \in Nat /\ arrived <= Last /\ read \in Nat /\ read <= arrived
           /\ frame \in Nat /\ frame <= read
           /\ headerLen \in Nat /\ headerLen <= HeaderSize /\ HeaderSize \in Nat /\ HeaderSize > 0
           /\ header.len \in Nat /\ filled \in Nat /\ capacity \in Nat
           /\ filled <= header.len /\ capacity <= header.len
           /\ delivered \in Seq(Offsets) /\ Len(delivered) \in Nat
<1>1. sent \in Seq(Envelope) /\ Len(sent) \in Nat
  <2>1. sent \in Bodies
    BY DEF TypeOK
  <2>2. Bodies \in SUBSET Seq(Envelope)
    BY StreamAssumption DEF Envelope
  <2>3. sent \in Seq(Envelope)
    BY <2>1, <2>2
  <2> QED
    BY <2>3
<1>2. Last \in Nat
  BY <1>1, StartIsNat DEF Last
<1>3. header.len \in Nat
  BY DEF TypeOK
<1>4. /\ arrived \in Nat /\ arrived <= Last /\ read \in Nat /\ read <= arrived
      /\ frame \in Nat /\ frame <= read
  BY <1>2 DEF TypeOK
<1>5. /\ headerLen \in Nat /\ headerLen <= HeaderSize /\ HeaderSize \in Nat /\ HeaderSize > 0
  BY StreamAssumption DEF TypeOK
<1>6. /\ filled \in Nat /\ capacity \in Nat /\ filled <= header.len /\ capacity <= header.len
  BY <1>3 DEF TypeOK
<1>7. delivered \in Seq(Offsets) /\ Len(delivered) \in Nat
  BY DEF TypeOK, Offsets
<1> QED
  BY <1>1, <1>2, <1>3, <1>4, <1>5, <1>6, <1>7 DEF Last

(* Where the next envelope starts and ends.                                *)
LEMMA NextEnvelope ==
    ASSUME TypeOK, SplitIndependent
    PROVE  LET n == Len(delivered)
           IN  /\ n \in 0..Len(sent) /\ Start(n + 1) \in Nat /\ Start(n + 1) <= Last
               /\ n = Len(sent) => Start(n + 1) = Last
               /\ n < Len(sent) => /\ sent[n + 1] \in Envelope /\ sent[n + 1].len \in Nat
                                   /\ Start(n + 2) = Start(n + 1) + HeaderSize + sent[n + 1].len
                                   /\ Start(n + 2) \in Nat /\ Start(n + 2) <= Last
<1> DEFINE n == Len(delivered)
<1>0. /\ sent \in Seq(Envelope) /\ Len(sent) \in Nat /\ n \in Nat /\ HeaderSize \in Nat
      /\ Last = Start(Len(sent) + 1) /\ Last \in Nat
  BY Types
<1>1. n \in 0..Len(sent)
  BY <1>0 DEF SplitIndependent
<1> HIDE DEF n
<1>g. ASSUME NEW i \in 1..Len(sent) + 1
      PROVE  Start(i) \in Nat /\ Start(i) <= Last
  <2>1. Start(i) \in Nat
    BY <1>0, StartIsNat
  <2>2. CASE i = Len(sent) + 1
    BY <1>0, <2>1, <2>2
  <2>3. CASE i # Len(sent) + 1
    <3>1. i \in 1..Len(sent) /\ i < Len(sent) + 1 /\ Len(sent) + 1 \in 1..Len(sent) + 1
      BY <1>0, <2>3
    <3>2. sent[i].len \in Nat
      BY <1>0, <3>1, Envelopes
    <3>3. Start(i) + HeaderSize + sent[i].len <= Last
      BY <1>0, <3>1, StartGrows
    <3> QED
      BY <1>0, <2>1, <3>2, <3>3
  <2> QED
    BY <2>2, <2>3
<1>2. Start(n + 1) \in Nat /\ Start(n + 1) <= Last
  BY <1>0, <1>1, <1>g
<1>3. n = Len(sent) => Start(n + 1) = Last
  BY <1>0
<1>4. ASSUME n < Len(sent)
      PROVE  /\ sent[n + 1] \in Envelope /\ sent[n + 1].len \in Nat
             /\ Start(n + 2) = Start(n + 1) + HeaderSize + sent[n + 1].len
             /\ Start(n + 2) \in Nat /\ Start(n + 2) <= Last
  <2>1. n + 1 \in 1..Len(sent) /\ n + 2 \in 1..Len(sent) + 1 /\ n + 2 # 1 /\ n + 2 - 1 = n + 1
    BY <1>0, <1>1, <1>4
  <2>2. sent[n + 1] \in Envelope /\ sent[n + 1].len \in Nat
    BY <1>0, <2>1, Envelopes
  <2>3. Start(n + 2) = Start(n + 1) + HeaderSize + sent[n + 1].len
    BY <1>0, <2>1, StartUnfolds
  <2> QED
    BY <1>g, <2>1, <2>2, <2>3
<1> QED
  BY <1>1, <1>2, <1>3, <1>4 DEF n

(* When the header is complete, what it declares is the envelope after     *)
(* those delivered, wherever the frames were cut.                          *)
LEMMA HeaderDeclares ==
    ASSUME StreamInv, pc = "decode", headerLen + TakeHeader = HeaderSize
    PROVE  LET n == Len(delivered)
           IN  /\ n < Len(sent) /\ Declared = sent[n + 1]
               /\ LeftAfter \in Nat /\ LeftAfter <= frame
               /\ read - LeftAfter = Start(n + 1) + HeaderSize + filled
               /\ filled <= Declared.len /\ capacity <= Declared.len /\ capacity <= 2 * filled
               /\ headerLen = HeaderSize => ~ExceedsLimit(Declared)
<1> DEFINE n == Len(delivered)
<1>t. TypeOK /\ OwnerInv /\ AssemblyInv /\ PositionInv /\ SplitIndependent
  BY DEF StreamInv
<1>0. /\ sent \in Seq(Envelope) /\ Len(sent) \in Nat /\ Last \in Nat
      /\ arrived \in Nat /\ arrived <= Last /\ read \in Nat /\ read <= arrived
      /\ frame \in Nat /\ frame <= read
      /\ headerLen \in Nat /\ headerLen <= HeaderSize /\ HeaderSize \in Nat /\ HeaderSize > 0
      /\ header.len \in Nat /\ filled \in Nat /\ capacity \in Nat
      /\ filled <= header.len /\ capacity <= header.len /\ n \in Nat
  BY <1>t, Types
<1>1. /\ n \in 0..Len(sent) /\ Start(n + 1) \in Nat
      /\ n = Len(sent) => Start(n + 1) = Last
      /\ n < Len(sent) => sent[n + 1].len \in Nat
  BY <1>t, NextEnvelope
<1>2. read - frame = Start(n + 1) + headerLen + filled
  BY <1>t DEF OwnerInv, PositionInv, Position
<1> HIDE DEF n
<1>3. CASE headerLen < HeaderSize
  <2>1. header = NoHeader /\ filled = 0 /\ capacity = 0
    BY <1>t, <1>0, <1>3 DEF AssemblyInv
  <2>2. TakeHeader = HeaderSize - headerLen /\ TakeHeader <= frame /\ TakeHeader > 0
    BY <1>0, <1>3 DEF TakeHeader, Least
  <2>3. n < Len(sent)
    BY <1>0, <1>1, <1>2, <1>3, <2>1, <2>2
  <2>4. Position + TakeHeader - HeaderSize = Start(n + 1)
    BY <1>0, <1>1, <1>2, <2>1, <2>2 DEF Position
  <2>5. n + 1 \in 1..Len(sent)
    BY <1>0, <2>3
  <2>6. ASSUME NEW k \in 1..Len(sent), Start(k) = Start(n + 1) PROVE k = n + 1
    <3>1. /\ Start(k) \in Nat /\ sent[k].len \in Nat /\ sent[n + 1].len \in Nat
          /\ k \in 1..Len(sent) + 1 /\ n + 1 \in 1..Len(sent) + 1
      BY <1>0, <2>5, StartIsNat, Envelopes
    <3>2. /\ k < n + 1 => Start(k) + HeaderSize + sent[k].len <= Start(n + 1)
          /\ n + 1 < k => Start(n + 1) + HeaderSize + sent[n + 1].len <= Start(k)
      BY <1>0, <3>1, StartGrows
    <3>3. ~(k < n + 1) /\ ~(n + 1 < k)
      BY <1>0, <1>1, <2>6, <3>1, <3>2
    <3> QED
      BY <1>0, <3>3
  <2>7. HeaderAt(Start(n + 1)) = sent[n + 1]
    <3> DEFINE K == CHOOSE k \in 1..Len(sent) : Start(k) = Start(n + 1)
    <3>1. \E k \in 1..Len(sent) : Start(k) = Start(n + 1)
      BY <2>5
    <3>2. K \in 1..Len(sent) /\ Start(K) = Start(n + 1)
      BY <3>1, Zenon
    <3> HIDE DEF K
    <3>3. K = n + 1
      BY <2>6, <3>2
    <3> QED
      BY <3>1, <3>3, Zenon DEF HeaderAt, K
  <2>8. Declared = sent[n + 1]
    BY <1>3, <2>4, <2>7 DEF Declared
  <2>9. LeftAfter = frame - TakeHeader
    BY <1>3 DEF LeftAfter
  <2>10. /\ LeftAfter \in Nat /\ LeftAfter <= frame
         /\ read - LeftAfter = Start(n + 1) + HeaderSize + filled
    <3>1. LeftAfter = frame - (HeaderSize - headerLen) /\ HeaderSize - headerLen <= frame
      BY <2>2, <2>9
    <3>2. read - frame = Start(n + 1) + headerLen
      BY <1>0, <1>1, <1>2, <2>1
    <3>3. LeftAfter \in Nat /\ LeftAfter <= frame
      BY <1>0, <3>1
    <3>0. /\ read \in Nat /\ frame \in Nat /\ headerLen \in Nat /\ HeaderSize \in Nat
          /\ Start(n + 1) \in Nat
      BY <1>0, <1>1
    <3>a. \A r, f, h, l, b \in Nat : r - f = b + l => r - (f - (h - l)) = b + h
      OBVIOUS
    <3>4. read - LeftAfter = Start(n + 1) + HeaderSize
      <4>1. read - (frame - (HeaderSize - headerLen)) = Start(n + 1) + HeaderSize
        BY <3>0, <3>2, <3>a
      <4> QED
        BY <3>1, <4>1
    <3>5. Start(n + 1) + HeaderSize + filled = Start(n + 1) + HeaderSize
      BY <1>0, <1>1, <2>1
    <3> QED
      BY <3>3, <3>4, <3>5
  <2>11. Declared.len \in Nat
    BY <1>1, <2>3, <2>8
  <2> QED
    BY <1>0, <1>3, <2>1, <2>3, <2>8, <2>10, <2>11 DEF n
<1>4. CASE headerLen = HeaderSize
  <2>1. /\ n < Len(sent) /\ header = sent[n + 1] /\ ~ExceedsLimit(header)
        /\ capacity <= Least(header.len, 2 * filled)
    BY <1>t, <1>0, <1>4 DEF AssemblyInv, n
  <2>2. Declared = header /\ LeftAfter = frame
    BY <1>0, <1>4 DEF Declared, LeftAfter
  <2>3. capacity <= 2 * filled
    BY <1>0, <2>1 DEF Least
  <2> QED
    BY <1>0, <1>1, <1>2, <1>4, <2>1, <2>2, <2>3 DEF n
<1> QED
  BY <1>0, <1>3, <1>4

-----------------------------------------------------------------------------
(* The invariant, one kind of step at a time.                              *)

(* Nothing is delivered and the stream does not end; a body that has ended *)
(* gets no longer.                                                         *)
LEMMA SplitKept ==
    ASSUME SplitIndependent, UNCHANGED <<sent, delivered, outcome>>,
           close = "no" \/ UNCHANGED <<close, arrived>>
    PROVE  SplitIndependent'
<1> DEFINE n == Len(delivered)
<1>1. /\ n <= Len(sent) /\ Decodable(n) /\ \A k \in 1..n : delivered[k] = Payload(k)
      /\ outcome \in {"too_large", "undecodable", "end"} =>
           \/ n < Len(sent) /\ Terminal(n + 1) /\ ResultOf(sent[n + 1]) = outcome
           \/ outcome = "end" /\ close = "eof" /\ arrived = Start(n + 1)
      /\ outcome = "incomplete" =>
           close = "eof" /\ Start(n + 1) < arrived /\ arrived < Start(n + 2)
      /\ outcome = "failed" => close = "error"
  BY DEF SplitIndependent
<1>2. Len(delivered') = n /\ ResultOf(sent'[n + 1]) = ResultOf(sent[n + 1])
  OBVIOUS
<1>w. /\ \A k : Start(k)' = Start(k) /\ Payload(k)' = Payload(k)
      /\ \A k : Terminal(k)' = Terminal(k) /\ Decodable(k)' = Decodable(k)
  BY SameWire
<1>3. /\ n <= Len(sent') /\ Decodable(n)' /\ \A k \in 1..n : delivered'[k] = Payload(k)'
  BY <1>1, <1>w
<1>4. outcome' \in {"too_large", "undecodable", "end"} =>
           \/ n < Len(sent') /\ Terminal(n + 1)' /\ ResultOf(sent'[n + 1]) = outcome'
           \/ outcome' = "end" /\ close' = "eof" /\ arrived' = Start(n + 1)'
  BY <1>1, <1>2, <1>w
<1>5. /\ outcome' = "incomplete" =>
           close' = "eof" /\ Start(n + 1)' < arrived' /\ arrived' < Start(n + 2)'
      /\ outcome' = "failed" => close' = "error"
  BY <1>1, <1>w
<1> QED
  BY <1>2, <1>3, <1>4, <1>5 DEF SplitIndependent

(* The stream ends, for a reason that the bytes give.                      *)
LEMMA SplitEnds ==
    ASSUME SplitIndependent, NEW result, outcome' = result,
           UNCHANGED <<sent, delivered, close, arrived>>,
           LET n == Len(delivered)
           IN  \/ /\ result \in {"too_large", "undecodable", "end"}
                  /\ n < Len(sent) /\ Terminal(n + 1) /\ ResultOf(sent[n + 1]) = result
               \/ result = "end" /\ close = "eof" /\ arrived = Start(n + 1)
               \/ /\ result = "incomplete" /\ close = "eof"
                  /\ Start(n + 1) < arrived /\ arrived < Start(n + 2)
               \/ result = "failed" /\ close = "error"
    PROVE  SplitIndependent'
<1> DEFINE n == Len(delivered)
<1>1. /\ n <= Len(sent) /\ Decodable(n) /\ \A k \in 1..n : delivered[k] = Payload(k)
  BY DEF SplitIndependent
<1>2. Len(delivered') = n /\ ResultOf(sent'[n + 1]) = ResultOf(sent[n + 1])
  OBVIOUS
<1>w. /\ \A k : Start(k)' = Start(k) /\ Payload(k)' = Payload(k)
      /\ \A k : Terminal(k)' = Terminal(k) /\ Decodable(k)' = Decodable(k)
  BY SameWire
<1>3. /\ n <= Len(sent') /\ Decodable(n)' /\ \A k \in 1..n : delivered'[k] = Payload(k)'
  BY <1>1, <1>w
<1>4. outcome' \in {"too_large", "undecodable", "end"} =>
           \/ n < Len(sent') /\ Terminal(n + 1)' /\ ResultOf(sent'[n + 1]) = outcome'
           \/ outcome' = "end" /\ close' = "eof" /\ arrived' = Start(n + 1)'
  BY <1>2, <1>w
<1>5. /\ outcome' = "incomplete" =>
           close' = "eof" /\ Start(n + 1)' < arrived' /\ arrived' < Start(n + 2)'
      /\ outcome' = "failed" => close' = "error"
  BY <1>w
<1> QED
  BY <1>2, <1>3, <1>4, <1>5 DEF SplitIndependent

(* One more envelope is delivered.                                         *)
LEMMA SplitDelivers ==
    ASSUME TypeOK, SplitIndependent, outcome = "none", UNCHANGED <<sent, outcome>>,
           Len(delivered) < Len(sent), ~Terminal(Len(delivered) + 1),
           delivered' = Append(delivered, Payload(Len(delivered) + 1))
    PROVE  SplitIndependent'
<1>t. Len(delivered) \in Nat /\ Len(sent) \in Nat /\ delivered \in Seq(Offsets)
  BY Types
<1>n. PICK n \in Nat : n = Len(delivered)
  BY <1>t
<1>0. n \in Nat /\ Len(sent) \in Nat /\ delivered \in Seq(Offsets) /\ n = Len(delivered)
  BY <1>t, <1>n
<1>1. /\ n <= Len(sent) /\ Decodable(n) /\ \A k \in 1..n : delivered[k] = Payload(k)
  BY <1>n DEF SplitIndependent
<1>2. /\ Len(delivered') = n + 1 /\ delivered'[n + 1] = Payload(n + 1)
      /\ \A k \in 1..n : delivered'[k] = delivered[k]
  BY <1>0
<1>w. /\ \A k : Payload(k)' = Payload(k) /\ Decodable(k)' = Decodable(k)
  BY SameWire
<1>3. n + 1 <= Len(sent')
  BY <1>0
<1>4. Decodable(n + 1)'
  <2>1. Decodable(n + 1)
    <3> SUFFICES ASSUME NEW k \in 1..n + 1 PROVE ~Terminal(k)
      BY DEF Decodable
    <3>1. CASE k = n + 1
      BY <1>0, <3>1
    <3>2. CASE k # n + 1
      <4>1. k \in 1..n
        BY <1>0, <3>2
      <4> QED
        BY <1>1, <4>1 DEF Decodable
    <3> QED
      BY <3>1, <3>2
  <2> QED
    BY <1>w, <2>1
<1>5. ASSUME NEW k \in 1..n + 1 PROVE delivered'[k] = Payload(k)'
  <2>1. CASE k = n + 1
    BY <1>2, <1>w, <2>1
  <2>2. CASE k # n + 1
    <3>1. k \in 1..n
      BY <1>0, <2>2
    <3> QED
      BY <1>1, <1>2, <1>w, <3>1
  <2> QED
    BY <2>1, <2>2
<1>6. outcome' = "none"
  OBVIOUS
<1> QED
  BY <1>2, <1>3, <1>4, <1>5, <1>6 DEF SplitIndependent

(* The body changes hands, or the stream only moves on: what is assembled  *)
(* stays.                                                                  *)
LEMMA AssemblyKept ==
    ASSUME AssemblyInv, UNCHANGED <<sent, assembler, delivered>>
    PROVE  AssemblyInv'
  BY DEF AssemblyInv, ExceedsLimit, Least, NoHeader

(* ... and what is assembled goes.                                         *)
LEMMA AssemblyForgotten ==
    ASSUME Forget PROVE AssemblyInv'
  BY StreamAssumption DEF Forget, AssemblyInv, NoHeader

(* The types of a next state on the same wire.                             *)
LEMMA TypesNext ==
    ASSUME TypeOK, sent' = sent,
           arrived' \in Nat, arrived' <= Last, read' \in Nat, read' <= arrived',
           frame' \in Nat, frame' <= read',
           headerLen' \in Nat, headerLen' <= HeaderSize, header' \in Envelope,
           filled' \in Nat, filled' <= header'.len, capacity' \in Nat, capacity' <= header'.len,
           close' \in {"no", "eof", "error"}, owner' \in {"stream", "drain", "none"},
           pc' \in {"idle", "decode", "read"}, held' \in BOOLEAN,
           delivered' \in Seq(Offsets),
           outcome' \in {"none", "end", "too_large", "undecodable", "incomplete", "failed"},
           drained' \in Nat, timeLeft' \in 0..DrainTimeout
    PROVE  TypeOK'
<1>0. Last' = Last /\ Offsets' = Offsets
  BY SameWire
<1>1. Last \in Nat /\ HeaderSize \in Nat
  BY Types
<1>2. header'.len \in Nat
  BY DEF Envelope
<1>3. arrived' \in 0..Last' /\ read' \in 0..arrived' /\ frame' \in 0..read'
  BY <1>0, <1>1
<1>4. headerLen' \in 0..HeaderSize /\ filled' \in 0..header'.len /\ capacity' \in 0..header'.len
  BY <1>1, <1>2
<1>5. delivered' \in Seq([from : 0..Last', to : 0..Last'])
  BY <1>0 DEF Offsets
<1>6. sent' \in Bodies /\ header' \in [kind : Kinds, len : Nat]
  BY DEF TypeOK, Envelope
<1> QED
  BY <1>3, <1>4, <1>5, <1>6, Zenon DEF TypeOK

(* The type of everything else.                                            *)
LEMMA OtherTypes ==
    ASSUME TypeOK
    PROVE  /\ header \in Envelope /\ NoHeader \in Envelope /\ NoHeader.len = 0
           /\ close \in {"no", "eof", "error"} /\ owner \in {"stream", "drain", "none"}
           /\ pc \in {"idle", "decode", "read"} /\ held \in BOOLEAN
           /\ outcome \in {"none", "end", "too_large", "undecodable", "incomplete", "failed"}
           /\ drained \in Nat /\ timeLeft \in 0..DrainTimeout
           /\ DrainTimeout \in Nat /\ DrainTimeout \in 0..DrainTimeout
<1>1. NoHeader \in Envelope /\ NoHeader.len = 0
  BY DEF NoHeader, Envelope, Kinds
<1>2. DrainTimeout \in Nat /\ DrainTimeout \in 0..DrainTimeout
  BY StreamAssumption
<1>3. header \in Envelope
  BY DEF TypeOK, Envelope
<1> QED
  BY <1>1, <1>2, <1>3, Zenon DEF TypeOK

Outcomes == {"end", "too_large", "undecodable", "incomplete", "failed"}

(* The stream ends, or the handler drops it, and what it had assembled     *)
(* goes.                                                                   *)
LEMMA LetGo ==
    ASSUME StreamInv, owner = "stream", owner' \in {"drain", "none"}, Forget,
           UNCHANGED <<wire, read, delivered>>, pc' = "idle", held' \in BOOLEAN,
           outcome' \in Outcomes \cup {outcome}, drained' \in Nat, timeLeft' \in 0..DrainTimeout,
           SplitIndependent'
    PROVE  StreamInv'
<1>t. TypeOK
  BY DEF StreamInv
<1>1. TypeOK'
  <2>1. /\ frame' = 0 /\ headerLen' = 0 /\ header' = NoHeader /\ filled' = 0 /\ capacity' = 0
    BY DEF Forget
  <2>2. 0 \in Nat /\ 0 <= read' /\ 0 <= HeaderSize /\ 0 <= NoHeader.len
    BY <1>t, Types, OtherTypes
  <2>3. outcome' \in {"none", "end", "too_large", "undecodable", "incomplete", "failed"}
    BY <1>t, OtherTypes DEF Outcomes
  <2> QED
    BY <1>t, <2>1, <2>2, <2>3, Types, OtherTypes, TypesNext
<1>2. OwnerInv'
  BY DEF OwnerInv, Forget
<1>3. AssemblyInv'
  BY AssemblyForgotten
<1>4. PositionInv'
  BY DEF PositionInv
<1> QED
  BY <1>1, <1>2, <1>3, <1>4 DEF StreamInv

(* A step that leaves the decoder alone.                                   *)
LEMMA Elsewhere ==
    ASSUME StreamInv, UNCHANGED <<sent, frame, assembler, delivered, outcome>>,
           arrived' \in Nat, arrived' <= Last, read' \in Nat, read' <= arrived', frame <= read',
           owner = "stream" => read' = read,
           close = "no" \/ UNCHANGED <<close, arrived>>, close' \in {"no", "eof", "error"},
           owner' \in {"stream", "drain", "none"},
           owner' = "stream" <=> owner = "stream",
           pc' \in {"idle", "decode", "read"},
           pc' # "idle" => owner = "stream" /\ held' /\ (pc' = "read" => frame = 0),
           held' \in BOOLEAN, drained' \in Nat, timeLeft' \in 0..DrainTimeout
    PROVE  StreamInv'
<1>t. TypeOK /\ SplitIndependent
  BY DEF StreamInv
<1>1. TypeOK'
  BY <1>t, Types, OtherTypes, TypesNext
<1>2. OwnerInv'
  BY DEF StreamInv, OwnerInv
<1>3. AssemblyInv'
  BY AssemblyKept DEF StreamInv
<1>4. PositionInv'
  <2>1. Start(Len(delivered) + 1)' = Start(Len(delivered) + 1)
    BY SameStart
  <2> QED
    BY <2>1 DEF StreamInv, PositionInv, Position
<1>5. SplitIndependent'
  BY <1>t, SplitKept
<1> QED
  BY <1>1, <1>2, <1>3, <1>4, <1>5 DEF StreamInv

-----------------------------------------------------------------------------
(* The frame ends inside a header.                                         *)
LEMMA HeaderPartStep == StreamInv /\ DecodeHeaderPart => StreamInv'
<1> SUFFICES ASSUME StreamInv, DecodeHeaderPart PROVE StreamInv'
  OBVIOUS
<1>t. TypeOK /\ OwnerInv /\ AssemblyInv /\ PositionInv /\ SplitIndependent
  BY DEF StreamInv
<1>n. PICK n \in Nat : n = Len(delivered)
  BY <1>t, Types
<1>0. /\ arrived \in Nat /\ arrived <= Last /\ read \in Nat /\ read <= arrived
      /\ frame \in Nat /\ frame <= read
      /\ headerLen \in Nat /\ headerLen <= HeaderSize /\ HeaderSize \in Nat /\ HeaderSize > 0
      /\ filled \in Nat /\ capacity \in Nat
      /\ filled <= header.len /\ capacity <= header.len
      /\ header \in Envelope /\ header.len \in Nat /\ delivered \in Seq(Offsets)
  BY <1>t, Types, OtherTypes
<1>1. /\ n <= Len(sent) /\ Len(sent) \in Nat /\ Start(n + 1) \in Nat
      /\ n = Len(sent) => Start(n + 1) = Last
      /\ n < Len(sent) => /\ sent[n + 1] \in Envelope /\ sent[n + 1].len \in Nat
                          /\ Start(n + 2) = Start(n + 1) + HeaderSize + sent[n + 1].len
                          /\ Start(n + 2) \in Nat /\ Start(n + 2) <= Last
  BY <1>t, <1>n, Types, NextEnvelope
<1>w. \A k : Start(k)' = Start(k)
  BY SameStart DEF DecodeHeaderPart
<1>2. /\ pc = "decode" /\ owner = "stream" /\ held /\ outcome = "none"
      /\ headerLen + TakeHeader < HeaderSize /\ headerLen' = headerLen + TakeHeader
      /\ frame' = 0 /\ pc' = "read"
      /\ UNCHANGED <<wire, owner, read, header, filled, capacity, held, delivered, outcome, drain>>
  BY <1>t DEF DecodeHeaderPart, OwnerInv
<1>3. TakeHeader = frame /\ headerLen < HeaderSize
  BY <1>0, <1>2 DEF TakeHeader, Least
<1>4. header = NoHeader /\ filled = 0 /\ capacity = 0
  BY <1>t, <1>0, <1>3 DEF AssemblyInv
<1>5. read - frame = Start(n + 1) + headerLen
  BY <1>t, <1>n, <1>0, <1>1, <1>2, <1>4 DEF PositionInv, Position
<1>6. TypeOK'
  <2>1. headerLen' \in Nat /\ headerLen' <= HeaderSize /\ frame' \in Nat /\ frame' <= read'
    BY <1>0, <1>2, <1>3
  <2> QED
    BY <1>t, <1>0, <1>2, <2>1, OtherTypes, TypesNext
<1>7. OwnerInv'
  BY <1>2 DEF OwnerInv
<1>8. AssemblyInv'
  BY <1>0, <1>2, <1>4 DEF AssemblyInv
<1>9. PositionInv'
  <2>1. read' - frame' = Start(n + 1) + headerLen' + filled'
    <3>2. read \in Nat /\ frame \in Nat /\ headerLen \in Nat /\ Start(n + 1) \in Nat
      BY <1>0, <1>1
    <3>3. PICK b \in Nat : b = Start(n + 1)
      BY <3>2
    <3>4. read - frame = b + headerLen
      BY <1>5, <3>3
    <3>5. read - 0 = b + (headerLen + frame) + 0
      BY <3>2, <3>4
    <3> QED
      BY <1>2, <1>3, <1>4, <3>3, <3>5
  <2>2. Len(delivered') + 1 = n + 1
    BY <1>n, <1>2
  <2> QED
    BY <1>w, <2>1, <2>2 DEF PositionInv, Position
<1>10. SplitIndependent'
  BY <1>t, <1>2, SplitKept
<1> QED
  BY <1>6, <1>7, <1>8, <1>9, <1>10 DEF StreamInv

(* The frame ends inside a payload: what is allocated for it is at most    *)
(* its declared length and twice what has arrived of it.                   *)
LEMMA PayloadPartStep == StreamInv /\ DecodePayloadPart => StreamInv'
<1> SUFFICES ASSUME StreamInv, DecodePayloadPart PROVE StreamInv'
  OBVIOUS
<1>t. TypeOK /\ OwnerInv /\ AssemblyInv /\ PositionInv /\ SplitIndependent
  BY DEF StreamInv
<1>n. PICK n \in Nat : n = Len(delivered)
  BY <1>t, Types
<1>0. /\ arrived \in Nat /\ arrived <= Last /\ read \in Nat /\ read <= arrived
      /\ frame \in Nat /\ frame <= read
      /\ headerLen \in Nat /\ headerLen <= HeaderSize /\ HeaderSize \in Nat /\ HeaderSize > 0
      /\ filled \in Nat /\ capacity \in Nat
      /\ filled <= header.len /\ capacity <= header.len
      /\ header \in Envelope /\ header.len \in Nat /\ delivered \in Seq(Offsets)
  BY <1>t, Types, OtherTypes
<1>1. /\ n <= Len(sent) /\ Len(sent) \in Nat /\ Start(n + 1) \in Nat
      /\ n = Len(sent) => Start(n + 1) = Last
      /\ n < Len(sent) => /\ sent[n + 1] \in Envelope /\ sent[n + 1].len \in Nat
                          /\ Start(n + 2) = Start(n + 1) + HeaderSize + sent[n + 1].len
                          /\ Start(n + 2) \in Nat /\ Start(n + 2) <= Last
  BY <1>t, <1>n, Types, NextEnvelope
<1>w. \A k : Start(k)' = Start(k)
  BY SameStart DEF DecodePayloadPart
<1> DEFINE take == TakePayload(Declared, LeftAfter)
<1>2. /\ pc = "decode" /\ owner = "stream" /\ held /\ outcome = "none"
      /\ headerLen + TakeHeader = HeaderSize
      /\ headerLen < HeaderSize => ~ExceedsLimit(Declared)
      /\ filled + take < Declared.len /\ headerLen' = HeaderSize /\ header' = Declared
      /\ filled' = filled + take /\ capacity' = CapacityAfter(Declared, take)
      /\ frame' = 0 /\ pc' = "read"
      /\ UNCHANGED <<wire, owner, read, held, delivered, outcome, drain>>
  BY <1>t DEF DecodePayloadPart, InPayload, OwnerInv
<1>3. /\ n < Len(sent) /\ Declared = sent[n + 1]
      /\ LeftAfter \in Nat /\ LeftAfter <= frame
      /\ read - LeftAfter = Start(n + 1) + HeaderSize + filled
      /\ filled <= Declared.len /\ capacity <= Declared.len /\ capacity <= 2 * filled
      /\ headerLen = HeaderSize => ~ExceedsLimit(Declared)
  BY <1>n, <1>2, HeaderDeclares
<1> DEFINE l == Declared.len
<1>4. l \in Nat /\ Declared \in Envelope
  BY <1>1, <1>3
<1>5. take = LeftAfter
  BY <1>0, <1>2, <1>3, <1>4 DEF TakePayload, Least
<1> HIDE DEF take, l
<1>6. filled' \in Nat /\ filled' < l /\ filled' = filled + LeftAfter
  <2>1. filled' = filled + LeftAfter /\ filled + LeftAfter < l
    BY <1>2, <1>5, Zenon DEF l
  <2>2. filled \in Nat /\ LeftAfter \in Nat
    BY <1>0, <1>3, Zenon
  <2>3. filled + LeftAfter \in Nat
    BY <2>2
  <2> QED
    BY <2>1, <2>3, Zenon
<1>7. capacity' \in Nat /\ capacity' <= l /\ capacity' <= 2 * filled'
  <2>1. /\ filled \in Nat /\ capacity \in Nat /\ LeftAfter \in Nat /\ l \in Nat
        /\ filled <= l /\ capacity <= l /\ capacity <= 2 * filled
        /\ filled' = filled + LeftAfter /\ filled' < l
    BY <1>0, <1>3, <1>4, <1>6 DEF l
  <2>2. capacity' = IF l <= SlabHalf THEN 0
                    ELSE IF capacity - filled < LeftAfter
                         THEN Least(l, Greatest(2 * capacity, filled + LeftAfter)) ELSE capacity
    BY <1>2, <1>5 DEF CapacityAfter, Grow, l
  <2>3. CASE capacity' = 0
    BY <2>1, <2>3
  <2>4. CASE capacity' = capacity
    BY <2>1, <2>4
  <2>5. CASE /\ capacity - filled < LeftAfter
             /\ capacity' = Least(l, Greatest(2 * capacity, filled + LeftAfter))
    BY <2>1, <2>5 DEF Least, Greatest
  <2> QED
    BY <2>2, <2>3, <2>4, <2>5
<1>8. ~ExceedsLimit(Declared)
  BY <1>0, <1>2, <1>3
<1>9. TypeOK'
  <2>1. /\ headerLen' \in Nat /\ headerLen' <= HeaderSize /\ frame' \in Nat /\ frame' <= read'
        /\ header' \in Envelope /\ filled' <= header'.len /\ capacity' <= header'.len
    BY <1>0, <1>2, <1>4, <1>6, <1>7 DEF l
  <2> QED
    BY <1>t, <1>0, <1>2, <1>6, <1>7, <2>1, OtherTypes, TypesNext
<1>10. OwnerInv'
  BY <1>2 DEF OwnerInv
<1>11. AssemblyInv'
  <2>1. capacity' <= Least(header'.len, 2 * filled')
    BY <1>2, <1>7 DEF Least, l
  <2>2. /\ Len(delivered') = n /\ n < Len(sent') /\ header' = sent'[n + 1] /\ filled' < header'.len
        /\ ~ExceedsLimit(header') /\ headerLen' = HeaderSize
    BY <1>n, <1>2, <1>3, <1>6, <1>8 DEF l, ExceedsLimit
  <2> QED
    BY <2>1, <2>2 DEF AssemblyInv, ExceedsLimit
<1>12. PositionInv'
  <2>1. /\ read \in Nat /\ LeftAfter \in Nat /\ HeaderSize \in Nat /\ filled \in Nat
        /\ Start(n + 1) \in Nat /\ read - LeftAfter = Start(n + 1) + HeaderSize + filled
    BY <1>0, <1>1, <1>3
  <2>2. \A r, a, h, f, b \in Nat : r - a = b + h + f => r - 0 = b + h + (f + a)
    OBVIOUS
  <2>3. read - 0 = Start(n + 1) + HeaderSize + (filled + LeftAfter)
    BY <2>1, <2>2
  <2>4. read' - frame' = Start(n + 1) + headerLen' + filled'
    BY <1>2, <1>6, <2>3
  <2>5. Len(delivered') + 1 = n + 1
    BY <1>n, <1>2
  <2> QED
    BY <1>w, <2>4, <2>5 DEF PositionInv, Position
<1>13. SplitIndependent'
  BY <1>t, <1>2, SplitKept
<1> QED
  BY <1>9, <1>10, <1>11, <1>12, <1>13 DEF StreamInv

(* The envelope is complete: it is the next one, and so is what follows.   *)
LEMMA CompleteAt ==
    ASSUME StreamInv, InPayload, filled + TakePayload(Declared, LeftAfter) = Declared.len
    PROVE  LET n    == Len(delivered)
               left == LeftAfter - TakePayload(Declared, LeftAfter)
           IN  /\ n < Len(sent) /\ Declared = sent[n + 1] /\ ~ExceedsLimit(Declared)
               /\ left \in Nat /\ left <= frame /\ read - left = Start(n + 2)
               /\ Start(n + 2) - Declared.len = Start(n + 1) + HeaderSize
<1>t. TypeOK /\ OwnerInv /\ AssemblyInv /\ PositionInv /\ SplitIndependent
  BY DEF StreamInv
<1>n. PICK n \in Nat : n = Len(delivered)
  BY <1>t, Types
<1>0. /\ arrived \in Nat /\ arrived <= Last /\ read \in Nat /\ read <= arrived
      /\ frame \in Nat /\ frame <= read
      /\ headerLen \in Nat /\ headerLen <= HeaderSize /\ HeaderSize \in Nat /\ HeaderSize > 0
      /\ filled \in Nat /\ capacity \in Nat
      /\ filled <= header.len /\ capacity <= header.len
      /\ header \in Envelope /\ header.len \in Nat /\ delivered \in Seq(Offsets)
  BY <1>t, Types, OtherTypes
<1>1. /\ n <= Len(sent) /\ Len(sent) \in Nat /\ Start(n + 1) \in Nat
      /\ n = Len(sent) => Start(n + 1) = Last
      /\ n < Len(sent) => /\ sent[n + 1] \in Envelope /\ sent[n + 1].len \in Nat
                          /\ Start(n + 2) = Start(n + 1) + HeaderSize + sent[n + 1].len
                          /\ Start(n + 2) \in Nat /\ Start(n + 2) <= Last
  BY <1>t, <1>n, Types, NextEnvelope
<1>2. /\ pc = "decode" /\ headerLen + TakeHeader = HeaderSize
      /\ headerLen < HeaderSize => ~ExceedsLimit(Declared)
  BY DEF InPayload
<1>3. /\ n < Len(sent) /\ Declared = sent[n + 1]
      /\ LeftAfter \in Nat /\ LeftAfter <= frame
      /\ read - LeftAfter = Start(n + 1) + HeaderSize + filled
      /\ filled <= Declared.len
      /\ headerLen = HeaderSize => ~ExceedsLimit(Declared)
  BY <1>n, <1>2, HeaderDeclares
<1>4. ~ExceedsLimit(Declared)
  BY <1>0, <1>2, <1>3
<1>5. PICK b \in Nat : b = Start(n + 1)
  BY <1>1
<1>6. PICK e \in Nat : e = Start(n + 2)
  BY <1>1, <1>3
<1>7. PICK l \in Nat : l = Declared.len
  BY <1>1, <1>3
<1>8. PICK a \in Nat : a = LeftAfter
  BY <1>3
<1>9. PICK take \in Int : take = TakePayload(Declared, LeftAfter)
  BY <1>0, <1>3, <1>7, <1>8 DEF TakePayload, Least
<1>10. e = b + HeaderSize + l /\ read - a = b + HeaderSize + filled /\ a <= frame /\ filled <= l
  BY <1>1, <1>3, <1>5, <1>6, <1>7, <1>8
<1>11. filled + take = l /\ take = IF l - filled < a THEN l - filled ELSE a
  BY <1>7, <1>8, <1>9 DEF TakePayload, Least
<1>12. read \in Nat /\ frame \in Nat /\ HeaderSize \in Nat /\ filled \in Nat
  BY <1>0
<1>13. a - take \in Nat /\ a - take <= frame /\ read - (a - take) = e
  BY <1>10, <1>11, <1>12
<1>14. e - l = b + HeaderSize
  BY <1>10, <1>12
<1> QED
  BY <1>n, <1>3, <1>4, <1>5, <1>6, <1>7, <1>8, <1>9, <1>13, <1>14

(* A message goes to the handler: it is the payload of the next envelope.  *)
LEMMA MessageStep == StreamInv /\ DecodeMessage => StreamInv'
<1> SUFFICES ASSUME StreamInv, DecodeMessage PROVE StreamInv'
  OBVIOUS
<1>t. TypeOK /\ OwnerInv /\ AssemblyInv /\ PositionInv /\ SplitIndependent
  BY DEF StreamInv
<1>n. PICK n \in Nat : n = Len(delivered)
  BY <1>t, Types
<1>0. /\ arrived \in Nat /\ arrived <= Last /\ read \in Nat /\ read <= arrived
      /\ frame \in Nat /\ frame <= read
      /\ headerLen \in Nat /\ headerLen <= HeaderSize /\ HeaderSize \in Nat /\ HeaderSize > 0
      /\ filled \in Nat /\ capacity \in Nat
      /\ filled <= header.len /\ capacity <= header.len
      /\ header \in Envelope /\ header.len \in Nat /\ delivered \in Seq(Offsets)
  BY <1>t, Types, OtherTypes
<1>1. /\ n <= Len(sent) /\ Len(sent) \in Nat /\ Start(n + 1) \in Nat
      /\ n = Len(sent) => Start(n + 1) = Last
      /\ n < Len(sent) => /\ sent[n + 1] \in Envelope /\ sent[n + 1].len \in Nat
                          /\ Start(n + 2) = Start(n + 1) + HeaderSize + sent[n + 1].len
                          /\ Start(n + 2) \in Nat /\ Start(n + 2) <= Last
  BY <1>t, <1>n, Types, NextEnvelope
<1>w. \A k : Start(k)' = Start(k)
  BY SameStart DEF DecodeMessage
<1> DEFINE left == LeftAfter - TakePayload(Declared, LeftAfter)
<1>2. /\ InPayload /\ filled + TakePayload(Declared, LeftAfter) = Declared.len
      /\ Declared.kind # "end" /\ ~Undecodable(Declared)
      /\ delivered' = Append(delivered, [from |-> read - left - Declared.len, to |-> read - left])
      /\ headerLen' = 0 /\ header' = NoHeader /\ filled' = 0 /\ capacity' = 0
      /\ frame' = left /\ pc' = "idle"
      /\ UNCHANGED <<wire, owner, read, held, outcome, drain>>
  BY DEF DecodeMessage, ResetHeader
<1>3. pc = "decode" /\ owner = "stream" /\ held /\ outcome = "none"
  BY <1>t, <1>2 DEF InPayload, OwnerInv
<1>4. /\ n < Len(sent) /\ Declared = sent[n + 1] /\ ~ExceedsLimit(Declared)
      /\ left \in Nat /\ left <= frame /\ read - left = Start(n + 2)
      /\ Start(n + 2) - Declared.len = Start(n + 1) + HeaderSize
  BY <1>n, <1>2, CompleteAt
<1> HIDE DEF left
<1>5. delivered' = Append(delivered, Payload(n + 1))
  <2>1. n + 1 + 1 = n + 2
    OBVIOUS
  <2>2. Payload(n + 1) = [from |-> Start(n + 1) + HeaderSize, to |-> Start(n + 2)]
    BY <2>1 DEF Payload
  <2> QED
    BY <1>2, <1>4, <2>2
<1>6. /\ Payload(n + 1) \in Offsets
  <2>1. /\ Start(n + 1) + HeaderSize \in Nat /\ Start(n + 1) + HeaderSize <= Start(n + 2)
        /\ Start(n + 2) \in Nat /\ Start(n + 2) <= Last
    <3>1. PICK b \in Nat, l \in Nat, e \in Nat :
                 b = Start(n + 1) /\ l = sent[n + 1].len /\ e = Start(n + 2)
      BY <1>1, <1>4
    <3>2. e = b + HeaderSize + l /\ e <= Last /\ HeaderSize \in Nat
      BY <1>0, <1>1, <1>4, <3>1
    <3>3. b + HeaderSize \in Nat /\ b + HeaderSize <= e
      BY <3>2
    <3> QED
      BY <3>1, <3>2, <3>3
  <2>2. Last \in Nat /\ n + 1 + 1 = n + 2
    BY <1>t, Types
  <2>3. Start(n + 1) + HeaderSize \in 0..Last /\ Start(n + 2) \in 0..Last
    BY <2>1, <2>2
  <2> QED
    BY <2>2, <2>3 DEF Payload, Offsets
<1>7. ~Terminal(n + 1)
  BY <1>2, <1>4 DEF Terminal
<1>8. TypeOK'
  <2>1. delivered' \in Seq(Offsets)
    BY <1>0, <1>5, <1>6
  <2>2. /\ headerLen' \in Nat /\ headerLen' <= HeaderSize /\ frame' \in Nat /\ frame' <= read'
    BY <1>0, <1>2, <1>4
  <2>3. /\ header' \in Envelope /\ filled' \in Nat /\ filled' <= header'.len
        /\ capacity' \in Nat /\ capacity' <= header'.len
    BY <1>t, <1>2, OtherTypes
  <2> QED
    BY <1>t, <1>0, <1>2, <2>1, <2>2, <2>3, OtherTypes, TypesNext
<1>9. OwnerInv'
  BY <1>2, <1>3 DEF OwnerInv
<1>10. AssemblyInv'
  BY <1>0, <1>2 DEF AssemblyInv
<1>11. PositionInv'
  <2>1. Len(delivered') = n + 1 /\ n + 1 + 1 = n + 2
    BY <1>0, <1>n, <1>5
  <2>2. read' - frame' = Start(n + 2) + 0 + 0
    <3>1. PICK e \in Nat : e = Start(n + 2)
      BY <1>1, <1>4
    <3>2. read' - frame' = e
      BY <1>2, <1>4, <3>1
    <3> QED
      BY <3>1, <3>2
  <2> QED
    BY <1>2, <1>w, <2>1, <2>2 DEF PositionInv, Position
<1>12. SplitIndependent'
  <2>1. SplitIndependent /\ TypeOK /\ UNCHANGED <<sent, outcome>>
    BY <1>t, <1>2
  <2> QED
    BY <1>n, <1>3, <1>4, <1>5, <1>7, <2>1, SplitDelivers
<1> QED
  BY <1>8, <1>9, <1>10, <1>11, <1>12 DEF StreamInv

(* The decoder ends the stream at the envelope that calls for it.          *)
LEMMA DecodeEnds ==
    StreamInv /\ (DecodeTooLarge \/ DecodeEnd \/ DecodeFails) => StreamInv'
<1> SUFFICES ASSUME StreamInv, DecodeTooLarge \/ DecodeEnd \/ DecodeFails PROVE StreamInv'
  OBVIOUS
<1>t. TypeOK /\ OwnerInv /\ SplitIndependent
  BY DEF StreamInv
<1>e. ASSUME NEW result \in {"too_large", "undecodable", "end"}, NEW left \in Nat,
             pc = "decode", EndWith(result, left),
             Len(delivered) < Len(sent), Terminal(Len(delivered) + 1),
             ResultOf(sent[Len(delivered) + 1]) = result
      PROVE  StreamInv'
  <2>1. /\ outcome' = result /\ pc' = "idle" /\ Forget /\ UNCHANGED <<wire, read, held, delivered>>
        /\ drained' = left /\ owner' \in {"drain", "none"} /\ timeLeft' = DrainTimeout
    BY <1>e DEF EndWith, Finish
  <2>2. SplitIndependent'
    BY <1>e, <1>t, <2>1, SplitEnds
  <2>3. owner = "stream" /\ held' \in BOOLEAN /\ timeLeft' \in 0..DrainTimeout
    BY <1>e, <1>t, <2>1, OtherTypes DEF OwnerInv
  <2>4. outcome' \in Outcomes \cup {outcome}
    BY <2>1 DEF Outcomes
  <2> QED
    BY <2>1, <2>2, <2>3, <2>4, LetGo
<1>1. CASE DecodeTooLarge
  <2>1. /\ pc = "decode" /\ headerLen + TakeHeader = HeaderSize /\ ExceedsLimit(Declared)
        /\ EndWith("too_large", LeftAfter)
    BY <1>1 DEF DecodeTooLarge
  <2>2. Len(delivered) < Len(sent) /\ Declared = sent[Len(delivered) + 1] /\ LeftAfter \in Nat
    BY <2>1, HeaderDeclares
  <2>3. Terminal(Len(delivered) + 1) /\ ResultOf(sent[Len(delivered) + 1]) = "too_large"
    BY <2>1, <2>2 DEF Terminal, ResultOf
  <2> QED
    BY <1>e, <2>1, <2>2, <2>3
<1> DEFINE left == LeftAfter - TakePayload(Declared, LeftAfter)
<1>2. CASE DecodeEnd
  <2>1. /\ InPayload /\ filled + TakePayload(Declared, LeftAfter) = Declared.len
        /\ Declared.kind = "end" /\ EndWith("end", left) /\ pc = "decode"
    BY <1>2 DEF DecodeEnd, InPayload
  <2>2. /\ Len(delivered) < Len(sent) /\ Declared = sent[Len(delivered) + 1] /\ left \in Nat
        /\ ~ExceedsLimit(Declared)
    BY <2>1, CompleteAt
  <2>3. Terminal(Len(delivered) + 1) /\ ResultOf(sent[Len(delivered) + 1]) = "end"
    BY <2>1, <2>2 DEF Terminal, ResultOf
  <2> QED
    BY <1>e, <2>1, <2>2, <2>3
<1>3. CASE DecodeFails
  <2>1. /\ InPayload /\ filled + TakePayload(Declared, LeftAfter) = Declared.len
        /\ Undecodable(Declared) /\ EndWith("undecodable", left) /\ pc = "decode"
    BY <1>3 DEF DecodeFails, InPayload
  <2>2. /\ Len(delivered) < Len(sent) /\ Declared = sent[Len(delivered) + 1] /\ left \in Nat
        /\ ~ExceedsLimit(Declared)
    BY <2>1, CompleteAt
  <2>3. Declared.kind # "end"
    BY <2>1 DEF Undecodable
  <2>4. Terminal(Len(delivered) + 1) /\ ResultOf(sent[Len(delivered) + 1]) = "undecodable"
    BY <2>1, <2>2, <2>3 DEF Terminal, ResultOf
  <2> QED
    BY <1>e, <2>1, <2>2, <2>4
<1> QED
  BY <1>1, <1>2, <1>3

(* A frame of any size.                                                    *)
LEMMA ReadFrameStep ==
    ASSUME StreamInv, NEW m \in 0..(arrived - read), ReadFrame(m)
    PROVE  StreamInv'
<1>t. TypeOK /\ OwnerInv /\ AssemblyInv /\ PositionInv /\ SplitIndependent
  BY DEF StreamInv
<1>n. PICK n \in Nat : n = Len(delivered)
  BY <1>t, Types
<1>0. /\ arrived \in Nat /\ arrived <= Last /\ read \in Nat /\ read <= arrived
      /\ frame \in Nat /\ frame <= read
      /\ headerLen \in Nat /\ headerLen <= HeaderSize /\ HeaderSize \in Nat /\ HeaderSize > 0
      /\ filled \in Nat /\ capacity \in Nat
      /\ filled <= header.len /\ capacity <= header.len
      /\ header \in Envelope /\ header.len \in Nat /\ delivered \in Seq(Offsets)
  BY <1>t, Types, OtherTypes
<1>1. /\ n <= Len(sent) /\ Len(sent) \in Nat /\ Start(n + 1) \in Nat
      /\ n = Len(sent) => Start(n + 1) = Last
      /\ n < Len(sent) => /\ sent[n + 1] \in Envelope /\ sent[n + 1].len \in Nat
                          /\ Start(n + 2) = Start(n + 1) + HeaderSize + sent[n + 1].len
                          /\ Start(n + 2) \in Nat /\ Start(n + 2) <= Last
  BY <1>t, <1>n, Types, NextEnvelope
<1>w. \A k : Start(k)' = Start(k)
  BY SameStart DEF ReadFrame
<1>2. /\ pc = "read" /\ m <= arrived - read /\ read' = read + m /\ frame' = m /\ pc' = "decode"
      /\ owner = "stream" /\ held /\ outcome = "none" /\ frame = 0
      /\ UNCHANGED <<wire, owner, assembler, held, delivered, outcome, drain>>
  BY <1>t DEF ReadFrame, OwnerInv
<1>3. m \in Nat /\ read' \in Nat /\ read' <= arrived /\ m <= read'
  BY <1>0, <1>2
<1>4. TypeOK'
  BY <1>t, <1>0, <1>2, <1>3, OtherTypes, TypesNext
<1>5. OwnerInv'
  BY <1>2 DEF OwnerInv
<1>6. AssemblyInv'
  BY <1>t, <1>2, AssemblyKept
<1>7. PositionInv'
  <2>1. read' - frame' = read - frame
    BY <1>0, <1>2, <1>3
  <2>2. read - frame = Start(n + 1) + headerLen + filled
    BY <1>t, <1>n, <1>2 DEF PositionInv, Position
  <2>3. Len(delivered') + 1 = n + 1
    BY <1>n, <1>2
  <2> QED
    BY <1>2, <1>w, <2>1, <2>2, <2>3 DEF PositionInv, Position
<1>8. SplitIndependent'
  BY <1>t, <1>2, SplitKept
<1> QED
  BY <1>4, <1>5, <1>6, <1>7, <1>8 DEF StreamInv

(* The body ends under the decoder: between two envelopes, inside one, or  *)
(* with an error.                                                          *)
LEMMA BodyEnds == StreamInv /\ (ReadError \/ ReadEof) => StreamInv'
<1> SUFFICES ASSUME StreamInv, ReadError \/ ReadEof PROVE StreamInv'
  OBVIOUS
<1>t. TypeOK /\ OwnerInv /\ AssemblyInv /\ PositionInv /\ SplitIndependent
  BY DEF StreamInv
<1>n. PICK n \in Nat : n = Len(delivered)
  BY <1>t, Types
<1>0. /\ arrived \in Nat /\ arrived <= Last /\ read \in Nat /\ read <= arrived
      /\ frame \in Nat /\ frame <= read
      /\ headerLen \in Nat /\ headerLen <= HeaderSize /\ HeaderSize \in Nat /\ HeaderSize > 0
      /\ filled \in Nat /\ capacity \in Nat
      /\ filled <= header.len /\ capacity <= header.len
      /\ header \in Envelope /\ header.len \in Nat /\ delivered \in Seq(Offsets)
  BY <1>t, Types, OtherTypes
<1>1. /\ n <= Len(sent) /\ Len(sent) \in Nat /\ Start(n + 1) \in Nat
      /\ n = Len(sent) => Start(n + 1) = Last
      /\ n < Len(sent) => /\ sent[n + 1] \in Envelope /\ sent[n + 1].len \in Nat
                          /\ Start(n + 2) = Start(n + 1) + HeaderSize + sent[n + 1].len
                          /\ Start(n + 2) \in Nat /\ Start(n + 2) <= Last
  BY <1>t, <1>n, Types, NextEnvelope
<1>e. ASSUME NEW result \in Outcomes, EndWithBody(result), pc = "read", SplitIndependent'
      PROVE  StreamInv'
  <2>1. /\ outcome' = result /\ pc' = "idle" /\ owner' = "none" /\ Forget
        /\ UNCHANGED <<wire, read, held, delivered, drain>>
    BY <1>e DEF EndWithBody
  <2>2. /\ owner = "stream" /\ held' \in BOOLEAN /\ timeLeft' \in 0..DrainTimeout
        /\ drained' \in Nat
    BY <1>e, <1>t, <2>1, OtherTypes DEF OwnerInv
  <2> QED
    BY <1>e, <2>1, <2>2, LetGo
<1>2. CASE ReadError
  <2>1. pc = "read" /\ close = "error" /\ EndWithBody("failed")
    BY <1>2 DEF ReadError
  <2>2. SplitIndependent'
    BY <1>t, <2>1, SplitEnds DEF EndWithBody
  <2> QED
    BY <1>e, <2>1, <2>2 DEF Outcomes
<1>3. CASE ReadEof
  <2>1. pc = "read" /\ close = "eof" /\ read = arrived /\ frame = 0 /\ owner = "stream"
    BY <1>t, <1>3 DEF ReadEof, BodyEnded, OwnerInv
  <2>2. PICK b \in Nat : b = Start(n + 1)
    BY <1>1
  <2>3. arrived = b + headerLen + filled
    BY <1>t, <1>n, <1>0, <2>1, <2>2 DEF PositionInv, Position
  <2>4. CASE headerLen = 0
    <3>1. filled = 0
      BY <1>t, <1>0, <2>4 DEF AssemblyInv
    <3>2. EndWithBody("end")
      BY <1>0, <1>3, <2>4 DEF ReadEof, FinishDecoder
    <3>3. arrived = Start(Len(delivered) + 1)
      BY <1>n, <2>2, <2>3, <2>4, <3>1
    <3>4. SplitIndependent'
      BY <1>t, <2>1, <3>2, <3>3, SplitEnds DEF EndWithBody
    <3> QED
      BY <1>e, <2>1, <3>2, <3>4 DEF Outcomes
  <2>5. CASE headerLen > 0
    <3>1. EndWithBody("incomplete")
      BY <1>3, <2>5 DEF ReadEof, FinishDecoder
    <3>2. n < Len(sent)
      BY <1>0, <1>1, <2>2, <2>3, <2>5
    <3>3. PICK l \in Nat, e \in Nat : l = sent[n + 1].len /\ e = Start(n + 2)
      BY <1>1, <3>2
    <3>4. e = b + HeaderSize + l
      BY <1>1, <2>2, <3>2, <3>3
    <3>5. CASE headerLen < HeaderSize
      <4>0. headerLen # HeaderSize
        BY <1>0, <3>5
      <4>1. filled = 0
        BY <1>t, <4>0, Zenon DEF AssemblyInv
      <4> QED
        <5>1. b < arrived /\ arrived < e
          BY <1>0, <2>3, <2>5, <3>4, <3>5, <4>1
        <5>2. Start(Len(delivered) + 1) < arrived /\ arrived < Start(Len(delivered) + 2)
          BY <1>n, <2>2, <3>3, <5>1
        <5>3. SplitIndependent'
          BY <1>t, <2>1, <3>1, <5>2, SplitEnds DEF EndWithBody
        <5> QED
          BY <1>e, <2>1, <3>1, <5>3 DEF Outcomes
    <3>6. CASE headerLen = HeaderSize
      <4>1. filled < l
        BY <1>t, <1>n, <1>0, <3>3, <3>6 DEF AssemblyInv
      <4> QED
        <5>1. b < arrived /\ arrived < e
          BY <1>0, <2>3, <2>5, <3>4, <3>6, <4>1
        <5>2. Start(Len(delivered) + 1) < arrived /\ arrived < Start(Len(delivered) + 2)
          BY <1>n, <2>2, <3>3, <5>1
        <5>3. SplitIndependent'
          BY <1>t, <2>1, <3>1, <5>2, SplitEnds DEF EndWithBody
        <5> QED
          BY <1>e, <2>1, <3>1, <5>3 DEF Outcomes
    <3> QED
      BY <1>0, <3>5, <3>6
  <2> QED
    BY <1>0, <2>4, <2>5
<1> QED
  BY <1>2, <1>3

(* Every step keeps the invariant.                                         *)
LEMMA StreamStep == StreamInv /\ [Next]_vars => StreamInv'
<1> SUFFICES ASSUME StreamInv, [Next]_vars PROVE StreamInv'
  OBVIOUS
<1>t. TypeOK /\ OwnerInv /\ SplitIndependent
  BY DEF StreamInv
<1>0. /\ arrived \in Nat /\ arrived <= Last /\ read \in Nat /\ read <= arrived /\ frame <= read
      /\ frame \in Nat /\ drained \in Nat /\ timeLeft \in 0..DrainTimeout
      /\ DrainTimeout \in 0..DrainTimeout /\ DrainTimeout \in Nat /\ Last \in Nat
      /\ close \in {"no", "eof", "error"} /\ owner \in {"stream", "drain", "none"}
      /\ pc \in {"idle", "decode", "read"} /\ held \in BOOLEAN
  BY <1>t, Types, OtherTypes
<1>o. /\ pc # "idle" => owner = "stream" /\ held
      /\ pc = "read" => frame = 0
      /\ owner # "stream" => frame = 0
  BY <1>t DEF OwnerInv
<1>1. CASE Poll
  BY <1>0, <1>o, <1>1, Elsewhere DEF Poll
<1>2. CASE Decode
  BY <1>2, HeaderPartStep, PayloadPartStep, MessageStep, DecodeEnds DEF Decode
<1>3. CASE ReadPending
  BY <1>0, <1>o, <1>3, Elsewhere DEF ReadPending
<1>4. CASE ReadError \/ ReadEof
  BY <1>4, BodyEnds
<1>5. ASSUME NEW m \in 0..(arrived - read), ReadFrame(m) PROVE StreamInv'
  BY <1>5, ReadFrameStep
<1>6. CASE HandlerDrops
  <2>1. held' = FALSE /\ pc = "idle" /\ UNCHANGED <<wire, read, pc, delivered, outcome>>
    BY <1>6 DEF HandlerDrops
  <2>2. CASE owner = "stream"
    <3>1. /\ Forget /\ drained' = frame /\ owner' \in {"drain", "none"}
          /\ timeLeft' = DrainTimeout
      BY <1>6, <2>2 DEF HandlerDrops, Finish
    <3>2. SplitIndependent'
      BY <1>t, <2>1, SplitKept
    <3>3. held' \in BOOLEAN /\ outcome' \in Outcomes \cup {outcome}
      BY <2>1
    <3> QED
      BY <1>0, <2>1, <2>2, <3>1, <3>2, <3>3, LetGo
  <2>3. CASE owner # "stream"
    <3>1. UNCHANGED <<owner, frame, assembler, drain>>
      BY <1>6, <2>3 DEF HandlerDrops
    <3> QED
      BY <1>0, <2>1, <2>3, <3>1, Elsewhere
  <2> QED
    BY <2>2, <2>3
<1>7. CASE DrainTimesOut \/ DrainOver
  <2>1. owner = "drain" /\ owner' = "none" /\ UNCHANGED <<wire, read, frame, assembler, stream, drain>>
    BY <1>7 DEF DrainTimesOut, DrainOver, StopDrain, DrainPolls
  <2> QED
    BY <1>0, <1>o, <2>1, Elsewhere
<1>8. ASSUME NEW m \in 0..(arrived - read), DrainFrame(m) PROVE StreamInv'
  <2>1. /\ owner = "drain" /\ owner' \in {"drain", "none"} /\ read' = read + m
        /\ drained' = drained + m /\ timeLeft' = timeLeft
        /\ UNCHANGED <<wire, frame, assembler, stream>>
    BY <1>8 DEF DrainFrame, DrainPolls, KeepTimer
  <2>2. read' \in Nat /\ read' <= arrived /\ frame <= read' /\ drained' \in Nat
    BY <1>0, <2>1
  <2> QED
    BY <1>0, <1>o, <2>1, <2>2, Elsewhere
<1>9. CASE Tick
  <2>1. timeLeft' \in 0..DrainTimeout
    BY <1>0, <1>9 DEF Tick
  <2> QED
    BY <1>0, <1>o, <1>9, <2>1, Elsewhere DEF Tick
<1>10. CASE ClientSends
  <2>1. arrived' \in Nat /\ arrived' <= Last /\ read <= arrived'
    BY <1>0, <1>10 DEF ClientSends
  <2> QED
    BY <1>0, <1>o, <1>10, <2>1, Elsewhere DEF ClientSends
<1>11. ASSUME NEW how \in {"eof", "error"}, ClientCloses(how) PROVE StreamInv'
  BY <1>0, <1>o, <1>11, Elsewhere DEF ClientCloses
<1>12. CASE UNCHANGED vars
  BY <1>0, <1>o, <1>12, Elsewhere
<1> QED
  BY <1>1, <1>2, <1>3, <1>4, <1>5, <1>6, <1>7, <1>8, <1>9, <1>10, <1>11, <1>12
  DEF Next, ReadBody, DrainTask, Finished

(* The invariant holds in every reachable state of the stream.             *)
LEMMA StreamInvariant == Spec => []StreamInv
<1>1. Init => StreamInv
  <2> SUFFICES ASSUME Init PROVE StreamInv
    OBVIOUS
  <2>0. sent \in Bodies /\ Bodies \in SUBSET Seq(Envelope)
    BY StreamAssumption DEF Init, Envelope
  <2>1. sent \in Seq(Envelope)
    BY <2>0
  <2>2. Len(sent) \in Nat /\ 1 \in 1..Len(sent) + 1 /\ Len(sent) + 1 \in 1..Len(sent) + 1
    BY <2>1
  <2>3. Start(1) = 0 /\ Last \in Nat
    BY <2>1, <2>2, StartUnfolds, StartIsNat DEF Last
  <2>4. /\ HeaderSize \in Nat /\ HeaderSize > 0 /\ DrainTimeout \in Nat
    BY StreamAssumption
  <2>5. TypeOK
    <3>1. header \in [kind : Kinds, len : Nat] /\ header.len = 0
      BY DEF Init, NoHeader, Kinds
    <3>2. /\ arrived \in 0..Last /\ read \in 0..arrived /\ frame \in 0..read
          /\ headerLen \in 0..HeaderSize /\ filled \in 0..header.len /\ capacity \in 0..header.len
          /\ timeLeft \in 0..DrainTimeout /\ drained \in Nat
      BY <2>3, <2>4, <3>1 DEF Init
    <3>3. delivered \in Seq([from : 0..Last, to : 0..Last])
      BY DEF Init
    <3> QED
      BY <2>0, <3>1, <3>2, <3>3 DEF TypeOK, Init
  <2>6. OwnerInv
    BY DEF Init, OwnerInv
  <2>7. AssemblyInv
    BY <2>4 DEF Init, AssemblyInv
  <2>8. PositionInv
    BY <2>3 DEF Init, PositionInv, Position
  <2>9. SplitIndependent
    BY <2>2 DEF Init, SplitIndependent, Decodable
  <2> QED
    BY <2>5, <2>6, <2>7, <2>8, <2>9 DEF StreamInv
<1> QED
  BY <1>1, StreamStep, PTL DEF Spec

(* Every variable of the request stream keeps its type.                    *)
THEOREM StreamTyped == Spec => []TypeOK
<1>1. StreamInv => TypeOK
  BY DEF StreamInv
<1> QED
  BY <1>1, StreamInvariant, PTL

(* What a handler gets depends on the bytes the client sent and not on how *)
(* the transport cut them into frames, for bodies of any length.           *)
THEOREM FramesDoNotMatter == Spec => []SplitIndependent
<1>1. StreamInv => SplitIndependent
  BY DEF StreamInv
<1> QED
  BY <1>1, StreamInvariant, PTL

(* A client that declares a large message and sends little of it makes the *)
(* assembler allocate little.                                              *)
THEOREM AllocationIsBounded == Spec => []AllocationBounded
<1>1. StreamInv => AllocationBounded
  <2> SUFFICES ASSUME StreamInv PROVE AllocationBounded
    OBVIOUS
  <2>1. /\ filled \in Nat /\ filled <= header.len /\ header.len \in Nat /\ capacity \in Nat
        /\ MaxMessage \in Nat /\ NoHeader.len = 0
    BY StreamAssumption, Types, OtherTypes DEF StreamInv
  <2>2. AssemblyInv
    BY DEF StreamInv
  <2>3. CASE header = NoHeader /\ filled = 0 /\ capacity = 0
    BY <2>1, <2>3 DEF AllocationBounded, Least
  <2>4. CASE ~ExceedsLimit(header) /\ capacity <= Least(header.len, 2 * filled)
    BY <2>1, <2>4 DEF AllocationBounded, ExceedsLimit
  <2> QED
    BY <2>2, <2>3, <2>4 DEF AssemblyInv
<1> QED
  BY <1>1, StreamInvariant, PTL

(* A body is let go of before its end only if it failed, if too much of it *)
(* was thrown away, or if the drain's time was up.                         *)
THEOREM BodyIsReadToEnd == Spec => []BodyReadToEnd
<1>1. Init => BodyReadToEnd
  BY DEF Init, BodyReadToEnd
<1>2. StreamInv /\ BodyReadToEnd /\ [Next]_vars => BodyReadToEnd'
  <2> SUFFICES ASSUME StreamInv, BodyReadToEnd, [Next]_vars, owner' = "none"
               PROVE  \/ close' = "eof" /\ read' = arrived'
                      \/ close' = "error" \/ drained' > MaxDrain \/ timeLeft' = 0
    BY DEF BodyReadToEnd, BodyEnded
  <2>o. pc # "idle" => owner = "stream"
    BY DEF StreamInv, OwnerInv
  <2>b. owner = "none" => \/ close = "eof" /\ read = arrived
                          \/ close = "error" \/ drained > MaxDrain \/ timeLeft = 0
    BY DEF BodyReadToEnd, BodyEnded
  <2>u. CASE /\ owner' = owner /\ UNCHANGED <<close, arrived, read, drain>>
    BY <2>b, <2>u
  <2>f. ASSUME NEW left, Finish(left), UNCHANGED <<wire, read>>
        PROVE  (close' = "eof" /\ read' = arrived') \/ drained' > MaxDrain
    BY <2>f DEF Finish, PastLimit, BodyEnded
  <2>e. ASSUME NEW result, NEW left, EndWith(result, left)
        PROVE  (close' = "eof" /\ read' = arrived') \/ drained' > MaxDrain
    BY <2>e, <2>f DEF EndWith
  <2>1. CASE Poll \/ DecodeHeaderPart \/ DecodePayloadPart \/ ReadPending \/ UNCHANGED vars
    BY <2>1, <2>u DEF Poll, DecodeHeaderPart, DecodePayloadPart, ReadPending
  <2>2. CASE DecodeMessage
    BY <2>2, <2>u DEF DecodeMessage
  <2>3. CASE DecodeTooLarge \/ DecodeEnd \/ DecodeFails
    BY <2>3, <2>e DEF DecodeTooLarge, DecodeEnd, DecodeFails
  <2>4. CASE ReadError \/ ReadEof
    BY <2>4 DEF ReadError, ReadEof, EndWithBody, BodyEnded
  <2>5. ASSUME NEW m \in 0..(arrived - read), ReadFrame(m)
        PROVE  FALSE
    BY <2>5, <2>o DEF ReadFrame
  <2>6. CASE HandlerDrops
    BY <2>6, <2>f, <2>u DEF HandlerDrops
  <2>7. CASE DrainTimesOut \/ DrainOver
    BY <2>7 DEF DrainTimesOut, DrainOver, StopDrain, BodyEnded
  <2>8. ASSUME NEW m \in 0..(arrived - read), DrainFrame(m)
        PROVE  drained' > MaxDrain
    BY <2>8 DEF DrainFrame, DrainPolls, PastLimit
  <2>9. CASE Tick
    BY <2>9 DEF Tick
  <2>10. CASE ClientSends
    BY <2>10, <2>b DEF ClientSends
  <2>11. ASSUME NEW how \in {"eof", "error"}, ClientCloses(how)
         PROVE  \/ close' = "eof" /\ read' = arrived'
                \/ close' = "error" \/ drained' > MaxDrain \/ timeLeft' = 0
    BY <2>11, <2>b DEF ClientCloses
  <2> QED
    BY <2>1, <2>2, <2>3, <2>4, <2>5, <2>6, <2>7, <2>8, <2>9, <2>10, <2>11
    DEF Next, Decode, ReadBody, DrainTask, Finished
<1> QED
  BY <1>1, <1>2, StreamInvariant, PTL DEF Spec
=============================================================================
