------------------------- MODULE SharedHttp2Proofs -------------------------
(***************************************************************************)
(* Theorems about SharedHttp2, for any finite set of requests, of either   *)
(* interface, any bound on the slots and any number of resends.            *)
(***************************************************************************)
EXTENDS SharedHttp2, FiniteSetTheorems, SequenceTheorems, WellFoundedInduction, TLAPS

Locals == [via : {"poll", "send"}, mine : Conns \cup {None},
           moved : BOOLEAN, resends : 0..MaxResends,
           failed : BOOLEAN, wire : Nat, during : BOOLEAN,
           missed : {"none", "before", "after"}]

(* The only connection that may be open, or about to close, is the one     *)
(* Reconnect is connected to.                                              *)
OpenInv == \A c \in Conns : conn[c] # "closed" => state = "Connected" /\ current = c

Distinct(s) == \A i, j \in 1..Len(s) : s[i] = s[j] => i = j

(* A request stands in line once.                                          *)
LineInv == Distinct(line) /\ SlotsHeldByWaiting

(* The lock's queue: while there is an attempt its task has the lock, for  *)
(* a request that awaits it or is gone; all others are in lock().await.    *)
Started(r) == pc[r] \in {"await", "cancelled"}

LockInv ==
    /\ Distinct(lock)
    /\ attempt # "none" => lock # <<>> /\ Started(lock[1])
    /\ \A i \in 1..Len(lock) : i > 1 \/ attempt = "none" => pc[lock[i]] = "lock"
    /\ \A r \in Requests : pc[r] = "await" => attempt # "none" /\ lock[1] = r

(* What a request that waits for the lock knows of the attempts since it   *)
(* loaded `attempts`.                                                      *)
Waits(r) == pc[r] \in {"enqueue", "lock"}

SharingInv ==
    \A r \in Requests :
      /\ me[r].failed => pc[r] = "ready"
      /\ Waits(r) =>
           /\ me[r].moved /\ lastFailure /\ attempt # "publish" => me[r].missed # "none"
           /\ me[r].missed = "after" => me[r].moved /\ lastFailure
           /\ ~me[r].during /\ attempt = "publish" => me[r].moved

-----------------------------------------------------------------------------
USE DEF shared, recon, vars

(* A nonempty set of natural numbers has a least element.                  *)
LEMMA LeastNumber ==
    ASSUME NEW T \in SUBSET Nat, T # {}
    PROVE  \E m \in T : \A n \in T : m <= n
<1>1. IsWellFoundedOn(OpToRel(<, Nat), Nat)
  BY NatLessThanWellFounded
<1>2. PICK m \in T : \A n \in T : ~(<<n, m>> \in OpToRel(<, Nat))
  BY <1>1, WFMin, Zenon
<1>3. \A n \in T : ~(n < m)
  BY <1>2 DEF OpToRel
<1>4. m \in Nat /\ \A n \in T : n \in Nat
  OBVIOUS
<1>5. \A n \in T : m <= n
  BY <1>3, <1>4
<1> QED
  BY <1>5, Zenon

(* RemoveAt closes the gap that an entry leaves.                           *)
LEMMA RemovedAt ==
    ASSUME NEW S, NEW s \in Seq(S), NEW k \in 1..Len(s)
    PROVE  /\ RemoveAt(s, k) \in Seq(S) /\ Len(RemoveAt(s, k)) = Len(s) - 1
           /\ \A i \in 1..Len(s) - 1 : RemoveAt(s, k)[i] = IF i < k THEN s[i] ELSE s[i + 1]
<1> DEFINE a == SubSeq(s, 1, k - 1)
           b == SubSeq(s, k + 1, Len(s))
<1>1. a \in Seq(S) /\ Len(a) = k - 1 /\ \A i \in 1..k - 1 : a[i] = s[i]
  OBVIOUS
<1>2. b \in Seq(S) /\ Len(b) = Len(s) - k /\ \A i \in 1..Len(s) - k : b[i] = s[k + i]
  OBVIOUS
<1> HIDE DEF a, b
<1>3. /\ a \o b \in Seq(S) /\ Len(a \o b) = Len(a) + Len(b)
      /\ \A i \in 1..Len(a) + Len(b) :
           (a \o b)[i] = IF i <= Len(a) THEN a[i] ELSE b[i - Len(a)]
  <2>1. a \in Seq(S) /\ b \in Seq(S)
    BY <1>1, <1>2
  <2> QED
    BY <2>1, ConcatProperties
<1>4. Len(a \o b) = Len(s) - 1
  BY <1>1, <1>2, <1>3
<1>5. ASSUME NEW i \in 1..Len(s) - 1
      PROVE  (a \o b)[i] = IF i < k THEN s[i] ELSE s[i + 1]
  <2>1. CASE i < k
    BY <1>1, <1>2, <1>3, <2>1
  <2>2. CASE ~(i < k)
    <3>1. i - Len(a) = i + 1 - k /\ i + 1 - k \in 1..Len(s) - k
      BY <1>1, <2>2
    <3>2. (a \o b)[i] = b[i + 1 - k]
      BY <1>1, <1>2, <1>3, <2>2, <3>1
    <3>3. b[i + 1 - k] = s[k + (i + 1 - k)]
      BY <1>2, <3>1
    <3>4. k + (i + 1 - k) = i + 1
      OBVIOUS
    <3> QED
      BY <2>2, <3>2, <3>3, <3>4
  <2> QED
    BY <2>1, <2>2
<1> QED
  BY <1>3, <1>4, <1>5 DEF RemoveAt, a, b

(* RemoveFirst takes an entry out and leaves the others in their order: a  *)
(* queue of distinct entries keeps that, and its head if another entry     *)
(* left.                                                                   *)
LEMMA Removed ==
    ASSUME NEW S, NEW s \in Seq(S), NEW r
    PROVE  /\ RemoveFirst(s, r) \in Seq(S)
           /\ \A i \in 1..Len(RemoveFirst(s, r)) :
                 \E j \in 1..Len(s) : i <= j /\ RemoveFirst(s, r)[i] = s[j]
           /\ Distinct(s) => /\ Distinct(RemoveFirst(s, r))
                             /\ \A i \in 1..Len(RemoveFirst(s, r)) : RemoveFirst(s, r)[i] # r
           /\ s # <<>> /\ s[1] # r => /\ RemoveFirst(s, r) # <<>>
                                     /\ RemoveFirst(s, r)[1] = s[1]
<1>1. CASE ~\E i \in 1..Len(s) : s[i] = r
  <2>1. RemoveFirst(s, r) = s
    BY <1>1 DEF RemoveFirst
  <2>2. \A i \in 1..Len(s) : i <= i
    OBVIOUS
  <2> QED
    BY <1>1, <2>1, <2>2
<1>2. CASE \E i \in 1..Len(s) : s[i] = r
  <2> DEFINE I == {i \in 1..Len(s) : s[i] = r}
             k == Min(I)
             t == RemoveFirst(s, r)
  <2>1. I # {} /\ I \in SUBSET Nat
    BY <1>2
  <2>2. \E m \in I : \A n \in I : m <= n
    BY <2>1, LeastNumber
  <2>3. k \in I
    BY <2>2 DEF Min
  <2>4. k \in 1..Len(s) /\ s[k] = r
    BY <2>3
  <2>5. t = RemoveAt(s, k)
    BY <1>2, <2>1, Zenon DEF RemoveFirst, SelectInSeq
  <2> HIDE DEF k, t
  <2>6. /\ t \in Seq(S) /\ Len(t) = Len(s) - 1
        /\ \A i \in 1..Len(s) - 1 : t[i] = IF i < k THEN s[i] ELSE s[i + 1]
    BY <2>4, <2>5, RemovedAt
  <2>7. t \in Seq(S) /\ Len(t) = Len(s) - 1
    BY <2>6
  <2>8. \A i \in 1..Len(t) : t[i] = IF i < k THEN s[i] ELSE s[i + 1]
    BY <2>6
  <2>9. \A i \in 1..Len(t) : \E j \in 1..Len(s) : i <= j /\ t[i] = s[j]
    BY <2>4, <2>7, <2>8
  <2> DEFINE p(i) == IF i < k THEN i ELSE i + 1
  <2>p. \A i \in 1..Len(t) : p(i) \in 1..Len(s) /\ p(i) # k /\ t[i] = s[p(i)]
    BY <2>4, <2>7, <2>8
  <2>q. \A i, j \in 1..Len(t) : p(i) = p(j) => i = j
    BY <2>4, <2>7
  <2> HIDE DEF p
  <2>10. ASSUME Distinct(s) PROVE Distinct(t)
    BY <2>p, <2>q, <2>10, Zenon DEF Distinct
  <2>11. ASSUME Distinct(s) PROVE \A i \in 1..Len(t) : t[i] # r
    BY <2>4, <2>p, <2>11, Zenon DEF Distinct
  <2>12. ASSUME s # <<>>, s[1] # r PROVE t # <<>> /\ t[1] = s[1]
    <3>1. k > 1 /\ Len(s) > 1
      BY <2>4, <2>12
    <3> QED
      BY <2>7, <2>8, <3>1
  <2> QED
    BY <2>7, <2>9, <2>10, <2>11, <2>12 DEF t
<1> QED
  BY <1>1, <1>2

(* A request's locals may be set one at a time.                            *)
LEMMA SetLocal ==
    ASSUME TypeOK, NEW r \in Requests, NEW l \in Locals, me' = [me EXCEPT ![r] = l]
    PROVE  me' \in [Requests -> Locals]
  BY DEF TypeOK, Locals

(* Each local of a request has its type, and may be given another value.   *)
LEMMA LocalTypes ==
    ASSUME NEW l \in Locals
    PROVE  /\ \A x \in {"poll", "send"} : [l EXCEPT !.via = x] \in Locals
           /\ \A x \in Conns \cup {None} : [l EXCEPT !.mine = x] \in Locals
           /\ \A x \in BOOLEAN : [l EXCEPT !.moved = x] \in Locals
           /\ \A x \in BOOLEAN : [l EXCEPT !.failed = x] \in Locals
           /\ \A x \in BOOLEAN : [l EXCEPT !.during = x] \in Locals
           /\ \A x \in Nat : [l EXCEPT !.wire = x] \in Locals
           /\ \A x \in 0..MaxResends : [l EXCEPT !.resends = x] \in Locals
           /\ \A x \in {"none", "before", "after"} : [l EXCEPT !.missed = x] \in Locals
  BY DEF Locals

Pcs == Terminal \cup Waiting \cup {"new", "slot", "ready", "joined", "load", "try", "hyper",
                                   "wire", "unsent", "retire"}

(* There is a first connection.                                            *)
LEMMA SomeConn == 1 \in Conns /\ None \notin Conns
  BY SharedAssumption, FS_CardinalityType DEF Conns, None

(* A request's locals before it starts.                                    *)
LEMMA FreshType == \A r \in Requests : Fresh(r) \in Locals
  BY SharedAssumption DEF Fresh, Locals

(* The step of a request r, its caller or hyper, touches no other          *)
(* request's program counter or locals, and keeps the types of its own.    *)
LEMMA OwnStep ==
    ASSUME TypeOK, NEW r \in Requests, Acquire(r) \/ Step(r) \/ Cancel(r) \/ Hyper(r)
    PROVE  \E x \in Pcs, l \in Locals : /\ pc' = [pc EXCEPT ![r] = x]
                                        /\ me' = [me EXCEPT ![r] = l]
<1>0. /\ me \in [Requests -> Locals] /\ me[r] \in Locals /\ Fresh(r) \in Locals
      /\ sender \in Conns \cup {None}
  BY FreshType DEF TypeOK, Locals
<1>g. ASSUME NEW x \in Pcs, Goto(r, x)
      PROVE  \E y \in Pcs, l \in Locals : pc' = [pc EXCEPT ![r] = y] /\ me' = [me EXCEPT ![r] = l]
  <2>1. me' = [me EXCEPT ![r] = me[r]]
    BY <1>0, <1>g DEF Goto
  <2> QED
    BY <1>0, <1>g, <2>1 DEF Goto
<1>f. ASSUME NEW x \in Pcs, Finish(r, x)
      PROVE  \E y \in Pcs, l \in Locals : pc' = [pc EXCEPT ![r] = y] /\ me' = [me EXCEPT ![r] = l]
  BY <1>0, <1>f DEF Finish
<1>h. ASSUME NEW c \in Conns \cup {None}, GetsHandle(r, c)
      PROVE  \E y \in Pcs, l \in Locals : pc' = [pc EXCEPT ![r] = y] /\ me' = [me EXCEPT ![r] = l]
  <2> DEFINE v == IF me[r].via = "poll" THEN None ELSE c
  <2>1. [me[r] EXCEPT !.mine = v] \in Locals
    BY <1>0, LocalTypes
  <2>2. me' = [me EXCEPT ![r] = [me[r] EXCEPT !.mine = v]]
    BY <1>h DEF GetsHandle
  <2>3. pc' = [pc EXCEPT ![r] = IF me[r].via = "poll" THEN "ready" ELSE "load"]
    BY <1>h DEF GetsHandle
  <2> QED
    BY <2>1, <2>2, <2>3 DEF Pcs
<1>e. ASSUME GetsFailure(r)
      PROVE  \E y \in Pcs, l \in Locals : pc' = [pc EXCEPT ![r] = y] /\ me' = [me EXCEPT ![r] = l]
  <2>1. CASE DefersFailure(r)
    <3>1. [me[r] EXCEPT !.failed = TRUE] \in Locals
      BY <1>0, LocalTypes
    <3>2. me' = [me EXCEPT ![r] = [me[r] EXCEPT !.failed = TRUE]]
      BY <2>1 DEF DefersFailure
    <3> QED
      BY <2>1, <3>1, <3>2 DEF DefersFailure, Pcs
  <2>2. CASE Finish(r, "failed")
    BY <1>f, <2>2 DEF Pcs, Terminal
  <2> QED
    BY <1>e, <2>1, <2>2 DEF GetsFailure
<1>1. CASE Acquire(r) \/ PollReady(r) \/ LockConn(r) \/ StartAttempt(r) \/ TrySend(r)
           \/ RetireSender(r) \/ HyperHandsBack(r)
  <2>1. \E x \in Pcs : Goto(r, x)
    BY <1>1 DEF Acquire, PollReady, LockConn, StartAttempt, TrySend, RetireSender,
                HyperHandsBack, Pcs, Waiting
  <2> QED
    BY <1>g, <2>1
<1>2. CASE Cancel(r) \/ Respond(r)
  <2>1. \E x \in Pcs : Finish(r, x)
    BY <1>2 DEF Cancel, Respond, Pcs, Terminal
  <2> QED
    BY <1>f, <2>1
<1>3. CASE Call(r)
  <2>1. CASE Finish(r, "failed")
    BY <1>f, <2>1 DEF Pcs, Terminal
  <2>2. CASE ~Finish(r, "failed")
    <3>1. [me[r] EXCEPT !.via = "send"] \in Locals
      BY <1>0, LocalTypes
    <3>2. me' = [me EXCEPT ![r] = [me[r] EXCEPT !.via = "send"]]
      BY <1>3, <2>2 DEF Call
    <3>3. pc' = [pc EXCEPT ![r] = "slot"]
      BY <1>3, <2>2 DEF Call
    <3> QED
      BY <3>1, <3>2, <3>3 DEF Pcs
  <2> QED
    BY <2>1, <2>2
<1>4. CASE LookUp(r)
  <2>1. CASE Goto(r, "seen")
    BY <1>g, <2>1 DEF Pcs, Waiting
  <2>2. CASE ~Goto(r, "seen")
    <3>1. [me[r] EXCEPT !.mine = sender] \in Locals
      BY <1>0, LocalTypes
    <3>2. me' = [me EXCEPT ![r] = [me[r] EXCEPT !.mine = sender]]
      BY <1>4, <2>2 DEF LookUp
    <3>3. pc' = [pc EXCEPT ![r] = "load"]
      BY <1>4, <2>2 DEF LookUp
    <3> QED
      BY <3>1, <3>2, <3>3 DEF Pcs
  <2> QED
    BY <2>1, <2>2
<1>5. CASE LoadSeen(r)
  <2> DEFINE l1 == [me[r] EXCEPT !.moved = FALSE]
             l2 == [l1 EXCEPT !.missed = "none"]
             l3 == [l2 EXCEPT !.during = (attempt # "none")]
  <2>1. l1 \in Locals
    BY <1>0, LocalTypes
  <2>2. l2 \in Locals
    BY <2>1, LocalTypes
  <2>3. l3 \in Locals
    BY <2>2, LocalTypes
  <2>4. me' = [me EXCEPT ![r] = l3] /\ pc' = [pc EXCEPT ![r] = "enqueue"]
    BY <1>5 DEF LoadSeen
  <2> QED
    BY <2>3, <2>4 DEF Pcs, Waiting
<1>6. CASE FindReconnected(r)
  BY <1>0, <1>h, <1>6 DEF FindReconnected
<1>7. CASE ShareFailure(r)
  BY <1>e, <1>7 DEF ShareFailure
<1>8. CASE Joined(r)
  <2>1. me[r].mine \in Conns \cup {None}
    BY <1>0 DEF Locals
  <2> QED
    BY <1>e, <1>h, <1>8, <2>1 DEF Joined
<1>9. CASE LoadGeneration(r)
  <2>1. [me[r] EXCEPT !.moved = FALSE] \in Locals
    BY <1>0, LocalTypes
  <2>2. me' = [me EXCEPT ![r] = [me[r] EXCEPT !.moved = FALSE]] /\ pc' = [pc EXCEPT ![r] = "try"]
    BY <1>9 DEF LoadGeneration
  <2> QED
    BY <2>1, <2>2 DEF Pcs
<1>10. CASE Unsent(r)
  <2>1. CASE Finish(r, "failed")
    BY <1>f, <2>1 DEF Pcs, Terminal
  <2>2. CASE ~Finish(r, "failed")
    <3> DEFINE l1 == [me[r] EXCEPT !.resends = me[r].resends + 1]
               l2 == [l1 EXCEPT !.mine = None]
               l3 == [l2 EXCEPT !.moved = FALSE]
    <3>0. MayResend(r)
      BY <1>10, <2>2 DEF Unsent
    <3>1. me[r].resends + 1 \in 0..MaxResends
      BY <1>0, <3>0, SharedAssumption DEF MayResend, Locals
    <3>2. l1 \in Locals
      BY <1>0, <3>1, LocalTypes
    <3>3. l2 \in Locals
      BY <3>2, LocalTypes
    <3>4. l3 \in Locals
      BY <3>3, LocalTypes
    <3>5. me' = [me EXCEPT ![r] = l3]
      BY <1>10, <2>2 DEF Unsent
    <3>6. pc' = [pc EXCEPT ![r] = IF me[r].moved THEN "seen" ELSE "retire"]
      BY <1>10, <2>2 DEF Unsent
    <3> QED
      BY <3>4, <3>5, <3>6 DEF Pcs, Waiting
  <2> QED
    BY <2>1, <2>2
<1>11. CASE HyperTakes(r)
  <2>1. me[r].wire + 1 \in Nat
    BY <1>0 DEF Locals
  <2>2. [me[r] EXCEPT !.wire = me[r].wire + 1] \in Locals
    BY <1>0, <2>1, LocalTypes
  <2>3. /\ me' = [me EXCEPT ![r] = [me[r] EXCEPT !.wire = me[r].wire + 1]]
        /\ pc' = [pc EXCEPT ![r] = "wire"]
    BY <1>11 DEF HyperTakes
  <2> QED
    BY <2>2, <2>3 DEF Pcs
<1> QED
  BY <1>1, <1>2, <1>3, <1>4, <1>5, <1>6, <1>7, <1>8, <1>9, <1>10, <1>11 DEF Step, Hyper

(* What the step of a request may do to the rest of the state.             *)
LEMMA OwnEffects ==
    ASSUME NEW r \in Requests, Acquire(r) \/ Step(r) \/ Cancel(r) \/ Hyper(r)
    PROVE  /\ line' = line \/ line' = Append(line, r) \/ line' = RemoveFirst(line, r)
           /\ \/ lock' = lock \/ lock' = Append(lock, r) \/ lock' = RemoveFirst(lock, r)
              \/ lock # <<>> /\ lock' = Tail(lock)
           /\ sender' = sender \/ sender' = None
           /\ attempt' = attempt \/ attempt' = "poll"
           /\ UNCHANGED <<lastFailure, state, current, deferred, result, conn>>
<1>1. CASE Acquire(r) \/ PollReady(r) \/ LookUp(r) \/ LoadSeen(r) \/ LockConn(r)
           \/ LoadGeneration(r) \/ TrySend(r) \/ Unsent(r) \/ RetireSender(r)
  BY <1>1 DEF Acquire, PollReady, LookUp, LoadSeen, LockConn, LoadGeneration, TrySend,
              Unsent, RetireSender
<1>2. CASE Call(r)
  BY <1>2 DEF Call
<1>3. CASE FindReconnected(r) \/ StartAttempt(r)
  BY <1>3 DEF FindReconnected, StartAttempt, HoldsLock
<1>4. CASE ShareFailure(r)
  BY <1>4 DEF ShareFailure, HoldsLock, GetsFailure, DefersFailure
<1>5. CASE Joined(r)
  BY <1>5 DEF Joined, GetsFailure, DefersFailure
<1>6. CASE Cancel(r)
  BY <1>6 DEF Cancel, UnlockOnDrop
<1>7. CASE Hyper(r)
  BY <1>7 DEF Hyper, HyperTakes, HyperHandsBack, Respond
<1> QED
  BY <1>1, <1>2, <1>3, <1>4, <1>5, <1>6, <1>7 DEF Step

(* The handle starts well typed, with nothing in its queues.               *)
LEMMA TypeInit == Init => TypeOK
<1> SUFFICES ASSUME Init PROVE TypeOK
  OBVIOUS
<1>1. lastFailure \in BOOLEAN /\ deferred \in BOOLEAN
  BY DEF Init
<1>2. me \in [Requests -> Locals]
  BY FreshType DEF Init
<1>3. /\ sender \in Conns \cup {None} /\ current \in Conns \cup {None}
      /\ result \in Conns \cup {None}
  BY SomeConn DEF Init
<1>4. conn \in [Conns -> {"open", "closing", "closed"}]
  BY DEF Init
<1>5. pc \in [Requests -> Pcs]
  BY DEF Init, Pcs
<1> QED
  BY <1>1, <1>2, <1>3, <1>4, <1>5 DEF Init, TypeOK, Locals, Pcs

(* Every step keeps the types; that Publish has a lock to give up is       *)
(* LockInv.                                                                *)
LEMMA TypeStep == TypeOK /\ LockInv /\ [Next]_vars => TypeOK'
<1> SUFFICES ASSUME TypeOK, LockInv, [Next]_vars
             PROVE  TypeOK'
  OBVIOUS
<1>0. /\ me \in [Requests -> Locals] /\ pc \in [Requests -> Pcs]
      /\ line \in Seq(Requests) /\ lock \in Seq(Requests)
  BY DEF TypeOK, Locals, Pcs
<1>1. ASSUME NEW r \in Requests, Acquire(r) \/ Step(r) \/ Cancel(r) \/ Hyper(r)
      PROVE  TypeOK'
  <2>1. me' \in [Requests -> Locals] /\ pc' \in [Requests -> Pcs]
    BY <1>0, <1>1, OwnStep
  <2>2. line' \in Seq(Requests)
    <3>1. RemoveFirst(line, r) \in Seq(Requests)
      BY <1>0, Removed
    <3>2. Append(line, r) \in Seq(Requests)
      BY <1>0
    <3>3. line' = line \/ line' = Append(line, r) \/ line' = RemoveFirst(line, r)
      BY <1>1, OwnEffects, Zenon
    <3>4. CASE line' = line
      BY <1>0, <3>4
    <3>5. CASE line' = Append(line, r)
      BY <3>2, <3>5, Zenon
    <3>6. CASE line' = RemoveFirst(line, r)
      BY <3>1, <3>6, Zenon
    <3> QED
      BY <3>3, <3>4, <3>5, <3>6
  <2>3. lock' \in Seq(Requests)
    <3>1. RemoveFirst(lock, r) \in Seq(Requests)
      BY <1>0, Removed
    <3>2. Append(lock, r) \in Seq(Requests) /\ (lock # <<>> => Tail(lock) \in Seq(Requests))
      BY <1>0
    <3>3. \/ lock' = lock \/ lock' = Append(lock, r) \/ lock' = RemoveFirst(lock, r)
          \/ lock # <<>> /\ lock' = Tail(lock)
      BY <1>1, OwnEffects, Zenon
    <3>4. CASE lock' = lock
      BY <1>0, <3>4
    <3>5. CASE lock' = Append(lock, r)
      BY <3>2, <3>5, Zenon
    <3>6. CASE lock' = RemoveFirst(lock, r)
      BY <3>1, <3>6, Zenon
    <3>7. CASE lock # <<>> /\ lock' = Tail(lock)
      BY <3>2, <3>7, Zenon
    <3> QED
      BY <3>3, <3>4, <3>5, <3>6, <3>7, Zenon
  <2>4. /\ sender' \in Conns \cup {None} /\ current' \in Conns \cup {None}
        /\ result' \in Conns \cup {None}
        /\ state' \in {"Idle", "Connecting", "Connected"}
        /\ attempt' \in {"none", "poll", "bump", "publish"}
        /\ conn' \in [Conns -> {"open", "closing", "closed"}]
    BY <1>1, OwnEffects DEF TypeOK
  <2>5. lastFailure' \in BOOLEAN /\ deferred' \in BOOLEAN
    <3>1. lastFailure' = lastFailure /\ deferred' = deferred
      BY <1>1, OwnEffects
    <3> QED
      BY <3>1 DEF TypeOK
  <2> QED
    BY <2>1, <2>2, <2>3, <2>4, <2>5 DEF TypeOK, Locals, Pcs
<1>2. CASE Dial \/ DialFails \/ PollConnected
  <2>1. UNCHANGED <<shared, conn, pc, me>>
    BY <1>2 DEF Dial, DialFails, PollConnected
  <2>2. deferred' \in BOOLEAN
    BY <1>2 DEF Dial, DialFails, PollConnected, TypeOK
  <2>3. /\ current' \in Conns \cup {None}
        /\ result' \in Conns \cup {None}
        /\ state' \in {"Idle", "Connecting", "Connected"}
        /\ attempt' \in {"none", "poll", "bump", "publish"}
    BY <1>2 DEF Dial, DialFails, PollConnected, AttemptHas, TypeOK
  <2> QED
    BY <2>1, <2>2, <2>3 DEF TypeOK
<1>3. CASE DialSucceeds
  <2>1. PICK c \in Conns : conn' = [conn EXCEPT ![c] = "open"] /\ current' = c
    BY <1>3 DEF DialSucceeds, Unused
  <2>2. /\ state' = "Connected"
        /\ UNCHANGED <<shared, deferred, attempt, result, pc, me>>
    BY <1>3 DEF DialSucceeds
  <2>3. conn' \in [Conns -> {"open", "closing", "closed"}]
    BY <2>1 DEF TypeOK
  <2> QED
    BY <2>1, <2>2, <2>3 DEF TypeOK
<1>4. CASE Bump
  <2>1. /\ attempt' = "publish"
        /\ UNCHANGED <<shared, state, current, deferred, result, conn, pc>>
    BY <1>4 DEF Bump
  <2>2. \A r \in Requests : [me[r] EXCEPT !.moved = TRUE] \in Locals
    BY <1>0, LocalTypes
  <2>3. me' \in [Requests -> Locals]
    BY <1>0, <1>4, <2>2 DEF Bump
  <2> QED
    BY <2>1, <2>3 DEF TypeOK, Locals
<1>5. CASE Publish
  <2>1. /\ attempt' = "none" /\ result' = None
        /\ sender' \in {sender, result}
        /\ lock # <<>> /\ lock' = Tail(lock)
        /\ UNCHANGED <<line, state, current, deferred, conn>>
    BY <1>5 DEF Publish, LockInv
  <2>2. lastFailure' \in BOOLEAN
    BY <1>5 DEF Publish
  <2>3. pc' \in [Requests -> Pcs]
    BY <1>0, <1>5 DEF Publish, Pcs
  <2>4. \A r \in Requests : [me[r] EXCEPT !.mine = result] \in Locals
    BY <1>0, LocalTypes DEF TypeOK
  <2>5. \A r \in Requests : Missed(r) \in Locals
    <3> TAKE r \in Requests
    <3> DEFINE x == IF result # None THEN "none" ELSE IF me[r].during THEN "before" ELSE "after"
    <3>1. x \in {"none", "before", "after"}
      OBVIOUS
    <3> HIDE DEF x
    <3>2. [me[r] EXCEPT !.during = FALSE] \in Locals
      BY <1>0, LocalTypes
    <3>3. [[me[r] EXCEPT !.during = FALSE] EXCEPT !.missed = x] \in Locals
      BY <3>1, <3>2, LocalTypes
    <3>4. [me[r] EXCEPT !.during = FALSE, !.missed = x]
            = [[me[r] EXCEPT !.during = FALSE] EXCEPT !.missed = x]
      OBVIOUS
    <3> QED
      BY <1>0, <3>3, <3>4 DEF Missed, x
  <2>6. me' \in [Requests -> Locals]
    BY <1>0, <1>5, <2>4, <2>5 DEF Publish
  <2>7. lock' \in Seq(Requests)
    BY <1>0, <2>1
  <2> QED
    BY <2>1, <2>2, <2>3, <2>6, <2>7 DEF TypeOK, Locals, Pcs
<1>6. ASSUME NEW c \in Conns, ConnCloses(c)
      PROVE  TypeOK'
  <2>1. conn' \in [Conns -> {"open", "closing", "closed"}]
    BY <1>6 DEF ConnCloses, TypeOK
  <2> QED
    BY <1>6, <2>1 DEF ConnCloses, TypeOK
<1>7. CASE UNCHANGED vars
  BY <1>7 DEF TypeOK
<1> QED
  BY <1>1, <1>2, <1>3, <1>4, <1>5, <1>6, <1>7 DEF Next, Attempt, Settled

-----------------------------------------------------------------------------
(* The line for the slots.                                                 *)

Holding == Waiting \cup {"slot", "ready", "joined", "load", "try"}

(* A request enters the line when it is new, leaves it by being taken out, *)
(* and otherwise goes on holding or not holding a place.                   *)
LEMMA LineMoves ==
    ASSUME TypeOK, NEW r \in Requests, Acquire(r) \/ Step(r) \/ Cancel(r) \/ Hyper(r)
    PROVE  \/ line' = line /\ (pc'[r] \in Holding \/ pc[r] \notin Holding)
           \/ line' = Append(line, r) /\ pc[r] = "new" /\ pc'[r] = "slot"
           \/ line' = RemoveFirst(line, r)
<1>0. pc \in [Requests -> Pcs]
  BY DEF TypeOK, Pcs
<1>1. CASE Acquire(r)
  BY <1>0, <1>1 DEF Acquire, Goto
<1>2. CASE PollReady(r) \/ LoadSeen(r) \/ LockConn(r) \/ StartAttempt(r)
  <2>1. line' = line
    BY <1>2 DEF PollReady, LoadSeen, LockConn, StartAttempt
  <2>2. pc'[r] \in {"ready", "seen", "enqueue", "lock", "await"}
    BY <1>0, <1>2 DEF PollReady, LoadSeen, LockConn, StartAttempt, Goto
  <2> QED
    BY <2>1, <2>2 DEF Holding, Waiting
<1>3. CASE LookUp(r) \/ LoadGeneration(r) \/ FindReconnected(r)
  <2>1. line' = line
    BY <1>3 DEF LookUp, LoadGeneration, FindReconnected
  <2>2. pc'[r] \in {"load", "seen", "try", "ready"}
    BY <1>0, <1>3 DEF LookUp, LoadGeneration, FindReconnected, Goto, GetsHandle
  <2> QED
    BY <2>1, <2>2 DEF Holding, Waiting
<1>4. CASE Call(r)
  <2>1. line' = RemoveFirst(line, r) \/ (line' = line /\ pc' = [pc EXCEPT ![r] = "slot"])
    BY <1>4 DEF Call
  <2> QED
    BY <1>0, <2>1 DEF Holding
<1>5. CASE ShareFailure(r) \/ Joined(r)
  <2>1. \/ line' = RemoveFirst(line, r)
        \/ line' = line /\ pc' = [pc EXCEPT ![r] = "ready"]
        \/ line' = line /\ pc' = [pc EXCEPT ![r] = "load"]
    BY <1>5 DEF ShareFailure, Joined, GetsFailure, DefersFailure, GetsHandle
  <2> QED
    BY <1>0, <2>1 DEF Holding
<1>6. CASE TrySend(r) \/ Cancel(r)
  BY <1>6 DEF TrySend, Cancel
<1>7. CASE Unsent(r) \/ RetireSender(r) \/ Hyper(r)
  <2>1. line' = line /\ pc[r] \in {"unsent", "retire", "hyper", "wire"}
    BY <1>7 DEF Unsent, RetireSender, Hyper, HyperTakes, HyperHandsBack, Respond
  <2> QED
    BY <2>1 DEF Holding, Waiting
<1> QED
  BY <1>1, <1>2, <1>3, <1>4, <1>5, <1>6, <1>7 DEF Step

(* A queue of distinct entries stays one when a new entry joins it.        *)
LEMMA Joins ==
    ASSUME NEW S, NEW s \in Seq(S), Distinct(s), NEW r \in S,
           \A i \in 1..Len(s) : s[i] # r
    PROVE  /\ Distinct(Append(s, r)) /\ Len(Append(s, r)) = Len(s) + 1
           /\ \A i \in 1..Len(s) : Append(s, r)[i] = s[i]
           /\ Append(s, r)[Len(s) + 1] = r
  BY DEF Distinct

(* No two places in the line are one request's, and each is held by a      *)
(* request that still waits to be handed over.                             *)
LEMMA LineStep == TypeOK /\ LineInv /\ [Next]_vars => LineInv'
<1> SUFFICES ASSUME TypeOK, LineInv, [Next]_vars
             PROVE  LineInv'
  OBVIOUS
<1>0. /\ pc \in [Requests -> Pcs] /\ line \in Seq(Requests) /\ Distinct(line)
      /\ \A i \in 1..Len(line) : line[i] \in Requests /\ pc[line[i]] \in Holding
  BY DEF TypeOK, Pcs, LineInv, SlotsHeldByWaiting, Holding
<1>s. ASSUME Distinct(line'), \A i \in 1..Len(line') : pc'[line'[i]] \in Holding
      PROVE  LineInv'
  BY <1>s DEF LineInv, SlotsHeldByWaiting, Holding, Distinct
<1>1. ASSUME NEW r \in Requests, Acquire(r) \/ Step(r) \/ Cancel(r) \/ Hyper(r)
      PROVE  LineInv'
  <2>1. \A q \in Requests : q # r => pc'[q] = pc[q]
    BY <1>0, <1>1, OwnStep
  <2>2. CASE line' = line /\ (pc'[r] \in Holding \/ pc[r] \notin Holding)
    <3>1. \A i \in 1..Len(line) : pc'[line[i]] \in Holding
      BY <1>0, <2>1, <2>2, Zenon
    <3> QED
      BY <1>0, <1>s, <2>2, <3>1
  <2>3. CASE line' = Append(line, r) /\ pc[r] = "new" /\ pc'[r] = "slot"
    <3>1. \A i \in 1..Len(line) : line[i] # r
      BY <1>0, <2>3 DEF Holding, Waiting
    <3>2. /\ Distinct(line') /\ Len(line') = Len(line) + 1
          /\ \A i \in 1..Len(line) : line'[i] = line[i]
          /\ line'[Len(line) + 1] = r
      BY <1>0, <2>3, <3>1, Joins
    <3>3. \A i \in 1..Len(line') : pc'[line'[i]] \in Holding
      <4> TAKE i \in 1..Len(line')
      <4>1. CASE i = Len(line) + 1
        BY <2>3, <3>2, <4>1 DEF Holding
      <4>2. CASE i # Len(line) + 1
        <5>1. i \in 1..Len(line)
          BY <1>0, <3>2, <4>2
        <5> QED
          BY <1>0, <2>1, <3>1, <3>2, <5>1
      <4> QED
        BY <4>1, <4>2
    <3> QED
      BY <1>s, <3>2, <3>3
  <2>4. CASE line' = RemoveFirst(line, r)
    <3>1. /\ Distinct(line')
          /\ \A i \in 1..Len(line') : line'[i] # r /\ \E j \in 1..Len(line) : line'[i] = line[j]
      BY <1>0, <2>4, Removed
    <3>2. \A i \in 1..Len(line') : pc'[line'[i]] \in Holding
      BY <1>0, <2>1, <3>1
    <3> QED
      BY <1>s, <3>1, <3>2
  <2> QED
    BY <1>1, <2>2, <2>3, <2>4, LineMoves, Zenon
<1>2. CASE Publish
  <2>1. line' = line /\ \A q \in Requests : pc'[q] = IF pc[q] = "await" THEN "joined" ELSE pc[q]
    BY <1>2 DEF Publish
  <2>2. \A i \in 1..Len(line) : pc'[line[i]] \in Holding
    BY <1>0, <2>1 DEF Holding
  <2> QED
    BY <1>0, <1>s, <2>1, <2>2
<1>3. CASE UNCHANGED <<line, pc>>
  BY <1>0, <1>s, <1>3
<1>4. CASE Dial \/ DialFails \/ DialSucceeds \/ PollConnected \/ Bump \/ Settled
  BY <1>3, <1>4 DEF Dial, DialFails, DialSucceeds, PollConnected, Bump, Settled
<1>5. ASSUME NEW c \in Conns, ConnCloses(c)
      PROVE  LineInv'
  BY <1>3, <1>5 DEF ConnCloses
<1> QED
  BY <1>1, <1>2, <1>3, <1>4, <1>5 DEF Next, Attempt

-----------------------------------------------------------------------------
(* The lock's queue.                                                       *)

(* How a request joins the lock's queue, leaves it or hands the lock to an *)
(* attempt.                                                                *)
LEMMA LockMoves ==
    ASSUME TypeOK, NEW r \in Requests, Acquire(r) \/ Step(r) \/ Cancel(r) \/ Hyper(r)
    PROVE  \/ /\ lock' = Append(lock, r) /\ attempt' = attempt
              /\ pc[r] = "enqueue" /\ pc'[r] = "lock"
           \/ /\ HoldsLock(r) /\ lock' = Tail(lock) /\ attempt' = attempt
              /\ pc'[r] \notin {"lock", "await"}
           \/ /\ HoldsLock(r) /\ lock' = lock /\ attempt' = "poll" /\ pc'[r] = "await"
           \/ /\ pc[r] = "lock" /\ lock' = RemoveFirst(lock, r) /\ attempt' = attempt
              /\ pc'[r] = "cancelled"
           \/ /\ pc[r] = "await" /\ lock' = lock /\ attempt' = attempt
              /\ pc'[r] = "cancelled"
           \/ /\ lock' = lock /\ attempt' = attempt
              /\ pc[r] \notin {"lock", "await", "cancelled"} /\ pc'[r] \notin {"lock", "await"}
<1>0. pc \in [Requests -> Pcs]
  BY DEF TypeOK, Pcs
<1>1. CASE LockConn(r)
  BY <1>0, <1>1 DEF LockConn, Goto
<1>2. CASE FindReconnected(r)
  BY <1>0, <1>2 DEF FindReconnected, GetsHandle
<1>3. CASE ShareFailure(r)
  <2>1. pc' = [pc EXCEPT ![r] = "ready"] \/ pc' = [pc EXCEPT ![r] = "failed"]
    BY <1>3 DEF ShareFailure, GetsFailure, DefersFailure, Finish
  <2> QED
    BY <1>0, <1>3, <2>1 DEF ShareFailure
<1>4. CASE StartAttempt(r)
  BY <1>0, <1>4 DEF StartAttempt, Goto
<1>5. CASE Cancel(r)
  <2>1. /\ pc' = [pc EXCEPT ![r] = "cancelled"] /\ attempt' = attempt
        /\ pc[r] # "cancelled" /\ lock' = UnlockOnDrop(r)
    BY <1>5 DEF Cancel, Finish, Terminal
  <2> QED
    BY <1>0, <2>1 DEF UnlockOnDrop
<1>6. CASE Acquire(r) \/ PollReady(r) \/ LookUp(r) \/ LoadSeen(r) \/ LoadGeneration(r)
           \/ TrySend(r) \/ RetireSender(r) \/ HyperTakes(r) \/ HyperHandsBack(r)
  BY <1>0, <1>6 DEF Acquire, PollReady, LookUp, LoadSeen, LoadGeneration, TrySend,
                    RetireSender, HyperTakes, HyperHandsBack, Goto
<1>7. CASE Call(r) \/ Joined(r) \/ Unsent(r) \/ Respond(r)
  <2>1. lock' = lock /\ attempt' = attempt /\ pc[r] \in {"ready", "joined", "unsent", "wire"}
    BY <1>7 DEF Call, Joined, Unsent, Respond
  <2>2. \E x \in {"failed", "slot", "ready", "load", "seen", "retire", "ok"} :
           pc' = [pc EXCEPT ![r] = x]
    BY <1>7 DEF Call, Joined, Unsent, Respond, GetsFailure, DefersFailure, GetsHandle, Finish
  <2>3. pc'[r] \notin {"lock", "await"}
    BY <1>0, <2>2
  <2> QED
    BY <2>1, <2>3
<1> QED
  BY <1>1, <1>2, <1>3, <1>4, <1>5, <1>6, <1>7 DEF Step, Hyper

(* During an attempt no request has the lock.                              *)
LEMMA LockTaken ==
    ASSUME TypeOK, LockInv, NEW r \in Requests, HoldsLock(r)
    PROVE  attempt = "none" /\ lock # <<>> /\ lock[1] = r
<1>1. pc[r] = "lock" /\ lock # <<>> /\ Head(lock) = r /\ lock \in Seq(Requests)
  BY DEF HoldsLock, TypeOK
<1>2. lock[1] = r
  BY <1>1
<1> QED
  BY <1>1, <1>2 DEF LockInv, Started

(* Taking the head off a queue of distinct entries.                        *)
LEMMA Leaves ==
    ASSUME NEW S, NEW s \in Seq(S), Distinct(s), s # <<>>
    PROVE  /\ Distinct(Tail(s)) /\ Len(Tail(s)) = Len(s) - 1
           /\ \A i \in 1..Len(Tail(s)) : Tail(s)[i] = s[i + 1] /\ Tail(s)[i] # s[1]
<1>1. /\ Len(Tail(s)) = Len(s) - 1 /\ Len(s) \in Nat
      /\ \A i \in 1..Len(s) - 1 : Tail(s)[i] = s[i + 1]
  OBVIOUS
<1>2. \A i \in 1..Len(s) - 1 : i + 1 \in 1..Len(s) /\ 1 \in 1..Len(s) /\ i + 1 # 1
  BY <1>1
<1>3. Distinct(Tail(s))
  BY <1>1, <1>2 DEF Distinct
<1>4. \A i \in 1..Len(s) - 1 : s[i + 1] # s[1]
  BY <1>2 DEF Distinct
<1> QED
  BY <1>1, <1>3, <1>4

(* The lock's queue keeps its order: an attempt's task at its head while   *)
(* there is one, and requests in lock().await behind it.                   *)
LEMMA LockStep == TypeOK /\ LockInv /\ [Next]_vars => LockInv'
<1> SUFFICES ASSUME TypeOK, LockInv, [Next]_vars
             PROVE  LockInv'
  OBVIOUS
<1>0. /\ pc \in [Requests -> Pcs] /\ lock \in Seq(Requests) /\ Distinct(lock)
      /\ Len(lock) \in Nat
      /\ \A i \in 1..Len(lock) : lock[i] \in Requests
      /\ \A i \in 1..Len(lock) :
           \/ pc[lock[i]] = "lock"
           \/ i = 1 /\ attempt # "none" /\ pc[lock[i]] \in {"await", "cancelled"}
      /\ attempt # "none" => lock # <<>> /\ 1 \in 1..Len(lock) /\ Started(lock[1])
  BY DEF TypeOK, Pcs, LockInv, Started
<1>1. ASSUME NEW r \in Requests, Acquire(r) \/ Step(r) \/ Cancel(r) \/ Hyper(r)
      PROVE  LockInv'
  <2>1. \A q \in Requests : q # r => pc'[q] = pc[q]
    BY <1>0, <1>1, OwnStep
  <2>2. CASE /\ lock' = Append(lock, r) /\ attempt' = attempt
             /\ pc[r] = "enqueue" /\ pc'[r] = "lock"
    <3>1. \A i \in 1..Len(lock) : lock[i] # r
      BY <1>0, <2>2
    <3>2. /\ Distinct(lock') /\ Len(lock') = Len(lock) + 1
          /\ \A i \in 1..Len(lock) : lock'[i] = lock[i]
          /\ lock'[Len(lock) + 1] = r
      BY <1>0, <2>2, <3>1, Joins
    <3>3. attempt' # "none" => lock' # <<>> /\ Started(lock[1])' /\ lock'[1] = lock[1]
      BY <1>0, <2>1, <2>2, <3>1, <3>2 DEF Started
    <3>4. ASSUME NEW i \in 1..Len(lock'), i > 1 \/ attempt' = "none"
          PROVE  pc'[lock'[i]] = "lock"
      <4>1. CASE i = Len(lock) + 1
        BY <2>2, <3>2, <4>1
      <4>2. CASE i # Len(lock) + 1
        <5>1. i \in 1..Len(lock)
          BY <1>0, <3>2, <4>2
        <5> QED
          BY <1>0, <2>1, <2>2, <3>1, <3>2, <3>4, <5>1
      <4> QED
        BY <4>1, <4>2
    <3>5. \A q \in Requests : pc'[q] = "await" => attempt' # "none" /\ lock'[1] = q
      BY <1>0, <2>1, <2>2, <3>2 DEF LockInv
    <3> QED
      BY <3>2, <3>3, <3>4, <3>5 DEF LockInv, Started, Distinct
  <2>3. CASE /\ HoldsLock(r) /\ lock' = Tail(lock) /\ attempt' = attempt
             /\ pc'[r] \notin {"lock", "await"}
    <3>1. attempt = "none" /\ lock # <<>> /\ lock[1] = r
      BY <2>3, LockTaken
    <3>2. /\ Distinct(lock') /\ Len(lock') = Len(lock) - 1
          /\ \A i \in 1..Len(lock') : lock'[i] = lock[i + 1] /\ lock'[i] # r
      BY <1>0, <2>3, <3>1, Leaves
    <3>3. \A i \in 1..Len(lock') : i + 1 \in 1..Len(lock)
      BY <1>0, <3>2
    <3>4. \A i \in 1..Len(lock') : pc'[lock'[i]] = "lock"
      BY <1>0, <2>1, <3>1, <3>2, <3>3
    <3>5. \A q \in Requests : pc'[q] # "await"
      BY <2>1, <2>3, <3>1 DEF LockInv
    <3> QED
      BY <2>3, <3>1, <3>2, <3>4, <3>5 DEF LockInv, Distinct
  <2>4. CASE HoldsLock(r) /\ lock' = lock /\ attempt' = "poll" /\ pc'[r] = "await"
    <3>1. attempt = "none" /\ lock # <<>> /\ lock[1] = r
      BY <2>4, LockTaken
    <3>2. \A i \in 1..Len(lock) : i > 1 => lock[i] # r
      BY <1>0, <3>1 DEF Distinct
    <3>3. \A i \in 1..Len(lock) : i > 1 => pc'[lock[i]] = "lock"
      BY <1>0, <2>1, <3>1, <3>2
    <3>4. \A q \in Requests : pc'[q] = "await" => q = r
      BY <2>1, <3>1 DEF LockInv
    <3> QED
      BY <1>0, <2>4, <3>1, <3>3, <3>4 DEF LockInv, Started, Distinct
  <2>5. CASE /\ pc[r] = "lock" /\ lock' = RemoveFirst(lock, r) /\ attempt' = attempt
             /\ pc'[r] = "cancelled"
    <3>1. /\ lock' \in Seq(Requests) /\ Distinct(lock')
          /\ \A i \in 1..Len(lock') : /\ lock'[i] # r
                                      /\ \E j \in 1..Len(lock) : i <= j /\ lock'[i] = lock[j]
          /\ lock # <<>> /\ lock[1] # r => lock' # <<>> /\ lock'[1] = lock[1]
      BY <1>0, <2>5, Removed
    <3>2. attempt # "none" => lock[1] # r
      BY <1>0, <2>5 DEF Started
    <3>3. attempt' # "none" => lock' # <<>> /\ Started(lock[1])' /\ lock'[1] = lock[1]
      BY <1>0, <2>1, <2>5, <3>1, <3>2 DEF Started
    <3>4. ASSUME NEW i \in 1..Len(lock'), i > 1 \/ attempt' = "none"
          PROVE  pc'[lock'[i]] = "lock"
      <4>1. PICK j \in 1..Len(lock) : i <= j /\ lock'[i] = lock[j]
        BY <3>1
      <4>2. Len(lock') \in Nat
        BY <3>1
      <4>3. j > 1 \/ attempt = "none"
        BY <1>0, <2>5, <3>4, <4>1, <4>2
      <4>4. pc[lock[j]] = "lock"
        BY <1>0, <4>3
      <4> QED
        BY <1>0, <2>1, <3>1, <4>1, <4>4
    <3>5. \A q \in Requests : pc'[q] = "await" => attempt' # "none" /\ lock'[1] = q
      BY <1>0, <2>1, <2>5, <3>3 DEF LockInv
    <3> QED
      BY <3>1, <3>3, <3>4, <3>5 DEF LockInv, Started, Distinct
  <2>6. CASE /\ pc[r] = "await" /\ lock' = lock /\ attempt' = attempt /\ pc'[r] = "cancelled"
    <3>1. attempt # "none" /\ lock[1] = r
      BY <2>6 DEF LockInv
    <3>2. \A i \in 1..Len(lock) : i > 1 => lock[i] # r
      BY <1>0, <3>1 DEF Distinct
    <3>3. \A i \in 1..Len(lock) : i > 1 => pc'[lock[i]] = "lock"
      BY <1>0, <2>1, <3>2
    <3>4. \A q \in Requests : pc'[q] # "await"
      BY <2>1, <2>6, <3>1 DEF LockInv
    <3> QED
      BY <1>0, <2>6, <3>1, <3>3, <3>4 DEF LockInv, Started, Distinct
  <2>7. CASE /\ lock' = lock /\ attempt' = attempt
             /\ pc[r] \notin {"lock", "await", "cancelled"} /\ pc'[r] \notin {"lock", "await"}
    <3>1. \A i \in 1..Len(lock) : lock[i] # r
      BY <1>0, <2>7
    <3>2. \A i \in 1..Len(lock) : pc'[lock[i]] = pc[lock[i]]
      BY <1>0, <2>1, <3>1
    <3>3. \A q \in Requests : pc'[q] = "await" => attempt' # "none" /\ lock'[1] = q
      BY <2>1, <2>7 DEF LockInv
    <3> QED
      BY <1>0, <2>7, <3>2, <3>3 DEF LockInv, Started, Distinct
  <2> QED
    BY <1>1, <2>2, <2>3, <2>4, <2>5, <2>6, <2>7, LockMoves, Zenon
<1>2. CASE Publish
  <2>1. /\ lock # <<>> /\ lock' = Tail(lock) /\ attempt' = "none" /\ attempt # "none"
        /\ \A q \in Requests : pc'[q] = IF pc[q] = "await" THEN "joined" ELSE pc[q]
    BY <1>2 DEF Publish, LockInv
  <2>2. /\ Distinct(lock') /\ Len(lock') = Len(lock) - 1
        /\ \A i \in 1..Len(lock') : lock'[i] = lock[i + 1]
    BY <1>0, <2>1, Leaves
  <2>3. \A i \in 1..Len(lock') : i + 1 \in 1..Len(lock) /\ i + 1 # 1
    BY <1>0, <2>2
  <2>4. \A i \in 1..Len(lock') : pc'[lock'[i]] = "lock"
    <3> TAKE i \in 1..Len(lock')
    <3>1. lock'[i] = lock[i + 1] /\ i + 1 \in 1..Len(lock) /\ i + 1 # 1
      BY <2>2, <2>3
    <3>2. lock[i + 1] \in Requests /\ pc[lock[i + 1]] = "lock"
      BY <1>0, <3>1
    <3> QED
      BY <2>1, <3>1, <3>2
  <2>5. \A q \in Requests : pc'[q] # "await"
    BY <2>1
  <2> QED
    BY <2>1, <2>2, <2>4, <2>5 DEF LockInv, Distinct
<1>3. ASSUME UNCHANGED <<lock, pc>>, attempt' = "none" <=> attempt = "none"
      PROVE  LockInv'
  BY <1>3 DEF LockInv, Started, Distinct
<1>4. CASE Dial \/ DialFails \/ DialSucceeds \/ PollConnected \/ Bump \/ Settled
  BY <1>3, <1>4 DEF Dial, DialFails, DialSucceeds, PollConnected, AttemptHas, Bump, Settled
<1>5. ASSUME NEW c \in Conns, ConnCloses(c)
      PROVE  LockInv'
  BY <1>3, <1>5 DEF ConnCloses
<1>6. CASE UNCHANGED vars
  BY <1>3, <1>6
<1> QED
  BY <1>1, <1>2, <1>4, <1>5, <1>6 DEF Next, Attempt

(* The invariants of the queues hold from the start.                       *)
LEMMA QueueInvariant == Spec => [](TypeOK /\ LineInv /\ LockInv)
<1>1. Init => LineInv /\ LockInv
  BY DEF Init, LineInv, LockInv, SlotsHeldByWaiting, Distinct
<1> QED
  BY <1>1, TypeInit, TypeStep, LineStep, LockStep, PTL DEF Spec

(* Every variable of the shared connection keeps its type.                 *)
THEOREM SharedTyped == Spec => []TypeOK
  BY QueueInvariant, PTL

(* A slot is never lost: whatever fails, is shared or is dropped, a place  *)
(* in the line belongs to a request that still waits to be handed over.    *)
THEOREM NoSlotLost == Spec => []SlotsHeldByWaiting
<1>1. LineInv => SlotsHeldByWaiting
  BY DEF LineInv
<1> QED
  BY <1>1, QueueInvariant, PTL

-----------------------------------------------------------------------------
(* One open connection, and each request on the wire once.                 *)

(* A dial is made only with no connection open.                            *)
LEMMA OpenStep == TypeOK /\ OpenInv /\ [Next]_vars => OpenInv'
<1> SUFFICES ASSUME TypeOK, OpenInv, [Next]_vars
             PROVE  OpenInv'
  OBVIOUS
<1>0. conn \in [Conns -> {"open", "closing", "closed"}]
  BY DEF TypeOK
<1>1. CASE UNCHANGED <<state, current, conn>>
  BY <1>1 DEF OpenInv
<1>2. ASSUME NEW r \in Requests, Acquire(r) \/ Step(r) \/ Cancel(r) \/ Hyper(r)
      PROVE  OpenInv'
  BY <1>1, <1>2, OwnEffects
<1>3. CASE Dial
  BY <1>3 DEF Dial, OpenInv
<1>4. CASE DialFails
  BY <1>4 DEF DialFails, OpenInv
<1>5. CASE DialSucceeds
  <2>1. PICK c \in Conns : conn' = [conn EXCEPT ![c] = "open"] /\ current' = c
    BY <1>5 DEF DialSucceeds, Unused
  <2>2. state = "Connecting" /\ state' = "Connected"
    BY <1>5 DEF DialSucceeds
  <2>3. \A d \in Conns : d # c => conn'[d] = "closed"
    BY <1>0, <2>1, <2>2 DEF OpenInv
  <2> QED
    BY <2>1, <2>2, <2>3 DEF OpenInv
<1>6. CASE PollConnected
  BY <1>6 DEF PollConnected, AttemptHas, OpenInv
<1>7. CASE Bump \/ Publish \/ Settled \/ UNCHANGED vars
  BY <1>1, <1>7 DEF Bump, Publish, Settled
<1>8. ASSUME NEW c \in Conns, ConnCloses(c)
      PROVE  OpenInv'
  <2>1. /\ conn' = [conn EXCEPT ![c] = "closing"] \/ conn' = [conn EXCEPT ![c] = "closed"]
        /\ UNCHANGED <<state, current>>
    BY <1>8 DEF ConnCloses
  <2>2. \A d \in Conns : conn'[d] # "closed" => conn[d] # "closed"
    <3>1. conn[c] # "closed"
      BY <1>8 DEF ConnCloses
    <3> QED
      BY <1>0, <2>1, <3>1
  <2> QED
    BY <2>1, <2>2 DEF OpenInv
<1> QED
  BY <1>2, <1>3, <1>4, <1>5, <1>6, <1>7, <1>8 DEF Next, Attempt

(* All clones of the handle use one connection: Reconnect never dials      *)
(* while the one it made is open, even after a stale `generation` made a   *)
(* request retire a live handle.                                           *)
THEOREM OneConnection == Spec => []OneOpenConnection
<1>1. Init => OpenInv
  BY DEF Init, OpenInv
<1>2. OpenInv => OneOpenConnection
  <2> SUFFICES ASSUME OpenInv
               PROVE  Cardinality({c \in Conns : conn[c] = "open"}) <= 1
    BY DEF OneOpenConnection
  <2> DEFINE Open == {c \in Conns : conn[c] = "open"}
  <2>1. Open \in SUBSET {current}
    BY DEF OpenInv
  <2>2. IsFiniteSet({current}) /\ Cardinality({current}) = 1
    BY FS_Singleton
  <2>3. Cardinality(Open) <= Cardinality({current})
    BY <2>1, <2>2, FS_Subset
  <2> QED
    BY <2>2, <2>3
<1> QED
  BY <1>1, <1>2, OpenStep, SharedTyped, PTL DEF Spec

(* The connections that the handle or a request refers to are at most one  *)
(* for each and one more.                                                  *)
LEMMA FewInUse ==
    LET used == {me[r].mine : r \in Requests} \cup {sender}
    IN  IsFiniteSet(used) /\ Cardinality(used) <= Cardinality(Requests) + 1
<1> DEFINE mine == {me[r].mine : r \in Requests}
<1>1. IsFiniteSet(mine) /\ Cardinality(mine) <= Cardinality(Requests)
  <2> DEFINE f == [r \in Requests |-> me[r].mine]
  <2>1. f \in Surjection(Requests, mine)
    BY DEF Surjection
  <2> HIDE DEF f, mine
  <2> QED
    BY <2>1, SharedAssumption, FS_Surjection
<1>2. Cardinality(mine) \in Nat /\ Cardinality(Requests) \in Nat
  BY <1>1, SharedAssumption, FS_CardinalityType
<1> HIDE DEF mine
<1>3. /\ IsFiniteSet(mine \cup {sender})
      /\ Cardinality(mine \cup {sender})
           = IF sender \in mine THEN Cardinality(mine) ELSE Cardinality(mine) + 1
  BY <1>1, FS_AddElement
<1> QED
  BY <1>1, <1>2, <1>3 DEF mine

(* However many requests hold on to dead handles, a dial in progress can   *)
(* get a connection: the model's bound on connections never holds one      *)
(* back.  Reconnect dials only when every connection has closed, and fewer *)
(* of them are referred to than there are.                                 *)
THEOREM DialHasRoom == Spec => [](state = "Connecting" => Unused # {})
<1>1. Init => OpenInv
  BY DEF Init, OpenInv
<1>2. TypeOK /\ OpenInv => (state = "Connecting" => Unused # {})
  <2> SUFFICES ASSUME OpenInv, state = "Connecting", Unused = {}
               PROVE  FALSE
    OBVIOUS
  <2> DEFINE used == {me[r].mine : r \in Requests} \cup {sender}
  <2>1. \A c \in Conns : conn[c] = "closed"
    BY DEF OpenInv
  <2>2. Conns \in SUBSET used
    BY <2>1 DEF Unused
  <2>3. IsFiniteSet(used) /\ Cardinality(used) <= Cardinality(Requests) + 1
    BY FewInUse
  <2>4. Cardinality(Requests) \in Nat /\ Cardinality(used) \in Nat
    BY <2>3, SharedAssumption, FS_CardinalityType
  <2> HIDE DEF used
  <2>5. Cardinality(Conns) <= Cardinality(used)
    BY <2>2, <2>3, FS_Subset
  <2>6. Cardinality(Conns) = Cardinality(Requests) + 3
    <3>1. 1 \in Int /\ Cardinality(Requests) + 3 \in Int /\ ~(1 > Cardinality(Requests) + 3)
      BY <2>4
    <3>2. Cardinality(1..(Cardinality(Requests) + 3)) = (Cardinality(Requests) + 3) - 1 + 1
      BY <3>1, FS_Interval
    <3> QED
      BY <2>4, <3>2 DEF Conns
  <2> QED
    BY <2>3, <2>4, <2>5, <2>6
<1> QED
  BY <1>1, <1>2, OpenStep, SharedTyped, PTL DEF Spec

(* What a request's own step does to its wire count.                       *)
LEMMA WireMoves ==
    ASSUME TypeOK, NEW r \in Requests, Acquire(r) \/ Step(r) \/ Cancel(r) \/ Hyper(r)
    PROVE  \/ me'[r].wire = 0
           \/ pc[r] = "hyper" /\ pc'[r] = "wire" /\ me'[r].wire = me[r].wire + 1
           \/ pc[r] # "wire" /\ me'[r].wire = me[r].wire
<1>0. /\ me \in [Requests -> Locals] /\ pc \in [Requests -> Pcs]
  BY DEF TypeOK, Locals, Pcs
<1>l. me[r] \in Locals
  BY <1>0
<1>f. ASSUME NEW x, Finish(r, x) PROVE me'[r].wire = 0
  BY <1>0, <1>f DEF Finish, Fresh
<1>1. CASE Acquire(r) \/ PollReady(r) \/ LockConn(r) \/ StartAttempt(r) \/ TrySend(r)
           \/ RetireSender(r) \/ HyperHandsBack(r)
  BY <1>1 DEF Acquire, PollReady, LockConn, StartAttempt, TrySend, RetireSender,
              HyperHandsBack, Goto, HoldsLock
<1>2. CASE Cancel(r) \/ Respond(r)
  BY <1>f, <1>2 DEF Cancel, Respond
<1>3. CASE Call(r)
  BY <1>0, <1>l, <1>f, <1>3 DEF Call, Locals
<1>4. CASE LookUp(r)
  <2>1. pc[r] # "wire" /\ (me' = me \/ me' = [me EXCEPT ![r].mine = sender])
    BY <1>4 DEF LookUp, Goto
  <2> QED
    BY <1>0, <1>l, <2>1 DEF Locals
<1>9. CASE LoadSeen(r)
  <2>1. /\ pc[r] # "wire"
        /\ me' = [me EXCEPT ![r] = [me[r] EXCEPT !.moved = FALSE, !.missed = "none",
                                                 !.during = (attempt # "none")]]
    BY <1>9 DEF LoadSeen
  <2> QED
    BY <1>0, <1>l, <2>1 DEF Locals
<1>10. CASE LoadGeneration(r)
  BY <1>0, <1>l, <1>10 DEF LoadGeneration, Locals
<1>5. CASE FindReconnected(r)
  BY <1>0, <1>l, <1>5 DEF FindReconnected, GetsHandle, HoldsLock, Locals
<1>6. CASE ShareFailure(r) \/ Joined(r)
  <2>1. pc[r] # "wire"
    BY <1>6 DEF ShareFailure, Joined, HoldsLock
  <2>2. Finish(r, "failed") \/ me'[r].wire = me[r].wire
    BY <1>0, <1>l, <1>6 DEF ShareFailure, Joined, GetsFailure, DefersFailure, GetsHandle, Locals
  <2> QED
    BY <1>f, <2>1, <2>2
<1>7. CASE Unsent(r)
  <2>1. CASE Finish(r, "failed")
    BY <1>f, <2>1
  <2>2. CASE ~Finish(r, "failed")
    <3>1. /\ me' = [me EXCEPT ![r] = [me[r] EXCEPT !.resends = me[r].resends + 1,
                                                   !.mine = None, !.moved = FALSE]]
          /\ pc[r] = "unsent"
      BY <1>7, <2>2 DEF Unsent
    <3>2. me'[r].wire = me[r].wire
      BY <1>0, <1>l, <3>1 DEF Locals
    <3> QED
      BY <3>1, <3>2
  <2> QED
    BY <2>1, <2>2
<1>8. CASE HyperTakes(r)
  BY <1>0, <1>l, <1>8 DEF HyperTakes, Locals
<1> QED
  BY <1>1, <1>2, <1>3, <1>4, <1>5, <1>6, <1>7, <1>8, <1>9, <1>10 DEF Step, Hyper

(* A request that was put on the wire is never sent again: only one that   *)
(* hyper handed back unsent is, and hyper takes it off its queue once.     *)
THEOREM OnTheWireOnce == Spec => []SentAtMostOnce
<1>1. Init => SentAtMostOnce
  <2> SUFFICES ASSUME Init, NEW r \in Requests PROVE me[r].wire = 0
    BY DEF SentAtMostOnce
  <2> QED
    BY DEF Init, Fresh
<1>2. TypeOK /\ SentAtMostOnce /\ [Next]_vars => SentAtMostOnce'
  <2> SUFFICES ASSUME TypeOK, SentAtMostOnce, [Next]_vars, NEW q \in Requests
               PROVE  me'[q].wire <= 1 /\ (me'[q].wire = 1 => pc'[q] = "wire")
    BY DEF SentAtMostOnce
  <2>0. /\ me[q].wire \in Nat /\ me[q].wire <= 1 /\ (me[q].wire = 1 => pc[q] = "wire")
        /\ pc \in [Requests -> Pcs] /\ me \in [Requests -> Locals]
    BY DEF TypeOK, SentAtMostOnce, Pcs, Locals
  <2>1. ASSUME NEW r \in Requests, Acquire(r) \/ Step(r) \/ Cancel(r) \/ Hyper(r)
        PROVE  me'[q].wire <= 1 /\ (me'[q].wire = 1 => pc'[q] = "wire")
    <3>1. CASE q = r
      BY <2>0, <2>1, <3>1, WireMoves
    <3>2. CASE q # r
      <4>1. pc'[q] = pc[q] /\ me'[q] = me[q]
        BY <2>0, <2>1, <3>2, OwnStep
      <4> QED
        BY <2>0, <4>1
    <3> QED
      BY <3>1, <3>2
  <2>2. CASE Bump \/ Publish
    <3>1. pc'[q] = pc[q] \/ (pc[q] = "await" /\ pc'[q] = "joined")
      BY <2>2 DEF Bump, Publish
    <3>2. me[q] \in Locals
      BY <2>0
    <3>3. me'[q].wire = me[q].wire
      <4>1. CASE Bump
        BY <3>2, <4>1 DEF Bump, Locals
      <4>2. CASE Publish
        BY <3>2, <4>2 DEF Publish, Missed, Locals
      <4> QED
        BY <2>2, <4>1, <4>2
    <3> QED
      BY <2>0, <3>1, <3>3
  <2>3. CASE UNCHANGED <<pc, me>>
    BY <2>0, <2>3
  <2>4. CASE Dial \/ DialFails \/ DialSucceeds \/ PollConnected \/ Settled
    BY <2>3, <2>4 DEF Dial, DialFails, DialSucceeds, PollConnected, Settled
  <2>5. ASSUME NEW c \in Conns, ConnCloses(c)
        PROVE  me'[q].wire <= 1 /\ (me'[q].wire = 1 => pc'[q] = "wire")
    BY <2>3, <2>5 DEF ConnCloses
  <2> QED
    BY <2>1, <2>2, <2>3, <2>4, <2>5 DEF Next, Attempt
<1> QED
  BY <1>1, <1>2, SharedTyped, PTL DEF Spec

-----------------------------------------------------------------------------
(* Sharing a failure.                                                      *)

(* A request's own step notes a failure only as it becomes ready, and      *)
(* joins those that wait for the lock with nothing missed.                 *)
LEMMA SharingMoves ==
    ASSUME TypeOK, NEW r \in Requests, me[r].failed => pc[r] = "ready",
           Acquire(r) \/ Step(r) \/ Cancel(r) \/ Hyper(r)
    PROVE  /\ me'[r].failed => pc'[r] = "ready"
           /\ Waits(r)' => /\ attempt' = attempt
                           /\ \/ me' = me /\ Waits(r)
                              \/ /\ me'[r].moved = FALSE /\ me'[r].missed = "none"
                                 /\ attempt # "none" => me'[r].during
<1>0. /\ me \in [Requests -> Locals] /\ pc \in [Requests -> Pcs]
  BY DEF TypeOK, Locals, Pcs
<1>l. me[r] \in Locals
  BY <1>0
<1>f. ASSUME NEW x \in Terminal, Finish(r, x)
      PROVE me'[r].failed = FALSE /\ ~Waits(r)'
  BY <1>0, <1>f DEF Finish, Fresh, Waits, Terminal
<1>g. ASSUME NEW x \in Pcs \ {"enqueue", "lock"}, Goto(r, x), pc[r] # "ready"
      PROVE  ~me'[r].failed /\ ~Waits(r)'
  BY <1>0, <1>g DEF Goto, Waits
<1>e. ASSUME GetsFailure(r)
      PROVE  (me'[r].failed => pc'[r] = "ready") /\ ~Waits(r)'
  <2>1. CASE Finish(r, "failed")
    BY <1>f, <2>1 DEF Terminal
  <2>2. CASE DefersFailure(r)
    BY <1>0, <2>2 DEF DefersFailure, Waits
  <2> QED
    BY <1>e, <2>1, <2>2 DEF GetsFailure
<1>h. ASSUME NEW c, GetsHandle(r, c), pc[r] # "ready"
      PROVE  ~me'[r].failed /\ ~Waits(r)'
  <2>1. PICK v : me' = [me EXCEPT ![r].mine = v]
    BY <1>h DEF GetsHandle
  <2>2. me'[r].failed = me[r].failed
    BY <1>0, <1>l, <2>1 DEF Locals
  <2>3. pc'[r] \in {"ready", "load"}
    BY <1>0, <1>h DEF GetsHandle
  <2> QED
    BY <1>h, <2>2, <2>3 DEF Waits
<1>1. CASE Acquire(r)
  BY <1>g, <1>1 DEF Acquire, Pcs
<1>2. CASE PollReady(r)
  BY <1>g, <1>2 DEF PollReady, Pcs, Waiting
<1>3. CASE StartAttempt(r)
  BY <1>g, <1>3 DEF StartAttempt, HoldsLock, Pcs, Waiting
<1>4. CASE TrySend(r) \/ RetireSender(r) \/ HyperHandsBack(r)
  BY <1>g, <1>4 DEF TrySend, RetireSender, HyperHandsBack, Pcs, Waiting
<1>5. CASE LockConn(r)
  <2>1. pc[r] = "enqueue" /\ me' = me /\ attempt' = attempt
    BY <1>5 DEF LockConn, Goto
  <2> QED
    BY <2>1 DEF Waits
<1>6. CASE Cancel(r) \/ Respond(r)
  BY <1>f, <1>6 DEF Cancel, Respond, Terminal
<1>7. CASE Call(r)
  <2>1. CASE Finish(r, "failed")
    BY <1>f, <2>1 DEF Terminal
  <2>2. CASE ~Finish(r, "failed")
    <3>1. ~me[r].failed /\ pc' = [pc EXCEPT ![r] = "slot"] /\ me' = [me EXCEPT ![r].via = "send"]
      BY <1>7, <2>2 DEF Call
    <3>2. me'[r].failed = me[r].failed
      BY <1>0, <1>l, <3>1 DEF Locals
    <3> QED
      BY <1>0, <3>1, <3>2 DEF Waits
  <2> QED
    BY <2>1, <2>2
<1>8. CASE LookUp(r)
  <2>1. CASE Goto(r, "seen")
    BY <1>g, <1>8, <2>1 DEF LookUp, Pcs, Waiting
  <2>2. CASE ~Goto(r, "seen")
    <3>1. pc[r] = "slot" /\ pc' = [pc EXCEPT ![r] = "load"] /\ me' = [me EXCEPT ![r].mine = sender]
      BY <1>8, <2>2 DEF LookUp
    <3>2. me'[r].failed = me[r].failed
      BY <1>0, <1>l, <3>1 DEF Locals
    <3> QED
      BY <1>0, <3>1, <3>2 DEF Waits
  <2> QED
    BY <2>1, <2>2
<1>9. CASE LoadSeen(r)
  <2>1. /\ pc[r] = "seen" /\ attempt' = attempt
        /\ me' = [me EXCEPT ![r] = [me[r] EXCEPT !.moved = FALSE, !.missed = "none",
                                                 !.during = (attempt # "none")]]
    BY <1>9 DEF LoadSeen
  <2>2. /\ me'[r].failed = me[r].failed /\ me'[r].moved = FALSE
        /\ me'[r].missed = "none" /\ me'[r].during = (attempt # "none")
    BY <1>0, <1>l, <2>1, Zenon DEF Locals
  <2> QED
    BY <2>1, <2>2
<1>10. CASE LoadGeneration(r)
  <2>1. pc[r] = "load" /\ pc' = [pc EXCEPT ![r] = "try"] /\ me' = [me EXCEPT ![r].moved = FALSE]
    BY <1>10 DEF LoadGeneration
  <2>2. me'[r].failed = me[r].failed
    BY <1>0, <1>l, <2>1 DEF Locals
  <2> QED
    BY <1>0, <2>1, <2>2 DEF Waits
<1>11. CASE FindReconnected(r)
  BY <1>h, <1>11 DEF FindReconnected, HoldsLock
<1>12. CASE ShareFailure(r)
  BY <1>e, <1>12 DEF ShareFailure
<1>13. CASE Joined(r)
  BY <1>e, <1>h, <1>13 DEF Joined
<1>14. CASE Unsent(r)
  <2>1. CASE Finish(r, "failed")
    BY <1>f, <2>1 DEF Terminal
  <2>2. CASE ~Finish(r, "failed")
    <3>1. /\ me' = [me EXCEPT ![r] = [me[r] EXCEPT !.resends = me[r].resends + 1,
                                                   !.mine = None, !.moved = FALSE]]
          /\ pc[r] = "unsent" /\ \E x \in {"seen", "retire"} : pc' = [pc EXCEPT ![r] = x]
      BY <1>14, <2>2 DEF Unsent
    <3>2. me'[r].failed = me[r].failed
      BY <1>0, <1>l, <3>1 DEF Locals
    <3> QED
      BY <1>0, <3>1, <3>2 DEF Waits
  <2> QED
    BY <2>1, <2>2
<1>15. CASE HyperTakes(r)
  <2>1. pc[r] = "hyper" /\ pc' = [pc EXCEPT ![r] = "wire"] /\ me' = [me EXCEPT ![r].wire = me[r].wire + 1]
    BY <1>15 DEF HyperTakes
  <2>2. me'[r].failed = me[r].failed
    BY <1>0, <1>l, <2>1 DEF Locals
  <2> QED
    BY <1>0, <2>1, <2>2 DEF Waits
<1> QED
  BY <1>1, <1>2, <1>3, <1>4, <1>5, <1>6, <1>7, <1>8, <1>9, <1>10, <1>11, <1>12, <1>13,
     <1>14, <1>15 DEF Step, Hyper

(* What a waiting request knows of the attempts stays true.                *)
LEMMA SharingStep == TypeOK /\ LockInv /\ SharingInv /\ [Next]_vars => SharingInv'
<1> SUFFICES ASSUME TypeOK, LockInv, SharingInv, [Next]_vars, NEW q \in Requests
             PROVE  /\ me'[q].failed => pc'[q] = "ready"
                    /\ Waits(q)' =>
                         /\ me'[q].moved /\ lastFailure' /\ attempt' # "publish"
                               => me'[q].missed # "none"
                         /\ me'[q].missed = "after" => me'[q].moved /\ lastFailure'
                         /\ ~me'[q].during /\ attempt' = "publish" => me'[q].moved
  BY DEF SharingInv, Waits
<1> DEFINE Goal == /\ me'[q].failed => pc'[q] = "ready"
                   /\ Waits(q)' =>
                        /\ me'[q].moved /\ lastFailure' /\ attempt' # "publish"
                              => me'[q].missed # "none"
                        /\ me'[q].missed = "after" => me'[q].moved /\ lastFailure'
                        /\ ~me'[q].during /\ attempt' = "publish" => me'[q].moved
<1>0. /\ pc \in [Requests -> Pcs] /\ me \in [Requests -> Locals] /\ me[q] \in Locals
  BY DEF TypeOK, Pcs, Locals
<1>i. /\ me[q].failed => pc[q] = "ready"
      /\ Waits(q) =>
           /\ me[q].moved /\ lastFailure /\ attempt # "publish" => me[q].missed # "none"
           /\ me[q].missed = "after" => me[q].moved /\ lastFailure
           /\ ~me[q].during /\ attempt = "publish" => me[q].moved
  BY DEF SharingInv
<1>u. ASSUME pc'[q] = pc[q], me'[q] = me[q], lastFailure' = lastFailure,
             \/ attempt' = attempt
             \/ attempt # "publish" /\ attempt' # "publish"
      PROVE  Goal
  BY <1>i, <1>u DEF Waits
<1>1. ASSUME NEW r \in Requests, Acquire(r) \/ Step(r) \/ Cancel(r) \/ Hyper(r)
      PROVE  Goal
  <2>1. lastFailure' = lastFailure
    BY <1>1, OwnEffects
  <2>2. attempt' = attempt \/ (attempt = "none" /\ attempt' = "poll")
    BY <1>1, LockMoves, LockTaken
  <2>3. CASE q # r
    <3>1. pc'[q] = pc[q] /\ me'[q] = me[q]
      BY <1>0, <1>1, <2>3, OwnStep
    <3> QED
      BY <1>u, <2>1, <2>2, <3>1
  <2>4. CASE q = r
    <3>1. /\ me'[q].failed => pc'[q] = "ready"
          /\ Waits(q)' => /\ attempt' = attempt
                          /\ \/ me' = me /\ Waits(q)
                             \/ /\ me'[q].moved = FALSE /\ me'[q].missed = "none"
                                /\ attempt # "none" => me'[q].during
      BY <1>1, <1>i, <2>4, SharingMoves
    <3> QED
      BY <1>i, <2>1, <3>1
  <2> QED
    BY <2>3, <2>4
<1>2. CASE Bump
  <2>1. /\ attempt' = "publish" /\ lastFailure' = lastFailure /\ pc' = pc
        /\ me'[q] = me[q] \/ me'[q] = [me[q] EXCEPT !.moved = TRUE]
        /\ Waits(q) => me'[q] = [me[q] EXCEPT !.moved = TRUE]
    BY <1>2 DEF Bump, Waits
  <2>2. /\ me'[q].failed = me[q].failed /\ me'[q].missed = me[q].missed
        /\ Waits(q) => me'[q].moved = TRUE
    BY <1>0, <2>1 DEF Locals
  <2>3. Waits(q)' = Waits(q)
    BY <2>1 DEF Waits
  <2> QED
    BY <1>i, <2>1, <2>2, <2>3
<1>3. CASE Publish
  <2>1. /\ attempt' = "none" /\ attempt = "publish" /\ lastFailure' = (result = None)
        /\ pc'[q] = IF pc[q] = "await" THEN "joined" ELSE pc[q]
    BY <1>3 DEF Publish
  <2>2. CASE Waits(q)
    <3>1. me'[q] = [me[q] EXCEPT !.during = FALSE,
                                 !.missed = IF result # None THEN "none"
                                            ELSE IF me[q].during THEN "before" ELSE "after"]
      BY <1>3, <2>2 DEF Publish, Missed, Waits
    <3> DEFINE m == IF result # None THEN "none" ELSE IF me[q].during THEN "before" ELSE "after"
    <3>2. me'[q].failed = me[q].failed /\ me'[q].moved = me[q].moved /\ me'[q].missed = m
      <4> HIDE DEF m
      <4>1. me'[q] = [me[q] EXCEPT !.during = FALSE, !.missed = m]
        BY <3>1 DEF m
      <4> QED
        BY <1>0, <4>1 DEF Locals
    <3>4. pc[q] # "ready" /\ pc'[q] = pc[q]
      BY <2>1, <2>2 DEF Waits
    <3>5. CASE result # None
      <4>1. m = "none"
        BY <3>5
      <4> QED
        BY <1>i, <2>1, <3>2, <3>4, <3>5, <4>1
    <3>6. CASE result = None
      <4>1. CASE me[q].during
        <5>1. m = "before"
          BY <3>6, <4>1
        <5> QED
          BY <1>i, <2>1, <3>2, <3>4, <3>6, <5>1
      <4>2. CASE ~me[q].during
        <5>1. m = "after"
          BY <3>6, <4>2
        <5>2. lastFailure' = TRUE /\ me[q].moved
          BY <1>i, <2>1, <2>2, <3>6, <4>2
        <5> QED
          BY <1>i, <2>1, <3>2, <3>4, <5>1, <5>2
      <4> QED
        BY <4>1, <4>2
    <3> QED
      BY <3>5, <3>6
  <2>3. CASE ~Waits(q)
    <3>1. me'[q] = me[q] \/ me'[q] = [me[q] EXCEPT !.mine = result]
      BY <1>3, <2>3 DEF Publish, Missed, Waits
    <3>2. me'[q].failed = me[q].failed
      BY <1>0, <3>1 DEF Locals
    <3>3. ~Waits(q)' /\ (pc[q] = "ready" => pc'[q] = "ready")
      BY <2>1, <2>3 DEF Waits
    <3> QED
      BY <1>i, <3>2, <3>3
  <2> QED
    BY <2>2, <2>3
<1>4. CASE Dial
  BY <1>u, <1>4 DEF Dial
<1>5. CASE DialFails
  BY <1>u, <1>5 DEF DialFails, AttemptHas
<1>6. CASE DialSucceeds
  BY <1>u, <1>6 DEF DialSucceeds
<1>7. CASE PollConnected
  BY <1>u, <1>7 DEF PollConnected, AttemptHas
<1>8. CASE UNCHANGED vars
  BY <1>u, <1>8
<1>9. ASSUME NEW c \in Conns, ConnCloses(c) PROVE Goal
  BY <1>u, <1>9 DEF ConnCloses
<1> QED
  BY <1>1, <1>2, <1>3, <1>4, <1>5, <1>6, <1>7, <1>8, <1>9 DEF Next, Attempt, Settled

(* Requests that wait for a dial learn its failure or are still in line,   *)
(* in every reachable state.                                               *)
LEMMA SharingInvariant == Spec => [](TypeOK /\ LockInv /\ SharingInv)
<1>1. Init => SharingInv
  <2> SUFFICES ASSUME Init, NEW r \in Requests PROVE pc[r] = "new" /\ ~me[r].failed
    BY DEF SharingInv, Waits
  <2> QED
    BY DEF Init, Fresh
<1> QED
  BY <1>1, SharingStep, QueueInvariant, PTL DEF Spec

(* Only the request that has the lock leaves lock().await for an attempt   *)
(* or for a failure: it shares the last failure exactly if attempts moved. *)
LEMMA LeavesLock ==
    ASSUME TypeOK, LockInv, SharingInv, [Next]_vars, NEW q \in Requests, pc[q] = "lock"
    PROVE  /\ Dials(q) => StartAttempt(q)
           /\ Shares(q) => ShareFailure(q)
<1>0. /\ pc \in [Requests -> Pcs] /\ me \in [Requests -> Locals] /\ me[q] \in Locals
      /\ ~me[q].failed
  BY DEF TypeOK, Pcs, Locals, SharingInv
<1>u. ASSUME pc'[q] = "lock", me'[q].failed = me[q].failed PROVE ~Dials(q) /\ ~Shares(q)
  BY <1>0, <1>u DEF Dials, Shares
<1>1. ASSUME NEW r \in Requests, Acquire(r) \/ Step(r) \/ Cancel(r) \/ Hyper(r)
      PROVE  (Dials(q) => StartAttempt(q)) /\ (Shares(q) => ShareFailure(q))
  <2>1. CASE q # r
    <3>1. pc'[q] = pc[q] /\ me'[q] = me[q]
      BY <1>0, <1>1, <2>1, OwnStep
    <3> QED
      BY <1>u, <3>1
  <2>2. CASE q = r
    <3>1. Acquire(q) \/ Step(q) \/ Cancel(q) \/ Hyper(q)
      BY <1>1, <2>2
    <3>2. FindReconnected(q) \/ ShareFailure(q) \/ StartAttempt(q) \/ Cancel(q)
      BY <3>1 DEF Acquire, Step, Hyper, PollReady, Call, LookUp, LoadSeen, LockConn, Joined,
                  LoadGeneration, TrySend, Unsent, RetireSender, HyperTakes,
                  HyperHandsBack, Respond
    <3>3. CASE FindReconnected(q)
      <4>1. pc'[q] \in {"ready", "load"}
        BY <1>0, <3>3 DEF FindReconnected, GetsHandle
      <4>2. PICK v : me' = [me EXCEPT ![q].mine = v]
        BY <3>3 DEF FindReconnected, GetsHandle
      <4>3. me'[q].failed = me[q].failed
        BY <1>0, <4>2 DEF Locals
      <4> QED
        BY <1>0, <4>1, <4>3 DEF Dials, Shares
    <3>4. CASE Cancel(q)
      <4>1. pc'[q] = "cancelled" /\ me'[q].failed = FALSE
        BY <1>0, <3>4 DEF Cancel, Finish, Fresh
      <4> QED
        BY <4>1 DEF Dials, Shares
    <3>5. CASE ShareFailure(q)
      <4>1. pc'[q] \in {"failed", "ready"}
        BY <1>0, <3>5 DEF ShareFailure, GetsFailure, DefersFailure, Finish
      <4> QED
        BY <3>5, <4>1 DEF Dials
    <3>6. CASE StartAttempt(q)
      <4>1. pc'[q] = "await" /\ me' = me
        BY <1>0, <3>6 DEF StartAttempt, Goto
      <4> QED
        BY <1>0, <3>6, <4>1 DEF Shares
    <3> QED
      BY <3>2, <3>3, <3>4, <3>5, <3>6
  <2> QED
    BY <2>1, <2>2
<1>2. CASE Bump
  <2>1. pc' = pc /\ (me'[q] = me[q] \/ me'[q] = [me[q] EXCEPT !.moved = TRUE])
    BY <1>2 DEF Bump
  <2>2. me'[q].failed = me[q].failed
    BY <1>0, <2>1 DEF Locals
  <2> QED
    BY <1>u, <2>1, <2>2
<1>3. CASE Publish
  <2>1. PICK m : pc'[q] = pc[q] /\ me'[q] = [me[q] EXCEPT !.during = FALSE, !.missed = m]
    BY <1>3 DEF Publish, Missed
  <2>2. me'[q].failed = me[q].failed
    BY <1>0, <2>1 DEF Locals
  <2> QED
    BY <1>u, <2>1, <2>2
<1>4. CASE UNCHANGED <<pc, me>>
  BY <1>u, <1>4
<1>5. CASE Dial \/ DialFails \/ DialSucceeds \/ PollConnected \/ Settled \/ UNCHANGED vars
  BY <1>4, <1>5 DEF Dial, DialFails, DialSucceeds, PollConnected, Settled
<1>6. ASSUME NEW c \in Conns, ConnCloses(c) PROVE UNCHANGED <<pc, me>>
  BY <1>6 DEF ConnCloses
<1> QED
  BY <1>1, <1>2, <1>3, <1>4, <1>5, <1>6 DEF Next, Attempt

(* A request shares only a failure that was published after it called      *)
(* reconnect(): an old outage never fails a new request.                   *)
THEOREM SharedFailureIsFresh == Spec => FailureIsFresh
<1>1. TypeOK /\ LockInv /\ SharingInv /\ [Next]_vars
        => [\A r \in Requests : Shares(r) => me[r].missed # "none"]_vars
  <2> SUFFICES ASSUME TypeOK, LockInv, SharingInv, [Next]_vars, NEW r \in Requests, Shares(r)
               PROVE  me[r].missed # "none"
    OBVIOUS
  <2>1. pc[r] = "lock"
    BY DEF Shares
  <2>2. ShareFailure(r)
    BY <2>1, LeavesLock
  <2>3. me[r].moved /\ lastFailure /\ attempt = "none"
    BY <2>2, LockTaken DEF ShareFailure, SharesFailure
  <2> QED
    BY <2>1, <2>3 DEF SharingInv, Waits
<1> QED
  BY <1>1, SharingInvariant, PTL DEF Spec, FailureIsFresh

(* A request that waited through a whole attempt that failed shares the    *)
(* failure and does not dial again.                                        *)
THEOREM OneDialPerOutage == Spec => WaitersShareFailure
<1>1. TypeOK /\ LockInv /\ SharingInv /\ [Next]_vars
        => [\A r \in Requests : Dials(r) => me[r].missed # "after"]_vars
  <2> SUFFICES ASSUME TypeOK, LockInv, SharingInv, [Next]_vars, NEW r \in Requests, Dials(r)
               PROVE  me[r].missed # "after"
    OBVIOUS
  <2>1. pc[r] = "lock"
    BY DEF Dials
  <2>2. StartAttempt(r)
    BY <2>1, LeavesLock
  <2>3. ~(me[r].moved /\ lastFailure)
    BY <2>2 DEF StartAttempt, SharesFailure
  <2> QED
    BY <2>1, <2>3 DEF SharingInv, Waits
<1> QED
  BY <1>1, SharingInvariant, PTL DEF Spec, WaitersShareFailure
=============================================================================
