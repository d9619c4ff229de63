------------------------- MODULE ReceiveLoopProofs -------------------------
(***************************************************************************)
(* The receive loops for any number of subscriptions, sizes and messages:  *)
(* they miss no wakeup, and what they hand over stays in its bounds.       *)
(***************************************************************************)
EXTENDS ReceiveLoop, FiniteSetTheorems, TLAPS

\* The visible messages are finitely many, so a count of zero means none.
LoopShape ==
  /\ pc \in [Receivers -> Points]
  /\ notified \in [Receivers -> BOOLEAN]
  /\ IsFiniteSet(visible)

Awake == LoopShape /\ NoMissedWakeup

\* What is eligible shrinks when messages leave the visible ones or join those
\* in flight.
LEMMA EligibleShrinks ==
  ASSUME visible' \subseteq visible, inFlight \subseteq inFlight'
  PROVE  Eligible' \subseteq Eligible
BY DEF Eligible

LEMMA NothingCounted ==
  ASSUME LoopShape, Cardinality(Eligible) = 0
  PROVE  Eligible = {}
<1>1. IsFiniteSet(Eligible)
  BY FS_Subset DEF LoopShape, Eligible
<1> QED BY <1>1, FS_EmptySet

\* Whatever notifies every waiter leaves nobody asleep unnotified.
LEMMA NotifiedAll ==
  ASSUME LoopShape, NotifyWaiters, IsFiniteSet(visible'),
         pc' = pc
  PROVE  Awake'
BY DEF LoopShape, NotifyWaiters, Awake, NoMissedWakeup

LEMMA EnqueueAwake ==
  ASSUME Awake, NEW m, Enqueue(m), pc' = pc
  PROVE  Awake'
<1>1. CASE \A r \in Receivers : pc[r] = "closed"
  BY <1>1 DEF Awake, LoopShape, NoMissedWakeup, Enqueue
<1>2. CASE ~(\A r \in Receivers : pc[r] = "closed")
  <2>1. IsFiniteSet(visible')
    BY <1>2, FS_AddElement DEF Awake, LoopShape, Enqueue
  <2> QED BY <1>2, <2>1, NotifiedAll DEF Awake, Enqueue
<1> QED BY <1>1, <1>2

\* A step of one loop that takes nothing and adds nothing to the queue, and
\* does not put the loop to sleep.
LEMMA QuietStep ==
  ASSUME Awake, NEW r \in Receivers,
         NEW point \in Points \ {"empty", "waiting"}, Goto(r, point),
         \/ notified' = notified
         \/ notified' = [notified EXCEPT ![r] = FALSE],
         visible' \subseteq visible, inFlight \subseteq inFlight'
  PROVE  Awake'
<1>1. /\ pc' = [pc EXCEPT ![r] = point] /\ pc' \in [Receivers -> Points]
      /\ notified' \in [Receivers -> BOOLEAN]
      /\ IsFiniteSet(visible')
  BY FS_Subset DEF Goto, Awake, LoopShape
<1>2. Eligible' \subseteq Eligible
  BY EligibleShrinks
<1>3. ASSUME NEW s \in Receivers, pc'[s] \in {"empty", "waiting"}, ~notified'[s]
      PROVE  pc[s] \in {"empty", "waiting"} /\ ~notified[s]
  BY <1>1, <1>3 DEF Awake, LoopShape
<1>4. NoMissedWakeup'
  BY <1>2, <1>3 DEF NoMissedWakeup, Awake
<1> QED BY <1>1, <1>4 DEF Awake, LoopShape

LEMMA AwakeStep == Awake /\ [Next]_vars => Awake'
<1> SUFFICES ASSUME Awake, [Next]_vars PROVE Awake'
  OBVIOUS
<1>1. ASSUME NEW group \in Groups, Publish(group) PROVE Awake'
  BY <1>1, EnqueueAwake DEF Publish
<1>2. ASSUME NEW m \in inFlight, Delete(m) PROVE Awake'
  BY <1>2, NotifiedAll DEF Delete, Awake, LoopShape
<1>3. ASSUME NEW m \in inFlight, Return(m) PROVE Awake'
  BY <1>3, EnqueueAwake DEF Return
<1>4. ASSUME NEW r \in Receivers, Register(r) PROVE Awake'
  BY <1>4, QuietStep DEF Register, Points
<1>5. ASSUME NEW r \in Receivers, Look(r) PROVE Awake'
  <2>1. CASE Cardinality(Eligible) = 0
    <3>1. Eligible = {}
      BY <2>1, NothingCounted DEF Awake
    <3>2. Eligible' = {} /\ notified' = notified /\ visible' = visible
      BY <1>5, <3>1 DEF Look, Eligible
    <3>3. pc' \in [Receivers -> Points]
      BY <1>5 DEF Look, Goto, Points, Awake, LoopShape
    <3> QED BY <3>2, <3>3 DEF Awake, LoopShape, NoMissedWakeup
  <2>2. CASE Cardinality(Eligible) # 0
    <3>1. \E point \in {"window", "ready"} : Goto(r, point)
      BY <1>5, <2>2 DEF Look
    <3>2. UNCHANGED <<notified, visible, inFlight>>
      BY <1>5 DEF Look
    <3> QED BY <3>1, <3>2, QuietStep DEF Points
  <2> QED BY <2>1, <2>2
<1>6. ASSUME NEW r \in Receivers, Await(r) PROVE Awake'
  <2>1. \A s \in Receivers : pc'[s] \in {"empty", "waiting"}
                              => pc[s] \in {"empty", "waiting"}
    BY <1>6 DEF Await, Goto, Awake, LoopShape
  <2>2. pc' \in [Receivers -> Points]
    BY <1>6 DEF Await, Goto, Points, Awake, LoopShape
  <2>3. UNCHANGED <<notified, visible, inFlight>> /\ Eligible' = Eligible
    BY <1>6 DEF Await, Eligible
  <2> QED BY <2>1, <2>2, <2>3 DEF Awake, LoopShape, NoMissedWakeup
<1>7. ASSUME NEW r \in Receivers, Wake(r) \/ WindowOver(r) \/ Poll(r) PROVE Awake'
  BY <1>7, QuietStep DEF Wake, WindowOver, Poll, Points
<1>8. ASSUME NEW r \in Receivers, Receive(r) PROVE Awake'
  <2>1. /\ visible' \subseteq visible /\ inFlight \subseteq inFlight'
        /\ notified' = notified
    BY <1>8 DEF Receive
  <2>2. \E point \in {"idle", "busy"} : Goto(r, point)
    BY <1>8 DEF Receive
  <2> QED BY <2>1, <2>2, QuietStep DEF Points
<1>9. ASSUME NEW r \in Receivers, Close(r) PROVE Awake'
  <2>1. visible' \subseteq visible /\ inFlight' = inFlight /\ notified' = notified
    BY <1>9 DEF Close
  <2> QED BY <1>9, <2>1, QuietStep DEF Close, Points
<1>10. CASE UNCHANGED vars
  BY <1>10 DEF vars, Awake, LoopShape, NoMissedWakeup, Eligible
<1> QED
  BY <1>1, <1>2, <1>3, <1>4, <1>5, <1>6, <1>7, <1>8, <1>9, <1>10
  DEF Next, Settle, Step

\* No receive loop sleeps through a message it could receive, however arrivals,
\* settlements, lapses and closes interleave with its registration and its look
\* at the queue, for any number of subscriptions and messages.
THEOREM LoopNoMissedWakeup == Spec => []NoMissedWakeup
<1>1. Init => Awake
  BY FS_EmptySet DEF Init, Awake, LoopShape, NoMissedWakeup, Eligible, Points
<1>2. Awake => NoMissedWakeup
  BY DEF Awake
<1> QED BY <1>1, <1>2, AwakeStep, PTL DEF Spec

-----------------------------------------------------------------------------
(* The bounds of a batch.  A receive hands over at most what was asked for  *)
(* because the messages of a queue have sequence numbers of their own: the  *)
(* rank of a message among the unspent ones tells those handed over apart,  *)
(* and is smaller than the size.                                            *)

Sequenced(ms) ==
  /\ \A m \in ms : m \in Message /\ m.seq < published
  /\ \A m, n \in ms : m.seq = n.seq => m = n

\* Every message of the queue, visible or in flight, has its own number.
Apart ==
  /\ Sequenced(visible) /\ Sequenced(inFlight)
  /\ \A m \in visible, n \in inFlight : m.seq # n.seq
  /\ published \in Nat

BatchInv ==
  /\ pc \in [Receivers -> Points] /\ DOMAIN batch = Receivers
  /\ IsFiniteSet(visible) /\ Apart /\ BatchInBounds

Unspent == {m \in Eligible : m.receives < MaxReceives}

\* How many unspent messages come before the one numbered n.
Rank(n) == Cardinality({m \in Unspent : m.seq < n})

LEMMA RankTellsApart ==
  ASSUME BatchInv, NEW m \in Unspent, NEW n \in Unspent, m.seq < n.seq
  PROVE  Rank(m.seq) \in Nat /\ Rank(n.seq) \in Nat /\ Rank(m.seq) < Rank(n.seq)
<1> DEFINE before(k) == {f \in Unspent : f.seq < k.seq}
<1>1. \A f \in Unspent : f.seq \in Nat
  BY DEF BatchInv, Apart, Sequenced, Unspent, Eligible, Message
<1>2. before(m) \subseteq before(n) /\ m \in before(n) /\ m \notin before(m)
  BY <1>1
<1>3. IsFiniteSet(before(n))
  <2>1. before(n) \in SUBSET visible
    BY DEF Unspent, Eligible
  <2> QED BY <2>1, FS_Subset DEF BatchInv
<1>4. IsFiniteSet(before(m)) /\ Cardinality(before(m)) <= Cardinality(before(n))
      /\ Cardinality(before(m)) # Cardinality(before(n))
  <2>1. before(m) \in SUBSET before(n) /\ before(m) # before(n)
    BY <1>2
  <2> HIDE DEF before
  <2> QED BY <1>3, <2>1, FS_Subset
<1>5. Cardinality(before(m)) \in Nat /\ Cardinality(before(n)) \in Nat
  BY <1>3, <1>4, FS_CardinalityType
<1>6. Rank(m.seq) = Cardinality(before(m)) /\ Rank(n.seq) = Cardinality(before(n))
  BY DEF Rank
<1> HIDE DEF before
<1> QED BY <1>4, <1>5, <1>6

\* What a receive of `size` hands over, counted.
Handed(size) == {Counted(m) : m \in {t \in Taken(size) : t.receives < MaxReceives}}

LEMMA HandedFits ==
  ASSUME BatchInv, NEW size \in Nat \ {0}
  PROVE  Cardinality(Handed(size)) <= size
<1> DEFINE H == Handed(size)
           f == [h \in H |-> Rank(h.seq)]
<1>1. \A h \in H : \E m \in Unspent : h = Counted(m) /\ h.seq = m.seq /\ Rank(m.seq) < size
  <2> TAKE h \in H
  <2>1. PICK m \in Taken(size) : m.receives < MaxReceives /\ h = Counted(m)
    BY DEF Handed
  <2>2. m \in Unspent /\ m \in Message
    BY <2>1 DEF Taken, Unspent, Eligible, BatchInv, Apart, Sequenced
  <2>3. h.seq = m.seq
    BY <2>1, <2>2 DEF Counted, Message
  <2>4. {e \in Eligible : e.receives < MaxReceives /\ e.seq < m.seq}
          = {e \in Unspent : e.seq < m.seq}
    BY DEF Unspent
  <2>5. Rank(m.seq) < size
    BY <2>1, <2>4 DEF Taken, Rank
  <2> QED BY <2>1, <2>2, <2>3, <2>5
<1>2. \A m \in Unspent : m.seq \in Nat /\ Rank(m.seq) \in Nat
  <2> TAKE m \in Unspent
  <2>1. {e \in Unspent : e.seq < m.seq} \in SUBSET visible
    BY DEF Unspent, Eligible
  <2>2. IsFiniteSet({e \in Unspent : e.seq < m.seq})
    BY <2>1, FS_Subset DEF BatchInv
  <2>3. Rank(m.seq) \in Nat
    BY <2>2, FS_CardinalityType DEF Rank
  <2> QED BY <2>3 DEF BatchInv, Apart, Sequenced, Unspent, Eligible, Message
<1> HIDE DEF H
<1>3. f \in [H -> 0..(size - 1)]
  <2>1. \A h \in H : Rank(h.seq) \in 0..(size - 1)
    BY <1>1, <1>2
  <2> QED BY <2>1
<1>4. ASSUME NEW g \in H, NEW h \in H, f[g] = f[h]
      PROVE  g = h
  <2>1. PICK m \in Unspent : g = Counted(m) /\ g.seq = m.seq
    BY <1>1
  <2>2. PICK n \in Unspent : h = Counted(n) /\ h.seq = n.seq
    BY <1>1
  <2>3. Rank(m.seq) = Rank(n.seq)
    BY <1>4, <2>1, <2>2
  <2>4. ~(m.seq < n.seq) /\ ~(n.seq < m.seq)
    BY <2>3, RankTellsApart
  <2>5. m.seq = n.seq
    BY <1>2, <2>4
  <2>6. m = n
    BY <2>5 DEF BatchInv, Apart, Sequenced, Unspent, Eligible
  <2> QED BY <2>1, <2>2, <2>6
<1>5. f \in Injection(H, 0..(size - 1))
  <2> HIDE DEF f
  <2> QED BY <1>3, <1>4 DEF Injection, IsInjective
<1>6. IsFiniteSet(0..(size - 1)) /\ Cardinality(0..(size - 1)) = size
  BY FS_Interval
<1> HIDE DEF f
<1>7. Cardinality(H) <= Cardinality(0..(size - 1))
  BY <1>5, <1>6, FS_Injection
<1> QED BY <1>6, <1>7 DEF H

\* A loop whose batch is left alone, or that is not busy afterwards.
LEMMA BatchKept ==
  ASSUME BatchInv, NEW r \in Receivers, NEW point \in Points \ {"busy"}, Goto(r, point),
         batch' = batch \/ batch' = [batch EXCEPT ![r] = {}]
  PROVE  BatchInBounds' /\ DOMAIN batch' = Receivers
<1>1. DOMAIN batch' = Receivers
  BY DEF BatchInv
<1>2. \A s \in Receivers : pc'[s] = "busy" => pc[s] = "busy" /\ batch'[s] = batch[s]
  BY DEF Goto, BatchInv
<1> QED BY <1>1, <1>2 DEF BatchInBounds, BatchInv

LEMMA ApartKept ==
  ASSUME Apart, visible' \subseteq visible, inFlight' \subseteq inFlight, published' = published
  PROVE  Apart'
BY DEF Apart, Sequenced

LEMMA PublishApart ==
  ASSUME BatchInv, NEW group \in Groups, Publish(group)
  PROVE  Apart'
<1> DEFINE new == [seq |-> published, group |-> group, receives |-> 0]
<1>1. /\ published \in Nat /\ published' = published + 1 /\ inFlight' = inFlight
      /\ visible' \subseteq visible \cup {new}
  BY DEF Publish, Enqueue, BatchInv, Apart
<1>2. new \in Message /\ new.seq = published
  BY <1>1 DEF Message
<1> HIDE DEF new
<1>3. \A m \in visible \cup inFlight : m \in Message /\ m.seq \in Nat /\ m.seq < published
  BY DEF BatchInv, Apart, Sequenced, Message
<1>4. Sequenced(inFlight)'
  BY <1>1, <1>3 DEF BatchInv, Apart, Sequenced
<1>5. Sequenced(visible)'
  <2>1. \A m \in visible' : m \in Message /\ m.seq < published'
    BY <1>1, <1>2, <1>3
  <2>2. \A m, n \in visible' : m.seq = n.seq => m = n
    BY <1>1, <1>2, <1>3 DEF BatchInv, Apart, Sequenced
  <2> QED BY <2>1, <2>2 DEF Sequenced
<1>6. \A m \in visible', n \in inFlight' : m.seq # n.seq
  BY <1>1, <1>2, <1>3 DEF BatchInv, Apart
<1> QED BY <1>1, <1>4, <1>5, <1>6 DEF Apart

LEMMA ReturnApart ==
  ASSUME BatchInv, NEW m \in inFlight, Return(m)
  PROVE  Apart'
<1>1. /\ published' = published /\ inFlight' = inFlight \ {m}
      /\ visible' \subseteq visible \cup {m}
  BY DEF Return, Enqueue
<1> QED BY <1>1 DEF BatchInv, Apart, Sequenced

LEMMA ReceiveApart ==
  ASSUME BatchInv, NEW size, NEW handed, handed = Handed(size),
         visible' = visible \ Taken(size), inFlight' = inFlight \cup handed,
         published' = published
  PROVE  Apart'
<1> USE DEF BatchInv, Apart
<1>1. \A h \in handed : \E m \in Taken(size) : h = Counted(m)
  BY DEF Handed
<1>2. \A m \in Taken(size) : m \in visible /\ m \in Message
  BY DEF Taken, Eligible, Sequenced
<1>3. \A m \in Taken(size) : /\ Counted(m) \in Message /\ Counted(m).seq = m.seq
  BY <1>2 DEF Counted, Message
<1>4. \A h \in handed : /\ h \in Message
                        /\ \E m \in Taken(size) : h = Counted(m) /\ h.seq = m.seq
  BY <1>1, <1>3
<1>5. Sequenced(visible)'
  BY DEF Sequenced
<1>6. Sequenced(inFlight)'
  <2>1. \A h \in inFlight' : h \in Message /\ h.seq < published'
    BY <1>2, <1>4 DEF Sequenced
  <2>2. ASSUME NEW g \in inFlight', NEW h \in inFlight', g.seq = h.seq
        PROVE  g = h
    <3>1. CASE g \in inFlight /\ h \in inFlight
      BY <2>2, <3>1 DEF Sequenced
    <3>2. CASE g \in handed /\ h \in handed
      BY <1>2, <1>4, <2>2, <3>2 DEF Sequenced
    <3>3. CASE g \in handed /\ h \in inFlight
      BY <1>2, <1>4, <2>2, <3>3
    <3>4. CASE g \in inFlight /\ h \in handed
      BY <1>2, <1>4, <2>2, <3>4
    <3> QED BY <3>1, <3>2, <3>3, <3>4
  <2> QED BY <2>1, <2>2 DEF Sequenced
<1>7. \A m \in visible', n \in inFlight' : m.seq # n.seq
  <2> SUFFICES ASSUME NEW m \in visible', NEW n \in handed PROVE m.seq # n.seq
    OBVIOUS
  <2>1. PICK k \in Taken(size) : n.seq = k.seq
    BY <1>4
  <2>2. m # k /\ m \in visible /\ k \in visible
    BY <1>2
  <2> QED BY <2>1, <2>2 DEF Sequenced
<1> QED BY <1>5, <1>6, <1>7

LEMMA BatchStep ==
  ASSUME Awake, BatchInv, [Next]_vars
  PROVE  BatchInv'
<1>1. pc' \in [Receivers -> Points] /\ IsFiniteSet(visible')
  BY AwakeStep DEF Awake, LoopShape
<1> SUFFICES Apart' /\ BatchInBounds' /\ DOMAIN batch' = Receivers
  BY <1>1 DEF BatchInv
<1>2. ASSUME pc' = pc, batch' = batch PROVE BatchInBounds' /\ DOMAIN batch' = Receivers
  BY <1>2 DEF BatchInv, BatchInBounds
<1>3. ASSUME NEW group \in Groups, Publish(group)
      PROVE  Apart' /\ BatchInBounds' /\ DOMAIN batch' = Receivers
  BY <1>2, <1>3, PublishApart DEF Publish
<1>4. ASSUME NEW m \in inFlight, Delete(m)
      PROVE  Apart' /\ BatchInBounds' /\ DOMAIN batch' = Receivers
  BY <1>2, <1>4, ApartKept DEF Delete, BatchInv
<1>5. ASSUME NEW m \in inFlight, Return(m)
      PROVE  Apart' /\ BatchInBounds' /\ DOMAIN batch' = Receivers
  BY <1>2, <1>5, ReturnApart DEF Return
<1>6. ASSUME NEW r \in Receivers,
             Register(r) \/ Look(r) \/ Await(r) \/ Wake(r) \/ WindowOver(r) \/ Poll(r)
      PROVE  Apart' /\ BatchInBounds' /\ DOMAIN batch' = Receivers
  <2>1. /\ \E point \in Points \ {"busy"} : Goto(r, point)
        /\ batch' = batch \/ batch' = [batch EXCEPT ![r] = {}]
        /\ UNCHANGED <<visible, inFlight, published>>
    BY <1>6 DEF Register, Look, Await, Wake, WindowOver, Poll, Points
  <2> QED BY <2>1, BatchKept, ApartKept DEF BatchInv
<1>7. ASSUME NEW r \in Receivers, Close(r)
      PROVE  Apart' /\ BatchInBounds' /\ DOMAIN batch' = Receivers
  <2>1. /\ Goto(r, "closed") /\ batch' = [batch EXCEPT ![r] = {}]
        /\ visible' \subseteq visible /\ UNCHANGED <<inFlight, published>>
    BY <1>7 DEF Close
  <2> QED BY <2>1, BatchKept, ApartKept DEF BatchInv, Points
<1>8. ASSUME NEW r \in Receivers, Receive(r)
      PROVE  Apart' /\ BatchInBounds' /\ DOMAIN batch' = Receivers
  <2> DEFINE handed == Handed(Size[r])
  <2>1. /\ visible' = visible \ Taken(Size[r]) /\ inFlight' = inFlight \cup handed
        /\ published' = published
        /\ IF handed = {}
           THEN Goto(r, "idle") /\ UNCHANGED batch
           ELSE Goto(r, "busy") /\ batch' = [batch EXCEPT ![r] = handed]
    BY <1>8 DEF Receive, Handed
  <2>2. Cardinality(handed) <= Size[r]
    BY HandedFits, LoopAssumption
  <2> HIDE DEF handed
  <2>3. Apart'
    BY <2>1, ReceiveApart DEF handed
  <2>4. CASE handed = {}
    BY <2>1, <2>3, <2>4, BatchKept DEF Points
  <2>5. CASE handed # {}
    <3>1. DOMAIN batch' = Receivers /\ batch'[r] = handed
      BY <2>1, <2>5 DEF BatchInv
    <3>2. \A s \in Receivers \ {r} : pc'[s] = pc[s] /\ batch'[s] = batch[s]
      BY <2>1, <2>5 DEF BatchInv, Goto
    <3> QED BY <2>2, <2>3, <2>5, <3>1, <3>2 DEF BatchInv, BatchInBounds
  <2> QED BY <2>4, <2>5
<1>9. CASE UNCHANGED vars
  BY <1>2, <1>9, ApartKept DEF vars, BatchInv
<1> QED BY <1>3, <1>4, <1>5, <1>6, <1>7, <1>8, <1>9 DEF Next, Settle, Step

\* A batch that is handed over is never empty and never larger than the receive
\* asked for, for any sizes, groups, policies and number of subscriptions that
\* take messages from each other between the look and the receive.
THEOREM LoopBatchInBounds == Spec => []BatchInBounds
<1> DEFINE Inv == Awake /\ BatchInv
<1>1. Init => Inv
  <2> SUFFICES ASSUME Init PROVE Inv
    OBVIOUS
  <2>1. Awake
    BY FS_EmptySet DEF Init, Awake, LoopShape, NoMissedWakeup, Eligible, Points
  <2>2. BatchInv
    BY FS_EmptySet DEF Init, BatchInv, Apart, Sequenced, BatchInBounds, Points
  <2> QED BY <2>1, <2>2
<1>2. Inv /\ [Next]_vars => Inv'
  BY AwakeStep, BatchStep
<1>3. Inv => BatchInBounds
  BY DEF BatchInv
<1> QED BY <1>1, <1>2, <1>3, PTL DEF Spec
=============================================================================
