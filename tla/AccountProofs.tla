--------------------------- MODULE AccountProofs ---------------------------
(* Proofs about Account, for every value of its constants. *)
EXTENDS Account, FiniteSetTheorems, TLAPS

\* The visible messages of a queue are finitely many, so that they can be
\* ranked and counted.
VisibleFinite == \A q \in Queues : IsFiniteSet(visible[q])

\* What subscribe_topic refuses never comes about: a FIFO queue is on FIFO
\* topics only, so a copy that reaches it carries FIFO settings.
TopicKinds ==
  \A t \in Topics : \A i \in DOMAIN topics[t] :
    topics[t][i] \in FifoQueues => t \in FifoTopics

Shape == TypeOK /\ VisibleFinite /\ TopicKinds

USE DEF Over

-----------------------------------------------------------------------------

LEMMA CardOfSubset ==
  ASSUME NEW S, NEW T, IsFiniteSet(T), S \subseteq T
  PROVE  IsFiniteSet(S) /\ Cardinality(S) \in Nat
BY FS_Subset, FS_CardinalityType

\* Finitely many positions make finitely many copies.
LEMMA FiniteImage ==
  ASSUME NEW S, NEW T, IsFiniteSet(S), NEW f \in [S -> T],
         \A y \in T : \E x \in S : f[x] = y
  PROVE  IsFiniteSet(T)
<1>1. f \in Surjection(S, T)
  BY DEF Surjection
<1> QED BY <1>1, FS_Surjection

\* Division by a second rounds down to a natural number, and keeps the order.
LEMMA DivNat ==
  ASSUME NEW a \in Nat, NEW s \in Nat \ {0}
  PROVE  a \div s \in Nat
OBVIOUS

LEMMA DivMonotone ==
  ASSUME NEW a \in Nat, NEW b \in Nat, NEW s \in Nat \ {0}, a <= b
  PROVE  a \div s <= b \div s
OBVIOUS
-----------------------------------------------------------------------------
(* The shape of the state. *)

LEMMA KeptSubset ==
  ASSUME NEW q, NEW S
  PROVE  Kept(q, S) \subseteq S
BY DEF Kept

LEMMA RequeueShape ==
  ASSUME Shape, NEW q \in Queues, NEW m \in Stored, Requeue(q, m)
  PROVE  /\ visible' \in [Queues -> SUBSET Stored]
         /\ pending' \in Int
         /\ VisibleFinite'
<1>1. IsFiniteSet({m}) /\ IsFiniteSet(Kept(q, {m}))
      /\ Cardinality(Kept(q, {m})) \in Nat
  BY FS_Singleton, CardOfSubset, KeptSubset
<1>2. visible' \in [Queues -> SUBSET Stored] /\ pending' \in Int
  BY <1>1, KeptSubset DEF Shape, TypeOK, Requeue
<1>3. ASSUME NEW p \in Queues PROVE IsFiniteSet(visible'[p])
  <2>1. IsFiniteSet(visible[p] \cup Kept(q, {m}))
    BY <1>1, FS_Union DEF Shape, VisibleFinite
  <2>2. visible'[p] = visible[p] \/ visible'[p] = visible[p] \cup Kept(q, {m})
    BY DEF Shape, TypeOK, Requeue
  <2> QED BY <2>1, <2>2 DEF Shape, VisibleFinite
<1> QED BY <1>2, <1>3 DEF VisibleFinite

\* The copies of one publish: finitely many, with ids from nextId on.
LEMMA TakingFacts ==
  ASSUME Shape, NEW targets \in Seq(Queues), NEW m \in Message
  PROVE  /\ IsFiniteSet(Taking(targets, m))
         /\ Taking(targets, m) \subseteq DOMAIN targets
         /\ \A i \in Taking(targets, m) : SeqOf(targets, m, i) \in Nat
<1>1. IsFiniteSet(DOMAIN targets)
  BY FS_Interval
<1>2. Taking(targets, m) \subseteq DOMAIN targets
  BY DEF Taking
<1>3. IsFiniteSet(Taking(targets, m))
  BY <1>1, <1>2, CardOfSubset
<1>4. ASSUME NEW i \in Taking(targets, m)
      PROVE  SeqOf(targets, m, i) \in Nat
  <2>1. Cardinality({j \in Taking(targets, m) : j < i}) \in Nat
    BY <1>3, CardOfSubset
  <2> QED BY <2>1 DEF SeqOf, Shape, TypeOK
<1> QED BY <1>2, <1>3, <1>4

LEMMA CopiesFacts ==
  ASSUME Shape, NEW targets \in Seq(Queues), NEW m \in Message,
         NEW q \in Queues
  PROVE  /\ IsFiniteSet(Copies(targets, m, q))
         /\ Copies(targets, m, q) \in SUBSET Stored
<1> DEFINE S == {j \in Taking(targets, m) : targets[j] = q}
           T == Copies(targets, m, q)
           C(i) == [seq |-> SeqOf(targets, m, i), message |-> Copy(q, m),
                    receives |-> 0]
           f == [i \in S |-> C(i)]
<1>1. IsFiniteSet(S)
  BY TakingFacts, CardOfSubset
<1>2. T = {C(i) : i \in S}
  BY DEF Copies
<1>3. f \in [S -> T] /\ \A y \in T : \E x \in S : f[x] = y
  BY <1>2
<1>4. IsFiniteSet(T)
  <2> HIDE DEF S, T, f
  <2> QED BY <1>1, <1>3, FiniteImage
<1>5. Copy(q, m) \in Message
  BY DEF Copy, Plain, Message
<1>6. \A i \in S : C(i) \in Stored
  BY <1>5, TakingFacts DEF Stored
<1> QED BY <1>2, <1>4, <1>6

LEMMA DeliverShape ==
  ASSUME Shape, NEW targets \in Seq(Queues), NEW m \in Message,
         \A i \in DOMAIN targets :
           targets[i] \in FifoQueues => m.dedup \in DedupIds,
         Deliver(targets, m)
  PROVE  /\ visible' \in [Queues -> SUBSET Stored]
         /\ pending' \in Int
         /\ dedup' \in [Queues -> SUBSET Seen]
         /\ nextId' \in Nat
         /\ accepted' \subseteq
              [queue : Queues, id : DedupIds, at : Nat, seq : Nat]
         /\ VisibleFinite'
<1> USE DEF Shape
<1>1. /\ IsFiniteSet(Taking(targets, m))
      /\ Taking(targets, m) \subseteq DOMAIN targets
      /\ \A i \in Taking(targets, m) : SeqOf(targets, m, i) \in Nat
  BY TakingFacts
<1>2. \A q \in Queues : /\ IsFiniteSet(Copies(targets, m, q))
                        /\ Copies(targets, m, q) \in SUBSET Stored
  BY CopiesFacts
<1>3. visible' \in [Queues -> SUBSET Stored]
  BY <1>2, KeptSubset DEF Deliver, TypeOK
<1>4. pending' \in Int
  <2>1. Cardinality({i \in Taking(targets, m) : subscriptions[targets[i]] # 0})
          \in Nat
    BY <1>1, CardOfSubset
  <2> QED BY <2>1 DEF Deliver, TypeOK
<1>5. dedup' \in [Queues -> SUBSET Seen]
  <2>1. ASSUME NEW q \in Queues,
               \E i \in DOMAIN targets :
                 targets[i] \in FifoQueues /\ targets[i] = q
        PROVE  Remember(dedup[q], m.dedup) \in SUBSET Seen
    BY <2>1 DEF Remember, Within, Seen, TypeOK
  <2> QED BY <2>1 DEF Deliver, TypeOK
<1>6. nextId' \in Nat
  BY <1>1, FS_CardinalityType DEF Deliver, TypeOK
<1>7. accepted' \subseteq [queue : Queues, id : DedupIds, at : Nat, seq : Nat]
  BY <1>1 DEF Deliver, TypeOK
<1>8. ASSUME NEW q \in Queues PROVE IsFiniteSet(visible'[q])
  <2>1. IsFiniteSet(Kept(q, Copies(targets, m, q)))
    BY <1>2, KeptSubset, CardOfSubset
  <2>2. visible'[q] = visible[q] \cup Kept(q, Copies(targets, m, q))
    BY DEF Deliver
  <2> QED BY <2>1, <2>2, FS_Union DEF VisibleFinite
<1> QED BY <1>3, <1>4, <1>5, <1>6, <1>7, <1>8 DEF VisibleFinite
LEMMA EntryShape ==
  ASSUME Shape, NEW h \in handles
  PROVE  /\ h \in Handle
         /\ h.queue \in Queues
         /\ EntriesOf(h) \subseteq inFlight[h.queue]
         /\ EntriesOf(h) \subseteq InFlight
BY DEF Shape, TypeOK, EntriesOf, Handle

LEMMA BecomeShape ==
  ASSUME Shape, NEW h \in handles,
         NEW ph \in {"held", "refused"} \cup Over, Become(h, ph)
  PROVE  handles' \subseteq Handle
BY EntryShape, ZenonT(60) DEF Become, Handle, Shape, TypeOK

\* The variables a settlement changes keep their shape.
Settled ==
  /\ visible' \in [Queues -> SUBSET Stored]
  /\ inFlight' \in [Queues -> SUBSET InFlight]
  /\ timers' \subseteq Timer
  /\ pending' \in Int
  /\ VisibleFinite'

LEMMA ChangeVisibilityShape ==
  ASSUME Shape, NEW h \in handles, NEW v \in Nat, ChangeVisibility(h, v)
  PROVE  Settled
<1> USE DEF Shape
<1>1. PICK e \in EntriesOf(h) : ChangeVisibility(h, v)!(e)
  BY DEF ChangeVisibility
<1>2. e \in InFlight /\ e.stored \in Stored /\ h.queue \in Queues
      /\ h.receipt \in Nat
  BY EntryShape DEF InFlight, Handle
<1>3. CASE v = 0
  <2>1. Requeue(h.queue, e.stored) /\ timers' = timers
        /\ inFlight' = [inFlight EXCEPT ![h.queue] = @ \ {e}]
    BY <1>1, <1>3
  <2>2. inFlight' \in [Queues -> SUBSET InFlight]
    BY <2>1 DEF TypeOK
  <2> QED BY <2>1, <2>2, <1>2, RequeueShape DEF Settled, TypeOK
<1>4. CASE v > 0
  <2>1. /\ visible' = visible /\ pending' = pending
        /\ inFlight' = [inFlight EXCEPT ![h.queue] =
             (@ \ {e}) \cup {[e EXCEPT !.generation = @ + 1]}]
        /\ timers' = timers \cup
            {[receipt |-> h.receipt, queue |-> h.queue,
              generation |-> e.generation + 1, at |-> now + v]}
    BY <1>1, <1>4
  <2>2. [e EXCEPT !.generation = @ + 1] \in InFlight /\ e.generation + 1 \in Nat
    BY <1>2 DEF InFlight
  <2>3. inFlight' \in [Queues -> SUBSET InFlight]
    BY <2>1, <2>2 DEF TypeOK
  <2>4. timers' \subseteq Timer
    BY <2>1, <2>2, <1>2 DEF Timer, TypeOK
  <2> QED BY <2>1, <2>3, <2>4 DEF Settled, TypeOK, VisibleFinite
<1> QED BY <1>3, <1>4

LEMMA SetVisibilityShape ==
  ASSUME Shape, NEW h \in handles, NEW v \in Nat, SetVisibility(h, v)
  PROVE  Settled /\ handles' \subseteq Handle
<1>1. CASE Refuses(h, v)
  BY <1>1, BecomeShape DEF SetVisibility, Settled, Shape, TypeOK, VisibleFinite
<1>2. CASE ~Refuses(h, v)
  BY <1>2, BecomeShape, ChangeVisibilityShape DEF SetVisibility
<1> QED BY <1>1, <1>2

LEMMA DeleteShape ==
  ASSUME Shape, NEW h \in handles, NEW ph \in Over, Delete(h, ph)
  PROVE  Settled /\ handles' \subseteq Handle
BY EntryShape, BecomeShape DEF Delete, Settled, Shape, TypeOK, VisibleFinite

\* The timeouts the settlements ask for are natural numbers.
LEMMA DelayNat ==
  ASSUME Shape, NEW h \in handles, NEW delay \in Delays, NEW lag \in 0..MaxLag
  PROVE  Second * Min2(WholeSeconds(delay), WindowLeft(h, lag)) \in Nat
<1> USE TimeAssumption, MarginAssumption, WindowAssumption DEF Shape
<1>1. h.received \in Nat /\ now \in Nat
  BY EntryShape DEF Handle, TypeOK
<1>2. Held(h, lag) \in Int
  BY <1>1 DEF Held, Minus
<1>3. Minus(Window - Margin, Held(h, lag)) \in Nat
  BY <1>2 DEF Minus
<1>4. WindowLeft(h, lag) \in Nat
  BY <1>3, DivNat DEF WindowLeft, SecondsLeft
<1>5. WholeSeconds(delay) \in Nat
  <2>1. delay + Second - 1 \in Nat
    OBVIOUS
  <2> QED BY <2>1, DivNat DEF WholeSeconds
<1>6. Min2(WholeSeconds(delay), WindowLeft(h, lag)) \in Nat
  BY <1>4, <1>5 DEF Min2
<1> QED BY <1>6

LEMMA RemainingNat ==
  ASSUME Shape, NEW h \in handles, NEW lag \in 0..MaxLag
  PROVE  RemainingVisibility(h, lag) \in Nat
<1> USE TimeAssumption, MarginAssumption, WindowAssumption DEF Shape
<1>1. h.received \in Nat /\ now \in Nat /\ h.visibility \in Timeouts
  BY EntryShape DEF Handle, TypeOK
<1>2. Held(h, lag) \in Int
  BY <1>1 DEF Held, Minus
<1>3. CASE h.visibility = 0
  BY <1>3 DEF RemainingVisibility, Remaining, Period
<1>4. CASE h.visibility # 0
  <2> DEFINE period == h.visibility \div 2
             last == (Held(h, lag) \div period) * period
  <2>1. period \in Nat \ {0}
    BY <1>1, <1>4 DEF Timeouts
  <2>2. last \in Int
    BY <2>1, <1>2
  <2>3. RemainingVisibility(h, lag)
          = Minus(Min2(last + h.visibility, Window - Margin), Held(h, lag))
    BY <1>4 DEF RemainingVisibility, Remaining, Period
  <2>4. Min2(last + h.visibility, Window - Margin) \in Int
    BY <2>2, <1>1 DEF Min2, Timeouts
  <2> HIDE DEF last
  <2> QED BY <2>3, <2>4, <1>2 DEF Minus
<1> QED BY <1>3, <1>4
\* What a receive takes is a finite part of what is visible, and what it hands
\* over is ranked from zero.
LEMMA TakenFacts ==
  ASSUME Shape, NEW q \in Queues, NEW size \in Sizes
  PROVE  /\ Taken(q, size) \subseteq visible[q]
         /\ Taken(q, size) \subseteq Stored
         /\ \A S \in SUBSET Taken(q, size) :
              /\ IsFiniteSet(S) /\ Cardinality(S) \in Nat
              /\ \A m \in S : Rank(m, S) \in Nat
<1>1. Taken(q, size) \subseteq visible[q]
  BY DEF Taken, Eligible
<1>2. Taken(q, size) \subseteq Stored /\ IsFiniteSet(visible[q])
  BY <1>1 DEF Shape, TypeOK, VisibleFinite
<1>3. ASSUME NEW S \in SUBSET Taken(q, size)
      PROVE  IsFiniteSet(S) /\ Cardinality(S) \in Nat
  BY <1>1, <1>2, CardOfSubset
<1>4. ASSUME NEW S \in SUBSET Taken(q, size), NEW m \in S
      PROVE  Rank(m, S) \in Nat
  <2>1. {f \in S : f.seq < m.seq} \in SUBSET Taken(q, size)
    OBVIOUS
  <2> QED BY <2>1, <1>3 DEF Rank
<1> QED BY <1>1, <1>2, <1>3, <1>4

LEMMA OpenReg ==
  ASSUME Shape, NEW s \in Subscriptions, sub[s].phase \in {"declared", "open"}
  PROVE  /\ sub[s] \in [phase : {"declared", "open"}, reg : Registrations]
         /\ sub[s].reg \in Registrations
<1>1. sub[s] \in SubState
  BY DEF Shape, TypeOK
<1>2. sub[s] # Closed
  BY DEF Closed
<1>3. sub[s] \in [phase : {"declared", "open"}, reg : Registrations]
  BY <1>1, <1>2 DEF SubState
<1> QED BY <1>3

LEMMA ReceiveShape ==
  ASSUME Shape, NEW s \in Subscriptions, NEW size \in Sizes, Receive(s, size)
  PROVE  Shape'
<1> USE DEF Shape
<1> DEFINE reg == sub[s].reg
           q == reg.queue
           taken == Taken(q, size)
           spent == {m \in taken : Spent(q, m)}
           handed == taken \ spent
           target == IF spent = {} THEN q ELSE redrive[q].queue
           moved == Kept(target, spent)
<1>1. reg \in Registrations /\ reg \in Registration /\ q \in Queues
  BY OpenReg, RegistrationAssumption, ZenonT(60) DEF Receive, Registration
<1>2. target \in Queues
  BY <1>1 DEF Spent, TypeOK, Policy
<1>3. /\ taken \subseteq Stored /\ handed \subseteq Stored
      /\ IsFiniteSet(spent) /\ Cardinality(spent) \in Nat
      /\ IsFiniteSet(moved) /\ Cardinality(moved) \in Nat
      /\ Cardinality(handed) \in Nat
      /\ \A m \in handed : Rank(m, handed) \in Nat
  <2>1. moved \in SUBSET taken /\ spent \in SUBSET taken /\ handed \in SUBSET taken
    BY KeptSubset
  <2> HIDE DEF spent, handed, moved, taken, q
  <2>2. taken = Taken(q, size)
    BY DEF taken
  <2> QED BY <2>1, <2>2, <1>1, TakenFacts
<1>4. inFlight' \in [Queues -> SUBSET InFlight]
  <2>1. ASSUME NEW m \in handed
        PROVE  [receipt |-> nextId + Rank(m, handed),
                stored |-> [m EXCEPT !.receives = @ + 1],
                received |-> now, generation |-> 0] \in InFlight
    <3> HIDE DEF handed
    <3>1. m \in Stored /\ nextId + Rank(m, handed) \in Nat /\ now \in Nat
      BY <1>3 DEF TypeOK
    <3>2. [m EXCEPT !.receives = @ + 1] \in Stored
      BY <3>1 DEF Stored
    <3> QED BY <3>1, <3>2 DEF InFlight
  <2>2. inFlight' = [inFlight EXCEPT ![q] = @ \cup
          {[receipt |-> nextId + Rank(m, handed),
            stored |-> [m EXCEPT !.receives = @ + 1],
            received |-> now, generation |-> 0] : m \in handed}]
    BY ZenonT(60) DEF Receive
  <2> HIDE DEF handed, q
  <2> QED BY <2>1, <2>2, ZenonT(60) DEF TypeOK
<1>5. handles' \subseteq Handle
  <2> DEFINE max == IF reg.redrive = None THEN None ELSE reg.redrive.max
  <2>1. max \in (Nat \ {0}) \cup {None} /\ reg.visibility \in Timeouts
    BY <1>1 DEF Registration, Policy
  <2>2. ASSUME NEW m \in handed
        PROVE  [receipt |-> nextId + Rank(m, handed), queue |-> q,
                receives |-> m.receives + 1, redriveMax |-> max,
                visibility |-> reg.visibility,
                received |-> now, phase |-> "held"] \in Handle
    <3> HIDE DEF handed
    <3>1. m \in Stored /\ nextId + Rank(m, handed) \in Nat /\ now \in Nat
      BY <1>3 DEF TypeOK
    <3>2. m.receives + 1 \in Nat
      BY <3>1 DEF Stored
    <3> HIDE DEF max, q, reg
    <3> QED BY <3>1, <3>2, <2>1, <1>1 DEF Handle
  <2>3. handles' = handles \cup
          {[receipt |-> nextId + Rank(m, handed), queue |-> q,
            receives |-> m.receives + 1, redriveMax |-> max,
            visibility |-> reg.visibility,
            received |-> now, phase |-> "held"] : m \in handed}
    BY ZenonT(60) DEF Receive
  <2> HIDE DEF handed, q, max, reg
  <2> QED BY <2>2, <2>3 DEF TypeOK
<1>6. visible' \in [Queues -> SUBSET Stored] /\ VisibleFinite'
  <2>1. visible' = [p \in Queues |->
          (visible[p] \ (IF p = q THEN taken ELSE {}))
            \cup (IF p = target THEN moved ELSE {})]
    BY ZenonT(60) DEF Receive
  <2>2. moved \subseteq Stored
    BY <1>3, KeptSubset
  <2> HIDE DEF moved, taken, q, target
  <2>3. visible' \in [Queues -> SUBSET Stored]
    BY <2>1, <2>2 DEF TypeOK
  <2>4. ASSUME NEW p \in Queues PROVE IsFiniteSet(visible'[p])
    <3>1. IsFiniteSet(visible[p] \cup moved)
      BY <1>3, FS_Union DEF VisibleFinite
    <3>2. visible'[p] \subseteq visible[p] \cup moved
      BY <2>1
    <3> QED BY <3>1, <3>2, CardOfSubset
  <2> QED BY <2>3, <2>4 DEF VisibleFinite
<1>7. pending' \in Int /\ nextId' \in Nat
  <2>1. /\ pending' = pending - Cardinality(spent) + Cardinality(moved)
        /\ nextId' = nextId + Cardinality(handed)
    BY ZenonT(60) DEF Receive
  <2> HIDE DEF spent, moved, handed
  <2> QED BY <2>1, <1>3 DEF TypeOK
<1>8. log' \in [Queues \cup Topics -> Nat]
  <2>1. log' = [log EXCEPT ![target] = @ + Cardinality(spent)]
    BY ZenonT(60) DEF Receive
  <2> HIDE DEF spent, target
  <2> QED BY <2>1, <1>2, <1>3 DEF TypeOK
<1> QED BY <1>4, <1>5, <1>6, <1>7, <1>8, ZenonT(60)
      DEF Receive, TypeOK, topicVars, TopicKinds
LEMMA ShapeInit == Init => Shape
<1> SUFFICES ASSUME Init PROVE Shape
  OBVIOUS
<1>1. TypeOK
  BY DEF Init, TypeOK, SubState
<1>2. VisibleFinite
  BY FS_EmptySet DEF Init, VisibleFinite
<1>3. TopicKinds
  BY DEF Init, TopicKinds
<1> QED BY <1>1, <1>2, <1>3 DEF Shape

LEMMA ShapeStep == Shape /\ [Next]_vars => Shape'
<1> SUFFICES ASSUME Shape, [Next]_vars PROVE Shape'
  OBVIOUS
<1> USE DEF Shape
<1>1. ASSUME NEW s \in Subscriptions, NEW reg \in Registrations, Declare(s, reg)
      PROVE  Shape'
  <2>1. reg \in Registration
    BY RegistrationAssumption
  <2>2. redrive' \in [Queues -> Policy \cup {None}]
    BY <1>1, <2>1 DEF Declare, TypeOK, Registration
  <2>3. sub' \in [Subscriptions -> SubState]
    BY <1>1 DEF Declare, TypeOK, SubState
  <2> QED BY <1>1, <2>2, <2>3 DEF Declare, TypeOK, VisibleFinite, TopicKinds,
             topicVars
<1>2. ASSUME NEW s \in Subscriptions, Open(s) PROVE Shape'
  <2>1. sub[s] \in [phase : {"declared", "open"}, reg : Registrations]
        /\ sub[s].reg.queue \in Queues
    BY <1>2, OpenReg, RegistrationAssumption DEF Open, Registration
  <2>2. sub' \in [Subscriptions -> SubState]
    BY <1>2, <2>1 DEF Open, TypeOK, SubState
  <2>3. subscriptions' \in [Queues -> Nat]
    BY <1>2, <2>1 DEF Open, TypeOK
  <2> QED BY <1>2, <2>2, <2>3 DEF Open, TypeOK, VisibleFinite, TopicKinds,
             topicVars
<1>3. ASSUME NEW s \in Subscriptions, Close(s) PROVE Shape'
  <2> DEFINE q == sub[s].reg.queue
             left == Minus(subscriptions[q], 1)
             lost == IF left = 0 THEN visible[q] ELSE {}
  <2>1. q \in Queues
    BY <1>3, OpenReg, RegistrationAssumption DEF Close, Registration
  <2>2. lost \subseteq visible[q] /\ IsFiniteSet(visible[q]) /\ left \in Nat
    BY <2>1 DEF VisibleFinite, TypeOK, Minus
  <2>3. Cardinality(lost) \in Nat
    BY <2>2, CardOfSubset
  <2>4. sub' \in [Subscriptions -> SubState]
    BY <1>3 DEF Close, TypeOK, SubState
  <2>5. /\ subscriptions' = [subscriptions EXCEPT ![q] = left]
        /\ visible' = [visible EXCEPT ![q] = @ \ lost]
        /\ pending' = pending - Cardinality(lost)
    BY <1>3 DEF Close
  <2> HIDE DEF q, left, lost
  <2>6. /\ subscriptions' \in [Queues -> Nat]
        /\ visible' \in [Queues -> SUBSET Stored]
        /\ pending' \in Int
    BY <2>1, <2>2, <2>3, <2>5 DEF TypeOK
  <2>7. ASSUME NEW p \in Queues PROVE IsFiniteSet(visible'[p])
    <3>1. visible'[p] \subseteq visible[p]
      BY <2>5 DEF TypeOK
    <3> QED BY <3>1, CardOfSubset DEF VisibleFinite
  <2> QED BY <1>3, <2>4, <2>6, <2>7 DEF Close, TypeOK, VisibleFinite,
             TopicKinds, topicVars
<1>4. ASSUME NEW s \in Subscriptions, NEW size \in Sizes, Receive(s, size)
      PROVE  Shape'
  BY <1>4, ReceiveShape
<1>5. ASSUME NEW q \in Queues, NEW m \in Message, Send(q, m) PROVE Shape'
  <2>1. <<q>> \in Seq(Queues)
        /\ \A i \in DOMAIN <<q>> : <<q>>[i] \in FifoQueues => m.dedup \in DedupIds
    BY <1>5 DEF Send, Outbound
  <2>2. Deliver(<<q>>, m) /\ log' \in [Queues \cup Topics -> Nat]
    BY <1>5 DEF Send, TypeOK
  <2> QED BY <1>5, <2>1, <2>2, DeliverShape DEF Send, TypeOK, TopicKinds,
             topicVars
<1>6. ASSUME NEW t \in Topics, NEW q \in Queues, SubscribeTopic(t, q)
      PROVE  Shape'
  <2>1. topics' \in [Topics -> Seq(Queues)]
    BY <1>6 DEF SubscribeTopic, TypeOK
  <2>2. ASSUME NEW u \in Topics, NEW i \in DOMAIN topics'[u],
               topics'[u][i] \in FifoQueues
        PROVE  u \in FifoTopics
    BY <1>6, <2>2 DEF SubscribeTopic, TypeOK, TopicKinds
  <2> QED BY <1>6, <2>1, <2>2 DEF SubscribeTopic, TypeOK, VisibleFinite,
             TopicKinds, queueVars
<1>7. ASSUME NEW t \in Topics, NEW m \in Message, PublishTopic(t, m)
      PROVE  Shape'
  <2> DEFINE targets == IF t \in FifoTopics /\ SeenWithin(topicDedup[t], m.dedup)
                        THEN <<>> ELSE topics[t]
  <2>1. targets \in Seq(Queues)
    BY DEF TypeOK
  <2>2. \A i \in DOMAIN targets : targets[i] \in FifoQueues => m.dedup \in DedupIds
    BY <1>7 DEF PublishTopic, Outbound, TopicKinds
  <2>3. Deliver(targets, m)
    BY <1>7 DEF PublishTopic
  <2>4. log' \in [Queues \cup Topics -> Nat]
    BY <1>7 DEF PublishTopic, TypeOK
  <2>5. topicDedup' \in [Topics -> SUBSET Seen]
    <3>1. t \in FifoTopics => Remember(topicDedup[t], m.dedup) \in SUBSET Seen
      BY <1>7 DEF PublishTopic, Outbound, Remember, Within, Seen, TypeOK
    <3> QED BY <3>1, <1>7 DEF PublishTopic, TypeOK
  <2> HIDE DEF targets
  <2> QED BY <1>7, <2>1, <2>2, <2>3, <2>4, <2>5, DeliverShape
          DEF PublishTopic, TypeOK, TopicKinds
<1>8. ASSUME NEW h \in handles, Ack(h) PROVE Shape'
  BY <1>8, DeleteShape DEF Ack, SettlementFrame, Settled, TypeOK, TopicKinds,
     topicVars
<1>9. ASSUME NEW h \in handles, NEW requeue \in BOOLEAN, Nack(h, requeue)
      PROVE  Shape'
  <2>1. Settled /\ handles' \subseteq Handle
    BY <1>9, DeleteShape, SetVisibilityShape DEF Nack
  <2> QED BY <1>9, <2>1 DEF Nack, SettlementFrame, Settled, TypeOK, TopicKinds,
             topicVars
<1>10. ASSUME NEW h \in handles, NEW delay \in Delays, NEW lag \in 0..MaxLag,
              NackAfter(h, delay, lag)
       PROVE  Shape'
  <2>1. Settled /\ handles' \subseteq Handle
    BY <1>10, DelayNat, SetVisibilityShape DEF NackAfter
  <2> QED BY <1>10, <2>1 DEF NackAfter, SettlementFrame, Settled, TypeOK,
             TopicKinds, topicVars
<1>11. ASSUME NEW h \in handles, NEW lag \in 0..MaxLag, DropUnsettled(h, lag)
       PROVE  Shape'
  <2>1. handles' \subseteq Handle
    BY <1>11, BecomeShape DEF DropUnsettled
  <2>2. Settled
    <3>1. CASE Refuses(h, RemainingVisibility(h, lag))
      BY <1>11, <3>1 DEF DropUnsettled, Settled, TypeOK, VisibleFinite
    <3>2. CASE ~Refuses(h, RemainingVisibility(h, lag))
      BY <1>11, <3>2, RemainingNat, ChangeVisibilityShape DEF DropUnsettled
    <3> QED BY <3>1, <3>2
  <2> QED BY <1>11, <2>1, <2>2 DEF DropUnsettled, SettlementFrame, Settled,
             TypeOK, TopicKinds, topicVars
<1>12. ASSUME NEW h \in handles, Release(h) PROVE Shape'
  BY <1>12 DEF Release, SettlementFrame, TypeOK, VisibleFinite, TopicKinds,
     topicVars
<1>13. ASSUME NEW t \in timers, Lapse(t) PROVE Shape'
  <2> DEFINE lapsed == {e \in inFlight[t.queue] :
                          e.receipt = t.receipt /\ e.generation = t.generation}
  <2>1. t.queue \in Queues
    BY DEF TypeOK, Timer
  <2>2. CASE lapsed = {}
    BY <1>13, <2>2 DEF Lapse, SettlementFrame, TypeOK, VisibleFinite,
       TopicKinds, topicVars
  <2>3. CASE lapsed # {}
    <3>1. PICK e \in lapsed :
            /\ inFlight' = [inFlight EXCEPT ![t.queue] = @ \ {e}]
            /\ Requeue(t.queue, e.stored)
      BY <1>13, <2>3 DEF Lapse
    <3>2. e.stored \in Stored
      BY <2>1 DEF TypeOK, InFlight
    <3> QED BY <1>13, <2>1, <3>1, <3>2, RequeueShape
            DEF Lapse, SettlementFrame, TypeOK, TopicKinds, topicVars
  <2> QED BY <2>2, <2>3
<1>14. CASE Tick
  BY <1>14 DEF Tick, TypeOK, VisibleFinite, TopicKinds, queueVars, topicVars
<1>15. CASE UNCHANGED vars
  BY <1>15 DEF vars, TypeOK, VisibleFinite, TopicKinds
<1> QED
  BY <1>1, <1>2, <1>3, <1>4, <1>5, <1>6, <1>7, <1>8, <1>9, <1>10, <1>11,
     <1>12, <1>13, <1>14, <1>15 DEF Next

\* The type invariant of the account, for every set of queues, topics,
\* subscriptions and registrations and every clock and id bound.  It is not
\* inductive alone: that the ids a FIFO queue remembers are deduplication ids
\* rests on the topics it is subscribed to (TopicKinds).
THEOREM AccountTypeOK == Spec => []TypeOK
<1>1. Shape => TypeOK
  BY DEF Shape
<1> QED BY <1>1, ShapeInit, ShapeStep, PTL DEF Spec
-----------------------------------------------------------------------------
(* Queues nobody reads, and the kinds of messages. *)

LEMMA UnattendedStep ==
  Shape /\ UnattendedIsEmpty /\ [Next]_vars => UnattendedIsEmpty'
<1> SUFFICES ASSUME Shape, UnattendedIsEmpty, [Next]_vars
             PROVE  UnattendedIsEmpty'
  OBVIOUS
<1> USE DEF Shape
<1>1. ASSUME NEW q \in Queues, NEW m, Requeue(q, m), subscriptions' = subscriptions
      PROVE  UnattendedIsEmpty'
  BY <1>1 DEF Requeue, Kept, UnattendedIsEmpty, TypeOK
<1>2. ASSUME NEW targets, NEW m, Deliver(targets, m),
             subscriptions' = subscriptions
      PROVE  UnattendedIsEmpty'
  BY <1>2 DEF Deliver, Kept, UnattendedIsEmpty
<1>3. ASSUME NEW h \in handles, NEW v, ChangeVisibility(h, v),
             subscriptions' = subscriptions
      PROVE  UnattendedIsEmpty'
  BY <1>1, <1>3, EntryShape DEF ChangeVisibility, UnattendedIsEmpty
<1>4. ASSUME NEW s \in Subscriptions, Open(s) PROVE UnattendedIsEmpty'
  <2>1. sub[s].reg.queue \in Queues
    BY <1>4, OpenReg, RegistrationAssumption DEF Open, Registration
  <2> QED BY <1>4, <2>1 DEF Open, UnattendedIsEmpty, TypeOK
<1>5. ASSUME NEW s \in Subscriptions, Close(s) PROVE UnattendedIsEmpty'
  <2>1. sub[s].reg.queue \in Queues
    BY <1>5, OpenReg, RegistrationAssumption DEF Close, Registration
  <2> QED BY <1>5, <2>1 DEF Close, UnattendedIsEmpty, TypeOK
<1>6. ASSUME NEW s \in Subscriptions, NEW size \in Sizes, Receive(s, size)
      PROVE  UnattendedIsEmpty'
  BY <1>6, ZenonT(60) DEF Receive, Kept, UnattendedIsEmpty
<1>7. ASSUME NEW h \in handles, NEW v, SetVisibility(h, v),
             subscriptions' = subscriptions
      PROVE  UnattendedIsEmpty'
  BY <1>3, <1>7 DEF SetVisibility, UnattendedIsEmpty
<1>8. ASSUME NEW h \in handles, NEW ph, Delete(h, ph), subscriptions' = subscriptions
      PROVE  UnattendedIsEmpty'
  BY <1>8 DEF Delete, UnattendedIsEmpty
<1>9. ASSUME NEW t \in timers, Lapse(t) PROVE UnattendedIsEmpty'
  <2>1. t.queue \in Queues /\ subscriptions' = subscriptions
    BY <1>9 DEF TypeOK, Timer, Lapse, SettlementFrame
  <2> QED BY <1>1, <1>9, <2>1 DEF Lapse, UnattendedIsEmpty
<1>10. ASSUME NEW h \in handles, NEW lag \in 0..MaxLag, DropUnsettled(h, lag)
       PROVE  UnattendedIsEmpty'
  BY <1>3, <1>10 DEF DropUnsettled, SettlementFrame, UnattendedIsEmpty
<1>11. ASSUME UNCHANGED <<subscriptions, visible>> PROVE UnattendedIsEmpty'
  BY <1>11 DEF UnattendedIsEmpty
<1>12. ASSUME NEW h \in handles,
              \/ Ack(h)
              \/ \E requeue \in BOOLEAN : Nack(h, requeue)
              \/ \E delay \in Delays, lag \in 0..MaxLag : NackAfter(h, delay, lag)
       PROVE  UnattendedIsEmpty'
  BY <1>7, <1>8, <1>12 DEF Ack, Nack, NackAfter, SettlementFrame
<1>13. ASSUME NEW q \in Queues, NEW m \in Message, Send(q, m)
       PROVE  UnattendedIsEmpty'
  BY <1>2, <1>13 DEF Send
<1>14. ASSUME NEW t \in Topics, NEW m \in Message, PublishTopic(t, m)
       PROVE  UnattendedIsEmpty'
  BY <1>2, <1>14 DEF PublishTopic
<1>15. ASSUME \/ \E s \in Subscriptions, reg \in Registrations : Declare(s, reg)
              \/ \E t \in Topics, q \in Queues : SubscribeTopic(t, q)
              \/ \E h \in handles : Release(h)
              \/ Tick
              \/ UNCHANGED vars
       PROVE  UnattendedIsEmpty'
  BY <1>11, <1>15 DEF Declare, SubscribeTopic, Release, SettlementFrame, Tick,
     queueVars, vars
<1> QED
  BY <1>4, <1>5, <1>6, <1>9, <1>10, <1>12, <1>13, <1>14, <1>15 DEF Next

\* A queue nobody subscribes to holds nothing, however many subscriptions,
\* deliveries and timers outlive one another.
THEOREM AccountUnattendedIsEmpty == Spec => []UnattendedIsEmpty
<1>1. Init => UnattendedIsEmpty
  BY DEF Init, UnattendedIsEmpty
<1> QED BY <1>1, ShapeInit, ShapeStep, UnattendedStep, PTL DEF Spec

\* set_redrive refuses a dead-letter queue of the other kind.
RedriveKinds ==
  \A q \in Queues : redrive[q] # None =>
    (q \in FifoQueues <=> redrive[q].queue \in FifoQueues)

OfKind(q, m) == m.message.group # None <=> q \in FifoQueues

Kinds == KindsMatch /\ RedriveKinds

LEMMA KindsStep == Shape /\ Kinds /\ [Next]_vars => Kinds'
<1> SUFFICES ASSUME Shape, Kinds, [Next]_vars PROVE Kinds'
  OBVIOUS
<1> USE DEF Shape
<1>0. \A q \in Queues : /\ \A m \in visible[q] : OfKind(q, m)
                        /\ \A e \in inFlight[q] : OfKind(q, e.stored)
  BY DEF Kinds, KindsMatch, OfKind
<1>1. ASSUME \A q \in Queues : /\ \A m \in visible'[q] : OfKind(q, m)
                              /\ \A e \in inFlight'[q] : OfKind(q, e.stored),
             redrive' = redrive
      PROVE  Kinds'
  BY <1>1 DEF Kinds, KindsMatch, RedriveKinds, OfKind
<1>2. ASSUME NEW q \in Queues, NEW e \in inFlight[q],
             inFlight' = [inFlight EXCEPT ![q] = @ \ {e}], Requeue(q, e.stored),
             redrive' = redrive
      PROVE  Kinds'
  <2>1. \A p \in Queues : \A d \in inFlight'[p] : d \in inFlight[p]
    BY <1>2 DEF TypeOK
  <2>2. \A p \in Queues : \A m \in visible'[p] :
          m \in visible[p] \/ (p = q /\ m = e.stored)
    BY <1>2, KeptSubset DEF Requeue, TypeOK
  <2> QED BY <1>0, <1>1, <1>2, <2>1, <2>2
<1>3. ASSUME NEW h \in handles, NEW v \in Nat, ChangeVisibility(h, v),
             redrive' = redrive
      PROVE  Kinds'
  <2>1. PICK e \in EntriesOf(h) : ChangeVisibility(h, v)!(e)
    BY <1>3 DEF ChangeVisibility
  <2>2. h.queue \in Queues /\ e \in inFlight[h.queue] /\ e \in InFlight
    BY EntryShape
  <2>3. CASE v = 0
    BY <1>2, <1>3, <2>1, <2>2, <2>3
  <2>4. CASE v > 0
    <3>1. [e EXCEPT !.generation = @ + 1].stored = e.stored
      BY <2>2 DEF InFlight
    <3>2. /\ inFlight' = [inFlight EXCEPT ![h.queue] =
               (@ \ {e}) \cup {[e EXCEPT !.generation = @ + 1]}]
          /\ visible' = visible
      BY <2>1, <2>4
    <3> QED BY <1>0, <1>1, <1>3, <2>2, <3>1, <3>2 DEF TypeOK
  <2> QED BY <2>3, <2>4
<1>4. ASSUME NEW h \in handles, NEW v \in Nat, SetVisibility(h, v),
             redrive' = redrive
      PROVE  Kinds'
  BY <1>0, <1>1, <1>3, <1>4 DEF SetVisibility
<1>5. ASSUME NEW h \in handles, NEW ph, Delete(h, ph), redrive' = redrive
      PROVE  Kinds'
  BY <1>0, <1>1, <1>5, EntryShape DEF Delete, TypeOK
<1>6. ASSUME NEW targets \in Seq(Queues), NEW m \in Message, Deliver(targets, m),
             \A i \in DOMAIN targets : targets[i] \in FifoQueues => m.group \in Groups,
             inFlight' = inFlight, redrive' = redrive
      PROVE  Kinds'
  <2>1. ASSUME NEW q \in Queues, NEW n \in visible'[q] PROVE OfKind(q, n)
    <3>1. n \in visible[q] \/ n \in Copies(targets, m, q)
      BY <1>6, KeptSubset DEF Deliver
    <3>2. CASE n \in Copies(targets, m, q)
      <4>1. PICK i \in DOMAIN targets : targets[i] = q /\ n.message = Copy(q, m)
        BY <3>2 DEF Copies, Taking
      <4> QED BY <1>6, <4>1, NoneAssumption DEF Copy, Plain, OfKind
    <3> QED BY <1>0, <3>1, <3>2
  <2> QED BY <1>0, <1>1, <1>6, <2>1
<1>7. ASSUME NEW s \in Subscriptions, NEW reg \in Registrations, Declare(s, reg)
      PROVE  Kinds'
  <2>1. reg.queue \in Queues
    BY RegistrationAssumption DEF Registration
  <2>2. RedriveKinds'
    BY <1>7, <2>1 DEF Declare, Kinds, RedriveKinds, TypeOK
  <2> QED BY <1>7, <2>2 DEF Declare, Kinds, KindsMatch
<1>8. ASSUME NEW s \in Subscriptions, Close(s) PROVE Kinds'
  BY <1>0, <1>1, <1>8 DEF Close, TypeOK
<1>9. ASSUME NEW s \in Subscriptions, NEW size \in Sizes, Receive(s, size)
      PROVE  Kinds'
  <2> DEFINE q == sub[s].reg.queue
             taken == Taken(q, size)
             spent == {m \in taken : Spent(q, m)}
             handed == taken \ spent
             target == IF spent = {} THEN q ELSE redrive[q].queue
             moved == Kept(target, spent)
             Counted(m) == [m EXCEPT !.receives = @ + 1]
  <2>1. q \in Queues
    BY <1>9, OpenReg, RegistrationAssumption, ZenonT(60) DEF Receive, Registration
  <2>2. spent # {} => redrive[q] # None /\ (q \in FifoQueues <=> target \in FifoQueues)
    BY <2>1 DEF Spent, Kinds, RedriveKinds
  <2>3. taken \subseteq visible[q] /\ moved \subseteq spent
    <3> HIDE DEF q
    <3> QED BY <1>9, <2>1, TakenFacts, KeptSubset
  <2>4. /\ visible' = [p \in Queues |->
             (visible[p] \ (IF p = q THEN taken ELSE {}))
               \cup (IF p = target THEN moved ELSE {})]
        /\ redrive' = redrive
    BY <1>9, ZenonT(60) DEF Receive
  <2>8. inFlight' = [inFlight EXCEPT ![q] = @ \cup
          {[receipt |-> nextId + Rank(m, handed),
            stored |-> Counted(m),
            received |-> now, generation |-> 0] : m \in handed}]
    BY <1>9, ZenonT(60) DEF Receive
  <2>9. \A p \in Queues : \A e \in inFlight'[p] :
          \/ e \in inFlight[p]
          \/ p = q /\ \E m \in handed : e.stored = Counted(m)
    <3> HIDE DEF handed, q, Counted
    <3> QED BY <2>1, <2>8 DEF TypeOK
  <2>5. \A m \in handed : /\ m \in visible[q]
                         /\ Counted(m).message = m.message
    BY <2>1, <2>3 DEF TypeOK, Stored
  <2>6. ASSUME NEW p \in Queues, NEW n \in visible'[p] PROVE OfKind(p, n)
    <3>1. n \in visible[p] \/ (p = target /\ n \in moved)
      BY <2>4
    <3>2. CASE p = target /\ n \in moved
      <4>1. spent # {} /\ n \in visible[q]
        BY <2>3, <3>2
      <4> QED BY <1>0, <2>1, <2>2, <3>2, <4>1 DEF OfKind
    <3> QED BY <1>0, <3>1, <3>2
  <2>7. ASSUME NEW p \in Queues, NEW e \in inFlight'[p]
        PROVE  OfKind(p, e.stored)
    <3>1. CASE e \in inFlight[p]
      BY <1>0, <3>1
    <3>2. ASSUME p = q, NEW m \in handed, e.stored = Counted(m)
          PROVE  OfKind(p, e.stored)
      <4>1. OfKind(q, m) /\ e.stored.message = m.message
        BY <1>0, <2>1, <2>5, <3>2
      <4> QED BY <3>2, <4>1 DEF OfKind
    <3> HIDE DEF handed, q, Counted
    <3> QED BY <2>9, <3>1, <3>2
  <2> QED BY <1>1, <2>4, <2>6, <2>7
<1>10. ASSUME NEW q \in Queues, NEW m \in Message, Send(q, m) PROVE Kinds'
  <2>1. <<q>> \in Seq(Queues)
        /\ \A i \in DOMAIN <<q>> : <<q>>[i] \in FifoQueues => m.group \in Groups
    BY <1>10 DEF Send, Outbound
  <2> QED BY <1>6, <1>10, <2>1 DEF Send
<1>11. ASSUME NEW t \in Topics, NEW m \in Message, PublishTopic(t, m)
       PROVE  Kinds'
  <2> DEFINE targets == IF t \in FifoTopics /\ SeenWithin(topicDedup[t], m.dedup)
                        THEN <<>> ELSE topics[t]
  <2>1. targets \in Seq(Queues)
    BY DEF TypeOK
  <2>2. \A i \in DOMAIN targets : targets[i] \in FifoQueues => m.group \in Groups
    BY <1>11 DEF PublishTopic, Outbound, TopicKinds
  <2>3. Deliver(targets, m) /\ inFlight' = inFlight /\ redrive' = redrive
    BY <1>11 DEF PublishTopic
  <2> HIDE DEF targets
  <2> QED BY <1>6, <2>1, <2>2, <2>3
<1>12. ASSUME NEW h \in handles, Ack(h) PROVE Kinds'
  BY <1>5, <1>12 DEF Ack, SettlementFrame
<1>13. ASSUME NEW h \in handles, NEW requeue \in BOOLEAN, Nack(h, requeue)
       PROVE  Kinds'
  BY <1>4, <1>5, <1>13 DEF Nack, SettlementFrame
<1>14. ASSUME NEW h \in handles, NEW delay \in Delays, NEW lag \in 0..MaxLag,
              NackAfter(h, delay, lag)
       PROVE  Kinds'
  BY <1>4, <1>14, DelayNat DEF NackAfter, SettlementFrame
<1>15. ASSUME NEW h \in handles, NEW lag \in 0..MaxLag, DropUnsettled(h, lag)
       PROVE  Kinds'
  BY <1>0, <1>1, <1>3, <1>15, RemainingNat DEF DropUnsettled, SettlementFrame
<1>16. ASSUME NEW t \in timers, Lapse(t) PROVE Kinds'
  <2>1. t.queue \in Queues /\ redrive' = redrive
    BY <1>16 DEF TypeOK, Timer, Lapse, SettlementFrame
  <2> QED BY <1>0, <1>1, <1>2, <1>16, <2>1 DEF Lapse
<1>17. ASSUME UNCHANGED <<visible, inFlight, redrive>> PROVE Kinds'
  BY <1>0, <1>1, <1>17
<1>18. ASSUME \/ \E s \in Subscriptions : Open(s)
              \/ \E t \in Topics, q \in Queues : SubscribeTopic(t, q)
              \/ \E h \in handles : Release(h)
              \/ Tick
              \/ UNCHANGED vars
       PROVE  Kinds'
  BY <1>17, <1>18 DEF Open, SubscribeTopic, Release, SettlementFrame, Tick,
     queueVars, vars
<1> QED
  BY <1>7, <1>8, <1>9, <1>10, <1>11, <1>12, <1>13, <1>14, <1>15, <1>16, <1>18
     DEF Next

\* A message on a FIFO queue has a group and one on a standard queue has none,
\* by whichever path of sends, topics and dead-letter moves it got there.
THEOREM AccountKindsMatch == Spec => []KindsMatch
<1>1. Init => Kinds
  BY DEF Init, Kinds, KindsMatch, RedriveKinds
<1>2. Kinds => KindsMatch
  BY DEF Kinds
<1> QED BY <1>1, <1>2, ShapeInit, ShapeStep, KindsStep, PTL DEF Spec

-----------------------------------------------------------------------------
(* That a message of the account is never duplicated, shared or stranded. *)


\* Ids come from one counter, so what is to come is not in use yet.
IdsUsed ==
  /\ \A q \in Queues :
       /\ \A m \in visible[q] : m.seq < nextId
       /\ \A e \in inFlight[q] : e.stored.seq < nextId /\ e.receipt < nextId
  /\ \A h \in handles : h.receipt < nextId
  /\ \A t \in timers : t.receipt < nextId

\* A receipt names one entry of its queue and one handle.
ReceiptsUnique ==
  /\ \A q \in Queues : \A d, e \in inFlight[q] : d.receipt = e.receipt => d = e
  /\ \A g, h \in handles : g.receipt = h.receipt => g = h

HeldSinceReceive == \A h \in handles : h.received <= now

Safe ==
  /\ IdsUsed /\ ReceiptsUnique /\ HeldSinceReceive
  /\ OnePlace /\ HeldExclusively /\ NoneStranded

-----------------------------------------------------------------------------
(* Ranks: ids handed out in one step are distinct and below the new counter. *)

LEMMA StrictSubset ==
  ASSUME NEW A, NEW B, IsFiniteSet(B), A \subseteq B, NEW x \in B, x \notin A
  PROVE  /\ Cardinality(A) \in Nat /\ Cardinality(B) \in Nat
         /\ Cardinality(A) < Cardinality(B)
<1>1. Cardinality(A) \in Nat /\ Cardinality(B) \in Nat
  BY CardOfSubset, FS_CardinalityType
<1>2. Cardinality(A) <= Cardinality(B) /\ (Cardinality(B) = Cardinality(A) => B = A)
  BY FS_Subset
<1> QED BY <1>1, <1>2

LEMMA RankFacts ==
  ASSUME NEW S \in SUBSET Stored, IsFiniteSet(S),
         \A m, n \in S : m.seq = n.seq => m = n
  PROVE  /\ Cardinality(S) \in Nat
         /\ \A m \in S : Rank(m, S) \in Nat /\ Rank(m, S) < Cardinality(S)
         /\ \A m, n \in S : Rank(m, S) = Rank(n, S) => m = n
<1>1. Cardinality(S) \in Nat
  BY FS_CardinalityType
<1>2. ASSUME NEW m \in S
      PROVE  Rank(m, S) \in Nat /\ Rank(m, S) < Cardinality(S)
  <2>1. {f \in S : f.seq < m.seq} \subseteq S /\ m \notin {f \in S : f.seq < m.seq}
    BY DEF Stored
  <2> QED BY <2>1, StrictSubset DEF Rank
<1>3. ASSUME NEW m \in S, NEW n \in S, m.seq < n.seq
      PROVE  Rank(m, S) < Rank(n, S)
  <2> DEFINE A == {f \in S : f.seq < m.seq}
             B == {f \in S : f.seq < n.seq}
  <2>1. A \subseteq B /\ m \in B /\ m \notin A
    BY <1>3 DEF Stored
  <2>2. IsFiniteSet(B)
    BY CardOfSubset
  <2> HIDE DEF A, B
  <2>3. Cardinality(A) < Cardinality(B)
    BY <2>1, <2>2, StrictSubset
  <2> QED BY <2>3 DEF Rank, A, B
<1>4. ASSUME NEW m \in S, NEW n \in S, Rank(m, S) = Rank(n, S)
      PROVE  m = n
  <2>1. m.seq \in Nat /\ n.seq \in Nat
    BY DEF Stored
  <2>2. ~(m.seq < n.seq) /\ ~(n.seq < m.seq)
    BY <1>2, <1>3, <1>4
  <2> QED BY <2>1, <2>2
<1> QED BY <1>1, <1>2, <1>4

LEMMA SeqOfFacts ==
  ASSUME Shape, NEW targets \in Seq(Queues), NEW m \in Message
  PROVE  LET taking == Taking(targets, m) IN
         /\ Cardinality(taking) \in Nat
         /\ \A i \in taking :
              /\ SeqOf(targets, m, i) \in Nat
              /\ nextId <= SeqOf(targets, m, i)
              /\ SeqOf(targets, m, i) < nextId + Cardinality(taking)
         /\ \A i, j \in taking :
              SeqOf(targets, m, i) = SeqOf(targets, m, j) => i = j
<1> DEFINE taking == Taking(targets, m)
           Ahead(i) == {j \in taking : j < i}
<1>1. IsFiniteSet(taking) /\ taking \subseteq Nat /\ nextId \in Nat
  BY TakingFacts DEF Shape, TypeOK
<1>2. \A i \in taking : SeqOf(targets, m, i) = nextId + Cardinality(Ahead(i))
  BY DEF SeqOf
<1> HIDE DEF taking
<1>3. ASSUME NEW i \in taking
      PROVE  /\ Cardinality(Ahead(i)) \in Nat
             /\ Cardinality(Ahead(i)) < Cardinality(taking)
  <2>1. Ahead(i) \subseteq taking /\ i \notin Ahead(i)
    BY <1>1
  <2> QED BY <2>1, <1>1, StrictSubset
<1>4. ASSUME NEW i \in taking, NEW j \in taking, i < j
      PROVE  Cardinality(Ahead(i)) < Cardinality(Ahead(j))
  <2>0. \A k \in taking : k \in Nat
    BY <1>1
  <2>1. Ahead(i) \subseteq Ahead(j) /\ i \in Ahead(j) /\ i \notin Ahead(i)
    BY <2>0, <1>4
  <2>2. IsFiniteSet(Ahead(j))
    BY <1>1, CardOfSubset
  <2> HIDE DEF Ahead
  <2> QED BY <2>1, <2>2, StrictSubset
<1>5. Cardinality(taking) \in Nat
  BY <1>1, FS_CardinalityType
<1>6. ASSUME NEW i \in taking, NEW j \in taking,
             SeqOf(targets, m, i) = SeqOf(targets, m, j)
      PROVE  i = j
  <2>1. Cardinality(Ahead(i)) = Cardinality(Ahead(j))
    <3> HIDE DEF Ahead
    <3> QED BY <1>1, <1>2, <1>3, <1>6
  <2>2. i \in Nat /\ j \in Nat
    BY <1>1
  <2> HIDE DEF Ahead
  <2> QED BY <2>1, <2>2, <1>3, <1>4
<1>7. \A i \in taking : /\ SeqOf(targets, m, i) \in Nat
                        /\ nextId <= SeqOf(targets, m, i)
                        /\ SeqOf(targets, m, i) < nextId + Cardinality(taking)
  <2> HIDE DEF Ahead
  <2> QED BY <1>1, <1>2, <1>3, <1>5
<1> QED BY <1>5, <1>6, <1>7 DEF taking
-----------------------------------------------------------------------------
(* Each way a step changes where a message is. *)

LEMMA SafeInit == Init => Safe
BY DEF Init, Safe, IdsUsed, ReceiptsUnique, HeldSinceReceive, OnePlace,
   HeldExclusively, NoneStranded

\* A message that leaves flight is visible again, or gone.
LEMMA RequeueFacts ==
  ASSUME Shape, NEW q \in Queues, NEW m, Requeue(q, m)
  PROVE  \A p \in Queues : \A n \in visible'[p] :
           n \in visible[p] \/ (p = q /\ n = m)
BY KeptSubset DEF Requeue, Shape, TypeOK

\* Places are kept when one entry leaves flight and at most becomes visible.
LEMMA ReturnPlaces ==
  ASSUME Shape, IdsUsed, OnePlace, NEW q \in Queues, NEW e \in inFlight[q],
         inFlight' = [inFlight EXCEPT ![q] = @ \ {e}],
         nextId' = nextId,
         \A p \in Queues : \A n \in visible'[p] :
           n \in visible[p] \/ (p = q /\ n = e.stored)
  PROVE  /\ OnePlace'
         /\ \A p \in Queues :
              /\ \A n \in visible'[p] : n.seq < nextId'
              /\ \A d \in inFlight'[p] : d \in inFlight[p] /\ ~(p = q /\ d = e)
              /\ \A d \in inFlight[p] : ~(p = q /\ d = e) => d \in inFlight'[p]
<1>1. \A p \in Queues :
        /\ \A d \in inFlight'[p] : d \in inFlight[p] /\ ~(p = q /\ d = e)
        /\ \A d \in inFlight[p] : ~(p = q /\ d = e) => d \in inFlight'[p]
  BY DEF Shape, TypeOK
<1>2. \A p \in Queues : \A n \in visible'[p] : n.seq < nextId'
  BY DEF IdsUsed
<1>3. OnePlace'
  BY <1>1 DEF OnePlace
<1> QED BY <1>1, <1>2, <1>3
\* A delivery not settled yet has exactly its entry in flight.
LEMMA HeldEntry ==
  ASSUME Shape, Safe, NEW h \in handles, h.phase \in {"held", "refused"}
  PROVE  \E e \in inFlight[h.queue] :
           /\ EntriesOf(h) = {e} /\ e.receipt = h.receipt
           /\ e.received = h.received
<1>1. h.queue \in Queues
  BY EntryShape
<1>2. PICK e \in inFlight[h.queue] :
        e.receipt = h.receipt /\ e.received = h.received
  BY DEF Safe, HeldExclusively
<1>3. EntriesOf(h) = {e}
  BY <1>1, <1>2 DEF EntriesOf, Safe, ReceiptsUnique
<1> QED BY <1>2, <1>3

LEMMA BecomeFacts ==
  ASSUME Shape, Safe, NEW h \in handles,
         NEW ph \in {"refused"} \cup Over, Become(h, ph)
  PROVE  /\ \A g \in handles' :
              \/ g \in handles /\ g # h /\ g.receipt # h.receipt
              \/ /\ g = [h EXCEPT !.phase = ph]
                 /\ g.receipt = h.receipt /\ g.queue = h.queue
                 /\ g.received = h.received /\ g.phase = ph
         /\ \A g \in handles : g # h => g \in handles'
         /\ [h EXCEPT !.phase = ph] \in handles'
<1>1. /\ [h EXCEPT !.phase = ph].receipt = h.receipt
      /\ [h EXCEPT !.phase = ph].queue = h.queue
      /\ [h EXCEPT !.phase = ph].received = h.received
      /\ [h EXCEPT !.phase = ph].phase = ph
  BY EntryShape DEF Handle
<1> QED BY <1>1 DEF Become, Safe, ReceiptsUnique

\* The entry of a delivery leaves flight with the delivery's settlement.
LEMMA SettledSafe ==
  ASSUME Shape, Safe, NEW h \in handles, h.phase \in {"held", "refused"},
         NEW ph \in Over, Become(h, ph),
         inFlight' = [inFlight EXCEPT ![h.queue] = @ \ EntriesOf(h)],
         \A p \in Queues : \A n \in visible'[p] :
           \/ n \in visible[p]
           \/ \E e \in EntriesOf(h) : p = h.queue /\ n = e.stored,
         timers' = timers, nextId' = nextId, now' = now
  PROVE  Safe'
<1>1. PICK e \in inFlight[h.queue] :
        EntriesOf(h) = {e} /\ e.receipt = h.receipt /\ e.received = h.received
  BY HeldEntry
<1>2. h.queue \in Queues
  BY EntryShape
<1>3. /\ OnePlace'
      /\ \A p \in Queues :
           /\ \A n \in visible'[p] : n.seq < nextId'
           /\ \A d \in inFlight'[p] : d \in inFlight[p] /\ ~(p = h.queue /\ d = e)
           /\ \A d \in inFlight[p] :
                ~(p = h.queue /\ d = e) => d \in inFlight'[p]
  <2>1. inFlight' = [inFlight EXCEPT ![h.queue] = @ \ {e}]
    BY <1>1
  <2>2. \A p \in Queues : \A n \in visible'[p] :
          n \in visible[p] \/ (p = h.queue /\ n = e.stored)
    BY <1>1
  <2> QED BY <1>1, <1>2, <2>1, <2>2, ReturnPlaces, ZenonT(60) DEF Safe
<1>4. /\ \A g \in handles' :
           \/ g \in handles /\ g # h /\ g.receipt # h.receipt
           \/ /\ g = [h EXCEPT !.phase = ph]
              /\ g.receipt = h.receipt /\ g.queue = h.queue
              /\ g.received = h.received /\ g.phase = ph
      /\ \A g \in handles : g # h => g \in handles'
      /\ [h EXCEPT !.phase = ph] \in handles'
  <2>1. ph \in {"refused"} \cup Over
    OBVIOUS
  <2> HIDE DEF Over
  <2> QED BY <2>1, BecomeFacts, Zenon
<1>5. IdsUsed'
  BY <1>3, <1>4 DEF Safe, IdsUsed
<1>6. ReceiptsUnique'
  BY <1>3, <1>4 DEF Safe, ReceiptsUnique
<1>7. HeldSinceReceive'
  BY <1>4 DEF Safe, HeldSinceReceive
<1>8. HeldExclusively'
  <2> SUFFICES ASSUME NEW g \in handles', g.phase \in {"held", "refused"}
               PROVE  /\ \E d \in inFlight'[g.queue] :
                           d.receipt = g.receipt /\ d.received = g.received
                      /\ \A t \in timers' : t.receipt # g.receipt
                      /\ \A f \in handles' : f.receipt = g.receipt => f = g
    BY DEF HeldExclusively
  <2>1. g \in handles /\ g.receipt # h.receipt /\ g.queue \in Queues
    BY <1>4, EntryShape
  <2>2. PICK d \in inFlight[g.queue] :
          d.receipt = g.receipt /\ d.received = g.received
    BY <2>1 DEF Safe, HeldExclusively
  <2>3. d \in inFlight'[g.queue]
    BY <1>1, <1>3, <2>1, <2>2
  <2>4. \A t \in timers' : t.receipt # g.receipt
    BY <2>1 DEF Safe, HeldExclusively
  <2> QED BY <2>2, <2>3, <2>4, <1>6 DEF ReceiptsUnique
<1>9. NoneStranded'
  <2> SUFFICES ASSUME NEW q \in Queues, NEW d \in inFlight'[q]
               PROVE  \/ \E g \in handles' :
                           /\ g.phase \in {"held", "refused"}
                           /\ g.queue = q /\ g.receipt = d.receipt
                      \/ \E t \in timers' :
                           /\ t.queue = q /\ t.receipt = d.receipt
                           /\ t.generation = d.generation
    BY DEF NoneStranded
  <2>1. d \in inFlight[q] /\ ~(q = h.queue /\ d = e)
    BY <1>3
  <2>2. ~(q = h.queue /\ d.receipt = h.receipt)
    BY <1>1, <2>1 DEF Safe, ReceiptsUnique
  <2> QED BY <2>1, <2>2, <1>4 DEF Safe, NoneStranded
<1> QED BY <1>3, <1>5, <1>6, <1>7, <1>8, <1>9 DEF Safe

\* The entry of a delivery stays in flight under a timer of its generation.
LEMMA RearmSafe ==
  ASSUME Shape, Safe, NEW h \in handles, h.phase \in {"held", "refused"},
         NEW ph \in Over, Become(h, ph), NEW v \in Nat,
         NEW e \in EntriesOf(h),
         inFlight' = [inFlight EXCEPT ![h.queue] =
            (@ \ {e}) \cup {[e EXCEPT !.generation = @ + 1]}],
         timers' = timers \cup
            {[receipt |-> h.receipt, queue |-> h.queue,
              generation |-> e.generation + 1, at |-> now + v]},
         visible' = visible, nextId' = nextId, now' = now
  PROVE  Safe'
<1> DEFINE e2 == [e EXCEPT !.generation = @ + 1]
           t2 == [receipt |-> h.receipt, queue |-> h.queue,
                  generation |-> e.generation + 1, at |-> now + v]
<1>1. EntriesOf(h) = {e} /\ e \in inFlight[h.queue] /\ e.receipt = h.receipt
  BY HeldEntry, EntryShape
<1>2. h.queue \in Queues /\ e \in InFlight
  BY <1>1, EntryShape
<1>3. /\ e2.receipt = e.receipt /\ e2.stored = e.stored
      /\ e2.received = e.received /\ e2.generation = e.generation + 1
  BY <1>2 DEF InFlight
<1>4. /\ t2.receipt = h.receipt /\ t2.queue = h.queue
      /\ t2.generation = e.generation + 1
  OBVIOUS
<1> HIDE DEF e2, t2
<1>5. /\ \A p \in Queues : \A d \in inFlight'[p] :
           (d \in inFlight[p] /\ ~(p = h.queue /\ d = e)) \/ (p = h.queue /\ d = e2)
      /\ \A p \in Queues : \A d \in inFlight[p] :
           ~(p = h.queue /\ d = e) => d \in inFlight'[p]
  BY <1>2 DEF Shape, TypeOK, e2
<1>6. timers' = timers \cup {t2}
  BY DEF t2
<1>7. /\ \A g \in handles' :
           \/ g \in handles /\ g # h /\ g.receipt # h.receipt
           \/ g = [h EXCEPT !.phase = ph] /\ g.receipt = h.receipt
              /\ g.received = h.received /\ g.phase = ph
      /\ \A g \in handles : g # h => g \in handles'
  BY BecomeFacts, ZenonT(60)
<1>8. IdsUsed'
  BY <1>1, <1>2, <1>3, <1>4, <1>5, <1>6, <1>7 DEF Safe, IdsUsed
<1>9. ReceiptsUnique'
  BY <1>1, <1>2, <1>3, <1>5, <1>7 DEF Safe, ReceiptsUnique
<1>10. HeldSinceReceive'
  BY <1>7 DEF Safe, HeldSinceReceive
<1>11. OnePlace'
  BY <1>1, <1>2, <1>3, <1>5 DEF Safe, OnePlace
<1>12. HeldExclusively'
  <2> SUFFICES ASSUME NEW g \in handles', g.phase \in {"held", "refused"}
               PROVE  /\ \E d \in inFlight'[g.queue] :
                           d.receipt = g.receipt /\ d.received = g.received
                      /\ \A t \in timers' : t.receipt # g.receipt
                      /\ \A f \in handles' : f.receipt = g.receipt => f = g
    BY DEF HeldExclusively
  <2>1. g \in handles /\ g.receipt # h.receipt /\ g.queue \in Queues
    BY <1>7, EntryShape
  <2>2. PICK d \in inFlight[g.queue] :
          d.receipt = g.receipt /\ d.received = g.received
    BY <2>1 DEF Safe, HeldExclusively
  <2>3. d \in inFlight'[g.queue]
    BY <1>1, <1>5, <2>1, <2>2
  <2>4. \A t \in timers' : t.receipt # g.receipt
    BY <1>4, <1>6, <2>1 DEF Safe, HeldExclusively
  <2> QED BY <2>2, <2>3, <2>4, <1>9 DEF ReceiptsUnique
<1>13. NoneStranded'
  <2> SUFFICES ASSUME NEW q \in Queues, NEW d \in inFlight'[q]
               PROVE  \/ \E g \in handles' :
                           /\ g.phase \in {"held", "refused"}
                           /\ g.queue = q /\ g.receipt = d.receipt
                      \/ \E t \in timers' :
                           /\ t.queue = q /\ t.receipt = d.receipt
                           /\ t.generation = d.generation
    BY DEF NoneStranded
  <2>1. CASE q = h.queue /\ d = e2
    BY <2>1, <1>1, <1>3, <1>4, <1>6
  <2>2. CASE d \in inFlight[q] /\ ~(q = h.queue /\ d = e)
    <3>1. ~(q = h.queue /\ d.receipt = h.receipt)
      BY <1>1, <2>2 DEF Safe, ReceiptsUnique
    <3> QED BY <2>2, <3>1, <1>6, <1>7 DEF Safe, NoneStranded
  <2> QED BY <2>1, <2>2, <1>5
<1> QED BY <1>8, <1>9, <1>10, <1>11, <1>12, <1>13 DEF Safe

\* A refused settlement leaves the delivery to its drop.
LEMMA RefusedSafe ==
  ASSUME Shape, Safe, NEW h \in handles, h.phase \in {"held", "refused"},
         Become(h, "refused"),
         inFlight' = inFlight, visible' = visible, timers' = timers,
         nextId' = nextId, now' = now
  PROVE  Safe'
<1>1. /\ \A g \in handles' :
           \/ g \in handles /\ g # h /\ g.receipt # h.receipt
           \/ /\ g = [h EXCEPT !.phase = "refused"]
              /\ g.receipt = h.receipt /\ g.queue = h.queue
              /\ g.received = h.received /\ g.phase = "refused"
      /\ \A g \in handles : g # h => g \in handles'
      /\ [h EXCEPT !.phase = "refused"] \in handles'
  BY BecomeFacts
<1>2. IdsUsed' /\ OnePlace' /\ HeldSinceReceive'
  BY <1>1 DEF Safe, IdsUsed, OnePlace, HeldSinceReceive
<1>3. ReceiptsUnique'
  BY <1>1 DEF Safe, ReceiptsUnique
<1>4. HeldExclusively'
  BY <1>1 DEF Safe, HeldExclusively
<1>5. NoneStranded'
  <2> SUFFICES ASSUME NEW q \in Queues, NEW d \in inFlight[q],
                      NEW g \in handles, g.phase \in {"held", "refused"},
                      g.queue = q, g.receipt = d.receipt
               PROVE  \E f \in handles' :
                        /\ f.phase \in {"held", "refused"}
                        /\ f.queue = q /\ f.receipt = d.receipt
    BY DEF Safe, NoneStranded
  <2>1. CASE g = h
    BY <2>1, <1>1, EntryShape DEF Handle
  <2>2. CASE g # h
    BY <2>2, <1>1
  <2> QED BY <2>1, <2>2
<1> QED BY <1>2, <1>3, <1>4, <1>5 DEF Safe
LEMMA ChangeVisibilitySafe ==
  ASSUME Shape, Safe, NEW h \in handles, h.phase \in {"held", "refused"},
         NEW ph \in Over, Become(h, ph),
         NEW v \in Nat, ChangeVisibility(h, v), nextId' = nextId, now' = now
  PROVE  Safe'
<1>1. PICK e \in EntriesOf(h) : ChangeVisibility(h, v)!(e)
  BY DEF ChangeVisibility
<1>2. EntriesOf(h) = {e} /\ h.queue \in Queues
  BY HeldEntry, EntryShape
<1>3. CASE v = 0
  <2>1. Requeue(h.queue, e.stored) /\ timers' = timers
        /\ inFlight' = [inFlight EXCEPT ![h.queue] = @ \ {e}]
    BY <1>1, <1>3
  <2>2. \A p \in Queues : \A n \in visible'[p] :
          n \in visible[p] \/ (p = h.queue /\ n = e.stored)
    BY <1>2, <2>1, RequeueFacts
  <2> QED BY <1>2, <2>1, <2>2, SettledSafe
<1>4. CASE v > 0
  BY <1>1, <1>4, RearmSafe
<1> QED BY <1>3, <1>4

LEMMA DeleteSafe ==
  ASSUME Shape, Safe, NEW h \in handles, h.phase = "held",
         NEW ph \in Over, Delete(h, ph),
         nextId' = nextId, now' = now
  PROVE  Safe'
BY SettledSafe DEF Delete

LEMMA SetVisibilitySafe ==
  ASSUME Shape, Safe, NEW h \in handles, h.phase = "held",
         NEW v \in Nat, SetVisibility(h, v), nextId' = nextId, now' = now
  PROVE  Safe'
<1>1. CASE Refuses(h, v)
  BY <1>1, RefusedSafe DEF SetVisibility
<1>2. CASE ~Refuses(h, v)
  BY <1>2, ChangeVisibilitySafe DEF SetVisibility
<1> QED BY <1>1, <1>2

\* The change a drop asks for is never refused: what remains of the visibility
\* ends WINDOW_MARGIN before the twelve hours, and the clock was read at most
\* that long ago.
LEMMA DropNotRefused ==
  ASSUME Shape, Safe, NEW h \in handles, h.phase \in {"held", "refused"},
         NEW lag \in 0..MaxLag
  PROVE  ~Refuses(h, RemainingVisibility(h, lag))
<1> USE TimeAssumption, MarginAssumption, WindowAssumption
<1> DEFINE v == RemainingVisibility(h, lag)
<1>1. PICK e \in inFlight[h.queue] :
        EntriesOf(h) = {e} /\ e.receipt = h.receipt /\ e.received = h.received
  BY HeldEntry
<1>2. h.received \in Nat /\ now \in Nat /\ h.received <= now
      /\ h.visibility \in Timeouts
  BY EntryShape DEF Handle, Safe, HeldSinceReceive, Shape, TypeOK
<1>3. v \in Nat
  BY RemainingNat
<1>4. Held(h, lag) \in Nat /\ now - h.received <= Held(h, lag) + lag
  BY <1>2 DEF Held, Minus
<1>5. v = 0 \/ v <= Window - Margin - Held(h, lag)
  <2>1. CASE h.visibility = 0
    BY <2>1 DEF RemainingVisibility, Remaining, Period
  <2>2. CASE h.visibility # 0
    <3> DEFINE period == h.visibility \div 2
               last == (Held(h, lag) \div period) * period
    <3>1. period \in Nat \ {0}
      BY <1>2, <2>2 DEF Timeouts
    <3>2. last \in Int
      BY <3>1, <1>4
    <3>3. v = Minus(Min2(last + h.visibility, Window - Margin), Held(h, lag))
      BY <2>2 DEF RemainingVisibility, Remaining, Period
    <3> HIDE DEF last, v
    <3> QED BY <3>2, <3>3, <1>2, <1>4 DEF Minus, Min2, Timeouts
  <2> QED BY <2>1, <2>2
<1> HIDE DEF v
<1>6. v <= Window
  BY <1>3, <1>4, <1>5
<1>7. ~(v \div Second > Window \div Second)
  <2>1. v \div Second <= Window \div Second
    BY <1>3, <1>6, DivMonotone
  <2>2. v \div Second \in Nat /\ Window \div Second \in Nat
    BY <1>3, DivNat
  <2> QED BY <2>1, <2>2
<1>8. v > 0 => (now - h.received) + v <= Window
  BY <1>2, <1>3, <1>4, <1>5
<1>9. ~Refuses(h, v)
  BY <1>1, <1>2, <1>3, <1>7, <1>8 DEF Refuses
<1> QED BY <1>9 DEF v
-----------------------------------------------------------------------------
(* The operations that make and move messages. *)

LEMMA DeliverSafe ==
  ASSUME Shape, Safe, NEW targets \in Seq(Queues), NEW m \in Message,
         Deliver(targets, m), inFlight' = inFlight, handles' = handles,
         timers' = timers, now' = now
  PROVE  Safe'
<1> DEFINE taking == Taking(targets, m)
<1>1. /\ Cardinality(taking) \in Nat
      /\ \A i \in taking : /\ SeqOf(targets, m, i) \in Nat
                           /\ nextId <= SeqOf(targets, m, i)
                           /\ SeqOf(targets, m, i) < nextId + Cardinality(taking)
      /\ \A i, j \in taking : SeqOf(targets, m, i) = SeqOf(targets, m, j) => i = j
  BY SeqOfFacts
<1>2. nextId' = nextId + Cardinality(taking) /\ nextId \in Nat
  BY DEF Deliver, Shape, TypeOK
<1>3. ASSUME NEW p \in Queues, NEW n \in visible'[p]
      PROVE  \/ n \in visible[p]
             \/ \E i \in taking :
                  /\ targets[i] = p
                  /\ n = [seq |-> SeqOf(targets, m, i), message |-> Copy(p, m),
                          receives |-> 0]
                  /\ n.seq = SeqOf(targets, m, i)
  <2>1. n \in visible[p] \/ n \in Copies(targets, m, p)
    BY KeptSubset DEF Deliver
  <2> QED BY <2>1 DEF Copies
<1> HIDE DEF taking
<1>4. \A q \in Queues : /\ \A n \in visible[q] : n.seq \in Nat /\ n.seq < nextId
                        /\ \A e \in inFlight[q] : e.stored.seq \in Nat
                             /\ e.stored.seq < nextId /\ e.receipt \in Nat
                             /\ e.receipt < nextId
  BY DEF Safe, IdsUsed, Shape, TypeOK, Stored, InFlight
<1>5. /\ \A h \in handles : h.receipt \in Nat /\ h.receipt < nextId
      /\ \A t \in timers : t.receipt \in Nat /\ t.receipt < nextId
  BY DEF Safe, IdsUsed, Shape, TypeOK, Handle, Timer
<1>6. IdsUsed'
  <2>1. \A q \in Queues : \A n \in visible'[q] : n.seq < nextId'
    BY <1>1, <1>2, <1>3, <1>4
  <2>2. \A q \in Queues : \A e \in inFlight[q] :
          e.stored.seq < nextId' /\ e.receipt < nextId'
    BY <1>1, <1>2, <1>4
  <2>3. /\ \A h \in handles : h.receipt < nextId'
        /\ \A t \in timers : t.receipt < nextId'
    BY <1>1, <1>2, <1>5
  <2> QED BY <2>1, <2>2, <2>3 DEF IdsUsed
<1>7. OnePlace'
  <2>1. ASSUME NEW p \in Queues, NEW q \in Queues, NEW n \in visible'[p],
               NEW k \in visible'[q], n.seq = k.seq
        PROVE  p = q /\ n = k
    <3>1. CASE n \in visible[p] /\ k \in visible[q]
      BY <2>1, <3>1 DEF Safe, OnePlace
    <3>2. CASE n \in visible[p] /\ k \notin visible[q]
      BY <2>1, <3>2, <1>1, <1>2, <1>3, <1>4
    <3>3. CASE n \notin visible[p] /\ k \in visible[q]
      BY <2>1, <3>3, <1>1, <1>2, <1>3, <1>4
    <3>4. CASE n \notin visible[p] /\ k \notin visible[q]
      BY <2>1, <3>4, <1>1, <1>3
    <3> QED BY <3>1, <3>2, <3>3, <3>4
  <2>2. ASSUME NEW p \in Queues, NEW q \in Queues, NEW n \in visible'[p],
               NEW e \in inFlight[q]
        PROVE  n.seq # e.stored.seq
    <3>1. CASE n \in visible[p]
      BY <3>1 DEF Safe, OnePlace
    <3>2. CASE n \notin visible[p]
      BY <3>2, <1>1, <1>2, <1>3, <1>4
    <3> QED BY <3>1, <3>2
  <2> QED BY <2>1, <2>2 DEF Safe, OnePlace
<1>8. ReceiptsUnique' /\ HeldSinceReceive' /\ HeldExclusively' /\ NoneStranded'
  BY DEF Safe, ReceiptsUnique, HeldSinceReceive, HeldExclusively, NoneStranded
<1> QED BY <1>6, <1>7, <1>8 DEF Safe

LEMMA ReceiveSafe ==
  ASSUME Shape, Safe, NEW s \in Subscriptions, NEW size \in Sizes,
         Receive(s, size)
  PROVE  Safe'
<1> DEFINE reg == sub[s].reg
           q == reg.queue
           taken == Taken(q, size)
           spent == {m \in taken : Spent(q, m)}
           handed == taken \ spent
           target == IF spent = {} THEN q ELSE redrive[q].queue
           moved == Kept(target, spent)
           max == IF reg.redrive = None THEN None ELSE reg.redrive.max
           E(m) == [receipt |-> nextId + Rank(m, handed),
                    stored |-> [m EXCEPT !.receives = @ + 1],
                    received |-> now, generation |-> 0]
           H(m) == [receipt |-> nextId + Rank(m, handed), queue |-> q,
                    receives |-> m.receives + 1, redriveMax |-> max,
                    visibility |-> reg.visibility,
                    received |-> now, phase |-> "held"]
<1>1. q \in Queues /\ target \in Queues
  <2>1. q \in Queues
    BY OpenReg, RegistrationAssumption, ZenonT(60) DEF Receive, Registration
  <2> QED BY <2>1 DEF Spent, Shape, TypeOK, Policy
<1>2. taken \subseteq visible[q] /\ taken \subseteq Stored
  <2> HIDE DEF q
  <2> QED BY <1>1, TakenFacts
<1>3. handed \subseteq taken /\ moved \subseteq taken /\ handed \cap moved = {}
  BY KeptSubset
<1>4. /\ Cardinality(handed) \in Nat
      /\ \A m \in handed : Rank(m, handed) \in Nat
                            /\ Rank(m, handed) < Cardinality(handed)
      /\ \A m, n \in handed : Rank(m, handed) = Rank(n, handed) => m = n
  <2>1. IsFiniteSet(handed)
    <3> HIDE DEF handed, taken, q
    <3> QED BY <1>1, <1>2, <1>3, CardOfSubset DEF Shape, VisibleFinite
  <2>2. \A m, n \in handed : m.seq = n.seq => m = n
    <3> HIDE DEF handed, taken, q
    <3> QED BY <1>1, <1>2, <1>3 DEF Safe, OnePlace
  <2> HIDE DEF handed, taken, q
  <2> QED BY <2>1, <2>2, <1>2, <1>3, RankFacts
<1>5. /\ inFlight' = [inFlight EXCEPT ![q] = @ \cup {E(m) : m \in handed}]
      /\ handles' = handles \cup {H(m) : m \in handed}
      /\ visible' = [p \in Queues |->
           (visible[p] \ (IF p = q THEN taken ELSE {}))
             \cup (IF p = target THEN moved ELSE {})]
      /\ nextId' = nextId + Cardinality(handed)
      /\ timers' = timers /\ now' = now
  BY ZenonT(60) DEF Receive
<1> HIDE DEF taken, handed, moved, target, q, max, reg
<1>6. \A m \in handed : m \in visible[q] /\ m \in Stored
  BY <1>2, <1>3
<1>7. \A m \in handed :
        /\ E(m).receipt = nextId + Rank(m, handed) /\ E(m).stored.seq = m.seq
        /\ E(m).received = now /\ E(m).generation = 0
  BY <1>6 DEF Stored
<1>8. \A m \in handed :
        /\ H(m).receipt = nextId + Rank(m, handed) /\ H(m).queue = q
        /\ H(m).received = now /\ H(m).phase = "held"
  OBVIOUS
<1> HIDE DEF E, H
<1>9. /\ \A p \in Queues : \A e \in inFlight'[p] :
           e \in inFlight[p] \/ (p = q /\ \E m \in handed : e = E(m))
      /\ \A p \in Queues : \A e \in inFlight[p] : e \in inFlight'[p]
      /\ \A m \in handed : E(m) \in inFlight'[q]
  BY <1>1, <1>5 DEF Shape, TypeOK
<1>10. /\ \A h \in handles' : h \in handles \/ \E m \in handed : h = H(m)
       /\ \A h \in handles : h \in handles'
       /\ \A m \in handed : H(m) \in handles'
  BY <1>5
<1>11. \A p \in Queues : \A n \in visible'[p] :
         \/ n \in visible[p] /\ (p = q => n \notin taken)
         \/ p = target /\ n \in moved
  BY <1>5
<1>12. nextId \in Nat /\ nextId <= nextId'
  BY <1>4, <1>5 DEF Shape, TypeOK
<1>13. /\ \A p \in Queues :
            /\ \A n \in visible[p] : n.seq \in Nat /\ n.seq < nextId
            /\ \A e \in inFlight[p] :
                 /\ e.stored.seq \in Nat /\ e.stored.seq < nextId
                 /\ e.receipt \in Nat /\ e.receipt < nextId
       /\ \A h \in handles : h.receipt \in Nat /\ h.receipt < nextId
       /\ \A t \in timers : t.receipt \in Nat /\ t.receipt < nextId
  BY DEF Safe, IdsUsed, Shape, TypeOK, Stored, InFlight, Handle, Timer
<1>14. \A m \in handed : /\ E(m).receipt \in Nat
                         /\ nextId <= E(m).receipt /\ E(m).receipt < nextId'
                         /\ E(m).receipt = H(m).receipt
  BY <1>4, <1>5, <1>7, <1>8, <1>12
<1>15. \A m, n \in handed : E(m).receipt = E(n).receipt => m = n
  BY <1>4, <1>7, <1>12
<1>16. \A n \in moved : n \in visible[q] /\ n \in taken
  BY <1>2, <1>3
<1>17. IdsUsed'
  <2>1. \A p \in Queues : \A n \in visible'[p] : n.seq < nextId'
    <3>1. nextId' \in Nat
      BY <1>4, <1>5, <1>12
    <3> QED BY <3>1, <1>1, <1>11, <1>12, <1>13, <1>16
  <2>2. \A p \in Queues : \A e \in inFlight'[p] :
          e.stored.seq < nextId' /\ e.receipt < nextId'
    <3>1. nextId' \in Nat
      BY <1>4, <1>5, <1>12
    <3> QED BY <3>1, <1>1, <1>6, <1>7, <1>9, <1>12, <1>13, <1>14
  <2>3. nextId' \in Nat
    BY <1>4, <1>5, <1>12
  <2>4. \A h \in handles' : h.receipt < nextId'
    BY <2>3, <1>10, <1>12, <1>13, <1>14
  <2>5. \A t \in timers' : t.receipt < nextId'
    BY <2>3, <1>5, <1>12, <1>13
  <2> QED BY <2>1, <2>2, <2>4, <2>5 DEF IdsUsed
<1>18. ReceiptsUnique'
  <2>1. ASSUME NEW p \in Queues, NEW d \in inFlight'[p], NEW e \in inFlight'[p],
               d.receipt = e.receipt
        PROVE  d = e
    <3>1. CASE d \in inFlight[p] /\ e \in inFlight[p]
      BY <2>1, <3>1 DEF Safe, ReceiptsUnique
    <3>2. CASE d \notin inFlight[p] \/ e \notin inFlight[p]
      BY <2>1, <3>2, <1>9, <1>12, <1>13, <1>14, <1>15
    <3> QED BY <3>1, <3>2
  <2>2. ASSUME NEW g \in handles', NEW h \in handles', g.receipt = h.receipt
        PROVE  g = h
    <3>1. CASE g \in handles /\ h \in handles
      BY <2>2, <3>1 DEF Safe, ReceiptsUnique
    <3>2. CASE g \notin handles \/ h \notin handles
      BY <2>2, <3>2, <1>10, <1>12, <1>13, <1>14, <1>15
    <3> QED BY <3>1, <3>2
  <2> QED BY <2>1, <2>2 DEF ReceiptsUnique
<1>19. HeldSinceReceive'
  <2>1. now \in Nat
    BY DEF Shape, TypeOK
  <2> QED BY <2>1, <1>5, <1>8, <1>10 DEF Safe, HeldSinceReceive
<1>20. OnePlace'
  <2>1. ASSUME NEW p \in Queues, NEW r \in Queues, NEW n \in visible'[p],
               NEW k \in visible'[r], n.seq = k.seq
        PROVE  p = r /\ n = k
    BY <2>1, <1>1, <1>11, <1>16 DEF Safe, OnePlace
  <2>2. ASSUME NEW p \in Queues, NEW r \in Queues, NEW d \in inFlight'[p],
               NEW e \in inFlight'[r], d.stored.seq = e.stored.seq
        PROVE  p = r /\ d = e
    <3>1. CASE d \in inFlight[p] /\ e \in inFlight[r]
      BY <2>2, <3>1 DEF Safe, OnePlace
    <3>2. CASE d \notin inFlight[p] /\ e \in inFlight[r]
      BY <2>2, <3>2, <1>1, <1>6, <1>7, <1>9 DEF Safe, OnePlace
    <3>3. CASE d \in inFlight[p] /\ e \notin inFlight[r]
      BY <2>2, <3>3, <1>1, <1>6, <1>7, <1>9 DEF Safe, OnePlace
    <3>4. CASE d \notin inFlight[p] /\ e \notin inFlight[r]
      BY <2>2, <3>4, <1>1, <1>6, <1>7, <1>9 DEF Safe, OnePlace
    <3> QED BY <3>1, <3>2, <3>3, <3>4
  <2>3. ASSUME NEW p \in Queues, NEW r \in Queues, NEW n \in visible'[p],
               NEW e \in inFlight'[r]
        PROVE  n.seq # e.stored.seq
    <3>1. CASE e \in inFlight[r]
      BY <3>1, <1>1, <1>11, <1>16 DEF Safe, OnePlace
    <3>2. CASE e \notin inFlight[r]
      <4>1. PICK m \in handed : e.stored.seq = m.seq /\ m \in visible[q]
                               /\ m \in taken /\ m \notin moved
        BY <3>2, <1>3, <1>6, <1>7, <1>9
      <4> QED BY <4>1, <1>1, <1>11, <1>16 DEF Safe, OnePlace
    <3> QED BY <3>1, <3>2
  <2> QED BY <2>1, <2>2, <2>3 DEF OnePlace
<1>21. HeldExclusively'
  <2> SUFFICES ASSUME NEW g \in handles', g.phase \in {"held", "refused"}
               PROVE  /\ \E d \in inFlight'[g.queue] :
                           d.receipt = g.receipt /\ d.received = g.received
                      /\ \A t \in timers' : t.receipt # g.receipt
    BY <1>18 DEF HeldExclusively, ReceiptsUnique
  <2>1. CASE g \in handles
    BY <2>1, <1>5, <1>9, EntryShape DEF Safe, HeldExclusively
  <2>2. CASE g \notin handles
    <3>1. PICK m \in handed : g = H(m)
      BY <2>2, <1>10
    <3>2. E(m) \in inFlight'[g.queue]
      BY <3>1, <1>8, <1>9
    <3>3. \A t \in timers' : t.receipt # g.receipt
      BY <3>1, <1>5, <1>12, <1>13, <1>14
    <3> QED BY <3>1, <3>2, <3>3, <1>7, <1>8
  <2> QED BY <2>1, <2>2
<1>22. NoneStranded'
  <2> SUFFICES ASSUME NEW p \in Queues, NEW d \in inFlight'[p]
               PROVE  \/ \E g \in handles' :
                           /\ g.phase \in {"held", "refused"}
                           /\ g.queue = p /\ g.receipt = d.receipt
                      \/ \E t \in timers' :
                           /\ t.queue = p /\ t.receipt = d.receipt
                           /\ t.generation = d.generation
    BY DEF NoneStranded
  <2>1. CASE d \in inFlight[p]
    BY <2>1, <1>5, <1>10 DEF Safe, NoneStranded
  <2>2. CASE d \notin inFlight[p]
    BY <2>2, <1>8, <1>9, <1>10, <1>14
  <2> QED BY <2>1, <2>2
<1> QED BY <1>17, <1>18, <1>19, <1>20, <1>21, <1>22 DEF Safe
LEMMA LapseSafe ==
  ASSUME Shape, Safe, NEW t \in timers, Lapse(t)
  PROVE  Safe'
<1> DEFINE lapsed == {e \in inFlight[t.queue] :
                        e.receipt = t.receipt /\ e.generation = t.generation}
<1>1. /\ timers' = timers \ {t} /\ handles' = handles
      /\ nextId' = nextId /\ now' = now /\ t.queue \in Queues
  BY DEF Lapse, SettlementFrame, Shape, TypeOK, Timer
<1>2. CASE lapsed = {}
  <2>1. inFlight' = inFlight /\ visible' = visible
    BY <1>2 DEF Lapse
  <2>2. NoneStranded'
    BY <1>1, <1>2, <2>1 DEF Safe, NoneStranded
  <2> QED BY <1>1, <2>1, <2>2
          DEF Safe, IdsUsed, ReceiptsUnique, HeldSinceReceive, OnePlace,
              HeldExclusively
<1>3. CASE lapsed # {}
  <2>1. PICK e \in lapsed :
          /\ inFlight' = [inFlight EXCEPT ![t.queue] = @ \ {e}]
          /\ Requeue(t.queue, e.stored)
    BY <1>3 DEF Lapse
  <2>2. /\ OnePlace'
        /\ \A p \in Queues :
             /\ \A n \in visible'[p] : n.seq < nextId'
             /\ \A d \in inFlight'[p] :
                  d \in inFlight[p] /\ ~(p = t.queue /\ d = e)
             /\ \A d \in inFlight[p] :
                  ~(p = t.queue /\ d = e) => d \in inFlight'[p]
    <3>1. \A p \in Queues : \A n \in visible'[p] :
            n \in visible[p] \/ (p = t.queue /\ n = e.stored)
      BY <1>1, <2>1, RequeueFacts
    <3>2. e \in inFlight[t.queue]
      OBVIOUS
    <3>3. IdsUsed /\ OnePlace
      BY DEF Safe
    <3>4. inFlight' = [inFlight EXCEPT ![t.queue] = @ \ {e}]
      BY <2>1
    <3> HIDE DEF lapsed
    <3> QED BY <1>1, <3>1, <3>2, <3>3, <3>4, ReturnPlaces
  <2>3. IdsUsed' /\ ReceiptsUnique' /\ HeldSinceReceive'
    BY <1>1, <2>2 DEF Safe, IdsUsed, ReceiptsUnique, HeldSinceReceive
  <2>4. HeldExclusively'
    <3> SUFFICES ASSUME NEW g \in handles, g.phase \in {"held", "refused"}
                 PROVE  \E d \in inFlight'[g.queue] :
                          d.receipt = g.receipt /\ d.received = g.received
      BY <1>1 DEF Safe, HeldExclusively
    <3>1. PICK d \in inFlight[g.queue] :
            d.receipt = g.receipt /\ d.received = g.received
      BY DEF Safe, HeldExclusively
    <3>2. g.receipt # t.receipt /\ g.queue \in Queues
      BY EntryShape DEF Safe, HeldExclusively
    <3> QED BY <2>1, <2>2, <3>1, <3>2
  <2>5. NoneStranded'
    <3> SUFFICES ASSUME NEW q \in Queues, NEW d \in inFlight'[q]
                 PROVE  \/ \E g \in handles' :
                             /\ g.phase \in {"held", "refused"}
                             /\ g.queue = q /\ g.receipt = d.receipt
                        \/ \E u \in timers' :
                             /\ u.queue = q /\ u.receipt = d.receipt
                             /\ u.generation = d.generation
      BY DEF NoneStranded
    <3>1. d \in inFlight[q] /\ ~(q = t.queue /\ d.receipt = t.receipt)
      BY <2>1, <2>2 DEF Safe, ReceiptsUnique
    <3> QED BY <3>1, <1>1 DEF Safe, NoneStranded
  <2> QED BY <2>2, <2>3, <2>4, <2>5 DEF Safe
<1> QED BY <1>2, <1>3

LEMMA SafeStep == Shape /\ Safe /\ [Next]_vars => Safe'
<1> SUFFICES ASSUME Shape, Safe, [Next]_vars PROVE Safe'
  OBVIOUS
<1>1. ASSUME NEW s \in Subscriptions, NEW reg \in Registrations, Declare(s, reg)
      PROVE  Safe'
  BY <1>1 DEF Declare, Safe, IdsUsed, ReceiptsUnique, HeldSinceReceive,
     OnePlace, HeldExclusively, NoneStranded
<1>2. ASSUME NEW s \in Subscriptions, Open(s) PROVE Safe'
  BY <1>2 DEF Open, Safe, IdsUsed, ReceiptsUnique, HeldSinceReceive, OnePlace,
     HeldExclusively, NoneStranded
<1>3. ASSUME NEW s \in Subscriptions, Close(s) PROVE Safe'
  <2>1. \A q \in Queues : visible'[q] \subseteq visible[q]
    BY <1>3 DEF Close, Shape, TypeOK
  <2> QED BY <1>3, <2>1 DEF Close, Safe, IdsUsed, ReceiptsUnique,
             HeldSinceReceive, OnePlace, HeldExclusively, NoneStranded
<1>4. ASSUME NEW s \in Subscriptions, NEW size \in Sizes, Receive(s, size)
      PROVE  Safe'
  BY <1>4, ReceiveSafe
<1>5. ASSUME NEW q \in Queues, NEW m \in Message, Send(q, m) PROVE Safe'
  <2>1. <<q>> \in Seq(Queues)
    OBVIOUS
  <2> QED BY <1>5, <2>1, DeliverSafe DEF Send
<1>6. ASSUME NEW t \in Topics, NEW q \in Queues, SubscribeTopic(t, q)
      PROVE  Safe'
  BY <1>6 DEF SubscribeTopic, queueVars, Safe, IdsUsed, ReceiptsUnique,
     HeldSinceReceive, OnePlace, HeldExclusively, NoneStranded
<1>7. ASSUME NEW t \in Topics, NEW m \in Message, PublishTopic(t, m)
      PROVE  Safe'
  <2> DEFINE targets == IF t \in FifoTopics /\ SeenWithin(topicDedup[t], m.dedup)
                        THEN <<>> ELSE topics[t]
  <2>1. targets \in Seq(Queues)
    BY DEF Shape, TypeOK
  <2>2. /\ Deliver(targets, m) /\ inFlight' = inFlight /\ handles' = handles
        /\ timers' = timers /\ now' = now
    BY <1>7 DEF PublishTopic
  <2> HIDE DEF targets
  <2> QED BY <2>1, <2>2, DeliverSafe
<1>8. ASSUME NEW h \in handles, Ack(h) PROVE Safe'
  BY <1>8, DeleteSafe DEF Ack, SettlementFrame
<1>9. ASSUME NEW h \in handles, NEW requeue \in BOOLEAN, Nack(h, requeue)
      PROVE  Safe'
  BY <1>9, DeleteSafe, SetVisibilitySafe DEF Nack, SettlementFrame
<1>10. ASSUME NEW h \in handles, NEW delay \in Delays, NEW lag \in 0..MaxLag,
              NackAfter(h, delay, lag)
       PROVE  Safe'
  BY <1>10, DelayNat, SetVisibilitySafe DEF NackAfter, SettlementFrame
<1>11. ASSUME NEW h \in handles, NEW lag \in 0..MaxLag, DropUnsettled(h, lag)
       PROVE  Safe'
  <2>1. ~Refuses(h, RemainingVisibility(h, lag))
    BY <1>11, DropNotRefused DEF DropUnsettled
  <2>2. /\ ChangeVisibility(h, RemainingVisibility(h, lag))
        /\ Become(h, "dropped") /\ nextId' = nextId /\ now' = now
    BY <1>11, <2>1 DEF DropUnsettled, SettlementFrame
  <2> QED BY <1>11, <2>2, RemainingNat, ChangeVisibilitySafe DEF DropUnsettled
<1>12. ASSUME NEW h \in handles, Release(h) PROVE Safe'
  <2>1. /\ handles' = handles \ {h} /\ h.phase \notin {"held", "refused"}
        /\ UNCHANGED <<inFlight, visible, timers, nextId, now>>
    BY <1>12 DEF Release, SettlementFrame
  <2>2. NoneStranded'
    BY <2>1 DEF Safe, NoneStranded
  <2> QED BY <2>1, <2>2 DEF Safe, IdsUsed, ReceiptsUnique, HeldSinceReceive,
             OnePlace, HeldExclusively
<1>13. ASSUME NEW t \in timers, Lapse(t) PROVE Safe'
  BY <1>13, LapseSafe
<1>14. CASE Tick
  <2>1. HeldSinceReceive'
    <3>1. \A h \in handles : h.received \in Nat
      BY DEF Shape, TypeOK, Handle
    <3> QED BY <1>14, <3>1 DEF Tick, Safe, HeldSinceReceive, Shape, TypeOK
  <2> QED BY <1>14, <2>1 DEF Tick, queueVars, Safe, IdsUsed, ReceiptsUnique,
             OnePlace, HeldExclusively, NoneStranded
<1>15. CASE UNCHANGED vars
  BY <1>15 DEF vars, Safe, IdsUsed, ReceiptsUnique, HeldSinceReceive, OnePlace,
     HeldExclusively, NoneStranded
<1> QED
  BY <1>1, <1>2, <1>3, <1>4, <1>5, <1>6, <1>7, <1>8, <1>9, <1>10, <1>11,
     <1>12, <1>13, <1>14, <1>15 DEF Next

LEMMA SafeAlways == Spec => [](Shape /\ Safe)
BY ShapeInit, ShapeStep, SafeInit, SafeStep, PTL DEF Spec

\* No message is stranded in flight, whatever the window, the margin and the
\* timeouts are, as long as the margin covers the time from reading the clock
\* to the change (MarginAssumption): BusReceipt's drop is never refused.
THEOREM AccountNoneStranded == Spec => []NoneStranded
<1>1. Shape /\ Safe => NoneStranded
  BY DEF Safe
<1> QED BY <1>1, SafeAlways, PTL

\* A delivery in a handler's hands is the only claim on its message.
THEOREM AccountHeldExclusively == Spec => []HeldExclusively
<1>1. Shape /\ Safe => HeldExclusively
  BY DEF Safe
<1> QED BY <1>1, SafeAlways, PTL

\* A message is never in two places of the account.
THEOREM AccountOnePlace == Spec => []OnePlace
<1>1. Shape /\ Safe => OnePlace
  BY DEF Safe
<1> QED BY <1>1, SafeAlways, PTL

LEMMA ReceiveCounter ==
  ASSUME Shape, NEW s \in Subscriptions, NEW size \in Sizes, Receive(s, size)
  PROVE  nextId <= nextId'
<1> DEFINE q      == sub[s].reg.queue
           handed == Taken(q, size) \ {m \in Taken(q, size) : Spent(q, m)}
<1>1. q \in Queues
  BY OpenReg, RegistrationAssumption, ZenonT(60) DEF Receive, Registration
<1>2. handed \subseteq visible[q]
  <2> HIDE DEF q
  <2> QED BY <1>1, TakenFacts
<1>3. Cardinality(handed) \in Nat
  <2> HIDE DEF handed, q
  <2> QED BY <1>1, <1>2, CardOfSubset DEF Shape, VisibleFinite
<1>4. nextId' = nextId + Cardinality(handed)
  BY ZenonT(60) DEF Receive
<1> HIDE DEF handed
<1> QED BY <1>3, <1>4 DEF Shape, TypeOK

-----------------------------------------------------------------------------
(* Deduplication.  What a FIFO queue took is in its memory, with the moment *)
(* it took it, until the window is over.                                    *)

\* A queue is on a topic once, so one publish reaches it once.
TopicsDistinct ==
  \A t \in Topics : \A i, j \in DOMAIN topics[t] : topics[t][i] = topics[t][j] => i = j

Remembered(a) ==
  /\ a.seq < nextId /\ a.at <= now
  /\ now - a.at < DedupWindow => [id |-> a.id, at |-> a.at] \in dedup[a.queue]

Memory == DedupHolds /\ TopicsDistinct /\ \A a \in accepted : Remembered(a)

LEMMA AcceptedShape ==
  ASSUME Shape, NEW a \in accepted
  PROVE  a.queue \in Queues /\ a.id \in DedupIds /\ a.at \in Nat /\ a.seq \in Nat
BY DEF Shape, TypeOK

LEMMA DeliverMemory ==
  ASSUME Shape, Memory, NEW targets \in Seq(Queues), NEW m \in Message,
         \A i, j \in DOMAIN targets : targets[i] = targets[j] => i = j,
         Deliver(targets, m), now' = now
  PROVE  DedupHolds' /\ \A a \in accepted' : Remembered(a)'
<1> DEFINE taking == Taking(targets, m)
           fifo   == {i \in DOMAIN targets : targets[i] \in FifoQueues}
           A(i)   == [queue |-> targets[i], id |-> m.dedup, at |-> now,
                      seq |-> SeqOf(targets, m, i)]
<1>1. /\ Cardinality(taking) \in Nat
      /\ \A i \in taking : /\ SeqOf(targets, m, i) \in Nat
                           /\ nextId <= SeqOf(targets, m, i)
                           /\ SeqOf(targets, m, i) < nextId + Cardinality(taking)
  BY SeqOfFacts
<1>2. /\ nextId \in Nat /\ now \in Nat /\ DedupWindow \in Nat
      /\ nextId' = nextId + Cardinality(taking)
      /\ accepted' = accepted \cup {A(i) : i \in taking \cap fifo}
      /\ dedup' = [q \in Queues |-> IF \E i \in fifo : targets[i] = q
                                     THEN Remember(dedup[q], m.dedup) ELSE dedup[q]]
  BY TimeAssumption DEF Deliver, Shape, TypeOK
<1>3. \A i \in taking \cap fifo :
        /\ A(i).queue = targets[i] /\ A(i).id = m.dedup /\ A(i).at = now
        /\ A(i).seq = SeqOf(targets, m, i)
        /\ targets[i] \in Queues /\ ~SeenWithin(dedup[targets[i]], m.dedup)
  BY DEF Taking
<1> HIDE DEF A, taking
<1>4. ASSUME NEW b \in accepted'
      PROVE  b \in accepted \/ \E i \in taking \cap fifo : b = A(i)
  BY <1>2
<1>5. \A q \in Queues : \A e \in dedup[q] : now - e.at < DedupWindow => e \in dedup'[q]
  BY <1>2 DEF Remember, Within
<1>6. \A i \in taking \cap fifo : [id |-> m.dedup, at |-> now] \in dedup'[targets[i]]
  BY <1>2, <1>3 DEF Remember
<1>7. ASSUME NEW a \in accepted' PROVE Remembered(a)'
  <2>1. CASE a \in accepted
    <3>1. /\ a.queue \in Queues /\ a.at \in Nat /\ a.seq \in Nat
          /\ a.seq < nextId /\ a.at <= now
          /\ now - a.at < DedupWindow => [id |-> a.id, at |-> a.at] \in dedup[a.queue]
      BY <2>1, AcceptedShape DEF Memory, Remembered
    <3>2. a.seq < nextId'
      BY <1>1, <1>2, <3>1
    <3>3. now - a.at < DedupWindow => [id |-> a.id, at |-> a.at] \in dedup'[a.queue]
      BY <1>5, <3>1
    <3> QED BY <3>1, <3>2, <3>3 DEF Remembered
  <2>2. CASE a \notin accepted
    <3>1. PICK i \in taking \cap fifo : a = A(i)
      BY <1>4, <2>2
    <3>2. a.at = now /\ a.id = m.dedup /\ a.queue = targets[i] /\ a.seq < nextId'
      BY <1>1, <1>2, <1>3, <3>1
    <3>3. [id |-> a.id, at |-> a.at] \in dedup'[a.queue]
      BY <1>6, <3>2
    <3>4. a.at <= now'
      BY <1>2, <3>2
    <3> QED BY <3>2, <3>3, <3>4, ZenonT(60) DEF Remembered
  <2> QED BY <2>1, <2>2
<1>8. ASSUME NEW a \in accepted', NEW b \in accepted',
             a.queue = b.queue, a.id = b.id, a.seq < b.seq
      PROVE  b.at - a.at >= DedupWindow
  <2>1. CASE a \in accepted /\ b \in accepted
    BY <1>8, <2>1 DEF Memory, DedupHolds
  <2>2. CASE b \notin accepted
    <3>1. PICK i \in taking \cap fifo : b = A(i)
      BY <1>4, <2>2
    <3>2. /\ b.at = now /\ b.id = m.dedup /\ b.queue = targets[i]
          /\ b.seq = SeqOf(targets, m, i) /\ ~SeenWithin(dedup[targets[i]], m.dedup)
      BY <1>3, <3>1
    <3>3. a \in accepted
      <4> SUFFICES ASSUME a \notin accepted PROVE FALSE
        OBVIOUS
      <4>1. PICK j \in taking \cap fifo : a = A(j)
        BY <1>4
      <4>2. targets[i] = targets[j] /\ a.seq = SeqOf(targets, m, j)
        BY <1>3, <1>8, <3>2, <4>1
      <4>3. i = j
        BY <4>2
      <4> QED BY <1>1, <1>8, <3>2, <4>2, <4>3
    <3>4. a.at \in Nat /\ a.at <= now
          /\ (now - a.at < DedupWindow => [id |-> a.id, at |-> a.at] \in dedup[a.queue])
      BY <3>3, AcceptedShape DEF Memory, Remembered
    <3>5. ~(now - a.at < DedupWindow)
      <4> SUFFICES ASSUME now - a.at < DedupWindow PROVE FALSE
        OBVIOUS
      <4>1. [id |-> a.id, at |-> a.at] \in Within(dedup[targets[i]])
        BY <1>8, <3>2, <3>4 DEF Within
      <4>2. [id |-> a.id, at |-> a.at].id = m.dedup
        BY <1>8, <3>2
      <4> QED BY <3>2, <4>1, <4>2 DEF SeenWithin
    <3> QED BY <1>2, <3>2, <3>4, <3>5
  <2>3. CASE a \notin accepted /\ b \in accepted
    <3>1. PICK i \in taking \cap fifo : a = A(i)
      BY <1>4, <2>3
    <3>2. a.seq = SeqOf(targets, m, i)
      BY <1>3, <3>1
    <3>3. b.seq \in Nat /\ b.seq < nextId
      BY <2>3, AcceptedShape DEF Memory, Remembered
    <3> QED BY <1>1, <1>2, <1>8, <3>2, <3>3
  <2> QED BY <2>1, <2>2, <2>3
<1> QED BY <1>7, <1>8 DEF DedupHolds

LEMMA MemoryStep == Shape /\ Memory /\ [Next]_vars => Memory'
<1> SUFFICES ASSUME Shape, Memory, [Next]_vars PROVE Memory'
  OBVIOUS
<1>1. ASSUME UNCHANGED <<accepted, dedup, now, topics>>, nextId \in Nat, nextId' \in Nat,
             nextId <= nextId'
      PROVE  Memory'
  <2>1. ASSUME NEW a \in accepted PROVE a.seq < nextId'
    <3>1. a.seq \in Nat /\ a.seq < nextId
      BY AcceptedShape DEF Memory, Remembered
    <3> QED BY <1>1, <3>1
  <2> QED BY <1>1, <2>1 DEF Memory, DedupHolds, TopicsDistinct, Remembered
<1>2. nextId \in Nat /\ nextId' \in Nat
  BY ShapeStep DEF Shape, TypeOK
<1>3. ASSUME NEW q \in Queues, NEW m \in Message, Send(q, m) PROVE Memory'
  <2>1. /\ <<q>> \in Seq(Queues)
        /\ \A i, j \in DOMAIN <<q>> : <<q>>[i] = <<q>>[j] => i = j
    <3>1. <<q>> \in Seq(Queues) /\ DOMAIN <<q>> = 1..1
      OBVIOUS
    <3>2. \A i, j \in 1..1 : i = j
      OBVIOUS
    <3> QED BY <3>1, <3>2
  <2>2. Deliver(<<q>>, m) /\ now' = now /\ topics' = topics
    BY <1>3 DEF Send, topicVars
  <2>3. DedupHolds' /\ \A a \in accepted' : Remembered(a)'
    BY <2>1, <2>2, DeliverMemory
  <2> QED BY <2>2, <2>3 DEF Memory, TopicsDistinct
<1>4. ASSUME NEW t \in Topics, NEW m \in Message, PublishTopic(t, m) PROVE Memory'
  <2> DEFINE targets == IF t \in FifoTopics /\ SeenWithin(topicDedup[t], m.dedup)
                        THEN <<>> ELSE topics[t]
  <2>1. /\ targets \in Seq(Queues)
        /\ \A i, j \in DOMAIN targets : targets[i] = targets[j] => i = j
    BY DEF Shape, TypeOK, Memory, TopicsDistinct
  <2>2. Deliver(targets, m) /\ now' = now /\ topics' = topics
    BY <1>4 DEF PublishTopic
  <2> HIDE DEF targets
  <2>3. DedupHolds' /\ \A a \in accepted' : Remembered(a)'
    BY <2>1, <2>2, DeliverMemory
  <2> QED BY <2>2, <2>3 DEF Memory, TopicsDistinct
<1>5. ASSUME NEW t \in Topics, NEW q \in Queues, SubscribeTopic(t, q) PROVE Memory'
  <2>1. /\ UNCHANGED <<accepted, dedup, now, nextId>>
        /\ topics' = [topics EXCEPT ![t] = Append(@, q)]
        /\ \A i \in DOMAIN topics[t] : topics[t][i] # q
        /\ topics[t] \in Seq(Queues)
    BY <1>5 DEF SubscribeTopic, queueVars, Shape, TypeOK
  <2>2. \A i, j \in DOMAIN Append(topics[t], q) :
          Append(topics[t], q)[i] = Append(topics[t], q)[j] => i = j
    BY <2>1 DEF Memory, TopicsDistinct
  <2>3. TopicsDistinct'
    <3>1. DOMAIN topics = Topics
      BY DEF Shape, TypeOK
    <3>2. ASSUME NEW u \in Topics
          PROVE  topics'[u] = IF u = t THEN Append(topics[t], q) ELSE topics[u]
      BY <2>1, <3>1
    <3> QED BY <2>2, <3>2 DEF Memory, TopicsDistinct
  <2> QED BY <2>1, <2>3 DEF Memory, DedupHolds, Remembered
<1>6. CASE Tick
  <2>1. UNCHANGED <<accepted, dedup, topics, nextId>> /\ now' = now + 1 /\ now \in Nat
    BY <1>6 DEF Tick, queueVars, topicVars, Shape, TypeOK
  <2>2. ASSUME NEW a \in accepted PROVE Remembered(a)'
    BY <2>1, AcceptedShape, TimeAssumption DEF Memory, Remembered
  <2> QED BY <2>1, <2>2 DEF Memory, DedupHolds, TopicsDistinct
<1>7. ASSUME NEW s \in Subscriptions, NEW size \in Sizes, Receive(s, size) PROVE Memory'
  <2>1. UNCHANGED <<accepted, dedup, now, topics>>
    BY <1>7, ZenonT(60) DEF Receive, topicVars
  <2>2. nextId <= nextId'
    BY <1>7, ReceiveCounter
  <2> QED BY <1>1, <1>2, <2>1, <2>2
<1>8. CASE \/ \E s \in Subscriptions :
                (\E reg \in Registrations : Declare(s, reg)) \/ Open(s) \/ Close(s)
           \/ \E h \in handles :
                \/ Ack(h)
                \/ \E requeue \in BOOLEAN : Nack(h, requeue)
                \/ \E delay \in Delays, lag \in 0..MaxLag : NackAfter(h, delay, lag)
                \/ \E lag \in 0..MaxLag : DropUnsettled(h, lag)
                \/ Release(h)
           \/ \E t \in timers : Lapse(t)
           \/ UNCHANGED vars
  <2>1. UNCHANGED <<accepted, dedup, now, topics, nextId>>
    BY <1>8 DEF Declare, Open, Close, Ack, Nack, NackAfter, DropUnsettled, Release, Lapse,
                SettlementFrame, topicVars, vars
  <2> QED BY <1>1, <1>2, <2>1
<1> QED BY <1>3, <1>4, <1>5, <1>6, <1>7, <1>8 DEF Next

\* A FIFO queue never takes a deduplication id twice within the window, by
\* queue or by topic, for every window, clock and set of queues and topics.
THEOREM AccountDedupHolds == Spec => []DedupHolds
<1>1. Init => Memory
  BY DEF Init, Memory, DedupHolds, TopicsDistinct
<1>2. Memory => DedupHolds
  BY DEF Memory
<1> QED BY <1>1, <1>2, ShapeInit, ShapeStep, MemoryStep, PTL DEF Spec

-----------------------------------------------------------------------------
(* The count of pending messages. *)

AllVisible == UNION {{q} \X visible[q] : q \in Queues}

Counted ==
  /\ IsFiniteSet(handles) /\ IsFiniteSet(AllVisible)
  /\ pending = Cardinality(handles) + Cardinality(AllVisible)

\* An image under an injective operation, given as a function, is as large as
\* its source.
LEMMA ImageCardinality ==
  ASSUME NEW S, NEW T, IsFiniteSet(S), NEW f \in [S -> T],
         \A y \in T : \E x \in S : f[x] = y,
         \A x, y \in S : f[x] = f[y] => x = y
  PROVE  IsFiniteSet(T) /\ Cardinality(T) = Cardinality(S)
<1>1. f \in Surjection(S, T) /\ f \in Injection(S, T)
  BY DEF Surjection, Injection, IsInjective
<1> QED BY <1>1, FS_Surjection

\* A set of S paired with one name is as large as S.
LEMMA TagCardinality ==
  ASSUME NEW q, NEW S, IsFiniteSet(S)
  PROVE  IsFiniteSet({q} \X S) /\ Cardinality({q} \X S) = Cardinality(S)
<1> DEFINE T == {q} \X S
           f == [x \in S |-> <<q, x>>]
<1>1. /\ f \in [S -> T] /\ \A y \in T : \E x \in S : f[x] = y
      /\ \A x, y \in S : f[x] = f[y] => x = y
  OBVIOUS
<1> HIDE DEF f, T
<1>2. IsFiniteSet(T) /\ Cardinality(T) = Cardinality(S)
  BY <1>1, ImageCardinality
<1> QED BY <1>2 DEF T

\* Taking L out of A and putting G in, where G is new.
Fits(A, L, G) == L \subseteq A /\ G \cap (A \ L) = {}
Exchanged(A, L, G) == (A \ L) \cup G

LEMMA Exchange ==
  ASSUME NEW A, NEW L, NEW G, IsFiniteSet(A), IsFiniteSet(G), Fits(A, L, G)
  PROVE  /\ IsFiniteSet(Exchanged(A, L, G))
         /\ Cardinality(A) \in Nat /\ Cardinality(L) \in Nat /\ Cardinality(G) \in Nat
         /\ Cardinality(Exchanged(A, L, G))
              = Cardinality(A) - Cardinality(L) + Cardinality(G)
<1>1. /\ Cardinality(A) \in Nat /\ Cardinality(L) \in Nat /\ Cardinality(G) \in Nat
  BY CardOfSubset DEF Fits
<1>2. A \cap L = L /\ (A \ L) \cap G = {}
  BY DEF Fits
<1>3. IsFiniteSet(A \ L) /\ Cardinality(A \ L) = Cardinality(A) - Cardinality(L)
  BY <1>2, FS_Difference
<1>4. /\ IsFiniteSet((A \ L) \cup G)
      /\ Cardinality((A \ L) \cup G) = Cardinality(A \ L) + Cardinality(G) - 0
  BY <1>2, <1>3, FS_Union, FS_EmptySet
<1> QED BY <1>1, <1>3, <1>4 DEF Exchanged

\* The same, when what goes and what comes is on queues: L leaves q, G comes to p.
LEMMA VisibleExchange ==
  ASSUME Shape, Counted, NEW q \in Queues, NEW p \in Queues, NEW L, NEW G,
         L \subseteq visible[q], IsFiniteSet(G),
         \A m \in G : m \in visible[p] => p = q /\ m \in L,
         visible' = [r \in Queues |-> (visible[r] \ (IF r = q THEN L ELSE {}))
                                        \cup (IF r = p THEN G ELSE {})]
  PROVE  /\ IsFiniteSet(AllVisible')
         /\ Cardinality(AllVisible) \in Nat
         /\ Cardinality(L) \in Nat /\ Cardinality(G) \in Nat
         /\ Cardinality(AllVisible')
              = Cardinality(AllVisible) - Cardinality(L) + Cardinality(G)
<1> DEFINE out == {q} \X L
           in  == {p} \X G
<1>1. out \subseteq AllVisible
  BY DEF AllVisible
<1>2. in \cap (AllVisible \ out) = {}
  BY DEF AllVisible
<1>3. AllVisible' = Exchanged(AllVisible, out, in)
  BY DEF AllVisible, Exchanged
<1>4. IsFiniteSet(L)
  BY CardOfSubset DEF Shape, VisibleFinite
<1>5. /\ IsFiniteSet(in) /\ Cardinality(in) = Cardinality(G)
      /\ Cardinality(out) = Cardinality(L)
  BY <1>4, TagCardinality
<1> HIDE DEF in, out
<1>6. IsFiniteSet(AllVisible)
  BY DEF Counted
<1>7. /\ IsFiniteSet(Exchanged(AllVisible, out, in))
      /\ Cardinality(AllVisible) \in Nat
      /\ Cardinality(out) \in Nat /\ Cardinality(in) \in Nat
      /\ Cardinality(Exchanged(AllVisible, out, in))
           = Cardinality(AllVisible) - Cardinality(out) + Cardinality(in)
  <2>1. Fits(AllVisible, out, in)
    BY <1>1, <1>2 DEF Fits
  <2> QED BY <2>1, <1>5, <1>6, Exchange
<1> QED BY <1>3, <1>5, <1>7

\* A publish adds one visible message for each queue that has a subscription.
LEMMA DeliverCounted ==
  ASSUME Shape, Safe, Counted, NEW targets \in Seq(Queues), NEW m \in Message,
         Deliver(targets, m), handles' = handles
  PROVE  Counted'
<1> DEFINE taking   == Taking(targets, m)
           attended == {i \in taking : subscriptions[targets[i]] # 0}
           C(i)     == [seq |-> SeqOf(targets, m, i), message |-> Copy(targets[i], m),
                        receives |-> 0]
           f        == [i \in attended |-> <<targets[i], C(i)>>]
           added    == {<<targets[i], C(i)>> : i \in attended}
<1>1. /\ \A i \in taking : /\ SeqOf(targets, m, i) \in Nat
                           /\ nextId <= SeqOf(targets, m, i)
      /\ \A i, j \in taking : SeqOf(targets, m, i) = SeqOf(targets, m, j) => i = j
  BY SeqOfFacts
<1>2. IsFiniteSet(taking) /\ \A i \in taking : targets[i] \in Queues
  BY TakingFacts
<1>3. IsFiniteSet(attended) /\ Cardinality(attended) \in Nat
  BY <1>2, CardOfSubset
<1>4. IsFiniteSet(added) /\ Cardinality(added) = Cardinality(attended)
  <2>1. /\ f \in [attended -> added]
        /\ \A y \in added : \E x \in attended : f[x] = y
    OBVIOUS
  <2>2. ASSUME NEW i \in attended, NEW j \in attended, f[i] = f[j]
        PROVE  i = j
    <3>1. C(i) = C(j)
      BY <2>2
    <3>2. C(i).seq = C(j).seq
      BY <3>1
    <3> QED BY <3>2, <1>1
  <2> HIDE DEF f, added, attended
  <2> QED BY <2>1, <2>2, <1>3, ImageCardinality
<1>5. AllVisible' = Exchanged(AllVisible, {}, added)
  <2>1. ASSUME NEW q \in Queues
        PROVE  visible'[q] = visible[q] \cup {C(i) : i \in {j \in attended : targets[j] = q}}
    <3>1. Copies(targets, m, q) = {C(i) : i \in {j \in taking : targets[j] = q}}
      BY DEF Copies
    <3>2. visible'[q] = visible[q] \cup Kept(q, Copies(targets, m, q))
      BY DEF Deliver
    <3> QED BY <3>1, <3>2 DEF Kept
  <2> HIDE DEF C
  <2>2. \A i \in attended : targets[i] \in Queues
    BY <1>2
  <2> HIDE DEF attended
  <2>3. AllVisible' \subseteq AllVisible \cup added
    BY <2>1 DEF AllVisible
  <2>4. AllVisible \subseteq AllVisible'
    BY <2>1 DEF AllVisible
  <2>5. added \subseteq AllVisible'
    BY <2>1, <2>2 DEF AllVisible
  <2> QED BY <2>3, <2>4, <2>5 DEF Exchanged
<1>6. Fits(AllVisible, {}, added)
  <2>1. ASSUME NEW i \in attended, <<targets[i], C(i)>> \in AllVisible
        PROVE  FALSE
    <3>1. C(i) \in visible[targets[i]] /\ targets[i] \in Queues
      BY <2>1, <1>2 DEF AllVisible
    <3>2. C(i).seq < nextId /\ C(i).seq = SeqOf(targets, m, i)
      BY <3>1 DEF Safe, IdsUsed
    <3> QED BY <3>2, <1>1 DEF Shape, TypeOK
  <2> QED BY <2>1 DEF Fits
<1>7. pending' = pending + Cardinality(attended)
  BY DEF Deliver
<1> HIDE DEF attended, added
<1>8. /\ IsFiniteSet(AllVisible') /\ Cardinality(AllVisible) \in Nat
      /\ Cardinality(AllVisible')
           = Cardinality(AllVisible) - 0 + Cardinality(added)
  BY <1>4, <1>5, <1>6, Exchange, FS_EmptySet DEF Counted
<1>9. Cardinality(handles) \in Nat
  BY FS_CardinalityType DEF Counted
<1> QED BY <1>3, <1>4, <1>7, <1>8, <1>9 DEF Counted

\* What returns to a queue is counted when the queue keeps it.
LEMMA RequeueCounted ==
  ASSUME Shape, Safe, Counted, NEW q \in Queues, NEW e \in inFlight[q],
         Requeue(q, e.stored), IsFiniteSet(handles'),
         Cardinality(handles') = Cardinality(handles)
  PROVE  Counted'
<1> DEFINE G == Kept(q, {e.stored})
<1>1. IsFiniteSet(G) /\ \A m \in G : m \notin visible[q]
  <2>1. G \subseteq {e.stored}
    BY KeptSubset
  <2>2. IsFiniteSet(G)
    BY <2>1, CardOfSubset, FS_Singleton
  <2> QED BY <2>1, <2>2 DEF Safe, OnePlace
<1>2. /\ visible' = [r \in Queues |-> (visible[r] \ (IF r = q THEN {} ELSE {}))
                                        \cup (IF r = q THEN G ELSE {})]
      /\ pending' = pending + Cardinality(G)
  BY DEF Requeue, Shape, TypeOK
<1> HIDE DEF G
<1>3. {} \subseteq visible[q] /\ Cardinality({}) = 0
  BY FS_EmptySet
<1>4. /\ IsFiniteSet(AllVisible')
      /\ Cardinality(AllVisible) \in Nat /\ Cardinality(G) \in Nat
      /\ Cardinality(AllVisible') = Cardinality(AllVisible) - Cardinality({}) + Cardinality(G)
  BY <1>1, <1>2, <1>3, VisibleExchange
<1>5. Cardinality(handles) \in Nat
  BY FS_CardinalityType DEF Counted
<1> QED BY <1>2, <1>3, <1>4, <1>5 DEF Counted

\* A settlement changes a delivery's phase and no count.
LEMMA BecomeCounted ==
  ASSUME Shape, Safe, Counted, NEW h \in handles,
         NEW ph \in {"refused"} \cup Over, Become(h, ph)
  PROVE  IsFiniteSet(handles') /\ Cardinality(handles') = Cardinality(handles)
<1> DEFINE g == [h EXCEPT !.phase = ph]
<1>1. g.receipt = h.receipt
  BY EntryShape DEF Handle
<1>2. g \notin handles \ {h}
  BY <1>1 DEF Safe, ReceiptsUnique
<1>3. handles' = Exchanged(handles, {h}, {g}) /\ Fits(handles, {h}, {g})
  BY <1>2 DEF Become, Exchanged, Fits
<1> HIDE DEF g
<1>4. /\ IsFiniteSet({g}) /\ Cardinality({g}) = 1 /\ Cardinality({h}) = 1
      /\ IsFiniteSet(handles)
  BY FS_Singleton DEF Counted
<1>5. /\ IsFiniteSet(handles') /\ Cardinality(handles) \in Nat
      /\ Cardinality(handles') = Cardinality(handles) - 1 + 1
  BY <1>3, <1>4, Exchange
<1> QED BY <1>5

\* A receive moves what it hands over from one count to the other.
LEMMA ReceiveCounted ==
  ASSUME Shape, Safe, Counted, NEW s \in Subscriptions, NEW size \in Sizes,
         Receive(s, size)
  PROVE  Counted'
<1> DEFINE reg == sub[s].reg
           q == reg.queue
           taken == Taken(q, size)
           spent == {m \in taken : Spent(q, m)}
           handed == taken \ spent
           target == IF spent = {} THEN q ELSE redrive[q].queue
           moved == Kept(target, spent)
           max == IF reg.redrive = None THEN None ELSE reg.redrive.max
           H(m) == [receipt |-> nextId + Rank(m, handed), queue |-> q,
                    receives |-> m.receives + 1, redriveMax |-> max,
                    visibility |-> reg.visibility,
                    received |-> now, phase |-> "held"]
           f == [m \in handed |-> H(m)]
           new == {H(m) : m \in handed}
<1>1. q \in Queues /\ target \in Queues
  <2>1. q \in Queues
    BY OpenReg, RegistrationAssumption, ZenonT(60) DEF Receive, Registration
  <2> QED BY <2>1 DEF Spent, Shape, TypeOK, Policy
<1>2. taken \subseteq visible[q] /\ taken \subseteq Stored
  <2> HIDE DEF q
  <2> QED BY <1>1, TakenFacts
<1>3. handed \subseteq taken /\ moved \subseteq taken /\ spent \subseteq taken
      /\ handed \cap spent = {} /\ taken = spent \cup handed
  BY KeptSubset
<1>4. IsFiniteSet(taken) /\ IsFiniteSet(moved) /\ IsFiniteSet(handed) /\ IsFiniteSet(spent)
  <2> HIDE DEF handed, taken, spent, moved, q
  <2> QED BY <1>1, <1>2, <1>3, CardOfSubset DEF Shape, VisibleFinite
<1>5. /\ handles' = handles \cup new
      /\ visible' = [p \in Queues |->
           (visible[p] \ (IF p = q THEN taken ELSE {}))
             \cup (IF p = target THEN moved ELSE {})]
      /\ pending' = pending - Cardinality(spent) + Cardinality(moved)
  BY ZenonT(60) DEF Receive
<1> HIDE DEF taken, spent, handed, moved, target, q, max, reg
<1>6. /\ \A m \in handed : Rank(m, handed) \in Nat
      /\ \A m, n \in handed : Rank(m, handed) = Rank(n, handed) => m = n
  <2>1. \A m, n \in handed : m.seq = n.seq => m = n
    BY <1>1, <1>2, <1>3 DEF Safe, OnePlace
  <2>2. handed \in SUBSET Stored
    BY <1>2, <1>3
  <2> QED BY <2>1, <2>2, <1>4, RankFacts
<1>7. nextId \in Nat /\ \A h \in handles : h.receipt < nextId
  BY DEF Shape, TypeOK, Safe, IdsUsed
<1>8. IsFiniteSet(new) /\ Cardinality(new) = Cardinality(handed)
  <2>1. f \in [handed -> new] /\ \A y \in new : \E x \in handed : f[x] = y
    OBVIOUS
  <2>2. ASSUME NEW m \in handed, NEW n \in handed, f[m] = f[n]
        PROVE  m = n
    <3>1. H(m) = H(n)
      BY <2>2
    <3>2. H(m).receipt = H(n).receipt
      BY <3>1
    <3>3. nextId + Rank(m, handed) = nextId + Rank(n, handed)
      BY <3>2
    <3>4. Rank(m, handed) = Rank(n, handed)
      BY <3>3, <1>6, <1>7
    <3> QED BY <3>4, <1>6
  <2> HIDE DEF f, new
  <2> QED BY <2>1, <2>2, <1>4, ImageCardinality
<1>9. handles' = Exchanged(handles, {}, new) /\ Fits(handles, {}, new)
  <2>1. ASSUME NEW m \in handed, H(m) \in handles PROVE FALSE
    <3>1. H(m).receipt < nextId /\ H(m).receipt = nextId + Rank(m, handed)
      BY <1>7, <2>1
    <3> QED BY <3>1, <1>6, <1>7
  <2> QED BY <2>1, <1>5 DEF Exchanged, Fits
<1> HIDE DEF new
<1>10. /\ IsFiniteSet(handles') /\ Cardinality(handles) \in Nat
       /\ Cardinality(handles') = Cardinality(handles) - 0 + Cardinality(new)
  BY <1>8, <1>9, Exchange, FS_EmptySet DEF Counted
<1>11. \A m \in moved : m \in visible[target] => target = q /\ m \in taken
  BY <1>1, <1>2, <1>3 DEF Safe, OnePlace
<1>12. /\ IsFiniteSet(AllVisible')
       /\ Cardinality(AllVisible) \in Nat
       /\ Cardinality(taken) \in Nat /\ Cardinality(moved) \in Nat
       /\ Cardinality(AllVisible')
            = Cardinality(AllVisible) - Cardinality(taken) + Cardinality(moved)
  BY <1>1, <1>2, <1>4, <1>5, <1>11, VisibleExchange
<1>13. /\ Cardinality(spent) \in Nat /\ Cardinality(handed) \in Nat
       /\ Cardinality(taken) = Cardinality(spent) + Cardinality(handed)
  <2>1. Cardinality(spent \cup handed)
          = Cardinality(spent) + Cardinality(handed) - Cardinality(spent \cap handed)
    BY <1>4, FS_Union
  <2>2. spent \cap handed = {}
    BY <1>3
  <2>3. Cardinality(spent) \in Nat /\ Cardinality(handed) \in Nat
    BY <1>4, FS_CardinalityType
  <2>4. Cardinality(taken) = Cardinality(spent) + Cardinality(handed) - 0
    BY <2>1, <2>2, <1>3, FS_EmptySet
  <2> QED BY <2>3, <2>4
<1> QED BY <1>5, <1>8, <1>10, <1>12, <1>13 DEF Counted

\* The last subscription's close uncounts what it drops.
LEMMA CloseCounted ==
  ASSUME Shape, Counted, NEW s \in Subscriptions, Close(s)
  PROVE  Counted'
<1> DEFINE q    == sub[s].reg.queue
           lost == IF Minus(subscriptions[q], 1) = 0 THEN visible[q] ELSE {}
<1>1. q \in Queues
  BY OpenReg, RegistrationAssumption, ZenonT(60) DEF Close, Registration
<1>2. lost \subseteq visible[q] /\ IsFiniteSet({}) /\ Cardinality({}) = 0
  BY FS_EmptySet
<1>3. /\ visible' = [r \in Queues |-> (visible[r] \ (IF r = q THEN lost ELSE {}))
                                        \cup (IF r = q THEN {} ELSE {})]
      /\ pending' = pending - Cardinality(lost)
      /\ handles' = handles
  <2>1. /\ visible' = [visible EXCEPT ![q] = @ \ lost]
        /\ pending' = pending - Cardinality(lost)
        /\ handles' = handles
    BY DEF Close
  <2> HIDE DEF lost, q
  <2> QED BY <2>1, <1>1 DEF Shape, TypeOK
<1> HIDE DEF lost, q
<1>4. /\ IsFiniteSet(AllVisible')
      /\ Cardinality(AllVisible) \in Nat
      /\ Cardinality(lost) \in Nat
      /\ Cardinality(AllVisible')
           = Cardinality(AllVisible) - Cardinality(lost) + Cardinality({})
  BY <1>1, <1>2, <1>3, VisibleExchange
<1>5. Cardinality(handles) \in Nat
  BY FS_CardinalityType DEF Counted
<1> QED BY <1>2, <1>3, <1>4, <1>5 DEF Counted

LEMMA ChangeVisibilityCounted ==
  ASSUME Shape, Safe, Counted, NEW h \in handles, NEW v \in Nat,
         ChangeVisibility(h, v), NEW ph \in {"refused"} \cup Over, Become(h, ph)
  PROVE  Counted'
<1>1. IsFiniteSet(handles') /\ Cardinality(handles') = Cardinality(handles)
  BY BecomeCounted
<1>2. PICK e \in EntriesOf(h) : ChangeVisibility(h, v)!(e)
  BY DEF ChangeVisibility
<1>3. CASE v = 0
  <2>1. Requeue(h.queue, e.stored) /\ h.queue \in Queues /\ e \in inFlight[h.queue]
    BY <1>2, <1>3, EntryShape
  <2> QED BY <1>1, <2>1, RequeueCounted
<1>4. CASE v > 0
  <2>1. visible' = visible /\ pending' = pending
    BY <1>2, <1>4
  <2> QED BY <1>1, <2>1 DEF Counted, AllVisible
<1> QED BY <1>3, <1>4

LEMMA SettledCounted ==
  ASSUME Shape, Safe, Counted, NEW h \in handles
  PROVE  /\ \A ph \in Over : Delete(h, ph) => Counted'
         /\ \A v \in Nat : SetVisibility(h, v) => Counted'
<1>1. ASSUME NEW ph \in Over, Delete(h, ph) PROVE Counted'
  BY <1>1, BecomeCounted DEF Delete, Counted, AllVisible
<1>2. ASSUME NEW v \in Nat, SetVisibility(h, v) PROVE Counted'
  <2>1. CASE Refuses(h, v)
    BY <1>2, <2>1, BecomeCounted DEF SetVisibility, Counted, AllVisible
  <2>2. CASE ~Refuses(h, v)
    BY <1>2, <2>2, ChangeVisibilityCounted DEF SetVisibility
  <2> QED BY <2>1, <2>2
<1> QED BY <1>1, <1>2

LEMMA CountedStep == Shape /\ Safe /\ Counted /\ [Next]_vars => Counted'
<1> SUFFICES ASSUME Shape, Safe, Counted, [Next]_vars PROVE Counted'
  OBVIOUS
<1>1. CASE \/ \E s \in Subscriptions :
                (\E reg \in Registrations : Declare(s, reg)) \/ Open(s)
           \/ \E t \in Topics, q \in Queues : SubscribeTopic(t, q)
           \/ Tick
           \/ UNCHANGED vars
  <2>1. UNCHANGED <<visible, handles, pending>>
    BY <1>1 DEF Declare, Open, SubscribeTopic, Tick, queueVars, vars
  <2> QED BY <2>1 DEF Counted, AllVisible
<1>2. ASSUME NEW s \in Subscriptions, Close(s) PROVE Counted'
  BY <1>2, CloseCounted
<1>3. ASSUME NEW s \in Subscriptions, NEW size \in Sizes, Receive(s, size)
      PROVE  Counted'
  BY <1>3, ReceiveCounted
<1>4. ASSUME NEW q \in Queues, NEW m \in Message, Send(q, m) PROVE Counted'
  <2>1. <<q>> \in Seq(Queues)
    OBVIOUS
  <2> QED BY <1>4, <2>1, DeliverCounted DEF Send
<1>5. ASSUME NEW t \in Topics, NEW m \in Message, PublishTopic(t, m)
      PROVE  Counted'
  <2> DEFINE targets == IF t \in FifoTopics /\ SeenWithin(topicDedup[t], m.dedup)
                        THEN <<>> ELSE topics[t]
  <2>1. targets \in Seq(Queues)
    BY DEF Shape, TypeOK
  <2>2. Deliver(targets, m) /\ handles' = handles
    BY <1>5 DEF PublishTopic
  <2> HIDE DEF targets
  <2> QED BY <2>1, <2>2, DeliverCounted
<1>6. ASSUME NEW h \in handles, Ack(h) PROVE Counted'
  BY <1>6, SettledCounted DEF Ack
<1>7. ASSUME NEW h \in handles, NEW requeue \in BOOLEAN, Nack(h, requeue)
      PROVE  Counted'
  BY <1>7, SettledCounted DEF Nack
<1>8. ASSUME NEW h \in handles, NEW delay \in Delays, NEW lag \in 0..MaxLag,
             NackAfter(h, delay, lag)
      PROVE  Counted'
  BY <1>8, DelayNat, SettledCounted DEF NackAfter
<1>9. ASSUME NEW h \in handles, NEW lag \in 0..MaxLag, DropUnsettled(h, lag)
      PROVE  Counted'
  <2>1. ~Refuses(h, RemainingVisibility(h, lag))
    BY <1>9, DropNotRefused DEF DropUnsettled
  <2>2. ChangeVisibility(h, RemainingVisibility(h, lag)) /\ Become(h, "dropped")
    BY <1>9, <2>1 DEF DropUnsettled
  <2> QED BY <2>2, RemainingNat, ChangeVisibilityCounted
<1>10. ASSUME NEW h \in handles, Release(h) PROVE Counted'
  <2>1. handles' = handles \ {h} /\ pending' = pending - 1 /\ visible' = visible
    BY <1>10 DEF Release
  <2>2. IsFiniteSet(handles') /\ Cardinality(handles') = Cardinality(handles) - 1
    BY <2>1, FS_RemoveElement DEF Counted
  <2>3. AllVisible' = AllVisible
    BY <2>1 DEF AllVisible
  <2>4. Cardinality(handles) \in Nat /\ Cardinality(AllVisible) \in Nat
    BY FS_CardinalityType DEF Counted
  <2> QED BY <2>1, <2>2, <2>3, <2>4 DEF Counted
<1>11. ASSUME NEW t \in timers, Lapse(t) PROVE Counted'
  <2> DEFINE lapsed == {e \in inFlight[t.queue] :
                          e.receipt = t.receipt /\ e.generation = t.generation}
  <2>1. handles' = handles /\ t.queue \in Queues
    BY <1>11 DEF Lapse, Shape, TypeOK, Timer
  <2>2. CASE lapsed = {}
    BY <1>11, <2>1, <2>2 DEF Lapse, Counted, AllVisible
  <2>3. CASE lapsed # {}
    <3>1. PICK e \in inFlight[t.queue] : Requeue(t.queue, e.stored)
      BY <1>11, <2>3 DEF Lapse
    <3> QED BY <2>1, <3>1, RequeueCounted DEF Counted
  <2> QED BY <2>2, <2>3
<1> QED BY <1>1, <1>2, <1>3, <1>4, <1>5, <1>6, <1>7, <1>8, <1>9, <1>10, <1>11 DEF Next

\* The count the harness waits on is exactly what is visible and every delivery
\* not dropped yet, whatever is sent, moved, dropped, settled or lapses.
THEOREM AccountPendingIsExact == Spec => []PendingIsExact
<1>1. Init => Counted
  <2> SUFFICES ASSUME Init PROVE Counted
    OBVIOUS
  <2>1. AllVisible = {} /\ handles = {} /\ pending = 0
    BY DEF Init, AllVisible
  <2> QED BY <2>1, FS_EmptySet DEF Counted
<1>2. Counted => PendingIsExact
  BY DEF Counted, PendingIsExact, AllVisible
<1> QED BY <1>1, <1>2, SafeAlways, CountedStep, PTL DEF Spec

-----------------------------------------------------------------------------
(* What a step may never do: hand a group out of order, or lose a message. *)

Ordered(q, e) ==
  /\ \A d \in inFlight[q] : d.stored.message.group # e.stored.message.group
  /\ \A m \in visible'[q] :
       m.message.group = e.stored.message.group /\ ~Spent(q, m)
         => m.seq > e.stored.seq

InGroupOrder ==
  \A q \in FifoQueues : \A e \in inFlight'[q] :
    (\A d \in inFlight[q] : d.receipt # e.receipt) => Ordered(q, e)

\* The earlier of two messages of a set has no higher rank.
LEMMA RankMonotone ==
  ASSUME NEW S \in SUBSET Stored, IsFiniteSet(S), NEW m \in Stored, NEW n \in Stored,
         n.seq <= m.seq
  PROVE  Rank(n, S) \in Nat /\ Rank(m, S) \in Nat /\ Rank(n, S) <= Rank(m, S)
<1> DEFINE A == {f \in S : f.seq < n.seq}
           B == {f \in S : f.seq < m.seq}
<1>1. A \subseteq B
  BY DEF Stored
<1>2. IsFiniteSet(B) /\ Cardinality(A) \in Nat /\ Cardinality(B) \in Nat
  <2>1. B \subseteq S
    OBVIOUS
  <2> HIDE DEF A, B
  <2> QED BY <2>1, <1>1, CardOfSubset
<1>3. Cardinality(A) <= Cardinality(B)
  <2> HIDE DEF A, B
  <2> QED BY <1>1, <1>2, FS_Subset
<1> QED BY <1>2, <1>3 DEF Rank

\* What a receive leaves of a group comes after what it takes, unless spent.
LEMMA LeftBehind ==
  ASSUME Shape, NEW q \in Queues, NEW size \in Sizes, NEW m \in Taken(q, size),
         NEW n \in visible[q] \ Taken(q, size),
         n.message.group = m.message.group, ~Spent(q, n)
  PROVE  n.seq > m.seq
<1> DEFINE fresh == {k \in Eligible(q) : ~Spent(q, k)}
<1>1. /\ m \in Eligible(q) /\ Rank(m, fresh) < size
      /\ \A k \in Eligible(q) : k \notin Taken(q, size) => ~(Rank(k, fresh) < size)
  BY DEF Taken
<1>2. n \in Eligible(q)
  BY <1>1 DEF Eligible
<1>3. /\ fresh \in SUBSET visible[q] /\ fresh \in SUBSET Stored
      /\ m \in Stored /\ n \in Stored /\ IsFiniteSet(visible[q])
  BY <1>1 DEF Eligible, Shape, TypeOK, VisibleFinite
<1> HIDE DEF fresh
<1>4. IsFiniteSet(fresh)
  BY <1>3, CardOfSubset
<1>5. ~(Rank(n, fresh) < size) /\ size \in Nat
  BY <1>1, <1>2, TimeAssumption
<1>6. ~(n.seq <= m.seq)
  <2> SUFFICES ASSUME n.seq <= m.seq PROVE FALSE
    OBVIOUS
  <2>1. Rank(n, fresh) \in Nat /\ Rank(m, fresh) \in Nat
        /\ Rank(n, fresh) <= Rank(m, fresh)
    BY <1>3, <1>4, RankMonotone
  <2> QED BY <2>1, <1>1, <1>5
<1>7. n.seq \in Nat /\ m.seq \in Nat
  BY <1>3 DEF Stored
<1> QED BY <1>6, <1>7

LEMMA ReceiveOrdered ==
  ASSUME Shape, Kinds, NEW s \in Subscriptions, NEW size \in Sizes, Receive(s, size),
         NEW p \in FifoQueues, NEW e \in inFlight'[p], e \notin inFlight[p]
  PROVE  Ordered(p, e)
<1> DEFINE reg == sub[s].reg
           q == reg.queue
           taken == Taken(q, size)
           spent == {m \in taken : Spent(q, m)}
           handed == taken \ spent
           target == IF spent = {} THEN q ELSE redrive[q].queue
           moved == Kept(target, spent)
           E(m) == [receipt |-> nextId + Rank(m, handed),
                    stored |-> [m EXCEPT !.receives = @ + 1],
                    received |-> now, generation |-> 0]
<1>1. q \in Queues /\ p \in Queues
  BY OpenReg, RegistrationAssumption, KindAssumption, ZenonT(60) DEF Receive, Registration
<1>2. taken \subseteq visible[q] /\ taken \subseteq Stored /\ handed \subseteq taken
  <2> HIDE DEF q
  <2> QED BY <1>1, TakenFacts
<1>3. \A n \in moved : Spent(q, n)
  BY KeptSubset
<1>4. /\ inFlight' = [inFlight EXCEPT ![q] = @ \cup {E(m) : m \in handed}]
      /\ visible' = [r \in Queues |->
           (visible[r] \ (IF r = q THEN taken ELSE {}))
             \cup (IF r = target THEN moved ELSE {})]
  BY ZenonT(60) DEF Receive
<1> HIDE DEF handed, moved, target, taken, reg, q
<1>5. \A m \in handed : /\ E(m).stored.seq = m.seq
                        /\ E(m).stored.message = m.message
  BY <1>2 DEF Stored
<1> HIDE DEF E
<1>6. p = q /\ \E m \in handed : e = E(m)
  BY <1>1, <1>4 DEF Shape, TypeOK
<1>7. PICK m \in handed : e = E(m)
  BY <1>6
<1>8. m \in taken /\ m \in visible[q] /\ m \in Eligible(q)
  BY <1>2, <1>7 DEF taken, Taken
<1>9. m.message.group # None
  BY <1>1, <1>6, <1>8 DEF Kinds, KindsMatch
<1>10. m.message.group \notin {d.stored.message.group : d \in inFlight[q]}
  BY <1>6, <1>8, <1>9 DEF Eligible, BlockedGroups
<1>11. ASSUME NEW n \in visible'[q], n.message.group = m.message.group, ~Spent(q, n)
       PROVE  n.seq > m.seq
  <2>1. n \in visible[q] /\ n \notin taken
    BY <1>1, <1>3, <1>4, <1>11
  <2> QED BY <2>1, <1>1, <1>8, <1>11, LeftBehind DEF taken
<1> QED BY <1>5, <1>6, <1>7, <1>10, <1>11 DEF Ordered

\* Only a receive puts a new receipt in flight.
LEMMA OnlyReceiveHandsOut ==
  ASSUME Shape, [Next]_vars,
         \A s \in Subscriptions, size \in Sizes : ~Receive(s, size)
  PROVE  \A q \in Queues : \A e \in inFlight'[q] :
           \E d \in inFlight[q] : d.receipt = e.receipt
<1> DEFINE Known == \A q \in Queues : \A e \in inFlight'[q] :
                      \E d \in inFlight[q] : d.receipt = e.receipt
<1> SUFFICES Known
  OBVIOUS
<1>1. ASSUME \A q \in Queues : inFlight'[q] \subseteq inFlight[q] PROVE Known
  BY <1>1
<1>2. ASSUME NEW h \in handles, NEW v, ChangeVisibility(h, v) PROVE Known
  <2>1. PICK e \in EntriesOf(h) : ChangeVisibility(h, v)!(e)
    BY <1>2 DEF ChangeVisibility
  <2>2. h.queue \in Queues /\ e \in inFlight[h.queue] /\ e \in InFlight
    BY EntryShape
  <2>3. [e EXCEPT !.generation = @ + 1].receipt = e.receipt
    BY <2>2 DEF InFlight
  <2>4. \/ inFlight' = [inFlight EXCEPT ![h.queue] = @ \ {e}]
        \/ inFlight' = [inFlight EXCEPT ![h.queue] =
             (@ \ {e}) \cup {[e EXCEPT !.generation = @ + 1]}]
    BY <2>1
  <2>5. ASSUME NEW q \in Queues, NEW d \in inFlight'[q]
        PROVE  d \in inFlight[q] \/ (q = h.queue /\ d = [e EXCEPT !.generation = @ + 1])
    BY <2>2, <2>4 DEF Shape, TypeOK
  <2> QED BY <2>2, <2>3, <2>5
<1> HIDE DEF Known
<1>3. ASSUME NEW h \in handles, NEW v, SetVisibility(h, v) PROVE Known
  <2>1. CASE Refuses(h, v)
    BY <1>1, <1>3, <2>1 DEF SetVisibility
  <2>2. CASE ~Refuses(h, v)
    BY <1>2, <1>3, <2>2 DEF SetVisibility
  <2> QED BY <2>1, <2>2
<1>4. ASSUME NEW h \in handles, NEW ph, Delete(h, ph) PROVE Known
  <2>1. inFlight' = [inFlight EXCEPT ![h.queue] = @ \ EntriesOf(h)]
    BY <1>4 DEF Delete
  <2>2. \A q \in Queues : inFlight'[q] \subseteq inFlight[q]
    BY <2>1 DEF Shape, TypeOK
  <2> QED BY <1>1, <2>2
<1>5. CASE \/ \E s \in Subscriptions :
                (\E reg \in Registrations : Declare(s, reg)) \/ Open(s) \/ Close(s)
           \/ \E q \in Queues, m \in Message : Send(q, m)
           \/ \E t \in Topics, q \in Queues : SubscribeTopic(t, q)
           \/ \E t \in Topics, m \in Message : PublishTopic(t, m)
           \/ \E h \in handles : Release(h)
           \/ Tick
           \/ UNCHANGED vars
  <2>1. inFlight' = inFlight
    BY <1>5, ZenonT(60) DEF Declare, Open, Close, Send, SubscribeTopic, PublishTopic, Release,
                Tick, queueVars, vars
  <2> QED BY <1>1, <2>1
<1>6. ASSUME NEW h \in handles,
             \/ Ack(h)
             \/ \E requeue \in BOOLEAN : Nack(h, requeue)
             \/ \E delay \in Delays, lag \in 0..MaxLag : NackAfter(h, delay, lag)
      PROVE  Known
  BY <1>3, <1>4, <1>6 DEF Ack, Nack, NackAfter
<1>7. ASSUME NEW h \in handles, NEW lag \in 0..MaxLag, DropUnsettled(h, lag) PROVE Known
  <2>1. \/ ChangeVisibility(h, RemainingVisibility(h, lag))
        \/ inFlight' = inFlight
    BY <1>7 DEF DropUnsettled
  <2> QED BY <1>1, <1>2, <2>1
<1>8. ASSUME NEW t \in timers, Lapse(t) PROVE Known
  <2>1. \/ inFlight' = inFlight
        \/ \E e \in inFlight[t.queue] : inFlight' = [inFlight EXCEPT ![t.queue] = @ \ {e}]
    BY <1>8 DEF Lapse
  <2>2. \A q \in Queues : inFlight'[q] \subseteq inFlight[q]
    BY <2>1 DEF Shape, TypeOK
  <2> QED BY <1>1, <2>2
<1>9. CASE \E h \in handles :
             \/ Ack(h)
             \/ \E requeue \in BOOLEAN : Nack(h, requeue)
             \/ \E delay \in Delays, lag \in 0..MaxLag : NackAfter(h, delay, lag)
             \/ \E lag \in 0..MaxLag : DropUnsettled(h, lag)
  BY <1>6, <1>7, <1>9
<1>10. CASE \E t \in timers : Lapse(t)
  BY <1>8, <1>10
<1> QED BY <1>5, <1>9, <1>10, ZenonT(60) DEF Next

\* The messages of a group are handed out in their order, and none while an
\* earlier receive has one of the group in flight.
THEOREM AccountGroupOrder == Spec => GroupOrder
<1>1. Shape /\ Kinds /\ [Next]_vars => InGroupOrder
  <2> SUFFICES ASSUME Shape, Kinds, [Next]_vars, NEW q \in FifoQueues,
                      NEW e \in inFlight'[q], \A d \in inFlight[q] : d.receipt # e.receipt
               PROVE  Ordered(q, e)
    BY DEF InGroupOrder
  <2>1. e \notin inFlight[q] /\ q \in Queues
    BY KindAssumption
  <2>2. PICK s \in Subscriptions, size \in Sizes : Receive(s, size)
    BY <2>1, OnlyReceiveHandsOut
  <2> QED BY <2>1, <2>2, ReceiveOrdered
<1>2. InGroupOrder => [\A q \in FifoQueues : \A e \in inFlight'[q] :
       (\A d \in inFlight[q] : d.receipt # e.receipt) =>
         LET group == e.stored.message.group
         IN  /\ \A d \in inFlight[q] : d.stored.message.group # group
             /\ \A m \in visible'[q] :
                  m.message.group = group /\ ~Spent(q, m)
                    => m.seq > e.stored.seq]_vars
  BY DEF InGroupOrder, Ordered
<1>3. Spec => [](Shape /\ Kinds)
  <2>1. Init => Kinds
    BY DEF Init, Kinds, KindsMatch, RedriveKinds
  <2> QED BY <2>1, ShapeInit, ShapeStep, KindsStep, PTL DEF Spec
<1> QED BY <1>1, <1>2, <1>3, PTL DEF Spec, GroupOrder

\* What may take the message id off the account, on the queue q.
Accounted(q, id) ==
  \/ subscriptions'[q] = 0
  \/ \E m \in visible[q] :
       /\ m.seq = id /\ Spent(q, m)
       /\ subscriptions[redrive[q].queue] = 0
  \/ \E e \in inFlight[q], h \in handles :
       /\ e.stored.seq = id /\ e.receipt = h.receipt
       /\ \/ [h EXCEPT !.phase = "acked"] \in handles'
          \/ /\ [h EXCEPT !.phase = "discarded"] \in handles'
             /\ ~SpentDelivery(h)

NoLoss == \A q \in Queues : \A id \in SeqsOn(q) : id \notin AllSeqs' => Accounted(q, id)

LEMMA StillThere ==
  ASSUME NEW p \in Queues
  PROVE  /\ \A m \in visible'[p] : m.seq \in AllSeqs'
         /\ \A e \in inFlight'[p] : e.stored.seq \in AllSeqs'
BY DEF AllSeqs, SeqsOn

\* What is visible and what is in flight are accounted for apart.
LEMMA LossByPlace ==
  ASSUME \A q \in Queues : \A m \in visible[q] :
           m.seq \in AllSeqs' \/ Accounted(q, m.seq),
         \A q \in Queues : \A e \in inFlight[q] :
           e.stored.seq \in AllSeqs' \/ Accounted(q, e.stored.seq)
  PROVE  NoLoss
BY DEF NoLoss, SeqsOn

\* Nothing is lost by a step that only adds.
LEMMA NothingLeaves ==
  ASSUME \A q \in Queues : visible[q] \subseteq visible'[q] /\ inFlight[q] \subseteq inFlight'[q]
  PROVE  NoLoss
<1>1. \A q \in Queues : \A m \in visible[q] : m.seq \in AllSeqs'
  BY StillThere
<1>2. \A q \in Queues : \A e \in inFlight[q] : e.stored.seq \in AllSeqs'
  BY StillThere
<1> QED BY <1>1, <1>2, LossByPlace

\* A message that leaves flight stays on its queue, or nobody reads the queue.
LEMMA RequeueKeeps ==
  ASSUME Shape, NEW q \in Queues, NEW e \in inFlight[q], Requeue(q, e.stored),
         inFlight' = [inFlight EXCEPT ![q] = @ \ {e}], subscriptions' = subscriptions
  PROVE  NoLoss
<1>1. /\ \A p \in Queues : visible[p] \subseteq visible'[p]
      /\ subscriptions[q] # 0 => e.stored \in visible'[q]
  BY DEF Requeue, Kept, Shape, TypeOK
<1>2. \A p \in Queues : \A d \in inFlight[p] : d \in inFlight'[p] \/ (p = q /\ d = e)
  BY DEF Shape, TypeOK
<1>3. \A p \in Queues : \A m \in visible[p] : m.seq \in AllSeqs'
  BY <1>1, StillThere
<1>4. ASSUME NEW p \in Queues, NEW d \in inFlight[p]
      PROVE  d.stored.seq \in AllSeqs' \/ Accounted(p, d.stored.seq)
  <2>1. CASE d \in inFlight'[p]
    BY <2>1, StillThere
  <2>2. CASE p = q /\ d = e /\ subscriptions[q] # 0
    BY <2>2, <1>1, StillThere
  <2>3. CASE p = q /\ subscriptions[q] = 0
    BY <2>3 DEF Accounted
  <2> QED BY <1>2, <2>1, <2>2, <2>3
<1> QED BY <1>3, <1>4, LossByPlace

LEMMA ChangeVisibilityKeeps ==
  ASSUME Shape, NEW h \in handles, NEW v, ChangeVisibility(h, v),
         subscriptions' = subscriptions
  PROVE  NoLoss
<1>1. PICK e \in EntriesOf(h) : ChangeVisibility(h, v)!(e)
  BY DEF ChangeVisibility
<1>2. h.queue \in Queues /\ e \in inFlight[h.queue] /\ e \in InFlight
  BY EntryShape
<1> DEFINE d == [e EXCEPT !.generation = @ + 1]
<1>3. CASE /\ inFlight' = [inFlight EXCEPT ![h.queue] = @ \ {e}]
           /\ Requeue(h.queue, e.stored)
  BY <1>2, <1>3, RequeueKeeps
<1>4. CASE inFlight' = [inFlight EXCEPT ![h.queue] = (@ \ {e}) \cup {d}] /\ visible' = visible
  <2>1. d.stored = e.stored
    BY <1>2 DEF InFlight
  <2> HIDE DEF d
  <2>2. \A p \in Queues : \A f \in inFlight[p] :
          f \in inFlight'[p] \/ (f = e /\ d \in inFlight'[h.queue])
    BY <1>2, <1>4 DEF Shape, TypeOK
  <2>3. \A p \in Queues : \A f \in inFlight[p] : f.stored.seq \in AllSeqs'
    BY <1>2, <2>1, <2>2, StillThere
  <2>4. \A p \in Queues : \A m \in visible[p] : m.seq \in AllSeqs'
    BY <1>4, StillThere
  <2> QED BY <2>3, <2>4, LossByPlace
<1> QED BY <1>1, <1>3, <1>4

\* A deletion takes the message of its own delivery, and no other.
LEMMA DeleteKeeps ==
  ASSUME Shape, NEW h \in handles, NEW ph, Delete(h, ph),
         ph = "acked" \/ (ph = "discarded" /\ ~SpentDelivery(h))
  PROVE  NoLoss
<1>1. /\ inFlight' = [inFlight EXCEPT ![h.queue] = @ \ EntriesOf(h)]
      /\ [h EXCEPT !.phase = ph] \in handles' /\ visible' = visible
  BY DEF Delete, Become
<1>2. \A p \in Queues : \A m \in visible[p] : m.seq \in AllSeqs'
  BY <1>1, StillThere
<1>3. ASSUME NEW p \in Queues, NEW d \in inFlight[p]
      PROVE  d.stored.seq \in AllSeqs' \/ Accounted(p, d.stored.seq)
  <2>1. CASE d \in inFlight'[p]
    BY <2>1, StillThere
  <2>2. CASE d \notin inFlight'[p]
    <3>1. d.receipt = h.receipt
      BY <1>1, <2>2 DEF Shape, TypeOK, EntriesOf
    <3> QED BY <1>1, <3>1 DEF Accounted
  <2> QED BY <2>1, <2>2
<1> QED BY <1>2, <1>3, LossByPlace

\* A receive puts each message it takes in flight, or moves it, or drops it for
\* want of a subscription of the dead-letter queue.
LEMMA ReceiveKeeps ==
  ASSUME Shape, NEW s \in Subscriptions, NEW size \in Sizes, Receive(s, size)
  PROVE  NoLoss
<1> DEFINE reg == sub[s].reg
           q == reg.queue
           taken == Taken(q, size)
           spent == {m \in taken : Spent(q, m)}
           handed == taken \ spent
           target == IF spent = {} THEN q ELSE redrive[q].queue
           moved == Kept(target, spent)
           E(m) == [receipt |-> nextId + Rank(m, handed),
                    stored |-> [m EXCEPT !.receives = @ + 1],
                    received |-> now, generation |-> 0]
<1>1. q \in Queues /\ target \in Queues
  <2>1. q \in Queues
    BY OpenReg, RegistrationAssumption, ZenonT(60) DEF Receive, Registration
  <2> QED BY <2>1 DEF Spent, Shape, TypeOK, Policy
<1>2. taken \subseteq visible[q] /\ taken \subseteq Stored
  <2> HIDE DEF q
  <2> QED BY <1>1, TakenFacts
<1>3. /\ \A m \in taken : m \in handed \/ m \in spent
      /\ \A m \in spent : m \in visible[q] /\ Spent(q, m) /\ target = redrive[q].queue
      /\ moved = IF subscriptions[target] = 0 THEN {} ELSE spent
      /\ handed \subseteq taken
  BY <1>2 DEF Kept
<1>4. /\ inFlight' = [inFlight EXCEPT ![q] = @ \cup {E(m) : m \in handed}]
      /\ visible' = [r \in Queues |->
           (visible[r] \ (IF r = q THEN taken ELSE {}))
             \cup (IF r = target THEN moved ELSE {})]
  BY ZenonT(60) DEF Receive
<1> HIDE DEF handed, moved, spent, target, taken, reg, q
<1>5. \A m \in handed : E(m).stored.seq = m.seq
  BY <1>2, <1>3 DEF Stored
<1> HIDE DEF E
<1>6. /\ \A p \in Queues : inFlight[p] \subseteq inFlight'[p]
      /\ \A m \in handed : E(m) \in inFlight'[q]
  BY <1>1, <1>4 DEF Shape, TypeOK
<1>7. \A p \in Queues : \A e \in inFlight[p] : e.stored.seq \in AllSeqs'
  BY <1>6, StillThere
<1>8. ASSUME NEW p \in Queues, NEW m \in visible[p]
      PROVE  m.seq \in AllSeqs' \/ Accounted(p, m.seq)
  <2>1. CASE ~(p = q /\ m \in taken)
    <3>1. m \in visible'[p]
      BY <2>1, <1>4
    <3> QED BY <3>1, StillThere
  <2>2. CASE p = q /\ m \in handed
    <3>1. E(m) \in inFlight'[q] /\ E(m).stored.seq = m.seq
      BY <2>2, <1>5, <1>6
    <3> QED BY <1>1, <3>1, StillThere
  <2>3. CASE p = q /\ m \in spent
    <3>1. CASE subscriptions[target] = 0
      BY <2>3, <3>1, <1>3 DEF Accounted
    <3>2. CASE subscriptions[target] # 0
      <4>1. m \in visible'[target]
        BY <2>3, <3>2, <1>1, <1>3, <1>4
      <4> QED BY <4>1, <1>1, StillThere
    <3> QED BY <3>1, <3>2
  <2> QED BY <1>3, <2>1, <2>2, <2>3
<1> QED BY <1>7, <1>8, LossByPlace

LEMMA CloseKeeps ==
  ASSUME Shape, NEW s \in Subscriptions, Close(s)
  PROVE  NoLoss
<1> DEFINE q    == sub[s].reg.queue
           left == Minus(subscriptions[q], 1)
<1>1. q \in Queues
  BY OpenReg, RegistrationAssumption, ZenonT(60) DEF Close, Registration
<1>2. /\ subscriptions' = [subscriptions EXCEPT ![q] = left]
      /\ visible' = [visible EXCEPT ![q] = @ \ (IF left = 0 THEN visible[q] ELSE {})]
      /\ inFlight' = inFlight
  BY DEF Close
<1> HIDE DEF q, left
<1>3. \A p \in Queues : \A m \in visible[p] :
        m \in visible'[p] \/ subscriptions'[p] = 0
  BY <1>1, <1>2 DEF Shape, TypeOK
<1>4. \A p \in Queues : \A m \in visible[p] : m.seq \in AllSeqs' \/ Accounted(p, m.seq)
  BY <1>3, StillThere DEF Accounted
<1>5. \A p \in Queues : \A e \in inFlight[p] : e.stored.seq \in AllSeqs'
  BY <1>2, StillThere
<1> QED BY <1>4, <1>5, LossByPlace

LEMMA NoLossStep == Shape /\ Safe /\ [Next]_vars => NoLoss
<1> SUFFICES ASSUME Shape, Safe, [Next]_vars PROVE NoLoss
  OBVIOUS
<1>1. CASE \/ \E s \in Subscriptions :
                (\E reg \in Registrations : Declare(s, reg)) \/ Open(s)
           \/ \E t \in Topics, q \in Queues : SubscribeTopic(t, q)
           \/ \E h \in handles : Release(h)
           \/ Tick
           \/ UNCHANGED vars
  <2>1. UNCHANGED <<visible, inFlight>>
    BY <1>1 DEF Declare, Open, SubscribeTopic, Release, Tick, queueVars, vars
  <2> QED BY <2>1, NothingLeaves
<1>2. ASSUME NEW s \in Subscriptions, Close(s) PROVE NoLoss
  BY <1>2, CloseKeeps
<1>3. ASSUME NEW s \in Subscriptions, NEW size \in Sizes, Receive(s, size)
      PROVE  NoLoss
  BY <1>3, ReceiveKeeps
<1>4. CASE \/ \E q \in Queues, m \in Message : Send(q, m)
           \/ \E t \in Topics, m \in Message : PublishTopic(t, m)
  <2>1. inFlight' = inFlight /\ \E targets, m : Deliver(targets, m)
    BY <1>4 DEF Send, PublishTopic
  <2>2. \A q \in Queues : visible[q] \subseteq visible'[q]
    BY <2>1 DEF Deliver
  <2> QED BY <2>1, <2>2, NothingLeaves
<1>5. ASSUME NEW h \in handles, NEW v, SetVisibility(h, v), SettlementFrame PROVE NoLoss
  <2>1. CASE Refuses(h, v)
    BY <1>5, <2>1, NothingLeaves DEF SetVisibility
  <2>2. CASE ~Refuses(h, v)
    BY <1>5, <2>2, ChangeVisibilityKeeps DEF SetVisibility, SettlementFrame
  <2> QED BY <2>1, <2>2
<1>6. ASSUME NEW h \in handles, Ack(h) PROVE NoLoss
  BY <1>6, DeleteKeeps DEF Ack
<1>7. ASSUME NEW h \in handles, NEW requeue \in BOOLEAN, Nack(h, requeue)
      PROVE  NoLoss
  <2>1. CASE requeue \/ SpentDelivery(h)
    BY <1>5, <1>7, <2>1 DEF Nack
  <2>2. CASE ~(requeue \/ SpentDelivery(h))
    BY <1>7, <2>2, DeleteKeeps DEF Nack
  <2> QED BY <2>1, <2>2
<1>8. ASSUME NEW h \in handles, NEW delay \in Delays, NEW lag \in 0..MaxLag,
             NackAfter(h, delay, lag)
      PROVE  NoLoss
  BY <1>5, <1>8 DEF NackAfter
<1>9. ASSUME NEW h \in handles, NEW lag \in 0..MaxLag, DropUnsettled(h, lag)
      PROVE  NoLoss
  <2>1. ~Refuses(h, RemainingVisibility(h, lag))
    BY <1>9, DropNotRefused DEF DropUnsettled
  <2>2. /\ ChangeVisibility(h, RemainingVisibility(h, lag))
        /\ subscriptions' = subscriptions
    BY <1>9, <2>1 DEF DropUnsettled, SettlementFrame
  <2> QED BY <2>2, ChangeVisibilityKeeps
<1>10. ASSUME NEW t \in timers, Lapse(t) PROVE NoLoss
  <2> DEFINE lapsed == {e \in inFlight[t.queue] :
                          e.receipt = t.receipt /\ e.generation = t.generation}
  <2>1. t.queue \in Queues /\ subscriptions' = subscriptions
    BY <1>10 DEF Lapse, SettlementFrame, Shape, TypeOK, Timer
  <2>2. CASE lapsed = {}
    BY <1>10, <2>2, NothingLeaves DEF Lapse
  <2>3. CASE lapsed # {}
    <3>1. PICK e \in inFlight[t.queue] :
            /\ inFlight' = [inFlight EXCEPT ![t.queue] = @ \ {e}]
            /\ Requeue(t.queue, e.stored)
      BY <1>10, <2>3 DEF Lapse
    <3> QED BY <2>1, <3>1, RequeueKeeps
  <2> QED BY <2>2, <2>3
<1> QED BY <1>1, <1>2, <1>3, <1>4, <1>6, <1>7, <1>8, <1>9, <1>10 DEF Next

\* A message leaves the account only by an ack, by the discard of a delivery
\* whose policy has not run out, or for want of a subscription to read it.
THEOREM AccountNoSilentLoss == Spec => NoSilentLoss
<1>1. NoLoss => [\A q \in Queues : \A id \in SeqsOn(q) :
       id \notin AllSeqs' =>
         \/ subscriptions'[q] = 0
         \/ \E m \in visible[q] :
              /\ m.seq = id /\ Spent(q, m)
              /\ subscriptions[redrive[q].queue] = 0
         \/ \E e \in inFlight[q], h \in handles :
              /\ e.stored.seq = id /\ e.receipt = h.receipt
              /\ \/ [h EXCEPT !.phase = "acked"] \in handles'
                 \/ /\ [h EXCEPT !.phase = "discarded"] \in handles'
                    /\ ~SpentDelivery(h)]_vars
  BY DEF NoLoss, Accounted
<1> QED BY <1>1, SafeAlways, NoLossStep, PTL DEF Spec, NoSilentLoss

-----------------------------------------------------------------------------
(* The account implements MessageLife. *)

\* A step of the account is a step of a message's life, or none.
Lives == Life!Next \/ UNCHANGED Life!vars

\* What the refinement rests on: one place for each message, and none on a queue
\* nobody reads.
Ready == Shape /\ Safe /\ UnattendedIsEmpty /\ nextId >= 1

LEMMA TokenFields ==
  ASSUME NEW q, NEW m
  PROVE  /\ Token(q, m).id = m.seq /\ Token(q, m).queue = q /\ Token(q, m).receives = m.receives
         /\ \A p : [Token(q, m) EXCEPT !.queue = p] = Token(p, m)
BY DEF Token

LEMMA TokenCounted ==
  ASSUME NEW q, NEW m \in Stored
  PROVE  [Token(q, m) EXCEPT !.receives = @ + 1] = Token(q, [m EXCEPT !.receives = @ + 1])
BY DEF Token, Stored

LEMMA InWaiting ==
  /\ \A t : t \in Waiting <=> \E q \in Queues : \E m \in visible[q] : t = Token(q, m)
  /\ \A t : t \in Waiting' <=> \E q \in Queues : \E m \in visible'[q] : t = Token(q, m)
BY DEF Waiting, Token

LEMMA InOut ==
  /\ \A t : t \in Out <=> \E q \in Queues : \E e \in inFlight[q] : t = Token(q, e.stored)
  /\ \A t : t \in Out' <=> \E q \in Queues : \E e \in inFlight'[q] : t = Token(q, e.stored)
BY DEF Out, Token

\* One token stands for one message.
LEMMA TokensDiffer ==
  ASSUME OnePlace, NEW p \in Queues, NEW q \in Queues
  PROVE  /\ \A m \in visible[p], n \in visible[q] : Token(p, m) = Token(q, n) => p = q /\ m = n
         /\ \A d \in inFlight[p], e \in inFlight[q] :
              Token(p, d.stored) = Token(q, e.stored) => p = q /\ d = e
BY TokenFields DEF OnePlace

\* The messages stay where they are.
LEMMA SameWaiting == ASSUME visible' = visible PROVE Waiting' = Waiting
BY DEF Waiting, Token

LEMMA SameOut == ASSUME inFlight' = inFlight PROVE Out' = Out
BY DEF Out, Token

LEMMA RangesNest ==
  ASSUME NEW a \in Nat, NEW b \in Nat, a <= b
  PROVE  1..(a - 1) \subseteq 1..(b - 1)
OBVIOUS

\* An id once given stays given.
LEMMA GivenGrows ==
  ASSUME nextId \in Nat, nextId' \in Nat, nextId <= nextId'
  PROVE  Given \subseteq Given'
<1>1. Given = 1..(nextId - 1) /\ Given' = 1..(nextId' - 1)
  BY DEF Given
<1> QED BY <1>1, RangesNest

LEMMA SameGiven == ASSUME nextId' = nextId PROVE Given' = Given
BY DEF Given

LEMMA SameAttended == ASSUME subscriptions' = subscriptions PROVE Attended' = Attended
BY DEF Attended

LEMMA StillLives ==
  ASSUME UNCHANGED <<visible, inFlight, nextId, subscriptions>>
  PROVE  Lives
BY SameWaiting, SameOut, SameGiven, SameAttended DEF Lives, Life!vars

\* An entry leaves flight.
LEMMA OneOut ==
  ASSUME Shape, OnePlace, NEW q \in Queues, NEW e \in inFlight[q],
         inFlight' = [inFlight EXCEPT ![q] = @ \ {e}]
  PROVE  Token(q, e.stored) \in Out /\ Out' = Out \ {Token(q, e.stored)}
<1> DEFINE gone == Token(q, e.stored)
<1>1. gone \in Out
  BY InOut
<1>2. \A p \in Queues : \A d : d \in inFlight'[p] <=> d \in inFlight[p] /\ ~(p = q /\ d = e)
  BY DEF Shape, TypeOK
<1>3. ASSUME NEW t \in Out' PROVE t \in Out /\ t # gone
  <2>1. PICK p \in Queues : \E d \in inFlight'[p] : t = Token(p, d.stored)
    BY InOut
  <2>2. PICK d \in inFlight'[p] : t = Token(p, d.stored)
    BY <2>1
  <2>3. d \in inFlight[p] /\ ~(p = q /\ d = e)
    BY <1>2, <2>2
  <2> QED BY <2>2, <2>3, InOut, TokensDiffer
<1>4. ASSUME NEW t \in Out, t # gone PROVE t \in Out'
  <2>1. PICK p \in Queues : \E d \in inFlight[p] : t = Token(p, d.stored)
    BY InOut
  <2>2. PICK d \in inFlight[p] : t = Token(p, d.stored)
    BY <2>1
  <2>3. d \in inFlight'[p]
    BY <1>2, <1>4, <2>2
  <2> QED BY <2>2, <2>3, InOut
<1> QED BY <1>1, <1>3, <1>4

\* A message that comes back waits on its queue, if the queue is attended.
LEMMA RequeueWaits ==
  ASSUME Shape, NEW q \in Queues, NEW m, Requeue(q, m)
  PROVE  Waiting' = Waiting \cup {t \in {Token(q, m)} : t.queue \in Attended}
<1>1. \A p \in Queues : visible'[p] = IF p = q THEN visible[p] \cup Kept(q, {m}) ELSE visible[p]
  BY DEF Requeue, Shape, TypeOK
<1>2. Kept(q, {m}) = IF q \in Attended THEN {m} ELSE {}
  BY DEF Kept, Attended
<1>3. Token(q, m).queue = q
  BY TokenFields
<1>4. ASSUME NEW t \in Waiting' PROVE t \in Waiting \/ (t = Token(q, m) /\ q \in Attended)
  <2>1. PICK p \in Queues : \E n \in visible'[p] : t = Token(p, n)
    BY InWaiting
  <2>2. PICK n \in visible'[p] : t = Token(p, n)
    BY <2>1
  <2>3. n \in visible[p] \/ (p = q /\ n = m /\ q \in Attended)
    BY <1>1, <1>2, <2>2
  <2> QED BY <2>2, <2>3, InWaiting
<1>5. ASSUME NEW t \in Waiting PROVE t \in Waiting'
  <2>1. PICK p \in Queues : \E n \in visible[p] : t = Token(p, n)
    BY InWaiting
  <2>2. PICK n \in visible[p] : t = Token(p, n)
    BY <2>1
  <2>3. n \in visible'[p]
    BY <1>1, <2>2
  <2> QED BY <2>2, <2>3, InWaiting
<1>6. q \in Attended => Token(q, m) \in Waiting'
  <2>1. q \in Attended => m \in visible'[q]
    BY <1>1, <1>2
  <2> QED BY <2>1, InWaiting
<1> QED BY <1>3, <1>4, <1>5, <1>6

LEMMA ReturnLives ==
  ASSUME Ready, NEW q \in Queues, NEW e \in inFlight[q], Requeue(q, e.stored),
         inFlight' = [inFlight EXCEPT ![q] = @ \ {e}], UNCHANGED <<nextId, subscriptions>>
  PROVE  Lives
<1> DEFINE t == Token(q, e.stored)
<1>1. t \in Out /\ Out' = Out \ {t}
  BY OneOut DEF Ready, Safe
<1>2. Waiting' = Waiting \cup {m \in {t} : m.queue \in Attended}
  BY RequeueWaits DEF Ready
<1>3. Given' = Given /\ Attended' = Attended
  BY SameGiven, SameAttended
<1> HIDE DEF t
<1>4. Life!Return(t)
  BY <1>1, <1>2, <1>3 DEF Life!Return
<1> QED BY <1>1, <1>4 DEF Lives, Life!Next

\* The holder's message is deleted.
LEMMA DeleteLives ==
  ASSUME Ready, NEW h \in handles, h.phase = "held", NEW ph, Delete(h, ph), SettlementFrame
  PROVE  Lives
<1>1. PICK e \in inFlight[h.queue] : EntriesOf(h) = {e}
  BY HeldEntry DEF Ready
<1>2. h.queue \in Queues
  BY EntryShape DEF Ready
<1>3. /\ inFlight' = [inFlight EXCEPT ![h.queue] = @ \ {e}]
      /\ UNCHANGED <<visible, nextId, subscriptions>>
  BY <1>1 DEF Delete, SettlementFrame
<1> DEFINE t == Token(h.queue, e.stored)
<1>4. t \in Out /\ Out' = Out \ {t}
  BY <1>2, <1>3, OneOut DEF Ready, Safe
<1>5. Waiting' = Waiting /\ Given' = Given /\ Attended' = Attended
  BY <1>3, SameWaiting, SameGiven, SameAttended
<1> HIDE DEF t
<1>6. Life!Delete(t)
  BY <1>4, <1>5 DEF Life!Delete
<1> QED BY <1>4, <1>6 DEF Lives, Life!Next

\* A change of visibility returns the message, or leaves it with its receiver
\* under a new generation.
LEMMA ChangeVisibilityLives ==
  ASSUME Ready, NEW h \in handles, NEW v, ChangeVisibility(h, v),
         UNCHANGED <<nextId, subscriptions>>
  PROVE  Lives
<1>1. PICK e \in EntriesOf(h) : ChangeVisibility(h, v)!(e)
  BY DEF ChangeVisibility
<1>2. h.queue \in Queues /\ e \in inFlight[h.queue] /\ e \in InFlight
  BY EntryShape DEF Ready
<1> DEFINE d == [e EXCEPT !.generation = @ + 1]
<1>3. CASE /\ inFlight' = [inFlight EXCEPT ![h.queue] = @ \ {e}]
           /\ Requeue(h.queue, e.stored)
  BY <1>2, <1>3, ReturnLives
<1>4. CASE inFlight' = [inFlight EXCEPT ![h.queue] = (@ \ {e}) \cup {d}] /\ visible' = visible
  <2>1. d.stored = e.stored
    BY <1>2 DEF InFlight
  <2> HIDE DEF d
  <2>2. \A p \in Queues : inFlight'[p] = IF p = h.queue THEN (inFlight[p] \ {e}) \cup {d} ELSE inFlight[p]
    BY <1>2, <1>4 DEF Ready, Shape, TypeOK
  <2>3. \A p \in Queues : \A f \in inFlight'[p] : \E g \in inFlight[p] : g.stored = f.stored
    BY <1>2, <2>1, <2>2
  <2>4. \A p \in Queues : \A f \in inFlight[p] : \E g \in inFlight'[p] : g.stored = f.stored
    BY <1>2, <2>1, <2>2
  <2>5. \A t : t \in Out' <=> t \in Out
    BY <2>3, <2>4, InOut
  <2>6. Out' = Out
    BY <2>5 DEF Out
  <2> QED BY <1>4, <2>6, SameWaiting, SameGiven, SameAttended DEF Lives, Life!vars
<1> QED BY <1>1, <1>3, <1>4


LEMMA OpenLives ==
  ASSUME Ready, NEW s \in Subscriptions, Open(s)
  PROVE  Lives
<1> DEFINE q == sub[s].reg.queue
<1>1. q \in Queues
  BY OpenReg, RegistrationAssumption, ZenonT(60) DEF Open, Registration, Ready
<1>2. subscriptions' = [subscriptions EXCEPT ![q] = @ + 1] /\ UNCHANGED <<visible, inFlight, nextId>>
  BY DEF Open
<1> HIDE DEF q
<1>3. \A p \in Queues : subscriptions'[p] # 0 <=> subscriptions[p] # 0 \/ p = q
  BY <1>1, <1>2 DEF Ready, Shape, TypeOK
<1>4. Attended' = Attended \cup {q}
  BY <1>1, <1>3 DEF Attended
<1>5. Life!Attend(q)
  BY <1>2, <1>4, SameWaiting, SameOut, SameGiven DEF Life!Attend
<1> QED BY <1>1, <1>5 DEF Lives, Life!Next

\* The last close abandons the queue; one that is not the last changes nothing.
LEMMA CloseLives ==
  ASSUME Ready, NEW s \in Subscriptions, Close(s)
  PROVE  Lives
<1> DEFINE q    == sub[s].reg.queue
           left == Minus(subscriptions[q], 1)
<1>1. q \in Queues
  BY OpenReg, RegistrationAssumption, ZenonT(60) DEF Close, Registration, Ready
<1>2. /\ subscriptions' = [subscriptions EXCEPT ![q] = left]
      /\ visible' = [visible EXCEPT ![q] = @ \ (IF left = 0 THEN visible[q] ELSE {})]
      /\ inFlight' = inFlight /\ nextId' = nextId
  BY DEF Close
<1>3. left # 0 => subscriptions[q] # 0
  BY <1>1 DEF Minus, Ready, Shape, TypeOK
<1> HIDE DEF q, left
<1>4. \A p \in Queues : /\ subscriptions'[p] = IF p = q THEN left ELSE subscriptions[p]
                        /\ visible'[p] = IF p = q /\ left = 0 THEN {} ELSE visible[p]
  BY <1>1, <1>2 DEF Ready, Shape, TypeOK
<1>5. Out' = Out /\ Given' = Given
  BY <1>2, SameOut, SameGiven
<1>6. CASE left = 0
  <2>1. Attended' = Attended \ {q}
    BY <1>1, <1>4, <1>6 DEF Attended
  <2>2. \A t : t \in Waiting' <=> t \in Waiting /\ t.queue # q
    <3>1. ASSUME NEW t \in Waiting' PROVE t \in Waiting /\ t.queue # q
      <4>1. PICK p \in Queues : \E m \in visible'[p] : t = Token(p, m)
        BY InWaiting
      <4>2. PICK m \in visible'[p] : t = Token(p, m)
        BY <4>1
      <4>3. p # q /\ m \in visible[p]
        BY <1>4, <1>6, <4>2
      <4> QED BY <4>2, <4>3, InWaiting, TokenFields
    <3>2. ASSUME NEW t \in Waiting, t.queue # q PROVE t \in Waiting'
      <4>1. PICK p \in Queues : \E m \in visible[p] : t = Token(p, m)
        BY InWaiting
      <4>2. PICK m \in visible[p] : t = Token(p, m)
        BY <4>1
      <4>3. m \in visible'[p]
        BY <1>4, <3>2, <4>2, TokenFields
      <4> QED BY <4>2, <4>3, InWaiting
    <3> QED BY <3>1, <3>2
  <2>3. Waiting' = {t \in Waiting : t.queue # q}
    BY <2>2 DEF Waiting
  <2>4. Life!Abandon(q)
    BY <1>5, <2>1, <2>3 DEF Life!Abandon
  <2> QED BY <1>1, <2>4 DEF Lives, Life!Next
<1>7. CASE left # 0
  <2>1. Attended' = Attended
    BY <1>3, <1>4, <1>7 DEF Attended
  <2>2. visible' = visible
    BY <1>2, <1>7 DEF Ready, Shape, TypeOK
  <2> QED BY <1>5, <2>1, <2>2, SameWaiting DEF Lives, Life!vars
<1> QED BY <1>6, <1>7

\* The ids a delivery gives out are those of its copies, each for the queue of
\* one position.
LEMMA SeqOfOnto ==
  ASSUME Shape, NEW targets \in Seq(Queues), NEW m \in Message
  PROVE  \A id \in nextId..(nextId + Cardinality(Taking(targets, m)) - 1) :
           \E i \in Taking(targets, m) : SeqOf(targets, m, i) = id
<1> DEFINE taking == Taking(targets, m)
           n == Cardinality(taking)
           ids == nextId..(nextId + n - 1)
           f == [i \in taking |-> SeqOf(targets, m, i)]
<1>1. IsFiniteSet(taking) /\ n \in Nat /\ nextId \in Nat
  BY TakingFacts, FS_CardinalityType DEF Shape, TypeOK
<1>2. /\ \A i \in taking : /\ SeqOf(targets, m, i) \in Nat
                           /\ nextId <= SeqOf(targets, m, i)
                           /\ SeqOf(targets, m, i) < nextId + n
      /\ \A i, j \in taking : SeqOf(targets, m, i) = SeqOf(targets, m, j) => i = j
  BY SeqOfFacts
<1> HIDE DEF taking, n
<1>3. \A i \in taking : SeqOf(targets, m, i) \in ids
  BY <1>1, <1>2
<1>4. IsFiniteSet(ids) /\ Cardinality(ids) = n
  BY <1>1, FS_Interval
<1> HIDE DEF ids
<1>5. f \in Injection(taking, ids)
  BY <1>2, <1>3 DEF Injection, IsInjective
<1>6. f \in Surjection(taking, ids)
  BY <1>1, <1>4, <1>5, FS_Injection DEF n
<1>7. \A id \in ids : \E i \in taking : SeqOf(targets, m, i) = id
  BY <1>6 DEF Surjection
<1> QED BY <1>7 DEF ids, n, taking

LEMMA DeliverLives ==
  ASSUME Ready, NEW targets \in Seq(Queues), NEW m \in Message, Deliver(targets, m),
         UNCHANGED <<inFlight, subscriptions>>
  PROVE  Lives
<1> DEFINE taking == Taking(targets, m)
           n == Cardinality(taking)
           ids == nextId..(nextId + n - 1)
           IdOf(i) == SeqOf(targets, m, i)
           for == [id \in ids |-> targets[CHOOSE i \in taking : IdOf(i) = id]]
           new == {[id |-> i, queue |-> for[i], receives |-> 0] : i \in {j \in ids : for[j] \in Attended}}
<1>1. nextId \in Nat /\ nextId >= 1 /\ n \in Nat /\ taking \subseteq DOMAIN targets
  BY TakingFacts, FS_CardinalityType DEF Ready, Shape, TypeOK
<1>2. /\ nextId' = nextId + n
      /\ visible' = [q \in Queues |-> visible[q] \cup Kept(q, Copies(targets, m, q))]
  BY DEF Deliver
<1>3. /\ \A i \in taking : IdOf(i) \in ids
      /\ \A i, j \in taking : IdOf(i) = IdOf(j) => i = j
      /\ \A id \in ids : \E i \in taking : IdOf(i) = id
  <2>1. /\ \A i \in taking : /\ IdOf(i) \in Nat /\ nextId <= IdOf(i)
                             /\ IdOf(i) < nextId + n
        /\ \A i, j \in taking : IdOf(i) = IdOf(j) => i = j
    BY SeqOfFacts DEF Ready
  <2>2. \A id \in ids : \E i \in taking : IdOf(i) = id
    BY SeqOfOnto DEF Ready
  <2> HIDE DEF taking, n, IdOf
  <2> QED BY <1>1, <2>1, <2>2
<1>4. \A q \in Queues : \A c : c \in Copies(targets, m, q) <=>
        \E i \in taking : targets[i] = q /\ c = [seq |-> IdOf(i), message |-> Copy(q, m), receives |-> 0]
  BY DEF Copies
<1>5. \A i \in taking : targets[i] \in Queues
  BY <1>1
<1> HIDE DEF taking, n, IdOf
<1>6. Given \subseteq Given' /\ Given' \ Given = ids
  BY <1>1, <1>2 DEF Given
<1> HIDE DEF ids
<1>7. \A i \in taking : for[IdOf(i)] = targets[i]
  <2> SUFFICES ASSUME NEW i \in taking PROVE for[IdOf(i)] = targets[i]
    OBVIOUS
  <2>1. (CHOOSE j \in taking : IdOf(j) = IdOf(i)) = i
    BY <1>3
  <2> QED BY <1>3, <2>1
<1>8. for \in [ids -> Queues]
  <2> SUFFICES ASSUME NEW id \in ids PROVE targets[CHOOSE i \in taking : IdOf(i) = id] \in Queues
    OBVIOUS
  <2>1. (CHOOSE i \in taking : IdOf(i) = id) \in taking
    BY <1>3
  <2> QED BY <1>5, <2>1
<1> HIDE DEF for
<1>9. Waiting' = Waiting \cup new
  <2>1. \A q \in Queues : Kept(q, Copies(targets, m, q)) = IF q \in Attended THEN Copies(targets, m, q) ELSE {}
    BY DEF Kept, Attended
  <2>2. ASSUME NEW t \in Waiting' PROVE t \in Waiting \/ t \in new
    <3>1. PICK q \in Queues : \E c \in visible'[q] : t = Token(q, c)
      BY InWaiting
    <3>2. PICK c \in visible'[q] : t = Token(q, c)
      BY <3>1
    <3>3. CASE c \in visible[q]
      BY <3>2, <3>3, InWaiting
    <3>4. CASE c \notin visible[q]
      <4>1. c \in Copies(targets, m, q) /\ q \in Attended
        BY <1>2, <2>1, <3>2, <3>4
      <4>2. PICK i \in taking : targets[i] = q /\ c = [seq |-> IdOf(i), message |-> Copy(q, m), receives |-> 0]
        BY <1>4, <4>1
      <4>3. c.seq = IdOf(i) /\ c.receives = 0
        BY <4>2
      <4>4. t = [id |-> IdOf(i), queue |-> for[IdOf(i)], receives |-> 0]
        BY <1>7, <3>2, <4>2, <4>3 DEF Token
      <4>5. IdOf(i) \in ids /\ for[IdOf(i)] \in Attended
        BY <1>3, <1>7, <4>1, <4>2
      <4> QED BY <4>4, <4>5
    <3> QED BY <3>3, <3>4
  <2>3. ASSUME NEW t \in Waiting PROVE t \in Waiting'
    <3>1. PICK q \in Queues : \E c \in visible[q] : t = Token(q, c)
      BY InWaiting
    <3>2. PICK c \in visible[q] : t = Token(q, c)
      BY <3>1
    <3>3. c \in visible'[q]
      BY <1>2, <3>2
    <3> QED BY <3>2, <3>3, InWaiting
  <2>4. ASSUME NEW t \in new PROVE t \in Waiting'
    <3>1. PICK id \in ids : for[id] \in Attended /\ t = [id |-> id, queue |-> for[id], receives |-> 0]
      OBVIOUS
    <3>2. PICK i \in taking : IdOf(i) = id
      BY <1>3
    <3> DEFINE q == targets[i]
               c == [seq |-> IdOf(i), message |-> Copy(q, m), receives |-> 0]
    <3>3. q = for[id] /\ q \in Queues /\ q \in Attended
      BY <1>5, <1>7, <3>1, <3>2
    <3>4. t = Token(q, c)
      BY <3>1, <3>2, <3>3 DEF Token
    <3>5. c \in Copies(targets, m, q)
      BY <1>4, <3>3
    <3> HIDE DEF q, c
    <3>6. c \in visible'[q]
      BY <1>2, <2>1, <3>3, <3>5
    <3> QED BY <3>3, <3>4, <3>6, InWaiting
  <2> HIDE DEF new
  <2> QED BY <2>2, <2>3, <2>4
<1>10. Out' = Out /\ Attended' = Attended
  BY SameOut, SameAttended
<1>11. Life!Accept
  BY <1>6, <1>8, <1>9, <1>10 DEF Life!Accept
<1> QED BY <1>11 DEF Lives, Life!Next


\* A receive hands out some of what waits on its queue, and moves what is spent.
LEMMA ReceiveLives ==
  ASSUME Ready, NEW s \in Subscriptions, NEW size \in Sizes, Receive(s, size)
  PROVE  Lives
<1> DEFINE reg == sub[s].reg
           q == reg.queue
           taken == Taken(q, size)
           spent == {m \in taken : Spent(q, m)}
           handed == taken \ spent
           target == IF spent = {} THEN q ELSE redrive[q].queue
           moved == Kept(target, spent)
           Once(m) == [m EXCEPT !.receives = @ + 1]
           E(m) == [receipt |-> nextId + Rank(m, handed), stored |-> Once(m),
                    received |-> now, generation |-> 0]
           H == {Token(q, m) : m \in handed}
           M == {Token(q, m) : m \in spent}
<1>1. q \in Queues /\ target \in Queues
  <2>1. q \in Queues
    BY OpenReg, RegistrationAssumption, ZenonT(60) DEF Receive, Registration, Ready
  <2> QED BY <2>1 DEF Spent, Shape, TypeOK, Policy, Ready
<1>2. taken \subseteq visible[q] /\ taken \subseteq Stored
  <2> HIDE DEF q
  <2> QED BY <1>1, TakenFacts DEF Ready
<1>3. /\ spent \subseteq taken /\ handed \subseteq taken /\ taken = handed \cup spent
      /\ handed \cap spent = {}
      /\ moved = IF target \in Attended THEN spent ELSE {}
  BY <1>1 DEF Kept, Attended
<1>4. /\ inFlight' = [inFlight EXCEPT ![q] = @ \cup {E(m) : m \in handed}]
      /\ visible' = [r \in Queues |->
           (visible[r] \ (IF r = q THEN taken ELSE {}))
             \cup (IF r = target THEN moved ELSE {})]
      /\ taken # {} /\ subscriptions' = subscriptions
  BY ZenonT(60) DEF Receive
<1>5. nextId <= nextId' /\ nextId' \in Nat
  BY ReceiveCounter, ReceiveShape DEF Ready, Shape, TypeOK
<1> HIDE DEF handed, moved, spent, target, taken, reg, q
<1>6. \A m \in handed : E(m).stored = Once(m) /\ m \in Stored
  BY <1>2, <1>3
<1> HIDE DEF E
<1>7. Given \subseteq Given' /\ Attended' = Attended
  <2>1. nextId \in Nat
    BY DEF Ready, Shape, TypeOK
  <2>2. Given \subseteq Given'
    BY <1>5, <2>1, GivenGrows
  <2> QED BY <1>4, <2>2, SameAttended
<1>8. \A m, n \in visible[q] : Token(q, m) = Token(q, n) => m = n
  BY <1>1, TokensDiffer DEF Ready, Safe
<1>9. \A t \in Waiting : t \in H \cup M <=> \E m \in taken : t = Token(q, m)
  BY <1>3
<1>10. /\ H \subseteq {t \in Waiting : t.queue = q} /\ M \subseteq {t \in Waiting : t.queue = q}
       /\ H \cap M = {}
  <2>1. \A m \in taken : Token(q, m) \in Waiting /\ Token(q, m).queue = q
    BY <1>1, <1>2, InWaiting, TokenFields
  <2>2. H \cap M = {}
    BY <1>2, <1>3, <1>8
  <2> QED BY <1>3, <2>1, <2>2
<1>11. Out' = Out \cup {[t EXCEPT !.receives = @ + 1] : t \in H}
  <2> DEFINE G == {[t EXCEPT !.receives = @ + 1] : t \in H}
  <2>1. \A t : t \in G <=> \E m \in handed : t = Token(q, Once(m))
    <3>1. \A m \in handed : [Token(q, m) EXCEPT !.receives = @ + 1] = Token(q, Once(m))
      BY <1>6, TokenCounted
    <3>2. \A t : t \in G <=> \E m \in handed : t = [Token(q, m) EXCEPT !.receives = @ + 1]
      OBVIOUS
    <3> HIDE DEF G, H, Once
    <3> QED BY <3>1, <3>2
  <2>2. \A p \in Queues : \A e : e \in inFlight'[p] <=>
          e \in inFlight[p] \/ (p = q /\ \E m \in handed : e = E(m))
    BY <1>1, <1>4 DEF Ready, Shape, TypeOK
  <2> HIDE DEF G, Once
  <2>3. ASSUME NEW t \in Out' PROVE t \in Out \/ t \in G
    <3>1. PICK p \in Queues : \E e \in inFlight'[p] : t = Token(p, e.stored)
      BY InOut
    <3>2. PICK e \in inFlight'[p] : t = Token(p, e.stored)
      BY <3>1
    <3> QED BY <1>6, <2>1, <2>2, <3>2, InOut
  <2>4. ASSUME NEW t \in Out PROVE t \in Out'
    <3>1. PICK p \in Queues : \E e \in inFlight[p] : t = Token(p, e.stored)
      BY InOut
    <3>2. PICK e \in inFlight[p] : t = Token(p, e.stored)
      BY <3>1
    <3> QED BY <2>2, <3>2, InOut
  <2>5. ASSUME NEW t \in G PROVE t \in Out'
    <3>1. PICK m \in handed : t = Token(q, Once(m))
      BY <2>1
    <3>2. E(m) \in inFlight'[q] /\ t = Token(q, E(m).stored)
      BY <1>1, <1>6, <2>2, <3>1
    <3> QED BY <1>1, <3>2, InOut
  <2>6. Out' = Out \cup G
    BY <2>3, <2>4, <2>5
  <2> QED BY <2>6 DEF G
<1>12. Waiting' = (Waiting \ (H \cup M)) \cup
         {[t EXCEPT !.queue = target] : t \in {n \in M : target \in Attended}}
  <2> DEFINE G == {[t EXCEPT !.queue = target] : t \in {n \in M : target \in Attended}}
  <2>1. \A t : t \in G <=> \E m \in moved : t = Token(target, m)
    BY <1>3, TokenFields
  <2>2. \A p \in Queues : \A m : m \in visible'[p] <=>
          (m \in visible[p] /\ ~(p = q /\ m \in taken)) \/ (p = target /\ m \in moved)
    BY <1>4
  <2> HIDE DEF G, H, M
  <2>3. ASSUME NEW t \in Waiting' PROVE (t \in Waiting /\ t \notin H \cup M) \/ t \in G
    <3>1. PICK p \in Queues : \E m \in visible'[p] : t = Token(p, m)
      BY InWaiting
    <3>2. PICK m \in visible'[p] : t = Token(p, m)
      BY <3>1
    <3>3. CASE p = target /\ m \in moved
      BY <2>1, <3>2, <3>3
    <3>4. CASE m \in visible[p] /\ ~(p = q /\ m \in taken)
      <4>1. t \in Waiting
        BY <3>2, <3>4, InWaiting
      <4>2. ASSUME t \in H \cup M PROVE FALSE
        <5>1. PICK n \in taken : t = Token(q, n)
          BY <1>9, <4>1, <4>2
        <5>2. n \in visible[q]
          BY <1>2
        <5>3. p = q /\ m = n
          <6>1. \A k \in visible[p], l \in visible[q] : Token(p, k) = Token(q, l) => p = q /\ k = l
            BY <1>1, TokensDiffer DEF Ready, Safe
          <6> QED BY <3>2, <3>4, <5>1, <5>2, <6>1
        <5> QED BY <3>4, <5>3
      <4> QED BY <4>1, <4>2
    <3> QED BY <2>2, <3>2, <3>3, <3>4
  <2>4. ASSUME NEW t \in Waiting, t \notin H \cup M PROVE t \in Waiting'
    <3>1. PICK p \in Queues : \E m \in visible[p] : t = Token(p, m)
      BY InWaiting
    <3>2. PICK m \in visible[p] : t = Token(p, m)
      BY <3>1
    <3>3. ~(p = q /\ m \in taken)
      BY <1>9, <2>4, <3>2
    <3>4. m \in visible'[p]
      BY <2>2, <3>2, <3>3
    <3> QED BY <3>2, <3>4, InWaiting
  <2>5. ASSUME NEW t \in G PROVE t \in Waiting'
    <3>1. PICK m \in moved : t = Token(target, m)
      BY <2>1
    <3>2. m \in visible'[target]
      BY <1>1, <2>2
    <3> QED BY <1>1, <3>1, <3>2, InWaiting
  <2>6. Waiting' = (Waiting \ (H \cup M)) \cup G
    BY <2>3, <2>4, <2>5
  <2> QED BY <2>6 DEF G
<1>13. q \in Attended
  BY <1>1, <1>2, <1>4 DEF Ready, UnattendedIsEmpty, Attended
<1> HIDE DEF H, M
<1>14. Life!Receive(q)
  BY <1>1, <1>7, <1>10, <1>11, <1>12 DEF Life!Receive
<1> QED BY <1>13, <1>14 DEF Lives, Life!Next

\* The counter of ids only grows.
LEMMA CounterGrows == Shape /\ [Next]_vars => nextId <= nextId'
<1> SUFFICES ASSUME Shape, [Next]_vars PROVE nextId <= nextId'
  OBVIOUS
<1>0. nextId \in Nat
  BY DEF Shape, TypeOK
<1>1. ASSUME NEW targets \in Seq(Queues), NEW m \in Message, Deliver(targets, m)
      PROVE  nextId <= nextId'
  <2>1. nextId' = nextId + Cardinality(Taking(targets, m))
    BY <1>1 DEF Deliver
  <2>2. Cardinality(Taking(targets, m)) \in Nat
    BY TakingFacts, FS_CardinalityType
  <2> QED BY <1>0, <2>1, <2>2
<1>2. ASSUME NEW q \in Queues, NEW m \in Message, Send(q, m) PROVE nextId <= nextId'
  <2>1. <<q>> \in Seq(Queues)
    OBVIOUS
  <2> QED BY <1>1, <1>2, <2>1 DEF Send
<1>3. ASSUME NEW t \in Topics, NEW m \in Message, PublishTopic(t, m) PROVE nextId <= nextId'
  <2>1. topics[t] \in Seq(Queues) /\ <<>> \in Seq(Queues)
    BY DEF Shape, TypeOK
  <2> QED BY <1>1, <1>3, <2>1 DEF PublishTopic
<1>4. ASSUME NEW s \in Subscriptions, NEW size \in Sizes, Receive(s, size) PROVE nextId <= nextId'
  BY <1>4, ReceiveCounter
<1>5. CASE nextId' = nextId
  BY <1>0, <1>5
<1>6. \/ nextId' = nextId
      \/ \E q \in Queues, m \in Message : Send(q, m)
      \/ \E t \in Topics, m \in Message : PublishTopic(t, m)
      \/ \E s \in Subscriptions, size \in Sizes : Receive(s, size)
  BY DEF Next, Declare, Open, Close, SubscribeTopic, Ack, Nack, NackAfter, DropUnsettled, Release,
         Lapse, SettlementFrame, Tick, vars
<1> QED BY <1>2, <1>3, <1>4, <1>5, <1>6

LEMMA LivesStep == Ready /\ [Next]_vars => Lives
<1> SUFFICES ASSUME Ready, [Next]_vars PROVE Lives
  OBVIOUS
<1>0. Shape /\ Safe
  BY DEF Ready
<1>1. CASE \/ \E s \in Subscriptions : \E reg \in Registrations : Declare(s, reg)
           \/ \E t \in Topics, q \in Queues : SubscribeTopic(t, q)
           \/ \E h \in handles : Release(h)
           \/ Tick
           \/ UNCHANGED vars
  <2>1. UNCHANGED <<visible, inFlight, nextId, subscriptions>>
    BY <1>1 DEF Declare, SubscribeTopic, Release, SettlementFrame, Tick, queueVars, vars
  <2> QED BY <2>1, StillLives
<1>2. ASSUME NEW s \in Subscriptions, Open(s) \/ Close(s) PROVE Lives
  BY <1>2, OpenLives, CloseLives
<1>3. ASSUME NEW s \in Subscriptions, NEW size \in Sizes, Receive(s, size)
      PROVE  Lives
  BY <1>3, ReceiveLives
<1>4. ASSUME NEW q \in Queues, NEW m \in Message, Send(q, m) PROVE Lives
  <2>1. <<q>> \in Seq(Queues)
    OBVIOUS
  <2> QED BY <1>4, <2>1, DeliverLives DEF Send
<1>5. ASSUME NEW t \in Topics, NEW m \in Message, PublishTopic(t, m) PROVE Lives
  <2>1. topics[t] \in Seq(Queues) /\ <<>> \in Seq(Queues)
    BY <1>0 DEF Shape, TypeOK
  <2> QED BY <1>5, <2>1, DeliverLives DEF PublishTopic
<1>6. ASSUME NEW h \in handles, NEW v, SetVisibility(h, v), SettlementFrame PROVE Lives
  <2>1. UNCHANGED <<nextId, subscriptions>>
    BY <1>6 DEF SettlementFrame
  <2>2. CASE Refuses(h, v)
    BY <1>6, <2>1, <2>2, StillLives DEF SetVisibility
  <2>3. CASE ~Refuses(h, v)
    BY <1>6, <2>1, <2>3, ChangeVisibilityLives DEF SetVisibility
  <2> QED BY <2>2, <2>3
<1>7. ASSUME NEW h \in handles, Ack(h) PROVE Lives
  BY <1>7, DeleteLives DEF Ack
<1>8. ASSUME NEW h \in handles, NEW requeue \in BOOLEAN, Nack(h, requeue) PROVE Lives
  <2>1. CASE requeue \/ SpentDelivery(h)
    BY <1>6, <1>8, <2>1 DEF Nack
  <2>2. CASE ~(requeue \/ SpentDelivery(h))
    BY <1>8, <2>2, DeleteLives DEF Nack
  <2> QED BY <2>1, <2>2
<1>9. ASSUME NEW h \in handles, NEW delay \in Delays, NEW lag \in 0..MaxLag,
             NackAfter(h, delay, lag)
      PROVE  Lives
  BY <1>6, <1>9 DEF NackAfter
<1>10. ASSUME NEW h \in handles, NEW lag \in 0..MaxLag, DropUnsettled(h, lag) PROVE Lives
  <2>1. ~Refuses(h, RemainingVisibility(h, lag))
    BY <1>0, <1>10, DropNotRefused DEF DropUnsettled
  <2>2. /\ ChangeVisibility(h, RemainingVisibility(h, lag))
        /\ UNCHANGED <<nextId, subscriptions>>
    BY <1>10, <2>1 DEF DropUnsettled, SettlementFrame
  <2> QED BY <2>2, ChangeVisibilityLives
<1>11. ASSUME NEW t \in timers, Lapse(t) PROVE Lives
  <2> DEFINE lapsed == {e \in inFlight[t.queue] :
                          e.receipt = t.receipt /\ e.generation = t.generation}
  <2>1. t.queue \in Queues /\ UNCHANGED <<nextId, subscriptions>>
    BY <1>0, <1>11 DEF Lapse, SettlementFrame, Shape, TypeOK, Timer
  <2>2. CASE lapsed = {}
    BY <1>11, <2>1, <2>2, StillLives DEF Lapse
  <2>3. CASE lapsed # {}
    <3>1. PICK e \in inFlight[t.queue] :
            /\ inFlight' = [inFlight EXCEPT ![t.queue] = @ \ {e}]
            /\ Requeue(t.queue, e.stored)
      BY <1>11, <2>3 DEF Lapse
    <3> QED BY <2>1, <3>1, ReturnLives
  <2> QED BY <2>2, <2>3
<1> QED BY <1>1, <1>2, <1>3, <1>4, <1>5, <1>7, <1>8, <1>9, <1>10, <1>11 DEF Next

\* Receipts, generations, timers, groups and policies implement MessageLife: a
\* message is waiting, or with one receiver, or gone for good (Bus::receive,
\* change_visibility, lapse, enqueue, close).
THEOREM AccountKeepsMessages == Spec => KeepsMessages
<1>1. Init => Life!Init
  BY DEF Init, Life!Init, Waiting, Out, Given, Attended
<1>2. Init => nextId >= 1 /\ UnattendedIsEmpty
  BY DEF Init, UnattendedIsEmpty
<1>3. Shape /\ nextId >= 1 /\ [Next]_vars => nextId' >= 1
  <2>1. Shape /\ [Next]_vars => nextId \in Nat /\ nextId' \in Nat
    BY ShapeStep DEF Shape, TypeOK
  <2> QED BY <2>1, CounterGrows
<1>4. Spec => [](nextId >= 1)
  <2> DEFINE Started == nextId >= 1
  <2>1. Init => Started
    BY <1>2
  <2>2. Shape /\ Started /\ [Next]_vars => Started'
    BY <1>3
  <2> HIDE DEF Started
  <2>3. Spec => []Started
    BY <2>1, <2>2, ShapeInit, ShapeStep, PTL DEF Spec
  <2> QED BY <2>3 DEF Started
<1>5. Ready /\ [Next]_vars => [Life!Next]_(Life!vars)
  BY LivesStep DEF Lives
<1>6. Shape /\ Safe /\ UnattendedIsEmpty /\ nextId >= 1 => Ready
  BY DEF Ready
<1> QED BY <1>1, <1>4, <1>5, <1>6, SafeAlways, AccountUnattendedIsEmpty, PTL
        DEF Spec, KeepsMessages, Life!Spec
=============================================================================
