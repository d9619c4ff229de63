------------------------------ MODULE Account ------------------------------
(***************************************************************************)
(* The in-process SQS/SNS account (in_process/bus.rs), the subscriptions   *)
(* that read it (in_process/deliveries.rs) and the settlement of what they *)
(* hand out (message.rs).  Every operation of the bus runs under one       *)
(* mutex, so an operation is one action; whatever the code does under two  *)
(* acquisitions of the mutex (declare a policy, then open; settle, then    *)
(* release the handle) is two actions.                                     *)
(*                                                                         *)
(* Names stand for their keys, a payload for its sequence number, a moment *)
(* for a number of ticks; a refused operation changes nothing and is a     *)
(* step the specification leaves out, except where the caller goes on      *)
(* after the refusal (a settlement).                                       *)
(***************************************************************************)
EXTENDS Visibility, Sequences, FiniteSets

CONSTANTS
  Queues, FifoQueues,     \* the queues the service names, and the FIFO ones
  Topics, FifoTopics,     \* the topics, and the FIFO ones
  Subscriptions,          \* the subscriptions the service may have open
  Registrations,          \* what a registration may declare, see Registration
  Groups, DedupIds,       \* message group ids and deduplication ids
  None,                   \* no policy, no group, no deduplication id
  Sizes,                  \* how many messages a receive may ask for
  Delays,                 \* delays a handler may ask of nack_after, in ticks
  MaxLag,                 \* bound: ticks from reading a clock to using it
  DedupWindow,            \* DEDUPLICATION_WINDOW, in ticks
  MaxId, MaxTime, MaxLog  \* bounds: ids given out, ticks, log entries a name

MAX_RECEIVE_COUNT == 1000

Policy == [max : Nat \ {0}, queue : Queues]

\* A period of zero ticks would be a division by zero: a tick is at most half
\* of the shortest timeout.
Timeouts == {v \in Nat : v % 2 = 0}

Registration ==
  [queue : Queues, redrive : Policy \cup {None}, visibility : Timeouts]

ASSUME KindAssumption ==
  /\ FifoQueues \subseteq Queues
  /\ FifoTopics \subseteq Topics

ASSUME NoneAssumption ==
  /\ None \notin Groups
  /\ None \notin DedupIds
  /\ None \notin Nat
  /\ None \notin Policy

ASSUME RegistrationAssumption == Registrations \subseteq Registration

ASSUME TimeAssumption ==
  /\ {MaxLag, DedupWindow} \subseteq Nat
  /\ Delays \subseteq Nat
  /\ Sizes \subseteq Nat \ {0}

\* WINDOW_MARGIN covers what passes between reading the clock and the change.
ASSUME MarginAssumption == MaxLag <= Margin

ASSUME BoundAssumption == {MaxId, MaxTime, MaxLog} \subseteq Nat

VARIABLES
  sub,            \* per subscription: its registration and how far it is open
  subscriptions,  \* Queue.subscriptions
  redrive,        \* Queue.redrive
  visible,        \* Queue.visible
  inFlight,       \* Queue.in_flight
  dedup,          \* Queue.deduplication
  topics,         \* Account.topics: the queues of a topic, in order
  topicDedup,     \* Account.topic_deduplication
  log,            \* Account.log: how many entries a name has
  nextId,         \* Bus.next_id
  handles,        \* the BusReceipts alive, each in one delivery
  timers,         \* armed visibility timers
  pending,        \* the coordinator's count: enqueued and not yet consumed
  now,            \* the clock
  accepted        \* history: what a FIFO queue took, when and under which id

queueVars == <<subscriptions, redrive, visible, inFlight, dedup>>
topicVars == <<topics, topicDedup>>
vars == <<sub, subscriptions, redrive, visible, inFlight, dedup, topics,
          topicDedup, log, nextId, handles, timers, pending, now, accepted>>

-----------------------------------------------------------------------------
(* The records the account keeps. *)

Message == [group : Groups \cup {None}, dedup : DedupIds \cup {None}]

Plain == [group |-> None, dedup |-> None]

\* What a publisher may hand over: FIFO settings go with FIFO destinations.
Outbound(fifo) ==
  IF fifo THEN [group : Groups, dedup : DedupIds] ELSE {Plain}

Stored == [seq : Nat, message : Message, receives : Nat]

InFlight == [receipt : Nat, stored : Stored, received : Nat, generation : Nat]

Seen == [id : DedupIds, at : Nat]

\* held: in a handler's hands.  refused: a settlement consumed the delivery
\* and failed.  acked, discarded, returned: BusReceipt.settled is set, and by
\* which settlement.  dropped: dropped unsettled, its visibility change made.
Over == {"acked", "discarded", "returned", "dropped"}

Handle ==
  [receipt : Nat, queue : Queues, receives : Nat,
   redriveMax : (Nat \ {0}) \cup {None}, visibility : Timeouts,
   received : Nat, phase : {"held", "refused"} \cup Over]

Timer == [receipt : Nat, queue : Queues, generation : Nat, at : Nat]

Closed == [phase |-> "closed"]

SubState ==
  {Closed} \cup [phase : {"declared", "open"}, reg : Registrations]

Init ==
  /\ sub = [s \in Subscriptions |-> Closed]
  /\ subscriptions = [q \in Queues |-> 0]
  /\ redrive = [q \in Queues |-> None]
  /\ visible = [q \in Queues |-> {}]
  /\ inFlight = [q \in Queues |-> {}]
  /\ dedup = [q \in Queues |-> {}]
  /\ topics = [t \in Topics |-> <<>>]
  /\ topicDedup = [t \in Topics |-> {}]
  /\ log = [n \in Queues \cup Topics |-> 0]
  /\ nextId = 1
  /\ handles = {}
  /\ timers = {}
  /\ pending = 0
  /\ now = 0
  /\ accepted = {}

-----------------------------------------------------------------------------
(* Helpers of the bus. *)

Within(seen) == {e \in seen : now - e.at < DedupWindow}

SeenWithin(seen, id) == \E e \in Within(seen) : e.id = id

\* seen_within_window: old ids go, and a new one is remembered.
Remember(seen, id) ==
  IF SeenWithin(seen, id)
  THEN Within(seen)
  ELSE Within(seen) \cup {[id |-> id, at |-> now]}

\* Mutant of BlockedGroups: the queue forgets what is in flight.
BlockedGroupsNever(q) == {}

BlockedGroups(q) ==
  IF q \in FifoQueues
  THEN {e.stored.message.group : e \in inFlight[q]} \ {None}
  ELSE {}

Eligible(q) ==
  {m \in visible[q] : m.message.group \notin BlockedGroups(q)}

\* How many of S come before m in arrival order.
Rank(m, S) == Cardinality({f \in S : f.seq < m.seq})

Spent(q, m) == redrive[q] # None /\ m.receives >= redrive[q].max

\* What the loop of receive takes off the queue: it looks at the eligible
\* messages in arrival order until it holds `size` that are not spent.
Taken(q, size) ==
  LET fresh == {m \in Eligible(q) : ~Spent(q, m)}
  IN  {m \in Eligible(q) : Rank(m, fresh) < size}

\* Mutant of Kept: a queue without subscriptions takes the messages too.
KeptAlways(q, S) == S

\* enqueue: what becomes visible when the messages S reach q.  A queue without
\* subscriptions drops them, and the harness never hears of them.
Kept(q, S) == IF subscriptions[q] = 0 THEN {} ELSE S

\* Mutant of Requeue: the message comes back as one never received.
RequeueAnew(q, m) ==
  LET fresh == [m EXCEPT !.receives = 0]
  IN  /\ visible' = [visible EXCEPT ![q] = @ \cup Kept(q, {fresh})]
      /\ pending' = pending + Cardinality(Kept(q, {fresh}))

Requeue(q, m) ==
  /\ visible' = [visible EXCEPT ![q] = @ \cup Kept(q, {m})]
  /\ pending' = pending + Cardinality(Kept(q, {m}))

-----------------------------------------------------------------------------
(* Subscriptions. *)

\* in_process::subscribe, up to set_redrive: the policy goes onto the queue
\* (the last writer wins) before the subscription opens.
Declare(s, reg) ==
  /\ sub[s] = Closed
  /\ reg.redrive # None =>
       /\ reg.redrive.max <= MAX_RECEIVE_COUNT
       /\ reg.queue \in FifoQueues <=> reg.redrive.queue \in FifoQueues
  /\ redrive' = [redrive EXCEPT ![reg.queue] =
                    IF reg.redrive = None THEN @ ELSE reg.redrive]
  /\ sub' = [sub EXCEPT ![s] = [phase |-> "declared", reg |-> reg]]
  /\ UNCHANGED <<subscriptions, visible, inFlight, dedup, topicVars, log,
                 nextId, handles, timers, pending, now, accepted>>

\* BusDeliveries::open
Open(s) ==
  /\ sub[s].phase = "declared"
  /\ sub' = [sub EXCEPT ![s].phase = "open"]
  /\ subscriptions' = [subscriptions EXCEPT ![sub[s].reg.queue] = @ + 1]
  /\ UNCHANGED <<redrive, visible, inFlight, dedup, topicVars, log, nextId,
                 handles, timers, pending, now, accepted>>

\* Mutant of Close: the harness is not told of what the close drops.
CloseUncounted(s) ==
  /\ sub[s].phase = "open"
  /\ LET q    == sub[s].reg.queue
         left == Minus(subscriptions[q], 1)
     IN  /\ subscriptions' = [subscriptions EXCEPT ![q] = left]
         /\ visible' = [visible EXCEPT ![q] = IF left = 0 THEN {} ELSE @]
  /\ sub' = [sub EXCEPT ![s] = Closed]
  /\ UNCHANGED <<redrive, inFlight, dedup, topicVars, log, nextId, handles,
                 timers, pending, now, accepted>>

\* Bus::close, from the drop of BusDeliveries.  The last subscription takes
\* what is visible with it; what is in flight and the deduplication ids stay.
Close(s) ==
  /\ sub[s].phase = "open"
  /\ LET q    == sub[s].reg.queue
         left == Minus(subscriptions[q], 1)
         lost == IF left = 0 THEN visible[q] ELSE {}
     IN  /\ subscriptions' = [subscriptions EXCEPT ![q] = left]
         /\ visible' = [visible EXCEPT ![q] = @ \ lost]
         /\ pending' = pending - Cardinality(lost)
  /\ sub' = [sub EXCEPT ![s] = Closed]
  /\ UNCHANGED <<redrive, inFlight, dedup, topicVars, log, nextId, handles,
                 timers, now, accepted>>

-----------------------------------------------------------------------------
(* Publishing. *)

\* Mutant of Taking: only the topic deduplicates.
TakingAll(targets, m) == DOMAIN targets

\* The positions of `targets` whose queue takes a copy of m: a FIFO queue does
\* not take an id it has seen within the window.
Taking(targets, m) ==
  {i \in DOMAIN targets :
     ~(targets[i] \in FifoQueues /\ SeenWithin(dedup[targets[i]], m.dedup))}

\* The id the copy for position i is given.
SeqOf(targets, m, i) ==
  nextId + Cardinality({j \in Taking(targets, m) : j < i})

\* Mutant of Copy: a standard queue keeps the topic's FIFO settings.
CopyWhole(q, m) == m

\* A standard queue has no groups: the copy it receives carries none.
Copy(q, m) == IF q \in FifoQueues THEN m ELSE Plain

Copies(targets, m, q) ==
  {[seq |-> SeqOf(targets, m, i), message |-> Copy(q, m), receives |-> 0] :
     i \in {j \in Taking(targets, m) : targets[j] = q}}

\* deliver, for each queue of `targets` in order.  The id is remembered even
\* where enqueue then drops the message.
Deliver(targets, m) ==
  LET taking   == Taking(targets, m)
      attended == {i \in taking : subscriptions[targets[i]] # 0}
      fifo     == {i \in DOMAIN targets : targets[i] \in FifoQueues}
  IN  /\ visible' = [q \in Queues |->
                       visible[q] \cup Kept(q, Copies(targets, m, q))]
      /\ pending' = pending + Cardinality(attended)
      /\ dedup' = [q \in Queues |->
                     IF \E i \in fifo : targets[i] = q
                     THEN Remember(dedup[q], m.dedup) ELSE dedup[q]]
      /\ nextId' = nextId + Cardinality(taking)
      /\ accepted' = accepted \cup
           {[queue |-> targets[i], id |-> m.dedup, at |-> now,
             seq |-> SeqOf(targets, m, i)] : i \in taking \cap fifo}

\* Bus::send
Send(q, m) ==
  /\ m \in Outbound(q \in FifoQueues)
  /\ nextId < MaxId
  /\ log[q] < MaxLog
  /\ log' = [log EXCEPT ![q] = @ + 1]
  /\ Deliver(<<q>>, m)
  /\ UNCHANGED <<sub, subscriptions, redrive, inFlight, topicVars, handles,
                 timers, now>>

\* Mutant of SubscribeTopic: a FIFO queue may read a standard topic.
SubscribeTopicAnyKind(t, q) ==
  /\ \A i \in DOMAIN topics[t] : topics[t][i] # q
  /\ topics' = [topics EXCEPT ![t] = Append(@, q)]
  /\ UNCHANGED <<sub, queueVars, topicDedup, log, nextId, handles, timers,
                 pending, now, accepted>>

\* Bus::subscribe_topic; a second subscription of a queue changes nothing.
SubscribeTopic(t, q) ==
  /\ q \in FifoQueues => t \in FifoTopics
  /\ \A i \in DOMAIN topics[t] : topics[t][i] # q
  /\ topics' = [topics EXCEPT ![t] = Append(@, q)]
  /\ UNCHANGED <<sub, queueVars, topicDedup, log, nextId, handles, timers,
                 pending, now, accepted>>

\* Bus::publish_topic.  The log counts the publish before a repeat is dropped;
\* every queue's copy is logged under the queue too.
PublishTopic(t, m) ==
  LET repeat  == t \in FifoTopics /\ SeenWithin(topicDedup[t], m.dedup)
      targets == IF repeat THEN <<>> ELSE topics[t]
  IN  /\ m \in Outbound(t \in FifoTopics)
      /\ nextId + Len(targets) <= MaxId
      /\ \A n \in {t} \cup {targets[i] : i \in DOMAIN targets} : log[n] < MaxLog
      /\ log' = [n \in DOMAIN log |->
                   IF n = t \/ \E i \in DOMAIN targets : targets[i] = n
                   THEN log[n] + 1 ELSE log[n]]
      /\ topicDedup' = [topicDedup EXCEPT ![t] =
                          IF t \in FifoTopics THEN Remember(@, m.dedup) ELSE @]
      /\ Deliver(targets, m)
      /\ UNCHANGED <<sub, subscriptions, redrive, inFlight, topics, handles,
                     timers, now>>

-----------------------------------------------------------------------------
(* Receiving. *)

\* Bus::receive for the subscription s, and the deliveries made of it.  What
\* is spent moves to the dead-letter queue, keeping its place in the order and
\* its receives; nothing arms a timer for what is handed over.
Receive(s, size) ==
  /\ sub[s].phase = "open"
  /\ LET reg     == sub[s].reg
         q       == reg.queue
         taken   == Taken(q, size)
         spent   == {m \in taken : Spent(q, m)}
         handed  == taken \ spent
         target  == IF spent = {} THEN q ELSE redrive[q].queue
         moved   == Kept(target, spent)
         Receipt(m) == nextId + Rank(m, handed)
         Counted(m) == [m EXCEPT !.receives = @ + 1]
     IN  /\ taken # {}
         /\ nextId + Cardinality(handed) <= MaxId
         /\ log[target] + Cardinality(spent) <= MaxLog
         /\ inFlight' = [inFlight EXCEPT ![q] = @ \cup
              {[receipt |-> Receipt(m), stored |-> Counted(m),
                received |-> now, generation |-> 0] : m \in handed}]
         /\ handles' = handles \cup
              {[receipt |-> Receipt(m), queue |-> q,
                receives |-> m.receives + 1,
                redriveMax |-> IF reg.redrive = None
                               THEN None ELSE reg.redrive.max,
                visibility |-> reg.visibility,
                received |-> now, phase |-> "held"] : m \in handed}
         /\ visible' = [p \in Queues |->
              (visible[p] \ (IF p = q THEN taken ELSE {}))
                \cup (IF p = target THEN moved ELSE {})]
         /\ pending' = pending - Cardinality(spent) + Cardinality(moved)
         /\ log' = [log EXCEPT ![target] = @ + Cardinality(spent)]
         /\ nextId' = nextId + Cardinality(handed)
  /\ UNCHANGED <<sub, subscriptions, redrive, dedup, topicVars, timers, now,
                 accepted>>

-----------------------------------------------------------------------------
(* Settlement. *)

\* Mutant of EntriesOf: the receipt is not compared.
EntriesOfQueue(h) == inFlight[h.queue]

EntriesOf(h) == {e \in inFlight[h.queue] : e.receipt = h.receipt}

Become(h, phase) == handles' = (handles \ {h}) \cup {[h EXCEPT !.phase = phase]}

\* What every settlement leaves alone.
SettlementFrame ==
  UNCHANGED <<sub, subscriptions, redrive, dedup, topicVars, log, nextId, now,
              accepted>>

\* BusReceipt::delete
Delete(h, outcome) ==
  /\ inFlight' = [inFlight EXCEPT ![h.queue] = @ \ EntriesOf(h)]
  /\ Become(h, outcome)
  /\ UNCHANGED <<visible, timers, pending>>

\* The conditions under which Bus::change_visibility refuses.
Refuses(h, v) ==
  \/ v \div Second > Window \div Second
  \/ EntriesOf(h) = {}
  \/ v > 0 /\ \E e \in EntriesOf(h) : (now - e.received) + v > Window

\* Bus::change_visibility, of the delivery h: at once for a zero timeout, and
\* through a timer of a new generation otherwise.
ChangeVisibility(h, v) ==
  \E e \in EntriesOf(h) :
    \/ /\ v = 0
       /\ inFlight' = [inFlight EXCEPT ![h.queue] = @ \ {e}]
       /\ Requeue(h.queue, e.stored)
       /\ UNCHANGED timers
    \/ /\ v > 0
       /\ inFlight' = [inFlight EXCEPT ![h.queue] =
            (@ \ {e}) \cup {[e EXCEPT !.generation = @ + 1]}]
       /\ timers' = timers \cup
            {[receipt |-> h.receipt, queue |-> h.queue,
              generation |-> e.generation + 1, at |-> now + v]}
       /\ UNCHANGED <<visible, pending>>

\* A change a settlement makes: refused, the delivery is left to its drop.
SetVisibility(h, v) ==
  IF Refuses(h, v)
  THEN Become(h, "refused") /\ UNCHANGED <<inFlight, visible, timers, pending>>
  ELSE Become(h, "returned") /\ ChangeVisibility(h, v)

\* The time h has been held, read `lag` ticks ago.
Held(h, lag) == Minus(now - h.received, lag)

\* window_left, in seconds
WindowLeft(h, lag) == SecondsLeft(Held(h, lag))

\* Mutant of RemainingVisibility: up to the window's end, without the margin.
RemainingToWindow(h, lag) ==
  LET period == Period(h.visibility)
      last   == (Held(h, lag) \div period) * period
  IN  IF h.visibility = 0 THEN 0
      ELSE Minus(Min2(last + h.visibility, Window), Held(h, lag))

\* The visibility the drop of h asks for.
RemainingVisibility(h, lag) == Remaining(h.visibility, Held(h, lag))

\* SqsMessage::spent, by what the delivery's own subscription declared.
SpentDelivery(h) == h.redriveMax # None /\ h.receives >= h.redriveMax

Ack(h) ==
  /\ h.phase = "held"
  /\ Delete(h, "acked")
  /\ SettlementFrame

\* Mutant of Nack: a discard deletes the last delivery of a policy too.
NackDeletesSpent(h, requeue) ==
  /\ h.phase = "held"
  /\ IF requeue THEN SetVisibility(h, 0) ELSE Delete(h, "discarded")
  /\ SettlementFrame

Nack(h, requeue) ==
  /\ h.phase = "held"
  /\ IF requeue \/ SpentDelivery(h)
     THEN SetVisibility(h, 0) ELSE Delete(h, "discarded")
  /\ SettlementFrame

NackAfter(h, delay, lag) ==
  /\ h.phase = "held"
  /\ SetVisibility(h, Second * Min2(WholeSeconds(delay), WindowLeft(h, lag)))
  /\ SettlementFrame

\* The drop of an unsettled BusReceipt; a refusal is ignored.
DropUnsettled(h, lag) ==
  /\ h.phase \in {"held", "refused"}
  /\ LET v == RemainingVisibility(h, lag)
     IN  IF Refuses(h, v)
         THEN UNCHANGED <<inFlight, visible, timers, pending>>
         ELSE ChangeVisibility(h, v)
  /\ Become(h, "dropped")
  /\ SettlementFrame

\* The end of the drop of a BusReceipt: the harness is told it is consumed.
Release(h) ==
  /\ h.phase \in Over
  /\ handles' = handles \ {h}
  /\ pending' = pending - 1
  /\ UNCHANGED <<inFlight, visible, timers>>
  /\ SettlementFrame

-----------------------------------------------------------------------------
(* Time. *)

\* Mutant of Lapse: the message is returned and stays in flight.
LapseKeepsEntry(t) ==
  /\ now >= t.at
  /\ timers' = timers \ {t}
  /\ LET lapsed == {e \in inFlight[t.queue] :
                      e.receipt = t.receipt /\ e.generation = t.generation}
     IN  IF lapsed = {}
         THEN UNCHANGED <<visible, pending>>
         ELSE \E e \in lapsed : Requeue(t.queue, e.stored)
  /\ UNCHANGED <<handles, inFlight>>
  /\ SettlementFrame

\* Bus::lapse: a timer runs out, and finds its generation current or stale.
Lapse(t) ==
  /\ now >= t.at
  /\ timers' = timers \ {t}
  /\ LET lapsed == {e \in inFlight[t.queue] :
                      e.receipt = t.receipt /\ e.generation = t.generation}
     IN  IF lapsed = {}
         THEN UNCHANGED <<inFlight, visible, pending>>
         ELSE \E e \in lapsed :
                /\ inFlight' = [inFlight EXCEPT ![t.queue] = @ \ {e}]
                /\ Requeue(t.queue, e.stored)
  /\ UNCHANGED handles
  /\ SettlementFrame

Tick ==
  /\ now < MaxTime
  /\ now' = now + 1
  /\ UNCHANGED <<sub, queueVars, topicVars, log, nextId, handles, timers,
                 pending, accepted>>

Next ==
  \/ \E s \in Subscriptions :
       \/ \E reg \in Registrations : Declare(s, reg)
       \/ Open(s)
       \/ Close(s)
       \/ \E size \in Sizes : Receive(s, size)
  \/ \E q \in Queues, m \in Message : Send(q, m)
  \/ \E t \in Topics, q \in Queues : SubscribeTopic(t, q)
  \/ \E t \in Topics, m \in Message : PublishTopic(t, m)
  \/ \E h \in handles :
       \/ Ack(h)
       \/ \E requeue \in BOOLEAN : Nack(h, requeue)
       \/ \E delay \in Delays, lag \in 0..MaxLag : NackAfter(h, delay, lag)
       \/ \E lag \in 0..MaxLag : DropUnsettled(h, lag)
       \/ Release(h)
  \/ \E t \in timers : Lapse(t)
  \/ Tick

Spec == Init /\ [][Next]_vars

-----------------------------------------------------------------------------
(* What the account promises. *)

\* The shape of the state.
TypeOK ==
  /\ sub \in [Subscriptions -> SubState]
  /\ subscriptions \in [Queues -> Nat]
  /\ redrive \in [Queues -> Policy \cup {None}]
  /\ visible \in [Queues -> SUBSET Stored]
  /\ inFlight \in [Queues -> SUBSET InFlight]
  /\ dedup \in [Queues -> SUBSET Seen]
  /\ topics \in [Topics -> Seq(Queues)]
  /\ topicDedup \in [Topics -> SUBSET Seen]
  /\ log \in [Queues \cup Topics -> Nat]
  /\ nextId \in Nat
  /\ handles \subseteq Handle
  /\ timers \subseteq Timer
  /\ pending \in Int
  /\ now \in Nat
  /\ accepted \subseteq [queue : Queues, id : DedupIds, at : Nat, seq : Nat]

\* A queue nobody subscribes to holds nothing a later subscription could be
\* handed: what arrives there is dropped and the last close takes the rest
\* (Bus::close, enqueue), whatever deliveries return or lapse afterwards.
UnattendedIsEmpty == \A q \in Queues : subscriptions[q] = 0 => visible[q] = {}

\* Groups are on FIFO queues only and every message there has one, through
\* fan-out and dead-letter moves alike (publish_topic, set_redrive): a
\* message without a group would pass every group's block.
KindsMatch ==
  \A q \in Queues :
    /\ \A m \in visible[q] : m.message.group # None <=> q \in FifoQueues
    /\ \A e \in inFlight[q] : e.stored.message.group # None <=> q \in FifoQueues

\* A delivery in a handler's hands is the only claim on its message: the
\* message is in flight under the delivery's receipt and no timer can make it
\* visible (receive arms none, and only the holder changes its visibility).
HeldExclusively ==
  \A h \in handles : h.phase \in {"held", "refused"} =>
    /\ \E e \in inFlight[h.queue] :
         e.receipt = h.receipt /\ e.received = h.received
    /\ \A t \in timers : t.receipt # h.receipt
    /\ \A g \in handles : g.receipt = h.receipt => g = h

\* No message is stranded in flight: either a handler still holds its delivery
\* or a timer of its current generation is armed.  It fails if a drop's
\* change is refused at the edge of the twelve hours (BusReceipt::drop ignores
\* the refusal), which is what WINDOW_MARGIN is for.
NoneStranded ==
  \A q \in Queues : \A e \in inFlight[q] :
    \/ \E h \in handles :
         /\ h.phase \in {"held", "refused"}
         /\ h.queue = q /\ h.receipt = e.receipt
    \/ \E t \in timers :
         t.queue = q /\ t.receipt = e.receipt /\ t.generation = e.generation

\* "A queue hands each message to one receiver among its subscriptions"
\* (in_process/mod.rs): a message is in one place, on one queue, visible or in
\* flight once, whatever moves, lapses and returns it.
OnePlace ==
  \A p, q \in Queues :
    /\ \A m \in visible[p], n \in visible[q] : m.seq = n.seq => p = q /\ m = n
    /\ \A d \in inFlight[p], e \in inFlight[q] :
         d.stored.seq = e.stored.seq => p = q /\ d = e
    /\ \A m \in visible[p], e \in inFlight[q] : m.seq # e.stored.seq

\* The harness waits for the count of pending messages to reach zero: it counts
\* what is visible and every delivery not dropped yet, so it never reaches zero
\* early and never goes below it.
PendingIsExact ==
  pending = Cardinality(handles)
            + Cardinality(UNION {{q} \X visible[q] : q \in Queues})

\* A FIFO queue does not take the same deduplication id twice within the
\* window (seen_within_window), whether it came by queue or by topic.
DedupHolds ==
  \A a, b \in accepted :
    a.queue = b.queue /\ a.id = b.id /\ a.seq < b.seq => b.at - a.at >= DedupWindow

\* The sequence numbers a queue holds, and the whole account.
SeqsOn(q) == {m.seq : m \in visible[q]} \cup {e.stored.seq : e \in inFlight[q]}
AllSeqs == UNION {SeqsOn(q) : q \in Queues}

\* A message leaves the account only when its holder deletes it (an ack, or the
\* discard of a delivery that has not run its policy out), or when the queue it
\* is on, or moves to, has no subscription left to hand it to.
NoSilentLoss ==
  [][\A q \in Queues : \A id \in SeqsOn(q) :
       id \notin AllSeqs' =>
         \/ subscriptions'[q] = 0
         \/ \E m \in visible[q] :
              /\ m.seq = id /\ Spent(q, m)
              /\ subscriptions[redrive[q].queue] = 0
         \/ \E e \in inFlight[q], h \in handles :
              /\ e.stored.seq = id /\ e.receipt = h.receipt
              /\ \/ [h EXCEPT !.phase = "acked"] \in handles'
                 \/ /\ [h EXCEPT !.phase = "discarded"] \in handles'
                    /\ ~SpentDelivery(h)]_vars

\* A receive of a FIFO queue hands out a group's messages in order and only
\* when no earlier receive has one in flight: of what it leaves behind, only
\* spent messages may come before what it hands out (blocked_groups,
\* next_receivable, docs/guides/fifo.md).
GroupOrder ==
  [][\A q \in FifoQueues : \A e \in inFlight'[q] :
       (\A d \in inFlight[q] : d.receipt # e.receipt) =>
         LET group == e.stored.message.group
         IN  /\ \A d \in inFlight[q] : d.stored.message.group # group
             /\ \A m \in visible'[q] :
                  m.message.group = group /\ ~Spent(q, m)
                    => m.seq > e.stored.seq]_vars

\* What the account has of a message on the queue q, in the words of MessageLife.
Token(q, m) == [id |-> m.seq, queue |-> q, receives |-> m.receives]

Waiting == UNION {{Token(q, m) : m \in visible[q]} : q \in Queues}
Out == UNION {{Token(q, e.stored) : e \in inFlight[q]} : q \in Queues}
Given == 1..(nextId - 1)
Attended == {q \in Queues : subscriptions[q] # 0}

Life == INSTANCE MessageLife WITH
          waiting <- Waiting, out <- Out, used <- Given, attended <- Attended

\* A message waits on one queue, or one receiver has it, or it is gone for good;
\* it goes only by a delete or where nobody reads the queue, and a return, a
\* lapse and a move to the dead-letter queue all keep its id and its receives:
\* receipts, timers and generations implement MessageLife.
KeepsMessages == Life!Spec
=============================================================================
