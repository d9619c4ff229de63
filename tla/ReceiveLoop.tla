---------------------------- MODULE ReceiveLoop ----------------------------
(***************************************************************************)
(* The receive loops of the subscriptions on one in-process queue          *)
(* (BusDeliveries::receive), against everything that makes a message       *)
(* receivable or takes it away under them.  Each await and each            *)
(* acquisition of the account's mutex is a step of its own, so another     *)
(* task may act between the registration, the look at the queue and the    *)
(* receive.  The queue's redrive policy carries a spent message away to    *)
(* another queue.                                                          *)
(***************************************************************************)
EXTENDS Integers, FiniteSets

CONSTANTS
  Receivers,    \* the subscriptions on the queue, one receive loop each
  Size,         \* per receiver: how many messages a receive asks for
  Windowed,     \* the receivers of batches, which wait BATCH_WINDOW for company
  Groups,       \* the message groups, {None} on a standard queue
  None,
  MaxReceives,  \* max_receive_count of the queue's policy
  MaxMessages   \* bound: messages published

ASSUME LoopAssumption ==
  /\ Size \in [Receivers -> Nat \ {0}]
  /\ Windowed \subseteq Receivers
  /\ MaxReceives \in Nat /\ MaxMessages \in Nat

VARIABLES
  pc,         \* where each loop is
  notified,   \* whether a receiver's Notified was notified since it was made
  batch,      \* what a receiver's last receive handed over
  visible,    \* Queue.visible
  inFlight,   \* the messages of Queue.in_flight
  published   \* how many messages were published

vars == <<pc, notified, batch, visible, inFlight, published>>

Message == [seq : Nat, group : Groups, receives : Nat]

\* idle: about to register.  registered: about to look.  empty: about to await.
\* waiting: awaiting the notification.  window: asleep for BATCH_WINDOW.
\* ready: about to receive.  busy: a batch was handed over.
Points == {"idle", "registered", "empty", "waiting", "window", "ready", "busy",
           "closed"}

Init ==
  /\ pc = [r \in Receivers |-> "idle"]
  /\ notified = [r \in Receivers |-> FALSE]
  /\ batch = [r \in Receivers |-> {}]
  /\ visible = {}
  /\ inFlight = {}
  /\ published = 0

-----------------------------------------------------------------------------
(* The queue. *)

Eligible ==
  {m \in visible : m.group = None \/ \A f \in inFlight : f.group # m.group}

\* receive looks at the eligible messages in order until it holds `size` that
\* the policy has not run out for.
Taken(size) ==
  {m \in Eligible :
     Cardinality({f \in Eligible : f.receives < MaxReceives /\ f.seq < m.seq})
       < size}

\* notify_waiters: every Notified made so far.
NotifyWaiters == notified' = [r \in Receivers |-> TRUE]

\* enqueue: a queue without subscriptions drops the message.
Enqueue(m) ==
  IF \A r \in Receivers : pc[r] = "closed"
  THEN UNCHANGED <<visible, notified>>
  ELSE visible' = visible \cup {m} /\ NotifyWaiters

Publish(group) ==
  /\ published < MaxMessages
  /\ published' = published + 1
  /\ Enqueue([seq |-> published, group |-> group, receives |-> 0])
  /\ UNCHANGED <<pc, batch, inFlight>>

\* Bus::delete: a group that waited for the message is receivable now.
Delete(m) ==
  /\ inFlight' = inFlight \ {m}
  /\ NotifyWaiters
  /\ UNCHANGED <<pc, batch, visible, published>>

\* A message comes back: change_visibility to zero, or a timer's lapse.
Return(m) ==
  /\ inFlight' = inFlight \ {m}
  /\ Enqueue(m)
  /\ UNCHANGED <<pc, batch, published>>

-----------------------------------------------------------------------------
(* The loop of a receiver. *)

Goto(r, point) == pc' = [pc EXCEPT ![r] = point]

\* Interest is registered before the queue is read.
Register(r) ==
  /\ pc[r] = "idle"
  /\ notified' = [notified EXCEPT ![r] = FALSE]
  /\ Goto(r, "registered")
  /\ UNCHANGED <<batch, visible, inFlight, published>>

\* Bus::receivable, and what the loop makes of it.
Look(r) ==
  LET ready == Cardinality(Eligible)
  IN  /\ pc[r] = "registered"
      /\ \/ ready = 0 /\ Goto(r, "empty")
         \/ ready > 0 /\ r \in Windowed /\ ready < Size[r] /\ Goto(r, "window")
         \/ ready > 0 /\ ~(r \in Windowed /\ ready < Size[r]) /\ Goto(r, "ready")
      /\ UNCHANGED <<notified, batch, visible, inFlight, published>>

\* Mutant of Await: interest is registered only here.
AwaitRegisters(r) ==
  /\ pc[r] = "empty"
  /\ Goto(r, "waiting")
  /\ notified' = [notified EXCEPT ![r] = FALSE]
  /\ UNCHANGED <<batch, visible, inFlight, published>>

Await(r) ==
  /\ pc[r] = "empty"
  /\ Goto(r, "waiting")
  /\ UNCHANGED <<notified, batch, visible, inFlight, published>>

Wake(r) ==
  /\ pc[r] = "waiting" /\ notified[r]
  /\ Goto(r, "idle")
  /\ UNCHANGED <<notified, batch, visible, inFlight, published>>

WindowOver(r) ==
  /\ pc[r] = "window"
  /\ Goto(r, "ready")
  /\ UNCHANGED <<notified, batch, visible, inFlight, published>>

Counted(m) == [m EXCEPT !.receives = @ + 1]

\* Mutant of Receive: the loop returns whatever it received.
ReceiveAny(r) ==
  LET taken  == Taken(Size[r])
      handed == {Counted(m) : m \in {t \in taken : t.receives < MaxReceives}}
  IN  /\ pc[r] = "ready"
      /\ visible' = visible \ taken
      /\ inFlight' = inFlight \cup handed
      /\ batch' = [batch EXCEPT ![r] = handed]
      /\ Goto(r, "busy")
      /\ UNCHANGED <<notified, published>>

\* Mutant of Receive: a spent message is passed over and stays visible.
ReceiveKeepsSpent(r) ==
  LET taken  == {t \in Taken(Size[r]) : t.receives < MaxReceives}
      handed == {Counted(m) : m \in taken}
  IN  /\ pc[r] = "ready"
      /\ visible' = visible \ taken
      /\ inFlight' = inFlight \cup handed
      /\ IF handed = {}
         THEN Goto(r, "idle") /\ UNCHANGED batch
         ELSE Goto(r, "busy") /\ batch' = [batch EXCEPT ![r] = handed]
      /\ UNCHANGED <<notified, published>>

\* Bus::receive.  Another subscription may have taken what was there, or the
\* policy carries it away: the loop then starts over.
Receive(r) ==
  LET taken  == Taken(Size[r])
      handed == {Counted(m) : m \in {t \in taken : t.receives < MaxReceives}}
  IN  /\ pc[r] = "ready"
      /\ visible' = visible \ taken
      /\ inFlight' = inFlight \cup handed
      /\ IF handed = {}
         THEN Goto(r, "idle") /\ UNCHANGED batch
         ELSE Goto(r, "busy") /\ batch' = [batch EXCEPT ![r] = handed]
      /\ UNCHANGED <<notified, published>>

\* The consumer asks for the next batch.
Poll(r) ==
  /\ pc[r] = "busy"
  /\ Goto(r, "idle")
  /\ batch' = [batch EXCEPT ![r] = {}]
  /\ UNCHANGED <<notified, visible, inFlight, published>>

\* The subscription is dropped, at any await of its loop or between two polls.
\* The last one takes what is visible with it.
Close(r) ==
  /\ pc[r] \in {"idle", "waiting", "window", "busy"}
  /\ Goto(r, "closed")
  /\ batch' = [batch EXCEPT ![r] = {}]
  /\ visible' = IF \A s \in Receivers \ {r} : pc[s] = "closed"
                THEN {} ELSE visible
  /\ UNCHANGED <<notified, inFlight, published>>

Step(r) ==
  \/ Register(r) \/ Look(r) \/ Await(r) \/ Wake(r) \/ WindowOver(r)
  \/ Receive(r) \/ Poll(r)

Settle(m) == Delete(m) \/ Return(m)

Next ==
  \/ \E group \in Groups : Publish(group)
  \/ \E m \in inFlight : Settle(m)
  \/ \E r \in Receivers : Step(r) \/ Close(r)

\* The executor polls a task that is ready, the consumer comes back for more,
\* and every delivery is settled, dropped and lapsed, or deleted in the end.
Fairness ==
  /\ \A r \in Receivers : WF_vars(Step(r))
  /\ WF_vars(\E m \in inFlight : Settle(m))

Spec == Init /\ [][Next]_vars /\ Fairness

-----------------------------------------------------------------------------
(* What the loop promises. *)

\* No wakeup is missed: a loop that sleeps unnotified has nothing to receive
\* ("a message arriving in between still wakes the wait below").
NoMissedWakeup ==
  \A r \in Receivers :
    pc[r] \in {"empty", "waiting"} /\ ~notified[r] => Eligible = {}

\* A batch is never empty and never larger than was asked for, although other
\* subscriptions and the policy take messages between the look and the receive.
BatchInBounds ==
  \A r \in Receivers : pc[r] = "busy" =>
    batch[r] # {} /\ Cardinality(batch[r]) <= Size[r]

\* Every visible message is received in the end, carried away by the policy, or
\* dropped with the last subscription: no interleaving of arrivals, settlements
\* and loops leaves it lying on a queue somebody reads.
EventuallyReceived ==
  \A id \in 0..(MaxMessages - 1) :
    (\E m \in visible : m.seq = id) ~> (\A m \in visible : m.seq # id)
=============================================================================
