---------------------------- MODULE MCAccount ----------------------------
(* Small instances of Account for TLC. *)
EXTENDS Account, TLC

CONSTANTS work, dead,   \* standard queues: one served, one its dead-letter queue
          orders, fdead,  \* the same, FIFO
          topic, ftopic

Reg(q, policy, v) == [queue |-> q, redrive |-> policy, visibility |-> v]

To(max, q) == [max |-> max, queue |-> q]

\* One policy, and a reader of the dead-letter queue.
DeadLetterRegs == {Reg(work, To(1, dead), 2), Reg(dead, None, 2)}

\* A FIFO queue with a policy, a reader of its dead-letter queue, and a standard
\* queue.
MixedRegs == {Reg(orders, To(1, fdead), 2), Reg(fdead, None, 2), Reg(work, None, 2)}

Reading(q) == {s \in Subscriptions : sub[s].phase # "closed" /\ sub[s].reg.queue = q}

Remembered ==
  {d.id : d \in UNION ({dedup[q] : q \in Queues} \cup {topicDedup[t] : t \in Topics})}

\* Two readers and two groups over a policy and its moves: within one tick,
\* without topics, and with nothing sent to the dead-letter queue itself.
OrderScene ==
  /\ now = 0 /\ Reading(work) = {} /\ dedup[fdead] = {}
  /\ \A n \in Topics \cup {work} : log[n] = 0
  /\ \A t \in Topics : topics[t] = <<>>

\* Topics and direct sends, to a standard and a FIFO queue with one reader: under
\* one deduplication id, with nothing received, and time past the window.
FanOutScene ==
  /\ handles = {} /\ nextId <= 5
  /\ log[fdead] = 0 /\ Reading(fdead) = {}
  /\ Cardinality(Reading(work) \cup Reading(orders)) <= 1
  /\ \A t \in Topics : \A i \in DOMAIN topics[t] : topics[t][i] # fdead
  /\ Cardinality(Remembered) <= 1

\* A model constraint: a state of neither scene is not explored further.  Both
\* begin in the initial state.
OneScene == OrderScene \/ FanOutScene

\* No definition distinguishes the members of these sets.
Readers == Permutations(Subscriptions)

FifoSymmetry == Permutations(Subscriptions) \cup Permutations(Groups)
                  \cup Permutations(DedupIds)
=============================================================================
