---------------------------- MODULE MessageLife ----------------------------
(***************************************************************************)
(* What the account promises of a message, whatever receipts, timers,      *)
(* groups and policies are behind it: it is waiting on one queue, or one   *)
(* receiver has it, or it is gone for good.  It goes only where a receiver *)
(* deletes it or where nobody attends to the queue it would wait on, and   *)
(* it is counted every time it is received, also across a move to another  *)
(* queue.                                                                  *)
(***************************************************************************)
EXTENDS Naturals

CONSTANT Queues

VARIABLES
  waiting,   \* the messages a receive may take
  out,       \* the messages a receiver has
  used,      \* the ids given out: an id is never given out again
  attended   \* the queues somebody reads

vars == <<waiting, out, used, attended>>

Init == waiting = {} /\ out = {} /\ used = {} /\ attended = {}

Attend(q) ==
  /\ attended' = attended \cup {q}
  /\ UNCHANGED <<waiting, out, used>>

\* The last reader leaves, and what waits on its queue goes with it.
Abandon(q) ==
  /\ attended' = attended \ {q}
  /\ waiting' = {m \in waiting : m.queue # q}
  /\ UNCHANGED <<out, used>>

\* Every message that is taken is for one queue, and waits there if the queue is
\* attended.
Accept ==
  /\ used \subseteq used'
  /\ \E for \in [used' \ used -> Queues] :
       waiting' = waiting \cup
         {[id |-> i, queue |-> for[i], receives |-> 0] :
            i \in {j \in used' \ used : for[j] \in attended}}
  /\ UNCHANGED <<out, attended>>

\* A receive hands out some of what waits on its queue and moves some to another.
\* It gives out ids too: those of its receipts.
Receive(q) ==
  /\ used \subseteq used'
  /\ \E handed, moved \in SUBSET {m \in waiting : m.queue = q}, to \in Queues :
       /\ handed \cap moved = {}
       /\ waiting' = (waiting \ (handed \cup moved)) \cup
            {[m EXCEPT !.queue = to] : m \in {n \in moved : to \in attended}}
       /\ out' = out \cup {[m EXCEPT !.receives = @ + 1] : m \in handed}
  /\ UNCHANGED attended

\* A message comes back to its queue, as often received as it was.
Return(m) ==
  /\ out' = out \ {m}
  /\ waiting' = waiting \cup {n \in {m} : n.queue \in attended}
  /\ UNCHANGED <<used, attended>>

Delete(m) ==
  /\ out' = out \ {m}
  /\ UNCHANGED <<waiting, used, attended>>

Next ==
  \/ \E q \in Queues : Attend(q) \/ Abandon(q)
  \/ Accept
  \/ \E q \in attended : Receive(q)
  \/ \E m \in out : Return(m) \/ Delete(m)

Spec == Init /\ [][Next]_vars
=============================================================================
