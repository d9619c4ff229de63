------------------------------ MODULE Mounting ------------------------------
(***************************************************************************)
(* What a service built on the crate consists of: registrations with their *)
(* handlers, startup hooks, and the builder calls of the descriptor and of *)
(* the framework that the examples write them with.  What a handler reads  *)
(* of a message is its kind.                                               *)
(***************************************************************************)
EXTENDS Naturals, Sequences

CONSTANTS
  Queues,       \* every queue a service names
  Topics,       \* every topic a service names
  Kinds,        \* the messages the handlers tell apart
  None,         \* no queue, no policy, no send
  MaxReceives   \* bound: a receive count the handlers tell apart

Outcomes == {"ack", "drop", "retry", "later"}

\* What is published.  group: the FIFO group, of the message's customer or of
\* the replay.  named: the call itself names a group or a deduplication id,
\* which only FIFO destinations take.  dedup: the id of the message is the
\* deduplication id.
Sends == [to : Queues \cup Topics, group : {"customer", "replay"}, named : BOOLEAN,
          dedup : BOOLEAN]

\* A handler's decision: the send it makes if any, how it settles when that is
\* made, refused for want of a FIFO destination, or failed; and whether it
\* records the id of the message in its state after the send.
Decisions ==
  [send : Sends \cup {None}, then : Outcomes, refused : Outcomes,
   failed : Outcomes, records : BOOLEAN]

Receives == 1..MaxReceives

Handlers == [Kinds \X Receives \X BOOLEAN -> Decisions]

Registrations ==
  [queue : Queues, handler : Handlers, create : BOOLEAN, wait : Nat,
   visibility : Nat \cup {None}, max : Receives \cup {None},
   dead : Queues \cup {None}, workers : {"one", "many", "by_key"}]

\* A hook links a queue to a topic, or sends what an earlier run left.
LinkHooks == [topic : Topics, queue : Queues]
ReplayHooks == [send : Sends]
Hooks == LinkHooks \cup ReplayHooks

Services ==
  [subs : Seq(Registrations), hooks : Seq(Hooks), kinds : SUBSET Kinds]

-----------------------------------------------------------------------------
(* What the examples build services from. *)

\* HandlerOutcome: the handler decides without a publish.
Outcome(o) == [send |-> None, then |-> o, refused |-> o, failed |-> o, records |-> FALSE]

Ack == Outcome("ack")

\* A publish whose success acks.
Publishing(send, otherwise) ==
  [send |-> send, then |-> "ack", refused |-> otherwise, failed |-> otherwise,
   records |-> FALSE]

To(destination) ==
  [to |-> destination, group |-> "customer", named |-> FALSE, dedup |-> FALSE]

Grouped(destination) == [To(destination) EXCEPT !.named = TRUE]

Deduplicated(destination) == [Grouped(destination) EXCEPT !.dedup = TRUE]

\* The reply of a handler, which the framework publishes before it acks, and
\* retries the message for when it cannot.
Reply(destination) == Publishing(To(destination), "retry")

\* A handler, as the table of what it decides for a kind of message, a receive
\* count and whether the id was recorded.
Handler(Decide(_, _, _)) ==
  [c \in Kinds \X (1..MaxReceives) \X BOOLEAN |-> Decide(c[1], c[2], c[3])]

Always(decision) == Handler(LAMBDA kind, receives, known : decision)

\* Drops what is bad, and decides as told for the rest.
DropsBad(decision) ==
  Handler(LAMBDA kind, receives, known :
            IF kind = "bad" THEN Outcome("drop") ELSE decision)

\* #[subscriber(SqsQueue::new(queue))] with the descriptor's defaults.
Subscriber(queue, handler) ==
  [queue |-> queue, handler |-> handler, create |-> FALSE, wait |-> 20, visibility |-> None,
   max |-> None, dead |-> None, workers |-> "one"]

CreateIfMissing(r) == [r EXCEPT !.create = TRUE]

Wait(r, seconds) == [r EXCEPT !.wait = seconds]

Visibility(r, seconds) == [r EXCEPT !.visibility = seconds]

\* max_attempts(..).dead_letter(..) at the mount site.
DeadLetter(r, attempts, queue) == [r EXCEPT !.max = attempts, !.dead = queue]

Workers(r, lanes) == [r EXCEPT !.workers = lanes]

\* subscribe_queue_to_topic in a hook.
Link(topic, queue) == [topic |-> topic, queue |-> queue]

App(subs, kinds) == [subs |-> subs, hooks |-> <<>>, kinds |-> kinds]

AfterStartup(app, hooks) == [app EXCEPT !.hooks = hooks]

\* One registration whose handler acks whatever comes.
Plain(r) == App(<<r>>, {"good"})
=============================================================================
