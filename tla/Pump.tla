-------------------------------- MODULE Pump --------------------------------
(***************************************************************************)
(* The pump of a live subscription (subscriber.rs): a task that receives   *)
(* batches from the queue and sends them into a channel of one, and the    *)
(* stream that drains the channel, message by message or batch by batch.   *)
(*                                                                         *)
(* Messages are numbered as the queue hands them out; a message without a  *)
(* receipt handle is skipped and not part of a batch.                      *)
(***************************************************************************)
EXTENDS Integers, Sequences

CONSTANTS
  Size,         \* Receive.size: how many messages a receive asks for
  Error,        \* an error item
  MaxMessages,  \* bound: messages on the queue
  MaxErrors     \* bound: receives that fail

ASSUME PumpAssumption ==
  /\ Size \in Nat \ {0}
  /\ Error \notin Nat
  /\ MaxMessages \in Nat /\ MaxErrors \in Nat

VARIABLES
  single,    \* whether the consumer took stream or batches
  pump,      \* the task: polling, sending, sleeping or done
  hand,      \* the item the task is sending
  fatal,     \* whether the queue is gone
  channel,   \* the items in the mpsc channel
  rest,      \* what one_at_a_time has still to hand over of its batch
  stream,    \* the consumer's stream: open, dropped, or ended
  received,  \* history: what the receives brought, in order
  handed,    \* history: what the consumer was given, in order
  errors     \* the receives that failed

vars == <<single, pump, hand, fatal, channel, rest, stream, received, handed, errors>>

\* mpsc::channel(1)
Capacity == 1

Items == (1..MaxMessages) \cup {Error}

Init ==
  /\ single \in BOOLEAN
  /\ pump = "polling"
  /\ hand = <<>>
  /\ fatal = FALSE
  /\ channel = <<>>
  /\ rest = <<>>
  /\ stream = "open"
  /\ received = <<>>
  /\ handed = <<>>
  /\ errors = 0

-----------------------------------------------------------------------------
(* The task. *)

\* The number of messages received so far.
Count == Len(received) - errors

\* The queue answers with n messages; a long poll that timed out brings none,
\* and the task polls again.  The select is biased: it does not look at an
\* answer once the channel is closed.
Answer(n) ==
  /\ pump = "polling" /\ stream = "open"
  /\ Count + n <= MaxMessages
  /\ hand' = [i \in 1..n |-> Count + i]
  /\ received' = received \o hand'
  /\ pump' = IF n = 0 THEN "polling" ELSE "sending"
  /\ UNCHANGED <<single, fatal, channel, rest, stream, handed, errors>>

\* The receive fails; the error goes to the consumer like a batch.
Fail(gone) ==
  /\ pump = "polling" /\ stream = "open"
  /\ errors < MaxErrors
  /\ errors' = errors + 1
  /\ fatal' = gone
  /\ hand' = <<Error>>
  /\ received' = Append(received, Error)
  /\ pump' = "sending"
  /\ UNCHANGED <<single, channel, rest, stream, handed>>

\* The select sees that the stream is gone, and the receive is cancelled.
Stop ==
  /\ pump = "polling" /\ stream # "open"
  /\ pump' = "done"
  /\ UNCHANGED <<single, hand, fatal, channel, rest, stream, received,
                 handed, errors>>

AfterPush == IF hand # <<Error>> THEN "polling"
             ELSE IF fatal THEN "done" ELSE "sleeping"

\* Mutant of Push: what does not fit is dropped.
PushOrDrop ==
  /\ pump = "sending" /\ stream = "open"
  /\ channel' = IF Len(channel) < Capacity THEN Append(channel, hand) ELSE channel
  /\ hand' = <<>>
  /\ pump' = AfterPush
  /\ UNCHANGED <<single, fatal, rest, stream, received, handed, errors>>

\* Mutant of Push: a fatal error is retried like any other.
PushRetriesFatal ==
  /\ pump = "sending" /\ stream = "open"
  /\ Len(channel) < Capacity
  /\ channel' = Append(channel, hand)
  /\ hand' = <<>>
  /\ pump' = IF hand = <<Error>> THEN "sleeping" ELSE "polling"
  /\ UNCHANGED <<single, fatal, rest, stream, received, handed, errors>>

\* The channel takes the item: after a batch the task polls again, after an
\* error it backs off, or ends when the queue is gone.
Push ==
  /\ pump = "sending" /\ stream = "open"
  /\ Len(channel) < Capacity
  /\ channel' = Append(channel, hand)
  /\ hand' = <<>>
  /\ pump' = AfterPush
  /\ UNCHANGED <<single, fatal, rest, stream, received, handed, errors>>

\* The send fails because the stream is gone; its messages are dropped.
PushFails ==
  /\ pump = "sending" /\ stream # "open"
  /\ hand' = <<>>
  /\ pump' = "done"
  /\ UNCHANGED <<single, fatal, channel, rest, stream, received, handed,
                 errors>>

BackOffOver ==
  /\ pump = "sleeping"
  /\ pump' = "polling"
  /\ UNCHANGED <<single, hand, fatal, channel, rest, stream, received,
                 handed, errors>>

-----------------------------------------------------------------------------
(* The stream. *)

\* Mutant of Take: the stream ends with the task.
TakeWhilePumping ==
  /\ stream = "open" /\ rest = <<>> /\ channel # <<>> /\ pump # "done"
  /\ channel' = Tail(channel)
  /\ IF single
     THEN rest' = Head(channel) /\ UNCHANGED handed
     ELSE handed' = handed \o Head(channel) /\ UNCHANGED rest
  /\ UNCHANGED <<single, pump, hand, fatal, stream, received, errors>>

\* The consumer polls: the next item leaves the channel, to be handed over at
\* once, or one message at a time.
Take ==
  /\ stream = "open" /\ rest = <<>> /\ channel # <<>>
  /\ channel' = Tail(channel)
  /\ IF single
     THEN rest' = Head(channel) /\ UNCHANGED handed
     ELSE handed' = handed \o Head(channel) /\ UNCHANGED rest
  /\ UNCHANGED <<single, pump, hand, fatal, stream, received, errors>>

HandOne ==
  /\ stream = "open" /\ rest # <<>>
  /\ handed' = Append(handed, Head(rest))
  /\ rest' = Tail(rest)
  /\ UNCHANGED <<single, pump, hand, fatal, channel, stream, received, errors>>

\* The task has dropped the sender, and the channel is drained.
End ==
  /\ stream = "open" /\ rest = <<>> /\ channel = <<>> /\ pump = "done"
  /\ stream' = "ended"
  /\ UNCHANGED <<single, pump, hand, fatal, channel, rest, received, handed,
                 errors>>

\* The consumer drops the stream, and with it what it and the channel hold.
DropStream ==
  /\ stream = "open"
  /\ stream' = "dropped"
  /\ channel' = <<>>
  /\ rest' = <<>>
  /\ UNCHANGED <<single, pump, hand, fatal, received, handed, errors>>

Next ==
  \/ \E n \in 0..Size : Answer(n)
  \/ \E gone \in BOOLEAN : Fail(gone)
  \/ Stop \/ Push \/ PushFails \/ BackOffOver
  \/ Take \/ HandOne \/ End \/ DropStream

\* The runtime polls a task that can go on, and the consumer comes back for
\* more; nothing makes the queue answer.
Fairness ==
  /\ WF_vars(Stop) /\ WF_vars(Push) /\ WF_vars(PushFails) /\ WF_vars(BackOffOver)
  /\ WF_vars(Take) /\ WF_vars(HandOne) /\ WF_vars(End)

Spec == Init /\ [][Next]_vars /\ Fairness

-----------------------------------------------------------------------------
(* What the pump promises. *)

\* Batches and errors that were received and that the consumer has not begun to
\* drain.
Ahead == Len(channel) + (IF hand = <<>> THEN 0 ELSE 1)

\* What subscriber.rs says at its head: the pump "forwards whole batches into a
\* channel that holds one, so it never runs more than one receive ahead of what
\* the consumer drains".  The code does not keep it: with a batch in the channel
\* the task receives another before it waits for room.
AtMostOneAhead == Ahead <= 1

\* Nothing received is lost, repeated or reordered on its way through the task,
\* the channel and the flattened stream: the subscription implements Handoff.
InOrder == INSTANCE Handoff WITH state <- stream
HandsOver == InOrder!Spec

\* The task ends, whatever it was doing, when the stream is dropped ("dropping
\* the stream closes the channel, which ends the pump on its next select"); and
\* a queue that is gone ends the stream, after the error was handed over.
PumpEnds ==
  /\ stream = "dropped" ~> pump = "done"
  /\ fatal ~> stream # "open" /\ (stream = "ended" => handed = received)

\* What was received reaches the consumer, unless it drops the stream.
EventuallyHanded ==
  \A n \in 1..(MaxMessages + MaxErrors) :
    Len(received) >= n ~> Len(handed) >= n \/ stream = "dropped"
=============================================================================
