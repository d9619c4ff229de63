------------------------------ MODULE Extender ------------------------------
(***************************************************************************)
(* One live delivery: the task that keeps extending its visibility         *)
(* (extend_visibility), the settlement that aborts the task, and the       *)
(* queue's side of their calls (message.rs; the times of the receive come  *)
(* from subscriber.rs).  Calls travel: a call acts on the queue some ticks *)
(* after it was sent, in any order, or is lost once the SDK gives up.      *)
(***************************************************************************)
EXTENDS Visibility

CONSTANTS
  Visibilities,  \* the timeouts a queue may have, in ticks
  Delays,        \* delays a handler may ask of nack_after, in ticks
  None,          \* no call, no promise
  MaxPoll,       \* bound: ticks from sending a receive to the queue's answer
  MaxTrip,       \* bound: ticks of a call's way there, and of the way back
  MaxLate,       \* bound: ticks the runtime runs a timer late
  MaxFailures,   \* bound: calls that fail
  MaxTime        \* bound: ticks

\* Timeouts are whole seconds, and a tick divides the half of one.
ASSUME VisibilityAssumption ==
  \A v \in Visibilities : v \in Nat /\ v % 2 = 0 /\ v % Second = 0

ASSUME CallAssumption ==
  /\ MaxPoll \in Nat /\ MaxTrip \in Nat /\ MaxLate \in Nat
  /\ MaxFailures \in Nat /\ MaxTime \in Nat
  /\ Delays \subseteq Nat
  /\ None \notin Nat

\* WINDOW_MARGIN covers a call's own trip, and the other half of a timeout the
\* round trip of an extension and what its timer is late.
ASSUME TripAssumption ==
  /\ MaxTrip <= Margin
  /\ \A v \in Visibilities : v # 0 => (v \div 2) + MaxLate + 2 * MaxTrip < v

VARIABLES
  now,
  asked,       \* SqsMessage.received: when the receive was sent
  received,    \* when the queue answered it: its window runs from here
  visibility,  \* Hold.visibility
  deadline,    \* when the queue makes the message visible again
  queue,       \* the message on the queue: hidden, handedOn or deleted
  handle,      \* the SqsMessage: held, settling or gone
  ext,         \* the extender task: its phase, and the moment it counts from
  rearm,       \* the Extension the task works on: its seconds, and if it is last
  wire,        \* the calls on their way, by who sent them
  promise,     \* history: a retry_after that landed is not to come back before
  punctual,    \* history: no call and no timer has taken any time yet
  failures     \* calls that failed

vars == <<now, asked, received, visibility, deadline, queue, handle, ext, rearm,
          wire, promise, punctual, failures>>

Senders == {"extender", "settlement"}

\* A call: DeleteMessage, or ChangeMessageVisibility to v ticks; for a
\* deferred retry also the moment before which it is not to come back.
Call == [delete : BOOLEAN, v : Nat, notBefore : Nat \cup {None}, sent : Nat]

ASSUME NoCallAssumption == None \notin Call

Extensions == [seconds : Nat, last : BOOLEAN]

Phases == {"asleep", "woken", "waiting", "answered", "ended"}

TaskAt(phase, at) == [phase |-> phase, at |-> at]

\* The receive has been answered and the message made: its task sleeps first,
\* unless there is no invisibility to extend.
Init ==
  /\ asked = 0
  /\ received \in 0..MaxPoll
  /\ now \in received..(received + MaxTrip)
  /\ visibility \in Visibilities
  /\ deadline = received + visibility
  /\ queue = "hidden"
  /\ handle = "held"
  /\ ext = IF visibility = 0 THEN TaskAt("ended", now)
           ELSE TaskAt("asleep", now + Period(visibility))
  /\ rearm = [seconds |-> 0, last |-> FALSE]
  /\ wire = [s \in Senders |-> None]
  /\ promise = None
  /\ punctual = (now = asked)
  /\ failures = 0

-----------------------------------------------------------------------------
(* The extender. *)

Elapsed == now - asked

\* extension: a full timeout, or what is left of the window for the last time.
Extension(full, left) ==
  IF full < left THEN [seconds |-> full, last |-> FALSE]
                 ELSE [seconds |-> left, last |-> TRUE]

\* The sleep is over: the task works out the next extension.
Wake ==
  /\ ext.phase = "asleep" /\ now >= ext.at
  /\ rearm' = Extension(visibility \div Second, SecondsLeft(Elapsed))
  /\ ext' = TaskAt("woken", now)
  /\ UNCHANGED <<now, asked, received, visibility, deadline, queue, handle,
                 wire, promise, punctual, failures>>

\* The task sends it.  An abort that came while the task was running takes
\* effect at its next await, with the call already out.
Extend ==
  /\ ext.phase = "woken"
  /\ IF rearm.seconds > 0
     THEN /\ wire' = [wire EXCEPT !["extender"] =
               [delete |-> FALSE, v |-> Second * rearm.seconds,
                notBefore |-> None, sent |-> now]]
          /\ ext' = TaskAt(IF handle = "held" THEN "waiting" ELSE "ended", now)
     ELSE /\ ext' = TaskAt(IF handle = "held" THEN "answered" ELSE "ended", now)
          /\ UNCHANGED wire
  /\ UNCHANGED <<now, asked, received, visibility, deadline, queue, handle,
                 rearm, promise, punctual, failures>>

\* The answer, or the failure, reaches the task; a failed extension is only
\* logged.
Resume ==
  /\ ext.phase = "answered"
  /\ ext' = IF rearm.last THEN TaskAt("ended", now)
            ELSE TaskAt("asleep", now + Period(visibility))
  /\ UNCHANGED <<now, asked, received, visibility, deadline, queue, handle,
                 rearm, wire, promise, punctual, failures>>

-----------------------------------------------------------------------------
(* The settlement. *)

\* stop_extending: a task at an await ends; one that is running goes on to it.
StopExtending ==
  ext' = IF ext.phase = "woken" THEN ext ELSE TaskAt("ended", now)

Settle(delete, v, notBefore) ==
  /\ handle = "held"
  /\ handle' = "settling"
  /\ StopExtending
  /\ wire' = [wire EXCEPT !["settlement"] =
       [delete |-> delete, v |-> v, notBefore |-> notBefore, sent |-> now]]
  /\ UNCHANGED <<now, asked, received, visibility, deadline, queue, rearm,
                 promise, punctual, failures>>

Ack == Settle(TRUE, 0, None)

Nack(requeue, spent) == Settle(~(requeue \/ spent), 0, None)

\* The delay in whole seconds, cut to what is left of the window.
NackAfter(delay) ==
  LET requested == WholeSeconds(delay)
      left      == SecondsLeft(Elapsed)
  IN  Settle(FALSE, Second * Min2(requested, left),
             IF requested > left THEN None ELSE now + delay)

\* The drop of an unsettled SqsMessage.
Drop ==
  /\ handle = "held"
  /\ handle' = "gone"
  /\ StopExtending
  /\ UNCHANGED <<now, asked, received, visibility, deadline, queue, rearm, wire,
                 promise, punctual, failures>>

-----------------------------------------------------------------------------
(* The queue, and the way to it. *)

\* A call that is over: the extender that waits for it is answered, a
\* settlement lets go of the delivery.
Answer(s) ==
  /\ wire' = [wire EXCEPT ![s] = None]
  /\ ext' = IF s = "extender" /\ ext.phase = "waiting"
            THEN TaskAt("answered", now) ELSE ext
  /\ handle' = IF s = "settlement" THEN "gone" ELSE handle

\* A call acts on the queue, which refuses a change past its window.
Land(s) ==
  /\ wire[s] # None
  /\ LET call    == wire[s]
         refused == \/ queue # "hidden"
                    \/ call.v > 0 /\ (now - received) + call.v > Window
     IN  /\ queue' = IF ~refused /\ call.delete THEN "deleted" ELSE queue
         /\ deadline' = IF refused \/ call.delete THEN deadline ELSE now + call.v
         /\ promise' = IF refused THEN promise
                       ELSE IF call.notBefore # None THEN call.notBefore
                       ELSE promise
  /\ Answer(s)
  /\ UNCHANGED <<now, asked, received, visibility, rearm, punctual, failures>>

\* The SDK gives up on a call.
Lose(s) ==
  /\ wire[s] # None
  /\ failures < MaxFailures
  /\ failures' = failures + 1
  /\ Answer(s)
  /\ UNCHANGED <<now, asked, received, visibility, deadline, queue, rearm,
                 promise, punctual>>

\* The timeout has run out, and another consumer receives the message.
HandOn ==
  /\ queue = "hidden" /\ now >= deadline
  /\ queue' = "handedOn"
  /\ UNCHANGED <<now, asked, received, visibility, deadline, handle, ext, rearm,
                 wire, promise, punctual, failures>>

\* A tick that an extension or its timer spends.
TakesTime ==
  \/ ext.phase \in {"waiting", "answered"}
  \/ ext.phase = "asleep" /\ now >= ext.at

\* Time passes, but no call travels and no timer waits past its bound.
Tick ==
  /\ now < MaxTime
  /\ \A s \in Senders : wire[s] # None => now < wire[s].sent + MaxTrip
  /\ ext.phase = "asleep" => now < ext.at + MaxLate
  /\ ext.phase = "answered" => now < ext.at + MaxTrip
  /\ ext.phase # "woken"
  /\ now' = now + 1
  /\ punctual' = (punctual /\ ~TakesTime)
  /\ UNCHANGED <<asked, received, visibility, deadline, queue, handle, ext,
                 rearm, wire, promise, failures>>

Next ==
  \/ Wake \/ Extend \/ Resume
  \/ Ack
  \/ \E requeue, spent \in BOOLEAN : Nack(requeue, spent)
  \/ \E delay \in Delays : NackAfter(delay)
  \/ Drop
  \/ \E s \in Senders : Land(s) \/ Lose(s)
  \/ HandOn
  \/ Tick

Spec == Init /\ [][Next]_vars

-----------------------------------------------------------------------------
(* What the extender promises. *)

\* The shape of the state.
TypeOK ==
  /\ now \in Nat /\ asked \in Nat /\ received \in Nat /\ deadline \in Nat
  /\ visibility \in Visibilities
  /\ queue \in {"hidden", "handedOn", "deleted"}
  /\ handle \in {"held", "settling", "gone"}
  /\ ext \in [phase : Phases, at : Nat]
  /\ rearm \in Extensions
  /\ wire \in [Senders -> Call \cup {None}]
  /\ promise \in Nat \cup {None}
  /\ punctual \in BOOLEAN
  /\ failures \in Nat

\* No visibility change is refused at the edge of the twelve hours: the window
\* counted from before the receive, less the margin, lands inside the queue's
\* own (window_left, WINDOW_MARGIN).
NeverRefused ==
  \A s \in Senders :
    wire[s] # None /\ wire[s].v > 0 => (now - received) + wire[s].v <= Window

\* A delivery whose extensions get through is not handed to another consumer
\* while it is held, up to the last second before the end of the window
\* (extend_visibility, extension_period).
HiddenWhileHeld ==
  /\ handle = "held" /\ failures = 0 /\ visibility # 0
  /\ Elapsed < (Window - Margin) - Second
  => queue = "hidden" /\ now < deadline

\* A drop of the in-process delivery leaves the message invisible "as a live
\* delivery does" (remaining_visibility), up to the second the live lane's last
\* extension rounds off: with calls that take no time, the two lanes agree.  A
\* timeout that reaches into the margin is left out: the live queue starts with
\* all of it, the in-process drop stops short of the margin at once.
LanesAgree ==
  /\ handle = "held" /\ punctual /\ failures = 0
  /\ Elapsed <= Window - Margin
  /\ visibility # 0 /\ visibility <= Window - Margin
  /\ ext.phase \in {"asleep", "ended"} /\ (ext.phase = "asleep" => now < ext.at)
  => LET inProcess == now + Remaining(visibility, Elapsed)
     IN  IF rearm.last THEN inProcess \in deadline..(deadline + Second - 1)
                       ELSE inProcess = deadline

-----------------------------------------------------------------------------
(* What the documents say of it, and it does not do. *)

\* "retry_after(d) counts the delay in whole seconds, rounded up, so the message
\* never comes back before d" (docs/architecture/settlement.md): nor does a
\* later call move it.
NotBeforeDelay ==
  promise # None /\ queue = "hidden" => deadline >= promise
=============================================================================
