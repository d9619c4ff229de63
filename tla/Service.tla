------------------------------ MODULE Service ------------------------------
(***************************************************************************)
(* A service built on the crate, from its start to its crash and back: the *)
(* registrations are opened in order, the startup hooks run, messages are  *)
(* received, handled and settled, one send of a handler and one settlement *)
(* at a time, while the process may stop between any two of them.          *)
(*                                                                         *)
(* What a service is comes from the Catalogue: the registrations, hooks    *)
(* and handlers of the repository's examples (modules Examples and         *)
(* ManualExamples).  A handler is the table of what it decides for a kind  *)
(* of message, a receive count and whether the message's id is in the      *)
(* state it keeps.                                                         *)
(*                                                                         *)
(* The queues are those of AWS, as far as the crate's documents rely on    *)
(* them: at-least-once delivery, message groups, deduplication ids and     *)
(* redrive policies.  The dispatch of messages to handlers is the          *)
(* framework's, of which the examples use the number of workers.           *)
(***************************************************************************)
EXTENDS Mounting, FiniteSets

CONSTANTS
  Catalogue,    \* the services, by name
  FifoNames,    \* the names that end in .fifo
  Idempotent,   \* per service: the queues said to get one message for an input
  MaxInputs,    \* bound, per service: messages from outside
  MaxFaults     \* bound, per service: failed requests, crashes, lost extensions

ASSUME CatalogueAssumption ==
  \A s \in DOMAIN Catalogue : Catalogue[s] \in Services

\* What the proofs ask of a service: no two registrations share a queue, a send
\* that was not made is never acked, and all that a handler records, it sent to
\* the one destination it owes a message.
ASSUME HandlerAssumption ==
  \A s \in DOMAIN Catalogue : LET subs == Catalogue[s].subs IN
    /\ \A i, j \in DOMAIN subs : subs[i].queue = subs[j].queue => i = j
    /\ \A i \in DOMAIN subs : \A c \in Kinds \X Receives \X BOOLEAN :
         LET d == subs[i].handler[c] IN
         d.send # None =>
           /\ d.failed # "ack" /\ d.refused # "ack"
           /\ \A e \in Kinds \X Receives \X BOOLEAN :
                LET r == subs[i].handler[e] IN
                r.records => r.send # None /\ r.send.to = d.send.to

ASSUME IdempotentAssumption == Idempotent \in [DOMAIN Catalogue -> SUBSET Queues]

\* A FIFO queue is read in the order of its groups, by one worker or by one per
\* group, and holds no dead letters of another queue of the service.
ASSUME OrderAssumption ==
  \A s \in DOMAIN Catalogue : LET subs == Catalogue[s].subs IN
    \A i, j \in DOMAIN subs :
      subs[i].queue \in FifoNames => subs[i].workers # "many" /\ subs[j].dead # subs[i].queue

ASSUME NameAssumption ==
  /\ Queues \cap Topics = {}
  /\ None \notin Queues \cup Topics \cup Sends \cup Nat \cup [max : Nat, dead : Queues]

ASSUME KindAssumption == Kinds # {}

ASSUME BoundAssumption ==
  /\ MaxReceives \in Nat \ {0}
  /\ {MaxInputs, MaxFaults} \subseteq [DOMAIN Catalogue -> Nat]

VARIABLES
  name,      \* the service that runs
  phase,     \* of the process
  opened,    \* registrations opened since the start
  hooked,    \* hooks done since the start
  exists,    \* the queues of the account
  policies,  \* the redrive policy of each queue
  links,     \* the queues subscribed to topics
  store,     \* the messages on the queues
  seen,      \* deduplication ids the queues remember
  inbox,     \* deliveries received and not yet handled
  running,   \* deliveries in a handler
  booked,    \* the ids in the state the handlers share, by queue
  inputs,    \* kinds of the messages that came from outside, by id
  sends,     \* publishes so far
  faults,    \* faults so far
  sent,      \* history: the ids each destination accepted
  arrived,   \* history: the messages that reached a queue
  acked,     \* history: deliveries whose ack deleted the message
  dropped,   \* history: deliveries whose drop deleted the message
  begun,     \* history: the messages of FIFO queues by their first run
  forgotten  \* history: deduplication ids whose window has passed

account == <<exists, policies, links, store, seen>>
process == <<phase, opened, hooked, inbox, running, booked>>
history == <<sent, arrived, acked, dropped, begun, forgotten>>
vars == <<name, phase, opened, hooked, exists, policies, links, store, seen, inbox, running,
          booked, inputs, sends, faults, sent, arrived, acked, dropped, begun, forgotten>>

Messages ==
  [no : Nat, to : Queues, id : Nat, kind : Kinds, group : {"customer", "replay"}]

\* A message on a queue, in flight when hidden.
Entries == [m : Messages, queue : Queues, receives : 0..MaxReceives, hidden : BOOLEAN]

Deliveries == [m : Messages, queue : Queues, receives : Receives]

\* known: the id was recorded when the handler began.  settle: the outcome, once
\* the handler has it.
Runs == [m : Messages, queue : Queues, receives : Receives, known : BOOLEAN,
         settle : Outcomes \cup {"sending"}]

-----------------------------------------------------------------------------
(* The service that runs. *)

Subs == Catalogue[name].subs

Hooking == Catalogue[name].hooks

Registered == {Subs[i].queue : i \in DOMAIN Subs}

Registration(q) == Subs[CHOOSE i \in DOMAIN Subs : Subs[i].queue = q]

Decision(q, kind, receives, known) == Registration(q).handler[<<kind, receives, known>>]

Fifo(n) == n \in FifoNames

Destinations ==
  {d.send.to : d \in {e \in UNION {{Subs[i].handler[c] : c \in DOMAIN Subs[i].handler} :
                                     i \in DOMAIN Subs} : e.send # None}}

\* The queues the service itself fills, and those it is given messages on.
Filled ==
  Queues \cap (Destinations \cup {Subs[i].dead : i \in DOMAIN Subs}
    \cup {Hooking[i].queue : i \in {j \in DOMAIN Hooking : Hooking[j] \in LinkHooks}}
    \cup {Hooking[i].send.to : i \in {j \in DOMAIN Hooking : Hooking[j] \in ReplayHooks}})

InputQueues == Registered \ Filled

\* A fresh account has no queues, a provisioned one has all the service names.
Init ==
  /\ name \in DOMAIN Catalogue
  /\ phase = "down" /\ opened = 0 /\ hooked = 0
  /\ exists \in {{}, Registered \cup Filled}
  /\ policies = [q \in Queues |-> None]
  /\ links = {} /\ store = {} /\ seen = {}
  /\ inbox = {} /\ running = {} /\ booked = {}
  /\ inputs = <<>> /\ sends = 0 /\ faults = 0
  /\ sent = {} /\ arrived = {} /\ acked = {} /\ dropped = {} /\ begun = <<>>
  /\ forgotten = {}

Fault == faults < MaxFaults[name] /\ faults' = faults + 1

-----------------------------------------------------------------------------
(* Startup. *)

\* The state the handlers share is made anew by the start.
Start ==
  /\ phase = "down"
  /\ phase' = "opening" /\ opened' = 0 /\ hooked' = 0 /\ booked' = {}
  /\ UNCHANGED <<name, inbox, running, account, inputs, sends, faults, history>>

\* The caps on a descriptor, in seconds.
MAX_WAIT == 20
MaxVisibility == 12 * 60 * 60

\* What a descriptor is refused for before any request.
Valid(r) ==
  /\ r.wait <= MAX_WAIT
  /\ r.visibility = None \/ r.visibility \in 1..MaxVisibility
  /\ (r.max = None <=> r.dead = None)

Needed(r) == {r.queue} \cup ({r.dead} \ {None})

Opens(r) == Valid(r) /\ (r.create \/ Needed(r) \subseteq exists)

\* A plausible bug: the redrive policy is left out of what a start writes.
UnwrittenPolicies(r) == policies

\* What opening a registration makes of the policies.
Redriven(r) ==
  IF r.max = None THEN policies
  ELSE [policies EXCEPT ![r.queue] = [max |-> r.max, dead |-> r.dead]]

\* A registration opens; with the last one the service is up.
Open ==
  /\ phase = "opening" /\ opened < Len(Subs)
  /\ LET r == Subs[opened + 1] IN
     /\ Opens(r)
     /\ exists' = exists \cup Needed(r)
     /\ policies' = Redriven(r)
  /\ opened' = opened + 1
  /\ phase' = IF opened' = Len(Subs) THEN "up" ELSE "opening"
  /\ UNCHANGED <<name, hooked, inbox, running, booked, links, store, seen, inputs, sends,
                 faults, history>>

\* A descriptor out of range, a missing queue, or a request that failed, with
\* a queue it had created, or the policy it had written, left behind or not.
OpenFails ==
  /\ phase = "opening" /\ opened < Len(Subs)
  /\ LET r == Subs[opened + 1] IN
     \/ ~Opens(r) /\ UNCHANGED <<exists, policies, faults>>
     \/ /\ Opens(r) /\ Fault
        /\ \/ /\ \E made \in {{}, {r.queue}, Needed(r)} : exists' = exists \cup made
              /\ UNCHANGED policies
           \/ exists' = exists \cup Needed(r) /\ policies' = Redriven(r)
  /\ phase' = "down"
  /\ UNCHANGED <<name, opened, hooked, inbox, running, booked, links, store, seen, inputs,
                 sends, history>>

-----------------------------------------------------------------------------
(* Publishing. *)

\* The queues a publish reaches now.
Reached(to) == IF to \in Topics THEN {q \in Queues : <<to, q>> \in links} ELSE {to}

Refused(s) == s.named /\ ~Fifo(s.to)

Missing(s) == s.to \notin exists \cup Topics

\* A plausible bug: every send gets a generated id, whatever the call names.
DeduplicationGenerated(s, id) == {}

\* The deduplication id of a send, at its destination: the one the call names.
\* A generated one repeats no other and is left out.
Deduplication(s, id) == IF s.dedup THEN {<<s.to, id>>} ELSE {}

Repeated(s, id) == Deduplication(s, id) \cap seen # {}

Copies(s, id, kind) ==
  {[no |-> sends + 1, to |-> q, id |-> id, kind |-> kind, group |-> s.group] :
     q \in Reached(s.to)}

Entry(m) == [m |-> m, queue |-> m.to, receives |-> 0, hidden |-> FALSE]

\* The destination takes the message.
Accept(s, id, kind) ==
  LET new == IF Repeated(s, id) THEN {} ELSE Copies(s, id, kind) IN
  /\ sent' = sent \cup {<<id, s.to>>}
  /\ arrived' = arrived \cup new
  /\ store' = store \cup {Entry(m) : m \in new}
  /\ sends' = sends + 1
  /\ seen' = seen \cup Deduplication(s, id)

\* A message from outside, which its producer may also send twice.
Produce(q, kind) ==
  LET input == [to |-> q, group |-> "customer", named |-> FALSE, dedup |-> FALSE] IN
  /\ Len(inputs) < MaxInputs[name] /\ q \in InputQueues \cap exists
  /\ inputs' = Append(inputs, kind)
  /\ \/ Accept(input, Len(inputs), kind)
     \/ /\ inputs # <<>> /\ inputs[Len(inputs)] = kind
        /\ Accept(input, Len(inputs) - 1, kind)
  /\ UNCHANGED <<name, process, exists, policies, links, faults, acked, dropped, begun,
                 forgotten>>

\* A hook runs beside the handlers; one that fails ends the service.
Hook ==
  /\ phase = "up" /\ hooked < Len(Hooking)
  /\ LET h == Hooking[hooked + 1] IN
     \/ /\ h \in LinkHooks /\ h.queue \in exists
        /\ links' = links \cup {<<h.topic, h.queue>>}
        /\ hooked' = hooked + 1
        /\ UNCHANGED <<phase, inbox, running, store, seen, sends, faults, sent, arrived>>
     \/ /\ h \in ReplayHooks /\ ~Missing(h.send) /\ ~Refused(h.send)
        /\ Accept(h.send, MaxInputs[name], CHOOSE k \in Kinds : TRUE)
        /\ hooked' = hooked + 1
        /\ UNCHANGED <<phase, inbox, running, links, faults>>
     \/ /\ Fault
        /\ phase' = "down" /\ inbox' = {} /\ running' = {}
        /\ UNCHANGED <<hooked, links, store, seen, sends, sent, arrived>>
  /\ UNCHANGED <<name, opened, exists, policies, booked, inputs, acked, dropped, begun, forgotten>>

-----------------------------------------------------------------------------
(* The queues. *)

Spent(e) == policies[e.queue] # None /\ e.receives >= policies[e.queue].max

Least(a, b) == IF a < b THEN a ELSE b

\* What one receive may hand over: any message of a standard queue; the first
\* ones of a group of a FIFO queue, none of which is in flight.
Batch(es) ==
  /\ es # {} /\ \A e \in es : ~e.hidden /\ ~Spent(e)
  /\ \A e, f \in es : e.queue = f.queue /\ e.m.group = f.m.group
  /\ \A e \in es :
       IF Fifo(e.queue)
       THEN \A f \in store :
              f.queue = e.queue /\ f.m.group = e.m.group
                => ~f.hidden /\ (f.m.no < e.m.no => f \in es)
       ELSE Cardinality(es) = 1

Receive(es) ==
  /\ phase = "up" /\ Batch(es) /\ \A e \in es : e.queue \in Registered
  /\ LET taken == {[e EXCEPT !.receives = Least(e.receives + 1, MaxReceives), !.hidden = TRUE] :
                     e \in es} IN
     /\ store' = (store \ es) \cup taken
     /\ inbox' = inbox \cup {[m |-> t.m, queue |-> t.queue, receives |-> t.receives] : t \in taken}
  /\ UNCHANGED <<name, phase, opened, hooked, running, booked, exists, policies, links, seen,
                 inputs, sends, faults, history>>

\* The redrive policy moves a message that is spent when a receive meets it.
MoveSpent(e) ==
  /\ ~e.hidden /\ Spent(e)
  /\ store' = (store \ {e})
                 \cup {[e EXCEPT !.queue = policies[e.queue].dead, !.receives = 0]}
  /\ UNCHANGED <<name, process, exists, policies, links, seen, inputs, sends, faults, history>>

Held(e) == \E d \in inbox \cup running : d.m = e.m /\ d.queue = e.queue

\* A visibility timeout ends.  While the delivery is held it does so only when
\* the service failed to extend it.
Lapse(e) ==
  /\ e.hidden
  /\ IF Held(e) THEN Fault ELSE UNCHANGED faults
  /\ store' = (store \ {e}) \cup {[e EXCEPT !.hidden = FALSE]}
  /\ UNCHANGED <<name, process, exists, policies, links, seen, inputs, sends, history>>

\* The deduplication window of an id passes.
Forget(key) ==
  /\ seen' = seen \ {key}
  /\ forgotten' = forgotten \cup {key}
  /\ UNCHANGED <<name, process, exists, policies, links, store, inputs, sends, faults, sent,
                 arrived, acked, dropped, begun>>

-----------------------------------------------------------------------------
(* Handlers. *)

\* A plausible bug: workers without keys, which run a group side by side.
SameLaneUnkeyed(d, e) == d.queue = e.queue /\ Registration(d.queue).workers = "one"

\* The lane of a delivery: its queue's one worker, or its group's.
SameLane(d, e) ==
  /\ d.queue = e.queue
  /\ CASE Registration(d.queue).workers = "one" -> TRUE
       [] Registration(d.queue).workers = "by_key" -> d.m.group = e.m.group
       [] OTHER -> FALSE

\* A handler begins when its lane is free, on the first delivery of the lane
\* where the queue has an order.
Begin(d) ==
  /\ \A r \in running : ~SameLane(d, r)
  /\ Fifo(d.queue) => \A e \in inbox : SameLane(d, e) /\ d.m.group = e.m.group => d.m.no <= e.m.no
  /\ inbox' = inbox \ {d}
  /\ LET known == <<d.queue, d.m.id>> \in booked
         decision == Decision(d.queue, d.m.kind, d.receives, known)
     IN  running' = running \cup
           {[m |-> d.m, queue |-> d.queue, receives |-> d.receives, known |-> known,
             settle |-> IF decision.send = None THEN decision.then ELSE "sending"]}
  /\ begun' = IF Fifo(d.queue) /\ \A i \in DOMAIN begun : begun[i] # d.m
              THEN Append(begun, d.m) ELSE begun
  /\ UNCHANGED <<name, phase, opened, hooked, booked, account, inputs, sends, faults, sent,
                 arrived, acked, dropped, forgotten>>

Decided(r) == Decision(r.queue, r.m.kind, r.receives, r.known)

Resolve(r, outcome) == running' = (running \ {r}) \cup {[r EXCEPT !.settle = outcome]}

\* A plausible bug: the id is recorded whether or not the send is made.
BookedUnsent(r, made) ==
  IF Decided(r).records THEN booked \cup {<<r.queue, r.m.id>>} ELSE booked

\* The state of the handlers after a send.
Booked(r, made) ==
  IF made /\ Decided(r).records THEN booked \cup {<<r.queue, r.m.id>>} ELSE booked

\* The send of a handler and what the handler does with its answer, up to the
\* settlement.
Send(r) ==
  LET d == Decided(r) IN
  /\ r.settle = "sending"
  /\ \/ /\ ~Refused(d.send) /\ ~Missing(d.send)
        /\ Accept(d.send, r.m.id, r.m.kind)
        /\ Resolve(r, d.then)
        /\ booked' = Booked(r, TRUE)
     \/ /\ Refused(d.send) \/ Missing(d.send)
        /\ Resolve(r, IF Refused(d.send) THEN d.refused ELSE d.failed)
        /\ booked' = Booked(r, FALSE)
        /\ UNCHANGED <<store, seen, sends, sent, arrived>>
  /\ UNCHANGED <<name, phase, opened, hooked, inbox, exists, policies, links, inputs, faults,
                 acked, dropped, begun, forgotten>>

\* The request fails, or it is carried out and its answer is lost.
SendFails(r) ==
  LET d == Decided(r) IN
  /\ r.settle = "sending" /\ ~Refused(d.send) /\ ~Missing(d.send) /\ Fault
  /\ \/ Accept(d.send, r.m.id, r.m.kind)
     \/ UNCHANGED <<store, seen, sends, sent, arrived>>
  /\ Resolve(r, d.failed) /\ booked' = Booked(r, FALSE)
  /\ UNCHANGED <<name, phase, opened, hooked, inbox, exists, policies, links, inputs,
                 acked, dropped, begun, forgotten>>

\* The entry a settlement acts on.  A FIFO queue takes the last receipt only.
Current(r) ==
  {e \in store : /\ e.m = r.m /\ e.queue = r.queue
                 /\ Fifo(r.queue) => e.hidden /\ e.receives = r.receives}

\* A plausible bug: a drop deletes whatever the receive count.
ReturnedNever(r) == FALSE

\* A drop on the last receive of a capped queue goes back to the queue, whose
\* policy then moves the message.
Returned(r) ==
  LET max == Registration(r.queue).max IN
  r.settle = "drop" /\ max # None /\ r.receives >= max

\* One call to the queue: ack and drop delete, retry makes the message visible,
\* and later leaves it hidden for the delay.
Settle(r) ==
  /\ r.settle # "sending"
  /\ running' = running \ {r}
  /\ store' = CASE r.settle = "ack" \/ (r.settle = "drop" /\ ~Returned(r)) -> store \ Current(r)
                [] r.settle = "retry" \/ Returned(r) ->
                     (store \ Current(r)) \cup {[e EXCEPT !.hidden = FALSE] : e \in Current(r)}
                [] OTHER -> store
  /\ acked' = IF r.settle = "ack" THEN acked \cup {r} ELSE acked
  /\ dropped' = IF r.settle = "drop" /\ ~Returned(r) THEN dropped \cup {r} ELSE dropped
  /\ UNCHANGED <<name, phase, opened, hooked, inbox, booked, exists, policies, links, seen,
                 inputs, sends, faults, sent, arrived, begun, forgotten>>

\* The call fails: the message stays hidden until its timeout ends.
SettleFails(r) ==
  /\ r.settle # "sending" /\ Fault
  /\ running' = running \ {r}
  /\ UNCHANGED <<name, phase, opened, hooked, inbox, booked, account, inputs, sends, history>>

\* The process stops, between any two steps.
Crash ==
  /\ phase # "down" /\ Fault
  /\ phase' = "down" /\ inbox' = {} /\ running' = {}
  /\ UNCHANGED <<name, opened, hooked, booked, account, inputs, sends, history>>

-----------------------------------------------------------------------------

Startup == Start \/ Open \/ OpenFails \/ Hook

\* What the queues do by themselves, and the receives of the service.
Delivering ==
  \/ \E e \in store : MoveSpent(e) \/ Lapse(e)
  \/ \E es \in SUBSET {e \in store : ~e.hidden} : Receive(es)

Handling ==
  \/ \E d \in inbox : Begin(d)
  \/ \E r \in running : Send(r) \/ SendFails(r) \/ Settle(r) \/ SettleFails(r)

Outside ==
  \/ \E q \in Queues : \E kind \in Catalogue[name].kinds : Produce(q, kind)
  \/ \E key \in seen : Forget(key)
  \/ Crash

Next == Startup \/ Delivering \/ Handling \/ Outside

\* The process is restarted, its tasks are polled and the timers of the queues
\* run.  Nothing is assumed of the world outside, and faults are bounded.
Fairness == WF_vars(Startup \/ Delivering \/ Handling)

Spec == Init /\ [][Next]_vars /\ Fairness

-----------------------------------------------------------------------------
(* Properties. *)

\* Every component holds a value of its kind.
TypeOK ==
  /\ name \in DOMAIN Catalogue /\ phase \in {"down", "opening", "up"}
  /\ opened \in 0..Len(Subs) /\ hooked \in 0..Len(Hooking)
  /\ exists \in SUBSET Queues
  /\ policies \in [Queues -> {None} \cup [max : Receives, dead : Queues]]
  /\ links \in SUBSET (Topics \X Queues) /\ seen \in SUBSET ((Queues \cup Topics) \X Nat)
  /\ store \in SUBSET Entries /\ inbox \in SUBSET Deliveries /\ running \in SUBSET Runs
  /\ booked \in SUBSET (Queues \X Nat) /\ inputs \in Seq(Kinds)
  /\ sends \in Nat /\ faults \in 0..MaxFaults[name]
  /\ sent \in SUBSET (Nat \X (Queues \cup Topics)) /\ arrived \in SUBSET Messages
  /\ acked \in SUBSET Runs /\ dropped \in SUBSET Runs
  /\ begun \in Seq(Messages) /\ forgotten \in SUBSET ((Queues \cup Topics) \X Nat)

\* A message is deleted only after the work is done: whatever crashed, failed
\* or was delivered twice before, once an ack has deleted a message, the
\* destination its handler owes a message has accepted one for it, be it in an
\* earlier run of the handler.
WorkBeforeDelete ==
  \A r \in acked :
    LET owed == Decision(r.queue, r.m.kind, r.receives, FALSE).send IN
    owed # None => <<r.m.id, owed.to>> \in sent

Capped(q) == q \in Registered /\ Registration(q).max # None

\* A message of a capped queue is not lost to its failures: no settlement of its
\* last receive but an ack deletes it, and it is on some queue until one does.
CappedNeverLost ==
  /\ \A r \in dropped : Capped(r.queue) => r.receives < Registration(r.queue).max
  /\ \A m \in arrived : Capped(m.to) =>
       \/ \E e \in store : e.m = m
       \/ \E r \in acked \cup dropped : r.m = m

\* "Both runs send the charge under the payment's id, and the FIFO queue keeps
\* the first": a queue that is said to get one message for an input does,
\* however often the input is sent, delivered and handled and whatever fails in
\* between.  It gets no second one, until the deduplication window of the id has
\* passed, and none of two inputs is taken for the other: once the input is
\* acked, its own message is there.
OneMessagePerInput ==
  \A q \in Idempotent[name] :
    /\ \A m, n \in arrived :
         m.to = q /\ n.to = q /\ m.id = n.id /\ m # n => <<q, m.id>> \in forgotten
    /\ \A r \in acked :
         LET owed == Decision(r.queue, r.m.kind, r.receives, FALSE).send IN
         owed # None /\ owed.to = q => \E m \in arrived : m.to = q /\ m.id = r.m.id

\* The messages of one group of a FIFO queue are handled in the order they were
\* sent: none begins its first run before one sent earlier.
FirstRunsInOrder ==
  \A i, j \in DOMAIN begun :
    i < j /\ begun[i].to = begun[j].to /\ begun[i].group = begun[j].group
      => begun[i].no < begun[j].no

\* A message on a queue the service caps does not circle there for ever: it is
\* deleted or moved to the dead-letter queue, whatever its handler makes of it.
CappedQueuesDrain == []<>(\A e \in store : ~Capped(e.queue))
=============================================================================
