# ruststream-sqs-sns: a TLA+ verification project

This directory models the parts of `crates/ruststream-sqs-sns` in which steps of
several tasks, clocks and calls meet, checks the models with TLC on small instances,
and proves the most important invariants with TLAPS for every value of the constants.
`PROJECT.json` is the machine-readable index: components, runs, mutants, the map from
definitions to source lines, findings, hazards and theorems. Paths below are relative
to `crates/ruststream-sqs-sns/src/`, unless they name another directory of the repository.

## 1. The system

The crate is an SQS/SNS broker for the `ruststream` framework. A service publishes to
queues and topics and consumes queues through subscriptions; every delivery is settled
by `ack`, `nack` or `nack_after`, or dropped. There are two lanes behind one interface:
the live lane talks to AWS through the SDK, the in-process lane (feature `testing`) talks
to an account simulated in memory, so that a service can be tested without AWS and be
expected to behave the same.

| Component | State it keeps | Operations | Interacts with |
|---|---|---|---|
| in-process account, `in_process/bus.rs` | queues (policy, subscriptions, visible, in flight, deduplication ids), topics, log, id counter | open, close, set_redrive, send, publish_topic, subscribe_topic, receive, delete, change_visibility, lapse | the harness' coordinator (pending count, timers), `Notify` of each queue |
| in-process deliveries, `in_process/deliveries.rs` | a subscription; a `BusReceipt` per delivery | receive loop, drop of a subscription, settlement and drop of a receipt | the account, under its mutex |
| settlement and extension, `message.rs` | a delivery: receive count, policy, moment of the receive, extender task | ack, nack, nack_after, drop, extend_visibility; framing of bodies and attributes | the queue, by calls that take time |
| live subscriber, `subscriber.rs` | pump task, channel of one, stream | pump, stream, batches | the queue (long polls), the consumer |
| broker, `broker.rs` | the cell the handles share, closed flag, caches of URLs and ARNs with their guards, declared policies | connect, connect_in_process, shutdown, declare_retry, subscribe, subscribe_queue, subscribe_queue_to_topic, and under them queue_url, topic_arn, ensure_queue, set_redrive_policy | AWS admin calls |
| publishers, `publisher.rs`, `sns.rs` | the broker's cell, a default group; the process-wide counter of deduplication ids | publish to a queue, publish to a topic, FIFO settings | broker |
| queue descriptors, `queue.rs` | a declaration | validation, redrive | broker |
| queue policy, `queue_policy.rs` | none (a JSON document) | grant_topic_send | broker, read-modify-write on the queue |
| routing and entry points, `in_process/routing.rs`, `in_process/mod.rs` | which queues are on which topic; per name, how often a publish went to the queue and to the topic, and how often the harness asked | subscribe, published, next_surface; inject, routes, reached_queues | publishers, the account, the harness |
| client placement, `clients.rs` | the home set of clients, a thread-local list of choices per thread | new, home, with, with_placed | every request |
| example services, `examples/` and `examples/manual/` | registrations, startup hooks, the handlers' shared state | start, handle, publish, settle | everything above, as a service uses it |

What is hard here: a handle may outlive the subscription that produced it; a clock is
read before the mutex is taken; a timer may fire for a receipt that is gone; a receive
loop looks at a queue and then waits; an extension is on its way when the handler
settles; the pump runs ahead of its consumer; a call to AWS is several requests, each of which
may fail before or after it took effect, over caches and a policy that other calls use
meanwhile; a shutdown falls between a publish's check and its send; a service stops between
any two of its steps and starts again; a link is in the account and not yet in the record
the harness is answered from; an address is given to a second broker while a thread still
remembers the first. `PROJECT.json` lists these hazards at
their lines with the properties that would catch them.

## 2. The modules

| Module | Models |
|---|---|
| `Visibility` | the arithmetic both lanes share: `whole_seconds`, `window_left`, `extension_period`, `remaining_visibility` |
| `Account` | the in-process account, the subscriptions on it and the settlement of their deliveries |
| `MessageLife` | abstract: what the account promises of a message, which `Account` implements |
| `MCAccount` | its instances for TLC |
| `ReceiveLoop`, `MCReceiveLoop` | the receive loops of the subscriptions on one in-process queue, await by await |
| `Extender` | one live delivery: extender task, settlement, and the queue's side of their calls |
| `Handoff` | abstract: what a stream promises its consumer |
| `Pump` | the live subscription's task, channel and stream; implements `Handoff` |
| `Broker`, `MCBroker` | the live broker, its handles and its calls, request by request, against one AWS account |
| `Mounting` | what a service consists of: registrations, handlers as tables, startup hooks, and the builder calls that make them |
| `Examples`, `ManualExamples` | the services of `examples/` and of `examples/manual/`, each written with `Mounting` |
| `Service`, `MCService` | a service of the catalogue running against SQS and SNS, with failures, crashes and restarts |
| `Framing` | body, attributes and group of a message, on the way out and on the way back |
| `Harness`, `MCHarness` | the broker under the test harness: publishes, links, injections and the harness's questions |
| `Placement`, `MCPlacement` | which clients a request uses, over threads and runtimes |
| `AccountProofs`, `ReceiveLoopProofs`, `ExtenderProofs`, `PumpProofs`, `BrokerProofs`, `ServiceProofs`, `HarnessProofs`, `PlacementProofs` | theorems about the module each is named after |

### Account

One action is one operation of `Bus`, because each runs under the account's mutex; what
the code does under two acquisitions is two actions (`Declare`, then `Open`; a
settlement, then `Release` when the receipt's drop tells the harness). A variable is a
field: `subscriptions`, `redrive`, `visible`, `inFlight` and `dedup` are the fields of
`Queue`, `topics`, `topicDedup` and `log` those of `Account`, `nextId` is `Bus.next_id`;
`handles` are the live `BusReceipt`s, `timers` the armed calls of `lapse_after`,
`pending` the coordinator's count (external). `accepted` is a history variable. A
receive is computed as a set: what its loop takes off the queue are the eligible
messages with fewer than `size` unspent ones before them.

Time is a number of ticks. A settlement or a drop reads the clock up to `MaxLag` ticks
before its change reaches the bus (`lag`), which is the race the twelve-hour window has.

A refused operation changes nothing and is left out, except where a settlement is
refused: the delivery is consumed and only its drop is left. Names, sizes and attribute
checks are left out; message and topic kinds (FIFO or standard) are kept.

`MessageLife` says what all this is for: a message waits on one queue, or one receiver has
it, or it is gone. Its state is the messages that wait, those that are out, the ids given
out and the queues somebody reads; a message there is an id, a queue and a receive count.
`Account` maps to it by forgetting receipts, generations, timers, groups, policies and the
clock (`Waiting`, `Out`, `Given`, `Attended`, `Token`), and `KeepsMessages` is the refinement.

A few steps are coarser than the code, where nothing else can tell: a close takes its messages off
the count in the same step (`bus.rs:413-420` does so after the unlock, and only the harness reads the
count), and a visibility change arms its timer in the step that stamps the new generation
(`bus.rs:712-713`; the timer does nothing before its time). A standard queue on a FIFO topic is
allowed, as in the code.

### ReceiveLoop

Between two awaits, or two acquisitions of the mutex, the loop is one step: register the
`Notified`, look (`receivable`), await, wake, sleep for the batch window, receive.
Publishes, deletes, returns and closes come in between. `notify_waiters` (external)
notifies every `Notified` made so far, whether polled or not, as tokio documents.

### Extender

A delivery's receive was sent at `asked` and answered at `received`; the code knows only
the first. A call is sent, acts on the queue within `MaxTrip` ticks, and is answered
within `MaxTrip` more, or fails. A timer fires at most `MaxLate` ticks late. `abort`
stops a task that waits; a task that is running gets as far as its next await, with its
call sent. The queue's side (`Land`, `HandOn`) is external and follows the rules the code
relies on: a change counts from when it acts, one past twelve hours from the receive is
refused.

### Pump and Handoff

The task polls, sends into the channel, backs off or ends; the stream takes an item from
the channel and hands it over whole (`batches`) or message by message (`stream`), chosen
in the initial state. `Handoff` has three variables, what was received, what was handed
over, and whether the stream is open; its only rules are order and completeness. `Pump`
maps to it directly.

### Broker

`cell`, `closed`, `urls`, `arns`, `lock`, `declared` and `seq` are the state of each
process: the `OnceCell` the handles share, the fields of `Core` and `Aws`, and the static
counter of `dedup_id`. `exists`, `policy`, `redrive`, `links` and `arrived` are the AWS
account. A call in progress is a record whose `pc` is the await it is at; `Begin` is the
check at its start (`core()`, `ensure_open`), and the actions below it are the stretches
between two awaits: `queue_url` is `UrlKnown`, or `UrlUnknown` (the guard taken, the
request out) and then `GetUrl` or `GetUrlFails`; `grant_topic_send` is `LockPolicy`,
`ReadPolicy`, `WritePolicy`; and so on for `ensure_queue`, `set_redrive_policy`,
`subscribe_queue_to_topic` and the two publishes. `Resolved` says where each operation goes
once a URL is there.

Every request may fail without effect (`RequestFails`, `GetUrlFails`) or take effect and
lose its answer (`Landed`). A guard is dropped where the code drops it, on every error path
too. An access policy is the set of its statements, of which a topic stands for the
statement that grants it; the account's rules that the code relies on (a dead-letter queue
of its queue's kind, FIFO subscriptions, deduplication) are in the guards of `SetRedrive`,
`Link` and `Send`. Calls on the in-process transport leave at once: `Account` models them.

A request that takes effect does so before its call goes on: a policy write that was timed out
and acts after its guard is dropped is not modelled, nor is a caller that drops a call half-way
(a cancelled connect leaves the cell empty for the next one, `broker.rs:527-583`). A process that restarts is
another process, with an empty cache and a counter at 0. All deduplication ids are within
their five minutes.

### Service, Mounting, Examples

A service is a record: its registrations in order, its startup hooks and the kinds of
messages it is given. A handler is a table from what it can tell apart (the kind of the
message, the receive count, whether the id is in its state) to what it decides: the send it
makes, how it settles when the send is made, refused or failed, and whether it records the
id. `Mounting` has one operator per builder call the examples use, so that a definition of
`Examples` reads like the `main` and the handlers it stands for. The kinds are "good" (the
path the example is about), "bad" (what it rejects) and "wait" (what it asks to see again).
`Idempotent` says for which queues the examples promise one message per input: the charges of
`sqs_publishing_deduplication` and the shipments of `guide_fifo`. `Deduplication` is the id
`fifo_settings` gives a send; a generated id repeats no other and is left out (`broker_ids` is about
when it does).
`MCService` assumes (`FormsAgree`, which TLC evaluates) that the macro form and the manual
form of an example are the same service.

`Service` runs one of them: `Start`, `Open` and `OpenFails` for each registration, `Hook`,
`Receive`, `Begin`, `Send` and `SendFails`, `Settle` and `SettleFails`, `Crash`. The queues
are external and follow what the crate's documents rely on: at-least-once delivery, groups,
deduplication windows (`Forget`) and redrive (`MoveSpent`). A request may fail before or
after its effect, and a timeout may end under a held delivery only when an extension was
lost (`Lapse`). Handlers may run while the `after_startup` hooks run, since the framework's
order is external, and a hook that fails ends the service. A reply that cannot be sent leads
to a retry, which is the framework's doing. A drop on the last receive of a capped queue is
returned instead of deleted (`message.rs`).

### Framing and Harness

A payload or a header value is text the services carry, or other bytes; base64 is an
injection from the second into the first, so that a payload may by itself be the base64 of
other bytes. `Frame` is `encode_body`, `encode_attributes_with` and `fifo_settings`;
`Unacceptable` is `check_message` and `check_fifo` without the size; `DecodeMessage` is
`decode_message`.

In `Harness` a call of a publisher is the stretches between the locks of the account and of
the record: link a queue (`LinkQueue`), record the link (`RecordTopicQueue`), send (`Send`),
note the publish (`Note`). The harness injects (`Inject`) and asks (`Routes`). Links that the
service makes itself come from the thread of the publisher no policy paired; a link that is
recorded is not made again. Content is chosen when it is sent. `copies`, `noted` and
`answers` are histories: what the last step put on queues, the publishes noted, and what the
harness was told since the broker last changed. Queue keys and topic keys are one function,
since no name in use is a URL or an ARN. Sizes and repeated deduplication ids are left to
`Account`; the log that `published()` reads is left out.

What the model made explicit, and the properties state with their conditions: a publish that
is paired but not recorded tips the balance of a name it shares with another surface
(`Unmixed`); a link made after a publish makes the answers over-count (`NoLateLink`); the
partition key is lost on a standard queue behind a FIFO topic; a header named
`sqs-receive-count` is replaced by the queue's own.

### Placement

`entries` is `THREAD_CLIENTS`, one list per thread. An entry keeps the allocation of its
broker's clients alive (its `Weak`), so that the address it is keyed by cannot be another
broker's: `Free` is the allocator, and the mutant of `OwnBroker` is an entry that does not
keep it. Threads change runtimes and end; runtime ids are unique among the runtimes that run,
which is all tokio promises.

## 3. The runs

| Run | Shows |
|---|---|
| `account_lifecycle` | two subscriptions of a queue with a policy and of its dead-letter queue, with stale clock reads, deferred retries and drops past the window's end: `UnattendedIsEmpty`, `HeldExclusively`, `OnePlace`, `PendingIsExact`, `NoneStranded`, `NoSilentLoss`, and the refinement `KeepsMessages` |
| `account_fifo_topics` | two groups, two subscriptions and a policy, and both kinds of topics and queues past the end of a deduplication window: `TypeOK`, `KindsMatch`, `DedupHolds`, `GroupOrder` |
| `receive_loop` | a stream and a batch receiver on one FIFO queue: `NoMissedWakeup`, `BatchInBounds`, and the liveness property `EventuallyReceived` |
| `extender_hold` | calls that take time and fail: `NeverRefused`, `HiddenWhileHeld`, `LanesAgree` |
| `pump_stream` | the refinement `HandsOver`, and the liveness properties `PumpEnds` and `EventuallyHanded` |
| `broker_calls` | two calls of one process, of every kind: `TypeOK`, `OneLookup`, `GrantFirst`, `OpenUnderPolicy`, `OnPurposeArrive`, `PolicyOnlyGrows`, `CoreIsForGood`, and the liveness property `CallsEnd` |
| `services` | every example service under failures and crashes: `WorkBeforeDelete`, `CappedNeverLost`, `OneMessagePerInput`, `FirstRunsInOrder`, and the liveness property `CappedQueuesDrain` |
| `harness` | four publishers, a queue and a topic of one name, FIFO names, links and questions: `ReceivedAsSent`, `PassAddsUp`, `RecordIsExact` |
| `placement` | three brokers on two addresses, two threads, two runtimes: `OwnBroker`, `OneRuntimePerSet`, `ChoiceKept` |

Every property of a passing run has a mutant: an operator of the same module that is the
definition with a plausible bug, under which TLC finds the property violated.

Three runs end in a violation, each a statement of the documents that the code does not keep:

- `extender_late`: an extension on its way when the handler calls `nack_after` may act
  after it and bring the message back before the delay.
- `broker_ids`: two processes with one process id (two containers, or a container and its
  restart) generate the same deduplication ids, and a FIFO queue drops the second send.
- `pump_ahead`: the pump "never runs more than one receive ahead of what the consumer drains"
  (`subscriber.rs:9-10`, and in other words `subscriber.rs:225`, `docs/architecture/lanes.md:43`
  and `docs/architecture/design.md:47-48`). The channel holds one batch, and the task receives the
  next before it waits for room, so two batches are ahead of the consumer (`AtMostOneAhead`).
  Prefetched messages wait, and are extended, for two batches instead of one.

### Known limits of the documents

Statements that do not hold word for word, met while modelling, without a run of their own:

- `in_process/mod.rs:21-23` says that a received message stays invisible "never for
  longer than twelve hours from the receive". `Bus::receive`
  arms no timer, so an unsettled delivery whose handle is never dropped stays in flight.
- `docs/components/settlement/dead-letters.md:21`: a `drop` "on the delivery that has spent
  the policy" returns the message. `spent` (`message.rs:237`) reads the policy of the delivery's own
  registration, so a registration that declared none deletes a message that has spent the
  policy another one wrote.
- `docs/components/broker/shutdown.md:21`: after a shutdown a publisher "never sends over a
  connection the service has given up". A publish that is past its check still sends (`publisher.rs:384`).
- `examples/guide/acknowledgement.rs:2-3`: "each payment is booked once however often SQS
  delivers it". A publish that was carried out and whose answer was lost is made again, a
  second ledger entry.
- `examples/sqs_delivery_receive_count.rs:38`: "a person looks at the payment before the queue
  gives up on it" is missed when the receive it waits for is lost to a crash.
- `docs/guides/fifo.md:18`: "the shipments of one customer go out in the order the customer
  placed them". The queue of the orders is a standard one, and a retry reorders.
- The escalation handler of `sqs_dead_letter` opens on a fresh account only because the
  registration before it creates the dead-letter queue.

- `docs/guides/fifo.md:13`: a FIFO queue "hands out a group's next message only after the one
  before it is deleted". One receive may hand out several messages of a group, as line 72 of the
  same guide says ("One receive can return several messages of a group"), and a message whose
  visibility lapses frees its group without a delete. `docs/architecture/sqs/fifo.md:27` ("while a
  group has a message in flight, its next message waits"), `docs/components/subscriptions/fifo.md:12,17`
  and `docs/architecture/lanes.md:44-45` hold between receives, and not within one. `GroupOrder` is
  what `Bus::receive` and the queues do: what a receive hands out of a group is in order, and none of
  it while an earlier receive has one of the group in flight.
- `docs/architecture/sqs/fifo.md:50` and `docs/architecture/sqs/topics.md:49-50`: a FIFO topic
  "delivers only to FIFO queues". Neither `subscribe_queue_to_topic` nor the in-process account refuses a
  standard queue on a FIFO topic (`bus.rs:543` refuses a FIFO queue on a standard topic only), and the
  account then copies the message without its group. `Account` models what the code does
  (`SubscribeTopic`, `Copy`); `Harness` reads such deliveries back without their partition key.

### Bounds, and why they are enough

`MaxId`, `MaxTime` and `MaxLog` bound ids, ticks and log entries; they exhaust, so runs
on `Account` do not check for deadlock. Two messages with two receives each are enough
for every pair of places a message can be in. `account_lifecycle` has a window of four
ticks, a lag and a margin of one, and five ticks of time, so that drops happen before,
at and after the edge. `account_fifo_topics` asks two questions of one instance, and its
constraint `OneScene` explores no mixture of them: two readers and two groups over a policy, in one
tick and without topics; and topics beside direct sends, with one deduplication id, one reader,
nothing received and three ticks. A window of two ticks puts repeats inside, at and after its end.
What the constraint leaves out (a receive between two repeats of different ticks, two ids over time, a
topic in front of a queue that is being read in order) is in the theorems of `AccountProofs`, which
hold for every instance. `extender_hold` has eight ticks a second, so a one-second
timeout leaves room for a call of one tick each way and a timer one tick late, and a
window of five seconds that an extension every half second reaches. `pump_stream` has
five messages in batches of up to two, so that the task, the channel and the stream are
full at once. `broker_calls` has two calls, since every race here is between
two, a queue that exists and one that does not, a FIFO topic to be created and a standard
one named by its ARN, and publishes that ask for nothing, for a header only, or for
everything; a registration's dead-letter queue is another queue. `broker_ids` has the two
processes that `broker_calls` leaves out. A call happens once: a caller's next call is
another one, and when all have ended nothing is left to do (deadlock is not checked;
`CallsEnd` says that none waits for ever).

`services` has all 40 services, each with one or two messages from outside and one fault
(`guide_retries`, whose cap is reached by failures, one message and three faults): one fault
at any step, then a recovery, is every crash point of every example. `MaxReceives` is the
largest cap, 4; no handler tells counts above it apart.
`harness` takes two messages from nine contents, with two calls under way and four
questions: two surfaces of one name, each used once, and a pass started anywhere in its
round. Its messages include the empty one, bytes that are no text, the base64 of bytes, too many
attributes, names and keys the services refuse. `placement` has one broker more than there
are addresses, so that an address is used again. Symmetry is used only over sets whose members nothing distinguishes, and
in no run with a liveness property.

### Fairness

`ReceiveLoop`: the executor polls a loop that can go on and the consumer comes back for
more (weak fairness of a receiver's steps); a delivery is settled, or dropped and lapsed,
in the end. `Pump`: weak fairness of the task's and the stream's steps; nothing makes the
queue answer a long poll, and nothing makes a consumer drop its stream. `Broker`: weak
fairness of the steps of each call, since the runtime polls the call and the SDK bounds
every request by a timeout (`broker.rs:551`, of the configuration the broker loads itself; a
prebuilt one brings its own); nothing makes anybody connect or shut down. `Service`: weak
fairness of the steps of the process and of the queues taken together: a process that is
down is restarted, its tasks are polled, and the queues' timers run; nothing is assumed of
producers, and faults are bounded, so that a property is about what happens once they stop.
`Account`, `Extender`, `Harness` and `Placement` state no fairness and are checked for safety only.

## 4. What is proved

All theorems hold for every value of the constants that meets the named assumptions.

- `AccountTypeOK`. The inductive invariant `Shape` adds that visible messages are
  finitely many and that a FIFO queue is only on FIFO topics (`TopicKinds`): without it,
  a FIFO queue could be asked to remember a message that has no deduplication id.
- `AccountUnattendedIsEmpty`, on top of `Shape`.
- `AccountKindsMatch`, with `RedriveKinds` added: the kind of a dead-letter queue is
  that of its source, or a move would carry a message to the wrong kind.
- `AccountNoneStranded`, `AccountHeldExclusively`, `AccountOnePlace` are proved together
  from `Safe`, which adds that ids in use are below the counter, that a receipt names one
  entry and one handle, and that a handle was received in the past. They need each other:
  a drop finds its entry because the handle holds it exclusively, and the entry is not
  visible elsewhere because a message is in one place. `MarginAssumption`
  (`MaxLag <= Margin`) is what makes the drop's change never refused.
- `AccountDedupHolds`, from `Memory`: what a FIFO queue took is in its memory with the moment
  it took it until the window is over, and a queue is on a topic once. Without the second,
  one publish would reach a queue twice under one id.
- `AccountPendingIsExact`, from `Counted`: the count is the number of handles plus that of
  the visible messages of all queues. A receive turns one of the second into one of the
  first, a lapse does the reverse, so the proof is about sets of equal cardinality; that a
  message is in one place (`Safe`) is what makes the union of the queues a disjoint one.
- `AccountGroupOrder`, an action property: what comes before a message of its group is taken
  with it or was taken before, because the number of unspent messages before a message does
  not shrink along the queue.
- `AccountNoSilentLoss`, an action property: every entry of the account is followed through
  each step to where it went; only the three named ways lead out.
- `AccountKeepsMessages`, the refinement of `MessageLife`: every step of the account is one
  of a message's life or changes nothing there. It rests on `Ready`: `Shape`, `Safe`,
  `UnattendedIsEmpty` and a counter that has started. `OnePlace` (of `Safe`) makes the map
  one-to-one, so that taking an entry off a queue takes its message off the abstract one;
  `UnattendedIsEmpty` says that a queue a receive finds something on is read by somebody; and
  that a drop is never refused leaves every drop a return. A send or a publish is the one
  step that needs a function: which of the new ids went to which queue.
- `LoopNoMissedWakeup`. `Awake` adds that the visible messages are finitely many; every
  step that makes a message eligible notifies, and every other step only shrinks what is
  eligible.
- `LoopBatchInBounds`, from `BatchInv`: every message of the queue has its own number, so
  that the number of unspent messages before it (`Rank`) tells the taken ones apart and all
  ranks are below the size asked for.
- `ExtenderTypes`, `ChangesAreNeverRefused`, `HeldStaysHidden` and `InProcessDropAgrees`, from
  `ExtenderInv`. None of the properties is inductive, since each speaks of a moment, and what
  makes it true was decided at an earlier one: `InTime` carries the window from when an
  extension is worked out to when its call lands; `HoldSound` says, for each phase of the
  task, how long the message stays hidden; `Exact` says the same of calls that take no
  time, where extensions fall on multiples of the period. `TripAssumption` is what the code
  itself relies on: the margin covers the trip of a call (`WINDOW_MARGIN`), and the half of a
  timeout that is left when the extender wakes covers a round trip and a late timer.
- `SubscriptionHandsOver`, from `PumpInv`: while the stream is open, what was
  received is what was handed over, what the stream has left, what is in the channel and what
  the task has in hand, in this order (`Conserved`). The refinement follows: each step of
  `Pump` is a step of `Handoff` or leaves its three variables alone.
- `BrokerTypeOK`, from `Shapes`: every operation stays within its own points, with what it
  needs there in hand. Without it, nothing says that a call that is about to resolve a
  dead-letter queue has one.
- `BrokerOneLookup`, from `Guarded`: a call with a guarded request out holds the guard.
- `BrokerGrantFirst` and `BrokerPolicyOnlyGrows`, for one process (`OneProcess`, a
  hypothesis of the theorems), from `Grants`: what a grant read is what is there when it
  writes. That is where `Guarded` is needed again: no other call of the process can be
  between its read and its write.
- `BrokerOpenUnderPolicy`, for any number of processes, from `Redriven`: a call that is
  about to write a policy has seen its dead-letter queue, and only the write, or having
  declared nothing, leads to an open subscription.
- `BrokerOnPurposeArrive`, for processes whose ids differ (`PidsDiffer`), from `Ids`:
  generated ids are below their process's counter and distinct, and whoever has a message
  at a destination is past its send. `broker_ids` shows that the hypothesis is needed.
- `BrokerCoreIsForGood`, from `Shapes`: after a shutdown only calls under way go on, which is
  what the third of the known limits is about.
- `TypeCorrect` (`ServiceProofs`) and `DeletedAfterWork`, for every catalogue that meets
  `HandlerAssumption` (no two registrations of a service share a queue, a send that was not
  made is never acked, and what a handler records it has sent) and any number of faults. The
  invariant `WorkInv` adds that whatever is recorded in the handlers' state, and whatever run
  is about to be acked, has been accepted by its destination.
- `FailuresLoseNothing` and `GroupsBeginInOrder`, from `LineInv`. A step is
  first put into one of five kinds by what it does to queues and inbox (`Quiet`, `Accepting`,
  `Moving`, `Receiving`, `Beginning`; lemma `StepKinds`), and each part of the invariant is then
  kept by each kind. Nothing is lost because what leaves the queues is an entry a settlement
  deleted (`Kept`). The order needs most: a message that has not begun is behind all of its
  group that have (`Behind`), and a delivery in the inbox is there together with whatever of
  its group comes before it and has not begun (`Together`): a later message cannot begin
  while an earlier one is back on the queue.
  `OrderAssumption` asks that a FIFO queue is read by one worker or by one per group, as
  `docs/guides/fifo.md:70-72` demands, and is no dead-letter queue of the same service, whose moves are
  not in order. TLC evaluates it, like `HandlerAssumption`, on all the examples.
- `OnePerInput`, from `InputInv` and `WorkInv`, for services that keep `IdsNamed`: a handler sends to
  the queue, every such send names the id of its input, and nothing else fills the queue. It has two
  halves. No second message comes, because what reached the queue is remembered under the id of its
  input until that is forgotten (`Remembered`), by its own send and no topic (`Unlinked`). And the
  message of an acked input is there, because an id that the queue remembers or accepted is that of a
  message there (`Landed`): it was not dropped as the repeat of another input. `IdsNamed` is a
  hypothesis of the theorem and no assumption of `Service`, so that in the run the property itself
  fails when a handler of the examples names no id, and when the publisher sends another id than the
  one it is given: a generated one (the mutant), or the same one for every message.
- `HarnessTypeCorrect`, `RecordsAreExact` and `DeliveriesReadBack`, from `HarnessInv`: the
  record is a part of the account's links, and for each link it misses there is a call about
  to record it (`RecordSound`); a call that links has a queue to link (`CallsSound`); a FIFO
  queue is only on FIFO topics (`KindsSound`), without which its copies could lack a group.
  The round trip itself is the lemma `GenuineIsReadBack`: the marker is there exactly when
  the body is base64, because a caller's header of that name is refused.
- `PassesAddUp`, from `HarnessInv` and `PassInv`: the tallies count what was noted
  (`Tallied`), each publish went where its surface leads (`Visited`, `Visiting`), and the
  answers since the broker last changed are those of consecutive questions, each by its turn
  (`InTurn`). The counter is taken modulo the total, so that a pass of as many questions as
  there were publishes meets every turn once wherever it begins (lemma `OnceRound`); each
  surface is then answered as often as it was used, and the counts compare as the sizes of
  sets. No induction over the answers is needed.
- `PlacementTypeCorrect`, `RequestsUseOwnBroker`, `SetsOfOneRuntime`, `ChoicesAreKept`, from
  `PlacementInv`: an entry's address is no live broker's but its owner's, and a set that was
  used is a home set on its broker's runtime, or still the entry's of its thread.

Every invariant, action property and refinement of a passing run is thus proved. Only
model-checked is liveness (`EventuallyReceived`, `PumpEnds`, `EventuallyHanded`, `CallsEnd`,
`CappedQueuesDrain`), since fairness and `ENABLED` are outside the prover's reach. `TypeOK` of
`Extender`, `Service`, `Harness` and `Placement` is proved and not in a run.

## 5. What is not modelled, and the plan

Not modelled: the AsyncAPI bindings and the broker's description of itself (documents
built from constants), error types, logging, the log behind `published()`, the AWS services
beyond what the code relies on, the framework, the tests of the examples, benchmarks and the
website. Names and sizes are abstract throughout, payloads everywhere but in `Framing`.

Hazards without a property, with the reason, are in `PROJECT.json`.

What the plan set out to model and to prove is done. Further work would be an abstract
specification of a service (each message worked on, then gone) that `Service` implements, and
the description the broker gives of itself, once more than constants goes into it.
