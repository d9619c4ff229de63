------------------------------ MODULE Harness ------------------------------
(***************************************************************************)
(* The broker under the test harness: publishes through paired and other   *)
(* publishers, fan-outs declared by policies and by the service, and the   *)
(* harness's questions where a publish went (in_process/mod.rs,            *)
(* in_process/routing.rs and the publish methods of publisher.rs and       *)
(* sns.rs).                                                                *)
(*                                                                         *)
(* The account and the broker's record of it are behind locks of their     *)
(* own, so that calls of several threads interleave between them.  The     *)
(* harness is external: it asks by name, at any time.                      *)
(***************************************************************************)
EXTENDS Framing, Sequences

CONSTANTS
  Names,          \* the names queues and topics go by
  Destinations,   \* those the service publishes to
  Keys,           \* the queues and topics the names address
  Key,            \* queue_key and topic_key, which agree on the names in use: no URL,
                  \* no ARN; None where the name is refused
  FifoKeys,       \* is_fifo
  Links,          \* the queues the service subscribes to topics, by their names
  Publishers,     \* the publishers of the service
  Policy,         \* for each: its surface, whether a policy paired it, what that fixes
  Subscriptions,  \* the names the app subscribed to, in order
  Published,      \* what may be published
  One,            \* the text of the receive count 1
  MaxCalls,       \* bound: calls under way
  MaxTaken,       \* bound: messages the account takes
  MaxAsks         \* bound: questions of the harness; their counters wrap past 2^64

Policies ==
  [surface : {"queue", "topic"}, paired : BOOLEAN, recorded : BOOLEAN,
   fixed : {None} \cup Text, fanOut : Seq(Names)]

ASSUME HarnessAssumption ==
  /\ Key \in [Names -> Keys \cup {None}] /\ None \notin Keys /\ FifoKeys \subseteq Keys
  /\ Destinations \subseteq Names /\ Links \subseteq Names \X Names
  /\ Policy \in [Publishers -> Policies] /\ Subscriptions \in Seq(Names)
  /\ Published \subseteq Contents /\ One \in Text
  /\ \A p \in Publishers : ~Policy[p].paired => ~Policy[p].recorded

VARIABLES
  endpoints,  \* the account: the queues subscribed to each topic
  topics,     \* Routing.topics: the same, as the broker knows it
  publishes,  \* Routing.publishes: the tallies, by the name a publish used
  calls,      \* what each publisher is doing
  taken,      \* how many messages the account took
  copies,     \* history: what the last step put on the queues
  noted,      \* history: for each name, the publishes noted
  answers     \* history: for each name, the answers since the broker last changed

vars == <<endpoints, topics, publishes, calls, taken, copies, noted, answers>>

Idle == [step |-> "idle"]

\* A call links queues to the topic it names, then publishes what it has.
Calls == [name : Names, links : Seq(Names), sends : BOOLEAN,
          step : {"link", "record", "send", "note"}, reached : SUBSET Keys]

NoTally == [queue |-> 0, topic |-> 0, asked |-> 0]

Init ==
  /\ endpoints = [k \in Keys |-> {}] /\ topics = [k \in Keys |-> {}]
  /\ publishes = [n \in Names |-> NoTally]
  /\ calls = [p \in Publishers |-> Idle]
  /\ taken = 0 /\ copies = {} /\ noted = [n \in Names |-> <<>>]
  /\ answers = [n \in Names |-> <<>>]

Fifo(k) == k \in FifoKeys

\* The broker changes: what the harness was told belongs to the past.
Forgets == answers' = [n \in Names |-> <<>>]

Changed == Forgets /\ copies' = {}

\* The next step of a call, or its end.
After(call) ==
  CASE call.links # <<>> -> [call EXCEPT !.step = "link"]
    [] call.links = <<>> /\ call.sends -> [call EXCEPT !.step = "send"]
    [] OTHER -> Idle

Free(p) == calls[p] = Idle /\ Cardinality({o \in Publishers : calls[o] # Idle}) < MaxCalls

Ends(p) == calls' = [calls EXCEPT ![p] = Idle]

-----------------------------------------------------------------------------

\* SqsPublisher::publish and SnsPublisher::publish, which links the queues its
\* policy names first.
Publish(p, n) ==
  /\ Free(p) /\ taken < MaxTaken
  /\ calls' = [calls EXCEPT ![p] =
       After([name |-> n, sends |-> TRUE, step |-> "send", reached |-> {},
              links |-> IF Policy[p].surface = "topic" THEN Policy[p].fanOut ELSE <<>>])]
  /\ Changed
  /\ UNCHANGED <<endpoints, topics, publishes, taken, noted>>

\* subscribe_queue_to_topic, called where the service's own code publishes.  A link
\* that is recorded is not made again: it would change nothing.
SubscribeQueueToTopic(p, t, q) ==
  /\ Free(p) /\ ~Policy[p].paired
  /\ Key[t] # None => Key[q] \notin topics[Key[t]]
  /\ calls' = [calls EXCEPT ![p] = [name |-> t, links |-> <<q>>, sends |-> FALSE,
                                    step |-> "link", reached |-> {}]]
  /\ Changed
  /\ UNCHANGED <<endpoints, topics, publishes, taken, noted>>

LinkRefused(t, q) == Key[t] = None \/ Key[q] = None \/ (~Fifo(Key[t]) /\ Fifo(Key[q]))

\* A plausible bug: a link is recorded whether or not the account took it.
LinkQueueUnchecked(p) ==
  LET call == calls[p]
      q == Head(call.links)
  IN  /\ call.step = "link" /\ Key[call.name] # None /\ Key[q] # None
      /\ endpoints' = IF LinkRefused(call.name, q) THEN endpoints
                      ELSE [endpoints EXCEPT ![Key[call.name]] = @ \cup {Key[q]}]
      /\ calls' = [calls EXCEPT ![p].step = "record"]
      /\ Changed
      /\ UNCHANGED <<topics, publishes, taken, noted>>

\* subscribe_topic on the account.  A refusal ends the call.
LinkQueue(p) ==
  LET call == calls[p]
      q == Head(call.links)
  IN  /\ call.step = "link"
      /\ IF LinkRefused(call.name, q)
         THEN Ends(p) /\ UNCHANGED endpoints
         ELSE /\ endpoints' = [endpoints EXCEPT ![Key[call.name]] = @ \cup {Key[q]}]
              /\ calls' = [calls EXCEPT ![p].step = "record"]
      /\ Changed
      /\ UNCHANGED <<topics, publishes, taken, noted>>

\* Routing::subscribe.
RecordTopicQueue(p) ==
  LET call == calls[p] IN
  /\ call.step = "record"
  /\ topics' = [topics EXCEPT ![Key[call.name]] = @ \cup {Key[Head(call.links)]}]
  /\ calls' = [calls EXCEPT ![p] = After([call EXCEPT !.links = Tail(@)])]
  /\ Changed
  /\ UNCHANGED <<endpoints, publishes, taken, noted>>

\* What a queue of kind `fifo` receives of a message: a standard queue has no
\* groups.
Copy(w, fifo) == IF fifo THEN w ELSE [w EXCEPT !.group = None]

\* The copies that reach the queues ks of what was published to k.
Reaching(ks, c, w, n) ==
  {[queue |-> k, name |-> n, content |-> c, wire |-> Copy(w, Fifo(k))] : k \in ks}

\* frame, then Bus::send or Bus::publish_topic.
Send(p, c) ==
  LET call == calls[p]
      k == Key[call.name]
      fixed == Policy[p].fixed
      wire == Frame(c, Fifo(k), fixed)
      reached == IF Policy[p].surface = "topic" THEN endpoints[k] ELSE {k}
  IN  /\ call.step = "send"
      /\ IF k = None \/ FrameRefused(c, Fifo(k), fixed) \/ Unacceptable(wire)
         THEN Ends(p) /\ copies' = {} /\ UNCHANGED taken
         ELSE /\ copies' = Reaching(reached, c, wire, call.name) /\ taken' = taken + 1
              /\ calls' = [calls EXCEPT ![p] = IF Policy[p].paired
                             THEN [call EXCEPT !.step = "note", !.reached = reached] ELSE Idle]
      /\ Forgets
      /\ UNCHANGED <<endpoints, topics, publishes, noted>>

\* Routing::published, after a publish that succeeded.
Note(p) ==
  LET call == calls[p]
      surface == Policy[p].surface
  IN  /\ call.step = "note"
      /\ publishes' = [publishes EXCEPT ![call.name][surface] = @ + 1]
      /\ noted' = [noted EXCEPT ![call.name] = Append(@,
                     [surface |-> surface, reached |-> call.reached,
                      recorded |-> Policy[p].recorded])]
      /\ Ends(p) /\ Changed
      /\ UNCHANGED <<endpoints, topics, taken>>

\* A message the harness injects as an external producer; it panics on one the
\* account refuses.
Inject(n, c) ==
  LET k == Key[n]
      wire == Frame(c, Fifo(k), None)
  IN  /\ taken < MaxTaken
      /\ k # None /\ ~FrameRefused(c, Fifo(k), None) /\ ~Unacceptable(wire)
      /\ copies' = Reaching({k}, c, wire, n) /\ taken' = taken + 1
      /\ Forgets
      /\ UNCHANGED <<endpoints, topics, publishes, calls, noted>>

\* A plausible bug: the questions are counted and not taken round.
NextSurfaceOnce(n) ==
  LET tally == publishes[n] IN
  CASE tally.queue + tally.topic = 0 -> None
    [] tally.queue + tally.topic # 0 /\ tally.asked < tally.queue -> "queue"
    [] OTHER -> "topic"

\* Routing::next_surface: the surfaces in turn, as often as each was used.
NextSurface(n) ==
  LET tally == publishes[n]
      total == tally.queue + tally.topic
  IN  CASE total = 0 -> None
        [] total # 0 /\ tally.asked % total < tally.queue -> "queue"
        [] OTHER -> "topic"

\* reached_queues: a name no paired publisher used reads as the topic, where it
\* has queues.
ReachedQueues(n) ==
  LET surface == NextSurface(n)
      k == Key[n]
  IN  CASE k = None -> {}
        [] k # None /\ (surface = "topic" \/ (surface = None /\ topics[k] # {})) -> topics[k]
        [] OTHER -> {k}

\* The first subscription of a queue is the one its messages are owed to.
Positions(ks) ==
  {i \in DOMAIN Subscriptions :
     /\ Key[Subscriptions[i]] \in ks
     /\ \A j \in 1..(i - 1) : Key[Subscriptions[j]] # Key[Subscriptions[i]]}

Quiet == \A p \in Publishers : calls[p] = Idle

\* TestableBroker::routes, asked by the harness.  A question about a name no
\* paired publisher used changes nothing.
Routes(n) ==
  /\ NextSurface(n) # None /\ FoldFunction(LAMBDA t, sum : t.asked + sum, 0, publishes) < MaxAsks
  /\ publishes' = [publishes EXCEPT ![n].asked = @ + 1]
  /\ answers' = IF Quiet THEN [answers EXCEPT ![n] = Append(@, Positions(ReachedQueues(n)))]
                ELSE answers
  /\ copies' = {}
  /\ UNCHANGED <<endpoints, topics, calls, taken, noted>>

Next ==
  \/ \E p \in Publishers :
       \/ \E n \in Destinations : Publish(p, n)
       \/ \E link \in Links : SubscribeQueueToTopic(p, link[1], link[2])
       \/ LinkQueue(p) \/ RecordTopicQueue(p) \/ Note(p)
       \/ \E c \in Published : Send(p, c)
  \/ \E n \in Destinations, c \in Published : Inject(n, c)
  \/ \E n \in Names : Routes(n)

Spec == Init /\ [][Next]_vars

-----------------------------------------------------------------------------
(* Properties. *)

\* Every component holds a value of its kind.
TypeOK ==
  /\ endpoints \in [Keys -> SUBSET Keys] /\ topics \in [Keys -> SUBSET Keys]
  /\ publishes \in [Names -> [queue : Nat, topic : Nat, asked : Nat]]
  /\ calls \in [Publishers -> {Idle} \cup Calls] /\ taken \in Nat
  /\ noted \in [Names -> Seq([surface : {"queue", "topic"}, reached : SUBSET Keys,
                               recorded : BOOLEAN])]
  /\ answers \in [Names -> Seq(SUBSET DOMAIN Subscriptions)]

\* A delivery reads back what was published, whatever the bytes and whichever
\* queue or topic it went through: the payload, and every header but the two
\* that have meanings of their own.  The receive count is the queue's; the
\* partition key of a FIFO queue is the group, and a standard queue keeps the
\* header unless the message came through a FIFO topic (encode_body,
\* encode_attributes_with, decode_message).
ReceivedAsSent ==
  \A m \in copies :
    LET got == DecodeMessage(m.wire, One)
        own == {PARTITION_KEY_HEADER, RECEIVE_COUNT_HEADER}
        read == DOMAIN got.headers
        wrote == DOMAIN m.content.headers
    IN  /\ got.payload = m.content.payload
        /\ read \ own = wrote \ own
        /\ \A h \in read \ own : got.headers[h] = m.content.headers[h]
        /\ got.headers[RECEIVE_COUNT_HEADER] = One
        /\ Fifo(m.queue) => PARTITION_KEY_HEADER \in read
        /\ ~Fifo(Key[m.name]) /\ PARTITION_KEY_HEADER \in wrote =>
             /\ PARTITION_KEY_HEADER \in read
             /\ got.headers[PARTITION_KEY_HEADER] = m.content.headers[PARTITION_KEY_HEADER]

\* The publishes to a name that the harness has recorded, by their place.
Recorded(n) == {e \in DOMAIN noted[n] : noted[n][e].recorded}

\* One surface, or every publish one the harness recorded.
Unmixed(n) ==
  \/ \A i \in DOMAIN noted[n] : noted[n][i].recorded
  \/ \A i, j \in DOMAIN noted[n] : noted[n][i].surface = noted[n][j].surface

\* No queue was linked between a publish to the name and now.
NoLateLink(n) ==
  \A i \in DOMAIN noted[n] :
    noted[n][i].surface = "topic" => noted[n][i].reached = topics[Key[n]]

\* A pass of the harness over the publishes to a name, made while no call is
\* under way and started anywhere in its round, is told every subscription the
\* account owes a message as often as it is owed one, also where a queue and a
\* topic share the name; and no more often, unless a queue was linked to the
\* topic after a publish (routes, next_surface).
PassAddsUp ==
  \A n \in Names : LET length == Cardinality(Recorded(n)) IN
    Unmixed(n) => \A from \in 1..(Len(answers[n]) - length + 1) :
      \A i \in Positions(Keys) :
        LET told == Cardinality({a \in from..(from + length - 1) : i \in answers[n][a]})
            owed == Cardinality({e \in Recorded(n) :
                                   Key[Subscriptions[i]] \in noted[n][e].reached})
        IN  told >= owed /\ (NoLateLink(n) => told = owed)

\* The account and the broker's record of it agree on every topic that no call
\* is linking a queue to: a link refused part-way leaves the earlier ones known
\* to both.
RecordIsExact ==
  \A k \in Keys :
    (\A p \in Publishers : calls[p].step = "record" => Key[calls[p].name] # k)
      => topics[k] = endpoints[k]
=============================================================================
