--------------------------- MODULE HarnessProofs ---------------------------
(***************************************************************************)
(* What holds of the broker under the harness for every set of names,      *)
(* publishers, policies and contents.                                      *)
(*                                                                         *)
(* That the record of topics matches the account needs to know, of every   *)
(* queue the account links and the record does not, the call that is about *)
(* to record it.  That a delivery reads back what was published needs to   *)
(* know that a FIFO queue is only linked to a FIFO topic, so that its      *)
(* messages have groups.  That a pass adds up needs to know that the       *)
(* tallies count what was noted, where each publish went, and which turn   *)
(* of the round each answer since the broker last changed belongs to.      *)
(***************************************************************************)
EXTENDS Harness, FiniteSetTheorems, SequenceTheorems, TLAPS

\* The call of p is about to record the queue q of the topic k.
Linking(p, k, q) ==
  /\ calls[p].step = "record"
  /\ Key[calls[p].name] = k /\ Key[Head(calls[p].links)] = q

CallsSound ==
  \A p \in Publishers :
    /\ calls[p].step \in {"link", "record"} => calls[p].links # <<>>
    /\ calls[p].step = "record" =>
         /\ Key[calls[p].name] \in Keys /\ Key[Head(calls[p].links)] \in Keys
         /\ Key[Head(calls[p].links)] \in endpoints[Key[calls[p].name]]

RecordSound ==
  /\ \A k \in Keys : topics[k] \subseteq endpoints[k]
  /\ \A k \in Keys : \A q \in endpoints[k] \ topics[k] : \E p \in Publishers : Linking(p, k, q)

KindsSound == \A k \in Keys : \A q \in endpoints[k] : Fifo(q) => Fifo(k)

Sound == CallsSound /\ RecordSound /\ KindsSound

RecordInv == TypeOK /\ Sound

-----------------------------------------------------------------------------
(* Framing. *)

\* Only a payload that is no text carries the marker.
LEMMA MarkedIsMarks ==
  ASSUME NEW c, NEW fifo \in BOOLEAN, ~HeadersRefused(c, fifo)
  PROVE  LET a == EncodeAttributes(c, fifo) IN
         /\ ENCODING_ATTRIBUTE \in DOMAIN a /\ a[ENCODING_ATTRIBUTE] = Marked <=> Marks(c.payload)
         /\ {h \in DOMAIN a : ~(Marks(c.payload) /\ h = ENCODING_ATTRIBUTE)} = Carried(c.headers, fifo)
         /\ \A h \in Carried(c.headers, fifo) : a[h] = c.headers[h]
<1> DEFINE own == Carried(c.headers, fifo)
           a == EncodeAttributes(c, fifo)
           all == own \cup (IF Marks(c.payload) THEN {ENCODING_ATTRIBUTE} ELSE {})
<1>1. ENCODING_ATTRIBUTE \notin own
  BY DEF HeadersRefused
<1>2. a = [h \in all |-> IF h = ENCODING_ATTRIBUTE THEN Marked ELSE c.headers[h]]
  BY DEF EncodeAttributes
<1> HIDE DEF own, a
<1>3. DOMAIN a = all /\ \A h \in all : a[h] = IF h = ENCODING_ATTRIBUTE THEN Marked ELSE c.headers[h]
  BY <1>2
<1> HIDE DEF all
<1>4. ENCODING_ATTRIBUTE \in all <=> Marks(c.payload)
  BY <1>1 DEF all
<1>5. {h \in all : ~(Marks(c.payload) /\ h = ENCODING_ATTRIBUTE)} = own
  BY <1>1 DEF all
<1>6. \A h \in own : h \in all /\ h # ENCODING_ATTRIBUTE
  BY <1>1 DEF all
<1> QED BY <1>3, <1>4, <1>5, <1>6 DEF own, a

\* The body of a payload, read under the marker that goes with it, is the
\* payload.
LEMMA BodyRoundTrip ==
  ASSUME NEW payload \in Bytes
  PROVE  DecodeBody(EncodeBody(payload), Marks(payload)) = payload
<1>1. CASE payload \in Text
  BY <1>1 DEF DecodeBody, EncodeBody, Marks
<1>2. CASE payload \notin Text
  <2>1. payload \in Other /\ EncodeBody(payload) = Base64[payload] /\ Marks(payload)
    BY <1>2 DEF Bytes, EncodeBody, Marks
  <2>2. DOMAIN Base64 = Other /\ Base64[payload] \in Range(Base64)
    BY <2>1, FramingAssumption DEF Range
  <2>3. \A b \in Other : Base64[b] = Base64[payload] => b = payload
    BY <2>1, <2>2, FramingAssumption DEF IsInjective
  <2>4. (CHOOSE b \in Other : Base64[b] = Base64[payload]) = payload
    BY <2>1, <2>3
  <2> QED BY <2>1, <2>2, <2>4 DEF DecodeBody
<1> QED BY <1>1, <1>2

LEMMA GroupIsSome ==
  ASSUME NEW c, NEW fixed
  PROVE  Group(c, fixed) # None
<1>1. DefaultGroup # None /\ Lossy # None /\ \A t \in Text : t # None
  BY FramingAssumption DEF Bytes
<1> QED BY <1>1 DEF Group

\* A copy of what was published to a destination of kind `fifo`, on a queue that
\* is FIFO only if the destination is.
Genuine(m) ==
  /\ m.content \in Contents
  /\ Fifo(m.queue) => Fifo(Key[m.name])
  /\ ~HeadersRefused(m.content, Fifo(Key[m.name]))
  /\ \E fixed : m.wire = Copy(Frame(m.content, Fifo(Key[m.name]), fixed), Fifo(m.queue))

\* What ReceivedAsSent says of one copy.
ReadBack(m) ==
  LET got == DecodeMessage(m.wire, One)
      own == {PARTITION_KEY_HEADER, RECEIVE_COUNT_HEADER}
      read == DOMAIN got.headers
      wrote == DOMAIN m.content.headers
  IN  /\ got.payload = m.content.payload
      /\ read \ own = wrote \ own
      /\ \A h \in read \ own : got.headers[h] = m.content.headers[h]
      /\ got.headers[RECEIVE_COUNT_HEADER] = One
      /\ Fifo(m.queue) => PARTITION_KEY_HEADER \in read
      /\ ~Fifo(Key[m.name]) /\ PARTITION_KEY_HEADER \in wrote =>
           /\ PARTITION_KEY_HEADER \in read
           /\ got.headers[PARTITION_KEY_HEADER] = m.content.headers[PARTITION_KEY_HEADER]

\* The round trip through encode_body, encode_attributes_with and decode_message.
LEMMA GenuineIsReadBack == ASSUME NEW m, Genuine(m) PROVE ReadBack(m)
<1> DEFINE c == m.content
           fifo == Fifo(Key[m.name])
           onFifo == Fifo(m.queue)
           w == m.wire
           a == EncodeAttributes(c, fifo)
           carried == Carried(c.headers, fifo)
           group == w.group
           system == {RECEIVE_COUNT_HEADER} \cup (IF group # None THEN {PARTITION_KEY_HEADER} ELSE {})
           got == DecodeMessage(w, One)
<1>1. PICK fixed : w = Copy(Frame(c, fifo, fixed), onFifo)
  BY DEF Genuine
<1>2. /\ w.body = EncodeBody(c.payload) /\ w.attributes = a
      /\ group = IF onFifo THEN Group(c, fixed) ELSE None
  BY <1>1 DEF Copy, Frame, Genuine
<1>3. fifo \in BOOLEAN /\ onFifo \in BOOLEAN /\ (onFifo => fifo) /\ ~HeadersRefused(c, fifo)
  BY DEF Genuine, Fifo
<1>4. c.payload \in Bytes
  BY DEF Genuine, Contents
<1> HIDE DEF c, fifo, onFifo, w, a
<1>5. /\ ENCODING_ATTRIBUTE \in DOMAIN a /\ a[ENCODING_ATTRIBUTE] = Marked <=> Marks(c.payload)
      /\ {h \in DOMAIN a : ~(Marks(c.payload) /\ h = ENCODING_ATTRIBUTE)} = carried
      /\ \A h \in carried : a[h] = c.headers[h]
  BY <1>3, MarkedIsMarks DEF a
<1>6. got = [payload |-> DecodeBody(w.body, Marks(c.payload)),
             headers |-> [h \in carried \cup system |->
                            CASE h = RECEIVE_COUNT_HEADER -> One
                              [] h = PARTITION_KEY_HEADER /\ group # None -> group
                              [] OTHER -> a[h]]]
  <2> DEFINE marked == ENCODING_ATTRIBUTE \in DOMAIN w.attributes
                         /\ w.attributes[ENCODING_ATTRIBUTE] = Marked
             own == {h \in DOMAIN w.attributes : ~(marked /\ h = ENCODING_ATTRIBUTE)}
  <2>1. got = [payload |-> DecodeBody(w.body, marked),
               headers |-> [h \in own \cup system |->
                              CASE h = RECEIVE_COUNT_HEADER -> One
                                [] h = PARTITION_KEY_HEADER /\ group # None -> group
                                [] OTHER -> w.attributes[h]]]
    BY DEF DecodeMessage
  <2>2. marked <=> Marks(c.payload)
    BY <1>2, <1>5
  <2>3. own = carried
    BY <1>2, <1>5, <2>2
  <2>4. DecodeBody(w.body, marked) = DecodeBody(w.body, Marks(c.payload))
    BY <2>2 DEF DecodeBody
  <2> HIDE DEF marked, own, got, carried, system, group
  <2> QED BY <1>2, <2>1, <2>3, <2>4
<1> HIDE DEF got
<1>7. got.payload = c.payload
  BY <1>2, <1>4, <1>6, BodyRoundTrip
<1>8. /\ DOMAIN got.headers = carried \cup system
      /\ \A h \in carried \cup system :
           got.headers[h] = CASE h = RECEIVE_COUNT_HEADER -> One
                              [] h = PARTITION_KEY_HEADER /\ group # None -> group
                              [] OTHER -> a[h]
  BY <1>6
<1>9. PARTITION_KEY_HEADER # RECEIVE_COUNT_HEADER
  BY DEF PARTITION_KEY_HEADER, RECEIVE_COUNT_HEADER
<1>10. carried = {h \in DOMAIN c.headers : ~(fifo /\ h = PARTITION_KEY_HEADER)}
  BY DEF Carried
<1>11. onFifo => group # None
  BY <1>2, GroupIsSome
<1>12. ~fifo => group = None
  BY <1>2, <1>3
<1> HIDE DEF carried, group
<1>13. (DOMAIN got.headers) \ {PARTITION_KEY_HEADER, RECEIVE_COUNT_HEADER}
         = (DOMAIN c.headers) \ {PARTITION_KEY_HEADER, RECEIVE_COUNT_HEADER}
  BY <1>8, <1>10
<1>14. \A h \in (DOMAIN got.headers) \ {PARTITION_KEY_HEADER, RECEIVE_COUNT_HEADER} :
         got.headers[h] = c.headers[h]
  BY <1>5, <1>8 DEF carried
<1>15. got.headers[RECEIVE_COUNT_HEADER] = One
  BY <1>8, <1>9
<1>16. onFifo => PARTITION_KEY_HEADER \in DOMAIN got.headers
  BY <1>8, <1>11
<1>17. ASSUME ~fifo, PARTITION_KEY_HEADER \in DOMAIN c.headers
       PROVE  /\ PARTITION_KEY_HEADER \in DOMAIN got.headers
              /\ got.headers[PARTITION_KEY_HEADER] = c.headers[PARTITION_KEY_HEADER]
  <2>1. PARTITION_KEY_HEADER \in carried /\ group = None
    BY <1>10, <1>12, <1>17
  <2> QED BY <1>5, <1>8, <1>9, <2>1 DEF carried
<1> QED
  BY <1>7, <1>13, <1>14, <1>15, <1>16, <1>17 DEF ReadBack, got, c, fifo, onFifo, w
-----------------------------------------------------------------------------
(* The calls. *)

LEMMA NameFacts ==
  /\ \A n \in Names : Key[n] \in Keys \cup {None}
  /\ None \notin Keys
  /\ Destinations \subseteq Names /\ Links \subseteq Names \X Names
  /\ \A p \in Publishers : Policy[p].fanOut \in Seq(Names) /\ Policy[p].recorded \in BOOLEAN
                            /\ Policy[p].surface \in {"queue", "topic"}
  BY HarnessAssumption DEF Policies

\* A call under way is a record of its own kind, and an idle one has no step.
LEMMA CallFacts ==
  ASSUME TypeOK, NEW p \in Publishers, calls[p].step # "idle"
  PROVE  calls[p] \in Calls
  BY DEF TypeOK, Idle

LEMMA AfterFacts ==
  ASSUME NEW call \in Calls
  PROVE  /\ After(call) \in {Idle} \cup Calls
         /\ After(call).step \in {"idle", "link", "send"}
         /\ After(call).step = "link" => After(call).links # <<>>
<1>1. CASE call.links # <<>>
  BY <1>1 DEF After, Calls
<1>2. CASE call.links = <<>> /\ call.sends
  BY <1>2 DEF After, Calls
<1>3. CASE call.links = <<>> /\ ~call.sends
  BY <1>3 DEF After, Calls, Idle
<1> QED BY <1>1, <1>2, <1>3 DEF Calls

-----------------------------------------------------------------------------
(* Types. *)

LEMMA InitType == Init => TypeOK
<1> SUFFICES ASSUME Init PROVE TypeOK
  OBVIOUS
<1>1. publishes \in [Names -> [queue : Nat, topic : Nat, asked : Nat]]
  BY DEF Init, NoTally
<1>2. /\ endpoints \in [Keys -> SUBSET Keys] /\ topics \in [Keys -> SUBSET Keys]
      /\ calls \in [Publishers -> {Idle} \cup Calls] /\ taken \in Nat
  BY DEF Init
<1>3. noted \in [Names -> Seq([surface : {"queue", "topic"}, reached : SUBSET Keys,
                               recorded : BOOLEAN])]
  BY DEF Init
<1>4. answers \in [Names -> Seq(SUBSET DOMAIN Subscriptions)]
  BY DEF Init
<1> QED BY <1>1, <1>2, <1>3, <1>4 DEF TypeOK

LEMMA ForgetsType == Forgets => answers' \in [Names -> Seq(SUBSET DOMAIN Subscriptions)]
  BY DEF Forgets

LEMMA PublishType ==
  ASSUME TypeOK, NEW p \in Publishers, NEW n \in Destinations, Publish(p, n)
  PROVE  TypeOK'
<1> DEFINE first == [name |-> n, sends |-> TRUE, step |-> "send", reached |-> {},
                     links |-> IF Policy[p].surface = "topic" THEN Policy[p].fanOut ELSE <<>>]
<1>1. first \in Calls
  BY NameFacts DEF Calls
<1>2. calls' = [calls EXCEPT ![p] = After(first)]
  BY DEF Publish
<1> HIDE DEF first
<1>3. calls' \in [Publishers -> {Idle} \cup Calls]
  BY <1>1, <1>2, AfterFacts DEF TypeOK
<1> QED BY <1>3, ForgetsType DEF Publish, Changed, TypeOK

LEMMA SubscribeType ==
  ASSUME TypeOK, NEW p \in Publishers, NEW link \in Links,
         SubscribeQueueToTopic(p, link[1], link[2])
  PROVE  TypeOK'
<1> DEFINE first == [name |-> link[1], links |-> <<link[2]>>, sends |-> FALSE, step |-> "link",
                     reached |-> {}]
<1>1. first \in Calls
  BY NameFacts DEF Calls
<1>2. calls' = [calls EXCEPT ![p] = first]
  BY DEF SubscribeQueueToTopic
<1> HIDE DEF first
<1>3. calls' \in [Publishers -> {Idle} \cup Calls]
  BY <1>1, <1>2 DEF TypeOK
<1> QED BY <1>3, ForgetsType DEF SubscribeQueueToTopic, Changed, TypeOK

\* The names a call that links is about.
LEMMA LinkFacts ==
  ASSUME TypeOK, CallsSound, NEW p \in Publishers, calls[p].step \in {"link", "record"}
  PROVE  /\ calls[p] \in Calls /\ calls[p].name \in Names
         /\ Head(calls[p].links) \in Names /\ Tail(calls[p].links) \in Seq(Names)
         /\ Key[calls[p].name] \in Keys \cup {None} /\ Key[Head(calls[p].links)] \in Keys \cup {None}
<1>1. calls[p] \in Calls
  BY CallFacts
<1>2. calls[p].name \in Names /\ calls[p].links \in Seq(Names) /\ calls[p].links # <<>>
  BY <1>1 DEF Calls, CallsSound
<1>3. Head(calls[p].links) \in Names /\ Tail(calls[p].links) \in Seq(Names)
  BY <1>2
<1> QED BY <1>1, <1>2, <1>3, NameFacts

LEMMA LinkQueueType ==
  ASSUME TypeOK, CallsSound, NEW p \in Publishers, LinkQueue(p)
  PROVE  TypeOK'
<1> DEFINE call == calls[p]
           k == Key[call.name]
           q == Key[Head(call.links)]
<1>1. call.step = "link" /\ call \in Calls /\ k \in Keys \cup {None} /\ q \in Keys \cup {None}
  BY LinkFacts DEF LinkQueue
<1>2. CASE LinkRefused(call.name, Head(call.links))
  BY <1>2, ForgetsType DEF LinkQueue, Ends, Changed, TypeOK
<1>3. CASE ~LinkRefused(call.name, Head(call.links))
  <2>1. k \in Keys /\ q \in Keys
    BY <1>1, <1>3 DEF LinkRefused
  <2>2. endpoints' = [endpoints EXCEPT ![k] = @ \cup {q}]
        /\ calls' = [calls EXCEPT ![p].step = "record"]
    BY <1>3 DEF LinkQueue
  <2>3. [call EXCEPT !.step = "record"] \in Calls
    BY <1>1 DEF Calls
  <2> HIDE DEF k, q
  <2>4. endpoints' \in [Keys -> SUBSET Keys]
    BY <2>1, <2>2 DEF TypeOK
  <2>5. calls' \in [Publishers -> {Idle} \cup Calls]
    BY <2>2, <2>3 DEF TypeOK
  <2> QED BY <2>4, <2>5, ForgetsType DEF LinkQueue, Changed, TypeOK
<1> QED BY <1>2, <1>3

LEMMA RecordType ==
  ASSUME TypeOK, CallsSound, NEW p \in Publishers, RecordTopicQueue(p)
  PROVE  TypeOK'
<1> DEFINE call == calls[p]
           k == Key[call.name]
           q == Key[Head(call.links)]
           rest == [call EXCEPT !.links = Tail(@)]
<1>1. call.step = "record" /\ call \in Calls /\ k \in Keys /\ q \in Keys
  BY LinkFacts DEF RecordTopicQueue, CallsSound
<1>2. rest \in Calls
  BY <1>1, LinkFacts DEF Calls
<1>3. /\ topics' = [topics EXCEPT ![k] = @ \cup {q}]
      /\ calls' = [calls EXCEPT ![p] = After(rest)]
  BY DEF RecordTopicQueue
<1> HIDE DEF k, q, rest
<1>4. topics' \in [Keys -> SUBSET Keys]
  BY <1>1, <1>3 DEF TypeOK
<1>5. calls' \in [Publishers -> {Idle} \cup Calls]
  BY <1>2, <1>3, AfterFacts DEF TypeOK
<1> QED BY <1>4, <1>5, ForgetsType DEF RecordTopicQueue, Changed, TypeOK

LEMMA SendType ==
  ASSUME TypeOK, NEW p \in Publishers, NEW c \in Published, Send(p, c)
  PROVE  TypeOK'
<1> DEFINE call == calls[p]
           k == Key[call.name]
           reached == IF Policy[p].surface = "topic" THEN endpoints[k] ELSE {k}
           noting == [call EXCEPT !.step = "note", !.reached = reached]
<1>1. call \in Calls /\ k \in Keys \cup {None}
  BY CallFacts, NameFacts DEF Send, Calls
<1>2. \/ calls' = [calls EXCEPT ![p] = Idle] /\ taken' \in Nat
      \/ k # None /\ calls' = [calls EXCEPT ![p] = noting] /\ taken' \in Nat
  BY DEF Send, Ends, TypeOK
<1>3. k # None => reached \in SUBSET Keys
  BY <1>1 DEF TypeOK
<1> HIDE DEF reached
<1>4. k # None => noting \in Calls
  BY <1>1, <1>3 DEF Calls
<1> HIDE DEF noting, k
<1>5. calls' \in [Publishers -> {Idle} \cup Calls] /\ taken' \in Nat
  BY <1>2, <1>4 DEF TypeOK
<1> QED BY <1>5, ForgetsType DEF Send, TypeOK

Tallies == [queue : Nat, topic : Nat, asked : Nat]

LEMMA TallyCounts ==
  ASSUME NEW tally \in Tallies, NEW field \in {"queue", "topic", "asked"}
  PROVE  [tally EXCEPT ![field] = @ + 1] \in Tallies
<1>1. CASE field = "queue"
  BY <1>1 DEF Tallies
<1>2. CASE field = "topic"
  BY <1>2 DEF Tallies
<1>3. CASE field = "asked"
  BY <1>3 DEF Tallies
<1> QED BY <1>1, <1>2, <1>3

LEMMA NoteType ==
  ASSUME TypeOK, NEW p \in Publishers, Note(p)
  PROVE  TypeOK'
<1> DEFINE call == calls[p]
           surface == Policy[p].surface
           event == [surface |-> surface, reached |-> call.reached, recorded |-> Policy[p].recorded]
<1>1. call \in Calls
  BY CallFacts DEF Note
<1>2. call.name \in Names /\ call.reached \in SUBSET Keys /\ surface \in {"queue", "topic"}
  BY <1>1, NameFacts DEF Calls
<1>3. event \in [surface : {"queue", "topic"}, reached : SUBSET Keys, recorded : BOOLEAN]
  BY <1>2, NameFacts
<1>4. /\ publishes' = [publishes EXCEPT ![call.name][surface] = @ + 1]
      /\ noted' = [noted EXCEPT ![call.name] = Append(@, event)]
      /\ calls' = [calls EXCEPT ![p] = Idle]
  BY DEF Note, Ends
<1> DEFINE Events == [surface : {"queue", "topic"}, reached : SUBSET Keys, recorded : BOOLEAN]
<1> HIDE DEF event, surface
<1>5. publishes' \in [Names -> Tallies]
  <2>1. [publishes[call.name] EXCEPT ![surface] = @ + 1] \in Tallies
    BY <1>2, TallyCounts DEF TypeOK, Tallies
  <2> QED BY <1>2, <1>4, <2>1 DEF TypeOK, Tallies
<1>6. noted' \in [Names -> Seq(Events)]
  <2>1. event \in Events /\ noted \in [Names -> Seq(Events)]
    BY <1>3 DEF TypeOK
  <2> HIDE DEF Events
  <2>2. Append(noted[call.name], event) \in Seq(Events)
    BY <1>2, <2>1
  <2> QED BY <1>2, <1>4, <2>1, <2>2
<1>7. calls' \in [Publishers -> {Idle} \cup Calls]
  BY <1>4 DEF TypeOK
<1> QED BY <1>5, <1>6, <1>7, ForgetsType DEF Note, Changed, TypeOK, Tallies

LEMMA InjectType ==
  ASSUME TypeOK, NEW n \in Destinations, NEW c \in Published, Inject(n, c)
  PROVE  TypeOK'
<1>1. taken' = taken + 1 /\ Forgets /\ UNCHANGED <<endpoints, topics, publishes, calls, noted>>
  BY DEF Inject
<1>2. taken' \in Nat
  BY <1>1 DEF TypeOK
<1> QED BY <1>1, <1>2, ForgetsType DEF TypeOK

LEMMA RoutesType ==
  ASSUME TypeOK, NEW n \in Names, Routes(n)
  PROVE  TypeOK'
<1> DEFINE answer == Positions(ReachedQueues(n))
           Answers == SUBSET DOMAIN Subscriptions
<1>1. answer \in Answers
  BY DEF Positions
<1>2. /\ publishes' = [publishes EXCEPT ![n].asked = @ + 1]
      /\ answers' = [answers EXCEPT ![n] = Append(@, answer)] \/ answers' = answers
      /\ UNCHANGED <<endpoints, topics, calls, taken, noted>>
  BY DEF Routes
<1> HIDE DEF answer
<1>3. publishes' \in [Names -> Tallies]
  <2>1. publishes \in [Names -> Tallies]
    BY DEF TypeOK, Tallies
  <2>2. [publishes[n] EXCEPT !["asked"] = @ + 1] \in Tallies
    BY <2>1, TallyCounts
  <2> QED BY <1>2, <2>1, <2>2
<1>4. answers' \in [Names -> Seq(Answers)]
  <2>1. answers \in [Names -> Seq(Answers)]
    BY DEF TypeOK
  <2> HIDE DEF Answers
  <2>2. Append(answers[n], answer) \in Seq(Answers)
    BY <1>1, <2>1
  <2> QED BY <1>2, <2>1, <2>2
<1> QED BY <1>2, <1>3, <1>4 DEF TypeOK, Tallies

-----------------------------------------------------------------------------
(* The record of topics. *)

\* A step of a call that neither is nor becomes one about to record a link, and
\* that leaves the topics alone.
LEMMA PlainStep ==
  ASSUME TypeOK, Sound, NEW p \in Publishers, NEW next,
         calls' = [calls EXCEPT ![p] = next], calls[p].step # "record",
         next.step # "record", next.step = "link" => next.links # <<>>,
         UNCHANGED <<endpoints, topics>>
  PROVE  Sound'
<1>1. \A o \in Publishers : calls'[o] = IF o = p THEN next ELSE calls[o]
  BY DEF TypeOK
<1>2. CallsSound'
  BY <1>1 DEF Sound, CallsSound
<1>3. \A o \in Publishers : \A k, q : Linking(o, k, q) => Linking(o, k, q)'
  BY <1>1 DEF Linking
<1>4. RecordSound'
  BY <1>3 DEF Sound, RecordSound
<1>5. KindsSound'
  BY DEF Sound, KindsSound
<1> QED BY <1>2, <1>4, <1>5 DEF Sound

LEMMA PublishSound ==
  ASSUME TypeOK, Sound, NEW p \in Publishers, NEW n \in Destinations, Publish(p, n)
  PROVE  Sound'
<1> DEFINE first == [name |-> n, sends |-> TRUE, step |-> "send", reached |-> {},
                     links |-> IF Policy[p].surface = "topic" THEN Policy[p].fanOut ELSE <<>>]
<1>1. first \in Calls
  BY NameFacts DEF Calls
<1>2. /\ calls' = [calls EXCEPT ![p] = After(first)] /\ calls[p] = Idle
      /\ UNCHANGED <<endpoints, topics>>
  BY DEF Publish, Free
<1> HIDE DEF first
<1>3. calls[p].step # "record"
  BY <1>2 DEF Idle
<1> QED BY <1>1, <1>2, <1>3, AfterFacts, PlainStep

LEMMA SubscribeSound ==
  ASSUME TypeOK, Sound, NEW p \in Publishers, NEW link \in Links,
         SubscribeQueueToTopic(p, link[1], link[2])
  PROVE  Sound'
<1> DEFINE first == [name |-> link[1], links |-> <<link[2]>>, sends |-> FALSE, step |-> "link",
                     reached |-> {}]
<1>1. /\ calls' = [calls EXCEPT ![p] = first] /\ calls[p] = Idle
      /\ UNCHANGED <<endpoints, topics>>
  BY DEF SubscribeQueueToTopic, Free
<1>2. calls[p].step # "record" /\ first.step = "link" /\ first.links # <<>>
  BY <1>1 DEF Idle
<1> HIDE DEF first
<1> QED BY <1>1, <1>2, PlainStep

\* A link the account takes is one a call is about to record, and a FIFO queue is
\* only linked to a FIFO topic; a link it refuses changes nothing.
LEMMA LinkQueueSound ==
  ASSUME TypeOK, Sound, NEW p \in Publishers, LinkQueue(p)
  PROVE  Sound'
<1> DEFINE call == calls[p]
           k == Key[call.name]
           q == Key[Head(call.links)]
<1>1. call.step = "link" /\ call \in Calls /\ k \in Keys \cup {None} /\ q \in Keys \cup {None}
  BY LinkFacts DEF LinkQueue, Sound
<1>2. CASE LinkRefused(call.name, Head(call.links))
  <2>1. calls' = [calls EXCEPT ![p] = Idle] /\ UNCHANGED <<endpoints, topics>>
    BY <1>2 DEF LinkQueue, Ends
  <2>2. Idle.step = "idle"
    BY DEF Idle
  <2> QED BY <1>1, <2>1, <2>2, PlainStep
<1>3. CASE ~LinkRefused(call.name, Head(call.links))
  <2> DEFINE next == [call EXCEPT !.step = "record"]
  <2>1. k \in Keys /\ q \in Keys /\ (Fifo(q) => Fifo(k))
    BY <1>1, <1>3 DEF LinkRefused
  <2>2. /\ endpoints' = [endpoints EXCEPT ![k] = @ \cup {q}] /\ UNCHANGED topics
        /\ calls' = [calls EXCEPT ![p] = next]
    BY <1>3 DEF LinkQueue
  <2>3. next.step = "record" /\ next.name = call.name /\ next.links = call.links
    BY <1>1 DEF Calls
  <2>4. call.links # <<>>
    BY <1>1 DEF Sound, CallsSound
  <2> HIDE DEF next
  <2>5. \A o \in Publishers : calls'[o] = IF o = p THEN next ELSE calls[o]
    BY <2>2 DEF TypeOK
  <2>6. \A j \in Keys : endpoints'[j] = IF j = k THEN endpoints[j] \cup {q} ELSE endpoints[j]
    BY <2>2 DEF TypeOK
  <2>7. CallsSound'
    <3> SUFFICES ASSUME NEW o \in Publishers
                 PROVE  /\ calls'[o].step \in {"link", "record"} => calls'[o].links # <<>>
                        /\ calls'[o].step = "record" =>
                             /\ Key[calls'[o].name] \in Keys /\ Key[Head(calls'[o].links)] \in Keys
                             /\ Key[Head(calls'[o].links)] \in endpoints'[Key[calls'[o].name]]
      BY DEF CallsSound
    <3>1. CASE o = p
      BY <2>1, <2>3, <2>4, <2>5, <2>6, <3>1, ZenonT(60)
    <3>2. CASE o # p
      BY <2>5, <2>6, <3>2, ZenonT(60) DEF Sound, CallsSound
    <3> QED BY <3>1, <3>2
  <2>8. \A j, i : j = k /\ i = q => Linking(p, j, i)'
    BY <2>3, <2>5 DEF Linking
  <2>9. \A o \in Publishers : \A j, i : Linking(o, j, i) => Linking(o, j, i)'
    BY <1>1, <2>5 DEF Linking
  <2>10. RecordSound'
    <3>1. \A j \in Keys : topics'[j] \subseteq endpoints'[j]
      BY <2>2, <2>6 DEF Sound, RecordSound
    <3>2. ASSUME NEW j \in Keys, NEW i \in endpoints'[j] \ topics'[j]
          PROVE  \E o \in Publishers : Linking(o, j, i)'
      <4>1. CASE j = k /\ i = q
        BY <2>8, <4>1
      <4>2. CASE ~(j = k /\ i = q)
        <5>1. i \in endpoints[j] \ topics[j]
          BY <2>2, <2>6, <4>2
        <5>2. PICK o \in Publishers : Linking(o, j, i)
          BY <5>1 DEF Sound, RecordSound
        <5> QED BY <2>9, <5>2
      <4> QED BY <4>1, <4>2
    <3> QED BY <3>1, <3>2 DEF RecordSound
  <2>11. KindsSound'
    BY <2>1, <2>6 DEF Sound, KindsSound, Fifo
  <2> QED BY <2>7, <2>10, <2>11 DEF Sound
<1> QED BY <1>2, <1>3

\* What a call records, the account has already.
LEMMA RecordTopicQueueSound ==
  ASSUME TypeOK, Sound, NEW p \in Publishers, RecordTopicQueue(p)
  PROVE  Sound'
<1> DEFINE call == calls[p]
           k == Key[call.name]
           q == Key[Head(call.links)]
           rest == [call EXCEPT !.links = Tail(@)]
           next == After(rest)
<1>1. call.step = "record" /\ call \in Calls /\ k \in Keys /\ q \in Keys /\ q \in endpoints[k]
  BY LinkFacts DEF RecordTopicQueue, Sound, CallsSound
<1>2. rest \in Calls
  BY <1>1, LinkFacts DEF Calls, Sound
<1>3. /\ topics' = [topics EXCEPT ![k] = @ \cup {q}] /\ UNCHANGED endpoints
      /\ calls' = [calls EXCEPT ![p] = next]
  BY DEF RecordTopicQueue
<1> HIDE DEF rest
<1>4. next.step \in {"idle", "link", "send"} /\ (next.step = "link" => next.links # <<>>)
  BY <1>2, AfterFacts
<1> HIDE DEF next
<1>5. \A o \in Publishers : calls'[o] = IF o = p THEN next ELSE calls[o]
  BY <1>3 DEF TypeOK
<1>6. \A j \in Keys : topics'[j] = IF j = k THEN topics[j] \cup {q} ELSE topics[j]
  BY <1>3 DEF TypeOK
<1>7. CallsSound'
  BY <1>3, <1>4, <1>5 DEF Sound, CallsSound
<1>8. RecordSound'
  <2>1. \A j \in Keys : topics'[j] \subseteq endpoints'[j]
    BY <1>1, <1>3, <1>6 DEF Sound, RecordSound
  <2>2. ASSUME NEW j \in Keys, NEW i \in endpoints'[j] \ topics'[j]
        PROVE  \E o \in Publishers : Linking(o, j, i)'
    <3>1. i \in endpoints[j] \ topics[j] /\ ~(j = k /\ i = q)
      BY <1>3, <1>6
    <3>2. PICK o \in Publishers : Linking(o, j, i)
      BY <3>1 DEF Sound, RecordSound
    <3>3. o # p
      BY <3>1, <3>2 DEF Linking
    <3>4. Linking(o, j, i)'
      BY <1>5, <3>2, <3>3 DEF Linking
    <3> QED BY <3>4
  <2> QED BY <2>1, <2>2 DEF RecordSound
<1>9. KindsSound'
  BY <1>3 DEF Sound, KindsSound
<1> QED BY <1>7, <1>8, <1>9 DEF Sound

LEMMA SendSound ==
  ASSUME TypeOK, Sound, NEW p \in Publishers, NEW c \in Published, Send(p, c)
  PROVE  Sound'
<1>1. calls[p].step = "send" /\ UNCHANGED <<endpoints, topics>>
  BY DEF Send
<1>2. calls[p] \in Calls
  BY <1>1, CallFacts
<1> DEFINE k == Key[calls[p].name]
           reached == IF Policy[p].surface = "topic" THEN endpoints[k] ELSE {k}
           noting == [calls[p] EXCEPT !.step = "note", !.reached = reached]
<1>3. calls' = [calls EXCEPT ![p] = Idle] \/ calls' = [calls EXCEPT ![p] = noting]
  BY DEF Send, Ends
<1>4. Idle.step = "idle" /\ noting.step = "note"
  BY <1>2 DEF Idle, Calls
<1> HIDE DEF noting
<1> QED BY <1>1, <1>3, <1>4, PlainStep

LEMMA NoteSound ==
  ASSUME TypeOK, Sound, NEW p \in Publishers, Note(p)
  PROVE  Sound'
<1>1. /\ calls[p].step = "note" /\ UNCHANGED <<endpoints, topics>>
      /\ calls' = [calls EXCEPT ![p] = Idle]
  BY DEF Note, Ends
<1>2. Idle.step = "idle"
  BY DEF Idle
<1> QED BY <1>1, <1>2, PlainStep

\* The steps that leave the calls and the topics alone.
LEMMA StillSound ==
  ASSUME Sound, UNCHANGED <<endpoints, topics, calls>>
  PROVE  Sound'
  BY DEF Sound, CallsSound, RecordSound, KindsSound, Linking

-----------------------------------------------------------------------------
(* The copies. *)

CopiesGenuine == \A m \in copies : Genuine(m)

\* What reaches queues that are FIFO only if the destination is, of a message
\* that was framed and not refused, is genuine.
LEMMA ReachingGenuine ==
  ASSUME NEW n, NEW ks, NEW c \in Contents, NEW fixed,
         ~FrameRefused(c, Fifo(Key[n]), fixed), \A j \in ks : Fifo(j) => Fifo(Key[n])
  PROVE  \A m \in Reaching(ks, c, Frame(c, Fifo(Key[n]), fixed), n) : Genuine(m)
<1> DEFINE w == Frame(c, Fifo(Key[n]), fixed)
<1> SUFFICES ASSUME NEW m \in Reaching(ks, c, w, n) PROVE Genuine(m)
  OBVIOUS
<1>1. PICK j \in ks : m = [queue |-> j, name |-> n, content |-> c, wire |-> Copy(w, Fifo(j))]
  BY DEF Reaching
<1>2. m.queue = j /\ m.name = n /\ m.content = c /\ m.wire = Copy(w, Fifo(j))
  BY <1>1
<1>3. ~HeadersRefused(c, Fifo(Key[n]))
  BY DEF FrameRefused
<1> QED BY <1>2, <1>3 DEF Genuine

LEMMA SendGenuine ==
  ASSUME TypeOK, Sound, NEW p \in Publishers, NEW c \in Published, Send(p, c)
  PROVE  CopiesGenuine'
<1> DEFINE n == calls[p].name
           k == Key[n]
           fixed == Policy[p].fixed
           reached == IF Policy[p].surface = "topic" THEN endpoints[k] ELSE {k}
<1>1. \/ copies' = {}
      \/ /\ k # None /\ ~FrameRefused(c, Fifo(k), fixed)
         /\ copies' = Reaching(reached, c, Frame(c, Fifo(k), fixed), n)
  BY DEF Send
<1>2. calls[p] \in Calls
  BY CallFacts DEF Send
<1>3. k \in Keys \cup {None} /\ c \in Contents
  BY <1>2, NameFacts, HarnessAssumption DEF Calls
<1>4. k # None => \A j \in reached : Fifo(j) => Fifo(k)
  BY <1>3 DEF Sound, KindsSound
<1> HIDE DEF reached, fixed, n
<1> QED BY <1>1, <1>3, <1>4, ReachingGenuine DEF CopiesGenuine

LEMMA InjectGenuine ==
  ASSUME NEW n \in Destinations, NEW c \in Published, Inject(n, c)
  PROVE  CopiesGenuine'
<1>1. /\ ~FrameRefused(c, Fifo(Key[n]), None)
      /\ copies' = Reaching({Key[n]}, c, Frame(c, Fifo(Key[n]), None), n)
  BY DEF Inject
<1>2. c \in Contents
  BY HarnessAssumption
<1> QED BY <1>1, <1>2, ReachingGenuine DEF CopiesGenuine

-----------------------------------------------------------------------------
(* The invariant and what follows from it. *)

HarnessInv == RecordInv /\ CopiesGenuine

LEMMA InitInv == Init => HarnessInv
<1> SUFFICES ASSUME Init PROVE HarnessInv
  OBVIOUS
<1>1. \A p \in Publishers : calls[p].step = "idle"
  BY DEF Init, Idle
<1>2. CallsSound
  BY <1>1 DEF CallsSound
<1>3. RecordSound /\ KindsSound /\ CopiesGenuine
  BY DEF Init, RecordSound, KindsSound, CopiesGenuine
<1> QED BY <1>2, <1>3, InitType DEF HarnessInv, RecordInv, Sound

LEMMA NextInv == HarnessInv /\ [Next]_vars => HarnessInv'
<1> SUFFICES ASSUME HarnessInv, [Next]_vars PROVE HarnessInv'
  OBVIOUS
<1> USE DEF HarnessInv, RecordInv
<1>0. copies' = {} => CopiesGenuine'
  BY DEF CopiesGenuine
<1>1. ASSUME NEW p \in Publishers, NEW n \in Destinations, Publish(p, n) PROVE HarnessInv'
  BY <1>0, <1>1, PublishType, PublishSound DEF Publish, Changed
<1>2. ASSUME NEW p \in Publishers, NEW link \in Links,
             SubscribeQueueToTopic(p, link[1], link[2])
      PROVE  HarnessInv'
  BY <1>0, <1>2, SubscribeType, SubscribeSound DEF SubscribeQueueToTopic, Changed
<1>3. ASSUME NEW p \in Publishers, LinkQueue(p) PROVE HarnessInv'
  <2>1. copies' = {}
    BY <1>3 DEF LinkQueue, Changed
  <2> QED BY <1>0, <1>3, <2>1, LinkQueueType, LinkQueueSound DEF Sound
<1>4. ASSUME NEW p \in Publishers, RecordTopicQueue(p) PROVE HarnessInv'
  <2>1. copies' = {}
    BY <1>4 DEF RecordTopicQueue, Changed
  <2> QED BY <1>0, <1>4, <2>1, RecordType, RecordTopicQueueSound DEF Sound
<1>5. ASSUME NEW p \in Publishers, NEW c \in Published, Send(p, c) PROVE HarnessInv'
  BY <1>5, SendType, SendSound, SendGenuine
<1>6. ASSUME NEW p \in Publishers, Note(p) PROVE HarnessInv'
  <2>1. copies' = {}
    BY <1>6 DEF Note, Changed
  <2> QED BY <1>0, <1>6, <2>1, NoteType, NoteSound
<1>7. ASSUME NEW n \in Destinations, NEW c \in Published, Inject(n, c) PROVE HarnessInv'
  <2>1. UNCHANGED <<endpoints, topics, calls>>
    BY <1>7 DEF Inject
  <2> QED BY <1>7, <2>1, InjectType, InjectGenuine, StillSound
<1>8. ASSUME NEW n \in Names, Routes(n) PROVE HarnessInv'
  <2>1. UNCHANGED <<endpoints, topics, calls>> /\ copies' = {}
    BY <1>8 DEF Routes
  <2> QED BY <1>0, <1>8, <2>1, RoutesType, StillSound
<1>9. CASE UNCHANGED vars
  <2>1. UNCHANGED <<endpoints, topics, calls>> /\ UNCHANGED copies
    BY <1>9 DEF vars
  <2>2. TypeOK'
    BY <1>9 DEF vars, TypeOK
  <2> QED BY <2>1, <2>2, StillSound DEF CopiesGenuine
<1> QED
  BY <1>1, <1>2, <1>3, <1>4, <1>5, <1>6, <1>7, <1>8, <1>9 DEF Next

\* The broker's routing, the account's topics and the calls under way keep their
\* types through every interleaving of publishes, links and questions.
THEOREM HarnessTypeCorrect == Spec => []TypeOK
<1>1. HarnessInv => TypeOK
  BY DEF HarnessInv, RecordInv
<1> QED BY <1>1, InitInv, NextInv, PTL DEF Spec

\* The record of topics the harness is answered from agrees with the account on
\* every topic no call is linking a queue to (subscribe_queue_to_topic,
\* Routing::subscribe).
THEOREM RecordsAreExact == Spec => []RecordIsExact
<1>1. HarnessInv => RecordIsExact
  <2> SUFFICES ASSUME HarnessInv, NEW k \in Keys,
                      \A p \in Publishers : calls[p].step = "record" => Key[calls[p].name] # k
               PROVE  topics[k] = endpoints[k]
    BY DEF RecordIsExact
  <2>1. \A p \in Publishers : \A q : ~Linking(p, k, q)
    BY DEF Linking
  <2> QED BY <2>1 DEF HarnessInv, RecordInv, Sound, RecordSound
<1> QED BY <1>1, InitInv, NextInv, PTL DEF Spec

\* Whatever the bytes and the headers, and whichever queue or topic a message
\* went through, its delivery reads back what was published (frame, encode_body,
\* encode_attributes_with, decode_message).
THEOREM DeliveriesReadBack == Spec => []ReceivedAsSent
<1>1. HarnessInv => ReceivedAsSent
  <2>1. HarnessInv => \A m \in copies : ReadBack(m)
    BY GenuineIsReadBack DEF HarnessInv, CopiesGenuine
  <2> QED BY <2>1 DEF ReceivedAsSent, ReadBack
<1> QED BY <1>1, InitInv, NextInv, PTL DEF Spec

-----------------------------------------------------------------------------
(* The passes of the harness.  The answers since the broker last changed    *)
(* are the answers of consecutive questions under one tally, so that a pass *)
(* goes once round the surfaces.                                            *)

Used(n, surface) == {e \in DOMAIN noted[n] : noted[n][e].surface = surface}

\* The tallies count the publishes that were noted.
Tallied ==
  \A n \in Names : /\ publishes[n].queue = Cardinality(Used(n, "queue"))
                   /\ publishes[n].topic = Cardinality(Used(n, "topic"))

\* Where a publish through a surface of the name n may have gone, while the
\* topics had the queues `ends`.
Went(ends, n, surface, reached) ==
  /\ Key[n] \in Keys
  /\ surface = "queue" => reached = {Key[n]}
  /\ surface = "topic" => reached \subseteq ends[Key[n]]

Visited ==
  \A n \in Names : \A e \in DOMAIN noted[n] :
    Went(endpoints, n, noted[n][e].surface, noted[n][e].reached)

Visiting ==
  \A p \in Publishers : calls[p].step = "note" =>
    Went(endpoints, calls[p].name, Policy[p].surface, calls[p].reached)

\* The answer to the question that finds `asked` questions before it.
Answer(n, asked) ==
  IF asked % (publishes[n].queue + publishes[n].topic) < publishes[n].queue
  THEN {Key[n]} ELSE topics[Key[n]]

InTurn ==
  \A n \in Names : answers[n] # <<>> =>
    /\ Quiet /\ Len(answers[n]) <= publishes[n].asked
    /\ publishes[n].queue + publishes[n].topic # 0
    /\ \A a \in DOMAIN answers[n] :
         answers[n][a] = Positions(Answer(n, publishes[n].asked - Len(answers[n]) + a - 1))

PassInv == Tallied /\ Visited /\ Visiting /\ InTurn


\* Division with remainder.
LEMMA Remainders ==
  ASSUME NEW x \in Nat, NEW t \in Nat \ {0}
  PROVE  x \div t \in Nat /\ x % t \in 0..(t - 1) /\ x = t * (x \div t) + (x % t)
OBVIOUS

LEMMA Products ==
  ASSUME NEW t \in Nat, NEW m \in Nat, NEW n \in Nat
  PROVE  /\ t * m \in Nat /\ t * (m + 1) = t * m + t
         /\ m <= n => t * m <= t * n
OBVIOUS

\* Consecutive questions, as many as there are publishes, and those of them whose
\* remainder is below q.
Turns(from, t) == from..(from + t - 1)

FirstTurns(c, from, t, q) == {a \in Turns(from, t) : (c + a - 1) % t < q}

IsRound(c, from, t, q) == c \in Nat /\ from \in Nat \ {0} /\ t \in Nat \ {0} /\ q \in 0..t

\* They meet every remainder once.
LEMMA OnceRound ==
  ASSUME NEW c, NEW from, NEW t, NEW q, IsRound(c, from, t, q)
  PROVE  /\ IsFiniteSet(Turns(from, t)) /\ Cardinality(FirstTurns(c, from, t, q)) = q
         /\ Cardinality(Turns(from, t) \ FirstTurns(c, from, t, q)) = t - q
<1> DEFINE pass == Turns(from, t)
           first == FirstTurns(c, from, t, q)
           R(a) == (c + a - 1) % t
           f == [a \in pass |-> R(a)]
           g == [a \in first |-> R(a)]
<1>1. c \in Nat /\ from \in Nat \ {0} /\ t \in Nat \ {0} /\ q \in 0..t
  BY DEF IsRound
<1>2. pass \subseteq Nat \ {0}
  BY <1>1 DEF Turns
<1>3. IsFiniteSet(pass) /\ Cardinality(pass) = t
  BY <1>1, FS_Interval DEF Turns
<1>4. IsFiniteSet(0..(t - 1)) /\ Cardinality(0..(t - 1)) = t
  BY <1>1, FS_Interval
<1>5. \A a \in pass : R(a) \in 0..(t - 1)
  BY <1>1 DEF Turns
<1>6. ASSUME NEW a \in pass, NEW b \in pass, R(a) = R(b), a < b PROVE FALSE
  <2> DEFINE x == c + a - 1
             y == c + b - 1
             m == x \div t
             n == y \div t
  <2>1. x \in Nat /\ y \in Nat /\ x < y /\ y < x + t
    BY <1>1, <1>6 DEF Turns
  <2>2. x % t = y % t
    BY <1>6
  <2> HIDE DEF x, y
  <2>3. m \in Nat /\ n \in Nat
    BY <1>1, <2>1, Remainders
  <2>4. x = t * m + (x % t) /\ y = t * n + (y % t)
    BY <1>1, <2>1, Remainders
  <2>5. x % t \in Nat
    BY <1>1, <2>1, Remainders
  <2> HIDE DEF m, n
  <2>6. t * m \in Nat /\ t * n \in Nat
    BY <1>1, <2>3
  <2>7. t * m < t * n /\ t * n < t * m + t
    BY <1>1, <2>1, <2>4, <2>5, <2>6, <2>2
  <2>8. CASE n <= m
    <3>1. t * n <= t * m
      BY <1>1, <2>3, <2>8, Products
    <3> QED BY <1>1, <2>6, <2>7, <3>1
  <2>9. CASE m + 1 <= n
    <3>1. t * (m + 1) <= t * n /\ t * (m + 1) = t * m + t
      BY <1>1, <2>3, <2>9, Products
    <3> QED BY <1>1, <2>6, <2>7, <3>1
  <2> QED BY <2>3, <2>8, <2>9
<1>7. \A a : a \in first <=> a \in pass /\ R(a) < q
  BY DEF FirstTurns
<1> HIDE DEF R
<1>8. \A a, b \in pass : R(a) = R(b) => a = b
  BY <1>6, <1>2
<1>9. f \in Injection(pass, 0..(t - 1))
  BY <1>5, <1>8 DEF Injection, IsInjective
<1>10. f \in Surjection(pass, 0..(t - 1))
  BY <1>3, <1>4, <1>9, FS_Injection
<1>11. \A r \in 0..(t - 1) : \E a \in pass : R(a) = r
  BY <1>10 DEF Surjection
<1>12. IsFiniteSet(first) /\ first \subseteq pass
  BY <1>3, <1>7, FS_Subset
<1>13. g \in Bijection(first, 0..(q - 1))
  <2>1. g \in [first -> 0..(q - 1)]
    BY <1>1, <1>5, <1>12, <1>7
  <2>2. \A a, b \in first : g[a] = g[b] => a = b
    BY <1>8, <1>12
  <2>3. ASSUME NEW r \in 0..(q - 1) PROVE \E a \in first : g[a] = r
    <3>1. PICK a \in pass : R(a) = r
      BY <1>1, <1>11
    <3>2. a \in first
      BY <1>1, <1>7, <3>1
    <3> QED BY <3>1, <3>2
  <2> HIDE DEF g
  <2> QED BY <2>1, <2>2, <2>3 DEF Bijection, Injection, Surjection, IsInjective
<1>14. Cardinality(first) = q
  <2>1. Cardinality(0..(q - 1)) = q
    BY <1>1, FS_Interval
  <2>2. ExistsBijection(first, 0..(q - 1))
    BY <1>13 DEF ExistsBijection
  <2> QED BY <1>12, <2>1, <2>2, FS_Bijection
<1>15. Cardinality(pass \ first) = t - q
  <2>1. pass \cap first = first
    BY <1>12
  <2>2. Cardinality(pass \ first) = Cardinality(pass) - Cardinality(pass \cap first)
    BY <1>3, FS_Difference
  <2> QED BY <1>3, <1>14, <2>1, <2>2
<1> QED BY <1>3, <1>14, <1>15 DEF R

\* Topics only gain queues.
Gained == \A k \in Keys : endpoints[k] \subseteq endpoints'[k]

LEMMA WentMore ==
  ASSUME Gained, NEW n, NEW surface, NEW reached, Went(endpoints, n, surface, reached)
  PROVE  Went(endpoints', n, surface, reached)
  BY DEF Went, Gained

LEMMA ForgetsTurns == ASSUME Forgets PROVE InTurn'
<1>1. \A n \in Names : answers'[n] = <<>>
  BY DEF Forgets
<1> QED BY <1>1 DEF InTurn

\* A step of one call, which it leaves noted only where it sent.
LEMMA StillVisiting ==
  ASSUME TypeOK, Visiting, Gained, NEW p \in Publishers, NEW next,
         calls' = [calls EXCEPT ![p] = next],
         next.step = "note" => Went(endpoints', next.name, Policy[p].surface, next.reached)
  PROVE  Visiting'
<1>1. \A o \in Publishers : calls'[o] = IF o = p THEN next ELSE calls[o]
  BY DEF TypeOK
<1> SUFFICES ASSUME NEW o \in Publishers, calls'[o].step = "note"
             PROVE  Went(endpoints', calls'[o].name, Policy[o].surface, calls'[o].reached)
  BY DEF Visiting
<1>2. CASE o = p
  BY <1>1, <1>2
<1>3. CASE o # p
  <2>1. calls'[o] = calls[o]
    BY <1>1, <1>3
  <2>2. Went(endpoints, calls[o].name, Policy[o].surface, calls[o].reached)
    BY <2>1 DEF Visiting
  <2> QED BY <2>1, <2>2, WentMore
<1> QED BY <1>2, <1>3

LEMMA StillPass ==
  ASSUME PassInv, Gained, Forgets, UNCHANGED <<publishes, noted>>, Visiting'
  PROVE  PassInv'
<1>1. Tallied'
  BY DEF PassInv, Tallied, Used
<1>2. Visited'
  BY WentMore DEF PassInv, Visited
<1> QED BY <1>1, <1>2, ForgetsTurns DEF PassInv

LEMMA PublishPass ==
  ASSUME TypeOK, PassInv, NEW p \in Publishers, NEW n \in Destinations, Publish(p, n)
  PROVE  PassInv'
<1> DEFINE first == [name |-> n, sends |-> TRUE, step |-> "send", reached |-> {},
                     links |-> IF Policy[p].surface = "topic" THEN Policy[p].fanOut ELSE <<>>]
<1>1. first \in Calls
  BY NameFacts DEF Calls
<1>2. /\ calls' = [calls EXCEPT ![p] = After(first)] /\ Forgets
      /\ UNCHANGED <<endpoints, publishes, noted>>
  BY DEF Publish, Changed
<1> HIDE DEF first
<1>3. After(first).step # "note"
  BY <1>1, AfterFacts
<1>4. Gained
  BY <1>2 DEF Gained
<1>5. Visiting'
  BY <1>2, <1>3, <1>4, StillVisiting DEF PassInv
<1> QED BY <1>2, <1>4, <1>5, StillPass

LEMMA SubscribePass ==
  ASSUME TypeOK, PassInv, NEW p \in Publishers, NEW link \in Links,
         SubscribeQueueToTopic(p, link[1], link[2])
  PROVE  PassInv'
<1> DEFINE first == [name |-> link[1], links |-> <<link[2]>>, sends |-> FALSE, step |-> "link",
                     reached |-> {}]
<1>1. /\ calls' = [calls EXCEPT ![p] = first] /\ Forgets
      /\ UNCHANGED <<endpoints, publishes, noted>>
  BY DEF SubscribeQueueToTopic, Changed
<1>2. first.step # "note"
  OBVIOUS
<1> HIDE DEF first
<1>3. Gained
  BY <1>1 DEF Gained
<1>4. Visiting'
  BY <1>1, <1>2, <1>3, StillVisiting DEF PassInv
<1> QED BY <1>1, <1>3, <1>4, StillPass

LEMMA LinkQueuePass ==
  ASSUME TypeOK, CallsSound, PassInv, NEW p \in Publishers, LinkQueue(p)
  PROVE  PassInv'
<1> DEFINE call == calls[p]
           k == Key[call.name]
           q == Key[Head(call.links)]
           next == [call EXCEPT !.step = "record"]
<1>1. call \in Calls /\ Forgets /\ UNCHANGED <<publishes, noted>>
  BY LinkFacts DEF LinkQueue, Changed
<1>2. \/ calls' = [calls EXCEPT ![p] = Idle] /\ UNCHANGED endpoints
      \/ calls' = [calls EXCEPT ![p] = next] /\ endpoints' = [endpoints EXCEPT ![k] = @ \cup {q}]
  BY DEF LinkQueue, Ends
<1>3. Gained
  BY <1>2 DEF Gained, TypeOK
<1>4. Idle.step # "note" /\ next.step # "note"
  BY <1>1 DEF Idle, Calls
<1> HIDE DEF next
<1>5. Visiting'
  BY <1>2, <1>3, <1>4, StillVisiting DEF PassInv
<1> QED BY <1>1, <1>3, <1>5, StillPass

LEMMA RecordPass ==
  ASSUME TypeOK, CallsSound, PassInv, NEW p \in Publishers, RecordTopicQueue(p)
  PROVE  PassInv'
<1> DEFINE call == calls[p]
           rest == [call EXCEPT !.links = Tail(@)]
<1>1. call.step = "record" /\ call \in Calls
  BY LinkFacts DEF RecordTopicQueue
<1>2. rest \in Calls
  BY <1>1, LinkFacts DEF Calls
<1>3. /\ calls' = [calls EXCEPT ![p] = After(rest)] /\ Forgets
      /\ UNCHANGED <<endpoints, publishes, noted>>
  BY DEF RecordTopicQueue, Changed
<1> HIDE DEF rest
<1>4. After(rest).step # "note"
  BY <1>2, AfterFacts
<1>5. Gained
  BY <1>3 DEF Gained
<1>6. Visiting'
  BY <1>3, <1>4, <1>5, StillVisiting DEF PassInv
<1> QED BY <1>3, <1>5, <1>6, StillPass

LEMMA SendPass ==
  ASSUME TypeOK, PassInv, NEW p \in Publishers, NEW c \in Published, Send(p, c)
  PROVE  PassInv'
<1> DEFINE n == calls[p].name
           k == Key[n]
           surface == Policy[p].surface
           reached == IF surface = "topic" THEN endpoints[k] ELSE {k}
           noting == [calls[p] EXCEPT !.step = "note", !.reached = reached]
<1>1. calls[p] \in Calls /\ Forgets /\ UNCHANGED <<endpoints, publishes, noted>>
  BY CallFacts DEF Send
<1>2. \/ calls' = [calls EXCEPT ![p] = Idle]
      \/ k # None /\ calls' = [calls EXCEPT ![p] = noting]
  BY DEF Send, Ends
<1>3. Idle.step # "note"
  BY DEF Idle
<1>4. k # None => Went(endpoints', noting.name, surface, noting.reached)
  <2>1. n \in Names /\ noting.name = n /\ noting.reached = reached
    BY <1>1 DEF Calls
  <2>2. k # None => k \in Keys
    BY <2>1, NameFacts
  <2>3. Went(endpoints', n, surface, reached) <=> Went(endpoints, n, surface, reached)
    BY <1>1
  <2>4. k \in Keys => Went(endpoints, n, surface, reached)
    BY DEF Went
  <2> HIDE DEF n, surface, reached, noting
  <2> QED BY <2>1, <2>2, <2>3, <2>4
<1> HIDE DEF noting, k
<1>5. Gained
  BY <1>1 DEF Gained
<1>6. Visiting'
  BY <1>2, <1>3, <1>4, <1>5, StillVisiting DEF PassInv
<1> QED BY <1>1, <1>5, <1>6, StillPass

LEMMA TallyFields ==
  ASSUME NEW tally \in Tallies, NEW field \in {"queue", "topic", "asked"}
  PROVE  LET next == [tally EXCEPT ![field] = @ + 1] IN
         /\ next.queue = IF field = "queue" THEN tally.queue + 1 ELSE tally.queue
         /\ next.topic = IF field = "topic" THEN tally.topic + 1 ELSE tally.topic
         /\ next.asked = IF field = "asked" THEN tally.asked + 1 ELSE tally.asked
<1>1. CASE field = "queue"
  BY <1>1 DEF Tallies
<1>2. CASE field = "topic"
  BY <1>2 DEF Tallies
<1>3. CASE field = "asked"
  BY <1>3 DEF Tallies
<1> QED BY <1>1, <1>2, <1>3

Events == [surface : {"queue", "topic"}, reached : SUBSET Keys, recorded : BOOLEAN]

LEMMA Appended ==
  ASSUME NEW S, NEW s \in Seq(S), NEW event \in S
  PROVE  LET t == Append(s, event) IN
         /\ Len(s) \in Nat /\ DOMAIN s = 1..Len(s) /\ DOMAIN t = 1..(Len(s) + 1)
         /\ t[Len(s) + 1] = event /\ \A e \in 1..Len(s) : t[e] = s[e]
  OBVIOUS

LEMMA OneMore ==
  ASSUME NEW set, NEW x, IsFiniteSet(set), x \notin set
  PROVE  Cardinality(set \cup {x}) = Cardinality(set) + 1
  BY FS_AddElement

\* One more event is one more of its surface.
LEMMA OneMoreUsed ==
  ASSUME NEW s \in Seq(Events), NEW event \in Events, NEW surface
  PROVE  LET before == {e \in DOMAIN s : s[e].surface = surface}
             t == Append(s, event)
             after == {e \in DOMAIN t : t[e].surface = surface}
         IN  Cardinality(after) = IF event.surface = surface THEN Cardinality(before) + 1
                                  ELSE Cardinality(before)
<1> DEFINE before == {e \in DOMAIN s : s[e].surface = surface}
           t == Append(s, event)
           after == {e \in DOMAIN t : t[e].surface = surface}
           l == Len(s)
<1>1. l \in Nat /\ DOMAIN s = 1..l /\ DOMAIN t = 1..(l + 1) /\ t[l + 1] = event
      /\ \A e \in 1..l : t[e] = s[e]
  BY Appended
<1> HIDE DEF t, l
<1>2. before \subseteq 1..l
  BY <1>1
<1>3. IsFiniteSet(1..l)
  BY <1>1, FS_Interval
<1>4. IsFiniteSet(before)
  BY <1>2, <1>3, FS_Subset
<1>5. l + 1 \notin before
  BY <1>1, <1>2
<1>6. event.surface = surface => after = before \cup {l + 1}
  BY <1>1
<1>7. event.surface # surface => after = before
  BY <1>1
<1> HIDE DEF before, after
<1>8. Cardinality(after) = IF event.surface = surface THEN Cardinality(before) + 1
                           ELSE Cardinality(before)
  BY <1>4, <1>5, <1>6, <1>7, OneMore
<1> QED BY <1>8 DEF before, after, t

LEMMA NotePass ==
  ASSUME TypeOK, PassInv, NEW p \in Publishers, Note(p)
  PROVE  PassInv'
<1> DEFINE call == calls[p]
           n == call.name
           surface == Policy[p].surface
           event == [surface |-> surface, reached |-> call.reached, recorded |-> Policy[p].recorded]
<1>1. call \in Calls /\ call.step = "note"
  BY CallFacts DEF Note
<1>2. n \in Names /\ call.reached \in SUBSET Keys /\ surface \in {"queue", "topic"}
  BY <1>1, NameFacts DEF Calls
<1>3. event \in Events /\ event.surface = surface /\ event.reached = call.reached
  BY <1>2, NameFacts DEF Events
<1>4. /\ publishes' = [publishes EXCEPT ![n][surface] = @ + 1]
      /\ noted' = [noted EXCEPT ![n] = Append(@, event)]
      /\ calls' = [calls EXCEPT ![p] = Idle]
      /\ Forgets /\ UNCHANGED endpoints
  BY DEF Note, Ends, Changed
<1>5. Went(endpoints, n, surface, call.reached)
  BY <1>1 DEF PassInv, Visiting
<1>6. noted \in [Names -> Seq(Events)] /\ publishes \in [Names -> Tallies]
  BY DEF TypeOK, Events, Tallies
<1> HIDE DEF event, surface, n, call
<1>7. \A m \in Names : /\ noted'[m] = IF m = n THEN Append(noted[m], event) ELSE noted[m]
                       /\ publishes'[m] = IF m = n THEN [publishes[m] EXCEPT ![surface] = @ + 1]
                                          ELSE publishes[m]
  BY <1>2, <1>4, <1>6
<1>8. Tallied'
  <2> SUFFICES ASSUME NEW m \in Names
               PROVE  /\ publishes'[m].queue = Cardinality(Used(m, "queue")')
                      /\ publishes'[m].topic = Cardinality(Used(m, "topic")')
    BY DEF Tallied
  <2>1. /\ publishes[m].queue = Cardinality(Used(m, "queue"))
        /\ publishes[m].topic = Cardinality(Used(m, "topic"))
    BY DEF PassInv, Tallied
  <2>2. CASE m = n
    <3>1. noted'[m] = Append(noted[m], event) /\ noted[m] \in Seq(Events)
      BY <1>6, <1>7, <2>2
    <3>2. publishes'[m] = [publishes[m] EXCEPT ![surface] = @ + 1] /\ publishes[m] \in Tallies
      BY <1>6, <1>7, <2>2
    <3>3. ASSUME NEW way \in {"queue", "topic"}
          PROVE  Cardinality(Used(m, way)') =
                   IF surface = way THEN Cardinality(Used(m, way)) + 1 ELSE Cardinality(Used(m, way))
      <4> DEFINE s == noted[m]
                 t == Append(s, event)
                 after == {e \in DOMAIN t : t[e].surface = way}
                 before == {e \in DOMAIN s : s[e].surface = way}
      <4>1. Used(m, way)' = after /\ Used(m, way) = before
        BY <3>1 DEF Used
      <4>2. s \in Seq(Events) /\ event \in Events
        BY <1>3, <3>1
      <4> HIDE DEF s
      <4>3. Cardinality(after) = IF event.surface = way THEN Cardinality(before) + 1
                                 ELSE Cardinality(before)
        BY <4>2, OneMoreUsed
      <4> HIDE DEF before, after
      <4> QED BY <1>3, <4>1, <4>3
    <3>4. /\ publishes'[m].queue = IF surface = "queue" THEN publishes[m].queue + 1 ELSE publishes[m].queue
          /\ publishes'[m].topic = IF surface = "topic" THEN publishes[m].topic + 1 ELSE publishes[m].topic
      BY <1>2, <3>2, TallyFields
    <3> QED BY <2>1, <3>3, <3>4
  <2>3. CASE m # n
    <3>1. noted'[m] = noted[m] /\ publishes'[m] = publishes[m]
      BY <1>7, <2>3
    <3>2. Used(m, "queue")' = Used(m, "queue") /\ Used(m, "topic")' = Used(m, "topic")
      BY <3>1 DEF Used
    <3> QED BY <2>1, <3>1, <3>2
  <2> QED BY <2>2, <2>3
<1>9. Visited'
  <2> SUFFICES ASSUME NEW m \in Names, NEW e \in DOMAIN noted'[m]
               PROVE  Went(endpoints', m, noted'[m][e].surface, noted'[m][e].reached)
    BY DEF Visited
  <2> DEFINE s == noted[m]
             t == Append(s, event)
  <2>1. s \in Seq(Events)
    BY <1>6
  <2>2. /\ Len(s) \in Nat /\ DOMAIN s = 1..Len(s) /\ DOMAIN t = 1..(Len(s) + 1)
        /\ t[Len(s) + 1] = event /\ \A i \in 1..Len(s) : t[i] = s[i]
    BY <1>3, <2>1, Appended
  <2>3. noted'[m] = IF m = n THEN t ELSE s
    BY <1>7
  <2> HIDE DEF s, t
  <2>4. CASE m = n /\ e = Len(s) + 1
    BY <1>3, <1>4, <1>5, <2>2, <2>3, <2>4
  <2>5. CASE ~(m = n /\ e = Len(s) + 1)
    <3>1. e \in DOMAIN s /\ noted'[m][e] = s[e]
      BY <2>2, <2>3, <2>5
    <3> QED BY <1>4, <3>1 DEF PassInv, Visited, s
  <2> QED BY <2>4, <2>5
<1>10. Gained
  BY <1>4 DEF Gained
<1>11. Visiting'
  <2>1. Idle.step # "note"
    BY DEF Idle
  <2> QED BY <1>4, <1>10, <2>1, StillVisiting DEF PassInv
<1> QED BY <1>4, <1>8, <1>9, <1>11, ForgetsTurns DEF PassInv

LEMMA InjectPass ==
  ASSUME TypeOK, PassInv, NEW n \in Destinations, NEW c \in Published, Inject(n, c)
  PROVE  PassInv'
<1>1. Forgets /\ UNCHANGED <<endpoints, publishes, calls, noted>>
  BY DEF Inject
<1>2. Gained
  BY <1>1 DEF Gained
<1>3. Visiting'
  BY <1>1 DEF PassInv, Visiting
<1> QED BY <1>1, <1>2, <1>3, StillPass

\* A name that has a tally is the name of a queue or a topic.
LEMMA TallyHasKey ==
  ASSUME TypeOK, Tallied, Visited, NEW n \in Names, publishes[n].queue + publishes[n].topic # 0
  PROVE  Key[n] \in Keys
<1>1. CASE DOMAIN noted[n] = {}
  <2>1. Used(n, "queue") = {} /\ Used(n, "topic") = {}
    BY <1>1 DEF Used
  <2>2. publishes[n].queue = 0 /\ publishes[n].topic = 0
    BY <2>1, FS_EmptySet DEF Tallied
  <2> QED BY <2>2
<1>2. CASE DOMAIN noted[n] # {}
  <2>1. PICK e : e \in DOMAIN noted[n]
    BY <1>2
  <2> QED BY <2>1 DEF Visited, Went
<1> QED BY <1>1, <1>2

\* What routes tells the harness of a name with a tally.
LEMMA ReachedIsAnswer ==
  ASSUME TypeOK, Tallied, Visited, NEW n \in Names, NextSurface(n) # None
  PROVE  /\ publishes[n].queue + publishes[n].topic # 0
         /\ ReachedQueues(n) = Answer(n, publishes[n].asked)
<1> DEFINE total == publishes[n].queue + publishes[n].topic
           here == publishes[n].asked % total < publishes[n].queue
<1>1. total # 0
  BY DEF NextSurface
<1>2. Key[n] \in Keys /\ Key[n] # None
  BY <1>1, TallyHasKey, NameFacts
<1>3. NextSurface(n) = IF here THEN "queue" ELSE "topic"
  BY <1>1 DEF NextSurface
<1>4. "queue" # "topic"
  OBVIOUS
<1>5. ReachedQueues(n) = IF here THEN {Key[n]} ELSE topics[Key[n]]
  <2> HIDE DEF here
  <2>1. CASE here
    <3>1. NextSurface(n) = "queue"
      BY <1>3, <2>1
    <3> QED BY <1>2, <1>4, <2>1, <3>1 DEF ReachedQueues
  <2>2. CASE ~here
    <3>1. NextSurface(n) = "topic"
      BY <1>3, <2>2
    <3> QED BY <1>2, <1>4, <2>2, <3>1 DEF ReachedQueues
  <2> QED BY <2>1, <2>2
<1> QED BY <1>1, <1>5 DEF Answer

\* A question made while no call is under way is answered next in turn.
LEMMA RoutesTurns ==
  ASSUME TypeOK, PassInv, NEW n \in Names, Routes(n)
  PROVE  InTurn'
<1> DEFINE Answers == SUBSET DOMAIN Subscriptions
           answer == Positions(ReachedQueues(n))
<1>1. /\ publishes' = [publishes EXCEPT ![n].asked = @ + 1] /\ NextSurface(n) # None
      /\ answers' = IF Quiet THEN [answers EXCEPT ![n] = Append(@, answer)] ELSE answers
      /\ UNCHANGED <<topics, calls>>
  BY DEF Routes
<1>2. publishes \in [Names -> Tallies] /\ answers \in [Names -> Seq(Answers)] /\ answer \in Answers
  BY DEF TypeOK, Tallies, Positions
<1>3. /\ publishes[n].queue + publishes[n].topic # 0
      /\ answer = Positions(Answer(n, publishes[n].asked))
  BY <1>1, ReachedIsAnswer DEF PassInv
<1> HIDE DEF answer, Answers
<1>4. ASSUME NEW m \in Names
      PROVE  /\ publishes'[m].queue = publishes[m].queue /\ publishes'[m].topic = publishes[m].topic
             /\ publishes'[m].asked = IF m = n THEN publishes[m].asked + 1 ELSE publishes[m].asked
             /\ publishes[m] \in Tallies
  <2>1. publishes'[m] = IF m = n THEN [publishes[m] EXCEPT !["asked"] = @ + 1] ELSE publishes[m]
    BY <1>1, <1>2
  <2>2. publishes[m] \in Tallies
    BY <1>2
  <2> QED BY <2>1, <2>2, TallyFields
<1>5. \A m \in Names : \A x : Answer(m, x)' = Answer(m, x)
  BY <1>1, <1>4 DEF Answer
<1>6. Quiet' = Quiet
  BY <1>1 DEF Quiet
<1> SUFFICES ASSUME NEW m \in Names, answers'[m] # <<>>
             PROVE  /\ Quiet' /\ Len(answers'[m]) <= publishes'[m].asked
                    /\ publishes'[m].queue + publishes'[m].topic # 0
                    /\ \A a \in DOMAIN answers'[m] :
                         answers'[m][a] =
                           Positions(Answer(m, publishes'[m].asked - Len(answers'[m]) + a - 1))
  <2>1. \A m \in Names : \A a \in DOMAIN answers'[m] :
          Positions(Answer(m, publishes'[m].asked - Len(answers'[m]) + a - 1))
            = Positions(Answer(m, publishes[m].asked - Len(answers[m]) + a - 1))'
    BY <1>1, <1>4 DEF Answer
  <2> QED BY <2>1 DEF InTurn
<1> DEFINE s == answers[m]
           l == Len(s)
           asked == publishes[m].asked
<1>7. s \in Seq(Answers) /\ l \in Nat /\ asked \in Nat /\ publishes[m].queue \in Nat /\ publishes[m].topic \in Nat
  BY <1>2, <1>4 DEF Tallies
<1>8. s # <<>> => /\ Quiet /\ l <= asked /\ publishes[m].queue + publishes[m].topic # 0
                  /\ \A a \in DOMAIN s : s[a] = Positions(Answer(m, asked - l + a - 1))
  BY DEF PassInv, InTurn
<1>9. CASE m = n /\ Quiet
  <2> DEFINE t == Append(s, answer)
  <2>1. answers'[m] = t
    BY <1>1, <1>2, <1>9
  <2>2. /\ DOMAIN s = 1..l /\ DOMAIN t = 1..(l + 1) /\ t[l + 1] = answer
        /\ \A a \in 1..l : t[a] = s[a]
    BY <1>2, <1>7, Appended
  <2>3. Len(t) = l + 1
    BY <1>2, <1>7
  <2>4. publishes'[m].asked = asked + 1
    BY <1>4, <1>9
  <2>5. s = <<>> => l = 0
    OBVIOUS
  <2>6. answer = Positions(Answer(m, asked))
    BY <1>3, <1>9
  <2> HIDE DEF s, t, l, asked
  <2>7. l + 1 <= asked + 1
    BY <1>7, <1>8, <2>5
  <2>8. ASSUME NEW a \in 1..(l + 1) PROVE t[a] = Positions(Answer(m, (asked + 1) - (l + 1) + a - 1))
    <3>1. CASE a = l + 1
      <4>1. (asked + 1) - (l + 1) + a - 1 = asked
        BY <1>7, <3>1
      <4> QED BY <2>2, <2>6, <3>1, <4>1
    <3>2. CASE a \in 1..l
      <4>1. (asked + 1) - (l + 1) + a - 1 = asked - l + a - 1
        BY <1>7
      <4>2. s # <<>>
        BY <1>7, <2>5, <3>2
      <4> QED BY <1>8, <2>2, <3>2, <4>1, <4>2
    <3> QED BY <1>7, <3>1, <3>2
  <2> QED BY <1>3, <1>4, <1>6, <1>9, <2>1, <2>2, <2>3, <2>4, <2>7, <2>8
<1>10. CASE ~(m = n /\ Quiet)
  <2>1. answers'[m] = s
    BY <1>1, <1>2, <1>10
  <2>2. m # n
    BY <1>8, <1>10, <2>1
  <2>3. publishes'[m].asked = asked
    BY <1>4, <2>2
  <2> QED BY <1>4, <1>6, <1>8, <2>1, <2>3
<1> QED BY <1>9, <1>10

LEMMA RoutesPass ==
  ASSUME TypeOK, PassInv, NEW n \in Names, Routes(n)
  PROVE  PassInv'
<1>1. /\ publishes' = [publishes EXCEPT ![n].asked = @ + 1]
      /\ UNCHANGED <<endpoints, calls, noted>>
  BY DEF Routes
<1>2. Visited' /\ Visiting'
  BY <1>1 DEF PassInv, Visited, Visiting
<1>3. Tallied'
  <2>1. \A m \in Names : publishes'[m].queue = publishes[m].queue /\ publishes'[m].topic = publishes[m].topic
    BY <1>1 DEF TypeOK
  <2> QED BY <1>1, <2>1 DEF PassInv, Tallied, Used
<1> QED BY <1>2, <1>3, RoutesTurns DEF PassInv

LEMMA InitPass == Init => PassInv
<1> SUFFICES ASSUME Init PROVE PassInv
  OBVIOUS
<1>1. \A n \in Names : /\ DOMAIN noted[n] = {} /\ answers[n] = <<>>
                       /\ publishes[n].queue = 0 /\ publishes[n].topic = 0
  BY DEF Init, NoTally
<1>2. \A n \in Names : \A surface : Used(n, surface) = {}
  BY <1>1 DEF Used
<1>3. Tallied
  BY <1>1, <1>2, FS_EmptySet DEF Tallied
<1>4. Visited /\ InTurn
  BY <1>1 DEF Visited, InTurn
<1>5. Visiting
  BY DEF Init, Idle, Visiting
<1> QED BY <1>3, <1>4, <1>5 DEF PassInv

LEMMA NextPass == HarnessInv /\ PassInv /\ [Next]_vars => PassInv'
<1> SUFFICES ASSUME HarnessInv, PassInv, [Next]_vars PROVE PassInv'
  OBVIOUS
<1>0. TypeOK /\ CallsSound
  BY DEF HarnessInv, RecordInv, Sound
<1>1. ASSUME NEW p \in Publishers, NEW n \in Destinations, Publish(p, n) PROVE PassInv'
  BY <1>0, <1>1, PublishPass
<1>2. ASSUME NEW p \in Publishers, NEW link \in Links,
             SubscribeQueueToTopic(p, link[1], link[2])
      PROVE  PassInv'
  BY <1>0, <1>2, SubscribePass
<1>3. ASSUME NEW p \in Publishers, LinkQueue(p) PROVE PassInv'
  BY <1>0, <1>3, LinkQueuePass
<1>4. ASSUME NEW p \in Publishers, RecordTopicQueue(p) PROVE PassInv'
  BY <1>0, <1>4, RecordPass
<1>5. ASSUME NEW p \in Publishers, NEW c \in Published, Send(p, c) PROVE PassInv'
  BY <1>0, <1>5, SendPass
<1>6. ASSUME NEW p \in Publishers, Note(p) PROVE PassInv'
  BY <1>0, <1>6, NotePass
<1>7. ASSUME NEW n \in Destinations, NEW c \in Published, Inject(n, c) PROVE PassInv'
  BY <1>0, <1>7, InjectPass
<1>8. ASSUME NEW n \in Names, Routes(n) PROVE PassInv'
  BY <1>0, <1>8, RoutesPass
<1>9. CASE UNCHANGED vars
  <2>1. UNCHANGED <<endpoints, topics, publishes, calls, noted, answers>>
    BY <1>9 DEF vars
  <2>2. Tallied' /\ Visited' /\ Visiting'
    BY <2>1 DEF PassInv, Tallied, Used, Visited, Visiting
  <2>3. InTurn'
    BY <2>1 DEF PassInv, InTurn, Quiet, Answer
  <2> QED BY <2>2, <2>3 DEF PassInv
<1> QED
  BY <1>1, <1>2, <1>3, <1>4, <1>5, <1>6, <1>7, <1>8, <1>9 DEF Next

-----------------------------------------------------------------------------
(* What a pass adds up to. *)

\* Two sets of two parts, of which the parts compare.
LEMMA PartsCompare ==
  ASSUME NEW A, NEW B, NEW C, NEW D,
         IsFiniteSet(A), IsFiniteSet(B), IsFiniteSet(C), IsFiniteSet(D),
         A \cap B = {}, C \cap D = {},
         Cardinality(A) = Cardinality(C), Cardinality(B) <= Cardinality(D)
  PROVE  /\ Cardinality(C \cup D) >= Cardinality(A \cup B)
         /\ Cardinality(B) = Cardinality(D) => Cardinality(C \cup D) = Cardinality(A \cup B)
<1>1. Cardinality({}) = 0
  BY FS_EmptySet
<1>2. Cardinality(A \cup B) = Cardinality(A) + Cardinality(B) - Cardinality(A \cap B)
  BY FS_Union
<1>3. Cardinality(C \cup D) = Cardinality(C) + Cardinality(D) - Cardinality(C \cap D)
  BY FS_Union
<1>4. /\ Cardinality(A) \in Nat /\ Cardinality(B) \in Nat
      /\ Cardinality(C) \in Nat /\ Cardinality(D) \in Nat
  BY FS_CardinalityType
<1>5. Cardinality(A \cap B) = 0 /\ Cardinality(C \cap D) = 0
  BY <1>1
<1> QED BY <1>2, <1>3, <1>4, <1>5

LEMMA NotedCounts ==
  ASSUME TypeOK, Tallied, NEW n \in Names
  PROVE  /\ IsFiniteSet(DOMAIN noted[n])
         /\ IsFiniteSet(Used(n, "queue")) /\ IsFiniteSet(Used(n, "topic"))
         /\ Used(n, "queue") \cup Used(n, "topic") = DOMAIN noted[n]
         /\ Used(n, "queue") \cap Used(n, "topic") = {}
         /\ Cardinality(DOMAIN noted[n]) = publishes[n].queue + publishes[n].topic
<1>1. noted[n] \in Seq(Events) /\ Len(noted[n]) \in Nat /\ DOMAIN noted[n] = 1..Len(noted[n])
  <2>1. noted \in [Names -> Seq(Events)]
    BY DEF TypeOK, Events
  <2> QED BY <2>1
<1>2. IsFiniteSet(DOMAIN noted[n])
  BY <1>1, FS_Interval
<1>3. \A e \in DOMAIN noted[n] : noted[n][e].surface \in {"queue", "topic"}
  <2>1. \A e \in DOMAIN noted[n] : noted[n][e] \in Events
    BY <1>1
  <2> QED BY <2>1 DEF Events
<1>4. Used(n, "queue") \subseteq DOMAIN noted[n] /\ Used(n, "topic") \subseteq DOMAIN noted[n]
  BY DEF Used
<1>5. IsFiniteSet(Used(n, "queue")) /\ IsFiniteSet(Used(n, "topic"))
  BY <1>2, <1>4, FS_Subset
<1>6. Used(n, "queue") \cup Used(n, "topic") = DOMAIN noted[n]
  BY <1>3 DEF Used
<1>7. Used(n, "queue") \cap Used(n, "topic") = {}
  BY DEF Used
<1>8. /\ publishes[n].queue = Cardinality(Used(n, "queue"))
      /\ publishes[n].topic = Cardinality(Used(n, "topic"))
  BY DEF Tallied
<1>9. Cardinality(DOMAIN noted[n]) = publishes[n].queue + publishes[n].topic
  <2> DEFINE Q == Used(n, "queue")
             P == Used(n, "topic")
  <2> HIDE DEF Q, P
  <2>1. Cardinality(Q \cup P) = Cardinality(Q) + Cardinality(P) - Cardinality(Q \cap P)
    BY <1>5, FS_Union DEF Q, P
  <2>2. Cardinality(Q \cap P) = 0
    BY <1>7, FS_EmptySet DEF Q, P
  <2>3. Cardinality(Q) \in Nat /\ Cardinality(P) \in Nat
    BY <1>5, FS_CardinalityType DEF Q, P
  <2>4. Cardinality(Q \cup P) = Cardinality(Q) + Cardinality(P)
    BY <2>1, <2>2, <2>3
  <2> QED BY <1>6, <1>8, <2>4 DEF Q, P
<1> QED BY <1>2, <1>5, <1>6, <1>7, <1>9

\* While no call is under way, the record of a topic is what its publishes found
\* or more.
LEMMA QuietRecord ==
  ASSUME HarnessInv, Quiet, NEW k \in Keys
  PROVE  topics[k] = endpoints[k]
<1>1. \A p \in Publishers : calls[p].step # "record"
  BY DEF Quiet, Idle
<1>2. \A p \in Publishers : \A q : ~Linking(p, k, q)
  BY <1>1 DEF Linking
<1> QED BY <1>2 DEF HarnessInv, RecordInv, Sound, RecordSound

\* The subscription at a first position is told of the queues that have it.
LEMMA PositionIsKey ==
  ASSUME NEW i \in Positions(Keys), NEW ks
  PROVE  i \in Positions(ks) <=> Key[Subscriptions[i]] \in ks
  BY DEF Positions

\* The question asked after x others is about a queue or a topic by its remainder.
Owes(n, x, z) ==
  IF x % (publishes[n].queue + publishes[n].topic) < publishes[n].queue
  THEN z = Key[n] ELSE z \in topics[Key[n]]

\* The pass that starts at `from`, after c questions before the first answer.
Turned(n, c, from, z) ==
  {a \in from..(from + Cardinality(Recorded(n)) - 1) : Owes(n, c + a - 1, z)}

OwedTo(n, z) == {e \in Recorded(n) : z \in noted[n][e].reached}

Enough(n, c, from, z) ==
  /\ Cardinality(Turned(n, c, from, z)) >= Cardinality(OwedTo(n, z))
  /\ NoLateLink(n) => Cardinality(Turned(n, c, from, z)) = Cardinality(OwedTo(n, z))

\* A publish through the queue owes its own queue, one through the topic no more
\* than the queues the record has.
LEMMA EventOwes ==
  ASSUME HarnessInv, PassInv, Quiet, NEW n \in Names, NEW e \in DOMAIN noted[n]
  PROVE  /\ Key[n] \in Keys
         /\ noted[n][e].surface = "queue" => noted[n][e].reached = {Key[n]}
         /\ noted[n][e].surface = "topic" => noted[n][e].reached \subseteq topics[Key[n]]
<1>1. Went(endpoints, n, noted[n][e].surface, noted[n][e].reached)
  BY DEF PassInv, Visited
<1>2. Key[n] \in Keys
  BY <1>1 DEF Went
<1> QED BY <1>1, <1>2, QuietRecord DEF Went

\* A pass over the publishes that were all recorded goes once round both
\* surfaces.
LEMMA FullPass ==
  ASSUME HarnessInv, PassInv, Quiet, NEW n \in Names, NEW c \in Nat, NEW from \in Nat \ {0},
         Recorded(n) = DOMAIN noted[n], Recorded(n) # {}, NEW z
  PROVE  Enough(n, c, from, z)
<1> DEFINE q == publishes[n].queue
           t == publishes[n].queue + publishes[n].topic
           k == Key[n]
           pass == Turns(from, t)
           first == FirstTurns(c, from, t, q)
           rest == pass \ first
           Q == Used(n, "queue")
           P == Used(n, "topic")
           told == {a \in pass : Owes(n, c + a - 1, z)}
           owed == {e \in DOMAIN noted[n] : z \in noted[n][e].reached}
           A == {e \in Q : z = k}
           B == {e \in P : z \in noted[n][e].reached}
           C == {a \in first : z = k}
           D == {a \in rest : z \in topics[k]}
<1>1. TypeOK /\ Tallied
  BY DEF HarnessInv, RecordInv, PassInv
<1>2. /\ IsFiniteSet(DOMAIN noted[n]) /\ IsFiniteSet(Q) /\ IsFiniteSet(P)
      /\ Q \cup P = DOMAIN noted[n] /\ Q \cap P = {} /\ Cardinality(DOMAIN noted[n]) = t
  BY <1>1, NotedCounts
<1>3. /\ Cardinality(Q) = q /\ Cardinality(P) = publishes[n].topic
      /\ q \in Nat /\ publishes[n].topic \in Nat
  BY <1>1 DEF Tallied, TypeOK
<1>4. t # 0
  BY <1>2, FS_EmptySet
<1>5. /\ IsFiniteSet(pass) /\ Cardinality(first) = q /\ Cardinality(rest) = t - q
  <2>1. IsRound(c, from, t, q)
    BY <1>3, <1>4 DEF IsRound
  <2> HIDE DEF q, t
  <2> QED BY <2>1, OnceRound
<1>6. \A e \in DOMAIN noted[n] :
        /\ noted[n][e].surface = "queue" => noted[n][e].reached = {k}
        /\ noted[n][e].surface = "topic" => noted[n][e].reached \subseteq topics[k]
  BY EventOwes
<1>7. /\ \A e \in Q : e \in DOMAIN noted[n] /\ noted[n][e].reached = {k}
      /\ \A e \in P : e \in DOMAIN noted[n] /\ noted[n][e].surface = "topic"
                      /\ noted[n][e].reached \subseteq topics[k]
  BY <1>6 DEF Used
<1>8. \A a \in pass : Owes(n, c + a - 1, z) <=> IF (c + a - 1) % t < q THEN z = k ELSE z \in topics[k]
  BY DEF Owes
<1>9. NoLateLink(n) => \A e \in P : noted[n][e].reached = topics[k]
  BY <1>7 DEF NoLateLink
<1> HIDE DEF Q, P, pass, q, t, k
<1>10. owed = A \cup B
  BY <1>2, <1>7
<1>11. told = C \cup D
  BY <1>8 DEF FirstTurns, pass
<1>12. first \subseteq pass /\ rest \subseteq pass /\ first \cap rest = {}
  BY DEF FirstTurns, pass
<1> HIDE DEF first, rest
<1>13. IsFiniteSet(first) /\ IsFiniteSet(rest)
  BY <1>5, <1>12, FS_Subset
<1>14. A \subseteq Q /\ B \subseteq P /\ C \subseteq first /\ D \subseteq rest
  OBVIOUS
<1>15. IsFiniteSet(A) /\ IsFiniteSet(B) /\ IsFiniteSet(C) /\ IsFiniteSet(D)
  <2> HIDE DEF A, B, C, D
  <2> QED BY <1>2, <1>13, <1>14, FS_Subset
<1>16. A \cap B = {} /\ C \cap D = {}
  BY <1>2, <1>12, <1>14
<1>17. Cardinality(A) = Cardinality(C)
  <2>1. CASE z = k
    <3>1. A = Q /\ C = first
      BY <2>1
    <3> HIDE DEF A, C
    <3> QED BY <1>3, <1>5, <3>1
  <2>2. CASE z # k
    <3>1. A = {} /\ C = {}
      BY <2>2
    <3> QED BY <3>1
  <2> QED BY <2>1, <2>2
<1>18. Cardinality(P) = Cardinality(rest)
  BY <1>3, <1>5 DEF t, q
<1>19. Cardinality(B) <= Cardinality(D) /\ (NoLateLink(n) => Cardinality(B) = Cardinality(D))
  <2>1. CASE z \in topics[k]
    <3>1. D = rest /\ (NoLateLink(n) => B = P)
      BY <1>9, <2>1
    <3> HIDE DEF B, D
    <3>2. Cardinality(B) <= Cardinality(P)
      BY <1>2, <1>14, FS_Subset
    <3> QED BY <1>18, <3>1, <3>2
  <2>2. CASE z \notin topics[k]
    <3>1. B = {} /\ D = {}
      BY <1>7, <2>2
    <3> HIDE DEF B, D
    <3> QED BY <3>1, FS_EmptySet
  <2> QED BY <2>1, <2>2
<1> HIDE DEF A, B, C, D, told, owed
<1>20. Cardinality(told) >= Cardinality(owed) /\ (NoLateLink(n) => Cardinality(told) = Cardinality(owed))
  BY <1>10, <1>11, <1>15, <1>16, <1>17, <1>19, PartsCompare
<1>21. Cardinality(Recorded(n)) = t
  BY <1>2
<1>22. Turned(n, c, from, z) = told /\ OwedTo(n, z) = owed
  BY <1>21 DEF Turned, OwedTo, told, owed, pass, Turns
<1> QED BY <1>20, <1>22 DEF Enough

\* A pass where one surface was used asks about that surface only.
LEMMA PlainPass ==
  ASSUME HarnessInv, PassInv, Quiet, NEW n \in Names, NEW c \in Nat, NEW from \in Nat \ {0},
         Recorded(n) # {}, NEW z,
         \A i, j \in DOMAIN noted[n] : noted[n][i].surface = noted[n][j].surface
  PROVE  Enough(n, c, from, z)
<1> DEFINE q == publishes[n].queue
           t == publishes[n].queue + publishes[n].topic
           k == Key[n]
           length == Cardinality(Recorded(n))
           pass == from..(from + length - 1)
           told == {a \in pass : Owes(n, c + a - 1, z)}
           owed == {e \in Recorded(n) : z \in noted[n][e].reached}
<1>1. TypeOK /\ Tallied
  BY DEF HarnessInv, RecordInv, PassInv
<1>2. /\ IsFiniteSet(DOMAIN noted[n]) /\ Cardinality(DOMAIN noted[n]) = t
      /\ Used(n, "queue") \cup Used(n, "topic") = DOMAIN noted[n]
  BY <1>1, NotedCounts
<1>3. /\ Cardinality(Used(n, "queue")) = q /\ Cardinality(Used(n, "topic")) = publishes[n].topic
      /\ q \in Nat /\ publishes[n].topic \in Nat
  BY <1>1 DEF Tallied, TypeOK
<1>4. Recorded(n) \subseteq DOMAIN noted[n]
  BY DEF Recorded
<1>5. IsFiniteSet(Recorded(n))
  BY <1>2, <1>4, FS_Subset
<1>6. length \in Nat \ {0} /\ t # 0
  BY <1>2, <1>4, <1>5, FS_EmptySet, FS_CardinalityType
<1>7. IsFiniteSet(pass) /\ Cardinality(pass) = length
  <2> HIDE DEF length
  <2>1. /\ from \in Int /\ from + length - 1 \in Int /\ ~(from > from + length - 1)
        /\ (from + length - 1) - from + 1 = length
    BY <1>6
  <2> QED BY <2>1, FS_Interval
<1>8. \A a \in pass : c + a - 1 \in Nat
  <2> HIDE DEF length
  <2> QED BY <1>6
<1>9. \A e \in DOMAIN noted[n] :
        /\ noted[n][e].surface = "queue" => noted[n][e].reached = {k}
        /\ noted[n][e].surface = "topic" => noted[n][e].reached \subseteq topics[k]
  BY EventOwes
<1>10. PICK f : f \in Recorded(n)
  OBVIOUS
<1> HIDE DEF pass
<1>11. Cardinality(told) >= Cardinality(owed) /\ (NoLateLink(n) => Cardinality(told) = Cardinality(owed))
  <2>1. CASE f \in Used(n, "queue")
    <3>1. \A e \in DOMAIN noted[n] : noted[n][e].surface = "queue"
      BY <1>4, <1>10, <2>1 DEF Used
    <3>2. Used(n, "topic") = {}
      BY <3>1 DEF Used
    <3>3. publishes[n].topic = 0
      BY <1>3, <3>2, FS_EmptySet
    <3>4. \A a \in pass : (c + a - 1) % t < q
      BY <1>3, <1>6, <1>8, <3>3
    <3>5. \A a \in pass : Owes(n, c + a - 1, z) <=> z = k
      BY <3>4 DEF Owes
    <3>6. \A e \in Recorded(n) : z \in noted[n][e].reached <=> z = k
      BY <1>4, <1>9, <3>1
    <3>7. CASE z = k
      <4>1. told = pass /\ owed = Recorded(n)
        BY <3>5, <3>6, <3>7
      <4> HIDE DEF told, owed
      <4> QED BY <1>6, <1>7, <4>1
    <3>8. CASE z # k
      <4>1. told = {} /\ owed = {}
        BY <3>5, <3>6, <3>8
      <4> HIDE DEF told, owed
      <4> QED BY <4>1, FS_EmptySet
    <3> QED BY <3>7, <3>8
  <2>2. CASE f \in Used(n, "topic")
    <3>1. \A e \in DOMAIN noted[n] : noted[n][e].surface = "topic"
      BY <1>4, <1>10, <2>2 DEF Used
    <3>2. Used(n, "queue") = {}
      BY <3>1 DEF Used
    <3>3. q = 0
      BY <1>3, <3>2, FS_EmptySet
    <3>4. \A a \in pass : ~((c + a - 1) % t < q)
      BY <1>3, <1>6, <1>8, <3>3
    <3>5. \A a \in pass : Owes(n, c + a - 1, z) <=> z \in topics[k]
      BY <3>4 DEF Owes
    <3>6. CASE z \in topics[k]
      <4>1. told = pass /\ owed \subseteq Recorded(n) /\ (NoLateLink(n) => owed = Recorded(n))
        BY <1>4, <3>1, <3>5, <3>6 DEF NoLateLink
      <4> HIDE DEF told, owed
      <4>2. Cardinality(owed) <= length
        BY <1>5, <4>1, FS_Subset
      <4>3. Cardinality(told) = length
        BY <1>7, <4>1
      <4> HIDE DEF length
      <4> QED BY <1>6, <4>1, <4>2, <4>3 DEF length
    <3>7. CASE z \notin topics[k]
      <4>1. told = {} /\ owed = {}
        BY <1>4, <1>9, <3>1, <3>5, <3>7
      <4> HIDE DEF told, owed
      <4> QED BY <4>1, FS_EmptySet
    <3> QED BY <3>6, <3>7
  <2> QED BY <1>2, <1>4, <1>10, <2>1, <2>2
<1>12. Turned(n, c, from, z) = told /\ OwedTo(n, z) = owed
  BY DEF Turned, OwedTo, pass
<1> HIDE DEF told, owed
<1> QED BY <1>11, <1>12 DEF Enough

\* A pass is answered from the turns it takes.
LEMMA PassIsTurns ==
  ASSUME HarnessInv, PassInv, NEW n \in Names, Cardinality(Recorded(n)) \in Nat \ {0},
         NEW from \in 1..(Len(answers[n]) - Cardinality(Recorded(n)) + 1), NEW i \in Positions(Keys)
  PROVE  /\ Quiet /\ publishes[n].asked - Len(answers[n]) \in Nat /\ from \in Nat \ {0}
         /\ {a \in from..(from + Cardinality(Recorded(n)) - 1) : i \in answers[n][a]}
              = Turned(n, publishes[n].asked - Len(answers[n]), from, Key[Subscriptions[i]])
<1> DEFINE s == answers[n]
           length == Cardinality(Recorded(n))
           c == publishes[n].asked - Len(s)
           z == Key[Subscriptions[i]]
<1>1. Len(s) \in Nat /\ DOMAIN s = 1..Len(s) /\ publishes[n].asked \in Nat /\ (s = <<>> => Len(s) = 0)
  BY DEF HarnessInv, RecordInv, TypeOK
<1>2. s # <<>> /\ from \in Nat \ {0} /\ from..(from + length - 1) \subseteq 1..Len(s)
  BY <1>1
<1>3. /\ Quiet /\ Len(s) <= publishes[n].asked
      /\ \A a \in DOMAIN s : s[a] = Positions(Answer(n, publishes[n].asked - Len(s) + a - 1))
  BY <1>2 DEF PassInv, InTurn
<1>4. c \in Nat
  BY <1>1, <1>3
<1>5. ASSUME NEW a \in from..(from + length - 1)
      PROVE  i \in s[a] <=> Owes(n, c + a - 1, z)
  <2>1. s[a] = Positions(Answer(n, c + a - 1))
    BY <1>1, <1>2, <1>3
  <2>2. i \in s[a] <=> z \in Answer(n, c + a - 1)
    BY <2>1, PositionIsKey
  <2> HIDE DEF s, c, z
  <2> QED BY <2>2 DEF Answer, Owes
<1> QED BY <1>2, <1>3, <1>4, <1>5 DEF Turned

\* A pass of the harness while no call is under way, started anywhere in its
\* round, adds up to what the account owes each subscription (routes,
\* next_surface, Routing::published): the tallies count the publishes noted, and
\* consecutive questions meet every remainder once.
THEOREM PassesAddUp == Spec => []PassAddsUp
<1>1. HarnessInv /\ PassInv => PassAddsUp
  <2> SUFFICES ASSUME HarnessInv, PassInv, NEW n \in Names, Unmixed(n),
                      NEW from \in 1..(Len(answers[n]) - Cardinality(Recorded(n)) + 1),
                      NEW i \in Positions(Keys)
               PROVE  LET length == Cardinality(Recorded(n))
                          told == Cardinality({a \in from..(from + length - 1) : i \in answers[n][a]})
                          owed == Cardinality({e \in Recorded(n) :
                                                 Key[Subscriptions[i]] \in noted[n][e].reached})
                      IN  told >= owed /\ (NoLateLink(n) => told = owed)
    BY DEF PassAddsUp
  <2> DEFINE length == Cardinality(Recorded(n))
             c == publishes[n].asked - Len(answers[n])
             z == Key[Subscriptions[i]]
             told == {a \in from..(from + length - 1) : i \in answers[n][a]}
             owed == {e \in Recorded(n) : z \in noted[n][e].reached}
  <2>1. CASE Recorded(n) = {}
    <3>1. length = 0
      BY <2>1, FS_EmptySet
    <3>2. told = {} /\ owed = {}
      BY <2>1, <3>1
    <3> HIDE DEF told, owed
    <3>3. Cardinality(told) = 0 /\ Cardinality(owed) = 0
      BY <3>2, FS_EmptySet
    <3>4. Cardinality(told) >= Cardinality(owed) /\ Cardinality(told) = Cardinality(owed)
      BY <3>3
    <3> QED BY <3>4 DEF told, owed
  <2>2. CASE Recorded(n) # {}
    <3>1. TypeOK /\ Tallied
      BY DEF HarnessInv, RecordInv, PassInv
    <3>2. Recorded(n) \subseteq DOMAIN noted[n] /\ IsFiniteSet(DOMAIN noted[n])
      BY <3>1, NotedCounts DEF Recorded
    <3>3. IsFiniteSet(Recorded(n))
      BY <3>2, FS_Subset
    <3>4. length \in Nat \ {0}
      BY <2>2, <3>3, FS_EmptySet, FS_CardinalityType
    <3>5. Quiet /\ c \in Nat /\ from \in Nat \ {0} /\ told = Turned(n, c, from, z)
      BY <3>4, PassIsTurns
    <3>6. \/ Recorded(n) = DOMAIN noted[n]
          \/ \A j, k \in DOMAIN noted[n] : noted[n][j].surface = noted[n][k].surface
      BY DEF Unmixed, Recorded
    <3>7. Enough(n, c, from, z)
      <4> HIDE DEF c, z
      <4>1. CASE Recorded(n) = DOMAIN noted[n]
        BY <2>2, <3>5, <4>1, FullPass
      <4>2. CASE \A j, k \in DOMAIN noted[n] : noted[n][j].surface = noted[n][k].surface
        BY <2>2, <3>5, <4>2, PlainPass
      <4> QED BY <3>6, <4>1, <4>2
    <3>8. OwedTo(n, z) = owed
      BY DEF OwedTo
    <3> HIDE DEF c, told, owed
    <3>9. Cardinality(told) >= Cardinality(owed) /\ (NoLateLink(n) => Cardinality(told) = Cardinality(owed))
      BY <3>5, <3>7, <3>8 DEF Enough
    <3> QED BY <3>9 DEF told, owed
  <2> QED BY <2>1, <2>2
<1> QED BY <1>1, InitInv, NextInv, InitPass, NextPass, PTL DEF Spec
=============================================================================
