----------------------------- MODULE PumpProofs -----------------------------
(***************************************************************************)
(* Pump for every batch size and any number of messages and errors: the    *)
(* subscription implements Handoff.                                        *)
(*                                                                         *)
(* The refinement rests on Conserved: while the stream is open, what was   *)
(* handed over, the rest of a batch that is being flattened, the item in   *)
(* the channel and the item in the task's hand are, in this order, all     *)
(* that was received.                                                      *)
(***************************************************************************)
EXTENDS Pump, SequenceTheorems, TLAPS

\* The items of the channel in one sequence: the channel holds one batch.
InChannel == IF channel = <<>> THEN <<>> ELSE channel[1]

Shape ==
  /\ single \in BOOLEAN
  /\ pump \in {"polling", "sending", "sleeping", "done"}
  /\ stream \in {"open", "dropped", "ended"}
  /\ received \in Seq(Items) /\ handed \in Seq(Items)
  /\ hand \in Seq(Items) /\ rest \in Seq(Items)
  /\ channel \in Seq(Seq(Items)) /\ Len(channel) <= Capacity
  /\ errors \in Nat /\ errors <= Len(received)
  /\ pump # "sending" => hand = <<>>

\* Concatenation, by the laws below and not by its definition.
Join(s, t) == s \o t

Conserved ==
  stream = "open" => received = Join(handed, Join(rest, Join(InChannel, hand)))

PumpInv == Shape /\ Conserved

-----------------------------------------------------------------------------
(* Sequences. *)

\* A batch of n messages, numbered from c on.
LEMMA BatchIsSeq ==
  ASSUME NEW c \in Nat, NEW n \in Nat, c + n <= MaxMessages
  PROVE  LET b == [i \in 1..n |-> c + i]
         IN  b \in Seq(Items) /\ Len(b) = n
<1> DEFINE b == [i \in 1..n |-> c + i]
<1>1. b \in [1..n -> Items]
  BY PumpAssumption DEF Items
<1>2. b \in Seq(Items)
  BY <1>1, SeqDef
<1>3. DOMAIN b = 1..n /\ DOMAIN b = 1..Len(b) /\ Len(b) \in Nat
  BY <1>2, LenProperties
<1> HIDE DEF b
<1>4. Len(b) = n
  BY <1>3
<1> QED BY <1>2, <1>4 DEF b

LEMMA PrefixOfConcat ==
  ASSUME NEW S, NEW s \in Seq(S), NEW t \in Seq(S)
  PROVE  SubSeq(s \o t, 1, Len(s)) = s
<1>1. CASE s = <<>>
  <2>1. Len(s) = 0
    BY <1>1, EmptySeq
  <2> QED BY <1>1, <2>1, SubSeqEmpty
<1>2. CASE s # <<>>
  <2>1. Len(s) \in Nat \ {0}
    BY <1>2, EmptySeq
  <2>2. SubSeq(s \o t, 1, Len(s)) = SubSeq(s, 1, Len(s))
    BY <2>1, SubSeqOfConcat1
  <2> QED BY <2>2, SubSeqFull
<1> QED BY <1>1, <1>2

LEMMA JoinEmpty ==
  /\ <<>> \in Seq(Items)
  /\ \A s \in Seq(Items) : Join(s, <<>>) = s /\ Join(<<>>, s) = s
<1>1. ASSUME NEW s \in Seq(Items)
      PROVE  Join(s, <<>>) = s /\ Join(<<>>, s) = s
  BY ConcatEmptySeq DEF Join
<1>2. <<>> \in Seq(Items)
  BY EmptySeq
<1> QED BY <1>1, <1>2

LEMMA JoinLaws ==
  /\ \A s, t \in Seq(Items) : Join(s, t) \in Seq(Items)
  /\ \A s, t, u \in Seq(Items) : Join(Join(s, t), u) = Join(s, Join(t, u))
<1>1. ASSUME NEW s \in Seq(Items), NEW t \in Seq(Items)
      PROVE  Join(s, t) \in Seq(Items)
  BY ConcatProperties DEF Join
<1>2. ASSUME NEW s \in Seq(Items), NEW t \in Seq(Items), NEW u \in Seq(Items)
      PROVE  Join(Join(s, t), u) = Join(s, Join(t, u))
  BY ConcatAssociative DEF Join
<1> QED BY <1>1, <1>2

\* A sequence is its head and its tail.
LEMMA HeadAndTail ==
  ASSUME NEW S, NEW s \in Seq(S), s # <<>>
  PROVE  /\ Head(s) \in S /\ Tail(s) \in Seq(S)
         /\ <<Head(s)>> \in Seq(S) /\ Join(<<Head(s)>>, Tail(s)) = s
BY DEF Join

LEMMA ChannelOfOne ==
  ASSUME Shape, channel # <<>>
  PROVE  /\ Len(channel) = 1 /\ Head(channel) = channel[1]
         /\ channel[1] \in Seq(Items) /\ Tail(channel) = <<>>
         /\ InChannel = channel[1]
<1>1. channel \in Seq(Seq(Items)) /\ Len(channel) = 1
  <2> DEFINE n == Len(channel)
  <2>1. channel \in Seq(Seq(Items)) /\ n <= 1
    BY DEF Shape, Capacity
  <2>2. n \in Nat \ {0}
    BY <2>1, EmptySeq, ZenonT(60)
  <2> HIDE DEF n
  <2>3. n = 1
    BY <2>1, <2>2
  <2> QED BY <2>1, <2>3, ZenonT(60) DEF n
<1>2. channel[1] \in Seq(Items)
  BY <1>1, ElementOfSeq
<1>3. Tail(channel) \in Seq(Seq(Items)) /\ Len(Tail(channel)) = 0
  BY <1>1, HeadTailProperties
<1>4. Tail(channel) = <<>>
  BY <1>3, EmptySeq
<1> QED BY <1>1, <1>2, <1>4 DEF InChannel

LEMMA InChannelIsSeq ==
  ASSUME Shape
  PROVE  InChannel \in Seq(Items)
BY ChannelOfOne, EmptySeq DEF InChannel

-----------------------------------------------------------------------------
(* The steps, each with what it is to Handoff. *)

Implements == InOrder!Next \/ UNCHANGED InOrder!vars

\* A step that only moves the task and leaves every item where it is.
LEMMA IdleStep ==
  ASSUME PumpInv, Stop \/ BackOffOver
  PROVE  PumpInv' /\ Implements
BY DEF PumpInv, Shape, Conserved, InChannel, Stop, BackOffOver, Implements, InOrder!vars

\* Items that come in are the newest, and in the task's hand.
LEMMA ReceivedMore ==
  ASSUME PumpInv, stream = "open", hand = <<>>, NEW b \in Seq(Items),
         received' = Join(received, b), hand' = b,
         UNCHANGED <<single, channel, rest, stream, handed>>
  PROVE  /\ received' \in Seq(Items) /\ Len(received') = Len(received) + Len(b)
         /\ Conserved' /\ Implements
<1> USE DEF PumpInv
<1>1. received \in Seq(Items) /\ handed \in Seq(Items) /\ rest \in Seq(Items)
      /\ InChannel \in Seq(Items)
  BY InChannelIsSeq DEF Shape
<1>2. received' \in Seq(Items) /\ Len(received') = Len(received) + Len(b)
  BY <1>1, ConcatProperties DEF Join
<1>3. Conserved'
  <2>1. received = Join(handed, Join(rest, InChannel))
    BY <1>1, JoinEmpty DEF Conserved
  <2>2. Join(Join(handed, Join(rest, InChannel)), b) = Join(handed, Join(rest, Join(InChannel, b)))
    BY <1>1, JoinLaws
  <2>3. InChannel' = InChannel
    BY DEF InChannel
  <2> QED BY <2>1, <2>2, <2>3 DEF Conserved
<1>4. Implements
  <2>1. CASE b = <<>>
    BY <2>1, <1>1, JoinEmpty DEF Implements, InOrder!vars
  <2>2. CASE b # <<>>
    <3>1. Len(b) \in Nat \ {0} /\ Len(received) \in Nat
      BY <1>1, <2>2, EmptySeq, LenProperties
    <3>2. Len(received') > Len(received)
      BY <1>2, <3>1
    <3>3. SubSeq(received', 1, Len(received)) = received
      BY <1>1, PrefixOfConcat DEF Join
    <3>4. \A i \in DOMAIN received' : received'[i] \in Items
      BY <1>2, LenProperties, ElementOfSeq
    <3> QED BY <3>2, <3>3, <3>4 DEF Implements, InOrder!Next, InOrder!Receive
  <2> QED BY <2>1, <2>2
<1> QED BY <1>2, <1>3, <1>4

LEMMA AnswerStep ==
  ASSUME PumpInv, NEW n \in 0..Size, Answer(n)
  PROVE  PumpInv' /\ Implements
<1> USE DEF PumpInv
<1>1. /\ pump = "polling" /\ stream = "open" /\ Count + n <= MaxMessages
      /\ hand' = [i \in 1..n |-> Count + i] /\ received' = received \o hand'
      /\ pump' = IF n = 0 THEN "polling" ELSE "sending"
      /\ UNCHANGED <<single, fatal, channel, rest, stream, handed, errors>>
  BY DEF Answer
<1>2. n \in Nat /\ Count \in Nat
  BY PumpAssumption, LenProperties DEF Shape, Count
<1>3. hand' \in Seq(Items) /\ Len(hand') = n /\ received' = Join(received, hand')
  BY <1>1, <1>2, BatchIsSeq DEF Join
<1>4. hand = <<>>
  BY <1>1 DEF Shape
<1>5. /\ received' \in Seq(Items) /\ Len(received') = Len(received) + Len(hand')
      /\ Conserved' /\ Implements
  <2>1. PICK b : b = hand' /\ b \in Seq(Items)
    BY <1>3
  <2> QED BY <1>1, <1>3, <1>4, <2>1, ReceivedMore
<1>6. Shape'
  <2>1. n = 0 => hand' = <<>>
    BY <1>3, EmptySeq
  <2>2. errors' \in Nat /\ errors' <= Len(received')
    BY <1>1, <1>2, <1>3, <1>5, LenProperties DEF Shape
  <2> QED BY <1>1, <1>3, <1>5, <2>1, <2>2 DEF Shape
<1> QED BY <1>5, <1>6

LEMMA FailStep ==
  ASSUME PumpInv, NEW gone \in BOOLEAN, Fail(gone)
  PROVE  PumpInv' /\ Implements
<1> USE DEF PumpInv
<1>1. /\ pump = "polling" /\ stream = "open" /\ errors' = errors + 1
      /\ hand' = <<Error>> /\ received' = Append(received, Error)
      /\ pump' = "sending"
      /\ UNCHANGED <<single, channel, rest, stream, handed>>
  BY DEF Fail
<1>2. Error \in Items /\ <<Error>> \in Seq(Items) /\ Len(<<Error>>) = 1
  BY DEF Items
<1>3. received' = Join(received, <<Error>>)
  BY <1>1, <1>2, AppendIsConcat DEF Shape, Join
<1>4. hand = <<>>
  BY <1>1 DEF Shape
<1>5. /\ received' \in Seq(Items) /\ Len(received') = Len(received) + 1
      /\ Conserved' /\ Implements
  BY <1>1, <1>2, <1>3, <1>4, ReceivedMore
<1>6. errors' \in Nat /\ errors' <= Len(received')
  BY <1>1, <1>5, LenProperties DEF Shape
<1>7. Shape'
  BY <1>1, <1>2, <1>5, <1>6 DEF Shape
<1> QED BY <1>5, <1>7

LEMMA PushStep ==
  ASSUME PumpInv, Push
  PROVE  PumpInv' /\ Implements
<1> USE DEF PumpInv
<1>1. /\ pump = "sending" /\ stream = "open" /\ Len(channel) < Capacity
      /\ channel' = Append(channel, hand) /\ hand' = <<>>
      /\ pump' \in {"polling", "done", "sleeping"}
      /\ UNCHANGED <<single, fatal, rest, stream, received, handed, errors>>
  BY DEF Push, AfterPush
<1>2. channel = <<>>
  BY <1>1, EmptySeq DEF Capacity, Shape
<1>3. hand \in Seq(Items) /\ handed \in Seq(Items) /\ rest \in Seq(Items)
  BY DEF Shape
<1>4. /\ channel' \in Seq(Seq(Items)) /\ Len(channel') = 1 /\ channel'[1] = hand
      /\ channel' # <<>>
  BY <1>1, <1>2, <1>3, AppendProperties, EmptySeq DEF Shape
<1>5. InChannel = <<>> /\ InChannel' = hand
  BY <1>2, <1>4 DEF InChannel
<1>6. Conserved'
  <2>1. Join(InChannel, hand) = hand /\ Join(InChannel', hand') = hand
    BY <1>1, <1>3, <1>5, JoinEmpty
  <2> QED BY <1>1, <2>1 DEF Conserved
<1>7. Shape'
  BY <1>1, <1>4, EmptySeq DEF Shape, Capacity
<1> QED BY <1>1, <1>6, <1>7 DEF Implements, InOrder!vars

LEMMA PushFailsStep ==
  ASSUME PumpInv, PushFails
  PROVE  PumpInv' /\ Implements
BY EmptySeq DEF PumpInv, Shape, Conserved, InChannel, PushFails, Implements, InOrder!vars

\* Items that go to the consumer are the oldest.
LEMMA HandedMore ==
  ASSUME PumpInv, stream = "open", NEW b \in Seq(Items), NEW t \in Seq(Items),
         received = Join(Join(handed, b), t), handed' = Join(handed, b),
         UNCHANGED <<received, stream>>
  PROVE  handed' \in Seq(Items) /\ Implements
<1> USE DEF PumpInv
<1>1. handed \in Seq(Items) /\ received \in Seq(Items)
  BY DEF Shape
<1>2. handed' \in Seq(Items) /\ Len(handed') = Len(handed) + Len(b)
  BY <1>1, ConcatProperties DEF Join
<1>3. CASE b = <<>>
  BY <1>1, <1>2, <1>3, JoinEmpty DEF Implements, InOrder!vars
<1>4. CASE b # <<>>
  <2>1. Len(b) \in Nat \ {0} /\ Len(handed) \in Nat /\ Len(t) \in Nat
    BY <1>1, <1>4, EmptySeq, LenProperties
  <2>2. Len(received) = Len(handed') + Len(t)
    BY <1>2, ConcatProperties DEF Join
  <2>3. Len(handed') \in (Len(handed) + 1)..Len(received)
    BY <1>2, <2>1, <2>2
  <2>4. handed' = SubSeq(received, 1, Len(handed'))
    BY <1>2, PrefixOfConcat DEF Join
  <2>5. \E n \in (Len(handed) + 1)..Len(received) : handed' = SubSeq(received, 1, n)
    BY <2>3, <2>4, ZenonT(60)
  <2>6. InOrder!HandOver
    BY <2>5, ZenonT(60) DEF InOrder!HandOver
  <2> QED BY <1>2, <2>6, ZenonT(60) DEF Implements, InOrder!Next
<1> QED BY <1>2, <1>3, <1>4

LEMMA TakeStep ==
  ASSUME PumpInv, Take
  PROVE  PumpInv' /\ Implements
<1> USE DEF PumpInv
<1>1. /\ stream = "open" /\ rest = <<>> /\ channel # <<>>
      /\ channel' = Tail(channel)
      /\ UNCHANGED <<single, pump, hand, fatal, stream, received, errors>>
  BY DEF Take
<1>2. /\ Head(channel) = InChannel /\ channel' = <<>> /\ InChannel \in Seq(Items)
      /\ InChannel' = <<>>
  BY <1>1, ChannelOfOne DEF InChannel
<1>3. /\ <<>> \in Seq(Items) /\ handed \in Seq(Items) /\ hand \in Seq(Items)
      /\ channel' \in Seq(Seq(Items)) /\ Len(channel') <= Capacity
  BY <1>2, EmptySeq DEF Shape, Capacity
<1>4. received = Join(handed, Join(InChannel, hand)) /\ Join(<<>>, hand) = hand
  <2>1. Join(InChannel, hand) \in Seq(Items)
    BY <1>2, <1>3, JoinLaws
  <2> QED BY <1>1, <1>2, <1>3, <2>1, JoinEmpty DEF Conserved
<1>6. CASE single
  <2>1. rest' = InChannel /\ handed' = handed
    BY <1>2, <1>6 DEF Take
  <2>2. Conserved'
    BY <1>1, <1>2, <1>4, <2>1 DEF Conserved
  <2>3. Shape'
    BY <1>1, <1>2, <1>3, <2>1 DEF Shape
  <2> QED BY <1>1, <2>1, <2>2, <2>3 DEF Implements, InOrder!vars
<1>7. CASE ~single
  <2>1. handed' = Join(handed, InChannel) /\ rest' = rest
    BY <1>2, <1>7 DEF Take, Join
  <2>2. received = Join(Join(handed, InChannel), hand)
    BY <1>2, <1>3, <1>4, JoinLaws
  <2>3. handed' \in Seq(Items) /\ Implements
    BY <1>1, <1>2, <1>3, <2>1, <2>2, HandedMore
  <2>4. Conserved'
    BY <1>1, <1>2, <1>4, <2>1, <2>2 DEF Conserved
  <2>5. Shape'
    BY <1>1, <1>2, <1>3, <2>1, <2>3 DEF Shape
  <2> QED BY <2>3, <2>4, <2>5
<1> QED BY <1>6, <1>7

LEMMA HandOneStep ==
  ASSUME PumpInv, HandOne
  PROVE  PumpInv' /\ Implements
<1> USE DEF PumpInv
<1>1. /\ stream = "open" /\ rest # <<>>
      /\ handed' = Append(handed, Head(rest)) /\ rest' = Tail(rest)
      /\ UNCHANGED <<single, pump, hand, fatal, channel, stream, received, errors>>
  BY DEF HandOne
<1>2. /\ handed \in Seq(Items) /\ rest \in Seq(Items) /\ hand \in Seq(Items)
      /\ InChannel \in Seq(Items) /\ InChannel' = InChannel
  BY <1>1, InChannelIsSeq DEF Shape, InChannel
<1> DEFINE h == <<Head(rest)>>
           t == Tail(rest)
           u == Join(InChannel, hand)
<1>3. Head(rest) \in Items /\ h \in Seq(Items) /\ t \in Seq(Items) /\ rest = Join(h, t)
  BY <1>1, <1>2, HeadAndTail
<1>4. u \in Seq(Items) /\ Join(t, u) \in Seq(Items)
  BY <1>2, <1>3, JoinLaws
<1>5. handed' = Join(handed, h)
  BY <1>1, <1>2, <1>3, AppendIsConcat DEF Join
<1>6. received = Join(Join(handed, h), Join(t, u))
  <2>1. received = Join(handed, Join(rest, u))
    BY <1>1 DEF Conserved
  <2> HIDE DEF h, t, u
  <2> QED BY <1>2, <1>3, <1>4, <2>1, JoinLaws
<1>7. handed' \in Seq(Items) /\ Implements
  <2> HIDE DEF h, t, u
  <2> QED BY <1>1, <1>3, <1>4, <1>5, <1>6, HandedMore
<1>8. Conserved'
  BY <1>1, <1>2, <1>5, <1>6 DEF Conserved
<1>9. Shape'
  BY <1>1, <1>3, <1>7 DEF Shape
<1> QED BY <1>7, <1>8, <1>9

LEMMA EndStep ==
  ASSUME PumpInv, End
  PROVE  PumpInv' /\ Implements
<1> USE DEF PumpInv
<1>1. /\ stream = "open" /\ rest = <<>> /\ channel = <<>> /\ pump = "done"
      /\ stream' = "ended"
      /\ UNCHANGED <<single, pump, hand, fatal, channel, rest, received, handed, errors>>
  BY DEF End
<1>2. hand = <<>> /\ InChannel = <<>> /\ handed \in Seq(Items)
  BY <1>1 DEF Shape, InChannel
<1>3. handed = received
  BY <1>1, <1>2, JoinEmpty DEF Conserved
<1>4. Implements
  BY <1>1, <1>3 DEF Implements, InOrder!Next, InOrder!End
<1>5. Shape' /\ Conserved'
  BY <1>1 DEF Shape, Conserved
<1> QED BY <1>4, <1>5

LEMMA DropStreamStep ==
  ASSUME PumpInv, DropStream
  PROVE  PumpInv' /\ Implements
<1> USE DEF PumpInv
<1>1. /\ stream = "open" /\ stream' = "dropped" /\ channel' = <<>> /\ rest' = <<>>
      /\ UNCHANGED <<single, pump, hand, fatal, received, handed, errors>>
  BY DEF DropStream
<1>2. /\ channel' \in Seq(Seq(Items)) /\ Len(channel') <= Capacity
      /\ rest' \in Seq(Items)
  BY <1>1, EmptySeq DEF Capacity
<1>3. Shape' /\ Conserved'
  BY <1>1, <1>2 DEF Shape, Conserved
<1> QED BY <1>1, <1>3 DEF Implements, InOrder!Next, InOrder!Drop

-----------------------------------------------------------------------------
(* The theorems. *)

LEMMA InitPump == Init => PumpInv
<1> SUFFICES ASSUME Init PROVE PumpInv
  OBVIOUS
<1>1. <<>> \in Seq(Items) /\ <<>> \in Seq(Seq(Items)) /\ Len(<<>>) = 0
  BY EmptySeq
<1>2. Join(<<>>, Join(<<>>, Join(<<>>, <<>>))) = <<>>
  BY JoinEmpty
<1> QED BY <1>1, <1>2 DEF Init, PumpInv, Shape, Conserved, InChannel, Capacity

LEMMA NextPump == PumpInv /\ [Next]_vars => PumpInv' /\ Implements
<1> SUFFICES ASSUME PumpInv, [Next]_vars PROVE PumpInv' /\ Implements
  OBVIOUS
<1>1. CASE \E n \in 0..Size : Answer(n)
  BY <1>1, AnswerStep
<1>2. CASE \E gone \in BOOLEAN : Fail(gone)
  BY <1>2, FailStep
<1>3. CASE Stop \/ BackOffOver
  BY <1>3, IdleStep
<1>4. CASE Push
  BY <1>4, PushStep
<1>5. CASE PushFails
  BY <1>5, PushFailsStep
<1>6. CASE Take
  BY <1>6, TakeStep
<1>7. CASE HandOne
  BY <1>7, HandOneStep
<1>8. CASE End
  BY <1>8, EndStep
<1>9. CASE DropStream
  BY <1>9, DropStreamStep
<1>10. CASE UNCHANGED vars
  BY <1>10 DEF vars, PumpInv, Shape, Conserved, InChannel, Implements, InOrder!vars
<1> QED BY <1>1, <1>2, <1>3, <1>4, <1>5, <1>6, <1>7, <1>8, <1>9, <1>10 DEF Next

LEMMA PumpIsSound == Spec => []PumpInv
<1>1. PumpInv /\ [Next]_vars => PumpInv'
  BY NextPump
<1> QED BY <1>1, InitPump, PTL DEF Spec

\* The subscription, with its task, its channel and its flattened stream,
\* implements Handoff: nothing received is lost, repeated or reordered, and the
\* stream ends only with everything handed over.
THEOREM SubscriptionHandsOver == Spec => HandsOver
<1>1. Init => InOrder!Init
  BY DEF Init, InOrder!Init
<1>2. PumpInv /\ [Next]_vars => [InOrder!Next]_(InOrder!vars)
  BY NextPump DEF Implements
<1> QED BY <1>1, <1>2, PumpIsSound, PTL DEF Spec, HandsOver, InOrder!Spec
=============================================================================
