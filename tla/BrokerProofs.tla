--------------------------- MODULE BrokerProofs ---------------------------
(***************************************************************************)
(* The shape of the live broker's state and of its calls, for every number *)
(* of processes, calls, queues and topics.                                 *)
(***************************************************************************)
EXTENDS Broker, TLAPS

\* Updates of a call's fields, one by one.
LEMMA PcType ==
  ASSUME NEW k \in Call, NEW point \in Points
  PROVE  [k EXCEPT !.pc = point] \in Call
  BY DEF Call

LEMMA PcDeadType ==
  ASSUME NEW k \in Call, NEW point \in Points, NEW b \in BOOLEAN
  PROVE  [k EXCEPT !.pc = point, !.dead = b] \in Call
  BY ZenonT(60) DEF Call

LEMMA EncodedType ==
  ASSUME NEW k \in Call, NEW point \in Points, NEW grp \in Names \cup {None, "default"},
         NEW ded \in Names \cup (Nat \X Nat) \cup {None}
  PROVE  [k EXCEPT !.pc = point, !.group = grp, !.dedup = ded] \in Call
  BY ZenonT(60) DEF Call

LEMMA DescriptorType ==
  ASSUME NEW k \in Call, NEW q \in Queues, NEW r \in Queues \cup {None},
         NEW create \in BOOLEAN, NEW named \in BOOLEAN
  PROVE  [k EXCEPT !.queue = q, !.redrive = r, !.create = create, !.named = named] \in Call
  BY ZenonT(60) DEF Call

\* A step to a point of the program keeps the shape of the calls.
LEMMA MoveType ==
  ASSUME TypeOK, NEW c \in Calls, NEW point \in Points, Move(c, point)
  PROVE  call' \in [Calls -> Call]
  <1>1. [call[c] EXCEPT !.pc = point] \in Call
    BY PcType DEF TypeOK
  <1>2. call' = [call EXCEPT ![c] = [call[c] EXCEPT !.pc = point]]
    BY DEF Move
  <1> QED BY <1>1, <1>2 DEF TypeOK

\* Dropping guards keeps the shape of the locks.
LEMMA ReleaseType ==
  ASSUME TypeOK, NEW c \in Calls, Release(c)
  PROVE  lock' \in [Procs -> [Locks -> Calls \cup {None}]]
  BY DEF TypeOK, Release

LEMMA HoldType ==
  ASSUME TypeOK, NEW c \in Calls, NEW l \in Locks, Hold(c, l)
  PROVE  lock' \in [Procs -> [Locks -> Calls \cup {None}]]
  BY DEF TypeOK, Hold, Proc, Call

LEMMA ResolvedType ==
  ASSUME TypeOK, NEW c \in Calls, Resolved(c)
  PROVE  call' \in [Calls -> Call]
  <1> DEFINE k == call[c]
  <1> DEFINE point == CASE k.op = "publish" -> "encode"
                          [] k.op = "link" -> "queueArn"
                          [] k.op = "subscribe" /\ k.dead -> "queueArn"
                          [] k.op = "subscribe" /\ ~k.dead /\ k.redrive # None -> "url"
                          [] OTHER -> Opening(k)
  <1>1. point \in Points
    BY DEF Points, Requests, Ends, Opening
  <1>2. k \in Call
    BY DEF TypeOK
  <1>3. [k EXCEPT !.pc = point, !.dead = k.op = "subscribe" /\ k.redrive # None] \in Call
    <2> HIDE DEF point, k
    <2> QED BY <1>1, <1>2, PcDeadType
  <1> QED BY <1>3 DEF Resolved, TypeOK

LEMMA FreshType ==
  ASSUME NEW p \in Procs, NEW op \in {"publish", "notify", "subscribe", "link"}
  PROVE  Fresh(p, op) \in Call
  BY DEF Fresh, Call, Points

\* A call that starts has the shape of one.
LEMMA BeginType ==
  ASSUME TypeOK, NEW c \in Calls, NEW k \in Call, NEW entry \in Points, Begin(c, k, entry)
  PROVE  TypeOK'
  <1> DEFINE point == IF ~Filled(k.proc) \/ closed[k.proc] THEN "failed"
                      ELSE IF cell[k.proc] = "in_process" THEN "account" ELSE entry
  <1>1. point \in Points
    BY DEF Points, Ends
  <1>2. [k EXCEPT !.pc = point] \in Call
    <2> HIDE DEF point
    <2> QED BY <1>1, PcType
  <1>3. call' \in [Calls -> Call]
    BY <1>2 DEF TypeOK, Begin
  <1> QED BY <1>3 DEF TypeOK, Begin, core, aws

\* The points are strings of one set; the provers see it whole where a step names its point.
LEMMA PointsAre ==
  /\ {"getUrl", "createQueue", "createTopic", "queueArn", "setRedrive", "visibility",
      "readPolicy", "writePolicy", "link", "send", "done", "open", "account", "failed",
      "idle", "url", "cacheUrl", "arn", "grant", "encode"} = Points
  BY DEF Points, Requests, Ends

LEMMA LandedType ==
  ASSUME TypeOK, NEW c \in Calls, NEW point \in Points, Landed(c, point)
  PROVE  call' \in [Calls -> Call]
  BY MoveType, PointsAre DEF Landed

LEMMA TargetType ==
  ASSUME TypeOK, NEW c \in Calls
  PROVE  Target(call[c]) \in Queues \cup {None}
  BY DEF TypeOK, Target, Call

----------------------------------------------------------------------------
(* The program of a call: which points an operation passes, and what it has in hand there. *)

PointsOf(op) ==
  CASE op = "publish" -> {"url", "getUrl", "encode", "send", "done"}
    [] op = "notify" -> {"arn", "createTopic", "encode", "send", "done"}
    [] op = "link" -> {"arn", "createTopic", "url", "getUrl", "queueArn", "grant",
                       "readPolicy", "writePolicy", "link", "done"}
    [] op = "subscribe" -> {"url", "getUrl", "createQueue", "cacheUrl", "queueArn",
                            "setRedrive", "visibility", "open"}

Shaped(k) ==
  IF k.pc = "idle" THEN ~k.dead /\ k.dedup = None
  ELSE /\ k.pc \in PointsOf(k.op) \cup {"failed", "account"}
       /\ k.op # "notify" => k.queue \in Queues
       /\ k.op \in {"notify", "link"} => k.topic \in Topics
       /\ k.op \in {"publish", "notify"} => k.set \in Settings
       /\ k.create => k.op = "subscribe"
       /\ k.dead => k.op = "subscribe" /\ k.redrive \in Queues
       /\ k.op = "subscribe" /\ k.pc \in {"queueArn", "setRedrive"} => k.dead

Shapes == TypeOK /\ \A c \in Calls : Shaped(call[c])

LEMMA InitShapes == ASSUME Init PROVE Shapes
  <1>1. call \in [Calls -> Call]
    BY FreshType DEF Init
  <1>2. TypeOK
    BY <1>1, BrokerAssumption DEF Init, TypeOK, Locks, Destinations
  <1>3. ASSUME NEW c \in Calls PROVE Shaped(call[c])
    BY DEF Init, Fresh, Shaped
  <1> QED BY <1>2, <1>3 DEF Shapes

\* A call moves on within its program.
LEMMA MoveShapes ==
  ASSUME Shapes, NEW c \in Calls, call[c].pc # "idle", NEW point \in Points, point # "idle",
         point \in PointsOf(call[c].op) \cup {"failed", "account"},
         call[c].op = "subscribe" /\ point \in {"queueArn", "setRedrive"} => call[c].dead,
         Move(c, point)
  PROVE  call' \in [Calls -> Call] /\ \A e \in Calls : Shaped(call[e])'
  <1>1. call' \in [Calls -> Call]
    BY MoveType DEF Shapes
  <1>2. call[c] \in Call /\ Shaped(call[c])
    BY DEF Shapes, TypeOK
  <1>3. call'[c] = [call[c] EXCEPT !.pc = point]
    BY DEF Move, Shapes, TypeOK
  <1>4. Shaped(call'[c])
    BY <1>2, <1>3 DEF Shaped, Call
  <1>5. ASSUME NEW e \in Calls, e # c PROVE Shaped(call'[e])
    BY <1>5 DEF Move, Shapes, TypeOK
  <1> QED BY <1>1, <1>4, <1>5

LEMMA ResolvedShapes ==
  ASSUME Shapes, NEW c \in Calls, call[c].pc \in {"url", "getUrl", "cacheUrl"}, Resolved(c)
  PROVE  call' \in [Calls -> Call] /\ \A e \in Calls : Shaped(call[e])'
  <1>1. call' \in [Calls -> Call]
    BY ResolvedType DEF Shapes
  <1>2. call[c] \in Call /\ Shaped(call[c])
    BY DEF Shapes, TypeOK
  <1>3. call[c].op \in {"publish", "link", "subscribe"} /\ call[c].pc # "idle"
    BY <1>2 DEF Shaped, PointsOf, Call
  <1>4. Shaped(call'[c])
    <2>1. CASE call[c].op = "publish"
      BY <1>2, <2>1 DEF Resolved, Shapes, TypeOK, Shaped, PointsOf, Call
    <2>2. CASE call[c].op = "link"
      BY <1>2, <2>2 DEF Resolved, Shapes, TypeOK, Shaped, PointsOf, Call
    <2>3. CASE call[c].op = "subscribe"
      <3>1. CASE call[c].dead
        <4>1. call[c].redrive # None
          BY <1>2, <1>3, <3>1, BrokerAssumption DEF Shaped
        <4>2. call'[c] = [call[c] EXCEPT !.pc = "queueArn", !.dead = TRUE]
          BY <1>2, <2>3, <3>1, <4>1 DEF Resolved, Shapes, TypeOK
        <4> QED BY <1>2, <2>3, <3>1, <4>2 DEF Shaped, PointsOf, Call
      <3>2. CASE ~call[c].dead /\ call[c].redrive # None
        <4>1. call'[c] = [call[c] EXCEPT !.pc = "url", !.dead = TRUE]
          BY <1>2, <2>3, <3>2 DEF Resolved, Shapes, TypeOK, Call
        <4> QED BY <1>2, <2>3, <3>2, <4>1 DEF Shaped, PointsOf, Call
      <3>3. CASE ~call[c].dead /\ call[c].redrive = None
        <4>1. call'[c] = [call[c] EXCEPT !.pc = Opening(call[c]), !.dead = FALSE]
          BY <1>2, <2>3, <3>3, ZenonT(60) DEF Resolved, Shapes, TypeOK, Call
        <4>2. Opening(call[c]) \in {"open", "visibility"}
          BY DEF Opening
        <4> QED BY <1>2, <2>3, <3>3, <4>1, <4>2 DEF Shaped, PointsOf, Call
      <3> QED BY <3>1, <3>2, <3>3
    <2> QED BY <1>3, <2>1, <2>2, <2>3
  <1>5. ASSUME NEW e \in Calls, e # c PROVE Shaped(call'[e])
    BY <1>5 DEF Resolved, Shapes, TypeOK
  <1> QED BY <1>1, <1>4, <1>5

\* Which operation is at a point, and what it has in hand.
LEMMA OpAt ==
  ASSUME Shapes, NEW c \in Calls
  PROVE  /\ call[c].pc \in {"url", "getUrl"} => call[c].op \in {"publish", "link", "subscribe"}
         /\ call[c].pc \in {"arn", "createTopic"} => call[c].op \in {"notify", "link"}
         /\ call[c].pc \in {"encode", "send"} => call[c].op \in {"publish", "notify"}
         /\ call[c].pc \in {"grant", "readPolicy", "writePolicy", "link"} => call[c].op = "link"
         /\ call[c].pc \in {"createQueue", "cacheUrl", "setRedrive", "visibility", "open"}
              => call[c].op = "subscribe"
         /\ call[c].pc = "queueArn" => call[c].op \in {"link", "subscribe"}
  BY DEF Shapes, TypeOK, Shaped, PointsOf, Call

LEMMA TargetIsQueue ==
  ASSUME Shapes, NEW c \in Calls, call[c].pc # "idle", call[c].op # "notify"
  PROVE  Target(call[c]) \in Queues
  BY DEF Shapes, TypeOK, Shaped, Target, Call

\* Every step of a call keeps the account and the locks in shape, and the call in its program.
LEMMA StepShapes == ASSUME Shapes, NEW c \in Calls, Step(c) PROVE Shapes'
  <1> DEFINE Calling == call' \in [Calls -> Call] /\ \A e \in Calls : Shaped(call[e])'
  <1> DEFINE Locking == lock' \in [Procs -> [Locks -> Calls \cup {None}]]
  <1> USE DEF At
  <1>0. TypeOK /\ call[c] \in Call /\ Shaped(call[c]) /\ Proc(c) \in Procs
    BY DEF Shapes, TypeOK, Call, Proc
  <1>1. CASE UrlKnown(c)
    <2>1. Calling
      BY <1>1, ResolvedShapes DEF UrlKnown
    <2> QED BY <1>0, <1>1, <2>1 DEF UrlKnown, Shapes, TypeOK, core, aws
  <1>2. CASE UrlUnknown(c)
    <2>1. Calling
      BY <1>2, MoveShapes, OpAt, PointsAre DEF UrlUnknown, PointsOf
    <2>2. Locking
      BY <1>0, <1>2, HoldType DEF UrlUnknown, Locks
    <2> QED BY <1>0, <1>2, <2>1, <2>2 DEF UrlUnknown, Shapes, TypeOK, core, aws
  <1>3. CASE GetUrl(c)
    <2>1. Calling
      BY <1>3, ResolvedShapes DEF GetUrl
    <2>2. Locking
      BY <1>0, <1>3, ReleaseType DEF GetUrl
    <2>3. Target(call[c]) \in Queues
      BY <1>3, OpAt, TargetIsQueue DEF GetUrl
    <2>4. urls' \in [Procs -> SUBSET Queues]
      BY <1>0, <1>3, <2>3 DEF GetUrl, TypeOK
    <2> QED BY <1>0, <1>3, <2>1, <2>2, <2>4 DEF GetUrl, Shapes, TypeOK, core, aws
  <1>4. CASE GetUrlFails(c)
    <2>1. Calling
      <3>1. CASE call[c].create
        <4>1. call[c].op = "subscribe"
          BY <1>0, <1>4, <3>1 DEF GetUrlFails, Shaped
        <4> QED BY <1>4, <3>1, <4>1, MoveShapes, PointsAre DEF GetUrlFails, PointsOf
      <3>2. CASE ~call[c].create
        BY <1>4, <3>2, MoveShapes, PointsAre DEF GetUrlFails
      <3> QED BY <3>1, <3>2
    <2>2. Locking
      BY <1>0, <1>4, ReleaseType DEF GetUrlFails
    <2> QED BY <1>0, <1>4, <2>1, <2>2 DEF GetUrlFails, Shapes, TypeOK, core, aws
  <1>5. CASE CreateQueue(c)
    <2>1. Calling
      BY <1>5, MoveShapes, OpAt, PointsAre DEF CreateQueue, Landed, PointsOf
    <2>2. Target(call[c]) \in Queues
      BY <1>5, OpAt, TargetIsQueue DEF CreateQueue
    <2>3. exists' \subseteq Destinations
      BY <1>0, <1>5, <2>2 DEF CreateQueue, TypeOK, Destinations
    <2> QED BY <1>0, <1>5, <2>1, <2>3 DEF CreateQueue, Shapes, TypeOK, core
  <1>6. CASE CacheUrl(c)
    <2>1. Calling
      BY <1>6, ResolvedShapes DEF CacheUrl
    <2>2. Target(call[c]) \in Queues
      BY <1>6, OpAt, TargetIsQueue DEF CacheUrl
    <2>3. urls' \in [Procs -> SUBSET Queues]
      BY <1>0, <1>6, <2>2 DEF CacheUrl, TypeOK
    <2> QED BY <1>0, <1>6, <2>1, <2>3 DEF CacheUrl, Shapes, TypeOK, core, aws
  <1>7. CASE ArnKnown(c)
    <2>1. Calling
      BY <1>7, MoveShapes, OpAt, PointsAre DEF ArnKnown, Routed, PointsOf
    <2> QED BY <1>0, <1>7, <2>1 DEF ArnKnown, Shapes, TypeOK, core, aws
  <1>8. CASE ArnUnknown(c)
    <2>1. Calling
      BY <1>8, MoveShapes, OpAt, PointsAre DEF ArnUnknown, PointsOf
    <2>2. Locking
      BY <1>0, <1>8, HoldType DEF ArnUnknown, Locks
    <2> QED BY <1>0, <1>8, <2>1, <2>2 DEF ArnUnknown, Shapes, TypeOK, core, aws
  <1>9. CASE CreateTopic(c)
    <2>1. Calling
      BY <1>9, MoveShapes, OpAt, PointsAre DEF CreateTopic, Routed, PointsOf
    <2>2. Locking
      BY <1>0, <1>9, ReleaseType DEF CreateTopic
    <2>3. call[c].topic \in Topics
      BY <1>0, <1>9, OpAt DEF CreateTopic, Shaped
    <2>4. exists' \subseteq Destinations /\ arns' \in [Procs -> SUBSET Topics]
      BY <1>0, <1>9, <2>3 DEF CreateTopic, TypeOK, Destinations
    <2> QED BY <1>0, <1>9, <2>1, <2>2, <2>4 DEF CreateTopic, Shapes, TypeOK, core
  <1>10. CASE QueueArn(c)
    <2>1. Calling
      BY <1>0, <1>10, MoveShapes, OpAt, PointsAre DEF QueueArn, PointsOf, Shaped
    <2> QED BY <1>0, <1>10, <2>1 DEF QueueArn, Shapes, TypeOK, core, aws
  <1>11. CASE SetRedrive(c)
    <2>1. Calling
      BY <1>11, MoveShapes, OpAt, PointsAre DEF SetRedrive, Landed, Opening, PointsOf
    <2>2. redrive' \in [Queues -> Queues \cup {None}]
      BY <1>0, <1>11 DEF SetRedrive, TypeOK, Call
    <2> QED BY <1>0, <1>11, <2>1, <2>2 DEF SetRedrive, Shapes, TypeOK, core
  <1>12. CASE Visibility(c)
    <2>1. Calling
      BY <1>12, MoveShapes, OpAt, PointsAre DEF Visibility, PointsOf
    <2> QED BY <1>0, <1>12, <2>1 DEF Visibility, Shapes, TypeOK, core, aws
  <1>13. CASE LockPolicy(c)
    <2>1. Calling
      BY <1>13, MoveShapes, OpAt, PointsAre DEF LockPolicy, PointsOf
    <2>2. Locking
      BY <1>0, <1>13, HoldType DEF LockPolicy, Locks
    <2> QED BY <1>0, <1>13, <2>1, <2>2 DEF LockPolicy, Shapes, TypeOK, core, aws
  <1>14. CASE ReadPolicy(c)
    <2> DEFINE point == IF call[c].topic \in policy[call[c].queue] THEN "link" ELSE "writePolicy"
    <2>1. call[c].op = "link" /\ call[c].queue \in Queues /\ call[c].pc # "idle"
      BY <1>0, <1>14, OpAt DEF ReadPolicy, Shaped
    <2>2. policy[call[c].queue] \in SUBSET (Topics \cup Statements)
      BY <1>0, <2>1 DEF TypeOK
    <2>3. call'[c] = [call[c] EXCEPT !.read = policy[call[c].queue], !.pc = point]
      BY <1>0, <1>14 DEF ReadPolicy, TypeOK
    <2>4. point \in {"link", "writePolicy"}
      OBVIOUS
    <2>5. call'[c] \in Call /\ Shaped(call'[c])
      <3> HIDE DEF point
      <3> QED BY <1>0, <2>1, <2>2, <2>3, <2>4, PointsAre, ZenonT(60) DEF Call, Shaped, PointsOf
    <2>6. \A e \in Calls \ {c} : call'[e] = call[e]
      BY <1>0, <1>14 DEF ReadPolicy, TypeOK
    <2>7. call' = [call EXCEPT ![c] = call'[c]]
      BY <1>0, <1>14 DEF ReadPolicy, TypeOK
    <2>8. Calling
      BY <1>0, <2>5, <2>6, <2>7 DEF Shapes, TypeOK
    <2>9. Locking
      BY <1>0, <1>14, ReleaseType DEF ReadPolicy, TypeOK
    <2> QED BY <1>0, <1>14, <2>8, <2>9 DEF ReadPolicy, Shapes, TypeOK, core, aws
  <1>15. CASE WritePolicy(c)
    <2>1. Calling
      BY <1>15, MoveShapes, OpAt, PointsAre DEF WritePolicy, Landed, PointsOf
    <2>2. Locking
      BY <1>0, <1>15, ReleaseType DEF WritePolicy
    <2>3. call[c].topic \in Topics /\ call[c].read \in SUBSET (Topics \cup Statements)
      BY <1>0, <1>15, OpAt DEF WritePolicy, Shaped, Call
    <2>4. policy' \in [Queues -> SUBSET (Topics \cup Statements)]
      BY <1>0, <1>15, <2>3 DEF WritePolicy, TypeOK
    <2> QED BY <1>0, <1>15, <2>1, <2>2, <2>4 DEF WritePolicy, Shapes, TypeOK, core
  <1>16. CASE Link(c)
    <2>1. Calling
      BY <1>16, MoveShapes, OpAt, PointsAre DEF Link, Landed, PointsOf
    <2>2. call[c].topic \in Topics /\ call[c].queue \in Queues
      BY <1>0, <1>16, OpAt DEF Link, Shaped
    <2>3. links' \subseteq Topics \X Queues
      BY <1>0, <1>16, <2>2 DEF Link, TypeOK
    <2> QED BY <1>0, <1>16, <2>1, <2>3 DEF Link, Shapes, TypeOK, core
  <1>17. CASE Encode(c)
    <2> DEFINE k == call[c]
    <2> DEFINE taken == Fifo(Destination(k)) /\ k.set.dedup = None
    <2> DEFINE grp == IF Fifo(Destination(k)) THEN Group(k.set) ELSE None
    <2> DEFINE ded == IF taken THEN DedupId(k.proc) ELSE k.set.dedup
    <2>1. k.op \in {"publish", "notify"} /\ k.pc # "idle" /\ k.set \in Setting
      BY <1>0, <1>17, OpAt, SettingsAssumption DEF Encode, Shaped
    <2>2. grp \in Names \cup {None, "default"} /\ ded \in Names \cup (Nat \X Nat) \cup {None}
      BY <1>0, <2>1, BrokerAssumption DEF Setting, Group, DedupId, TypeOK, Call
    <2>3. call' = [call EXCEPT ![c] = [k EXCEPT !.pc = "send", !.group = grp, !.dedup = ded]]
      BY <1>17 DEF Encode
    <2>4. [k EXCEPT !.pc = "send", !.group = grp, !.dedup = ded] \in Call
      <3> HIDE DEF grp, ded, k
      <3>1. k \in Call
        BY <1>0 DEF k
      <3> QED BY <2>2, <3>1, PointsAre, EncodedType
    <2>5. Shaped([k EXCEPT !.pc = "send", !.group = grp, !.dedup = ded])
      <3> HIDE DEF grp, ded
      <3> QED BY <1>0, <2>1 DEF Call, Shaped, PointsOf
    <2>6. Calling
      <3> HIDE DEF grp, ded, k
      <3> QED BY <2>3, <2>4, <2>5 DEF Shapes, TypeOK
    <2>7. seq' \in [Procs -> Nat]
      <3>1. seq' = [seq EXCEPT ![Proc(c)] = IF taken THEN seq[Proc(c)] + 1 ELSE seq[Proc(c)]]
        BY <1>17 DEF Encode, Proc
      <3> HIDE DEF taken
      <3> QED BY <1>0, <3>1 DEF TypeOK
    <2> QED BY <1>0, <1>17, <2>6, <2>7 DEF Encode, Shapes, TypeOK, core, aws
  <1>18. CASE EncodeRefuses(c)
    <2>1. Calling
      BY <1>18, MoveShapes, PointsAre DEF EncodeRefuses
    <2> QED BY <1>0, <1>18, <2>1 DEF EncodeRefuses, Shapes, TypeOK, core, aws
  <1>19. CASE Send(c)
    <2>1. Calling
      BY <1>19, MoveShapes, OpAt, PointsAre DEF Send, Landed, PointsOf
    <2>2. Destination(call[c]) \in Destinations
      BY <1>0, <1>19, OpAt DEF Send, Shaped, Destination, Destinations
    <2>3. Outgoing(c) \in Message
      BY <1>0, <2>2 DEF Outgoing, Message, Call
    <2>4. arrived' \subseteq Message
      BY <1>0, <1>19, <2>3 DEF Send, TypeOK
    <2> QED BY <1>0, <1>19, <2>1, <2>4 DEF Send, Shapes, TypeOK, core
  <1>20. CASE RequestFails(c)
    <2>1. Calling
      BY <1>20, MoveShapes, PointsAre DEF RequestFails, Requests
    <2>2. Locking
      BY <1>0, <1>20, ReleaseType DEF RequestFails
    <2> QED BY <1>0, <1>20, <2>1, <2>2 DEF RequestFails, Shapes, TypeOK, core, aws
  <1> QED BY <1>1, <1>2, <1>3, <1>4, <1>5, <1>6, <1>7, <1>8, <1>9, <1>10, <1>11, <1>12, <1>13,
             <1>14, <1>15, <1>16, <1>17, <1>18, <1>19, <1>20 DEF Step

\* A call that starts has what its operation needs.
LEMMA BeginShapes ==
  ASSUME Shapes, NEW c \in Calls, NEW k \in Call, NEW entry \in Points, entry # "idle",
         Shaped([k EXCEPT !.pc = entry]), entry \notin {"queueArn", "setRedrive"},
         Begin(c, k, entry)
  PROVE  Shapes'
  <1> DEFINE point == IF ~Filled(k.proc) \/ closed[k.proc] THEN "failed"
                      ELSE IF cell[k.proc] = "in_process" THEN "account" ELSE entry
  <1>1. TypeOK'
    BY BeginType DEF Shapes
  <1>2. call' = [call EXCEPT ![c] = [k EXCEPT !.pc = point]]
    BY DEF Begin
  <1>3. Shaped([k EXCEPT !.pc = point])
    <2>1. point \in {"failed", "account", entry}
      OBVIOUS
    <2> HIDE DEF point
    <2> QED BY <2>1 DEF Shaped, Call
  <1>4. \A e \in Calls : Shaped(call[e])'
    <2> HIDE DEF point
    <2> QED BY <1>2, <1>3 DEF Shapes, TypeOK
  <1> QED BY <1>1, <1>4 DEF Shapes

LEMMA StartShapes == ASSUME Shapes, NEW c \in Calls, NEW p \in Procs, Start(c, p) PROVE Shapes'
  <1>1. ASSUME NEW q \in Queues, NEW s \in Settings, Publish(c, p, q, s) PROVE Shapes'
    <2> DEFINE k == [Fresh(p, "publish") EXCEPT !.queue = q, !.set = s]
    <2>1. k \in Call /\ Shaped([k EXCEPT !.pc = "url"])
      BY FreshType, ZenonT(60) DEF Fresh, Call, Shaped, PointsOf
    <2>2. Begin(c, k, "url")
      BY <1>1 DEF Publish
    <2> HIDE DEF k
    <2> QED BY <2>1, <2>2, BeginShapes, PointsAre
  <1>2. ASSUME NEW t \in Topics, NEW s \in Settings, Notify(c, p, t, s) PROVE Shapes'
    <2> DEFINE k == [Fresh(p, "notify") EXCEPT !.topic = t, !.set = s]
    <2>1. k \in Call /\ Shaped([k EXCEPT !.pc = "arn"])
      BY FreshType, ZenonT(60) DEF Fresh, Call, Shaped, PointsOf
    <2>2. Begin(c, k, "arn")
      BY <1>2 DEF Notify
    <2> HIDE DEF k
    <2> QED BY <2>1, <2>2, BeginShapes, PointsAre
  <1>3. ASSUME NEW t \in Topics, NEW q \in Queues, SubscribeQueueToTopic(c, p, t, q)
        PROVE  Shapes'
    <2> DEFINE k == [Fresh(p, "link") EXCEPT !.topic = t, !.queue = q]
    <2>1. k \in Call /\ Shaped([k EXCEPT !.pc = "arn"])
      BY FreshType, ZenonT(60) DEF Fresh, Call, Shaped, PointsOf
    <2>2. Begin(c, k, "arn")
      BY <1>3 DEF SubscribeQueueToTopic
    <2> HIDE DEF k
    <2> QED BY <2>1, <2>2, BeginShapes, PointsAre
  <1>4. ASSUME NEW q \in Queues, NEW r \in Queues \cup {None}, NEW create \in BOOLEAN,
               NEW named \in BOOLEAN, SubscribeQueue(c, p, q, r, create, named)
        PROVE  Shapes'
    <2> DEFINE k == [Fresh(p, "subscribe") EXCEPT
                       !.queue = q, !.redrive = r, !.create = create, !.named = named]
    <2>0. k \in Call
      BY FreshType, DescriptorType
    <2>1. Shaped([k EXCEPT !.pc = "url"])
      <3>1. k.op = "subscribe" /\ k.queue = q /\ ~k.dead
        BY DEF Fresh
      <3> HIDE DEF k
      <3> QED BY <2>0, <3>1 DEF Shaped, PointsOf, Call
    <2>2. Begin(c, k, "url")
      BY <1>4 DEF SubscribeQueue
    <2> HIDE DEF k
    <2> QED BY <2>0, <2>1, <2>2, BeginShapes, PointsAre
  <1>5. ASSUME NEW q \in Queues, Subscribe(c, p, q) PROVE Shapes'
    <2>1. declared[p][q] \in Queues \cup {None}
      BY DEF Shapes, TypeOK
    <2> QED BY <1>4, <1>5, <2>1 DEF Subscribe
  <1> QED BY <1>1, <1>2, <1>3, <1>4, <1>5 DEF Start, Policies

LEMMA HandleShapes == ASSUME Shapes, NEW p \in Procs, Handle(p) PROVE Shapes'
  <1> USE DEF Shapes, TypeOK, core, aws
  <1>1. CASE Connect(p) \/ Connected(p) \/ ConnectInProcess(p)
    BY <1>1 DEF Connect, Connected, ConnectInProcess
  <1>2. CASE Shutdown(p)
    BY <1>2 DEF Shutdown
  <1>3. ASSUME NEW q \in Queues, NEW r \in Queues \cup {None}, DeclareRetry(p, q, r)
        PROVE  Shapes'
    <2>1. declared' \in [Procs -> [Queues -> Queues \cup {None}]]
      BY <1>3 DEF DeclareRetry
    <2> QED BY <1>3, <2>1 DEF DeclareRetry
  <1> QED BY <1>1, <1>2, <1>3 DEF Handle, Policies

LEMMA NextShapes == ASSUME Shapes, [Next]_vars PROVE Shapes'
  <1>1. CASE Next
    BY <1>1, HandleShapes, StartShapes, StepShapes DEF Next
  <1>2. CASE UNCHANGED vars
    BY <1>2 DEF vars, core, aws, Shapes, TypeOK
  <1> QED BY <1>1, <1>2

LEMMA AlwaysShapes == Spec => []Shapes
  BY InitShapes, NextShapes, PTL DEF Spec

\* The state of the broker keeps its shape, and nothing is created in the account that the service
\* did not name: a call that creates a queue has one in hand, the dead-letter queue only where the
\* registration declared one.
THEOREM BrokerTypeOK == Spec => []TypeOK
  <1>1. Shapes => TypeOK
    BY DEF Shapes
  <1> QED BY <1>1, AlwaysShapes, PTL

-----------------------------------------------------------------------------
(***************************************************************************)
(* The guards of the caches and of the access policy, grants before        *)
(* subscriptions, redrive policies, deduplication ids and the core of the  *)
(* live broker, from the shape of its calls.                               *)
(***************************************************************************)


\* What an operation was asked for; no step of a call changes it.
Asked(k) == <<k.proc, k.op, k.queue, k.topic, k.redrive, k.named, k.set>>

\* A step of a call leaves the other calls alone, what it was asked for, and the guards of others.
Framed(c) ==
  /\ \A e \in Calls \ {c} : call'[e] = call[e]
  /\ Asked(call'[c]) = Asked(call[c])
  /\ \A e \in Calls \ {c}, p \in Procs, l \in Locks : lock[p][l] = e => lock'[p][l] = e

LEMMA MoveFrame ==
  ASSUME Shapes, NEW c \in Calls, NEW point \in Points, Move(c, point)
  PROVE  /\ \A e \in Calls \ {c} : call'[e] = call[e]
         /\ Asked(call'[c]) = Asked(call[c])
         /\ call'[c].pc = point /\ call'[c].dead = call[c].dead
         /\ call'[c].read = call[c].read /\ call'[c].dedup = call[c].dedup
  BY DEF Move, Shapes, TypeOK, Call, Asked

LEMMA ResolvedFrame ==
  ASSUME Shapes, NEW c \in Calls, Resolved(c)
  PROVE  /\ \A e \in Calls \ {c} : call'[e] = call[e]
         /\ Asked(call'[c]) = Asked(call[c])
         /\ call'[c].pc \in {"encode", "queueArn", "url", "open", "visibility"}
         /\ call'[c].read = call[c].read /\ call'[c].dedup = call[c].dedup
  <1> DEFINE k == call[c]
  <1> DEFINE point == CASE k.op = "publish" -> "encode"
                          [] k.op = "link" -> "queueArn"
                          [] k.op = "subscribe" /\ k.dead -> "queueArn"
                          [] k.op = "subscribe" /\ ~k.dead /\ k.redrive # None -> "url"
                          [] OTHER -> Opening(k)
  <1> DEFINE b == k.op = "subscribe" /\ k.redrive # None
  <1>1. point \in {"encode", "queueArn", "url", "open", "visibility"}
    BY DEF Opening
  <1>2. call' = [call EXCEPT ![c] = [k EXCEPT !.pc = point, !.dead = b]]
    BY DEF Resolved
  <1>3. k \in Call /\ call \in [Calls -> Call]
    BY DEF Shapes, TypeOK
  <1> HIDE DEF point, b
  <1> QED BY <1>1, <1>2, <1>3 DEF Asked, Call

LEMMA ReleaseFrame ==
  ASSUME Shapes, NEW c \in Calls, Release(c)
  PROVE  \A e \in Calls \ {c}, p \in Procs, l \in Locks : lock[p][l] = e => lock'[p][l] = e
  BY DEF Release, Shapes, TypeOK

LEMMA HoldFrame ==
  ASSUME Shapes, NEW c \in Calls, NEW l \in Locks, Free(c, l), Hold(c, l)
  PROVE  /\ \A e \in Calls \ {c}, p \in Procs, n \in Locks : lock[p][n] = e => lock'[p][n] = e
         /\ lock'[Proc(c)][l] = c
  BY BrokerAssumption DEF Hold, Free, Proc, Shapes, TypeOK, Call

LEMMA StepFrame == ASSUME Shapes, NEW c \in Calls, Step(c) PROVE Framed(c)
  <1> USE PointsAre DEF Framed
  <1>1. CASE UrlKnown(c) \/ CacheUrl(c)
    BY <1>1, ResolvedFrame DEF UrlKnown, CacheUrl
  <1>2. CASE UrlUnknown(c) \/ ArnUnknown(c) \/ LockPolicy(c)
    BY <1>2, MoveFrame, HoldFrame DEF UrlUnknown, ArnUnknown, LockPolicy, Locks
  <1>3. CASE GetUrl(c)
    BY <1>3, ResolvedFrame, ReleaseFrame DEF GetUrl
  <1>4. CASE GetUrlFails(c) \/ RequestFails(c) \/ WritePolicy(c)
    BY <1>4, MoveFrame, ReleaseFrame DEF GetUrlFails, RequestFails, WritePolicy, Landed
  <1>5. CASE CreateQueue(c) \/ SetRedrive(c) \/ Link(c) \/ Send(c)
    BY <1>5, MoveFrame DEF CreateQueue, SetRedrive, Link, Send, Landed, Opening
  <1>6. CASE ArnKnown(c) \/ QueueArn(c) \/ Visibility(c) \/ EncodeRefuses(c)
    BY <1>6, MoveFrame DEF ArnKnown, QueueArn, Visibility, EncodeRefuses, Routed
  <1>7. CASE CreateTopic(c)
    BY <1>7, MoveFrame, ReleaseFrame DEF CreateTopic, Routed
  <1>8. CASE ReadPolicy(c)
    <2>1. \A e \in Calls \ {c} : call'[e] = call[e]
      BY <1>8 DEF ReadPolicy, Shapes, TypeOK
    <2>2. Asked(call'[c]) = Asked(call[c])
      BY <1>8 DEF ReadPolicy, Shapes, TypeOK, Asked, Call
    <2> QED BY <1>8, <2>1, <2>2, ReleaseFrame DEF ReadPolicy
  <1>9. CASE Encode(c)
    BY <1>9 DEF Encode, Shapes, TypeOK, Asked, Call
  <1> QED BY <1>1, <1>2, <1>3, <1>4, <1>5, <1>6, <1>7, <1>8, <1>9 DEF Step

\* A step is that of a call under way.
LEMMA StepUnderWay ==
  ASSUME NEW c \in Calls, Step(c)
  PROVE  call[c].pc \notin Ends \cup {"idle"}
  <1> USE DEF At, Ends
  <1>1. CASE UrlKnown(c) \/ UrlUnknown(c) \/ GetUrl(c) \/ GetUrlFails(c) \/ CreateQueue(c)
              \/ CacheUrl(c) \/ ArnKnown(c) \/ ArnUnknown(c) \/ CreateTopic(c) \/ QueueArn(c)
    BY <1>1 DEF UrlKnown, UrlUnknown, GetUrl, GetUrlFails, CreateQueue, CacheUrl, ArnKnown,
                ArnUnknown, CreateTopic, QueueArn
  <1>2. CASE SetRedrive(c) \/ Visibility(c) \/ LockPolicy(c) \/ ReadPolicy(c) \/ WritePolicy(c)
              \/ Link(c) \/ Encode(c) \/ EncodeRefuses(c) \/ Send(c)
    BY <1>2 DEF SetRedrive, Visibility, LockPolicy, ReadPolicy, WritePolicy, Link, Encode,
                EncodeRefuses, Send
  <1>3. CASE RequestFails(c)
    BY <1>3 DEF RequestFails, Requests
  <1> QED BY <1>1, <1>2, <1>3 DEF Step

\* A call that starts touches nothing but itself.
LEMMA BeginFrame ==
  ASSUME Shapes, NEW c \in Calls, NEW k \in Call, k.dedup = None, NEW entry \in {"url", "arn"},
         Begin(c, k, entry)
  PROVE  /\ \A e \in Calls \ {c} : call'[e] = call[e]
         /\ call[c].pc = "idle"
         /\ call'[c].pc \in {"failed", "account", "url", "arn"}
         /\ closed[call[c].proc] => call'[c].pc = "failed"
         /\ call'[c].proc = call[c].proc /\ call'[c].dedup = None
         /\ UNCHANGED <<core, lock, seq, aws>>
  <1> DEFINE point == IF ~Filled(k.proc) \/ closed[k.proc] THEN "failed"
                      ELSE IF cell[k.proc] = "in_process" THEN "account" ELSE entry
  <1>1. call' = [call EXCEPT ![c] = [k EXCEPT !.pc = point]]
    BY DEF Begin
  <1>2. point \in {"failed", "account", "url", "arn"}
    OBVIOUS
  <1>3. call \in [Calls -> Call] /\ k.proc = call[c].proc /\ call[c].pc = "idle"
    BY DEF Begin, Shapes, TypeOK
  <1>4. UNCHANGED <<core, lock, seq, aws>>
    BY DEF Begin
  <1>5. closed[k.proc] => point = "failed"
    OBVIOUS
  <1> HIDE DEF point
  <1> QED BY <1>1, <1>2, <1>3, <1>4, <1>5 DEF Call

LEMMA StartFrame ==
  ASSUME Shapes, NEW c \in Calls, NEW p \in Procs, Start(c, p)
  PROVE  /\ \A e \in Calls \ {c} : call'[e] = call[e]
         /\ call[c].pc = "idle"
         /\ call'[c].pc \in {"failed", "account", "url", "arn"}
         /\ closed[call[c].proc] => call'[c].pc = "failed"
         /\ call'[c].proc = call[c].proc /\ call'[c].dedup = None
         /\ UNCHANGED <<core, lock, seq, aws>>
  <1>1. PICK k \in Call, entry \in {"url", "arn"} : k.dedup = None /\ Begin(c, k, entry)
    <2>1. ASSUME NEW q \in Queues, NEW s \in Settings, Publish(c, p, q, s)
          PROVE  \E k \in Call, entry \in {"url", "arn"} : k.dedup = None /\ Begin(c, k, entry)
      <3> DEFINE k == [Fresh(p, "publish") EXCEPT !.queue = q, !.set = s]
      <3>1. k \in Call /\ k.dedup = None
        BY FreshType, ZenonT(60) DEF Fresh, Call
      <3> QED BY <2>1, <3>1 DEF Publish
    <2>2. ASSUME NEW t \in Topics, NEW s \in Settings, Notify(c, p, t, s)
          PROVE  \E k \in Call, entry \in {"url", "arn"} : k.dedup = None /\ Begin(c, k, entry)
      <3> DEFINE k == [Fresh(p, "notify") EXCEPT !.topic = t, !.set = s]
      <3>1. k \in Call /\ k.dedup = None
        BY FreshType, ZenonT(60) DEF Fresh, Call
      <3> QED BY <2>2, <3>1 DEF Notify
    <2>3. ASSUME NEW t \in Topics, NEW q \in Queues, SubscribeQueueToTopic(c, p, t, q)
          PROVE  \E k \in Call, entry \in {"url", "arn"} : k.dedup = None /\ Begin(c, k, entry)
      <3> DEFINE k == [Fresh(p, "link") EXCEPT !.topic = t, !.queue = q]
      <3>1. k \in Call /\ k.dedup = None
        BY FreshType, ZenonT(60) DEF Fresh, Call
      <3> QED BY <2>3, <3>1 DEF SubscribeQueueToTopic
    <2>4. ASSUME NEW q \in Queues, NEW r \in Queues \cup {None}, NEW create \in BOOLEAN,
                 NEW named \in BOOLEAN, SubscribeQueue(c, p, q, r, create, named)
          PROVE  \E k \in Call, entry \in {"url", "arn"} : k.dedup = None /\ Begin(c, k, entry)
      <3> DEFINE k == [Fresh(p, "subscribe") EXCEPT
                         !.queue = q, !.redrive = r, !.create = create, !.named = named]
      <3>1. k \in Call
        BY FreshType, DescriptorType
      <3>2. k.dedup = None
        BY DEF Fresh
      <3> QED BY <2>4, <3>1, <3>2 DEF SubscribeQueue
    <2>5. ASSUME NEW q \in Queues, Subscribe(c, p, q)
          PROVE  \E k \in Call, entry \in {"url", "arn"} : k.dedup = None /\ Begin(c, k, entry)
      <3>1. declared[p][q] \in Queues \cup {None}
        BY DEF Shapes, TypeOK
      <3> QED BY <2>4, <2>5, <3>1 DEF Subscribe
    <2> QED BY <2>1, <2>2, <2>3, <2>4, <2>5 DEF Start, Policies
  <1> QED BY <1>1, BeginFrame

LEMMA HandleFrame == ASSUME NEW p \in Procs, Handle(p) PROVE UNCHANGED <<call, lock, seq, aws>>
  BY DEF Handle, Connect, Connected, ConnectInProcess, Shutdown, DeclareRetry

----------------------------------------------------------------------------
(* Guards. *)

\* A call with a guarded request out holds its guard.
Guarded ==
  \A c \in Calls :
    /\ call[c].pc = "getUrl" => lock[call[c].proc]["urls"] = c
    /\ call[c].pc = "createTopic" => lock[call[c].proc]["arns"] = c
    /\ call[c].pc \in {"readPolicy", "writePolicy"} => lock[call[c].proc]["policy"] = c

\* The guarded points are entered with the guard.
LEMMA StepGuards ==
  ASSUME Shapes, Guarded, NEW c \in Calls, Step(c)
  PROVE  /\ call'[c].pc = "getUrl" => lock'[call'[c].proc]["urls"] = c
         /\ call'[c].pc = "createTopic" => lock'[call'[c].proc]["arns"] = c
         /\ call'[c].pc \in {"readPolicy", "writePolicy"} => lock'[call'[c].proc]["policy"] = c
  <1> USE PointsAre DEF At
  <1>0. call'[c].proc = call[c].proc
    BY StepFrame DEF Framed, Asked
  <1>1. CASE UrlKnown(c) \/ CacheUrl(c) \/ GetUrl(c)
    BY <1>1, ResolvedFrame DEF UrlKnown, CacheUrl, GetUrl
  <1>2. CASE UrlUnknown(c)
    BY <1>0, <1>2, MoveFrame, HoldFrame DEF UrlUnknown, Locks, Proc
  <1>3. CASE ArnUnknown(c)
    BY <1>0, <1>3, MoveFrame, HoldFrame DEF ArnUnknown, Locks, Proc
  <1>4. CASE LockPolicy(c)
    BY <1>0, <1>4, MoveFrame, HoldFrame DEF LockPolicy, Locks, Proc
  <1>5. CASE GetUrlFails(c) \/ RequestFails(c) \/ WritePolicy(c) \/ CreateQueue(c)
              \/ SetRedrive(c) \/ Link(c) \/ Send(c)
    BY <1>5, MoveFrame DEF GetUrlFails, RequestFails, WritePolicy, CreateQueue, SetRedrive, Link,
                           Send, Landed, Opening
  <1>6. CASE ArnKnown(c) \/ QueueArn(c) \/ Visibility(c) \/ EncodeRefuses(c) \/ CreateTopic(c)
    BY <1>6, MoveFrame DEF ArnKnown, QueueArn, Visibility, EncodeRefuses, CreateTopic, Routed
  <1>7. CASE ReadPolicy(c)
    <2>1. call'[c].pc = IF call[c].topic \in policy[call[c].queue] THEN "link" ELSE "writePolicy"
      BY <1>7 DEF ReadPolicy, Shapes, TypeOK, Call
    <2>2. CASE call[c].topic \in policy[call[c].queue]
      BY <2>1, <2>2
    <2>3. CASE call[c].topic \notin policy[call[c].queue]
      <3>1. lock' = lock
        BY <1>7, <2>3 DEF ReadPolicy
      <3>2. lock[call[c].proc]["policy"] = c
        BY <1>7 DEF ReadPolicy, Guarded
      <3> QED BY <1>0, <2>1, <2>3, <3>1, <3>2
    <2> QED BY <2>2, <2>3
  <1>8. CASE Encode(c)
    BY <1>8 DEF Encode, Shapes, TypeOK, Call
  <1> QED BY <1>1, <1>2, <1>3, <1>4, <1>5, <1>6, <1>7, <1>8 DEF Step

LEMMA NextGuarded == ASSUME Shapes, Guarded, [Next]_vars PROVE Guarded'
  <1>1. ASSUME NEW c \in Calls, Step(c) PROVE Guarded'
    <2> SUFFICES ASSUME NEW e \in Calls
                 PROVE  /\ call'[e].pc = "getUrl" => lock'[call'[e].proc]["urls"] = e
                        /\ call'[e].pc = "createTopic" => lock'[call'[e].proc]["arns"] = e
                        /\ call'[e].pc \in {"readPolicy", "writePolicy"}
                             => lock'[call'[e].proc]["policy"] = e
      BY DEF Guarded
    <2>1. CASE e = c
      BY <1>1, <2>1, StepGuards
    <2>2. CASE e # c
      <3>1. call'[e] = call[e] /\ call[e].proc \in Procs
        BY <1>1, <2>2, StepFrame DEF Framed, Shapes, TypeOK, Call
      <3>2. \A l \in Locks : lock[call[e].proc][l] = e => lock'[call[e].proc][l] = e
        BY <1>1, <2>2, <3>1, StepFrame DEF Framed
      <3> QED BY <3>1, <3>2 DEF Guarded, Locks
    <2> QED BY <2>1, <2>2
  <1>2. ASSUME NEW c \in Calls, NEW p \in Procs, Start(c, p) PROVE Guarded'
    <2>1. lock' = lock /\ \A e \in Calls \ {c} : call'[e] = call[e]
      BY <1>2, StartFrame
    <2>2. call'[c].pc \in {"failed", "account", "url", "arn"}
      BY <1>2, StartFrame
    <2> QED BY <2>1, <2>2 DEF Guarded
  <1>3. ASSUME NEW p \in Procs, Handle(p) PROVE Guarded'
    BY <1>3, HandleFrame DEF Guarded
  <1>4. CASE UNCHANGED vars
    BY <1>4 DEF vars, Guarded
  <1> QED BY <1>1, <1>2, <1>3, <1>4 DEF Next

LEMMA AlwaysGuarded == Spec => [](Shapes /\ Guarded)
  <1>1. Init => Guarded
    BY DEF Init, Fresh, Guarded
  <1>2. Shapes /\ Guarded /\ [Next]_vars => Guarded'
    BY NextGuarded
  <1> QED BY <1>1, <1>2, AlwaysShapes, PTL DEF Spec

\* The guard of the caches spans the request (`queue_url`, `topic_arn`), so no two calls of a
\* process look up one name at a time, for any number of calls and processes.
THEOREM BrokerOneLookup == Spec => []OneLookup
  <1>1. Shapes /\ Guarded => OneLookup
    BY DEF Guarded, OneLookup, At, Proc
  <1> QED BY <1>1, AlwaysGuarded, PTL

----------------------------------------------------------------------------
(* Which step enters a point, and which step writes a part of the account. *)

LEMMA StepEnters ==
  ASSUME Shapes, NEW c \in Calls, Step(c)
  PROVE  /\ call'[c].pc = "writePolicy" => ReadPolicy(c)
         /\ call'[c].pc = "link" => ReadPolicy(c) \/ WritePolicy(c)
         /\ call'[c].pc = "setRedrive" => QueueArn(c)
         /\ call'[c].pc \in {"visibility", "open"}
              => UrlKnown(c) \/ GetUrl(c) \/ CacheUrl(c) \/ SetRedrive(c) \/ Visibility(c)
         /\ call'[c].pc = "send" => Encode(c)
         /\ call'[c].pc = "done" => Link(c) \/ Send(c)
  <1> USE PointsAre
  <1>1. CASE UrlKnown(c) \/ CacheUrl(c) \/ GetUrl(c)
    BY <1>1, ResolvedFrame DEF UrlKnown, CacheUrl, GetUrl
  <1>2. CASE UrlUnknown(c) \/ ArnUnknown(c) \/ LockPolicy(c) \/ GetUrlFails(c) \/ RequestFails(c)
    BY <1>2, MoveFrame DEF UrlUnknown, ArnUnknown, LockPolicy, GetUrlFails, RequestFails
  <1>3. CASE WritePolicy(c) \/ CreateQueue(c) \/ SetRedrive(c) \/ Link(c) \/ Send(c)
    BY <1>3, MoveFrame DEF WritePolicy, CreateQueue, SetRedrive, Link, Send, Landed, Opening
  <1>4. CASE ArnKnown(c) \/ QueueArn(c) \/ Visibility(c) \/ EncodeRefuses(c) \/ CreateTopic(c)
    BY <1>4, MoveFrame DEF ArnKnown, QueueArn, Visibility, EncodeRefuses, CreateTopic, Routed
  <1>5. CASE ReadPolicy(c)
    <2>1. call'[c].pc \in {"link", "writePolicy"}
      BY <1>5 DEF ReadPolicy, Shapes, TypeOK, Call
    <2> QED BY <1>5, <2>1
  <1>6. CASE Encode(c)
    BY <1>6 DEF Encode, Shapes, TypeOK, Call
  <1> QED BY <1>1, <1>2, <1>3, <1>4, <1>5, <1>6 DEF Step

LEMMA StepWrites ==
  ASSUME NEW c \in Calls, Step(c)
  PROVE  /\ WritePolicy(c) \/ policy' = policy
         /\ Link(c) \/ links' = links
         /\ SetRedrive(c) \/ redrive' = redrive
         /\ Send(c) \/ arrived' = arrived
         /\ exists \subseteq exists'
  <1> USE DEF aws
  <1>1. CASE UrlKnown(c) \/ UrlUnknown(c) \/ GetUrl(c) \/ GetUrlFails(c) \/ CacheUrl(c)
              \/ ArnKnown(c) \/ ArnUnknown(c) \/ QueueArn(c)
    BY <1>1 DEF UrlKnown, UrlUnknown, GetUrl, GetUrlFails, CacheUrl, ArnKnown, ArnUnknown, QueueArn
  <1>2. CASE CreateQueue(c) \/ CreateTopic(c) \/ SetRedrive(c) \/ WritePolicy(c) \/ Link(c)
              \/ Send(c)
    BY <1>2 DEF CreateQueue, CreateTopic, SetRedrive, WritePolicy, Link, Send
  <1>3. CASE Visibility(c) \/ LockPolicy(c) \/ ReadPolicy(c) \/ Encode(c) \/ EncodeRefuses(c)
              \/ RequestFails(c)
    BY <1>3 DEF Visibility, LockPolicy, ReadPolicy, Encode, EncodeRefuses, RequestFails
  <1> QED BY <1>1, <1>2, <1>3 DEF Step

----------------------------------------------------------------------------
(* Grants: the lock is the broker's, so what follows is of one process.  Two of them may lose   *)
(* each other's grants, which the code says of itself.                                          *)

OneProcess == \A p, q \in Procs : p = q

\* What a grant read is still there when it writes, and a granted topic stays granted.
Grants ==
  /\ \A c \in Calls :
       /\ call[c].pc = "writePolicy" => call[c].read = policy[call[c].queue]
       /\ call[c].pc = "link" => call[c].topic \in policy[call[c].queue]
  /\ GrantFirst

LEMMA LinkPoint ==
  ASSUME Shapes, NEW c \in Calls, call[c].pc \in {"readPolicy", "writePolicy", "link"}
  PROVE  call[c].op = "link"
  BY DEF Shapes, Shaped, PointsOf, TypeOK, Call

\* Nothing leaves a policy, and a grant under way finds it as it read it.
LEMMA StepGrows ==
  ASSUME OneProcess, Shapes, Guarded, Grants, NEW c \in Calls, Step(c)
  PROVE  /\ \A q \in Queues : policy[q] \subseteq policy'[q]
         /\ \A e \in Calls \ {c} : call[e].pc = "writePolicy" => policy' = policy
  <1>1. CASE policy' = policy
    BY <1>1
  <1>2. CASE WritePolicy(c)
    <2> DEFINE k == call[c]
    <2>1. k.pc = "writePolicy" /\ k.read = policy[k.queue]
      BY <1>2 DEF WritePolicy, At, Grants
    <2>2. policy' = [policy EXCEPT ![k.queue] = policy[k.queue] \cup {k.topic}]
      BY <1>2, <2>1 DEF WritePolicy
    <2>3. \A q \in Queues : policy[q] \subseteq policy'[q]
      <3> HIDE DEF k
      <3> QED BY <2>2 DEF Shapes, TypeOK
    <2>4. ASSUME NEW e \in Calls \ {c}, call[e].pc = "writePolicy" PROVE FALSE
      <3>1. call[e].proc = call[c].proc
        BY DEF OneProcess, Shapes, TypeOK, Call
      <3>2. lock[call[e].proc]["policy"] = e /\ lock[call[c].proc]["policy"] = c
        BY <2>1, <2>4 DEF Guarded
      <3> QED BY <3>1, <3>2
    <2> QED BY <2>3, <2>4
  <1> QED BY <1>1, <1>2, StepWrites

LEMMA StepGrants ==
  ASSUME OneProcess, Shapes, Guarded, Grants, NEW c \in Calls, Step(c)
  PROVE  Grants'
  <1> DEFINE k == call[c]
  <1>0. /\ call'[c].queue = k.queue /\ call'[c].topic = k.topic
        /\ \A e \in Calls \ {c} : call'[e] = call[e]
    BY StepFrame DEF Framed, Asked
  <1>1. \A q \in Queues : policy[q] \subseteq policy'[q]
    BY StepGrows
  <1>2. ASSUME NEW e \in Calls \ {c}
        PROVE  /\ call'[e].pc = "writePolicy" => call'[e].read = policy'[call'[e].queue]
               /\ call'[e].pc = "link" => call'[e].topic \in policy'[call'[e].queue]
    <2>1. call'[e] = call[e]
      BY <1>0
    <2>2. ASSUME call[e].pc = "writePolicy" PROVE call[e].read = policy'[call[e].queue]
      BY <2>2, StepGrows DEF Grants
    <2>3. ASSUME call[e].pc = "link" PROVE call[e].topic \in policy'[call[e].queue]
      <3>1. call[e].op = "link"
        BY <2>3, LinkPoint
      <3>2. call[e].queue \in Queues
        BY <2>3, <3>1 DEF Shapes, Shaped
      <3> QED BY <1>1, <2>3, <3>2 DEF Grants
    <2> QED BY <2>1, <2>2, <2>3
  <1>3. ASSUME call'[c].pc = "writePolicy" PROVE call'[c].read = policy'[k.queue]
    <2>1. ReadPolicy(c)
      BY <1>3, StepEnters
    <2>2. call'[c].read = policy[k.queue] /\ policy' = policy
      BY <2>1 DEF ReadPolicy, Shapes, TypeOK, Call, aws
    <2> QED BY <2>2
  <1>4. ASSUME call'[c].pc = "link" PROVE k.topic \in policy'[k.queue]
    <2>1. CASE ReadPolicy(c)
      <3>1. call'[c].pc = IF k.topic \in policy[k.queue] THEN "link" ELSE "writePolicy"
        BY <2>1 DEF ReadPolicy, Shapes, TypeOK, Call
      <3>2. policy' = policy
        BY <2>1 DEF ReadPolicy, aws
      <3> QED BY <1>4, <3>1, <3>2
    <2>2. CASE WritePolicy(c)
      <3>1. k.pc = "writePolicy" /\ policy' = [policy EXCEPT ![k.queue] = k.read \cup {k.topic}]
        BY <2>2 DEF WritePolicy, At
      <3>2. k.op = "link"
        BY <3>1, LinkPoint
      <3>3. k.queue \in Queues
        BY <3>1, <3>2 DEF Shapes, Shaped
      <3> QED BY <3>1, <3>3 DEF Shapes, TypeOK
    <2> QED BY <1>4, <2>1, <2>2, StepEnters
  <1>5. GrantFirst'
    <2>1. ASSUME NEW l \in links' PROVE l \in Topics \X Queues /\ l[1] \in policy[l[2]]
      <3>1. CASE l \in links
        BY <3>1 DEF Grants, GrantFirst, Shapes, TypeOK
      <3>2. CASE Link(c) /\ l = <<k.topic, k.queue>>
        <4>1. k.pc = "link"
          BY <3>2 DEF Link, At
        <4>2. k.op = "link"
          BY <4>1, LinkPoint
        <4>3. k.queue \in Queues /\ k.topic \in Topics /\ k.topic \in policy[k.queue]
          BY <4>1, <4>2 DEF Shapes, Shaped, Grants
        <4> QED BY <3>2, <4>3
      <3> QED BY <3>1, <3>2, StepWrites DEF Link
    <2> QED BY <1>1, <2>1 DEF GrantFirst
  <1> QED BY <1>0, <1>2, <1>3, <1>4, <1>5 DEF Grants

LEMMA NextGrants ==
  ASSUME OneProcess, Shapes, Guarded, Grants, [Next]_vars
  PROVE  Grants' /\ \A q \in Queues : policy[q] \subseteq policy'[q]
  <1>1. ASSUME NEW c \in Calls, Step(c)
        PROVE  Grants' /\ \A q \in Queues : policy[q] \subseteq policy'[q]
    BY <1>1, StepGrants, StepGrows
  <1>2. ASSUME NEW c \in Calls, NEW p \in Procs, Start(c, p)
        PROVE  Grants' /\ \A q \in Queues : policy[q] \subseteq policy'[q]
    <2>1. /\ policy' = policy /\ links' = links
          /\ \A e \in Calls \ {c} : call'[e] = call[e]
      BY <1>2, StartFrame DEF aws
    <2>2. call'[c].pc \in {"failed", "account", "url", "arn"}
      BY <1>2, StartFrame
    <2> QED BY <2>1, <2>2 DEF Grants, GrantFirst
  <1>3. ASSUME NEW p \in Procs, Handle(p)
        PROVE  Grants' /\ \A q \in Queues : policy[q] \subseteq policy'[q]
    BY <1>3, HandleFrame DEF Grants, GrantFirst, aws
  <1>4. CASE UNCHANGED vars
    BY <1>4 DEF vars, aws, Grants, GrantFirst
  <1> QED BY <1>1, <1>2, <1>3, <1>4 DEF Next

LEMMA InitGrants == ASSUME Init PROVE Grants
  BY DEF Init, Fresh, Grants, GrantFirst

\* In one process, an SNS subscription is never there before the grant its topic needs.
THEOREM BrokerGrantFirst == ASSUME OneProcess PROVE Spec => []GrantFirst
  <1>1. Shapes /\ Guarded /\ Grants /\ [Next]_vars => Grants'
    BY NextGrants
  <1>2. Init => Grants
    BY InitGrants
  <1>3. Grants => GrantFirst
    BY DEF Grants
  <1> QED BY <1>1, <1>2, <1>3, AlwaysGuarded, PTL DEF Spec

\* In one process, no grant removes a statement: the lock of `grant_topic_send` makes its read and
\* its write one, for any number of grants at a time.
THEOREM BrokerPolicyOnlyGrows == ASSUME OneProcess PROVE Spec => PolicyOnlyGrows
  <1>1. Shapes /\ Guarded /\ Grants /\ [Next]_vars
          => Grants' /\ [\A q \in Queues : policy[q] \subseteq policy'[q]]_vars
    BY NextGrants
  <1>2. Init => Grants
    BY InitGrants
  <1> QED BY <1>1, <1>2, AlwaysGuarded, PTL DEF Spec, PolicyOnlyGrows

----------------------------------------------------------------------------
(* Redrive policies. *)

\* A policy names a queue that is there, a call about to write one too, and a subscription that
\* declared one reaches its end only past the write.
Redriven ==
  /\ \A q \in Queues : redrive[q] # None => redrive[q] \in exists
  /\ \A c \in Calls :
       /\ call[c].pc = "setRedrive" => call[c].redrive \in exists
       /\ call[c].pc \in {"visibility", "open"} /\ call[c].redrive # None
            => redrive[call[c].queue] # None

\* Once the queue has its URL, a subscription opens without a write only if it declared nothing.
LEMMA ResolvedOpens ==
  ASSUME Shapes, NEW c \in Calls, call[c].pc \in {"url", "getUrl", "cacheUrl"}, Resolved(c),
         call'[c].pc \in {"visibility", "open"}
  PROVE  call[c].redrive = None
  <1> DEFINE k == call[c]
  <1> DEFINE point == CASE k.op = "publish" -> "encode"
                          [] k.op = "link" -> "queueArn"
                          [] k.op = "subscribe" /\ k.dead -> "queueArn"
                          [] k.op = "subscribe" /\ ~k.dead /\ k.redrive # None -> "url"
                          [] OTHER -> Opening(k)
  <1> DEFINE b == k.op = "subscribe" /\ k.redrive # None
  <1>1. k \in Call /\ call \in [Calls -> Call]
    BY DEF Shapes, TypeOK
  <1>2. call' = [call EXCEPT ![c] = [k EXCEPT !.pc = point, !.dead = b]]
    BY DEF Resolved
  <1>3. call'[c].pc = point
    <2> HIDE DEF point, b
    <2> QED BY <1>1, <1>2 DEF Call
  <1>4. k.op \in {"publish", "link", "subscribe"}
    BY <1>1 DEF Shapes, Shaped, PointsOf, Call
  <1>5. k.dead \in BOOLEAN
    BY <1>1 DEF Call
  <1> QED BY <1>3, <1>4, <1>5

LEMMA StepRedriven == ASSUME Shapes, Redriven, NEW c \in Calls, Step(c) PROVE Redriven'
  <1> DEFINE k == call[c]
  <1>0. /\ call'[c].queue = k.queue /\ call'[c].redrive = k.redrive
        /\ \A e \in Calls \ {c} : call'[e] = call[e]
    BY StepFrame DEF Framed, Asked
  <1>1. exists \subseteq exists'
    BY StepWrites
  <1>2. ASSUME SetRedrive(c)
        PROVE  /\ k.queue \in Queues /\ k.redrive \in Queues /\ k.redrive \in exists
               /\ redrive' = [redrive EXCEPT ![k.queue] = k.redrive]
    <2>1. k.pc = "setRedrive"
      BY <1>2 DEF SetRedrive, At
    <2>2. k.op = "subscribe"
      BY <2>1 DEF Shapes, Shaped, PointsOf, TypeOK, Call
    <2>3. k.queue \in Queues /\ k.dead
      BY <2>1, <2>2 DEF Shapes, Shaped
    <2>4. k.redrive \in Queues
      BY <2>1, <2>3 DEF Shapes, Shaped
    <2> QED BY <1>2, <2>1, <2>3, <2>4 DEF SetRedrive, Redriven
  <1>3. \A q \in Queues : /\ redrive'[q] # None => redrive'[q] \in exists'
                          /\ redrive[q] # None => redrive'[q] # None
    <2>1. CASE redrive' = redrive
      BY <1>1, <2>1 DEF Redriven
    <2>2. CASE SetRedrive(c)
      <3> HIDE DEF k
      <3>1. k.redrive # None
        BY <1>2, <2>2, BrokerAssumption
      <3>2. \A q \in Queues : redrive'[q] = IF q = k.queue THEN k.redrive ELSE redrive[q]
        BY <1>2, <2>2 DEF Shapes, TypeOK
      <3> QED BY <1>1, <1>2, <2>2, <3>1, <3>2 DEF Redriven
    <2> QED BY <2>1, <2>2, StepWrites
  <1>4. ASSUME NEW e \in Calls \ {c}
        PROVE  /\ call'[e].pc = "setRedrive" => call'[e].redrive \in exists'
               /\ call'[e].pc \in {"visibility", "open"} /\ call'[e].redrive # None
                    => redrive'[call'[e].queue] # None
    <2>1. call'[e] = call[e]
      BY <1>0
    <2>2. ASSUME call[e].pc \in {"visibility", "open"} PROVE call[e].queue \in Queues
      <3>1. call[e].op = "subscribe"
        BY <2>2 DEF Shapes, Shaped, PointsOf, TypeOK, Call
      <3> QED BY <2>2, <3>1 DEF Shapes, Shaped
    <2> QED BY <1>1, <1>3, <2>1, <2>2 DEF Redriven
  <1>5. ASSUME call'[c].pc = "setRedrive" PROVE k.redrive \in exists'
    <2>1. QueueArn(c)
      BY <1>5, StepEnters
    <2>2. k.pc = "queueArn" /\ Target(k) \in exists
      BY <2>1 DEF QueueArn, At
    <2>3. k.op = "subscribe"
      <3>1. call'[c].pc = IF k.op = "link" THEN "grant" ELSE "setRedrive"
        BY <2>1, MoveFrame, PointsAre DEF QueueArn
      <3>2. k.op \in {"link", "subscribe"}
        BY <2>2 DEF Shapes, Shaped, PointsOf, TypeOK, Call
      <3> QED BY <1>5, <3>1, <3>2
    <2>4. k.dead
      BY <2>2, <2>3 DEF Shapes, Shaped
    <2> QED BY <1>1, <2>2, <2>4 DEF Target
  <1>6. ASSUME call'[c].pc \in {"visibility", "open"}, k.redrive # None
        PROVE  redrive'[k.queue] # None
    <2>1. CASE UrlKnown(c) \/ GetUrl(c) \/ CacheUrl(c)
      BY <1>6, <2>1, ResolvedOpens DEF UrlKnown, GetUrl, CacheUrl, At
    <2>2. CASE SetRedrive(c)
      <3> HIDE DEF k
      <3> QED BY <1>2, <1>6, <2>2 DEF Shapes, TypeOK
    <2>3. CASE Visibility(c)
      BY <1>6, <2>3 DEF Visibility, At, Redriven, aws
    <2> QED BY <1>6, <2>1, <2>2, <2>3, StepEnters
  <1> QED BY <1>0, <1>3, <1>4, <1>5, <1>6 DEF Redriven

LEMMA NextRedriven == ASSUME Shapes, Redriven, [Next]_vars PROVE Redriven'
  <1>1. ASSUME NEW c \in Calls, NEW p \in Procs, Start(c, p) PROVE Redriven'
    <2>1. /\ redrive' = redrive /\ exists' = exists
          /\ \A e \in Calls \ {c} : call'[e] = call[e]
      BY <1>1, StartFrame DEF aws
    <2>2. call'[c].pc \in {"failed", "account", "url", "arn"}
      BY <1>1, StartFrame
    <2> QED BY <2>1, <2>2 DEF Redriven
  <1>2. ASSUME NEW p \in Procs, Handle(p) PROVE Redriven'
    BY <1>2, HandleFrame DEF Redriven, aws
  <1>3. CASE UNCHANGED vars
    BY <1>3 DEF vars, aws, Redriven
  <1> QED BY <1>1, <1>2, <1>3, StepRedriven DEF Next

\* A subscription that declared a redrive policy opens only on a queue that has one, and every
\* policy names a queue that exists, whichever of the requests of `subscribe_queue` failed.
THEOREM BrokerOpenUnderPolicy == Spec => []OpenUnderPolicy
  <1>1. Init => Redriven
    BY DEF Init, Fresh, Redriven
  <1>2. Shapes /\ Redriven /\ [Next]_vars => Redriven'
    BY NextRedriven
  <1>3. Redriven => OpenUnderPolicy
    BY DEF Redriven, OpenUnderPolicy, At
  <1> QED BY <1>1, <1>2, <1>3, AlwaysShapes, PTL DEF Spec

----------------------------------------------------------------------------
(* Deduplication ids.  They carry the process id, so they are distinct across processes exactly *)
(* if those are.                                                                                *)

PidsDiffer == \A p, q \in Procs : Pid[p] = Pid[q] => p = q

Generated(id) == id \in Nat \X Nat

\* An id that a call took is one its process has used up, and no other call's; a send that named
\* none has one, and a message carries its sender's, who is past its send.
Ids ==
  /\ \A c \in Calls : Generated(call[c].dedup) =>
       /\ call[c].dedup[1] = Pid[call[c].proc] /\ call[c].dedup[2] < seq[call[c].proc]
       /\ \A d \in Calls \ {c} : call[d].dedup # call[c].dedup
  /\ \A c \in Calls :
       call[c].pc = "send" /\ Fifo(Destination(call[c])) /\ call[c].set.dedup = None
         => Generated(call[c].dedup)
  /\ \A m \in arrived : call[m.from].pc \in {"done", "failed"} /\ m.dedup = call[m.from].dedup
  /\ OnPurposeArrive

\* Only Encode takes an id.
LEMMA StepTakes ==
  ASSUME Shapes, NEW c \in Calls, Step(c)
  PROVE  Encode(c) \/ (seq' = seq /\ call'[c].dedup = call[c].dedup)
  <1> USE PointsAre
  <1>1. CASE UrlKnown(c) \/ CacheUrl(c) \/ GetUrl(c)
    BY <1>1, ResolvedFrame DEF UrlKnown, CacheUrl, GetUrl
  <1>2. CASE UrlUnknown(c) \/ ArnUnknown(c) \/ LockPolicy(c) \/ GetUrlFails(c) \/ RequestFails(c)
    BY <1>2, MoveFrame DEF UrlUnknown, ArnUnknown, LockPolicy, GetUrlFails, RequestFails
  <1>3. CASE WritePolicy(c) \/ CreateQueue(c) \/ SetRedrive(c) \/ Link(c) \/ Send(c)
    BY <1>3, MoveFrame DEF WritePolicy, CreateQueue, SetRedrive, Link, Send, Landed, Opening
  <1>4. CASE ArnKnown(c) \/ QueueArn(c) \/ Visibility(c) \/ EncodeRefuses(c) \/ CreateTopic(c)
    BY <1>4, MoveFrame DEF ArnKnown, QueueArn, Visibility, EncodeRefuses, CreateTopic, Routed
  <1>5. CASE ReadPolicy(c)
    BY <1>5 DEF ReadPolicy, Shapes, TypeOK, Call
  <1> QED BY <1>1, <1>2, <1>3, <1>4, <1>5 DEF Step

\* What Encode leaves: the id somebody named, or one of the process that is used up with it.
LEMMA EncodeTakes ==
  ASSUME Shapes, NEW c \in Calls, Encode(c)
  PROVE  LET k == call[c]
         IN /\ \/ call'[c].dedup \in Names \cup {None} /\ seq' = seq
               \/ /\ call'[c].dedup = <<Pid[k.proc], seq[k.proc]>>
                  /\ seq' = [seq EXCEPT ![k.proc] = seq[k.proc] + 1]
            /\ Fifo(Destination(k)) /\ k.set.dedup = None
                 => call'[c].dedup = <<Pid[k.proc], seq[k.proc]>>
  <1> DEFINE k == call[c]
             taken == Fifo(Destination(k)) /\ k.set.dedup = None
             grp == IF Fifo(Destination(k)) THEN Group(k.set) ELSE None
             ded == IF taken THEN DedupId(k.proc) ELSE k.set.dedup
  <1>1. /\ call' = [call EXCEPT ![c] = [k EXCEPT !.pc = "send", !.group = grp, !.dedup = ded]]
        /\ seq' = [seq EXCEPT ![k.proc] = IF taken THEN @ + 1 ELSE @]
        /\ k.pc = "encode"
    BY DEF Encode, At
  <1>2. k \in Call /\ call \in [Calls -> Call] /\ seq \in [Procs -> Nat]
    BY DEF Shapes, TypeOK
  <1>3. call'[c].dedup = ded
    <2> HIDE DEF grp, ded
    <2> QED BY <1>1, <1>2 DEF Call
  <1>4. k.set.dedup \in Names \cup {None}
    <2>1. k.op \in {"publish", "notify"}
      BY <1>1, <1>2 DEF Shapes, Shaped, PointsOf, Call
    <2>2. k.set \in Settings
      BY <1>1, <2>1 DEF Shapes, Shaped
    <2> QED BY <2>2, SettingsAssumption DEF Setting
  <1>5. k.proc \in Procs
    BY <1>2 DEF Call
  <1>6. CASE taken
    BY <1>1, <1>3, <1>6 DEF DedupId
  <1>7. CASE ~taken
    <2>1. seq' = seq
      BY <1>1, <1>2, <1>5, <1>7
    <2> QED BY <1>3, <1>4, <1>7, <2>1
  <1> QED BY <1>6, <1>7

\* Ids stay distinct and used up.
LEMMA StepTaken ==
  ASSUME PidsDiffer, Shapes, Ids, NEW c \in Calls, Step(c), NEW e \in Calls,
         Generated(call'[e].dedup)
  PROVE  /\ call'[e].dedup[1] = Pid[call'[e].proc] /\ call'[e].dedup[2] < seq'[call'[e].proc]
         /\ \A d \in Calls \ {e} : call'[d].dedup # call'[e].dedup
  <1>0. /\ \A d \in Calls : call'[d].proc = call[d].proc /\ call[d].proc \in Procs
        /\ \A d \in Calls \ {c} : call'[d] = call[d]
    BY StepFrame DEF Framed, Asked, Shapes, TypeOK, Call
  <1>1. CASE seq' = seq /\ call'[c].dedup = call[c].dedup
    <2>1. \A d \in Calls : call'[d].dedup = call[d].dedup
      BY <1>0, <1>1
    <2> QED BY <1>0, <1>1, <2>1 DEF Ids
  <1>2. CASE Encode(c)
    <2> DEFINE p == call[c].proc
    <2>1. CASE call'[c].dedup \in Names \cup {None} /\ seq' = seq
      <3>1. ~Generated(call'[c].dedup)
        BY <2>1, BrokerAssumption DEF Generated
      <3>2. e # c /\ call'[e] = call[e]
        BY <1>0, <3>1
      <3>3. \A d \in Calls \ {e} : call'[d].dedup # call'[e].dedup
        BY <1>0, <3>1, <3>2 DEF Ids
      <3> QED BY <2>1, <3>2, <3>3 DEF Ids
    <2>2. CASE /\ call'[c].dedup = <<Pid[p], seq[p]>>
               /\ seq' = [seq EXCEPT ![p] = seq[p] + 1]
      <3> HIDE DEF p
      <3>1. p \in Procs /\ seq \in [Procs -> Nat] /\ Pid \in [Procs -> Nat] /\ call[c].proc = p
        BY <1>0, BrokerAssumption DEF p, Shapes, TypeOK
      <3>2. \A r \in Procs : seq[r] <= seq'[r] /\ seq[r] \in Nat
        BY <2>2, <3>1
      <3>3. seq[p] < seq'[p]
        BY <2>2, <3>1
      <3>4. ASSUME NEW d \in Calls \ {c}, Generated(call[d].dedup)
            PROVE  call[d].dedup # call'[c].dedup
        <4>1. call[d].dedup[1] = Pid[call[d].proc] /\ call[d].dedup[2] < seq[call[d].proc]
          BY <3>4 DEF Ids
        <4>2. CASE call[d].proc = p
          BY <2>2, <3>1, <4>1, <4>2
        <4>3. CASE call[d].proc # p
          BY <1>0, <2>2, <3>1, <4>1, <4>3 DEF PidsDiffer
        <4> QED BY <4>2, <4>3
      <3>5. Generated(call'[c].dedup)
        BY <2>2, <3>1 DEF Generated
      <3>6. CASE e = c
        <4>1. \A d \in Calls \ {c} : call'[d].dedup # call'[c].dedup
          BY <1>0, <3>4, <3>5
        <4> QED BY <1>0, <2>2, <3>1, <3>3, <3>6, <4>1
      <3>7. CASE e # c
        <4>1. call'[e] = call[e] /\ Generated(call[e].dedup)
          BY <1>0, <3>7
        <4>2. call[e].dedup[1] = Pid[call[e].proc] /\ call[e].dedup[2] < seq[call[e].proc]
          BY <4>1 DEF Ids
        <4>3. call[e].dedup[2] < seq'[call[e].proc]
          <5>1. call[e].dedup[2] \in Nat
            BY <4>1 DEF Generated
          <5>2. seq'[call[e].proc] \in Nat
            BY <1>0, <2>2, <3>1
          <5> QED BY <1>0, <3>2, <4>2, <5>1, <5>2
        <4>4. \A d \in Calls \ {e} : call'[d].dedup # call'[e].dedup
          BY <1>0, <3>4, <3>7, <4>1 DEF Ids
        <4> QED BY <4>1, <4>2, <4>3, <4>4
      <3> QED BY <3>6, <3>7
    <2> QED BY <1>2, <2>1, <2>2, EncodeTakes
  <1> QED BY <1>1, <1>2, StepTakes

\* A send that took an id is no duplicate: whoever is past its send has another one.
LEMMA SendArrives ==
  ASSUME Shapes, Ids, NEW c \in Calls, Send(c), call[c].set.dedup = None
  PROVE  arrived' = arrived \cup {Outgoing(c)}
  <1>1. ~Duplicate(Outgoing(c))
    <2> SUFFICES ASSUME Fifo(Destination(call[c])),
                        NEW m \in arrived, m.dedup = call[c].dedup
                 PROVE  FALSE
      BY DEF Duplicate, Outgoing
    <2>1. call[c].pc = "send" /\ Generated(call[c].dedup)
      BY DEF Send, At, Ids
    <2>2. m.from \in Calls /\ call[m.from].pc # "send" /\ call[m.from].dedup = call[c].dedup
      BY DEF Ids, Shapes, TypeOK, Message
    <2> QED BY <2>1, <2>2 DEF Ids
  <1> QED BY <1>1 DEF Send

LEMMA StepIds == ASSUME PidsDiffer, Shapes, Ids, NEW c \in Calls, Step(c) PROVE Ids'
  <1> DEFINE k == call[c]
  <1>0. /\ \A e \in Calls \ {c} : call'[e] = call[e]
        /\ call'[c].op = k.op /\ call'[c].set = k.set
        /\ call'[c].queue = k.queue /\ call'[c].topic = k.topic
        /\ k.pc \notin Ends
    BY StepFrame, StepUnderWay DEF Framed, Asked
  <1>1. \A e \in Calls : Generated(call'[e].dedup) =>
          /\ call'[e].dedup[1] = Pid[call'[e].proc] /\ call'[e].dedup[2] < seq'[call'[e].proc]
          /\ \A d \in Calls \ {e} : call'[d].dedup # call'[e].dedup
    BY StepTaken
  <1>2. ASSUME NEW e \in Calls, call'[e].pc = "send", Fifo(Destination(call'[e])),
               call'[e].set.dedup = None
        PROVE  Generated(call'[e].dedup)
    <2>1. CASE e # c
      BY <1>0, <1>2, <2>1 DEF Ids
    <2>2. CASE e = c
      <3>1. Encode(c)
        BY <1>2, <2>2, StepEnters
      <3>2. Fifo(Destination(k)) /\ k.set.dedup = None
        BY <1>0, <1>2, <2>2 DEF Destination
      <3>3. call'[c].dedup = <<Pid[k.proc], seq[k.proc]>>
        BY <3>1, <3>2, EncodeTakes
      <3>4. Pid[k.proc] \in Nat /\ seq[k.proc] \in Nat
        BY BrokerAssumption DEF Shapes, TypeOK, Call
      <3> QED BY <2>2, <3>3, <3>4 DEF Generated
    <2> QED BY <2>1, <2>2
  <1>3. \A m \in arrived : m.from \in Calls \ {c}
    BY <1>0 DEF Ids, Shapes, TypeOK, Message, Ends
  <1>4. ASSUME NEW m \in arrived'
        PROVE  call'[m.from].pc \in {"done", "failed"} /\ m.dedup = call'[m.from].dedup
    <2>1. CASE m \in arrived
      BY <1>0, <1>3, <2>1 DEF Ids
    <2>2. CASE Send(c) /\ m = Outgoing(c)
      <3>1. call'[c].pc \in {"done", "failed"} /\ call'[c].dedup = k.dedup
        BY <2>2, MoveFrame, PointsAre DEF Send, Landed
      <3> QED BY <2>2, <3>1 DEF Outgoing
    <2> QED BY <2>1, <2>2, StepWrites DEF Send
  <1>5. OnPurposeArrive'
    <2> SUFFICES ASSUME NEW e \in Calls, call'[e].pc = "done",
                        call'[e].op \in {"publish", "notify"}, call'[e].set.dedup = None
                 PROVE  \E m \in arrived' : m.from = e
      BY DEF OnPurposeArrive, At
    <2>1. arrived \subseteq arrived'
      BY StepWrites DEF Send
    <2>2. CASE e # c
      BY <1>0, <2>1, <2>2 DEF Ids, OnPurposeArrive, At
    <2>3. CASE e = c
      <3>1. k.op \in {"publish", "notify"} /\ k.set.dedup = None
        BY <1>0, <2>3
      <3>2. ~Link(c)
        BY <3>1, LinkPoint DEF Link, At
      <3>3. Send(c)
        BY <2>3, <3>2, StepEnters
      <3>4. Outgoing(c) \in arrived' /\ Outgoing(c).from = c
        BY <3>1, <3>3, SendArrives DEF Outgoing
      <3> QED BY <2>3, <3>4
    <2> QED BY <2>2, <2>3
  <1> QED BY <1>1, <1>2, <1>4, <1>5 DEF Ids

LEMMA NextIds == ASSUME PidsDiffer, Shapes, Ids, [Next]_vars PROVE Ids'
  <1>1. ASSUME NEW c \in Calls, NEW p \in Procs, Start(c, p) PROVE Ids'
    <2>1. /\ arrived' = arrived /\ seq' = seq
          /\ \A e \in Calls \ {c} : call'[e] = call[e]
      BY <1>1, StartFrame DEF aws
    <2>2. /\ call[c].pc = "idle" /\ call'[c].pc \in {"failed", "account", "url", "arn"}
          /\ call'[c].dedup = None
      BY <1>1, StartFrame
    <2>3. ~Generated(call'[c].dedup)
      BY <2>2, BrokerAssumption DEF Generated
    <2>4. \A m \in arrived : m.from \in Calls \ {c}
      BY <2>2 DEF Ids, Shapes, TypeOK, Message
    <2>5. \A e \in Calls : Generated(call'[e].dedup) =>
            /\ call'[e].dedup[1] = Pid[call'[e].proc] /\ call'[e].dedup[2] < seq'[call'[e].proc]
            /\ \A d \in Calls \ {e} : call'[d].dedup # call'[e].dedup
      BY <2>1, <2>3 DEF Ids
    <2>6. \A m \in arrived' : /\ call'[m.from].pc \in {"done", "failed"}
                              /\ m.dedup = call'[m.from].dedup
      BY <2>1, <2>4 DEF Ids
    <2>7. OnPurposeArrive'
      BY <2>1, <2>2 DEF Ids, OnPurposeArrive, At
    <2>8. \A e \in Calls :
            call'[e].pc = "send" /\ Fifo(Destination(call'[e])) /\ call'[e].set.dedup = None
              => Generated(call'[e].dedup)
      BY <2>1, <2>2 DEF Ids
    <2> QED BY <2>5, <2>6, <2>7, <2>8 DEF Ids
  <1>2. ASSUME NEW p \in Procs, Handle(p) PROVE Ids'
    BY <1>2, HandleFrame DEF Ids, OnPurposeArrive, At, aws
  <1>3. CASE UNCHANGED vars
    BY <1>3 DEF vars, aws, Ids, OnPurposeArrive, At
  <1> QED BY <1>1, <1>2, <1>3, StepIds DEF Next

\* Where no two processes have one process id, a publish that succeeded and named no
\* deduplication id has its own message at the destination.  The run broker_ids shows what
\* happens where two have.
THEOREM BrokerOnPurposeArrive == ASSUME PidsDiffer PROVE Spec => []OnPurposeArrive
  <1>1. Init => Ids
    <2> SUFFICES ASSUME Init PROVE Ids
      OBVIOUS
    <2>1. \A c \in Calls : call[c].pc = "idle" /\ call[c].dedup = None
      BY DEF Init, Fresh
    <2>2. arrived = {} /\ ~Generated(None)
      BY BrokerAssumption DEF Init, Generated
    <2> QED BY <2>1, <2>2 DEF Ids, OnPurposeArrive, At
  <1>2. Shapes /\ Ids /\ [Next]_vars => Ids'
    BY NextIds
  <1>3. Ids => OnPurposeArrive
    BY DEF Ids
  <1> QED BY <1>1, <1>2, <1>3, AlwaysShapes, PTL DEF Spec

----------------------------------------------------------------------------
(* The core. *)

\* What CoreIsForGood says of one step, of one process.
ForGood(p) ==
  /\ Filled(p) => cell'[p] = cell[p]
  /\ closed[p] => /\ closed'[p]
                  /\ \A c \in Calls : Proc(c) = p /\ At(c, "idle")
                                         => call'[c].pc \in {"idle", "failed"}

LEMMA StepCore == ASSUME NEW c \in Calls, Step(c) PROVE UNCHANGED core
  <1>1. CASE UrlKnown(c) \/ UrlUnknown(c) \/ GetUrl(c) \/ GetUrlFails(c) \/ CreateQueue(c)
              \/ CacheUrl(c) \/ ArnKnown(c) \/ ArnUnknown(c) \/ CreateTopic(c) \/ QueueArn(c)
    BY <1>1 DEF UrlKnown, UrlUnknown, GetUrl, GetUrlFails, CreateQueue, CacheUrl, ArnKnown,
                ArnUnknown, CreateTopic, QueueArn
  <1>2. CASE SetRedrive(c) \/ Visibility(c) \/ LockPolicy(c) \/ ReadPolicy(c) \/ WritePolicy(c)
              \/ Link(c) \/ Encode(c) \/ EncodeRefuses(c) \/ Send(c) \/ RequestFails(c)
    BY <1>2 DEF SetRedrive, Visibility, LockPolicy, ReadPolicy, WritePolicy, Link, Encode,
                EncodeRefuses, Send, RequestFails
  <1> QED BY <1>1, <1>2 DEF Step

LEMMA NextForGood == ASSUME Shapes, [Next]_vars, NEW p \in Procs PROVE ForGood(p)
  <1>1. ASSUME NEW c \in Calls, Step(c) PROVE ForGood(p)
    <2>1. cell' = cell /\ closed' = closed
      BY <1>1, StepCore DEF core
    <2>2. call[c].pc # "idle" /\ \A e \in Calls \ {c} : call'[e] = call[e]
      BY <1>1, StepFrame, StepUnderWay DEF Framed
    <2> QED BY <2>1, <2>2 DEF ForGood, At
  <1>2. ASSUME NEW c \in Calls, NEW q \in Procs, Start(c, q) PROVE ForGood(p)
    <2>1. cell' = cell /\ closed' = closed
      BY <1>2, StartFrame DEF core
    <2>2. /\ closed[call[c].proc] => call'[c].pc = "failed"
          /\ \A e \in Calls \ {c} : call'[e] = call[e]
      BY <1>2, StartFrame
    <2> QED BY <2>1, <2>2 DEF ForGood, At, Proc
  <1>3. ASSUME NEW q \in Procs, Handle(q) PROVE ForGood(p)
    <2>1. call' = call
      BY <1>3, HandleFrame
    <2>2. Filled(p) => cell'[p] = cell[p]
      BY <1>3 DEF Handle, Connect, Connected, ConnectInProcess, Shutdown, DeclareRetry, Filled,
                  Shapes, TypeOK, core
    <2>3. closed[p] => closed'[p]
      BY <1>3 DEF Handle, Connect, Connected, ConnectInProcess, Shutdown, DeclareRetry, Shapes,
                  TypeOK, core
    <2> QED BY <2>1, <2>2, <2>3 DEF ForGood, At
  <1>4. CASE UNCHANGED vars
    BY <1>4 DEF vars, core, ForGood, At
  <1> QED BY <1>1, <1>2, <1>3, <1>4 DEF Next

\* The transport behind the handles never changes, and no call of any handle gets past its start
\* once the broker is shut down.
THEOREM BrokerCoreIsForGood == Spec => CoreIsForGood
  <1>1. Shapes /\ [Next]_vars
          => [\A p \in Procs :
                /\ Filled(p) => cell'[p] = cell[p]
                /\ closed[p] => /\ closed'[p]
                                /\ \A c \in Calls : Proc(c) = p /\ At(c, "idle")
                                                       => call'[c].pc \in {"idle", "failed"}]_vars
    BY NextForGood DEF ForGood
  <1> QED BY <1>1, AlwaysShapes, PTL DEF Spec, CoreIsForGood
=============================================================================
