------------------------------ MODULE Broker ------------------------------
(***************************************************************************)
(* The live broker: the cell every handle shares, the name caches, and the *)
(* calls that run over them, step by step between their awaits, against    *)
(* one AWS account that several processes may share.  Every request may    *)
(* fail, before or after it took effect.                                   *)
(***************************************************************************)
EXTENDS Naturals, FiniteSets

CONSTANTS Procs,       \* processes of the service; a restarted one is another process
          Pid,         \* the process id the system gave each
          Calls,       \* calls in progress on the handles of the brokers
          Queues, FifoQueues, Topics, FifoTopics,
          Addresses,   \* the queues and topics the service names by URL or ARN
          Statements,  \* what operators wrote into the access policies
          Settings,    \* what publishes ask for: see Setting
          Names,       \* groups and deduplication ids that somebody named
          Outset,      \* the queues and topics that exist at the start
          None

ASSUME BrokerAssumption ==
  /\ Pid \in [Procs -> Nat]
  /\ FifoQueues \subseteq Queues /\ FifoTopics \subseteq Topics
  /\ Outset \subseteq Queues \cup Topics
  /\ Queues \cap Topics = {} /\ Topics \cap Statements = {}
  /\ None \notin Queues \cup Topics \cup Calls \cup Names
  /\ Names \cap (Nat \X Nat) = {} /\ None \notin Nat \X Nat

\* The call's own group, the partition-key header, the mount site's group, the call's own id.
Setting == [group : Names \cup {None}, key : Names \cup {None},
            mount : Names \cup {None}, dedup : Names \cup {None}]

ASSUME SettingsAssumption == Settings \subseteq Setting

Destinations == Queues \cup Topics

Fifo(n) == n \in FifoQueues \cup FifoTopics

VARIABLES cell,      \* what the OnceCell of a process's broker holds
          closed,    \* Core.closed
          urls,      \* Aws.queue_urls: the queues whose URL is known
          arns,      \* Aws.topic_arns
          lock,      \* who holds the guard of each cache, and of policy_writes
          declared,  \* Core.declared_redrives, by dead-letter queue
          seq,       \* the static SEQ of dedup_id
          call,      \* the calls, each at one of its awaits
          exists,    \* the queues and topics of the account
          policy,    \* the access policy of each queue: statements, and topics granted
          redrive,   \* the redrive policy of each queue
          links,     \* SNS subscriptions
          arrived    \* messages the account took, with the call that sent them

core == <<cell, closed>>
aws == <<exists, policy, redrive, links, arrived>>
vars == <<core, urls, arns, lock, declared, seq, call, aws>>

Locks == {"urls", "arns", "policy"}

Ends == {"done", "open", "account", "failed"}

Requests == {"getUrl", "createQueue", "createTopic", "queueArn", "setRedrive", "visibility",
             "readPolicy", "writePolicy", "link", "send"}

Points == Requests \cup Ends \cup {"idle", "url", "cacheUrl", "arn", "grant", "encode"}

Call == [pc : Points, proc : Procs,
         op : {"publish", "notify", "subscribe", "link"},
         queue : Queues \cup {None}, topic : Topics \cup {None},
         redrive : Queues \cup {None}, create : BOOLEAN, named : BOOLEAN,
         dead : BOOLEAN,               \* now at work on the dead-letter queue
         read : SUBSET (Topics \cup Statements),
         set : Settings \cup {None},
         group : Names \cup {None, "default"}, dedup : Names \cup (Nat \X Nat) \cup {None}]

Message == [from : Calls, to : Destinations,
            group : Names \cup {None, "default"}, dedup : Names \cup (Nat \X Nat) \cup {None}]

\* A call of process p before it starts.
Fresh(p, op) ==
  [pc |-> "idle", proc |-> p, op |-> op, queue |-> None, topic |-> None, redrive |-> None,
   create |-> FALSE, named |-> FALSE, dead |-> FALSE, read |-> {}, set |-> None,
   group |-> None, dedup |-> None]

Init ==
  /\ cell = [p \in Procs |-> "empty"]
  /\ closed = [p \in Procs |-> FALSE]
  /\ urls = [p \in Procs |-> {}]
  /\ arns = [p \in Procs |-> {}]
  /\ lock = [p \in Procs |-> [l \in Locks |-> None]]
  /\ declared = [p \in Procs |-> [q \in Queues |-> None]]
  /\ seq = [p \in Procs |-> 0]
  /\ call \in [Calls -> {Fresh(p, "publish") : p \in Procs}]
  /\ exists = Outset
  /\ policy = [q \in Queues |-> Statements]
  /\ redrive = [q \in Queues |-> None]
  /\ links = {}
  /\ arrived = {}

----------------------------------------------------------------------------
(* The broker and its handles. *)

\* A plausible bug: a clone connected after the shutdown gets a core of its own.
ConnectAfresh(p) ==
  /\ cell[p] = "empty" \/ closed[p]
  /\ cell' = [cell EXCEPT ![p] = "connecting"]
  /\ closed' = [closed EXCEPT ![p] = FALSE]
  /\ UNCHANGED <<urls, arns, lock, declared, seq, call, aws>>

\* `connect` on an empty cell starts to load the configuration; on a filled one it hands out the
\* core that is there, open or closed, which changes nothing.
Connect(p) ==
  /\ cell[p] = "empty"
  /\ cell' = [cell EXCEPT ![p] = "connecting"]
  /\ UNCHANGED <<closed, urls, arns, lock, declared, seq, call, aws>>

Connected(p) ==
  /\ cell[p] = "connecting"
  /\ cell' = [cell EXCEPT ![p] = "aws"]
  /\ UNCHANGED <<closed, urls, arns, lock, declared, seq, call, aws>>

\* `connect_in_process` fills an empty cell; it changes nothing when the account is there already
\* and is refused when the clients are, or are being built.
ConnectInProcess(p) ==
  /\ cell[p] = "empty"
  /\ cell' = [cell EXCEPT ![p] = "in_process"]
  /\ UNCHANGED <<closed, urls, arns, lock, declared, seq, call, aws>>

\* Whether somebody holds a ConnectedSqsBroker.
Filled(p) == cell[p] \in {"aws", "in_process"}

Shutdown(p) ==
  /\ Filled(p) /\ ~closed[p]
  /\ closed' = [closed EXCEPT ![p] = TRUE]
  /\ UNCHANGED <<cell, urls, arns, lock, declared, seq, call, aws>>

\* A full declaration is recorded, a silent one clears the entry; half of one is refused.
DeclareRetry(p, q, r) ==
  /\ Filled(p)
  /\ declared' = [declared EXCEPT ![p][q] = r]
  /\ UNCHANGED <<core, urls, arns, lock, seq, call, aws>>

\* A call k starts: refused without an open core, left to the in-process account where that is
\* the transport, and otherwise at its first await.
Begin(c, k, entry) ==
  LET p == k.proc
  IN /\ call[c].pc = "idle" /\ call[c].proc = p
     /\ call' = [call EXCEPT ![c] =
          [k EXCEPT !.pc = IF ~Filled(p) \/ closed[p] THEN "failed"
                           ELSE IF cell[p] = "in_process" THEN "account"
                           ELSE entry]]
     /\ UNCHANGED <<core, urls, arns, lock, declared, seq, aws>>

Publish(c, p, q, s) ==
  Begin(c, [Fresh(p, "publish") EXCEPT !.queue = q, !.set = s], "url")

Notify(c, p, t, s) ==
  Begin(c, [Fresh(p, "notify") EXCEPT !.topic = t, !.set = s], "arn")

SubscribeQueueToTopic(c, p, t, q) ==
  /\ Filled(p)
  /\ Begin(c, [Fresh(p, "link") EXCEPT !.topic = t, !.queue = q], "arn")

\* A descriptor names its redrive policy, whether to create the queues, and a visibility or not.
SubscribeQueue(c, p, q, r, create, named) ==
  /\ Filled(p)
  /\ Begin(c, [Fresh(p, "subscribe") EXCEPT
                 !.queue = q, !.redrive = r, !.create = create, !.named = named], "url")

\* A bare name takes the policy that was declared for it.
Subscribe(c, p, q) == SubscribeQueue(c, p, q, declared[p][q], FALSE, FALSE)

----------------------------------------------------------------------------
(* The steps of a call between its awaits. *)

At(c, point) == call[c].pc = point

Proc(c) == call[c].proc

\* The queue the call is at work on.
Target(k) == IF k.dead THEN k.redrive ELSE k.queue

Free(c, l) == lock[Proc(c)][l] = None

Hold(c, l) == lock' = [lock EXCEPT ![Proc(c)][l] = c]

\* The guards the call holds are dropped.
Release(c) ==
  lock' = [p \in Procs |-> [l \in Locks |-> IF lock[p][l] = c THEN None ELSE lock[p][l]]]

Move(c, point) == call' = [call EXCEPT ![c].pc = point]

\* A request took effect; its answer arrives, or is lost and the call reports an error.
Landed(c, point) == Move(c, point) \/ Move(c, "failed")

\* After the redrive policy a subscription reads the timeout its descriptor does not name.
Opening(k) == IF k.named THEN "open" ELSE "visibility"

\* A plausible bug: the dead-letter queue is resolved without asking whether there is one.
ResolvedOnward(c) ==
  LET k == call[c]
  IN call' = [call EXCEPT ![c] =
       [k EXCEPT !.pc = CASE k.op = "publish" -> "encode"
                          [] k.op = "link" \/ k.dead -> "queueArn"
                          [] OTHER -> "url",
                 !.dead = k.op = "subscribe"]]

\* Where a call goes once it has the URL of its target.
Resolved(c) ==
  LET k == call[c]
  IN call' = [call EXCEPT ![c] =
       [k EXCEPT !.pc = CASE k.op = "publish" -> "encode"
                          [] k.op = "link" -> "queueArn"
                          [] k.op = "subscribe" /\ k.dead -> "queueArn"
                          [] k.op = "subscribe" /\ ~k.dead /\ k.redrive # None -> "url"
                          [] OTHER -> Opening(k),
                 !.dead = k.op = "subscribe" /\ k.redrive # None]]

\* `queue_url` with a URL, or a name of the cache: no request.
UrlKnown(c) ==
  /\ At(c, "url")
  /\ \/ Target(call[c]) \in Addresses
     \/ Free(c, "urls") /\ Target(call[c]) \in urls[Proc(c)]
  /\ Resolved(c)
  /\ UNCHANGED <<core, urls, arns, lock, declared, seq, aws>>

\* A plausible bug: the guard is dropped before the request.
UrlUnknownUnguarded(c) ==
  /\ At(c, "url") /\ Free(c, "urls")
  /\ Target(call[c]) \notin Addresses \cup urls[Proc(c)]
  /\ Move(c, "getUrl")
  /\ UNCHANGED <<core, urls, arns, lock, declared, seq, aws>>

\* The guard of the cache is kept while GetQueueUrl is out.
UrlUnknown(c) ==
  /\ At(c, "url") /\ Free(c, "urls")
  /\ Target(call[c]) \notin Addresses \cup urls[Proc(c)]
  /\ Hold(c, "urls") /\ Move(c, "getUrl")
  /\ UNCHANGED <<core, urls, arns, declared, seq, aws>>

GetUrl(c) ==
  /\ At(c, "getUrl") /\ Target(call[c]) \in exists
  /\ urls' = [urls EXCEPT ![Proc(c)] = @ \cup {Target(call[c])}]
  /\ Release(c) /\ Resolved(c)
  /\ UNCHANGED <<core, arns, declared, seq, aws>>

\* A plausible bug: the guard of the failed lookup lives on while the queue is created.
GetUrlFailsGuarded(c) ==
  /\ At(c, "getUrl")
  /\ Move(c, IF call[c].create THEN "createQueue" ELSE "failed")
  /\ UNCHANGED <<core, urls, arns, lock, declared, seq, aws>>

\* The queue is missing or the request failed: `ensure_queue` makes no difference between them.
GetUrlFails(c) ==
  /\ At(c, "getUrl")
  /\ Release(c) /\ Move(c, IF call[c].create THEN "createQueue" ELSE "failed")
  /\ UNCHANGED <<core, urls, arns, declared, seq, aws>>

CreateQueue(c) ==
  /\ At(c, "createQueue")
  /\ exists' = exists \cup {Target(call[c])}
  /\ Landed(c, "cacheUrl")
  /\ UNCHANGED <<core, urls, arns, lock, declared, seq, policy, redrive, links, arrived>>

CacheUrl(c) ==
  /\ At(c, "cacheUrl") /\ Free(c, "urls")
  /\ urls' = [urls EXCEPT ![Proc(c)] = @ \cup {Target(call[c])}]
  /\ Resolved(c)
  /\ UNCHANGED <<core, arns, lock, declared, seq, aws>>

\* Where a call goes once it has the ARN of its topic.
Routed(c) == Move(c, IF call[c].op = "notify" THEN "encode" ELSE "url")

\* `topic_arn` with an ARN, or a name of the cache.
ArnKnown(c) ==
  /\ At(c, "arn")
  /\ \/ call[c].topic \in Addresses
     \/ Free(c, "arns") /\ call[c].topic \in arns[Proc(c)]
  /\ Routed(c)
  /\ UNCHANGED <<core, urls, arns, lock, declared, seq, aws>>

ArnUnknown(c) ==
  /\ At(c, "arn") /\ Free(c, "arns")
  /\ call[c].topic \notin Addresses \cup arns[Proc(c)]
  /\ Hold(c, "arns") /\ Move(c, "createTopic")
  /\ UNCHANGED <<core, urls, arns, declared, seq, aws>>

\* CreateTopic, idempotent; the name is cached only once the answer is there.
CreateTopic(c) ==
  /\ At(c, "createTopic")
  /\ exists' = exists \cup {call[c].topic}
  /\ Release(c)
  /\ \/ /\ Routed(c)
        /\ arns' = [arns EXCEPT ![Proc(c)] = @ \cup {call[c].topic}]
     \/ Move(c, "failed") /\ UNCHANGED arns
  /\ UNCHANGED <<core, urls, declared, seq, policy, redrive, links, arrived>>

\* `queue_arn`, of the linked queue or of the dead-letter queue.
QueueArn(c) ==
  /\ At(c, "queueArn") /\ Target(call[c]) \in exists
  /\ Move(c, IF call[c].op = "link" THEN "grant" ELSE "setRedrive")
  /\ UNCHANGED <<core, urls, arns, lock, declared, seq, aws>>

\* SQS takes a dead-letter queue of the queue's own kind.
SetRedrive(c) ==
  /\ At(c, "setRedrive") /\ call[c].queue \in exists
  /\ Fifo(call[c].queue) = Fifo(call[c].redrive)
  /\ redrive' = [redrive EXCEPT ![call[c].queue] = call[c].redrive]
  /\ Landed(c, Opening(call[c]))
  /\ UNCHANGED <<core, urls, arns, lock, declared, seq, exists, policy, links, arrived>>

Visibility(c) ==
  /\ At(c, "visibility") /\ call[c].queue \in exists
  /\ Move(c, "open")
  /\ UNCHANGED <<core, urls, arns, lock, declared, seq, aws>>

\* A plausible bug: nobody waits.
LockPolicyNever(c) ==
  /\ At(c, "grant") /\ Move(c, "readPolicy")
  /\ UNCHANGED <<core, urls, arns, lock, declared, seq, aws>>

\* `grant_topic_send` waits for the grants of this broker that are under way.
LockPolicy(c) ==
  /\ At(c, "grant") /\ Free(c, "policy")
  /\ Hold(c, "policy") /\ Move(c, "readPolicy")
  /\ UNCHANGED <<core, urls, arns, declared, seq, aws>>

\* A policy that grants the topic is left alone.
ReadPolicy(c) ==
  LET k == call[c]
      granted == k.topic \in policy[k.queue]
  IN /\ At(c, "readPolicy") /\ k.queue \in exists
     /\ call' = [call EXCEPT ![c] =
          [k EXCEPT !.read = policy[k.queue], !.pc = IF granted THEN "link" ELSE "writePolicy"]]
     /\ IF granted THEN Release(c) ELSE UNCHANGED lock
     /\ UNCHANGED <<core, urls, arns, declared, seq, aws>>

WritePolicy(c) ==
  LET k == call[c]
  IN /\ At(c, "writePolicy") /\ k.queue \in exists
     /\ policy' = [policy EXCEPT ![k.queue] = k.read \cup {k.topic}]
     /\ Release(c) /\ Landed(c, "link")
     /\ UNCHANGED <<core, urls, arns, declared, seq, exists, redrive, links, arrived>>

\* SNS delivers to a FIFO queue from a FIFO topic only.
Link(c) ==
  /\ At(c, "link") /\ {call[c].topic, call[c].queue} \subseteq exists
  /\ Fifo(call[c].queue) => Fifo(call[c].topic)
  /\ links' = links \cup {<<call[c].topic, call[c].queue>>}
  /\ Landed(c, "done")
  /\ UNCHANGED <<core, urls, arns, lock, declared, seq, exists, policy, redrive, arrived>>

----------------------------------------------------------------------------
(* Sending. *)

Destination(k) == IF k.op = "notify" THEN k.topic ELSE k.queue

\* `fifo_settings` refuses a standard destination this crate's own settings, and no header.
Refused(s, n) == ~Fifo(n) /\ {s.group, s.mount, s.dedup} # {None}

\* The ladder: the call's own step, the header, the mount site, the group of last resort.
Group(s) ==
  CASE s.group # None -> s.group
    [] s.group = None /\ s.key # None -> s.key
    [] s.group = None /\ s.key = None /\ s.mount # None -> s.mount
    [] OTHER -> "default"

\* A plausible bug: the ids of all the sends of a process are one.
DedupIdOfProcess(p) == <<Pid[p], 0>>

\* `dedup_id`: rs-<pid>-<sequence>.
DedupId(p) == <<Pid[p], seq[p]>>

\* The message is framed and its FIFO fields resolved; a FIFO send that names no id takes one.
Encode(c) ==
  LET k == call[c]
      s == k.set
      fifo == Fifo(Destination(k))
      taken == fifo /\ s.dedup = None
  IN /\ At(c, "encode") /\ ~Refused(s, Destination(k))
     /\ call' = [call EXCEPT ![c] =
          [k EXCEPT !.pc = "send",
                    !.group = IF fifo THEN Group(s) ELSE None,
                    !.dedup = IF taken THEN DedupId(k.proc) ELSE s.dedup]]
     /\ seq' = [seq EXCEPT ![k.proc] = IF taken THEN @ + 1 ELSE @]
     /\ UNCHANGED <<core, urls, arns, lock, declared, aws>>

\* Headers beyond what a message carries, or settings the destination cannot honour.
EncodeRefuses(c) ==
  /\ At(c, "encode")
  /\ Move(c, "failed")
  /\ UNCHANGED <<core, urls, arns, lock, declared, seq, aws>>

Outgoing(c) ==
  LET k == call[c]
  IN [from |-> c, to |-> Destination(k), group |-> k.group, dedup |-> k.dedup]

\* Whether a FIFO destination has seen the id; every id is taken to be within its five minutes.
Duplicate(m) == Fifo(m.to) /\ \E n \in arrived : n.to = m.to /\ n.dedup = m.dedup

\* SendMessage or Publish: a duplicate is accepted and dropped.
Send(c) ==
  /\ At(c, "send") /\ Destination(call[c]) \in exists
  /\ arrived' = IF Duplicate(Outgoing(c)) THEN arrived ELSE arrived \cup {Outgoing(c)}
  /\ Landed(c, "done")
  /\ UNCHANGED <<core, urls, arns, lock, declared, seq, exists, policy, redrive, links>>

\* A plausible bug: an error of the redrive policy is only logged.
RequestFailsSoftly(c) ==
  /\ call[c].pc \in Requests \ {"getUrl"}
  /\ Release(c)
  /\ Move(c, IF At(c, "setRedrive") THEN Opening(call[c]) ELSE "failed")
  /\ UNCHANGED <<core, urls, arns, declared, seq, aws>>

\* A plausible bug: an error of the access policy is only logged.
RequestFailsUngranted(c) ==
  /\ call[c].pc \in Requests \ {"getUrl"}
  /\ Release(c)
  /\ Move(c, IF call[c].pc \in {"readPolicy", "writePolicy"} THEN "link" ELSE "failed")
  /\ UNCHANGED <<core, urls, arns, declared, seq, aws>>

\* A request fails without effect, or its target does not exist.
RequestFails(c) ==
  /\ call[c].pc \in Requests \ {"getUrl"}
  /\ Release(c) /\ Move(c, "failed")
  /\ UNCHANGED <<core, urls, arns, declared, seq, aws>>

----------------------------------------------------------------------------

Step(c) ==
  \/ UrlKnown(c) \/ UrlUnknown(c) \/ GetUrl(c) \/ GetUrlFails(c) \/ CreateQueue(c) \/ CacheUrl(c)
  \/ ArnKnown(c) \/ ArnUnknown(c) \/ CreateTopic(c)
  \/ QueueArn(c) \/ SetRedrive(c) \/ Visibility(c)
  \/ LockPolicy(c) \/ ReadPolicy(c) \/ WritePolicy(c) \/ Link(c)
  \/ Encode(c) \/ EncodeRefuses(c) \/ Send(c)
  \/ RequestFails(c)

\* The policies a registration may declare: no policy, or another queue for the spent deliveries.
Policies(q) == (Queues \ {q}) \cup {None}

Handle(p) ==
  \/ Connect(p) \/ Connected(p) \/ ConnectInProcess(p) \/ Shutdown(p)
  \/ \E q \in Queues : \E r \in Policies(q) : DeclareRetry(p, q, r)

Start(c, p) ==
  \/ \E q \in Queues, s \in Settings : Publish(c, p, q, s)
  \/ \E t \in Topics, s \in Settings : Notify(c, p, t, s)
  \/ \E t \in Topics, q \in Queues : SubscribeQueueToTopic(c, p, t, q)
  \/ \E q \in Queues : Subscribe(c, p, q)
  \/ \E q \in Queues, create, named \in BOOLEAN :
       \E r \in Policies(q) : SubscribeQueue(c, p, q, r, create, named)

Next ==
  \/ \E p \in Procs : Handle(p)
  \/ \E c \in Calls, p \in Procs : Start(c, p)
  \/ \E c \in Calls : Step(c)

\* The runtime keeps polling a call, and the SDK bounds every request by a timeout.
Fairness == \A c \in Calls : WF_vars(Step(c))

Spec == Init /\ [][Next]_vars /\ Fairness

----------------------------------------------------------------------------
(* Properties. *)

\* The state has its shape: what is created in the account is always something the service named.
TypeOK ==
  /\ cell \in [Procs -> {"empty", "connecting", "aws", "in_process"}]
  /\ closed \in [Procs -> BOOLEAN]
  /\ urls \in [Procs -> SUBSET Queues]
  /\ arns \in [Procs -> SUBSET Topics]
  /\ lock \in [Procs -> [Locks -> Calls \cup {None}]]
  /\ declared \in [Procs -> [Queues -> Queues \cup {None}]]
  /\ seq \in [Procs -> Nat]
  /\ call \in [Calls -> Call]
  /\ exists \subseteq Destinations
  /\ policy \in [Queues -> SUBSET (Topics \cup Statements)]
  /\ redrive \in [Queues -> Queues \cup {None}]
  /\ links \subseteq Topics \X Queues
  /\ arrived \subseteq Message

\* The guard of the caches spans the request: no two calls of a process ever look up the URL of
\* one queue, or create one topic, at the same time.
OneLookup ==
  \A c, d \in Calls : c # d /\ Proc(c) = Proc(d) =>
    /\ ~(At(c, "getUrl") /\ At(d, "getUrl") /\ Target(call[c]) = Target(call[d]))
    /\ ~(At(c, "createTopic") /\ At(d, "createTopic") /\ call[c].topic = call[d].topic)

\* An SNS subscription never exists while its topic may not send to the queue, whatever grants of
\* other topics on that queue run beside it.
GrantFirst == \A l \in links : l[1] \in policy[l[2]]

\* `grant_topic_send` keeps every statement that is there, the operator's and its own.
PolicyOnlyGrows == [][\A q \in Queues : policy[q] \subseteq policy'[q]]_vars

\* A subscription that declared a redrive policy is open only on a queue that has one, and a
\* policy names a dead-letter queue that exists, whichever step of several failed.
OpenUnderPolicy ==
  /\ \A c \in Calls : At(c, "open") /\ call[c].redrive # None => redrive[call[c].queue] # None
  /\ \A q \in Queues : redrive[q] # None => redrive[q] \in exists

\* A publish that succeeded and named no deduplication id put a message of its own there: two
\* sends on purpose stay two messages.
OnPurposeArrive ==
  \A c \in Calls :
    At(c, "done") /\ call[c].op \in {"publish", "notify"} /\ call[c].set.dedup = None
      => \E m \in arrived : m.from = c

\* A core is for good: the transport behind the handles never changes, and after the shutdown no
\* call gets past its start, through whatever clone it comes.
CoreIsForGood ==
  [][\A p \in Procs :
       /\ Filled(p) => cell'[p] = cell[p]
       /\ closed[p] => /\ closed'[p]
                       /\ \A c \in Calls : Proc(c) = p /\ At(c, "idle")
                                              => call'[c].pc \in {"idle", "failed"}]_vars

\* Every call ends: no guard is kept, and nobody waits for a guard they hold.
CallsEnd == \A c \in Calls : ~At(c, "idle") ~> call[c].pc \in Ends
=============================================================================
