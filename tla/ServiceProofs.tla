---------------------------- MODULE ServiceProofs ----------------------------
(***************************************************************************)
(* Theorems about every service whose registrations and handlers keep the  *)
(* assumptions of Service: the type invariant, that a message is deleted   *)
(* only after its work, that no failure loses a message of a capped queue, *)
(* that a handler which names deduplication ids sends one message for an   *)
(* input, and that the groups of a FIFO queue begin in order.              *)
(***************************************************************************)
EXTENDS Service, TLAPS

-----------------------------------------------------------------------------
(* What the catalogue says of the service that runs. *)

LEMMA ServiceFacts ==
  ASSUME name \in DOMAIN Catalogue
  PROVE  /\ Subs \in Seq(Registrations)
         /\ Hooking \in Seq(Hooks)
         /\ Catalogue[name].kinds \subseteq Kinds
         /\ Registered \subseteq Queues
         /\ MaxFaults[name] \in Nat /\ MaxInputs[name] \in Nat
<1>1. Catalogue[name] \in Services
  BY CatalogueAssumption
<1>2. Subs \in Seq(Registrations) /\ Hooking \in Seq(Hooks) /\ Catalogue[name].kinds \subseteq Kinds
  BY <1>1 DEF Services, Subs, Hooking
<1>3. Registered \subseteq Queues
  <2>1. \A i \in DOMAIN Subs : Subs[i] \in Registrations
    BY <1>2
  <2>2. \A r \in Registrations : r.queue \in Queues
    BY DEF Registrations
  <2> QED BY <2>1, <2>2 DEF Registered
<1>4. MaxFaults[name] \in Nat /\ MaxInputs[name] \in Nat
  BY BoundAssumption
<1> QED BY <1>2, <1>3, <1>4

LEMMA RegistrationFacts ==
  ASSUME name \in DOMAIN Catalogue, NEW q \in Registered
  PROVE  \E i \in DOMAIN Subs : Registration(q) = Subs[i] /\ Subs[i] \in Registrations
<1>1. PICK j \in DOMAIN Subs : Subs[j].queue = q
  BY DEF Registered
<1> DEFINE i == CHOOSE k \in DOMAIN Subs : Subs[k].queue = q
<1>2. i \in DOMAIN Subs /\ Subs[i].queue = q
  BY <1>1
<1>3. Subs[i] \in Registrations
  BY <1>2, ServiceFacts
<1> QED BY <1>2, <1>3 DEF Registration

LEMMA DecisionFacts ==
  ASSUME name \in DOMAIN Catalogue, NEW q \in Registered, NEW k \in Kinds,
         NEW n \in Receives, NEW w \in BOOLEAN
  PROVE  /\ Decision(q, k, n, w) \in Decisions
         /\ Decision(q, k, n, w).send # None =>
              /\ Decision(q, k, n, w).failed # "ack"
              /\ Decision(q, k, n, w).refused # "ack"
              /\ \A k2 \in Kinds, n2 \in Receives, w2 \in BOOLEAN :
                   Decision(q, k2, n2, w2).records =>
                     Decision(q, k2, n2, w2).send.to = Decision(q, k, n, w).send.to
<1>1. PICK i \in DOMAIN Subs : Registration(q) = Subs[i] /\ Subs[i] \in Registrations
  BY RegistrationFacts
<1>2. Subs[i].handler \in Handlers
  BY <1>1 DEF Registrations
<1>3. \A k2 \in Kinds, n2 \in Receives, w2 \in BOOLEAN :
        <<k2, n2, w2>> \in Kinds \X Receives \X BOOLEAN
  OBVIOUS
<1>4. \A k2 \in Kinds, n2 \in Receives, w2 \in BOOLEAN :
        Decision(q, k2, n2, w2) = Subs[i].handler[<<k2, n2, w2>>]
  BY <1>1 DEF Decision
<1>5. Decision(q, k, n, w) \in Decisions
  <2>1. \A c \in Kinds \X Receives \X BOOLEAN : Subs[i].handler[c] \in Decisions
    BY <1>2 DEF Handlers
  <2>2. Subs[i].handler[<<k, n, w>>] \in Decisions
    BY <1>3, <2>1, Zenon
  <2> QED BY <1>4, <2>2, Zenon
<1>6. \A c \in Kinds \X Receives \X BOOLEAN :
        Subs[i].handler[c].send # None =>
          /\ Subs[i].handler[c].failed # "ack" /\ Subs[i].handler[c].refused # "ack"
          /\ \A e \in Kinds \X Receives \X BOOLEAN :
               Subs[i].handler[e].records =>
                 Subs[i].handler[e].send.to = Subs[i].handler[c].send.to
  BY <1>1, HandlerAssumption DEF Subs
<1>7. Decision(q, k, n, w).send # None =>
        /\ Decision(q, k, n, w).failed # "ack"
        /\ Decision(q, k, n, w).refused # "ack"
        /\ \A k2 \in Kinds, n2 \in Receives, w2 \in BOOLEAN :
             Decision(q, k2, n2, w2).records =>
               Decision(q, k2, n2, w2).send.to = Decision(q, k, n, w).send.to
  <2> SUFFICES ASSUME Decision(q, k, n, w).send # None
               PROVE  /\ Decision(q, k, n, w).failed # "ack"
                      /\ Decision(q, k, n, w).refused # "ack"
                      /\ \A k2 \in Kinds, n2 \in Receives, w2 \in BOOLEAN :
                           Decision(q, k2, n2, w2).records =>
                             Decision(q, k2, n2, w2).send.to = Decision(q, k, n, w).send.to
    OBVIOUS
  <2> DEFINE c == <<k, n, w>>
  <2>1. c \in Kinds \X Receives \X BOOLEAN
    BY <1>3
  <2>2. Decision(q, k, n, w) = Subs[i].handler[c]
    BY <1>4, Zenon
  <2> HIDE DEF c
  <2>3. /\ Subs[i].handler[c].failed # "ack" /\ Subs[i].handler[c].refused # "ack"
        /\ \A e \in Kinds \X Receives \X BOOLEAN :
             Subs[i].handler[e].records =>
               Subs[i].handler[e].send.to = Subs[i].handler[c].send.to
    BY <1>6, <2>1, <2>2, Zenon
  <2>4. ASSUME NEW k2 \in Kinds, NEW n2 \in Receives, NEW w2 \in BOOLEAN,
               Decision(q, k2, n2, w2).records
        PROVE  Decision(q, k2, n2, w2).send.to = Decision(q, k, n, w).send.to
    <3> DEFINE e == <<k2, n2, w2>>
    <3>1. e \in Kinds \X Receives \X BOOLEAN
      BY <1>3
    <3>2. Decision(q, k2, n2, w2) = Subs[i].handler[e]
      BY <1>4, Zenon
    <3> HIDE DEF e
    <3> QED BY <2>2, <2>3, <2>4, <3>1, <3>2, Zenon
  <2> QED BY <2>2, <2>3, <2>4, Zenon
<1> QED BY <1>5, <1>7

-----------------------------------------------------------------------------
(* Types. *)

LEMMA InitType == Init => TypeOK
<1> SUFFICES ASSUME Init PROVE TypeOK
  OBVIOUS
<1>1. name \in DOMAIN Catalogue
  BY DEF Init
<1>2. exists \in SUBSET Queues
  BY <1>1, ServiceFacts DEF Init, Filled
<1>3. opened \in 0..Len(Subs) /\ hooked \in 0..Len(Hooking) /\ faults \in 0..MaxFaults[name]
  BY <1>1, ServiceFacts DEF Init
<1>4. inputs \in Seq(Kinds) /\ begun \in Seq(Messages)
  BY DEF Init
<1> QED BY <1>1, <1>2, <1>3, <1>4 DEF Init, TypeOK

\* A destination that accepts a message keeps the types of what it changes.
LEMMA AcceptType ==
  ASSUME TypeOK, NEW s \in Sends, NEW id \in Nat, NEW kind \in Kinds, Accept(s, id, kind)
  PROVE  /\ sent' \in SUBSET (Nat \X (Queues \cup Topics)) /\ arrived' \in SUBSET Messages
         /\ store' \in SUBSET Entries /\ sends' \in Nat
         /\ seen' \in SUBSET ((Queues \cup Topics) \X Nat)
<1>1. s.to \in Queues \cup Topics /\ s.group \in {"customer", "replay"}
  BY DEF Sends
<1>2. Reached(s.to) \subseteq Queues
  BY <1>1 DEF Reached
<1>3. Copies(s, id, kind) \subseteq Messages
  BY <1>1, <1>2 DEF Copies, Messages, TypeOK
<1>4. \A m \in Messages : Entry(m) \in Entries
  BY BoundAssumption DEF Entry, Entries, Messages
<1> DEFINE new == IF Repeated(s, id) THEN {} ELSE Copies(s, id, kind)
<1>5. new \subseteq Messages
  BY <1>3
<1>6. /\ sent' = sent \cup {<<id, s.to>>} /\ arrived' = arrived \cup new
      /\ store' = store \cup {Entry(m) : m \in new} /\ sends' = sends + 1
      /\ seen' = seen \cup Deduplication(s, id)
  BY DEF Accept
<1> HIDE DEF new
<1>7. {Entry(m) : m \in new} \subseteq Entries
  BY <1>4, <1>5
<1>8. /\ <<id, s.to>> \in Nat \X (Queues \cup Topics)
      /\ Deduplication(s, id) \subseteq (Queues \cup Topics) \X Nat
  BY <1>1 DEF Deduplication
<1> QED BY <1>5, <1>6, <1>7, <1>8 DEF TypeOK

LEMMA FaultType ==
  ASSUME TypeOK, Fault
  PROVE  faults' \in 0..MaxFaults[name]
BY ServiceFacts DEF TypeOK, Fault

LEMMA StartType == ASSUME TypeOK, Start PROVE TypeOK'
<1>1. 0 \in 0..Len(Subs) /\ 0 \in 0..Len(Hooking)
  BY ServiceFacts DEF TypeOK
<1> QED BY <1>1 DEF TypeOK, Start, account, history, Subs, Hooking

\* The registration that is opened next.
LEMMA NextRegistration ==
  ASSUME TypeOK, opened < Len(Subs)
  PROVE  /\ Subs[opened + 1] \in Registrations
         /\ opened + 1 \in 0..Len(Subs)
<1>1. Subs \in Seq(Registrations) /\ opened \in 0..Len(Subs)
  BY ServiceFacts DEF TypeOK
<1> QED BY <1>1

LEMMA NeededType ==
  ASSUME NEW r \in Registrations
  PROVE  /\ Needed(r) \subseteq Queues /\ r.queue \in Queues
         /\ Valid(r) /\ r.max # None => r.max \in Receives /\ r.dead \in Queues
<1>1. r.queue \in Queues /\ r.dead \in Queues \cup {None} /\ r.max \in Receives \cup {None}
  BY DEF Registrations
<1>2. Needed(r) \subseteq Queues
  BY <1>1 DEF Needed
<1>3. Valid(r) /\ r.dead = None => r.max = None
  BY ZenonT(60) DEF Valid
<1> QED BY <1>1, <1>2, <1>3

\* What a start writes as redrive policies are policies.
LEMMA RedrivenType ==
  ASSUME TypeOK, NEW r \in Registrations, Opens(r)
  PROVE  Redriven(r) \in [Queues -> {None} \cup [max : Receives, dead : Queues]]
<1>1. CASE r.max = None
  BY <1>1 DEF Redriven, TypeOK
<1>2. CASE r.max # None
  <2>1. r.max \in Receives /\ r.dead \in Queues /\ r.queue \in Queues
    BY <1>2, NeededType DEF Opens
  <2>2. [max |-> r.max, dead |-> r.dead] \in [max : Receives, dead : Queues]
    BY <2>1
  <2> QED BY <1>2, <2>1, <2>2 DEF Redriven, TypeOK
<1> QED BY <1>1, <1>2

LEMMA OpenType == ASSUME TypeOK, Open PROVE TypeOK'
<1> DEFINE r == Subs[opened + 1]
<1>1. r \in Registrations /\ opened + 1 \in 0..Len(Subs)
  BY NextRegistration DEF Open
<1>2. /\ Opens(r) /\ exists' = exists \cup Needed(r) /\ policies' = Redriven(r)
      /\ opened' = opened + 1 /\ phase' \in {"down", "opening", "up"}
      /\ UNCHANGED <<name, hooked, inbox, running, booked, links, store, seen, inputs, sends,
                     faults, history>>
  BY DEF Open
<1> HIDE DEF r
<1>3. exists' \in SUBSET Queues
  BY <1>1, <1>2, NeededType DEF TypeOK
<1>4. policies' \in [Queues -> {None} \cup [max : Receives, dead : Queues]]
  BY <1>1, <1>2, RedrivenType
<1> QED BY <1>1, <1>2, <1>3, <1>4 DEF TypeOK, history, Subs, Hooking

LEMMA OpenFailsType == ASSUME TypeOK, OpenFails PROVE TypeOK'
<1> DEFINE r == Subs[opened + 1]
<1>1. r \in Registrations /\ Needed(r) \subseteq Queues /\ r.queue \in Queues
  BY NextRegistration, NeededType DEF OpenFails
<1>2. exists' \in SUBSET Queues /\ faults' \in 0..MaxFaults[name]
  BY <1>1, FaultType DEF OpenFails, TypeOK
<1>3. policies' \in [Queues -> {None} \cup [max : Receives, dead : Queues]]
  <2>1. policies' = policies \/ (Opens(r) /\ policies' = Redriven(r))
    BY DEF OpenFails
  <2> HIDE DEF r
  <2> QED BY <1>1, <2>1, RedrivenType DEF TypeOK
<1> QED BY <1>2, <1>3 DEF TypeOK, OpenFails, history, Subs, Hooking

LEMMA ProduceType ==
  ASSUME TypeOK, NEW q \in Queues, NEW kind \in Catalogue[name].kinds, Produce(q, kind)
  PROVE  TypeOK'
<1> DEFINE s == [to |-> q, group |-> "customer", named |-> FALSE, dedup |-> FALSE]
<1>1. s \in Sends /\ kind \in Kinds
  BY ServiceFacts DEF Sends, TypeOK
<1>2. PICK id \in Nat : Accept(s, id, kind)
  <2>1. Len(inputs) \in Nat /\ (inputs # <<>> => Len(inputs) - 1 \in Nat)
    BY DEF TypeOK
  <2> QED BY <2>1 DEF Produce
<1>3. inputs' \in Seq(Kinds)
  BY <1>1 DEF Produce, TypeOK
<1> HIDE DEF s
<1>4. /\ sent' \in SUBSET (Nat \X (Queues \cup Topics)) /\ arrived' \in SUBSET Messages
      /\ store' \in SUBSET Entries /\ sends' \in Nat
      /\ seen' \in SUBSET ((Queues \cup Topics) \X Nat)
  BY <1>1, <1>2, AcceptType
<1>5. UNCHANGED <<name, phase, opened, hooked, inbox, running, booked, exists, policies, links,
                  faults, acked, dropped, begun, forgotten>>
  BY DEF Produce, process
<1> QED BY <1>3, <1>4, <1>5 DEF TypeOK, Subs, Hooking

LEMMA HookType == ASSUME TypeOK, Hook PROVE TypeOK'
<1> DEFINE h == Hooking[hooked + 1]
<1>1. h \in Hooks /\ hooked + 1 \in 0..Len(Hooking)
  <2>1. Hooking \in Seq(Hooks) /\ hooked \in 0..Len(Hooking) /\ hooked < Len(Hooking)
    BY ServiceFacts DEF TypeOK, Hook
  <2> QED BY <2>1
<1>2. UNCHANGED <<name, opened, exists, policies, booked, inputs, acked, dropped, begun, forgotten>>
  BY DEF Hook
<1>3. CASE /\ h \in LinkHooks /\ links' = links \cup {<<h.topic, h.queue>>}
           /\ hooked' = hooked + 1
           /\ UNCHANGED <<phase, inbox, running, store, seen, sends, faults, sent, arrived>>
  <2>1. links' \in SUBSET (Topics \X Queues)
    BY <1>3 DEF LinkHooks, TypeOK
  <2> QED BY <1>1, <1>2, <1>3, <2>1 DEF TypeOK, Subs, Hooking
<1>4. CASE /\ h \in ReplayHooks
           /\ Accept(h.send, MaxInputs[name], CHOOSE k \in Kinds : TRUE)
           /\ hooked' = hooked + 1
           /\ UNCHANGED <<phase, inbox, running, links, faults>>
  <2>1. h.send \in Sends /\ MaxInputs[name] \in Nat
    BY <1>4, ServiceFacts DEF ReplayHooks, TypeOK
  <2>2. (CHOOSE k \in Kinds : TRUE) \in Kinds
    BY KindAssumption
  <2>3. /\ sent' \in SUBSET (Nat \X (Queues \cup Topics)) /\ arrived' \in SUBSET Messages
        /\ store' \in SUBSET Entries /\ sends' \in Nat
        /\ seen' \in SUBSET ((Queues \cup Topics) \X Nat)
    BY <1>4, <2>1, <2>2, AcceptType
  <2> QED BY <1>1, <1>2, <1>4, <2>3 DEF TypeOK, Subs, Hooking
<1>5. CASE /\ Fault /\ phase' = "down" /\ inbox' = {} /\ running' = {}
           /\ UNCHANGED <<hooked, links, store, seen, sends, sent, arrived>>
  BY <1>2, <1>5, FaultType DEF TypeOK, Subs, Hooking
<1> QED BY <1>3, <1>4, <1>5 DEF Hook

LEMMA ReceiveType ==
  ASSUME TypeOK, NEW es \in SUBSET store, Receive(es)
  PROVE  TypeOK'
<1> DEFINE T(e) == [e EXCEPT !.receives = Least(e.receives + 1, MaxReceives), !.hidden = TRUE]
           D(t) == [m |-> t.m, queue |-> t.queue, receives |-> t.receives]
           taken == {T(e) : e \in es}
<1>1. \A e \in Entries : T(e) \in Entries /\ T(e).receives \in Receives
  <2>1. \A n \in 0..MaxReceives :
          Least(n + 1, MaxReceives) \in Receives /\ Least(n + 1, MaxReceives) \in 0..MaxReceives
    BY BoundAssumption DEF Least, Receives
  <2>2. ASSUME NEW e \in Entries, NEW n \in 0..MaxReceives
        PROVE  /\ [e EXCEPT !.receives = n, !.hidden = TRUE] \in Entries
               /\ [e EXCEPT !.receives = n, !.hidden = TRUE].receives = n
    BY DEF Entries
  <2>3. \A e \in Entries : e.receives \in 0..MaxReceives
    BY DEF Entries
  <2> QED BY <2>1, <2>2, <2>3
<1>2. \A t \in Entries : t.receives \in Receives => D(t) \in Deliveries
  BY DEF Entries, Deliveries
<1>3. es \subseteq Entries /\ store \subseteq Entries /\ inbox \subseteq Deliveries
  BY DEF TypeOK
<1>4. store' = (store \ es) \cup taken /\ inbox' = inbox \cup {D(t) : t \in taken}
  BY DEF Receive
<1>5. UNCHANGED <<name, phase, opened, hooked, running, booked, exists, policies, links, seen,
                  inputs, sends, faults, history>>
  BY DEF Receive
<1> HIDE DEF T, D
<1>6. \A t \in taken : t \in Entries /\ t.receives \in Receives
  BY <1>1, <1>3
<1> HIDE DEF taken
<1>7. store' \in SUBSET Entries /\ inbox' \in SUBSET Deliveries
  BY <1>2, <1>3, <1>4, <1>6
<1> QED BY <1>5, <1>7 DEF TypeOK, history, Subs, Hooking

LEMMA QueueType ==
  ASSUME TypeOK, NEW e \in store, MoveSpent(e) \/ Lapse(e)
  PROVE  TypeOK'
<1>1. e \in Entries
  BY DEF TypeOK
<1>2. CASE MoveSpent(e)
  <2>1. policies[e.queue] \in [max : Receives, dead : Queues]
    <3>1. e.queue \in Queues
      BY <1>1 DEF Entries
    <3> QED BY <1>2, <3>1 DEF MoveSpent, Spent, TypeOK
  <2>2. policies[e.queue].dead \in Queues
    BY <2>1
  <2>3. [e EXCEPT !.queue = policies[e.queue].dead, !.receives = 0] \in Entries
    <3>1. 0 \in 0..MaxReceives
      BY BoundAssumption
    <3>2. \A q \in Queues, n \in 0..MaxReceives :
            [e EXCEPT !.queue = q, !.receives = n] \in Entries
      BY <1>1 DEF Entries
    <3> QED BY <2>2, <3>1, <3>2
  <2>4. store' \in SUBSET Entries
    BY <1>2, <2>3 DEF MoveSpent, TypeOK
  <2>5. UNCHANGED <<name, process, exists, policies, links, seen, inputs, sends, faults, history>>
    BY <1>2 DEF MoveSpent
  <2> QED BY <2>4, <2>5 DEF TypeOK, process, history, Subs, Hooking
<1>3. CASE Lapse(e)
  <2>1. [e EXCEPT !.hidden = FALSE] \in Entries
    BY <1>1 DEF Entries
  <2>2. store' \in SUBSET Entries
    BY <1>3, <2>1 DEF Lapse, TypeOK
  <2>3. faults' \in 0..MaxFaults[name]
    BY <1>3, FaultType DEF Lapse, TypeOK
  <2>4. UNCHANGED <<name, process, exists, policies, links, seen, inputs, sends, history>>
    BY <1>3 DEF Lapse
  <2> QED BY <2>2, <2>3, <2>4 DEF TypeOK, process, history, Subs, Hooking
<1> QED BY <1>2, <1>3

LEMMA ForgetType ==
  ASSUME TypeOK, NEW key \in seen, Forget(key)
  PROVE  TypeOK'
BY DEF TypeOK, Forget, process, Subs, Hooking

LEMMA CrashType == ASSUME TypeOK, Crash PROVE TypeOK'
BY FaultType DEF TypeOK, Crash, account, history, Subs, Hooking

\* A delivery or a run is of a registered queue.
Placed == \A d \in inbox \cup running : d.queue \in Registered

LEMMA BeginType ==
  ASSUME TypeOK, Placed, NEW d \in inbox, Begin(d)
  PROVE  TypeOK'
<1>1. d \in Deliveries /\ d.queue \in Registered
  BY DEF TypeOK, Placed
<1>2. d.m \in Messages /\ d.queue \in Queues /\ d.receives \in Receives /\ d.m.kind \in Kinds
  BY <1>1 DEF Deliveries, Messages
<1> DEFINE known == <<d.queue, d.m.id>> \in booked
           decision == Decision(d.queue, d.m.kind, d.receives, known)
           run == [m |-> d.m, queue |-> d.queue, receives |-> d.receives, known |-> known,
                   settle |-> IF decision.send = None THEN decision.then ELSE "sending"]
<1>3. running' = running \cup {run} /\ inbox' = inbox \ {d}
  BY DEF Begin
<1>4. known \in BOOLEAN
  OBVIOUS
<1>5. decision \in Decisions
  <2> HIDE DEF known
  <2> QED BY <1>1, <1>2, <1>4, DecisionFacts DEF TypeOK
<1> HIDE DEF known, decision
<1>6. run \in Runs
  BY <1>2, <1>4, <1>5 DEF Decisions, Runs
<1> HIDE DEF run
<1>7. begun' \in Seq(Messages)
  BY <1>2 DEF Begin, TypeOK
<1>8. UNCHANGED <<name, phase, opened, hooked, booked, account, inputs, sends, faults, sent,
                  arrived, acked, dropped, forgotten>>
  BY DEF Begin
<1> QED BY <1>3, <1>6, <1>7, <1>8 DEF TypeOK, account, Subs, Hooking

\* The decision of a run.
LEMMA DecidedFacts ==
  ASSUME TypeOK, Placed, NEW r \in running
  PROVE  /\ r \in Runs /\ r.queue \in Registered /\ r.queue \in Queues
         /\ r.m \in Messages /\ r.m.id \in Nat /\ r.m.kind \in Kinds
         /\ r.receives \in Receives /\ r.known \in BOOLEAN
         /\ Decided(r) \in Decisions
<1>1. r \in Runs /\ r.queue \in Registered
  BY DEF TypeOK, Placed
<1>2. /\ r.m \in Messages /\ r.receives \in Receives /\ r.known \in BOOLEAN /\ r.queue \in Queues
  BY <1>1 DEF Runs
<1>3. r.m.id \in Nat /\ r.m.kind \in Kinds
  BY <1>2 DEF Messages
<1>4. Decided(r) \in Decisions
  BY <1>1, <1>2, <1>3, DecisionFacts DEF Decided, TypeOK
<1> QED BY <1>1, <1>2, <1>3, <1>4

LEMMA ResolveType ==
  ASSUME TypeOK, NEW r \in running, NEW outcome \in Outcomes, Resolve(r, outcome)
  PROVE  running' \in SUBSET Runs
<1>1. [r EXCEPT !.settle = outcome] \in Runs
  BY DEF TypeOK, Runs
<1> QED BY <1>1 DEF Resolve, TypeOK

LEMMA BookedType ==
  ASSUME TypeOK, Placed, NEW r \in running, NEW made \in BOOLEAN
  PROVE  Booked(r, made) \in SUBSET (Queues \X Nat)
<1>1. <<r.queue, r.m.id>> \in Queues \X Nat
  BY DecidedFacts
<1> QED BY <1>1 DEF Booked, TypeOK

LEMMA SendType ==
  ASSUME TypeOK, Placed, NEW r \in running, Decided(r).send # None, Send(r) \/ SendFails(r)
  PROVE  TypeOK'
<1> DEFINE d == Decided(r)
<1>1. d \in Decisions /\ r.m.id \in Nat /\ r.m.kind \in Kinds
  BY DecidedFacts
<1>2. d.send \in Sends /\ {d.then, d.refused, d.failed} \subseteq Outcomes
  BY <1>1 DEF Decisions
<1> HIDE DEF d
<1>3. \/ Accept(d.send, r.m.id, r.m.kind)
      \/ UNCHANGED <<store, seen, sends, sent, arrived>>
  BY DEF Send, SendFails, d
<1>4. /\ sent' \in SUBSET (Nat \X (Queues \cup Topics)) /\ arrived' \in SUBSET Messages
      /\ store' \in SUBSET Entries /\ sends' \in Nat
      /\ seen' \in SUBSET ((Queues \cup Topics) \X Nat)
  <2>1. CASE Accept(d.send, r.m.id, r.m.kind)
    BY <1>1, <1>2, <2>1, AcceptType
  <2>2. CASE UNCHANGED <<store, seen, sends, sent, arrived>>
    BY <2>2 DEF TypeOK
  <2> QED BY <1>3, <2>1, <2>2
<1>5. running' \in SUBSET Runs
  <2>1. \E o \in Outcomes : Resolve(r, o)
    BY <1>2 DEF Send, SendFails, d
  <2> QED BY <2>1, ResolveType
<1>6. booked' \in SUBSET (Queues \X Nat)
  <2>1. \E made \in BOOLEAN : booked' = Booked(r, made)
    BY DEF Send, SendFails
  <2> QED BY <2>1, BookedType
<1>7. faults' \in 0..MaxFaults[name]
  BY FaultType DEF Send, SendFails, TypeOK
<1>8. UNCHANGED <<name, phase, opened, hooked, inbox, exists, policies, links, inputs, acked,
                  dropped, begun, forgotten>>
  BY DEF Send, SendFails
<1> QED BY <1>4, <1>5, <1>6, <1>7, <1>8 DEF TypeOK, Subs, Hooking

LEMMA SettleType ==
  ASSUME TypeOK, NEW r \in running, Settle(r) \/ SettleFails(r)
  PROVE  TypeOK'
<1>1. CASE Settle(r)
  <2> DEFINE shown == {[e EXCEPT !.hidden = FALSE] : e \in Current(r)}
  <2>1. shown \subseteq Entries
    <3>1. \A e \in Entries : [e EXCEPT !.hidden = FALSE] \in Entries
      BY DEF Entries
    <3>2. Current(r) \subseteq Entries
      BY DEF Current, TypeOK
    <3> QED BY <3>1, <3>2
  <2>2. store' \in {store \ Current(r), (store \ Current(r)) \cup shown, store}
    BY <1>1 DEF Settle
  <2> HIDE DEF shown
  <2>3. store' \in SUBSET Entries
    BY <2>1, <2>2 DEF TypeOK
  <2>4. running' \in SUBSET Runs /\ acked' \in SUBSET Runs /\ dropped' \in SUBSET Runs
    BY <1>1 DEF Settle, TypeOK
  <2>5. UNCHANGED <<name, phase, opened, hooked, inbox, booked, exists, policies, links, seen,
                    inputs, sends, faults, sent, arrived, begun, forgotten>>
    BY <1>1 DEF Settle
  <2> QED BY <2>3, <2>4, <2>5 DEF TypeOK, Subs, Hooking
<1>2. CASE SettleFails(r)
  BY <1>2, FaultType DEF SettleFails, TypeOK, account, history, Subs, Hooking
<1> QED BY <1>1, <1>2

-----------------------------------------------------------------------------
(* The inductive invariant. *)

Owed(r) == Decision(r.queue, r.m.kind, r.receives, FALSE).send

\* Whatever the handler of the queue owes for the id has been accepted.
Covered(q, id) ==
  \A k \in Kinds, n \in Receives :
    Decision(q, k, n, FALSE).send # None => <<id, Decision(q, k, n, FALSE).send.to>> \in sent

Done(r) == Owed(r) # None => <<r.m.id, Owed(r).to>> \in sent

\* A recorded id is covered, and so is one that a run found recorded.
BookedCovered == \A b \in booked : Covered(b[1], b[2])
KnownCovered == \A r \in running : r.known => Covered(r.queue, r.m.id)

\* A run that will ack has done its work, one that sends has something to send.
AcksDone == \A r \in running : r.settle = "ack" => Done(r)
SendingSends == \A r \in running : r.settle = "sending" => Decided(r).send # None

WorkInv ==
  /\ TypeOK /\ Placed /\ BookedCovered /\ KnownCovered /\ AcksDone /\ SendingSends
  /\ WorkBeforeDelete

\* A step that changes neither the process nor the acks, and forgets nothing
\* that was sent.
LEMMA WorkIsDone == WorkBeforeDelete <=> \A r \in acked : Done(r)
BY DEF WorkBeforeDelete, Done, Owed

LEMMA Undisturbed ==
  ASSUME WorkInv, TypeOK', name' = name, sent \subseteq sent', acked' = acked,
         booked' \subseteq booked, running' \subseteq running,
         \A d \in inbox' : d.queue \in Registered
  PROVE  WorkInv'
<1>1. \A q, id : Covered(q, id) => Covered(q, id)'
  BY ZenonT(60) DEF Covered, Decision, Registration, Subs
<1>2. \A r : Done(r) => Done(r)'
  BY ZenonT(60) DEF Done, Owed, Decision, Registration, Subs
<1>3. Placed'
  BY DEF WorkInv, Placed, Registered, Subs
<1>4. BookedCovered' /\ KnownCovered'
  BY <1>1 DEF WorkInv, BookedCovered, KnownCovered
<1>5. AcksDone'
  BY <1>2 DEF WorkInv, AcksDone
<1>6. SendingSends'
  BY DEF WorkInv, SendingSends, Decided, Decision, Registration, Subs
<1>7. WorkBeforeDelete'
  BY ZenonT(60) DEF WorkInv, WorkBeforeDelete, Decision, Registration, Subs
<1> QED BY <1>3, <1>4, <1>5, <1>6, <1>7 DEF WorkInv

LEMMA AcceptKeeps ==
  ASSUME NEW s, NEW id, NEW kind, Accept(s, id, kind)
  PROVE  sent \subseteq sent' /\ <<id, s.to>> \in sent'
BY DEF Accept

LEMMA StartupStep == ASSUME WorkInv, Startup PROVE WorkInv'
<1>1. TypeOK'
  BY StartType, OpenType, OpenFailsType, HookType DEF Startup, WorkInv
<1>2. name' = name /\ acked' = acked
  BY DEF Startup, Start, Open, OpenFails, Hook, history
<1>3. booked' \subseteq booked
  BY DEF Startup, Start, Open, OpenFails, Hook
<1>4. running' \subseteq running /\ inbox' \subseteq inbox
  BY DEF Startup, Start, Open, OpenFails, Hook
<1>5. sent \subseteq sent'
  BY AcceptKeeps DEF Startup, Start, Open, OpenFails, Hook, history
<1>6. \A d \in inbox' : d.queue \in Registered
  BY <1>4 DEF WorkInv, Placed
<1> QED BY <1>1, <1>2, <1>3, <1>4, <1>5, <1>6, Undisturbed

LEMMA DeliveringStep == ASSUME WorkInv, Delivering PROVE WorkInv'
<1>1. CASE \E e \in store : MoveSpent(e) \/ Lapse(e)
  <2>1. PICK e \in store : MoveSpent(e) \/ Lapse(e)
    BY <1>1
  <2>2. TypeOK'
    BY <2>1, QueueType DEF WorkInv
  <2>3. UNCHANGED <<name, sent, acked, booked, running, inbox>>
    BY <2>1 DEF MoveSpent, Lapse, process, history
  <2> QED BY <2>2, <2>3, Undisturbed DEF WorkInv, Placed
<1>2. CASE \E es \in SUBSET {e \in store : ~e.hidden} : Receive(es)
  <2>1. PICK es \in SUBSET store : Receive(es)
    BY <1>2
  <2>2. TypeOK'
    BY <2>1, ReceiveType DEF WorkInv
  <2>3. UNCHANGED <<name, sent, acked, booked, running>>
    BY <2>1 DEF Receive, history
  <2>4. \A d \in inbox' : d.queue \in Registered
    <3> DEFINE T(e) == [e EXCEPT !.receives = Least(e.receives + 1, MaxReceives), !.hidden = TRUE]
    <3>1. \A e \in es : T(e).queue = e.queue
      <4>1. \A e \in es : e \in Entries
        BY DEF WorkInv, TypeOK
      <4> QED BY <4>1 DEF Entries
    <3>2. \A d \in inbox' : d \in inbox \/ \E e \in es : d.queue = T(e).queue
      <4> DEFINE D(t) == [m |-> t.m, queue |-> t.queue, receives |-> t.receives]
      <4>1. inbox' = inbox \cup {D(t) : t \in {T(e) : e \in es}}
        BY <2>1 DEF Receive
      <4>2. \A t : D(t).queue = t.queue
        OBVIOUS
      <4> HIDE DEF T, D
      <4> QED BY <4>1, <4>2
    <3>3. \A e \in es : e.queue \in Registered
      BY <2>1 DEF Receive
    <3> HIDE DEF T
    <3> QED BY <3>1, <3>2, <3>3 DEF WorkInv, Placed
  <2> QED BY <2>2, <2>3, <2>4, Undisturbed
<1> QED BY <1>1, <1>2 DEF Delivering

LEMMA OutsideStep == ASSUME WorkInv, Outside PROVE WorkInv'
<1>1. TypeOK'
  BY ProduceType, ForgetType, CrashType DEF Outside, WorkInv
<1>2. UNCHANGED <<name, acked, booked>> /\ running' \subseteq running /\ inbox' \subseteq inbox
  BY DEF Outside, Produce, Forget, Crash, process, history
<1>3. sent \subseteq sent'
  BY AcceptKeeps DEF Outside, Produce, Forget, Crash, history
<1>4. \A d \in inbox' : d.queue \in Registered
  BY <1>2 DEF WorkInv, Placed
<1> QED BY <1>1, <1>2, <1>3, <1>4, Undisturbed

LEMMA BeginStep ==
  ASSUME WorkInv, NEW d \in inbox, Begin(d)
  PROVE  WorkInv'
<1> DEFINE known == <<d.queue, d.m.id>> \in booked
           decision == Decision(d.queue, d.m.kind, d.receives, known)
           run == [m |-> d.m, queue |-> d.queue, receives |-> d.receives, known |-> known,
                   settle |-> IF decision.send = None THEN decision.then ELSE "sending"]
<1>1. running' = running \cup {run} /\ inbox' = inbox \ {d}
      /\ UNCHANGED <<name, booked, sent, acked>>
  BY DEF Begin
<1>2. TypeOK'
  BY BeginType DEF WorkInv
<1>3. d \in Deliveries /\ d.queue \in Registered
  BY DEF WorkInv, TypeOK, Placed
<1>4. d.receives \in Receives /\ d.m.kind \in Kinds
  BY <1>3 DEF Deliveries, Messages
<1>5. /\ run.queue = d.queue /\ run.m = d.m /\ run.receives = d.receives /\ run.known = known
      /\ run.settle = IF decision.send = None THEN decision.then ELSE "sending"
  OBVIOUS
<1>6. known => Covered(d.queue, d.m.id)
  BY DEF WorkInv, BookedCovered
<1>7. Decided(run) = decision
  BY <1>5 DEF Decided
<1>8. run.settle = "ack" => Done(run)
  <2>1. CASE known
    BY <1>4, <1>5, <1>6, <2>1 DEF Covered, Done, Owed
  <2>2. CASE ~known /\ run.settle = "ack"
    <3>1. known = FALSE
      BY <2>2
    <3>2. decision.send = None
      BY <1>5, <2>2
    <3>3. Owed(run) = decision.send
      BY <1>5, <3>1 DEF Owed
    <3> QED BY <3>2, <3>3 DEF Done
  <2> QED BY <2>1, <2>2
<1>9. run.settle = "sending" => Decided(run).send # None
  <2>1. known \in BOOLEAN
    OBVIOUS
  <2>2. decision \in Decisions
    <3> HIDE DEF known
    <3> QED BY <1>3, <1>4, <2>1, DecisionFacts DEF WorkInv, TypeOK
  <2>3. decision.then \in Outcomes
    <3> HIDE DEF decision
    <3> QED BY <2>2 DEF Decisions
  <2>4. decision.then # "sending"
    BY <2>3 DEF Outcomes
  <2> HIDE DEF decision
  <2> QED BY <1>5, <1>7, <2>4
<1> HIDE DEF run, decision
<1>10. \A q, id : Covered(q, id)' <=> Covered(q, id)
  BY <1>1 DEF Covered, Decision, Registration, Subs
<1>11. \A r : (Done(r)' <=> Done(r)) /\ Decided(r)' = Decided(r)
  BY <1>1 DEF Done, Owed, Decided, Decision, Registration, Subs
<1>12. Placed'
  BY <1>1, <1>3, <1>5 DEF WorkInv, Placed, Registered, Subs
<1>13. BookedCovered' /\ KnownCovered'
  BY <1>1, <1>5, <1>6, <1>10 DEF WorkInv, BookedCovered, KnownCovered
<1>14. AcksDone' /\ SendingSends'
  BY <1>1, <1>8, <1>9, <1>11 DEF WorkInv, AcksDone, SendingSends
<1>15. WorkBeforeDelete'
  <2>1. \A r \in acked' : Done(r)'
    BY <1>1, <1>11, WorkIsDone DEF WorkInv
  <2> QED BY <2>1 DEF WorkBeforeDelete, Done, Owed
<1> QED BY <1>2, <1>12, <1>13, <1>14, <1>15 DEF WorkInv

LEMMA SendStep ==
  ASSUME WorkInv, NEW r \in running, Send(r) \/ SendFails(r)
  PROVE  WorkInv'
<1> DEFINE d == Decided(r)
<1>1. r.settle = "sending" /\ d.send # None
  BY DEF Send, SendFails, WorkInv, SendingSends
<1>2. TypeOK'
  BY <1>1, SendType DEF WorkInv
<1>3. /\ r \in Runs /\ r.queue \in Registered /\ r.m.kind \in Kinds
      /\ r.receives \in Receives /\ r.known \in BOOLEAN /\ d \in Decisions
  BY DecidedFacts DEF WorkInv
<1>4. name' = name /\ inbox' = inbox /\ acked' = acked
  BY DEF Send, SendFails
<1>5. sent \subseteq sent'
  BY AcceptKeeps DEF Send, SendFails
<1>6. \A q, id : Covered(q, id) => Covered(q, id)'
  BY <1>4, <1>5, ZenonT(60) DEF Covered, Decision, Registration, Subs
<1>7. \A x : (Done(x) => Done(x)') /\ Decided(x)' = Decided(x) /\ Owed(x)' = Owed(x)
  BY <1>4, <1>5, ZenonT(60) DEF Done, Owed, Decided, Decision, Registration, Subs
<1>8. d.failed # "ack" /\ d.refused # "ack"
  BY <1>1, <1>3, DecisionFacts DEF Decided, WorkInv, TypeOK
<1>9. \/ /\ <<r.m.id, d.send.to>> \in sent' /\ Resolve(r, d.then) /\ booked' = Booked(r, TRUE)
      \/ (Resolve(r, d.failed) \/ Resolve(r, d.refused)) /\ booked' = Booked(r, FALSE)
  BY AcceptKeeps DEF Send, SendFails
<1>10. PICK o \in Outcomes :
         /\ Resolve(r, o)
         /\ o = "ack" => <<r.m.id, d.send.to>> \in sent'
  <2>1. {d.then, d.failed, d.refused} \subseteq Outcomes
    <3> HIDE DEF d
    <3> QED BY <1>3 DEF Decisions
  <2> HIDE DEF d
  <2> QED BY <1>8, <1>9, <2>1
<1> DEFINE run == [r EXCEPT !.settle = o]
<1>11. /\ running' = (running \ {r}) \cup {run} /\ run.settle = o
       /\ run.m = r.m /\ run.queue = r.queue
       /\ run.receives = r.receives /\ run.known = r.known
  <2>1. running' = (running \ {r}) \cup {run}
    BY <1>10 DEF Resolve
  <2>2. r \in Runs
    BY <1>3
  <2> HIDE DEF d
  <2>3. /\ run.settle = o /\ run.m = r.m /\ run.queue = r.queue
        /\ run.receives = r.receives /\ run.known = r.known
    BY <2>2 DEF Runs
  <2> QED BY <2>1, <2>3
<1> HIDE DEF run
<1>12. r.known => Covered(r.queue, r.m.id)'
  BY <1>6 DEF WorkInv, KnownCovered
<1>13. \A b \in booked' : Covered(b[1], b[2])'
  <2>1. CASE booked' \subseteq booked
    BY <1>6, <2>1 DEF WorkInv, BookedCovered
  <2>2. CASE d.records /\ <<r.m.id, d.send.to>> \in sent' /\ booked' = Booked(r, TRUE)
    <3>1. ASSUME NEW k \in Kinds, NEW n \in Receives, Decision(r.queue, k, n, FALSE).send # None
          PROVE  Decision(r.queue, k, n, FALSE).send.to = d.send.to
      <4>1. name \in DOMAIN Catalogue /\ FALSE \in BOOLEAN
        BY DEF WorkInv, TypeOK
      <4>2. \A k2 \in Kinds, n2 \in Receives, w2 \in BOOLEAN :
              Decision(r.queue, k2, n2, w2).records =>
                Decision(r.queue, k2, n2, w2).send.to = Decision(r.queue, k, n, FALSE).send.to
        <5>1. ASSUME NEW q \in Registered, Decision(q, k, n, FALSE).send # None
              PROVE  \A k2 \in Kinds, n2 \in Receives, w2 \in BOOLEAN :
                       Decision(q, k2, n2, w2).records =>
                         Decision(q, k2, n2, w2).send.to = Decision(q, k, n, FALSE).send.to
          BY <4>1, <5>1, DecisionFacts, ZenonT(60)
        <5> HIDE DEF d
        <5> QED BY <1>3, <3>1, <5>1, ZenonT(60)
      <4>3. Decision(r.queue, r.m.kind, r.receives, r.known).records
        BY <2>2 DEF Decided
      <4>4. Decision(r.queue, r.m.kind, r.receives, r.known).send.to
              = Decision(r.queue, k, n, FALSE).send.to
        BY <1>3, <4>2, <4>3
      <4> QED BY <4>4 DEF Decided
    <3>2. \A k, n : Decision(r.queue, k, n, FALSE)' = Decision(r.queue, k, n, FALSE)
      BY <1>4 DEF Decision, Registration, Subs
    <3>3. Covered(r.queue, r.m.id)'
      BY <2>2, <3>1, <3>2 DEF Covered
    <3>4. \A b \in booked' : b \in booked \/ b = <<r.queue, r.m.id>>
      BY <2>2 DEF Booked
    <3> QED BY <1>6, <3>3, <3>4 DEF WorkInv, BookedCovered
  <2> QED BY <1>9, <2>1, <2>2 DEF Booked
<1>14. o = "ack" => Done(run)'
  <2> SUFFICES ASSUME o = "ack" PROVE Done(run)'
    OBVIOUS
  <2>1. Owed(run)' = Decision(r.queue, r.m.kind, r.receives, FALSE).send
    BY <1>7, <1>11 DEF Owed
  <2>2. CASE r.known
    <3>1. Covered(r.queue, r.m.id)'
      BY <1>12, <2>2
    <3>2. Decision(r.queue, r.m.kind, r.receives, FALSE)'
            = Decision(r.queue, r.m.kind, r.receives, FALSE)
      BY <1>4 DEF Decision, Registration, Subs
    <3> QED BY <1>3, <1>11, <2>1, <3>1, <3>2 DEF Covered, Done
  <2>3. CASE ~r.known
    <3>1. r.known = FALSE
      BY <1>3, <2>3
    <3>2. Owed(run)' = d.send
      BY <2>1, <3>1 DEF Decided
    <3> QED BY <1>10, <1>11, <3>2 DEF Done
  <2> QED BY <2>2, <2>3
<1>15. Placed'
  BY <1>3, <1>4, <1>11 DEF WorkInv, Placed, Registered, Subs
<1>16. BookedCovered' /\ KnownCovered'
  BY <1>6, <1>11, <1>12, <1>13 DEF WorkInv, BookedCovered, KnownCovered
<1>17. AcksDone' /\ SendingSends'
  <2>1. o # "sending"
    BY <1>10 DEF Outcomes
  <2> QED BY <1>7, <1>11, <1>14, <2>1 DEF WorkInv, AcksDone, SendingSends
<1>18. WorkBeforeDelete'
  BY <1>4, <1>5, ZenonT(60) DEF WorkInv, WorkBeforeDelete, Decision, Registration, Subs
<1> QED BY <1>2, <1>15, <1>16, <1>17, <1>18 DEF WorkInv

LEMMA SettleStep ==
  ASSUME WorkInv, NEW r \in running, Settle(r) \/ SettleFails(r)
  PROVE  WorkInv'
<1>1. TypeOK'
  BY SettleType DEF WorkInv
<1>2. UNCHANGED <<name, booked, sent, inbox>> /\ running' \subseteq running
  BY DEF Settle, SettleFails, history
<1>3. \A x \in acked' : x \in acked \/ (x = r /\ r.settle = "ack")
  BY DEF Settle, SettleFails, history
<1>4. r.settle = "ack" => Done(r)
  BY DEF WorkInv, AcksDone
<1>6. \A q, id : Covered(q, id)' <=> Covered(q, id)
  BY <1>2 DEF Covered, Decision, Registration, Subs
<1>7. \A x : (Done(x)' <=> Done(x)) /\ Decided(x)' = Decided(x)
  BY <1>2 DEF Done, Owed, Decided, Decision, Registration, Subs
<1>5. WorkBeforeDelete'
  <2>1. \A x \in acked' : Done(x)'
    BY <1>3, <1>4, <1>7, WorkIsDone DEF WorkInv
  <2> QED BY <2>1 DEF WorkBeforeDelete, Done, Owed
<1>8. Placed'
  BY <1>2 DEF WorkInv, Placed, Registered, Subs
<1>9. BookedCovered' /\ KnownCovered' /\ AcksDone' /\ SendingSends'
  BY <1>2, <1>6, <1>7 DEF WorkInv, BookedCovered, KnownCovered, AcksDone, SendingSends
<1> QED BY <1>1, <1>5, <1>8, <1>9 DEF WorkInv

LEMMA InitWork == Init => WorkInv
BY InitType DEF Init, WorkInv, Placed, BookedCovered, KnownCovered, AcksDone, SendingSends,
                WorkBeforeDelete

LEMMA StepWork == WorkInv /\ [Next]_vars => WorkInv'
<1> SUFFICES ASSUME WorkInv, [Next]_vars PROVE WorkInv'
  OBVIOUS
<1>1. CASE Startup
  BY <1>1, StartupStep
<1>2. CASE Delivering
  BY <1>2, DeliveringStep
<1>3. CASE Handling
  BY <1>3, BeginStep, SendStep, SettleStep DEF Handling
<1>4. CASE Outside
  BY <1>4, OutsideStep
<1>5. CASE UNCHANGED vars
  <2>1. TypeOK'
    BY <1>5 DEF WorkInv, TypeOK, vars, Subs, Hooking
  <2>2. UNCHANGED <<name, sent, acked, booked, running, inbox>>
    BY <1>5 DEF vars
  <2> QED BY <2>1, <2>2, Undisturbed DEF WorkInv, Placed
<1> QED BY <1>1, <1>2, <1>3, <1>4, <1>5 DEF Next

-----------------------------------------------------------------------------
(* Duplicates and order: the messages on the queues and in the inbox. *)

Dead == {Subs[i].dead : i \in DOMAIN Subs}

\* A policy a start wrote names a dead-letter queue of the service.
PoliciesNamed == \A q \in Queues : policies[q] # None => policies[q].dead \in Dead

\* A message is told from the others by its number and its queue.
Numbered ==
  /\ \A m \in arrived : m.no <= sends
  /\ \A m, n \in arrived : m.no = n.no /\ m.to = n.to => m = n
  /\ \A x \in store \cup inbox : x.m \in arrived
  /\ \A i \in DOMAIN begun : begun[i] \in arrived

Lined(q) == Fifo(q) /\ q \in Registered

HasBegun(m) == \E i \in DOMAIN begun : begun[i] = m

\* A message on a FIFO queue the service reads was sent there.
AtHome == \A x \in store \cup inbox : Lined(x.queue) => x.m.to = x.queue

\* What has not begun is behind all of its group that has.
Behind ==
  \A x \in store \cup inbox : Lined(x.queue) /\ ~HasBegun(x.m) =>
    \A i \in DOMAIN begun :
      begun[i].to = x.m.to /\ begun[i].group = x.m.group => begun[i].no < x.m.no

\* A delivery waits together with whatever of its group comes before it and
\* has not begun.
Together ==
  \A d \in inbox, y \in store :
    Lined(d.queue) /\ y.queue = d.queue /\ y.m.group = d.m.group
      /\ y.m.no < d.m.no /\ ~HasBegun(y.m)
      => \E c \in inbox : c.m = y.m /\ c.queue = y.queue

\* What a queue accepted is on a queue or was deleted by a settlement.
Present(m) == (\E e \in store : e.m = m) \/ \E r \in acked \cup dropped : r.m = m

LineInv ==
  /\ PoliciesNamed /\ Numbered /\ AtHome /\ Behind /\ Together /\ FirstRunsInOrder
  /\ \A m \in arrived : Present(m)
  /\ \A r \in dropped : Capped(r.queue) => r.receives < Registration(r.queue).max

-----------------------------------------------------------------------------
(* The ways a step changes the queues and the inbox. *)

\* Nothing on the queues changes; the process may stop, a window may pass.
Quiet ==
  /\ UNCHANGED <<store, arrived, sends, begun, acked, dropped>>
  /\ inbox' = inbox \/ inbox' = {}

\* A destination accepts a message.
Accepting ==
  /\ UNCHANGED <<inbox, begun, acked, dropped>>
  /\ \E s \in Sends : \E id \in Nat, kind \in Kinds : Accept(s, id, kind)

\* The messages stay, on their queue or on a dead-letter queue of the service,
\* but for those a settlement deletes.
Moving ==
  /\ UNCHANGED <<inbox, begun, arrived, sends>>
  /\ acked \subseteq acked' /\ dropped \subseteq dropped'
  /\ \A f \in store' : \E e \in store :
       f.m = e.m /\ (f.queue = e.queue \/ f.queue \in Dead)
  /\ \A e \in store :
       (\E f \in store' : f.m = e.m) \/ \E r \in acked' \cup dropped' : r.m = e.m
  /\ \A r \in dropped' : r \in dropped \/
       (Registration(r.queue).max # None => r.receives < Registration(r.queue).max)

Receiving ==
  /\ UNCHANGED <<begun, arrived, sends, acked, dropped>>
  /\ \E es \in SUBSET store :
       /\ Batch(es)
       /\ \A f \in store' : \E e \in store : f.m = e.m /\ f.queue = e.queue
       /\ \A e \in store : \E f \in store' : f.m = e.m
       /\ \A d \in inbox' : d \in inbox \/ \E e \in es : d.m = e.m /\ d.queue = e.queue
       /\ \A e \in es : \E d \in inbox' : d.m = e.m /\ d.queue = e.queue
       /\ inbox \subseteq inbox'

Beginning ==
  /\ UNCHANGED <<store, arrived, sends, acked, dropped>>
  /\ \E d \in inbox : Begin(d)

LEMMA StartupKinds ==
  ASSUME WorkInv, Startup
  PROVE  Quiet \/ Accepting
<1>1. CASE Start \/ Open \/ OpenFails
  BY <1>1 DEF Start, Open, OpenFails, account, history, Quiet
<1>2. CASE Hook
  <2> DEFINE h == Hooking[hooked + 1]
  <2>1. UNCHANGED <<acked, dropped, begun>>
    BY <1>2 DEF Hook
  <2>2. CASE /\ h \in ReplayHooks
             /\ Accept(h.send, MaxInputs[name], CHOOSE k \in Kinds : TRUE)
             /\ UNCHANGED <<phase, inbox, running, links, faults>>
    <3>1. h.send \in Sends /\ MaxInputs[name] \in Nat
      BY <2>2, ServiceFacts DEF ReplayHooks, WorkInv, TypeOK
    <3>2. (CHOOSE k \in Kinds : TRUE) \in Kinds
      BY KindAssumption
    <3> HIDE DEF h
    <3> QED BY <2>1, <2>2, <3>1, <3>2 DEF Accepting
  <2>3. CASE UNCHANGED <<store, seen, sends, arrived>> /\ (inbox' = inbox \/ inbox' = {})
    BY <2>1, <2>3 DEF Quiet
  <2> QED BY <1>2, <2>2, <2>3 DEF Hook
<1> QED BY <1>1, <1>2 DEF Startup

LEMMA ReceiveKind ==
  ASSUME WorkInv, NEW es \in SUBSET store, Receive(es)
  PROVE  Receiving
<1> DEFINE T(e) == [e EXCEPT !.receives = Least(e.receives + 1, MaxReceives), !.hidden = TRUE]
           D(t) == [m |-> t.m, queue |-> t.queue, receives |-> t.receives]
<1>1. \A e \in store : T(e).m = e.m /\ T(e).queue = e.queue
  <2>1. \A e \in store : e \in Entries
    BY DEF WorkInv, TypeOK
  <2> QED BY <2>1 DEF Entries
<1>2. \A t : D(t).m = t.m /\ D(t).queue = t.queue
  OBVIOUS
<1>3. /\ store' = (store \ es) \cup {T(e) : e \in es}
      /\ inbox' = inbox \cup {D(t) : t \in {T(e) : e \in es}}
      /\ Batch(es) /\ UNCHANGED <<begun, arrived, sends, acked, dropped>>
  BY DEF Receive, history
<1> HIDE DEF T, D
<1>4. /\ \A f \in store' : \E e \in store : f.m = e.m /\ f.queue = e.queue
      /\ \A e \in store : \E f \in store' : f.m = e.m
  BY <1>1, <1>3
<1>5. /\ \A d \in inbox' : d \in inbox \/ \E e \in es : d.m = e.m /\ d.queue = e.queue
      /\ inbox \subseteq inbox'
  BY <1>1, <1>2, <1>3
<1>6. ASSUME NEW e \in es PROVE \E d \in inbox' : d.m = e.m /\ d.queue = e.queue
  <2>1. D(T(e)) \in inbox'
    BY <1>3
  <2> QED BY <1>1, <1>2, <2>1
<1> QED BY <1>3, <1>4, <1>5, <1>6 DEF Receiving

LEMMA QueueKinds ==
  ASSUME WorkInv, PoliciesNamed, NEW e \in store, MoveSpent(e) \/ Lapse(e)
  PROVE  Moving
<1>1. e \in Entries
  BY DEF WorkInv, TypeOK
<1>2. UNCHANGED <<inbox, begun, arrived, sends, acked, dropped>>
  BY DEF MoveSpent, Lapse, process, history
<1>3. \E f : /\ store' = (store \ {e}) \cup {f} /\ f.m = e.m
             /\ f.queue = e.queue \/ f.queue \in Dead
  <2>1. CASE MoveSpent(e)
    <3> DEFINE f == [e EXCEPT !.queue = policies[e.queue].dead, !.receives = 0]
    <3>1. e.queue \in Queues
      BY <1>1 DEF Entries
    <3>2. policies[e.queue].dead \in Dead
      BY <2>1, <3>1 DEF PoliciesNamed, MoveSpent, Spent
    <3>3. f.m = e.m /\ f.queue = policies[e.queue].dead
      BY <1>1 DEF Entries
    <3>4. store' = (store \ {e}) \cup {f}
      BY <2>1 DEF MoveSpent
    <3> HIDE DEF f
    <3> QED BY <3>2, <3>3, <3>4
  <2>2. CASE Lapse(e)
    <3> DEFINE f == [e EXCEPT !.hidden = FALSE]
    <3>1. f.m = e.m /\ f.queue = e.queue
      BY <1>1 DEF Entries
    <3>2. store' = (store \ {e}) \cup {f}
      BY <2>2 DEF Lapse
    <3> HIDE DEF f
    <3> QED BY <3>1, <3>2
  <2> QED BY <2>1, <2>2
<1>4. PICK f : /\ store' = (store \ {e}) \cup {f} /\ f.m = e.m
               /\ f.queue = e.queue \/ f.queue \in Dead
  BY <1>3
<1>5. \A g \in store' : \E d \in store :
        g.m = d.m /\ (g.queue = d.queue \/ g.queue \in Dead)
  BY <1>4
<1>6. \A d \in store : \E g \in store' : g.m = d.m
  BY <1>4
<1> QED BY <1>2, <1>5, <1>6 DEF Moving

LEMMA SettleKinds ==
  ASSUME WorkInv, NEW r \in running, Settle(r) \/ SettleFails(r)
  PROVE  Moving \/ Quiet
<1>1. CASE SettleFails(r)
  BY <1>1 DEF SettleFails, account, history, Quiet
<1>2. CASE Settle(r)
  <2> DEFINE F(e) == [e EXCEPT !.hidden = FALSE]
             shown == {F(e) : e \in Current(r)}
             deleted == r.settle = "ack" \/ (r.settle = "drop" /\ ~Returned(r))
  <2>1. UNCHANGED <<inbox, begun, arrived, sends>>
    BY <1>2 DEF Settle
  <2>2. /\ acked' = IF r.settle = "ack" THEN acked \cup {r} ELSE acked
        /\ dropped' = IF r.settle = "drop" /\ ~Returned(r) THEN dropped \cup {r} ELSE dropped
        /\ store' \in {(store \ Current(r)) \cup shown, store} \/
             (deleted /\ store' = store \ Current(r))
    BY <1>2 DEF Settle
  <2>3. \A e \in Current(r) : e \in store /\ e.m = r.m
    BY DEF Current
  <2>4. \A e \in store : F(e).m = e.m /\ F(e).queue = e.queue
    <3>1. \A e \in store : e \in Entries
      BY DEF WorkInv, TypeOK
    <3> QED BY <3>1 DEF Entries
  <2> HIDE DEF F
  <2>5. \A f \in store' : \E e \in store : f.m = e.m /\ f.queue = e.queue
    BY <2>2, <2>3, <2>4
  <2>6. \A e \in store :
          (\E f \in store' : f.m = e.m) \/ \E x \in acked' \cup dropped' : x.m = e.m
    <3>1. CASE deleted /\ store' = store \ Current(r)
      <4>1. r \in acked' \cup dropped'
        BY <2>2, <3>1
      <4>2. \A e \in store : e \in store' \/ e.m = r.m
        BY <2>3, <3>1
      <4> QED BY <4>1, <4>2
    <3>2. CASE store' = store
      BY <3>2
    <3>3. CASE store' = (store \ Current(r)) \cup shown
      <4>1. \A e \in store : e \in store' \/ F(e) \in store'
        BY <3>3
      <4> QED BY <2>4, <4>1
    <3> QED BY <2>2, <3>1, <3>2, <3>3
  <2>7. \A x \in dropped' : x \in dropped \/
          (Registration(x.queue).max # None => x.receives < Registration(x.queue).max)
    <3> SUFFICES ASSUME r.settle = "drop", ~Returned(r), Registration(r.queue).max # None
                 PROVE  r.receives < Registration(r.queue).max
      BY <2>2
    <3>1. ~(r.receives >= Registration(r.queue).max)
      BY DEF Returned
    <3>2. r.receives \in Receives /\ r.queue \in Registered
      BY DecidedFacts DEF WorkInv
    <3>3. Registration(r.queue).max \in Receives
      <4>1. Registration(r.queue) \in Registrations
        BY <3>2, RegistrationFacts DEF WorkInv, TypeOK
      <4> QED BY <4>1 DEF Registrations
    <3> QED BY <3>1, <3>2, <3>3, BoundAssumption DEF Receives
  <2> QED BY <2>1, <2>2, <2>5, <2>6, <2>7 DEF Moving
<1> QED BY <1>1, <1>2

LEMMA HandlingKinds ==
  ASSUME WorkInv, Handling
  PROVE  Beginning \/ Accepting \/ Moving \/ Quiet
<1>1. ASSUME NEW d \in inbox, Begin(d) PROVE Beginning
  BY <1>1 DEF Begin, account, Beginning
<1>2. ASSUME NEW r \in running, Send(r) \/ SendFails(r) PROVE Accepting \/ Quiet
  <2> DEFINE s == Decided(r).send
  <2>1. /\ r.queue \in Registered /\ r.m.id \in Nat /\ r.m.kind \in Kinds
        /\ r.receives \in Receives /\ r.known \in BOOLEAN /\ Decided(r) \in Decisions
    BY DecidedFacts DEF WorkInv
  <2>2. s # None
    BY <1>2 DEF Send, SendFails, WorkInv, SendingSends
  <2>3. s \in Sends
    BY <2>1, <2>2 DEF Decisions
  <2>4. /\ UNCHANGED <<inbox, begun, acked, dropped>>
        /\ Accept(s, r.m.id, r.m.kind) \/ UNCHANGED <<store, sends, arrived>>
    BY <1>2 DEF Send, SendFails
  <2> HIDE DEF s
  <2> QED BY <2>1, <2>3, <2>4 DEF Accepting, Quiet
<1>3. ASSUME NEW r \in running, Settle(r) \/ SettleFails(r) PROVE Moving \/ Quiet
  BY <1>3, SettleKinds
<1> QED BY <1>1, <1>2, <1>3 DEF Handling

LEMMA OutsideKinds ==
  ASSUME WorkInv, Outside
  PROVE  Accepting \/ Quiet
<1>1. ASSUME NEW q \in Queues, NEW kind \in Catalogue[name].kinds, Produce(q, kind)
      PROVE  Accepting
  <2> DEFINE s == [to |-> q, group |-> "customer", named |-> FALSE, dedup |-> FALSE]
  <2>1. s \in Sends /\ kind \in Kinds
    BY ServiceFacts DEF Sends, WorkInv, TypeOK
  <2>2. PICK id \in Nat : Accept(s, id, kind)
    <3>1. Len(inputs) \in Nat /\ (inputs # <<>> => Len(inputs) - 1 \in Nat)
      BY DEF WorkInv, TypeOK
    <3> QED BY <1>1, <3>1 DEF Produce
  <2>3. UNCHANGED <<inbox, begun, acked, dropped>>
    BY <1>1 DEF Produce, process
  <2> HIDE DEF s
  <2> QED BY <2>1, <2>2, <2>3 DEF Accepting
<1>2. ASSUME NEW key \in seen, Forget(key) PROVE Quiet
  BY <1>2 DEF Forget, process, Quiet
<1>3. CASE Crash
  BY <1>3 DEF Crash, account, history, Quiet
<1> QED BY <1>1, <1>2, <1>3 DEF Outside

LEMMA NameFixed == [Next]_vars => name' = name
<1> SUFFICES ASSUME [Next]_vars PROVE name' = name
  OBVIOUS
<1>1. CASE Startup
  BY <1>1 DEF Startup, Start, Open, OpenFails, Hook
<1>2. CASE Delivering
  BY <1>2 DEF Delivering, MoveSpent, Lapse, Receive
<1>3. CASE Handling
  BY <1>3 DEF Handling, Begin, Send, SendFails, Settle, SettleFails
<1>4. CASE Outside
  BY <1>4 DEF Outside, Produce, Forget, Crash
<1> QED BY <1>1, <1>2, <1>3, <1>4 DEF Next, vars

LEMMA StepKinds ==
  ASSUME WorkInv, PoliciesNamed, [Next]_vars
  PROVE  Quiet \/ Accepting \/ Moving \/ Receiving \/ Beginning
<1>1. CASE Startup
  BY <1>1, StartupKinds
<1>2. CASE Delivering
  <2>1. ASSUME NEW e \in store, MoveSpent(e) \/ Lapse(e) PROVE Moving
    BY <2>1, QueueKinds
  <2>2. ASSUME NEW es \in SUBSET {e \in store : ~e.hidden}, Receive(es) PROVE Receiving
    <3>1. es \in SUBSET store
      OBVIOUS
    <3> QED BY <2>2, <3>1, ReceiveKind
  <2> QED BY <1>2, <2>1, <2>2 DEF Delivering
<1>3. CASE Handling
  BY <1>3, HandlingKinds
<1>4. CASE Outside
  BY <1>4, OutsideKinds
<1>5. CASE UNCHANGED vars
  BY <1>5 DEF vars, Quiet
<1> QED BY <1>1, <1>2, <1>3, <1>4, <1>5 DEF Next

LEMMA PoliciesStep ==
  ASSUME WorkInv, PoliciesNamed, [Next]_vars
  PROVE  PoliciesNamed'
<1>1. name' = name
  BY NameFixed
<1>2. Dead' = Dead
  BY <1>1 DEF Dead, Subs
<1>3. policies' = policies \/ (Open \/ OpenFails)
  <2>1. CASE Startup
    BY <2>1 DEF Startup, Start, Hook, account
  <2>2. CASE Delivering
    BY <2>2 DEF Delivering, MoveSpent, Lapse, Receive
  <2>3. CASE Handling
    BY <2>3 DEF Handling, Begin, Send, SendFails, Settle, SettleFails, account
  <2>4. CASE Outside
    BY <2>4 DEF Outside, Produce, Forget, Crash, account
  <2> QED BY <2>1, <2>2, <2>3, <2>4 DEF Next, vars
<1>4. CASE policies' = policies
  BY <1>2, <1>4 DEF PoliciesNamed
<1>5. CASE Open \/ OpenFails
  <2> DEFINE r == Subs[opened + 1]
  <2>1. policies' = policies \/ policies' = Redriven(r)
    BY <1>5 DEF Open, OpenFails
  <2>2. r \in Registrations /\ r.dead \in Dead
    <3>1. Subs \in Seq(Registrations) /\ opened \in 0..Len(Subs) /\ opened < Len(Subs)
      BY <1>5, ServiceFacts DEF Open, OpenFails, WorkInv, TypeOK
    <3>2. opened + 1 \in DOMAIN Subs
      BY <3>1
    <3> QED BY <3>1, <3>2 DEF Dead
  <2> HIDE DEF r
  <2>3. DOMAIN policies = Queues /\ r.queue \in Queues
    BY <2>2 DEF WorkInv, TypeOK, Registrations
  <2>4. ASSUME NEW q \in Queues, policies'[q] # None
        PROVE  policies'[q].dead \in Dead
    <3>1. policies'[q] = policies[q] \/ policies'[q].dead = r.dead
      BY <2>1, <2>3 DEF Redriven
    <3> QED BY <2>2, <2>4, <3>1 DEF PoliciesNamed
  <2> QED BY <1>2, <2>4 DEF PoliciesNamed
<1> QED BY <1>3, <1>4, <1>5

-----------------------------------------------------------------------------
(* Each kind of step keeps the line. *)

\* What a destination that accepts adds.
LEMMA AcceptFacts ==
  ASSUME TypeOK, Numbered, NEW s \in Sends, NEW id \in Nat, NEW kind \in Kinds,
         Accept(s, id, kind)
  PROVE  /\ arrived \subseteq arrived' /\ store \subseteq store' /\ sends' = sends + 1
         /\ \A m \in arrived' : m \in arrived \/
              (m.no = sends + 1 /\ m.id = id /\ m.to \in Reached(s.to)
                 /\ Entry(m) \in store' /\ ~Repeated(s, id))
         /\ \A m, n \in arrived' : m \notin arrived /\ n \notin arrived /\ m.to = n.to => m = n
         /\ \A e \in store' : e \in store \/
              \E m \in arrived' : m \notin arrived /\ e = Entry(m)
<1> DEFINE C(q) == [no |-> sends + 1, to |-> q, id |-> id, kind |-> kind, group |-> s.group]
           new == IF Repeated(s, id) THEN {} ELSE Copies(s, id, kind)
<1>1. /\ arrived' = arrived \cup new /\ store' = store \cup {Entry(m) : m \in new}
      /\ sends' = sends + 1
  BY DEF Accept
<1>2. \A m \in new : ~Repeated(s, id) /\ \E q \in Reached(s.to) : m = C(q)
  BY DEF Copies
<1>3. \A q : C(q).no = sends + 1 /\ C(q).to = q /\ C(q).id = id
  OBVIOUS
<1> HIDE DEF new, C
<1>4. \A m \in new : m.no = sends + 1 /\ m.id = id /\ m.to \in Reached(s.to)
  BY <1>2, <1>3
<1>5. \A m \in new : m \notin arrived
  BY <1>4 DEF Numbered, TypeOK, Messages
<1>6. \A m, n \in new : m.to = n.to => m = n
  BY <1>2, <1>3
<1>7. \A m \in arrived' : m \in arrived \/ m \in new
  BY <1>1
<1>8. \A m \in arrived' : m \in arrived \/
        (m.no = sends + 1 /\ m.id = id /\ m.to \in Reached(s.to)
           /\ Entry(m) \in store' /\ ~Repeated(s, id))
  BY <1>1, <1>2, <1>4, <1>7
<1>9. \A m, n \in arrived' : m \notin arrived /\ n \notin arrived /\ m.to = n.to => m = n
  BY <1>6, <1>7
<1>10. \A e \in store' : e \in store \/ \E m \in arrived' : m \notin arrived /\ e = Entry(m)
  BY <1>1, <1>5
<1> QED BY <1>1, <1>8, <1>9, <1>10

\* Nothing a step says of the service that runs changes.
LEMMA SameService ==
  ASSUME name' = name
  PROVE  /\ Dead' = Dead /\ Registered' = Registered
         /\ \A q : Lined(q)' = Lined(q) /\ Registration(q)' = Registration(q)
         /\ \A q : Capped(q)' = Capped(q)
BY DEF Dead, Registered, Lined, Registration, Capped, Subs, Fifo

Line == Numbered /\ AtHome /\ Behind /\ Together /\ FirstRunsInOrder

LEMMA QuietLine ==
  ASSUME Line, name' = name, UNCHANGED <<store, arrived, sends, begun>>,
         inbox' = inbox \/ inbox' = {}
  PROVE  Line'
<1>1. \A q : Lined(q)' = Lined(q)
  BY SameService
<1>2. \A m : HasBegun(m)' = HasBegun(m)
  BY DEF HasBegun
<1>3. Numbered'
  BY DEF Line, Numbered
<1>4. AtHome' /\ Behind'
  BY <1>1, <1>2 DEF Line, AtHome, Behind
<1>5. Together'
  BY <1>1, <1>2 DEF Line, Together
<1>6. FirstRunsInOrder'
  BY DEF Line, FirstRunsInOrder
<1> QED BY <1>3, <1>4, <1>5, <1>6 DEF Line

\* What has moved was on its queue before, if the service reads the queue in order.
LEMMA LinedStays ==
  ASSUME TypeOK, NEW f, Lined(f.queue), f.queue \in Dead
  PROVE  FALSE
<1>1. PICK i \in DOMAIN Subs : Subs[i].queue = f.queue
  BY DEF Lined, Registered
<1>2. PICK j \in DOMAIN Subs : Subs[j].dead = f.queue
  BY DEF Dead
<1>3. \A k, l \in DOMAIN Subs : Subs[k].queue \in FifoNames => Subs[l].dead # Subs[k].queue
  BY OrderAssumption DEF Subs, TypeOK
<1> QED BY <1>1, <1>2, <1>3 DEF Lined, Fifo

LEMMA MovingLine ==
  ASSUME TypeOK, Line, name' = name, UNCHANGED <<inbox, begun, arrived, sends>>,
         \A f \in store' : \E e \in store :
           f.m = e.m /\ (f.queue = e.queue \/ f.queue \in Dead)
  PROVE  Line'
<1>1. \A q : Lined(q)' = Lined(q)
  BY SameService
<1>2. \A m : HasBegun(m)' = HasBegun(m)
  BY DEF HasBegun
<1>3. \A f \in store' : \E e \in store : f.m = e.m
        /\ (Lined(f.queue) => f.queue = e.queue)
  BY LinedStays
<1>4. Numbered'
  BY <1>3 DEF Line, Numbered
<1>5. AtHome'
  BY <1>1, <1>3 DEF Line, AtHome
<1>6. Behind'
  BY <1>1, <1>2, <1>3 DEF Line, Behind
<1>7. Together'
  BY <1>1, <1>2, <1>3 DEF Line, Together
<1>8. FirstRunsInOrder'
  BY DEF Line, FirstRunsInOrder
<1> QED BY <1>4, <1>5, <1>6, <1>7, <1>8 DEF Line

LEMMA AcceptingLine ==
  ASSUME TypeOK, Line, name' = name, Accepting
  PROVE  Line'
<1>1. /\ \A q : Lined(q)' = Lined(q)
      /\ \A m : HasBegun(m)' = HasBegun(m)
      /\ inbox' = inbox /\ begun' = begun
  BY SameService DEF HasBegun, Accepting
<1>2. /\ arrived \subseteq arrived' /\ sends' = sends + 1
      /\ \A m \in arrived' : m \in arrived \/ m.no = sends + 1
      /\ \A m, n \in arrived' : m \notin arrived /\ n \notin arrived /\ m.to = n.to => m = n
      /\ \A e \in store' : e \in store \/ \E m \in arrived' : m \notin arrived /\ e = Entry(m)
  BY AcceptFacts DEF Accepting, Line
<1>3. /\ sends \in Nat /\ \A m \in arrived : m.no \in Nat /\ m.no <= sends
      /\ \A m \in arrived' : m \notin arrived => m.no = sends + 1
  BY <1>2 DEF TypeOK, Messages, Line, Numbered
<1>4. \A e \in store' : e \in store \/
        (e.m \in arrived' /\ e.m \notin arrived /\ e.queue = e.m.to)
  BY <1>2 DEF Entry
<1>5. Numbered'
  <2>1. \A m \in arrived' : m.no <= sends'
    BY <1>2, <1>3
  <2>2. ASSUME NEW m \in arrived', NEW n \in arrived', m.no = n.no, m.to = n.to
        PROVE  m = n
    <3>1. CASE m \in arrived /\ n \in arrived
      BY <2>2, <3>1 DEF Line, Numbered
    <3>2. CASE m \notin arrived /\ n \notin arrived
      BY <1>2, <2>2, <3>2
    <3>3. CASE (m \in arrived) # (n \in arrived)
      BY <1>3, <2>2, <3>3
    <3> QED BY <3>1, <3>2, <3>3
  <2>3. /\ \A x \in store' \cup inbox' : x.m \in arrived'
        /\ \A i \in DOMAIN begun' : begun'[i] \in arrived'
    BY <1>1, <1>2, <1>4 DEF Line, Numbered
  <2> QED BY <2>1, <2>2, <2>3 DEF Numbered
<1>6. AtHome'
  BY <1>1, <1>4 DEF Line, AtHome
<1>7. Behind'
  <2> SUFFICES ASSUME NEW x \in store' \cup inbox', Lined(x.queue), ~HasBegun(x.m),
                      NEW i \in DOMAIN begun, begun[i].to = x.m.to, begun[i].group = x.m.group
               PROVE  begun[i].no < x.m.no
    BY <1>1 DEF Behind
  <2>1. CASE x \in store \cup inbox
    BY <2>1 DEF Line, Behind
  <2>2. CASE x \notin store \cup inbox
    <3>1. x.m \in arrived' /\ x.m \notin arrived
      BY <1>1, <1>4, <2>2
    <3>2. begun[i] \in arrived
      BY DEF Line, Numbered
    <3> QED BY <1>3, <3>1, <3>2
  <2> QED BY <2>1, <2>2
<1>8. Together'
  <2> SUFFICES ASSUME NEW d \in inbox, NEW y \in store', Lined(d.queue), y.queue = d.queue,
                      y.m.group = d.m.group, y.m.no < d.m.no, ~HasBegun(y.m)
               PROVE  \E c \in inbox : c.m = y.m /\ c.queue = y.queue
    BY <1>1 DEF Together
  <2>1. CASE y \in store
    BY <2>1 DEF Line, Together
  <2>2. CASE y \notin store
    <3>1. y.m \in arrived' /\ y.m \notin arrived
      BY <1>4, <2>2
    <3>2. d.m \in arrived
      BY DEF Line, Numbered
    <3> QED BY <1>3, <3>1, <3>2
  <2> QED BY <2>1, <2>2
<1>9. FirstRunsInOrder'
  BY <1>1 DEF Line, FirstRunsInOrder
<1> QED BY <1>5, <1>6, <1>7, <1>8, <1>9 DEF Line

LEMMA ReceivingLine ==
  ASSUME TypeOK, Line, name' = name, Receiving
  PROVE  Line'
<1>1. /\ \A q : Lined(q)' = Lined(q)
      /\ \A m : HasBegun(m)' = HasBegun(m)
      /\ UNCHANGED <<begun, arrived, sends>>
  BY SameService DEF HasBegun, Receiving
<1>2. PICK es \in SUBSET store :
        /\ Batch(es)
        /\ \A f \in store' : \E e \in store : f.m = e.m /\ f.queue = e.queue
        /\ \A d \in inbox' : d \in inbox \/ \E e \in es : d.m = e.m /\ d.queue = e.queue
        /\ \A e \in es : \E d \in inbox' : d.m = e.m /\ d.queue = e.queue
        /\ inbox \subseteq inbox'
  BY DEF Receiving
<1>3. \A x \in store' \cup inbox' : \E y \in store \cup inbox : x.m = y.m /\ x.queue = y.queue
  BY <1>2
<1>4. Numbered'
  BY <1>1, <1>3 DEF Line, Numbered
<1>5. AtHome'
  BY <1>1, <1>3 DEF Line, AtHome
<1>6. Behind'
  BY <1>1, <1>3 DEF Line, Behind
<1>7. Together'
  <2> SUFFICES ASSUME NEW d \in inbox', NEW y \in store', Lined(d.queue), y.queue = d.queue,
                      y.m.group = d.m.group, y.m.no < d.m.no, ~HasBegun(y.m)
               PROVE  \E c \in inbox' : c.m = y.m /\ c.queue = y.queue
    BY <1>1 DEF Together
  <2>1. PICK y0 \in store : y.m = y0.m /\ y.queue = y0.queue
    BY <1>2
  <2>2. CASE d \in inbox
    <3>1. /\ y0.queue = d.queue /\ y0.m.group = d.m.group
          /\ y0.m.no < d.m.no /\ ~HasBegun(y0.m)
      BY <2>1
    <3>2. PICK c \in inbox : c.m = y0.m /\ c.queue = y0.queue
      BY <2>2, <3>1 DEF Line, Together
    <3> QED BY <1>2, <2>1, <3>2
  <2>3. CASE d \notin inbox
    <3>1. PICK e \in es : d.m = e.m /\ d.queue = e.queue
      BY <1>2, <2>3
    <3>2. Fifo(e.queue)
      BY <3>1 DEF Lined
    <3>3. y0 \in es
      BY <1>2, <2>1, <3>1, <3>2 DEF Batch
    <3> QED BY <1>2, <2>1, <3>3
  <2> QED BY <2>2, <2>3
<1>8. FirstRunsInOrder'
  BY <1>1 DEF Line, FirstRunsInOrder
<1> QED BY <1>4, <1>5, <1>6, <1>7, <1>8 DEF Line

\* Deliveries of one group of a FIFO queue share a lane.
LEMMA OneLane ==
  ASSUME TypeOK, NEW d, NEW x, Lined(d.queue), x.queue = d.queue, x.m.group = d.m.group
  PROVE  SameLane(d, x)
<1>1. PICK i \in DOMAIN Subs : Registration(d.queue) = Subs[i] /\ Subs[i] \in Registrations
                                 /\ Subs[i].queue = d.queue
  <2>1. PICK j \in DOMAIN Subs : Subs[j].queue = d.queue
    BY DEF Lined, Registered
  <2> DEFINE i == CHOOSE k \in DOMAIN Subs : Subs[k].queue = d.queue
  <2>2. i \in DOMAIN Subs /\ Subs[i].queue = d.queue
    BY <2>1
  <2>3. Subs[i] \in Registrations
    BY <2>2, ServiceFacts DEF TypeOK
  <2> QED BY <2>2, <2>3 DEF Registration
<1>2. Subs[i].workers # "many"
  BY <1>1, OrderAssumption DEF Subs, TypeOK, Lined, Fifo
<1>3. Registration(d.queue).workers \in {"one", "by_key"}
  BY <1>1, <1>2 DEF Registrations
<1> QED BY <1>3 DEF SameLane

LEMMA BeginningLine ==
  ASSUME TypeOK, Placed, Line, name' = name, UNCHANGED <<store, arrived, sends>>,
         NEW d \in inbox, Begin(d)
  PROVE  Line'
<1>1. \A q : Lined(q)' = Lined(q)
  BY SameService
<1>2. /\ inbox' = inbox \ {d} /\ begun \in Seq(Messages)
      /\ d.queue \in Registered /\ d.m \in arrived
  BY DEF Begin, TypeOK, Placed, Line, Numbered
<1>3. CASE ~Fifo(d.queue) \/ HasBegun(d.m)
  <2>1. begun' = begun
    BY <1>3 DEF Begin, HasBegun
  <2>2. \A m : HasBegun(m)' = HasBegun(m)
    BY <2>1 DEF HasBegun
  <2>3. Numbered' /\ FirstRunsInOrder'
    BY <1>2, <2>1 DEF Line, Numbered, FirstRunsInOrder
  <2>4. AtHome' /\ Behind'
    BY <1>1, <1>2, <2>1, <2>2 DEF Line, AtHome, Behind
  <2>5. Together'
    <3> SUFFICES ASSUME NEW b \in inbox, NEW y \in store, Lined(b.queue), y.queue = b.queue,
                        y.m.group = b.m.group, y.m.no < b.m.no, ~HasBegun(y.m)
                 PROVE  \E c \in inbox' : c.m = y.m /\ c.queue = y.queue
      BY <1>1, <1>2, <2>2 DEF Together
    <3>1. PICK c \in inbox : c.m = y.m /\ c.queue = y.queue
      BY DEF Line, Together
    <3>2. c # d
      BY <1>3, <3>1 DEF Lined
    <3> QED BY <1>2, <3>1, <3>2
  <2> QED BY <2>3, <2>4, <2>5 DEF Line
<1>4. CASE Fifo(d.queue) /\ ~HasBegun(d.m)
  <2>1. begun' = Append(begun, d.m) /\ Lined(d.queue)
    BY <1>2, <1>4 DEF Begin, HasBegun, Lined
  <2>2. /\ DOMAIN begun' = DOMAIN begun \cup {Len(begun) + 1}
        /\ \A i \in DOMAIN begun : begun'[i] = begun[i] /\ i < Len(begun) + 1
        /\ begun'[Len(begun) + 1] = d.m
        /\ \A i \in DOMAIN begun : ~(Len(begun) + 1 < i)
    BY <1>2, <2>1
  <2>3. \A m : HasBegun(m)' <=> HasBegun(m) \/ m = d.m
    BY <2>2 DEF HasBegun
  <2>4. Numbered'
    BY <1>2, <2>2 DEF Line, Numbered
  <2>5. AtHome'
    BY <1>1, <1>2 DEF Line, AtHome
  <2>6. \A i \in DOMAIN begun : begun[i].to = d.m.to /\ begun[i].group = d.m.group
          => begun[i].no < d.m.no
    BY <1>4, <2>1 DEF Line, Behind
  <2>7. FirstRunsInOrder'
    <3> SUFFICES ASSUME NEW i \in DOMAIN begun', NEW j \in DOMAIN begun', i < j,
                        begun'[i].to = begun'[j].to, begun'[i].group = begun'[j].group
                 PROVE  begun'[i].no < begun'[j].no
      BY DEF FirstRunsInOrder
    <3>1. CASE i \in DOMAIN begun /\ j \in DOMAIN begun
      BY <2>2, <3>1 DEF Line, FirstRunsInOrder
    <3>2. CASE i \in DOMAIN begun /\ j = Len(begun) + 1
      BY <2>2, <2>6, <3>2
    <3>3. CASE i = Len(begun) + 1
      <4>1. Len(begun) \in Nat
        BY <1>2
      <4>2. ~(Len(begun) + 1 < Len(begun) + 1)
        BY <4>1
      <4> QED BY <2>2, <3>3, <4>2
    <3> QED BY <2>2, <3>1, <3>2, <3>3
  <2>8. ASSUME NEW x \in store \cup inbox, Lined(x.queue), ~HasBegun(x.m), x.m # d.m,
               x.m.to = d.m.to, x.m.group = d.m.group
        PROVE  d.m.no < x.m.no
    <3>1. x.queue = d.queue
      BY <2>1, <2>8 DEF Line, AtHome
    <3>2. /\ x.m \in arrived /\ x.m.no \in Nat /\ d.m.no \in Nat
          /\ x.m.no # d.m.no
      BY <1>2, <2>8 DEF Line, Numbered, TypeOK, Messages
    <3>3. \A e \in inbox : e.queue = d.queue /\ e.m.group = d.m.group => d.m.no <= e.m.no
      BY <1>4, <2>1, OneLane DEF Begin
    <3>4. CASE x \in inbox
      BY <2>8, <3>1, <3>2, <3>3, <3>4
    <3>5. CASE x \in store
      <4> SUFFICES ASSUME x.m.no < d.m.no PROVE FALSE
        BY <3>2
      <4>1. PICK c \in inbox : c.m = x.m /\ c.queue = x.queue
        BY <2>1, <2>8, <3>1, <3>5 DEF Line, Together
      <4> QED BY <2>8, <3>1, <3>2, <3>3, <4>1
    <3> QED BY <3>4, <3>5
  <2>9. Behind'
    <3> SUFFICES ASSUME NEW x \in store \cup inbox, Lined(x.queue), ~HasBegun(x.m), x.m # d.m,
                        NEW i \in DOMAIN begun',
                        begun'[i].to = x.m.to, begun'[i].group = x.m.group
                 PROVE  begun'[i].no < x.m.no
      BY <1>1, <1>2, <2>3 DEF Behind
    <3>1. CASE i \in DOMAIN begun
      BY <2>2, <3>1 DEF Line, Behind
    <3>2. CASE i = Len(begun) + 1
      BY <2>2, <2>8, <3>2
    <3> QED BY <2>2, <3>1, <3>2
  <2>10. Together'
    <3> SUFFICES ASSUME NEW b \in inbox, NEW y \in store, Lined(b.queue), y.queue = b.queue,
                        y.m.group = b.m.group, y.m.no < b.m.no, ~HasBegun(y.m), y.m # d.m
                 PROVE  \E c \in inbox' : c.m = y.m /\ c.queue = y.queue
      BY <1>1, <1>2, <2>3 DEF Together
    <3>1. PICK c \in inbox : c.m = y.m /\ c.queue = y.queue
      BY DEF Line, Together
    <3> QED BY <1>2, <3>1
  <2> QED BY <2>4, <2>5, <2>7, <2>9, <2>10 DEF Line
<1> QED BY <1>3, <1>4

-----------------------------------------------------------------------------
(* Each kind of step loses no message and keeps the windows. *)

Kept == \A m \in arrived : Present(m)

DropsBelow == \A r \in dropped : Capped(r.queue) => r.receives < Registration(r.queue).max

LEMMA KeptStep ==
  ASSUME TypeOK, Numbered, Kept, Quiet \/ Accepting \/ Moving \/ Receiving \/ Beginning
  PROVE  Kept'
<1>1. CASE Quiet \/ Beginning
  BY <1>1 DEF Quiet, Beginning, Kept, Present
<1>2. CASE Moving
  BY <1>2 DEF Moving, Kept, Present
<1>3. CASE Receiving
  BY <1>3 DEF Receiving, Kept, Present
<1>4. CASE Accepting
  <2>1. PICK s \in Sends : \E id \in Nat, kind \in Kinds : Accept(s, id, kind)
    BY <1>4 DEF Accepting
  <2>2. PICK id \in Nat, kind \in Kinds : Accept(s, id, kind)
    BY <2>1
  <2>3. /\ store \subseteq store'
        /\ \A m \in arrived' : m \in arrived \/ Entry(m) \in store'
    BY <2>2, AcceptFacts
  <2>4. acked' = acked /\ dropped' = dropped
    BY <1>4 DEF Accepting
  <2>5. \A m : Entry(m).m = m
    BY DEF Entry
  <2>6. ASSUME NEW m \in arrived' PROVE Present(m)'
    <3>1. CASE m \in arrived
      BY <2>3, <2>4, <3>1 DEF Kept, Present
    <3>2. CASE Entry(m) \in store'
      BY <2>5, <3>2 DEF Present
    <3> QED BY <2>3, <3>1, <3>2
  <2> QED BY <2>6 DEF Kept
<1> QED BY <1>1, <1>2, <1>3, <1>4

LEMMA DropsStep ==
  ASSUME DropsBelow, name' = name, Quiet \/ Accepting \/ Moving \/ Receiving \/ Beginning
  PROVE  DropsBelow'
<1>1. \A q : Capped(q)' = Capped(q) /\ Registration(q)' = Registration(q)
  BY SameService
<1>2. \A r \in dropped' : r \in dropped \/
        (Registration(r.queue).max # None => r.receives < Registration(r.queue).max)
  BY DEF Quiet, Accepting, Moving, Receiving, Beginning
<1> QED BY <1>1, <1>2 DEF DropsBelow, Capped

-----------------------------------------------------------------------------
(* The invariant. *)

LEMMA InitLine == Init => LineInv
<1> SUFFICES ASSUME Init PROVE LineInv
  OBVIOUS
<1>1. PoliciesNamed
  BY DEF Init, PoliciesNamed
<1>2. store = {} /\ inbox = {} /\ arrived = {} /\ dropped = {} /\ begun = <<>>
  BY DEF Init
<1>3. DOMAIN begun = {}
  BY <1>2
<1> QED BY <1>1, <1>2, <1>3 DEF LineInv, Numbered, AtHome, Behind, Together, FirstRunsInOrder

LEMMA LineStep == WorkInv /\ LineInv /\ [Next]_vars => LineInv'
<1> SUFFICES ASSUME WorkInv, LineInv, [Next]_vars PROVE LineInv'
  OBVIOUS
<1>1. TypeOK /\ Placed /\ PoliciesNamed /\ Line /\ Kept /\ DropsBelow
  BY DEF WorkInv, LineInv, Line, Kept, DropsBelow
<1>2. name' = name
  BY NameFixed
<1>3. Quiet \/ Accepting \/ Moving \/ Receiving \/ Beginning
  BY <1>1, StepKinds
<1>4. Line'
  <2>1. CASE Quiet
    BY <1>1, <1>2, <2>1, QuietLine DEF Quiet
  <2>2. CASE Accepting
    BY <1>1, <1>2, <2>2, AcceptingLine
  <2>3. CASE Moving
    BY <1>1, <1>2, <2>3, MovingLine DEF Moving
  <2>4. CASE Receiving
    BY <1>1, <1>2, <2>4, ReceivingLine
  <2>5. CASE Beginning
    BY <1>1, <1>2, <2>5, BeginningLine DEF Beginning
  <2> QED BY <1>3, <2>1, <2>2, <2>3, <2>4, <2>5
<1>5. PoliciesNamed'
  BY <1>1, PoliciesStep
<1>6. Kept' /\ DropsBelow'
  BY <1>1, <1>2, <1>3, KeptStep, DropsStep DEF Line
<1> QED BY <1>4, <1>5, <1>6 DEF LineInv, Line, Kept, DropsBelow

-----------------------------------------------------------------------------
(* One message for an input. *)

\* What a service does for a queue that is said to get one message per input: a
\* handler sends there, every send of a handler there names the id of its input,
\* and no hook fills it.
IdsNamed ==
  \A s \in DOMAIN Catalogue : LET app == Catalogue[s] IN \A q \in Idempotent[s] :
    /\ \E i \in DOMAIN app.subs : \E c \in Kinds \X Receives \X BOOLEAN :
         app.subs[i].handler[c].send # None /\ app.subs[i].handler[c].send.to = q
    /\ \A i \in DOMAIN app.subs : \A c \in Kinds \X Receives \X BOOLEAN :
         LET send == app.subs[i].handler[c].send IN
         send # None /\ send.to = q => send.dedup
    /\ \A i \in DOMAIN app.hooks :
         /\ app.hooks[i] \in LinkHooks => app.hooks[i].queue # q
         /\ app.hooks[i] \in ReplayHooks => app.hooks[i].send.to # q

\* No topic copies its messages to such a queue.
Unlinked == \A l \in links : l[2] \notin Idempotent[name]

\* The id of a message there is remembered until it is forgotten.
Remembered ==
  \A m \in arrived : m.to \in Idempotent[name] => <<m.to, m.id>> \in seen \cup forgotten

\* An id that is remembered, or was accepted, is that of a message there.
Landed ==
  \A q \in Idempotent[name], id \in Nat :
    <<q, id>> \in seen \/ <<id, q>> \in sent => \E m \in arrived : m.to = q /\ m.id = id

OneEach ==
  \A m, n \in arrived :
    m.to \in Idempotent[name] /\ m.to = n.to /\ m.id = n.id /\ m # n
      => <<m.to, m.id>> \in forgotten

InputInv == Unlinked /\ Remembered /\ Landed /\ OneEach

\* A destination accepts a message, which names its id where it has to.
Sending ==
  /\ UNCHANGED <<links, forgotten>>
  /\ \E s \in Sends : \E id \in Nat, kind \in Kinds :
       Accept(s, id, kind) /\ (s.to \in Idempotent[name] => s.dedup)

\* Nothing is accepted; a link may be made and a window may pass.
Resting ==
  /\ UNCHANGED <<sent, arrived>>
  /\ links' = links \/ \E l : links' = links \cup {l} /\ l[2] \notin Idempotent[name]
  /\ \/ UNCHANGED <<seen, forgotten>>
     \/ \E key \in seen : seen' = seen \ {key} /\ forgotten' = forgotten \cup {key}

LEMMA HandlerNames ==
  ASSUME IdsNamed, TypeOK, NEW q \in Registered, NEW k \in Kinds, NEW n \in Receives,
         NEW w \in BOOLEAN, Decision(q, k, n, w).send # None,
         Decision(q, k, n, w).send.to \in Idempotent[name]
  PROVE  Decision(q, k, n, w).send.dedup
<1>1. PICK i \in DOMAIN Subs : Registration(q) = Subs[i]
  BY RegistrationFacts DEF TypeOK
<1> DEFINE c == <<k, n, w>>
<1>2. c \in Kinds \X Receives \X BOOLEAN
  OBVIOUS
<1>3. Decision(q, k, n, w) = Subs[i].handler[c]
  BY <1>1 DEF Decision
<1> HIDE DEF c
<1>4. \A p \in Idempotent[name] : \A b \in Kinds \X Receives \X BOOLEAN :
        Subs[i].handler[b].send # None /\ Subs[i].handler[b].send.to = p
          => Subs[i].handler[b].send.dedup
  BY DEF IdsNamed, Subs, TypeOK
<1> QED BY <1>2, <1>3, <1>4, Zenon

\* Nobody outside sends to a queue that a handler fills.
LEMMA InputsElsewhere ==
  ASSUME IdsNamed, TypeOK, NEW q \in InputQueues
  PROVE  q \notin Idempotent[name]
<1> SUFFICES ASSUME q \in Idempotent[name] PROVE q \in Filled
  BY DEF InputQueues
<1>1. PICK i \in DOMAIN Subs : \E c \in Kinds \X Receives \X BOOLEAN :
        Subs[i].handler[c].send # None /\ Subs[i].handler[c].send.to = q
  BY ZenonT(60) DEF IdsNamed, Subs, TypeOK
<1>2. PICK c \in Kinds \X Receives \X BOOLEAN :
        Subs[i].handler[c].send # None /\ Subs[i].handler[c].send.to = q
  BY <1>1
<1>3. DOMAIN Subs[i].handler = Kinds \X Receives \X BOOLEAN
  <2>1. Subs[i] \in Registrations
    BY <1>1, ServiceFacts DEF TypeOK
  <2>2. Subs[i].handler \in Handlers
    BY <2>1 DEF Registrations
  <2> QED BY <2>2 DEF Handlers
<1> DEFINE all == UNION {{Subs[j].handler[b] : b \in DOMAIN Subs[j].handler} : j \in DOMAIN Subs}
<1>4. Subs[i].handler[c] \in all
  BY <1>1, <1>2, <1>3
<1>5. q \in Destinations
  <2>1. Destinations = {d.send.to : d \in {e \in all : e.send # None}}
    BY DEF Destinations
  <2> HIDE DEF all
  <2> QED BY <1>2, <1>4, <2>1
<1>6. q \in Queues
  BY IdempotentAssumption DEF TypeOK
<1> QED BY <1>5, <1>6 DEF Filled

LEMMA InputKinds ==
  ASSUME IdsNamed, WorkInv, [Next]_vars
  PROVE  Sending \/ Resting
<1>1. CASE Startup
  <2>1. CASE Start \/ Open \/ OpenFails
    BY <2>1 DEF Start, Open, OpenFails, account, history, Resting
  <2>2. CASE Hook
    <3> DEFINE h == Hooking[hooked + 1]
    <3>1. hooked + 1 \in DOMAIN Hooking /\ UNCHANGED forgotten
      <4>1. Hooking \in Seq(Hooks) /\ hooked \in 0..Len(Hooking) /\ hooked < Len(Hooking)
        BY <2>2, ServiceFacts DEF WorkInv, TypeOK, Hook
      <4> QED BY <2>2, <4>1 DEF Hook
    <3>2. \A q \in Idempotent[name] :
            (h \in LinkHooks => h.queue # q) /\ (h \in ReplayHooks => h.send.to # q)
      <4>1. \A i \in DOMAIN Hooking : \A q \in Idempotent[name] :
              /\ Hooking[i] \in LinkHooks => Hooking[i].queue # q
              /\ Hooking[i] \in ReplayHooks => Hooking[i].send.to # q
        BY DEF IdsNamed, Hooking, WorkInv, TypeOK
      <4> QED BY <3>1, <4>1
    <3>3. CASE /\ h \in LinkHooks /\ links' = links \cup {<<h.topic, h.queue>>}
               /\ UNCHANGED <<seen, sent, arrived>>
      <4> DEFINE l == <<h.topic, h.queue>>
      <4>1. l[2] \notin Idempotent[name] /\ links' = links \cup {l}
        BY <3>2, <3>3
      <4> HIDE DEF l, h
      <4> QED BY <3>1, <3>3, <4>1 DEF Resting
    <3>4. CASE /\ h \in ReplayHooks /\ UNCHANGED links
               /\ Accept(h.send, MaxInputs[name], CHOOSE k \in Kinds : TRUE)
      <4>1. h.send \in Sends /\ MaxInputs[name] \in Nat
        BY <3>4, ServiceFacts DEF ReplayHooks, WorkInv, TypeOK
      <4>2. (CHOOSE k \in Kinds : TRUE) \in Kinds
        BY KindAssumption
      <4>3. h.send.to \notin Idempotent[name]
        BY <3>2, <3>4
      <4> HIDE DEF h
      <4> QED BY <3>1, <3>4, <4>1, <4>2, <4>3 DEF Sending
    <3>5. CASE UNCHANGED <<links, seen, sent, arrived>>
      BY <3>1, <3>5 DEF Resting
    <3> QED BY <2>2, <3>3, <3>4, <3>5 DEF Hook
  <2> QED BY <1>1, <2>1, <2>2 DEF Startup
<1>2. CASE Delivering
  BY <1>2 DEF Delivering, MoveSpent, Lapse, Receive, process, history, Resting
<1>3. CASE Handling
  <2>1. ASSUME NEW d \in inbox, Begin(d) PROVE Resting
    BY <2>1 DEF Begin, account, Resting
  <2>2. ASSUME NEW r \in running, Send(r) \/ SendFails(r) PROVE Sending \/ Resting
    <3> DEFINE s == Decided(r).send
    <3>1. /\ r.queue \in Registered /\ r.m.id \in Nat /\ r.m.kind \in Kinds
          /\ r.receives \in Receives /\ r.known \in BOOLEAN /\ Decided(r) \in Decisions
      BY DecidedFacts DEF WorkInv
    <3>2. s # None
      BY <2>2 DEF Send, SendFails, WorkInv, SendingSends
    <3>3. s \in Sends
      BY <3>1, <3>2 DEF Decisions
    <3>4. s.to \in Idempotent[name] => s.dedup
      BY <3>1, <3>2, HandlerNames DEF Decided, WorkInv
    <3>5. /\ UNCHANGED <<links, forgotten>>
          /\ Accept(s, r.m.id, r.m.kind) \/ UNCHANGED <<seen, sent, arrived>>
      BY <2>2 DEF Send, SendFails
    <3> HIDE DEF s
    <3> QED BY <3>1, <3>3, <3>4, <3>5 DEF Sending, Resting
  <2>3. ASSUME NEW r \in running, Settle(r) \/ SettleFails(r) PROVE Resting
    BY <2>3 DEF Settle, SettleFails, account, history, Resting
  <2> QED BY <1>3, <2>1, <2>2, <2>3 DEF Handling
<1>4. CASE Outside
  <2>1. ASSUME NEW q \in Queues, NEW kind \in Catalogue[name].kinds, Produce(q, kind)
        PROVE  Sending
    <3> DEFINE s == [to |-> q, group |-> "customer", named |-> FALSE, dedup |-> FALSE]
    <3>1. s \in Sends /\ kind \in Kinds
      BY ServiceFacts DEF Sends, WorkInv, TypeOK
    <3>2. PICK id \in Nat : Accept(s, id, kind)
      <4>1. Len(inputs) \in Nat /\ (inputs # <<>> => Len(inputs) - 1 \in Nat)
        BY DEF WorkInv, TypeOK
      <4> QED BY <2>1, <4>1 DEF Produce
    <3>3. UNCHANGED <<links, forgotten>> /\ q \in InputQueues
      BY <2>1 DEF Produce
    <3>4. s.to \notin Idempotent[name]
      BY <3>3, InputsElsewhere DEF WorkInv
    <3> HIDE DEF s
    <3> QED BY <3>1, <3>2, <3>3, <3>4 DEF Sending
  <2>2. ASSUME NEW key \in seen, Forget(key) PROVE Resting
    BY <2>2 DEF Forget, Resting
  <2>3. CASE Crash
    BY <2>3 DEF Crash, account, history, Resting
  <2> QED BY <1>4, <2>1, <2>2, <2>3 DEF Outside
<1>5. CASE UNCHANGED vars
  BY <1>5 DEF vars, Resting
<1> QED BY <1>1, <1>2, <1>3, <1>4, <1>5 DEF Next

LEMMA RestingInput ==
  ASSUME InputInv, name' = name, Resting
  PROVE  InputInv'
<1>1. /\ sent' = sent /\ arrived' = arrived /\ seen' \subseteq seen
      /\ forgotten \subseteq forgotten' /\ seen \cup forgotten \subseteq seen' \cup forgotten'
  BY DEF Resting
<1>2. Unlinked'
  BY DEF InputInv, Unlinked, Resting
<1>3. Remembered' /\ Landed' /\ OneEach'
  BY <1>1 DEF InputInv, Remembered, Landed, OneEach
<1> QED BY <1>2, <1>3 DEF InputInv

\* A message for such a queue comes by its own send, under an id the queue does
\* not remember.
LEMMA SendingInput ==
  ASSUME InputInv, TypeOK, Numbered, name' = name, Sending
  PROVE  InputInv'
<1> USE DEF InputInv
<1>1. PICK s \in Sends : \E id \in Nat, kind \in Kinds :
             Accept(s, id, kind) /\ (s.to \in Idempotent[name] => s.dedup)
  BY DEF Sending
<1>2. PICK id \in Nat, kind \in Kinds :
             Accept(s, id, kind) /\ (s.to \in Idempotent[name] => s.dedup)
  BY <1>1
<1>3. /\ arrived \subseteq arrived'
      /\ \A m \in arrived' : m \in arrived \/
            (m.id = id /\ m.to \in Reached(s.to) /\ ~Repeated(s, id))
      /\ \A m, n \in arrived' : m \notin arrived /\ n \notin arrived /\ m.to = n.to => m = n
  BY <1>2, AcceptFacts
<1>4. /\ seen' = seen \cup Deduplication(s, id) /\ sent' = sent \cup {<<id, s.to>>}
      /\ forgotten' = forgotten /\ links' = links
  BY <1>2 DEF Accept, Sending
<1>5. Idempotent[name] \subseteq Queues
  BY IdempotentAssumption DEF TypeOK
<1>6. ASSUME NEW m \in arrived', m \notin arrived, m.to \in Idempotent[name]
      PROVE  m.to = s.to /\ m.id = id /\ <<s.to, id>> \notin seen /\ <<s.to, id>> \in seen'
  <2>1. m.id = id /\ m.to \in Reached(s.to) /\ ~Repeated(s, id)
    BY <1>3, <1>6
  <2>2. m.to = s.to
    <3>1. CASE s.to \in Topics
      <4>1. <<s.to, m.to>> \in links
        BY <2>1, <3>1 DEF Reached
      <4> QED BY <1>6, <4>1 DEF Unlinked
    <3>2. CASE s.to \notin Topics
      BY <2>1, <3>2 DEF Reached
    <3> QED BY <3>1, <3>2
  <2>3. Deduplication(s, id) = {<<s.to, id>>}
    BY <1>2, <1>6, <2>2 DEF Deduplication
  <2> QED BY <1>4, <2>1, <2>2, <2>3 DEF Repeated
<1>7. Unlinked'
  BY <1>4 DEF Unlinked
<1>8. Remembered'
  <2> SUFFICES ASSUME NEW m \in arrived', m.to \in Idempotent[name]
               PROVE  <<m.to, m.id>> \in seen' \cup forgotten'
    BY DEF Remembered
  <2>1. CASE m \in arrived
    BY <1>4, <2>1 DEF Remembered
  <2>2. CASE m \notin arrived
    BY <1>6, <2>2
  <2> QED BY <2>1, <2>2
<1>9. OneEach'
  <2> SUFFICES ASSUME NEW m \in arrived', NEW n \in arrived', m.to \in Idempotent[name],
                      m.to = n.to, m.id = n.id, m # n
               PROVE  <<m.to, m.id>> \in forgotten
    BY <1>4 DEF OneEach
  <2>1. CASE m \in arrived /\ n \in arrived
    BY <2>1 DEF OneEach
  <2>2. CASE m \in arrived /\ n \notin arrived
    <3>1. n.to = s.to /\ n.id = id /\ <<s.to, id>> \notin seen
      BY <1>6, <2>2
    <3>2. <<m.to, m.id>> \in seen \cup forgotten
      BY <2>2 DEF Remembered
    <3> QED BY <3>1, <3>2
  <2>3. CASE m \notin arrived /\ n \in arrived
    <3>1. m.to = s.to /\ m.id = id /\ <<s.to, id>> \notin seen
      BY <1>6, <2>3
    <3>2. <<n.to, n.id>> \in seen \cup forgotten
      BY <2>3 DEF Remembered
    <3> QED BY <3>1, <3>2
  <2>4. CASE m \notin arrived /\ n \notin arrived
    BY <1>3, <2>4
  <2> QED BY <2>1, <2>2, <2>3, <2>4
<1>10. Landed'
  <2> SUFFICES ASSUME NEW q \in Idempotent[name], NEW i \in Nat,
                      <<q, i>> \in seen' \/ <<i, q>> \in sent'
               PROVE  \E m \in arrived' : m.to = q /\ m.id = i
    BY DEF Landed
  <2>1. CASE <<q, i>> \in seen \/ <<i, q>> \in sent
    BY <1>3, <2>1 DEF Landed
  <2>2. CASE ~(<<q, i>> \in seen \/ <<i, q>> \in sent)
    <3>1. q = s.to /\ i = id
      BY <1>4, <2>2 DEF Deduplication
    <3>2. s.to \notin Topics
      BY <1>5, <3>1, NameAssumption
    <3>3. ~Repeated(s, id)
      BY <2>2, <3>1 DEF Repeated, Deduplication
    <3> DEFINE m == [no |-> sends + 1, to |-> q, id |-> id, kind |-> kind, group |-> s.group]
    <3>4. m \in Copies(s, id, kind)
      BY <3>1, <3>2 DEF Copies, Reached
    <3>5. m \in arrived'
      BY <1>2, <3>3, <3>4 DEF Accept
    <3>6. m.to = q /\ m.id = i
      BY <3>1
    <3> QED BY <3>5, <3>6
  <2> QED BY <2>1, <2>2
<1> QED BY <1>7, <1>8, <1>9, <1>10

LEMMA InitInput == Init => InputInv
BY DEF Init, InputInv, Unlinked, Remembered, Landed, OneEach

LEMMA InputStep ==
  ASSUME IdsNamed, WorkInv, LineInv, InputInv, [Next]_vars
  PROVE  InputInv'
<1>1. TypeOK /\ Numbered
  BY DEF WorkInv, LineInv
<1> QED BY <1>1, NameFixed, InputKinds, RestingInput, SendingInput

-----------------------------------------------------------------------------
(* The theorems. *)

\* Every component of a service holds a value of its kind, whatever the
\* catalogue (the start, the receives and the settlements of Service).
THEOREM TypeCorrect == Spec => []TypeOK
<1>1. WorkInv => TypeOK
  BY DEF WorkInv
<1> QED BY <1>1, InitWork, StepWork, PTL DEF Spec

\* For every catalogue whose handlers keep HandlerAssumption, and for any number
\* of messages and faults: what an ack deletes has had its work done, as the
\* acknowledgement guide says of the order of work and outcome.
THEOREM DeletedAfterWork == Spec => []WorkBeforeDelete
<1>1. WorkInv => WorkBeforeDelete
  BY DEF WorkInv
<1> QED BY <1>1, InitWork, StepWork, PTL DEF Spec

\* A message of a capped queue is not lost to its failures: no drop of its last
\* receive deletes it, and it is on some queue until a settlement deletes it,
\* for any number of crashes, lapses and redrives.
THEOREM FailuresLoseNothing == Spec => []CappedNeverLost
<1>1. LineInv => CappedNeverLost
  BY DEF LineInv, CappedNeverLost, Present
<1> QED BY <1>1, InitWork, StepWork, InitLine, LineStep, PTL DEF Spec

\* A handler that names the id of its message as the deduplication id of its
\* send puts one message on the queue for an input, and does put it there: for
\* any number of repeats, redeliveries, crashes and lost answers, and until the
\* window of the id has passed.
THEOREM OnePerInput == ASSUME IdsNamed PROVE Spec => []OneMessagePerInput
<1>1. WorkInv /\ InputInv => OneMessagePerInput
  <2> SUFFICES ASSUME WorkInv, InputInv, NEW q \in Idempotent[name]
               PROVE  /\ \A m, n \in arrived :
                           m.to = q /\ n.to = q /\ m.id = n.id /\ m # n
                             => <<q, m.id>> \in forgotten
                      /\ \A r \in acked :
                           LET owed == Owed(r) IN
                           owed # None /\ owed.to = q => \E m \in arrived : m.to = q /\ m.id = r.m.id
    BY DEF OneMessagePerInput, Owed
  <2>1. \A m, n \in arrived :
          m.to = q /\ n.to = q /\ m.id = n.id /\ m # n => <<q, m.id>> \in forgotten
    BY DEF InputInv, OneEach
  <2>2. ASSUME NEW r \in acked, Owed(r) # None, Owed(r).to = q
        PROVE  \E m \in arrived : m.to = q /\ m.id = r.m.id
    <3>1. <<r.m.id, q>> \in sent
      BY <2>2, WorkIsDone DEF WorkInv, Done
    <3>2. r.m.id \in Nat
      BY DEF WorkInv, TypeOK, Runs, Messages
    <3> QED BY <3>1, <3>2 DEF InputInv, Landed
  <2> QED BY <2>1, <2>2
<1>2. WorkInv /\ LineInv /\ InputInv /\ [Next]_vars => InputInv'
  BY InputStep
<1> QED BY <1>1, <1>2, InitWork, StepWork, InitLine, LineStep, InitInput, PTL DEF Spec

\* The messages of a group of a FIFO queue begin their first runs in the order
\* they were sent, through redeliveries, restarts and several workers.
THEOREM GroupsBeginInOrder == Spec => []FirstRunsInOrder
<1>1. LineInv => FirstRunsInOrder
  BY DEF LineInv
<1> QED BY <1>1, InitWork, StepWork, InitLine, LineStep, PTL DEF Spec
=============================================================================
