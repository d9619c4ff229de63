-------------------------- MODULE PlacementProofs --------------------------
(***************************************************************************)
(* Placement for any number of brokers, threads, runtimes and addresses:   *)
(* a request goes out through its own broker's clients, and no two         *)
(* runtimes share a set.  Neither is inductive by itself.  The first needs *)
(* that an entry's address is its owner's and no live broker's but the     *)
(* owner's, which the Weak of the entry is there for; the second, that a   *)
(* set which was used is either a home set, used on the broker's runtime,  *)
(* or still held by the entry of its thread with the runtime it was chosen *)
(* on, unless the broker or the thread is gone and nothing uses it again.  *)
(***************************************************************************)
EXTENDS Placement, TLAPS

\* The set an entry of thread t stands for.
SetOf(t, e) == IF e.own THEN [of |-> e.owner, on |-> t] ELSE Home(e.owner)

LiveApart ==
  \A b \in Brokers : Live(b) =>
    /\ address[b] \in Addresses
    /\ \A c \in Brokers : Live(c) /\ address[b] = address[c] => b = c

EntriesOwned ==
  \A t \in Threads : \A e \in entries[t] :
    /\ status[e.owner] # "new" /\ e.at = address[e.owner] /\ e.set = SetOf(t, e)
    /\ ~e.own => e.chosen = runtime[e.owner]

EntriesApart ==
  \A t \in Threads : \A e \in entries[t] :
    /\ \A b \in Brokers : Live(b) /\ e.at = address[b] => e.owner = b
    /\ \A f \in entries[t] : e.owner = f.owner => e = f

\* The broker of a used set is not new; a home set was used on its runtime, and
\* another is its thread's, as long as the two are there.
Known(d) ==
  /\ status[d[1].of] # "new"
  /\ d[1].on = None => d[2] = runtime[d[1].of]
  /\ d[1].on # None =>
       \/ status[d[1].of] = "gone" \/ d[1].on \in ended
       \/ \E e \in entries[d[1].on] : e.own /\ e.owner = d[1].of /\ e.chosen = d[2]

DriversKnown == \A d \in drivers : Known(d)

PlacementInv ==
  /\ TypeOK /\ LiveApart /\ EntriesOwned /\ EntriesApart /\ DriversKnown
  /\ OwnBroker /\ OneRuntimePerSet

-----------------------------------------------------------------------------

LEMMA InitPlacement == Init => PlacementInv
BY DEF Init, PlacementInv, TypeOK, LiveApart, EntriesOwned, EntriesApart, DriversKnown, OwnBroker,
       OneRuntimePerSet, Live

LEMMA ConnectStep ==
  ASSUME PlacementInv, NEW b \in Brokers, NEW t \in Threads, NEW a \in Addresses, Connect(b, t, a)
  PROVE  PlacementInv'
<1> USE DEF PlacementInv
<1>1. TypeOK'
  BY DEF TypeOK, Connect
<1>2. \A c \in Brokers : /\ Live(c)' <=> (Live(c) \/ c = b)
                         /\ c # b => status'[c] = status[c] /\ address'[c] = address[c]
                                     /\ runtime'[c] = runtime[c]
  BY DEF TypeOK, Connect, Live
<1>3. status[b] = "new" /\ status'[b] = "live" /\ address'[b] = a
  BY DEF TypeOK, Connect
<1>4. UNCHANGED <<entries, last, drivers, ended>> /\ Free(a)
  BY DEF Connect
<1>5. LiveApart'
  BY <1>2, <1>3, <1>4 DEF LiveApart, Free
<1>6. \A s \in Threads : \A e \in entries[s] : e \in Entries /\ e.owner \in Brokers /\ e.owner # b
  BY <1>3 DEF TypeOK, EntriesOwned, Entries
<1>7. EntriesOwned'
  BY <1>2, <1>4, <1>6, ZenonT(60) DEF EntriesOwned, SetOf, Home
<1>8. EntriesApart'
  BY <1>2, <1>3, <1>4, <1>6 DEF EntriesApart, Free
<1>9. \A d \in drivers : d[1].of \in Brokers /\ d[1].of # b
  BY <1>3 DEF TypeOK, DriversKnown, Known, Sets
<1>10. DriversKnown'
  BY <1>2, <1>4, <1>9 DEF DriversKnown, Known
<1>11. OwnBroker' /\ OneRuntimePerSet'
  BY <1>4 DEF OwnBroker, OneRuntimePerSet
<1> QED BY <1>1, <1>5, <1>7, <1>8, <1>10, <1>11

LEMMA ReleaseStep == ASSUME PlacementInv, NEW b \in Brokers, Release(b) PROVE PlacementInv'
<1> USE DEF PlacementInv
<1>1. TypeOK'
  BY DEF TypeOK, Release
<1>2. /\ \A c \in Brokers : /\ Live(c)' => Live(c)
                            /\ status[c] # "new" => status'[c] # "new"
                            /\ status[c] = "gone" => status'[c] = "gone"
      /\ UNCHANGED <<address, runtime, entries, last, drivers, ended>>
  BY DEF TypeOK, Release, Live
<1>3. \A s \in Threads : \A e \in entries[s] : e.owner \in Brokers
  BY DEF TypeOK, Entries
<1>4. \A d \in drivers : d[1].of \in Brokers
  BY DEF TypeOK, Sets
<1>5. LiveApart'
  BY <1>2 DEF LiveApart
<1>6. EntriesOwned' /\ EntriesApart'
  BY <1>2, <1>3 DEF EntriesOwned, EntriesApart, SetOf, Home
<1>7. DriversKnown'
  BY <1>2, <1>4 DEF DriversKnown, Known
<1>8. OwnBroker' /\ OneRuntimePerSet'
  BY <1>2 DEF OwnBroker, OneRuntimePerSet
<1> QED BY <1>1, <1>5, <1>6, <1>7, <1>8

LEMMA EnterStep ==
  ASSUME PlacementInv, NEW t \in Threads, NEW r \in Runtimes \cup {None}, Enter(t, r)
  PROVE  PlacementInv'
BY DEF PlacementInv, TypeOK, Enter, LiveApart, EntriesOwned, EntriesApart, DriversKnown, Known,
       OwnBroker, OneRuntimePerSet, Live, SetOf, Home

LEMMA TearDownStep == ASSUME PlacementInv, NEW t \in Threads, TearDown(t) PROVE PlacementInv'
<1> USE DEF PlacementInv
<1>1. TypeOK'
  BY DEF TypeOK, TearDown
<1>2. /\ UNCHANGED <<status, address, runtime, last, drivers>> /\ ended' = ended \cup {t}
      /\ \A s \in Threads : entries'[s] \subseteq entries[s] /\ (s # t => entries'[s] = entries[s])
  BY DEF TypeOK, TearDown
<1>3. LiveApart' /\ OwnBroker' /\ OneRuntimePerSet'
  BY <1>2 DEF LiveApart, OwnBroker, OneRuntimePerSet, Live
<1>4. EntriesOwned' /\ EntriesApart'
  BY <1>2 DEF EntriesOwned, EntriesApart, SetOf, Home, Live
<1>5. \A d \in drivers : d[1].on \in Threads \cup {None}
  BY DEF TypeOK, Sets
<1>6. DriversKnown'
  BY <1>2, <1>5 DEF DriversKnown, Known
<1> QED BY <1>1, <1>3, <1>4, <1>6

LEMMA RequestHomeStep ==
  ASSUME PlacementInv, NEW t \in Threads, NEW b \in Brokers, RequestHome(t, b)
  PROVE  PlacementInv'
<1> USE DEF PlacementInv
<1>1. /\ UNCHANGED <<status, address, runtime, running, ended, entries, drivers>>
      /\ last' = {[broker |-> b, set |-> Home(b)]}
  BY DEF RequestHome, Use
<1>2. TypeOK' /\ OwnBroker'
  BY <1>1 DEF TypeOK, OwnBroker, Home, Sets
<1>3. LiveApart' /\ EntriesOwned' /\ EntriesApart' /\ DriversKnown' /\ OneRuntimePerSet'
  BY <1>1 DEF LiveApart, EntriesOwned, EntriesApart, DriversKnown, Known, OneRuntimePerSet, Live,
              SetOf, Home
<1> QED BY <1>2, <1>3

\* The request of a broker finds its own entry.
LEMMA FoundFacts ==
  ASSUME PlacementInv, NEW t \in Threads, NEW b \in Brokers, Live(b), NEW e \in Found(t, b)
  PROVE  /\ e \in entries[t] /\ e \in Entries /\ e.owner = b /\ e.set = SetOf(t, e)
         /\ ~e.own => e.chosen = runtime[b]
BY DEF PlacementInv, TypeOK, EntriesOwned, EntriesApart, Found

LEMMA RequestAgainStep ==
  ASSUME PlacementInv, NEW t \in Threads, NEW b \in Brokers, RequestAgain(t, b)
  PROVE  PlacementInv'
<1>1. PICK e \in Found(t, b) : Use(b, SetFor(b, e), t, e.chosen # running[t])
  BY DEF RequestAgain
<1>2. /\ UNCHANGED <<status, address, runtime, running, ended, entries>>
      /\ Live(b) /\ t \notin ended
  BY DEF RequestAgain
<1>3. /\ e \in entries[t] /\ e \in Entries /\ e.owner = b /\ e.set = SetOf(t, e)
      /\ ~e.own => e.chosen = runtime[b]
  BY <1>2, FoundFacts
<1> DEFINE set == SetFor(b, e)
<1>4. /\ set = IF e.own THEN [of |-> b, on |-> t] ELSE [of |-> b, on |-> None]
      /\ set \in Sets
  BY <1>3 DEF SetFor, SetOf, Home, Sets, Entries
<1>5. /\ set.of = b
      /\ set.on = IF e.own THEN t ELSE None
  BY <1>4
<1>6. /\ last' = {[broker |-> b, set |-> set]}
      /\ drivers' = drivers \/ drivers' = drivers \cup {<<set, e.chosen>>}
  BY <1>1 DEF Use
<1> HIDE DEF set
<1>7. e.chosen \in Runtimes
  BY <1>3 DEF Entries
<1>8. TypeOK'
  BY <1>2, <1>4, <1>6, <1>7 DEF PlacementInv, TypeOK
<1>9. OwnBroker'
  BY <1>5, <1>6 DEF OwnBroker
<1>10. LiveApart' /\ EntriesOwned' /\ EntriesApart'
  BY <1>2 DEF PlacementInv, LiveApart, EntriesOwned, EntriesApart, Live, SetOf, Home
<1>11. Known(<<set, e.chosen>>)
  <2>1. t # None /\ status[b] # "new"
    BY <1>2, PlacementAssumption DEF Live
  <2> QED BY <1>3, <1>5, <2>1 DEF Known
<1>12. DriversKnown'
  <2>1. \A d : Known(d)' <=> Known(d)
    BY <1>2 DEF Known
  <2> QED BY <1>6, <1>11, <2>1 DEF PlacementInv, DriversKnown
<1>13. \A d \in drivers : d[1] = set => d[2] = e.chosen
  <2> SUFFICES ASSUME NEW d \in drivers, d[1] = set PROVE d[2] = e.chosen
    OBVIOUS
  <2>1. Known(d)
    BY DEF PlacementInv, DriversKnown
  <2>2. CASE e.own
    <3>1. status[b] # "gone" /\ t # None
      BY <1>2, PlacementAssumption DEF Live
    <3>2. \E f \in entries[t] : f.owner = b /\ f.chosen = d[2]
      BY <1>2, <1>5, <2>1, <2>2, <3>1 DEF Known
    <3> QED BY <1>3, <3>2 DEF PlacementInv, EntriesApart
  <2>3. CASE ~e.own
    BY <1>3, <1>5, <2>1, <2>3 DEF Known
  <2> QED BY <2>2, <2>3
<1>14. OneRuntimePerSet'
  BY <1>6, <1>13 DEF PlacementInv, OneRuntimePerSet
<1> QED BY <1>8, <1>9, <1>10, <1>12, <1>14 DEF PlacementInv

LEMMA RequestFirstStep ==
  ASSUME PlacementInv, NEW t \in Threads, NEW b \in Brokers, RequestFirst(t, b)
  PROVE  PlacementInv'
<1> DEFINE new == Placed(t, b)
           set == SetFor(b, new)
           own == running[t] # runtime[b]
<1>1. /\ UNCHANGED <<status, address, runtime, running, ended>>
      /\ Live(b) /\ t \notin ended /\ Found(t, b) = {} /\ running[t] # None
      /\ entries' = [entries EXCEPT ![t] = Kept(t) \cup {new}]
      /\ last' = {[broker |-> b, set |-> set]}
      /\ drivers' = drivers \cup {<<set, running[t]>>}
  BY DEF RequestFirst, Use
<1>2. /\ address[b] \in Addresses /\ running[t] \in Runtimes /\ t # None /\ status[b] = "live"
      /\ status[b] # "gone" /\ status[b] # "new"
  BY <1>1, PlacementAssumption DEF PlacementInv, LiveApart, TypeOK, Live
<1>3. /\ new \in Entries /\ new.owner = b /\ new.at = address[b] /\ new.own = own
      /\ new.chosen = running[t] /\ new.set = SetOf(t, new)
  BY <1>2 DEF Placed, Entries, Sets, SetOf, Home
<1>4. /\ set \in Sets /\ set.of = b /\ set.on = IF own THEN t ELSE None
  <2>1. set = IF own THEN [of |-> b, on |-> t] ELSE [of |-> b, on |-> None]
    BY DEF SetFor, Placed, Home
  <2> HIDE DEF set, own
  <2>2. CASE own
    BY <2>1, <2>2 DEF Sets
  <2>3. CASE ~own
    BY <2>1, <2>3 DEF Sets
  <2> QED BY <2>2, <2>3
<1>17. PICK x, r : x = set /\ r = running[t]
  OBVIOUS
<1>5. /\ \A s \in Threads : s # t => entries'[s] = entries[s]
      /\ entries'[t] = Kept(t) \cup {new}
      /\ Kept(t) \subseteq entries[t]
  BY <1>1 DEF PlacementInv, TypeOK, Kept
<1>6. \A f \in entries[t] : f \in Entries /\ f.owner \in Brokers /\ f.owner # b
  <2>1. \A f \in entries[t] : f \in Entries /\ f.at = address[f.owner]
    BY DEF PlacementInv, TypeOK, EntriesOwned
  <2> QED BY <1>1, <2>1 DEF Found, Entries
<1> HIDE DEF new, set, own
<1>7. TypeOK'
  <2>1. entries' \in [Threads -> SUBSET Entries]
    BY <1>1, <1>3, <1>5, <1>6 DEF PlacementInv, TypeOK
  <2> QED BY <1>1, <1>2, <1>4, <2>1 DEF PlacementInv, TypeOK
<1>8. OwnBroker'
  BY <1>1, <1>4 DEF OwnBroker
<1>9. LiveApart'
  BY <1>1 DEF PlacementInv, LiveApart, Live
<1>10. EntriesOwned'
  <2>1. \A s \in Threads : \A e \in entries'[s] :
          e \in entries[s] \/ (s = t /\ e = new)
    BY <1>5
  <2>2. ~new.own => new.chosen = runtime[b]
    BY <1>3 DEF own
  <2> QED BY <1>1, <1>2, <1>3, <2>1, <2>2, ZenonT(60) DEF PlacementInv, EntriesOwned, SetOf, Home
<1>11. EntriesApart'
  <2>1. \A c \in Brokers : Live(c)' <=> Live(c)
    BY <1>1 DEF Live
  <2>2. \A c \in Brokers : Live(c) /\ new.at = address[c] => new.owner = c
    BY <1>1, <1>3 DEF PlacementInv, LiveApart
  <2> QED BY <1>1, <1>3, <1>5, <1>6, <2>1, <2>2 DEF PlacementInv, EntriesApart
<1>12. \A d \in drivers : Known(d)'
  <2> SUFFICES ASSUME NEW d \in drivers PROVE Known(d)'
    OBVIOUS
  <2>1. Known(d) /\ d[1].of \in Brokers /\ d[1].on \in Threads \cup {None}
    BY DEF PlacementInv, DriversKnown, TypeOK, Sets
  <2>2. CASE d[1].on # t
    BY <1>1, <1>5, <2>1, <2>2 DEF Known
  <2>3. CASE d[1].on = t /\ status[d[1].of] = "gone"
    BY <1>1, <1>2, <2>1, <2>3 DEF Known
  <2>4. CASE d[1].on = t /\ status[d[1].of] # "gone"
    <3>1. PICK e \in entries[t] : e.own /\ e.owner = d[1].of /\ e.chosen = d[2]
      BY <1>1, <1>2, <2>1, <2>4 DEF Known
    <3>2. Live(e.owner)
      BY <2>1, <2>4, <3>1 DEF PlacementInv, TypeOK, Known, Live
    <3>3. e \in entries'[t]
      BY <1>5, <3>2 DEF Kept
    <3> QED BY <1>1, <1>2, <2>1, <2>4, <3>1, <3>3 DEF Known
  <2> QED BY <2>2, <2>3, <2>4
<1>13. Known(<<x, r>>)'
  <2>1. CASE own
    <3>1. new \in entries'[t] /\ new.own /\ new.owner = b /\ new.chosen = running[t]
      BY <1>3, <1>5, <2>1
    <3> QED BY <1>1, <1>2, <1>4, <1>17, <2>1, <3>1 DEF Known
  <2>2. CASE ~own
    <3>1. running[t] = runtime[b]
      BY <2>2 DEF own
    <3> QED BY <1>1, <1>2, <1>4, <1>17, <2>2, <3>1 DEF Known
  <2> QED BY <2>1, <2>2
<1>14. DriversKnown'
  BY <1>1, <1>12, <1>13, <1>17 DEF DriversKnown
<1>15. \A d \in drivers : d[1] = set => d[2] = running[t]
  <2> SUFFICES ASSUME NEW d \in drivers, d[1] = set PROVE d[2] = running[t]
    OBVIOUS
  <2>1. Known(d)
    BY DEF PlacementInv, DriversKnown
  <2>2. ~own
    BY <1>1, <1>2, <1>4, <1>6, <2>1 DEF Known
  <2>3. running[t] = runtime[b]
    BY <2>2 DEF own
  <2> QED BY <1>4, <2>1, <2>2, <2>3 DEF Known
<1>16. OneRuntimePerSet'
  BY <1>1, <1>15 DEF PlacementInv, OneRuntimePerSet
<1> QED BY <1>7, <1>8, <1>9, <1>10, <1>11, <1>14, <1>16 DEF PlacementInv

LEMMA StepPlacement == PlacementInv /\ [Next]_vars => PlacementInv'
<1> SUFFICES ASSUME PlacementInv, [Next]_vars PROVE PlacementInv'
  OBVIOUS
<1>1. CASE Next
  BY <1>1, ConnectStep, ReleaseStep, EnterStep, TearDownStep, RequestHomeStep, RequestFirstStep,
     RequestAgainStep DEF Next, Request
<1>2. CASE UNCHANGED vars
  BY <1>2 DEF vars, PlacementInv, TypeOK, LiveApart, EntriesOwned, EntriesApart, DriversKnown,
              Known, OwnBroker, OneRuntimePerSet, Live, SetOf, Home
<1> QED BY <1>1, <1>2

LEMMA InductivePlacement == Spec => []PlacementInv
BY InitPlacement, StepPlacement, PTL DEF Spec

\* The lists, the addresses and the histories keep their kinds.
THEOREM PlacementTypeCorrect == Spec => []TypeOK
<1>1. PlacementInv => TypeOK
  BY DEF PlacementInv
<1> QED BY <1>1, InductivePlacement, PTL

\* Whatever brokers come and go at whatever addresses, a request goes out
\* through the clients of its own broker (with_placed).
THEOREM RequestsUseOwnBroker == Spec => []OwnBroker
<1>1. PlacementInv => OwnBroker
  BY DEF PlacementInv
<1> QED BY <1>1, InductivePlacement, PTL

\* No two runtimes send through one set, but for the requests the module
\* documents as exceptions (with, with_placed).
THEOREM SetsOfOneRuntime == Spec => []OneRuntimePerSet
<1>1. PlacementInv => OneRuntimePerSet
  BY DEF PlacementInv
<1> QED BY <1>1, InductivePlacement, PTL

\* A thread keeps its choice for a live broker, and nothing of brokers that are
\* gone once it meets a new one (with_placed).
THEOREM ChoicesAreKept == Spec => ChoiceKept
<1> DEFINE Step ==
      \A t \in Threads :
        /\ \A e \in entries'[t] \ entries[t] : \A f \in entries'[t] : Live(f.owner)
        /\ t \notin ended' => \A e \in entries[t] : Live(e.owner) => e \in entries'[t]
<1>1. PlacementInv /\ Next => Step
  <2> SUFFICES ASSUME PlacementInv, Next PROVE Step
    OBVIOUS
  <2>1. CASE UNCHANGED entries
    BY <2>1
  <2>2. ASSUME NEW t \in Threads, TearDown(t) PROVE Step
    BY <2>2 DEF TearDown, PlacementInv, TypeOK
  <2>3. ASSUME NEW t \in Threads, NEW b \in Brokers, RequestFirst(t, b) PROVE Step
    <3>1. /\ \A s \in Threads : s # t => entries'[s] = entries[s]
          /\ entries'[t] = Kept(t) \cup {Placed(t, b)} /\ Live(b)
      BY <2>3 DEF RequestFirst, PlacementInv, TypeOK
    <3>2. Placed(t, b).owner = b
      BY DEF Placed
    <3>3. \A f \in entries'[t] : Live(f.owner)
      BY <3>1, <3>2 DEF Kept
    <3> QED BY <3>1, <3>3 DEF Kept
  <2> QED BY <2>1, <2>2, <2>3
          DEF Next, Connect, Release, Enter, Request, RequestHome, RequestAgain
<1>2. PlacementInv /\ [Next]_vars => [Step]_vars
  BY <1>1
<1> QED BY <1>2, InductivePlacement, PTL DEF Spec, ChoiceKept
=============================================================================
