----------------------------- MODULE Placement -----------------------------
(***************************************************************************)
(* Which SDK clients a request goes out through (clients.rs).  A broker    *)
(* has the home set that connect built on its runtime; a thread that runs  *)
(* another runtime gets a set of its own, so that no request waits on a    *)
(* connection only another runtime can drive.  A thread keeps its choice   *)
(* for each broker in a thread-local list, keyed by the broker's address.  *)
(*                                                                         *)
(* Threads change runtimes, end, and outlive brokers; the allocator gives  *)
(* the address of a freed broker to a later one.                           *)
(***************************************************************************)
EXTENDS Naturals, FiniteSets

CONSTANTS
  Brokers, Threads, Runtimes,
  Addresses,  \* where a broker's clients may be allocated
  None        \* no runtime, and no address

ASSUME PlacementAssumption == None \notin Runtimes \cup Addresses \cup Threads

VARIABLES
  status,   \* of each broker: new, live, or gone with its last strong reference
  runtime,  \* the runtime of each broker's connect
  address,  \* of each broker's clients
  running,  \* the runtime each thread runs now
  ended,    \* the threads whose thread-local list is gone
  entries,  \* THREAD_CLIENTS of each thread
  last,     \* history: the last request, by its broker and the set it used
  drivers   \* history: the runtimes each set was used on

vars == <<status, runtime, address, running, ended, entries, last, drivers>>

\* A set of clients: of a broker, on its runtime (None) or for one thread.
Sets == [of : Brokers, on : Threads \cup {None}]

\* An entry.  chosen is history: the runtime the placement was chosen on.
Entries == [owner : Brokers, at : Addresses, own : BOOLEAN, set : Sets, chosen : Runtimes]

Init ==
  /\ status = [b \in Brokers |-> "new"]
  /\ runtime = [b \in Brokers |-> None] /\ address = [b \in Brokers |-> None]
  /\ running \in [Threads -> Runtimes \cup {None}]
  /\ ended = {} /\ entries = [t \in Threads |-> {}] /\ last = {} /\ drivers = {}

Live(b) == status[b] = "live"

Home(b) == [of |-> b, on |-> None]

\* A plausible bug: an entry that does not keep the allocation of its broker.
FreeOnDrop(a) == \A b \in Brokers : Live(b) => address[b] # a

\* The Weak of an entry keeps the allocation.
Free(a) ==
  /\ \A b \in Brokers : Live(b) => address[b] # a
  /\ \A t \in Threads : \A e \in entries[t] : e.at # a

\* Clients::new, from connect.
Connect(b, t, a) ==
  /\ status[b] = "new" /\ running[t] # None /\ t \notin ended /\ Free(a)
  /\ status' = [status EXCEPT ![b] = "live"]
  /\ runtime' = [runtime EXCEPT ![b] = running[t]]
  /\ address' = [address EXCEPT ![b] = a]
  /\ UNCHANGED <<running, ended, entries, last, drivers>>

\* The last owner of the broker's clients goes.
Release(b) ==
  /\ Live(b)
  /\ status' = [status EXCEPT ![b] = "gone"]
  /\ UNCHANGED <<runtime, address, running, ended, entries, last, drivers>>

\* A thread comes to run another runtime, or none.
Enter(t, r) ==
  /\ t \notin ended /\ running[t] # r
  /\ running' = [running EXCEPT ![t] = r]
  /\ UNCHANGED <<status, runtime, address, ended, entries, last, drivers>>

\* The thread is torn down; what its list held is dropped.
TearDown(t) ==
  /\ t \notin ended
  /\ ended' = ended \cup {t}
  /\ entries' = [entries EXCEPT ![t] = {}]
  /\ UNCHANGED <<status, runtime, address, running, last, drivers>>

Found(t, b) == {e \in entries[t] : e.at = address[b]}

\* A plausible bug: the runtime that sent a broker's first request is its home.
PlacedAnywhere(t, b) ==
  LET own == \E s \in Threads \ {t} : Found(s, b) # {} IN
  [owner |-> b, at |-> address[b], own |-> own, chosen |-> running[t],
   set |-> IF own THEN [of |-> b, on |-> t] ELSE Home(b)]

\* The entry a thread makes on its first request through a broker.
Placed(t, b) ==
  LET own == running[t] # runtime[b] IN
  [owner |-> b, at |-> address[b], own |-> own, chosen |-> running[t],
   set |-> IF own THEN [of |-> b, on |-> t] ELSE Home(b)]

\* set_for: the home set of the broker that asks, or the entry's own set.
SetFor(b, e) == IF e.own THEN e.set ELSE Home(b)

\* Sent from a thread that has changed runtimes since it chose, that runs none,
\* or whose list is gone, a request has strayed.
Use(b, set, t, strayed) ==
  /\ last' = {[broker |-> b, set |-> set]}
  /\ drivers' = IF strayed THEN drivers ELSE drivers \cup {<<set, running[t]>>}

\* Clients::with where the list is gone, or the thread runs no runtime and has
\* not chosen.
RequestHome(t, b) ==
  /\ Live(b)
  /\ t \in ended \/ (Found(t, b) = {} /\ running[t] = None)
  /\ Use(b, Home(b), t, TRUE)
  /\ UNCHANGED <<status, runtime, address, running, ended, entries>>

\* A plausible bug: the thread drops the entries of every other broker.
KeptNone(t) == {}

\* The entries a thread keeps when it meets a new broker.
Kept(t) == {e \in entries[t] : Live(e.owner)}

\* with_placed on the first request of a thread through a broker.
RequestFirst(t, b) ==
  /\ Live(b) /\ t \notin ended /\ Found(t, b) = {} /\ running[t] # None
  /\ entries' = [entries EXCEPT ![t] = Kept(t) \cup {Placed(t, b)}]
  /\ Use(b, SetFor(b, Placed(t, b)), t, FALSE)
  /\ UNCHANGED <<status, runtime, address, running, ended>>

\* with_placed where the thread has chosen.
RequestAgain(t, b) ==
  /\ Live(b) /\ t \notin ended
  /\ \E e \in Found(t, b) : Use(b, SetFor(b, e), t, e.chosen # running[t])
  /\ UNCHANGED <<status, runtime, address, running, ended, entries>>

Request(t, b) == RequestHome(t, b) \/ RequestFirst(t, b) \/ RequestAgain(t, b)

Next ==
  \/ \E b \in Brokers, t \in Threads, a \in Addresses : Connect(b, t, a)
  \/ \E b \in Brokers : Release(b)
  \/ \E t \in Threads, r \in Runtimes \cup {None} : Enter(t, r)
  \/ \E t \in Threads : TearDown(t)
  \/ \E t \in Threads, b \in Brokers : Request(t, b)

Spec == Init /\ [][Next]_vars

-----------------------------------------------------------------------------
(* Properties. *)

\* Every component holds a value of its kind.
TypeOK ==
  /\ status \in [Brokers -> {"new", "live", "gone"}]
  /\ runtime \in [Brokers -> Runtimes \cup {None}]
  /\ address \in [Brokers -> Addresses \cup {None}]
  /\ running \in [Threads -> Runtimes \cup {None}]
  /\ ended \in SUBSET Threads
  /\ entries \in [Threads -> SUBSET Entries]
  /\ last \in SUBSET [broker : Brokers, set : Sets]
  /\ drivers \in SUBSET (Sets \X Runtimes)

\* A request goes out through clients of the broker it is for, with that
\* broker's credentials and endpoint, although the list is keyed by an address
\* the allocator may give to a later broker (ThreadEntry::owner).
OwnBroker == \A u \in last : u.set.of = u.broker

\* No two runtimes share a set, so that no request waits on a connection only
\* another runtime can drive; the exceptions are the documented ones, of
\* threads that changed runtimes after they chose, run none or are torn down.
OneRuntimePerSet == \A u, v \in drivers : u[1] = v[1] => u[2] = v[2]

\* A thread that met a new broker keeps nothing of a broker that is gone, and
\* until it ends it keeps its choice for every broker that is not: its
\* connections are neither leaked nor opened again (with_placed).
ChoiceKept ==
  [][\A t \in Threads :
       /\ \A e \in entries'[t] \ entries[t] : \A f \in entries'[t] : Live(f.owner)
       /\ t \notin ended' => \A e \in entries[t] : Live(e.owner) => e \in entries'[t]]_vars
=============================================================================
