--------------------------- MODULE ExtenderProofs ---------------------------
(***************************************************************************)
(* Extender for every length of a second, window, margin and timeout, and  *)
(* every delay of calls and timers that TripAssumption allows.             *)
(*                                                                         *)
(* None of the properties is inductive: each speaks of a moment, and what  *)
(* makes it true was decided at an earlier one.  InTime carries the window *)
(* from when an extension is worked out to when its call lands; HoldSound  *)
(* says, phase by phase, how long the message stays hidden; Exact says the *)
(* same of calls that take no time, where the extensions fall on multiples *)
(* of the period.                                                          *)
(***************************************************************************)
EXTENDS Extender, TLAPS

\* The end of the window as the task counts it.
Usable == Window - Margin

\* What the extension worked out at t comes to: it fits into the window, is a
\* full timeout unless it is the last, and the last comes up to a second short.
Worked(t) ==
  /\ rearm.seconds > 0 => (t - asked) + Second * rearm.seconds <= Usable
  /\ ~rearm.last => Second * rearm.seconds = visibility
  /\ rearm.last => /\ (t - asked) + Second * rearm.seconds > Usable - Second
                   /\ Second * rearm.seconds <= visibility

\* A call was sent in time, is not overdue, and fitted when it was sent.
CallInTime(s) ==
  /\ wire[s].sent <= now /\ now <= wire[s].sent + MaxTrip
  /\ wire[s].v > 0 => (wire[s].sent - asked) + wire[s].v <= Usable

InTime ==
  /\ asked <= received /\ received <= now
  /\ \A s \in Senders : wire[s] # None => CallInTime(s)
  /\ ext.phase = "woken" => ext.at = now /\ Worked(now)

\* What a delivery that is held says about the calls.
Calls ==
  /\ ext.phase = "asleep" => ~rearm.last
  /\ handle = "held" =>
       /\ wire["settlement"] = None
       /\ (wire["extender"] # None) <=> ext.phase = "waiting"

\* The last extension has taken the message up to the end of the window.
TakenToTheEnd ==
  \/ Elapsed >= Usable - Second
  \/ queue = "hidden" /\ deadline - asked > Usable - Second

\* How long the message stays hidden, phase by phase.
Covered ==
  /\ ext.phase = "asleep" =>
       /\ queue = "hidden" /\ now <= ext.at + MaxLate
       /\ deadline + MaxTrip >= ext.at + Period(visibility)
  /\ ext.phase = "woken" =>
       /\ queue = "hidden"
       /\ deadline + MaxTrip + MaxLate >= now + Period(visibility)
  /\ ext.phase = "waiting" =>
       /\ queue = "hidden" /\ Worked(wire["extender"].sent)
       /\ wire["extender"].v = Second * rearm.seconds /\ rearm.seconds > 0
       /\ ~wire["extender"].delete
       /\ deadline + MaxTrip + MaxLate >= wire["extender"].sent + Period(visibility)
  /\ ext.phase = "answered" /\ ~rearm.last =>
       /\ queue = "hidden" /\ now <= ext.at + MaxTrip
       /\ deadline = ext.at + visibility
  /\ ext.phase = "answered" /\ rearm.last => TakenToTheEnd
  /\ ext.phase = "ended" => TakenToTheEnd

HoldSound == handle = "held" /\ failures = 0 /\ visibility # 0 => Covered

Multiple(x) == \E k \in Nat : x = k * Period(visibility)

\* A last extension worked out x after the receive ends within the window, and
\* within a second of its end.
EndsFrom(x) ==
  /\ deadline - asked <= x + visibility
  /\ deadline - asked <= Usable /\ Usable < deadline - asked + Second

\* Where the deadline is when neither calls nor timers take time.
OnTheGrid ==
  /\ ext.phase = "asleep" =>
       LET from == ext.at - Period(visibility)
       IN  /\ Multiple(from - asked) /\ from <= now /\ now <= ext.at
           /\ deadline = from + visibility /\ deadline - asked <= Usable
  /\ ext.phase = "woken" =>
       /\ Multiple(Elapsed)
       /\ deadline = now + Period(visibility) /\ deadline - asked <= Usable
  /\ ext.phase = "waiting" => Multiple(Elapsed) /\ wire["extender"].sent = now
  /\ ext.phase = "answered" =>
       /\ Multiple(Elapsed) /\ ext.at = now
       /\ ~rearm.last => deadline = now + visibility /\ deadline - asked <= Usable
       /\ rearm.last => EndsFrom(Elapsed)
  /\ ext.phase = "ended" =>
       rearm.last /\ \E x \in Nat : Multiple(x) /\ x <= Elapsed /\ EndsFrom(x)

Exact ==
  handle = "held" /\ punctual /\ failures = 0 /\ visibility # 0 /\ visibility <= Usable
  => OnTheGrid

ExtenderInv == TypeOK /\ InTime /\ Calls /\ HoldSound /\ Exact
-----------------------------------------------------------------------------
(* The arithmetic. *)

\* Division by a second, or a period, rounds down.
LEMMA RoundsDown ==
  ASSUME NEW a \in Nat, NEW b \in Nat \ {0}
  PROVE  /\ a \div b \in Nat /\ (a \div b) * b \in Nat
         /\ (a \div b) * b <= a /\ a < (a \div b) * b + b
OBVIOUS

LEMMA ProductIsNat ==
  ASSUME NEW a \in Nat, NEW b \in Nat
  PROVE  a * b \in Nat /\ a * b = b * a /\ (a + 1) * b = a * b + b
OBVIOUS

LEMMA ProductIsMonotone ==
  ASSUME NEW a \in Nat, NEW b \in Nat, NEW c \in Nat, a <= b
  PROVE  a * c <= b * c
OBVIOUS

LEMMA DividesExactly ==
  ASSUME NEW a \in Nat, NEW b \in Nat \ {0}, a % b = 0
  PROVE  (a \div b) * b = a
OBVIOUS

LEMMA HalfOfEven ==
  ASSUME NEW a \in Nat, a % 2 = 0
  PROVE  a \div 2 \in Nat /\ a = 2 * (a \div 2)
OBVIOUS

\* The constants' types, spelled out.
LEMMA Constants ==
  /\ Second \in Nat \ {0} /\ Usable \in Nat /\ Usable + Margin = Window
  /\ MaxTrip \in Nat /\ MaxLate \in Nat /\ MaxPoll \in Nat
  /\ Margin \in Nat /\ MaxTrip <= Margin
BY WindowAssumption, CallAssumption, TripAssumption DEF Usable

\* A period is half a timeout, and longer than a timer and a round trip are late.
LEMMA PeriodIsHalf ==
  ASSUME NEW v \in Visibilities
  PROVE  /\ v \in Nat /\ Period(v) \in Nat /\ v = 2 * Period(v)
         /\ v # 0 => Period(v) \in Nat \ {0} /\ MaxLate + 2 * MaxTrip < Period(v)
<1>1. v \in Nat /\ v % 2 = 0
  BY VisibilityAssumption
<1>2. v \div 2 \in Nat /\ v = 2 * (v \div 2)
  BY <1>1, HalfOfEven
<1>3. v # 0 => (v \div 2) + MaxLate + 2 * MaxTrip < v
  BY TripAssumption
<1> DEFINE h == v \div 2
<1>4. h \in Nat /\ v = 2 * h /\ (v # 0 => h + MaxLate + 2 * MaxTrip < v) /\ Period(v) = h
  BY <1>2, <1>3 DEF Period
<1> HIDE DEF h
<1> QED BY <1>1, <1>4, Constants

\* A timeout is a number of whole seconds.
LEMMA TimeoutInSeconds ==
  ASSUME NEW v \in Visibilities
  PROVE  v \div Second \in Nat /\ Second * (v \div Second) = v
<1>1. v \in Nat /\ v % Second = 0
  BY VisibilityAssumption
<1>2. v \div Second \in Nat /\ (v \div Second) * Second = v
  BY <1>1, Constants, RoundsDown, DividesExactly
<1> QED BY <1>2, Constants, ProductIsNat

\* What is left of the window, in whole seconds: none past its end, and up to a
\* second short of it before.
LEMMA LeftOfWindow ==
  ASSUME NEW held \in Nat
  PROVE  /\ SecondsLeft(held) \in Nat
         /\ Second * SecondsLeft(held) \in Nat
         /\ SecondsLeft(held) > 0 => held + Second * SecondsLeft(held) <= Usable
         /\ held + Second * SecondsLeft(held) > Usable - Second
<1> DEFINE left == Minus(Usable, held)
           l    == left \div Second
<1>1. /\ left \in Nat
      /\ held <= Usable => left = Usable - held
      /\ held > Usable => left = 0
  BY Constants DEF Minus
<1>2. SecondsLeft(held) = l
  BY DEF SecondsLeft, Usable
<1> HIDE DEF left
<1>3. l \in Nat /\ l * Second \in Nat /\ l * Second <= left /\ left < l * Second + Second
  BY <1>1, Constants, RoundsDown
<1>4. l * Second = Second * l /\ (l > 0 => l * Second >= Second)
  <2>1. l * Second = Second * l
    BY <1>3, Constants, ProductIsNat
  <2>2. l > 0 => 1 * Second <= l * Second
    BY <1>3, Constants, ProductIsMonotone
  <2> QED BY <2>1, <2>2, Constants
<1> HIDE DEF l
<1> QED BY <1>1, <1>2, <1>3, <1>4, Constants

\* The extension the task works out, fitted into what is left.
LEMMA WorkedOut ==
  ASSUME TypeOK, Elapsed \in Nat
  PROVE  LET e == Extension(visibility \div Second, SecondsLeft(Elapsed))
         IN  /\ e \in Extensions
             /\ Second * e.seconds \in Nat
             /\ e.seconds > 0 => Elapsed + Second * e.seconds <= Usable
             /\ ~e.last => Second * e.seconds = visibility
             /\ e.last => /\ Elapsed + Second * e.seconds > Usable - Second
                          /\ Second * e.seconds <= visibility
<1> DEFINE full == visibility \div Second
           left == SecondsLeft(Elapsed)
<1>1. visibility \in Nat /\ full \in Nat /\ Second * full = visibility
  BY TimeoutInSeconds, PeriodIsHalf DEF TypeOK
<1>2. /\ left \in Nat /\ Second * left \in Nat
      /\ left > 0 => Elapsed + Second * left <= Usable
      /\ Elapsed + Second * left > Usable - Second
  BY LeftOfWindow
<1>3. /\ left <= full => left * Second <= full * Second
      /\ full <= left => full * Second <= left * Second
      /\ left * Second = Second * left /\ full * Second = Second * full
  BY <1>1, <1>2, Constants, ProductIsMonotone, ProductIsNat
<1> HIDE DEF full, left
<1>4. /\ full < left => Elapsed + Second * full <= Usable
      /\ ~(full < left) => Second * left <= visibility
  BY <1>1, <1>2, <1>3, Constants
<1>5. CASE full < left
  BY <1>5, <1>1, <1>2, <1>4 DEF Extension, Extensions, full, left
<1>6. CASE ~(full < left)
  BY <1>6, <1>1, <1>2, <1>4 DEF Extension, Extensions, full, left
<1> QED BY <1>5, <1>6

-----------------------------------------------------------------------------
(* The type invariant. *)

LEMMA InitTyped == Init => TypeOK
<1> SUFFICES ASSUME Init PROVE TypeOK
  OBVIOUS
<1>1. received \in Nat /\ now \in Nat /\ visibility \in Visibilities
  BY Constants DEF Init
<1>2. visibility \in Nat /\ Period(visibility) \in Nat
  BY <1>1, PeriodIsHalf
<1>3. ext \in [phase : Phases, at : Nat]
  BY <1>1, <1>2 DEF Init, TaskAt, Phases
<1> QED BY <1>1, <1>2, <1>3 DEF Init, TypeOK, Extensions

\* The calls that a settlement sends.
LEMMA SettleTyped ==
  ASSUME TypeOK, NEW delete \in BOOLEAN, NEW v \in Nat, NEW b \in Nat \cup {None},
         Settle(delete, v, b)
  PROVE  TypeOK'
<1>1. ext' \in [phase : Phases, at : Nat]
  BY DEF TypeOK, Settle, StopExtending, TaskAt, Phases
<1>2. wire' \in [Senders -> Call \cup {None}]
  BY DEF TypeOK, Settle, Call
<1> QED BY <1>1, <1>2 DEF TypeOK, Settle

\* A deferred retry is cut to the window.
LEMMA RetryFits ==
  ASSUME TypeOK, Elapsed \in Nat, NEW delay \in Delays
  PROVE  LET v == Second * Min2(WholeSeconds(delay), SecondsLeft(Elapsed))
         IN  v \in Nat /\ (v > 0 => Elapsed + v <= Usable)
<1> DEFINE asks == WholeSeconds(delay)
           left == SecondsLeft(Elapsed)
<1>1. asks \in Nat
  <2>1. delay + Second - 1 \in Nat
    BY Constants, CallAssumption
  <2> QED BY <2>1, Constants, RoundsDown DEF WholeSeconds
<1>2. /\ left \in Nat /\ Second * left \in Nat
      /\ left > 0 => Elapsed + Second * left <= Usable
  BY LeftOfWindow
<1> HIDE DEF asks, left
<1>3. CASE asks < left
  <2>1. asks * Second <= left * Second
    BY <1>1, <1>2, <1>3, Constants, ProductIsMonotone
  <2>2. asks * Second = Second * asks /\ left * Second = Second * left /\ Second * asks \in Nat
    BY <1>1, <1>2, Constants, ProductIsNat
  <2> QED BY <1>1, <1>2, <1>3, <2>1, <2>2, Constants DEF Min2, asks, left
<1>4. CASE ~(asks < left)
  <2>1. Second * left > 0 => left > 0
    BY <1>2, Constants
  <2> QED BY <1>2, <1>4, <2>1 DEF Min2, asks, left
<1> QED BY <1>3, <1>4

-----------------------------------------------------------------------------
(* The steps of the task. *)

\* What every step needs of the types.
LEMMA Times ==
  ASSUME TypeOK, InTime
  PROVE  /\ now \in Nat /\ asked \in Nat /\ received \in Nat /\ deadline \in Nat
         /\ Elapsed \in Nat /\ Elapsed = now - asked
         /\ visibility \in Nat /\ Period(visibility) \in Nat
         /\ visibility = 2 * Period(visibility)
         /\ visibility # 0 => /\ Period(visibility) \in Nat \ {0}
                              /\ MaxLate + 2 * MaxTrip < Period(visibility)
         /\ ext.at \in Nat /\ ext.phase \in Phases
         /\ rearm.seconds \in Nat /\ rearm.last \in BOOLEAN
         /\ \A s \in Senders : wire[s] # None =>
              /\ wire[s] \in Call
              /\ wire[s].sent \in Nat /\ wire[s].v \in Nat /\ wire[s].delete \in BOOLEAN
<1>1. /\ now \in Nat /\ asked \in Nat /\ received \in Nat /\ deadline \in Nat
      /\ visibility \in Visibilities
      /\ ext.at \in Nat /\ ext.phase \in Phases
      /\ rearm.seconds \in Nat /\ rearm.last \in BOOLEAN
  BY DEF TypeOK, Extensions
<1>2. \A s \in Senders : wire[s] # None =>
        /\ wire[s] \in Call
        /\ wire[s].sent \in Nat /\ wire[s].v \in Nat /\ wire[s].delete \in BOOLEAN
  BY DEF TypeOK, Call
<1>3. Elapsed \in Nat
  BY <1>1 DEF InTime, Elapsed
<1> QED BY <1>1, <1>2, <1>3, PeriodIsHalf DEF Elapsed

\* The next multiple of the period.
LEMMA NextMultiple ==
  ASSUME TypeOK, NEW x, Multiple(x)
  PROVE  x \in Nat /\ Multiple(x + Period(visibility))
<1>1. PICK k \in Nat : x = k * Period(visibility)
  BY DEF Multiple
<1>2. Period(visibility) \in Nat
  BY PeriodIsHalf DEF TypeOK
<1>3. x \in Nat /\ x + Period(visibility) = (k + 1) * Period(visibility)
  BY <1>1, <1>2, ProductIsNat
<1> QED BY <1>1, <1>3 DEF Multiple

LEMMA WakeStep ==
  ASSUME ExtenderInv, Wake
  PROVE  ExtenderInv'
<1> USE DEF ExtenderInv
<1>1. PICK e : /\ e = Extension(visibility \div Second, SecondsLeft(Elapsed))
               /\ e = rearm'
  BY DEF Wake
<1>2. /\ e \in Extensions
      /\ Second * e.seconds \in Nat
      /\ e.seconds > 0 => Elapsed + Second * e.seconds <= Usable
      /\ ~e.last => Second * e.seconds = visibility
      /\ e.last => /\ Elapsed + Second * e.seconds > Usable - Second
                   /\ Second * e.seconds <= visibility
  BY <1>1, WorkedOut, Times
<1>3. /\ ext.phase = "asleep" /\ now >= ext.at
      /\ ext'.phase = "woken" /\ ext'.at = now
  BY DEF Wake, TaskAt
<1>4. TypeOK'
  BY <1>1, <1>2, Times DEF TypeOK, Wake, TaskAt, Phases
<1>5. InTime'
  <2>1. Worked(now)'
    BY <1>1, <1>2 DEF Worked, Wake, Elapsed, Usable
  <2> QED BY <1>3, <2>1 DEF InTime, CallInTime, Wake, Usable
<1>6. Calls'
  BY <1>3 DEF Calls, Wake
<1>7. HoldSound'
  <2> SUFFICES ASSUME handle = "held", failures = 0, visibility # 0 PROVE Covered'
    BY DEF HoldSound, Wake
  <2>1. /\ queue = "hidden" /\ now <= ext.at + MaxLate
        /\ deadline + MaxTrip >= ext.at + Period(visibility)
    BY <1>3 DEF HoldSound, Covered
  <2>2. deadline + MaxTrip + MaxLate >= now + Period(visibility)
    BY <2>1, Times, Constants
  <2> QED BY <1>3, <2>1, <2>2 DEF Covered, Wake
<1>8. Exact'
  <2> SUFFICES ASSUME handle = "held", punctual, failures = 0, visibility # 0, visibility <= Usable
               PROVE  OnTheGrid'
    BY DEF Exact, Wake, Usable
  <2> DEFINE from == ext.at - Period(visibility)
  <2>1. /\ Multiple(from - asked) /\ now = ext.at
        /\ deadline = from + visibility /\ deadline - asked <= Usable
    BY <1>3, Times DEF Exact, OnTheGrid
  <2>2. Multiple((from - asked) + Period(visibility))
    BY <2>1, NextMultiple
  <2>3. Multiple(Elapsed) /\ deadline = now + Period(visibility)
    BY <2>1, <2>2, Times
  <2> QED BY <1>3, <2>1, <2>3 DEF OnTheGrid, Multiple, Elapsed, Wake, Usable
<1> QED BY <1>4, <1>5, <1>6, <1>7, <1>8

LEMMA ResumeStep ==
  ASSUME ExtenderInv, Resume
  PROVE  ExtenderInv'
<1> USE DEF ExtenderInv
<1>1. ext.phase = "answered"
  BY DEF Resume
<1>2. /\ rearm.last => ext'.phase = "ended" /\ ext'.at = now
      /\ ~rearm.last => ext'.phase = "asleep" /\ ext'.at = now + Period(visibility)
  BY DEF Resume, TaskAt
<1>4. TypeOK'
  BY Times DEF TypeOK, Resume, TaskAt, Phases
<1>5. InTime'
  BY <1>2 DEF InTime, CallInTime, Resume, Usable
<1>6. Calls'
  BY <1>1, <1>2 DEF Calls, Resume
<1>7. HoldSound'
  <2> SUFFICES ASSUME handle = "held", failures = 0, visibility # 0 PROVE Covered'
    BY DEF HoldSound, Resume
  <2>1. CASE rearm.last
    <3>1. TakenToTheEnd
      BY <1>1, <2>1 DEF HoldSound, Covered
    <3> QED BY <1>2, <2>1, <3>1 DEF Covered, TakenToTheEnd, Elapsed, Resume, Usable
  <2>2. CASE ~rearm.last
    <3>1. queue = "hidden" /\ now <= ext.at + MaxTrip /\ deadline = ext.at + visibility
      BY <1>1, <2>2 DEF HoldSound, Covered
    <3>2. /\ now <= (now + Period(visibility)) + MaxLate
          /\ deadline + MaxTrip >= (now + Period(visibility)) + Period(visibility)
      BY <3>1, Times, Constants
    <3> QED BY <1>2, <2>2, <3>1, <3>2 DEF Covered, Resume
  <2> QED BY <2>1, <2>2
<1>8. Exact'
  <2> SUFFICES ASSUME handle = "held", punctual, failures = 0, visibility # 0, visibility <= Usable
               PROVE  OnTheGrid'
    BY DEF Exact, Resume, Usable
  <2>1. /\ Multiple(Elapsed) /\ ext.at = now
        /\ ~rearm.last => deadline = now + visibility /\ deadline - asked <= Usable
        /\ rearm.last => EndsFrom(Elapsed)
    BY <1>1 DEF Exact, OnTheGrid
  <2>2. CASE rearm.last
    <3>1. Multiple(Elapsed)' /\ (Elapsed <= Elapsed)' /\ EndsFrom(Elapsed)' /\ Elapsed' \in Nat
      BY <2>1, <2>2, Times DEF Multiple, EndsFrom, Elapsed, Resume, Usable
    <3>2. \E x \in Nat : Multiple(x)' /\ x <= Elapsed' /\ EndsFrom(x)'
      BY <3>1 DEF Multiple, EndsFrom
    <3> QED BY <1>2, <2>2, <3>2 DEF OnTheGrid, Resume
  <2>3. CASE ~rearm.last
    <3>1. /\ (now + Period(visibility)) - Period(visibility) = now
          /\ now <= now + Period(visibility)
      BY Times
    <3> QED BY <1>2, <2>1, <2>3, <3>1, Times DEF OnTheGrid, Multiple, Elapsed, Resume, Usable
  <2> QED BY <2>2, <2>3
<1> QED BY <1>4, <1>5, <1>6, <1>7, <1>8

LEMMA ExtendStep ==
  ASSUME ExtenderInv, Extend
  PROVE  ExtenderInv'
<1> USE DEF ExtenderInv
<1> DEFINE call == [delete |-> FALSE, v |-> Second * rearm.seconds,
                    notBefore |-> None, sent |-> now]
<1>1. ext.phase = "woken" /\ ext.at = now /\ Worked(now)
  BY DEF Extend, InTime
<1>2. /\ now \in Nat /\ Second * rearm.seconds \in Nat /\ rearm.seconds \in Nat
      /\ rearm.seconds > 0 => Second * rearm.seconds > 0
      /\ rearm.seconds = 0 => Second * rearm.seconds = 0
  <2>1. rearm.seconds \in Nat /\ now \in Nat
    BY Times
  <2>2. Second * rearm.seconds = rearm.seconds * Second /\ Second * rearm.seconds \in Nat
    BY <2>1, Constants, ProductIsNat
  <2>3. rearm.seconds > 0 => 1 * Second <= rearm.seconds * Second
    BY <2>1, Constants, ProductIsMonotone
  <2> QED BY <2>1, <2>2, <2>3, Constants
<1>3. /\ call \in Call /\ call.sent = now /\ call.v = Second * rearm.seconds
      /\ call.delete = FALSE /\ call # None
  <2>1. call \in Call
    BY <1>2 DEF Call
  <2>2. call # None
    BY <2>1, NoCallAssumption, ZenonT(60)
  <2> QED BY <2>1, <2>2
<1> HIDE DEF call
<1>4. CASE rearm.seconds > 0
  <2>1. /\ wire' = [wire EXCEPT !["extender"] = call]
        /\ ext' = TaskAt(IF handle = "held" THEN "waiting" ELSE "ended", now)
        /\ UNCHANGED <<now, asked, received, visibility, deadline, queue, handle,
                       rearm, promise, punctual, failures>>
    BY <1>4 DEF Extend, call
  <2>2. /\ wire'["extender"] = call /\ wire'["settlement"] = wire["settlement"]
        /\ ext'.at = now
        /\ handle = "held" => ext'.phase = "waiting"
        /\ handle # "held" => ext'.phase = "ended"
    BY <2>1 DEF TypeOK, Senders, TaskAt
  <2>3. TypeOK'
    <3>1. wire' \in [Senders -> Call \cup {None}]
      BY <1>3, <2>1 DEF TypeOK
    <3> QED BY <3>1, <2>1, <1>2 DEF TypeOK, TaskAt, Phases
  <2>4. InTime'
    <3>2. CallInTime("extender")'
      BY <1>1, <1>2, <1>3, <1>4, <2>1, <2>2, Constants DEF CallInTime, Worked, Usable
    <3>3. wire["settlement"] # None => CallInTime("settlement")'
      BY <2>1, <2>2 DEF CallInTime, InTime, Senders, Usable
    <3>4. ext'.phase # "woken"
      BY <2>2
    <3> QED BY <2>1, <2>2, <3>2, <3>3, <3>4 DEF InTime, Senders, CallInTime
  <2>5. Calls'
    BY <1>3, <2>1, <2>2 DEF Calls
  <2>6. HoldSound'
    <3> SUFFICES ASSUME handle = "held", failures = 0, visibility # 0 PROVE Covered'
      BY <2>1 DEF HoldSound
    <3>1. queue = "hidden" /\ deadline + MaxTrip + MaxLate >= now + Period(visibility)
      BY <1>1 DEF HoldSound, Covered
    <3>2. Worked(wire["extender"].sent)'
      BY <1>1, <1>3, <2>1, <2>2 DEF Worked, Usable
    <3> QED BY <1>3, <1>4, <2>1, <2>2, <3>1, <3>2 DEF Covered, Worked
  <2>7. Exact'
    <3> SUFFICES ASSUME handle = "held", punctual, failures = 0, visibility # 0, visibility <= Usable
                 PROVE  OnTheGrid'
      BY <2>1 DEF Exact, Usable
    <3>1. Multiple(Elapsed)'
      BY <1>1, <2>1 DEF Exact, OnTheGrid, Multiple, Elapsed
    <3> QED BY <1>3, <2>1, <2>2, <3>1 DEF OnTheGrid
  <2> QED BY <2>3, <2>4, <2>5, <2>6, <2>7
<1>5. CASE ~(rearm.seconds > 0)
  <2>1. /\ ext' = TaskAt(IF handle = "held" THEN "answered" ELSE "ended", now)
        /\ UNCHANGED <<now, asked, received, visibility, deadline, queue, handle,
                       rearm, wire, promise, punctual, failures>>
    BY <1>5 DEF Extend
  <2>2. /\ ext'.at = now
        /\ handle = "held" => ext'.phase = "answered"
        /\ handle # "held" => ext'.phase = "ended"
    BY <2>1 DEF TaskAt
  <2>3. TypeOK'
    BY <2>1, <1>2 DEF TypeOK, TaskAt, Phases
  <2>4. InTime'
    BY <2>1, <2>2 DEF InTime, CallInTime, Usable
  <2>5. Calls'
    BY <1>1, <2>1, <2>2 DEF Calls
  <2>6. visibility # 0 => rearm.last /\ Elapsed > Usable - Second
    BY <1>1, <1>2, <1>5, Times, Constants DEF Worked
  <2>7. HoldSound'
    <3> SUFFICES ASSUME handle = "held", failures = 0, visibility # 0 PROVE Covered'
      BY <2>1 DEF HoldSound
    <3>1. TakenToTheEnd'
      BY <2>1, <2>6, Times, Constants DEF TakenToTheEnd, Elapsed, Usable
    <3> QED BY <2>1, <2>2, <2>6, <3>1 DEF Covered
  <2>8. Exact'
    <3> SUFFICES ASSUME handle = "held", punctual, failures = 0, visibility # 0, visibility <= Usable
                 PROVE  OnTheGrid'
      BY <2>1 DEF Exact, Usable
    <3>1. /\ Multiple(Elapsed)
          /\ deadline = now + Period(visibility) /\ deadline - asked <= Usable
      BY <1>1 DEF Exact, OnTheGrid
    <3>2. EndsFrom(Elapsed)
      BY <2>6, <3>1, Times, Constants DEF EndsFrom
    <3>3. Multiple(Elapsed)' /\ EndsFrom(Elapsed)'
      BY <2>1, <3>1, <3>2 DEF Multiple, EndsFrom, Elapsed, Usable
    <3> QED BY <2>1, <2>2, <2>6, <3>3 DEF OnTheGrid
  <2> QED BY <2>3, <2>4, <2>5, <2>7, <2>8
<1> QED BY <1>4, <1>5

-----------------------------------------------------------------------------
(* The steps of the settlement, after which the delivery is no longer held. *)

LEMMA SettleStep ==
  ASSUME ExtenderInv, NEW delete \in BOOLEAN, NEW v \in Nat, NEW b \in Nat \cup {None},
         v > 0 => Elapsed + v <= Usable,
         Settle(delete, v, b)
  PROVE  ExtenderInv'
<1> USE DEF ExtenderInv
<1> DEFINE call == [delete |-> delete, v |-> v, notBefore |-> b, sent |-> now]
<1>1. /\ wire' = [wire EXCEPT !["settlement"] = call]
      /\ ext' = IF ext.phase = "woken" THEN ext ELSE TaskAt("ended", now)
      /\ handle' = "settling"
      /\ UNCHANGED <<now, asked, received, visibility, deadline, queue, rearm,
                     promise, punctual, failures>>
  BY DEF Settle, StopExtending
<1>2. TypeOK'
  BY SettleTyped
<1>3. call.sent = now /\ call.v = v
  OBVIOUS
<1> HIDE DEF call
<1>4. wire'["settlement"] = call /\ wire'["extender"] = wire["extender"]
  BY <1>1 DEF TypeOK, Senders
<1>5. InTime'
  <2>1. CallInTime("settlement")'
    BY <1>1, <1>3, <1>4, Times, Constants DEF CallInTime, Elapsed, Usable
  <2>2. wire["extender"] # None => CallInTime("extender")'
    BY <1>1, <1>4 DEF InTime, CallInTime, Senders, Usable
  <2>3. ext'.phase = "woken" => ext'.at = now' /\ Worked(now)'
    BY <1>1 DEF InTime, Worked, TaskAt, Usable
  <2> QED BY <1>1, <1>4, <2>1, <2>2, <2>3 DEF InTime, Senders, CallInTime, Worked
<1>6. Calls'
  BY <1>1 DEF Calls, TaskAt
<1> QED BY <1>1, <1>2, <1>5, <1>6 DEF HoldSound, Exact

LEMMA SettlementStep ==
  ASSUME ExtenderInv,
         \/ Ack
         \/ \E requeue, spent \in BOOLEAN : Nack(requeue, spent)
         \/ \E delay \in Delays : NackAfter(delay)
  PROVE  ExtenderInv'
<1>1. CASE Ack
  <2>1. TRUE \in BOOLEAN /\ 0 \in Nat /\ None \in Nat \cup {None} /\ ~(0 > 0)
    OBVIOUS
  <2>2. Settle(TRUE, 0, None)
    BY <1>1 DEF Ack
  <2> QED BY <2>1, <2>2, SettleStep
<1>2. ASSUME NEW requeue \in BOOLEAN, NEW spent \in BOOLEAN, Nack(requeue, spent)
      PROVE  ExtenderInv'
  <2> DEFINE d == ~(requeue \/ spent)
  <2>1. d \in BOOLEAN /\ 0 \in Nat /\ None \in Nat \cup {None} /\ ~(0 > 0)
    OBVIOUS
  <2>2. Settle(d, 0, None)
    BY <1>2 DEF Nack
  <2> HIDE DEF d
  <2> QED BY <2>1, <2>2, SettleStep
<1>3. ASSUME NEW delay \in Delays, NackAfter(delay)
      PROVE  ExtenderInv'
  <2> DEFINE v == Second * Min2(WholeSeconds(delay), SecondsLeft(Elapsed))
             b == IF WholeSeconds(delay) > SecondsLeft(Elapsed) THEN None ELSE now + delay
  <2>1. v \in Nat /\ (v > 0 => Elapsed + v <= Usable)
    BY RetryFits, Times DEF ExtenderInv
  <2>2. b \in Nat \cup {None}
    BY Times, CallAssumption DEF ExtenderInv
  <2>3. Settle(FALSE, v, b)
    BY <1>3 DEF NackAfter
  <2> HIDE DEF v, b
  <2> QED BY <2>1, <2>2, <2>3, SettleStep
<1> QED BY <1>1, <1>2, <1>3

LEMMA DropStep ==
  ASSUME ExtenderInv, Drop
  PROVE  ExtenderInv'
<1> USE DEF ExtenderInv
<1>1. /\ ext' = IF ext.phase = "woken" THEN ext ELSE TaskAt("ended", now)
      /\ handle' = "gone"
      /\ UNCHANGED <<now, asked, received, visibility, deadline, queue, rearm, wire,
                     promise, punctual, failures>>
  BY DEF Drop, StopExtending
<1>2. TypeOK'
  BY <1>1 DEF TypeOK, TaskAt, Phases
<1>3. InTime'
  BY <1>1 DEF InTime, CallInTime, Worked, TaskAt, Usable
<1>4. Calls'
  BY <1>1 DEF Calls, TaskAt
<1> QED BY <1>1, <1>2, <1>3, <1>4 DEF HoldSound, Exact

-----------------------------------------------------------------------------
(* The steps of the queue, and of time. *)

\* A call that fitted when it was sent still fits when it lands: the margin
\* covers its trip.
LEMMA FitsOnLanding ==
  ASSUME TypeOK, InTime
  PROVE  NeverRefused
<1> SUFFICES ASSUME NEW s \in Senders, wire[s] # None, wire[s].v > 0
             PROVE  (now - received) + wire[s].v <= Window
  BY DEF NeverRefused
<1>1. CallInTime(s) /\ asked <= received
  BY DEF InTime
<1> QED BY <1>1, Times, Constants DEF CallInTime

LEMMA AnswerStep ==
  ASSUME TypeOK, InTime, Calls, NEW s \in Senders, wire[s] # None, Answer(s),
         UNCHANGED <<now, asked, received, visibility, rearm>>
  PROVE  /\ wire' \in [Senders -> Call \cup {None}]
         /\ ext' \in [phase : Phases, at : Nat]
         /\ handle' \in {"held", "settling", "gone"}
         /\ InTime' /\ Calls'
         /\ handle' = "held" => /\ handle = "held" /\ s = "extender" /\ ext.phase = "waiting"
                                /\ ext'.phase = "answered" /\ ext'.at = now
<1>1. /\ wire' = [wire EXCEPT ![s] = None]
      /\ ext' = IF s = "extender" /\ ext.phase = "waiting"
                THEN TaskAt("answered", now) ELSE ext
      /\ handle' = IF s = "settlement" THEN "gone" ELSE handle
  BY DEF Answer
<1>2. wire' \in [Senders -> Call \cup {None}]
  BY <1>1 DEF TypeOK
<1>3. ext' \in [phase : Phases, at : Nat]
  BY <1>1, Times DEF TypeOK, TaskAt, Phases
<1>4. handle' \in {"held", "settling", "gone"}
  BY <1>1 DEF TypeOK
<1>5. \A r \in Senders : wire'[r] = IF r = s THEN None ELSE wire[r]
  BY <1>1 DEF TypeOK
<1>6. InTime'
  <2>1. \A r \in Senders : wire'[r] # None => CallInTime(r)'
    BY <1>5 DEF InTime, CallInTime, Usable
  <2>2. ext'.phase = "woken" => ext'.at = now' /\ Worked(now)'
    BY <1>1 DEF InTime, Worked, TaskAt, Usable
  <2> QED BY <2>1, <2>2 DEF InTime
<1>7. handle' = "held" => /\ handle = "held" /\ s = "extender" /\ ext.phase = "waiting"
                          /\ ext'.phase = "answered" /\ ext'.at = now
  BY <1>1 DEF Calls, Senders, TaskAt
<1>8. Calls'
  <2>1. ext'.phase = "asleep" => ~rearm'.last
    BY <1>1 DEF Calls, TaskAt
  <2>2. handle' = "held" => wire'["settlement"] = None /\ wire'["extender"] = None
    BY <1>5, <1>7 DEF Calls, Senders
  <2> QED BY <1>7, <2>1, <2>2 DEF Calls
<1> QED BY <1>2, <1>3, <1>4, <1>6, <1>7, <1>8

LEMMA LandStep ==
  ASSUME ExtenderInv, NEW s \in Senders, Land(s)
  PROVE  ExtenderInv'
<1> USE DEF ExtenderInv
<1> DEFINE call    == wire[s]
           refused == \/ queue # "hidden"
                      \/ call.v > 0 /\ (now - received) + call.v > Window
<1>1. /\ call # None /\ Answer(s)
      /\ queue' = IF ~refused /\ call.delete THEN "deleted" ELSE queue
      /\ deadline' = IF refused \/ call.delete THEN deadline ELSE now + call.v
      /\ promise' = IF refused THEN promise
                    ELSE IF call.notBefore # None THEN call.notBefore ELSE promise
      /\ UNCHANGED <<now, asked, received, visibility, rearm, punctual, failures>>
  BY DEF Land
<1>2. /\ call \in Call /\ call.sent \in Nat /\ call.v \in Nat /\ call.delete \in BOOLEAN
      /\ call.notBefore \in Nat \cup {None}
  BY <1>1, Times DEF Call
<1>3. ~(call.v > 0 /\ (now - received) + call.v > Window)
  <2>1. call.v > 0 => (now - received) + call.v <= Window
    BY <1>1, FitsOnLanding DEF NeverRefused
  <2>2. call.v > 0 => (now - received) + call.v \in Int /\ Window \in Int
    BY <1>2, Times, WindowAssumption
  <2> QED BY <2>1, <2>2
<1>4. /\ queue = "hidden" /\ ~call.delete => queue' = "hidden" /\ deadline' = now + call.v
      /\ queue' \in {"hidden", "handedOn", "deleted"} /\ deadline' \in Nat
      /\ promise' \in Nat \cup {None}
  <2>1. queue' \in {"hidden", "handedOn", "deleted"}
    BY <1>1 DEF TypeOK
  <2>2. deadline' \in Nat
    BY <1>1, <1>2, Times
  <2>3. promise' \in Nat \cup {None}
    BY <1>1, <1>2 DEF TypeOK
  <2> QED BY <1>1, <1>3, <2>1, <2>2, <2>3
<1> HIDE DEF refused
<1>5. /\ wire' \in [Senders -> Call \cup {None}]
      /\ ext' \in [phase : Phases, at : Nat]
      /\ handle' \in {"held", "settling", "gone"}
      /\ InTime' /\ Calls'
      /\ handle' = "held" => /\ handle = "held" /\ s = "extender" /\ ext.phase = "waiting"
                             /\ ext'.phase = "answered" /\ ext'.at = now
  BY <1>1, AnswerStep
<1>6. TypeOK'
  BY <1>1, <1>4, <1>5 DEF TypeOK
<1>7. HoldSound'
  <2> SUFFICES ASSUME handle' = "held", failures = 0, visibility # 0 PROVE Covered'
    BY <1>1 DEF HoldSound
  <2>1. /\ queue = "hidden" /\ Worked(call.sent)
        /\ call.v = Second * rearm.seconds /\ rearm.seconds > 0 /\ ~call.delete
    BY <1>5 DEF HoldSound, Covered
  <2>2. queue' = "hidden" /\ deadline' = now + call.v
    BY <1>4, <2>1
  <2>3. CallInTime(s)
    BY <1>1 DEF InTime
  <2>4. ~rearm.last => deadline' = now + visibility /\ now <= now + MaxTrip
    BY <2>1, <2>2, Times, Constants DEF Worked
  <2>5. rearm.last => deadline' - asked > Usable - Second
    <3> DEFINE v == Second * rearm.seconds
    <3>1. rearm.last => (call.sent - asked) + v > Usable - Second
      BY <2>1 DEF Worked
    <3>2. call.v = v /\ call.sent <= now
      BY <2>1, <2>3 DEF CallInTime
    <3> HIDE DEF v
    <3> QED BY <1>2, <2>2, <3>1, <3>2, Times, Constants
  <2> QED BY <1>1, <1>5, <2>2, <2>4, <2>5 DEF Covered, TakenToTheEnd, Usable
<1>8. Exact'
  <2> SUFFICES ASSUME handle' = "held", punctual, failures = 0, visibility # 0,
                      visibility <= Usable
               PROVE  OnTheGrid'
    BY <1>1 DEF Exact, Usable
  <2>1. /\ queue = "hidden" /\ Worked(call.sent)
        /\ call.v = Second * rearm.seconds /\ rearm.seconds > 0 /\ ~call.delete
    BY <1>5 DEF HoldSound, Covered
  <2>2. deadline' = now + call.v
    BY <1>4, <2>1
  <2>3. Multiple(Elapsed) /\ call.sent = now
    BY <1>5 DEF Exact, OnTheGrid
  <2>4. /\ Elapsed + call.v <= Usable
        /\ ~rearm.last => call.v = visibility
        /\ rearm.last => Elapsed + call.v > Usable - Second /\ call.v <= visibility
    BY <2>1, <2>3 DEF Worked, Elapsed
  <2>5. /\ deadline' - asked = Elapsed + call.v
        /\ rearm.last => Usable < (deadline' - asked) + Second
    BY <1>2, <2>2, <2>4, Times, Constants
  <2>6. /\ ~rearm.last => deadline' = now + visibility /\ deadline' - asked <= Usable
        /\ rearm.last => /\ deadline' - asked <= Elapsed + visibility
                         /\ deadline' - asked <= Usable
    BY <1>2, <2>2, <2>4, <2>5, Times, Constants
  <2>7. Multiple(Elapsed)' /\ (rearm.last => EndsFrom(Elapsed)')
    BY <1>1, <2>3, <2>5, <2>6 DEF Multiple, EndsFrom, Elapsed, Usable
  <2> QED BY <1>1, <1>5, <2>6, <2>7 DEF OnTheGrid, Usable
<1> QED BY <1>5, <1>6, <1>7, <1>8

LEMMA LoseStep ==
  ASSUME ExtenderInv, NEW s \in Senders, Lose(s)
  PROVE  ExtenderInv'
<1> USE DEF ExtenderInv
<1>1. /\ wire[s] # None /\ Answer(s) /\ failures' = failures + 1
      /\ UNCHANGED <<now, asked, received, visibility, deadline, queue, rearm,
                     promise, punctual>>
  BY DEF Lose
<1>2. /\ wire' \in [Senders -> Call \cup {None}]
      /\ ext' \in [phase : Phases, at : Nat]
      /\ handle' \in {"held", "settling", "gone"}
      /\ InTime' /\ Calls'
  BY <1>1, AnswerStep
<1>3. failures' \in Nat /\ failures' # 0
  BY <1>1 DEF TypeOK
<1>4. TypeOK'
  BY <1>1, <1>2, <1>3 DEF TypeOK
<1> QED BY <1>2, <1>3, <1>4 DEF HoldSound, Exact

LEMMA HandOnStep ==
  ASSUME ExtenderInv, HandOn
  PROVE  ExtenderInv'
<1> USE DEF ExtenderInv
<1>1. /\ queue = "hidden" /\ now >= deadline /\ queue' = "handedOn"
      /\ UNCHANGED <<now, asked, received, visibility, deadline, handle, ext, rearm,
                     wire, promise, punctual, failures>>
  BY DEF HandOn
<1>2. TypeOK' /\ Calls'
  BY <1>1 DEF TypeOK, Calls
<1>3. InTime'
  BY <1>1 DEF InTime, CallInTime, Worked, Usable
<1>4. HoldSound'
  <2> SUFFICES ASSUME handle = "held", failures = 0, visibility # 0 PROVE Covered'
    BY <1>1 DEF HoldSound
  <2>1. Covered
    BY DEF HoldSound
  <2>2. ext.phase # "asleep"
    BY <1>1, <2>1, Times, Constants DEF Covered
  <2>3. ext.phase # "woken"
    BY <1>1, <2>1, Times, Constants DEF Covered
  <2>4. ext.phase # "waiting"
    <3> SUFFICES ASSUME ext.phase = "waiting" PROVE FALSE
      OBVIOUS
    <3>1. wire["extender"] # None
      BY DEF Calls
    <3>2. wire["extender"].sent \in Nat /\ now <= wire["extender"].sent + MaxTrip
      BY <3>1, Times DEF InTime, CallInTime, Senders
    <3>3. deadline + MaxTrip + MaxLate >= wire["extender"].sent + Period(visibility)
      BY <2>1 DEF Covered
    <3> QED BY <1>1, <3>2, <3>3, Times, Constants
  <2>5. ext.phase = "answered" => rearm.last
    BY <1>1, <2>1, Times, Constants DEF Covered
  <2>6. TakenToTheEnd => TakenToTheEnd'
    BY <1>1, Times, Constants DEF TakenToTheEnd, Elapsed, Usable
  <2> QED BY <1>1, <2>1, <2>2, <2>3, <2>4, <2>5, <2>6 DEF Covered
<1>5. Exact'
  BY <1>1 DEF Exact, OnTheGrid, Multiple, EndsFrom, Elapsed, Usable
<1> QED BY <1>2, <1>3, <1>4, <1>5

LEMMA TickStep ==
  ASSUME ExtenderInv, Tick
  PROVE  ExtenderInv'
<1> USE DEF ExtenderInv
<1>1. /\ \A s \in Senders : wire[s] # None => now < wire[s].sent + MaxTrip
      /\ ext.phase = "asleep" => now < ext.at + MaxLate
      /\ ext.phase = "answered" => now < ext.at + MaxTrip
      /\ ext.phase # "woken"
      /\ now' = now + 1
      /\ punctual' = (punctual /\ ~TakesTime)
      /\ UNCHANGED <<asked, received, visibility, deadline, queue, handle, ext,
                     rearm, wire, promise, failures>>
  BY DEF Tick
<1>2. now' \in Nat /\ now <= now' /\ punctual' \in BOOLEAN
  BY <1>1, Times DEF TypeOK
<1>3. TypeOK'
  BY <1>1, <1>2 DEF TypeOK
<1>4. Calls'
  BY <1>1 DEF Calls
<1>5. InTime'
  <2>1. \A s \in Senders : wire[s] # None => CallInTime(s)'
    BY <1>1, Times, Constants DEF InTime, CallInTime, Usable
  <2> QED BY <1>1, <1>2, <2>1, Times DEF InTime
<1>6. HoldSound'
  <2> SUFFICES ASSUME handle = "held", failures = 0, visibility # 0 PROVE Covered'
    BY <1>1 DEF HoldSound
  <2>1. Covered
    BY DEF HoldSound
  <2>2. TakenToTheEnd => TakenToTheEnd'
    BY <1>1, <1>2, Times, Constants DEF TakenToTheEnd, Elapsed, Usable
  <2>3. /\ ext.phase = "asleep" => now' <= ext.at + MaxLate
        /\ ext.phase = "answered" => now' <= ext.at + MaxTrip
    BY <1>1, Times, Constants
  <2>4. ext.phase = "waiting" => (Worked(wire["extender"].sent) => Worked(wire["extender"].sent)')
    BY <1>1 DEF Worked, Usable
  <2> QED BY <1>1, <2>1, <2>2, <2>3, <2>4 DEF Covered
<1>7. Exact'
  <2> SUFFICES ASSUME handle = "held", punctual, ~TakesTime, failures = 0, visibility # 0,
                      visibility <= Usable
               PROVE  OnTheGrid'
    BY <1>1 DEF Exact, Usable
  <2>1. OnTheGrid /\ ext.phase \in {"asleep", "ended"}
        /\ (ext.phase = "asleep" => ~(now >= ext.at))
    BY <1>1, Times DEF Exact, TakesTime, Phases
  <2>2. CASE ext.phase = "asleep"
    <3> DEFINE from == ext.at - Period(visibility)
    <3>1. /\ Multiple(from - asked) /\ from <= now
          /\ deadline = from + visibility /\ deadline - asked <= Usable
      BY <2>1, <2>2 DEF OnTheGrid
    <3>2. from <= now' /\ now' <= ext.at
      BY <1>1, <2>1, <2>2, <3>1, Times
    <3>3. Multiple(from - asked)'
      BY <1>1, <3>1 DEF Multiple
    <3> QED BY <1>1, <2>2, <3>1, <3>2, <3>3 DEF OnTheGrid, Usable
  <2>3. CASE ext.phase = "ended"
    <3>1. rearm.last
      BY <2>1, <2>3 DEF OnTheGrid
    <3>2. PICK x \in Nat : Multiple(x) /\ x <= Elapsed /\ EndsFrom(x)
      BY <2>1, <2>3 DEF OnTheGrid
    <3>3. x <= Elapsed'
      BY <1>1, <3>2, Times DEF Elapsed
    <3>4. Multiple(x)' /\ EndsFrom(x)'
      BY <1>1, <3>2 DEF Multiple, EndsFrom, Usable
    <3> QED BY <1>1, <2>3, <3>1, <3>3, <3>4 DEF OnTheGrid
  <2> QED BY <2>1, <2>2, <2>3
<1> QED BY <1>3, <1>4, <1>5, <1>6, <1>7

-----------------------------------------------------------------------------
(* The theorems. *)

LEMMA InitExtender == Init => ExtenderInv
<1> SUFFICES ASSUME Init PROVE ExtenderInv
  OBVIOUS
<1>1. TypeOK
  BY InitTyped
<1>2. /\ asked = 0 /\ received \in Nat /\ received <= now /\ now <= received + MaxTrip
      /\ now \in Nat /\ visibility \in Nat
  BY <1>1, Constants, PeriodIsHalf DEF Init, TypeOK
<1>3. /\ visibility = 0 => ext.phase = "ended"
      /\ visibility # 0 => ext.phase = "asleep" /\ ext.at = now + Period(visibility)
      /\ rearm.last = FALSE
      /\ \A s \in Senders : wire[s] = None
  BY DEF Init, TaskAt
<1>4. InTime
  BY <1>2, <1>3 DEF InTime
<1>5. Calls
  BY <1>3 DEF Calls, Senders
<1>6. HoldSound
  <2> SUFFICES ASSUME visibility # 0 PROVE Covered
    BY DEF HoldSound
  <2>1. /\ now <= (now + Period(visibility)) + MaxLate
        /\ deadline + MaxTrip >= (now + Period(visibility)) + Period(visibility)
        /\ queue = "hidden"
    BY <1>1, <1>2, <1>4, Times, Constants DEF Init
  <2> QED BY <1>3, <2>1 DEF Covered
<1>7. Exact
  <2> SUFFICES ASSUME punctual, visibility # 0, visibility <= Usable PROVE OnTheGrid
    BY DEF Exact
  <2>1. now = 0 /\ received = 0 /\ deadline = visibility
    <3>1. now = asked
      BY ZenonT(60) DEF Init
    <3>2. deadline = received + visibility
      BY DEF Init
    <3> QED BY <1>2, <3>1, <3>2
  <2>2. 0 = 0 * Period(visibility)
    BY <1>1, <1>4, Times
  <2>3. Multiple(0)
    BY <2>2 DEF Multiple
  <2>4. /\ ext.at - Period(visibility) = 0 /\ (ext.at - Period(visibility)) - asked = 0
        /\ now <= ext.at /\ deadline - asked <= Usable
        /\ deadline = (ext.at - Period(visibility)) + visibility
    BY <1>1, <1>2, <1>3, <1>4, <2>1, Times
  <2> QED BY <1>3, <2>1, <2>3, <2>4 DEF OnTheGrid
<1> QED BY <1>1, <1>4, <1>5, <1>6, <1>7 DEF ExtenderInv

LEMMA NextExtender == ExtenderInv /\ [Next]_vars => ExtenderInv'
<1> SUFFICES ASSUME ExtenderInv, [Next]_vars PROVE ExtenderInv'
  OBVIOUS
<1>1. CASE Wake
  BY <1>1, WakeStep
<1>2. CASE Extend
  BY <1>2, ExtendStep
<1>3. CASE Resume
  BY <1>3, ResumeStep
<1>4. CASE \/ Ack
           \/ \E requeue, spent \in BOOLEAN : Nack(requeue, spent)
           \/ \E delay \in Delays : NackAfter(delay)
  BY <1>4, SettlementStep
<1>5. CASE Drop
  BY <1>5, DropStep
<1>6. CASE \E s \in Senders : Land(s) \/ Lose(s)
  BY <1>6, LandStep, LoseStep
<1>7. CASE HandOn
  BY <1>7, HandOnStep
<1>8. CASE Tick
  BY <1>8, TickStep
<1>9. CASE UNCHANGED vars
  <2> USE <1>9 DEF ExtenderInv, vars
  <2>1. TypeOK' /\ Calls'
    BY DEF TypeOK, Calls
  <2>2. InTime'
    BY DEF InTime, CallInTime, Worked, Usable
  <2>3. HoldSound'
    BY DEF HoldSound, Covered, Worked, TakenToTheEnd, Elapsed, Usable
  <2>4. Exact'
    BY DEF Exact, OnTheGrid, Multiple, EndsFrom, Elapsed, Usable
  <2> QED BY <2>1, <2>2, <2>3, <2>4
<1> QED BY <1>1, <1>2, <1>3, <1>4, <1>5, <1>6, <1>7, <1>8, <1>9 DEF Next

LEMMA ExtenderIsSound == Spec => []ExtenderInv
BY InitExtender, NextExtender, PTL DEF Spec

\* In every reachable state of the delivery and its task, times, calls and
\* extensions have the form the code gives them.
THEOREM ExtenderTypes == Spec => []TypeOK
<1>1. ExtenderInv => TypeOK
  BY DEF ExtenderInv
<1> QED BY <1>1, ExtenderIsSound, PTL

\* No visibility change that window_left has fitted, of an extension or of a
\* deferred retry, is past the queue's twelve hours when it lands.
THEOREM ChangesAreNeverRefused == Spec => []NeverRefused
<1>1. ExtenderInv => NeverRefused
  BY FitsOnLanding DEF ExtenderInv
<1> QED BY <1>1, ExtenderIsSound, PTL

LEMMA CoveredIsHidden ==
  ASSUME ExtenderInv
  PROVE  HiddenWhileHeld
<1> SUFFICES ASSUME handle = "held", failures = 0, visibility # 0,
                    Elapsed < (Window - Margin) - Second
             PROVE  queue = "hidden" /\ now < deadline
  BY DEF HiddenWhileHeld
<1> USE DEF ExtenderInv
<1>1. Covered /\ Elapsed < Usable - Second
  BY DEF HoldSound, Usable
<1>2. CASE ext.phase = "asleep"
  BY <1>1, <1>2, Times, Constants DEF Covered
<1>3. CASE ext.phase = "woken"
  BY <1>1, <1>3, Times, Constants DEF Covered
<1>4. CASE ext.phase = "waiting"
  <2>1. wire["extender"].sent \in Nat /\ now <= wire["extender"].sent + MaxTrip
    BY <1>4, Times DEF Calls, InTime, CallInTime, Senders
  <2>2. /\ deadline + MaxTrip + MaxLate >= wire["extender"].sent + Period(visibility)
        /\ queue = "hidden"
    BY <1>1, <1>4 DEF Covered
  <2> QED BY <2>1, <2>2, Times, Constants
<1>5. CASE ext.phase = "answered" /\ ~rearm.last
  BY <1>1, <1>5, Times, Constants DEF Covered
<1>6. CASE TakenToTheEnd
  BY <1>1, <1>6, Times, Constants DEF TakenToTheEnd
<1>7. ext.phase \in {"asleep", "woken", "waiting", "answered", "ended"}
  BY Times DEF Phases
<1> QED BY <1>1, <1>2, <1>3, <1>4, <1>5, <1>6, <1>7 DEF Covered

\* A delivery that is held, and none of whose calls has failed, stays hidden
\* from other consumers up to the last second of the window, however late its
\* timers and calls are within their bounds.
THEOREM HeldStaysHidden == Spec => []HiddenWhileHeld
BY CoveredIsHidden, ExtenderIsSound, PTL

\* The multiple of the period that was passed last.
LEMMA LastMultiple ==
  ASSUME TypeOK, visibility # 0, NEW e \in Nat, NEW x, Multiple(x), x <= e
  PROVE  LET p == Period(visibility)
         IN  /\ x \in Nat /\ (e \div p) * p \in Nat
             /\ x <= (e \div p) * p /\ (e \div p) * p <= e /\ e < (e \div p) * p + p
             /\ e < x + p => (e \div p) * p = x
<1> DEFINE p == Period(visibility)
           q == e \div p
<1>1. p \in Nat \ {0}
  BY PeriodIsHalf DEF TypeOK
<1>2. PICK k \in Nat : x = k * p
  BY DEF Multiple
<1>3. q \in Nat /\ q * p \in Nat /\ q * p <= e /\ e < q * p + p
  BY <1>1, RoundsDown
<1>4. x \in Nat /\ (k + 1) * p = x + p /\ (q + 1) * p = q * p + p
  BY <1>1, <1>2, <1>3, ProductIsNat
<1> HIDE DEF p, q
<1>5. k <= q
  <2> SUFFICES ASSUME q + 1 <= k PROVE FALSE
    BY <1>3
  <2>1. (q + 1) * p <= k * p
    BY <1>1, <1>3, ProductIsMonotone
  <2> QED BY <1>2, <1>3, <1>4, <2>1, <1>1
<1>6. x <= q * p
  BY <1>1, <1>2, <1>3, <1>5, ProductIsMonotone
<1>7. e < x + p => q * p = x
  <2> SUFFICES ASSUME e < x + p PROVE q <= k
    BY <1>2, <1>3, <1>5
  <2> SUFFICES ASSUME k + 1 <= q PROVE FALSE
    BY <1>3
  <2>1. (k + 1) * p <= q * p
    BY <1>1, <1>3, ProductIsMonotone
  <2> QED BY <1>1, <1>3, <1>4, <2>1
<1> QED BY <1>3, <1>4, <1>6, <1>7 DEF p, q

LEMMA GridAgrees ==
  ASSUME ExtenderInv
  PROVE  LanesAgree
<1> DEFINE inProcess == now + Remaining(visibility, Elapsed)
<1> SUFFICES ASSUME handle = "held", punctual, failures = 0, Elapsed <= Window - Margin,
                    visibility # 0, visibility <= Window - Margin,
                    ext.phase \in {"asleep", "ended"}, ext.phase = "asleep" => now < ext.at
             PROVE  IF rearm.last THEN inProcess \in deadline..(deadline + Second - 1)
                                  ELSE inProcess = deadline
  BY DEF LanesAgree
<1> USE DEF ExtenderInv
<1>1. OnTheGrid /\ Elapsed <= Usable /\ Usable = Window - Margin
  BY DEF Exact, Usable
<1> DEFINE p    == Period(visibility)
           last == (Elapsed \div p) * p
<1>2. Remaining(visibility, Elapsed) = Minus(Min2(last + visibility, Usable), Elapsed)
  BY <1>1 DEF Remaining
<1> HIDE DEF inProcess
<1>3. ASSUME last \in Nat, last <= Elapsed, Elapsed < last + p
      PROVE  inProcess - asked = Min2(last + visibility, Usable) /\ inProcess \in Int
  <2> HIDE DEF last
  <2>1. Elapsed <= Min2(last + visibility, Usable) /\ Min2(last + visibility, Usable) \in Int
    BY <1>1, <1>3, Times, Constants DEF Min2
  <2>2. Remaining(visibility, Elapsed) = Min2(last + visibility, Usable) - Elapsed
    BY <1>2, <2>1, Times DEF Minus
  <2> HIDE DEF p
  <2> QED BY <2>1, <2>2, Times DEF inProcess
<1>4. CASE ext.phase = "asleep"
  <2> DEFINE from == ext.at - Period(visibility)
  <2>1. /\ Multiple(from - asked) /\ from <= now /\ now < ext.at /\ ~rearm.last
        /\ deadline = from + visibility /\ deadline - asked <= Usable
    BY <1>1, <1>4 DEF OnTheGrid, Calls
  <2>2. from - asked <= Elapsed /\ Elapsed < (from - asked) + p
    BY <2>1, Times
  <2>3. /\ from - asked \in Nat /\ last \in Nat /\ last <= Elapsed /\ Elapsed < last + p
        /\ last = from - asked
    BY <2>1, <2>2, LastMultiple, Times
  <2>4. inProcess - asked = Min2(last + visibility, Usable) /\ inProcess \in Int
    BY <1>3, <2>3
  <2> HIDE DEF last
  <2>5. Min2(last + visibility, Usable) = last + visibility
    BY <2>1, <2>3, Times, Constants DEF Min2
  <2> QED BY <2>1, <2>3, <2>4, <2>5, Times
<1>5. CASE ext.phase = "ended"
  <2>1. PICK x \in Nat : Multiple(x) /\ x <= Elapsed /\ EndsFrom(x)
    BY <1>1, <1>5 DEF OnTheGrid
  <2>2. x <= last /\ last \in Nat /\ last <= Elapsed /\ Elapsed < last + p /\ rearm.last
    BY <1>1, <1>5, <2>1, LastMultiple, Times DEF OnTheGrid
  <2>3. inProcess - asked = Min2(last + visibility, Usable) /\ inProcess \in Int
    BY <1>3, <2>2
  <2> HIDE DEF last
  <2>4. /\ deadline - asked <= Min2(last + visibility, Usable)
        /\ Min2(last + visibility, Usable) < deadline - asked + Second
    BY <2>1, <2>2, Times, Constants DEF EndsFrom, Min2
  <2> HIDE DEF p
  <2>5. Min2(last + visibility, Usable) \in Int
    BY <2>2, Times, Constants DEF Min2
  <2> QED BY <2>2, <2>3, <2>4, <2>5, Times, Constants
<1> QED BY <1>4, <1>5

\* Where calls and timers take no time, the in-process remaining_visibility puts
\* a dropped delivery's return exactly where the live extender's last call did,
\* or within the second that the last one rounds off.
THEOREM InProcessDropAgrees == Spec => []LanesAgree
BY GridAgrees, ExtenderIsSound, PTL
=============================================================================
