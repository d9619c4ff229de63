------------------------------ MODULE Handoff ------------------------------
(***************************************************************************)
(* What a subscription's stream promises its consumer, whatever pumps,     *)
(* channels and batches are behind it: everything received is handed over  *)
(* in the order it was received, nothing twice and nothing left out, until *)
(* the consumer drops the stream or the stream ends with everything handed *)
(* over.                                                                   *)
(***************************************************************************)
EXTENDS Sequences, Naturals

CONSTANT Items   \* what a receive may bring: messages and errors

VARIABLES received, handed, state

vars == <<received, handed, state>>

Init == received = <<>> /\ handed = <<>> /\ state = "open"

\* A receive brings some items.
Receive ==
  /\ state = "open"
  /\ Len(received') > Len(received)
  /\ SubSeq(received', 1, Len(received)) = received
  /\ \A i \in DOMAIN received' : received'[i] \in Items
  /\ UNCHANGED <<handed, state>>

\* The consumer is given the next ones, in order.
HandOver ==
  /\ state = "open"
  /\ \E n \in (Len(handed) + 1)..Len(received) :
       handed' = SubSeq(received, 1, n)
  /\ UNCHANGED <<received, state>>

Drop ==
  /\ state = "open"
  /\ state' = "dropped"
  /\ UNCHANGED <<received, handed>>

\* The stream ends of itself.
End ==
  /\ state = "open"
  /\ handed = received
  /\ state' = "ended"
  /\ UNCHANGED <<received, handed>>

Next == Receive \/ HandOver \/ Drop \/ End

Spec == Init /\ [][Next]_vars
=============================================================================
