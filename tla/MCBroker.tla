----------------------------- MODULE MCBroker -----------------------------
(* Small instances of Broker for TLC. *)
EXTENDS Broker

CONSTANTS gold, bill   \* a group and a deduplication id somebody named

Ask(group, key, mount, dedup) == [group |-> group, key |-> key, mount |-> mount, dedup |-> dedup]

\* Nothing asked, a header only, everything named.
SomeSettings ==
  {Ask(None, None, None, None), Ask(None, gold, None, None), Ask(gold, gold, gold, bill)}

NoSettings == {Ask(None, None, None, None)}

\* Containers run the service as their first process.
SamePid == [p \in Procs |-> 1]
=============================================================================
