--------------------------- MODULE MCReceiveLoop ---------------------------
(* Small instances of ReceiveLoop for TLC. *)
EXTENDS ReceiveLoop

CONSTANTS r1, r2

\* A stream, which takes one message, and batches of two.
Sizes == [r \in Receivers |-> IF r = r1 THEN 1 ELSE 2]
=============================================================================
