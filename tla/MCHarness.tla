----------------------------- MODULE MCHarness -----------------------------
(* A queue and a topic of one name, an alias of it, and FIFO ones. *)
EXTENDS Harness

Texts == {"", "base64", "default", "?", "1", "text", "binary64", "customer"}
Codes == [b \in {"binary"} |-> "binary64"]
Headers == {"partition-key", "sqs-receive-count", "ruststream-payload-encoding", "trace", "user",
            "aws.bad"}

Addresses ==
  [n \in {"events", "ev.ents", "audit", "log.fifo", "?"} |->
     CASE n \in {"events", "ev.ents"} -> "events" [] n = "?" -> None [] OTHER -> n]

Message(payload, headers, group) == [payload |-> payload, headers |-> headers, group |-> group]

NoHeaders == [h \in {} |-> ""]
Header(h, v) == [x \in {h} |-> v]

Messages ==
  {Message("text", Header("partition-key", "customer"), None),
   Message("binary64", Header("sqs-receive-count", "text"), None),
   Message("binary", Header("trace", "binary"), None),
   Message("binary", [h \in {"trace", "user", "partition-key"} |-> "text"], None),
   Message("text", Header("ruststream-payload-encoding", "base64"), None),
   Message("text", Header("aws.bad", "text"), None),
   Message("", NoHeaders, None),
   Message("text", Header("partition-key", "binary"), None),
   Message("text", NoHeaders, "customer")}

Mode(surface, paired, recorded, fixed, fanOut) ==
  [surface |-> surface, paired |-> paired, recorded |-> recorded, fixed |-> fixed,
   fanOut |-> fanOut]

Modes ==
  [p \in {"queue", "topic", "stray", "own"} |->
     CASE p = "queue" -> Mode("queue", TRUE, TRUE, None, <<>>)
       [] p = "topic" -> Mode("topic", TRUE, TRUE, None, <<"audit">>)
       [] p = "stray" -> Mode("topic", TRUE, FALSE, None, <<"audit", "log.fifo">>)
       [] OTHER -> Mode("queue", FALSE, FALSE, "customer", <<>>)]

OwnLinks == {<<"events", "audit">>, <<"events", "log.fifo">>, <<"log.fifo", "ev.ents">>}

Apps == <<"audit", "ev.ents", "events", "log.fifo">>
=============================================================================
