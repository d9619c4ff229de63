------------------------------ MODULE Framing ------------------------------
(***************************************************************************)
(* How a message becomes what SQS and SNS carry, and what a delivery reads *)
(* back: the body, the attributes the headers become and the group of a    *)
(* FIFO destination (message.rs, publisher.rs, in_process/mod.rs).         *)
(*                                                                         *)
(* Payloads and header values are bytes of which some are text the         *)
(* services carry.  Base64 writes any other bytes as such a text, so that  *)
(* a payload may also be, by itself, the base64 of other bytes.            *)
(***************************************************************************)
EXTENDS Naturals, FiniteSets, Functions

CONSTANTS
  Text,           \* the bytes is_service_text accepts
  Other,          \* the rest
  Base64,         \* BASE64.encode
  Empty,          \* the empty text
  Lossy,          \* what from_utf8_lossy makes of bytes that are no text
  GroupIds,       \* the texts that may be group ids
  HeaderNames,
  BadNames,       \* header names that may not name an attribute
  MaxAttributes,  \* MAX_ATTRIBUTES
  None

PARTITION_KEY_HEADER == "partition-key"
RECEIVE_COUNT_HEADER == "sqs-receive-count"
ENCODING_ATTRIBUTE == "ruststream-payload-encoding"
DefaultGroup == "default"
Marked == "base64"

Bytes == Text \cup Other

ASSUME FramingAssumption ==
  /\ Text \cap Other = {} /\ Base64 \in [Other -> Text] /\ IsInjective(Base64)
  /\ {Empty, DefaultGroup, Marked} \subseteq Text /\ Empty \notin Range(Base64)
  /\ GroupIds \subseteq Text \ {Empty, Lossy} /\ DefaultGroup \in GroupIds
  /\ {PARTITION_KEY_HEADER, RECEIVE_COUNT_HEADER, ENCODING_ATTRIBUTE}
       \subseteq HeaderNames \ BadNames
  /\ None \notin Bytes \cup {Lossy} /\ MaxAttributes \in Nat

\* What a publish takes from its caller, and what goes out.
Contents == [payload : Bytes, headers : UNION {[H -> Bytes] : H \in SUBSET HeaderNames},
             group : {None} \cup Text]
Wires == [body : Text, attributes : UNION {[H -> Bytes] : H \in SUBSET HeaderNames},
          group : {None} \cup Text]

-----------------------------------------------------------------------------

\* A plausible bug: bytes that are no text are encoded and not marked as such.
MarkedNever(payload) == FALSE

\* Whether the body travels as base64, and carries the marker.
Marks(payload) == payload \notin Text

EncodeBody(payload) == IF payload \in Text THEN payload ELSE Base64[payload]

\* The headers that become attributes: the partition key of a FIFO destination
\* becomes its group.
Carried(headers, fifo) ==
  {h \in DOMAIN headers : ~(fifo /\ h = PARTITION_KEY_HEADER)}

\* What encode_attributes_with refuses.
HeadersRefused(c, fifo) ==
  LET own == Carried(c.headers, fifo) IN
  \/ ENCODING_ATTRIBUTE \in own
  \/ Cardinality(own) + (IF Marks(c.payload) THEN 1 ELSE 0) > MaxAttributes

EncodeAttributes(c, fifo) ==
  [h \in Carried(c.headers, fifo) \cup (IF Marks(c.payload) THEN {ENCODING_ATTRIBUTE} ELSE {}) |->
     IF h = ENCODING_ATTRIBUTE THEN Marked ELSE c.headers[h]]

\* What fifo_settings refuses: a group the caller or the policy named, on a
\* standard destination.
NotFifo(c, fifo, fixed) == ~fifo /\ (c.group # None \/ fixed # None)

\* The ladder of fifo_settings: the call, the partition key, the policy, the
\* default.
Group(c, fixed) ==
  CASE c.group # None -> c.group
    [] c.group = None /\ PARTITION_KEY_HEADER \in DOMAIN c.headers ->
         LET key == c.headers[PARTITION_KEY_HEADER] IN IF key \in Text THEN key ELSE Lossy
    [] OTHER -> IF fixed # None THEN fixed ELSE DefaultGroup

FrameRefused(c, fifo, fixed) == HeadersRefused(c, fifo) \/ NotFifo(c, fifo, fixed)

Frame(c, fifo, fixed) ==
  [body |-> EncodeBody(c.payload), attributes |-> EncodeAttributes(c, fifo),
   group |-> IF fifo THEN Group(c, fixed) ELSE None]

\* What the services refuse of a message, but for its size (check_message,
\* check_fifo).
Unacceptable(w) ==
  \/ w.body = Empty
  \/ \E h \in DOMAIN w.attributes : h \in BadNames \/ w.attributes[h] = Empty
  \/ w.group # None /\ w.group \notin GroupIds

\* The base64 body of a marked delivery, or the body as it is where it is none.
DecodeBody(body, marked) ==
  IF marked /\ body \in Range(Base64) THEN CHOOSE b \in Other : Base64[b] = body ELSE body

\* What a delivery carries on its first receive, when the receive count is One.
DecodeMessage(w, One) ==
  LET marked == ENCODING_ATTRIBUTE \in DOMAIN w.attributes
                  /\ w.attributes[ENCODING_ATTRIBUTE] = Marked
      own == {h \in DOMAIN w.attributes : ~(marked /\ h = ENCODING_ATTRIBUTE)}
      system == {RECEIVE_COUNT_HEADER} \cup (IF w.group # None THEN {PARTITION_KEY_HEADER} ELSE {})
  IN  [payload |-> DecodeBody(w.body, marked),
       headers |-> [h \in own \cup system |->
                      CASE h = RECEIVE_COUNT_HEADER -> One
                        [] h = PARTITION_KEY_HEADER /\ w.group # None -> w.group
                        [] OTHER -> w.attributes[h]]]
=============================================================================
