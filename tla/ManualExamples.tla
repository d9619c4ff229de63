--------------------------- MODULE ManualExamples ---------------------------
(***************************************************************************)
(* The services of examples/manual/, which write by hand what the          *)
(* attribute macros of the other examples generate: a type that implements *)
(* Handle and answers Ok or Err(outcome), and a registration that builds   *)
(* its subscriber and maps its source to a descriptor.                     *)
(***************************************************************************)
EXTENDS Mounting

\* Ok(()) acks, Err settles with the outcome it carries.
Ok == Outcome("ack")
Err(outcome) == Outcome(outcome)

\* Ok(message) of a handler with a reply.
OkReply(destination) == Reply(destination)

\* publish().await with its error mapped to an outcome.
MapErr(send, outcome) == Publishing(send, outcome)

\* impl Handle: the answer to a message and its receive count.
Handle(Answer(_, _)) == Handler(LAMBDA kind, receives, known : Answer(kind, receives))

Ready(answer) == Always(answer)

\* The descriptor a source is mapped to.
Descriptor(create, wait, visibility) == [create |-> create, wait |-> wait, visibility |-> visibility]

Default == Descriptor(FALSE, 20, None)
Created == Descriptor(TRUE, 20, None)

\* subscriber(queue, handler).map_source(..).build().
Built(queue, handler, source) ==
  [queue |-> queue, handler |-> handler, create |-> source.create, wait |-> source.wait,
   visibility |-> source.visibility, max |-> None, dead |-> None, workers |-> "one"]

-----------------------------------------------------------------------------
(* The guides. *)

HandleBook ==
  Handler(LAMBDA kind, receives, known :
    IF kind = "wait" THEN Err(IF receives >= 3 THEN "drop" ELSE "later")
    ELSE IF known THEN Ok
    ELSE [MapErr(To("ledger-entries"), "retry") EXCEPT !.records = TRUE])

HandleSettleRefunds ==
  Handle(LAMBDA kind, receives : IF kind = "wait" THEN Err("later") ELSE Ok)

manual_guide_acknowledgement ==
  App(<<Built("payments", HandleBook, Default), Built("refunds", HandleSettleRefunds, Default)>>,
      {"good", "wait"})

manual_guide_consuming ==
  App(<<Workers(Built("orders", Ready(Ok), Descriptor(TRUE, 20, 60)), "many"),
        Built("payments", Ready(Ok), Created)>>
        \o [i \in 1..2 |-> Built(<<"audit-eu", "audit-us">>[i], Ready(Ok), Created)], {"good"})

manual_guide_fan_out ==
  AfterStartup(
    App(<<Built("shop-orders", Ready(OkReply("shop-order-events")), Created),
          Built("shop-billing", Ready(Ok), Created),
          Built("shop-shipping", Ready(Ok), Created)>>, {"good"}),
    [i \in 1..2 |-> Link("shop-order-events", <<"shop-billing", "shop-shipping">>[i])])

manual_guide_fifo ==
  App(<<Built("orders", Ready(MapErr(Deduplicated("shipments.fifo"), "retry")), Created),
        Workers(Built("shipments.fifo", Ready(Ok), Created), "by_key")>>, {"good"})

manual_guide_getting_started ==
  App(<<Built("orders", Handle(LAMBDA kind, receives :
                          IF kind = "bad" THEN Err("drop") ELSE Ok), Created)>>, {"good", "bad"})

manual_guide_production ==
  App(<<Built("orders", Handle(LAMBDA kind, receives :
                          IF kind = "bad" THEN Err("drop") ELSE Ok),
              Descriptor(FALSE, 20, 120))>>, {"good", "bad"})

manual_guide_retries ==
  LET Charge == Handle(LAMBDA kind, receives :
        IF kind = "bad" THEN Err("drop") ELSE IF kind = "wait" THEN Err("later") ELSE Ok)
  IN  App(<<DeadLetter(Built("invoices", Charge, Created), 4, "invoices-dead"),
            Built("invoices-dead", Ready(Ok), Created)>>, Kinds)

manual_guide_testing ==
  LET Confirm == Handle(LAMBDA kind, receives :
        IF kind = "bad" THEN Err("drop")
        ELSE IF kind = "wait" THEN Err("later") ELSE OkReply("checkout-confirmations"))
  IN  App(<<Built("checkout-orders", Confirm, Created),
            Built("checkout-confirmations", Ready(Ok), Created)>>, Kinds)

-----------------------------------------------------------------------------
(* The examples of the component pages. *)

manual_sns_fanout ==
  AfterStartup(
    App(<<Built("orders", Ready(OkReply("orders-events")), Created),
          Built("billing", Ready(Ok), Created), Built("shipping", Ready(Ok), Created)>>, {"good"}),
    [i \in 1..2 |-> Link("orders-events", <<"billing", "shipping">>[i])])

\* The operator subscribed billing to the topic.
manual_sqs_sns_fans_out_to ==
  AfterStartup(
    App(<<Built("orders", Ready(OkReply("orders-events")), Default),
          Built("billing", Ready(Ok), Default)>>, {"good"}),
    <<Link("orders-events", "billing")>>)

manual_sqs_asyncapi ==
  App(<<Built("orders", Ready(OkReply("confirmations")), Descriptor(FALSE, 10, 30)),
        Built("shipments.fifo", Ready(Ok), Default),
        Built("payments", Ready(OkReply("payment-events.fifo")), Default)>>, {"good"})

manual_sqs_batches == Plain(Built("orders-batches", Ready(Ok), Created))

manual_sqs_broker_credentials == Plain(Built("orders", Ready(Ok), Created))

manual_sqs_broker_endpoint == Plain(Built("orders", Ready(Ok), Created))

\* The source of a publish error tells a refusal from a failure.
manual_sqs_broker_errors ==
  LET Ship == Handle(LAMBDA kind, receives :
        [MapErr(Grouped(IF kind = "bad" THEN "west" ELSE "east.fifo"), "retry")
           EXCEPT !.refused = "drop"])
  IN  App(<<Built("orders", Ship, Default)>>, {"good", "bad"})

manual_sqs_broker_prelude ==
  Plain(Built("orders", Ready(OkReply("orders-accepted")), Descriptor(FALSE, 20, None)))

manual_sqs_broker_shutdown == Plain(Built("orders", Ready(Ok), Created))

manual_sqs_broker_startup == Plain(Built("orders", Ready(Ok), Descriptor(FALSE, 20, None)))

manual_sqs_dead_letter ==
  App(<<DeadLetter(Built("invoices", Ready(Err("later")), Created), 3, "invoices-dead"),
        Built("invoices-dead", Ready(Ok), Default)>>, {"good"})

manual_sqs_delivery_body == Plain(Built("thumbnails", Ready(Ok), Created))

manual_sqs_delivery_headers == Plain(Built("orders", Ready(Ok), Default))

manual_sqs_delivery_partition_key ==
  App(<<Built("orders", Ready(MapErr(To("packing.fifo"), "retry")), Default),
        Built("packing.fifo", Ready(Ok), Default)>>, {"good"})

manual_sqs_delivery_receive_count ==
  LET Charge == Handle(LAMBDA kind, receives :
        IF kind = "good" THEN Ok
        ELSE IF receives < 3 THEN Err("retry") ELSE MapErr(To("payments-review"), "retry"))
  IN  App(<<DeadLetter(Built("payments", Charge, Default), 3, "payments-dead")>>,
          {"good", "wait"})

manual_sqs_fifo_group ==
  AfterStartup(
    App(<<Built("orders", Ready(MapErr(Grouped("fulfillment.fifo"), "retry")), Default),
          Built("fulfillment.fifo", Ready(Ok), Default)>>, {"good"}),
    <<[send |-> [To("fulfillment.fifo") EXCEPT !.group = "replay"]]>>)

manual_sqs_publishing_deduplication ==
  App(<<Built("payments", Ready(MapErr(Deduplicated("charges.fifo"), "retry")), Default),
        Built("charges.fifo", Ready(Ok), Default)>>, {"good"})

manual_sqs_publishing_publish ==
  Plain(Built("orders", Ready(OkReply("confirmations")), Default))

manual_sqs_service == Plain(Built("orders", Ready(Ok), Created))

manual_sqs_settlement_outcomes ==
  LET Charge == Handle(LAMBDA kind, receives :
        IF kind = "bad" THEN Err("drop")
        ELSE IF kind = "wait" /\ receives = 1 THEN Err("retry") ELSE Ok)
  IN  App(<<Built("payments", Charge, Default)>>, Kinds)

manual_sqs_settlement_retry_after ==
  Plain(Built("invoices", Handle(LAMBDA kind, receives :
                            IF receives = 1 THEN Err("later") ELSE Ok), Default))

manual_sqs_subscriptions_create == Plain(Built("drafts", Ready(Ok), Created))

manual_sqs_subscriptions_fifo == Plain(Built("orders.fifo", Ready(Ok), Default))

manual_sqs_subscriptions_name == Plain(Built("orders", Ready(Ok), Default))

manual_sqs_subscriptions_name_audits ==
  App(<<Built("audit-eu", Ready(Ok), Default), Built("audit-us", Ready(Ok), Default)>>, {"good"})

manual_sqs_subscriptions_queue == Plain(Built("orders", Ready(Ok), Descriptor(FALSE, 10, 60)))

manual_sqs_subscriptions_visibility ==
  Plain(Built("reports", Ready(Ok), Descriptor(FALSE, 20, 2)))

manual_sqs_subscriptions_wait == Plain(Built("alerts", Ready(Ok), Descriptor(FALSE, 5, None)))

manual_sqs_testing ==
  LET Charge == Handle(LAMBDA kind, receives : IF kind = "good" THEN Ok ELSE Err("later"))
  IN  App(<<DeadLetter(Built("payments", Charge, Default), 3, "payments-dead")>>,
          {"good", "wait"})

manual_sqs_testing_live ==
  App(<<Built("payments", Handle(LAMBDA kind, receives :
                            IF kind = "bad" THEN Err("drop") ELSE Ok), Created)>>, {"good", "bad"})
=============================================================================
