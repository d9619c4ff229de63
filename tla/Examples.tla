------------------------------ MODULE Examples ------------------------------
(***************************************************************************)
(* The services of the repository's examples, in the form their attribute  *)
(* macros write them: one definition per file of examples/, a record of    *)
(* its registrations in the order the app includes them, its startup hooks *)
(* and the kinds of message its handlers tell apart.  What a handler reads *)
(* of a message is its kind: "good" passes every check of the handler,     *)
(* "bad" is refused for what it is, "wait" cannot be handled yet.          *)
(***************************************************************************)
EXTENDS Mounting

-----------------------------------------------------------------------------
(* The guides. *)

Book ==
  Handler(LAMBDA kind, receives, known :
    CASE kind = "wait" -> Outcome(IF receives >= 3 THEN "drop" ELSE "later")
      [] kind # "wait" /\ known -> Ack
      [] OTHER -> [Publishing(To("ledger-entries"), "retry") EXCEPT !.records = TRUE])

SettleRefunds ==
  Handler(LAMBDA kind, receives, known : IF kind = "wait" THEN Outcome("later") ELSE Ack)

guide_acknowledgement ==
  App(<<Subscriber("payments", Book), Subscriber("refunds", SettleRefunds)>>, {"good", "wait"})

guide_consuming ==
  App(<<Workers(CreateIfMissing(Visibility(Subscriber("orders", Always(Ack)), 60)), "many"),
        CreateIfMissing(Wait(Subscriber("payments", Always(Ack)), 20)),
        CreateIfMissing(Subscriber("audit-eu", Always(Ack))),
        CreateIfMissing(Subscriber("audit-us", Always(Ack)))>>, {"good"})

guide_fan_out ==
  AfterStartup(
    App(<<CreateIfMissing(Subscriber("shop-orders", Always(Reply("shop-order-events")))),
          CreateIfMissing(Subscriber("shop-billing", Always(Ack))),
          CreateIfMissing(Subscriber("shop-shipping", Always(Ack)))>>, {"good"}),
    <<Link("shop-order-events", "shop-billing"), Link("shop-order-events", "shop-shipping")>>)

guide_fifo ==
  App(<<CreateIfMissing(Subscriber("orders",
          Always(Publishing(Deduplicated("shipments.fifo"), "retry")))),
        Workers(CreateIfMissing(Subscriber("shipments.fifo", Always(Ack))), "by_key")>>,
      {"good"})

guide_getting_started ==
  App(<<CreateIfMissing(Subscriber("orders", DropsBad(Ack)))>>, {"good", "bad"})

guide_production ==
  App(<<Visibility(Subscriber("orders", DropsBad(Ack)), 120)>>, {"good", "bad"})

guide_retries ==
  App(<<DeadLetter(CreateIfMissing(Subscriber("invoices",
          Handler(LAMBDA kind, receives, known :
            CASE kind = "bad" -> Outcome("drop")
              [] kind = "wait" -> Outcome("later")
              [] OTHER -> Ack))), 4, "invoices-dead"),
        CreateIfMissing(Subscriber("invoices-dead", Always(Ack)))>>, Kinds)

guide_testing ==
  App(<<CreateIfMissing(Subscriber("checkout-orders",
          Handler(LAMBDA kind, receives, known :
            CASE kind = "bad" -> Outcome("drop")
              [] kind = "wait" -> Outcome("later")
              [] OTHER -> Reply("checkout-confirmations")))),
        CreateIfMissing(Subscriber("checkout-confirmations", Always(Ack)))>>, Kinds)

-----------------------------------------------------------------------------
(* The examples of the component pages. *)

sns_fanout ==
  AfterStartup(
    App(<<CreateIfMissing(Subscriber("orders", Always(Reply("orders-events")))),
          CreateIfMissing(Subscriber("billing", Always(Ack))),
          CreateIfMissing(Subscriber("shipping", Always(Ack)))>>, {"good"}),
    <<Link("orders-events", "billing"), Link("orders-events", "shipping")>>)

\* The operator subscribed billing to the topic, which the test build's policy
\* repeats; the link stands here as a hook's.
sqs_sns_fans_out_to ==
  AfterStartup(
    App(<<Subscriber("orders", Always(Reply("orders-events"))),
          Subscriber("billing", Always(Ack))>>, {"good"}),
    <<Link("orders-events", "billing")>>)

sqs_asyncapi ==
  App(<<Visibility(Wait(Subscriber("orders", Always(Reply("confirmations"))), 10), 30),
        Subscriber("shipments.fifo", Always(Ack)),
        Subscriber("payments", Always(Reply("payment-events.fifo")))>>, {"good"})

sqs_batches ==
  Plain(CreateIfMissing(Wait(Subscriber("orders-batches", Always(Ack)), 20)))

sqs_broker_credentials == Plain(CreateIfMissing(Subscriber("orders", Always(Ack))))

sqs_broker_endpoint == Plain(CreateIfMissing(Subscriber("orders", Always(Ack))))

\* The warehouse of a bad order is a standard queue, which takes no group.
sqs_broker_errors ==
  App(<<Subscriber("orders", Handler(LAMBDA kind, receives, known :
          [Publishing(Grouped(IF kind = "bad" THEN "west" ELSE "east.fifo"), "retry")
             EXCEPT !.refused = "drop"]))>>, {"good", "bad"})

sqs_broker_prelude ==
  Plain(Wait(Subscriber("orders", Always(Reply("orders-accepted"))), 20))

sqs_broker_shutdown == Plain(CreateIfMissing(Subscriber("orders", Always(Ack))))

sqs_broker_startup == Plain(Wait(Subscriber("orders", Always(Ack)), 20))

sqs_dead_letter ==
  App(<<DeadLetter(CreateIfMissing(Subscriber("invoices", Always(Outcome("later")))),
                   3, "invoices-dead"),
        Subscriber("invoices-dead", Always(Ack))>>, {"good"})

sqs_delivery_body == Plain(CreateIfMissing(Subscriber("thumbnails", Always(Ack))))

sqs_delivery_headers == Plain(Subscriber("orders", Always(Ack)))

\* The group comes from a header, which any destination takes.
sqs_delivery_partition_key ==
  App(<<Subscriber("orders", Always(Publishing(To("packing.fifo"), "retry"))),
        Subscriber("packing.fifo", Always(Ack))>>, {"good"})

sqs_delivery_receive_count ==
  App(<<DeadLetter(Subscriber("payments", Handler(LAMBDA kind, receives, known :
          CASE kind = "good" -> Ack
            [] kind # "good" /\ receives < 3 -> Outcome("retry")
            [] OTHER -> Publishing(To("payments-review"), "retry"))), 3, "payments-dead")>>,
      {"good", "wait"})

sqs_fifo_group ==
  AfterStartup(
    App(<<Subscriber("orders", Always(Publishing(Grouped("fulfillment.fifo"), "retry"))),
          Subscriber("fulfillment.fifo", Always(Ack))>>, {"good"}),
    <<[send |-> [To("fulfillment.fifo") EXCEPT !.group = "replay"]]>>)

sqs_publishing_deduplication ==
  App(<<Subscriber("payments", Always(Publishing(Deduplicated("charges.fifo"), "retry"))),
        Subscriber("charges.fifo", Always(Ack))>>, {"good"})

sqs_publishing_publish == Plain(Subscriber("orders", Always(Reply("confirmations"))))

sqs_service == Plain(CreateIfMissing(Wait(Subscriber("orders", Always(Ack)), 20)))

sqs_settlement_outcomes ==
  App(<<Subscriber("payments", Handler(LAMBDA kind, receives, known :
          CASE kind = "bad" -> Outcome("drop")
            [] kind = "wait" /\ receives = 1 -> Outcome("retry")
            [] OTHER -> Ack))>>, Kinds)

sqs_settlement_retry_after ==
  Plain(Subscriber("invoices", Handler(LAMBDA kind, receives, known :
          IF receives = 1 THEN Outcome("later") ELSE Ack)))

sqs_subscriptions_create == Plain(CreateIfMissing(Subscriber("drafts", Always(Ack))))

sqs_subscriptions_fifo == Plain(Subscriber("orders.fifo", Always(Ack)))

sqs_subscriptions_name == Plain(Subscriber("orders", Always(Ack)))

sqs_subscriptions_name_audits ==
  App(<<Subscriber("audit-eu", Always(Ack)), Subscriber("audit-us", Always(Ack))>>, {"good"})

sqs_subscriptions_queue == Plain(Visibility(Wait(Subscriber("orders", Always(Ack)), 10), 60))

sqs_subscriptions_visibility == Plain(Visibility(Subscriber("reports", Always(Ack)), 2))

sqs_subscriptions_wait == Plain(Wait(Subscriber("alerts", Always(Ack)), 5))

sqs_testing ==
  App(<<DeadLetter(Subscriber("payments", Handler(LAMBDA kind, receives, known :
          IF kind = "good" THEN Ack ELSE Outcome("later"))), 3, "payments-dead")>>,
      {"good", "wait"})

sqs_testing_live ==
  App(<<CreateIfMissing(Subscriber("payments", DropsBad(Ack)))>>, {"good", "bad"})

\* The handlers the examples' tests mount to see a start refused: a poll longer
\* than SQS allows, and a visibility beyond twelve hours.
too_patient == Plain(Wait(Subscriber("orders", Always(Ack)), 30))

too_long == Plain(Visibility(Subscriber("reports", Always(Ack)), 46800))
=============================================================================
