----------------------------- MODULE MCService -----------------------------
EXTENDS Service, Examples, ManualExamples

ExampleServices ==
  [guide_acknowledgement |-> guide_acknowledgement,
   guide_consuming |-> guide_consuming,
   guide_fan_out |-> guide_fan_out,
   guide_fifo |-> guide_fifo,
   guide_getting_started |-> guide_getting_started,
   guide_production |-> guide_production,
   guide_retries |-> guide_retries,
   guide_testing |-> guide_testing,
   sns_fanout |-> sns_fanout,
   sqs_sns_fans_out_to |-> sqs_sns_fans_out_to,
   sqs_asyncapi |-> sqs_asyncapi,
   sqs_batches |-> sqs_batches,
   sqs_broker_credentials |-> sqs_broker_credentials,
   sqs_broker_endpoint |-> sqs_broker_endpoint,
   sqs_broker_errors |-> sqs_broker_errors,
   sqs_broker_prelude |-> sqs_broker_prelude,
   sqs_broker_shutdown |-> sqs_broker_shutdown,
   sqs_broker_startup |-> sqs_broker_startup,
   sqs_dead_letter |-> sqs_dead_letter,
   sqs_delivery_body |-> sqs_delivery_body,
   sqs_delivery_headers |-> sqs_delivery_headers,
   sqs_delivery_partition_key |-> sqs_delivery_partition_key,
   sqs_delivery_receive_count |-> sqs_delivery_receive_count,
   sqs_fifo_group |-> sqs_fifo_group,
   sqs_publishing_deduplication |-> sqs_publishing_deduplication,
   sqs_publishing_publish |-> sqs_publishing_publish,
   sqs_service |-> sqs_service,
   sqs_settlement_outcomes |-> sqs_settlement_outcomes,
   sqs_settlement_retry_after |-> sqs_settlement_retry_after,
   sqs_subscriptions_create |-> sqs_subscriptions_create,
   sqs_subscriptions_fifo |-> sqs_subscriptions_fifo,
   sqs_subscriptions_name |-> sqs_subscriptions_name,
   sqs_subscriptions_name_audits |-> sqs_subscriptions_name_audits,
   sqs_subscriptions_queue |-> sqs_subscriptions_queue,
   sqs_subscriptions_visibility |-> sqs_subscriptions_visibility,
   sqs_subscriptions_wait |-> sqs_subscriptions_wait,
   sqs_testing |-> sqs_testing,
   sqs_testing_live |-> sqs_testing_live,
   too_patient |-> too_patient,
   too_long |-> too_long]

ExampleInputs ==
  [s \in DOMAIN ExampleServices |-> IF s \in {"guide_retries", "guide_fan_out", "sns_fanout", "sqs_fifo_group"} THEN 1 ELSE 2]

ExampleFaults ==
  [s \in DOMAIN ExampleServices |-> IF s = "guide_retries" THEN 3 ELSE 1]

\* "A payment SQS delivers twice leads to one charge"
\* (sqs_publishing_deduplication.rs), and "sending the same order again ships
\* nothing more" (guide/fifo.rs).
ExampleIdempotent ==
  [s \in DOMAIN ExampleServices |->
     CASE s = "sqs_publishing_deduplication" -> {"charges.fifo"}
       [] s = "guide_fifo" -> {"shipments.fifo"}
       [] OTHER -> {}]

ExampleTopics == {"orders-events", "shop-order-events", "payment-events.fifo"}

ExampleQueues ==
  {"alerts", "audit-eu", "audit-us", "billing", "charges.fifo", "checkout-confirmations",
   "checkout-orders", "confirmations", "drafts", "east.fifo", "fulfillment.fifo", "invoices",
   "invoices-dead", "ledger-entries", "orders", "orders-accepted", "orders-batches",
   "orders.fifo", "packing.fifo", "payments", "payments-dead", "payments-review", "refunds",
   "reports", "shipments.fifo", "shipping", "shop-billing", "shop-orders", "shop-shipping",
   "thumbnails", "west"}

ExampleFifoNames ==
  {"charges.fifo", "east.fifo", "fulfillment.fifo", "orders.fifo", "packing.fifo",
   "payment-events.fifo", "shipments.fifo"}

\* Each manual example is the service its macro form is.
ASSUME FormsAgree ==
  /\ guide_acknowledgement = manual_guide_acknowledgement
  /\ guide_consuming = manual_guide_consuming
  /\ guide_fan_out = manual_guide_fan_out
  /\ guide_fifo = manual_guide_fifo
  /\ guide_getting_started = manual_guide_getting_started
  /\ guide_production = manual_guide_production
  /\ guide_retries = manual_guide_retries
  /\ guide_testing = manual_guide_testing
  /\ sns_fanout = manual_sns_fanout
  /\ sqs_sns_fans_out_to = manual_sqs_sns_fans_out_to
  /\ sqs_asyncapi = manual_sqs_asyncapi
  /\ sqs_batches = manual_sqs_batches
  /\ sqs_broker_credentials = manual_sqs_broker_credentials
  /\ sqs_broker_endpoint = manual_sqs_broker_endpoint
  /\ sqs_broker_errors = manual_sqs_broker_errors
  /\ sqs_broker_prelude = manual_sqs_broker_prelude
  /\ sqs_broker_shutdown = manual_sqs_broker_shutdown
  /\ sqs_broker_startup = manual_sqs_broker_startup
  /\ sqs_dead_letter = manual_sqs_dead_letter
  /\ sqs_delivery_body = manual_sqs_delivery_body
  /\ sqs_delivery_headers = manual_sqs_delivery_headers
  /\ sqs_delivery_partition_key = manual_sqs_delivery_partition_key
  /\ sqs_delivery_receive_count = manual_sqs_delivery_receive_count
  /\ sqs_fifo_group = manual_sqs_fifo_group
  /\ sqs_publishing_deduplication = manual_sqs_publishing_deduplication
  /\ sqs_publishing_publish = manual_sqs_publishing_publish
  /\ sqs_service = manual_sqs_service
  /\ sqs_settlement_outcomes = manual_sqs_settlement_outcomes
  /\ sqs_settlement_retry_after = manual_sqs_settlement_retry_after
  /\ sqs_subscriptions_create = manual_sqs_subscriptions_create
  /\ sqs_subscriptions_fifo = manual_sqs_subscriptions_fifo
  /\ sqs_subscriptions_name = manual_sqs_subscriptions_name
  /\ sqs_subscriptions_name_audits = manual_sqs_subscriptions_name_audits
  /\ sqs_subscriptions_queue = manual_sqs_subscriptions_queue
  /\ sqs_subscriptions_visibility = manual_sqs_subscriptions_visibility
  /\ sqs_subscriptions_wait = manual_sqs_subscriptions_wait
  /\ sqs_testing = manual_sqs_testing
  /\ sqs_testing_live = manual_sqs_testing_live
=============================================================================
