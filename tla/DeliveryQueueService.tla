--------------------------- MODULE DeliveryQueueService ---------------------------
(* The producer side of the webhook_delivery_queue: what has been queued for the   *)
(* client application.  The table is unique on (tx_ref, event_type) and a row is   *)
(* never deleted, so the queue is the set of pairs ever inserted; what the worker  *)
(* does with a row afterwards is not visible here.                                 *)
EXTENDS Handlers

VARIABLE deliveries     \* pairs <<attempt, event type>> ever queued

EventTypes == {"payment.success", "payment.failed"}

DeliveriesTypeOK == deliveries \subseteq Attempts \X EventTypes

DeliveriesInit == deliveries = {}

\* INSERT .. ON DUPLICATE KEY UPDATE tx_ref = tx_ref: queued at most once.
EnqueueDelivery(a, type) == deliveries' = deliveries \cup {<<a, type>>}

\* Mutant: any answer but a 404 is reported as a success.
EventTypeUnlessMissing(answer) ==
  IF answer # "notFound" THEN "payment.success" ELSE "payment.failed"

\* Mutant: the status that stands for success is another one.
EventTypeOfOther(answer) == IF answer = "other" THEN "payment.success" ELSE "payment.failed"

\* The verify answer decides the event type, in both producers.
EventType(answer) == IF answer = "success" THEN "payment.success" ELSE "payment.failed"

=============================================================================
