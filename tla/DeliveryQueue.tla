------------------------------ MODULE DeliveryQueue ------------------------------
(* The tables the notifications of one application live in: webhook_delivery_queue,  *)
(* dlq_failures and the application's webhook_url.  Every operator is one statement. *)
EXTENDS Integers, Sequences

CONSTANTS Deliveries,           \* ids of queue rows
          MaxDeliveryAttempts   \* DELIVERY_MAX_ATTEMPTS

ASSUME MaxDeliveryAttemptsAssumption == MaxDeliveryAttempts \in Nat \ {0}

VARIABLES queue,        \* id -> status of its row
          attempt_count,        \* id -> attempt_count of its row
          dlq_failures, \* rows in the order of their ids
          has_url       \* webhook_url IS NOT NULL

queueVars == <<queue, attempt_count>>
tableVars == <<queueVars, dlq_failures, has_url>>

NoRow == "NO_ROW"
DeliveryStatuses == {"PENDING", "RETRYING", "DELIVERED", "FAILED_DLQ"}
Failure == [delivery : Deliveries, digested : BOOLEAN]

QueueTypeOK ==
  /\ queue \in [Deliveries -> DeliveryStatuses \cup {NoRow}]
  /\ attempt_count \in [Deliveries -> 0 .. MaxDeliveryAttempts - 1]
  /\ dlq_failures \in Seq(Failure)
  /\ has_url \in BOOLEAN

QueueInit ==
  /\ queue = [d \in Deliveries |-> NoRow]
  /\ attempt_count = [d \in Deliveries |-> 0]
  /\ dlq_failures = <<>>
  /\ has_url \in BOOLEAN

SetStatus(d, s) == queue' = [queue EXCEPT ![d] = s]
SetCount(d, n) == attempt_count' = [attempt_count EXCEPT ![d] = n]

\* Mutants: the condition on the status leaves out too little, or too much.
MayBeDueUnlessDead == {d \in Deliveries : queue[d] \notin {NoRow, "FAILED_DLQ"}}
MayBeDueOnce == {d \in Deliveries : queue[d] = "PENDING"}

\* The statuses getDueJobs selects; whether next_attempt_at has come is left open.
MayBeDue == {d \in Deliveries : queue[d] \in {"PENDING", "RETRYING"}}

\* These three name the row by its id only.
MarkDelivered(d) == SetStatus(d, "DELIVERED") /\ UNCHANGED attempt_count
MarkRetrying(d, n) == SetStatus(d, "RETRYING") /\ SetCount(d, n)
MarkFailedDlq(d) == SetStatus(d, "FAILED_DLQ") /\ UNCHANGED attempt_count

InsertFailure(d) ==
  dlq_failures' = Append(dlq_failures, [delivery |-> d, digested |-> FALSE])

Undigested == {i \in DOMAIN dlq_failures : ~dlq_failures[i].digested}

MarkDigested(ids) ==
  dlq_failures' = [i \in DOMAIN dlq_failures |->
                     [dlq_failures[i] EXCEPT !.digested = @ \/ i \in ids]]

\* deliveryQueueService.enqueueDelivery; a row that is there is left alone.
EnqueueDelivery(d) ==
  /\ queue[d] = NoRow
  /\ SetStatus(d, "PENDING")
  /\ UNCHANGED <<attempt_count, dlq_failures, has_url>>

\* dlqService.retryDelivery, on the admin's word.
RetryDelivery(d) ==
  /\ queue[d] = "FAILED_DLQ"
  /\ SetStatus(d, "PENDING")
  /\ SetCount(d, 0)
  /\ UNCHANGED <<dlq_failures, has_url>>

\* appService.updateWebhookUrl; both of its routes refuse an empty URL.
UpdateWebhookUrl ==
  /\ ~has_url
  /\ has_url' = TRUE
  /\ UNCHANGED <<queueVars, dlq_failures>>

=============================================================================
