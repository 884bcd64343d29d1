------------------------------ MODULE WebhookService ------------------------------
(* webhookService.processIncomingWebhook, for signed and well-formed calls: a bad   *)
(* signature or payload is answered before any statement runs.  An event is the     *)
(* pair (tx_ref, status) its event_ref is made of.                                  *)
EXTENDS DeliveryQueueService

VARIABLES events,       \* event -> status of its incoming_webhooks row, or NoRow
          about         \* hook -> status named by the event it handles

webhookVars == <<events, about>>

EventRows == {NoRow, "RECEIVED", "PROCESSED", "DISCARDED"}

WebhookTypeOK ==
  /\ events \in [WebhookEvents -> EventRows]
  /\ about \in [Hooks -> EventStatuses]

WebhookInit ==
  /\ events = [e \in WebhookEvents |-> NoRow]
  /\ about = [h \in Hooks |-> "failed"]

Event(h) == <<att[h], about[h]>>

Respond(h) ==
  /\ Return(h)
  /\ about' = [about EXCEPT ![h] = "failed"]

----------------------------------------------------------------------------
\* Mutant: a duplicate event_ref is not noticed.
ReceiveWebhookAgain(h) ==
  /\ pc[h] = "idle"
  /\ \E e \in WebhookEvents :
       /\ MaySend(e)
       /\ events' = [events EXCEPT ![e] = "RECEIVED"]
       /\ about' = [about EXCEPT ![h] = e[2]]
       /\ GotoWith(h, "lookup", e[1])
  /\ UNCHANGED <<rows, gatewayVars, offered, deliveries>>

\* insertIncomingWebhookOrNoop.  An event already recorded is answered
\* {duplicate: true} with nothing changed, so there is no action for it.
ReceiveWebhook(h) ==
  /\ pc[h] = "idle"
  /\ \E e \in WebhookEvents :
       /\ MaySend(e)
       /\ events[e] = NoRow
       /\ events' = [events EXCEPT ![e] = "RECEIVED"]
       /\ about' = [about EXCEPT ![h] = e[2]]
       /\ GotoWith(h, "lookup", e[1])
  /\ UNCHANGED <<rows, gatewayVars, offered, deliveries>>

\* getByChapaTxRef; an unmatched tx_ref is marked DISCARDED and forgotten.
LookupTransaction(h) ==
  /\ pc[h] = "lookup"
  /\ IF Exists(att[h])
       THEN Goto(h, "check") /\ UNCHANGED webhookVars
       ELSE /\ events' = [events EXCEPT ![Event(h)] = "DISCARDED"]
            /\ Respond(h)
  /\ UNCHANGED <<rows, gatewayVars, offered, deliveries>>

\* The event is not believed: Chapa is asked.
CheckWithChapa(h) ==
  /\ pc[h] = "check"
  /\ \E r \in VerifyAnswers(att[h]) : GotoAnswered(h, "mark", r)
  /\ UNCHANGED <<rows, gatewayVars, offered, deliveries, webhookVars>>

\* verifyTransaction threw: 500, and the event stays RECEIVED.
CheckThrows(h) ==
  /\ pc[h] = "check"
  /\ Respond(h)
  /\ UNCHANGED <<rows, gatewayVars, offered, deliveries, events>>

\* Whatever the row's status is by now.
SettleFromWebhook(h) ==
  /\ pc[h] = "mark"
  /\ IF got[h] = "success" THEN MarkPaid(att[h]) ELSE MarkFailed(att[h])
  /\ Goto(h, "finish")
  /\ UNCHANGED <<gatewayVars, offered, deliveries, webhookVars>>

MarkWebhookProcessed(h) ==
  /\ pc[h] = "finish"
  /\ events' = [events EXCEPT ![Event(h)] = "PROCESSED"]
  /\ Goto(h, "enqueue")
  /\ UNCHANGED <<rows, gatewayVars, offered, deliveries, about>>

EnqueueFromWebhook(h) ==
  /\ pc[h] = "enqueue"
  /\ EnqueueDelivery(att[h], EventType(got[h]))
  /\ Respond(h)
  /\ UNCHANGED <<rows, gatewayVars, offered, events>>

CrashWebhook(h) ==
  /\ Crash(h)
  /\ about' = [about EXCEPT ![h] = "failed"]
  /\ UNCHANGED <<events, deliveries>>

ProcessIncomingWebhook(h) ==
  \/ ReceiveWebhook(h) \/ LookupTransaction(h) \/ CheckWithChapa(h) \/ CheckThrows(h)
  \/ SettleFromWebhook(h) \/ MarkWebhookProcessed(h) \/ EnqueueFromWebhook(h)
  \/ CrashWebhook(h)

=============================================================================
