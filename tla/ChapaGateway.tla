------------------------------ MODULE ChapaGateway ------------------------------
(* Chapa, seen through chapaClient.js.  The gateway itself is external: it is    *)
(* modelled by the answers the client tells apart.                               *)
(*   - POST /transaction/initialize registers a tx_ref once.  The answer is ok   *)
(*     (with a checkout URL), duplicate ("used before"), or anything else: a     *)
(*     rejection, a 5xx or a body safeJson cannot read, after which the ref may  *)
(*     or may not be registered.                                                 *)
(*   - GET /transaction/verify answers 404 for a ref that is unknown, not paid   *)
(*     yet ("still genuinely pending on gateway", run-reconciler.js) or not      *)
(*     indexed yet ("indexing lag is real", chapaClient.js); "success" only for  *)
(*     a ref whose payment it collected; "other" for everything else, a 5xx      *)
(*     included, since the client looks at nothing but these two cases.          *)
(*   - a request the client gave up on (AbortController, socket error, process   *)
(*     death) may still arrive.                                                  *)
EXTENDS TransactionRepo

CONSTANT WebhookEvents  \* bound: the events <<tx_ref, status>> Chapa may send

VARIABLES gateway,      \* tx_ref -> what Chapa holds for it
          late          \* refs of abandoned initialize requests still on the wire

gatewayVars == <<gateway, late>>

InitializeReplies == {"ok", "duplicate", "rejected"}
VerifyReplies     == {"notFound", "success", "other"}

GatewayTypeOK ==
  /\ gateway \in [Attempts -> {"absent", "unpaid", "paid"}]
  /\ late \subseteq Attempts

GatewayInit ==
  /\ gateway = [a \in Attempts |-> "absent"]
  /\ late = {}

OnGateway(a) == gateway[a] # "absent"

Register(a) ==
  gateway' = IF OnGateway(a) THEN gateway ELSE [gateway EXCEPT ![a] = "unpaid"]

\* Chapa handles an initialize request for ref a and answers r.
HandleInitialize(a, r) ==
  \/ r = "ok" /\ ~OnGateway(a) /\ Register(a)
  \/ r = "duplicate" /\ OnGateway(a) /\ UNCHANGED gateway
  \/ r = "rejected" /\ (Register(a) \/ UNCHANGED gateway)

\* What one GET /transaction/verify may answer now.
VerifyAnswers(a) ==
  {"notFound", "other"} \cup {r \in {"success"} : gateway[a] = "paid"}

\* verifyWithRetries reads up to three times and returns the first answer that is
\* not a 404, or the last 404: an answer of the read it returns, at that moment.
VerifyWithRetries(a) == VerifyAnswers(a)

\* A caller stops waiting for its initialize request, answered or not.
Abandon(a, answered) ==
  late' = IF answered THEN late ELSE late \cup {a}

\* An abandoned request reaches Chapa after all; nobody reads the answer.
LateArrival(a) ==
  /\ a \in late
  /\ Register(a)
  /\ late' = late \ {a}

\* The customer pays on the checkout page of ref a.
Collect(a) ==
  /\ gateway[a] = "unpaid"
  /\ gateway' = [gateway EXCEPT ![a] = "paid"]
  /\ UNCHANGED late

\* Chapa may send a signed webhook for an event, any number of times, once it is so:
\* "success" for a collected payment, "failed" for a checkout that came to nothing.
EventStatuses == {"success", "failed"}

ASSUME WebhookEventsAssumption == WebhookEvents \subseteq Attempts \X EventStatuses

MaySend(e) == IF e[2] = "success" THEN gateway[e[1]] = "paid" ELSE OnGateway(e[1])

=============================================================================
