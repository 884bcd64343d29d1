----------------------------- MODULE MCNotifications -----------------------------
(* Finite instances of Notifications for TLC. *)
EXTENDS Notifications, TLC

CONSTANTS w1, w2, g1, d1, d2

OneWorker == {w1}
TwoWorkers == {w1, w2}
OneDigest == {g1}
NoDigests == {}
OneDelivery == {d1}
TwoDeliveries == {d1, d2}

ScriptRuns == Workers \cup Digests
Scripts == {"webhook_delivery_worker", "dlq_digest"}
ScriptOf ==
  [p \in Workers \cup Digests |->
     IF p \in Workers THEN "webhook_delivery_worker" ELSE "dlq_digest"]

WorkerSymmetry == Permutations(TwoWorkers)

=============================================================================
