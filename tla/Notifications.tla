------------------------------ MODULE Notifications ------------------------------
(* What becomes of a notification once it is queued: the delivery worker and the     *)
(* digest, started by cron, with the lock of their jobs, and the admin who sends     *)
(* dead letters back and edits the webhook URL.                                      *)
EXTENDS DeliveryWorker, DlqDigest

CONSTANT MaxRequeues    \* bound: dead letters the admin sends back

ASSUME MaxRequeuesAssumption == MaxRequeues \in Nat

ASSUME RunsAssumption == Workers \cap Digests = {} /\ Workers \cup Digests = Runs

VARIABLES requeued,     \* how many so far
          listed,       \* deliveries put on the list of failures since they were sent back
          overlapped    \* two runs of the delivery worker have been at work at once

notificationVars ==
  <<job_locks, pc, tableVars, workerVars, appVars, digestVars, requeued,
    listed, overlapped>>

Init ==
  /\ LockInit
  /\ QueueInit
  /\ WorkerInit
  /\ DigestInit
  /\ requeued = 0
  /\ listed = {}
  /\ overlapped = FALSE

Overlap == \E v, w \in Workers : v # w /\ pc[v] # "idle" /\ pc[w] # "idle"

Elsewhere == UNCHANGED <<job_locks, pc, workerVars, appVars, digestVars>>

RunStarts(p) ==
  AcquireLock(p) /\ UNCHANGED <<tableVars, workerVars, appVars, digestVars, requeued>>

RunEnds(p) ==
  ReleaseLock(p) /\ UNCHANGED <<tableVars, workerVars, appVars, digestVars, requeued>>

WorkerStep(w) == (Works(w) \/ WorkerDies(w)) /\ UNCHANGED <<digestVars, requeued>>

DigestStep(g) ==
  (Digest(g) \/ DigestDies(g)) /\ UNCHANGED <<workerVars, appVars, requeued>>

Enqueue(d) == EnqueueDelivery(d) /\ Elsewhere /\ UNCHANGED requeued

AdminRetries(d) ==
  /\ requeued < MaxRequeues
  /\ RetryDelivery(d)
  /\ Elsewhere
  /\ requeued' = requeued + 1

AdminSetsUrl == UpdateWebhookUrl /\ Elsewhere /\ UNCHANGED requeued

TimePasses(j) ==
  /\ LockExpires(j)
  /\ UNCHANGED <<tableVars, workerVars, appVars, digestVars, requeued>>

Step ==
  \/ \E p \in Runs : RunStarts(p) \/ RunEnds(p)
  \/ \E w \in Workers : WorkerStep(w)
  \/ \E g \in Digests : DigestStep(g)
  \/ \E d \in Deliveries : Enqueue(d)
  \/ \E d \in Deliveries : AdminRetries(d)
  \/ AdminSetsUrl
  \/ \E j \in Jobs : TimePasses(j)

\* A delivery that goes from FAILED_DLQ to PENDING has been sent back.
Listed(d) ==
  \/ d \in listed /\ ~(queue[d] = "FAILED_DLQ" /\ queue'[d] = "PENDING")
  \/ \E i \in DOMAIN dlq_failures' \ DOMAIN dlq_failures : dlq_failures'[i].delivery = d

Watch ==
  /\ listed' = {d \in Deliveries : Listed(d)}
  /\ overlapped' = (overlapped \/ Overlap')

Next == Step /\ Watch

Spec == Init /\ [][Next]_notificationVars

----------------------------------------------------------------------------
TypeOK ==
  /\ LockTypeOK
  /\ pc \in [Runs -> WorkerLabels \cup DigestLabels]
  /\ QueueTypeOK
  /\ WorkerTypeOK
  /\ DigestTypeOK
  /\ requeued \in 0 .. MaxRequeues
  /\ listed \subseteq Deliveries
  /\ overlapped \in BOOLEAN

\* A delivery is settled for a reason only: it is DELIVERED when the application took
\* it, and it is given up, with a webhook_url to post to, when that many POSTs were
\* made, although the attempts are counted from snapshots that overlapping runs and the
\* admin outdate.
SettledForAReason ==
  /\ \A d \in Deliveries : queue[d] = "DELIVERED" => d \in accepted
  /\ \A w \in Workers :
       pc[w] \in {"deadLetter", "insertFailure"} /\ job[w].webhook_url =>
         posts[job[w].id] = MaxDeliveryAttempts

\* A worker is about to put delivery d on the list of failures.
WillList(w, d) == pc[w] \in {"deadLetter", "insertFailure"} /\ job[w].id = d

\* A delivery is given up and neither the list nor the digest knows, or only of an earlier
\* time.
Hidden(d) ==
  /\ queue[d] = "FAILED_DLQ"
  /\ d \notin listed
  /\ \A w \in Workers : ~WillList(w, d)

\* moveToDlq's two statements are torn apart by the death of the worker or an exception it
\* does not catch and by nothing else: no other worker, requeue or late answer leaves a
\* delivery given up that is not on the list.
HiddenOnlyByFailure ==
  [][\A d \in Deliveries : ~Hidden(d) /\ Hidden(d)' =>
       \E w \in Workers :
         /\ WillList(w, d)
         /\ WorkerDies(w) \/ (StatementThrows(w) /\ Aborts(w))]_notificationVars

\* A failure is marked as digested only when it was in a mail, also when others are
\* inserted between the digest's SELECT and its UPDATE.
DigestedWasComposed ==
  \A i \in DOMAIN dlq_failures : dlq_failures[i].digested => i \in composed

\* As long as runs of the worker do not overlap, a delivery leaves DELIVERED in one way
\* only: the UPDATE that made it so threw although it had taken effect, and the same worker,
\* in its catch, takes the delivery for failed.  Status updates by id rely on runs being
\* apart for this.
DeliveredIsFinal ==
  [][\A d \in Deliveries :
       ~overlapped /\ queue[d] = "DELIVERED" /\ queue'[d] # "DELIVERED" =>
         \E w \in unanswered : job[w].id = d]_notificationVars

----------------------------------------------------------------------------
(* Liveness.  Cron keeps starting runs, a run goes on, locks expire, and a row that  *)
(* waits is due at some of the times it is looked for.                               *)
Selects(w, d) ==
  /\ GetDueJobs(w)
  /\ \E j \in batch'[w] : j.id = d
  /\ UNCHANGED <<job_locks, digestVars, requeued>>

Fairness ==
  /\ \A S \in {Workers, Digests} :
       WF_notificationVars((\E p \in S : RunStarts(p)) /\ Watch)
  /\ \A p \in Runs : WF_notificationVars(RunEnds(p) /\ Watch)
  /\ \A w \in Workers : WF_notificationVars(WorkerStep(w) /\ Watch)
  /\ \A g \in Digests : WF_notificationVars(DigestStep(g) /\ Watch)
  /\ \A j \in Jobs : WF_notificationVars(TimePasses(j) /\ Watch)
  /\ \A d \in Deliveries :
       SF_notificationVars((\E w \in Workers : Selects(w, d)) /\ Watch)

FairSpec == Spec /\ Fairness

\* A run dies or is ended by an exception, or a delivered row fails to be marked.
GoesWrong ==
  \/ \E p \in Runs : pc[p] \notin {"idle", "release"} /\ pc'[p] = "idle"
  \/ \E w \in Workers : pc[w] \notin {"next", "release"} /\ pc'[w] = "release"
  \/ \E w \in Workers : pc[w] \notin {"post", "idle"} /\ w \in caught' \ caught
  \/ \E g \in Digests : pc[g] = "update" /\ pc'[g] = "release" /\ UNCHANGED dlq_failures
  \/ \E g \in Digests : pc[g] = "select" /\ pc'[g] = "release" /\ Undigested # {}

CalmsDown == <>[][~GoesWrong]_notificationVars

\* "With backoff and DLQ" (README, Cron): whatever the application answers, and with
\* runs overlapping and losing each other's counts, a queued notification ends up
\* delivered or with the dead letters.
DeliveriesAreSettled ==
  CalmsDown => \A d \in Deliveries :
    queue[d] \in {"PENDING", "RETRYING"} ~> queue[d] \in {"DELIVERED", "FAILED_DLQ"}

\* Every failure inserted is in a mail in the end, although a digest that dies keeps
\* its lock.
FailuresAreDigested == CalmsDown => (Undigested # {} ~> Undigested = {})

----------------------------------------------------------------------------
(* What the README says of the scripts and the code does not keep. *)

\* "All three scripts self-lock via a database-backed, expiring lock table, so overlapping
\* cron invocations exit cleanly": no run goes to work while another of its job is at work
\* and the lock has not expired.
OverlappingRunsExit ==
  [][\A p, q \in Runs :
       /\ p # q /\ JobOf[p] = JobOf[q]
       /\ pc[q] # "idle" /\ job_locks[JobOf[q]] = "held"
       /\ pc[p] = "idle"
       => pc'[p] = "idle"]_notificationVars

=============================================================================
