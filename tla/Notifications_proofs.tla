--------------------------- MODULE Notifications_proofs ---------------------------
(* Proofs about Notifications for any number of runs, deliveries and attempts.       *)
EXTENDS Notifications, TLAPS

\* Where a worker has a row in hand after its POST.
AfterPost == {"delivered", "retry", "deadLetter", "insertFailure"}

\* A count, in the table or in a snapshot, is at most the number of POSTs made.  What
\* is counted was posted: counts only ever fall behind.
CountsArePosts ==
  /\ \A d \in Deliveries : attempt_count[d] <= posts[d]
  /\ \A w \in Workers : \A j \in batch[w] : j.attempt_count <= posts[j.id]
  /\ \A w \in Workers : pc[w] = "post" => job[w].attempt_count <= posts[job[w].id]

\* After the POST the count of the snapshot is behind by one at least, and the worker
\* is where GivesUp sent it.
FailuresAreHandled ==
  \A w \in Workers :
    /\ pc[w] \in AfterPost /\ job[w].webhook_url =>
         job[w].attempt_count + 1 <= posts[job[w].id]
    /\ pc[w] \in {"post", "delivered", "retry"} => job[w].webhook_url
    /\ pc[w] = "retry" => ~GivesUp(job[w])
    /\ pc[w] \in {"deadLetter", "insertFailure"} /\ job[w].webhook_url => GivesUp(job[w])

\* What is marked as delivered, or about to be, the application has taken.
DeliveredWasAccepted ==
  /\ \A d \in Deliveries : queue[d] = "DELIVERED" => d \in accepted
  /\ \A w \in Workers : pc[w] = "delivered" => job[w].id \in accepted

WorkInv == CountsArePosts /\ FailuresAreHandled /\ DeliveredWasAccepted

----------------------------------------------------------------------------
\* What a statement writes into the queue has the types of the columns.
LEMMA QueueWriteType ==
  ASSUME QueueTypeOK, NEW d \in Deliveries, NEW s \in DeliveryStatuses, SetStatus(d, s)
  PROVE  queue' \in [Deliveries -> DeliveryStatuses \cup {NoRow}]
BY DEF QueueTypeOK, SetStatus

\* A failure that is inserted is a row.
LEMMA InsertFailureType ==
  ASSUME dlq_failures \in Seq(Failure), NEW d \in Deliveries, InsertFailure(d)
  PROVE  /\ dlq_failures' \in Seq(Failure)
         /\ DOMAIN dlq_failures \subseteq DOMAIN dlq_failures'
<1>1. [delivery |-> d, digested |-> FALSE] \in Failure
  BY DEF Failure
<1> QED
  BY <1>1 DEF InsertFailure

\* Marking failures as digested keeps the rows.
LEMMA MarkDigestedType ==
  ASSUME dlq_failures \in Seq(Failure), NEW S, MarkDigested(S)
  PROVE  dlq_failures' \in Seq(Failure) /\ DOMAIN dlq_failures' = DOMAIN dlq_failures
<1>1. ASSUME NEW i \in DOMAIN dlq_failures
      PROVE  dlq_failures'[i] \in Failure
  <2>1. (dlq_failures[i].digested \/ i \in S) \in BOOLEAN
    OBVIOUS
  <2>2. dlq_failures[i] \in Failure
    OBVIOUS
  <2>3. dlq_failures'[i] = [dlq_failures[i] EXCEPT !.digested = @ \/ i \in S]
    BY DEF MarkDigested
  <2>4. dlq_failures'[i] = [dlq_failures[i] EXCEPT !.digested = dlq_failures[i].digested \/ i \in S]
    BY <2>2, <2>3 DEF Failure
  <2> QED
    BY <2>1, <2>2, <2>4 DEF Failure
<1>2. dlq_failures' = [i \in DOMAIN dlq_failures |-> dlq_failures'[i]]
  BY DEF MarkDigested
<1>3. DOMAIN dlq_failures = 1 .. Len(dlq_failures) /\ Len(dlq_failures) \in Nat
  OBVIOUS
<1> QED
  BY <1>1, <1>2, <1>3

Labels == WorkerLabels \cup DigestLabels

\* A worker that moves keeps the types of labels, its own and the digests', when what it
\* has in hand fits the label.
LEMMA WorkerMoves ==
  ASSUME TypeOK, NEW w \in Workers, NEW l \in WorkerLabels, Goto(w, l),
         batch' \in [Workers -> SUBSET Snapshot],
         job' \in [Workers -> Snapshot \cup {NoJob}],
         \A v \in Workers \ {w} : job'[v] = job[v],
         l \in AfterPost \cup {"post"} => job'[w] \in Snapshot,
         caught' \subseteq Workers, unanswered' \subseteq caught',
         accepted' \subseteq Deliveries,
         posts' \in [Deliveries -> 0 .. MaxDeliveryAttempts],
         ids' = ids, composed' = composed,
         DOMAIN dlq_failures \subseteq DOMAIN dlq_failures'
  PROVE  WorkerTypeOK' /\ DigestTypeOK' /\ pc' \in [Runs -> Labels]
<1>1. pc' \in [Runs -> Labels] /\ pc'[w] = l
  BY RunsAssumption DEF TypeOK, Goto, Labels
<1>2. \A r \in Runs \ {w} : pc'[r] = pc[r]
  BY DEF TypeOK, Goto
<1>3. DigestTypeOK'
  BY <1>2, RunsAssumption DEF TypeOK, DigestTypeOK
<1>4. WorkerTypeOK'
  BY <1>1, <1>2, RunsAssumption DEF TypeOK, WorkerTypeOK, AfterPost
<1> QED
  BY <1>1, <1>3, <1>4

\* Ending a row leaves no job behind.
LEMMA EndsJobType ==
  ASSUME TypeOK, NEW w \in Workers, NEW l, EndsJob(w, l)
  PROVE  /\ job' \in [Workers -> Snapshot \cup {NoJob}]
         /\ \A v \in Workers \ {w} : job'[v] = job[v]
         /\ caught' \subseteq Workers /\ unanswered' \subseteq caught'
         /\ Goto(w, l)
BY DEF EndsJob, TypeOK, WorkerTypeOK

\* A failed delivery goes one of two ways.
LEMMA HandleFailureMoves ==
  ASSUME NEW w \in Workers, HandleFailure(w)
  PROVE  \E l \in {"retry", "deadLetter"} :
           Goto(w, l) /\ (l = "deadLetter" <=> GivesUp(job[w]))
BY DEF HandleFailure

\* A statement of a worker writes rows of the tables' types, and none but that of its job.
LEMMA ExecutesWrites ==
  ASSUME TypeOK, FailuresAreHandled, NEW w \in Workers, Executes(w)
  PROVE  /\ pc[w] \in AfterPost /\ job[w] \in Snapshot /\ job[w].id \in Deliveries
         /\ QueueTypeOK' \/ has_url' # has_url
         /\ DOMAIN dlq_failures \subseteq DOMAIN dlq_failures'
         /\ \A d \in Deliveries \ {job[w].id} :
              queue'[d] = queue[d] /\ attempt_count'[d] = attempt_count[d]
<1> USE DEF queueVars, AfterPost
<1>0. QueueTypeOK /\ WorkerTypeOK
  BY DEF TypeOK
<1>1. pc[w] \in AfterPost /\ job[w] \in Snapshot /\ job[w].id \in Deliveries
  BY <1>0 DEF Executes, WorkerTypeOK, Snapshot
<1>2. CASE pc[w] = "delivered"
  BY <1>0, <1>1, <1>2, QueueWriteType
  DEF Executes, MarkDelivered, SetStatus, QueueTypeOK, DeliveryStatuses
<1>3. CASE pc[w] = "retry"
  <2>1. job[w].attempt_count + 1 \in 0 .. MaxDeliveryAttempts - 1
    BY <1>1, <1>3, MaxDeliveryAttemptsAssumption DEF FailuresAreHandled, GivesUp, Snapshot
  <2> QED
    BY <1>0, <1>1, <1>3, <2>1, QueueWriteType
    DEF Executes, MarkRetrying, SetStatus, SetCount, QueueTypeOK, DeliveryStatuses
<1>4. CASE pc[w] = "deadLetter"
  BY <1>0, <1>1, <1>4, QueueWriteType
  DEF Executes, MarkFailedDlq, SetStatus, QueueTypeOK, DeliveryStatuses
<1>5. CASE pc[w] = "insertFailure"
  BY <1>0, <1>1, <1>5, InsertFailureType DEF Executes, QueueTypeOK
<1> QED
  BY <1>1, <1>2, <1>3, <1>4, <1>5

\* Steps of a worker keep the types: it writes counts below the limit only, because the
\* count it goes by comes with a row it has not given up.
LEMMA WorkerTypeKept ==
  ASSUME TypeOK, FailuresAreHandled, NEW w \in Workers, Works(w) \/ WorkerDies(w),
         UNCHANGED digestVars
  PROVE  QueueTypeOK' /\ WorkerTypeOK' /\ DigestTypeOK' /\ pc' \in [Runs -> Labels]
<1> USE DEF tableVars, queueVars, workerVars, appVars, digestVars, WorkerLabels, AfterPost
<1>0. QueueTypeOK /\ WorkerTypeOK
  BY DEF TypeOK
<1>1. CASE GetDueJobs(w)
  <2>1. \A d \in MayBeDue : Row(d) \in Snapshot
    BY <1>0 DEF MayBeDue, Row, Snapshot, QueueTypeOK
  <2>2. batch' \in [Workers -> SUBSET Snapshot]
    BY <1>0, <1>1, <2>1 DEF GetDueJobs, WorkerTypeOK
  <2> QED
    BY <1>0, <1>1, <2>2, WorkerMoves DEF GetDueJobs, QueueTypeOK, WorkerTypeOK
<1>2. CASE NextJob(w)
  <2>1. PICK j \in batch[w] :
          /\ batch' = [batch EXCEPT ![w] = @ \ {j}]
          /\ job' = [job EXCEPT ![w] = j]
          /\ Goto(w, IF j.webhook_url THEN "post" ELSE "deadLetter")
    BY <1>2 DEF NextJob
  <2>2. j \in Snapshot /\ batch' \in [Workers -> SUBSET Snapshot]
    BY <1>0, <2>1 DEF WorkerTypeOK
  <2>3. job' \in [Workers -> Snapshot \cup {NoJob}] /\ job'[w] = j
    BY <1>0, <2>1, <2>2 DEF WorkerTypeOK
  <2>4. \A v \in Workers \ {w} : job'[v] = job[v]
    BY <1>0, <2>1 DEF WorkerTypeOK
  <2>5. PICK l \in {"post", "deadLetter"} : Goto(w, l)
    BY <2>1
  <2> QED
    BY <1>0, <1>2, <2>2, <2>3, <2>4, <2>5, WorkerMoves DEF NextJob, QueueTypeOK, WorkerTypeOK
<1>3. CASE BatchDone(w)
  BY <1>0, <1>3, WorkerMoves DEF BatchDone, QueueTypeOK, WorkerTypeOK
<1>4. CASE ResponseComes(w) \/ PostThrows(w)
  <2>1. job[w] \in Snapshot /\ job[w].id \in Deliveries
    BY <1>0, <1>4 DEF ResponseComes, PostThrows, WorkerTypeOK, Snapshot
  <2>2. posts' \in [Deliveries -> 0 .. MaxDeliveryAttempts] /\ accepted' \subseteq Deliveries
    BY <1>0, <1>4, <2>1, MaxDeliveryAttemptsAssumption
    DEF ResponseComes, PostThrows, CountsPost, WorkerTypeOK
  <2>3. PICK l \in {"delivered", "retry", "deadLetter"} : Goto(w, l)
    BY <1>4, HandleFailureMoves DEF ResponseComes, PostThrows
  <2>4. /\ batch' = batch /\ job' = job /\ UNCHANGED tableVars
        /\ caught' \subseteq Workers /\ unanswered' \subseteq caught'
    BY <1>0, <1>4 DEF ResponseComes, PostThrows, WorkerTypeOK
  <2> QED
    BY <1>0, <2>1, <2>2, <2>3, <2>4, WorkerMoves DEF QueueTypeOK, WorkerTypeOK
<1>5. CASE MarksDelivered(w) \/ ScheduleRetry(w)
  <2>1. job[w] \in Snapshot /\ job[w].id \in Deliveries
    BY <1>0, <1>5 DEF MarksDelivered, ScheduleRetry, WorkerTypeOK, Snapshot
  <2>2. QueueTypeOK'
    <3>1. CASE MarksDelivered(w)
      BY <1>0, <2>1, <3>1, QueueWriteType
      DEF MarksDelivered, MarkDelivered, QueueTypeOK, DeliveryStatuses
    <3>2. CASE ScheduleRetry(w)
      <4>1. job[w].attempt_count + 1 \in 0 .. MaxDeliveryAttempts - 1
        BY <2>1, <3>2, MaxDeliveryAttemptsAssumption
        DEF ScheduleRetry, FailuresAreHandled, GivesUp, Snapshot
      <4> QED
        BY <1>0, <2>1, <3>2, <4>1, QueueWriteType
        DEF ScheduleRetry, MarkRetrying, SetCount, QueueTypeOK, DeliveryStatuses
    <3> QED
      BY <1>5, <3>1, <3>2
  <2>3. EndsJob(w, "next") /\ batch' = batch /\ UNCHANGED <<dlq_failures, appVars>>
    BY <1>5 DEF MarksDelivered, ScheduleRetry
  <2> QED
    BY <1>0, <2>2, <2>3, EndsJobType, WorkerMoves DEF WorkerTypeOK
<1>6. CASE MoveToDlq(w)
  <2>1. job[w] \in Snapshot /\ job[w].id \in Deliveries
    BY <1>0, <1>6 DEF MoveToDlq, WorkerTypeOK, Snapshot
  <2>2. QueueTypeOK'
    BY <1>0, <1>6, <2>1, QueueWriteType
    DEF MoveToDlq, MarkFailedDlq, QueueTypeOK, DeliveryStatuses
  <2> QED
    BY <1>0, <1>6, <2>1, <2>2, WorkerMoves DEF MoveToDlq, WorkerTypeOK
<1>7. CASE InsertsFailure(w)
  <2>1. job[w] \in Snapshot /\ job[w].id \in Deliveries
    BY <1>0, <1>7 DEF InsertsFailure, WorkerTypeOK, Snapshot
  <2>2. QueueTypeOK' /\ DOMAIN dlq_failures \subseteq DOMAIN dlq_failures'
    BY <1>0, <1>7, <2>1, InsertFailureType DEF InsertsFailure, QueueTypeOK
  <2> QED
    BY <1>0, <1>7, <2>2, EndsJobType, WorkerMoves DEF InsertsFailure, WorkerTypeOK
<1>8. CASE StatementThrows(w)
  <2>1. /\ QueueTypeOK' /\ UNCHANGED appVars
        /\ DOMAIN dlq_failures \subseteq DOMAIN dlq_failures'
    BY <1>0, <1>8, ExecutesWrites DEF StatementThrows, QueueTypeOK
  <2>2. CASE Aborts(w)
    <3>1. batch' \in [Workers -> SUBSET Snapshot]
      BY <1>0, <2>2 DEF Aborts, WorkerTypeOK
    <3> QED
      BY <1>0, <2>1, <2>2, <3>1, EndsJobType, WorkerMoves DEF Aborts, WorkerTypeOK
  <2>3. CASE ~Aborts(w)
    <3>1. /\ job[w] \in Snapshot /\ batch' = batch /\ job' = job /\ caught' \subseteq Workers
          /\ unanswered' \subseteq caught' /\ HandleFailure(w)
      BY <1>0, <1>8, <2>3 DEF StatementThrows, WorkerTypeOK
    <3>2. PICK l \in {"retry", "deadLetter"} : Goto(w, l)
      BY <3>1, HandleFailureMoves
    <3> QED
      BY <1>0, <2>1, <3>1, <3>2, WorkerMoves DEF WorkerTypeOK
  <2> QED
    BY <2>2, <2>3
<1>9. CASE WorkerDies(w)
  <2>1. batch' \in [Workers -> SUBSET Snapshot]
    BY <1>0, <1>9 DEF WorkerDies, WorkerTypeOK
  <2>2. QueueTypeOK'
    BY <1>0, <1>9 DEF WorkerDies, QueueTypeOK
  <2> QED
    BY <1>0, <1>9, <2>1, <2>2, EndsJobType, WorkerMoves DEF WorkerDies, WorkerTypeOK
<1> QED
  BY <1>1, <1>2, <1>3, <1>4, <1>5, <1>6, <1>7, <1>8, <1>9 DEF Works, ProcessJob

\* Steps of a digest keep the types: the failures it selected stay rows.
LEMMA DigestTypeKept ==
  ASSUME TypeOK, NEW g \in Digests, Digest(g) \/ DigestDies(g), UNCHANGED <<workerVars, appVars>>
  PROVE  QueueTypeOK' /\ WorkerTypeOK' /\ DigestTypeOK' /\ pc' \in [Runs -> Labels]
<1> USE DEF tableVars, queueVars, workerVars, appVars
<1>0. QueueTypeOK /\ WorkerTypeOK /\ DigestTypeOK
  BY DEF TypeOK
<1>1. QueueTypeOK' /\ DOMAIN dlq_failures' = DOMAIN dlq_failures
  BY <1>0, MarkDigestedType
  DEF Digest, DigestDies, SelectFailures, SendDigestEmail, UpdateDigested, DigestThrows,
      QueueTypeOK
<1>2. PICK l \in DigestLabels : Goto(g, l)
  BY DEF Digest, DigestDies, SelectFailures, SendDigestEmail, UpdateDigested, DigestThrows,
         EndsDigest, DigestLabels
<1>3. ids' \in [Digests -> SUBSET DOMAIN dlq_failures]
  BY <1>0
  DEF Digest, DigestDies, SelectFailures, SendDigestEmail, UpdateDigested, DigestThrows,
      EndsDigest, Undigested, DigestTypeOK
<1>4. composed' \subseteq DOMAIN dlq_failures
  BY <1>0
  DEF Digest, DigestDies, SelectFailures, SendDigestEmail, UpdateDigested, DigestThrows,
      DigestTypeOK
<1>5. /\ pc' \in [Runs -> Labels] /\ pc'[g] = l
      /\ \A r \in Runs \ {g} : pc'[r] = pc[r]
  BY <1>2, RunsAssumption DEF TypeOK, Goto, Labels
<1>6. DigestTypeOK'
  BY <1>0, <1>1, <1>3, <1>4, <1>5, RunsAssumption DEF DigestTypeOK
<1>7. WorkerTypeOK'
  BY <1>0, <1>5, RunsAssumption DEF WorkerTypeOK
<1> QED
  BY <1>1, <1>5, <1>6, <1>7

\* The lock's row and the beginning and end of a run keep the types.
LEMMA RunTypeKept ==
  ASSUME TypeOK, NEW p \in Runs, RunStarts(p) \/ RunEnds(p)
  PROVE  /\ LockTypeOK' /\ QueueTypeOK' /\ WorkerTypeOK' /\ DigestTypeOK'
         /\ pc' \in [Runs -> Labels]
<1> USE DEF tableVars, queueVars, workerVars, appVars, digestVars
<1>1. PICK l \in {"select", "idle"} : Goto(p, l)
  BY DEF RunStarts, RunEnds, AcquireLock, ReleaseLock
<1>2. /\ pc' \in [Runs -> Labels] /\ pc'[p] = l
      /\ \A r \in Runs \ {p} : pc'[r] = pc[r]
  BY <1>1 DEF TypeOK, Goto, Labels, WorkerLabels, DigestLabels
<1>3. LockTypeOK'
  BY JobAssumption
  DEF RunStarts, RunEnds, AcquireLock, ReleaseLock, TypeOK, LockTypeOK, Locks
<1>4. QueueTypeOK'
  BY DEF RunStarts, RunEnds, TypeOK, QueueTypeOK
<1>5. WorkerTypeOK'
  BY <1>1, <1>2, RunsAssumption DEF RunStarts, RunEnds, TypeOK, WorkerTypeOK, WorkerLabels
<1>6. DigestTypeOK'
  BY <1>1, <1>2, RunsAssumption DEF RunStarts, RunEnds, TypeOK, DigestTypeOK, DigestLabels
<1> QED
  BY <1>2, <1>3, <1>4, <1>5, <1>6

\* Every step keeps the types, given that workers are where GivesUp sent them.
LEMMA TypeKept == TypeOK /\ FailuresAreHandled /\ [Next]_notificationVars => TypeOK'
<1> SUFFICES ASSUME TypeOK, FailuresAreHandled, [Next]_notificationVars
             PROVE  TypeOK'
  OBVIOUS
<1> USE DEF tableVars, queueVars, workerVars, appVars, digestVars
<1>1. overlapped' \in BOOLEAN /\ listed' \subseteq Deliveries
  BY DEF Next, Watch, Overlap, TypeOK, notificationVars
<1>2. ASSUME NEW p \in Runs, RunStarts(p) \/ RunEnds(p)
      PROVE  TypeOK'
  BY <1>1, <1>2, RunTypeKept DEF RunStarts, RunEnds, TypeOK, Labels
<1>3. ASSUME NEW w \in Workers, WorkerStep(w)
      PROVE  TypeOK'
  <2>1. LockTypeOK'
    BY <1>3 DEF WorkerStep, Works, WorkerDies, TypeOK, LockTypeOK
  <2> QED
    BY <1>1, <1>3, <2>1, WorkerTypeKept DEF WorkerStep, TypeOK, Labels
<1>4. ASSUME NEW g \in Digests, DigestStep(g)
      PROVE  TypeOK'
  <2>1. LockTypeOK'
    BY <1>4 DEF DigestStep, Digest, DigestDies, TypeOK, LockTypeOK
  <2> QED
    BY <1>1, <1>4, <2>1, DigestTypeKept DEF DigestStep, TypeOK, Labels
<1>5. ASSUME NEW d \in Deliveries, Enqueue(d) \/ AdminRetries(d)
      PROVE  TypeOK'
  <2>1. QueueTypeOK'
    BY <1>5, QueueWriteType, MaxDeliveryAttemptsAssumption
    DEF Enqueue, AdminRetries, EnqueueDelivery, RetryDelivery, SetCount, TypeOK,
        QueueTypeOK, DeliveryStatuses
  <2>2. requeued' \in 0 .. MaxRequeues
    BY <1>5, MaxRequeuesAssumption DEF Enqueue, AdminRetries, TypeOK
  <2>3. UNCHANGED <<job_locks, pc, workerVars, appVars, digestVars, dlq_failures>>
    BY <1>5 DEF Enqueue, AdminRetries, Elsewhere, EnqueueDelivery, RetryDelivery
  <2> QED
    BY <1>1, <2>1, <2>2, <2>3 DEF TypeOK, LockTypeOK, WorkerTypeOK, DigestTypeOK
<1>6. CASE AdminSetsUrl \/ UNCHANGED notificationVars
  BY <1>1, <1>6
  DEF AdminSetsUrl, UpdateWebhookUrl, Elsewhere, notificationVars, TypeOK, LockTypeOK,
      QueueTypeOK, WorkerTypeOK, DigestTypeOK
<1>7. ASSUME NEW j \in Jobs, TimePasses(j)
      PROVE  TypeOK'
  BY <1>1, <1>7
  DEF TimePasses, LockExpires, TypeOK, LockTypeOK, Locks, QueueTypeOK, WorkerTypeOK,
      DigestTypeOK
<1> QED
  BY <1>2, <1>3, <1>4, <1>5, <1>6, <1>7 DEF Next, Step

----------------------------------------------------------------------------
\* A step that moves no worker past its SELECT, delivers nothing and counts nothing.
LEMMA WorkInvOfOthers ==
  ASSUME TypeOK, WorkInv,
         \A w \in Workers : pc'[w] = pc[w] \/ pc'[w] \in {"idle", "select"},
         UNCHANGED <<workerVars, appVars>>,
         \A d \in Deliveries : queue'[d] = "DELIVERED" => queue[d] = "DELIVERED",
         \A d \in Deliveries : attempt_count'[d] \in {0, attempt_count[d]}
  PROVE  WorkInv'
<1> USE DEF workerVars, appVars, WorkInv
<1>1. CountsArePosts'
  <2>1. \A d \in Deliveries : attempt_count'[d] <= posts'[d]
    BY DEF CountsArePosts, TypeOK, WorkerTypeOK
  <2> QED
    BY <2>1 DEF CountsArePosts
<1>2. FailuresAreHandled'
  BY DEF FailuresAreHandled, AfterPost, GivesUp
<1>3. DeliveredWasAccepted'
  BY DEF DeliveredWasAccepted
<1> QED
  BY <1>1, <1>2, <1>3

\* A worker that leaves the row it had in hand, having changed nothing but the row's
\* status, to something else than DELIVERED or rightly to that.
LEMMA WorkInvOfEndsJob ==
  ASSUME TypeOK, WorkInv, NEW w \in Workers, NEW l \in {"next", "release", "idle"},
         EndsJob(w, l), UNCHANGED appVars,
         \A v \in Workers : batch'[v] \subseteq batch[v],
         \A d \in Deliveries : attempt_count'[d] <= posts[d],
         \A d \in Deliveries : queue'[d] = "DELIVERED" => d \in accepted
  PROVE  WorkInv'
<1> USE DEF appVars, WorkInv
<1>1. /\ pc'[w] = l
      /\ \A v \in Workers \ {w} : pc'[v] = pc[v] /\ job'[v] = job[v]
  BY RunsAssumption DEF EndsJob, Goto, TypeOK, WorkerTypeOK
<1>2. CountsArePosts'
  BY <1>1 DEF CountsArePosts
<1>3. FailuresAreHandled'
  BY <1>1 DEF FailuresAreHandled, AfterPost, GivesUp
<1>4. DeliveredWasAccepted'
  BY <1>1 DEF DeliveredWasAccepted
<1> QED
  BY <1>2, <1>3, <1>4

\* A worker that goes on with the row it has in hand.
LEMMA WorkInvOfGoto ==
  ASSUME TypeOK, WorkInv, NEW w \in Workers, NEW l, Goto(w, l),
         UNCHANGED batch,
         \A v \in Workers \ {w} : job'[v] = job[v],
         job'[w].attempt_count \in Int,
         \A d \in Deliveries : attempt_count'[d] <= posts'[d],
         \A d \in Deliveries : posts[d] <= posts'[d] /\ posts'[d] \in Int,
         accepted \subseteq accepted',
         \A d \in Deliveries : queue'[d] = "DELIVERED" => d \in accepted',
         job'[w].id \in Deliveries,
         l = "post" => job'[w].attempt_count <= posts'[job'[w].id],
         l \in AfterPost /\ job'[w].webhook_url =>
           job'[w].attempt_count + 1 <= posts'[job'[w].id],
         l \in {"post", "delivered", "retry"} => job'[w].webhook_url,
         l = "retry" => ~GivesUp(job'[w]),
         l \in {"deadLetter", "insertFailure"} /\ job'[w].webhook_url => GivesUp(job'[w]),
         l = "delivered" => job'[w].id \in accepted'
  PROVE  WorkInv'
<1> USE DEF WorkInv
<1>1. pc'[w] = l /\ \A v \in Workers \ {w} : pc'[v] = pc[v]
  BY RunsAssumption DEF Goto, TypeOK
<1>2. \A v \in Workers : \A j \in batch[v] : j.id \in Deliveries /\ j.attempt_count \in Int
  BY DEF TypeOK, WorkerTypeOK, Snapshot
<1>3. \A v \in Workers : pc[v] \in AfterPost \cup {"post"} =>
        job[v].id \in Deliveries /\ job[v].attempt_count \in Int
  BY DEF TypeOK, WorkerTypeOK, AfterPost, Snapshot
<1>4. \A d \in Deliveries : attempt_count[d] \in Int /\ posts[d] \in Int
  BY DEF TypeOK, WorkerTypeOK, QueueTypeOK
<1>5. CountsArePosts'
  BY <1>1, <1>2, <1>3, <1>4 DEF CountsArePosts
<1>6. FailuresAreHandled'
  BY <1>1, <1>3, <1>4 DEF FailuresAreHandled, AfterPost, GivesUp
<1>7. DeliveredWasAccepted'
  BY <1>1, <1>3 DEF DeliveredWasAccepted, AfterPost
<1> QED
  BY <1>5, <1>6, <1>7

\* What a statement writes is in line with it.
LEMMA ExecutedWork ==
  ASSUME TypeOK, WorkInv, NEW w \in Workers, Executes(w)
  PROVE  /\ \A d \in Deliveries : attempt_count'[d] <= posts[d]
         /\ \A d \in Deliveries : queue'[d] = "DELIVERED" => d \in accepted
<1> USE DEF queueVars, AfterPost, WorkInv, DeliveredWasAccepted
<1>0. QueueTypeOK /\ job[w] \in Snapshot /\ job[w].id \in Deliveries
  BY DEF Executes, TypeOK, WorkerTypeOK, Snapshot
<1>c. \A d \in Deliveries : attempt_count[d] <= posts[d]
  BY DEF CountsArePosts
<1>1. CASE pc[w] = "delivered"
  BY <1>0, <1>c, <1>1 DEF Executes, MarkDelivered, SetStatus, QueueTypeOK
<1>2. CASE pc[w] = "retry"
  <2>1. job[w].attempt_count + 1 <= posts[job[w].id]
    BY <1>2 DEF FailuresAreHandled
  <2> QED
    BY <1>0, <1>c, <1>2, <2>1
    DEF Executes, MarkRetrying, SetStatus, SetCount, QueueTypeOK
<1>3. CASE pc[w] = "deadLetter"
  BY <1>0, <1>c, <1>3 DEF Executes, MarkFailedDlq, SetStatus, QueueTypeOK
<1>4. CASE pc[w] = "insertFailure"
  BY <1>c, <1>4 DEF Executes
<1> QED
  BY <1>1, <1>2, <1>3, <1>4 DEF Executes

\* Steps of a worker keep it: the POST moves the counted posts ahead of the snapshot,
\* every later step only uses up that lead.
LEMMA WorkerKeepsWork ==
  ASSUME TypeOK, WorkInv, NEW w \in Workers, Works(w) \/ WorkerDies(w)
  PROVE  WorkInv'
<1> USE DEF tableVars, queueVars, workerVars, appVars
<1>0. QueueTypeOK /\ WorkerTypeOK
  BY DEF TypeOK
<1>1. CASE GetDueJobs(w)
  <2>1. pc'[w] = "next" /\ \A v \in Workers \ {w} : pc'[v] = pc[v] /\ batch'[v] = batch[v]
    BY <1>0, <1>1, RunsAssumption DEF GetDueJobs, Goto, TypeOK, WorkerTypeOK
  <2>2. \A j \in batch'[w] : \E d \in Deliveries : j.id = d /\ j.attempt_count = attempt_count[d]
    BY <1>0, <1>1 DEF GetDueJobs, MayBeDue, Row, WorkerTypeOK
  <2>3. UNCHANGED <<queue, attempt_count, job, accepted, posts>>
    BY <1>1 DEF GetDueJobs
  <2>4. \A j \in batch'[w] : j.attempt_count <= posts[j.id]
    BY <2>2 DEF WorkInv, CountsArePosts
  <2> QED
    BY <2>1, <2>3, <2>4
    DEF WorkInv, CountsArePosts, FailuresAreHandled, AfterPost, GivesUp, DeliveredWasAccepted
<1>2. CASE NextJob(w)
  <2>1. PICK j \in batch[w] :
          /\ batch' = [batch EXCEPT ![w] = @ \ {j}]
          /\ job' = [job EXCEPT ![w] = j]
          /\ Goto(w, IF j.webhook_url THEN "post" ELSE "deadLetter")
    BY <1>2 DEF NextJob
  <2>2. j \in Snapshot /\ j.attempt_count <= posts[j.id]
    BY <1>0, <2>1 DEF WorkerTypeOK, WorkInv, CountsArePosts
  <2>3. \A v \in Workers : batch'[v] \subseteq batch[v]
    BY <1>0, <2>1 DEF WorkerTypeOK
  <2>4. /\ job'[w] = j /\ pc'[w] = (IF j.webhook_url THEN "post" ELSE "deadLetter")
        /\ \A v \in Workers \ {w} : job'[v] = job[v] /\ pc'[v] = pc[v]
    BY <1>0, <2>1, RunsAssumption DEF WorkerTypeOK, Goto, TypeOK
  <2>5. UNCHANGED <<queue, attempt_count, accepted, posts>>
    BY <1>2 DEF NextJob
  <2>6. CountsArePosts'
    BY <2>2, <2>3, <2>4, <2>5 DEF WorkInv, CountsArePosts
  <2>7. FailuresAreHandled'
    BY <2>2, <2>4, <2>5 DEF WorkInv, FailuresAreHandled, AfterPost, GivesUp, Snapshot
  <2>8. DeliveredWasAccepted'
    BY <2>4, <2>5 DEF WorkInv, DeliveredWasAccepted
  <2> QED
    BY <2>6, <2>7, <2>8 DEF WorkInv
<1>3. CASE BatchDone(w)
  <2>1. pc'[w] = "release" /\ \A v \in Workers \ {w} : pc'[v] = pc[v]
    BY <1>3, RunsAssumption DEF BatchDone, Goto, TypeOK
  <2>2. UNCHANGED <<queue, attempt_count, batch, job, accepted, posts>>
    BY <1>3 DEF BatchDone
  <2> QED
    BY <2>1, <2>2
    DEF WorkInv, CountsArePosts, FailuresAreHandled, AfterPost, GivesUp, DeliveredWasAccepted
<1>4. CASE ResponseComes(w) \/ PostThrows(w)
  <2> DEFINE d == job[w].id
  <2>1. /\ pc[w] = "post" /\ job[w] \in Snapshot /\ d \in Deliveries
        /\ job[w].webhook_url /\ job[w].attempt_count <= posts[d]
    BY <1>0, <1>4
    DEF ResponseComes, PostThrows, WorkerTypeOK, Snapshot, WorkInv, CountsArePosts,
        FailuresAreHandled
  <2>2. job[w].attempt_count \in 0 .. MaxDeliveryAttempts - 1
    BY <2>1 DEF Snapshot
  <2>3. /\ \A e \in Deliveries : posts[e] <= posts'[e] /\ posts'[e] \in Int
        /\ job[w].attempt_count + 1 <= posts'[d]
    BY <1>0, <1>4, <2>1, <2>2, MaxDeliveryAttemptsAssumption
    DEF ResponseComes, PostThrows, CountsPost, WorkerTypeOK
  <2>4. UNCHANGED <<queue, attempt_count, batch, job>> /\ accepted \subseteq accepted'
    BY <1>4 DEF ResponseComes, PostThrows
  <2>5. \E l \in {"delivered", "retry", "deadLetter"} :
          /\ Goto(w, l)
          /\ l # "delivered" => (l = "deadLetter" <=> GivesUp(job[w]))
          /\ l = "delivered" => d \in accepted'
    BY <1>4, HandleFailureMoves DEF ResponseComes, PostThrows
  <2>6. \A e \in Deliveries : attempt_count'[e] <= posts'[e]
    BY <1>0, <2>3, <2>4 DEF WorkInv, CountsArePosts, QueueTypeOK, WorkerTypeOK
  <2>7. \A e \in Deliveries : queue'[e] = "DELIVERED" => e \in accepted'
    BY <2>4 DEF WorkInv, DeliveredWasAccepted
  <2> HIDE DEF d
  <2> QED
    BY <2>1, <2>2, <2>3, <2>4, <2>5, <2>6, <2>7, WorkInvOfGoto DEF AfterPost, GivesUp, d
<1>5. CASE MarksDelivered(w)
  <2>1. job[w].id \in accepted
    BY <1>5 DEF MarksDelivered, WorkInv, DeliveredWasAccepted
  <2>2. \A d \in Deliveries : queue'[d] = "DELIVERED" => d \in accepted
    BY <1>0, <1>5, <2>1
    DEF MarksDelivered, MarkDelivered, SetStatus, QueueTypeOK, WorkInv, DeliveredWasAccepted
  <2>3. UNCHANGED <<attempt_count, batch, accepted, posts>> /\ EndsJob(w, "next")
    BY <1>5 DEF MarksDelivered, MarkDelivered
  <2> QED
    BY <2>2, <2>3, WorkInvOfEndsJob DEF WorkInv, CountsArePosts
<1>6. CASE ScheduleRetry(w)
  <2>1. /\ job[w] \in Snapshot /\ job[w].id \in Deliveries
        /\ job[w].attempt_count + 1 <= posts[job[w].id]
    BY <1>0, <1>6
    DEF ScheduleRetry, WorkerTypeOK, Snapshot, WorkInv, FailuresAreHandled, AfterPost
  <2>2. \A d \in Deliveries : attempt_count'[d] <= posts[d]
    BY <1>0, <1>6, <2>1
    DEF ScheduleRetry, MarkRetrying, SetCount, QueueTypeOK, WorkInv, CountsArePosts
  <2>3. \A d \in Deliveries : queue'[d] = "DELIVERED" => d \in accepted
    BY <1>0, <1>6
    DEF ScheduleRetry, MarkRetrying, SetStatus, QueueTypeOK, WorkInv, DeliveredWasAccepted
  <2>4. UNCHANGED <<batch, accepted, posts>> /\ EndsJob(w, "next")
    BY <1>6 DEF ScheduleRetry
  <2> QED
    BY <2>2, <2>3, <2>4, WorkInvOfEndsJob
<1>7. CASE MoveToDlq(w)
  <2>1. pc[w] = "deadLetter" /\ job[w] \in Snapshot
    BY <1>0, <1>7 DEF MoveToDlq, WorkerTypeOK
  <2>2. \A d \in Deliveries : queue'[d] = "DELIVERED" => queue[d] = "DELIVERED"
    BY <1>0, <1>7 DEF MoveToDlq, MarkFailedDlq, SetStatus, QueueTypeOK
  <2>3. UNCHANGED <<attempt_count, batch, job, accepted, posts>> /\ Goto(w, "insertFailure")
    BY <1>7 DEF MoveToDlq, MarkFailedDlq
  <2>4. /\ job[w].id \in Deliveries /\ job[w].attempt_count \in Int
        /\ \A d \in Deliveries : posts[d] \in Int
    BY <1>0, <2>1 DEF Snapshot, WorkerTypeOK
  <2>5. job[w].webhook_url =>
          job[w].attempt_count + 1 <= posts[job[w].id] /\ GivesUp(job[w])
    BY <2>1 DEF WorkInv, FailuresAreHandled, AfterPost
  <2>6. /\ \A d \in Deliveries : attempt_count'[d] <= posts'[d]
        /\ \A d \in Deliveries : queue'[d] = "DELIVERED" => d \in accepted'
    BY <2>2, <2>3 DEF WorkInv, CountsArePosts, DeliveredWasAccepted
  <2> QED
    BY <2>1, <2>3, <2>4, <2>5, <2>6, WorkInvOfGoto DEF GivesUp
<1>8. CASE InsertsFailure(w)
  BY <1>8, WorkInvOfEndsJob DEF InsertsFailure, WorkInv, CountsArePosts, DeliveredWasAccepted
<1>9. CASE StatementThrows(w)
  <2>0. /\ \A d \in Deliveries : attempt_count'[d] <= posts[d]
        /\ \A d \in Deliveries : queue'[d] = "DELIVERED" => d \in accepted
    <3>1. CASE Executes(w)
      BY <3>1, ExecutedWork DEF WorkInv
    <3>2. CASE UNCHANGED <<queue, attempt_count>>
      BY <3>2 DEF WorkInv, CountsArePosts, DeliveredWasAccepted
    <3> QED
      BY <1>9, <3>1, <3>2 DEF StatementThrows
  <2>1. CASE Aborts(w)
    <3>1. \A v \in Workers : batch'[v] \subseteq batch[v]
      BY <1>0, <2>1 DEF Aborts, WorkerTypeOK
    <3> QED
      BY <1>9, <2>0, <2>1, <3>1, WorkInvOfEndsJob DEF StatementThrows, Aborts
  <2>2. CASE ~Aborts(w)
    <3>1. /\ pc[w] \in AfterPost /\ job[w].webhook_url /\ HandleFailure(w)
          /\ UNCHANGED <<batch, job, accepted, posts>>
      BY <1>9, <2>2 DEF StatementThrows, AfterPost
    <3>2. job[w] \in Snapshot /\ job[w].attempt_count + 1 <= posts[job[w].id]
      BY <1>0, <3>1 DEF WorkerTypeOK, WorkInv, FailuresAreHandled, AfterPost
    <3>3. /\ job[w].id \in Deliveries /\ job[w].attempt_count \in Int
          /\ \A d \in Deliveries : posts[d] \in Int
      BY <1>0, <3>2 DEF Snapshot, WorkerTypeOK
    <3>4. PICK l \in {"retry", "deadLetter"} :
            Goto(w, l) /\ (l = "deadLetter" <=> GivesUp(job[w]))
      BY <3>1, HandleFailureMoves
    <3> QED
      BY <2>0, <3>1, <3>2, <3>3, <3>4, WorkInvOfGoto DEF GivesUp
  <2> QED
    BY <2>1, <2>2
<1>10. CASE WorkerDies(w)
  <2>1. \A v \in Workers : batch'[v] \subseteq batch[v]
    BY <1>0, <1>10 DEF WorkerDies, WorkerTypeOK
  <2> QED
    BY <1>10, <2>1, WorkInvOfEndsJob
    DEF WorkerDies, WorkInv, CountsArePosts, DeliveredWasAccepted
<1> QED
  BY <1>1, <1>2, <1>3, <1>4, <1>5, <1>6, <1>7, <1>8, <1>9, <1>10 DEF Works, ProcessJob

----------------------------------------------------------------------------
\* The inductive invariant holds at the beginning.
LEMMA InitWork == Init => TypeOK /\ WorkInv
<1> SUFFICES ASSUME Init
             PROVE  TypeOK /\ WorkInv
  OBVIOUS
<1> USE DEF Init, LockInit, QueueInit, WorkerInit, DigestInit
<1>1. LockTypeOK /\ QueueTypeOK
  BY MaxDeliveryAttemptsAssumption DEF LockTypeOK, Locks, QueueTypeOK, DeliveryStatuses
<1>2. WorkerTypeOK /\ DigestTypeOK
  BY MaxDeliveryAttemptsAssumption, WorkersAssumption, DigestsAssumption
  DEF WorkerTypeOK, WorkerLabels, DigestTypeOK, DigestLabels
<1>3. TypeOK
  <2>1. pc \in [Runs -> WorkerLabels \cup DigestLabels]
    BY DEF WorkerLabels
  <2>2. requeued \in 0 .. MaxRequeues
    BY MaxRequeuesAssumption
  <2>3. overlapped \in BOOLEAN /\ listed \subseteq Deliveries
    OBVIOUS
  <2> QED
    BY <1>1, <1>2, <2>1, <2>2, <2>3 DEF TypeOK
<1>4. WorkInv
  BY WorkersAssumption
  DEF WorkInv, CountsArePosts, FailuresAreHandled, AfterPost, DeliveredWasAccepted, NoRow
<1> QED
  BY <1>3, <1>4

\* Every step keeps the invariant.
LEMMA NextKeepsWork == TypeOK /\ WorkInv /\ [Next]_notificationVars => WorkInv'
<1> SUFFICES ASSUME TypeOK, WorkInv, [Next]_notificationVars
             PROVE  WorkInv'
  OBVIOUS
<1> USE DEF tableVars, queueVars, workerVars, appVars, digestVars
<1>0. QueueTypeOK /\ WorkerTypeOK
  BY DEF TypeOK
<1>1. ASSUME NEW p \in Runs, RunStarts(p) \/ RunEnds(p)
      PROVE  WorkInv'
  <2>1. PICK l \in {"select", "idle"} : Goto(p, l)
    BY <1>1 DEF RunStarts, RunEnds, AcquireLock, ReleaseLock
  <2>2. \A w \in Workers : pc'[w] = pc[w] \/ pc'[w] \in {"idle", "select"}
    BY <2>1, RunsAssumption DEF Goto, TypeOK
  <2> QED
    BY <1>1, <2>2, WorkInvOfOthers DEF RunStarts, RunEnds
<1>2. ASSUME NEW w \in Workers, WorkerStep(w)
      PROVE  WorkInv'
  BY <1>2, WorkerKeepsWork DEF WorkerStep
<1>3. ASSUME NEW g \in Digests, DigestStep(g)
      PROVE  WorkInv'
  <2>1. PICK l : Goto(g, l)
    BY <1>3
    DEF DigestStep, Digest, DigestDies, SelectFailures, SendDigestEmail, UpdateDigested,
        DigestThrows, EndsDigest
  <2>2. \A w \in Workers : pc'[w] = pc[w]
    BY <2>1, RunsAssumption DEF Goto, TypeOK
  <2>3. UNCHANGED <<queue, attempt_count, workerVars, appVars>>
    BY <1>3
    DEF DigestStep, Digest, DigestDies, SelectFailures, SendDigestEmail, UpdateDigested,
        DigestThrows
  <2> QED
    BY <2>2, <2>3, WorkInvOfOthers
<1>4. ASSUME NEW d \in Deliveries, Enqueue(d) \/ AdminRetries(d)
      PROVE  WorkInv'
  <2>1. \A e \in Deliveries :
          /\ queue'[e] = "DELIVERED" => queue[e] = "DELIVERED"
          /\ attempt_count'[e] \in {0, attempt_count[e]}
    BY <1>0, <1>4
    DEF Enqueue, AdminRetries, EnqueueDelivery, RetryDelivery, SetStatus, SetCount, QueueTypeOK
  <2> QED
    BY <1>4, <2>1, WorkInvOfOthers DEF Enqueue, AdminRetries, Elsewhere
<1>5. CASE AdminSetsUrl \/ (\E j \in Jobs : TimePasses(j)) \/ UNCHANGED notificationVars
  <2>1. UNCHANGED <<pc, queue, attempt_count, workerVars, appVars>>
    BY <1>5
    DEF AdminSetsUrl, UpdateWebhookUrl, Elsewhere, TimePasses, LockExpires, notificationVars
  <2> QED
    BY <2>1, WorkInvOfOthers
<1> QED
  BY <1>1, <1>2, <1>3, <1>4, <1>5 DEF Next, Step

\* The delivery of notifications keeps its types and the bookkeeping of attempts, whatever
\* runs overlap, die or fail.
THEOREM WorkInductive == Spec => [](TypeOK /\ WorkInv)
<1>1. TypeOK /\ WorkInv /\ [Next]_notificationVars => (TypeOK /\ WorkInv)'
  BY TypeKept, NextKeepsWork DEF WorkInv
<1> QED
  BY <1>1, InitWork, PTL DEF Spec

\* Statuses, counts, snapshots and what digests remember stay in their types.  The count
\* written is always below the limit.
THEOREM NotificationsTypeCorrect == Spec => []TypeOK
BY WorkInductive, PTL

\* A notification is DELIVERED only when the application took it, and given up only after
\* as many POSTs as there may be attempts.
THEOREM SettlingHasAReason == Spec => []SettledForAReason
<1>1. TypeOK /\ WorkInv => SettledForAReason
  <2> SUFFICES ASSUME TypeOK, WorkInv
               PROVE  SettledForAReason
    OBVIOUS
  <2>1. ASSUME NEW w \in Workers, pc[w] \in {"deadLetter", "insertFailure"}, job[w].webhook_url
        PROVE  posts[job[w].id] = MaxDeliveryAttempts
    <3>1. job[w] \in Snapshot /\ job[w].id \in Deliveries
      BY <2>1 DEF TypeOK, WorkerTypeOK, Snapshot
    <3>2. GivesUp(job[w]) /\ job[w].attempt_count + 1 <= posts[job[w].id]
      BY <2>1 DEF WorkInv, FailuresAreHandled, AfterPost
    <3>3. posts[job[w].id] \in 0 .. MaxDeliveryAttempts
      BY <3>1 DEF TypeOK, WorkerTypeOK
    <3> QED
      BY <3>1, <3>2, <3>3, MaxDeliveryAttemptsAssumption DEF GivesUp, Snapshot
  <2> QED
    BY <2>1 DEF SettledForAReason, WorkInv, DeliveredWasAccepted
<1> QED
  BY <1>1, WorkInductive, PTL

----------------------------------------------------------------------------
\* What a digest is about to mark was in its mail.
DigestInv ==
  /\ DigestedWasComposed
  /\ \A g \in Digests : pc[g] = "update" => ids[g] \subseteq composed

\* Steps of a digest keep this: it marks what it selected, and has composed that.
LEMMA DigestKeepsDigest ==
  ASSUME TypeOK, DigestInv, NEW g \in Digests, DigestStep(g)
  PROVE  DigestInv'
<1> USE DEF DigestInv, DigestedWasComposed, tableVars, queueVars
<1>0. DigestTypeOK /\ dlq_failures \in Seq(Failure)
  BY DEF TypeOK, QueueTypeOK
<1>1. ASSUME NEW l, Goto(g, l)
      PROVE  pc'[g] = l /\ \A h \in Digests \ {g} : pc'[h] = pc[h]
  BY <1>1, RunsAssumption DEF Goto, TypeOK
<1>2. ASSUME NEW l \in {"release", "idle"}, EndsDigest(g, l), UNCHANGED <<dlq_failures, composed>>
      PROVE  DigestInv'
  <2>1. \A h \in Digests \ {g} : ids'[h] = ids[h]
    BY <1>0, <1>2 DEF EndsDigest, DigestTypeOK
  <2> QED
    BY <1>1, <1>2, <2>1 DEF EndsDigest
<1>3. CASE SelectFailures(g)
  <2>1. \A h \in Digests \ {g} : ids'[h] = ids[h]
    BY <1>0, <1>3 DEF SelectFailures, DigestTypeOK
  <2>2. PICK l \in {"release", "mail"} : Goto(g, l)
    BY <1>3 DEF SelectFailures
  <2> QED
    BY <1>1, <1>3, <2>1, <2>2 DEF SelectFailures
<1>4. CASE SendDigestEmail(g)
  BY <1>1, <1>4 DEF SendDigestEmail
<1>5. CASE UpdateDigested(g) \/ (DigestThrows(g) /\ pc[g] = "update" /\ MarkDigested(ids[g]))
  <2>1. /\ DOMAIN dlq_failures' = DOMAIN dlq_failures
        /\ \A i \in DOMAIN dlq_failures :
             dlq_failures'[i].digested => dlq_failures[i].digested \/ i \in ids[g]
    <3>1. DOMAIN dlq_failures' = DOMAIN dlq_failures
      BY <1>0, <1>5, MarkDigestedType DEF UpdateDigested, DigestThrows
    <3>2. ASSUME NEW i \in DOMAIN dlq_failures
          PROVE  dlq_failures'[i].digested => dlq_failures[i].digested \/ i \in ids[g]
      <4>1. dlq_failures[i] \in Failure
        BY <1>0
      <4>2. dlq_failures'[i] = [dlq_failures[i] EXCEPT !.digested = @ \/ i \in ids[g]]
        BY <1>5 DEF UpdateDigested, DigestThrows, MarkDigested
      <4> QED
        BY <4>1, <4>2 DEF Failure
    <3> QED
      BY <3>1, <3>2
  <2>2. \A h \in Digests \ {g} : ids'[h] = ids[h]
    BY <1>0, <1>5 DEF UpdateDigested, DigestThrows, EndsDigest, DigestTypeOK
  <2> QED
    BY <1>1, <1>5, <2>1, <2>2 DEF UpdateDigested, DigestThrows, EndsDigest
<1> QED
  BY <1>2, <1>3, <1>4, <1>5 DEF DigestStep, Digest, DigestThrows, DigestDies

\* A worker inserts failures, one at a time, and does nothing else to them.
LEMMA WorkerInserts ==
  ASSUME NEW w \in Workers, WorkerStep(w)
  PROVE  UNCHANGED dlq_failures \/ (pc[w] = "insertFailure" /\ InsertFailure(job[w].id))
BY DEF tableVars, WorkerStep, Works, WorkerDies, GetDueJobs, NextJob, BatchDone, ProcessJob,
       ResponseComes, PostThrows, MarksDelivered, ScheduleRetry, MoveToDlq, InsertsFailure,
       StatementThrows, Executes

\* A failure is marked as digested only when it was in a mail.
THEOREM DigestsAreHonest == Spec => []DigestedWasComposed
<1>1. Init => DigestInv
  BY DEF Init, LockInit, QueueInit, DigestInit, DigestInv, DigestedWasComposed
<1>2. TypeOK /\ DigestInv /\ [Next]_notificationVars => DigestInv'
  <2> SUFFICES ASSUME TypeOK, DigestInv, [Next]_notificationVars
               PROVE  DigestInv'
    OBVIOUS
  <2> USE DEF tableVars, queueVars, digestVars, workerVars, appVars
  <2>1. ASSUME \A g \in Digests : pc'[g] = pc[g] \/ pc'[g] \in {"idle", "select"},
               UNCHANGED <<dlq_failures, digestVars>>
        PROVE  DigestInv'
    BY <2>1 DEF DigestInv, DigestedWasComposed
  <2>2. ASSUME NEW p \in Runs, RunStarts(p) \/ RunEnds(p)
        PROVE  DigestInv'
    <3>1. \A g \in Digests : pc'[g] = pc[g] \/ pc'[g] \in {"idle", "select"}
      BY <2>2, RunsAssumption DEF RunStarts, RunEnds, AcquireLock, ReleaseLock, Goto, TypeOK
    <3> QED
      BY <2>1, <2>2, <3>1 DEF RunStarts, RunEnds
  <2>3. ASSUME NEW w \in Workers, WorkerStep(w)
        PROVE  DigestInv'
    <3>1. \A g \in Digests : pc'[g] = pc[g]
      <4>1. PICK l : Goto(w, l)
        BY <2>3
        DEF WorkerStep, Works, WorkerDies, GetDueJobs, NextJob, BatchDone, ProcessJob,
            ResponseComes, PostThrows, MarksDelivered, ScheduleRetry, MoveToDlq,
            InsertsFailure, StatementThrows, HandleFailure, Aborts, EndsJob
      <4> QED
        BY <4>1, RunsAssumption DEF Goto, TypeOK
    <3>2. CASE InsertFailure(job[w].id)
      <4>1. \A i \in DOMAIN dlq_failures' :
              dlq_failures'[i].digested =>
                i \in DOMAIN dlq_failures /\ dlq_failures[i].digested
        BY <3>2 DEF InsertFailure, TypeOK, QueueTypeOK
      <4>2. UNCHANGED digestVars
        BY <2>3 DEF WorkerStep
      <4> QED
        BY <3>1, <4>1, <4>2 DEF DigestInv, DigestedWasComposed
    <3>3. CASE UNCHANGED dlq_failures
      BY <2>1, <2>3, <3>1, <3>3 DEF WorkerStep
    <3> QED
      BY <2>3, <3>2, <3>3, WorkerInserts
  <2>4. ASSUME NEW g \in Digests, DigestStep(g)
        PROVE  DigestInv'
    BY <2>4, DigestKeepsDigest
  <2>5. ASSUME NEW d \in Deliveries, Enqueue(d) \/ AdminRetries(d)
        PROVE  DigestInv'
    BY <2>1, <2>5 DEF Enqueue, AdminRetries, EnqueueDelivery, RetryDelivery, Elsewhere
  <2>6. CASE AdminSetsUrl \/ (\E j \in Jobs : TimePasses(j)) \/ UNCHANGED notificationVars
    BY <2>1, <2>6
    DEF AdminSetsUrl, UpdateWebhookUrl, Elsewhere, TimePasses, LockExpires, notificationVars
  <2> QED
    BY <2>2, <2>3, <2>4, <2>5, <2>6 DEF Next, Step
<1> QED
  BY <1>1, <1>2, WorkInductive, PTL DEF Spec, DigestInv

----------------------------------------------------------------------------
InHand == {"post"} \cup AfterPost

\* What a worker still has to do is not DELIVERED, except by a statement of its own that
\* threw, and each row comes once.
Undelivered(w) ==
  /\ \A j \in batch[w] : queue[j.id] # "DELIVERED"
  /\ \A i, j \in batch[w] : i.id = j.id => i = j
  /\ pc[w] \in InHand =>
       /\ queue[job[w].id] = "DELIVERED" => w \in unanswered
       /\ \A j \in batch[w] : j.id # job[w].id

\* As long as runs do not overlap, that is so for the one that is at work.
AloneInv ==
  /\ ~overlapped => ~Overlap
  /\ ~overlapped =>
       \A w \in Workers : pc[w] \in InHand \cup {"next"} => Undelivered(w)

\* A worker writes to no row but that of its job.
LEMMA WorkerWritesItsRow ==
  ASSUME TypeOK, FailuresAreHandled, NEW w \in Workers, WorkerStep(w)
  PROVE  \A d \in Deliveries :
           queue'[d] = queue[d] \/ (pc[w] \in AfterPost /\ d = job[w].id)
<1> USE DEF tableVars, queueVars, AfterPost
<1>1. CASE \/ GetDueJobs(w) \/ NextJob(w) \/ BatchDone(w) \/ ResponseComes(w) \/ PostThrows(w)
           \/ InsertsFailure(w) \/ WorkerDies(w)
  BY <1>1
  DEF GetDueJobs, NextJob, BatchDone, ResponseComes, PostThrows, InsertsFailure, WorkerDies
<1>2. CASE MarksDelivered(w) \/ ScheduleRetry(w) \/ MoveToDlq(w)
  BY <1>2
  DEF MarksDelivered, ScheduleRetry, MoveToDlq, MarkDelivered, MarkRetrying, MarkFailedDlq,
      SetStatus, TypeOK, QueueTypeOK
<1>3. CASE StatementThrows(w)
  BY <1>3, ExecutesWrites DEF StatementThrows
<1> QED
  BY <1>1, <1>2, <1>3 DEF WorkerStep, Works, ProcessJob

\* A worker at work alone keeps this.
LEMMA WorkerKeepsAlone ==
  ASSUME TypeOK, FailuresAreHandled, NEW w \in Workers, WorkerStep(w),
         pc[w] \in InHand \cup {"next"} => Undelivered(w)
  PROVE  /\ pc'[w] \in InHand \cup {"next"} => Undelivered(w)'
         /\ \A d \in Deliveries : queue[d] = "DELIVERED" =>
              queue'[d] = "DELIVERED" \/ (w \in unanswered /\ job[w].id = d)
<1> USE DEF tableVars, queueVars, workerVars, appVars, InHand, AfterPost
<1>0. QueueTypeOK /\ WorkerTypeOK
  BY DEF TypeOK
<1>a. ASSUME NEW l, Goto(w, l)
      PROVE  pc'[w] = l
  BY <1>a, RunsAssumption DEF Goto, TypeOK
<1>b. pc[w] \in InHand => job[w] \in Snapshot /\ job[w].id \in Deliveries
  BY <1>0 DEF WorkerTypeOK, Snapshot
<1>c. \A j \in batch[w] : j.id \in Deliveries
  BY <1>0 DEF WorkerTypeOK, Snapshot
<1>d. /\ \A d \in Deliveries : queue'[d] = queue[d] \/ (pc[w] \in AfterPost /\ d = job[w].id)
      /\ \A d \in Deliveries : queue[d] = "DELIVERED" =>
           queue'[d] = "DELIVERED" \/ (w \in unanswered /\ job[w].id = d)
  BY WorkerWritesItsRow DEF Undelivered
<1>1. CASE GetDueJobs(w)
  <2>1. PICK due \in SUBSET MayBeDue : batch'[w] = {Row(d) : d \in due}
    BY <1>0, <1>1 DEF GetDueJobs, WorkerTypeOK
  <2>2. \A j \in batch'[w] : queue[j.id] # "DELIVERED"
    BY <2>1 DEF MayBeDue, Row
  <2>3. \A i, j \in batch'[w] : i.id = j.id => i = j
    BY <2>1 DEF Row
  <2>4. pc'[w] = "next" /\ UNCHANGED queue
    BY <1>1, <1>a DEF GetDueJobs
  <2> QED
    BY <1>d, <2>2, <2>3, <2>4 DEF Undelivered
<1>2. CASE NextJob(w)
  <2>1. PICK j \in batch[w] :
          /\ batch'[w] = batch[w] \ {j} /\ job'[w] = j
          /\ pc'[w] \in {"post", "deadLetter"}
    BY <1>0, <1>2, <1>a DEF NextJob, WorkerTypeOK
  <2>2. UNCHANGED queue /\ Undelivered(w)
    BY <1>2 DEF NextJob
  <2> QED
    BY <1>d, <2>1, <2>2 DEF Undelivered
<1>3. CASE BatchDone(w)
  BY <1>3, <1>a, <1>d DEF BatchDone
<1>4. CASE ResponseComes(w) \/ PostThrows(w)
  <2>1. UNCHANGED <<queue, batch, job, unanswered>> /\ pc[w] \in InHand
    BY <1>4 DEF ResponseComes, PostThrows
  <2> QED
    BY <1>d, <2>1 DEF Undelivered
<1>5. CASE MarksDelivered(w) \/ ScheduleRetry(w) \/ InsertsFailure(w)
  <2>1. /\ pc[w] \in InHand /\ UNCHANGED batch /\ pc'[w] = "next"
    BY <1>5, <1>a DEF MarksDelivered, ScheduleRetry, InsertsFailure, EndsJob
  <2>2. Undelivered(w)
    BY <2>1
  <2>3. \A j \in batch[w] : queue'[j.id] = queue[j.id]
    BY <1>c, <1>d, <2>1, <2>2 DEF Undelivered
  <2> QED
    BY <1>d, <2>1, <2>2, <2>3 DEF Undelivered
<1>6. CASE MoveToDlq(w)
  <2>1. /\ pc[w] \in InHand /\ UNCHANGED <<batch, job>> /\ pc'[w] = "insertFailure"
        /\ queue'[job[w].id] = "FAILED_DLQ"
    BY <1>0, <1>a, <1>b, <1>6 DEF MoveToDlq, MarkFailedDlq, SetStatus, QueueTypeOK
  <2>2. Undelivered(w)
    BY <2>1
  <2>3. \A j \in batch[w] : queue'[j.id] = queue[j.id]
    BY <1>c, <1>d, <2>1, <2>2 DEF Undelivered
  <2> QED
    BY <1>d, <2>1, <2>2, <2>3 DEF Undelivered
<1>7. CASE StatementThrows(w) /\ ~Aborts(w)
  <2>1. /\ pc[w] \in AfterPost /\ UNCHANGED <<batch, job>>
        /\ unanswered' = IF pc[w] = "delivered" /\ queue'[job[w].id] = "DELIVERED"
                           THEN unanswered \cup {w} ELSE unanswered
    BY <1>7 DEF StatementThrows
  <2>2. Undelivered(w)
    BY <2>1
  <2>3. \A j \in batch[w] : queue'[j.id] = queue[j.id]
    BY <1>c, <1>d, <2>1, <2>2 DEF Undelivered
  <2>4. queue'[job[w].id] = "DELIVERED" =>
          pc[w] = "delivered" \/ queue[job[w].id] = "DELIVERED"
    BY <1>0, <1>b, <1>7, <2>1
    DEF StatementThrows, Executes, MarkRetrying, MarkFailedDlq, SetStatus, QueueTypeOK
  <2>5. queue'[job[w].id] = "DELIVERED" => w \in unanswered'
    BY <2>1, <2>2, <2>4 DEF Undelivered
  <2> QED
    BY <1>d, <2>1, <2>2, <2>3, <2>5 DEF Undelivered
<1>8. CASE (StatementThrows(w) /\ Aborts(w)) \/ WorkerDies(w)
  BY <1>8, <1>a, <1>d DEF StatementThrows, Aborts, EndsJob, WorkerDies
<1> QED
  BY <1>1, <1>2, <1>3, <1>4, <1>5, <1>6, <1>7, <1>8 DEF WorkerStep, Works, ProcessJob

\* A step of nobody in particular makes nothing DELIVERED, nor undoes it.
LEMMA OthersKeepDelivered ==
  ASSUME TypeOK, [Next]_notificationVars, \A w \in Workers : ~WorkerStep(w)
  PROVE  /\ \A d \in Deliveries : queue[d] = "DELIVERED" <=> queue'[d] = "DELIVERED"
         /\ UNCHANGED workerVars
         /\ \A w \in Workers : pc'[w] = pc[w] \/ pc'[w] \in {"idle", "select"}
<1> USE DEF tableVars, queueVars, workerVars, appVars
<1>0. QueueTypeOK
  BY DEF TypeOK
<1>1. ASSUME NEW p \in Runs, RunStarts(p) \/ RunEnds(p)
      PROVE  /\ UNCHANGED <<queue, workerVars>>
             /\ \A w \in Workers : pc'[w] = pc[w] \/ pc'[w] \in {"idle", "select"}
  BY <1>1, RunsAssumption DEF RunStarts, RunEnds, AcquireLock, ReleaseLock, Goto, TypeOK
<1>2. ASSUME NEW g \in Digests, DigestStep(g)
      PROVE  UNCHANGED <<queue, workerVars>> /\ \A w \in Workers : pc'[w] = pc[w]
  <2>1. PICK l : Goto(g, l)
    BY <1>2
    DEF DigestStep, Digest, DigestDies, SelectFailures, SendDigestEmail, UpdateDigested,
        DigestThrows, EndsDigest
  <2>2. \A w \in Workers : pc'[w] = pc[w]
    BY <2>1, RunsAssumption DEF Goto, TypeOK
  <2> QED
    BY <1>2, <2>2
    DEF DigestStep, Digest, DigestDies, SelectFailures, SendDigestEmail, UpdateDigested,
        DigestThrows
<1>3. ASSUME NEW d \in Deliveries, Enqueue(d) \/ AdminRetries(d)
      PROVE  /\ \A e \in Deliveries : queue[e] = "DELIVERED" <=> queue'[e] = "DELIVERED"
             /\ UNCHANGED <<pc, workerVars>>
  BY <1>0, <1>3
  DEF Enqueue, AdminRetries, EnqueueDelivery, RetryDelivery, SetStatus, Elsewhere,
      QueueTypeOK, NoRow
<1>4. CASE AdminSetsUrl \/ (\E j \in Jobs : TimePasses(j)) \/ UNCHANGED notificationVars
  BY <1>4
  DEF AdminSetsUrl, UpdateWebhookUrl, Elsewhere, TimePasses, LockExpires, notificationVars
<1> QED
  BY <1>1, <1>2, <1>3, <1>4 DEF Next, Step

\* Every step keeps it, for a second worker at work would be an overlap.
LEMMA NextKeepsAlone ==
  TypeOK /\ WorkInv /\ AloneInv /\ [Next]_notificationVars => AloneInv'
<1> SUFFICES ASSUME TypeOK, WorkInv, AloneInv, [Next]_notificationVars
             PROVE  AloneInv'
  OBVIOUS
<1>1. ~overlapped' => ~overlapped /\ ~Overlap'
  BY DEF Next, Watch, AloneInv, Overlap, notificationVars
<1>2. ASSUME NEW w \in Workers, WorkerStep(w), ~overlapped'
      PROVE  \A v \in Workers : pc'[v] \in InHand \cup {"next"} => Undelivered(v)'
  <2>1. pc'[w] \in InHand \cup {"next"} => Undelivered(w)'
    BY <1>1, <1>2, WorkerKeepsAlone DEF AloneInv, WorkInv
  <2>2. pc[w] # "idle" /\ ~Overlap
    BY <1>1, <1>2
    DEF AloneInv, WorkerStep, Works, WorkerDies, GetDueJobs, NextJob, BatchDone, ProcessJob,
        ResponseComes, PostThrows, MarksDelivered, ScheduleRetry, MoveToDlq,
        InsertsFailure, StatementThrows
  <2>3. \A v \in Workers \ {w} : pc[v] = "idle"
    BY <2>2 DEF Overlap
  <2>4. PICK l : Goto(w, l)
    BY <1>2
    DEF WorkerStep, Works, WorkerDies, GetDueJobs, NextJob, BatchDone, ProcessJob,
        ResponseComes, PostThrows, MarksDelivered, ScheduleRetry, MoveToDlq,
        InsertsFailure, StatementThrows, HandleFailure, Aborts, EndsJob
  <2>5. \A v \in Workers \ {w} : pc'[v] = "idle"
    BY <2>3, <2>4, RunsAssumption DEF Goto, TypeOK
  <2> QED
    BY <2>1, <2>5 DEF InHand, AfterPost
<1>3. ASSUME \A w \in Workers : ~WorkerStep(w), ~overlapped'
      PROVE  \A v \in Workers : pc'[v] \in InHand \cup {"next"} => Undelivered(v)'
  <2> SUFFICES ASSUME NEW v \in Workers, pc'[v] \in InHand \cup {"next"}
               PROVE  Undelivered(v)'
    OBVIOUS
  <2>1. pc'[v] = pc[v] /\ UNCHANGED <<batch, job, unanswered>>
    BY <1>3, OthersKeepDelivered DEF InHand, AfterPost, workerVars
  <2>2. Undelivered(v)
    BY <1>1, <1>3, <2>1 DEF AloneInv
  <2>3. /\ \A j \in batch[v] : j.id \in Deliveries
        /\ pc[v] \in InHand => job[v].id \in Deliveries
    BY DEF TypeOK, WorkerTypeOK, Snapshot, InHand, AfterPost
  <2> QED
    BY <1>3, <2>1, <2>2, <2>3, OthersKeepDelivered DEF Undelivered
<1> QED
  BY <1>1, <1>2, <1>3 DEF AloneInv

\* As long as runs of the worker do not overlap, what is DELIVERED stays so, but for the
\* UPDATE that threw after it had taken effect: for any number of workers, deliveries and
\* attempts, whoever dies and whichever statement throws, with or without effect.
THEOREM DeliveryIsFinal == Spec => DeliveredIsFinal
<1> DEFINE Stays == \A d \in Deliveries :
                      ~overlapped /\ queue[d] = "DELIVERED" /\ queue'[d] # "DELIVERED" =>
                        \E w \in unanswered : job[w].id = d
<1>1. Init => AloneInv
  BY WorkersAssumption DEF Init, LockInit, AloneInv, Overlap, InHand, AfterPost
<1>2. TypeOK /\ WorkInv /\ AloneInv /\ [Next]_notificationVars => [Stays]_notificationVars
  <2> SUFFICES ASSUME TypeOK, WorkInv, AloneInv, [Next]_notificationVars,
                      NEW d \in Deliveries, ~overlapped, queue[d] = "DELIVERED",
                      queue'[d] # "DELIVERED"
               PROVE  \E w \in unanswered : job[w].id = d
    OBVIOUS
  <2>1. CASE \E w \in Workers : WorkerStep(w)
    BY <2>1, WorkerKeepsAlone DEF AloneInv, WorkInv
  <2>2. CASE \A w \in Workers : ~WorkerStep(w)
    BY <2>2, OthersKeepDelivered
  <2> QED
    BY <2>1, <2>2
<1> HIDE DEF Stays
<1>3. Spec => [][Stays]_notificationVars
  BY <1>1, <1>2, NextKeepsAlone, WorkInductive, PTL DEF Spec
<1> QED
  BY <1>3 DEF Stays, DeliveredIsFinal

----------------------------------------------------------------------------
(* Dead letters.                                                                     *)

\* A worker and a digest only go on, and leave the lock alone.
LEMMA WorkGoesOn ==
  ASSUME TypeOK, NEW p \in Runs,
         (p \in Workers /\ WorkerStep(p)) \/ (p \in Digests /\ DigestStep(p))
  PROVE  pc[p] # "idle" /\ UNCHANGED job_locks /\ \A q \in Runs \ {p} : pc'[q] = pc[q]
<1>1. CASE p \in Workers /\ WorkerStep(p)
  <2>1. PICK l : Goto(p, l)
    BY <1>1
    DEF WorkerStep, Works, WorkerDies, GetDueJobs, NextJob, BatchDone, ProcessJob,
        ResponseComes, PostThrows, MarksDelivered, ScheduleRetry, MoveToDlq,
        InsertsFailure, StatementThrows, HandleFailure, Aborts, EndsJob
  <2>2. pc[p] # "idle" /\ UNCHANGED job_locks
    BY <1>1
    DEF WorkerStep, Works, WorkerDies, GetDueJobs, NextJob, BatchDone, ProcessJob,
        ResponseComes, PostThrows, MarksDelivered, ScheduleRetry, MoveToDlq,
        InsertsFailure, StatementThrows
  <2> QED
    BY <2>1, <2>2 DEF Goto, TypeOK
<1>2. CASE p \in Digests /\ DigestStep(p)
  <2>1. PICK l : Goto(p, l)
    BY <1>2
    DEF DigestStep, Digest, DigestDies, SelectFailures, SendDigestEmail, UpdateDigested,
        DigestThrows, EndsDigest
  <2>2. pc[p] # "idle" /\ UNCHANGED job_locks
    BY <1>2
    DEF DigestStep, Digest, DigestDies, SelectFailures, SendDigestEmail, UpdateDigested,
        DigestThrows
  <2> QED
    BY <2>1, <2>2 DEF Goto, TypeOK
<1> QED
  BY <1>1, <1>2

\* A failure of delivery d is inserted.
Inserted(d) ==
  \E i \in DOMAIN dlq_failures' \ DOMAIN dlq_failures : dlq_failures'[i].delivery = d

\* Worker w, about to list d, dies or is ended by an exception.
FailsToList(w, d) ==
  WillList(w, d) /\ (WorkerDies(w) \/ (StatementThrows(w) /\ Aborts(w)))

\* A step of worker w, as far as dead letters are concerned: it gives up only what it will
\* list, and it lists that, keeps it in hand, or fails to.
ListsOrFails(w) ==
  \A d \in Deliveries :
    /\ queue'[d] = "FAILED_DLQ" =>
         queue[d] = "FAILED_DLQ" \/ WillList(w, d)' \/ FailsToList(w, d)
    /\ WillList(w, d) => WillList(w, d)' \/ Inserted(d) \/ FailsToList(w, d)

\* Every step of a worker.
LEMMA WorkerLists ==
  ASSUME TypeOK, WorkInv, NEW w \in Workers, WorkerStep(w)
  PROVE  /\ ListsOrFails(w)
         /\ \A v \in Workers \ {w} : pc'[v] = pc[v] /\ job'[v] = job[v]
<1> USE DEF tableVars, queueVars, workerVars, appVars, AfterPost
<1>0. QueueTypeOK /\ WorkerTypeOK
  BY DEF TypeOK
<1>a. ASSUME NEW l, Goto(w, l)
      PROVE  pc'[w] = l /\ \A v \in Workers \ {w} : pc'[v] = pc[v]
  BY <1>a, RunsAssumption DEF Goto, TypeOK
<1>b. pc[w] \in AfterPost => job[w] \in Snapshot /\ job[w].id \in Deliveries
  BY <1>0 DEF WorkerTypeOK, Snapshot
<1>d. \A d \in Deliveries : queue'[d] = queue[d] \/ (pc[w] \in AfterPost /\ d = job[w].id)
  BY WorkerWritesItsRow DEF WorkInv
<1>1. \A v \in Workers \ {w} : pc'[v] = pc[v] /\ job'[v] = job[v]
  <2>1. PICK l : Goto(w, l)
    BY DEF WorkerStep, Works, WorkerDies, GetDueJobs, NextJob, BatchDone, ProcessJob,
           ResponseComes, PostThrows, MarksDelivered, ScheduleRetry, MoveToDlq,
           InsertsFailure, StatementThrows, HandleFailure, Aborts, EndsJob
  <2>2. UNCHANGED job \/ \E j : job' = [job EXCEPT ![w] = j]
    BY DEF WorkerStep, Works, WorkerDies, GetDueJobs, NextJob, BatchDone, ProcessJob,
           ResponseComes, PostThrows, MarksDelivered, ScheduleRetry, MoveToDlq,
           InsertsFailure, StatementThrows, Aborts, EndsJob
  <2> QED
    BY <1>0, <1>a, <2>1, <2>2 DEF WorkerTypeOK
<1> SUFFICES ListsOrFails(w)
  BY <1>1
<1>2. CASE GetDueJobs(w) \/ NextJob(w) \/ BatchDone(w) \/ ResponseComes(w) \/ PostThrows(w)
  BY <1>2
  DEF GetDueJobs, NextJob, BatchDone, ResponseComes, PostThrows, ListsOrFails, WillList
<1>3. CASE MarksDelivered(w) \/ ScheduleRetry(w)
  <2>1. pc[w] \in {"delivered", "retry"}
        /\ \A d \in Deliveries : queue'[d] = "FAILED_DLQ" => queue[d] = "FAILED_DLQ"
    BY <1>0, <1>b, <1>3
    DEF MarksDelivered, ScheduleRetry, MarkDelivered, MarkRetrying, SetStatus, QueueTypeOK
  <2> QED
    BY <2>1 DEF ListsOrFails, WillList
<1>4. CASE MoveToDlq(w)
  <2>1. pc'[w] = "insertFailure" /\ UNCHANGED job
    BY <1>a, <1>4 DEF MoveToDlq
  <2> QED
    BY <1>d, <2>1 DEF ListsOrFails, WillList
<1>5. CASE InsertsFailure(w)
  <2>1. pc[w] = "insertFailure" /\ UNCHANGED queue /\ InsertFailure(job[w].id)
    BY <1>5 DEF InsertsFailure
  <2>2. Inserted(job[w].id)
    <3>1. /\ Len(dlq_failures) + 1 \in DOMAIN dlq_failures' \ DOMAIN dlq_failures
          /\ dlq_failures'[Len(dlq_failures) + 1].delivery = job[w].id
      BY <1>0, <1>b, <2>1 DEF InsertFailure, QueueTypeOK
    <3> QED
      BY <3>1 DEF Inserted
  <2> QED
    BY <2>1, <2>2 DEF ListsOrFails, WillList
<1>6. CASE StatementThrows(w) /\ ~Aborts(w)
  <2>1. UNCHANGED job /\ HandleFailure(w) /\ job[w].webhook_url /\ pc[w] \in AfterPost
    BY <1>6 DEF StatementThrows
  <2>2. ASSUME pc[w] \in {"deadLetter", "insertFailure"}
        PROVE  pc'[w] = "deadLetter"
    BY <1>a, <2>1, <2>2 DEF WorkInv, FailuresAreHandled, HandleFailure
  <2>3. ASSUME pc[w] \notin {"deadLetter", "insertFailure"}
        PROVE  queue'[job[w].id] = "FAILED_DLQ" => queue[job[w].id] = "FAILED_DLQ"
    BY <1>0, <1>b, <1>6, <2>1, <2>3
    DEF StatementThrows, Executes, MarkDelivered, MarkRetrying, SetStatus, QueueTypeOK
  <2> QED
    BY <1>d, <2>1, <2>2, <2>3 DEF ListsOrFails, WillList
<1>7. CASE StatementThrows(w) /\ Aborts(w)
  <2>1. ASSUME pc[w] \notin {"deadLetter", "insertFailure"}
        PROVE  \A d \in Deliveries : queue'[d] = "FAILED_DLQ" => queue[d] = "FAILED_DLQ"
    BY <1>0, <1>b, <1>7, <2>1
    DEF StatementThrows, Executes, MarkDelivered, MarkRetrying, SetStatus, QueueTypeOK
  <2> QED
    BY <1>d, <1>7, <2>1 DEF ListsOrFails, FailsToList, WillList
<1>8. CASE WorkerDies(w)
  BY <1>8 DEF ListsOrFails, FailsToList, WorkerDies
<1> QED
  BY <1>2, <1>3, <1>4, <1>5, <1>6, <1>7, <1>8 DEF WorkerStep, Works, ProcessJob

\* A step of nobody at work gives nothing up and takes nothing out of a worker's hands.
LEMMA OthersHideNothing ==
  ASSUME TypeOK, [Next]_notificationVars, \A w \in Workers : ~WorkerStep(w),
         NEW d \in Deliveries
  PROVE  /\ queue'[d] = "FAILED_DLQ" => queue[d] = "FAILED_DLQ"
         /\ \A w \in Workers : WillList(w, d) => WillList(w, d)'
<1> USE DEF tableVars, queueVars, workerVars, appVars
<1>0. QueueTypeOK
  BY DEF TypeOK
<1>1. CASE \E p \in Runs : RunStarts(p) \/ RunEnds(p)
  BY <1>1, RunsAssumption
  DEF RunStarts, RunEnds, AcquireLock, ReleaseLock, Goto, TypeOK, WillList
<1>2. ASSUME NEW g \in Digests, DigestStep(g)
      PROVE  UNCHANGED <<queue, job>> /\ \A w \in Workers : pc'[w] = pc[w]
  <2>1. \A w \in Workers : pc'[w] = pc[w]
    BY <1>2, WorkGoesOn, RunsAssumption
  <2> QED
    BY <1>2, <2>1
    DEF DigestStep, Digest, DigestDies, SelectFailures, SendDigestEmail, UpdateDigested,
        DigestThrows
<1>3. CASE \E e \in Deliveries : Enqueue(e) \/ AdminRetries(e)
  BY <1>0, <1>3
  DEF Enqueue, AdminRetries, EnqueueDelivery, RetryDelivery, SetStatus, Elsewhere,
      QueueTypeOK, WillList
<1>4. CASE AdminSetsUrl \/ (\E j \in Jobs : TimePasses(j)) \/ UNCHANGED notificationVars
  BY <1>4
  DEF AdminSetsUrl, UpdateWebhookUrl, Elsewhere, TimePasses, LockExpires, notificationVars,
      WillList
<1>5. CASE \E g \in Digests : DigestStep(g)
  BY <1>2, <1>5 DEF WillList
<1> QED
  BY <1>1, <1>3, <1>4, <1>5 DEF Next, Step

\* Only a worker that dies or is ended by an exception leaves a delivery given up and not
\* listed since it was sent back last, for any number of workers, deliveries and requeues.
THEOREM OnlyFailuresHide == Spec => HiddenOnlyByFailure
<1> DEFINE Watched == \A d \in Deliveries :
                        ~Hidden(d) /\ Hidden(d)' => \E w \in Workers : FailsToList(w, d)
<1>1. TypeOK /\ WorkInv /\ [Next]_notificationVars => Watched
  <2> SUFFICES ASSUME TypeOK, WorkInv, [Next]_notificationVars, NEW d \in Deliveries,
                      ~Hidden(d), Hidden(d)'
               PROVE  \E w \in Workers : FailsToList(w, d)
    OBVIOUS
  <2>h. queue'[d] = "FAILED_DLQ" /\ d \notin listed' /\ \A w \in Workers : ~WillList(w, d)'
    BY DEF Hidden
  <2>1. d \notin listed /\ (Inserted(d) => UNCHANGED notificationVars)
    BY <2>h DEF Next, Watch, Listed, Inserted, notificationVars
  <2>2. CASE \A w \in Workers : ~WorkerStep(w)
    BY <2>h, <2>1, <2>2, OthersHideNothing DEF Hidden
  <2>3. ASSUME NEW w \in Workers, WorkerStep(w)
        PROVE  FailsToList(w, d)
    <3>1. /\ ListsOrFails(w)
          /\ \A v \in Workers \ {w} : WillList(v, d) => WillList(v, d)'
      BY <2>3, WorkerLists DEF WillList
    <3>2. CASE UNCHANGED notificationVars
      BY <3>2, <2>h DEF Hidden, WillList, notificationVars, tableVars, queueVars, workerVars
    <3>3. CASE ~Inserted(d)
      BY <2>h, <2>1, <3>1, <3>3 DEF ListsOrFails, Hidden
    <3> QED
      BY <2>1, <3>2, <3>3
  <2> QED
    BY <2>2, <2>3
<1>2. Watched => [\A d \in Deliveries : ~Hidden(d) /\ Hidden(d)' =>
                    \E w \in Workers :
                      /\ WillList(w, d)
                      /\ WorkerDies(w) \/ (StatementThrows(w) /\ Aborts(w))]_notificationVars
  BY DEF FailsToList
<1> HIDE DEF Watched
<1> QED
  BY <1>1, <1>2, WorkInductive, PTL DEF Spec, HiddenOnlyByFailure

=============================================================================
