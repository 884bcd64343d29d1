------------------------------ MODULE DeliveryWorker ------------------------------
(* scripts/run-delivery-worker.js: a run selects the due rows once, with the          *)
(* webhook_url and attempt_count they have then, and works through that list.         *)
(*                                                                                    *)
(*   next -> post --2xx--> delivered --> next                                         *)
(*             |              | throws                                                *)
(*             +--otherwise---+--> retry --> next                                     *)
(*                            +--> deadLetter -> insertFailure --> next               *)
EXTENDS JobLock, DeliveryQueue

CONSTANTS Workers,      \* runs of the delivery worker
          NoDelivery

ASSUME WorkersAssumption ==
  /\ Workers \subseteq Runs
  /\ NoDelivery \notin Deliveries
  /\ \A v, w \in Workers : JobOf[v] = JobOf[w]

VARIABLES batch,        \* worker -> snapshots of the rows it has not come to yet
          job,          \* worker -> the snapshot it works on
          caught,       \* workers inside the catch block of processJob
          unanswered,   \* those whose row became DELIVERED by a statement that threw
          accepted,     \* deliveries the client application has answered with 2xx
          posts         \* delivery -> POSTs made, counted up to MaxDeliveryAttempts

workerVars == <<batch, job, caught, unanswered>>
appVars == <<accepted, posts>>

Snapshot ==
  [id : Deliveries, attempt_count : 0 .. MaxDeliveryAttempts - 1, webhook_url : BOOLEAN]

NoJob == [id |-> NoDelivery, attempt_count |-> 0, webhook_url |-> FALSE]

WorkerLabels == {"idle", "select", "next", "post", "delivered", "retry", "deadLetter",
                 "insertFailure", "release"}

WorkerTypeOK ==
  /\ \A w \in Workers : pc[w] \in WorkerLabels
  /\ batch \in [Workers -> SUBSET Snapshot]
  /\ job \in [Workers -> Snapshot \cup {NoJob}]
  /\ \A w \in Workers :
       pc[w] \in {"post", "delivered", "retry", "deadLetter", "insertFailure"} =>
         job[w] \in Snapshot
  /\ caught \subseteq Workers
  /\ unanswered \subseteq caught
  /\ accepted \subseteq Deliveries
  /\ posts \in [Deliveries -> 0 .. MaxDeliveryAttempts]

WorkerInit ==
  /\ batch = [w \in Workers |-> {}]
  /\ job = [w \in Workers |-> NoJob]
  /\ caught = {}
  /\ unanswered = {}
  /\ accepted = {}
  /\ posts = [d \in Deliveries |-> 0]

Row(d) == [id |-> d, attempt_count |-> attempt_count[d], webhook_url |-> has_url]

\* The work on the current row is over, one way or the other.
EndsJob(w, l) ==
  /\ Goto(w, l)
  /\ job' = [job EXCEPT ![w] = NoJob]
  /\ caught' = caught \ {w}
  /\ unanswered' = unanswered \ {w}

\* An exception nobody catches: the rest of the list is left to later runs.
Aborts(w) == EndsJob(w, "release") /\ batch' = [batch EXCEPT ![w] = {}]

----------------------------------------------------------------------------
GetDueJobs(w) ==
  /\ pc[w] = "select"
  /\ \E due \in SUBSET MayBeDue : batch' = [batch EXCEPT ![w] = {Row(d) : d \in due}]
  /\ Goto(w, "next")
  /\ UNCHANGED <<tableVars, job, caught, unanswered, appVars>>

NextJob(w) ==
  /\ pc[w] = "next"
  /\ \E j \in batch[w] :
       /\ batch' = [batch EXCEPT ![w] = @ \ {j}]
       /\ job' = [job EXCEPT ![w] = j]
       /\ Goto(w, IF j.webhook_url THEN "post" ELSE "deadLetter")
  /\ UNCHANGED <<tableVars, caught, unanswered, appVars>>

BatchDone(w) ==
  /\ pc[w] = "next"
  /\ batch[w] = {}
  /\ Goto(w, "release")
  /\ UNCHANGED <<tableVars, workerVars, appVars>>

\* Mutants: one attempt too few, one too many.
GivesUpOneEarly(j) == j.attempt_count + 2 >= MaxDeliveryAttempts
GivesUpOneLate(j) == j.attempt_count >= MaxDeliveryAttempts

\* handleFailure: nextAttemptCount, from the snapshot.
GivesUp(j) == j.attempt_count + 1 >= MaxDeliveryAttempts

HandleFailure(w) == Goto(w, IF GivesUp(job[w]) THEN "deadLetter" ELSE "retry")

CountsPost(d) ==
  posts' = [posts EXCEPT ![d] = IF @ < MaxDeliveryAttempts THEN @ + 1 ELSE @]

\* The application answers, with a 2xx or not.
ResponseComes(w) ==
  /\ pc[w] = "post"
  /\ CountsPost(job[w].id)
  /\ \E ok \in BOOLEAN :
       /\ accepted' = IF ok THEN accepted \cup {job[w].id} ELSE accepted
       /\ IF ok THEN Goto(w, "delivered") ELSE HandleFailure(w)
  /\ UNCHANGED <<tableVars, workerVars>>

\* The POST times out or fails, after the application has taken it or before.
PostThrows(w) ==
  /\ pc[w] = "post"
  /\ CountsPost(job[w].id)
  /\ accepted' \in {accepted, accepted \cup {job[w].id}}
  /\ caught' = caught \cup {w}
  /\ HandleFailure(w)
  /\ UNCHANGED <<tableVars, batch, job, unanswered>>

MarksDelivered(w) ==
  /\ pc[w] = "delivered"
  /\ MarkDelivered(job[w].id)
  /\ EndsJob(w, "next")
  /\ UNCHANGED <<dlq_failures, has_url, batch, appVars>>

ScheduleRetry(w) ==
  /\ pc[w] = "retry"
  /\ MarkRetrying(job[w].id, job[w].attempt_count + 1)
  /\ EndsJob(w, "next")
  /\ UNCHANGED <<dlq_failures, has_url, batch, appVars>>

\* Mutant: a failure that has been caught before is taken to be listed.
MoveToDlqUnlessCaught(w) ==
  /\ pc[w] = "deadLetter"
  /\ MarkFailedDlq(job[w].id)
  /\ IF w \in caught
       THEN EndsJob(w, "next")
       ELSE Goto(w, "insertFailure") /\ UNCHANGED <<job, caught, unanswered>>
  /\ UNCHANGED <<dlq_failures, has_url, batch, appVars>>

\* moveToDlq is two statements.
MoveToDlq(w) ==
  /\ pc[w] = "deadLetter"
  /\ MarkFailedDlq(job[w].id)
  /\ Goto(w, "insertFailure")
  /\ UNCHANGED <<dlq_failures, has_url, workerVars, appVars>>

InsertsFailure(w) ==
  /\ pc[w] = "insertFailure"
  /\ InsertFailure(job[w].id)
  /\ EndsJob(w, "next")
  /\ UNCHANGED <<queueVars, has_url, batch, appVars>>

\* What the statement worker w is at does to the tables.
Executes(w) ==
  LET d == job[w].id IN
    \/ pc[w] = "delivered" /\ MarkDelivered(d) /\ UNCHANGED dlq_failures
    \/ pc[w] = "retry" /\ MarkRetrying(d, job[w].attempt_count + 1) /\ UNCHANGED dlq_failures
    \/ pc[w] = "deadLetter" /\ MarkFailedDlq(d) /\ UNCHANGED dlq_failures
    \/ pc[w] = "insertFailure" /\ InsertFailure(d) /\ UNCHANGED queueVars

\* A statement throws, and has taken effect or not: the connection may be lost before the
\* answer comes.  The first exception after the POST is caught and handled as a failed
\* delivery; one without a webhook_url, or inside the catch, ends the run.
StatementThrows(w) ==
  /\ pc[w] \in {"select", "delivered", "retry", "deadLetter", "insertFailure"}
  /\ Executes(w) \/ UNCHANGED <<queueVars, dlq_failures>>
  /\ IF pc[w] # "select" /\ job[w].webhook_url /\ w \notin caught
       THEN /\ caught' = caught \cup {w}
            /\ unanswered' = IF pc[w] = "delivered" /\ queue'[job[w].id] = "DELIVERED"
                               THEN unanswered \cup {w} ELSE unanswered
            /\ HandleFailure(w)
            /\ UNCHANGED <<batch, job>>
       ELSE Aborts(w)
  /\ UNCHANGED <<has_url, appVars>>

WorkerDies(w) ==
  /\ pc[w] # "idle"
  /\ EndsJob(w, "idle")
  /\ batch' = [batch EXCEPT ![w] = {}]
  /\ UNCHANGED <<job_locks, tableVars, appVars>>

ProcessJob(w) ==
  \/ ResponseComes(w) \/ PostThrows(w) \/ MarksDelivered(w) \/ ScheduleRetry(w)
  \/ MoveToDlq(w) \/ InsertsFailure(w) \/ StatementThrows(w)

Works(w) ==
  /\ GetDueJobs(w) \/ NextJob(w) \/ BatchDone(w) \/ ProcessJob(w)
  /\ UNCHANGED job_locks

=============================================================================
