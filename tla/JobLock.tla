--------------------------------- MODULE JobLock ---------------------------------
(* jobLockService.js and the frame the cron scripts have around it: a run takes the  *)
(* lock of its job, or exits at once, works, and releases the lock in a finally.     *)
(*                                                                                   *)
(*     idle --acquired--> select -> .. -> release -> idle                            *)
(*                                                                                   *)
(* Time is not counted: a lock is held until its expires_at has passed.              *)
EXTENDS Integers

CONSTANTS Jobs,         \* job names
          Runs,         \* runs of the scripts that may be in progress at once
          JobOf         \* run -> its job

ASSUME JobAssumption == JobOf \in [Runs -> Jobs]

VARIABLES job_locks,    \* job -> "none", "held" or "expired"
          pc            \* run -> label

Locks == {"none", "held", "expired"}

LockTypeOK == job_locks \in [Jobs -> Locks]

LockInit ==
  /\ job_locks = [j \in Jobs |-> "none"]
  /\ pc = [p \in Runs |-> "idle"]

Goto(p, l) == pc' = [pc EXCEPT ![p] = l]

\* affectedRows is 1 for a new row, 2 for a changed one, and 1 for one left as it is: mysql2
\* sets the client flag FOUND_ROWS unless told otherwise, and src/db/pool.js does not.
AffectedRows(j) == IF job_locks[j] = "expired" THEN 2 ELSE 1

\* Mutant: only a new row counts.
AcquiredNewRow(j) == AffectedRows(j) = 1

Acquired(j) == AffectedRows(j) \in {1, 2}

\* The statement sets the columns of a row that is new or expired; one that is held it
\* leaves as it is.
AcquireLock(p) ==
  /\ pc[p] = "idle"
  /\ Acquired(JobOf[p])
  /\ job_locks' = [job_locks EXCEPT ![JobOf[p]] = "held"]
  /\ Goto(p, "select")

\* DELETE by name, whoever holds the lock by now.  When it throws, the row stays.
ReleaseLock(p) ==
  /\ pc[p] = "release"
  /\ \/ job_locks' = [job_locks EXCEPT ![JobOf[p]] = "none"]
     \/ UNCHANGED job_locks
  /\ Goto(p, "idle")

LockExpires(j) ==
  /\ job_locks[j] = "held"
  /\ job_locks' = [job_locks EXCEPT ![j] = "expired"]
  /\ UNCHANGED pc

=============================================================================
