-------------------------------- MODULE Reconciler --------------------------------
(* scripts/run-reconciler.js: one run goes through four sweeps in a fixed order.    *)
(* A sweep selects its rows once and then works through that list one row at a      *)
(* time, so a row may have moved on by the time its turn comes.  The job lock and   *)
(* the circuit breaker decide only whether a run starts and are not part of this    *)
(* module: a run may start at any time, next to another one.                        *)
EXTENDS RecoveryService, DeliveryQueueService

VARIABLES stage,        \* sweeper -> which of the four sweeps it is in
          todo          \* sweeper -> rows of that sweep it has not come to yet

sweepVars == <<stage, todo>>

Stages == {"FORWARDING", "RECOVERING", "INITIALIZED", "SUPERSEDED"}

ReconcilerTypeOK ==
  /\ stage \in [Sweepers -> Stages]
  /\ todo \in [Sweepers -> SUBSET Attempts]

ReconcilerInit ==
  /\ stage = [s \in Sweepers |-> "FORWARDING"]
  /\ todo = [s \in Sweepers |-> {}]

\* Mutant: the second sweep selects FORWARDING rows again.
InStageForwardingTwice(st) ==
  CASE st \in {"FORWARDING", "RECOVERING"} -> Forwarding
    [] st = "INITIALIZED" -> Initialized
    [] st = "SUPERSEDED"  -> Superseded

InStage(st) ==
  CASE st = "FORWARDING"  -> Forwarding
    [] st = "RECOVERING"  -> Recovering
    [] st = "INITIALIZED" -> Initialized
    [] st = "SUPERSEDED"  -> Superseded

\* Mutant: a run leaves out sweepInitialized.
NextStageWithoutInitialized(st) ==
  CASE st = "FORWARDING" -> "RECOVERING"
    [] st = "RECOVERING" -> "SUPERSEDED"
    [] st = "SUPERSEDED" -> "FORWARDING"

NextStage(st) ==
  CASE st = "FORWARDING"  -> "RECOVERING"
    [] st = "RECOVERING"  -> "INITIALIZED"
    [] st = "INITIALIZED" -> "SUPERSEDED"
    [] st = "SUPERSEDED"  -> "FORWARDING"

Skip(s, a) == todo' = [todo EXCEPT ![s] = @ \ {a}] /\ UNCHANGED stage

----------------------------------------------------------------------------
StartRun(s) ==
  /\ pc[s] = "idle"
  /\ Goto(s, "select")
  /\ UNCHANGED <<rows, gatewayVars, offered, deliveries, sweepVars>>

\* getStale..: all or some of the rows in that status are old enough.
SelectRows(s) ==
  /\ pc[s] = "select"
  /\ \E old \in SUBSET InStage(stage[s]) : todo' = [todo EXCEPT ![s] = old]
  /\ Goto(s, "next")
  /\ UNCHANGED <<rows, gatewayVars, offered, deliveries, stage>>

SweepDone(s) ==
  /\ pc[s] = "next"
  /\ todo[s] = {}
  /\ stage' = [stage EXCEPT ![s] = NextStage(@)]
  /\ Goto(s, IF stage[s] = "SUPERSEDED" THEN "idle" ELSE "select")
  /\ UNCHANGED <<rows, gatewayVars, offered, deliveries, todo>>

\* sweepForwarding: the claim takes the order's FORWARDING rows; if it was won, the
\* row that was selected is recovered.
ClaimStale(s) ==
  /\ pc[s] = "next"
  /\ stage[s] = "FORWARDING"
  /\ \E a \in todo[s] :
       /\ ClaimForRecovery
       /\ IF ClaimWon THEN GotoWith(s, "verify", a) ELSE UNCHANGED localVars
       /\ Skip(s, a)
  /\ UNCHANGED <<gatewayVars, offered, deliveries>>

\* sweepRecovering: skipped when the row is no longer RECOVERING, or claimed anew.
ReclaimStale(s) ==
  /\ pc[s] = "next"
  /\ stage[s] = "RECOVERING"
  /\ \E a \in todo[s] :
       /\ \/ ReclaimStaleRecovering(a) /\ GotoWith(s, "verify", a)
          \/ UNCHANGED <<rows, localVars>>
       /\ Skip(s, a)
  /\ UNCHANGED <<gatewayVars, offered, deliveries>>

\* sweepInitialized and sweepSuperseded ask Chapa first.  A verify that throws skips
\* the row; so does a 404 for an INITIALIZED row; an orphan Chapa still knows is
\* only annotated.
AskChapa(s) ==
  /\ pc[s] = "next"
  /\ stage[s] \in {"INITIALIZED", "SUPERSEDED"}
  /\ \E a \in todo[s] :
       /\ Skip(s, a)
       /\ \/ UNCHANGED localVars
          \/ \E r \in VerifyAnswers(a) :
               /\ (r = "notFound") <=> (stage[s] = "SUPERSEDED")
               /\ pc' = [pc EXCEPT ![s] = "mark"]
               /\ att' = [att EXCEPT ![s] = a]
               /\ got' = [got EXCEPT ![s] = r]
               /\ UNCHANGED <<kind, tries>>
  /\ UNCHANGED <<rows, gatewayVars, offered, deliveries>>

\* The conditional update tells whether the row was still INITIALIZED; only then is
\* the application notified.
SettleInitialized(s) ==
  /\ pc[s] = "mark"
  /\ stage[s] = "INITIALIZED"
  /\ IF got[s] = "success" THEN MarkPaidIfStillInitialized(att[s])
                           ELSE MarkFailedIfStillInitialized(att[s])
  /\ IF att[s] \in Initialized THEN Goto(s, "enqueue") ELSE Return(s)
  /\ UNCHANGED <<gatewayVars, offered, deliveries, sweepVars>>

EnqueueFromSweep(s) ==
  /\ pc[s] = "enqueue"
  /\ EnqueueDelivery(att[s], EventType(got[s]))
  /\ Return(s)
  /\ UNCHANGED <<rows, gatewayVars, offered, sweepVars>>

AbortSuperseded(s) ==
  /\ pc[s] = "mark"
  /\ stage[s] = "SUPERSEDED"
  /\ MarkAbortedIfSuperseded(att[s])
  /\ Return(s)
  /\ UNCHANGED <<gatewayVars, offered, deliveries, sweepVars>>

\* The winner's recovery, as in a request; the catch goes on with the next row.
RecoverRow(s) ==
  /\ RunRecoveryAsWinner(s)
  /\ UNCHANGED <<deliveries, sweepVars>>

\* A statement inside the recovery throws: the catch per row goes on with the next one.  Had
\* it taken effect, that is the statement's own step with this one after it; where Chapa is
\* asked, VerifyThrows, CircuitOpen and CallTimesOut are the same.
RecoveryThrows(s) ==
  /\ <<s, pc[s]>> \in MayCrash
  /\ pc[s] \in {"reset", "supersede", "insertNext", "forward", "reread"}
  /\ Return(s)
  /\ UNCHANGED <<rows, gatewayVars, offered, deliveries, sweepVars>>

\* The run dies, or a statement outside the recovery of a row throws.
CrashRun(s) ==
  /\ Crash(s)
  /\ stage' = [stage EXCEPT ![s] = "FORWARDING"]
  /\ todo' = [todo EXCEPT ![s] = {}]
  /\ UNCHANGED deliveries

Run(s) ==
  \/ StartRun(s) \/ SelectRows(s) \/ SweepDone(s) \/ ClaimStale(s) \/ ReclaimStale(s)
  \/ AskChapa(s) \/ SettleInitialized(s) \/ EnqueueFromSweep(s) \/ AbortSuperseded(s)
  \/ RecoverRow(s) \/ RecoveryThrows(s) \/ CrashRun(s)

=============================================================================
