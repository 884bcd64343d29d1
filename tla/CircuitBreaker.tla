----------------------------- MODULE CircuitBreaker -----------------------------
(* circuitBreakerService.js: one shared row of system_status, and a counter of     *)
(* consecutive timeouts in the memory of every process.  It is used by guarded     *)
(* calls (Callers), inside a web worker or inside a reconciler run, and by the     *)
(* reconciler run itself, which may act as the probe (run-reconciler.js).          *)
(*                                                                                 *)
(*     idle -> [claim | reclaim ->] call -> [close | reopen | trip -> clear]       *)
(*     idle -> [claim | reclaim ->] sweep -> [close | reopen]             (a run)  *)
(*                                                                                 *)
(* The label after idle is what readStatus returned: claim for DEGRADED, reclaim   *)
(* for PROBING, and no label of its own for OPERATIONAL, after which no further    *)
(* statement decides anything.                                                     *)
(*                                                                                 *)
(* Time is not counted.  aged says that last_failure_at lies further back than the *)
(* period of the current status: the cooldown when DEGRADED, the stale period when *)
(* PROBING.  The cooldown is taken to be the longer of the two, as by default, so  *)
(* whoever claimed the probe before an aged last_failure_at is overdue.            *)
EXTENDS Naturals

CONSTANTS Workers,      \* web worker processes
          Runs,         \* reconciler runs, each a process of its own
          Callers,      \* guardedCalls that may be in progress at once
          ProcessOf     \* caller -> the worker or run it is made in

Processes == Workers \cup Runs
Actors == Callers \cup Runs

ASSUME ProcessAssumption ==
  /\ ProcessOf \in [Callers -> Processes]
  /\ Workers \cap Runs = {}
  /\ Callers \cap Runs = {}

VARIABLES chapa_status, \* the row of system_status
          aged,
          pc,           \* actor -> label
          probing,      \* actors that claimed the probe and have not resolved it
          overdue,      \* those of them whose claim is older than the stale period
          consecutiveTimeouts   \* process -> its counter

statusVars  == <<chapa_status, aged>>
probeVars   == <<probing, overdue>>
breakerVars == <<statusVars, pc, probeVars, consecutiveTimeouts>>

ChapaStatuses == {"OPERATIONAL", "DEGRADED", "PROBING"}
TripAt == 3

TypeOK ==
  /\ chapa_status \in ChapaStatuses
  /\ aged \in BOOLEAN
  /\ pc \in [Actors -> {"idle", "claim", "reclaim", "call", "sweep", "close", "reopen",
                        "trip", "clear"}]
  /\ probing \subseteq Actors
  /\ overdue \subseteq probing
  /\ consecutiveTimeouts \in [Processes -> 0 .. TripAt]

Init ==
  /\ chapa_status = "OPERATIONAL"
  /\ aged = FALSE
  /\ pc = [p \in Actors |-> "idle"]
  /\ probing = {}
  /\ overdue = {}
  /\ consecutiveTimeouts = [w \in Processes |-> 0]

----------------------------------------------------------------------------
(* The statements *)

\* Mutant: last_failure_at stays what it was.
SetStatusOnly(s) == chapa_status' = s /\ UNCHANGED aged

SetStatus(s) == chapa_status' = s /\ aged' = FALSE

\* Mutant: a status the ENUM of the column does not have.
TripToOpen == SetStatus("OPEN")

\* Mutant: the trip takes over the condition of resolveProbe.
TripWhenProbing ==
  IF chapa_status = "PROBING" THEN SetStatus("DEGRADED") ELSE UNCHANGED statusVars

TripToDegraded == SetStatus("DEGRADED")

\* Mutant: the claim does not wait for the period to pass.
ClaimableAtOnce(s) == chapa_status = s

\* Mutant: a stale probe is not reclaimed.
ClaimableWhenDegraded(s) == s = "DEGRADED" /\ chapa_status = s /\ aged

\* The condition of attemptProbeClaim (s is DEGRADED) or reclaimStaleProbe (PROBING),
\* both of which set PROBING, and last_failure_at to NOW().
Claimable(s) == chapa_status = s /\ aged

ResolveProbe(success) ==
  IF chapa_status # "PROBING" THEN UNCHANGED statusVars
  ELSE IF success THEN chapa_status' = "OPERATIONAL" /\ UNCHANGED aged
  ELSE SetStatus("DEGRADED")

Moves(p, l) == pc' = [pc EXCEPT ![p] = l]

Releases(p) ==
  /\ probing' = probing \ {p}
  /\ overdue' = overdue \ {p}

SetCounter(w, n) == consecutiveTimeouts' = [consecutiveTimeouts EXCEPT ![w] = n]

\* A call is over, or a run is: its process ends with its counter, the next run's starts
\* at 0.
Leaves(p) ==
  /\ Moves(p, "idle")
  /\ IF p \in Runs THEN SetCounter(p, 0) ELSE UNCHANGED consecutiveTimeouts

----------------------------------------------------------------------------
(* guardedCall, and the same entry in a reconciler run *)

\* A call inside a run is made while the run is sweeping.
MayStart(p) ==
  p \in Callers /\ ProcessOf[p] \in Runs => pc[ProcessOf[p]] = "sweep"

Proceeds(p) == Moves(p, IF p \in Runs THEN "sweep" ELSE "call")

ReadStatus(p) ==
  /\ pc[p] = "idle"
  /\ MayStart(p)
  /\ \/ chapa_status = "OPERATIONAL" /\ Proceeds(p)
     \/ chapa_status = "DEGRADED" /\ Moves(p, "claim")
     \/ chapa_status = "PROBING" /\ Moves(p, "reclaim")
  /\ UNCHANGED <<statusVars, probeVars, consecutiveTimeouts>>

Claims(p, s) ==
  /\ Claimable(s)
  /\ SetStatus("PROBING")
  /\ probing' = probing \cup {p}
  /\ Proceeds(p)
  /\ UNCHANGED <<overdue, consecutiveTimeouts>>

\* CircuitOpenError, or the run is skipped.
Refused(p, s) ==
  /\ ~Claimable(s)
  /\ Leaves(p)
  /\ UNCHANGED <<statusVars, probeVars>>

AttemptProbeClaim(p) ==
  pc[p] = "claim" /\ (Claims(p, "DEGRADED") \/ Refused(p, "DEGRADED"))

ReclaimStaleProbe(p) ==
  pc[p] = "reclaim" /\ (Claims(p, "PROBING") \/ Refused(p, "PROBING"))

----------------------------------------------------------------------------
(* runAndRecord *)

\* fn() returned, with whatever HTTP status.
ChapaAnswers(c) ==
  /\ pc[c] = "call"
  /\ IF c \in probing
       THEN Moves(c, "close") /\ UNCHANGED consecutiveTimeouts
       ELSE Moves(c, "idle") /\ SetCounter(ProcessOf[c], 0)
  /\ UNCHANGED <<statusVars, probeVars>>

\* ChapaTimeoutError.  Counter values above TripAt all act alike and are not told apart.
CallTimesOut(c) ==
  /\ pc[c] = "call"
  /\ LET n == consecutiveTimeouts[ProcessOf[c]] IN
       IF c \in probing
         THEN Moves(c, "reopen") /\ UNCHANGED consecutiveTimeouts
         ELSE /\ SetCounter(ProcessOf[c], IF n < TripAt THEN n + 1 ELSE n)
              /\ Moves(c, IF n + 1 >= TripAt THEN "trip" ELSE "idle")
  /\ UNCHANGED <<statusVars, probeVars>>

\* ChapaNetworkError counts for a probe only.
CallFails(c) ==
  /\ pc[c] = "call"
  /\ Moves(c, IF c \in probing THEN "reopen" ELSE "idle")
  /\ UNCHANGED <<statusVars, probeVars, consecutiveTimeouts>>

Trip(c) ==
  /\ pc[c] = "trip"
  /\ TripToDegraded
  /\ Moves(c, "clear")
  /\ UNCHANGED <<probeVars, consecutiveTimeouts>>

\* The counter is reset when the awaited UPDATE is back, by a trip or a closed probe.
ClearCounter(c) ==
  /\ pc[c] = "clear"
  /\ Moves(c, "idle")
  /\ SetCounter(ProcessOf[c], 0)
  /\ UNCHANGED <<statusVars, probeVars>>

CloseProbe(p) ==
  /\ pc[p] = "close"
  /\ ResolveProbe(TRUE)
  /\ Releases(p)
  /\ IF p \in Runs THEN Leaves(p)
                    ELSE Moves(p, "clear") /\ UNCHANGED consecutiveTimeouts

ReopenProbe(p) ==
  /\ pc[p] = "reopen"
  /\ ResolveProbe(FALSE)
  /\ Releases(p)
  /\ Leaves(p)

\* A statement throws.  Inside the try, a failed resolveProbe(true) is caught and the
\* probe resolved as failed; everything else ends the call or the run.
StatementFails(p) ==
  /\ pc[p] \in {"claim", "reclaim", "close", "reopen", "trip"}
  /\ IF pc[p] = "close" /\ p \in Callers
       THEN Moves(p, "reopen") /\ UNCHANGED <<probeVars, consecutiveTimeouts>>
       ELSE Leaves(p) /\ Releases(p)
  /\ UNCHANGED statusVars

----------------------------------------------------------------------------
(* The reconciler run *)

\* The sweeps are over, one of them possibly by an exception; their calls were awaited.
EndSweeps(r, sweepFailed) ==
  /\ pc[r] = "sweep"
  /\ \A c \in Callers : ProcessOf[c] = r => pc[c] = "idle"
  /\ IF r \notin probing THEN Leaves(r)
     ELSE /\ Moves(r, IF sweepFailed THEN "reopen" ELSE "close")
          /\ UNCHANGED consecutiveTimeouts
  /\ UNCHANGED <<statusVars, probeVars>>

\* A process dies with all that runs in it.
In(w) == {p \in Actors : p = w \/ (p \in Callers /\ ProcessOf[p] = w)}

CrashProcess(w) ==
  /\ \E p \in In(w) : pc[p] # "idle"
  /\ pc' = [p \in Actors |-> IF p \in In(w) THEN "idle" ELSE pc[p]]
  /\ probing' = probing \ In(w)
  /\ overdue' = overdue \ In(w)
  /\ SetCounter(w, 0)
  /\ UNCHANGED statusVars

\* The period of the current status has passed since last_failure_at.
TimePasses ==
  /\ chapa_status # "OPERATIONAL"
  /\ ~aged
  /\ aged' = TRUE
  /\ overdue' = probing
  /\ UNCHANGED <<chapa_status, pc, probing, consecutiveTimeouts>>

----------------------------------------------------------------------------
Enter(p) == ReadStatus(p) \/ AttemptProbeClaim(p) \/ ReclaimStaleProbe(p)

Resolve(p) == CloseProbe(p) \/ ReopenProbe(p) \/ StatementFails(p)

GuardedCall(c) ==
  \/ Enter(c) \/ ChapaAnswers(c) \/ CallTimesOut(c) \/ CallFails(c) \/ Trip(c)
  \/ ClearCounter(c) \/ Resolve(c)

Run(r) == Enter(r) \/ (\E f \in BOOLEAN : EndSweeps(r, f)) \/ Resolve(r)

Next ==
  \/ \E c \in Callers : GuardedCall(c)
  \/ \E r \in Runs : Run(r)
  \/ \E w \in Processes : CrashProcess(w)
  \/ TimePasses

Spec == Init /\ [][Next]_breakerVars

----------------------------------------------------------------------------
\* While the breaker is open one caller at a time may be out testing Chapa: of any two
\* that hold the probe, one has held it for longer than the stale period.  Claims are
\* decided by a status read earlier, trips overwrite PROBING and resolveProbe asks
\* nobody whether the probe is still theirs.
OneUnexpiredProbe ==
  \A p, q \in probing \ overdue : p = q

\* What makes it inductive: a probe within its period keeps the row from being claimed.
ProbeInv ==
  /\ OneUnexpiredProbe
  /\ aged => probing \subseteq overdue

\* Who holds the probe is out testing Chapa, or at the statement that resolves it.
HoldersAreOut ==
  \A p \in probing : pc[p] \in {"call", "sweep", "close", "reopen"}

Lease == INSTANCE ProbeLease WITH holders <- probing, expired <- overdue

\* The row, whose claims ask for a status and an age but for no owner, leases the probe
\* all the same: nobody is let in on the status of another's claim, takes the probe a
\* second time, or loses an unexpired one to somebody else's claim.
ImplementsProbeLease == Lease!LeaseSpec

----------------------------------------------------------------------------
(* Liveness.  Cron keeps starting runs, what has started goes on, time passes, and a  *)
(* sweep comes to an end: it works through a list it selected once.                   *)
Fairness ==
  /\ \A c \in Callers : WF_breakerVars(pc[c] # "idle" /\ GuardedCall(c))
  /\ \A r \in Runs : WF_breakerVars(Enter(r) \/ Resolve(r))
  /\ \A r \in Runs : SF_breakerVars(\E f \in BOOLEAN : EndSweeps(r, f))
  /\ WF_breakerVars(TimePasses)

FairSpec == Spec /\ Fairness

\* Clients of a worker keep asking for payments.
ClientsKeepComing ==
  \A c \in Callers : ProcessOf[c] \in Workers => WF_breakerVars(ReadStatus(c))

\* The step shows that Chapa did not answer a call that counts, or that a claim, a probe
\* or a sweep came to nothing by a database error or the death of its process.
ProbeGoesWrong ==
  \/ \E w \in Processes : consecutiveTimeouts'[w] > consecutiveTimeouts[w]
  \/ \E p \in Actors :
       \/ pc[p] \in {"call", "sweep", "close"} /\ pc'[p] \in {"reopen", "trip"}
       \/ pc[p] = "claim" /\ Claimable("DEGRADED") /\ pc'[p] = "idle"
       \/ pc[p] = "reclaim" /\ Claimable("PROBING") /\ pc'[p] = "idle"
       \/ p \in probing \ probing' /\ chapa_status = "PROBING" /\ UNCHANGED chapa_status

ChapaIsBack == <>[][~ProbeGoesWrong]_breakerVars

\* The step shows that Chapa answered or refused a connection, or that a process died in
\* a call or its trip was lost.
CallDoesNotHang ==
  \E c \in Callers :
    \/ pc[c] = "call" /\ pc'[c] = "close"
    \/ /\ pc[c] = "call" /\ pc'[c] = "idle"
       /\ c \notin probing
       /\ consecutiveTimeouts'[ProcessOf[c]] <= consecutiveTimeouts[ProcessOf[c]]
    \/ pc[c] = "trip" /\ pc'[c] = "idle"

ChapaHangs == <>[][~CallDoesNotHang]_breakerVars

\* "Self-healing probe state" (README, Key Guarantees): when Chapa answers again the
\* breaker closes for good, whoever died while holding the probe, with cron alone to
\* look after it and whatever trips were still under way.
SelfHeals == ChapaIsBack => <>[](chapa_status = "OPERATIONAL")

\* When Chapa hangs the breaker opens, and again each time a reconciler run closes it,
\* although the counters are per process and reset after an await, other calls of the
\* process having counted meanwhile.
OutageOpens ==
  ClientsKeepComing /\ ChapaHangs => []<>(chapa_status # "OPERATIONAL")

=============================================================================
