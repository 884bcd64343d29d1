-------------------------- MODULE CircuitBreaker_proofs --------------------------
(* Proofs about CircuitBreaker for any number of workers, runs and callers.          *)
EXTENDS CircuitBreaker, TLAPS

\* An actor that leaves is idle, and its process has a counter in range.
LEMMA LeavesType ==
  ASSUME TypeOK, NEW p \in Actors, Leaves(p)
  PROVE  /\ pc' \in [Actors -> {"idle", "claim", "reclaim", "call", "sweep", "close",
                                "reopen", "trip", "clear"}]
         /\ consecutiveTimeouts' \in [Processes -> 0 .. TripAt]
BY DEF TypeOK, Leaves, Moves, SetCounter, Processes, TripAt

\* resolveProbe writes one of the statuses the row may have.
LEMMA ResolveProbeType ==
  ASSUME TypeOK, NEW success, ResolveProbe(success)
  PROVE  chapa_status' \in ChapaStatuses /\ aged' \in BOOLEAN
<1>1. chapa_status' \in ChapaStatuses
  BY DEF TypeOK, ResolveProbe, SetStatus, ChapaStatuses, statusVars
<1>2. aged' \in BOOLEAN
  BY DEF TypeOK, ResolveProbe, SetStatus, statusVars
<1> QED
  BY <1>1, <1>2

\* Every step keeps the types: every status written is one the column has, and nobody
\* is overdue with a probe it does not hold.
LEMMA TypeKept == TypeOK /\ [Next]_breakerVars => TypeOK'
<1> SUFFICES ASSUME TypeOK, [Next]_breakerVars
             PROVE  TypeOK'
  OBVIOUS
<1> USE DEF TypeOK, Actors, Processes, ChapaStatuses, TripAt, statusVars, probeVars
<1> USE ProcessAssumption
<1>1. ASSUME NEW p \in Actors, Enter(p)
      PROVE  TypeOK'
  <2>1. CASE ReadStatus(p)
    BY <2>1 DEF ReadStatus, Proceeds, Moves
  <2>2. ASSUME NEW s, Claims(p, s)
        PROVE  TypeOK'
    BY <2>2 DEF Claims, SetStatus, Proceeds, Moves
  <2>3. ASSUME NEW s, Refused(p, s)
        PROVE  TypeOK'
    BY <2>3 DEF Refused, Moves, Leaves, SetCounter
  <2> QED
    BY <1>1, <2>1, <2>2, <2>3 DEF Enter, AttemptProbeClaim, ReclaimStaleProbe
<1>2. ASSUME NEW p \in Actors, Resolve(p)
      PROVE  TypeOK'
  <2>1. CASE CloseProbe(p)
    <3>1. chapa_status' \in ChapaStatuses /\ aged' \in BOOLEAN
      BY <2>1, ResolveProbeType DEF CloseProbe
    <3>2. probing' \subseteq Actors /\ overdue' \subseteq probing'
      BY <2>1 DEF CloseProbe, Releases
    <3>3. CASE p \in Runs
      BY <2>1, <3>1, <3>2, <3>3, LeavesType DEF CloseProbe
    <3>4. CASE p \notin Runs
      BY <2>1, <3>1, <3>2, <3>4 DEF CloseProbe, Moves
    <3> QED
      BY <3>3, <3>4
  <2>2. CASE ReopenProbe(p)
    <3>1. chapa_status' \in ChapaStatuses /\ aged' \in BOOLEAN
      BY <2>2, ResolveProbeType DEF ReopenProbe
    <3>2. probing' \subseteq Actors /\ overdue' \subseteq probing'
      BY <2>2 DEF ReopenProbe, Releases
    <3> QED
      BY <2>2, <3>1, <3>2, LeavesType DEF ReopenProbe
  <2>3. CASE StatementFails(p)
    BY <2>3 DEF StatementFails, Releases, Moves, Leaves, SetCounter
  <2> QED
    BY <1>2, <2>1, <2>2, <2>3 DEF Resolve
<1>3. ASSUME NEW c \in Callers, GuardedCall(c)
      PROVE  TypeOK'
  <2>1. CASE ChapaAnswers(c)
    BY <2>1 DEF ChapaAnswers, Moves, SetCounter
  <2>2. CASE CallTimesOut(c)
    BY <2>2 DEF CallTimesOut, Moves, SetCounter
  <2>3. CASE CallFails(c)
    BY <2>3 DEF CallFails, Moves
  <2>4. CASE Trip(c)
    BY <2>4 DEF Trip, TripToDegraded, SetStatus, Moves
  <2>5. CASE ClearCounter(c)
    BY <2>5 DEF ClearCounter, Moves, SetCounter
  <2> QED
    BY <1>1, <1>2, <1>3, <2>1, <2>2, <2>3, <2>4, <2>5 DEF GuardedCall
<1>4. ASSUME NEW r \in Runs, Run(r)
      PROVE  TypeOK'
  <2>1. ASSUME NEW f \in BOOLEAN, EndSweeps(r, f)
        PROVE  TypeOK'
    BY <2>1 DEF EndSweeps, Moves, Leaves, SetCounter
  <2> QED
    BY <1>1, <1>2, <1>4, <2>1 DEF Run
<1>5. ASSUME NEW w \in Processes, CrashProcess(w)
      PROVE  TypeOK'
  BY <1>5 DEF CrashProcess, SetCounter
<1>6. CASE TimePasses
  BY <1>6 DEF TimePasses
<1>7. CASE UNCHANGED breakerVars
  BY <1>7 DEF breakerVars
<1> QED
  BY <1>3, <1>4, <1>5, <1>6, <1>7 DEF Next

\* A step that neither claims nor lets the period pass can only take holders away and
\* make the row younger.
LEMMA HoldersShrink ==
  ASSUME ProbeInv,
         probing' \ overdue' \subseteq probing \ overdue,
         aged' => aged
  PROVE  ProbeInv'
BY DEF ProbeInv, OneUnexpiredProbe

\* A claim is won on an aged row only, so every earlier holder is overdue by then.
LEMMA EnterKeeps ==
  ASSUME ProbeInv, NEW p \in Actors, Enter(p)
  PROVE  ProbeInv'
<1>1. CASE UNCHANGED <<statusVars, probeVars>>
  BY <1>1, HoldersShrink DEF statusVars, probeVars
<1>2. ASSUME NEW s, Claims(p, s)
      PROVE  ProbeInv'
  <2>1. probing \subseteq overdue
    BY <1>2 DEF Claims, Claimable, ProbeInv
  <2>2. probing' = probing \cup {p} /\ overdue' = overdue /\ aged' = FALSE
    BY <1>2 DEF Claims, SetStatus
  <2> QED
    BY <2>1, <2>2 DEF ProbeInv, OneUnexpiredProbe
<1> QED
  BY <1>1, <1>2 DEF Enter, ReadStatus, AttemptProbeClaim, ReclaimStaleProbe, Refused

\* Whoever resolves, fails or leaves gives up at most its own hold.
LEMMA ResolveKeeps ==
  ASSUME ProbeInv, NEW p \in Actors, Resolve(p)
  PROVE  ProbeInv'
<1>1. CASE CloseProbe(p)
  BY <1>1, HoldersShrink DEF CloseProbe, ResolveProbe, SetStatus, Releases, statusVars
<1>2. CASE ReopenProbe(p)
  BY <1>2, HoldersShrink DEF ReopenProbe, ResolveProbe, SetStatus, Releases, statusVars
<1>3. CASE StatementFails(p)
  BY <1>3, HoldersShrink DEF StatementFails, Releases, statusVars, probeVars
<1> QED
  BY <1>1, <1>2, <1>3 DEF Resolve

\* Every step keeps the breaker's invariant.
LEMMA ProbeKept == ProbeInv /\ [Next]_breakerVars => ProbeInv'
<1> SUFFICES ASSUME ProbeInv, [Next]_breakerVars
             PROVE  ProbeInv'
  OBVIOUS
<1>1. ASSUME NEW c \in Callers, GuardedCall(c)
      PROVE  ProbeInv'
  <2>1. c \in Actors
    BY DEF Actors
  <2>2. CASE UNCHANGED <<statusVars, probeVars>>
    BY <2>2, HoldersShrink DEF statusVars, probeVars
  <2>3. CASE Trip(c)
    BY <2>3, HoldersShrink DEF Trip, TripToDegraded, SetStatus, probeVars
  <2> QED
    BY <1>1, <2>1, <2>2, <2>3, EnterKeeps, ResolveKeeps
    DEF GuardedCall, ChapaAnswers, CallTimesOut, CallFails, ClearCounter
<1>2. ASSUME NEW r \in Runs, Run(r)
      PROVE  ProbeInv'
  <2>1. r \in Actors
    BY DEF Actors
  <2>2. ASSUME NEW f \in BOOLEAN, EndSweeps(r, f)
        PROVE  ProbeInv'
    BY <2>2, HoldersShrink DEF EndSweeps, statusVars, probeVars
  <2> QED
    BY <1>2, <2>1, <2>2, EnterKeeps, ResolveKeeps DEF Run
<1>3. ASSUME NEW w \in Processes, CrashProcess(w)
      PROVE  ProbeInv'
  BY <1>3, HoldersShrink DEF CrashProcess, statusVars
<1>4. CASE TimePasses
  BY <1>4 DEF TimePasses, ProbeInv, OneUnexpiredProbe
<1>5. CASE UNCHANGED breakerVars
  BY <1>5, HoldersShrink DEF breakerVars, statusVars, probeVars
<1> QED
  BY <1>1, <1>2, <1>3, <1>4, <1>5 DEF Next

\* The breaker's row holds one of its three statuses, its counters stay in range, and
\* only holders of a probe are overdue with one.
THEOREM BreakerTypeCorrect == Spec => []TypeOK
<1>1. Init => TypeOK
  <2> SUFFICES ASSUME Init
               PROVE  TypeOK
    OBVIOUS
  <2>1. aged \in BOOLEAN
    BY DEF Init
  <2> QED
    BY <2>1 DEF Init, TypeOK, ChapaStatuses, TripAt
<1> QED
  BY <1>1, TypeKept, PTL DEF Spec

\* Of any two holders of the probe one is overdue, whatever was read before a claim,
\* tripped over a probe or resolved by somebody else.
THEOREM ProbesAreExclusive == Spec => []OneUnexpiredProbe
<1>1. Init => ProbeInv
  BY DEF Init, ProbeInv, OneUnexpiredProbe
<1>2. ProbeInv => OneUnexpiredProbe
  BY DEF ProbeInv
<1> QED
  BY <1>1, <1>2, ProbeKept, PTL DEF Spec

-----------------------------------------------------------------------------
(* The breaker implements ProbeLease.  ProbeInv gives that an aged row has only overdue *)
(* holders; that the claimant is not among them takes HoldersAreOut.                    *)

\* One step of the lease, or none that shows.
LeaseStep == [Lease!LeaseNext]_<<probing, overdue>>

\* Nothing changes for holders that stay where they are, or move on to resolve.
LEMMA SameHolders ==
  ASSUME TypeOK, HoldersAreOut, NEW p \in Actors, NEW l, Moves(p, l),
         p \in probing => l \in {"call", "sweep", "close", "reopen"},
         UNCHANGED probeVars
  PROVE  HoldersAreOut' /\ LeaseStep
BY DEF TypeOK, HoldersAreOut, LeaseStep, Moves, probeVars

\* Giving up what one holds is Release.
LEMMA GivesBack ==
  ASSUME TypeOK, HoldersAreOut, NEW S \in SUBSET Actors,
         probing' = probing \ S, overdue' = overdue \ S,
         \A p \in Actors \ S : pc'[p] = pc[p]
  PROVE  HoldersAreOut' /\ LeaseStep
<1>1. Lease!Release(S)
  BY DEF Lease!Release
<1> QED
  BY <1>1 DEF TypeOK, HoldersAreOut, LeaseStep, Lease!LeaseNext

\* A claim is Acquire, a refusal does not show.
LEMMA EnterLeases ==
  ASSUME TypeOK, ProbeInv, HoldersAreOut, NEW p \in Actors, Enter(p)
  PROVE  HoldersAreOut' /\ LeaseStep
<1>1. pc[p] \in {"idle", "claim", "reclaim"} /\ p \notin probing
  BY DEF Enter, ReadStatus, AttemptProbeClaim, ReclaimStaleProbe, HoldersAreOut
<1>2. CASE ReadStatus(p)
  BY <1>1, <1>2, SameHolders DEF ReadStatus, Proceeds
<1>3. ASSUME NEW s, Claims(p, s)
      PROVE  HoldersAreOut' /\ LeaseStep
  <2>1. probing \subseteq overdue
    BY <1>3 DEF Claims, Claimable, ProbeInv
  <2>2. probing' = probing \cup {p} /\ overdue' = overdue
    BY <1>3 DEF Claims
  <2>3. Lease!Acquire(p)
    BY <1>1, <2>1, <2>2 DEF Lease!Acquire
  <2>4. HoldersAreOut'
    BY <1>3, <2>2 DEF Claims, Proceeds, Moves, TypeOK, HoldersAreOut
  <2> QED
    BY <2>3, <2>4 DEF LeaseStep, Lease!LeaseNext
<1>4. ASSUME NEW s, Refused(p, s)
      PROVE  HoldersAreOut' /\ LeaseStep
  BY <1>1, <1>4, SameHolders DEF Refused, Leaves
<1> QED
  BY <1>2, <1>3, <1>4 DEF Enter, AttemptProbeClaim, ReclaimStaleProbe

\* Whoever resolves the probe gives back its own lease, whosever probe the row is about.
LEMMA ResolveLeases ==
  ASSUME TypeOK, HoldersAreOut, NEW p \in Actors, Resolve(p)
  PROVE  HoldersAreOut' /\ LeaseStep
<1>1. CASE StatementFails(p) /\ pc[p] = "close" /\ p \in Callers
  BY <1>1, SameHolders DEF StatementFails
<1>2. CASE ~(StatementFails(p) /\ pc[p] = "close" /\ p \in Callers)
  <2>1. Releases(p) /\ \E l : Moves(p, l)
    BY <1>2 DEF Resolve, CloseProbe, ReopenProbe, StatementFails, Leaves
  <2>2. \A q \in Actors \ {p} : pc'[q] = pc[q]
    BY <2>1 DEF TypeOK, Moves
  <2> QED
    BY <2>1, <2>2, GivesBack DEF Releases
<1> QED
  BY <1>1, <1>2

\* A holder whose call ends goes on to resolve the probe; any other call leaves the lease
\* alone.
LEMMA CallLeases ==
  ASSUME TypeOK, ProbeInv, HoldersAreOut, NEW c \in Callers, GuardedCall(c)
  PROVE  HoldersAreOut' /\ LeaseStep
<1>1. c \in Actors
  BY DEF Actors
<1>2. CASE ChapaAnswers(c)
  BY <1>1, <1>2, SameHolders DEF ChapaAnswers, statusVars
<1>3. CASE CallTimesOut(c)
  BY <1>1, <1>3, SameHolders DEF CallTimesOut
<1>4. CASE CallFails(c)
  BY <1>1, <1>4, SameHolders DEF CallFails
<1>5. CASE Trip(c) \/ ClearCounter(c)
  <2>1. c \notin probing
    BY <1>5 DEF Trip, ClearCounter, HoldersAreOut
  <2> QED
    BY <1>1, <1>5, <2>1, SameHolders DEF Trip, ClearCounter
<1> QED
  BY <1>1, <1>2, <1>3, <1>4, <1>5, EnterLeases, ResolveLeases DEF GuardedCall

\* So does a run whose sweeps are over.
LEMMA RunLeases ==
  ASSUME TypeOK, ProbeInv, HoldersAreOut, NEW r \in Runs, Run(r)
  PROVE  HoldersAreOut' /\ LeaseStep
<1>1. r \in Actors
  BY DEF Actors
<1>2. ASSUME NEW f \in BOOLEAN, EndSweeps(r, f)
      PROVE  HoldersAreOut' /\ LeaseStep
  BY <1>1, <1>2, SameHolders DEF EndSweeps, Leaves
<1> QED
  BY <1>1, <1>2, EnterLeases, ResolveLeases DEF Run

\* Every step is a step of the lease, or does not show.
LEMMA NextLeases ==
  TypeOK /\ ProbeInv /\ HoldersAreOut /\ [Next]_breakerVars => HoldersAreOut' /\ LeaseStep
<1> SUFFICES ASSUME TypeOK, ProbeInv, HoldersAreOut, [Next]_breakerVars
             PROVE  HoldersAreOut' /\ LeaseStep
  OBVIOUS
<1>1. ASSUME NEW w \in Processes, CrashProcess(w)
      PROVE  HoldersAreOut' /\ LeaseStep
  <2>1. In(w) \in SUBSET Actors
    BY DEF In
  <2> QED
    BY <1>1, <2>1, GivesBack DEF CrashProcess
<1>2. CASE TimePasses
  <2>1. Lease!Expire
    BY <1>2 DEF TimePasses, Lease!Expire
  <2> QED
    BY <1>2, <2>1 DEF TimePasses, HoldersAreOut, LeaseStep, Lease!LeaseNext
<1>3. CASE UNCHANGED breakerVars
  BY <1>3 DEF breakerVars, probeVars, HoldersAreOut, LeaseStep
<1> QED
  BY <1>1, <1>2, <1>3, CallLeases, RunLeases DEF Next

\* For any number of workers, runs and calls the row works as a lease: a claim decided by
\* a status read long before, a trip over PROBING and a probe resolved by somebody else
\* all map to a step of it.
THEOREM BreakerImplementsLease == Spec => ImplementsProbeLease
<1>1. Init => TypeOK /\ ProbeInv /\ HoldersAreOut /\ Lease!LeaseInit
  <2> SUFFICES ASSUME Init
               PROVE  TypeOK /\ ProbeInv /\ HoldersAreOut /\ Lease!LeaseInit
    OBVIOUS
  <2>1. aged \in BOOLEAN
    BY DEF Init
  <2> QED
    BY <2>1 DEF Init, TypeOK, ChapaStatuses, TripAt, ProbeInv, OneUnexpiredProbe,
                HoldersAreOut, Lease!LeaseInit
<1> QED
  BY <1>1, TypeKept, ProbeKept, NextLeases, PTL
  DEF Spec, ImplementsProbeLease, Lease!LeaseSpec, LeaseStep

=============================================================================
