--------------------------- MODULE BirtuBridge_custody ---------------------------
(* What takes two statements is finished by the handler that began it, or is lost when *)
(* that handler breaks off.  A handler that leaves an attempt halfway has it in hand   *)
(* afterwards (TakesUp), one that has it in hand goes on with it, finishes it or       *)
(* breaks off (GoesOn), and nobody else's step takes it away.                          *)
EXTENDS BirtuBridge_finality

\* The statuses of an attempt that may be unfinished.
Halfway == {"PENDING_CREATION", "PAID", "SUPERSEDED_ORPHANED_ON_GATEWAY"}

\* A row that comes into one of them is in the hands of p.
TakesUp(p) ==
  \A a \in Attempts : rows'[a] = rows[a] \/ rows'[a] \notin Halfway \/ InHand(p, a)'

\* What p has in hand it keeps, has finished or loses by breaking off.
GoesOn(p) ==
  \A a \in Attempts : InHand(p, a) => InHand(p, a)' \/ ~Unfinished(a)' \/ BreaksOff(p)

\* The others keep what they carry.
OthersCarryOn(p) ==
  \A q \in Handlers \ {p} : pc'[q] = pc[q] /\ att'[q] = att[q] /\ got'[q] = got[q]

\* A step of p, as far as unfinished attempts are concerned.
HandsOn(p) == TakesUp(p) /\ GoesOn(p) /\ OthersCarryOn(p) /\ deliveries \subseteq deliveries'

\* An attempt that is left behind was in the hands of a handler that broke off.
Custody ==
  \A a \in Attempts : ~Orphaned(a) /\ Orphaned(a)' =>
    \E p \in Handlers : InHand(p, a) /\ BreaksOff(p)

\* Rows do not vanish.
LEMMA RowsStay ==
  ASSUME IInv, [Next]_bridgeVars, NEW a \in Attempts, Exists(a)
  PROVE  Exists(a)'
  <1>1. CASE RowsAdvance
    BY <1>1 DEF RowsAdvance, InFlight, Settled, Exists, NoRow
  <1>2. CASE \E p \in Handlers : Confirms(p)
    BY <1>2 DEF Confirms, Exists, NoRow
  <1> QED BY <1>1, <1>2, StepAdvances DEF Advances

\* A handler's step that hands on loses no attempt.
LEMMA HandingOnKeeps ==
  ASSUME IInv, [Next]_bridgeVars, NEW p \in Handlers, HandsOn(p)
  PROVE  Custody
  <1> SUFFICES ASSUME NEW a \in Attempts, ~Orphaned(a), Orphaned(a)'
               PROVE  InHand(p, a) /\ BreaksOff(p)
    BY DEF Custody
  <1>1. rows'[a] = rows[a]
    BY DEF HandsOn, TakesUp, Orphaned, Unfinished, Halfway
  <1>2. Unfinished(a)
    <2>1. a + 1 \in Attempts /\ ~Exists(a + 1)' => ~Exists(a + 1)
      BY RowsStay
    <2> QED BY <1>1, <2>1 DEF Orphaned, Unfinished, HandsOn
  <1>3. PICK q \in Handlers : InHand(q, a)
    BY <1>2 DEF Orphaned
  <1>4. q = p
    BY <1>1, <1>3 DEF HandsOn, OthersCarryOn, InHand, Orphaned
  <1> QED BY <1>3, <1>4 DEF HandsOn, GoesOn, Orphaned

----------------------------------------------------------------------------
(* What handlers carry, and the statements.                                            *)

LEMMA OthersLeftAlone ==
  ASSUME IInv, NEW p \in Handlers,
         \/ UNCHANGED localVars
         \/ \E l : Goto(p, l) \/ BackTo(p, l)
         \/ Return(p)
         \/ \E l, a : GotoWith(p, l, a)
         \/ \E l, r : GotoAnswered(p, l, r)
         \/ \E l : pc' = [pc EXCEPT ![p] = l] /\ UNCHANGED <<att, got>>
         \/ \E l, a, r : /\ pc' = [pc EXCEPT ![p] = l] /\ att' = [att EXCEPT ![p] = a]
                         /\ got' = [got EXCEPT ![p] = r]
         \/ \E a : UNCHANGED <<pc, got>> /\ att' = [att EXCEPT ![p] = a]
  PROVE  OthersCarryOn(p)
  BY DEF OthersCarryOn, localVars, Goto, BackTo, Return, GotoWith, GotoAnswered,
         IInv, TypeOK, HandlersTypeOK

\* An UPDATE to a status that is finished, or none at all, takes up nothing.
LEMMA FinishedStatements ==
  ASSUME NEW p \in Handlers, NEW a,
         \/ UNCHANGED rows
         \/ MarkForwarding(a) \/ MarkInitialized(a) \/ MarkFailed(a) \/ ClaimForRecovery
         \/ MarkFailedIfStillInitialized(a) \/ MarkAbortedIfSuperseded(a)
  PROVE  TakesUp(p)
  BY DEF MarkForwarding, MarkInitialized, MarkFailed, ClaimForRecovery,
         MarkFailedIfStillInitialized, MarkAbortedIfSuperseded, Update, TakesUp, Halfway

\* Elsewhere than at these labels a handler has nothing in hand.
LEMMA NothingInHand ==
  ASSUME NEW p \in Handlers,
         pc[p] \notin {"forward", "insertNext", "finish", "enqueue"}
  PROVE  GoesOn(p)
  BY DEF GoesOn, InHand

----------------------------------------------------------------------------
(* Every step, by whom it is taken.                                                    *)

\* A crash.
LEMMA CrashHandsOn ==
  ASSUME IInv, NEW p \in Handlers, Crash(p), UNCHANGED deliveries
  PROVE  HandsOn(p)
  <1>1. OthersCarryOn(p)
    BY OthersLeftAlone DEF Crash
  <1>2. TakesUp(p)
    BY FinishedStatements DEF Crash
  <1> QED BY <1>1, <1>2 DEF HandsOn, GoesOn, BreaksOff

\* A step of runRecoveryAsWinner.
LEMMA RecoveryHandsOn ==
  ASSUME IInv, NEW p \in Handlers, RunRecoveryAsWinner(p), UNCHANGED deliveries
  PROVE  HandsOn(p)
  <1>t. /\ rows \in [Attempts -> Statuses \cup {NoRow}]
        /\ pc \in [Handlers -> RequestLabels \cup SweeperLabels \cup HookLabels]
        /\ att \in [Handlers -> 0 .. MaxAttempts + 1]
        /\ got \in [Handlers -> Answers]
    BY DEF IInv, TypeOK, RepoTypeOK, HandlersTypeOK, Answers
  <1>a. pc[p] \notin Unattached => att[p] \in Attempts /\ Exists(att[p])
    BY DEF IInv, HandlerInv
  <1>1. CASE ResetForRetry(p)
    <2>1. OthersCarryOn(p)
      BY <1>1, OthersLeftAlone DEF ResetForRetry
    <2>2. GoesOn(p)
      BY <1>1, NothingInHand DEF ResetForRetry
    <2>3. \A a \in Attempts : rows'[a] = rows[a]
                              \/ (a = att[p] /\ rows'[a] = "PENDING_CREATION")
      BY <1>1 DEF ResetForRetry, ResetToPendingCreationForRetry, Update
    <2>4. pc'[p] = "forward" /\ att'[p] = att[p]
      BY <1>1, <1>t DEF ResetForRetry
    <2> QED BY <2>1, <2>2, <2>3, <2>4 DEF HandsOn, TakesUp, InHand
  <1>2. CASE Supersede(p)
    <2>1. OthersCarryOn(p)
      BY <1>2, OthersLeftAlone DEF Supersede
    <2>2. GoesOn(p)
      BY <1>2, NothingInHand DEF Supersede
    <2>3. \A a \in Attempts : rows'[a] = rows[a]
                              \/ (a = att[p] /\ rows'[a] = "SUPERSEDED_ORPHANED_ON_GATEWAY")
      BY <1>2 DEF Supersede, MarkSupersededOrphaned, Update, ById
    <2>4. pc'[p] = "insertNext" /\ att'[p] = att[p] + 1
      BY <1>2, <1>t DEF Supersede, GotoWith
    <2> QED BY <2>1, <2>2, <2>3, <2>4 DEF HandsOn, TakesUp, InHand
  <1>3. CASE InsertNextAttempt(p)
    <2>1. OthersCarryOn(p)
      BY <1>3, OthersLeftAlone DEF InsertNextAttempt
    <2>2. \A a \in Attempts : rows'[a] = IF a = att[p] THEN "PENDING_CREATION" ELSE rows[a]
      BY <1>3, <1>t DEF InsertNextAttempt, InsertPendingCreation
    <2>3. pc'[p] = "forward" /\ att'[p] = att[p]
      BY <1>3, <1>t DEF InsertNextAttempt
    <2>4. TakesUp(p)
      BY <2>2, <2>3 DEF TakesUp, InHand
    <2>5. GoesOn(p)
      <3> SUFFICES ASSUME NEW a \in Attempts, InHand(p, a) PROVE ~Unfinished(a)'
        BY DEF GoesOn
      <3>1. rows[a] = "SUPERSEDED_ORPHANED_ON_GATEWAY" /\ att[p] = a + 1
        BY <1>3 DEF InHand, InsertNextAttempt
      <3>2. rows'[a] = rows[a] /\ Exists(a + 1)'
        BY <1>3, <2>2, <3>1 DEF InsertNextAttempt, Exists, NoRow, Attempts
      <3> QED BY <3>1, <3>2 DEF Unfinished
    <2> QED BY <1>3, <2>1, <2>4, <2>5 DEF HandsOn
  <1>4. CASE InsertNextDuplicate(p) \/ InsertNextFails(p)
    <2>1. OthersCarryOn(p)
      <3>1. CASE Return(p)
        BY <3>1, OthersLeftAlone
      <3>2. CASE UNCHANGED <<pc, got>> /\ att' = [att EXCEPT ![p] = @ + 1]
        BY <3>2, <1>t, OthersLeftAlone
      <3> QED BY <1>4, <3>1, <3>2 DEF InsertNextDuplicate, InsertNextFails
    <2>2. UNCHANGED rows /\ TakesUp(p)
      BY <1>4, FinishedStatements DEF InsertNextDuplicate, InsertNextFails
    <2>3. GoesOn(p)
      <3> SUFFICES ASSUME NEW a \in Attempts, InHand(p, a) PROVE ~Unfinished(a)'
        BY DEF GoesOn
      <3>1. rows[a] = "SUPERSEDED_ORPHANED_ON_GATEWAY" /\ att[p] = a + 1
        BY <1>4 DEF InHand, InsertNextDuplicate, InsertNextFails
      <3>2. ~(a + 1 \in Attempts /\ ~Exists(a + 1))
        BY <1>4, <3>1 DEF InsertNextDuplicate, InsertNextFails
      <3> QED BY <2>2, <3>1, <3>2 DEF Unfinished, Exists
    <2> QED BY <2>1, <2>2, <2>3 DEF HandsOn
  <1>5. CASE Forward(p)
    <2>1. OthersCarryOn(p) /\ TakesUp(p)
      BY <1>5, OthersLeftAlone, FinishedStatements DEF Forward
    <2>2. GoesOn(p)
      <3> SUFFICES ASSUME NEW a \in Attempts, InHand(p, a) PROVE ~Unfinished(a)'
        BY DEF GoesOn
      <3>1. rows[a] = "PENDING_CREATION" /\ att[p] = a
        BY <1>5 DEF InHand, Forward
      <3>2. rows'[a] = "FORWARDING"
        BY <1>5, <3>1 DEF Forward, MarkForwarding, Update
      <3> QED BY <3>2 DEF Unfinished
    <2> QED BY <2>1, <2>2 DEF HandsOn
  <1>6. CASE \/ VerifyAnswered(p) \/ VerifyThrows(p) \/ SendInitialize(p) \/ CircuitOpen(p)
             \/ ChapaAnswers(p) \/ CallTimesOut(p)
    <2>1. OthersCarryOn(p)
      BY <1>6, OthersLeftAlone
      DEF VerifyAnswered, VerifyThrows, SendInitialize, CircuitOpen, ChapaAnswers,
          CallTimesOut
    <2>2. TakesUp(p) /\ GoesOn(p)
      BY <1>6, FinishedStatements, NothingInHand
      DEF VerifyAnswered, VerifyThrows, SendInitialize, CircuitOpen, ChapaAnswers,
          CallTimesOut
    <2> QED BY <2>1, <2>2 DEF HandsOn
  <1>7. CASE CallConfirmed(p) \/ CallFoundDuplicate(p) \/ CallRejected(p) \/ Reread(p)
    <2>1. OthersCarryOn(p)
      BY <1>7, OthersLeftAlone DEF CallConfirmed, CallFoundDuplicate, CallRejected, Reread
    <2>2. TakesUp(p) /\ GoesOn(p)
      BY <1>7, FinishedStatements, NothingInHand
      DEF CallConfirmed, CallFoundDuplicate, CallRejected, Reread
    <2> QED BY <2>1, <2>2 DEF HandsOn
  <1> QED
    BY <1>1, <1>2, <1>3, <1>4, <1>5, <1>6, <1>7 DEF RunRecoveryAsWinner, MakeCall

\* A step of a request.
LEMMA RequestHandsOn ==
  ASSUME IInv, NEW p \in Requests, RequestStep(p)
  PROVE  HandsOn(p)
  <1> p \in Handlers
    BY DEF Handlers
  <1>d. UNCHANGED deliveries
    BY DEF RequestStep
  <1>1. CASE InsertAttempt(p)
    <2>1. OthersCarryOn(p) /\ GoesOn(p)
      BY <1>1, OthersLeftAlone, NothingInHand DEF InsertAttempt
    <2>2. \A a \in Attempts : a # att[p] => rows'[a] = rows[a]
      BY <1>1 DEF InsertAttempt, InsertPendingCreation, IInv, TypeOK, RepoTypeOK
    <2>3. rows'[att[p]] = "PENDING_CREATION" /\ pc'[p] = "forward" /\ att'[p] = att[p]
      BY <1>1 DEF InsertAttempt, InsertPendingCreation, Goto, IInv, TypeOK, RepoTypeOK,
                  HandlersTypeOK
    <2> QED BY <1>d, <2>1, <2>2, <2>3 DEF HandsOn, TakesUp, InHand
  <1>2. CASE ReadLatest(p) \/ InsertFails(p) \/ ClaimOrWait(p) \/ Poll(p)
    <2>1. OthersCarryOn(p)
      <3>1. CASE ReadLatest(p)
        <4>1. UNCHANGED localVars \/ \E l, a : GotoWith(p, l, a)
          BY <3>1 DEF ReadLatest
        <4> QED BY <4>1, OthersLeftAlone
      <3> QED BY <1>2, <3>1, OthersLeftAlone DEF InsertFails, ClaimOrWait, Poll
    <2>2. TakesUp(p) /\ GoesOn(p)
      BY <1>2, FinishedStatements, NothingInHand
      DEF ReadLatest, InsertFails, ClaimOrWait, Poll
    <2> QED BY <1>d, <2>1, <2>2 DEF HandsOn
  <1> QED
    BY <1>d, <1>1, <1>2, RecoveryHandsOn, CrashHandsOn
    DEF RequestStep, InitializeTransaction, RecoverOrWait

\* A step of a webhook call.
LEMMA WebhookHandsOn ==
  ASSUME IInv, NEW h \in Hooks, WebhookStep(h)
  PROVE  HandsOn(h)
  <1> h \in Handlers
    BY DEF Handlers
  <1>t. /\ pc \in [Handlers -> RequestLabels \cup SweeperLabels \cup HookLabels]
        /\ att \in [Handlers -> 0 .. MaxAttempts + 1]
        /\ got \in [Handlers -> Answers]
    BY DEF IInv, TypeOK, HandlersTypeOK, Answers
  <1>1. CASE SettleFromWebhook(h)
    <2>1. OthersCarryOn(h) /\ GoesOn(h)
      BY <1>1, OthersLeftAlone, NothingInHand DEF SettleFromWebhook
    <2>2. TakesUp(h)
      <3>1. CASE got[h] = "success"
        <4>1. \A a \in Attempts : rows'[a] = rows[a] \/ (a = att[h] /\ rows'[a] = "PAID")
          BY <1>1, <3>1 DEF SettleFromWebhook, MarkPaid, Update, ById
        <4>2. pc'[h] = "finish" /\ att'[h] = att[h] /\ got'[h] = "success"
          BY <1>1, <1>t, <3>1 DEF SettleFromWebhook, Goto
        <4> QED BY <4>1, <4>2 DEF TakesUp, InHand
      <3>2. CASE got[h] # "success"
        BY <1>1, <3>2, FinishedStatements DEF SettleFromWebhook
      <3> QED BY <3>1, <3>2
    <2> QED BY <1>1, <2>1, <2>2 DEF SettleFromWebhook, HandsOn
  <1>2. CASE MarkWebhookProcessed(h)
    <2>1. OthersCarryOn(h) /\ TakesUp(h)
      BY <1>2, OthersLeftAlone, FinishedStatements DEF MarkWebhookProcessed
    <2>2. pc[h] = "finish" /\ pc'[h] = "enqueue" /\ UNCHANGED <<rows, att, got, deliveries>>
      BY <1>2, <1>t DEF MarkWebhookProcessed, Goto
    <2>3. GoesOn(h)
      BY <2>2 DEF GoesOn, InHand
    <2> QED BY <2>1, <2>2, <2>3 DEF HandsOn
  <1>3. CASE EnqueueFromWebhook(h)
    <2>1. OthersCarryOn(h) /\ TakesUp(h)
      BY <1>3, OthersLeftAlone, FinishedStatements DEF EnqueueFromWebhook, Respond
    <2>2. deliveries' = deliveries \cup {<<att[h], EventType(got[h])>>} /\ UNCHANGED rows
      BY <1>3 DEF EnqueueFromWebhook, EnqueueDelivery
    <2>3. \A a \in Attempts : InHand(h, a) => ~Unfinished(a)'
      BY <1>3, <2>2 DEF EnqueueFromWebhook, InHand, Unfinished, EventType
    <2> QED BY <2>1, <2>2, <2>3 DEF HandsOn, GoesOn
  <1>4. CASE \/ ReceiveWebhook(h) \/ LookupTransaction(h) \/ CheckWithChapa(h)
             \/ CheckThrows(h)
    <2>1. OthersCarryOn(h)
      BY <1>4, OthersLeftAlone
      DEF ReceiveWebhook, LookupTransaction, CheckWithChapa, CheckThrows, Respond
    <2>2. TakesUp(h) /\ GoesOn(h) /\ UNCHANGED deliveries
      BY <1>4, FinishedStatements, NothingInHand
      DEF ReceiveWebhook, LookupTransaction, CheckWithChapa, CheckThrows
    <2> QED BY <2>1, <2>2 DEF HandsOn
  <1> QED
    BY <1>1, <1>2, <1>3, <1>4, CrashHandsOn
    DEF WebhookStep, ProcessIncomingWebhook, CrashWebhook

\* A step of a reconciler run.
LEMMA ReconcilerHandsOn ==
  ASSUME IInv, NEW s \in Sweepers, ReconcilerStep(s)
  PROVE  HandsOn(s)
  <1> s \in Handlers
    BY DEF Handlers
  <1>t. /\ pc \in [Handlers -> RequestLabels \cup SweeperLabels \cup HookLabels]
        /\ att \in [Handlers -> 0 .. MaxAttempts + 1]
        /\ got \in [Handlers -> Answers]
    BY DEF IInv, TypeOK, HandlersTypeOK, Answers
  <1>1. CASE SettleInitialized(s)
    <2>1. OthersCarryOn(s) /\ GoesOn(s)
      BY <1>1, OthersLeftAlone, NothingInHand DEF SettleInitialized
    <2>2. TakesUp(s)
      <3>1. CASE got[s] = "success" /\ att[s] \in Initialized
        <4>1. \A a \in Attempts : rows'[a] = rows[a] \/ (a = att[s] /\ rows'[a] = "PAID")
          BY <1>1, <3>1 DEF SettleInitialized, MarkPaidIfStillInitialized, Update
        <4>2. pc'[s] = "enqueue" /\ att'[s] = att[s] /\ got'[s] = "success"
          BY <1>1, <1>t, <3>1 DEF SettleInitialized, Goto
        <4> QED BY <4>1, <4>2 DEF TakesUp, InHand
      <3>2. CASE got[s] = "success" /\ att[s] \notin Initialized
        BY <1>1, <3>2
        DEF SettleInitialized, MarkPaidIfStillInitialized, Update, Initialized, InStatus,
            TakesUp
      <3>3. CASE got[s] # "success"
        BY <1>1, <3>3, FinishedStatements DEF SettleInitialized
      <3> QED BY <3>1, <3>2, <3>3
    <2> QED BY <1>1, <2>1, <2>2 DEF SettleInitialized, HandsOn
  <1>2. CASE EnqueueFromSweep(s)
    <2>1. OthersCarryOn(s) /\ TakesUp(s)
      BY <1>2, OthersLeftAlone, FinishedStatements DEF EnqueueFromSweep
    <2>2. deliveries' = deliveries \cup {<<att[s], EventType(got[s])>>} /\ UNCHANGED rows
      BY <1>2 DEF EnqueueFromSweep, EnqueueDelivery
    <2>3. \A a \in Attempts : InHand(s, a) => ~Unfinished(a)'
      BY <1>2, <2>2 DEF EnqueueFromSweep, InHand, Unfinished, EventType
    <2> QED BY <2>1, <2>2, <2>3 DEF HandsOn, GoesOn
  <1>3. CASE \/ StartRun(s) \/ SelectRows(s) \/ SweepDone(s) \/ ClaimStale(s)
             \/ ReclaimStale(s) \/ AskChapa(s) \/ AbortSuperseded(s)
    <2>1. OthersCarryOn(s)
      <3>1. CASE StartRun(s) \/ SelectRows(s) \/ SweepDone(s) \/ AbortSuperseded(s)
        BY <3>1, OthersLeftAlone DEF StartRun, SelectRows, SweepDone, AbortSuperseded
      <3>2. CASE ClaimStale(s) \/ ReclaimStale(s)
        <4>1. UNCHANGED localVars \/ \E l, a : GotoWith(s, l, a)
          BY <3>2 DEF ClaimStale, ReclaimStale, localVars
        <4> QED BY <4>1, OthersLeftAlone
      <3>3. CASE AskChapa(s)
        <4>1. \/ UNCHANGED localVars
              \/ \E l, a, r : /\ pc' = [pc EXCEPT ![s] = l] /\ att' = [att EXCEPT ![s] = a]
                              /\ got' = [got EXCEPT ![s] = r]
          BY <3>3 DEF AskChapa
        <4> QED BY <4>1, OthersLeftAlone
      <3> QED BY <1>3, <3>1, <3>2, <3>3
    <2>2. TakesUp(s)
      <3>1. CASE ClaimStale(s) \/ AbortSuperseded(s)
        BY <3>1, FinishedStatements DEF ClaimStale, AbortSuperseded
      <3>2. UNCHANGED rows \/ ClaimStale(s) \/ AbortSuperseded(s)
        BY <1>3
        DEF StartRun, SelectRows, SweepDone, ReclaimStale, ReclaimStaleRecovering, AskChapa
      <3> QED BY <3>1, <3>2, FinishedStatements
    <2>3. pc[s] \in {"idle", "select", "next", "mark"} /\ UNCHANGED deliveries
      BY <1>3
      DEF StartRun, SelectRows, SweepDone, ClaimStale, ReclaimStale, AskChapa,
          AbortSuperseded
    <2> QED BY <2>1, <2>2, <2>3, NothingInHand DEF HandsOn
  <1>4. CASE RecoveryThrows(s)
    <2>1. OthersCarryOn(s) /\ TakesUp(s)
      BY <1>4, OthersLeftAlone, FinishedStatements DEF RecoveryThrows
    <2> QED BY <1>4, <2>1 DEF RecoveryThrows, HandsOn, GoesOn, BreaksOff
  <1> QED
    BY <1>1, <1>2, <1>3, <1>4, RecoveryHandsOn, CrashHandsOn
    DEF ReconcilerStep, Run, RecoverRow, CrashRun

\* Every step of anybody.
LEMMA StepKeepsCustody == IInv /\ [Next]_bridgeVars => Custody
  <1> SUFFICES ASSUME IInv, [Next]_bridgeVars PROVE Custody
    OBVIOUS
  <1>1. CASE UNCHANGED <<rows, localVars, deliveries>>
    BY <1>1 DEF Custody, Orphaned, Unfinished, InHand, Exists, localVars
  <1>2. CASE UNCHANGED bridgeVars
    BY <1>1, <1>2 DEF bridgeVars, handlerVars
  <1>3. CASE \E a \in Attempts : CustomerPays(a) \/ CallArrivesLate(a)
    BY <1>1, <1>3 DEF CustomerPays, CallArrivesLate, handlerVars
  <1>4. ASSUME NEW p \in Requests, RequestStep(p) PROVE Custody
    BY <1>4, RequestHandsOn, HandingOnKeeps DEF Handlers
  <1>5. ASSUME NEW h \in Hooks, WebhookStep(h) PROVE Custody
    BY <1>5, WebhookHandsOn, HandingOnKeeps DEF Handlers
  <1>6. ASSUME NEW s \in Sweepers, ReconcilerStep(s) PROVE Custody
    BY <1>6, ReconcilerHandsOn, HandingOnKeeps DEF Handlers
  <1> QED BY <1>2, <1>3, <1>4, <1>5, <1>6 DEF Next

\* Only the handler's death, or a statement that throws, separates statements that belong
\* together, for any number of handlers and attempts, and whatever the others write over the
\* row meanwhile.
THEOREM OnlyFailureLoses == Spec => LostOnlyByFailure
  <1>1. Custody => [\A a \in Attempts : ~Orphaned(a) /\ Orphaned(a)' =>
                      \E p \in Handlers : InHand(p, a) /\ BreaksOff(p)]_bridgeVars
    BY DEF Custody
  <1> QED BY <1>1, StepKeepsCustody, Inductive, PTL DEF Spec, LostOnlyByFailure

\* Where no handler dies and no statement throws with an attempt in hand, none is ever left
\* halfway: the row that stays PENDING_CREATION (README.md:63) and the payment nobody is told
\* of need such a failure.
THEOREM AliveNothingIsLost ==
  ASSUME MayCrash \cap (Handlers \X {"forward", "insertNext", "finish", "enqueue"}) = {}
  PROVE  Spec => [](\A a \in Attempts : ~Orphaned(a))
  <1> DEFINE Kept == \A a \in Attempts : ~Orphaned(a)
  <1>1. Init => Kept
    BY DEF Init, RepoInit, Orphaned, Unfinished, NoRow
  <1>2. Kept /\ Custody => Kept'
    <2> SUFFICES ASSUME Kept, Custody, NEW a \in Attempts, Orphaned(a)' PROVE FALSE
      OBVIOUS
    <2>1. PICK p \in Handlers : InHand(p, a) /\ BreaksOff(p)
      BY DEF Custody
    <2> QED BY <2>1 DEF InHand, BreaksOff, Crash, RecoveryThrows
  <1> HIDE DEF Kept
  <1>3. Spec => []Kept
    BY <1>1, <1>2, StepKeepsCustody, Inductive, PTL DEF Spec
  <1> QED BY <1>3 DEF Kept

=============================================================================
