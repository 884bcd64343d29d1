--------------------------- MODULE BirtuBridge_finality ---------------------------
(* What happens once: a checkout page is opened, a payment is collected, an event is   *)
(* handled.  FinalityInv and EventInv are inductive on top of IInv, OnceInv on top of  *)
(* both while requests and runs do not overlap.                                        *)
(*                                                                                     *)
(* A step matters to FinalityInv in few ways (StepAdvances): a row enters a status in  *)
(* which Chapa may be called only from another such status, it becomes INITIALIZED     *)
(* only by a handler that uses up the confirmation it holds (Confirms), and a          *)
(* confirmation is received only for a ref Chapa did not know (Hears).  To EventInv    *)
(* (StepEvents) it matters that a webhook call goes on with its event, is over, or     *)
(* starts with an event that had no row.                                               *)
EXTENDS BirtuBridge_proofs

InFlight == {"PENDING_CREATION", "FORWARDING", "RECOVERING"}
Settled  == {"PAID", "FAILED", "SUPERSEDED", "SUPERSEDED_ORPHANED_ON_GATEWAY", "ABORTED"}

\* Every changed row stays in flight, enters it by its INSERT, or is settled.
RowsAdvance ==
  \A a \in Attempts :
    \/ rows'[a] = rows[a]
    \/ rows'[a] \in InFlight /\ rows[a] \in InFlight \cup {NoRow}
    \/ rows'[a] \in Settled

\* No handler has a confirmation it did not have.
NoNewAnswer == \A p \in Handlers : got'[p] = "ok" => got[p] = "ok" /\ att'[p] = att[p]

\* Handler p hears that Chapa registered its ref.
Hears(p) ==
  /\ ~OnGateway(att[p])
  /\ UNCHANGED <<rows, offered, att>>
  /\ \A q \in Handlers \ {p} : got'[q] = got[q]

\* Handler p marks its attempt INITIALIZED and forgets the confirmation.
Confirms(p) ==
  /\ got[p] = "ok" /\ got'[p] # "ok"
  /\ \A a \in Attempts : rows'[a] = IF a = att[p] THEN "INITIALIZED" ELSE rows[a]

\* A client is only given a URL from a row that is INITIALIZED, and keeps it.
OffersAdvance ==
  /\ offered \subseteq offered'
  /\ \A a \in offered' : a \in offered \/ rows'[a] = "INITIALIZED"

\* Only customers who were sent there pay.
GatewayAdvance ==
  \A a \in Attempts : gateway'[a] = "paid" => gateway[a] = "paid" \/ a \in offered

Advances ==
  /\ RowsAdvance \/ \E p \in Handlers : Confirms(p)
  /\ NoNewAnswer \/ \E p \in Handlers : Hears(p)
  /\ OffersAdvance
  /\ GatewayAdvance

----------------------------------------------------------------------------
(* The statements and what a handler carries.                                          *)

\* Every statement but markInitialized makes rows advance.
LEMMA StatementsAdvance ==
  ASSUME IInv, NEW a,
         \/ MarkForwarding(a) \/ MarkFailed(a) \/ MarkPaid(a)
         \/ MarkSupersededOrphaned(a) \/ ResetToPendingCreationForRetry(a)
         \/ MarkPaidIfStillInitialized(a) \/ MarkFailedIfStillInitialized(a)
         \/ MarkAbortedIfSuperseded(a) \/ ClaimForRecovery
         \/ a \in Attempts /\ ~Exists(a) /\ InsertPendingCreation(a)
  PROVE  RowsAdvance
  <1> USE DEF RowsAdvance
  <1>1. CASE MarkFailed(a) \/ MarkPaid(a) \/ MarkSupersededOrphaned(a)
             \/ MarkPaidIfStillInitialized(a) \/ MarkFailedIfStillInitialized(a)
             \/ MarkAbortedIfSuperseded(a)
    <2>1. \E S : \E s \in Settled : Update(S, s)
      BY <1>1 DEF MarkFailed, MarkPaid, MarkSupersededOrphaned, Settled,
         MarkPaidIfStillInitialized, MarkFailedIfStillInitialized, MarkAbortedIfSuperseded
    <2> QED BY <2>1 DEF Update
  <1>2. CASE MarkForwarding(a) \/ ResetToPendingCreationForRetry(a) \/ ClaimForRecovery
    <2>1. \E S, s : /\ Update(S, s) /\ s \in InFlight
                    /\ \A b \in S \cap Attempts : rows[b] \in InFlight
      BY <1>2 DEF MarkForwarding, ResetToPendingCreationForRetry, ClaimForRecovery,
                  Forwarding, InStatus, InFlight
    <2> QED BY <2>1 DEF Update
  <1>3. CASE a \in Attempts /\ ~Exists(a) /\ InsertPendingCreation(a)
    BY <1>3 DEF InsertPendingCreation, Exists, InFlight, IInv, TypeOK, RepoTypeOK
  <1> QED BY <1>1, <1>2, <1>3

\* A handler that only moves, or takes an answer other than "ok", has none it had not.
LEMMA AnswersKeep ==
  ASSUME IInv, NEW p \in Handlers,
         \/ UNCHANGED localVars
         \/ \E l : Goto(p, l) \/ BackTo(p, l)
         \/ Return(p)
         \/ \E l, a : pc[p] # "await" /\ GotoWith(p, l, a)
         \/ \E l, r : r # "ok" /\ GotoAnswered(p, l, r)
         \/ \E r : r # "ok" /\ got' = [got EXCEPT ![p] = r]
                   /\ \A q \in Handlers \ {p} : att'[q] = att[q]
         \/ pc[p] # "await" /\ UNCHANGED got /\ \A q \in Handlers \ {p} : att'[q] = att[q]
  PROVE  NoNewAnswer
  <1>1. got \in [Handlers -> Answers] /\ att \in [Handlers -> 0 .. MaxAttempts + 1]
    BY DEF IInv, TypeOK, HandlersTypeOK, Answers
  <1>2. pc[p] # "await" => got[p] # "ok"
    BY DEF IInv, HandlerInv
  <1> QED
    BY <1>1, <1>2
    DEF NoNewAnswer, localVars, Goto, BackTo, Return, GotoWith, GotoAnswered, NoAnswer

\* What is left alone advances, trivially.
LEMMA NothingAdvances ==
  ASSUME IInv
  PROVE  /\ UNCHANGED rows => RowsAdvance
         /\ UNCHANGED offered => OffersAdvance
         /\ UNCHANGED gateway => GatewayAdvance
  BY DEF RowsAdvance, OffersAdvance, GatewayAdvance

\* An answer from an INITIALIZED row.
LEMMA OffersFromRow ==
  ASSUME NEW p, NEW a, Offer(p, a), rows'[a] = "INITIALIZED"
  PROVE  OffersAdvance
  BY DEF Offer, OffersAdvance

----------------------------------------------------------------------------
(* Every step, by whom it is taken.                                                    *)

\* Chapa's answer to an initialize call.
LEMMA AnswerAdvances ==
  ASSUME IInv, NEW p \in Handlers, ChapaAnswers(p)
  PROVE  Advances
  <1>1. PICK r \in InitializeReplies :
          HandleInitialize(att[p], r) /\ GotoAnswered(p, "await", r)
    BY DEF ChapaAnswers
  <1>2. UNCHANGED <<rows, offered>>
    BY DEF ChapaAnswers
  <1>3. GatewayAdvance
    BY <1>1 DEF HandleInitialize, Register, GatewayAdvance, IInv, TypeOK, GatewayTypeOK
  <1>4. NoNewAnswer \/ Hears(p)
    <2>1. CASE r # "ok"
      BY <1>1, <2>1, AnswersKeep
    <2>2. CASE r = "ok"
      <3>1. ~OnGateway(att[p])
        BY <1>1, <2>2 DEF HandleInitialize
      <3> QED
        BY <1>1, <1>2, <3>1 DEF Hears, GotoAnswered, IInv, TypeOK, HandlersTypeOK
    <2> QED BY <2>1, <2>2
  <1> QED BY <1>2, <1>3, <1>4, NothingAdvances DEF Advances

\* The answer "ok" is acted on.
LEMMA ConfirmationAdvances ==
  ASSUME IInv, NEW p \in Handlers, CallConfirmed(p)
  PROVE  Advances
  <1>1. got[p] = "ok" /\ att[p] \in Attempts /\ Exists(att[p])
    BY DEF CallConfirmed, IInv, HandlerInv, Unattached
  <1>2. \A a \in Attempts : rows'[a] = IF a = att[p] THEN "INITIALIZED" ELSE rows[a]
    BY <1>1 DEF CallConfirmed, MarkInitialized, Update, ById
  <1>3. NoNewAnswer /\ got'[p] # "ok"
    <2>1. Return(p) \/ GotoAnswered(p, "reread", NoAnswer)
      BY DEF CallConfirmed
    <2>2. got'[p] = NoAnswer
      BY <2>1 DEF Return, BackTo, GotoAnswered, IInv, TypeOK, HandlersTypeOK
    <2> QED BY <2>1, <2>2, AnswersKeep DEF NoAnswer
  <1>4. OffersAdvance
    <2>1. Offer(p, att[p]) \/ UNCHANGED offered
      BY DEF CallConfirmed
    <2> QED BY <1>1, <1>2, <2>1, OffersFromRow, NothingAdvances
  <1>5. GatewayAdvance
    BY NothingAdvances DEF CallConfirmed, gatewayVars
  <1> QED BY <1>1, <1>2, <1>3, <1>4, <1>5 DEF Advances, Confirms

\* A step of runRecoveryAsWinner.
LEMMA RecoveryAdvances ==
  ASSUME IInv, NEW p \in Handlers, RunRecoveryAsWinner(p)
  PROVE  Advances
  <1>1. CASE ChapaAnswers(p) \/ CallConfirmed(p)
    BY <1>1, AnswerAdvances, ConfirmationAdvances
  <1>2. CASE Reread(p)
    <2>1. (rows'[att[p]] = "INITIALIZED" /\ Offer(p, att[p])) \/ UNCHANGED offered
      BY <1>2 DEF Reread
    <2>2. OffersAdvance
      BY <2>1, OffersFromRow, NothingAdvances
    <2> QED
      BY <1>2, <2>2, NothingAdvances, AnswersKeep DEF Reread, Advances, gatewayVars
  <1>3. CASE Supersede(p) \/ Forward(p) \/ InsertNextAttempt(p) \/ ResetForRetry(p)
             \/ CallRejected(p)
    <2>1. RowsAdvance
      BY <1>3, StatementsAdvance
      DEF Supersede, Forward, InsertNextAttempt, ResetForRetry, CallRejected
    <2>2. NoNewAnswer
      <3>1. CASE Supersede(p) \/ Forward(p)
        BY <3>1, AnswersKeep DEF Supersede, Forward
      <3>2. CASE InsertNextAttempt(p) \/ ResetForRetry(p)
        BY <3>2, AnswersKeep DEF InsertNextAttempt, ResetForRetry
      <3>3. CASE CallRejected(p)
        BY <3>3, AnswersKeep DEF CallRejected, NoAnswer
      <3> QED BY <1>3, <3>1, <3>2, <3>3
    <2>3. UNCHANGED <<gateway, offered>>
      BY <1>3
      DEF Supersede, Forward, InsertNextAttempt, ResetForRetry, CallRejected, Stay
    <2> QED BY <2>1, <2>2, <2>3, NothingAdvances DEF Advances
  <1>4. CASE \/ VerifyAnswered(p) \/ VerifyThrows(p) \/ InsertNextDuplicate(p)
             \/ InsertNextFails(p) \/ SendInitialize(p) \/ CircuitOpen(p)
             \/ CallTimesOut(p) \/ CallFoundDuplicate(p)
    <2>1. UNCHANGED <<rows, gateway, offered>>
      BY <1>4
      DEF VerifyAnswered, VerifyThrows, InsertNextDuplicate, InsertNextFails,
          SendInitialize, CircuitOpen, CallTimesOut, CallFoundDuplicate, Stay
    <2>2. NoNewAnswer
      <3>1. CASE InsertNextDuplicate(p)
        <4>1. CASE Return(p)
          BY <4>1, AnswersKeep
        <4>2. CASE att' = [att EXCEPT ![p] = @ + 1] /\ UNCHANGED got
          BY <3>1, <4>2, AnswersKeep DEF InsertNextDuplicate, IInv, TypeOK, HandlersTypeOK
        <4> QED BY <3>1, <4>1, <4>2 DEF InsertNextDuplicate
      <3>2. CASE VerifyAnswered(p) \/ SendInitialize(p)
        BY <3>2, AnswersKeep DEF VerifyAnswered, SendInitialize
      <3>3. CASE \/ VerifyThrows(p) \/ InsertNextFails(p) \/ CircuitOpen(p)
                 \/ CallTimesOut(p)
        BY <3>3, AnswersKeep DEF VerifyThrows, InsertNextFails, CircuitOpen, CallTimesOut
      <3>4. CASE CallFoundDuplicate(p)
        BY <3>4, AnswersKeep DEF CallFoundDuplicate, NoAnswer
      <3> QED BY <1>4, <3>1, <3>2, <3>3, <3>4
    <2> QED BY <2>1, <2>2, NothingAdvances DEF Advances
  <1> QED BY <1>1, <1>2, <1>3, <1>4 DEF RunRecoveryAsWinner, MakeCall

\* A crash.
LEMMA CrashAdvances ==
  ASSUME IInv, NEW p \in Handlers, Crash(p)
  PROVE  Advances
  BY NothingAdvances, AnswersKeep DEF Crash, Advances

\* A step of a request.
LEMMA RequestAdvances ==
  ASSUME IInv, NEW p \in Requests, RequestStep(p)
  PROVE  Advances
  <1> p \in Handlers
    BY DEF Handlers
  <1>1. CASE ReadLatest(p) \/ Poll(p)
    <2>1. UNCHANGED <<rows, gateway>>
      BY <1>1 DEF ReadLatest, Poll, gatewayVars
    <2>2. \/ \E a \in Attempts : rows[a] = "INITIALIZED" /\ Offer(p, a)
          \/ UNCHANGED offered
      BY <1>1 DEF ReadLatest, Poll
    <2>3. OffersAdvance
      BY <2>1, <2>2, OffersFromRow, NothingAdvances
    <2>4. NoNewAnswer
      <3>1. CASE Poll(p)
        BY <3>1, AnswersKeep DEF Poll
      <3>2. CASE ReadLatest(p)
        <4>1. pc[p] # "await" /\ (UNCHANGED localVars \/ \E l, a : GotoWith(p, l, a))
          BY <3>2 DEF ReadLatest
        <4> QED BY <4>1, AnswersKeep
      <3> QED BY <1>1, <3>1, <3>2
    <2> QED BY <2>1, <2>3, <2>4, NothingAdvances DEF Advances
  <1>2. CASE InsertAttempt(p) \/ ClaimOrWait(p)
    <2>1. RowsAdvance
      BY <1>2, StatementsAdvance DEF InsertAttempt, ClaimOrWait
    <2>2. NoNewAnswer /\ UNCHANGED <<gateway, offered>>
      BY <1>2, AnswersKeep DEF InsertAttempt, ClaimOrWait, Stay
    <2> QED BY <2>1, <2>2, NothingAdvances DEF Advances
  <1>3. CASE InsertFails(p)
    BY <1>3, NothingAdvances, AnswersKeep DEF InsertFails, Stay, Advances
  <1> QED
    BY <1>1, <1>2, <1>3, RecoveryAdvances, CrashAdvances
    DEF RequestStep, InitializeTransaction, RecoverOrWait

\* A step of a webhook call.
LEMMA WebhookAdvances ==
  ASSUME IInv, NEW h \in Hooks, WebhookStep(h)
  PROVE  Advances
  <1> h \in Handlers
    BY DEF Handlers
  <1>1. CASE SettleFromWebhook(h)
    <2>1. RowsAdvance
      BY <1>1, StatementsAdvance DEF SettleFromWebhook
    <2>2. NoNewAnswer
      BY <1>1, AnswersKeep DEF SettleFromWebhook
    <2> QED
      BY <1>1, <2>1, <2>2, NothingAdvances DEF SettleFromWebhook, Advances, gatewayVars
  <1>2. CASE \/ ReceiveWebhook(h) \/ LookupTransaction(h) \/ CheckWithChapa(h)
             \/ CheckThrows(h) \/ MarkWebhookProcessed(h) \/ EnqueueFromWebhook(h)
    <2>1. UNCHANGED <<rows, gateway, offered>>
      BY <1>2
      DEF ReceiveWebhook, LookupTransaction, CheckWithChapa, CheckThrows,
          MarkWebhookProcessed, EnqueueFromWebhook, gatewayVars
    <2>2. NoNewAnswer
      <3>1. CASE ReceiveWebhook(h)
        BY <3>1, AnswersKeep DEF ReceiveWebhook
      <3>2. CASE LookupTransaction(h) \/ MarkWebhookProcessed(h)
        BY <3>2, AnswersKeep DEF LookupTransaction, MarkWebhookProcessed, Respond
      <3>3. CASE CheckWithChapa(h)
        BY <3>3, AnswersKeep DEF CheckWithChapa, VerifyAnswers
      <3>4. CASE CheckThrows(h) \/ EnqueueFromWebhook(h)
        BY <3>4, AnswersKeep DEF CheckThrows, EnqueueFromWebhook, Respond
      <3> QED BY <1>2, <3>1, <3>2, <3>3, <3>4
    <2> QED BY <2>1, <2>2, NothingAdvances DEF Advances
  <1> QED BY <1>1, <1>2, CrashAdvances DEF WebhookStep, ProcessIncomingWebhook, CrashWebhook

\* A step of a reconciler run.
LEMMA ReconcilerAdvances ==
  ASSUME IInv, NEW s \in Sweepers, ReconcilerStep(s)
  PROVE  Advances
  <1> s \in Handlers
    BY DEF Handlers
  <1>1. CASE ClaimStale(s) \/ SettleInitialized(s) \/ AbortSuperseded(s)
    <2>1. RowsAdvance
      BY <1>1, StatementsAdvance DEF ClaimStale, SettleInitialized, AbortSuperseded
    <2>2. NoNewAnswer
      <3>1. CASE ClaimStale(s)
        BY <3>1, AnswersKeep DEF ClaimStale
      <3>2. CASE SettleInitialized(s) \/ AbortSuperseded(s)
        BY <3>2, AnswersKeep DEF SettleInitialized, AbortSuperseded
      <3> QED BY <1>1, <3>1, <3>2
    <2>3. UNCHANGED <<gateway, offered>>
      BY <1>1 DEF ClaimStale, SettleInitialized, AbortSuperseded, gatewayVars
    <2> QED BY <2>1, <2>2, <2>3, NothingAdvances DEF Advances
  <1>2. CASE \/ StartRun(s) \/ SelectRows(s) \/ SweepDone(s) \/ ReclaimStale(s)
             \/ AskChapa(s) \/ EnqueueFromSweep(s)
    <2>1. UNCHANGED <<rows, gateway, offered>>
      BY <1>2
      DEF StartRun, SelectRows, SweepDone, ReclaimStale, ReclaimStaleRecovering, AskChapa,
          EnqueueFromSweep, gatewayVars
    <2>2. NoNewAnswer
      <3>1. CASE StartRun(s) \/ SelectRows(s) \/ SweepDone(s) \/ EnqueueFromSweep(s)
        BY <3>1, AnswersKeep DEF StartRun, SelectRows, SweepDone, EnqueueFromSweep
      <3>2. CASE ReclaimStale(s)
        BY <3>2, AnswersKeep DEF ReclaimStale
      <3>3. CASE AskChapa(s)
        <4>1. \/ UNCHANGED localVars
              \/ \E r : r # "ok" /\ got' = [got EXCEPT ![s] = r]
                        /\ \A q \in Handlers \ {s} : att'[q] = att[q]
          BY <3>3 DEF AskChapa, VerifyAnswers, IInv, TypeOK, HandlersTypeOK
        <4> QED BY <4>1, AnswersKeep
      <3> QED BY <1>2, <3>1, <3>2, <3>3
    <2> QED BY <2>1, <2>2, NothingAdvances DEF Advances
  <1>3. CASE RecoveryThrows(s)
    BY <1>3, NothingAdvances, AnswersKeep DEF RecoveryThrows, Advances, gatewayVars
  <1> QED
    BY <1>1, <1>2, <1>3, RecoveryAdvances, CrashAdvances
    DEF ReconcilerStep, Run, RecoverRow, CrashRun

\* Every step of anybody.
LEMMA StepAdvances == IInv /\ [Next]_bridgeVars => Advances
  <1> SUFFICES ASSUME IInv, [Next]_bridgeVars PROVE Advances
    OBVIOUS
  <1>1. CASE UNCHANGED <<rows, offered, localVars>> /\ GatewayAdvance
    BY <1>1, NothingAdvances DEF Advances, NoNewAnswer, localVars
  <1>2. CASE UNCHANGED bridgeVars
    BY <1>1, <1>2, NothingAdvances DEF bridgeVars, gatewayVars, handlerVars
  <1>3. CASE \E a \in Attempts : CustomerPays(a) \/ CallArrivesLate(a)
    <2>1. GatewayAdvance
      BY <1>3
      DEF CustomerPays, Collect, CallArrivesLate, LateArrival, Register, GatewayAdvance,
          IInv, TypeOK, GatewayTypeOK
    <2> QED BY <1>1, <1>3, <2>1 DEF CustomerPays, CallArrivesLate, handlerVars
  <1> QED
    BY <1>2, <1>3, RequestAdvances, WebhookAdvances, ReconcilerAdvances DEF Next

----------------------------------------------------------------------------
\* A step that advances keeps FinalityInv.
LEMMA FinalityKeeps ==
  ASSUME IInv, IInv', FinalityInv, Advances
  PROVE  FinalityInv'
  <1>1. OffersAdvance /\ GatewayAdvance
    BY DEF Advances
  <1>2. \A a \in offered : a \in Attempts
    BY DEF IInv, TypeOK, HandlersTypeOK
  <1>o. \A a \in offered' : a \in Attempts
    BY DEF IInv, TypeOK, HandlersTypeOK
  <1>3. \A p \in Handlers : got[p] = "ok" => att[p] \in Attempts /\ OnGateway(att[p])
    BY DEF IInv, HandlerInv, Unattached
  <1>4. OfferedIsNotInFlight'
    <2> SUFFICES ASSUME NEW a \in offered'
                 PROVE  rows'[a] \notin InFlight \cup {NoRow}
      BY DEF OfferedIsNotInFlight, InFlight
    <2>1. CASE a \in offered
      <3>1. rows[a] \notin InFlight \cup {NoRow} /\ a \in Attempts
        BY <2>1, <1>2 DEF FinalityInv, OfferedIsNotInFlight, InFlight
      <3>2. CASE RowsAdvance
        BY <3>1, <3>2 DEF RowsAdvance, Settled, InFlight, NoRow
      <3>3. CASE \E p \in Handlers : Confirms(p)
        BY <3>1, <3>3 DEF Confirms, InFlight, NoRow
      <3> QED BY <3>2, <3>3 DEF Advances
    <2>2. CASE rows'[a] = "INITIALIZED"
      BY <2>2 DEF InFlight, NoRow
    <2> QED BY <1>1, <2>1, <2>2 DEF OffersAdvance
  <1>5. (\A a \in Attempts : gateway[a] = "paid" => a \in offered)'
    BY <1>1 DEF FinalityInv, OffersAdvance, GatewayAdvance
  <1>6. (/\ \A p \in Handlers :
              got[p] = "ok" => att[p] \notin offered /\ rows[att[p]] # "INITIALIZED"
         /\ \A p, q \in Handlers :
              p # q /\ got[p] = "ok" /\ got[q] = "ok" => att[p] # att[q])'
    <2>1. CASE \E p \in Handlers : Hears(p)
      <3>1. PICK p \in Handlers : Hears(p)
        BY <2>1
      <3>2. att[p] \notin offered
        BY <1>2, <3>1 DEF Hears, IInv, TablesInv, CheckoutIsBacked
      <3>3. got'[p] = "ok" => rows[att[p]] # "INITIALIZED"
        <4>1. got'[p] = "ok" => att'[p] \in Attempts
          BY DEF IInv, HandlerInv, Unattached
        <4> QED
          BY <3>1, <4>1 DEF Hears, IInv, TablesInv, CheckoutIsBacked
      <3>4. \A q \in Handlers \ {p} : got'[q] = "ok" => att[q] # att[p]
        BY <1>3, <3>1 DEF Hears
      <3> QED BY <3>1, <3>2, <3>3, <3>4 DEF Hears, FinalityInv
    <2>2. CASE NoNewAnswer
      <3>1. \A p \in Handlers : got'[p] = "ok" => rows'[att'[p]] # "INITIALIZED"
        <4> SUFFICES ASSUME NEW p \in Handlers, got'[p] = "ok"
                     PROVE  rows'[att[p]] # "INITIALIZED"
          BY <2>2 DEF NoNewAnswer
        <4>1. got[p] = "ok" /\ att[p] \in Attempts /\ rows[att[p]] # "INITIALIZED"
          BY <2>2, <1>3 DEF NoNewAnswer, FinalityInv
        <4>2. CASE RowsAdvance
          BY <4>1, <4>2 DEF RowsAdvance, InFlight, Settled
        <4>3. CASE \E q \in Handlers : Confirms(q)
          BY <4>1, <4>3 DEF Confirms, FinalityInv
        <4> QED BY <4>2, <4>3 DEF Advances
      <3>2. \A p \in Handlers : got'[p] = "ok" => att'[p] \notin offered'
        BY <1>1, <2>2, <3>1 DEF NoNewAnswer, OffersAdvance, FinalityInv
      <3>3. \A p, q \in Handlers :
              p # q /\ got'[p] = "ok" /\ got'[q] = "ok" => att'[p] # att'[q]
        BY <2>2 DEF NoNewAnswer, FinalityInv
      <3> QED BY <3>1, <3>2, <3>3
    <2> QED BY <2>1, <2>2 DEF Advances
  <1> QED BY <1>4, <1>5, <1>6 DEF FinalityInv

\* FinalityInv is an invariant, for any number of handlers and attempts and any crashes.
THEOREM FinalityInductive == Spec => []FinalityInv
  <1>1. Init => FinalityInv
    BY DEF Init, GatewayInit, HandlersInit, FinalityInv, OfferedIsNotInFlight, NoAnswer
  <1>2. IInv /\ IInv' /\ FinalityInv /\ [Next]_bridgeVars => FinalityInv'
    BY StepAdvances, FinalityKeeps
  <1> QED BY <1>1, <1>2, Inductive, PTL DEF Spec

\* No claim, reset or forward puts an attempt back among those Chapa may be called for
\* once a client was given its checkout URL.
THEOREM OffersAreFinal == Spec => []OfferedIsNotInFlight
  <1>1. FinalityInv => OfferedIsNotInFlight
    BY DEF FinalityInv
  <1> QED BY <1>1, FinalityInductive, PTL

\* markInitialized, which writes by id over any status, never meets a PAID row, and nothing
\* else takes one back: the customer pays only after the one confirmation was acted on.
THEOREM PaidStaysClosed == Spec => PaidNeverReopens
  <1> DEFINE Reopened == {NoRow, "PENDING_CREATION", "FORWARDING", "RECOVERING", "INITIALIZED"}
  <1>1. IInv /\ FinalityInv /\ [Next]_bridgeVars =>
          \A a \in Attempts : rows[a] = "PAID" => rows'[a] \notin Reopened
    <2> SUFFICES ASSUME IInv, FinalityInv, [Next]_bridgeVars,
                        NEW a \in Attempts, rows[a] = "PAID"
                 PROVE  rows'[a] \notin Reopened
      OBVIOUS
    <2>1. a \in offered
      BY DEF IInv, TablesInv, SuccessIsBacked, FinalityInv
    <2>2. CASE RowsAdvance
      BY <2>2 DEF RowsAdvance, InFlight, Settled, NoRow
    <2>3. CASE \E p \in Handlers : Confirms(p)
      BY <2>1, <2>3 DEF Confirms, FinalityInv, NoRow
    <2> QED BY <2>2, <2>3, StepAdvances DEF Advances
  <1>2. (\A a \in Attempts : rows[a] = "PAID" => rows'[a] \notin Reopened) =>
          [\A a \in Attempts : rows[a] = "PAID" =>
             rows'[a] \notin {NoRow, "PENDING_CREATION", "FORWARDING", "RECOVERING",
                              "INITIALIZED"}]_bridgeVars
    OBVIOUS
  <1> HIDE DEF Reopened
  <1> QED BY <1>1, <1>2, Inductive, FinalityInductive, PTL DEF Spec, PaidNeverReopens


----------------------------------------------------------------------------
(* Events.                                                                             *)

\* Only handler p moves.
OthersStay(p) == \A q \in Handlers \ {p} : pc'[q] = pc[q] /\ att'[q] = att[q]

\* A webhook call that is not over works on the event it worked on.
KeepsEvent(g) ==
  pc'[g] # "idle" => pc[g] # "idle" /\ att'[g] = att[g] /\ about'[g] = about[g]

\* The call h starts with an event that had no row.
TakesEvent(h) ==
  \E e \in WebhookEvents :
    /\ events[e] = NoRow
    /\ <<att'[h], about'[h]>> = e

EventsAdvance ==
  /\ \A e \in WebhookEvents : events[e] # NoRow => events'[e] # NoRow
  /\ \/ \A g \in Hooks : KeepsEvent(g)
     \/ \E h \in Hooks :
          /\ TakesEvent(h) /\ events'[<<att'[h], about'[h]>>] # NoRow
          /\ \A g \in Hooks \ {h} : KeepsEvent(g)

LEMMA MovesAlone ==
  ASSUME IInv, NEW p \in Handlers,
         \/ UNCHANGED localVars
         \/ \E l : Goto(p, l) \/ BackTo(p, l)
         \/ Return(p)
         \/ \E l, a : GotoWith(p, l, a)
         \/ \E l, r : GotoAnswered(p, l, r)
         \/ \E l : pc' = [pc EXCEPT ![p] = l] /\ UNCHANGED att
         \/ \E l, a : pc' = [pc EXCEPT ![p] = l] /\ att' = [att EXCEPT ![p] = a]
         \/ \E a : UNCHANGED pc /\ att' = [att EXCEPT ![p] = a]
  PROVE  OthersStay(p)
  BY DEF OthersStay, localVars, Goto, BackTo, Return, GotoWith, GotoAnswered,
         IInv, TypeOK, HandlersTypeOK

\* A step of runRecoveryAsWinner moves nobody else.
LEMMA RecoveryMovesAlone ==
  ASSUME IInv, NEW p \in Handlers, RunRecoveryAsWinner(p)
  PROVE  OthersStay(p)
  <1>1. CASE \/ VerifyAnswered(p) \/ VerifyThrows(p) \/ ResetForRetry(p) \/ Supersede(p)
             \/ InsertNextAttempt(p) \/ InsertNextFails(p)
    BY <1>1, MovesAlone
    DEF VerifyAnswered, VerifyThrows, ResetForRetry, Supersede, InsertNextAttempt,
        InsertNextFails
  <1>2. CASE InsertNextDuplicate(p)
    BY <1>2, MovesAlone DEF InsertNextDuplicate
  <1>3. CASE \/ Forward(p) \/ SendInitialize(p) \/ CircuitOpen(p) \/ ChapaAnswers(p)
             \/ CallTimesOut(p)
    BY <1>3, MovesAlone DEF Forward, SendInitialize, CircuitOpen, ChapaAnswers, CallTimesOut
  <1>4. CASE CallConfirmed(p) \/ CallFoundDuplicate(p) \/ CallRejected(p) \/ Reread(p)
    BY <1>4, MovesAlone DEF CallConfirmed, CallFoundDuplicate, CallRejected, Reread
  <1> QED BY <1>1, <1>2, <1>3, <1>4 DEF RunRecoveryAsWinner, MakeCall

\* Requests and reconciler runs have nothing to do with events.
LEMMA EventsLeftAlone ==
  ASSUME NEW p \in Requests \cup Sweepers, OthersStay(p), UNCHANGED webhookVars
  PROVE  EventsAdvance
  <1>1. \A g \in Hooks : g \in Handlers \ {p}
    BY DisjointHandlers DEF Handlers
  <1> QED BY <1>1 DEF OthersStay, EventsAdvance, KeepsEvent, webhookVars

LEMMA RequestEvents ==
  ASSUME IInv, NEW p \in Requests, RequestStep(p)
  PROVE  EventsAdvance
  <1> p \in Handlers
    BY DEF Handlers
  <1>1. ASSUME \/ ReadLatest(p) \/ InsertAttempt(p) \/ InsertFails(p) \/ ClaimOrWait(p)
               \/ Poll(p)
        PROVE  OthersStay(p)
    BY <1>1, MovesAlone DEF ReadLatest, InsertAttempt, InsertFails, ClaimOrWait, Poll
  <1>2. ASSUME Crash(p) PROVE OthersStay(p)
    BY <1>2, MovesAlone DEF Crash
  <1> QED
    BY <1>1, <1>2, RecoveryMovesAlone, EventsLeftAlone
    DEF RequestStep, InitializeTransaction, RecoverOrWait

LEMMA ReconcilerEvents ==
  ASSUME IInv, NEW s \in Sweepers, ReconcilerStep(s)
  PROVE  EventsAdvance
  <1> s \in Handlers
    BY DEF Handlers
  <1>1. ASSUME \/ StartRun(s) \/ SelectRows(s) \/ SweepDone(s) \/ ClaimStale(s)
               \/ ReclaimStale(s)
        PROVE  OthersStay(s)
    BY <1>1, MovesAlone
    DEF StartRun, SelectRows, SweepDone, ClaimStale, ReclaimStale, localVars
  <1>2. ASSUME \/ AskChapa(s) \/ SettleInitialized(s) \/ EnqueueFromSweep(s)
               \/ AbortSuperseded(s)
        PROVE  OthersStay(s)
    BY <1>2, MovesAlone DEF AskChapa, SettleInitialized, EnqueueFromSweep, AbortSuperseded
  <1>3. ASSUME CrashRun(s) \/ RecoveryThrows(s) PROVE OthersStay(s)
    BY <1>3, MovesAlone DEF CrashRun, Crash, RecoveryThrows
  <1> QED
    BY <1>1, <1>2, <1>3, RecoveryMovesAlone, EventsLeftAlone
    DEF ReconcilerStep, Run, RecoverRow

\* A webhook call takes a new event or goes on with its own.
LEMMA WebhookCallEvents ==
  ASSUME IInv, NEW h \in Hooks, WebhookStep(h)
  PROVE  EventsAdvance
  <1> h \in Handlers
    BY DEF Handlers
  <1>t. /\ events \in [WebhookEvents -> EventRows]
        /\ about \in [Hooks -> EventStatuses]
        /\ pc \in [Handlers -> RequestLabels \cup SweeperLabels \cup HookLabels]
        /\ att \in [Handlers -> 0 .. MaxAttempts + 1]
    BY DEF IInv, TypeOK, WebhookTypeOK, HandlersTypeOK
  <1>h. \A g \in Hooks : g \in Handlers
    BY DEF Handlers
  <1>g. \A g \in Hooks \ {h} : OthersStay(h) /\ about'[g] = about[g] => KeepsEvent(g)
    BY <1>h DEF OthersStay, KeepsEvent
  <1>1. CASE ReceiveWebhook(h)
    <2>1. PICK e \in WebhookEvents :
            /\ events[e] = NoRow
            /\ events' = [events EXCEPT ![e] = "RECEIVED"]
            /\ about' = [about EXCEPT ![h] = e[2]]
            /\ GotoWith(h, "lookup", e[1])
      BY <1>1 DEF ReceiveWebhook
    <2>2. <<att'[h], about'[h]>> = e
      BY <2>1, <1>t, WebhookEventsAssumption DEF GotoWith
    <2>3. \A g \in Hooks \ {h} : KeepsEvent(g)
      BY <2>1, <1>g, <1>t, MovesAlone
    <2>4. events'[e] # NoRow /\ \A d \in WebhookEvents \ {e} : events'[d] = events[d]
      BY <2>1, <1>t DEF NoRow
    <2>5. TakesEvent(h)
      BY <2>1, <2>2 DEF TakesEvent
    <2>6. \A d \in WebhookEvents : events[d] # NoRow => events'[d] # NoRow
      BY <2>4
    <2>7. events'[<<att'[h], about'[h]>>] # NoRow
      BY <2>2, <2>4
    <2> QED
      BY <2>3, <2>5, <2>6, <2>7 DEF EventsAdvance
  <1>2. ASSUME \/ UNCHANGED events
               \/ \E s \in EventRows \ {NoRow} : events' = [events EXCEPT ![Event(h)] = s],
               \/ UNCHANGED about /\ pc[h] # "idle" /\ UNCHANGED att
               \/ pc'[h] = "idle" /\ about' = [about EXCEPT ![h] = "failed"],
               OthersStay(h)
        PROVE  EventsAdvance
    <2>1. KeepsEvent(h)
      BY <1>2, <1>t DEF KeepsEvent
    <2>2. \A g \in Hooks \ {h} : about'[g] = about[g]
      BY <1>2, <1>t
    <2>3. \A e \in WebhookEvents : events[e] # NoRow => events'[e] # NoRow
      BY <1>2, <1>t
    <2> QED BY <2>1, <2>2, <2>3, <1>g, <1>2 DEF EventsAdvance
  <1>r. ASSUME Return(h) PROVE pc'[h] = "idle" /\ OthersStay(h)
    BY <1>r, <1>t, MovesAlone, DisjointHandlers DEF Return, BackTo
  <1>3. CASE LookupTransaction(h)
    <2>1. CASE Respond(h)
      BY <1>3, <2>1, <1>2, <1>r
      DEF LookupTransaction, Respond, EventRows, NoRow, webhookVars
    <2>2. CASE Goto(h, "check") /\ UNCHANGED webhookVars
      BY <1>3, <2>2, <1>2, MovesAlone DEF LookupTransaction, Goto, webhookVars
    <2> QED BY <1>3, <2>1, <2>2 DEF LookupTransaction
  <1>4. CASE CheckWithChapa(h) \/ SettleFromWebhook(h)
    <2>1. pc[h] # "idle" /\ UNCHANGED <<webhookVars, att>>
      BY <1>4 DEF CheckWithChapa, SettleFromWebhook, GotoAnswered, Goto
    <2>2. OthersStay(h)
      BY <1>4, MovesAlone DEF CheckWithChapa, SettleFromWebhook
    <2> QED BY <2>1, <2>2, <1>2 DEF webhookVars
  <1>5. CASE MarkWebhookProcessed(h)
    <2>1. OthersStay(h)
      BY <1>5, MovesAlone DEF MarkWebhookProcessed
    <2> QED
      BY <1>5, <2>1, <1>2 DEF MarkWebhookProcessed, Goto, EventRows, NoRow
  <1>6. CASE CheckThrows(h) \/ EnqueueFromWebhook(h)
    BY <1>6, <1>2, <1>r DEF CheckThrows, EnqueueFromWebhook, Respond
  <1>7. CASE CrashWebhook(h)
    <2>1. pc'[h] = "idle" /\ OthersStay(h)
      BY <1>7, <1>t, MovesAlone DEF CrashWebhook, Crash, BackTo
    <2> QED BY <1>7, <2>1, <1>2 DEF CrashWebhook
  <1> QED
    BY <1>1, <1>3, <1>4, <1>5, <1>6, <1>7 DEF WebhookStep, ProcessIncomingWebhook

LEMMA StepEvents == IInv /\ [Next]_bridgeVars => EventsAdvance
  <1> SUFFICES ASSUME IInv, [Next]_bridgeVars PROVE EventsAdvance
    OBVIOUS
  <1>1. CASE UNCHANGED <<webhookVars, localVars>>
    BY <1>1 DEF EventsAdvance, KeepsEvent, webhookVars, localVars
  <1>2. CASE UNCHANGED bridgeVars
    BY <1>1, <1>2 DEF bridgeVars, handlerVars
  <1>3. CASE \E a \in Attempts : CustomerPays(a) \/ CallArrivesLate(a)
    BY <1>1, <1>3 DEF CustomerPays, CallArrivesLate, handlerVars
  <1> QED BY <1>2, <1>3, RequestEvents, WebhookCallEvents, ReconcilerEvents DEF Next

\* A step that keeps events, or takes a new one, keeps EventInv.
LEMMA EventsKeep ==
  ASSUME EventInv, EventsAdvance
  PROVE  EventInv'
  <1>k. ASSUME NEW g \in Hooks, KeepsEvent(g), pc'[g] # "idle"
        PROVE  /\ pc[g] # "idle" /\ <<att'[g], about'[g]>> = Event(g)
               /\ Event(g) \in WebhookEvents
               /\ events[Event(g)] # NoRow /\ events'[Event(g)] # NoRow
    BY <1>k DEF KeepsEvent, Event, EventInv, EventsAdvance
  <1>1. (\A h \in Hooks :
           pc[h] # "idle" => Event(h) \in WebhookEvents /\ events[Event(h)] # NoRow)'
    <2> SUFFICES ASSUME NEW h \in Hooks, pc'[h] # "idle"
                 PROVE  /\ <<att'[h], about'[h]>> \in WebhookEvents
                        /\ events'[<<att'[h], about'[h]>>] # NoRow
      BY DEF Event
    <2> QED BY <1>k DEF EventsAdvance, TakesEvent
  <1>2. EventHandledOnce'
    <2> SUFFICES ASSUME NEW g \in Hooks, NEW h \in Hooks, g # h,
                        pc'[g] # "idle", pc'[h] # "idle"
                 PROVE  <<att'[g], about'[g]>> # <<att'[h], about'[h]>>
      BY DEF EventHandledOnce, Event
    <2>1. CASE KeepsEvent(g) /\ KeepsEvent(h)
      BY <2>1, <1>k DEF EventInv, EventHandledOnce
    <2>2. CASE KeepsEvent(g) /\ TakesEvent(h)
      BY <2>2, <1>k DEF TakesEvent
    <2>3. CASE TakesEvent(g) /\ KeepsEvent(h)
      BY <2>3, <1>k DEF TakesEvent
    <2> QED BY <2>1, <2>2, <2>3 DEF EventsAdvance
  <1> QED BY <1>1, <1>2 DEF EventInv

\* One event is never worked on by two webhook calls at a time, however many calls there
\* are and wherever they die: what a call works on has its row, and a call only starts with
\* an event that has none.
THEOREM EventsAreHandledOnce == Spec => []EventHandledOnce
  <1>1. Init => EventInv
    BY DEF Init, HandlersInit, EventInv, EventHandledOnce, Handlers
  <1>2. IInv /\ EventInv /\ [Next]_bridgeVars => EventInv'
    BY StepEvents, EventsKeep
  <1>3. EventInv => EventHandledOnce
    BY DEF EventInv
  <1> QED BY <1>1, <1>2, <1>3, Inductive, PTL DEF Spec

----------------------------------------------------------------------------
(* Payments, while openers do not overlap and FAILED attempts are not paid: OnceInv is *)
(* inductive then.  A step of an opener concerns that opener only, since the others    *)
(* rest (OthersRest); RowsOnce and OffersOnce say what a step may do to the tables     *)
(* when it opens no attempt, Inserted what one does that opens one.                    *)

NoOverlap == OneAtATime /\ FailedIsUnpaid

\* Where an attempt with an open checkout page may be.
Out == {"INITIALIZED", "PAID", "FAILED"}

\* No row comes or goes, and only the latest attempt comes back from being given up.
RowsOnce ==
  \A a \in Attempts :
    \/ rows'[a] = rows[a]
    \/ Exists(a) /\ Exists(a)' /\ (Latest(a) \/ (GivenUp(a) => GivenUp(a)'))

\* Checkout pages are open, and opened, only where the customer may pay.
OffersOnce ==
  \A a \in offered' : (a \in offered /\ rows'[a] = rows[a]) \/ rows'[a] \in Out

\* Such a step keeps what OnceInv says of the tables, and which attempt is the latest.
LEMMA TablesOnce ==
  ASSUME OnceTablesInv, RowsOnce, OffersOnce
  PROVE  /\ OnceTablesInv'
         /\ \A a \in Attempts : (Exists(a)' <=> Exists(a)) /\ (Latest(a) => Latest(a)')
  <1>1. \A a \in Attempts : Exists(a)' <=> Exists(a)
    BY DEF RowsOnce, Exists
  <1>2. \A a \in Attempts : Latest(a) => Latest(a)'
    BY <1>1 DEF Latest
  <1>3. ASSUME NEW a \in Attempts, NEW b \in Attempts, a < b, Exists(b)'
        PROVE  GivenUp(a)'
    <2>1. GivenUp(a) /\ ~Latest(a)
      BY <1>1, <1>3 DEF OnceTablesInv, Latest, Attempts
    <2> QED BY <2>1 DEF RowsOnce, GivenUp
  <1>4. \A a \in offered' : rows'[a] \in Out
    BY DEF OffersOnce, OnceTablesInv, Out
  <1> QED BY <1>1, <1>2, <1>3, <1>4 DEF OnceTablesInv, Out

\* A step that leaves the rows alone, or offers the latest attempt only.
LEMMA QuietTables ==
  ASSUME UNCHANGED rows
  PROVE  /\ RowsOnce
         /\ UNCHANGED offered => OffersOnce
         /\ \A p, a : Offer(p, a) /\ rows[a] = "INITIALIZED" => OffersOnce
  BY DEF RowsOnce, OffersOnce, Offer, Out

\* An UPDATE of the latest attempt, whose checkout page is not open or opens.
LEMMA LatestTouched ==
  ASSUME NEW a \in Attempts, Exists(a), Latest(a), a \notin offered, NEW s \in Statuses,
         \A b \in Attempts : rows'[b] = rows[b] \/ (b = a /\ rows'[b] = s),
         UNCHANGED offered \/ (offered' \subseteq offered \cup {a} /\ rows'[a] \in Out),
         offered \subseteq Attempts
  PROVE  RowsOnce /\ OffersOnce
  <1>1. RowsOnce
    BY DEF RowsOnce, Exists, Statuses, NoRow
  <1>2. OffersOnce
    BY DEF OffersOnce
  <1> QED BY <1>1, <1>2

\* The INSERT of an attempt after all others were given up.
LEMMA Inserted ==
  ASSUME IInv, OnceTablesInv, NEW a \in Attempts, InsertPendingCreation(a), UNCHANGED offered,
         \A b \in Attempts : IF b < a THEN GivenUp(b) ELSE ~Exists(b)
  PROVE  /\ OnceTablesInv' /\ Latest(a)'
         /\ a \notin offered' /\ rows'[a] # "INITIALIZED"
  <1>1. \A b \in Attempts : rows'[b] = IF b = a THEN "PENDING_CREATION" ELSE rows[b]
    BY DEF InsertPendingCreation, IInv, TypeOK, RepoTypeOK
  <1>2. a \notin offered
    BY DEF OnceTablesInv, Exists, Attempts, NoRow
  <1>3. Latest(a)'
    BY <1>1 DEF Latest, Exists, Attempts
  <1>4. ASSUME NEW b \in Attempts, NEW c \in Attempts, b < c, Exists(c)'
        PROVE  GivenUp(b)'
    BY <1>1, <1>4 DEF Exists, GivenUp, Attempts
  <1>5. \A b \in offered' : rows'[b] \in Out
    <2> SUFFICES ASSUME NEW b \in offered' PROVE rows'[b] \in Out
      OBVIOUS
    <2>1. b \in Attempts /\ b # a /\ rows[b] \in Out
      BY <1>2 DEF OnceTablesInv, Out, IInv, TypeOK, HandlersTypeOK
    <2> QED BY <1>1, <2>1
  <1> QED BY <1>1, <1>2, <1>3, <1>4, <1>5 DEF OnceTablesInv, Out

----------------------------------------------------------------------------
\* Labels at which OpenerInv asks nothing.
LEMMA Resting ==
  ASSUME NEW p, pc'[p] \notin Numbering \cup Opening \cup {"claim", "reread"}
  PROVE  OpenerInv(p)'
  BY DEF OpenerInv

\* A step of an opener that is or gets at work leaves the others at rest.
LEMMA OpenerKeeps ==
  ASSUME NEW p \in Openers, OneAtATime, OneAtATime', OthersStay(p),
         pc[p] # "idle" \/ pc'[p] # "idle",
         OnceTablesInv', OpenerInv(p)', p \in Sweepers => SweepInv(p)'
  PROVE  OnceInv'
  <1>1. \A q \in Openers \ {p} : pc'[q] = "idle"
    BY DEF OneAtATime, OthersStay, Openers, Handlers
  <1>2. \A q \in Openers \ {p} : OpenerInv(q)'
    BY <1>1, Resting DEF Numbering, Opening
  <1>3. \A s \in Sweepers \ {p} : SweepInv(s)'
    BY <1>1 DEF SweepInv, Openers
  <1> QED BY <1>2, <1>3 DEF OnceInv

\* The latest attempt is one.
LEMMA LatestIsOne ==
  ASSUME IInv, OnceTablesInv, NEW a \in Attempts, NEW b \in Attempts,
         Exists(a), Latest(a), Exists(b), ~GivenUp(b)
  PROVE  a = b
  BY DEF OnceTablesInv, Latest, Attempts

----------------------------------------------------------------------------
(* The steps of an opener.                                                             *)

\* What a handler that holds an attempt may rely on.
LEMMA Held ==
  ASSUME IInv, OnceInv, NEW p \in Openers, pc[p] \in Opening \cup {"claim", "reread"}
  PROVE  /\ att[p] \in Attempts /\ Exists(att[p]) /\ Latest(att[p])
         /\ pc[p] \in Opening => att[p] \notin offered /\ rows[att[p]] # "INITIALIZED"
  <1>1. p \in Handlers
    BY DEF Openers, Handlers
  <1>2. HandlerInv(p) /\ OpenerInv(p)
    BY <1>1 DEF IInv, OnceInv
  <1> QED BY <1>2 DEF HandlerInv, OpenerInv, Unattached, Opening

\* Handler p keeps its attempt and goes on to another label.
LEMMA HoldsOn ==
  ASSUME IInv, OnceInv, NEW p \in Openers, pc[p] \in Opening, RowsOnce, OffersOnce,
         att'[p] = att[p],
         pc'[p] \in Opening => att[p] \notin offered' /\ rows'[att[p]] # "INITIALIZED",
         pc'[p] \notin Numbering
  PROVE  OnceTablesInv' /\ OpenerInv(p)'
  <1>1. att[p] \in Attempts /\ Latest(att[p])
    BY Held
  <1>2. OnceTablesInv' /\ Latest(att[p])'
    BY <1>1, TablesOnce DEF OnceInv
  <1> QED BY <1>1, <1>2 DEF OpenerInv, Latest

\* A step of runRecoveryAsWinner.
LEMMA RecoveryOnce ==
  ASSUME IInv, OnceInv, NEW p \in Openers, RunRecoveryAsWinner(p)
  PROVE  OnceTablesInv' /\ OpenerInv(p)' /\ pc[p] \in RecoveryLabels
  <1> p \in Handlers
    BY DEF Openers, Handlers
  <1>t. /\ pc \in [Handlers -> RequestLabels \cup SweeperLabels \cup HookLabels]
        /\ att \in [Handlers -> 0 .. MaxAttempts + 1]
        /\ offered \subseteq Attempts /\ OnceTablesInv
        /\ \A q \in Sweepers : q \notin Requests
    BY DisjointHandlers DEF IInv, TypeOK, HandlersTypeOK, OnceInv
  <1>r. ASSUME Return(p) PROVE OpenerInv(p)'
    <2>1. pc'[p] \in {"next", "idle"}
      BY <1>r, <1>t DEF Return, BackTo
    <2> QED BY <2>1, Resting DEF Numbering, Opening
  <1>q. ASSUME UNCHANGED <<rows, offered>> PROVE OnceTablesInv' /\ RowsOnce /\ OffersOnce
    BY <1>q, <1>t, QuietTables, TablesOnce
  <1>1. CASE \/ VerifyThrows(p) \/ InsertNextFails(p) \/ CircuitOpen(p) \/ CallTimesOut(p)
    BY <1>1, <1>q, <1>r
    DEF VerifyThrows, InsertNextFails, CircuitOpen, CallTimesOut, Stay, RecoveryLabels
  <1>2. CASE \/ VerifyAnswered(p) \/ SendInitialize(p) \/ ChapaAnswers(p)
             \/ CallFoundDuplicate(p)
    <2>1. UNCHANGED <<rows, offered>> /\ pc[p] \in Opening
      BY <1>2
      DEF VerifyAnswered, SendInitialize, ChapaAnswers, CallFoundDuplicate, Stay, Opening
    <2>2. att'[p] = att[p] /\ pc'[p] \in Opening
      BY <1>2, <1>t
      DEF VerifyAnswered, SendInitialize, ChapaAnswers, CallFoundDuplicate, Goto,
          GotoAnswered, Opening
    <2> QED BY <2>1, <2>2, <1>q, Held, HoldsOn DEF Opening, Numbering, RecoveryLabels
  <1>3. CASE ResetForRetry(p) \/ Forward(p)
    <2>1. PICK s \in {"PENDING_CREATION", "FORWARDING"} :
            \A b \in Attempts : rows'[b] = rows[b] \/ (b = att[p] /\ rows'[b] = s)
      BY <1>3 DEF ResetForRetry, Forward, ResetToPendingCreationForRetry, MarkForwarding,
                  Update
    <2>2. pc[p] \in Opening /\ UNCHANGED offered
      BY <1>3 DEF ResetForRetry, Forward, Stay, Opening
    <2>3. att'[p] = att[p] /\ pc'[p] \in {"forward", "call"}
      BY <1>3, <1>t DEF ResetForRetry, Forward, Goto
    <2>4. RowsOnce /\ OffersOnce
      BY <2>1, <2>2, <1>t, Held, LatestTouched DEF Statuses
    <2>5. att[p] \notin offered' /\ rows'[att[p]] # "INITIALIZED"
      BY <2>1, <2>2, Held
    <2> QED BY <2>2, <2>3, <2>4, <2>5, HoldsOn DEF Opening, Numbering, RecoveryLabels
  <1>4. CASE Supersede(p)
    <2>0. pc[p] \in Opening \cap RecoveryLabels /\ UNCHANGED offered
      BY <1>4 DEF Supersede, Opening, Stay, RecoveryLabels
    <2>1. \A b \in Attempts :
            rows'[b] = IF b = att[p] THEN "SUPERSEDED_ORPHANED_ON_GATEWAY" ELSE rows[b]
      BY <1>4, <2>0, Held DEF Supersede, MarkSupersededOrphaned, Update, ById
    <2>2. RowsOnce /\ OffersOnce
      BY <2>0, <2>1, <1>t, Held, LatestTouched DEF Statuses
    <2>3. OnceTablesInv'
      BY <2>2, <1>t, TablesOnce
    <2>4. pc'[p] = "insertNext" /\ att'[p] = att[p] + 1
      BY <1>4, <1>t DEF Supersede, GotoWith
    <2>5. ASSUME NEW b \in Attempts
          PROVE  IF b < att[p] + 1 THEN GivenUp(b)' ELSE ~Exists(b)'
      <3>1. CASE b < att[p]
        BY <3>1, <2>0, <2>1, <1>t, Held DEF OnceTablesInv, GivenUp, Attempts
      <3>2. CASE b = att[p]
        BY <3>2, <2>0, <2>1, Held DEF GivenUp, Attempts
      <3>3. CASE b > att[p]
        BY <3>3, <2>0, <2>1, Held DEF Latest, Exists, Attempts
      <3> QED BY <3>1, <3>2, <3>3, <2>0, Held DEF Attempts
    <2> QED BY <2>0, <2>3, <2>4, <2>5 DEF OpenerInv, Opening
  <1>5. CASE InsertNextAttempt(p)
    <2>1. \A b \in Attempts : IF b < att[p] THEN GivenUp(b) ELSE ~Exists(b)
      BY <1>5 DEF InsertNextAttempt, OnceInv, OpenerInv, Numbering
    <2>2. /\ att[p] \in Attempts /\ InsertPendingCreation(att[p])
          /\ UNCHANGED <<offered, att>> /\ pc'[p] = "forward" /\ pc[p] \in RecoveryLabels
      BY <1>5, <1>t DEF InsertNextAttempt, Stay, RecoveryLabels
    <2> QED BY <2>1, <2>2, <1>t, Inserted DEF OpenerInv, Opening, Numbering, Latest
  <1>6. CASE InsertNextDuplicate(p)
    BY <1>6, <1>t DEF InsertNextDuplicate, OnceInv, OpenerInv, Numbering, Attempts
  <1>7. CASE CallConfirmed(p) \/ CallRejected(p)
    <2>0. pc[p] \in Opening \cap RecoveryLabels
      BY <1>7 DEF CallConfirmed, CallRejected, Opening, RecoveryLabels
    <2>1. PICK s \in {"INITIALIZED", "FAILED"} :
            \A b \in Attempts : rows'[b] = IF b = att[p] THEN s ELSE rows[b]
      BY <1>7, <2>0, Held
      DEF CallConfirmed, CallRejected, MarkInitialized, MarkFailed, Update, ById
    <2>2. UNCHANGED offered \/ offered' = offered \cup {att[p]}
      BY <1>7 DEF CallConfirmed, CallRejected, Stay, Offer
    <2>3. RowsOnce /\ OffersOnce
      BY <2>0, <2>1, <2>2, <1>t, Held, LatestTouched DEF Statuses, Out
    <2>4. \/ Return(p)
          \/ pc'[p] = "reread" /\ att'[p] = att[p]
      BY <1>7, <1>t DEF CallConfirmed, CallRejected, GotoAnswered
    <2> QED
      BY <2>0, <2>3, <2>4, <1>r, <1>t, TablesOnce, HoldsOn DEF Opening, Numbering
  <1>8. CASE Reread(p)
    <2>1. RowsOnce /\ OffersOnce
      BY <1>8, QuietTables DEF Reread
    <2> QED BY <1>8, <2>1, <1>r, <1>t, TablesOnce DEF Reread, RecoveryLabels
  <1> QED
    BY <1>1, <1>2, <1>3, <1>4, <1>5, <1>6, <1>7, <1>8 DEF RunRecoveryAsWinner, MakeCall

\* A request that is answered from the latest attempt at once, whoever is at work.
LEMMA AnsweredAtOnce ==
  ASSUME IInv, OnceInv, NEW p \in Requests, NEW a \in Attempts, IsLatestAttempt(a),
         rows[a] = "INITIALIZED", Offer(p, a), UNCHANGED <<rows, localVars, sweepVars>>
  PROVE  OnceInv'
  <1>1. OnceTablesInv'
    BY QuietTables, TablesOnce DEF OnceInv
  <1>2. ASSUME NEW q \in Openers PROVE OpenerInv(q)'
    <2>1. OpenerInv(q)
      BY DEF OnceInv
    <2>2. offered' \subseteq offered \cup {a}
      BY DEF Offer
    <2> QED BY <2>1, <2>2 DEF OpenerInv, localVars, GivenUp, Latest, Exists
  <1>3. ASSUME NEW s \in Sweepers PROVE SweepInv(s)'
    BY <1>3 DEF OnceInv, SweepInv, Latest, Exists, localVars, sweepVars
  <1> QED BY <1>1, <1>2, <1>3 DEF OnceInv

\* A step of a request.
LEMMA RequestOnce ==
  ASSUME IInv, OnceInv, NoOverlap, NoOverlap', NEW p \in Requests, RequestStep(p)
  PROVE  OnceInv'
  <1> p \in Handlers /\ p \in Openers /\ p \notin Sweepers
    BY DisjointHandlers DEF Openers, Handlers
  <1>t. /\ pc \in [Handlers -> RequestLabels \cup SweeperLabels \cup HookLabels]
        /\ att \in [Handlers -> 0 .. MaxAttempts + 1]
        /\ rows \in [Attempts -> Statuses \cup {NoRow}]
        /\ offered \subseteq Attempts /\ OnceTablesInv
    BY DEF IInv, TypeOK, HandlersTypeOK, RepoTypeOK, OnceInv
  <1>q. UNCHANGED <<rows, offered>> => OnceTablesInv'
    BY <1>t, QuietTables, TablesOnce
  <1>s. ASSUME OthersStay(p), pc[p] # "idle" \/ pc'[p] # "idle", OnceTablesInv', OpenerInv(p)'
        PROVE  OnceInv'
    BY <1>s, OpenerKeeps DEF NoOverlap
  <1>r. ASSUME Return(p) \/ BackTo(p, "idle") PROVE OpenerInv(p)' /\ OthersStay(p)
    <2>1. pc'[p] = "idle"
      BY <1>r, <1>t DEF Return, BackTo
    <2> QED BY <2>1, <1>r, Resting, MovesAlone DEF Numbering, Opening
  <1>1. CASE ReadLatest(p)
    <2>1. CASE NoAttempt /\ GotoWith(p, "insert", FirstAttempt) /\ UNCHANGED offered
      <3>1. pc'[p] = "insert" /\ att'[p] = 1 /\ UNCHANGED rows
        BY <1>1, <2>1, <1>t DEF GotoWith, FirstAttempt, ReadLatest
      <3>2. OpenerInv(p)'
        BY <2>1, <3>1 DEF OpenerInv, Numbering, Opening, NoAttempt, Exists, Attempts
      <3> QED BY <2>1, <3>1, <3>2, <1>q, <1>s, MovesAlone
    <2>2. ASSUME NEW a \in Attempts, IsLatestAttempt(a), GotoWith(p, "claim", a),
                 UNCHANGED offered
          PROVE  OnceInv'
      <3>1. pc'[p] = "claim" /\ att'[p] = a /\ UNCHANGED rows
        BY <1>1, <2>2, <1>t DEF GotoWith, ReadLatest
      <3>2. OpenerInv(p)'
        BY <2>2, <3>1
        DEF OpenerInv, Numbering, Opening, IsLatestAttempt, Latest, Exists, Attempts
      <3> QED BY <2>2, <3>1, <3>2, <1>q, <1>s, MovesAlone
    <2>3. ASSUME NEW a \in Attempts, IsLatestAttempt(a), rows[a] \in TerminalRetryable,
                 GotoWith(p, "insert", a + 1), UNCHANGED offered
          PROVE  OnceInv'
      <3>1. pc'[p] = "insert" /\ att'[p] = a + 1 /\ UNCHANGED rows
        BY <1>1, <2>3, <1>t DEF GotoWith, ReadLatest
      <3>2. ASSUME NEW b \in Attempts
            PROVE  IF b < a + 1 THEN GivenUp(b) ELSE ~Exists(b)
        <4>1. CASE b < a
          BY <2>3, <4>1, <1>t DEF IsLatestAttempt, OnceTablesInv, Attempts
        <4>2. CASE b = a
          BY <2>3, <4>2 DEF TerminalRetryable, GivenUp, Attempts
        <4>3. CASE b > a
          BY <2>3, <4>3 DEF IsLatestAttempt, Attempts
        <4> QED BY <4>1, <4>2, <4>3 DEF Attempts
      <3>3. OpenerInv(p)'
        BY <3>1, <3>2 DEF OpenerInv, Numbering, Opening, GivenUp, Exists
      <3> QED BY <2>3, <3>1, <3>3, <1>q, <1>s, MovesAlone
    <2>4. ASSUME NEW a \in Attempts, IsLatestAttempt(a), rows[a] = "INITIALIZED",
                 Offer(p, a), UNCHANGED localVars
          PROVE  OnceInv'
      BY <1>1, <2>4, AnsweredAtOnce DEF ReadLatest, RequestStep
    <2> QED BY <1>1, <2>1, <2>2, <2>3, <2>4 DEF ReadLatest
  <1>2. CASE InsertAttempt(p)
    <2>1. \A b \in Attempts : IF b < att[p] THEN GivenUp(b) ELSE ~Exists(b)
      BY <1>2 DEF InsertAttempt, OnceInv, OpenerInv, Numbering
    <2>2. /\ att[p] \in Attempts /\ InsertPendingCreation(att[p])
          /\ UNCHANGED <<offered, att>> /\ pc'[p] = "forward" /\ OthersStay(p)
      BY <1>2, <1>t, MovesAlone DEF InsertAttempt, Stay, Goto
    <2>3. OnceTablesInv' /\ OpenerInv(p)'
      BY <2>1, <2>2, <1>t, Inserted DEF OpenerInv, Opening, Numbering, Latest
    <2> QED BY <2>2, <2>3, <1>s
  <1>3. CASE ClaimOrWait(p)
    <2>0. /\ att[p] \in Attempts /\ Exists(att[p]) /\ Latest(att[p])
      BY <1>3, Held DEF ClaimOrWait
    <2>1. \A b \in Attempts :
            rows'[b] = IF rows[b] = "FORWARDING" THEN "RECOVERING" ELSE rows[b]
      BY <1>3 DEF ClaimOrWait, ClaimForRecovery, Update, Forwarding, InStatus
    <2>2. RowsOnce
      BY <2>1 DEF RowsOnce, Exists, GivenUp, NoRow
    <2>3. OffersOnce
      BY <1>3, <2>1, <1>t DEF OffersOnce, ClaimOrWait, Stay, OnceTablesInv
    <2>4. OnceTablesInv' /\ \A a \in Attempts : Latest(a) => Latest(a)'
      BY <2>2, <2>3, <1>t, TablesOnce
    <2>5. /\ UNCHANGED <<att, offered>> /\ OthersStay(p) /\ pc[p] # "idle"
          /\ pc'[p] = IF ClaimWon THEN "verify" ELSE "poll"
      BY <1>3, <1>t, MovesAlone DEF ClaimOrWait, Goto, Stay
    <2>6. CASE ClaimWon
      <3>1. rows[att[p]] = "FORWARDING"
        <4>1. PICK b \in Attempts : rows[b] = "FORWARDING"
          BY <2>6 DEF ClaimWon, Forwarding, InStatus
        <4> QED BY <2>0, <4>1, <1>t, LatestIsOne DEF Exists, GivenUp, NoRow
      <3>2. att[p] \notin offered' /\ rows'[att[p]] = "RECOVERING"
        BY <2>0, <2>1, <2>5, <3>1, <1>t DEF OnceTablesInv
      <3>3. OpenerInv(p)'
        BY <2>0, <2>4, <2>5, <2>6, <3>2 DEF OpenerInv, Opening, Numbering, Latest
      <3> QED BY <2>4, <2>5, <3>3, <1>s
    <2>7. CASE ~ClaimWon
      BY <2>4, <2>5, <2>7, <1>s, Resting DEF Numbering, Opening
    <2> QED BY <2>6, <2>7
  <1>4. CASE Poll(p)
    <2>1. UNCHANGED rows /\ OffersOnce
      BY <1>4, QuietTables DEF Poll
    <2>2. OnceTablesInv'
      BY <2>1, <1>t, QuietTables, TablesOnce
    <2> QED BY <1>4, <2>2, <1>r, <1>s DEF Poll
  <1>5. CASE InsertFails(p) \/ Crash(p)
    BY <1>5, <1>q, <1>r, <1>s DEF InsertFails, Stay, Crash
  <1>6. CASE RunRecoveryAsWinner(p)
    BY <1>6, <1>s, RecoveryOnce, RecoveryMovesAlone DEF RecoveryLabels
  <1> QED
    BY <1>1, <1>2, <1>3, <1>4, <1>5, <1>6
    DEF RequestStep, InitializeTransaction, RecoverOrWait

\* A step of a reconciler run.
LEMMA ReconcilerOnce ==
  ASSUME IInv, OnceInv, NoOverlap, NoOverlap', NEW s \in Sweepers, ReconcilerStep(s)
  PROVE  OnceInv'
  <1> s \in Handlers /\ s \in Openers
    BY DEF Openers, Handlers
  <1>t. /\ pc \in [Handlers -> RequestLabels \cup SweeperLabels \cup HookLabels]
        /\ att \in [Handlers -> 0 .. MaxAttempts + 1]
        /\ rows \in [Attempts -> Statuses \cup {NoRow}]
        /\ stage \in [Sweepers -> Stages]
        /\ todo \in [Sweepers -> SUBSET Attempts]
        /\ offered \subseteq Attempts /\ OnceTablesInv /\ SweepInv(s)
        /\ \A a \in todo[s] : Exists(a)
    BY DEF IInv, TypeOK, HandlersTypeOK, RepoTypeOK, ReconcilerTypeOK, TablesInv, OnceInv
  <1>q. UNCHANGED <<rows, offered>> => OnceTablesInv'
    BY <1>t, QuietTables, TablesOnce
  <1>s. ASSUME OthersStay(s), pc[s] # "idle" \/ pc'[s] # "idle", OnceTablesInv',
               OpenerInv(s)', SweepInv(s)'
        PROVE  OnceInv'
    BY <1>s, OpenerKeeps DEF NoOverlap
  <1>a. ASSUME pc'[s] \in {"idle", "select", "next", "mark", "enqueue"}
        PROVE  OpenerInv(s)'
    BY <1>a, Resting DEF Numbering, Opening
  <1>r. ASSUME Return(s) PROVE pc'[s] = "next" /\ OthersStay(s)
    BY <1>r, <1>t, MovesAlone DEF Return, BackTo
  <1>1. CASE StartRun(s)
    <2>1. pc'[s] = "select" /\ OthersStay(s) /\ UNCHANGED <<rows, offered>>
      BY <1>1, <1>t, MovesAlone DEF StartRun, Goto
    <2>2. SweepInv(s)'
      BY <2>1 DEF SweepInv
    <2> QED BY <2>1, <2>2, <1>a, <1>q, <1>s
  <1>2. CASE SelectRows(s)
    <2>1. PICK old \in SUBSET InStage(stage[s]) : todo' = [todo EXCEPT ![s] = old]
      BY <1>2 DEF SelectRows
    <2>2. pc'[s] = "next" /\ OthersStay(s) /\ UNCHANGED <<rows, offered, stage>>
      BY <1>2, <1>t, MovesAlone DEF SelectRows, Goto
    <2>3. ASSUME stage[s] = "FORWARDING", NEW a \in todo'[s] PROVE Latest(a)'
      <3>1. a \in Attempts /\ rows[a] = "FORWARDING"
        BY <2>1, <2>3, <1>t DEF InStage, Forwarding, InStatus
      <3> QED BY <3>1, <2>2, <1>t DEF OnceTablesInv, GivenUp, Latest, Exists, Attempts
    <2>4. SweepInv(s)'
      BY <2>2, <2>3 DEF SweepInv
    <2> QED BY <1>2, <2>2, <2>4, <1>a, <1>q, <1>s DEF SelectRows
  <1>3. CASE SweepDone(s)
    <2>1. /\ pc'[s] \in {"idle", "select"} /\ pc[s] = "next" /\ OthersStay(s)
          /\ UNCHANGED <<rows, offered>>
      BY <1>3, <1>t, MovesAlone DEF SweepDone, Goto
    <2>2. SweepInv(s)'
      BY <2>1 DEF SweepInv
    <2> QED BY <2>1, <2>2, <1>a, <1>q, <1>s
  <1>4. CASE ClaimStale(s)
    <2>1. PICK a \in todo[s] :
            /\ ClaimForRecovery /\ Skip(s, a)
            /\ IF ClaimWon THEN GotoWith(s, "verify", a) ELSE UNCHANGED localVars
      BY <1>4 DEF ClaimStale
    <2>2. a \in Attempts /\ Exists(a) /\ Latest(a) /\ pc[s] = "next" /\ UNCHANGED offered
      BY <1>4, <1>t DEF ClaimStale, SweepInv
    <2>3. todo'[s] = {}
      <3>1. \A b \in todo[s] : b \in Attempts /\ Exists(b) /\ Latest(b)
        BY <1>4, <1>t DEF ClaimStale, SweepInv
      <3>2. \A b \in todo[s] : b = a
        BY <3>1, <2>2 DEF Latest, Attempts
      <3> QED BY <2>1, <3>2, <1>t DEF Skip
    <2>4. \A b \in Attempts :
            rows'[b] = IF rows[b] = "FORWARDING" THEN "RECOVERING" ELSE rows[b]
      BY <2>1 DEF ClaimForRecovery, Update, Forwarding, InStatus
    <2>5. RowsOnce
      BY <2>4 DEF RowsOnce, Exists, GivenUp, NoRow
    <2>6. OffersOnce
      BY <2>2, <2>4, <1>t DEF OffersOnce, OnceTablesInv
    <2>7. OnceTablesInv' /\ Latest(a)'
      BY <2>2, <2>5, <2>6, <1>t, TablesOnce
    <2>8. SweepInv(s)'
      BY <2>3 DEF SweepInv
    <2>9. OthersStay(s)
      BY <2>1, MovesAlone
    <2>10. CASE ClaimWon
      <3>1. rows[a] = "FORWARDING"
        <4>1. PICK b \in Attempts : rows[b] = "FORWARDING"
          BY <2>10 DEF ClaimWon, Forwarding, InStatus
        <4> QED BY <2>2, <4>1, <1>t, LatestIsOne DEF Exists, GivenUp, NoRow
      <3>2. a \notin offered' /\ rows'[a] = "RECOVERING"
        BY <2>2, <2>4, <3>1, <1>t DEF OnceTablesInv
      <3>3. pc'[s] = "verify" /\ att'[s] = a
        BY <2>1, <2>10, <1>t DEF GotoWith
      <3>4. OpenerInv(s)'
        BY <2>7, <3>2, <3>3 DEF OpenerInv, Opening, Numbering, Latest
      <3> QED BY <2>2, <2>7, <2>8, <2>9, <3>4, <1>s
    <2>11. CASE ~ClaimWon
      <3>1. pc'[s] = "next"
        BY <2>1, <2>2, <2>11 DEF localVars
      <3> QED BY <2>2, <2>7, <2>8, <2>9, <3>1, <1>a, <1>s
    <2> QED BY <2>10, <2>11
  <1>5. CASE ReclaimStale(s)
    <2>1. PICK a \in todo[s] :
            /\ Skip(s, a)
            /\ \/ ReclaimStaleRecovering(a) /\ GotoWith(s, "verify", a)
               \/ UNCHANGED <<rows, localVars>>
      BY <1>5 DEF ReclaimStale
    <2>2. /\ pc[s] = "next" /\ stage'[s] = "RECOVERING" /\ UNCHANGED <<rows, offered>>
          /\ OthersStay(s)
      BY <1>5, <2>1, MovesAlone DEF ReclaimStale, Skip, ReclaimStaleRecovering
    <2>3. SweepInv(s)'
      BY <2>2 DEF SweepInv
    <2>4. OpenerInv(s)'
      <3>1. CASE ReclaimStaleRecovering(a) /\ GotoWith(s, "verify", a)
        <4>1. pc'[s] = "verify" /\ att'[s] = a /\ a \in Attempts /\ rows[a] = "RECOVERING"
          BY <2>1, <3>1, <1>t DEF GotoWith, ReclaimStaleRecovering, Recovering, InStatus
        <4>2. Latest(a)
          BY <4>1, <1>t DEF OnceTablesInv, GivenUp, Latest, Attempts
        <4>3. a \notin offered
          BY <4>1, <1>t DEF OnceTablesInv
        <4> QED
          BY <2>2, <4>1, <4>2, <4>3 DEF OpenerInv, Opening, Numbering, Latest, Exists
      <3>2. CASE UNCHANGED <<rows, localVars>>
        BY <2>2, <3>2, <1>a DEF localVars
      <3> QED BY <2>1, <3>1, <3>2
    <2> QED BY <2>2, <2>3, <2>4, <1>q, <1>s
  <1>6. CASE AskChapa(s)
    <2>1. /\ pc[s] = "next" /\ stage'[s] # "FORWARDING" /\ UNCHANGED <<rows, offered>>
          /\ pc'[s] \in {"next", "mark"}
      BY <1>6, <1>t DEF AskChapa, Skip, localVars
    <2>2. SweepInv(s)' /\ OthersStay(s)
      BY <1>6, <2>1, MovesAlone DEF AskChapa, SweepInv
    <2> QED BY <2>1, <2>2, <1>a, <1>q, <1>s
  <1>7. CASE SettleInitialized(s) \/ AbortSuperseded(s)
    <2>1. \A a \in Attempts :
            \/ rows'[a] = rows[a]
            \/ rows[a] = "INITIALIZED" /\ rows'[a] \in {"PAID", "FAILED"}
            \/ /\ rows[a] \in {"SUPERSEDED", "SUPERSEDED_ORPHANED_ON_GATEWAY"}
               /\ rows'[a] = "ABORTED"
      BY <1>7
      DEF SettleInitialized, AbortSuperseded, MarkPaidIfStillInitialized,
          MarkFailedIfStillInitialized, MarkAbortedIfSuperseded, Update, Superseded,
          InStatus
    <2>2. RowsOnce
      BY <2>1 DEF RowsOnce, Exists, GivenUp, NoRow
    <2>3. UNCHANGED offered /\ pc[s] = "mark"
      BY <1>7 DEF SettleInitialized, AbortSuperseded
    <2>4. OffersOnce
      BY <2>1, <2>3, <1>t DEF OffersOnce, OnceTablesInv, Out
    <2>5. OnceTablesInv'
      BY <2>2, <2>4, <1>t, TablesOnce
    <2>6. Return(s) \/ Goto(s, "enqueue")
      BY <1>7 DEF SettleInitialized, AbortSuperseded
    <2>7. pc'[s] \in {"next", "enqueue"} /\ OthersStay(s)
      BY <2>6, <1>r, <1>t, MovesAlone DEF Goto
    <2>8. SweepInv(s)'
      BY <1>7, <2>7
      DEF SettleInitialized, AbortSuperseded, SweepInv, sweepVars
    <2> QED BY <2>3, <2>5, <2>7, <2>8, <1>a, <1>s
  <1>8. CASE EnqueueFromSweep(s)
    <2>1. /\ pc[s] = "enqueue" /\ pc'[s] = "next" /\ OthersStay(s)
          /\ UNCHANGED <<rows, offered, stage, todo>>
      BY <1>8, <1>r DEF EnqueueFromSweep, sweepVars
    <2>2. SweepInv(s)'
      BY <2>1, <1>t DEF SweepInv
    <2> QED BY <2>1, <2>2, <1>a, <1>q, <1>s
  <1>9. CASE CrashRun(s)
    <2>1. /\ pc[s] # "idle" /\ pc'[s] = "idle" /\ OthersStay(s) /\ UNCHANGED <<rows, offered>>
      BY <1>9, <1>t, MovesAlone DEF CrashRun, Crash, BackTo
    <2>2. SweepInv(s)'
      BY <2>1 DEF SweepInv
    <2> QED BY <2>1, <2>2, <1>a, <1>q, <1>s
  <1>10. CASE RecoverRow(s)
    <2>1. OnceTablesInv' /\ OpenerInv(s)' /\ pc[s] \in RecoveryLabels /\ OthersStay(s)
      BY <1>10, RecoveryOnce, RecoveryMovesAlone DEF RecoverRow
    <2>2. UNCHANGED <<stage, todo>>
      BY <1>10 DEF RecoverRow, sweepVars
    <2>3. SweepInv(s)'
      BY <2>1, <2>2, <1>t DEF SweepInv, RecoveryLabels
    <2> QED BY <2>1, <2>3, <1>s DEF RecoveryLabels
  <1>11. CASE RecoveryThrows(s)
    <2>1. /\ pc[s] \in {"reset", "supersede", "insertNext", "forward", "reread"}
          /\ pc'[s] = "next" /\ OthersStay(s) /\ UNCHANGED <<rows, offered, stage, todo>>
      BY <1>11, <1>t, MovesAlone DEF RecoveryThrows, Return, BackTo, sweepVars
    <2>2. SweepInv(s)'
      BY <2>1, <1>t DEF SweepInv
    <2> QED BY <2>1, <2>2, <1>a, <1>q, <1>s
  <1> QED
    BY <1>1, <1>2, <1>3, <1>4, <1>5, <1>6, <1>7, <1>8, <1>9, <1>10, <1>11
    DEF ReconcilerStep, Run

\* A step of a webhook call: what it writes by id over a row given up is FAILED again.
LEMMA WebhookOnce ==
  ASSUME IInv, FinalityInv, OnceInv, NoOverlap, NEW h \in Hooks, WebhookStep(h)
  PROVE  OnceInv'
  <1> h \in Handlers
    BY DEF Handlers
  <1>t. OnceTablesInv /\ rows \in [Attempts -> Statuses \cup {NoRow}]
    BY DEF OnceInv, IInv, TypeOK, RepoTypeOK
  <1>1. \A q \in Openers : q \in Handlers \ {h}
    BY DisjointHandlers DEF Openers, Handlers
  <1>2. UNCHANGED <<offered, sweepVars>>
    BY DEF WebhookStep, ProcessIncomingWebhook, ReceiveWebhook, LookupTransaction,
           CheckWithChapa, CheckThrows, SettleFromWebhook, MarkWebhookProcessed,
           EnqueueFromWebhook, CrashWebhook, Crash
  <1>3. OthersStay(h)
    <2>1. CASE ReceiveWebhook(h) \/ LookupTransaction(h) \/ CheckWithChapa(h)
      BY <2>1, MovesAlone DEF ReceiveWebhook, LookupTransaction, CheckWithChapa, Respond
    <2>2. CASE \/ CheckThrows(h) \/ SettleFromWebhook(h) \/ MarkWebhookProcessed(h)
               \/ EnqueueFromWebhook(h) \/ CrashWebhook(h)
      BY <2>2, MovesAlone
      DEF CheckThrows, SettleFromWebhook, MarkWebhookProcessed, EnqueueFromWebhook,
          CrashWebhook, Crash, Respond
    <2> QED BY <2>1, <2>2 DEF WebhookStep, ProcessIncomingWebhook
  <1>4. \A a \in Attempts :
          \/ rows'[a] = rows[a]
          \/ Exists(a) /\ rows'[a] = "FAILED"
          \/ Exists(a) /\ rows'[a] = "PAID" /\ ~GivenUp(a)
    <2>1. CASE UNCHANGED rows
      BY <2>1
    <2>2. CASE SettleFromWebhook(h)
      <3>1. \A a \in Attempts : rows'[a] = rows[a] \/ (a = att[h] /\ Exists(a))
        BY <2>2 DEF SettleFromWebhook, MarkPaid, MarkFailed, Update, ById
      <3>2. rows'[att[h]] \in {rows[att[h]], "FAILED", "PAID"} \/ att[h] \notin Attempts
        BY <2>2 DEF SettleFromWebhook, MarkPaid, MarkFailed, Update, ById
      <3>3. CASE got[h] = "success"
        <4>1. gateway[att[h]] = "paid" /\ att[h] \in Attempts
          BY <2>2, <3>3 DEF SettleFromWebhook, IInv, HandlerInv, Settling, Unattached
        <4>2. att[h] \in offered
          BY <4>1 DEF FinalityInv
        <4>3. ~GivenUp(att[h])
          BY <4>1, <4>2, <1>t DEF OnceTablesInv, GivenUp, NoOverlap, FailedIsUnpaid
        <4> QED BY <3>1, <3>2, <4>1, <4>3
      <3>4. CASE got[h] # "success"
        BY <2>2, <3>1, <3>4 DEF SettleFromWebhook, MarkFailed, Update, ById
      <3> QED BY <3>3, <3>4
    <2> QED
      BY <2>1, <2>2
      DEF WebhookStep, ProcessIncomingWebhook, ReceiveWebhook, LookupTransaction,
          CheckWithChapa, CheckThrows, MarkWebhookProcessed, EnqueueFromWebhook,
          CrashWebhook, Crash
  <1>5. RowsOnce /\ \A a \in Attempts : GivenUp(a) => GivenUp(a)'
    BY <1>4 DEF RowsOnce, GivenUp, Exists, NoRow
  <1>6. OffersOnce
    BY <1>2, <1>4 DEF OffersOnce, Out, IInv, TypeOK, HandlersTypeOK
  <1>7. /\ OnceTablesInv'
        /\ \A a \in Attempts : (Exists(a)' <=> Exists(a)) /\ (Latest(a) => Latest(a)')
    BY <1>5, <1>6, <1>t, TablesOnce
  <1>8. ASSUME NEW q \in Openers PROVE OpenerInv(q)'
    <2>1. pc'[q] = pc[q] /\ att'[q] = att[q]
      BY <1>1, <1>3 DEF OthersStay
    <2>2. ASSUME pc[q] \in Numbering, NEW b \in Attempts
          PROVE  IF b < att[q] THEN GivenUp(b)' ELSE ~Exists(b)'
      BY <2>2, <1>5, <1>7 DEF OnceInv, OpenerInv
    <2>3. ASSUME pc[q] \in Opening \cup {"claim", "reread"}
          PROVE  /\ att[q] \in Attempts /\ \A b \in Attempts : b > att[q] => ~Exists(b)'
                 /\ pc[q] \in Opening => att[q] \notin offered' /\ rows'[att[q]] # "INITIALIZED"
      BY <2>3, <1>2, <1>4, <1>7, Held DEF Latest
    <2> QED BY <2>1, <2>2, <2>3 DEF OpenerInv, Latest
  <1>9. ASSUME NEW s \in Sweepers PROVE SweepInv(s)'
    <2>1. pc'[s] = pc[s] /\ SweepInv(s) /\ UNCHANGED <<stage, todo>>
      BY <1>1, <1>2, <1>3 DEF OthersStay, Openers, OnceInv, sweepVars
    <2>2. \A a \in todo[s] : a \in Attempts
      BY DEF IInv, TypeOK, ReconcilerTypeOK
    <2> QED BY <2>1, <2>2, <1>7 DEF SweepInv
  <1> QED BY <1>7, <1>8, <1>9 DEF OnceInv

\* Every step of anybody, as long as openers do not overlap.
LEMMA OnceKeeps ==
  IInv /\ FinalityInv /\ OnceInv /\ NoOverlap /\ NoOverlap' /\ [Next]_bridgeVars => OnceInv'
  <1> SUFFICES ASSUME IInv, FinalityInv, OnceInv, NoOverlap, NoOverlap', [Next]_bridgeVars
               PROVE  OnceInv'
    OBVIOUS
  <1>1. CASE UNCHANGED <<rows, localVars, offered, sweepVars>>
    BY <1>1
    DEF OnceInv, OnceTablesInv, OpenerInv, SweepInv, Latest, GivenUp, Exists, localVars,
        sweepVars
  <1>2. CASE UNCHANGED bridgeVars
    BY <1>1, <1>2 DEF bridgeVars, handlerVars
  <1>3. CASE \E a \in Attempts : CustomerPays(a) \/ CallArrivesLate(a)
    BY <1>1, <1>3 DEF CustomerPays, CallArrivesLate, handlerVars
  <1> QED BY <1>2, <1>3, RequestOnce, WebhookOnce, ReconcilerOnce DEF Next

\* Every double charge needs requests or runs that overlap, or a FAILED attempt that is paid
\* after all: without both no order is charged twice, for any number of requests, runs,
\* webhook calls and attempts, for crashes anywhere and calls that arrive late.
THEOREM ChargedOnceWithoutOverlap == Spec => PaidOnceWithoutOverlap
  <1>1. Init => OnceInv
    BY DEF Init, RepoInit, HandlersInit, ReconcilerInit, OnceInv, OnceTablesInv, OpenerInv,
           SweepInv, Exists, NoRow, Numbering, Opening, Openers, Handlers
  <1>2. IInv /\ FinalityInv /\ OnceInv /\ NoOverlap => ChargedAtMostOnce
    <2> SUFFICES ASSUME IInv, FinalityInv, OnceInv, NoOverlap,
                        NEW a \in Attempts, NEW b \in Attempts,
                        gateway[a] = "paid", gateway[b] = "paid", a < b
                 PROVE  FALSE
      BY DEF ChargedAtMostOnce, Attempts
    <2>1. a \in offered /\ Exists(b)
      BY DEF FinalityInv, IInv, TablesInv, OnGateway
    <2>2. rows[a] = "FAILED"
      BY <2>1 DEF OnceInv, OnceTablesInv, GivenUp
    <2> QED BY <2>2 DEF NoOverlap, FailedIsUnpaid
  <1>3. NoOverlap <=> OneAtATime /\ FailedIsUnpaid
    BY DEF NoOverlap
  <1> QED
    BY <1>1, <1>2, <1>3, OnceKeeps, Inductive, FinalityInductive, PTL
    DEF Spec, PaidOnceWithoutOverlap

=============================================================================
