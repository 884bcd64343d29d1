------------------------- MODULE BirtuBridge_refinement -------------------------
(* The payment core implements PaymentLedger, under the mapping of BirtuBridge's   *)
(* instance Ledger.  The initial state maps to the empty ledger, and under the      *)
(* inductive invariant every step of a handler, of Chapa or of the customer is one  *)
(* ledger action or leaves the ledger as it is: an INSERT records, Chapa registers, *)
(* an answer to a client offers, a payment is collected, a producer of the delivery *)
(* queue reports; UPDATEs of the transactions table never show.                     *)
EXTENDS BirtuBridge_proofs

\* One step of the ledger, or none that shows.
LedgerStep == [Ledger!LedgerNext]_(Ledger!ledger)

\* No row is inserted or lost.
SameRecorded == \A a \in Attempts : Exists(a)' <=> Exists(a)

----------------------------------------------------------------------------
(* The six ways a step may show in the ledger.                                      *)

\* Nothing the ledger speaks of changes.
LEMMA Stutters ==
  ASSUME SameRecorded, UNCHANGED <<gateway, offered, deliveries>>
  PROVE  LedgerStep
  BY DEF SameRecorded, LedgerStep, Ledger!ledger, OnGateway

\* An INSERT of the next attempt is Record.
LEMMA Records ==
  ASSUME IInv, NEW a \in Attempts, \A b \in 1 .. a - 1 : Exists(b),
         InsertPendingCreation(a), UNCHANGED <<gateway, offered, deliveries>>
  PROVE  LedgerStep
  <1>1. \A b \in Attempts : Exists(b)' <=> Exists(b) \/ b = a
    BY DEF InsertPendingCreation, IInv, TypeOK, RepoTypeOK, Exists, NoRow
  <1>2. \A b \in 1 .. a - 1 : b \in Attempts
    BY MaxAttemptsAssumption DEF Attempts
  <1>3. Ledger!Record(a)
    BY <1>1, <1>2 DEF Ledger!Record, OnGateway
  <1> QED BY <1>3 DEF LedgerStep, Ledger!LedgerNext, Attempts

\* Chapa storing a ref it is asked for, in time or late, is RegisterAtChapa.
LEMMA Registers ==
  ASSUME IInv, NEW a \in Attempts, Exists(a), Register(a),
         UNCHANGED <<rows, offered, deliveries>>
  PROVE  LedgerStep
  <1>1. /\ \A b \in Attempts : OnGateway(b)' <=> OnGateway(b) \/ b = a
        /\ \A b \in Attempts : gateway'[b] = "paid" <=> gateway[b] = "paid"
    BY DEF Register, IInv, TypeOK, GatewayTypeOK, OnGateway
  <1>2. Ledger!RegisterAtChapa(a)
    BY <1>1 DEF Ledger!RegisterAtChapa, Exists
  <1> QED BY <1>2 DEF LedgerStep, Ledger!LedgerNext, Attempts

\* Answering a client with a checkout URL is OfferCheckout.
LEMMA Offers ==
  ASSUME NEW p, NEW a \in Attempts, OnGateway(a), Offer(p, a), SameRecorded,
         UNCHANGED <<gateway, deliveries>>
  PROVE  LedgerStep
  <1>1. CASE offered' = offered
    BY <1>1, Stutters
  <1>2. CASE offered' = offered \cup {a}
    <2>1. Ledger!OfferCheckout(a)
      BY <1>2 DEF Ledger!OfferCheckout, SameRecorded, OnGateway
    <2> QED BY <2>1 DEF LedgerStep, Ledger!LedgerNext, Attempts
  <1> QED BY <1>1, <1>2 DEF Offer

\* Queueing payment.success is Report; queueing payment.failed does not show.
LEMMA Reports ==
  ASSUME NEW a \in Attempts, NEW answer, EnqueueDelivery(a, EventType(answer)),
         answer = "success" => gateway[a] = "paid",
         UNCHANGED <<rows, gateway, offered>>
  PROVE  LedgerStep
  <1>1. CASE answer = "success"
    <2>1. \A b \in Attempts : <<b, "payment.success">> \in deliveries'
                                <=> <<b, "payment.success">> \in deliveries \/ b = a
      BY <1>1 DEF EnqueueDelivery, EventType
    <2>2. Ledger!Report(a)
      BY <1>1, <2>1 DEF Ledger!Report, Exists, OnGateway
    <2> QED BY <2>2 DEF LedgerStep, Ledger!LedgerNext, Attempts
  <1>2. CASE answer # "success"
    <2>1. \A b \in Attempts : <<b, "payment.success">> \in deliveries'
                                <=> <<b, "payment.success">> \in deliveries
      BY <1>2 DEF EnqueueDelivery, EventType
    <2> QED BY <2>1 DEF LedgerStep, Ledger!ledger, Exists, OnGateway
  <1> QED BY <1>1, <1>2

\* An UPDATE that names existing rows only, as every one of the repository's does.
LEMMA UpdateHides ==
  ASSUME IInv, NEW S, NEW s \in Statuses, Update(S, s), \A a \in S : Exists(a)
  PROVE  SameRecorded
  <1>1. \A a \in Attempts : rows'[a] = IF a \in S THEN s ELSE rows[a]
    BY DEF Update
  <1> QED BY <1>1 DEF SameRecorded, Exists, Statuses, NoRow

\* Every UPDATE of transactionRepo.js that sets a status names existing rows only.
LEMMA UpdatesHide ==
  ASSUME IInv, NEW a,
         \/ MarkForwarding(a) \/ MarkInitialized(a) \/ MarkFailed(a) \/ MarkPaid(a)
         \/ MarkSupersededOrphaned(a) \/ ResetToPendingCreationForRetry(a)
         \/ MarkPaidIfStillInitialized(a) \/ MarkFailedIfStillInitialized(a)
         \/ MarkAbortedIfSuperseded(a) \/ ClaimForRecovery
  PROVE  SameRecorded
  <1> DEFINE Of(st) == {b \in {a} : rows[b] = st}
  <1>1. \A st \in Statuses : \A b \in Of(st) : Exists(b)
    BY DEF Exists, Statuses, NoRow
  <1>2. \A b \in ById(a) \cup Forwarding \cup ({a} \cap Superseded) : Exists(b)
    BY DEF ById, Forwarding, Superseded, InStatus, Exists, NoRow
  <1>3. \/ \E st, s \in Statuses : Update(Of(st), s)
        \/ \E s \in Statuses : Update(ById(a), s)
        \/ \E s \in Statuses : Update(Forwarding, s)
        \/ \E s \in Statuses : Update({a} \cap Superseded, s)
    <2>1. CASE MarkForwarding(a)
      BY <2>1 DEF MarkForwarding, Statuses
    <2>2. CASE MarkInitialized(a) \/ MarkFailed(a) \/ MarkPaid(a) \/ MarkSupersededOrphaned(a)
      BY <2>2 DEF MarkInitialized, MarkFailed, MarkPaid, MarkSupersededOrphaned, Statuses
    <2>3. CASE ResetToPendingCreationForRetry(a)
      BY <2>3 DEF ResetToPendingCreationForRetry, Statuses
    <2>4. CASE MarkPaidIfStillInitialized(a) \/ MarkFailedIfStillInitialized(a)
      BY <2>4 DEF MarkPaidIfStillInitialized, MarkFailedIfStillInitialized, Statuses
    <2>5. CASE MarkAbortedIfSuperseded(a) \/ ClaimForRecovery
      BY <2>5 DEF MarkAbortedIfSuperseded, ClaimForRecovery, Statuses
    <2> QED BY <2>1, <2>2, <2>3, <2>4, <2>5
  <1> HIDE DEF Of
  <1> QED BY <1>1, <1>2, <1>3, UpdateHides

\* A step that leaves the table alone records nothing.
LEMMA NoRowsTouched == UNCHANGED rows => SameRecorded
  BY DEF SameRecorded, Exists

----------------------------------------------------------------------------
(* Every step, by whom it is taken.                                                 *)

\* A step of runRecoveryAsWinner records, registers, offers, or does not show.
LEMMA RecoveryRefines ==
  ASSUME IInv, NEW p \in Handlers, RunRecoveryAsWinner(p), UNCHANGED deliveries
  PROVE  LedgerStep
  <1>h. HandlerInv(p) /\ TablesInv
    BY DEF IInv
  <1>1. CASE InsertNextAttempt(p)
    <2>1. att[p] \in Attempts /\ \A b \in 1 .. att[p] - 1 : Exists(b)
      BY <1>1, <1>h DEF InsertNextAttempt, HandlerInv, Numbering
    <2> QED BY <1>1, <2>1, Records DEF InsertNextAttempt, Stay
  <1>2. CASE ChapaAnswers(p)
    <2>1. att[p] \in Attempts /\ Exists(att[p])
      BY <1>2, <1>h DEF ChapaAnswers, HandlerInv, Unattached
    <2>2. UNCHANGED <<rows, offered, deliveries>>
      BY <1>2 DEF ChapaAnswers
    <2>3. Register(att[p]) \/ UNCHANGED gateway
      BY <1>2 DEF ChapaAnswers, HandleInitialize
    <2> QED BY <2>1, <2>2, <2>3, Registers, Stutters, NoRowsTouched
  <1>3. CASE CallConfirmed(p)
    <2>1. att[p] \in Attempts /\ OnGateway(att[p])
      BY <1>3, <1>h DEF CallConfirmed, HandlerInv, Unattached
    <2>2. SameRecorded /\ UNCHANGED gateway
      BY <1>3, UpdatesHide DEF CallConfirmed, gatewayVars
    <2>3. Offer(p, att[p]) \/ UNCHANGED offered
      BY <1>3 DEF CallConfirmed
    <2> QED BY <2>1, <2>2, <2>3, Offers, Stutters
  <1>4. CASE Reread(p)
    <2>1. att[p] \in Attempts
      BY <1>4, <1>h DEF Reread, HandlerInv, Unattached
    <2>2. SameRecorded /\ UNCHANGED gateway
      BY <1>4, NoRowsTouched DEF Reread, gatewayVars
    <2>3. (OnGateway(att[p]) /\ Offer(p, att[p])) \/ UNCHANGED offered
      BY <1>4, <1>h, <2>1 DEF Reread, TablesInv, CheckoutIsBacked
    <2> QED BY <2>1, <2>2, <2>3, Offers, Stutters
  <1>5. CASE ResetForRetry(p) \/ Supersede(p) \/ Forward(p) \/ CallRejected(p)
    <2>1. SameRecorded
      BY <1>5, UpdatesHide DEF ResetForRetry, Supersede, Forward, CallRejected
    <2> QED
      BY <1>5, <2>1, Stutters DEF ResetForRetry, Supersede, Forward, CallRejected, Stay
  <1>6. CASE \/ VerifyAnswered(p) \/ VerifyThrows(p) \/ InsertNextDuplicate(p)
             \/ InsertNextFails(p) \/ SendInitialize(p) \/ CircuitOpen(p)
             \/ CallTimesOut(p) \/ CallFoundDuplicate(p)
    BY <1>6, Stutters, NoRowsTouched
    DEF VerifyAnswered, VerifyThrows, InsertNextDuplicate, InsertNextFails,
        SendInitialize, CircuitOpen, CallTimesOut, CallFoundDuplicate, Stay
  <1> QED
    BY <1>1, <1>2, <1>3, <1>4, <1>5, <1>6 DEF RunRecoveryAsWinner, MakeCall

\* A crash does not show.
LEMMA CrashRefines ==
  ASSUME NEW p, Crash(p), UNCHANGED deliveries
  PROVE  LedgerStep
  BY Stutters, NoRowsTouched DEF Crash

\* A step of a request records, registers, offers, or does not show.
LEMMA RequestRefines ==
  ASSUME IInv, NEW p \in Requests, RequestStep(p)
  PROVE  LedgerStep
  <1> p \in Handlers /\ UNCHANGED deliveries
    BY DEF Handlers, RequestStep
  <1>h. HandlerInv(p) /\ TablesInv
    BY DEF IInv
  <1>1. CASE ReadLatest(p) \/ Poll(p)
    <2>1. SameRecorded /\ UNCHANGED gateway
      BY <1>1, NoRowsTouched DEF ReadLatest, Poll, gatewayVars
    <2>2. \/ \E a \in Attempts : rows[a] = "INITIALIZED" /\ Offer(p, a)
          \/ UNCHANGED offered
      BY <1>1 DEF ReadLatest, Poll
    <2>3. (\E a \in Attempts : OnGateway(a) /\ Offer(p, a)) \/ UNCHANGED offered
      BY <2>2, <1>h DEF TablesInv, CheckoutIsBacked
    <2> QED BY <2>1, <2>3, Offers, Stutters
  <1>2. CASE InsertAttempt(p)
    <2>1. att[p] \in Attempts /\ \A b \in 1 .. att[p] - 1 : Exists(b)
      BY <1>2, <1>h DEF InsertAttempt, HandlerInv, Numbering
    <2> QED BY <1>2, <2>1, Records DEF InsertAttempt, Stay
  <1>3. CASE InsertFails(p)
    BY <1>3, Stutters, NoRowsTouched DEF InsertFails, Stay
  <1>4. CASE ClaimOrWait(p)
    BY <1>4, UpdatesHide, Stutters DEF ClaimOrWait, Stay
  <1>5. CASE RunRecoveryAsWinner(p)
    BY <1>5, RecoveryRefines
  <1>6. CASE Crash(p)
    BY <1>6, CrashRefines
  <1> QED
    BY <1>1, <1>2, <1>3, <1>4, <1>5, <1>6
    DEF RequestStep, InitializeTransaction, RecoverOrWait

\* A step of a webhook call reports or does not show.
LEMMA WebhookRefines ==
  ASSUME IInv, NEW h \in Hooks, WebhookStep(h)
  PROVE  LedgerStep
  <1>h. HandlerInv(h)
    BY DEF IInv, Handlers
  <1>1. CASE SettleFromWebhook(h)
    <2>1. SameRecorded
      BY <1>1, UpdatesHide DEF SettleFromWebhook
    <2> QED BY <1>1, <2>1, Stutters DEF SettleFromWebhook, gatewayVars
  <1>2. CASE EnqueueFromWebhook(h)
    <2>1. att[h] \in Attempts /\ (got[h] = "success" => gateway[att[h]] = "paid")
      BY <1>2, <1>h DEF EnqueueFromWebhook, HandlerInv, Unattached, Settling
    <2> QED BY <1>2, <2>1, Reports DEF EnqueueFromWebhook, gatewayVars
  <1>3. CASE \/ ReceiveWebhook(h) \/ LookupTransaction(h) \/ CheckWithChapa(h)
             \/ CheckThrows(h) \/ MarkWebhookProcessed(h)
    BY <1>3, Stutters, NoRowsTouched
    DEF ReceiveWebhook, LookupTransaction, CheckWithChapa, CheckThrows,
        MarkWebhookProcessed, gatewayVars
  <1>4. CASE CrashWebhook(h)
    BY <1>4, CrashRefines DEF CrashWebhook
  <1> QED BY <1>1, <1>2, <1>3, <1>4 DEF WebhookStep, ProcessIncomingWebhook

\* A step of a reconciler run is one of a recovery, reports, or does not show.
LEMMA ReconcilerRefines ==
  ASSUME IInv, NEW s \in Sweepers, ReconcilerStep(s)
  PROVE  LedgerStep
  <1>h. s \in Handlers /\ HandlerInv(s)
    BY DEF IInv, Handlers
  <1>1. CASE ClaimStale(s)
    BY <1>1, UpdatesHide, Stutters DEF ClaimStale, gatewayVars
  <1>2. CASE SettleInitialized(s) \/ AbortSuperseded(s)
    <2>1. SameRecorded
      BY <1>2, UpdatesHide DEF SettleInitialized, AbortSuperseded
    <2> QED BY <1>2, <2>1, Stutters DEF SettleInitialized, AbortSuperseded, gatewayVars
  <1>3. CASE EnqueueFromSweep(s)
    <2>1. att[s] \in Attempts /\ (got[s] = "success" => gateway[att[s]] = "paid")
      BY <1>3, <1>h DEF EnqueueFromSweep, HandlerInv, Unattached, Settling
    <2> QED BY <1>3, <2>1, Reports DEF EnqueueFromSweep, gatewayVars
  <1>4. CASE StartRun(s) \/ SelectRows(s) \/ SweepDone(s) \/ ReclaimStale(s) \/ AskChapa(s)
    BY <1>4, Stutters, NoRowsTouched
    DEF StartRun, SelectRows, SweepDone, ReclaimStale, ReclaimStaleRecovering, AskChapa,
        gatewayVars
  <1>5. CASE RecoverRow(s)
    BY <1>5, <1>h, RecoveryRefines DEF RecoverRow
  <1>6. CASE CrashRun(s)
    BY <1>6, CrashRefines DEF CrashRun
  <1>7. CASE RecoveryThrows(s)
    BY <1>7, Stutters, NoRowsTouched DEF RecoveryThrows, gatewayVars
  <1> QED BY <1>1, <1>2, <1>3, <1>4, <1>5, <1>6, <1>7 DEF ReconcilerStep, Run

\* The customer's payment is CollectPayment.
LEMMA CustomerRefines ==
  ASSUME IInv, NEW a \in Attempts, CustomerPays(a)
  PROVE  LedgerStep
  <1>1. /\ \A b \in Attempts : OnGateway(b)' <=> OnGateway(b)
        /\ \A b \in Attempts : gateway'[b] = "paid" <=> gateway[b] = "paid" \/ b = a
    BY DEF CustomerPays, Collect, IInv, TypeOK, GatewayTypeOK, OnGateway
  <1>2. Ledger!CollectPayment(a)
    BY <1>1 DEF CustomerPays, Ledger!CollectPayment, handlerVars, Exists
  <1> QED BY <1>2 DEF LedgerStep, Ledger!LedgerNext, Attempts

\* A late initialize request registers or does not show.
LEMMA LateCallRefines ==
  ASSUME IInv, NEW a \in Attempts, CallArrivesLate(a)
  PROVE  LedgerStep
  BY Registers DEF CallArrivesLate, LateArrival, handlerVars, IInv, TablesInv

----------------------------------------------------------------------------
\* Under the invariant every step is a ledger step or a stutter.
LEMMA StepRefines == IInv /\ [Next]_bridgeVars => LedgerStep
  <1> SUFFICES ASSUME IInv, [Next]_bridgeVars PROVE LedgerStep
    OBVIOUS
  <1>1. CASE UNCHANGED bridgeVars
    BY <1>1, Stutters, NoRowsTouched DEF bridgeVars, gatewayVars, handlerVars
  <1>2. CASE Next
    BY <1>2, RequestRefines, WebhookRefines, ReconcilerRefines, CustomerRefines,
       LateCallRefines
    DEF Next
  <1> QED BY <1>1, <1>2

\* The bridge implements the ledger, for any number of handlers and attempts and any
\* crashes: whatever the interleaving, a payment is recorded before Chapa registers
\* it, registered before a client is sent there, collected before it is reported, and
\* none of these is ever undone.
THEOREM BridgeImplementsLedger == Spec => ImplementsLedger
  <1>1. Init => Ledger!LedgerInit
    BY DEF Init, RepoInit, GatewayInit, HandlersInit, DeliveriesInit,
           Ledger!LedgerInit, Exists, OnGateway
  <1> QED
    BY <1>1, Inductive, StepRefines, PTL
    DEF Spec, ImplementsLedger, Ledger!LedgerSpec, LedgerStep

=============================================================================
