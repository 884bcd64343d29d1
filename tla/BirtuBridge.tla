------------------------------- MODULE BirtuBridge -------------------------------
(* The payment core of the bridge: client requests, webhook calls and reconciler   *)
(* runs working on the attempts of one order, over the transactions table and      *)
(* Chapa.  Any number of handlers of each kind run interleaved at their awaits;    *)
(* any of them may die at one.                                                     *)
EXTENDS TransactionService, WebhookService, Reconciler

bridgeVars == <<rows, gatewayVars, handlerVars, deliveries, webhookVars, sweepVars>>

Init ==
  /\ RepoInit
  /\ GatewayInit
  /\ HandlersInit
  /\ DeliveriesInit
  /\ WebhookInit
  /\ ReconcilerInit

RequestStep(p) ==
  /\ InitializeTransaction(p) \/ Crash(p)
  /\ UNCHANGED <<deliveries, webhookVars, sweepVars>>

WebhookStep(h) == ProcessIncomingWebhook(h) /\ UNCHANGED sweepVars

ReconcilerStep(s) == Run(s) /\ UNCHANGED webhookVars

\* The customer can only pay where a client application sent them.
CustomerPays(a) ==
  /\ a \in offered
  /\ Collect(a)
  /\ UNCHANGED <<rows, handlerVars, deliveries, webhookVars, sweepVars>>

CallArrivesLate(a) ==
  /\ LateArrival(a)
  /\ UNCHANGED <<rows, handlerVars, deliveries, webhookVars, sweepVars>>

Next ==
  \/ \E p \in Requests : RequestStep(p)
  \/ \E h \in Hooks : WebhookStep(h)
  \/ \E s \in Sweepers : ReconcilerStep(s)
  \/ \E a \in Attempts : CustomerPays(a)
  \/ \E a \in Attempts : CallArrivesLate(a)

Spec == Init /\ [][Next]_bridgeVars

----------------------------------------------------------------------------
TypeOK ==
  /\ RepoTypeOK
  /\ GatewayTypeOK
  /\ HandlersTypeOK
  /\ DeliveriesTypeOK
  /\ WebhookTypeOK
  /\ ReconcilerTypeOK

\* A handler is waiting for Chapa's answer about attempt a.
Calling(a) == \E p \in Handlers : pc[p] = "await" /\ att[p] = a

\* Write-ahead intent (README, Overview): whatever dies or is delayed, Chapa never
\* holds, is never being asked for and is never still to receive a tx_ref that has no
\* row.  insertPendingCreation and insertNextAttemptWithRetry come before the call.
WriteAhead ==
  \A a \in Attempts : OnGateway(a) \/ a \in late \/ Calling(a) => Exists(a)

\* A webhook about one of the bridge's own payments always finds its row, at
\* whatever moment it comes: processIncomingWebhook never takes the DISCARDED branch
\* for it, which would answer 200 and lose the payment's event for good.
NoEventDiscarded == \A e \in DOMAIN events : events[e] # "DISCARDED"

\* A row is PAID, and the application is told payment.success, only for money Chapa
\* collected, although the verify answers and reconciler lists that lead there are
\* stale by the time they are acted on.
SuccessIsBacked ==
  /\ \A a \in Attempts : rows[a] = "PAID" => gateway[a] = "paid"
  /\ \A d \in deliveries : d[2] = "payment.success" => gateway[d[1]] = "paid"

\* An INITIALIZED row and every checkout URL a client was given name a ref that Chapa
\* really registered, in spite of markInitialized writing by id over any status.
CheckoutIsBacked ==
  \A a \in Attempts : rows[a] = "INITIALIZED" \/ a \in offered => OnGateway(a)

\* Attempts are numbered without gaps although three handlers number them from
\* values they read earlier, retrying on duplicates: the latest attempt is the one
\* with as many rows, and generateChapaTxRef never skips or reuses a ref.
NoGapInAttempts ==
  \A a \in Attempts : Exists(a) => \A b \in 1 .. a : Exists(b)

\* The bridge implements the ledger: each step of a handler, of Chapa or of the
\* customer does one ledger step or none that shows.
Ledger == INSTANCE PaymentLedger WITH
  recorded   <- {a \in Attempts : Exists(a)},
  registered <- {a \in Attempts : OnGateway(a)},
  collected  <- {a \in Attempts : gateway[a] = "paid"},
  reported   <- {a \in Attempts : <<a, "payment.success">> \in deliveries}

\* Money moves in the ledger's order whatever the interleaving: recorded before
\* registered, registered before offered, collected before reported.
ImplementsLedger == Ledger!LedgerSpec

\* One recorded event is worked on by at most one webhook call: redelivered events,
\* arriving together or after a crash, do not settle a payment twice.
EventHandledOnce ==
  \A g, h \in Hooks :
    g # h /\ pc[g] # "idle" /\ pc[h] # "idle" => Event(g) # Event(h)

\* markInitialized overwrites any status, but a paid attempt never comes back to
\* life: a PAID row can not become payable again, be forwarded again or vanish.
PaidNeverReopens ==
  [][\A a \in Attempts : rows[a] = "PAID" =>
       rows'[a] \notin {NoRow, "PENDING_CREATION", "FORWARDING", "RECOVERING",
                        "INITIALIZED"}]_bridgeVars

\* An attempt whose checkout URL is out is never again in the hands of a handler that
\* may call Chapa for it: no claim, reset or forward of a request or of the reconciler
\* that read it earlier puts it back among the attempts still to be made.
OfferedIsNotInFlight ==
  \A a \in offered :
    rows[a] \notin {NoRow, "PENDING_CREATION", "FORWARDING", "RECOVERING"}

\* Attempt a is in a state that another statement was meant to take it out of: markForwarding,
\* enqueueDelivery, or the INSERT of its successor.
Unfinished(a) ==
  \/ rows[a] = "PENDING_CREATION"
  \/ rows[a] = "PAID" /\ <<a, "payment.success">> \notin deliveries
  \/ /\ rows[a] = "SUPERSEDED_ORPHANED_ON_GATEWAY"
     /\ a + 1 \in Attempts /\ ~Exists(a + 1)

\* Handler p is about to make that statement, or to come to it.
InHand(p, a) ==
  \/ rows[a] = "PENDING_CREATION" /\ pc[p] = "forward" /\ att[p] = a
  \/ rows[a] = "PAID" /\ pc[p] \in {"finish", "enqueue"} /\ att[p] = a /\ got[p] = "success"
  \/ rows[a] = "SUPERSEDED_ORPHANED_ON_GATEWAY" /\ pc[p] = "insertNext" /\ att[p] = a + 1

Orphaned(a) == Unfinished(a) /\ \A p \in Handlers : ~InHand(p, a)

\* Handler p ends what it was doing: it dies, or the statement it awaited throws.
BreaksOff(p) == Crash(p) \/ (p \in Sweepers /\ RecoveryThrows(p))

\* Statements that belong together (insertPendingCreation or the reset and markForwarding,
\* markPaid and enqueueDelivery, markSupersededOrphaned and the INSERT of the successor) are
\* torn apart by the death of the handler between them, or by the second statement throwing,
\* and by nothing else: whatever other handlers write over the row meanwhile, no attempt is
\* left halfway with nobody to go on.
LostOnlyByFailure ==
  [][\A a \in Attempts : ~Orphaned(a) /\ Orphaned(a)' =>
       \E p \in Handlers : InHand(p, a) /\ BreaksOff(p)]_bridgeVars

\* "Duplicate charges | Deterministic, constraint-backed idempotency" (README, Key
\* Guarantees): the customer is charged at most once for the order.
ChargedAtMostOnce ==
  \A a, b \in Attempts : gateway[a] = "paid" /\ gateway[b] = "paid" => a = b

\* The handlers that open attempts and checkout pages, and what is meant to keep them apart:
\* clients wait for an answer before they ask again, rows are not taken for stale while the
\* request that made them is still being handled, runs of the reconciler lock themselves ...
Openers == Requests \cup Sweepers
OneAtATime == \A p, q \in Openers : pc[p] # "idle" /\ pc[q] # "idle" => p = q

\* ... and an attempt that a verify answer other than success made FAILED is not paid after
\* all, although its checkout page may still be open at the customer's.
FailedIsUnpaid == \A a \in Attempts : rows[a] = "FAILED" => gateway[a] # "paid"

\* As long as that is so nobody is charged twice, whatever times out, arrives late or dies,
\* and whenever webhooks come: a successor is numbered only after an attempt whose checkout
\* URL was never handed out, or that failed.
PaidOnceWithoutOverlap == [](OneAtATime /\ FailedIsUnpaid) => []ChargedAtMostOnce

----------------------------------------------------------------------------
(* The inductive invariants behind the safety properties: what a handler may rely on *)
(* at each label, and what the tables and Chapa may rely on at every moment.          *)

\* Labels at which a handler has no attempt yet, or one that has no row yet.
Unattached == {"idle", "insert", "insertNext", "select", "next"}
Numbering  == {"insert", "insertNext"}
Settling   == {"mark", "finish", "enqueue"}

HandlerInv(p) ==
  /\ pc[p] \notin Unattached => att[p] \in Attempts /\ Exists(att[p])
  /\ pc[p] \in Numbering =>
       att[p] \in 1 .. MaxAttempts + 1 /\ \A b \in 1 .. att[p] - 1 : Exists(b)
  /\ got[p] = "ok" => pc[p] = "await" /\ OnGateway(att[p])
  /\ pc[p] \in Settling /\ got[p] = "success" => gateway[att[p]] = "paid"

TablesInv ==
  /\ \A a \in Attempts : OnGateway(a) \/ a \in late => Exists(a)
  /\ \A s \in Sweepers : \A a \in todo[s] : Exists(a)
  /\ NoGapInAttempts
  /\ CheckoutIsBacked
  /\ SuccessIsBacked
  /\ NoEventDiscarded

IInv == TypeOK /\ (\A p \in Handlers : HandlerInv(p)) /\ TablesInv

\* What makes a paid attempt final enough: customers pay where they were sent, and nobody
\* is sent to a checkout page while the answer that confirms it is still to be acted on,
\* since Chapa confirms a ref once.
FinalityInv ==
  /\ OfferedIsNotInFlight
  /\ \A a \in Attempts : gateway[a] = "paid" => a \in offered
  /\ \A p \in Handlers :
       got[p] = "ok" => att[p] \notin offered /\ rows[att[p]] # "INITIALIZED"
  /\ \A p, q \in Handlers :
       p # q /\ got[p] = "ok" /\ got[q] = "ok" => att[p] # att[q]

\* A webhook call works on an event that has its row.
EventInv ==
  /\ EventHandledOnce
  /\ \A h \in Hooks :
       pc[h] # "idle" => Event(h) \in WebhookEvents /\ events[Event(h)] # NoRow

\* While openers do not overlap, only the latest attempt is being worked on, all before it
\* are given up, and no checkout page leads to an attempt a call may still be made for.
GivenUp(a) ==
  rows[a] \in {"FAILED", "SUPERSEDED", "SUPERSEDED_ORPHANED_ON_GATEWAY", "ABORTED"}
Latest(a) == \A b \in Attempts : b > a => ~Exists(b)

\* Labels at which an opener holds an attempt that may not be out yet.
Opening == {"verify", "reset", "supersede", "forward", "call", "await"}

OpenerInv(p) ==
  /\ pc[p] \in Numbering =>
       \A b \in Attempts : IF b < att[p] THEN GivenUp(b) ELSE ~Exists(b)
  /\ pc[p] \in Opening \cup {"claim", "reread"} => Latest(att[p])
  /\ pc[p] \in Opening => att[p] \notin offered /\ rows[att[p]] # "INITIALIZED"

\* A run that has FORWARDING rows to go through finds the latest attempt there.
SweepInv(s) ==
  stage[s] = "FORWARDING" =>
    /\ pc[s] = "next" => \A a \in todo[s] : Latest(a)
    /\ pc[s] \notin {"idle", "select", "next"} => todo[s] = {}

OnceTablesInv ==
  /\ \A a, b \in Attempts : a < b /\ Exists(b) => GivenUp(a)
  /\ \A a \in offered : rows[a] \in {"INITIALIZED", "PAID", "FAILED"}

OnceInv ==
  /\ OnceTablesInv
  /\ \A p \in Openers : OpenerInv(p)
  /\ \A s \in Sweepers : SweepInv(s)

----------------------------------------------------------------------------
(* Liveness.  Cron keeps starting reconciler runs and a handler that is not killed  *)
(* makes its next step.                                                             *)

Fairness ==
  /\ \A p \in Requests : WF_bridgeVars(pc[p] # "idle" /\ RequestStep(p))
  /\ \A h \in Hooks : WF_bridgeVars(pc[h] # "idle" /\ WebhookStep(h))
  /\ \A s \in Sweepers : WF_bridgeVars(ReconcilerStep(s))

FairSpec == Spec /\ Fairness

\* A step on which something goes wrong: Chapa does not answer or the breaker is open
\* (the handler leaves the call with the row as it was), a run dies before its end, a
\* client asks again, or a row that waits is not old enough yet or can not be verified.
Interrupted(p) ==
  /\ pc[p] \in {"verify", "reset", "supersede", "call", "await", "check"}
  /\ pc'[p] \in {"idle", "next"}
  /\ UNCHANGED rows

RunDies(s) ==
  /\ pc[s] # "idle" /\ pc'[s] = "idle"
  /\ ~(pc[s] = "next" /\ stage[s] = "SUPERSEDED" /\ todo[s] = {})

PassesOver(s, a) ==
  /\ pc[s] = "next" /\ pc'[s] = "next"
  /\ a \in todo[s] /\ a \notin todo'[s]
  /\ \/ stage[s] = "RECOVERING" /\ a \in Recovering
     \/ stage[s] = "INITIALIZED" /\ gateway[a] = "paid"

Disturbance ==
  \/ \E p \in Handlers : Interrupted(p)
  \/ \E p \in Requests : pc[p] = "idle" /\ pc'[p] # "idle"
  \/ \E s \in Sweepers :
       \/ RunDies(s)
       \/ pc[s] = "select" /\ todo'[s] # InStage(stage[s]) /\ pc'[s] = "next"
       \/ \E a \in Attempts : PassesOver(s, a)

\* From some point on nothing goes wrong any more.
CalmsDown == <>[][~Disturbance]_bridgeVars

\* "Atomic state claim + verify-first gate resolves the transaction on the next retry
\* or sweep" (README, Key Guarantees): an attempt whose handler died or gave up in or
\* around the initialize call does not stay there once things calm down.
StuckCallsAreResolved ==
  CalmsDown => \A a \in Attempts :
    rows[a] \in {"FORWARDING", "RECOVERING"} ~>
      rows[a] \notin {"PENDING_CREATION", "FORWARDING", "RECOVERING"}

\* "Lost webhook: Reconciler polls INITIALIZED transactions": with no webhook at all,
\* a collected payment does not stay INITIALIZED.
LostWebhookIsNoticed ==
  CalmsDown => \A a \in Attempts :
    rows[a] = "INITIALIZED" /\ gateway[a] = "paid" ~> rows[a] # "INITIALIZED"

\* The application of every paid attempt is told in the end, whoever noticed the payment,
\* and also when another handler settles or supersedes the row meanwhile: what the bridge
\* has learned gets lost by a death between markPaid and enqueueDelivery, and in no other
\* way.
PaidIsReported ==
  MayCrash \cap (Handlers \X {"finish", "enqueue"}) = {} =>
    \A a \in Attempts : rows[a] = "PAID" ~> <<a, "payment.success">> \in deliveries

----------------------------------------------------------------------------
(* What the README says of the bridge and the code does not keep. *)

\* State diagram: PAID --> [*].
PaidIsFinal ==
  [][\A a \in Attempts : rows[a] = "PAID" => rows'[a] = "PAID"]_bridgeVars

=============================================================================
