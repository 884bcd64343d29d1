--------------------------- MODULE BirtuBridge_proofs ---------------------------
(* The inductive invariant of the payment core and the safety properties it gives,  *)
(* for any number of requests, reconciler runs, webhook calls and attempts and for  *)
(* crashes at any set of awaits.                                                    *)
(*                                                                                  *)
(* Every step is brought to one shape: it moves one handler to a label with an      *)
(* attempt and an answer (Moves) and has effects on the tables and on Chapa that    *)
(* only ever strengthen what the others rely on (Effects).  HandlerStepKeeps says   *)
(* that such a step keeps IInv when the handler that moved still has its own part;  *)
(* the lemmas after it bring the actions of each service to that shape.             *)
EXTENDS BirtuBridge, TLAPS

\* The labels a handler of p's kind may have.
LabelsOf(p) ==
  IF p \in Requests THEN RequestLabels
  ELSE IF p \in Sweepers THEN SweeperLabels ELSE HookLabels

\* What a handler may carry as the answer of Chapa.
Answers == InitializeReplies \cup VerifyReplies \cup {NoAnswer}

\* A step of handler p leaves what every other handler carries alone.
Others(p) ==
  \A q \in Handlers \ {p} : pc'[q] = pc[q] /\ att'[q] = att[q] /\ got'[q] = got[q]

\* A step takes handler p, well typed, to label l with attempt a and answer g.
Moves(p, l, a, g) ==
  /\ HandlersTypeOK'
  /\ pc'[p] = l /\ att'[p] = a /\ got'[p] = g
  /\ Others(p)

\* The five local values of a handler, set one by one, move it and no other.
LEMMA LocalsMove ==
  ASSUME HandlersTypeOK, offered' \subseteq Attempts,
         NEW p \in Handlers, NEW l \in LabelsOf(p), NEW a \in 0 .. MaxAttempts + 1,
         NEW k \in Kinds, NEW g \in Answers, NEW t \in 0 .. 2,
         pc' = [pc EXCEPT ![p] = l],
         att' = [att EXCEPT ![p] = a],
         kind' = [kind EXCEPT ![p] = k],
         got' = [got EXCEPT ![p] = g],
         tries' = [tries EXCEPT ![p] = t]
  PROVE  Moves(p, l, a, g)
  <1>1. pc' \in [Handlers -> RequestLabels \cup SweeperLabels \cup HookLabels]
    BY DEF LabelsOf, HandlersTypeOK
  <1>2. /\ \A q \in Requests : pc'[q] \in RequestLabels
        /\ \A q \in Sweepers : pc'[q] \in SweeperLabels
        /\ \A q \in Hooks : pc'[q] \in HookLabels
    BY DisjointHandlers DEF LabelsOf, HandlersTypeOK, Handlers
  <1>3. /\ att' \in [Handlers -> 0 .. MaxAttempts + 1]
        /\ kind' \in [Handlers -> Kinds]
        /\ got' \in [Handlers -> Answers]
        /\ tries' \in [Handlers -> 0 .. 2]
    BY DEF HandlersTypeOK, Answers
  <1>4. HandlersTypeOK'
    BY <1>1, <1>2, <1>3 DEF HandlersTypeOK, Answers
  <1> QED
    BY <1>4 DEF Moves, Others, HandlersTypeOK

\* Goto moves a handler that keeps what it carries.
LEMMA GotoMoves ==
  ASSUME HandlersTypeOK, offered' \subseteq Attempts,
         NEW p \in Handlers, NEW l \in LabelsOf(p), Goto(p, l)
  PROVE  Moves(p, l, att[p], got[p])
  <1>1. /\ att' = [att EXCEPT ![p] = att[p]]
        /\ kind' = [kind EXCEPT ![p] = kind[p]]
        /\ got' = [got EXCEPT ![p] = got[p]]
        /\ tries' = [tries EXCEPT ![p] = tries[p]]
    BY DEF Goto, HandlersTypeOK
  <1>2. att[p] \in 0 .. MaxAttempts + 1 /\ kind[p] \in Kinds /\ got[p] \in Answers
        /\ tries[p] \in 0 .. 2
    BY DEF HandlersTypeOK, Answers
  <1> QED BY <1>1, <1>2, LocalsMove DEF Goto

\* GotoWith moves a handler to another attempt.
LEMMA GotoWithMoves ==
  ASSUME HandlersTypeOK, offered' \subseteq Attempts,
         NEW p \in Handlers, NEW l \in LabelsOf(p), NEW a \in 0 .. MaxAttempts + 1,
         GotoWith(p, l, a)
  PROVE  Moves(p, l, a, got[p])
  <1>1. /\ kind' = [kind EXCEPT ![p] = kind[p]]
        /\ got' = [got EXCEPT ![p] = got[p]]
        /\ tries' = [tries EXCEPT ![p] = tries[p]]
    BY DEF GotoWith, HandlersTypeOK
  <1>2. kind[p] \in Kinds /\ got[p] \in Answers /\ tries[p] \in 0 .. 2
    BY DEF HandlersTypeOK, Answers
  <1> QED BY <1>1, <1>2, LocalsMove DEF GotoWith

\* GotoAnswered moves a handler that carries a new answer, or none.
LEMMA GotoAnsweredMoves ==
  ASSUME HandlersTypeOK, offered' \subseteq Attempts,
         NEW p \in Handlers, NEW l \in LabelsOf(p), NEW g \in Answers,
         GotoAnswered(p, l, g)
  PROVE  Moves(p, l, att[p], g)
  <1>1. /\ att' = [att EXCEPT ![p] = att[p]]
        /\ kind' = [kind EXCEPT ![p] = kind[p]]
        /\ tries' = [tries EXCEPT ![p] = tries[p]]
    BY DEF GotoAnswered, HandlersTypeOK
  <1>2. att[p] \in 0 .. MaxAttempts + 1 /\ kind[p] \in Kinds /\ tries[p] \in 0 .. 2
    BY DEF HandlersTypeOK
  <1> QED BY <1>1, <1>2, LocalsMove DEF GotoAnswered

\* BackTo leaves a handler with nothing.
LEMMA BackToMoves ==
  ASSUME HandlersTypeOK, offered' \subseteq Attempts,
         NEW p \in Handlers, NEW l \in LabelsOf(p), BackTo(p, l)
  PROVE  Moves(p, l, 0, NoAnswer)
  <1>1. /\ 0 \in 0 .. MaxAttempts + 1 /\ "first" \in Kinds /\ NoAnswer \in Answers
        /\ 0 \in 0 .. 2
    BY MaxAttemptsAssumption DEF Kinds, Answers
  <1> QED BY <1>1, LocalsMove DEF BackTo

\* Wherever a handler goes when its work is over, it has no attempt there.
LEMMA ReturnMoves ==
  ASSUME HandlersTypeOK, offered' \subseteq Attempts, NEW p \in Handlers, Return(p)
  PROVE  \E l \in {"idle", "next"} : Moves(p, l, 0, NoAnswer)
  <1>1. (IF p \in Sweepers THEN "next" ELSE "idle") \in LabelsOf(p) \cap {"idle", "next"}
    BY DisjointHandlers DEF LabelsOf, RequestLabels, SweeperLabels, HookLabels
  <1> QED BY <1>1, BackToMoves DEF Return

----------------------------------------------------------------------------
(* What a step does to the tables and to Chapa, as far as the invariant cares.      *)

\* Rows are kept, inserted in order, and written INITIALIZED or PAID for cause.
RowsEffect ==
  /\ RepoTypeOK'
  /\ \A a \in Attempts :
       /\ Exists(a) => Exists(a)'
       /\ Exists(a)' => Exists(a) \/ \A b \in 1 .. a - 1 : Exists(b)
       /\ rows'[a] = "INITIALIZED" => rows[a] = "INITIALIZED" \/ OnGateway(a)
       /\ rows'[a] = "PAID" => rows[a] = "PAID" \/ gateway[a] = "paid"

\* Chapa forgets nothing, and registers or is sent only refs that have a row.
GatewayEffect ==
  /\ GatewayTypeOK'
  /\ \A a \in Attempts :
       /\ OnGateway(a) => OnGateway(a)'
       /\ gateway[a] = "paid" => gateway'[a] = "paid"
       /\ OnGateway(a)' \/ a \in late' => Exists(a)

\* Only checkout URLs Chapa registered are given out.
OfferEffect == \A a \in offered' : a \in Attempts /\ (a \in offered \/ OnGateway(a))

\* Successes are queued for cause, sweeps hold existing rows, no event is discarded.
RestEffect ==
  /\ DeliveriesTypeOK' /\ WebhookTypeOK' /\ ReconcilerTypeOK'
  /\ \A s \in Sweepers : \A a \in todo'[s] : Exists(a)
  /\ \A d \in deliveries' :
       d[2] = "payment.success" => d \in deliveries \/ gateway[d[1]] = "paid"
  /\ \A e \in DOMAIN events' : events'[e] # "DISCARDED"

\* All of it.
Effects == RowsEffect /\ GatewayEffect /\ OfferEffect /\ RestEffect

\* What is left unchanged has its effect, trivially.
LEMMA NothingChanges ==
  ASSUME IInv
  PROVE  /\ UNCHANGED rows => RowsEffect
         /\ UNCHANGED gatewayVars => GatewayEffect
         /\ UNCHANGED offered => OfferEffect /\ offered' \subseteq Attempts
         /\ UNCHANGED <<deliveries, webhookVars, sweepVars>> => RestEffect
  <1>1. UNCHANGED rows => RowsEffect
    BY DEF IInv, TypeOK, RepoTypeOK, RowsEffect, Exists
  <1>2. UNCHANGED gatewayVars => GatewayEffect
    BY DEF IInv, TypeOK, TablesInv, GatewayTypeOK, GatewayEffect, gatewayVars, OnGateway
  <1>3. UNCHANGED offered => OfferEffect /\ offered' \subseteq Attempts
    BY DEF IInv, TypeOK, HandlersTypeOK, OfferEffect
  <1>4. ASSUME UNCHANGED <<deliveries, webhookVars, sweepVars>> PROVE RestEffect
    <2>1. DeliveriesTypeOK' /\ WebhookTypeOK' /\ ReconcilerTypeOK'
      BY <1>4 DEF IInv, TypeOK, DeliveriesTypeOK, WebhookTypeOK, ReconcilerTypeOK,
                  webhookVars, sweepVars
    <2> QED
      BY <1>4, <2>1 DEF IInv, TablesInv, NoEventDiscarded, RestEffect,
                        webhookVars, sweepVars
  <1> QED BY <1>1, <1>2, <1>3, <1>4

\* An UPDATE of existing rows inserts and loses none, and is safe when INITIALIZED and
\* PAID are written only where Chapa agrees.
LEMMA UpdateEffect ==
  ASSUME IInv, NEW S, NEW s \in Statuses, Update(S, s),
         \A a \in S \cap Attempts :
           /\ Exists(a)
           /\ s = "INITIALIZED" => OnGateway(a)
           /\ s = "PAID" => gateway[a] = "paid"
  PROVE  /\ RowsEffect
         /\ \A a \in Attempts : Exists(a)' <=> Exists(a)
  <1>1. rows \in [Attempts -> Statuses \cup {NoRow}]
    BY DEF IInv, TypeOK, RepoTypeOK
  <1>2. RepoTypeOK' /\ \A a \in Attempts : rows'[a] = IF a \in S THEN s ELSE rows[a]
    BY <1>1 DEF Update, RepoTypeOK
  <1>3. \A a \in Attempts : Exists(a)' <=> Exists(a)
    BY <1>1, <1>2 DEF Exists, Statuses, NoRow
  <1> QED BY <1>2, <1>3 DEF RowsEffect

\* An INSERT of the attempt after the last is safe, and the row is there.
LEMMA InsertEffect ==
  ASSUME IInv, NEW a \in Attempts, \A b \in 1 .. a - 1 : Exists(b),
         InsertPendingCreation(a)
  PROVE  RowsEffect /\ Exists(a)'
  <1>1. rows \in [Attempts -> Statuses \cup {NoRow}]
    BY DEF IInv, TypeOK, RepoTypeOK
  <1>2. /\ RepoTypeOK'
        /\ \A b \in Attempts : rows'[b] = IF b = a THEN "PENDING_CREATION" ELSE rows[b]
    BY <1>1 DEF InsertPendingCreation, RepoTypeOK, Statuses
  <1>3. Exists(a)' /\ \A b \in Attempts : Exists(b)' <=> Exists(b) \/ b = a
    BY <1>1, <1>2 DEF Exists, NoRow
  <1> QED BY <1>2, <1>3 DEF RowsEffect

\* Chapa registers a ref that has a row.
LEMMA RegisterEffect ==
  ASSUME IInv, NEW a \in Attempts, Exists(a), Register(a), late' \subseteq late
  PROVE  GatewayEffect /\ OnGateway(a)'
  <1>1. /\ gateway' \in [Attempts -> {"absent", "unpaid", "paid"}]
        /\ \A b \in Attempts : OnGateway(b)' <=> OnGateway(b) \/ b = a
        /\ \A b \in Attempts : gateway'[b] = "paid" <=> gateway[b] = "paid"
    BY DEF Register, IInv, TypeOK, GatewayTypeOK, OnGateway
  <1>2. GatewayTypeOK'
    BY <1>1 DEF IInv, TypeOK, GatewayTypeOK
  <1> QED BY <1>1, <1>2 DEF GatewayEffect, IInv, TablesInv

\* A request about a ref that has a row is left on the wire.
LEMMA AbandonEffect ==
  ASSUME IInv, NEW a \in Attempts, Exists(a), NEW answered, Abandon(a, answered),
         UNCHANGED gateway
  PROVE  GatewayEffect
  BY DEF Abandon, GatewayEffect, IInv, TypeOK, TablesInv, GatewayTypeOK, OnGateway

\* A notification of success is queued only on a verified payment.
LEMMA EnqueueEffect ==
  ASSUME IInv, NEW a \in Attempts, NEW answer, EnqueueDelivery(a, EventType(answer)),
         answer = "success" => gateway[a] = "paid",
         UNCHANGED <<events, sweepVars>>, WebhookTypeOK'
  PROVE  RestEffect
  <1>1. EventType(answer) \in EventTypes
        /\ (EventType(answer) = "payment.success" => gateway[a] = "paid")
    BY DEF EventType, EventTypes
  <1>2. DeliveriesTypeOK'
    BY <1>1 DEF EnqueueDelivery, IInv, TypeOK, DeliveriesTypeOK
  <1>3. \A d \in deliveries' :
          d[2] = "payment.success" => d \in deliveries \/ gateway[d[1]] = "paid"
    BY <1>1 DEF EnqueueDelivery
  <1>4. ReconcilerTypeOK' /\ \A s \in Sweepers : \A b \in todo'[s] : Exists(b)
    BY DEF IInv, TypeOK, TablesInv, ReconcilerTypeOK, sweepVars
  <1> QED BY <1>2, <1>3, <1>4 DEF RestEffect, IInv, TablesInv, NoEventDiscarded

----------------------------------------------------------------------------
(* From the effects of a step and the place it takes its handler to, the invariant.  *)

\* A handler that ends up without an attempt has nothing to keep.
LEMMA Detached ==
  ASSUME NEW p, NEW l \in {"idle", "select", "next"}, NEW a, NEW g, Moves(p, l, a, g),
         g # "ok"
  PROVE  HandlerInv(p)'
  BY DEF Moves, HandlerInv, Unattached, Numbering, Settling

\* A handler that has an attempt has its row, and what it believes of Chapa is so.
LEMMA Attached ==
  ASSUME NEW p, NEW l, NEW a \in Attempts, NEW g, Moves(p, l, a, g),
         l \notin Unattached, Exists(a)',
         g = "ok" => l = "await" /\ OnGateway(a)',
         l \in Settling /\ g = "success" => gateway'[a] = "paid"
  PROVE  HandlerInv(p)'
  BY DEF Moves, HandlerInv, Unattached, Numbering, Exists, OnGateway

\* A handler about to insert an attempt has seen every earlier one.
LEMMA Numbers ==
  ASSUME NEW p, NEW l \in Numbering, NEW a \in 1 .. MaxAttempts + 1, NEW g,
         Moves(p, l, a, g), g # "ok", \A b \in 1 .. a - 1 : Exists(b)'
  PROVE  HandlerInv(p)'
  BY DEF Moves, HandlerInv, Unattached, Numbering, Settling, Exists

\* What a waiting handler relies on survives the effects of any other handler's step:
\* rows and refs stay, and a collected payment stays collected.
LEMMA OtherHandlersKeep ==
  ASSUME IInv, Effects, NEW q \in Handlers,
         pc'[q] = pc[q], att'[q] = att[q], got'[q] = got[q]
  PROVE  HandlerInv(q)'
  <1>1. att[q] \in 0 .. MaxAttempts + 1
    BY DEF IInv, TypeOK, HandlersTypeOK
  <1>2. \A b \in 1 .. att[q] - 1 : b \in Attempts
    BY <1>1, MaxAttemptsAssumption DEF Attempts
  <1>3. HandlerInv(q)
    BY DEF IInv
  <1>4. \A a \in Attempts : /\ Exists(a) => Exists(a)'
                            /\ OnGateway(a) => OnGateway(a)'
                            /\ gateway[a] = "paid" => gateway'[a] = "paid"
    BY DEF Effects, RowsEffect, GatewayEffect
  <1>5. (pc[q] \notin Unattached => att[q] \in Attempts /\ Exists(att[q]))'
    BY <1>3, <1>4 DEF HandlerInv, Exists
  <1>6. (pc[q] \in Numbering =>
          att[q] \in 1 .. MaxAttempts + 1 /\ \A b \in 1 .. att[q] - 1 : Exists(b))'
    BY <1>2, <1>3, <1>4 DEF HandlerInv, Exists
  <1>7. (got[q] = "ok" => pc[q] = "await" /\ OnGateway(att[q]))'
    BY <1>3, <1>4 DEF HandlerInv, OnGateway, Unattached
  <1>8. (pc[q] \in Settling /\ got[q] = "success" => gateway[att[q]] = "paid")'
    BY <1>3, <1>4 DEF HandlerInv, Unattached, Settling
  <1> QED BY <1>5, <1>6, <1>7, <1>8 DEF HandlerInv

\* The effects keep what the tables and Chapa rely on.
LEMMA TablesKeep ==
  ASSUME IInv, Effects
  PROVE  TablesInv'
  <1> USE DEF Effects
  <1>1. (\A a \in Attempts : OnGateway(a) \/ a \in late => Exists(a))'
    BY DEF RowsEffect, GatewayEffect
  <1>2. (\A s \in Sweepers : \A a \in todo[s] : Exists(a))'
    BY DEF RowsEffect, RestEffect, IInv, TypeOK, ReconcilerTypeOK
  <1>3. NoGapInAttempts'
    <2> SUFFICES ASSUME NEW a \in Attempts, Exists(a)', NEW b \in 1 .. a
                 PROVE  Exists(b)'
      BY DEF NoGapInAttempts
    <2>1. CASE b = a
      BY <2>1
    <2>2. CASE b # a
      <3>1. b \in 1 .. a - 1 /\ b \in Attempts
        BY <2>2, MaxAttemptsAssumption DEF Attempts
      <3>2. Exists(b)
        BY <3>1 DEF RowsEffect, IInv, TablesInv, NoGapInAttempts
      <3> QED BY <3>1, <3>2 DEF RowsEffect
    <2> QED BY <2>1, <2>2
  <1>4. CheckoutIsBacked'
    BY DEF RowsEffect, GatewayEffect, OfferEffect, IInv, TablesInv, CheckoutIsBacked
  <1>5. SuccessIsBacked'
    <2>1. (\A a \in Attempts : rows[a] = "PAID" => gateway[a] = "paid")'
      BY DEF RowsEffect, GatewayEffect, IInv, TablesInv, SuccessIsBacked
    <2>2. (\A d \in deliveries : d[2] = "payment.success" => gateway[d[1]] = "paid")'
      BY DEF RestEffect, GatewayEffect, IInv, TablesInv, SuccessIsBacked, DeliveriesTypeOK
    <2> QED BY <2>1, <2>2 DEF SuccessIsBacked
  <1>6. NoEventDiscarded'
    BY DEF RestEffect, NoEventDiscarded
  <1> QED BY <1>1, <1>2, <1>3, <1>4, <1>5, <1>6 DEF TablesInv

\* The shape every step of a handler is brought to.
LEMMA HandlerStepKeeps ==
  ASSUME IInv, NEW p \in Handlers, Effects, NEW l, NEW a, NEW g, Moves(p, l, a, g),
         HandlerInv(p)'
  PROVE  IInv'
  <1>1. \A q \in Handlers : HandlerInv(q)'
    BY OtherHandlersKeep DEF Moves, Others
  <1>2. TypeOK'
    BY DEF Effects, RowsEffect, GatewayEffect, RestEffect, Moves, TypeOK
  <1> QED BY <1>1, <1>2, TablesKeep DEF IInv

\* The step is the end of a handler's work on its attempt.
LEMMA ReturnKeeps ==
  ASSUME IInv, NEW p \in Handlers, Effects, offered' \subseteq Attempts, Return(p)
  PROVE  IInv'
  <1>1. PICK l \in {"idle", "next"} : Moves(p, l, 0, NoAnswer)
    BY ReturnMoves DEF IInv, TypeOK
  <1>2. HandlerInv(p)'
    BY <1>1, Detached DEF NoAnswer
  <1> QED BY <1>1, <1>2, HandlerStepKeeps

\* The step leaves every handler where it is.
LEMMA QuietStepKeeps ==
  ASSUME IInv, Effects, offered' \subseteq Attempts, UNCHANGED localVars
  PROVE  IInv'
  <1>1. HandlersTypeOK' /\ UNCHANGED <<pc, att, got>>
    BY DEF IInv, TypeOK, HandlersTypeOK, localVars
  <1>2. TypeOK'
    BY <1>1 DEF Effects, RowsEffect, GatewayEffect, RestEffect, TypeOK
  <1>3. \A q \in Handlers : HandlerInv(q)'
    BY <1>1, OtherHandlersKeep
  <1> QED BY <1>2, <1>3, TablesKeep DEF IInv

\* A killed handler may leave its initialize request on the wire.
LEMMA CrashKeeps ==
  ASSUME IInv, NEW p \in Handlers, Crash(p), RestEffect
  PROVE  IInv'
  <1>1. HandlersTypeOK /\ HandlerInv(p)
    BY DEF IInv, TypeOK
  <1>2. RowsEffect /\ OfferEffect /\ offered' \subseteq Attempts
    BY NothingChanges DEF Crash
  <1>3. GatewayEffect
    <2>1. CASE pc[p] = "await"
      <3>1. att[p] \in Attempts /\ Exists(att[p])
        BY <1>1, <2>1 DEF HandlerInv, Unattached
      <3> QED BY <2>1, <3>1, AbandonEffect DEF Crash
    <2>2. CASE pc[p] # "await"
      BY <2>2, NothingChanges DEF Crash, gatewayVars
    <2> QED BY <2>1, <2>2
  <1>4. Moves(p, "idle", 0, NoAnswer)
    <2>1. "idle" \in LabelsOf(p)
      BY DEF LabelsOf, RequestLabels, SweeperLabels, HookLabels
    <2> QED BY <1>1, <1>2, <2>1, BackToMoves DEF Crash
  <1>5. HandlerInv(p)'
    BY <1>4, Detached DEF NoAnswer
  <1> QED BY <1>2, <1>3, <1>4, <1>5, HandlerStepKeeps DEF Effects

----------------------------------------------------------------------------
(* recoveryService.js, entered by requests and by the reconciler.                    *)

\* Every step of runRecoveryAsWinner keeps the invariant, in a request or in a sweep.
LEMMA RecoveryKeeps ==
  ASSUME IInv, NEW p \in Requests \cup Sweepers, RunRecoveryAsWinner(p),
         UNCHANGED <<deliveries, webhookVars, sweepVars>>
  PROVE  IInv'
  <1> p \in Handlers
    BY DEF Handlers
  <1>h. HandlersTypeOK /\ HandlerInv(p) /\ att[p] \in 0 .. MaxAttempts + 1
        /\ got[p] \in Answers /\ tries[p] \in 0 .. 2 /\ kind[p] \in Kinds
    BY DEF IInv, TypeOK, HandlersTypeOK, Answers
  <1>a. PICK a \in 0 .. MaxAttempts + 1 : a = att[p]
    BY <1>h
  <1>l. RecoveryLabels \subseteq LabelsOf(p)
    BY DisjointHandlers DEF LabelsOf, RequestLabels, SweeperLabels
  <1>r. RestEffect
    BY NothingChanges
  <1>w. pc[p] \in RecoveryLabels \ {"insertNext"} => a \in Attempts /\ Exists(a)
    BY <1>h, <1>a DEF HandlerInv, RecoveryLabels, Unattached
  <1>g. pc[p] # "await" => got[p] # "ok"
    BY <1>h DEF HandlerInv
  <1>q. ASSUME UNCHANGED rows, Stay PROVE Effects /\ offered' \subseteq Attempts
    BY <1>q, <1>r, NothingChanges DEF Stay, Effects, gatewayVars
  <1>s. ASSUME Stay PROVE GatewayEffect /\ OfferEffect /\ offered' \subseteq Attempts
    BY <1>s, NothingChanges DEF Stay, gatewayVars
  <1>1. CASE VerifyAnswered(p)
    <2>1. PICK l \in {"reset", "supersede"} : Goto(p, l)
      BY <1>1 DEF VerifyAnswered
    <2>2. Effects /\ offered' \subseteq Attempts
      BY <1>1, <1>q DEF VerifyAnswered
    <2>3. Moves(p, l, a, got[p])
      BY <2>1, <2>2, <1>h, <1>a, <1>l, GotoMoves DEF RecoveryLabels
    <2>4. HandlerInv(p)'
      <3>1. a \in Attempts /\ Exists(a) /\ Exists(a)'
        BY <1>1, <1>w, <2>2 DEF VerifyAnswered, RecoveryLabels, Effects, RowsEffect
      <3>2. got[p] # "ok"
        BY <1>1, <1>g DEF VerifyAnswered
      <3> QED BY <2>3, <3>1, <3>2, Attached DEF Unattached, Settling
    <2> QED BY <2>2, <2>3, <2>4, HandlerStepKeeps
  <1>2. CASE UNCHANGED rows /\ Stay /\ Return(p)
    <2>1. Effects /\ offered' \subseteq Attempts
      BY <1>2, <1>q
    <2> QED BY <1>2, <2>1, ReturnKeeps
  <1>3. CASE ResetForRetry(p)
    <2>0. a \in Attempts /\ Exists(a) /\ got[p] # "ok"
      BY <1>3, <1>w, <1>g DEF ResetForRetry, RecoveryLabels
    <2>1. RowsEffect /\ Exists(a)'
      <3> DEFINE S == {b \in {a} : rows[b] = "RECOVERING"}
      <3>1. Update(S, "PENDING_CREATION")
        BY <1>3, <1>a DEF ResetForRetry, ResetToPendingCreationForRetry
      <3>2. \A b \in S : Exists(b)
        BY <2>0
      <3> HIDE DEF S
      <3> QED BY <2>0, <3>1, <3>2, UpdateEffect DEF Statuses
    <2>2. Effects /\ offered' \subseteq Attempts
      BY <1>3, <1>r, <1>s, <2>1 DEF ResetForRetry, Effects
    <2>3. Moves(p, "forward", a, got[p])
      <3>1. /\ pc' = [pc EXCEPT ![p] = "forward"]
            /\ att' = [att EXCEPT ![p] = a]
            /\ kind' = [kind EXCEPT ![p] = "A"]
            /\ got' = [got EXCEPT ![p] = got[p]]
            /\ tries' = [tries EXCEPT ![p] = tries[p]]
        BY <1>3, <1>h, <1>a DEF ResetForRetry, HandlersTypeOK
      <3>2. "forward" \in LabelsOf(p) /\ "A" \in Kinds
        BY <1>l DEF RecoveryLabels, Kinds
      <3> QED BY <3>1, <3>2, <2>2, <1>h, <1>a, LocalsMove
    <2>4. HandlerInv(p)'
      BY <2>0, <2>1, <2>3, Attached DEF Unattached, Settling
    <2> QED BY <2>2, <2>3, <2>4, HandlerStepKeeps
  <1>4. CASE Supersede(p)
    <2>0. a \in Attempts /\ Exists(a) /\ got[p] # "ok"
      BY <1>4, <1>w, <1>g DEF Supersede, RecoveryLabels
    <2>1. RowsEffect /\ Exists(a)'
      BY <1>4, <1>a, <2>0, UpdateEffect DEF Supersede, MarkSupersededOrphaned, ById, Statuses
    <2>2. Effects /\ offered' \subseteq Attempts
      BY <1>4, <1>r, <1>s, <2>1 DEF Supersede, Effects
    <2>3. a + 1 \in 1 .. MaxAttempts + 1 /\ \A b \in 1 .. a : b \in Attempts /\ Exists(b)
      BY <2>0, MaxAttemptsAssumption DEF Attempts, IInv, TablesInv, NoGapInAttempts
    <2>4. Moves(p, "insertNext", a + 1, got[p])
      <3>1. "insertNext" \in LabelsOf(p) /\ a + 1 \in 0 .. MaxAttempts + 1
        BY <1>l, <2>3 DEF RecoveryLabels
      <3> QED BY <3>1, <1>4, <1>h, <1>a, <2>2, GotoWithMoves DEF Supersede
    <2>5. \A b \in 1 .. a + 1 - 1 : Exists(b)'
      BY <2>0, <2>1, <2>3 DEF RowsEffect, Attempts
    <2>6. HandlerInv(p)'
      BY <2>0, <2>3, <2>4, <2>5, Numbers DEF Numbering
    <2> QED BY <2>2, <2>4, <2>6, HandlerStepKeeps
  <1>5. CASE InsertNextAttempt(p)
    <2>1. a \in Attempts /\ got[p] # "ok" /\ \A b \in 1 .. a - 1 : Exists(b)
      BY <1>5, <1>h, <1>a, <1>g DEF InsertNextAttempt, HandlerInv, Numbering
    <2>2. RowsEffect /\ Exists(a)'
      BY <1>5, <1>a, <2>1, InsertEffect DEF InsertNextAttempt
    <2>3. Effects /\ offered' \subseteq Attempts
      BY <1>5, <1>r, <1>s, <2>2 DEF InsertNextAttempt, Effects
    <2>4. Moves(p, "forward", a, got[p])
      <3>1. /\ pc' = [pc EXCEPT ![p] = "forward"]
            /\ att' = [att EXCEPT ![p] = a]
            /\ kind' = [kind EXCEPT ![p] = "B"]
            /\ got' = [got EXCEPT ![p] = got[p]]
            /\ tries' = [tries EXCEPT ![p] = tries[p]]
        BY <1>5, <1>h, <1>a DEF InsertNextAttempt, HandlersTypeOK
      <3>2. "forward" \in LabelsOf(p) /\ "B" \in Kinds
        BY <1>l DEF RecoveryLabels, Kinds
      <3> QED BY <3>1, <3>2, <2>3, <1>h, <1>a, LocalsMove
    <2>5. HandlerInv(p)'
      BY <2>1, <2>2, <2>4, Attached DEF Unattached, Settling
    <2> QED BY <2>3, <2>4, <2>5, HandlerStepKeeps
  <1>6. CASE InsertNextDuplicate(p)
    <2>1. Effects /\ offered' \subseteq Attempts
      BY <1>6, <1>q DEF InsertNextDuplicate
    <2>2. CASE tries[p] = 2 /\ Return(p)
      BY <1>2, <1>6, <2>2 DEF InsertNextDuplicate
    <2>3. CASE /\ tries[p] < 2
               /\ att' = [att EXCEPT ![p] = @ + 1]
               /\ tries' = [tries EXCEPT ![p] = @ + 1]
               /\ UNCHANGED <<pc, kind, got>>
      <3>1. a \in Attempts /\ Exists(a) /\ pc[p] = "insertNext" /\ got[p] # "ok"
        BY <1>6, <1>a, <1>g DEF InsertNextDuplicate
      <3>2. /\ a + 1 \in 1 .. MaxAttempts + 1 /\ tries[p] + 1 \in 0 .. 2
            /\ \A b \in 1 .. a : b \in Attempts /\ Exists(b)
        BY <1>h, <2>3, <3>1, MaxAttemptsAssumption
        DEF Attempts, IInv, TablesInv, NoGapInAttempts
      <3>3. /\ pc' = [pc EXCEPT ![p] = "insertNext"]
            /\ att' = [att EXCEPT ![p] = a + 1]
            /\ kind' = [kind EXCEPT ![p] = kind[p]]
            /\ got' = [got EXCEPT ![p] = got[p]]
            /\ tries' = [tries EXCEPT ![p] = tries[p] + 1]
        BY <2>3, <3>1, <1>a, <1>h DEF HandlersTypeOK
      <3>4. "insertNext" \in LabelsOf(p) /\ a + 1 \in 0 .. MaxAttempts + 1
        BY <1>l, <3>2 DEF RecoveryLabels
      <3>5. Moves(p, "insertNext", a + 1, got[p])
        BY <3>2, <3>3, <3>4, <2>1, <1>h, LocalsMove
      <3>6. \A b \in 1 .. a + 1 - 1 : Exists(b)'
        BY <3>1, <3>2, <2>1 DEF Effects, RowsEffect, Attempts
      <3>7. HandlerInv(p)'
        BY <3>1, <3>2, <3>5, <3>6, Numbers DEF Numbering
      <3> QED BY <2>1, <3>5, <3>7, HandlerStepKeeps
    <2> QED BY <1>6, <2>2, <2>3 DEF InsertNextDuplicate
  <1>7. CASE Forward(p)
    <2>0. a \in Attempts /\ Exists(a) /\ got[p] # "ok"
      BY <1>7, <1>w, <1>g DEF Forward, RecoveryLabels
    <2>1. RowsEffect /\ Exists(a)'
      <3> DEFINE S == {b \in {a} : rows[b] = "PENDING_CREATION"}
      <3>1. Update(S, "FORWARDING")
        BY <1>7, <1>a DEF Forward, MarkForwarding
      <3>2. \A b \in S : Exists(b)
        BY <2>0
      <3> HIDE DEF S
      <3> QED BY <2>0, <3>1, <3>2, UpdateEffect DEF Statuses
    <2>2. Effects /\ offered' \subseteq Attempts
      BY <1>7, <1>r, <1>s, <2>1 DEF Forward, Effects
    <2>3. Moves(p, "call", a, got[p])
      BY <1>7, <2>2, <1>h, <1>a, <1>l, GotoMoves DEF Forward, RecoveryLabels
    <2>4. HandlerInv(p)'
      BY <2>0, <2>1, <2>3, Attached DEF Unattached, Settling
    <2> QED BY <2>2, <2>3, <2>4, HandlerStepKeeps
  <1>8. CASE SendInitialize(p)
    <2>0. a \in Attempts /\ Exists(a) /\ got[p] # "ok"
      BY <1>8, <1>w, <1>g DEF SendInitialize, RecoveryLabels
    <2>1. Effects /\ offered' \subseteq Attempts
      BY <1>8, <1>q DEF SendInitialize
    <2>2. Exists(a)'
      BY <2>0, <2>1 DEF Effects, RowsEffect
    <2>3. Moves(p, "await", a, got[p])
      BY <1>8, <2>1, <1>h, <1>a, <1>l, GotoMoves DEF SendInitialize, RecoveryLabels
    <2>4. HandlerInv(p)'
      BY <2>0, <2>2, <2>3, Attached DEF Unattached, Settling
    <2> QED BY <2>1, <2>3, <2>4, HandlerStepKeeps
  <1>9. CASE ChapaAnswers(p)
    <2>0. a \in Attempts /\ Exists(a)
      BY <1>9, <1>w DEF ChapaAnswers, RecoveryLabels
    <2>1. PICK r \in InitializeReplies :
            HandleInitialize(a, r) /\ GotoAnswered(p, "await", r)
      BY <1>9, <1>a DEF ChapaAnswers
    <2>2. GatewayEffect /\ (r = "ok" => OnGateway(a)')
      BY <1>9, <2>0, <2>1, RegisterEffect, NothingChanges
      DEF ChapaAnswers, HandleInitialize, gatewayVars
    <2>3. Effects /\ offered' \subseteq Attempts
      BY <1>9, <1>r, <2>2, NothingChanges DEF ChapaAnswers, Effects
    <2>4. Exists(a)'
      BY <2>0, <2>3 DEF Effects, RowsEffect
    <2>5. Moves(p, "await", a, r)
      BY <2>1, <2>3, <1>h, <1>a, <1>l, GotoAnsweredMoves DEF RecoveryLabels, Answers
    <2>6. HandlerInv(p)'
      BY <2>0, <2>2, <2>4, <2>5, Attached DEF Unattached, Settling
    <2> QED BY <2>3, <2>5, <2>6, HandlerStepKeeps
  <1>10. CASE CallTimesOut(p)
    <2>0. a \in Attempts /\ Exists(a)
      BY <1>10, <1>w DEF CallTimesOut, RecoveryLabels
    <2>1. GatewayEffect
      BY <1>10, <1>a, <2>0, AbandonEffect DEF CallTimesOut
    <2>2. Effects /\ offered' \subseteq Attempts
      BY <1>10, <1>r, <2>1, NothingChanges DEF CallTimesOut, Effects
    <2> QED BY <1>10, <2>2, ReturnKeeps DEF CallTimesOut
  <1>11. CASE CallConfirmed(p)
    <2>0. a \in Attempts /\ Exists(a) /\ OnGateway(a)
      BY <1>11, <1>w, <1>h, <1>a DEF CallConfirmed, RecoveryLabels, HandlerInv
    <2>1. RowsEffect /\ Exists(a)'
      BY <1>11, <1>a, <2>0, UpdateEffect DEF CallConfirmed, MarkInitialized, ById, Statuses
    <2>2. OfferEffect /\ offered' \subseteq Attempts
      BY <1>11, <1>a, <2>0, NothingChanges
      DEF CallConfirmed, Offer, OfferEffect, IInv, TypeOK, HandlersTypeOK
    <2>3. Effects
      BY <1>11, <1>r, <2>1, <2>2, NothingChanges DEF CallConfirmed, Effects
    <2>4. CASE Return(p)
      BY <2>2, <2>3, <2>4, ReturnKeeps
    <2>5. CASE GotoAnswered(p, "reread", NoAnswer)
      <3>1. Moves(p, "reread", a, NoAnswer)
        BY <2>2, <2>5, <1>h, <1>a, <1>l, GotoAnsweredMoves DEF RecoveryLabels, Answers
      <3>2. HandlerInv(p)'
        BY <2>0, <2>1, <3>1, Attached DEF Unattached, Settling, NoAnswer
      <3> QED BY <2>3, <3>1, <3>2, HandlerStepKeeps
    <2> QED BY <1>11, <2>4, <2>5 DEF CallConfirmed
  <1>12. CASE CallFoundDuplicate(p)
    <2>1. Effects /\ offered' \subseteq Attempts
      BY <1>12, <1>q DEF CallFoundDuplicate
    <2>2. a \in Attempts /\ Exists(a)'
      BY <1>12, <1>w, <2>1 DEF CallFoundDuplicate, RecoveryLabels, Effects, RowsEffect
    <2>3. Moves(p, "supersede", a, NoAnswer)
      BY <1>12, <2>1, <1>h, <1>a, <1>l, GotoAnsweredMoves
      DEF CallFoundDuplicate, RecoveryLabels, Answers
    <2>4. HandlerInv(p)'
      BY <2>2, <2>3, Attached DEF Unattached, Settling, NoAnswer
    <2> QED BY <2>1, <2>3, <2>4, HandlerStepKeeps
  <1>13. CASE CallRejected(p)
    <2>0. a \in Attempts /\ Exists(a)
      BY <1>13, <1>w DEF CallRejected, RecoveryLabels
    <2>1. RowsEffect /\ Exists(a)'
      BY <1>13, <1>a, <2>0, UpdateEffect DEF CallRejected, MarkFailed, ById, Statuses
    <2>2. Effects /\ offered' \subseteq Attempts
      BY <1>13, <1>r, <1>s, <2>1 DEF CallRejected, Effects
    <2>3. CASE Return(p)
      BY <2>2, <2>3, ReturnKeeps
    <2>4. CASE GotoAnswered(p, "reread", NoAnswer)
      <3>1. Moves(p, "reread", a, NoAnswer)
        BY <2>2, <2>4, <1>h, <1>a, <1>l, GotoAnsweredMoves DEF RecoveryLabels, Answers
      <3>2. HandlerInv(p)'
        BY <2>0, <2>1, <3>1, Attached DEF Unattached, Settling, NoAnswer
      <3> QED BY <2>2, <3>1, <3>2, HandlerStepKeeps
    <2> QED BY <1>13, <2>3, <2>4 DEF CallRejected
  <1>14. CASE Reread(p)
    <2>0. a \in Attempts
      BY <1>14, <1>w DEF Reread, RecoveryLabels
    <2>1. OfferEffect /\ offered' \subseteq Attempts
      BY <1>14, <1>a, <2>0, NothingChanges
      DEF Reread, Offer, OfferEffect, IInv, TypeOK, HandlersTypeOK, TablesInv,
          CheckoutIsBacked
    <2>2. Effects
      BY <1>14, <1>r, <2>1, NothingChanges DEF Reread, Effects
    <2> QED BY <1>14, <2>1, <2>2, ReturnKeeps DEF Reread
  <1>15. CASE VerifyThrows(p) \/ InsertNextFails(p) \/ CircuitOpen(p)
    BY <1>2, <1>15 DEF VerifyThrows, InsertNextFails, CircuitOpen
  <1> QED
    BY <1>1, <1>3, <1>4, <1>5, <1>6, <1>7, <1>8, <1>9, <1>10, <1>11, <1>12, <1>13,
       <1>14, <1>15 DEF RunRecoveryAsWinner, MakeCall

----------------------------------------------------------------------------
(* transactionService.js, and the waiting side of recoveryService.js.               *)

\* Every step of a request keeps the invariant.
LEMMA RequestKeeps ==
  ASSUME IInv, NEW p \in Requests, RequestStep(p)
  PROVE  IInv'
  <1> p \in Handlers
    BY DEF Handlers
  <1>h. HandlersTypeOK /\ HandlerInv(p)
    BY DEF IInv, TypeOK
  <1>l. RequestLabels \subseteq LabelsOf(p)
    BY DEF LabelsOf
  <1>r. RestEffect
    BY NothingChanges DEF RequestStep
  <1>a. PICK n \in 0 .. MaxAttempts + 1 : n = att[p]
    BY <1>h DEF HandlersTypeOK
  <1>g. pc[p] # "await" => got[p] # "ok"
    BY <1>h DEF HandlerInv
  <1>1. CASE ReadLatest(p)
    <2>0. RowsEffect /\ GatewayEffect /\ got[p] # "ok"
      BY <1>1, <1>g, NothingChanges DEF ReadLatest, FirstAttempt
    <2>q. ASSUME UNCHANGED offered PROVE Effects /\ offered' \subseteq Attempts
      BY <2>0, <2>q, <1>r, NothingChanges DEF Effects
    <2>1. CASE NoAttempt /\ GotoWith(p, "insert", 1) /\ UNCHANGED offered
      <3>1. "insert" \in LabelsOf(p) /\ 1 \in 0 .. MaxAttempts + 1
            /\ 1 \in 1 .. MaxAttempts + 1
        BY <1>l, MaxAttemptsAssumption DEF RequestLabels
      <3>2. Moves(p, "insert", 1, got[p])
        BY <2>1, <2>q, <3>1, <1>h, GotoWithMoves
      <3>3. HandlerInv(p)'
        <4>1. \A b \in 1 .. 1 - 1 : Exists(b)'
          OBVIOUS
        <4> QED BY <2>0, <3>1, <3>2, <4>1, Numbers DEF Numbering
      <3> QED BY <2>1, <2>q, <3>2, <3>3, HandlerStepKeeps
    <2>2. ASSUME NEW a \in Attempts, rows[a] = "INITIALIZED", Offer(p, a),
                 UNCHANGED localVars
          PROVE  IInv'
      <3>1. OfferEffect /\ offered' \subseteq Attempts
        BY <2>2 DEF Offer, OfferEffect, IInv, TypeOK, HandlersTypeOK, TablesInv,
                    CheckoutIsBacked
      <3> QED BY <2>0, <2>2, <3>1, <1>r, QuietStepKeeps DEF Effects
    <2>3. ASSUME NEW a \in Attempts, IsLatestAttempt(a), GotoWith(p, "claim", a),
                 UNCHANGED offered
          PROVE  IInv'
      <3>1. "claim" \in LabelsOf(p) /\ a \in 0 .. MaxAttempts + 1
        BY <1>l, MaxAttemptsAssumption DEF RequestLabels, Attempts
      <3>2. Moves(p, "claim", a, got[p])
        BY <2>3, <2>q, <3>1, <1>h, GotoWithMoves
      <3>3. Exists(a)'
        BY <2>0, <2>3 DEF IsLatestAttempt, RowsEffect
      <3>4. HandlerInv(p)'
        BY <2>0, <3>2, <3>3, Attached DEF Unattached, Settling
      <3> QED BY <2>3, <2>q, <3>2, <3>4, HandlerStepKeeps
    <2>4. ASSUME NEW a \in Attempts, IsLatestAttempt(a), GotoWith(p, "insert", a + 1),
                 UNCHANGED offered
          PROVE  IInv'
      <3>1. /\ "insert" \in LabelsOf(p) /\ a + 1 \in 0 .. MaxAttempts + 1
            /\ a + 1 \in 1 .. MaxAttempts + 1
        BY <1>l, MaxAttemptsAssumption DEF RequestLabels, Attempts
      <3>m. PICK m \in 1 .. MaxAttempts + 1 : m = a + 1
        BY <3>1
      <3>2. Moves(p, "insert", m, got[p])
        BY <2>4, <2>q, <3>1, <3>m, <1>h, GotoWithMoves
      <3>3. \A b \in 1 .. a : b \in Attempts /\ Exists(b)
        BY <2>4, MaxAttemptsAssumption
        DEF IsLatestAttempt, Attempts, IInv, TablesInv, NoGapInAttempts
      <3>4. \A b \in 1 .. m - 1 : Exists(b)'
        BY <2>0, <3>3, <3>m DEF RowsEffect, Attempts
      <3>5. HandlerInv(p)'
        BY <2>0, <3>2, <3>4, Numbers DEF Numbering
      <3> QED BY <2>4, <2>q, <3>2, <3>5, HandlerStepKeeps
    <2> QED BY <1>1, <2>1, <2>2, <2>3, <2>4 DEF ReadLatest, FirstAttempt
  <1>2. CASE InsertAttempt(p)
    <2>1. n \in Attempts /\ got[p] # "ok" /\ \A b \in 1 .. n - 1 : Exists(b)
      BY <1>2, <1>h, <1>a, <1>g DEF InsertAttempt, HandlerInv, Numbering
    <2>2. RowsEffect /\ Exists(n)'
      BY <1>2, <1>a, <2>1, InsertEffect DEF InsertAttempt
    <2>3. Effects /\ offered' \subseteq Attempts
      BY <1>2, <1>r, <2>2, NothingChanges DEF InsertAttempt, Stay, Effects, gatewayVars
    <2>4. Moves(p, "forward", n, got[p])
      BY <1>2, <2>3, <1>h, <1>a, <1>l, GotoMoves
      DEF InsertAttempt, RequestLabels, RecoveryLabels
    <2>5. HandlerInv(p)'
      BY <2>1, <2>2, <2>4, Attached DEF Unattached, Settling
    <2> QED BY <2>3, <2>4, <2>5, HandlerStepKeeps
  <1>3. CASE InsertFails(p)
    BY <1>3, <1>r, NothingChanges, ReturnKeeps
    DEF InsertFails, Stay, Effects, gatewayVars
  <1>4. CASE ClaimOrWait(p)
    <2>1. n \in Attempts /\ Exists(n) /\ got[p] # "ok"
      BY <1>4, <1>a, <1>h, <1>g DEF ClaimOrWait, HandlerInv, Unattached
    <2>2. RowsEffect
      BY <1>4, UpdateEffect
      DEF ClaimOrWait, ClaimForRecovery, Forwarding, InStatus, Exists, Statuses, NoRow
    <2>3. Effects /\ offered' \subseteq Attempts /\ Exists(n)'
      BY <1>4, <1>r, <2>1, <2>2, NothingChanges
      DEF ClaimOrWait, Stay, Effects, gatewayVars, RowsEffect
    <2>4. PICK l \in {"verify", "poll"} : Goto(p, l)
      BY <1>4 DEF ClaimOrWait
    <2>5. Moves(p, l, n, got[p])
      BY <2>3, <2>4, <1>h, <1>a, <1>l, GotoMoves DEF RequestLabels, RecoveryLabels
    <2>6. HandlerInv(p)'
      BY <2>1, <2>3, <2>5, Attached DEF Unattached, Settling
    <2> QED BY <2>3, <2>5, <2>6, HandlerStepKeeps
  <1>5. CASE Poll(p)
    <2>1. OfferEffect /\ offered' \subseteq Attempts
      BY <1>5 DEF Poll, Offer, OfferEffect, IInv, TypeOK, HandlersTypeOK, TablesInv,
                  CheckoutIsBacked
    <2>2. Effects
      BY <1>5, <1>r, <2>1, NothingChanges DEF Poll, Effects
    <2> QED BY <1>5, <2>1, <2>2, ReturnKeeps DEF Poll
  <1>6. CASE RunRecoveryAsWinner(p)
    BY <1>6, RecoveryKeeps DEF RequestStep
  <1>7. CASE Crash(p)
    BY <1>7, <1>r, CrashKeeps
  <1> QED
    BY <1>1, <1>2, <1>3, <1>4, <1>5, <1>6, <1>7
    DEF RequestStep, InitializeTransaction, RecoverOrWait

----------------------------------------------------------------------------
(* webhookService.js                                                                *)

\* Every step of a webhook call keeps the invariant.
LEMMA WebhookKeeps ==
  ASSUME IInv, NEW h \in Hooks, WebhookStep(h)
  PROVE  IInv'
  <1> h \in Handlers
    BY DEF Handlers
  <1>h. /\ HandlersTypeOK /\ HandlerInv(h) /\ WebhookTypeOK /\ DeliveriesTypeOK
        /\ ReconcilerTypeOK /\ TablesInv
    BY DEF IInv, TypeOK
  <1>l. HookLabels \subseteq LabelsOf(h)
    BY DisjointHandlers DEF LabelsOf
  <1>a. PICK n \in 0 .. MaxAttempts + 1 : n = att[h]
    BY <1>h DEF HandlersTypeOK
  <1>g. pc[h] \in HookLabels /\ got[h] # "ok" /\ got[h] \in Answers
    BY <1>h, DisjointHandlers DEF HandlerInv, HandlersTypeOK, HookLabels, Answers
  <1>w. pc[h] # "idle" => n \in Attempts /\ Exists(n)
    BY <1>g, <1>h, <1>a DEF HandlerInv, HookLabels, Unattached
  <1>s. UNCHANGED sweepVars
    BY DEF WebhookStep
  <1>r. ASSUME UNCHANGED deliveries, WebhookTypeOK',
               \A e \in DOMAIN events' : events'[e] # "DISCARDED"
        PROVE  RestEffect
    BY <1>r, <1>s, <1>h
    DEF RestEffect, DeliveriesTypeOK, ReconcilerTypeOK, TablesInv, sweepVars
  <1>q. ASSUME UNCHANGED gatewayVars, UNCHANGED offered
        PROVE  GatewayEffect /\ OfferEffect /\ offered' \subseteq Attempts
    BY <1>q, NothingChanges
  <1>1. CASE ReceiveWebhook(h)
    <2>1. PICK e \in WebhookEvents :
            /\ MaySend(e)
            /\ events' = [events EXCEPT ![e] = "RECEIVED"]
            /\ about' = [about EXCEPT ![h] = e[2]]
            /\ GotoWith(h, "lookup", e[1])
      BY <1>1 DEF ReceiveWebhook
    <2>2. e[1] \in Attempts /\ e[2] \in EventStatuses
      BY WebhookEventsAssumption
    <2>3. Exists(e[1])
      BY <2>1, <2>2, <1>h DEF MaySend, OnGateway, TablesInv
    <2>4. WebhookTypeOK'
      BY <2>1, <2>2, <1>h DEF WebhookTypeOK, EventRows
    <2>5. \A d \in DOMAIN events' : events'[d] # "DISCARDED"
      BY <2>1, <1>h DEF TablesInv, NoEventDiscarded, WebhookTypeOK
    <2>6. Effects /\ offered' \subseteq Attempts
      BY <1>1, <1>q, <1>r, <2>4, <2>5, NothingChanges DEF ReceiveWebhook, Effects
    <2>7. Moves(h, "lookup", e[1], got[h])
      <3>1. "lookup" \in LabelsOf(h) /\ e[1] \in 0 .. MaxAttempts + 1
        BY <1>l, <2>2, MaxAttemptsAssumption DEF HookLabels, Attempts
      <3> QED BY <2>1, <2>6, <3>1, <1>h, GotoWithMoves
    <2>8. HandlerInv(h)'
      <3>1. PICK a \in Attempts : a = e[1]
        BY <2>2
      <3>2. Exists(a)'
        BY <2>3, <2>6, <3>1 DEF Effects, RowsEffect
      <3> QED BY <1>g, <2>7, <3>1, <3>2, Attached DEF Unattached, Settling
    <2> QED BY <2>6, <2>7, <2>8, HandlerStepKeeps
  <1>2. CASE LookupTransaction(h)
    <2>1. n \in Attempts /\ Exists(n)
      BY <1>2, <1>w DEF LookupTransaction
    <2>2. Goto(h, "check") /\ UNCHANGED webhookVars
      BY <1>2, <1>a, <2>1 DEF LookupTransaction
    <2>3. Effects /\ offered' \subseteq Attempts /\ Exists(n)'
      BY <1>2, <1>q, <1>s, <2>1, <2>2, NothingChanges
      DEF LookupTransaction, Effects, RowsEffect
    <2>4. Moves(h, "check", n, got[h])
      BY <2>2, <2>3, <1>h, <1>a, <1>l, GotoMoves DEF HookLabels
    <2>5. HandlerInv(h)'
      BY <1>g, <2>1, <2>3, <2>4, Attached DEF Unattached, Settling
    <2> QED BY <2>3, <2>4, <2>5, HandlerStepKeeps
  <1>3. CASE CheckWithChapa(h)
    <2>1. n \in Attempts /\ Exists(n)
      BY <1>3, <1>w DEF CheckWithChapa
    <2>2. PICK r \in VerifyAnswers(n) : GotoAnswered(h, "mark", r)
      BY <1>3, <1>a DEF CheckWithChapa
    <2>3. Effects /\ offered' \subseteq Attempts /\ Exists(n)' /\ UNCHANGED gateway
      BY <1>3, <1>q, <1>s, <2>1, NothingChanges
      DEF CheckWithChapa, Effects, RowsEffect, gatewayVars
    <2>4. r \in Answers /\ r # "ok" /\ (r = "success" => gateway[n] = "paid")
      BY <2>2 DEF VerifyAnswers, Answers, VerifyReplies
    <2>5. Moves(h, "mark", n, r)
      BY <2>2, <2>3, <2>4, <1>h, <1>a, <1>l, GotoAnsweredMoves DEF HookLabels
    <2>6. HandlerInv(h)'
      BY <2>1, <2>3, <2>4, <2>5, Attached DEF Unattached
    <2> QED BY <2>3, <2>5, <2>6, HandlerStepKeeps
  <1>4. CASE SettleFromWebhook(h)
    <2>1. n \in Attempts /\ Exists(n) /\ (got[h] = "success" => gateway[n] = "paid")
      BY <1>4, <1>w, <1>h, <1>a DEF SettleFromWebhook, HandlerInv, Settling
    <2>2. RowsEffect /\ Exists(n)'
      <3>1. CASE got[h] = "success"
        BY <1>4, <1>a, <2>1, <3>1, UpdateEffect
        DEF SettleFromWebhook, MarkPaid, ById, Statuses
      <3>2. CASE got[h] # "success"
        BY <1>4, <1>a, <2>1, <3>2, UpdateEffect
        DEF SettleFromWebhook, MarkFailed, ById, Statuses
      <3> QED BY <3>1, <3>2
    <2>3. Effects /\ offered' \subseteq Attempts /\ UNCHANGED gateway
      BY <1>4, <1>q, <1>s, <2>2, NothingChanges
      DEF SettleFromWebhook, Effects, gatewayVars
    <2>4. Moves(h, "finish", n, got[h])
      BY <1>4, <2>3, <1>h, <1>a, <1>l, GotoMoves DEF SettleFromWebhook, HookLabels
    <2>5. HandlerInv(h)'
      BY <1>g, <2>1, <2>2, <2>3, <2>4, Attached DEF Unattached
    <2> QED BY <2>3, <2>4, <2>5, HandlerStepKeeps
  <1>5. CASE MarkWebhookProcessed(h)
    <2>1. n \in Attempts /\ Exists(n) /\ (got[h] = "success" => gateway[n] = "paid")
      BY <1>5, <1>w, <1>h, <1>a DEF MarkWebhookProcessed, HandlerInv, Settling
    <2>2. WebhookTypeOK' /\ \A e \in DOMAIN events' : events'[e] # "DISCARDED"
      BY <1>5, <1>h
      DEF MarkWebhookProcessed, WebhookTypeOK, EventRows, TablesInv, NoEventDiscarded
    <2>3. Effects /\ offered' \subseteq Attempts /\ Exists(n)' /\ UNCHANGED gateway
      BY <1>5, <1>q, <1>r, <2>1, <2>2, NothingChanges
      DEF MarkWebhookProcessed, Effects, RowsEffect, gatewayVars
    <2>4. Moves(h, "enqueue", n, got[h])
      BY <1>5, <2>3, <1>h, <1>a, <1>l, GotoMoves DEF MarkWebhookProcessed, HookLabels
    <2>5. HandlerInv(h)'
      BY <1>g, <2>1, <2>3, <2>4, Attached DEF Unattached
    <2> QED BY <2>3, <2>4, <2>5, HandlerStepKeeps
  <1>6. CASE EnqueueFromWebhook(h)
    <2>1. n \in Attempts /\ (got[h] = "success" => gateway[n] = "paid")
      BY <1>6, <1>w, <1>h, <1>a DEF EnqueueFromWebhook, HandlerInv, Settling
    <2>2. WebhookTypeOK' /\ UNCHANGED events
      BY <1>6, <1>h DEF EnqueueFromWebhook, Respond, WebhookTypeOK, EventStatuses
    <2>3. RestEffect
      BY <1>6, <1>a, <1>h, <1>s, <2>1, <2>2, EnqueueEffect DEF EnqueueFromWebhook
    <2>4. Effects /\ offered' \subseteq Attempts
      BY <1>6, <1>q, <2>3, NothingChanges DEF EnqueueFromWebhook, Effects
    <2> QED BY <1>6, <2>4, ReturnKeeps DEF EnqueueFromWebhook, Respond
  <1>7. CASE CheckThrows(h)
    <2>1. WebhookTypeOK' /\ \A e \in DOMAIN events' : events'[e] # "DISCARDED"
      BY <1>7, <1>h DEF CheckThrows, Respond, WebhookTypeOK, EventStatuses, TablesInv,
                        NoEventDiscarded
    <2>2. Effects /\ offered' \subseteq Attempts
      BY <1>7, <1>q, <1>r, <2>1, NothingChanges DEF CheckThrows, Effects
    <2> QED BY <1>7, <2>2, ReturnKeeps DEF CheckThrows, Respond
  <1>8. CASE CrashWebhook(h)
    <2>1. WebhookTypeOK' /\ \A e \in DOMAIN events' : events'[e] # "DISCARDED"
      BY <1>8, <1>h DEF CrashWebhook, WebhookTypeOK, EventStatuses, TablesInv,
                        NoEventDiscarded
    <2> QED BY <1>8, <1>r, <2>1, CrashKeeps DEF CrashWebhook
  <1> QED
    BY <1>1, <1>2, <1>3, <1>4, <1>5, <1>6, <1>7, <1>8
    DEF WebhookStep, ProcessIncomingWebhook

----------------------------------------------------------------------------
(* scripts/run-reconciler.js                                                        *)

\* Every step of a reconciler run keeps the invariant.
LEMMA ReconcilerKeeps ==
  ASSUME IInv, NEW s \in Sweepers, ReconcilerStep(s)
  PROVE  IInv'
  <1> s \in Handlers
    BY DEF Handlers
  <1>h. /\ HandlersTypeOK /\ HandlerInv(s) /\ WebhookTypeOK /\ DeliveriesTypeOK
        /\ ReconcilerTypeOK /\ TablesInv /\ RepoTypeOK
    BY DEF IInv, TypeOK
  <1>l. SweeperLabels \subseteq LabelsOf(s)
    BY DisjointHandlers DEF LabelsOf
  <1>a. PICK n \in 0 .. MaxAttempts + 1 : n = att[s]
    BY <1>h DEF HandlersTypeOK
  <1>g. got[s] \in Answers /\ (pc[s] # "await" => got[s] # "ok")
    BY <1>h DEF HandlerInv, HandlersTypeOK, Answers
  <1>w. pc[s] \in {"mark", "enqueue"} =>
          n \in Attempts /\ Exists(n) /\ (got[s] = "success" => gateway[n] = "paid")
    BY <1>h, <1>a DEF HandlerInv, Unattached, Settling
  <1>s. UNCHANGED webhookVars
    BY DEF ReconcilerStep
  <1>r. ASSUME UNCHANGED deliveries, ReconcilerTypeOK',
               \A z \in Sweepers : \A a \in todo'[z] : Exists(a)
        PROVE  RestEffect
    BY <1>r, <1>s, <1>h
    DEF RestEffect, DeliveriesTypeOK, WebhookTypeOK, TablesInv, NoEventDiscarded,
        webhookVars
  <1>q. ASSUME UNCHANGED gatewayVars, UNCHANGED offered
        PROVE  GatewayEffect /\ OfferEffect /\ offered' \subseteq Attempts
    BY <1>q, NothingChanges
  <1>k. ASSUME NEW a, Skip(s, a), UNCHANGED deliveries PROVE RestEffect
    <2>1. ReconcilerTypeOK' /\ \A z \in Sweepers : todo'[z] \subseteq todo[z]
      BY <1>k, <1>h DEF Skip, ReconcilerTypeOK
    <2> QED BY <2>1, <1>k, <1>r, <1>h DEF TablesInv
  <1>t. ASSUME NEW a, a \in todo[s] PROVE a \in Attempts /\ Exists(a)
    BY <1>t, <1>h DEF ReconcilerTypeOK, TablesInv
  \* The three steps between rows: nothing but stage, todo and the label changes.
  <1>m. ASSUME NEW l \in {"idle", "select", "next"}, Goto(s, l),
               UNCHANGED <<rows, gatewayVars, offered>>, RestEffect, pc[s] # "await"
        PROVE  IInv'
    <2>1. Effects /\ offered' \subseteq Attempts
      BY <1>m, <1>q, NothingChanges DEF Effects
    <2>2. Moves(s, l, n, got[s])
      BY <1>m, <2>1, <1>h, <1>a, <1>l, GotoMoves DEF SweeperLabels
    <2>3. HandlerInv(s)'
      BY <1>m, <1>g, <2>2, Detached
    <2> QED BY <2>1, <2>2, <2>3, HandlerStepKeeps
  <1>1. CASE StartRun(s)
    <2>1. RestEffect
      BY <1>1, <1>s, NothingChanges DEF StartRun
    <2> QED BY <1>1, <1>m, <2>1 DEF StartRun
  <1>2. CASE SelectRows(s)
    <2>1. PICK old \in SUBSET InStage(stage[s]) : todo' = [todo EXCEPT ![s] = old]
      BY <1>2 DEF SelectRows
    <2>2. \A a \in old : a \in Attempts /\ Exists(a)
      BY <1>h DEF InStage, Forwarding, Recovering, Initialized, Superseded, InStatus,
                  Exists, NoRow, ReconcilerTypeOK, Stages
    <2>3. RestEffect
      <3>1. ReconcilerTypeOK'
        BY <1>2, <1>h, <2>1, <2>2 DEF SelectRows, ReconcilerTypeOK
      <3>2. \A z \in Sweepers : \A a \in todo'[z] : Exists(a)
        BY <1>h, <2>1, <2>2 DEF ReconcilerTypeOK, TablesInv
      <3> QED BY <1>2, <1>r, <3>1, <3>2 DEF SelectRows
    <2> QED BY <1>2, <1>m, <2>3 DEF SelectRows
  <1>3. CASE SweepDone(s)
    <2>1. RestEffect
      <3>1. ReconcilerTypeOK'
        BY <1>3, <1>h DEF SweepDone, ReconcilerTypeOK, NextStage, Stages
      <3> QED BY <1>3, <1>h, <1>r, <3>1 DEF SweepDone, TablesInv
    <2> QED BY <1>3, <1>m, <2>1 DEF SweepDone
  <1>4. CASE ClaimStale(s)
    <2>1. PICK a \in todo[s] :
            /\ ClaimForRecovery
            /\ IF ClaimWon THEN GotoWith(s, "verify", a) ELSE UNCHANGED localVars
            /\ Skip(s, a)
      BY <1>4 DEF ClaimStale
    <2>2. a \in Attempts /\ Exists(a)
      BY <1>t
    <2>3. RowsEffect
      BY <2>1, UpdateEffect
      DEF ClaimForRecovery, Forwarding, InStatus, Exists, Statuses, NoRow
    <2>4. Effects /\ offered' \subseteq Attempts /\ Exists(a)'
      BY <1>4, <1>k, <1>q, <2>1, <2>2, <2>3 DEF ClaimStale, Effects, RowsEffect
    <2>5. CASE UNCHANGED localVars
      BY <2>4, <2>5, QuietStepKeeps
    <2>6. CASE GotoWith(s, "verify", a)
      <3>1. "verify" \in LabelsOf(s) /\ a \in 0 .. MaxAttempts + 1
        BY <1>l, <2>2, MaxAttemptsAssumption DEF SweeperLabels, RecoveryLabels, Attempts
      <3>2. Moves(s, "verify", a, got[s])
        BY <2>4, <2>6, <3>1, <1>h, GotoWithMoves
      <3>3. HandlerInv(s)'
        BY <1>4, <1>g, <2>2, <2>4, <3>2, Attached DEF ClaimStale, Unattached, Settling
      <3> QED BY <2>4, <3>2, <3>3, HandlerStepKeeps
    <2> QED BY <2>1, <2>5, <2>6
  <1>5. CASE ReclaimStale(s)
    <2>1. PICK a \in todo[s] :
            /\ \/ ReclaimStaleRecovering(a) /\ GotoWith(s, "verify", a)
               \/ UNCHANGED <<rows, localVars>>
            /\ Skip(s, a)
      BY <1>5 DEF ReclaimStale
    <2>2. a \in Attempts /\ Exists(a)
      BY <1>t
    <2>3. RowsEffect
      BY <2>1, NothingChanges DEF ReclaimStaleRecovering
    <2>4. Effects /\ offered' \subseteq Attempts /\ Exists(a)'
      BY <1>5, <1>k, <1>q, <2>1, <2>2, <2>3 DEF ReclaimStale, Effects, RowsEffect
    <2>5. CASE UNCHANGED localVars
      BY <2>4, <2>5, QuietStepKeeps
    <2>6. CASE GotoWith(s, "verify", a)
      <3>1. "verify" \in LabelsOf(s) /\ a \in 0 .. MaxAttempts + 1
        BY <1>l, <2>2, MaxAttemptsAssumption DEF SweeperLabels, RecoveryLabels, Attempts
      <3>2. Moves(s, "verify", a, got[s])
        BY <2>4, <2>6, <3>1, <1>h, GotoWithMoves
      <3>3. HandlerInv(s)'
        BY <1>5, <1>g, <2>2, <2>4, <3>2, Attached DEF ReclaimStale, Unattached, Settling
      <3> QED BY <2>4, <3>2, <3>3, HandlerStepKeeps
    <2> QED BY <2>1, <2>5, <2>6
  <1>6. CASE AskChapa(s)
    <2>1. PICK a \in todo[s] :
            /\ Skip(s, a)
            /\ \/ UNCHANGED localVars
               \/ \E r \in VerifyAnswers(a) :
                    /\ pc' = [pc EXCEPT ![s] = "mark"]
                    /\ att' = [att EXCEPT ![s] = a]
                    /\ got' = [got EXCEPT ![s] = r]
                    /\ UNCHANGED <<kind, tries>>
      BY <1>6 DEF AskChapa
    <2>2. a \in Attempts /\ Exists(a)
      BY <1>t
    <2>3. RowsEffect /\ UNCHANGED gateway
      BY <1>6, NothingChanges DEF AskChapa, gatewayVars
    <2>4. Effects /\ offered' \subseteq Attempts /\ Exists(a)'
      BY <1>6, <1>k, <1>q, <2>1, <2>2, <2>3 DEF AskChapa, Effects, RowsEffect
    <2>5. CASE UNCHANGED localVars
      BY <2>4, <2>5, QuietStepKeeps
    <2>6. ASSUME NEW r \in VerifyAnswers(a),
                 pc' = [pc EXCEPT ![s] = "mark"],
                 att' = [att EXCEPT ![s] = a],
                 got' = [got EXCEPT ![s] = r],
                 UNCHANGED <<kind, tries>>
          PROVE  IInv'
      <3>1. /\ "mark" \in LabelsOf(s) /\ a \in 0 .. MaxAttempts + 1
            /\ kind[s] \in Kinds /\ tries[s] \in 0 .. 2
        BY <1>h, <1>l, <2>2, MaxAttemptsAssumption
        DEF SweeperLabels, Attempts, HandlersTypeOK
      <3>2. r \in Answers /\ r # "ok" /\ (r = "success" => gateway[a] = "paid")
        BY DEF VerifyAnswers, Answers, VerifyReplies
      <3>3. kind' = [kind EXCEPT ![s] = kind[s]] /\ tries' = [tries EXCEPT ![s] = tries[s]]
        BY <2>6, <1>h DEF HandlersTypeOK
      <3>4. Moves(s, "mark", a, r)
        BY <2>4, <2>6, <3>1, <3>2, <3>3, <1>h, LocalsMove
      <3>5. HandlerInv(s)'
        BY <2>2, <2>3, <2>4, <3>2, <3>4, Attached DEF Unattached
      <3> QED BY <2>4, <3>4, <3>5, HandlerStepKeeps
    <2> QED BY <2>1, <2>5, <2>6
  <1>7. CASE SettleInitialized(s)
    <2>1. n \in Attempts /\ Exists(n) /\ (got[s] = "success" => gateway[n] = "paid")
      BY <1>7, <1>w DEF SettleInitialized
    <2>2. RowsEffect
      <3> DEFINE S == {b \in {n} : rows[b] = "INITIALIZED"}
      <3>1. IF got[s] = "success" THEN Update(S, "PAID") ELSE Update(S, "FAILED")
        BY <1>7, <1>a
        DEF SettleInitialized, MarkPaidIfStillInitialized, MarkFailedIfStillInitialized
      <3>2. \A b \in S : Exists(b) /\ (got[s] = "success" => gateway[b] = "paid")
        BY <2>1
      <3> HIDE DEF S
      <3>3. CASE got[s] = "success"
        BY <3>1, <3>2, <3>3, UpdateEffect DEF Statuses
      <3>4. CASE got[s] # "success"
        BY <3>1, <3>2, <3>4, UpdateEffect DEF Statuses
      <3> QED BY <3>3, <3>4
    <2>3. RestEffect
      BY <1>7, <1>s, NothingChanges DEF SettleInitialized
    <2>4. Effects /\ offered' \subseteq Attempts /\ Exists(n)' /\ UNCHANGED gateway
      BY <1>7, <1>q, <2>1, <2>2, <2>3 DEF SettleInitialized, Effects, RowsEffect, gatewayVars
    <2>5. CASE Goto(s, "enqueue")
      <3>1. Moves(s, "enqueue", n, got[s])
        BY <2>4, <2>5, <1>h, <1>a, <1>l, GotoMoves DEF SweeperLabels
      <3>2. got[s] # "ok"
        BY <1>7, <1>g DEF SettleInitialized
      <3>3. HandlerInv(s)'
        BY <2>1, <2>4, <3>1, <3>2, Attached DEF Unattached
      <3> QED BY <2>4, <3>1, <3>3, HandlerStepKeeps
    <2>6. CASE Return(s)
      BY <2>4, <2>6, ReturnKeeps
    <2> QED BY <1>7, <2>5, <2>6 DEF SettleInitialized
  <1>8. CASE EnqueueFromSweep(s)
    <2>1. n \in Attempts /\ (got[s] = "success" => gateway[n] = "paid")
      BY <1>8, <1>w DEF EnqueueFromSweep
    <2>2. WebhookTypeOK' /\ UNCHANGED events
      BY <1>h, <1>s DEF WebhookTypeOK, webhookVars
    <2>3. RestEffect
      BY <1>8, <1>a, <2>1, <2>2, EnqueueEffect DEF EnqueueFromSweep
    <2>4. Effects /\ offered' \subseteq Attempts
      BY <1>8, <1>q, <2>3, NothingChanges DEF EnqueueFromSweep, Effects
    <2> QED BY <1>8, <2>4, ReturnKeeps DEF EnqueueFromSweep
  <1>9. CASE AbortSuperseded(s)
    <2>1. RowsEffect
      <3> DEFINE S == {n} \cap Superseded
      <3>1. Update(S, "ABORTED")
        BY <1>9, <1>a DEF AbortSuperseded, MarkAbortedIfSuperseded
      <3>2. \A b \in S : Exists(b)
        BY DEF Superseded, InStatus, Exists, NoRow
      <3> HIDE DEF S
      <3> QED BY <3>1, <3>2, UpdateEffect DEF Statuses
    <2>2. RestEffect
      BY <1>9, <1>s, NothingChanges DEF AbortSuperseded
    <2>3. Effects /\ offered' \subseteq Attempts
      BY <1>9, <1>q, <2>1, <2>2 DEF AbortSuperseded, Effects
    <2> QED BY <1>9, <2>3, ReturnKeeps DEF AbortSuperseded
  <1>10. CASE RecoverRow(s)
    BY <1>10, <1>s, RecoveryKeeps DEF RecoverRow
  <1>11. CASE CrashRun(s)
    <2>1. ReconcilerTypeOK' /\ \A z \in Sweepers : \A a \in todo'[z] : Exists(a)
      BY <1>11, <1>h DEF CrashRun, ReconcilerTypeOK, Stages, TablesInv
    <2> QED BY <1>11, <1>r, <2>1, CrashKeeps DEF CrashRun
  <1>12. CASE RecoveryThrows(s)
    <2>1. Effects /\ offered' \subseteq Attempts
      BY <1>12, <1>q, <1>s, NothingChanges DEF RecoveryThrows, Effects
    <2> QED BY <1>12, <2>1, ReturnKeeps DEF RecoveryThrows
  <1> QED
    BY <1>1, <1>2, <1>3, <1>4, <1>5, <1>6, <1>7, <1>8, <1>9, <1>10, <1>11, <1>12
    DEF ReconcilerStep, Run

----------------------------------------------------------------------------
(* The steps nobody at the bridge takes, and the whole.                             *)

\* A payment keeps the invariant.
LEMMA CustomerKeeps ==
  ASSUME IInv, NEW a \in Attempts, CustomerPays(a)
  PROVE  IInv'
  <1>1. GatewayEffect
    BY DEF CustomerPays, Collect, GatewayEffect, OnGateway, IInv, TypeOK, TablesInv,
           GatewayTypeOK
  <1>2. Effects /\ offered' \subseteq Attempts /\ UNCHANGED localVars
    BY <1>1, NothingChanges DEF CustomerPays, handlerVars, Effects
  <1> QED BY <1>2, QuietStepKeeps

\* An initialize request that arrives after its caller gave up keeps the invariant.
LEMMA LateCallKeeps ==
  ASSUME IInv, NEW a \in Attempts, CallArrivesLate(a)
  PROVE  IInv'
  <1>1. GatewayEffect
    BY RegisterEffect DEF CallArrivesLate, LateArrival, IInv, TablesInv
  <1>2. Effects /\ offered' \subseteq Attempts /\ UNCHANGED localVars
    BY <1>1, NothingChanges DEF CallArrivesLate, handlerVars, Effects
  <1> QED BY <1>2, QuietStepKeeps

\* The invariant holds of an order nobody has asked for yet.
LEMMA InitInv == Init => IInv
  <1> SUFFICES ASSUME Init PROVE IInv
    OBVIOUS
  <1> USE DEF Init, RepoInit, GatewayInit, HandlersInit, DeliveriesInit, WebhookInit,
              ReconcilerInit
  <1>1. RepoTypeOK /\ GatewayTypeOK /\ DeliveriesTypeOK
    BY DEF RepoTypeOK, GatewayTypeOK, DeliveriesTypeOK
  <1>2. HandlersTypeOK
    BY MaxAttemptsAssumption
    DEF HandlersTypeOK, Kinds, RequestLabels, SweeperLabels, HookLabels, Handlers
  <1>3. WebhookTypeOK /\ ReconcilerTypeOK
    BY DEF WebhookTypeOK, EventRows, EventStatuses, ReconcilerTypeOK, Stages
  <1>4. \A p \in Handlers : HandlerInv(p)
    BY DEF HandlerInv, Unattached, Numbering, Settling, NoAnswer
  <1>5. TablesInv
    BY DEF TablesInv, OnGateway, Exists, NoGapInAttempts, CheckoutIsBacked,
           SuccessIsBacked, NoEventDiscarded, NoRow
  <1> QED BY <1>1, <1>2, <1>3, <1>4, <1>5 DEF IInv, TypeOK

\* Every step of anybody keeps the invariant.
LEMMA NextKeeps == IInv /\ [Next]_bridgeVars => IInv'
  <1> SUFFICES ASSUME IInv, [Next]_bridgeVars PROVE IInv'
    OBVIOUS
  <1>1. CASE UNCHANGED bridgeVars
    <2>1. Effects /\ offered' \subseteq Attempts /\ UNCHANGED localVars
      BY <1>1, NothingChanges DEF bridgeVars, handlerVars, Effects
    <2> QED BY <2>1, QuietStepKeeps
  <1>2. CASE Next
    BY <1>2, RequestKeeps, WebhookKeeps, ReconcilerKeeps, CustomerKeeps, LateCallKeeps
    DEF Next
  <1> QED BY <1>1, <1>2

\* The strengthened invariant holds of every behaviour, for any number of requests,
\* webhook calls, reconciler runs and attempts and any crashes: it is what each
\* handler of the payment core relies on between two awaits.
THEOREM Inductive == Spec => []IInv
  BY InitInv, NextKeeps, PTL DEF Spec

\* Every table, every handler's local values and Chapa's registry stay in their types.
THEOREM TypeCorrect == Spec => []TypeOK
  <1>1. IInv => TypeOK
    BY DEF IInv
  <1> QED BY <1>1, Inductive, PTL

\* Write-ahead intent: no tx_ref is at Chapa, on its way there or being called for
\* without its row in the transactions table.
THEOREM IntentIsWrittenAhead == Spec => []WriteAhead
  <1>1. IInv => WriteAhead
    <2> SUFFICES ASSUME IInv, NEW a \in Attempts,
                        OnGateway(a) \/ a \in late \/ Calling(a)
                 PROVE  Exists(a)
      BY DEF WriteAhead
    <2>1. CASE OnGateway(a) \/ a \in late
      BY <2>1 DEF IInv, TablesInv
    <2>2. CASE Calling(a)
      BY <2>2 DEF Calling, IInv, HandlerInv, Unattached
    <2> QED BY <2>1, <2>2
  <1> QED BY <1>1, Inductive, PTL

\* A checkout URL in a client's hands, or in an INITIALIZED row a client may be
\* answered from, is one Chapa issued: markInitialized never runs on a stale answer.
THEOREM CheckoutsAreBacked == Spec => []CheckoutIsBacked
  <1>1. IInv => CheckoutIsBacked
    BY DEF IInv, TablesInv
  <1> QED BY <1>1, Inductive, PTL

\* markPaid, markPaidIfStillInitialized and the payment.success notifications of both
\* producers follow a payment Chapa collected.
THEOREM SuccessesAreBacked == Spec => []SuccessIsBacked
  <1>1. IInv => SuccessIsBacked
    BY DEF IInv, TablesInv
  <1> QED BY <1>1, Inductive, PTL

\* processIncomingWebhook finds the row of every event about a ref Chapa knows.
THEOREM EventsAreNeverDiscarded == Spec => []NoEventDiscarded
  <1>1. IInv => NoEventDiscarded
    BY DEF IInv, TablesInv
  <1> QED BY <1>1, Inductive, PTL

\* The attempts of an order are numbered 1, 2, 3, .. whoever numbers them.
THEOREM AttemptsHaveNoGap == Spec => []NoGapInAttempts
  <1>1. IInv => NoGapInAttempts
    BY DEF IInv, TablesInv
  <1> QED BY <1>1, Inductive, PTL

=============================================================================
