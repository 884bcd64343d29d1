----------------------------- MODULE RecoveryService -----------------------------
(* recoveryService.js and the initialize call it shares with                      *)
(* transactionService.js.  runRecoveryAsWinner is entered at label "verify" by    *)
(* whoever won a claim: a request that found its order stuck, or the reconciler.  *)
(*                                                                                *)
(*   verify ----404----> reset -> forward -> call -> await -> reread   (branch A) *)
(*      |                                              |                          *)
(*      +--not a 404--> supersede <----duplicate ref---+                          *)
(*                         |                                                      *)
(*                         +-> insertNext -> forward -> ...            (branch B) *)
(*                                                                                *)
(* circuitBreakerService.guardedCall appears as what its caller sees: it may      *)
(* refuse the call (CircuitOpenError) or make it.                                 *)
EXTENDS Handlers

Stay == UNCHANGED <<late, gateway, offered>>

\* verifyWithRetries: the answer decides the branch, and is acted on later.
VerifyAnswered(p) ==
  /\ pc[p] = "verify"
  /\ \E r \in VerifyWithRetries(att[p]) :
       Goto(p, IF r = "notFound" THEN "reset" ELSE "supersede")
  /\ UNCHANGED rows
  /\ Stay

\* verifyTransaction timed out or failed: the row stays RECOVERING.
VerifyThrows(p) ==
  /\ pc[p] = "verify"
  /\ Return(p)
  /\ UNCHANGED rows
  /\ Stay

\* Mutant: the call is made without the markForwarding before it.
ResetAndCall(p) ==
  /\ pc[p] = "reset"
  /\ ResetToPendingCreationForRetry(att[p])
  /\ pc' = [pc EXCEPT ![p] = "call"]
  /\ kind' = [kind EXCEPT ![p] = "A"]
  /\ UNCHANGED <<att, got, tries>>
  /\ Stay

\* Branch A.  The result of the reset is not looked at.
ResetForRetry(p) ==
  /\ pc[p] = "reset"
  /\ ResetToPendingCreationForRetry(att[p])
  /\ pc' = [pc EXCEPT ![p] = "forward"]
  /\ kind' = [kind EXCEPT ![p] = "A"]
  /\ UNCHANGED <<att, got, tries>>
  /\ Stay

\* Mutant: the next number is counted twice.
SupersedeSkipsANumber(p) ==
  /\ pc[p] = "supersede"
  /\ MarkSupersededOrphaned(att[p])
  /\ GotoWith(p, "insertNext", att[p] + 2)
  /\ Stay

\* Branch B: the attempt is given up, and a new one is numbered after it.
Supersede(p) ==
  /\ pc[p] = "supersede"
  /\ MarkSupersededOrphaned(att[p])
  /\ GotoWith(p, "insertNext", att[p] + 1)
  /\ Stay

InsertNextAttempt(p) ==
  /\ pc[p] = "insertNext"
  /\ att[p] \in Attempts
  /\ ~Exists(att[p])
  /\ InsertPendingCreation(att[p])
  /\ pc' = [pc EXCEPT ![p] = "forward"]
  /\ kind' = [kind EXCEPT ![p] = "B"]
  /\ UNCHANGED <<att, got, tries>>
  /\ Stay

\* ER_DUP_ENTRY: another handler has that number; try the next, three in all.
InsertNextDuplicate(p) ==
  /\ pc[p] = "insertNext"
  /\ att[p] \in Attempts
  /\ Exists(att[p])
  /\ \/ /\ tries[p] < 2
        /\ att' = [att EXCEPT ![p] = @ + 1]
        /\ tries' = [tries EXCEPT ![p] = @ + 1]
        /\ UNCHANGED <<pc, kind, got>>
     \/ /\ tries[p] = 2
        /\ Return(p)
  /\ UNCHANGED rows
  /\ Stay

\* Bound: past MaxAttempts the INSERT fails as on any other database error.
InsertNextFails(p) ==
  /\ pc[p] = "insertNext"
  /\ att[p] \notin Attempts
  /\ Return(p)
  /\ UNCHANGED rows
  /\ Stay

----------------------------------------------------------------------------
(* The initialize call, the same in the three places that make it *)

Forward(p) ==
  /\ pc[p] = "forward"
  /\ MarkForwarding(att[p])
  /\ Goto(p, "call")
  /\ Stay

SendInitialize(p) ==
  /\ pc[p] = "call"
  /\ Goto(p, "await")
  /\ UNCHANGED rows
  /\ Stay

\* readStatus and guardedCall refuse the call: the row stays FORWARDING.
CircuitOpen(p) ==
  /\ pc[p] = "call"
  /\ Return(p)
  /\ UNCHANGED rows
  /\ Stay

ChapaAnswers(p) ==
  /\ pc[p] = "await"
  /\ got[p] = NoAnswer
  /\ \E r \in InitializeReplies :
       HandleInitialize(att[p], r) /\ GotoAnswered(p, "await", r)
  /\ UNCHANGED <<rows, late, offered>>

\* ChapaTimeoutError or ChapaNetworkError: the row stays FORWARDING, whatever
\* became of the request.
CallTimesOut(p) ==
  /\ pc[p] = "await"
  /\ Abandon(att[p], got[p] # NoAnswer)
  /\ Return(p)
  /\ UNCHANGED <<rows, gateway, offered>>

\* Mutant: an answer that is not ok is taken for one.
CallConfirmedByAnyAnswer(p) ==
  /\ pc[p] = "await"
  /\ got[p] # NoAnswer
  /\ MarkInitialized(att[p])
  /\ IF kind[p] = "first"
       THEN Return(p) /\ Offer(p, att[p])
       ELSE GotoAnswered(p, "reread", NoAnswer) /\ UNCHANGED offered
  /\ UNCHANGED gatewayVars

\* chapaResult.ok: initializeTransaction returns the URL it was given; a recovery
\* branch reads the row back first.
CallConfirmed(p) ==
  /\ pc[p] = "await"
  /\ got[p] = "ok"
  /\ MarkInitialized(att[p])
  /\ IF kind[p] = "first"
       THEN Return(p) /\ Offer(p, att[p])
       ELSE GotoAnswered(p, "reread", NoAnswer) /\ UNCHANGED offered
  /\ UNCHANGED gatewayVars

\* Only branch A takes a duplicate tx_ref for proof that the first call got through.
CallFoundDuplicate(p) ==
  /\ pc[p] = "await"
  /\ got[p] = "duplicate"
  /\ kind[p] = "A"
  /\ GotoAnswered(p, "supersede", NoAnswer)
  /\ UNCHANGED rows
  /\ Stay

CallRejected(p) ==
  /\ pc[p] = "await"
  /\ got[p] \in {"duplicate", "rejected"}
  /\ got[p] = "duplicate" => kind[p] # "A"
  /\ MarkFailed(att[p])
  /\ IF kind[p] = "first" THEN Return(p) ELSE GotoAnswered(p, "reread", NoAnswer)
  /\ Stay

\* Mutant: the recovered attempt is answered with its URL whatever its status is.
RereadUnchecked(p) ==
  /\ pc[p] = "reread"
  /\ Return(p)
  /\ Offer(p, att[p])
  /\ UNCHANGED <<rows, gatewayVars>>

\* return txnRepo.getById(..): a request answers from the row as it is now.
Reread(p) ==
  /\ pc[p] = "reread"
  /\ Return(p)
  /\ IF rows[att[p]] = "INITIALIZED" THEN Offer(p, att[p]) ELSE UNCHANGED offered
  /\ UNCHANGED <<rows, gatewayVars>>

MakeCall(p) ==
  \/ Forward(p) \/ SendInitialize(p) \/ CircuitOpen(p) \/ ChapaAnswers(p)
  \/ CallTimesOut(p) \/ CallConfirmed(p) \/ CallFoundDuplicate(p)
  \/ CallRejected(p) \/ Reread(p)

RunRecoveryAsWinner(p) ==
  \/ VerifyAnswered(p) \/ VerifyThrows(p) \/ ResetForRetry(p) \/ Supersede(p)
  \/ InsertNextAttempt(p) \/ InsertNextDuplicate(p) \/ InsertNextFails(p)
  \/ MakeCall(p)

----------------------------------------------------------------------------
(* recoverOrWait: the claim, and waiting for somebody else's *)

ClaimOrWait(p) ==
  /\ pc[p] = "claim"
  /\ ClaimForRecovery
  /\ Goto(p, IF ClaimWon THEN "verify" ELSE "poll")
  /\ Stay

\* pollForSettledState: seven reads of the latest attempt, of which only the last
\* one matters; a settled one is answered, otherwise 202.
Poll(p) ==
  /\ pc[p] = "poll"
  /\ \E a \in Attempts :
       /\ IsLatestAttempt(a)
       /\ IF rows[a] = "INITIALIZED" THEN Offer(p, a) ELSE UNCHANGED offered
  /\ Return(p)
  /\ UNCHANGED <<rows, gatewayVars>>

RecoverOrWait(p) == ClaimOrWait(p) \/ Poll(p) \/ RunRecoveryAsWinner(p)

=============================================================================
