---------------------------- MODULE TransactionService ----------------------------
(* transactionService.initializeTransaction, from the read of the latest attempt.  *)
(* Input validation and the redirect whitelist reject before any write and are not *)
(* part of this module.                                                            *)
EXTENDS RecoveryService

\* Mutant: an attempt whose checkout page is open may be retried.
TerminalRetryableOrOpen == {"FAILED", "ABORTED", "INITIALIZED"}

TerminalRetryable == {"FAILED", "ABORTED"}

\* Mutant: the next number is taken also where there is no attempt yet.
FirstAttemptAfterOne == 2

FirstAttempt == 1

\* What the latest attempt says decides the request's way.  The statuses not listed,
\* PENDING_CREATION among them, answer 409 and change nothing.
ReadLatest(p) ==
  /\ pc[p] = "idle"
  /\ \/ NoAttempt /\ GotoWith(p, "insert", FirstAttempt) /\ UNCHANGED offered
     \/ \E a \in Attempts :
          /\ IsLatestAttempt(a)
          /\ \/ /\ rows[a] = "INITIALIZED"
                /\ Offer(p, a)
                /\ UNCHANGED localVars
             \/ /\ rows[a] \in {"FORWARDING", "RECOVERING"}
                /\ GotoWith(p, "claim", a)
                /\ UNCHANGED offered
             \/ /\ rows[a] \in TerminalRetryable
                /\ GotoWith(p, "insert", a + 1)
                /\ UNCHANGED offered
  /\ UNCHANGED <<rows, gatewayVars>>

\* Mutant: the INSERT is not made before the call.
InsertAttemptLater(p) ==
  /\ pc[p] = "insert"
  /\ att[p] \in Attempts
  /\ ~Exists(att[p])
  /\ Goto(p, "forward")
  /\ UNCHANGED rows
  /\ Stay

\* insertPendingCreation: write-ahead, before Chapa hears of the attempt.
InsertAttempt(p) ==
  /\ pc[p] = "insert"
  /\ att[p] \in Attempts
  /\ ~Exists(att[p])
  /\ InsertPendingCreation(att[p])
  /\ Goto(p, "forward")
  /\ Stay

\* ER_DUP_ENTRY is not caught (500), and so is any INSERT past the bound.
InsertFails(p) ==
  /\ pc[p] = "insert"
  /\ att[p] \in Attempts => Exists(att[p])
  /\ Return(p)
  /\ UNCHANGED rows
  /\ Stay

InitializeTransaction(p) ==
  ReadLatest(p) \/ InsertAttempt(p) \/ InsertFails(p) \/ RecoverOrWait(p)

=============================================================================
