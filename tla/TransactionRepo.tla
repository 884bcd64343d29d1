---------------------------- MODULE TransactionRepo ----------------------------
(* The transactions table, restricted to the rows of one order: the pair       *)
(* (app_id, client_order_id).  Rows of different orders share no statement, so *)
(* one order is the whole story.  A row is named by its attempt_count; the     *)
(* primary key and the tx_ref are functions of it (generateChapaTxRef hashes   *)
(* app, order and attempt), and the two unique keys of the table say the same  *)
(* thing: one row per attempt.  Of a row only the status is kept.              *)
(*                                                                             *)
(* Every operator below is one SQL statement.  The pool runs in autocommit     *)
(* mode, so a statement is atomic and two statements never are.  Update is the *)
(* shared shape UPDATE .. SET status = s WHERE <the rows of S>.                *)
(*                                                                             *)
(* Ages (created_at, claimed_at, updated_at) are not kept: time only moves     *)
(* forward and nothing bounds how much of it passes between two statements, so *)
(* a row may be found old enough at any step that looks for old rows.          *)
EXTENDS Integers

CONSTANT MaxAttempts    \* bound: attempts one order may reach

ASSUME MaxAttemptsAssumption == MaxAttempts \in Nat \ {0}

VARIABLE rows           \* attempt -> status of its row, or NoRow

Attempts == 1 .. MaxAttempts

NoRow == "NO_ROW"

Statuses == {"PENDING_CREATION", "FORWARDING", "RECOVERING", "INITIALIZED", "PAID",
             "FAILED", "SUPERSEDED", "SUPERSEDED_ORPHANED_ON_GATEWAY", "ABORTED"}

RepoTypeOK == rows \in [Attempts -> Statuses \cup {NoRow}]

RepoInit == rows = [a \in Attempts |-> NoRow]

Exists(a) == rows[a] # NoRow

----------------------------------------------------------------------------
(* SELECTs *)

\* ORDER BY attempt_count DESC LIMIT 1 returns the row of attempt a, or no row.
IsLatestAttempt(a) == Exists(a) /\ \A b \in Attempts : Exists(b) => b <= a
NoAttempt == \A a \in Attempts : ~Exists(a)

InStatus(S) == {a \in Attempts : rows[a] \in S}

\* What the four sweeps select, but for the age of the row.
Forwarding  == InStatus({"FORWARDING"})
Recovering  == InStatus({"RECOVERING"})
Initialized == InStatus({"INITIALIZED"})
Superseded  == InStatus({"SUPERSEDED", "SUPERSEDED_ORPHANED_ON_GATEWAY"})

----------------------------------------------------------------------------
(* INSERT and UPDATEs *)

\* A second row for the attempt raises ER_DUP_ENTRY; the callers test Exists.
InsertPendingCreation(a) ==
  rows' = [rows EXCEPT ![a] = "PENDING_CREATION"]

Update(S, s) == rows' = [a \in Attempts |-> IF a \in S THEN s ELSE rows[a]]

ById(a) == {b \in {a} : Exists(b)}

\* Mutant: the UPDATE without AND status = 'PENDING_CREATION'.
MarkForwardingById(a) == Update(ById(a), "FORWARDING")

MarkForwarding(a) ==
  Update({b \in {a} : rows[b] = "PENDING_CREATION"}, "FORWARDING")

\* These four name the row by its id only: whatever its status was is lost.
MarkInitialized(a) == Update(ById(a), "INITIALIZED")
MarkFailed(a) == Update(ById(a), "FAILED")
MarkPaid(a) == Update(ById(a), "PAID")
MarkSupersededOrphaned(a) == Update(ById(a), "SUPERSEDED_ORPHANED_ON_GATEWAY")

\* The claim names the order, not a row: it takes every FORWARDING row of the
\* order, and counts as won only when that was exactly one row.
ClaimForRecovery == Update(Forwarding, "RECOVERING")
ClaimWon == \E a \in Attempts : Forwarding = {a}

ResetToPendingCreationForRetry(a) ==
  Update({b \in {a} : rows[b] = "RECOVERING"}, "PENDING_CREATION")

\* claimed_at = NOW() changes no status; only whether the row still qualified.
ReclaimStaleRecovering(a) == a \in Recovering /\ UNCHANGED rows

MarkPaidIfStillInitialized(a) ==
  Update({b \in {a} : rows[b] = "INITIALIZED"}, "PAID")

MarkFailedIfStillInitialized(a) ==
  Update({b \in {a} : rows[b] = "INITIALIZED"}, "FAILED")

MarkAbortedIfSuperseded(a) == Update({a} \cap Superseded, "ABORTED")

=============================================================================
