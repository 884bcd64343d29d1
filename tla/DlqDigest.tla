-------------------------------- MODULE DlqDigest --------------------------------
(* scripts/run-dlq-digest.js: one mail about all failures not digested yet.  The mail *)
(* may be swallowed (mailer.js logs and goes on), which the script does not notice.   *)
EXTENDS JobLock, DeliveryQueue

CONSTANT Digests        \* runs of the digest

ASSUME DigestsAssumption == Digests \subseteq Runs

VARIABLES ids,          \* digest -> the failures it selected
          composed      \* failures named in a mail handed to the mailer

digestVars == <<ids, composed>>

DigestLabels == {"idle", "select", "mail", "update", "release"}

DigestTypeOK ==
  /\ \A g \in Digests : pc[g] \in DigestLabels
  /\ ids \in [Digests -> SUBSET DOMAIN dlq_failures]
  /\ composed \subseteq DOMAIN dlq_failures

DigestInit ==
  /\ ids = [g \in Digests |-> {}]
  /\ composed = {}

EndsDigest(g, l) ==
  /\ Goto(g, l)
  /\ ids' = [ids EXCEPT ![g] = {}]

SelectFailures(g) ==
  /\ pc[g] = "select"
  /\ ids' = [ids EXCEPT ![g] = Undigested]
  /\ Goto(g, IF Undigested = {} THEN "release" ELSE "mail")
  /\ UNCHANGED <<tableVars, composed>>

SendDigestEmail(g) ==
  /\ pc[g] = "mail"
  /\ composed' = composed \cup ids[g]
  /\ Goto(g, "update")
  /\ UNCHANGED <<tableVars, ids>>

\* Mutant: the UPDATE asks for digested_at IS NULL instead of the ids.
UpdateAllUndigested(g) ==
  /\ pc[g] = "update"
  /\ MarkDigested(Undigested)
  /\ EndsDigest(g, "release")
  /\ UNCHANGED <<queueVars, has_url, composed>>

UpdateDigested(g) ==
  /\ pc[g] = "update"
  /\ MarkDigested(ids[g])
  /\ EndsDigest(g, "release")
  /\ UNCHANGED <<queueVars, has_url, composed>>

\* The SELECT or the UPDATE throws, the latter after it has taken effect or before: finally
\* releases the lock.
DigestThrows(g) ==
  /\ pc[g] \in {"select", "update"}
  /\ \/ pc[g] = "update" /\ MarkDigested(ids[g])
     \/ UNCHANGED dlq_failures
  /\ EndsDigest(g, "release")
  /\ UNCHANGED <<queueVars, has_url, composed>>

DigestDies(g) ==
  /\ pc[g] # "idle"
  /\ EndsDigest(g, "idle")
  /\ UNCHANGED <<job_locks, tableVars, composed>>

Digest(g) ==
  /\ SelectFailures(g) \/ SendDigestEmail(g) \/ UpdateDigested(g) \/ DigestThrows(g)
  /\ UNCHANGED job_locks

=============================================================================
