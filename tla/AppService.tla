------------------------------- MODULE AppService -------------------------------
(* appService.js as the admin's JSON API and browser pages call it.  An operation of *)
(* one statement is one action; createApiKey and hardDeleteApplication have awaits   *)
(* between their statements.  logEvent reports its errors and swallows them.         *)
EXTENDS GatewayEntry

CONSTANT Admins           \* admin calls in progress at once

VARIABLES task,           \* admin -> "idle" or the statement it is about to make
          target          \* admin -> the application its call is about

adminVars == <<task, target>>

Tasks == {"idle", "insertKey", "logDeletion", "delete"}

AdminTypeOK ==
  /\ task \in [Admins -> Tasks]
  /\ target \in [Admins -> Applications]

AdminInit ==
  /\ task = [d \in Admins |-> "idle"]
  /\ target \in {[d \in Admins |-> a] : a \in Applications}

PaymentsOf(a) == {r \in transactions : Owner[key[r]] = a}

DeletionCounted(a) ==
  \E d \in Admins : target[d] = a /\ task[d] \in {"logDeletion", "delete"}

AdminGoes(d, t, a) ==
  /\ task' = [task EXCEPT ![d] = t]
  /\ target' = [target EXCEPT ![d] = a]

OnlyApps(d) ==
  /\ task[d] = "idle"
  /\ UNCHANGED <<transactions, limitVars, audit_logs, pc, key, limiter, window, verdict,
                 offered, rank, adminVars>>

CreateApplication(d, a) ==
  /\ applications[a] = "none"
  /\ SetApplication(a, "active")
  /\ OnlyApps(d)
  /\ UNCHANGED <<api_keys, barred>>

ArchiveApplication(d, a) ==
  /\ applications[a] = "active"
  /\ SetApplication(a, "disabled")
  /\ OnlyApps(d)
  /\ UNCHANGED <<api_keys, barred>>

ReactivateApplication(d, a) ==
  /\ applications[a] = "disabled"
  /\ SetApplication(a, "active")
  /\ barred' = {r \in barred :
       ~(key[r] \in Keys /\ Owner[key[r]] = a /\ api_keys[key[r]] = "active")}
  /\ OnlyApps(d)
  /\ UNCHANGED api_keys

RevokeApiKey(d, k) ==
  /\ RevokeKey(k)
  /\ OnlyApps(d)
  /\ UNCHANGED <<applications, barred>>

AdminStays ==
  UNCHANGED <<applications, transactions, limitVars, callerVars>>

\* createApiKey: getApplication, then the INSERT, which fails if the application is gone.
StartApiKey(d, a) ==
  /\ task[d] = "idle"
  /\ HasRow(a)
  /\ AdminGoes(d, "insertKey", a)
  /\ AdminStays
  /\ UNCHANGED <<api_keys, audit_logs>>

FinishApiKey(d) ==
  /\ task[d] = "insertKey"
  /\ \/ \E k \in Keys : Owner[k] = target[d] /\ api_keys[k] = "none" /\ InsertKey(k)
     \/ UNCHANGED api_keys
  /\ AdminGoes(d, "idle", target[d])
  /\ AdminStays
  /\ UNCHANGED audit_logs

\* Mutant: the COUNT is ignored.
CountAnything(d, a) ==
  /\ task[d] = "idle"
  /\ applications[a] # "none"
  /\ AdminGoes(d, "logDeletion", a)
  /\ AdminStays
  /\ UNCHANGED <<api_keys, audit_logs>>

\* Mutant: the event comes after the DELETE.
CountThenDelete(d, a) ==
  /\ task[d] = "idle"
  /\ applications[a] # "none"
  /\ PaymentsOf(a) = {}
  /\ AdminGoes(d, "delete", a)
  /\ AdminStays
  /\ UNCHANGED <<api_keys, audit_logs>>

\* hardDeleteApplication: the COUNT, which also passes where the application is gone,
CountTransactions(d, a) ==
  /\ task[d] = "idle"
  /\ applications[a] # "none"
  /\ PaymentsOf(a) = {}
  /\ AdminGoes(d, "logDeletion", a)
  /\ AdminStays
  /\ UNCHANGED <<api_keys, audit_logs>>

\* the event, or the message that it could not be written,
LogDeletion(d) ==
  /\ task[d] = "logDeletion"
  /\ audit_logs' = audit_logs \cup {target[d]}
  /\ AdminGoes(d, "delete", target[d])
  /\ AdminStays
  /\ UNCHANGED api_keys

\* and the DELETE, which cascades to keys and payments.
DeleteApplication(d) ==
  /\ task[d] = "delete"
  /\ SetApplication(target[d], "deleted")
  /\ api_keys' = [k \in Keys |->
       IF Owner[k] = target[d] /\ api_keys[k] # "none" THEN "deleted" ELSE api_keys[k]]
  /\ transactions' = transactions \ PaymentsOf(target[d])
  /\ AdminGoes(d, "idle", target[d])
  /\ UNCHANGED <<limitVars, audit_logs, callerVars>>

AdminDies(d) ==
  /\ task[d] # "idle"
  /\ AdminGoes(d, "idle", target[d])
  /\ AdminStays
  /\ UNCHANGED <<api_keys, audit_logs>>

=============================================================================
