------------------------------ MODULE AccessTables ------------------------------
(* Applications, their API keys and payments, and the counters of the rate limits:   *)
(* the tables that decide whether a request gets in, one operator per statement.     *)
(* A row is its status.  Ids and keys are drawn at random, so none is used twice.    *)
EXTENDS Naturals

CONSTANTS Applications,   \* ids of applications that may be created
          Keys,           \* API keys that may be issued
          Owner,          \* key -> the application it is issued for
          Requests,       \* calls of the JSON API, each starting an order of its own
          Logins,         \* attempts to log in, all under one e-mail address
          ByIp, ByLogin,  \* limiter keys of the clients' address and of the logins
          PerKey, PerIp, PerLogin,   \* limits per minute
          MaxMinute       \* bound: minutes

ASSUME OwnerAssumption == Owner \in [Keys -> Applications]

ASSUME CallersAssumption == Requests \cap Logins = {}

ASSUME LimitsAssumption ==
  /\ ByIp \notin Keys \cup {ByLogin} /\ ByLogin \notin Keys
  /\ PerKey \in Nat /\ PerIp \in Nat /\ PerLogin \in Nat
  /\ MaxMinute \in Nat \ {0}

VARIABLES applications,   \* id -> "none", "active", "disabled", or "deleted"
          api_keys,       \* key -> "none", "active", "revoked", or "deleted"
          transactions,   \* the orders of which there is a row
          rate_limits,    \* limiter key, minute -> request_count, 0 for no row
          audit_logs,     \* applications whose deletion was logged; of the other events,
                          \* which come last, nothing depends
          minute          \* the clock

appTables == <<applications, api_keys>>
limitVars == <<rate_limits, minute>>

Callers == Requests \cup Logins
LimiterKeys == Keys \cup {ByIp, ByLogin}
Minutes == 1..MaxMinute

TablesTypeOK ==
  /\ applications \in [Applications -> {"none", "active", "disabled", "deleted"}]
  /\ api_keys \in [Keys -> {"none", "active", "revoked", "deleted"}]
  /\ transactions \subseteq Requests
  /\ rate_limits \in [LimiterKeys -> [Minutes -> Nat]]
  /\ audit_logs \subseteq Applications
  /\ minute \in Minutes

TablesInit ==
  /\ applications = [a \in Applications |-> "none"]
  /\ api_keys = [k \in Keys |-> "none"]
  /\ transactions = {}
  /\ rate_limits = [l \in LimiterKeys |-> [w \in Minutes |-> 0]]
  /\ audit_logs = {}
  /\ minute = 1

HasRow(a) == applications[a] \in {"active", "disabled"}

\* Mutant: the condition on the key's status is lost.
KeyMatchesAnyStatus(k) == api_keys[k] # "none" /\ applications[Owner[k]] = "active"

\* The SELECT that validates a key, with the check of app_status.
KeyMatches(k) == api_keys[k] = "active" /\ applications[Owner[k]] = "active"

SetApplication(a, status) == applications' = [applications EXCEPT ![a] = status]

\* An INSERT fails on the foreign key once the application is gone.
InsertKey(k) == HasRow(Owner[k]) /\ api_keys' = [api_keys EXCEPT ![k] = "active"]

\* Mutant: a key is switched off with the status of an application.
DisableKey(k) == api_keys[k] = "active" /\ api_keys' = [api_keys EXCEPT ![k] = "disabled"]

\* UPDATE .. WHERE status = 'active'.
RevokeKey(k) == api_keys[k] = "active" /\ api_keys' = [api_keys EXCEPT ![k] = "revoked"]

\* INSERT .. ON DUPLICATE KEY UPDATE request_count = request_count + 1.
IncrementCount(l, w) == rate_limits' = [rate_limits EXCEPT ![l][w] = @ + 1]

LimitOf(l) == IF l = ByIp THEN PerIp ELSE IF l = ByLogin THEN PerLogin ELSE PerKey

\* Mutant: the request that reaches the limit is one too many.
ReachesLimit(l, w) == rate_limits[l][w] >= LimitOf(l)

Exceeds(l, w) == rate_limits[l][w] > LimitOf(l)

MinutePasses ==
  /\ minute < MaxMinute
  /\ minute' = minute + 1
  /\ UNCHANGED <<appTables, transactions, rate_limits, audit_logs>>

=============================================================================
