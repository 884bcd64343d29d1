------------------------------ MODULE GatewayEntry ------------------------------
(* gatewayEntry.js with apiKeyService.js, loginRateLimiter.js, and what a request    *)
(* that is let in does to the tables.                                                *)
(*                                                                                   *)
(*     authenticate -> count -> compare -> insert -> initialize -> done              *)
(*                                                                                   *)
(* A login enters at count.  Every label is an await; the SELECT of the breaker's    *)
(* status between the first two changes nothing, and only /v1/ping shows its result. *)
EXTENDS AccessTables

CONSTANT NoKey            \* the header is missing, or names a key that never was

ASSUME NoKeyAssumption == NoKey \notin Keys

VARIABLES pc,             \* caller -> label
          key,            \* request -> the key it came with
          limiter,        \* caller -> limiterKey
          window,         \* caller -> the minute it was counted in
          verdict,        \* caller -> what the limiter said
          offered,        \* requests whose client was given a checkout URL
          (* The rest is recorded for the properties and read by no action. *)
          rank,           \* caller -> the count its increment led to, 0 before
          barred          \* requests whose key or application was off when they came, and
                          \* has not come back

callerVars == <<pc, key, limiter, window, verdict, offered, rank, barred>>

CallerLabels ==
  {"idle", "authenticate", "count", "compare", "insert", "initialize", "done"}

CallerTypeOK ==
  /\ pc \in [Callers -> CallerLabels]
  /\ key \in [Requests -> Keys \cup {NoKey}]
  /\ limiter \in [Callers -> LimiterKeys]
  /\ window \in [Callers -> Minutes]
  /\ verdict \in [Callers -> {"none", "passed", "refused"}]
  /\ offered \subseteq Requests
  /\ rank \in [Callers -> Nat]
  /\ barred \subseteq Requests

CallerInit ==
  /\ pc = [c \in Callers |-> "idle"]
  /\ key = [r \in Requests |-> NoKey]
  /\ limiter = [c \in Callers |-> IF c \in Logins THEN ByLogin ELSE ByIp]
  /\ window = [c \in Callers |-> 1]
  /\ verdict = [c \in Callers |-> "none"]
  /\ offered = {}
  /\ rank = [c \in Callers |-> 0]
  /\ barred = {}

CallerGoes(c, l) == pc' = [pc EXCEPT ![c] = l]

Matches(k) == k # NoKey /\ KeyMatches(k)

\* The key is unknown or revoked, or its application archived or deleted.
SwitchedOff(k) ==
  \/ k = NoKey
  \/ api_keys[k] \in {"revoked", "deleted"}
  \/ applications[Owner[k]] \in {"disabled", "deleted"}

LetIn(r) == limiter[r] # ByIp /\ verdict[r] = "passed"

Arrive(r) ==
  /\ pc[r] = "idle"
  /\ \E k \in {NoKey} \cup {k \in Keys : api_keys[k] # "none"} :
       /\ key' = [key EXCEPT ![r] = k]
       /\ barred' = IF SwitchedOff(k) THEN barred \cup {r} ELSE barred
  /\ CallerGoes(r, "authenticate")
  /\ UNCHANGED <<appTables, transactions, limitVars, audit_logs, limiter, window, verdict,
                 offered, rank>>

\* A request with a valid key is counted under the key, any other under its address.
Authenticate(r) ==
  /\ pc[r] = "authenticate"
  /\ limiter' = [limiter EXCEPT ![r] = IF Matches(key[r]) THEN key[r] ELSE ByIp]
  /\ CallerGoes(r, "count")
  /\ UNCHANGED <<appTables, transactions, limitVars, audit_logs, key, window, verdict,
                 offered, rank, barred>>

LogIn(l) ==
  /\ pc[l] = "idle"
  /\ CallerGoes(l, "count")
  /\ UNCHANGED <<appTables, transactions, limitVars, audit_logs, key, limiter, window,
                 verdict, offered, rank, barred>>

\* The window is taken from the clock once, before the INSERT.
Count(c) ==
  /\ pc[c] = "count"
  /\ IncrementCount(limiter[c], minute)
  /\ window' = [window EXCEPT ![c] = minute]
  /\ rank' = [rank EXCEPT ![c] = rate_limits[limiter[c]][minute] + 1]
  /\ CallerGoes(c, "compare")
  /\ UNCHANGED <<appTables, transactions, minute, audit_logs, key, limiter, verdict,
                 offered, barred>>

\* Mutant: the row of the minute it is now is read.
CompareNow(c) ==
  /\ pc[c] = "compare"
  /\ verdict' =
       [verdict EXCEPT ![c] = IF Exceeds(limiter[c], minute) THEN "refused" ELSE "passed"]
  /\ CallerGoes(c, IF limiter[c] \in Keys /\ verdict'[c] = "passed" THEN "insert" ELSE "done")
  /\ UNCHANGED <<appTables, transactions, limitVars, audit_logs, key, limiter, window,
                 offered, rank, barred>>

\* The SELECT of the counter.  An address that passes is told 401, a login that passes has
\* its password checked.
Compare(c) ==
  /\ pc[c] = "compare"
  /\ verdict' =
       [verdict EXCEPT ![c] = IF Exceeds(limiter[c], window[c]) THEN "refused" ELSE "passed"]
  /\ CallerGoes(c, IF limiter[c] \in Keys /\ verdict'[c] = "passed" THEN "insert" ELSE "done")
  /\ UNCHANGED <<appTables, transactions, limitVars, audit_logs, key, limiter, window,
                 offered, rank, barred>>

\* The INSERT of the order's first attempt, which needs its application.
InsertPayment(r) ==
  /\ pc[r] = "insert"
  /\ HasRow(Owner[key[r]])
  /\ transactions' = transactions \cup {r}
  /\ CallerGoes(r, "initialize")
  /\ UNCHANGED <<appTables, limitVars, audit_logs, key, limiter, window, verdict, offered,
                 rank, barred>>

\* markForwarding, the call to Chapa, markInitialized: UPDATEs by id, which do not notice
\* that the row is gone.
OfferCheckout(r) ==
  /\ pc[r] = "initialize"
  /\ offered' = offered \cup {r}
  /\ CallerGoes(r, "done")
  /\ UNCHANGED <<appTables, transactions, limitVars, audit_logs, key, limiter, window,
                 verdict, rank, barred>>

\* A statement or Chapa fails, or the process dies.
Fail(c) ==
  /\ pc[c] \notin {"idle", "done"}
  /\ CallerGoes(c, "done")
  /\ UNCHANGED <<appTables, transactions, limitVars, audit_logs, key, limiter, window,
                 verdict, offered, rank, barred>>

=============================================================================
