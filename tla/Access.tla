---------------------------------- MODULE Access ----------------------------------
(* Clients that call the JSON API, logins, and admins who create, archive and delete *)
(* applications and issue and revoke their keys, all at once.                        *)
EXTENDS AppService, FiniteSets

VARIABLE settled   \* recorded for the properties: payments inserted while no deletion of
                   \* their application had counted

accessVars ==
  <<appTables, transactions, limitVars, audit_logs, callerVars, adminVars, settled>>

Init ==
  /\ TablesInit
  /\ CallerInit
  /\ AdminInit
  /\ settled = {}

\* The JSON API of the admin, and the pages, which can do all that and more.
AdminApi(d) ==
  \/ \E a \in Applications : CreateApplication(d, a) \/ StartApiKey(d, a)
  \/ \E k \in Keys : RevokeApiKey(d, k)
  \/ FinishApiKey(d)

AdminPages(d) ==
  \/ \E a \in Applications :
       ArchiveApplication(d, a) \/ ReactivateApplication(d, a) \/ CountTransactions(d, a)
  \/ LogDeletion(d)
  \/ DeleteApplication(d)

CallerStep(c) ==
  /\ \/ c \in Requests /\ (Arrive(c) \/ Authenticate(c) \/ OfferCheckout(c))
     \/ c \in Logins /\ LogIn(c)
     \/ Count(c) \/ Compare(c) \/ Fail(c)
  /\ UNCHANGED <<adminVars, settled>>

PaymentStep(r) ==
  /\ InsertPayment(r)
  /\ settled' = IF DeletionCounted(Owner[key[r]]) THEN settled ELSE settled \cup {r}
  /\ UNCHANGED adminVars

AdminStep(d) == (AdminApi(d) \/ AdminPages(d) \/ AdminDies(d)) /\ UNCHANGED settled

ClockTicks == MinutePasses /\ UNCHANGED <<callerVars, adminVars, settled>>

Next ==
  \/ \E c \in Callers : CallerStep(c)
  \/ \E r \in Requests : PaymentStep(r)
  \/ \E d \in Admins : AdminStep(d)
  \/ ClockTicks

Spec == Init /\ [][Next]_accessVars

-----------------------------------------------------------------------------
(* Properties *)

\* Types of all tables and of what calls remember.
TypeOK ==
  /\ TablesTypeOK
  /\ CallerTypeOK
  /\ AdminTypeOK
  /\ settled \subseteq Requests

Counted(l, w) == {c \in Callers : rank[c] > 0 /\ limiter[c] = l /\ window[c] = w}

Passed(l, w) == {c \in Callers : verdict[c] = "passed" /\ limiter[c] = l /\ window[c] = w}

\* Of the requests counted under one key, address or e-mail in one minute, no more than
\* the limit pass, although incrementing and reading the counter are two statements.
LimitHolds ==
  \A l \in LimiterKeys, w \in Minutes : Cardinality(Passed(l, w)) <= LimitOf(l)

\* Nobody is refused unless more than the limit were counted in that very minute, also
\* when the minute changes while the request is on its way.
RefusedOnlyOverLimit ==
  \A c \in Callers :
    verdict[c] = "refused" => Cardinality(Counted(limiter[c], window[c])) > LimitOf(limiter[c])

\* A request that comes after its key was revoked, or after its application was archived
\* or deleted, is not let in, unless the application is reactivated meanwhile.
BarredStayOut == \A r \in barred : ~LetIn(r)

\* No application is gone without a word in the audit log or an error message in its
\* place: the event is written ahead, so that a death in between cannot lose it.
DeletionIsLogged == \A a \in Applications : applications[a] = "deleted" => a \in audit_logs

\* A payment recorded while no deletion of its application had counted yet is never
\* deleted: the COUNT of a later deletion finds it.
SettledHistoryIsKept == settled \subseteq transactions

\* Violated by the code: a client that was given a URL has its payment on record.
OfferedIsRecorded == offered \subseteq transactions

-----------------------------------------------------------------------------
(* The inductive invariant *)

\* What a caller has behind it at its label.
ProgressInv ==
  /\ \A c \in Callers :
       /\ pc[c] \in {"idle", "authenticate", "count"} => rank[c] = 0 /\ verdict[c] = "none"
       /\ pc[c] = "compare" => rank[c] > 0
       /\ verdict[c] # "none" => rank[c] > 0
  /\ \A r \in Requests :
       /\ limiter[r] \in {ByIp, key[r]}
       /\ pc[r] \in {"idle", "authenticate"} => limiter[r] = ByIp
       /\ pc[r] = "insert" => limiter[r] \in Keys
       /\ r \in transactions => pc[r] # "idle" /\ key[r] \in Keys

\* The counts that increments led to differ, and those that passed are within the limit.
RankInv ==
  /\ \A c \in Callers : rank[c] <= rate_limits[limiter[c]][window[c]]
  /\ \A c, d \in Callers :
       c # d /\ rank[c] > 0 /\ limiter[c] = limiter[d] /\ window[c] = window[d]
         => rank[c] # rank[d]
  /\ \A c \in Callers : verdict[c] = "passed" => rank[c] <= LimitOf(limiter[c])

\* A row counts the increments it had.
CountInv ==
  /\ \A l \in LimiterKeys, w \in Minutes :
       IsFiniteSet(Counted(l, w)) /\ Cardinality(Counted(l, w)) = rate_limits[l][w]
  /\ \A c \in Callers : verdict[c] = "refused" => Exceeds(limiter[c], window[c])

\* What is off stays off, and what is off is counted by address.
BarredInv ==
  \A r \in barred :
    /\ pc[r] # "idle"
    /\ key[r] \in Keys => api_keys[key[r]] # "none"
    /\ SwitchedOff(key[r])
    /\ limiter[r] = ByIp

\* From its COUNT on, a deletion has nothing settled in front of it.
DeletionInv ==
  /\ DeletionIsLogged
  /\ SettledHistoryIsKept
  /\ \A d \in Admins :
       /\ task[d] = "delete" => target[d] \in audit_logs
       /\ task[d] \in {"logDeletion", "delete"} =>
            \A r \in settled : Owner[key[r]] # target[d]

IInv ==
  /\ TypeOK
  /\ ProgressInv
  /\ RankInv
  /\ CountInv
  /\ BarredInv
  /\ DeletionInv

=============================================================================
