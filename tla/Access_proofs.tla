------------------------------ MODULE Access_proofs ------------------------------
(* Proofs about Access for any number of clients, keys, applications and admins, and *)
(* any limits.                                                                       *)
EXTENDS Access, FiniteSetTheorems, TLAPS

callerTables == <<rate_limits, minute, pc, key, limiter, window, verdict, offered, rank>>

----------------------------------------------------------------------------
(* Types *)

\* What an admin's step writes has the types of the columns.
LEMMA AdminTypes ==
  ASSUME TypeOK, NEW d \in Admins, AdminStep(d)
  PROVE  TypeOK'
<1> USE DEF TypeOK, TablesTypeOK, CallerTypeOK, AdminTypeOK, Tasks, AdminGoes, SetApplication,
            OnlyApps, AdminStays, adminVars, callerVars, limitVars, appTables
<1>0. UNCHANGED settled
  BY DEF AdminStep
<1>1. ASSUME NEW a \in Applications, CreateApplication(d, a) PROVE TypeOK'
  BY <1>0, <1>1 DEF CreateApplication
<1>2. ASSUME NEW a \in Applications, StartApiKey(d, a) PROVE TypeOK'
  BY <1>0, <1>2 DEF StartApiKey
<1>3. ASSUME NEW k \in Keys, RevokeApiKey(d, k) PROVE TypeOK'
  BY <1>0, <1>3 DEF RevokeApiKey, RevokeKey
<1>4. ASSUME FinishApiKey(d) PROVE TypeOK'
  BY <1>0, <1>4 DEF FinishApiKey, InsertKey
<1>5. ASSUME NEW a \in Applications, ArchiveApplication(d, a) PROVE TypeOK'
  BY <1>0, <1>5 DEF ArchiveApplication
<1>6. ASSUME NEW a \in Applications, ReactivateApplication(d, a) PROVE TypeOK'
  BY <1>0, <1>6 DEF ReactivateApplication
<1>7. ASSUME NEW a \in Applications, CountTransactions(d, a) PROVE TypeOK'
  BY <1>0, <1>7 DEF CountTransactions
<1>8. ASSUME LogDeletion(d) PROVE TypeOK'
  BY <1>0, <1>8 DEF LogDeletion
<1>9. ASSUME DeleteApplication(d) PROVE TypeOK'
  BY <1>0, <1>9 DEF DeleteApplication
<1>10. ASSUME AdminDies(d) PROVE TypeOK'
  BY <1>0, <1>10 DEF AdminDies
<1> QED
  BY <1>1, <1>2, <1>3, <1>4, <1>5, <1>6, <1>7, <1>8, <1>9, <1>10
  DEF AdminStep, AdminApi, AdminPages

\* What a step of a caller, or of the clock, writes has the types of the columns.
LEMMA CallerTypes ==
  ASSUME TypeOK, ProgressInv, NEW c \in Callers, CallerStep(c)
  PROVE  TypeOK'
<1> USE DEF TypeOK, TablesTypeOK, CallerTypeOK, AdminTypeOK, CallerGoes, CallerLabels,
            appTables, adminVars, limitVars
<1>0. UNCHANGED <<task, target, settled>>
  BY DEF CallerStep
<1>1. CASE c \in Requests /\ Arrive(c)
  BY <1>0, <1>1 DEF Arrive
<1>2. CASE c \in Requests /\ Authenticate(c)
  BY <1>0, <1>2 DEF Authenticate, LimiterKeys, Matches, CallerStep
<1>3. CASE c \in Requests /\ OfferCheckout(c)
  BY <1>0, <1>3 DEF OfferCheckout
<1>4. CASE LogIn(c)
  BY <1>0, <1>4 DEF LogIn
<1>5. CASE Count(c)
  BY <1>0, <1>5 DEF Count, IncrementCount
<1>6. CASE Compare(c)
  BY <1>0, <1>6 DEF Compare
<1>7. CASE Fail(c)
  BY <1>0, <1>7 DEF Fail
<1> QED
  BY <1>1, <1>2, <1>3, <1>4, <1>5, <1>6, <1>7 DEF CallerStep

\* Nor does a payment, or the clock.
LEMMA OtherTypes ==
  ASSUME TypeOK,
         \/ \E r \in Requests : PaymentStep(r)
         \/ ClockTicks
         \/ UNCHANGED accessVars
  PROVE  TypeOK'
<1> USE DEF TypeOK, TablesTypeOK, CallerTypeOK, AdminTypeOK, CallerGoes, CallerLabels,
            appTables, adminVars, limitVars, callerVars
<1>1. ASSUME NEW r \in Requests, PaymentStep(r) PROVE TypeOK'
  BY <1>1 DEF PaymentStep, InsertPayment, Callers
<1>2. ASSUME ClockTicks PROVE TypeOK'
  BY <1>2, LimitsAssumption DEF ClockTicks, MinutePasses, Minutes
<1>3. ASSUME UNCHANGED accessVars PROVE TypeOK'
  BY <1>3 DEF accessVars
<1> QED
  BY <1>1, <1>2, <1>3

----------------------------------------------------------------------------
(* Frames *)

\* An admin's step leaves callers and counters alone and inserts no payment.
LEMMA AdminFrame ==
  ASSUME NEW d \in Admins, AdminStep(d)
  PROVE  /\ UNCHANGED callerTables
         /\ UNCHANGED settled
         /\ transactions' \subseteq transactions
<1> USE DEF OnlyApps, AdminStays, callerVars, limitVars, callerTables
<1>1. ASSUME NEW a \in Applications,
             CreateApplication(d, a) \/ ArchiveApplication(d, a) \/ ReactivateApplication(d, a)
      PROVE  UNCHANGED callerTables /\ transactions' \subseteq transactions
  BY <1>1 DEF CreateApplication, ArchiveApplication, ReactivateApplication
<1>2. ASSUME NEW a \in Applications, StartApiKey(d, a) \/ CountTransactions(d, a)
      PROVE  UNCHANGED callerTables /\ transactions' \subseteq transactions
  BY <1>2 DEF StartApiKey, CountTransactions
<1>3. ASSUME NEW k \in Keys, RevokeApiKey(d, k)
      PROVE  UNCHANGED callerTables /\ transactions' \subseteq transactions
  BY <1>3 DEF RevokeApiKey
<1>4. ASSUME FinishApiKey(d) \/ LogDeletion(d) \/ AdminDies(d)
      PROVE  UNCHANGED callerTables /\ transactions' \subseteq transactions
  BY <1>4 DEF FinishApiKey, LogDeletion, AdminDies
<1>5. ASSUME DeleteApplication(d)
      PROVE  UNCHANGED callerTables /\ transactions' \subseteq transactions
  BY <1>5 DEF DeleteApplication
<1> QED
  BY <1>1, <1>2, <1>3, <1>4, <1>5 DEF AdminStep, AdminApi, AdminPages

\* A count is never taken back.
LEMMA CountsGrow ==
  ASSUME TypeOK, Next
  PROVE  \A l \in LimiterKeys, w \in Minutes : rate_limits[l][w] <= rate_limits'[l][w]
<1>1. rate_limits \in [LimiterKeys -> [Minutes -> Nat]]
  BY DEF TypeOK, TablesTypeOK
<1>2. ASSUME NEW c \in Callers, CallerStep(c)
      PROVE  UNCHANGED rate_limits \/ Count(c)
  BY <1>2 DEF CallerStep, Arrive, Authenticate, OfferCheckout, LogIn, Compare, Fail, limitVars
<1>3. ASSUME NEW c \in Callers, Count(c)
      PROVE  \A l \in LimiterKeys, w \in Minutes : rate_limits[l][w] <= rate_limits'[l][w]
  BY <1>1, <1>3 DEF Count, IncrementCount, TypeOK, CallerTypeOK, TablesTypeOK
<1>4. ASSUME NEW r \in Requests, PaymentStep(r) PROVE UNCHANGED rate_limits
  BY <1>4 DEF PaymentStep, InsertPayment, limitVars
<1>5. ASSUME NEW d \in Admins, AdminStep(d) PROVE UNCHANGED rate_limits
  BY <1>5, AdminFrame DEF callerTables
<1>6. ASSUME ClockTicks PROVE UNCHANGED rate_limits
  BY <1>6 DEF ClockTicks, MinutePasses
<1> QED
  BY <1>1, <1>2, <1>3, <1>4, <1>5, <1>6 DEF Next

----------------------------------------------------------------------------
(* Progress *)

\* A caller's step keeps what every caller has behind it.
LEMMA CallerProgress ==
  ASSUME TypeOK, ProgressInv, NEW c \in Callers, CallerStep(c)
  PROVE  ProgressInv'
<1> USE DEF TypeOK, TablesTypeOK, CallerTypeOK, ProgressInv, CallerGoes, CallerLabels, Callers,
            limitVars
<1>1. CASE c \in Requests /\ Arrive(c)
  <2>1. /\ pc[c] = "idle"
        /\ pc' = [pc EXCEPT ![c] = "authenticate"]
        /\ \E k \in Keys \cup {NoKey} : key' = [key EXCEPT ![c] = k]
        /\ UNCHANGED <<transactions, limiter, window, verdict, rank>>
    BY <1>1 DEF Arrive
  <2>2. limiter[c] = ByIp
    BY <1>1, <2>1
  <2> QED
    BY <1>1, <2>1, <2>2
<1>2. CASE c \in Requests /\ Authenticate(c)
  BY <1>2, CallersAssumption DEF Authenticate, Matches
<1>3. CASE c \in Requests /\ OfferCheckout(c)
  BY <1>3 DEF OfferCheckout
<1>4. CASE c \in Logins /\ LogIn(c)
  BY <1>4, CallersAssumption DEF LogIn
<1>5. CASE Count(c)
  BY <1>5 DEF Count, IncrementCount
<1>6. CASE Compare(c)
  BY <1>6 DEF Compare
<1>7. CASE Fail(c)
  BY <1>7 DEF Fail
<1> QED
  BY <1>1, <1>2, <1>3, <1>4, <1>5, <1>6, <1>7 DEF CallerStep

\* So does every step.
LEMMA NextProgress ==
  ASSUME TypeOK, ProgressInv, Next
  PROVE  ProgressInv'
<1>1. ASSUME NEW r \in Requests, PaymentStep(r) PROVE ProgressInv'
  <2>1. key[r] \in Keys
    BY <1>1, LimitsAssumption DEF PaymentStep, InsertPayment, ProgressInv
  <2> QED
    BY <1>1, <2>1 DEF PaymentStep, InsertPayment, ProgressInv, CallerGoes, TypeOK, CallerTypeOK,
                      Callers
<1>2. ASSUME NEW d \in Admins, AdminStep(d) PROVE ProgressInv'
  BY <1>2, AdminFrame DEF callerTables, ProgressInv
<1>3. ASSUME ClockTicks PROVE ProgressInv'
  BY <1>3 DEF ClockTicks, MinutePasses, callerVars, ProgressInv
<1> QED
  BY <1>1, <1>2, <1>3, CallerProgress DEF Next

----------------------------------------------------------------------------
(* The limits *)

\* Steps that touch no counter and no rank, and change a limiter only where the rank is 0.
Uncounting ==
  /\ UNCHANGED <<rate_limits, window, verdict, rank>>
  /\ \A c \in Callers : rank[c] > 0 => limiter'[c] = limiter[c]

\* All steps are such, but those that count and those that compare.
LEMMA StepKinds ==
  ASSUME TypeOK, ProgressInv, Next
  PROVE  Uncounting \/ \E c \in Callers : Count(c) \/ Compare(c)
<1> USE DEF Uncounting
<1>1. ASSUME NEW c \in Callers, CallerStep(c)
      PROVE  Uncounting \/ Count(c) \/ Compare(c)
  <2>1. CASE c \in Requests /\ Arrive(c)
    BY <2>1 DEF Arrive, limitVars
  <2>2. CASE c \in Requests /\ Authenticate(c)
    BY <2>2 DEF Authenticate, limitVars, ProgressInv, TypeOK, CallerTypeOK, Callers
  <2>3. CASE OfferCheckout(c) \/ LogIn(c) \/ Fail(c)
    BY <2>3 DEF OfferCheckout, LogIn, Fail, limitVars
  <2> QED
    BY <1>1, <2>1, <2>2, <2>3 DEF CallerStep
<1>2. ASSUME NEW r \in Requests, PaymentStep(r) PROVE Uncounting
  BY <1>2 DEF PaymentStep, InsertPayment, limitVars
<1>3. ASSUME NEW d \in Admins, AdminStep(d) PROVE Uncounting
  BY <1>3, AdminFrame DEF callerTables
<1>4. ASSUME ClockTicks PROVE Uncounting
  BY <1>4 DEF ClockTicks, MinutePasses, callerVars
<1> QED
  BY <1>1, <1>2, <1>3, <1>4 DEF Next

\* A limit is a number.
LEMMA LimitType == \A l \in LimiterKeys : LimitOf(l) \in Nat
BY LimitsAssumption DEF LimitOf

\* Every increment leads to a number of its own: the counter only grows.
LEMMA NextRank ==
  ASSUME TypeOK, ProgressInv, RankInv, Next, TypeOK'
  PROVE  RankInv'
<1> USE DEF TypeOK, TablesTypeOK, CallerTypeOK, RankInv
<1>1. CASE Uncounting
  <2>1. \A c \in Callers : verdict[c] = "passed" => rank[c] > 0
    BY DEF ProgressInv
  <2>2. ASSUME NEW c \in Callers
        PROVE  rank[c] <= rate_limits[limiter'[c]][window[c]]
    <3>1. CASE rank[c] = 0
      <4>1. limiter'[c] \in LimiterKeys /\ window[c] \in Minutes
        OBVIOUS
      <4> QED
        BY <3>1, <4>1
    <3>2. CASE rank[c] > 0
      BY <1>1, <3>2 DEF Uncounting
    <3> QED
      BY <3>1, <3>2
  <2>3. ASSUME NEW c \in Callers, NEW d \in Callers, c # d, rank[c] > 0,
               limiter'[c] = limiter'[d], window[c] = window[d]
        PROVE  rank[c] # rank[d]
    BY <1>1, <2>3 DEF Uncounting
  <2>4. \A c \in Callers : verdict[c] = "passed" => rank[c] <= LimitOf(limiter'[c])
    BY <1>1, <2>1 DEF Uncounting
  <2> QED
    BY <1>1, <2>2, <2>3, <2>4 DEF Uncounting
<1>2. ASSUME NEW c \in Callers, Count(c) PROVE RankInv'
  <2> DEFINE n == rate_limits[limiter[c]][minute]
  <2>1. /\ rank[c] = 0 /\ verdict[c] = "none"
        /\ n \in Nat
    BY <1>2 DEF Count, ProgressInv
  <2>2. /\ rate_limits' = [rate_limits EXCEPT ![limiter[c]][minute] = n + 1]
        /\ window' = [window EXCEPT ![c] = minute]
        /\ rank' = [rank EXCEPT ![c] = n + 1]
        /\ UNCHANGED <<limiter, verdict>>
    BY <1>2 DEF Count, IncrementCount
  <2>3. rate_limits'[limiter[c]][minute] = n + 1
    BY <2>1, <2>2
  <2>4. \A d \in Callers : rank'[d] <= rate_limits'[limiter'[d]][window'[d]]
    <3>1. ASSUME NEW d \in Callers, d # c
          PROVE  rank'[d] <= rate_limits'[limiter'[d]][window'[d]]
      <4>1. /\ rank'[d] = rank[d] /\ limiter'[d] = limiter[d] /\ window'[d] = window[d]
            /\ limiter[d] \in LimiterKeys /\ window[d] \in Minutes
        BY <2>2, <3>1
      <4>2. rate_limits[limiter[d]][window[d]] <= rate_limits'[limiter[d]][window[d]]
        BY <4>1, CountsGrow
      <4> QED
        BY <4>1, <4>2
    <3>2. rank'[c] = n + 1 /\ limiter'[c] = limiter[c] /\ window'[c] = minute
      BY <2>2
    <3> QED
      BY <2>1, <2>3, <3>1, <3>2
  <2>5. ASSUME NEW d \in Callers, d # c, limiter[d] = limiter[c], window[d] = minute
        PROVE  rank[d] # n + 1
    BY <2>1, <2>5
  <2> HIDE DEF n
  <2>6. ASSUME NEW d \in Callers, NEW e \in Callers, d # e, rank'[d] > 0,
               limiter'[d] = limiter'[e], window'[d] = window'[e]
        PROVE  rank'[d] # rank'[e]
    BY <2>1, <2>2, <2>5, <2>6
  <2>7. \A d \in Callers : verdict'[d] = "passed" => rank'[d] <= LimitOf(limiter'[d])
    BY <2>1, <2>2
  <2> QED
    BY <2>4, <2>6, <2>7
<1>3. ASSUME NEW c \in Callers, Compare(c) PROVE RankInv'
  BY <1>3, LimitType DEF Compare, Exceeds, limitVars
<1> QED
  BY <1>1, <1>2, <1>3, StepKinds

\* A counter is the number of those who incremented it.
LEMMA NextCount ==
  ASSUME TypeOK, ProgressInv, CountInv, Next, TypeOK'
  PROVE  CountInv'
<1> USE DEF TypeOK, TablesTypeOK, CallerTypeOK
<1>0. ASSUME NEW c \in Callers, verdict'[c] = verdict[c], verdict[c] = "refused",
             limiter'[c] = limiter[c], window'[c] = window[c]
      PROVE  Exceeds(limiter[c], window[c])'
  BY <1>0, CountsGrow, LimitType DEF CountInv, Exceeds
<1>1. CASE Uncounting
  <2>1. \A l \in LimiterKeys, w \in Minutes : Counted(l, w)' = Counted(l, w)
    BY <1>1 DEF Uncounting, Counted
  <2>2. \A c \in Callers : verdict[c] = "refused" => rank[c] > 0
    BY DEF ProgressInv
  <2> QED
    BY <1>0, <1>1, <2>1, <2>2 DEF Uncounting, CountInv
<1>2. ASSUME NEW c \in Callers, Count(c) PROVE CountInv'
  <2>1. /\ rank[c] = 0 /\ verdict[c] = "none"
        /\ window' = [window EXCEPT ![c] = minute]
        /\ rank'[c] > 0
        /\ \A d \in Callers : d # c => rank'[d] = rank[d]
        /\ UNCHANGED <<limiter, verdict>>
    BY <1>2 DEF Count, ProgressInv
  <2>2. ASSUME NEW l \in LimiterKeys, NEW w \in Minutes
        PROVE  /\ IsFiniteSet(Counted(l, w)')
               /\ Cardinality(Counted(l, w)') = rate_limits'[l][w]
    <3>1. IsFiniteSet(Counted(l, w)) /\ Cardinality(Counted(l, w)) = rate_limits[l][w]
      BY DEF CountInv
    <3>2. CASE l = limiter[c] /\ w = minute
      <4>1. Counted(l, w)' = Counted(l, w) \cup {c} /\ c \notin Counted(l, w)
        BY <2>1, <3>2 DEF Counted
      <4>2. rate_limits'[l][w] = rate_limits[l][w] + 1
        BY <1>2, <3>2 DEF Count, IncrementCount
      <4>3. ASSUME NEW S, IsFiniteSet(S), c \notin S
            PROVE  IsFiniteSet(S \cup {c}) /\ Cardinality(S \cup {c}) = Cardinality(S) + 1
        BY <4>3, FS_AddElement
      <4>4. /\ IsFiniteSet(Counted(l, w) \cup {c})
            /\ Cardinality(Counted(l, w) \cup {c}) = Cardinality(Counted(l, w)) + 1
        BY <3>1, <4>1, <4>3
      <4> QED
        BY <3>1, <4>1, <4>2, <4>4
    <3>3. CASE ~(l = limiter[c] /\ w = minute)
      <4>1. Counted(l, w)' = Counted(l, w)
        BY <2>1, <3>3 DEF Counted
      <4>2. rate_limits'[l][w] = rate_limits[l][w]
        <5>1. rate_limits' = [rate_limits EXCEPT ![limiter[c]][minute] = @ + 1]
          BY <1>2 DEF Count, IncrementCount
        <5>2. CASE l # limiter[c]
          BY <5>1, <5>2
        <5>3. CASE l = limiter[c] /\ w # minute
          <6>1. rate_limits'[l] = [rate_limits[l] EXCEPT ![minute] = @ + 1]
            BY <5>1, <5>3
          <6> QED
            BY <5>3, <6>1
        <5> QED
          BY <3>3, <5>2, <5>3
      <4> QED
        BY <3>1, <4>1, <4>2
    <3> QED
      BY <3>2, <3>3
  <2>3. \A d \in Callers : verdict'[d] = "refused" => Exceeds(limiter[d], window[d])'
    BY <1>0, <2>1
  <2> QED
    BY <2>2, <2>3 DEF CountInv
<1>3. ASSUME NEW c \in Callers, Compare(c) PROVE CountInv'
  <2>1. UNCHANGED <<rate_limits, limiter, window, rank>>
    BY <1>3 DEF Compare, limitVars
  <2>2. \A l \in LimiterKeys, w \in Minutes : Counted(l, w)' = Counted(l, w)
    BY <2>1 DEF Counted
  <2>3. \A d \in Callers : verdict'[d] = "refused" => Exceeds(limiter[d], window[d])'
    BY <1>3, <2>1 DEF Compare, CountInv, Exceeds
  <2> QED
    BY <2>1, <2>2, <2>3 DEF CountInv
<1> QED
  BY <1>1, <1>2, <1>3, StepKinds

----------------------------------------------------------------------------
(* Who is barred *)

StillOff(r) ==
  r \in barred /\ SwitchedOff(key[r])' /\ (key'[r] \in Keys => api_keys'[key'[r]] # "none")

\* What is off stays off at every step of an admin but a reactivation.
LEMMA OffStaysOff ==
  ASSUME TypeOK, NEW d \in Admins, AdminStep(d), NEW r \in barred', BarredInv
  PROVE  StillOff(r)
<1> USE DEF TypeOK, TablesTypeOK, CallerTypeOK, SwitchedOff, OnlyApps, AdminStays, callerVars,
            SetApplication, BarredInv, StillOff
<1>0. /\ key' = key
     /\ \/ key[r] = NoKey
        \/ key[r] \in Keys /\ Owner[key[r]] \in Applications
  <2>1. r \in Requests
    BY AdminTypes
  <2>2. key' = key
    BY AdminFrame DEF callerTables
  <2> QED
    BY <2>1, <2>2, OwnerAssumption
<1>1. ASSUME NEW a \in Applications, CreateApplication(d, a)
      PROVE  StillOff(r)
  BY <1>0, <1>1 DEF CreateApplication
<1>2. ASSUME NEW a \in Applications, StartApiKey(d, a) \/ CountTransactions(d, a)
      PROVE  StillOff(r)
  BY <1>0, <1>2 DEF StartApiKey, CountTransactions
<1>3. ASSUME NEW k \in Keys, RevokeApiKey(d, k)
      PROVE  StillOff(r)
  BY <1>0, <1>3 DEF RevokeApiKey, RevokeKey
<1>4. ASSUME FinishApiKey(d)
      PROVE  StillOff(r)
  BY <1>0, <1>4 DEF FinishApiKey, InsertKey
<1>5. ASSUME NEW a \in Applications, ArchiveApplication(d, a)
      PROVE  StillOff(r)
  BY <1>0, <1>5 DEF ArchiveApplication
<1>6. ASSUME NEW a \in Applications, ReactivateApplication(d, a)
      PROVE  StillOff(r)
  BY <1>0, <1>6, LimitsAssumption DEF ReactivateApplication
<1>7. ASSUME LogDeletion(d) \/ AdminDies(d)
      PROVE  StillOff(r)
  BY <1>0, <1>7 DEF LogDeletion, AdminDies
<1>8. ASSUME DeleteApplication(d)
      PROVE  StillOff(r)
  BY <1>0, <1>8 DEF DeleteApplication, AdminTypeOK
<1> QED
  BY <1>1, <1>2, <1>3, <1>4, <1>5, <1>6, <1>7, <1>8 DEF AdminStep, AdminApi, AdminPages

\* Whoever came with a key that is off is counted by address.
LEMMA NextBarred ==
  ASSUME TypeOK, ProgressInv, BarredInv, Next
  PROVE  BarredInv'
<1> USE DEF TypeOK, TablesTypeOK, CallerTypeOK, BarredInv, CallerGoes
<1>1. ASSUME NEW c \in Callers, CallerStep(c) PROVE BarredInv'
  <2> USE DEF appTables, SwitchedOff
  <2>1. CASE c \in Requests /\ Arrive(c)
    <3>1. PICK k \in Keys \cup {NoKey} :
            /\ key' = [key EXCEPT ![c] = k]
            /\ barred' = IF SwitchedOff(k) THEN barred \cup {c} ELSE barred
      BY <2>1 DEF Arrive
    <3>2. /\ pc[c] = "idle" /\ pc' = [pc EXCEPT ![c] = "authenticate"]
          /\ UNCHANGED <<applications, api_keys, limiter>>
      BY <2>1 DEF Arrive
    <3>3. limiter[c] = ByIp
      BY <2>1, <3>2 DEF ProgressInv
    <3>4. c \notin barred
      BY <3>2
    <3>5. k \in Keys => api_keys[k] # "none"
      BY <2>1, <3>1, LimitsAssumption, NoKeyAssumption DEF Arrive
    <3>6. ASSUME NEW r \in barred'
          PROVE  /\ pc'[r] # "idle"
                 /\ key'[r] \in Keys => api_keys[key'[r]] # "none"
                 /\ SwitchedOff(key'[r])
                 /\ limiter[r] = ByIp
      BY <2>1, <3>1, <3>2, <3>3, <3>4, <3>5 DEF Callers
    <3> QED
      BY <3>2, <3>6
  <2>2. CASE c \in Requests /\ Authenticate(c)
    <3>1. c \in barred => ~Matches(key[c])
      BY DEF Matches, KeyMatches
    <3> QED
      BY <2>2, <3>1 DEF Authenticate, Callers
  <2>3. CASE OfferCheckout(c) \/ LogIn(c) \/ Count(c) \/ Compare(c) \/ Fail(c)
    BY <2>3 DEF OfferCheckout, LogIn, Count, Compare, Fail, Callers
  <2> QED
    BY <1>1, <2>1, <2>2, <2>3 DEF CallerStep
<1>2. ASSUME NEW r \in Requests, PaymentStep(r) PROVE BarredInv'
  BY <1>2 DEF PaymentStep, InsertPayment, appTables, SwitchedOff, Callers
<1>3. ASSUME NEW d \in Admins, AdminStep(d) PROVE BarredInv'
  <2>1. ASSUME NEW r \in barred' PROVE StillOff(r)
    BY <1>3, OffStaysOff
  <2> QED
    BY <1>3, <2>1, AdminFrame DEF callerTables, StillOff
<1>4. ASSUME ClockTicks PROVE BarredInv'
  BY <1>4 DEF ClockTicks, MinutePasses, callerVars, appTables, SwitchedOff
<1> QED
  BY <1>1, <1>2, <1>3, <1>4 DEF Next

----------------------------------------------------------------------------
(* Deletion *)

\* A deletion meets nothing that was settled before its COUNT, and logs before it deletes.
LEMMA NextDeletion ==
  ASSUME TypeOK, ProgressInv, DeletionInv, Next
  PROVE  DeletionInv'
<1> USE DEF TypeOK, TablesTypeOK, CallerTypeOK, AdminTypeOK, DeletionInv, DeletionIsLogged,
            SettledHistoryIsKept
<1>1. ASSUME NEW c \in Callers, CallerStep(c) PROVE DeletionInv'
  <2>1. /\ UNCHANGED <<applications, transactions, audit_logs, task, target, settled>>
        /\ \A r \in transactions : key'[r] = key[r]
    <3> USE DEF appTables, adminVars
    <3>1. CASE c \in Requests /\ Arrive(c)
      BY <1>1, <3>1 DEF CallerStep, Arrive, ProgressInv
    <3>2. CASE c \in Requests /\ Authenticate(c)
      BY <1>1, <3>2 DEF CallerStep, Authenticate
    <3>3. CASE OfferCheckout(c) \/ LogIn(c) \/ Count(c) \/ Compare(c) \/ Fail(c)
      BY <1>1, <3>3 DEF CallerStep, OfferCheckout, LogIn, Count, Compare, Fail
    <3> QED
      BY <1>1, <3>1, <3>2, <3>3 DEF CallerStep
  <2> QED
    BY <2>1
<1>2. ASSUME NEW r \in Requests, PaymentStep(r) PROVE DeletionInv'
  <2>1. /\ UNCHANGED <<applications, audit_logs, task, target, key>>
        /\ transactions' = transactions \cup {r}
        /\ settled' = IF DeletionCounted(Owner[key[r]]) THEN settled ELSE settled \cup {r}
    BY <1>2 DEF PaymentStep, InsertPayment, appTables, adminVars
  <2> QED
    BY <2>1 DEF DeletionCounted
<1>3. ASSUME NEW d \in Admins, AdminStep(d) PROVE DeletionInv'
  <2> USE DEF OnlyApps, AdminStays, AdminGoes, SetApplication, adminVars, callerVars
  <2>0. UNCHANGED <<key, settled>>
    BY <1>3, AdminFrame DEF callerTables
  <2>1. ASSUME NEW a \in Applications,
               \/ CreateApplication(d, a)
               \/ ArchiveApplication(d, a)
               \/ ReactivateApplication(d, a)
        PROVE  DeletionInv'
    BY <2>0, <2>1 DEF CreateApplication, ArchiveApplication, ReactivateApplication
  <2>2. ASSUME NEW a \in Applications, StartApiKey(d, a) PROVE DeletionInv'
    BY <2>0, <2>2 DEF StartApiKey
  <2>3. ASSUME NEW k \in Keys, RevokeApiKey(d, k) PROVE DeletionInv'
    BY <2>0, <2>3 DEF RevokeApiKey
  <2>4. ASSUME FinishApiKey(d) \/ AdminDies(d) PROVE DeletionInv'
    BY <2>0, <2>4 DEF FinishApiKey, AdminDies
  <2>5. ASSUME NEW a \in Applications, CountTransactions(d, a) PROVE DeletionInv'
    <3>1. \A r \in settled : Owner[key[r]] # a
      BY <2>5 DEF CountTransactions, PaymentsOf
    <3> QED
      BY <2>0, <2>5, <3>1 DEF CountTransactions
  <2>6. ASSUME LogDeletion(d) PROVE DeletionInv'
    BY <2>0, <2>6 DEF LogDeletion
  <2>7. ASSUME DeleteApplication(d) PROVE DeletionInv'
    <3>1. settled \subseteq transactions'
      BY <2>7 DEF DeleteApplication, PaymentsOf
    <3> QED
      BY <2>0, <2>7, <3>1 DEF DeleteApplication
  <2> QED
    BY <1>3, <2>1, <2>2, <2>3, <2>4, <2>5, <2>6, <2>7 DEF AdminStep, AdminApi, AdminPages
<1>4. ASSUME ClockTicks PROVE DeletionInv'
  BY <1>4 DEF ClockTicks, MinutePasses, appTables, adminVars, callerVars
<1> QED
  BY <1>1, <1>2, <1>3, <1>4 DEF Next

----------------------------------------------------------------------------
(* The invariant *)

\* Empty tables and callers yet to come.
LEMMA InitIInv == Init => IInv
<1> SUFFICES ASSUME Init PROVE IInv
  OBVIOUS
<1> USE DEF Init, TablesInit, CallerInit, AdminInit
<1>1. TypeOK
  BY LimitsAssumption DEF TypeOK, TablesTypeOK, CallerTypeOK, AdminTypeOK, Tasks, CallerLabels,
                          LimiterKeys, Minutes
<1>2. ProgressInv
  BY CallersAssumption DEF ProgressInv, Callers
<1>3. RankInv
  <2>1. \A c \in Callers : rank[c] = 0 /\ verdict[c] = "none"
    OBVIOUS
  <2>2. \A c \in Callers : rate_limits[limiter[c]][window[c]] \in Nat
    BY <1>1 DEF TypeOK, TablesTypeOK, CallerTypeOK
  <2> QED
    BY <2>1, <2>2 DEF RankInv
<1>4. CountInv
  <2>1. \A l \in LimiterKeys, w \in Minutes : Counted(l, w) = {}
    BY DEF Counted
  <2> QED
    BY <2>1, FS_EmptySet DEF CountInv
<1>5. BarredInv /\ DeletionInv
  BY DEF BarredInv, DeletionInv, DeletionIsLogged, SettledHistoryIsKept
<1> QED
  BY <1>1, <1>2, <1>3, <1>4, <1>5 DEF IInv

\* Every step keeps it.
LEMMA NextIInv == IInv /\ [Next]_accessVars => IInv'
<1> SUFFICES ASSUME IInv, [Next]_accessVars PROVE IInv'
  OBVIOUS
<1>1. CASE Next
  <2>1. TypeOK'
    BY <1>1, AdminTypes, CallerTypes, OtherTypes DEF IInv, Next
  <2> QED
    BY <1>1, <2>1, NextProgress, NextRank, NextCount, NextBarred, NextDeletion DEF IInv
<1>2. CASE UNCHANGED accessVars
  <2> USE <1>2 DEF accessVars, appTables, limitVars, callerVars, adminVars, IInv
  <2>1. TypeOK'
    BY DEF TypeOK, TablesTypeOK, CallerTypeOK, AdminTypeOK
  <2>2. ProgressInv' /\ RankInv'
    BY DEF ProgressInv, RankInv
  <2>3. CountInv'
    <3>1. \A l \in LimiterKeys, w \in Minutes : Counted(l, w)' = Counted(l, w)
      BY DEF Counted
    <3> QED
      BY <3>1 DEF CountInv, Exceeds
  <2>4. BarredInv'
    BY DEF BarredInv, SwitchedOff
  <2>5. DeletionInv'
    BY DEF DeletionInv, DeletionIsLogged, SettledHistoryIsKept
  <2> QED
    BY <2>1, <2>2, <2>3, <2>4, <2>5
<1> QED
  BY <1>1, <1>2

\* The invariant holds in every reachable state.
THEOREM AccessInvariant == Spec => []IInv
BY InitIInv, NextIInv, PTL DEF Spec

\* Types of tables and of what calls remember.
THEOREM AccessTypeCorrect == Spec => []TypeOK
<1>1. IInv => TypeOK
  BY DEF IInv
<1> QED
  BY <1>1, AccessInvariant, PTL

\* No more than the limit pass in a minute: those that do have different numbers, none
\* above the limit.
THEOREM LimitsHold == Spec => []LimitHolds
<1>1. IInv => LimitHolds
  <2> SUFFICES ASSUME IInv, NEW l \in LimiterKeys, NEW w \in Minutes
               PROVE  Cardinality(Passed(l, w)) <= LimitOf(l)
    BY DEF LimitHolds
  <2> DEFINE n == LimitOf(l)
             f == [c \in Passed(l, w) |-> rank[c]]
  <2>1. n \in Nat
    BY LimitType
  <2>2. \A c \in Passed(l, w) : rank[c] \in 1..n
    BY <2>1 DEF IInv, RankInv, ProgressInv, Passed, TypeOK, CallerTypeOK
  <2>3. \A c, d \in Passed(l, w) : c # d => rank[c] # rank[d]
    BY DEF IInv, RankInv, ProgressInv, Passed
  <2> HIDE DEF n
  <2>4. f \in Injection(Passed(l, w), 1..n)
    BY <2>2, <2>3 DEF Injection, IsInjective
  <2>5. IsFiniteSet(1..n) /\ Cardinality(1..n) = n
    BY <2>1, FS_Interval
  <2> HIDE DEF f
  <2> QED
    BY <2>4, <2>5, FS_Injection DEF n
<1> QED
  BY <1>1, AccessInvariant, PTL

\* Who is refused came in a minute in which more than the limit were counted.
THEOREM RefusalsAreDue == Spec => []RefusedOnlyOverLimit
<1>1. IInv => RefusedOnlyOverLimit
  BY DEF IInv, CountInv, RefusedOnlyOverLimit, Exceeds, TypeOK, CallerTypeOK
<1> QED
  BY <1>1, AccessInvariant, PTL

\* A key that is off does not let anybody in.
THEOREM NoEntryWhenOff == Spec => []BarredStayOut
<1>1. IInv => BarredStayOut
  BY DEF IInv, BarredInv, BarredStayOut, LetIn
<1> QED
  BY <1>1, AccessInvariant, PTL

\* An application is gone only with an event in the audit log: a deletion that is about to
\* come to its DELETE has written it.
THEOREM DeletionsAreLogged == Spec => []DeletionIsLogged
<1>1. IInv => DeletionIsLogged
  BY DEF IInv, DeletionInv
<1> QED
  BY <1>1, AccessInvariant, PTL

\* A deletion takes no payment that was there before its COUNT.
THEOREM DeletionIsSafe == Spec => []SettledHistoryIsKept
<1>1. IInv => SettledHistoryIsKept
  BY DEF IInv, DeletionInv
<1> QED
  BY <1>1, AccessInvariant, PTL

=============================================================================
