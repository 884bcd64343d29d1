------------------------------ MODULE MCBirtuBridge ------------------------------
(* Finite instances of BirtuBridge for TLC. *)
EXTENDS BirtuBridge, TLC

CONSTANTS r1, r2, s1, h1, h2

NoHandlers == {}
OneRequest == {r1}
TwoRequests == {r1, r2}
OneSweeper == {s1}
OneHook == {h1}
TwoHooks == {h1, h2}

\* Every handler may die at every await.
CrashAnywhere == Handlers \X (RequestLabels \cup SweeperLabels \cup HookLabels)

\* ... or only at those that do not leave a row in PENDING_CREATION.
CrashAfterForwarding ==
  {c \in CrashAnywhere : c[2] # "forward"}

\* ... nor a PAID row nobody is told of.
CrashBeforeSettling ==
  {c \in CrashAfterForwarding : c[2] \notin {"finish", "enqueue"}}

\* ... or only between two writes; elsewhere a death ends like an error the handler meets.
CrashBetweenWrites ==
  {c \in CrashAnywhere : c[2] \in {"supersede", "insertNext", "forward", "finish", "enqueue"}}

NoEvents == {}
PaidEvent == {<<1, "success">>}
EarlyEvent == {<<1, "failed">>}
BothEvents == PaidEvent \cup EarlyEvent

RequestSymmetry == Permutations(TwoRequests)
HandlerSymmetry == RequestSymmetry \cup Permutations(TwoHooks)

=============================================================================
