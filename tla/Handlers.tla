-------------------------------- MODULE Handlers --------------------------------
(* The asynchronous handlers of the bridge and what each keeps between two       *)
(* awaits: a label naming the statement or call it makes next and the values it  *)
(* carries there.  Requests are calls of POST /v1/transactions/initialize,       *)
(* Sweepers are runs of the reconciler script, Hooks are calls of                *)
(* POST /v1/webhooks/chapa.  Every step between two awaits is one action, so     *)
(* what a handler read may be stale when it acts on it.                          *)
EXTENDS ChapaGateway

CONSTANTS Requests, Sweepers, Hooks,
          MayCrash      \* pairs <<handler, label>> at which a handler may fail

Handlers == Requests \cup Sweepers \cup Hooks

ASSUME DisjointHandlers ==
  /\ Requests \cap Sweepers = {}
  /\ Requests \cap Hooks = {}
  /\ Sweepers \cap Hooks = {}

VARIABLES pc,           \* handler -> label
          att,          \* handler -> attempt it works on, 0 when it has none
          kind,         \* handler -> which of the three initialize calls it is in
          got,          \* handler -> answer of Chapa it has not acted on yet
          tries,        \* handler -> duplicate keys met by insertNextAttemptWithRetry
          offered       \* attempts whose checkout URL a client has been given

localVars   == <<pc, att, kind, got, tries>>
handlerVars == <<localVars, offered>>

RecoveryLabels == {"verify", "reset", "supersede", "insertNext", "forward", "call",
                   "await", "reread"}
RequestLabels  == RecoveryLabels \cup {"idle", "insert", "claim", "poll"}
SweeperLabels  == RecoveryLabels \cup {"idle", "select", "next", "mark", "enqueue"}
HookLabels     == {"idle", "lookup", "check", "mark", "finish", "enqueue"}

\* "first": initializeTransaction; "A", "B": the two recovery branches.
Kinds == {"first", "A", "B"}
NoAnswer == "none"

HandlersTypeOK ==
  /\ pc \in [Handlers -> RequestLabels \cup SweeperLabels \cup HookLabels]
  /\ \A p \in Requests : pc[p] \in RequestLabels
  /\ \A p \in Sweepers : pc[p] \in SweeperLabels
  /\ \A p \in Hooks : pc[p] \in HookLabels
  /\ att \in [Handlers -> 0 .. MaxAttempts + 1]
  /\ kind \in [Handlers -> Kinds]
  /\ got \in [Handlers -> InitializeReplies \cup VerifyReplies \cup {NoAnswer}]
  /\ tries \in [Handlers -> 0 .. 2]
  /\ offered \subseteq Attempts

HandlersInit ==
  /\ pc = [p \in Handlers |-> "idle"]
  /\ att = [p \in Handlers |-> 0]
  /\ kind = [p \in Handlers |-> "first"]
  /\ got = [p \in Handlers |-> NoAnswer]
  /\ tries = [p \in Handlers |-> 0]
  /\ offered = {}

----------------------------------------------------------------------------
\* Handler p goes on to label l with nothing else changed in what it carries.
Goto(p, l) ==
  /\ pc' = [pc EXCEPT ![p] = l]
  /\ UNCHANGED <<att, kind, got, tries>>

\* ... or carries attempt a to label l.
GotoWith(p, l, a) ==
  /\ pc' = [pc EXCEPT ![p] = l]
  /\ att' = [att EXCEPT ![p] = a]
  /\ UNCHANGED <<kind, got, tries>>

\* ... or carries the answer r to label l.
GotoAnswered(p, l, r) ==
  /\ pc' = [pc EXCEPT ![p] = l]
  /\ got' = [got EXCEPT ![p] = r]
  /\ UNCHANGED <<att, kind, tries>>

\* Handler p is over (a request or webhook call answers, with whatever status), or,
\* in the reconciler, its current row is and the sweep goes on with the next one.
BackTo(p, l) ==
  /\ pc' = [pc EXCEPT ![p] = l]
  /\ att' = [att EXCEPT ![p] = 0]
  /\ kind' = [kind EXCEPT ![p] = "first"]
  /\ got' = [got EXCEPT ![p] = NoAnswer]
  /\ tries' = [tries EXCEPT ![p] = 0]

Return(p) == BackTo(p, IF p \in Sweepers THEN "next" ELSE "idle")

\* A request answers its client with the checkout URL of attempt a.
Offer(p, a) == offered' = IF p \in Requests THEN offered \cup {a} ELSE offered

\* The worker process dies at an await, or the statement it awaited throws and nobody
\* catches that: the handler is gone, what it wrote stays, and a request on the wire may
\* still arrive.
Crash(p) ==
  /\ <<p, pc[p]>> \in MayCrash
  /\ pc[p] # "idle"
  /\ BackTo(p, "idle")
  /\ IF pc[p] = "await" THEN Abandon(att[p], got[p] # NoAnswer) ELSE UNCHANGED late
  /\ UNCHANGED <<rows, gateway, offered>>

=============================================================================
