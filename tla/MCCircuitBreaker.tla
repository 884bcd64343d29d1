---------------------------- MODULE MCCircuitBreaker ----------------------------
(* A finite instance of CircuitBreaker for TLC: one worker with two calls at once,   *)
(* and one reconciler run that makes a guarded call of its own.                      *)
EXTENDS CircuitBreaker, TLC

CONSTANTS w1, run1, c1, c2, c3

OneWorker == {w1}
OneRun == {run1}
ThreeCallers == {c1, c2, c3}
TwoInTheWorker == (c1 :> w1) @@ (c2 :> w1) @@ (c3 :> run1)

=============================================================================
