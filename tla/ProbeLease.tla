------------------------------- MODULE ProbeLease -------------------------------
(* What the breaker promises about its probe: it is leased.  Somebody new gets it only   *)
(* when every lease before is given back or has expired, and whoever gives it back       *)
(* gives back its own.                                                                    *)

CONSTANT Actors

VARIABLES holders,  \* actors that have the lease and have not given it back
          expired   \* those whose lease has run out

LeaseInit == holders = {} /\ expired = {}

Acquire(p) ==
  /\ p \notin holders
  /\ holders \subseteq expired
  /\ holders' = holders \cup {p}
  /\ UNCHANGED expired

\* One actor gives the lease back, or all do that die together.
Release(S) ==
  /\ holders' = holders \ S
  /\ expired' = expired \ S

Expire ==
  /\ expired' = holders
  /\ UNCHANGED holders

LeaseNext ==
  \/ \E p \in Actors : Acquire(p)
  \/ \E S \in SUBSET Actors : Release(S)
  \/ Expire

LeaseSpec == LeaseInit /\ [][LeaseNext]_<<holders, expired>>

=============================================================================
