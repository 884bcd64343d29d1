--------------------------------- MODULE MCAccess ---------------------------------
(* Finite instances of Access for TLC. *)
EXTENDS Access, TLC

CONSTANTS r1, r2, l1, d1, d2, k1, a1

OneApplication == {a1}
OneKey == {k1}
AllOfOne == [k \in Keys |-> a1]
OneRequest == {r1}
TwoRequests == {r1, r2}
OneLogin == {l1}
NoLogins == {}
OneAdmin == {d1}
TwoAdmins == {d1, d2}

CallSymmetry == Permutations(TwoRequests) \cup Permutations(TwoAdmins)

=============================================================================
