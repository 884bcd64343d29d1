------------------------------ MODULE SchemaVersion ------------------------------
(* What the migration runner promises: the schema goes through the versions 0, 1, 2 .. *)
(* in the order of the files, and is never more than one file's tables ahead of what   *)
(* is recorded, however many runs apply files at once.                                  *)
EXTENDS Naturals

CONSTANT Files      \* how many files there will ever be

VARIABLES recorded, \* files recorded as applied
          created   \* files whose table exists

AtVersion(n) == recorded = 1..n /\ created = 1..n

VersionInit == AtVersion(0)

\* The next file in order is begun when all before it are done.
Begin ==
  /\ \E n \in 0..(Files - 1) : AtVersion(n) /\ created' = 1..(n + 1)
  /\ UNCHANGED recorded

\* It is recorded before another is begun.
Finish ==
  /\ recorded # created
  /\ recorded' = created
  /\ UNCHANGED created

VersionNext == Begin \/ Finish

VersionSpec == VersionInit /\ [][VersionNext]_<<recorded, created>>

=============================================================================
