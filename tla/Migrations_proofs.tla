---------------------------- MODULE Migrations_proofs ----------------------------
(* What holds for any number of files and of overlapping runs.  A recorded file is    *)
(* applied in full because it is recorded last, and a run reaches a file only when    *)
(* all before it are recorded: read so at its start, or recorded by itself.           *)
EXTENDS Migrations, TLAPS

USE FilesAssumption

\* The initial state.
LEMMA InitIInv == Init => IInv
BY DEF Init, IInv, TypeOK, RecordedInv, RunInv, Underway

\* Turning to the next file: all before it are recorded.
LEMMA NextFileInv ==
  ASSUME NEW m \in Runs, TypeOK, NEW done, NEW last \in 0..Files, NEW from \in 0..Files,
         ToNextFile(m, Left(done, last, from)),
         done \subseteq schema_migrations', 1..from \subseteq schema_migrations'
  PROVE  /\ file' \in [Runs -> 0..Files]
         /\ \/ pc' = [pc EXCEPT ![m] = "complete"] /\ file' = file
               /\ 1..last \subseteq schema_migrations'
            \/ /\ pc' = [pc EXCEPT ![m] = "create"]
               /\ \E f \in 1..last : file' = [file EXCEPT ![m] = f]
                                     /\ 1..(f - 1) \subseteq schema_migrations'
<1> DEFINE left == Left(done, last, from)
<1>1. CASE left = {} /\ Goes(m, "complete") /\ UNCHANGED file
  <2>1. ASSUME NEW g \in 1..last PROVE g \in schema_migrations'
    <3>1. g \in 1..from \/ g \in done
      BY <1>1 DEF Left
    <3> QED
      BY <3>1
  <2> QED
    BY <1>1, <2>1 DEF Goes, TypeOK
<1>2. ASSUME NEW f \in left, \A g \in left : f <= g,
             file' = [file EXCEPT ![m] = f], Goes(m, "create")
      PROVE  f \in 1..last /\ 1..(f - 1) \subseteq schema_migrations'
  <2>1. f \in 1..last
    BY DEF Left
  <2>2. ASSUME NEW g \in 1..(f - 1) PROVE g \in schema_migrations'
    <3>1. g \in 1..last /\ g \notin left
      BY <1>2, <2>1
    <3> QED
      BY <3>1 DEF Left
  <2> QED
    BY <2>1, <2>2
<1>3. CASE \E f \in left : /\ \A g \in left : f <= g
                           /\ file' = [file EXCEPT ![m] = f]
                           /\ Goes(m, "create")
  <2>1. PICK f \in left : /\ \A g \in left : f <= g
                          /\ file' = [file EXCEPT ![m] = f]
                          /\ Goes(m, "create")
    BY <1>3
  <2>2. f \in 1..last /\ 1..(f - 1) \subseteq schema_migrations'
    BY <1>2, <2>1
  <2>3. file' \in [Runs -> 0..Files]
    BY <2>1, <2>2 DEF TypeOK
  <2> QED
    BY <2>1, <2>2, <2>3 DEF Goes
<1> QED
  BY <1>1, <1>3 DEF ToNextFile

\* One case for each action.
LEMMA NextIInv == IInv /\ [Next]_migrationVars => IInv'
<1> SUFFICES ASSUME IInv, [Next]_migrationVars PROVE IInv'
  OBVIOUS
<1> USE DEF IInv, TypeOK, RecordedInv, RunInv, Underway, database, runVars, Goes, Remembers
<1>1. ASSUME NEW m \in Runs, Start(m) \/ Dies(m) \/ FindRecorded(m) PROVE IInv'
  <2>1. /\ UNCHANGED <<released, database>>
        /\ deaths' \in 0..MaxDeaths
        /\ \E l \in {"idle", "select"} : pc' = [pc EXCEPT ![m] = l]
        /\ Remembers(m, {}, 0, 0)
    BY <1>1 DEF Start, Dies, FindRecorded
  <2> QED
    BY <2>1
<1>2. ASSUME NEW m \in Runs, Select(m) PROVE IInv'
  <2>1. ToNextFile(m, Left(schema_migrations, released, 0)) /\ UNCHANGED schema_migrations
    BY <1>2 DEF Select
  <2>2. /\ file' \in [Runs -> 0..Files]
        /\ \/ pc' = [pc EXCEPT ![m] = "complete"] /\ file' = file
              /\ 1..released \subseteq schema_migrations'
           \/ /\ pc' = [pc EXCEPT ![m] = "create"]
              /\ \E f \in 1..released : file' = [file EXCEPT ![m] = f]
                                        /\ 1..(f - 1) \subseteq schema_migrations'
    <3>1. released \in 0..Files /\ 0 \in 0..Files /\ 1..0 \subseteq schema_migrations'
      OBVIOUS
    <3>2. schema_migrations \subseteq schema_migrations'
      BY <2>1
    <3> QED
      BY <2>1, <3>1, <3>2, NextFileInv
  <2>3. /\ applied' = [applied EXCEPT ![m] = schema_migrations]
        /\ listed' = [listed EXCEPT ![m] = released]
        /\ released \in 0..Files
        /\ UNCHANGED <<released, tables, chapa_status, schema_migrations, deaths>>
    BY <1>2 DEF Select
  <2>4. TypeOK'
    BY <2>2, <2>3
  <2>5. RecordedInv'
    BY <2>3
  <2>6. RunInv'
    <3>1. CASE pc' = [pc EXCEPT ![m] = "complete"]
      BY <2>2, <2>3, <3>1
    <3>2. ASSUME NEW f \in 1..released,
                 pc' = [pc EXCEPT ![m] = "create"], file' = [file EXCEPT ![m] = f],
                 1..(f - 1) \subseteq schema_migrations'
          PROVE  RunInv'
      BY <2>3, <3>2
    <3> QED
      BY <2>2, <3>1, <3>2
  <2> QED
    BY <2>4, <2>5, <2>6
<1>3. ASSUME NEW m \in Runs, Create(m) PROVE IInv'
  <2>1. /\ file[m] \in 1..Files /\ pc[m] = "create"
        /\ tables' = tables \cup {file[m]}
        /\ \E l \in {"insert", "record"} :
             /\ pc' = [pc EXCEPT ![m] = l]
             /\ l = "record" => file[m] # StatusFile
        /\ UNCHANGED <<released, chapa_status, schema_migrations, applied, listed, file, deaths>>
    <3>1. pc[m] = "create" /\ file[m] \in 1..listed[m] /\ listed[m] \in 0..Files
      BY <1>3 DEF Create
    <3>2. CASE file[m] = StatusFile
      BY <1>3, <3>1, <3>2 DEF Create
    <3>3. CASE file[m] # StatusFile
      BY <1>3, <3>1, <3>3 DEF Create
    <3> QED
      BY <3>2, <3>3
  <2>2. TypeOK'
    BY <2>1
  <2>3. RecordedInv'
    BY <2>1
  <2>4. ASSUME NEW l \in {"insert", "record"}, pc' = [pc EXCEPT ![m] = l],
               l = "record" => file[m] # StatusFile
        PROVE  RunInv'
    BY <2>1, <2>4
  <2> QED
    BY <2>1, <2>2, <2>3, <2>4
<1>4. ASSUME NEW m \in Runs, InsertStatus(m) PROVE IInv'
  BY <1>4 DEF InsertStatus, ChapaStatuses
<1>5. ASSUME NEW m \in Runs, Record(m) PROVE IInv'
  <2>1. /\ schema_migrations' = schema_migrations \cup {file[m]}
        /\ file[m] \in 1..Files /\ file[m] \in tables
        /\ file[m] = StatusFile => chapa_status # "none"
        /\ applied[m] \subseteq schema_migrations'
        /\ 1..file[m] \subseteq schema_migrations'
        /\ UNCHANGED <<released, tables, chapa_status, applied, listed, deaths>>
    BY <1>5 DEF Record
  <2>2. /\ file' \in [Runs -> 0..Files]
        /\ \/ pc' = [pc EXCEPT ![m] = "complete"] /\ file' = file
              /\ 1..listed[m] \subseteq schema_migrations'
           \/ /\ pc' = [pc EXCEPT ![m] = "create"]
              /\ \E f \in 1..listed[m] : file' = [file EXCEPT ![m] = f]
                                         /\ 1..(f - 1) \subseteq schema_migrations'
    BY <1>5, <2>1, NextFileInv DEF Record
  <2>3. TypeOK' /\ RecordedInv'
    BY <2>1, <2>2
  <2>4. RunInv'
    <3>1. CASE pc' = [pc EXCEPT ![m] = "complete"] /\ 1..listed[m] \subseteq schema_migrations'
      BY <2>1, <2>2, <3>1
    <3>2. ASSUME NEW f \in 1..listed[m],
                 pc' = [pc EXCEPT ![m] = "create"], file' = [file EXCEPT ![m] = f],
                 1..(f - 1) \subseteq schema_migrations'
          PROVE  RunInv'
      BY <2>1, <3>2
    <3> QED
      BY <2>2, <3>1, <3>2
  <2> QED
    BY <2>3, <2>4
<1>6. CASE Release
  <2>1. /\ released' \in FirstRelease..Files
        /\ UNCHANGED <<database, runVars, deaths>>
    BY <1>6 DEF Release
  <2> QED
    BY <2>1
<1>7. CASE BreakerMoves
  BY <1>7 DEF BreakerMoves, ChapaStatuses
<1>8. CASE UNCHANGED migrationVars
  BY <1>8 DEF migrationVars
<1> QED
  BY <1>1, <1>2, <1>3, <1>4, <1>5, <1>6, <1>7, <1>8 DEF Next, RunGoesOn

\* The invariant holds in every reachable state.
THEOREM MigrationsInvariant == Spec => []IInv
BY InitIInv, NextIInv, PTL DEF Spec

\* Types of the database and of what runs remember.
THEOREM MigrationsTypeCorrect == Spec => []TypeOK
<1>1. IInv => TypeOK
  BY DEF IInv
<1> QED
  BY <1>1, MigrationsInvariant, PTL

\* "Migrations complete." is true.
THEOREM CompleteRunsAppliedAll == Spec => []CompleteMeansAll
<1>1. IInv => CompleteMeansAll
  BY DEF IInv, TypeOK, RecordedInv, RunInv, CompleteMeansAll
<1> QED
  BY <1>1, MigrationsInvariant, PTL

\* No foreign key misses its table: a file refers only to files before it.
THEOREM ForeignKeysHaveTables == Spec => []ReferencesExist
<1>1. IInv => ReferencesExist
  <2> SUFFICES ASSUME IInv, NEW m \in Runs, pc[m] = "create", NEW g \in References[file[m]]
               PROVE  g \in tables
    BY DEF ReferencesExist
  <2>1. file[m] \in 1..Files /\ 1..(file[m] - 1) \subseteq schema_migrations
    BY DEF IInv, TypeOK, RunInv
  <2>2. g \in 1..(file[m] - 1)
    BY <2>1
  <2> QED
    BY <2>1, <2>2 DEF IInv, RecordedInv
<1> QED
  BY <1>1, MigrationsInvariant, PTL

\* Nothing but the breaker changes its row once it is there.
THEOREM BreakerRowSurvives == Spec => StatusSurvives
<1>1. [Next]_migrationVars =>
        [chapa_status # "none" /\ chapa_status' # chapa_status => BreakerMoves]_migrationVars
  BY DEF Next, RunGoesOn, Start, Select, Create, InsertStatus, Record, FindRecorded, Dies,
         Release, migrationVars, database
<1> QED
  BY <1>1, PTL DEF Spec, StatusSurvives

-----------------------------------------------------------------------------
(* Overlapping runs together implement SchemaVersion.  What IInv says of one run is    *)
(* not enough: that the tables stop at the next file's takes VersionInv, which says    *)
(* where the database stands, and RunInv, which says how far a run can be from that.   *)

\* One step of the schema's version, or none that shows.
VersionStep == [Version!VersionNext]_<<schema_migrations, tables>>

\* Creating a table again does not show, and creating the next one is Begin.
LEMMA CreateVersions ==
  ASSUME IInv, VersionInv, NEW m \in Runs, Create(m)
  PROVE  VersionInv' /\ VersionStep
<1>1. PICK n \in 0..Files :
        schema_migrations = 1..n /\ (tables = 1..n \/ tables = 1..(n + 1))
  BY DEF VersionInv
<1>2. /\ file[m] \in 1..Files /\ 1..(file[m] - 1) \subseteq schema_migrations
      /\ tables' = tables \cup {file[m]} /\ schema_migrations' = schema_migrations
  BY DEF Create, IInv, TypeOK, RunInv
<1>3. file[m] <= n + 1
  <2>1. n + 1 \notin 1..(file[m] - 1)
    <3>1. n + 1 \notin 1..n
      OBVIOUS
    <3> QED
      BY <1>1, <1>2, <3>1
  <2> QED
    BY <1>2, <2>1
<1>4. CASE file[m] \in tables
  <2>1. tables' = tables
    BY <1>2, <1>4
  <2> QED
    BY <1>2, <2>1 DEF VersionInv, VersionStep
<1>5. CASE file[m] \notin tables
  <2>1. file[m] = n + 1 /\ tables = 1..n
    BY <1>1, <1>2, <1>3, <1>5
  <2>2. tables' = 1..(n + 1) /\ n \in 0..(Files - 1)
    BY <1>2, <2>1
  <2>3. Version!Begin
    BY <1>1, <1>2, <2>1, <2>2 DEF Version!Begin, Version!AtVersion
  <2> QED
    BY <1>1, <1>2, <2>2, <2>3 DEF VersionInv, VersionStep, Version!VersionNext
<1> QED
  BY <1>4, <1>5

\* The row of a file that was not recorded is that of the next file: Finish.
LEMMA RecordVersions ==
  ASSUME IInv, VersionInv, NEW m \in Runs, Record(m)
  PROVE  VersionInv' /\ VersionStep
<1>1. PICK n \in 0..Files :
        schema_migrations = 1..n /\ (tables = 1..n \/ tables = 1..(n + 1))
  BY DEF VersionInv
<1>2. /\ file[m] \in 1..Files /\ file[m] \in tables /\ file[m] \notin schema_migrations
      /\ schema_migrations' = schema_migrations \cup {file[m]} /\ tables' = tables
  BY DEF Record, IInv, TypeOK, RunInv
<1>3. file[m] = n + 1 /\ tables = 1..(n + 1)
  BY <1>1, <1>2
<1>4. schema_migrations' = 1..(n + 1) /\ n + 1 \in 0..Files
  BY <1>1, <1>2, <1>3
<1>5. Version!Finish
  BY <1>1, <1>2, <1>3, <1>4 DEF Version!Finish
<1> QED
  BY <1>2, <1>3, <1>4, <1>5 DEF VersionInv, VersionStep, Version!VersionNext

\* The other actions touch neither table.
LEMMA NextVersions == IInv /\ VersionInv /\ [Next]_migrationVars => VersionInv' /\ VersionStep
<1> SUFFICES ASSUME IInv, VersionInv, [Next]_migrationVars PROVE VersionInv' /\ VersionStep
  OBVIOUS
<1>1. CASE UNCHANGED <<schema_migrations, tables>>
  BY <1>1 DEF VersionInv, VersionStep
<1>2. ASSUME NEW m \in Runs, Start(m) \/ RunGoesOn(m) \/ Dies(m)
      PROVE  VersionInv' /\ VersionStep
  BY <1>1, <1>2, CreateVersions, RecordVersions
  DEF RunGoesOn, Start, Select, InsertStatus, FindRecorded, Dies, database
<1>3. CASE Release \/ BreakerMoves \/ UNCHANGED migrationVars
  BY <1>1, <1>3 DEF Release, BreakerMoves, migrationVars, database
<1> QED
  BY <1>2, <1>3 DEF Next

\* However many runs overlap, die or skip what others do, the schema moves from one
\* version to the next in the order of the files, and a file's table is at most one ahead
\* of the rows that record the files.
THEOREM RunsImplementVersions == Spec => ImplementsSchemaVersion
<1>1. Init => VersionInv /\ Version!VersionInit
  BY DEF Init, VersionInv, Version!VersionInit, Version!AtVersion
<1> QED
  BY <1>1, InitIInv, NextIInv, NextVersions, PTL
  DEF Spec, ImplementsSchemaVersion, Version!VersionSpec, VersionStep

=============================================================================
