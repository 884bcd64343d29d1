------------------------------- MODULE Migrations -------------------------------
(* scripts/migrate.js: runs that apply the files of migrations/ to one database.     *)
(* A file is its place in the sorted list; new releases bring files that sort last.  *)
(* It creates one table, and the one of the breaker inserts its row as well.  The    *)
(* script takes no lock: runs overlap, and one that dies is started again.           *)
EXTENDS Naturals, FiniteSets

CONSTANTS Files,          \* how many files there will ever be
          FirstRelease,   \* how many the first release has
          References,     \* file -> files whose tables its table refers to
          StatusFile,     \* the file that inserts the breaker's row
          Runs,           \* runs that may be in progress at once
          MaxDeaths       \* bound: runs that die, or fail in a statement

ASSUME FilesAssumption ==
  /\ Files \in Nat /\ FirstRelease \in 0..Files /\ MaxDeaths \in Nat
  /\ References \in [1..Files -> SUBSET (1..Files)]
  /\ \A f \in 1..Files : \A g \in References[f] : g < f

VARIABLES released,            \* files on disk: 1..released
          tables,              \* files whose table exists
          chapa_status,        \* the breaker's row, "none" before it is inserted
          schema_migrations,   \* files recorded as applied
          pc,                  \* run -> label, or how it ended
          applied,             \* run -> what it read from schema_migrations
          listed,              \* run -> how many files it found on disk
          file,                \* run -> the file it is at
          deaths

database == <<tables, chapa_status, schema_migrations>>
runVars == <<pc, applied, listed, file>>
migrationVars == <<released, database, runVars, deaths>>

Underway == {"select", "create", "insert", "record"}
ChapaStatuses == {"OPERATIONAL", "DEGRADED", "PROBING"}

TypeOK ==
  /\ released \in FirstRelease..Files
  /\ tables \subseteq 1..Files
  /\ chapa_status \in {"none"} \cup ChapaStatuses
  /\ schema_migrations \subseteq 1..Files
  /\ pc \in [Runs -> Underway \cup {"idle", "complete"}]
  /\ applied \in [Runs -> SUBSET (1..Files)]
  /\ listed \in [Runs -> 0..Files]
  /\ file \in [Runs -> 0..Files]
  /\ deaths \in 0..MaxDeaths

Init ==
  /\ released = FirstRelease
  /\ tables = {}
  /\ chapa_status = "none"
  /\ schema_migrations = {}
  /\ pc = [m \in Runs |-> "idle"]
  /\ applied = [m \in Runs |-> {}]
  /\ listed = [m \in Runs |-> 0]
  /\ file = [m \in Runs |-> 0]
  /\ deaths = 0

Goes(m, l) == pc' = [pc EXCEPT ![m] = l]

Remembers(m, done, last, f) ==
  /\ applied' = [applied EXCEPT ![m] = done]
  /\ listed' = [listed EXCEPT ![m] = last]
  /\ file' = [file EXCEPT ![m] = f]

\* ensureMigrationsTable
Start(m) ==
  /\ pc[m] \notin Underway
  /\ Goes(m, "select")
  /\ Remembers(m, {}, 0, 0)
  /\ UNCHANGED <<released, database, deaths>>

\* The files a run has before it that were not applied when it began.
\* Mutant: the list goes one too far.
LeftOneMore(done, last, from) == {f \in 1..(last + 1) : f > from /\ f \notin done}

Left(done, last, from) == {f \in 1..last : f > from /\ f \notin done}

\* Mutant: the list is not sorted.
ToAnyFile(m, left) ==
  \/ left = {} /\ Goes(m, "complete") /\ UNCHANGED file
  \/ \E f \in left : file' = [file EXCEPT ![m] = f] /\ Goes(m, "create")

ToNextFile(m, left) ==
  \/ left = {} /\ Goes(m, "complete") /\ UNCHANGED file
  \/ \E f \in left :
       /\ \A g \in left : f <= g
       /\ file' = [file EXCEPT ![m] = f]
       /\ Goes(m, "create")

\* getAppliedMigrations and readdirSync, and the first turn of the loop.
Select(m) ==
  /\ pc[m] = "select"
  /\ applied' = [applied EXCEPT ![m] = schema_migrations]
  /\ listed' = [listed EXCEPT ![m] = released]
  /\ ToNextFile(m, Left(schema_migrations, released, 0))
  /\ UNCHANGED <<released, database, deaths>>

\* Mutant: a file whose table exists is taken for applied.
CreateUnlessThere(m) ==
  /\ pc[m] = "create"
  /\ References[file[m]] \subseteq tables
  /\ tables' = tables \cup {file[m]}
  /\ Goes(m, IF file[m] = StatusFile /\ file[m] \notin tables THEN "insert" ELSE "record")
  /\ UNCHANGED <<released, chapa_status, schema_migrations, applied, listed, file, deaths>>

\* Mutant: without IF NOT EXISTS.
CreateNew(m) ==
  /\ pc[m] = "create"
  /\ tables' = tables \cup {file[m]}
  /\ Goes(m, IF file[m] \in tables THEN "idle"
             ELSE IF file[m] = StatusFile THEN "insert" ELSE "record")
  /\ UNCHANGED <<released, chapa_status, schema_migrations, applied, listed, file, deaths>>

\* CREATE TABLE IF NOT EXISTS, which fails where a foreign key has no table to refer to.
Create(m) ==
  /\ pc[m] = "create"
  /\ References[file[m]] \subseteq tables
  /\ tables' = tables \cup {file[m]}
  /\ Goes(m, IF file[m] = StatusFile THEN "insert" ELSE "record")
  /\ UNCHANGED <<released, chapa_status, schema_migrations, applied, listed, file, deaths>>

\* Mutant: ON DUPLICATE KEY UPDATE chapa_status.
InsertAfresh(m) ==
  /\ pc[m] = "insert"
  /\ chapa_status' = "OPERATIONAL"
  /\ Goes(m, "record")
  /\ UNCHANGED <<released, tables, schema_migrations, applied, listed, file, deaths>>

\* INSERT .. ON DUPLICATE KEY UPDATE id = id.
InsertStatus(m) ==
  /\ pc[m] = "insert"
  /\ chapa_status' = IF chapa_status = "none" THEN "OPERATIONAL" ELSE chapa_status
  /\ Goes(m, "record")
  /\ UNCHANGED <<released, tables, schema_migrations, applied, listed, file, deaths>>

\* INSERT INTO schema_migrations and the next turn of the loop.
Record(m) ==
  /\ pc[m] = "record"
  /\ file[m] \notin schema_migrations
  /\ schema_migrations' = schema_migrations \cup {file[m]}
  /\ ToNextFile(m, Left(applied[m], listed[m], file[m]))
  /\ UNCHANGED <<released, tables, chapa_status, applied, listed, deaths>>

\* An overlapping run has recorded the file: a duplicate key, and the run exits with 1.
FindRecorded(m) ==
  /\ pc[m] = "record"
  /\ file[m] \in schema_migrations
  /\ Goes(m, "idle")
  /\ Remembers(m, {}, 0, 0)
  /\ UNCHANGED <<released, database, deaths>>

Dies(m) ==
  /\ pc[m] \in Underway
  /\ deaths < MaxDeaths
  /\ deaths' = deaths + 1
  /\ Goes(m, "idle")
  /\ Remembers(m, {}, 0, 0)
  /\ UNCHANGED <<released, database>>

Release ==
  /\ released < Files
  /\ released' = released + 1
  /\ UNCHANGED <<database, runVars, deaths>>

\* The servers, which go on while migrations run.
BreakerMoves ==
  /\ chapa_status # "none"
  /\ chapa_status' \in ChapaStatuses \ {chapa_status}
  /\ UNCHANGED <<released, tables, schema_migrations, runVars, deaths>>

RunGoesOn(m) == Select(m) \/ Create(m) \/ InsertStatus(m) \/ Record(m) \/ FindRecorded(m)

Next ==
  \/ \E m \in Runs : Start(m) \/ RunGoesOn(m) \/ Dies(m)
  \/ Release
  \/ BreakerMoves

Spec == Init /\ [][Next]_migrationVars

FairSpec == Spec /\ \A m \in Runs : WF_migrationVars(RunGoesOn(m))

-----------------------------------------------------------------------------
(* Properties *)

\* A run that says "Migrations complete." leaves every file it found applied to the last
\* statement and recorded, also where others overlapped it or died halfway through a file.
CompleteMeansAll ==
  \A m \in Runs : pc[m] = "complete" =>
    /\ 1..listed[m] \subseteq schema_migrations \cap tables
    /\ StatusFile \in 1..listed[m] => chapa_status # "none"

\* No CREATE TABLE fails for want of a table it refers to: what a run skipped or did not
\* see recorded was created all the same.
ReferencesExist ==
  \A m \in Runs : pc[m] = "create" => References[file[m]] \subseteq tables

\* A file applied a second time does not put the breaker back.
StatusSurvives ==
  [][chapa_status # "none" /\ chapa_status' # chapa_status => BreakerMoves]_migrationVars

Version == INSTANCE SchemaVersion WITH recorded <- schema_migrations, created <- tables

\* Overlapping runs, of which some skip what others do or do it again, together apply the
\* files one by one and in order: the schema is always that of a release and at most the
\* next file's table.
ImplementsSchemaVersion == Version!VersionSpec

\* Once none dies any more, a run that is about to look brings the schema up to the files
\* there are, or is overtaken by one that does.  A run that is under way for an older
\* release is excepted: where it comes first, the new run fails and the old one ends early.
OneRunSuffices ==
  \A n \in FirstRelease..Files :
    (/\ deaths = MaxDeaths /\ released = n
     /\ \E m \in Runs : pc[m] = "select"
     /\ \A m \in Runs : pc[m] \in Underway \ {"select"} => listed[m] = n)
      ~> 1..n \subseteq schema_migrations

-----------------------------------------------------------------------------
(* The inductive invariant *)

\* Every file recorded was applied in full.
RecordedInv ==
  /\ schema_migrations \subseteq tables
  /\ StatusFile \in schema_migrations => chapa_status # "none"

\* A run has applied all that comes before its file, and of its file what its label says.
RunInv ==
  \A m \in Runs :
    /\ applied[m] \subseteq schema_migrations
    /\ pc[m] \in {"create", "insert", "record"} =>
         /\ file[m] \in 1..listed[m]
         /\ 1..(file[m] - 1) \subseteq schema_migrations
    /\ pc[m] \in {"insert", "record"} => file[m] \in tables
    /\ pc[m] = "record" /\ file[m] = StatusFile => chapa_status # "none"
    /\ pc[m] = "complete" => 1..listed[m] \subseteq schema_migrations

IInv == TypeOK /\ RecordedInv /\ RunInv

\* The schema is at a version, or has the table of the next file, too.
VersionInv ==
  \E n \in 0..Files :
    schema_migrations = 1..n /\ (tables = 1..n \/ tables = 1..(n + 1))

=============================================================================
