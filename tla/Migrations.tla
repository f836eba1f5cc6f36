----------------------------- MODULE Migrations -----------------------------
(***************************************************************************)
(* control-api processes that start on one database apply its migrations   *)
(* (control-api/internal/store/pg/migrate.go).  What a migration does is   *)
(* not atomic for the others: it is the transaction that must make the     *)
(* change and its record one.                                              *)
(***************************************************************************)
EXTENDS Integers, Sequences

CONSTANTS
    Instance,
    Files      \* how many migrations there are; they are sorted by name

ASSUME MigrationsAssumption == Files \in Nat

VARIABLES
    applied,   \* the files whose change is committed, in the order they were
    recorded,  \* schema_migrations
    starting   \* per process: the step, and the file it has come to

migrationVars == <<applied, recorded, starting>>

MigrationsTypeOK ==
    /\ applied \in Seq(1..Files)
    /\ recorded \subseteq 1..Files
    /\ starting \in [Instance -> [at : {"down", "check", "change", "record",
                                        "commit", "up"},
                                  file : 1..(Files + 1)]]

MigrationsInit ==
    /\ applied = <<>> /\ recorded = {}
    /\ starting = [i \in Instance |-> [at |-> "down", file |-> 1]]
-----------------------------------------------------------------------------
GoesOn(i, at) == starting' = [starting EXCEPT ![i].at = at]

Migrate(i) ==
    /\ starting[i].at = "down"
    /\ starting' = [starting EXCEPT ![i] = [at |-> "check", file |-> 1]]
    /\ UNCHANGED <<applied, recorded>>

\* SELECT EXISTS, and the loop's continue and end.
CheckFile(i) ==
    /\ starting[i].at = "check"
    /\ LET f == starting[i].file
       IN  IF f > Files THEN GoesOn(i, "up")
           ELSE IF f \in recorded
                THEN starting' = [starting EXCEPT ![i].file = @ + 1]
                ELSE GoesOn(i, "change")
    /\ UNCHANGED <<applied, recorded>>

\* The statements of the file, in a transaction that only this process sees.
ChangeSchema(i) ==
    /\ starting[i].at = "change"
    /\ GoesOn(i, "record")
    /\ UNCHANGED <<applied, recorded>>

\* Mutant of Unrecorded: schema_migrations without its primary key.
UnrecordedOrNot(f) == f \in 1..Files

\* version text PRIMARY KEY: an insert waits for another's of the same version,
\* and fails when that one has committed.
Unrecorded(f) ==
    /\ f \notin recorded
    /\ \A j \in Instance : ~(starting[j].at = "commit" /\ starting[j].file = f)

InsertRecord(i) ==
    /\ starting[i].at = "record"
    /\ Unrecorded(starting[i].file)
    /\ GoesOn(i, "commit")
    /\ UNCHANGED <<applied, recorded>>

CommitFile(i) ==
    /\ starting[i].at = "commit"
    /\ applied' = Append(applied, starting[i].file)
    /\ recorded' = recorded \cup {starting[i].file}
    /\ starting' = [starting EXCEPT ![i] = [at |-> "check", file |-> @.file + 1]]

\* A statement fails (another process has made the tables, or has recorded the
\* file), or the process ends: the transaction is rolled back and main gives up.
MigrateFails(i) ==
    /\ starting[i].at # "down"
    /\ GoesOn(i, "down")
    /\ UNCHANGED <<applied, recorded>>

MigrationsNext ==
    \E i \in Instance :
        \/ Migrate(i) \/ CheckFile(i) \/ ChangeSchema(i) \/ InsertRecord(i)
        \/ CommitFile(i) \/ MigrateFails(i)

MigrationsSpec == MigrationsInit /\ [][MigrationsNext]_migrationVars
-----------------------------------------------------------------------------
\* Each migration is applied once and in the order of the names, and none is
\* recorded without its change or changed without its record; a process that
\* serves requests has all of them behind it.
AppliedOnceInOrder ==
    /\ applied = [n \in 1..Len(applied) |-> n]
    /\ recorded = 1..Len(applied)
    /\ \A i \in Instance : starting[i].at = "up" => Len(applied) = Files
=============================================================================
