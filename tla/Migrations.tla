------------------------------ MODULE Migrations ------------------------------
(***************************************************************************)
(* runPostgresMigrations (internal/trigger/store_postgres.go), run by      *)
(* several instances that start together on one database.                  *)
(*                                                                         *)
(* No lock is taken.  A migration's SQL is CREATE TABLE or CREATE TRIGGER: *)
(* while another transaction has created the same object and not committed *)
(* it waits, and once the object is there it fails.                        *)
(***************************************************************************)
EXTENDS Naturals, FiniteSets

CONSTANTS
    Instances,
    N             \* number of migration files, sorted by version

ASSUME NAssumption == N \in Nat \ {0}

VARIABLES
    tableExists,  \* schema_migrations is there
    recorded,     \* the versions schema_migrations lists
    effective,    \* the versions whose objects are there
    pc,           \* how far an instance is
    sawTable,     \* its CREATE TABLE IF NOT EXISTS found the table
    applied,      \* the versions it read as applied
    cur,          \* the migration it is at
    staged        \* what its open transaction has done: "effect", "record"

db == <<tableExists, recorded, effective>>
locals == <<sawTable, applied, cur, staged>>
vars == <<tableExists, recorded, effective, pc, sawTable, applied, cur, staged>>

Versions == 1..N

\* The database may be empty, or left by a release with fewer migrations.
Init ==
    /\ \E n \in 0..N : recorded = 1..n /\ effective = 1..n /\ tableExists = (n > 0)
    /\ pc = [i \in Instances |-> "down"]
    /\ sawTable = [i \in Instances |-> FALSE]
    /\ applied = [i \in Instances |-> {}]
    /\ cur = [i \in Instances |-> 1]
    /\ staged = [i \in Instances |-> {}]

Go(i, from, to) == pc[i] = from /\ pc' = [pc EXCEPT ![i] = to]

----------------------------------------------------------------------------
\* CREATE TABLE IF NOT EXISTS looks first and creates later; of two sessions
\* that both found no table the second to finish fails.
CreateTableBegins(i) ==
    /\ Go(i, "down", "creating")
    /\ sawTable' = [sawTable EXCEPT ![i] = tableExists]
    /\ cur' = [cur EXCEPT ![i] = 1]
    /\ applied' = [applied EXCEPT ![i] = {}]
    /\ UNCHANGED <<db, staged>>

CreateTableEnds(i) ==
    /\ Go(i, "creating", IF tableExists /\ ~sawTable[i] THEN "failed" ELSE "reading")
    /\ tableExists' = TRUE
    /\ UNCHANGED <<recorded, effective, locals>>

\* Mutant: another module's rows are read.
ReadNothing(i) ==
    /\ Go(i, "reading", "next")
    /\ UNCHANGED <<db, locals>>

GetApplied(i) ==
    /\ Go(i, "reading", "next")
    /\ applied' = [applied EXCEPT ![i] = recorded]
    /\ UNCHANGED <<db, sawTable, cur, staged>>

Skip(i) ==
    /\ Go(i, "next", "next")
    /\ cur[i] \in applied[i]
    /\ cur' = [cur EXCEPT ![i] = @ + 1]
    /\ UNCHANGED <<db, sawTable, applied, staged>>

Finish(i) ==
    /\ Go(i, "next", "ready")
    /\ cur[i] > N
    /\ UNCHANGED <<db, locals>>

----------------------------------------------------------------------------
(* applyMigration: begin, execute, record, commit *)

Pending(i) == pc[i] = "next" /\ cur[i] \in Versions /\ cur[i] \notin applied[i]

\* Another session has the same objects in an open transaction.
Blocked(i) == \E j \in Instances \ {i} : "effect" \in staged[j] /\ cur[j] = cur[i]

\* Mutant: the files are taken in any order.
ExecuteUnsorted(i) ==
    /\ \E v \in Versions \ (applied[i] \union effective) :
        /\ \A j \in Instances \ {i} : "effect" \in staged[j] => cur[j] # v
        /\ cur' = [cur EXCEPT ![i] = v]
    /\ Go(i, "next", "executed")
    /\ staged' = [staged EXCEPT ![i] = {"effect"}]
    /\ UNCHANGED <<db, sawTable, applied>>

Execute(i) ==
    /\ Pending(i) /\ ~Blocked(i) /\ cur[i] \notin effective
    /\ Go(i, "next", "executed")
    /\ staged' = [staged EXCEPT ![i] = {"effect"}]
    /\ UNCHANGED <<db, sawTable, applied, cur>>

\* Mutant: a migration that fails is taken for one that is done, as are the rest.
IgnoreFailure(i) ==
    /\ Pending(i) /\ ~Blocked(i) /\ cur[i] \in effective
    /\ Go(i, "next", "ready")
    /\ UNCHANGED <<db, locals>>

ExecuteFails(i) ==
    /\ Pending(i) /\ ~Blocked(i) /\ cur[i] \in effective
    /\ Go(i, "next", "failed")
    /\ UNCHANGED <<db, locals>>

\* Mutant: the version is recorded outside the transaction.
RecordOutsideTx(i) ==
    /\ Go(i, "executed", "recorded")
    /\ recorded' = recorded \union {cur[i]}
    /\ UNCHANGED <<tableExists, effective, locals>>

\* The primary key (module, version) has no such row: see Execute.
Record(i) ==
    /\ Go(i, "executed", "recorded")
    /\ staged' = [staged EXCEPT ![i] = @ \union {"record"}]
    /\ UNCHANGED <<db, sawTable, applied, cur>>

Committed(i, what) == IF what \in staged[i] THEN {cur[i]} ELSE {}

Commit(i) ==
    /\ Go(i, "recorded", "next")
    /\ effective' = effective \union Committed(i, "effect")
    /\ recorded' = recorded \union Committed(i, "record")
    /\ staged' = [staged EXCEPT ![i] = {}]
    /\ cur' = [cur EXCEPT ![i] = @ + 1]
    /\ UNCHANGED <<tableExists, sawTable, applied>>

\* A statement fails, the connection breaks or the process dies: the
\* transaction is rolled back.
Abort(i) ==
    /\ pc[i] \in {"creating", "reading", "next", "executed", "recorded"}
    /\ pc' = [pc EXCEPT ![i] = "aborted"]
    /\ staged' = [staged EXCEPT ![i] = {}]
    /\ UNCHANGED <<db, sawTable, applied, cur>>

Restart(i) ==
    /\ pc[i] \in {"failed", "aborted", "ready"}
    /\ pc' = [pc EXCEPT ![i] = "down"]
    /\ UNCHANGED <<db, locals>>

----------------------------------------------------------------------------
Migrate(i) ==
    \/ CreateTableBegins(i) \/ CreateTableEnds(i) \/ GetApplied(i)
    \/ Skip(i) \/ Finish(i)
    \/ Execute(i) \/ ExecuteFails(i) \/ Record(i) \/ Commit(i)

Next == \E i \in Instances : Migrate(i) \/ Abort(i) \/ Restart(i)

Spec == Init /\ [][Next]_vars

\* An instance that has begun goes on; a restart is nobody's duty.
FairSpec == Spec /\ \A i \in Instances : WF_vars(Migrate(i))

----------------------------------------------------------------------------
Where == {"down", "creating", "reading", "next", "executed", "recorded",
          "ready", "failed", "aborted"}

TypeOK ==
    /\ tableExists \in BOOLEAN
    /\ recorded \subseteq Versions
    /\ effective \subseteq Versions
    /\ pc \in [Instances -> Where]
    /\ sawTable \in [Instances -> BOOLEAN]
    /\ applied \in [Instances -> SUBSET Versions]
    /\ cur \in [Instances -> 1..(N + 1)]
    /\ staged \in [Instances -> SUBSET {"effect", "record"}]

\* A version is listed exactly when its objects are there, wherever an instance
\* stops: a later start neither repeats nor skips a migration.
RecordedIsEffective == recorded = effective

\* "Apply pending migrations in order" (store_postgres.go:265): no instance gets
\* ahead of a migration another one has not committed.
InOrder == \A v \in effective, w \in Versions : w < v => w \in effective

\* NewPostgresStore returns a store only on a complete schema.
ReadyIsMigrated == \A i \in Instances : pc[i] = "ready" => effective = Versions

\* Instances that start together may fail because of each other, but not all.
SomeoneReady == <>(\E i \in Instances : pc[i] \in {"ready", "aborted"})

----------------------------------------------------------------------------
\* What makes the three invariants inductive.
Progress(i) ==
    /\ applied[i] \subseteq effective
    /\ pc[i] \in {"creating", "reading"} => cur[i] = 1
    /\ pc[i] \in {"next", "executed", "recorded"} => \A w \in Versions : w < cur[i] => w \in effective
    /\ pc[i] \in {"executed", "recorded"} => cur[i] \in Versions \ effective
    /\ staged[i] = IF pc[i] = "executed" THEN {"effect"}
                   ELSE IF pc[i] = "recorded" THEN {"effect", "record"} ELSE {}

NoTwoCreate ==
    \A i, j \in Instances : "effect" \in staged[i] /\ "effect" \in staged[j] /\ cur[i] = cur[j] => i = j

MigrationInv ==
    /\ TypeOK /\ RecordedIsEffective /\ InOrder /\ ReadyIsMigrated
    /\ NoTwoCreate
    /\ \A i \in Instances : Progress(i)
=============================================================================
