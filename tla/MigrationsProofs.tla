--------------------------- MODULE MigrationsProofs ---------------------------
(***************************************************************************)
(* Proofs about Migrations, for any number of instances and of migrations. *)
(*                                                                         *)
(* MigrationInv is inductive.  What carries it is Progress: an instance    *)
(* that is at a migration has found all smaller ones in the schema, and    *)
(* one that has executed a migration has it to itself until it commits.    *)
(***************************************************************************)
EXTENDS Migrations, TLAPS

LEMMA InitInv == Init => MigrationInv
<1> SUFFICES ASSUME Init PROVE MigrationInv
  OBVIOUS
<1>1. PICK n \in 0..N : recorded = 1..n /\ effective = 1..n /\ tableExists = (n > 0)
  BY DEF Init
<1>2. TypeOK
  BY <1>1, NAssumption DEF Init, TypeOK, Versions, Where
<1>3. RecordedIsEffective /\ InOrder
  BY <1>1, NAssumption DEF RecordedIsEffective, InOrder, Versions
<1>4. ReadyIsMigrated /\ NoTwoCreate
  BY DEF Init, ReadyIsMigrated, NoTwoCreate
<1>5. \A i \in Instances : Progress(i)
  BY DEF Init, Progress
<1>6. QED
  BY <1>2, <1>3, <1>4, <1>5 DEF MigrationInv

LEMMA StepInv == MigrationInv /\ [Next]_vars => MigrationInv'
<1> SUFFICES ASSUME MigrationInv, [Next]_vars PROVE MigrationInv'
  OBVIOUS
<1> USE NAssumption DEF MigrationInv, Versions
<1>1. CASE UNCHANGED vars
  BY <1>1 DEF vars, TypeOK, RecordedIsEffective, InOrder, ReadyIsMigrated, NoTwoCreate, Progress
<1>2. ASSUME NEW i \in Instances, CreateTableBegins(i) PROVE MigrationInv'
  <2> USE <1>2 DEF CreateTableBegins, Go, db
  <2>1. TypeOK' /\ RecordedIsEffective' /\ InOrder'
    BY DEF TypeOK, Where, RecordedIsEffective, InOrder
  <2>2. staged[i] = {}
    BY DEF Progress
  <2>3. ReadyIsMigrated' /\ NoTwoCreate'
    BY <2>2 DEF TypeOK, ReadyIsMigrated, NoTwoCreate
  <2>4. \A j \in Instances : Progress(j)'
    BY <2>2 DEF TypeOK, Progress
  <2>5. QED
    BY <2>1, <2>3, <2>4
<1>3. ASSUME NEW i \in Instances, CreateTableEnds(i) PROVE MigrationInv'
  BY <1>3 DEF CreateTableEnds, Go, locals, TypeOK, Where, RecordedIsEffective, InOrder, ReadyIsMigrated, NoTwoCreate, Progress
<1>4. ASSUME NEW i \in Instances, GetApplied(i) PROVE MigrationInv'
  <2> USE <1>4 DEF GetApplied, Go, db
  <2>1. TypeOK' /\ RecordedIsEffective' /\ InOrder'
    BY DEF TypeOK, Where, RecordedIsEffective, InOrder
  <2>2. ReadyIsMigrated' /\ NoTwoCreate'
    BY DEF TypeOK, ReadyIsMigrated, NoTwoCreate
  <2>3. pc[i] = "reading" /\ cur[i] = 1 /\ staged[i] = {}
    BY DEF Progress
  <2>4. \A j \in Instances : Progress(j)'
    BY <2>3 DEF TypeOK, Where, RecordedIsEffective, Progress
  <2>5. QED
    BY <2>1, <2>2, <2>4
<1>5. ASSUME NEW i \in Instances, Skip(i) PROVE MigrationInv'
  BY <1>5 DEF Skip, Go, db, TypeOK, Where, RecordedIsEffective, InOrder, ReadyIsMigrated, NoTwoCreate, Progress
<1>6. ASSUME NEW i \in Instances, Finish(i) PROVE MigrationInv'
  <2> USE <1>6 DEF Finish, Go, db, locals
  <2>1. TypeOK' /\ RecordedIsEffective' /\ InOrder' /\ NoTwoCreate'
    BY DEF TypeOK, Where, RecordedIsEffective, InOrder, NoTwoCreate
  <2>2. \A w \in Versions : w < cur[i]
    BY DEF TypeOK
  <2>3. effective = Versions
    BY <2>2 DEF Progress, TypeOK
  <2>4. ReadyIsMigrated'
    BY <2>3 DEF ReadyIsMigrated
  <2>5. \A j \in Instances : Progress(j)'
    BY DEF TypeOK, Progress
  <2>6. QED
    BY <2>1, <2>4, <2>5
<1>7. ASSUME NEW i \in Instances, Execute(i) PROVE MigrationInv'
  BY <1>7 DEF Execute, Pending, Blocked, Go, db, TypeOK, Where, RecordedIsEffective, InOrder, ReadyIsMigrated, NoTwoCreate, Progress
<1>8. ASSUME NEW i \in Instances, ExecuteFails(i) PROVE MigrationInv'
  BY <1>8 DEF ExecuteFails, Go, db, locals, TypeOK, Where, RecordedIsEffective, InOrder, ReadyIsMigrated, NoTwoCreate, Progress
<1>9. ASSUME NEW i \in Instances, Record(i) PROVE MigrationInv'
  BY <1>9 DEF Record, Go, db, TypeOK, Where, RecordedIsEffective, InOrder, ReadyIsMigrated, NoTwoCreate, Progress
<1>10. ASSUME NEW i \in Instances, Commit(i) PROVE MigrationInv'
  <2> USE <1>10 DEF Commit, Committed, Go
  <2>1. /\ pc[i] = "recorded" /\ staged[i] = {"effect", "record"}
        /\ cur[i] \in Versions \ effective
        /\ \A w \in Versions : w < cur[i] => w \in effective
    BY DEF Progress
  <2>2. effective' = effective \union {cur[i]} /\ recorded' = recorded \union {cur[i]}
    BY <2>1
  <2>3. TypeOK'
    <3>1. recorded' \subseteq Versions /\ effective' \subseteq Versions
      BY <2>1, <2>2 DEF TypeOK
    <3>2. cur[i] + 1 \in 1..(N + 1)
      BY <2>1
    <3>3. cur' \in [Instances -> 1..(N + 1)]
      BY <3>2 DEF TypeOK
    <3>4. pc' \in [Instances -> Where] /\ staged' \in [Instances -> SUBSET {"effect", "record"}]
      BY DEF TypeOK, Where
    <3>5. QED
      BY <3>1, <3>3, <3>4 DEF TypeOK
  <2>4. RecordedIsEffective' /\ InOrder'
    BY <2>1, <2>2 DEF TypeOK, RecordedIsEffective, InOrder
  <2>5. ReadyIsMigrated'
    BY <2>1, <2>2 DEF TypeOK, ReadyIsMigrated
  <2>6. NoTwoCreate'
    <3>1. \A j \in Instances : "effect" \in staged'[j] => j # i /\ staged'[j] = staged[j] /\ cur'[j] = cur[j]
      BY DEF TypeOK
    <3>2. QED
      BY <3>1 DEF NoTwoCreate
  <2>7. ASSUME NEW j \in Instances PROVE Progress(j)'
    <3>1. CASE j = i
      <4>1. pc'[i] = "next" /\ cur'[i] = cur[i] + 1 /\ staged'[i] = {} /\ applied'[i] = applied[i]
        BY DEF TypeOK
      <4>2. \A w \in Versions : w < cur[i] + 1 => w \in effective'
        BY <2>1, <2>2
      <4>3. applied[i] \subseteq effective'
        BY <2>2 DEF Progress
      <4>4. QED
        BY <3>1, <4>1, <4>2, <4>3 DEF Progress
    <3>2. CASE j # i
      \* i had created its objects, so j is not at the same migration.
      <4>1. pc[j] \in {"executed", "recorded"} => cur[j] # cur[i]
        BY <2>1, <3>2 DEF NoTwoCreate, Progress
      <4>2. pc'[j] = pc[j] /\ cur'[j] = cur[j] /\ staged'[j] = staged[j] /\ applied'[j] = applied[j]
        BY <3>2 DEF TypeOK
      <4>3. QED
        BY <2>2, <4>1, <4>2 DEF TypeOK, Progress
    <3>3. QED
      BY <3>1, <3>2
  <2>8. QED
    BY <2>3, <2>4, <2>5, <2>6, <2>7
<1>11. ASSUME NEW i \in Instances, Abort(i) PROVE MigrationInv'
  BY <1>11 DEF Abort, db, TypeOK, Where, RecordedIsEffective, InOrder, ReadyIsMigrated, NoTwoCreate, Progress
<1>12. ASSUME NEW i \in Instances, Restart(i) PROVE MigrationInv'
  BY <1>12 DEF Restart, db, locals, TypeOK, Where, RecordedIsEffective, InOrder, ReadyIsMigrated, NoTwoCreate, Progress
<1>13. QED
  BY <1>1, <1>2, <1>3, <1>4, <1>5, <1>6, <1>7, <1>8, <1>9, <1>10, <1>11, <1>12 DEF Next, Migrate

\* Every variable has its type: no instance gets beyond the end of the list of
\* migrations, and no version is recorded that is not on it.
THEOREM Typing == Spec => []TypeOK
<1>1. MigrationInv => TypeOK
  BY DEF MigrationInv
<1>2. QED
  BY <1>1, InitInv, StepInv, PTL DEF Spec

\* Wherever instances stop, a version is recorded exactly when it is effective.
THEOREM Bookkeeping == Spec => []RecordedIsEffective
<1>1. MigrationInv => RecordedIsEffective
  BY DEF MigrationInv
<1>2. QED
  BY <1>1, InitInv, StepInv, PTL DEF Spec

\* Migrations take effect in the order of their versions (store_postgres.go:265).
THEOREM Ordering == Spec => []InOrder
<1>1. MigrationInv => InOrder
  BY DEF MigrationInv
<1>2. QED
  BY <1>1, InitInv, StepInv, PTL DEF Spec

\* NewPostgresStore (store_postgres.go:47) returns only on a complete schema.
THEOREM Completeness == Spec => []ReadyIsMigrated
<1>1. MigrationInv => ReadyIsMigrated
  BY DEF MigrationInv
<1>2. QED
  BY <1>1, InitInv, StepInv, PTL DEF Spec
=============================================================================
