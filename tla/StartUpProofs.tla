---------------------------- MODULE StartUpProofs ----------------------------
(***************************************************************************)
(* For any number of hosts, retries and faults, a host runs on a seeded    *)
(* database, in Kubernetes always and elsewhere when it logged nothing.    *)
(***************************************************************************)
EXTENDS StartUp, TLAPS

(* What a host that got so far knows.  A second run of the seeder's        *)
(* delegate starts with a disposed context, and so gets nowhere.           *)
SeedInv ==
    \A h \in Host :
        /\ at[h] = "migrate" => table[h] = 1
        /\ at[h] = "seedMigrate" /\ ~disposed[h] => table[h] = 1
        /\ at[h] \in {"any", "save"} /\ table[h] = 2 => 1 \in seeded
        /\ at[h] \in {"logMigrate", "running"} /\ (k8s \/ ~failed[h]) => seeded = Table

IInv == TypeOK /\ SeedInv

(* Both tables are all there are.                                          *)
LEMMA BothTables == ASSUME NEW S \in SUBSET Table, 1 \in S, 2 \in S PROVE S = Table
<1>1. \A t \in Table : t = 1 \/ t = 2
  BY DEF Table
<1>2. Table \subseteq S
  BY <1>1, Zenon
<1> QED BY <1>2, Zenon

(* Nobody knows anything about the tables yet.                             *)
LEMMA InitHolds == Init => IInv
BY StartAssumption DEF StartAssumption, Init, IInv, TypeOK, SeedInv, At, SeedAt, Table

(* One step per action; every action keeps the rows that are there.        *)
LEMMA StepHolds == IInv /\ [Next]_vars => IInv'
<1> SUFFICES ASSUME IInv, [Next]_vars PROVE IInv'
  OBVIOUS
<1> USE StartAssumption DEF StartAssumption
<1>1. ASSUME NEW h \in Host, Migrate(h) PROVE IInv'
  <2>1. TypeOK'
    BY <1>1 DEF IInv, TypeOK, Migrate, Goto, At, SeedAt
  <2>2. SeedInv'
    BY <1>1 DEF IInv, TypeOK, SeedInv, Migrate, Goto
  <2> QED BY <2>1, <2>2 DEF IInv
<1>2. ASSUME NEW h \in Host, MigrateFails(h) PROVE IInv'
  <2>1. TypeOK'
    <3>1. CASE ~k8s /\ Retries(outer[h])
      BY <1>2, <3>1 DEF IInv, TypeOK, MigrateFails, Fault, Retries
    <3>2. CASE k8s \/ ~Retries(outer[h])
      <4>1. /\ CatchException(h)
            /\ outer' = [outer EXCEPT ![h] = 0]
            /\ faults' \in 0 .. MaxFaults
            /\ UNCHANGED <<k8s, table, inner, disposed, seeded>>
        BY <1>2, <3>2 DEF IInv, TypeOK, MigrateFails, Fault
      <4>2. at' \in [Host -> At] /\ failed' \in [Host -> BOOLEAN]
        BY <4>1 DEF IInv, TypeOK, CatchException, Goto, At
      <4>3. outer' \in [Host -> 0 .. RetryCount]
        BY <4>1 DEF IInv, TypeOK
      <4> QED BY <4>1, <4>2, <4>3 DEF IInv, TypeOK
    <3> QED BY <3>1, <3>2
  <2>2. SeedInv'
    BY <1>2 DEF IInv, TypeOK, SeedInv, MigrateFails, CatchException, Goto
  <2> QED BY <2>1, <2>2 DEF IInv
<1>3. ASSUME NEW h \in Host, SeedMigrate(h) PROVE IInv'
  <2>1. TypeOK'
    BY <1>3 DEF IInv, TypeOK, SeedMigrate, CatchException, Goto, At, SeedAt
  <2>2. SeedInv'
    BY <1>3 DEF IInv, TypeOK, SeedInv, SeedMigrate, CatchException, Goto
  <2> QED BY <2>1, <2>2 DEF IInv
<1>4. ASSUME NEW h \in Host, Any(h) PROVE IInv'
  <2>1. CASE ~IsSeeded(table[h])
    BY <1>4, <2>1 DEF IInv, TypeOK, SeedInv, Any, IsSeeded, Goto, At, SeedAt
  <2>2. CASE IsSeeded(table[h]) /\ table[h] = 2
    <3>1. TypeOK'
      BY <1>4, <2>2 DEF IInv, TypeOK, Any, NextTable, Goto, At, SeedAt
    <3>2. seeded = Table
      <4>1. 1 \in seeded /\ 2 \in seeded
        BY <1>4, <2>2 DEF IInv, SeedInv, Any, IsSeeded
      <4> QED BY <4>1, BothTables DEF IInv, TypeOK
    <3>3. SeedInv'
      BY <1>4, <2>2, <3>2 DEF IInv, TypeOK, SeedInv, Any, NextTable, Goto
    <3> QED BY <3>1, <3>3 DEF IInv
  <2>3. CASE IsSeeded(table[h]) /\ table[h] # 2
    <3>1. table[h] = 1 /\ NextTable(h) /\ UNCHANGED <<k8s, outer, inner, failed, seeded, faults>>
      BY <1>4, <2>3 DEF IInv, TypeOK, Any, Table
    <3>2. TypeOK'
      BY <3>1 DEF IInv, TypeOK, NextTable, Goto, At, SeedAt, Table
    <3>3. SeedInv'
      BY <2>3, <3>1 DEF IInv, TypeOK, SeedInv, NextTable, IsSeeded, Goto
    <3> QED BY <3>2, <3>3 DEF IInv
  <2> QED BY <2>1, <2>2, <2>3
<1>5. ASSUME NEW h \in Host, SaveChanges(h) PROVE IInv'
  <2>1. CASE table[h] \in seeded
    <3>1. TypeOK'
      BY <1>5, <2>1 DEF IInv, TypeOK, SaveChanges, CatchException, Goto, At, SeedAt
    <3>2. SeedInv'
      BY <1>5, <2>1 DEF IInv, TypeOK, SeedInv, SaveChanges, CatchException, Goto
    <3> QED BY <3>1, <3>2 DEF IInv
  <2>2. CASE table[h] \notin seeded
    <3>1. /\ at[h] = "save" /\ table[h] \in Table
          /\ seeded' = seeded \cup {table[h]}
          /\ NextTable(h)
          /\ UNCHANGED <<k8s, outer, inner, failed, faults>>
      BY <1>5, <2>2 DEF IInv, TypeOK, SaveChanges
    <3>2. CASE table[h] = 2
      <4>1. TypeOK'
        BY <3>1, <3>2 DEF IInv, TypeOK, NextTable, Goto, At, SeedAt
      <4>2. seeded' = Table
        <5>1. 1 \in seeded /\ seeded' = seeded \cup {2}
          BY <3>1, <3>2 DEF IInv, SeedInv
        <5>2. seeded' \in SUBSET Table /\ 1 \in seeded' /\ 2 \in seeded'
          BY <5>1 DEF IInv, TypeOK, Table
        <5> QED BY <5>2, BothTables
      <4>3. SeedInv'
        BY <3>1, <3>2, <4>2 DEF IInv, TypeOK, SeedInv, NextTable, Goto
      <4> QED BY <4>1, <4>3 DEF IInv
    <3>3. CASE table[h] = 1
      <4>1. TypeOK'
        BY <3>1, <3>3 DEF IInv, TypeOK, NextTable, Goto, At, SeedAt, Table
      <4>2. SeedInv'
        BY <3>1, <3>3 DEF IInv, TypeOK, SeedInv, NextTable, Goto
      <4> QED BY <4>1, <4>2 DEF IInv
    <3> QED BY <3>1, <3>2, <3>3 DEF Table
  <2> QED BY <2>1, <2>2
<1>6. ASSUME NEW h \in Host, SeedFails(h) PROVE IInv'
  <2>1. TypeOK'
    <3>1. at' \in [Host -> At]
      BY <1>6 DEF IInv, TypeOK, SeedFails, CatchException, Fault, Retries, Goto, At, SeedAt
    <3>2. k8s' \in BOOLEAN /\ disposed' \in [Host -> BOOLEAN] /\ failed' \in [Host -> BOOLEAN]
      BY <1>6 DEF IInv, TypeOK, SeedFails, CatchException, Fault, Retries, Goto, At, SeedAt
    <3>3. /\ table' \in [Host -> Table] /\ seeded' \subseteq Table
          /\ outer' \in [Host -> 0 .. RetryCount] /\ inner' \in [Host -> 0 .. RetryCount]
          /\ faults' \in 0 .. MaxFaults
      BY <1>6 DEF IInv, TypeOK, SeedFails, CatchException, Fault, Retries, Goto, At, SeedAt
    <3> QED BY <3>1, <3>2, <3>3 DEF TypeOK
  <2>2. SeedInv'
    BY <1>6 DEF IInv, TypeOK, SeedInv, SeedFails, CatchException, Goto, SeedAt
  <2> QED BY <2>1, <2>2 DEF IInv
<1>7. ASSUME NEW h \in Host, UpdateFails(h) PROVE IInv'
  <2>1. TypeOK'
    BY <1>7 DEF IInv, TypeOK, UpdateFails, CatchException, Fault, Goto, At, SeedAt
  <2>2. SeedInv'
    BY <1>7 DEF IInv, TypeOK, SeedInv, UpdateFails, CatchException, Goto, Table
  <2> QED BY <2>1, <2>2 DEF IInv
<1>8. ASSUME NEW h \in Host, Crash(h) PROVE IInv'
  BY <1>8 DEF IInv, TypeOK, SeedInv, Crash, Fault, Goto, At
<1>9. ASSUME NEW h \in Host, Restart(h) PROVE IInv'
  <2>1. TypeOK'
    BY <1>9 DEF IInv, TypeOK, Restart, Goto, At, Table
  <2>2. SeedInv'
    BY <1>9 DEF IInv, TypeOK, SeedInv, Restart, Goto
  <2> QED BY <2>1, <2>2 DEF IInv
<1>10. CASE UNCHANGED vars
  BY <1>10 DEF IInv, TypeOK, SeedInv, vars
<1> QED
  BY <1>1, <1>2, <1>3, <1>4, <1>5, <1>6, <1>7, <1>8, <1>9, <1>10
  DEF Next, Step, AllRun

(* The inductive invariant of StartUp.                                     *)
THEOREM Invariance == Spec => []IInv
BY InitHolds, StepHolds, PTL DEF Spec

(* Every reachable state is well typed: in particular no policy retries    *)
(* more often than it says.                                                *)
THEOREM TypeCorrect == Spec => []TypeOK
<1>1. IInv => TypeOK
  BY DEF IInv
<1> QED BY <1>1, Invariance, PTL

(* A host that runs in Kubernetes, or after a start without exceptions,    *)
(* has both tables of MigrateDbContext's seeder behind it.                 *)
THEOREM RunsSeededHolds == Spec => []RunsSeeded
<1>1. IInv => RunsSeeded
  BY DEF IInv, SeedInv, RunsSeeded
<1> QED BY <1>1, Invariance, PTL
=============================================================================
