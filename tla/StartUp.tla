------------------------------- MODULE StartUp -------------------------------
(***************************************************************************)
(* The start of the Ordering service: Program.Main migrates the ordering   *)
(* database and seeds its two tables of constants, migrates the event log, *)
(* and runs the host.  Several hosts may start at once on one database.    *)
(*                                                                         *)
(* Two policies retry a SqlException three times each: one around the      *)
(* migration and the seeder, except in Kubernetes, which restarts the      *)
(* process instead, and one inside the seeder.  What they see:             *)
(*   - a statement that cannot reach the server throws a SqlException; one *)
(*     of SaveChangesAsync that fails there throws a DbUpdateException;    *)
(*   - the seeder's delegate disposes the context, so that a second run of *)
(*     it throws ObjectDisposedException;                                  *)
(*   - what leaves SeedAsync reaches the outer policy as an                *)
(*     AggregateException, for the seeder calls Wait.                      *)
(* Transient errors are retried below, by EF; the faults here are those it *)
(* lets through.  Migrating is idempotent and leaves empty tables.         *)
(***************************************************************************)
EXTENDS Naturals, FiniteSets

CONSTANTS
    Host,
    RetryCount,  \* retries of each policy
    MaxFaults    \* bound: exceptions and crashes

ASSUME StartAssumption == RetryCount \in Nat /\ MaxFaults \in Nat

(* In the order in which the seeder fills them.                            *)
Table == 1 .. 2

VARIABLES
    k8s,       \* OrchestratorType is K8S: a property of the deployment
    at,        \* at[h]: the call the host stands at
    table,     \* table[h]: the table the seeder is at
    outer,     \* outer[h]: retries of the policy in MigrateDbContext
    inner,     \* inner[h]: retries of the policy in SeedAsync
    disposed,  \* disposed[h]: the OrderingContext is disposed
    failed,    \* failed[h]: an exception was logged during this start
    seeded,    \* tables that have their rows
    faults     \* exceptions and crashes so far

hostVars == <<at, table, outer, inner, disposed, failed>>
vars == <<k8s, at, table, outer, inner, disposed, failed, seeded, faults>>

(***************************************************************************)
(* migrate      at Migrate of InvokeSeeder, for the OrderingContext        *)
(* seedMigrate  at Migrate of SeedAsync                                    *)
(* any, save    at Any and at SaveChangesAsync for the table               *)
(* logMigrate   at Migrate of InvokeSeeder, for the IntegrationEventLog    *)
(* exited       Main has returned 1, or the process has died               *)
(***************************************************************************)
SeedAt == {"seedMigrate", "any", "save"}
At == {"migrate", "logMigrate", "running", "exited"} \cup SeedAt

----------------------------------------------------------------------------
Init ==
    /\ k8s \in BOOLEAN
    /\ at = [h \in Host |-> "migrate"]
    /\ table = [h \in Host |-> 1]
    /\ outer = [h \in Host |-> 0]
    /\ inner = [h \in Host |-> 0]
    /\ disposed = [h \in Host |-> FALSE]
    /\ failed = [h \in Host |-> FALSE]
    /\ seeded = {}
    /\ faults = 0

Goto(h, a) == at' = [at EXCEPT ![h] = a]

Fault ==
    /\ faults < MaxFaults
    /\ faults' = faults + 1

(* MigrateDbContext logs what is left of an exception and rethrows it in   *)
(* Kubernetes, where Main returns 1; elsewhere the start goes on.          *)
CatchException(h) ==
    /\ failed' = [failed EXCEPT ![h] = TRUE]
    /\ Goto(h, IF k8s THEN "exited"
               ELSE IF at[h] = "logMigrate" THEN "running" ELSE "logMigrate")

(* A policy that counts one retry too many.                                *)
RetriesOnceMore(n) == n <= RetryCount

Retries(n) == n < RetryCount

Migrate(h) ==
    /\ \/ /\ at[h] = "migrate"
          /\ Goto(h, "seedMigrate")
       \/ /\ at[h] = "logMigrate"
          /\ Goto(h, "running")
    /\ outer' = [outer EXCEPT ![h] = 0]
    /\ UNCHANGED <<k8s, table, inner, disposed, failed, seeded, faults>>

MigrateFails(h) ==
    /\ at[h] \in {"migrate", "logMigrate"}
    /\ Fault
    /\ IF ~k8s /\ Retries(outer[h])
       THEN /\ outer' = [outer EXCEPT ![h] = @ + 1]
            /\ UNCHANGED <<at, failed>>
       ELSE /\ CatchException(h)
            /\ outer' = [outer EXCEPT ![h] = 0]
    /\ UNCHANGED <<k8s, table, inner, disposed, seeded>>

(* context.Database throws on a disposed context, and no policy handles    *)
(* that.                                                                   *)
SeedMigrate(h) ==
    /\ at[h] = "seedMigrate"
    /\ IF disposed[h]
       THEN CatchException(h)
       ELSE /\ Goto(h, "any")
            /\ UNCHANGED failed
    /\ UNCHANGED <<k8s, table, outer, inner, disposed, seeded, faults>>

(* The table is done.                                                      *)
NextTable(h) ==
    IF table[h] = 2
    THEN /\ Goto(h, "logMigrate")
         /\ disposed' = [disposed EXCEPT ![h] = TRUE]
         /\ UNCHANGED table
    ELSE /\ Goto(h, "any")
         /\ table' = [table EXCEPT ![h] = @ + 1]
         /\ UNCHANGED disposed

(* A seeder that does not look.                                            *)
SeededIsUnknown(t) == FALSE

(* Both tables are judged by the first.                                    *)
FirstIsSeeded(t) == 1 \in seeded

(* Any() finds a row.                                                      *)
IsSeeded(t) == t \in seeded

Any(h) ==
    /\ at[h] = "any"
    /\ IF IsSeeded(table[h])
       THEN NextTable(h)
       ELSE /\ Goto(h, "save")
            /\ UNCHANGED <<table, disposed>>
    /\ UNCHANGED <<k8s, outer, inner, failed, seeded, faults>>

(* The rows have fixed ids: when another host was faster the primary key   *)
(* refuses them all, with a DbUpdateException, which no policy handles.    *)
SaveChanges(h) ==
    /\ at[h] = "save"
    /\ IF table[h] \in seeded
       THEN /\ CatchException(h)
            /\ disposed' = [disposed EXCEPT ![h] = TRUE]
            /\ UNCHANGED <<table, seeded>>
       ELSE /\ seeded' = seeded \cup {table[h]}
            /\ NextTable(h)
            /\ UNCHANGED failed
    /\ UNCHANGED <<k8s, outer, inner, faults>>

(* The server cannot be reached: the using statement disposes the context, *)
(* and the policy of SeedAsync runs the delegate again.                    *)
SeedFails(h) ==
    /\ at[h] \in SeedAt
    /\ ~disposed[h]
    /\ Fault
    /\ disposed' = [disposed EXCEPT ![h] = TRUE]
    /\ IF Retries(inner[h])
       THEN /\ inner' = [inner EXCEPT ![h] = @ + 1]
            /\ Goto(h, "seedMigrate")
            /\ UNCHANGED failed
       ELSE /\ CatchException(h)
            /\ UNCHANGED inner
    /\ UNCHANGED <<k8s, table, outer, seeded>>

(* The statement fails while it runs, before its commit or, for the client *)
(* who hears nothing, after it: a DbUpdateException.                       *)
UpdateFails(h) ==
    /\ at[h] = "save"
    /\ Fault
    /\ seeded' \in {seeded, seeded \cup {table[h]}}
    /\ disposed' = [disposed EXCEPT ![h] = TRUE]
    /\ CatchException(h)
    /\ UNCHANGED <<k8s, table, outer, inner>>

Crash(h) ==
    /\ at[h] # "exited"
    /\ Fault
    /\ Goto(h, "exited")
    /\ UNCHANGED <<k8s, table, outer, inner, disposed, failed, seeded>>

(* The orchestrator, or an operator, starts the process again.             *)
Restart(h) ==
    /\ at[h] = "exited"
    /\ Goto(h, "migrate")
    /\ table' = [table EXCEPT ![h] = 1]
    /\ outer' = [outer EXCEPT ![h] = 0]
    /\ inner' = [inner EXCEPT ![h] = 0]
    /\ disposed' = [disposed EXCEPT ![h] = FALSE]
    /\ failed' = [failed EXCEPT ![h] = FALSE]
    /\ UNCHANGED <<k8s, seeded, faults>>

Step(h) ==
    \/ Migrate(h) \/ MigrateFails(h)
    \/ SeedMigrate(h) \/ Any(h) \/ SaveChanges(h) \/ SeedFails(h) \/ UpdateFails(h)

AllRun ==
    /\ \A h \in Host : at[h] = "running"
    /\ UNCHANGED vars

Next ==
    \/ \E h \in Host : Step(h) \/ Crash(h) \/ Restart(h)
    \/ AllRun

Spec == Init /\ [][Next]_vars

(* A process goes on, and one that has exited is started again: "we rely   *)
(* on k8s to re-run the pod".                                              *)
Fairness == \A h \in Host : WF_vars(Step(h)) /\ WF_vars(Restart(h))

FairSpec == Spec /\ Fairness

----------------------------------------------------------------------------
TypeOK ==
    /\ k8s \in BOOLEAN
    /\ at \in [Host -> At]
    /\ table \in [Host -> Table]
    /\ outer \in [Host -> 0 .. RetryCount]
    /\ inner \in [Host -> 0 .. RetryCount]
    /\ disposed \in [Host -> BOOLEAN]
    /\ failed \in [Host -> BOOLEAN]
    /\ seeded \subseteq Table
    /\ faults \in 0 .. MaxFaults

(* A host whose start logged no exception serves requests on a database    *)
(* with both tables seeded, and in Kubernetes every host does: whichever   *)
(* of the hosts filled which table, failed or died half-way.               *)
RunsSeeded ==
    \A h \in Host :
        at[h] = "running" /\ (k8s \/ ~failed[h]) => seeded = Table

(* Exceptions and crashes being finitely many, every host comes to run for *)
(* good: no start trips over what an earlier one or another host left.     *)
EveryHostRuns == \A h \in Host : <>[](at[h] = "running")
=============================================================================
