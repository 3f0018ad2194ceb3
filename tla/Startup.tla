------------------------------- MODULE Startup -------------------------------
(***************************************************************************)
(* How a server process comes up: main and migrateAndSeed.  The container  *)
(* restarts a process that panics or dies, and several processes may come  *)
(* up on one database.                                                     *)
(***************************************************************************)
EXTENDS HouseholdStore

CONSTANTS
    LastSeed,    \* number of seed statements: seven
    Processes,   \* server processes
    MaxCrashes   \* bound: processes killed over the whole run

VARIABLES
    stage,    \* where each process is on its way to serving
    crashes   \* processes killed so far

startupVars == <<stage, crashes>>

ASSUME MaxCrashesAssumption == MaxCrashes \in Nat

(* The first three seed statements fill users, family_groups and           *)
(* family_members.                                                         *)
ASSUME LastSeedAssumption == LastSeed \in Nat /\ LastSeed > 3

Starting == [at |-> "starting"]
Serving == [at |-> "serving"]
Counting == [at |-> "counting"]

Stage ==
    {Starting, Serving, Counting}
      \cup [at: {"finding", "creating"}, table: 1..LastTable]
      \cup [at: {"indexing"}]
      \cup [at: {"seeding"}, next: 1..LastSeed, owner: Nat, family: Nat]

StartupTypeOK ==
    /\ stage \in [Processes -> Stage]
    /\ crashes \in Nat

Reach(p, s) == stage' = [stage EXCEPT ![p] = s]

(* An error of migrateAndSeed panics; the process is started again.        *)
Panic(p) == Reach(p, Starting) /\ UNCHANGED <<schemaVars, users, rosterVars>>

(* A database that init.sql has set up when the server first connects, or  *)
(* an empty one.                                                           *)
StartupInit ==
    /\ stage = [p \in Processes |-> Starting]
    /\ crashes = 0
    /\ byInitSql \in BOOLEAN
    /\ phoneIndex = byInitSql
    /\ IF byInitSql
       THEN /\ tables = LastTable
            /\ seeded = LastSeed
            /\ users = <<[phone |-> SeedPhones[1], role |-> "admin", profile |-> NoProfile],
                         [phone |-> SeedPhones[2], role |-> "member", profile |-> NoProfile]>>
            /\ families = <<[owner |-> 1]>>
            /\ members = <<[family |-> 1, user |-> 1, role |-> "admin"],
                           [family |-> 1, user |-> 2, role |-> "member"]>>
       ELSE tables = 0 /\ seeded = 0 /\ users = <<>> /\ families = <<>> /\ members = <<>>

-----------------------------------------------------------------------------
(* Migration.                                                              *)

(* The one question that decides whether anything is migrated or seeded.   *)
FindUsersTable(p) ==
    /\ stage[p] = Starting
    /\ Reach(p, IF HasTable(UsersTable) THEN Serving
                                        ELSE [at |-> "finding", table |-> UsersTable])
    /\ UNCHANGED <<schemaVars, users, rosterVars>>

AfterTable(table) ==
    IF table = LastTable THEN Counting ELSE [at |-> "finding", table |-> table + 1]

(* AutoMigrate asks for each table in turn and brings an existing one up   *)
(* to date, which for users means the index.                               *)
FindTable(p) ==
    /\ stage[p].at = "finding"
    /\ LET table == stage[p].table IN
       Reach(p, IF ~HasTable(table) THEN [at |-> "creating", table |-> table]
                ELSE IF table = UsersTable THEN [at |-> "indexing"]
                ELSE AfterTable(table))
    /\ UNCHANGED <<schemaVars, users, rosterVars>>

(* Seeded fault: a CREATE TABLE that fails is tried again.                 *)
CreateTableStubbornly(p) ==
    /\ stage[p].at = "creating"
    /\ LET table == stage[p].table IN
          /\ ~HasTable(table)
          /\ tables' = table
          /\ Reach(p, IF table = UsersTable THEN [at |-> "indexing"] ELSE AfterTable(table))
          /\ UNCHANGED <<byInitSql, phoneIndex, seeded, users, rosterVars>>

(* CREATE TABLE, refused when another process was faster.                  *)
CreateTable(p) ==
    /\ stage[p].at = "creating"
    /\ LET table == stage[p].table IN
       IF HasTable(table) THEN Panic(p)
       ELSE /\ tables' = table
            /\ Reach(p, IF table = UsersTable THEN [at |-> "indexing"] ELSE AfterTable(table))
            /\ UNCHANGED <<byInitSql, phoneIndex, seeded, users, rosterVars>>

(* CREATE UNIQUE INDEX IF NOT EXISTS, a statement of its own, refused when *)
(* a phone is in the table twice by now.                                   *)
CreatePhoneIndex(p) ==
    /\ stage[p].at = "indexing"
    /\ IF \E u, v \in DOMAIN users : u # v /\ users[u].phone = users[v].phone
       THEN Panic(p)
       ELSE /\ phoneIndex' = TRUE
            /\ Reach(p, AfterTable(UsersTable))
            /\ UNCHANGED <<byInitSql, tables, seeded, users, rosterVars>>

-----------------------------------------------------------------------------
(* Seeds.                                                                  *)

CountUsers(p) ==
    /\ stage[p] = Counting
    /\ Reach(p, IF users # <<>> THEN Serving
                ELSE [at |-> "seeding", next |-> 1, owner |-> 0, family |-> 0])
    /\ UNCHANGED <<schemaVars, users, rosterVars>>

(* The next seed statement goes through: users, group, members, foods,     *)
(* consumption record, notifications, recipes.                             *)
Seeds(p, n, owner, family) ==
    /\ stage[p].at = "seeding" /\ stage[p].next = n
    /\ seeded' = seeded + 1
    /\ Reach(p, IF n = LastSeed THEN Serving
                ELSE [at |-> "seeding", next |-> n + 1, owner |-> owner, family |-> family])
    /\ UNCHANGED <<byInitSql, tables, phoneIndex>>

SeedUser(n, role) == [phone |-> SeedPhones[n], role |-> role, profile |-> NoProfile]

(* Seeded fault: an INSERT that does not meet the unique index.            *)
SeedUsersUnchecked(p) ==
    /\ Seeds(p, 1, Len(users) + 1, 0)
    /\ users' = users \o <<SeedUser(1, "admin"), SeedUser(2, "member")>>
    /\ UNCHANGED rosterVars

(* One INSERT for both users.                                              *)
SeedUsers(p) ==
    IF PhoneAccepted(SeedPhones[1]) /\ PhoneAccepted(SeedPhones[2])
    THEN /\ Seeds(p, 1, Len(users) + 1, 0)
         /\ users' = users \o <<SeedUser(1, "admin"), SeedUser(2, "member")>>
         /\ UNCHANGED rosterVars
    ELSE stage[p].at = "seeding" /\ stage[p].next = 1 /\ Panic(p)

SeedFamily(p) ==
    /\ Seeds(p, 2, stage[p].owner, Len(families) + 1)
    /\ families' = Append(families, [owner |-> stage[p].owner])
    /\ UNCHANGED <<users, members>>

(* One INSERT for both members.                                            *)
SeedMembers(p) ==
    /\ Seeds(p, 3, stage[p].owner, stage[p].family)
    /\ members' = members \o
         <<[family |-> stage[p].family, user |-> stage[p].owner, role |-> "admin"],
           [family |-> stage[p].family, user |-> stage[p].owner + 1, role |-> "member"]>>
    /\ UNCHANGED <<users, families>>

SeedFood(p) ==
    /\ stage[p].at = "seeding" /\ stage[p].next > 3
    /\ Seeds(p, stage[p].next, stage[p].owner, stage[p].family)
    /\ UNCHANGED <<users, rosterVars>>

-----------------------------------------------------------------------------

StartStep(p) ==
    /\ \/ FindUsersTable(p) \/ FindTable(p) \/ CreateTable(p) \/ CreatePhoneIndex(p)
       \/ CountUsers(p) \/ SeedUsers(p) \/ SeedFamily(p) \/ SeedMembers(p) \/ SeedFood(p)
    /\ UNCHANGED <<request, crashes>>

(* The process is killed; its container is started again.                  *)
Crash(p) ==
    /\ stage[p] # Starting
    /\ crashes < MaxCrashes
    /\ crashes' = crashes + 1
    /\ Reach(p, Starting)
    /\ UNCHANGED storeVars
=============================================================================
