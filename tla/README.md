# CyFreshFood in TLA+

CyFreshFood keeps track of the perishable food of a household: a Go service
(Gin, GORM, PostgreSQL, Redis) with a React frontend. Members of a family enter
food items with their dates, consume them and delete them; the service computes
expiry dates and a freshness status, and a scheduler in every server process
scans the items and raises alarms.

This directory holds a TLA+ model of that system where requests, scans, server
processes and days interleave: the food items with their scans and what users
are shown of them, accounts and families on a database that server processes
migrate and seed, and the rate limiter. With it come the TLC configurations
that check it on small instances, and proofs, checked by TLAPS, of what holds
for every instance.
Paths below are relative to the repository root; `B/` stands for
`backend/internal/`.

## 1. The system

### Components

| component | state | operations | hard behaviour |
| --- | --- | --- | --- |
| shelf-life calculator (`B/util/food_calculator.go`) | none | `CalculateExpiryDate`, `RemainingDays`, `ComputeFreshness` | dates of several zones, nil dates, bounds of the threshold |
| food item service (`B/service/food_item_service.go`, `B/repository/food_item_repository.go`) | `food_items` | Create, Update, Delete, Consume, ImportCSV, List, GetByID | read, check, compute and save are separate database calls; `Save` writes every column and inserts when the row is gone |
| consumption records (`B/repository/consumption_record_repository.go`) | `consumption_records` | created by Consume, listed | must agree with the stock |
| reminder service and scheduler (`B/service/reminder_service.go`, `reminder_scheduler.go`, `B/util/scheduler.go`) | lock key in Redis with a life of 30 s | tick, SetNX, list, status update and notification per item, Del | several processes, crashes, a lock left behind, rows that change after they were listed |
| notifications (`B/repository/notification_repository.go`, `B/service/notification_service.go`) | `notifications` | Create, HasForFoodAndType, list, MarkRead, MarkAllRead | the deduplicating query and the insert are not one step |
| notification sender (`B/service/notification_sender.go`) | none | SendStation, never called | - |
| family groups and members (`B/service/family_group_service.go`, `family_member_service.go`) | `family_groups`, `family_members` | Create, Invite, Join, SetMemberRole, Remove, IsMember | check-then-write on roles and membership |
| users and sessions (`B/service/user_service.go`, `B/util/jwt.go`, `B/middleware/auth.go`) | `users`, tokens | Register, Login, UpdateProfile | register checks before it inserts; the role in a token is not updated |
| rate limiter (`B/middleware/rate_limiter.go`) | a map of token buckets | allow | refill arithmetic, shared keys, a map that only grows |
| statistics, recipes (`B/service/stats_service.go`, `recipe_service.go`) | none | dashboard, waste report, recommendations | select by the stored status, show the status of the moment |
| startup (`backend/cmd/server/main.go`, `database/init.sql`) | schema and seeds | migrateAndSeed | a crash between its statements; several processes at once |
| routing, handlers, middleware (`B/router`, `B/handler`, `B/middleware`) | none | binding and translation of requests | - |
| frontend (`frontend/src`) | token, selected family, lists | login, select, fetch | responses out of order, expired tokens |

### How they interact

Requests run in goroutines of one or more server processes and meet only in
the database. A request of the food service asks the family service whether the
caller is a member (`requireMember`), reads a row with `FindByID`, computes a
new row in memory with the calculator, and writes it. The scheduler of every
process takes the lock in Redis at each tick, lists the rows whose stored
status is "fresh" or "expiring", computes for each the status it has now, and, if
that differs from the stored one and no notification of the type exists yet,
updates the status and inserts a notification in one transaction. Foreign keys tie
records and notifications to their item. No row is locked and no write is
conditional on what was read.

The services of accounts and families work the same way on `users`,
`family_groups` and `family_members`: look, then write. What keeps two of them apart is
the unique indexes, and which of these exist depends on who made the tables:
`database/init.sql` declares one on phones and one on family and user;
`AutoMigrate`, which a server process runs on an empty database, makes the first one only, in a
statement of its own.

### What makes them correct

* Stock: quantities and consumption records tell the same story; nothing
  becomes negative; nothing is taken that is not there; a deleted item stays
  deleted; references resolve.
* Status: "consumed" is backed by a record and final while nothing is put back.
* Alarms: one scan at a time; nobody is told the same thing twice; a fresh item
  is not announced; what expires is announced in the end.
* Rate limit: what passes in a minute is bounded; a caller that keeps trying, and
  what others do, does not put off its turn.
* Accounts: a phone leads to the one who registered it; what a token says
  stays true.
* Families: nobody is in a family twice; who was removed stays removed; only
  admins make admins.
* Startup: nothing is seeded twice; every process gets to serve; what it serves
  is complete.
* What users see: an expired item does not become fresh again by itself; what
  is about to expire is told or recommended.

The complete list of hazards, each at its line and with the properties that
would catch it, is `hazards` in `PROJECT.json`.

## 2. The modules

| module | models |
| --- | --- |
| `FoodCalculator` | the shelf-life rules as operators over day numbers |
| `FoodStore` | the tables `food_items`, `consumption_records`, `notifications`, the calendar, and the database calls the services use |
| `FoodService` | the requests of the food item service, one action per stretch of code between two database calls |
| `ReminderService` | the scheduler, its lock, and the scan |
| `Reports` | what the food list, the dashboard, the waste report and the recommendations answer |
| `FreshFood` | both services and the reports on one database; fairness; their properties |
| `StockLedger` | abstract specification: what the stock promises to someone who sees only quantities and records |
| `MCFreshFood` | seeds, inputs and symmetry for TLC |
| `HouseholdStore` | the tables `users`, `family_groups`, `family_members`, their queries and writes; what exists of the schema and of the seeds |
| `Startup` | `migrateAndSeed` of several processes, one action per statement; crash and restart |
| `UserService`, `FamilyGroupService` | the requests of the two services, one action per database call |
| `Household` | accounts and families while processes come up; fairness; their properties |
| `MCHousehold` | the bounds on requests for TLC |
| `RateLimiter` | the token buckets of one process |
| `SteadyBuckets` | abstract specification: buckets that fill at every tick |
| `MCRateLimiter` | callers for TLC |
| `FreshFoodProofs`, `StockProofs`, `StatusProofs`, `AlarmProofs` | theorems of `FreshFood` |
| `HouseholdProofs`, `AccountProofs`, `FamilyProofs` | theorems of `Household` |
| `RateLimiterProofs` | theorems of `RateLimiter` |

`FoodStore` extends `FoodCalculator`; `FoodService`, `ReminderService` and
`Reports` extend `FoodStore`, and `FreshFood` composes them by interleaving. It also
instantiates `StockLedger` with the refinement mapping
stock = quantity of the row (or absent), taken = sum of the records, known =
keys handed out. `RateLimiter` instantiates `SteadyBuckets` in the same way: the level
of a bucket is what its next call would find in it. `HouseholdStore` is extended by `Startup` and `UserService`,
the latter by `FamilyGroupService`, and `Household` composes all of them.

The three compositions stand apart from each other because no step of one reads what
another writes: a refused request reaches no handler; the food service asks
whether its caller is a member once, before it works, and a caller who is not
ends his request (`EndRequest`), which any client of `FreshFood` may do at any time.

### State and code

* `items[f]` is the row with key `f`, or `NoRow`. A row keeps the columns that the
  behaviour depends on: quantity, stored status, expiry, production and opened
  dates, shelf-life days. Names, categories, families and places do not
  matter to any step modelled.
* `allocated` is what the key sequence has handed out: a new item never takes
  the key of a deleted one, while `Save` of a stale row does.
* `recorded[f]` is the sum of the consumption records of `f`;
  `notified[f][type]` the number of notifications of that type.
* `today` is the day `time.Now()` falls on; the calculator reads it when it is called.
* `request[c]` is the request a client has in progress, with the row it read
  and computed: the local variables of the Go method.
* `entered[f]` is a history variable: the least quantity that a create, import
  or update entered for the key.
* `lock` is the key in Redis; `scan[s]` is the local state of the scan of instance `s`:
  the rest of its list (`todo`, rows as they were when listed) and the alarm it
  is about to commit. `faults` counts crashes and failed calls.
* In `Reports`, answers are operators on the state: each is one query and
  arithmetic on its result, at the moment it is asked.
* In `Household`, a table is the sequence of its rows and a key is an index,
  as keys are handed out in order and never used again; a deleted membership leaves `Gone`. `tables`
  says how many tables exist (they are made in a fixed order), `phoneIndex`
  whether the unique index on phones does, `seeded` how many seed statements went through, and
  `byInitSql` who set up the database. `request[c]` names the database
  call a request is about to make, with what it read before; `stage[p]` where process `p` is
  on its way to serving. `begun` and `crashes` count against the bounds.
* In `RateLimiter`, `buckets[k]` is the bucket of a key, or `NoBucket`; `now` the
  clock. `start`, `passed` and `served` are history: the minute under
  observation begins at `start`, any time, so a claim about it is one about every minute.

### Actions and code

| action | code |
| --- | --- |
| `Create` | `FoodItemService.Create`: computes dates and status, one INSERT |
| `FindForUpdate`, `ComputeUpdate`, `SaveUpdate` | `Update`: FindByID and the input applied; membership check, then calculator; `Save` of the whole row |
| `FindForConsume`, `CommitConsume` | `Consume`: FindByID, guards and subtraction; transaction of `Save` and the record |
| `FindForDelete`, `CommitDelete` | `Delete`: FindByID; DELETE, refused by foreign keys |
| `BeginImport`, `ImportRow` | `ImportCSV`: each row committed on its own |
| `EndRequest` | every early return and error: not a member, a refused statement, a lost connection, the end of the file |
| `AcquireLock`, `FinishScan`, `LockExpires` | SetNX with 30 s, deferred Del, Redis' expiry |
| `ListItems`, `SkipUnchanged`, `SkipAnnounced`, `PrepareAlarm`, `CommitAlarm`, `ListDone` | `Scan` |
| `AlarmRejected` | the notification's foreign key fails: rollback, and `Scan` returns |
| `PrepareUnchecked` | `HasForFoodAndType` fails and its error is dropped |
| `ScanFails`, `FinishScanLocked`, `Crash` | a failing query or transaction, a failing Del, a process that dies |
| `Tick` (`FreshFood`) | midnight |
| `List`, `Dashboard`, `TopWasted`, `Recommend` | `FoodItemService.List`, `StatsService`, `RecipeService.Recommend` |
| `CheckPhone`, `Register` | `UserService.Register`: count by phone; (hashing, then) INSERT |
| `FindForProfile`, `SaveProfile` | `UpdateProfile`: FindByID and the fields applied; `Save` of the whole row |
| `CreateFamily` | `FamilyGroupService.Create`: one transaction |
| `InviteMember`, `FindInvited`, `InsertMember` | `InviteMember`: caller is admin; the membership is looked for; INSERT |
| `JoinByCode`, `InsertMember` | `JoinByCode`: code and membership looked for, INSERT |
| `SetMemberRole`, `FindForRole`, `ChangeRole` | `SetMemberRole`: caller is admin; FindByID and the family compared; UPDATE of the role |
| `RemoveMember`, `FindForRemove`, `DeleteMembership` | `RemoveMember`, likewise with DELETE |
| `EndRequest` (`UserService`) | every early return and error |
| `FindUsersTable` | `migrateAndSeed`: is there a table `users`? |
| `FindTable`, `CreateTable`, `CreatePhoneIndex` | `AutoMigrate`: per table a question, a CREATE TABLE and, for `users`, a CREATE INDEX |
| `CountUsers`, `SeedUsers`, `SeedFamily`, `SeedMembers`, `SeedFood` | the seeds, one INSERT each |
| `Panic`, `Crash` (`Startup`) | an error of `migrateAndSeed`, a process that is killed: the container starts it again |
| `FirstRequest`, `Grant`, `Refuse` | `allow`, which runs under a mutex, and what `Limit` makes of it: a new key, a token taken, no token |
| `Tick` (`RateLimiter`) | time goes by |

### Abstractions

* Quantities are integers; the code has floats. The remainder that 0.3 less
  three times 0.1 leaves is outside the model (listed as a hazard).
* Dates are day numbers of one time zone, so that days left are a difference.
* A transaction is one action; a single statement is atomic. This is what
  PostgreSQL's default isolation gives for the statements used here: none of
  them reads and writes in a way that depends on a snapshot.
* A scan's list has no order: `ListByStatus` has no ORDER BY.
* The rate limiter counts time in ticks of 1/`Minute` of a minute and tokens in
  parts of 1/`Minute` of a token, so that a tick refills `PerMin` parts and all
  is integer; the code's floats approximate this. The proofs hold for any `Minute`.
  Keys follow `toString`: a user id becomes the text of one code point, and all
  ids that are no code point become the same one. Ids of 2^32 and more are left out.
* Seeds are rows like those of `database/init.sql`, which are all stored as "fresh" and have no consumption record;
  `SeedAssumption` asks for no consumed seed.
* CSV rows that do not parse end the import (`EndRequest`); a NaN quantity,
  which `ParseFloat` accepts, is not modelled.
* Of the reads, those that decide something by a status are in `Reports`.
  Shares by category and month, pages, the recipes that go with a category, and the
  limit of a thousand items of two queries are left out.
* A token stands for the user it names: it is valid at every process and for
  longer than a run, so a request may come from any user there is. Passwords,
  signatures and hashing are left out; that registering takes its time between
  look and INSERT is kept. Name and avatar are one value, the profile.
* An invite code is its family: a collision of two random codes, which the service
  tries to avoid by looking first, is left out.
* A request is not tied to a process: when its process dies it may end
  (`EndRequest`), and what the others do does not depend on where it ran.
* The tables after the third are made, and the seeds after the third are inserted, in the same way. How
  many there are is a constant of at least three and four; the runs have four of each for the
  code's seven, the proofs any number.
* Of the unique indexes only the two on phones and memberships are modelled:
  all others are on values that no two rows of a run share.

The definitions commented as a seeded fault are not part of any specification:
they are the plausible mistakes each property has to catch (`mutants` in
`PROJECT.json`).

## 3. What TLC checks

| run | question | result |
| --- | --- | --- |
| `StockConcurrent.cfg` | two clients with overlapping requests on one item, a scan, an import, one fault, failing reads: types, `StockAccounted`, `StockNonNegative`, `ConsumedIsRecorded`, `ReferencesResolve`, `RepeatsBounded`, `ArchivedStaysArchived` | holds; 1.1 million states |
| `Scans.cfg` | two scanning instances, one client, one fault, four days: `OneScanAtATime`, `AlarmedOnce`, `NoFreshAlarm`, `DashboardOnlyAges`, `KeepsLedger` (the refinement of `StockLedger`), and under fairness `ExpiryAnnounced`, `OverlookedIsRecommended` | holds; 190 000 states |
| `Household.cfg` | two clients and two processes on a database of init.sql or an empty one, one crash: types, `LoginReachesOwner`, `OneMembership`, `SeededOnce`, `TokensStayTrue`, `RemovedStaysRemoved`, `OrphanStaysOrphan`, and under fairness `EventuallyServes` | holds; 240 000 states |
| `Overdraft.cfg` | two clients consume: `TakeIsCovered` | violated |
| `ConsumedOverwritten.cfg` | consume during a scan: `ConsumedStaysConsumed` | violated |
| `StatusNotRefreshed.cfg` | the seeded cooked food and a scan: `StatusRefreshed` | violated |
| `ExpiringNotAnnounced.cfg` | an item entered when it is about to expire: `ExpiringAnnounced` | violated |
| `DuplicateAlarm.cfg` | two instances, a scan that outlives its lock: `AlarmedOnce` | violated |
| `RateLimits.cfg` | a user and an address calling at any times: types, `WindowBound`, `RefusedOnlyBusy`, `FillsSteadily` (the refinement of `SteadyBuckets`) | holds; 260 000 states |
| `PerMinute.cfg` | one user that calls all the time: `AtMostPerMinute` | violated |
| `StartupCrash.cfg` | a process that is killed while it migrates: `ServesComplete` | violated |
| `DuplicateJoin.cfg` | two requests on a database that a process has migrated: `DuplicateJoinRefused` | violated |

Run one with `tlc -config Scans.cfg MCFreshFood`; the runs of the rate limiter
with `MCRateLimiter`, `Household`, `StartupCrash` and `DuplicateJoin` with
`MCHousehold`. Deadlock is checked in the runs of `FreshFood` and the rate limiter:
a scanning instance or a client can always go on, and where there is neither,
the violation comes first. In `Household` everybody may have asked for all they
want when all processes serve.

### The bounds

* Clients: two. The races of this code are between the read of one request and the
  write of another; two are enough for each of them. Symmetry is used in
  `StockConcurrent`, whose invariants and one action property say the same of all clients.
* Items: one, because no step relates two items except the scan's list, and what
  a scan does with one entry of its list does not depend on the others. It comes
  into being in the run `Scans`, by a request or a file, and keeps its key.
* Instances: two where the lock is at stake. One fault over the run lets a crash,
  a lost Del or a failing call happen at any one point. `StockConcurrent` has one instance, for which
  `RepeatsBounded` is about a failing query only: with two whose scans overlap, its requests
  make too many states for TLC. For overlapping scans the bound is proved (`RepeatsAreBounded`), and
  `DuplicateAlarm` shows that it can be reached.
* Days: `MaxDay` lets an item entered on the first day go through fresh, expiring
  and expired while the scan is at work. Threshold and opened shelf life are 0 or 1
  rather than 3 and some days; only comparisons with them matter.
* Quantities: edits to 0 and to 2, consumption of 1 and 2, so that taking a part,
  taking all, and asking for too much all happen. `MaxRecorded` stops the
  sum of the records, which would grow for ever with edits in between.
* Household: two processes, one crash anywhere, so that a race of two and a
  restart into the work of another both happen. Two clients, whose requests are three where
  the database was prepared by init.sql and two where it was not; every race of this code is
  between two requests, and the third makes the state they meet in (someone has
  been invited, or an admin been made). One phone besides the two of the seeds, which people may
  register with before they are seeded. Up to three users, two families and four memberships.
  Queries for memberships may fail (`ReadErrors`).
* Rate limiter: two requests per minute, three ticks in a minute, eight ticks: a
  bucket is emptied, refilled by fractions that are no whole token, and left
  idle for longer than it takes to fill. Two callers, because keys do not share a bucket.

### Fairness

`ScanFairness` asks for weak fairness of `ScanStep` of each instance and of
`LockExpires`. The ticker in `B/util/scheduler.go` fires for as long as the
process runs, and a scan is straight-line code whose calls return; Redis drops
a key whose time has come. Nothing is assumed of clients, faults or the
calendar. `ExpiryAnnounced` needs only this: a request may withdraw the item
by editing, consuming or deleting it, and it then no longer counts.
`OverlookedIsRecommended` rests on the same scans.

In `Household`, each process is weakly fair about `StartStep`: `migrateAndSeed`
is straight-line code, and the container restarts a process that dies
(`restart: unless-stopped` in `docker-compose.yml`). Crashes are bounded, and nothing is
assumed of clients. `EventuallyServes` needs that a process which loses a race
panics and starts over: the next look finds the table `users` and is content.

### What the violations show

1. **Overlapping consumptions take more than there is** (`Overdraft`).
   `Consume` checks the row it read (`food_item_service.go:169`) and saves it
   without a lock or condition (`:190`). Two requests for the last two
   litres both succeed: two records of two litres, one subtraction. The test
   at `food_item_service_test.go:70` says that taking too much fails.
   `StockAccounted`, which does hold, says how far this goes: stock never vanishes
   without a record; only the records may claim too much. `TakesCovered` proves that
   it takes two requests: whatever scans write, one at a time takes only what is there.
2. **A scan takes "consumed" back** (`ConsumedOverwritten`).
   `UpdateStatus` by id (`reminder_service.go:57`) overwrites a row consumed since
   it was listed; an empty item is then expiring or expired, and is announced.
   `food_calculator.go:45` gives "consumed" priority.
   `ArchivedForGood` proves that this window is the only one: once no request or scan under
   way takes the item for anything else, none ever will.
3. **Announced items keep a stale status** (`StatusNotRefreshed`).
   With a notification of the type already there, `Scan` continues before the
   status update (`reminder_service.go:49`). The seeded cooked food stays
   "fresh" for ever, against `reminder_service.go:15`, "refresh the status".
4. **Late entries are never announced** (`ExpiringNotAnnounced`). `Create` and
   `Update` store the computed status, and `Scan` announces only changes
   (`reminder_service.go:38`): an item within the threshold when entered gets no
   "expiring" alarm, against `README.md:5`.
5. **A scan that outlives its lock alarms twice** (`DuplicateAlarm`). The lock
   expires after 30 seconds whatever the scan does (`reminder_scheduler.go:35`);
   a second instance takes it, both find no notification and both insert one,
   against the comment at `:34`. `RepeatsBounded` says that it is once per instance at most, failing queries aside.
6. **More than the limit per minute** (`PerMinute`). A full bucket can be used
   at once, is refilled in the minute that follows, and the request that makes it
   takes no token (`rate_limiter.go:41`): up to 2 * limit + 1 requests in a minute,
   against `:26`, "the greatest number of requests per minute". `WindowBound` says
   that it is never more.
7. **A crash while migrating is for good** (`StartupCrash`). `migrateAndSeed`
   takes the table `users` for a complete database (`main.go:114`). A process killed
   after creating it comes back, returns, and serves a database without the other tables or without seeds,
   against `:107`, "migrates and injects seed data". The same look saves
   a process that loses a race, but lets it serve before the winner is done.
   `PreparedServesComplete` and `AloneServesComplete` prove that a database of init.sql, and a single
   process that is not killed, are safe.
8. **A family joined twice** (`DuplicateJoin`). `JoinByCode` looks for the membership
   and inserts it later (`family_group_service.go:116`). The models of
   `AutoMigrate` do not declare the unique key that `init.sql` has, so on a
   database the server has made itself two overlapping requests both insert, against
   `family_group_service_test.go:50`. On a database of init.sql
   `OneMembership` holds, and `JoinsInTurnRefused` proves that without overlapping requests
   the look alone is enough, on any database.

## 4. What is proved

All theorems hold for all sets of items, clients, processes and instances, all
inputs, thresholds and bounds that satisfy the named assumptions of
the modules. Further hypotheses are in the theorem.

Of `FreshFood`:

| theorem | hypotheses | inductive invariant |
| --- | --- | --- |
| `TypeCorrect`: `[]TypeOK` | - | `TypeOK` itself |
| `StockIsAccounted`: `[]StockAccounted` | - | `StockInv` |
| `ReferencesAlwaysResolve`: `[]ReferencesResolve` | - | `ReferenceInv` |
| `StockNeverNegative`: `[]StockNonNegative` | `NonNegativeInputs` | `SignInv` |
| `ServiceKeepsLedger`: `KeepsLedger` | `OneClient` | `LedgerInv` |
| `TakesCovered`: `TakeIsCovered` | `OneClient` | `LedgerInv` |
| `ConsumedAlwaysRecorded`: `[]ConsumedIsRecorded` | - | `ConsumedInv` |
| `ArchivedForGood`: `ArchivedStaysArchived` | - | `ArchiveInv` |
| `FreshNeverAnnounced`: `[]NoFreshAlarm` | `~ReadErrors`, `SeedsJustified` | `FreshInv` |
| `DashboardAges`: `DashboardOnlyAges` | - | `TypeOK` |
| `OneScanner`: `[]OneScanAtATime` | `~SlowScans` | `LockInv` |
| `AlarmedAtMostOnce`: `[]AlarmedOnce` | `~SlowScans`, `~ReadErrors`, `SeedsAnnouncedOnce` | `AlarmInv` |
| `RepeatsAreBounded`: `[]RepeatsBounded` | `SomeInstances`, `SeedsAnnouncedOnce` | `BoundInv` |

Of `Household`:

| theorem | hypotheses | inductive invariant |
| --- | --- | --- |
| `TypeCorrect`: `[]TypeOK` | - | `TypeOK` itself |
| `TokensAlwaysTrue`: `TokensStayTrue` | - | `TypeOK`, `SavesKept` |
| `LoginCorrect`: `[]LoginReachesOwner` | - | `TypeOK`, `SavesKept`, `StartIndex`, `DistinctPhones` |
| `SeedsCorrect`: `[]SeededOnce` | - | `TypeOK`, `SavesKept`, `SeedProgress` |
| `PreparedServesComplete`: `[](byInitSql => ServesComplete)` | - | `TypeOK`, `Prepared`, `SeedsPrepared` |
| `AloneServesComplete`: `[]ServesComplete` | one process, no crash | `TypeOK`, `AloneInv` |
| `RemovalsLast`: `RemovedStaysRemoved` | - | `TypeOK` |
| `MembershipCorrect`: `[]OneMembership` | - | `TypeOK`, `Prepared`, `FamiliesKnown`, `DistinctMembers` |
| `JoinsInTurnRefused`: `[]DuplicateJoinRefused` | one client, one process, `~ReadErrors` | `TypeOK`, `FamiliesKnown`, `MembersDiffer`, `ClosedInv`, `JoinsNew` |
| `OrphansStay`: `OrphanStaysOrphan` | - | `TypeOK`, `UpdatesKept` |

`TakesCovered`, `PreparedServesComplete`, `AloneServesComplete` and `JoinsInTurnRefused` are about properties
that the runs of section 3 violate: each names conditions under which the promise is kept, and so what it
takes to break it.

Of `RateLimiter`:

| theorem | hypotheses | inductive invariant |
| --- | --- | --- |
| `BucketsTyped`: `[]TypeOK` | - | `TypeOK` itself |
| `MinuteBounded`: `[]WindowBound` | - | `WindowInv` |
| `RefusalsAreShort`: `RefusedOnlyBusy` | `SmallIds` | `RefillInv` |
| `LimiterFillsSteadily`: `FillsSteadily` | - | `TypeOK` |

* **Stock.** `StockAccounted` is not inductive: what a consumption saves was
  computed from an earlier row. `ConsumptionAccounted` says that this row, the
  amount and the records already there still cover what was entered, which other
  requests can only help: records grow and `entered`, a least quantity,
  falls. `KeysAllocated` keeps a key that a request refers to from being given to a new item,
  which would raise `entered` under it.
* **References.** The database refuses to delete what is referenced, and every
  other write leaves a row behind.
* **Sign.** The guard of `Consume` looks at the very row that is written, so a
  stale write is wrong in other ways but not negative.
* **Ledger.** With one client a request finds the row as it left it, but for a status
  that a scan wrote: `Fits` says so of what it is about to write. Every step of a
  request then is a move of the ledger or none, and every other step none, since scans
  change neither quantities nor which rows there are (`QuietQuantities`). That a
  consumption is covered (`TakesCovered`) is the same invariant, read at the commit.
* **Consumed.** A row in the hands of an edit may carry "consumed" from the time
  it was read; `ConsumedRowsRecorded` says that its item has a record already, and
  records are never removed. `ScanListsLive` says that scans write no
  "consumed".
* **Archived.** `Archived` is an invariant of each item by itself, from the moment it holds: requests that
  read the row read "consumed" and keep it (`ArchivedRequests`), the list of a scan leaves it out
  (`ArchivedScans`), its record keeps it from being deleted, which is `ConsumedInv`, and no insertion hits its
  key, which is `KeysAllocated` of the stock (`ArchivedTables`).
* **Fresh.** `Scan` would announce any change of status but one to "expired" as
  "expiring", also a change to "fresh". `FreshInv` says of every row, in the table, in a
  request or in a list, that "expiring" is *justified*: the item is
  within the threshold, where days only bring it closer, or was announced before.
  Then a scan finds an item fresh that is stored as expiring only after an alarm,
  and the deduplicating query skips it. If the query fails (`ReadErrors`) the
  argument breaks, which is why the hypothesis is there.
* **Dashboard.** `DashboardShows` turns what is shown into what is stored: an
  item is shown as expired when its date is past and its row is not "consumed". Days do not
  go back, so that no status written late matters, "consumed" aside.
* **Lock.** Who scans holds the lock: `FinishScan` and `Crash` give up the one
  scan there is, and the key expires under a scan only if scans can be slow.
* **Alarms.** The query and the commit of an alarm are two steps.
  `PendingAlarmNew` says that the alarm about to be committed is not there yet; only
  another scan could raise it, and `OneScanAtATime` says there is none.
* **Repeats.** Without the lock, or with failing queries, `BoundInv` counts the alarms raised and
  the scans about to raise one more (`Pending`) together. A scan that asks and finds none
  starts the count at the number of scans that can be about to raise it (`Crowd`); one whose
  query fails adds one, and a fault; the commit moves one from the scans to the alarms. `SomeInstances` (finitely many, at least
  one) lets them be counted.
* **Minute.** `WindowBound` alone says nothing about the tokens left. `Account`
  does: what a key got through since the minute began and what its bucket holds are
  within a full bucket, the first request, and the refill until the bucket's
  last use. A refill adds to both sides alike, a token moves from the bucket
  to what passed.
* **Steady buckets.** The level of a bucket is what its next call would find. A tick adds the refill of a
  tick to it, up to the capacity (`LevelTicks`), and a call, refused ones included, leaves it what it left
  in the bucket, since nothing is refilled in no time (`LevelLeft`).
* **Refusals.** `RefillInv` says that a bucket is full or holds at least the
  refill since its caller was let through: refused calls take nothing away. This
  needs `SmallIds`, under which `OwnKeys` shows that no two callers share a bucket;
  user ids that are no code point do share one, and the claim fails for them.

* **Tokens.** `SavesKept` says of a profile about to be saved that its phone and
  role are those of the row it goes to. No other write touches a user's row, so that a late save may lose
  another profile but nothing that a token carries.
* **Logins.** The unique index is made when the database is, or later, among rows that overlapping registrations
  may have left: `CREATE INDEX` is refused unless all phones differ (`PhonesDiffer`), and from then on
  the index keeps them apart (`DistinctPhones`). `StartIndex` says that a process that is past the index has seen it, and
  so that seeds are inserted under it.
* **Seeds.** `SeedProgress` follows the processes on an empty database: whoever is past
  the table `users` has seen the unique index made, so that only one gets the
  seed of users in, and `seeded` is what that one has done so far. It says too that, once something is
  seeded, the phone of the first seed is taken for good, which keeps out those
  that counted users too early, and those that come up again after a crash.
* **Serving.** On a database of init.sql nothing is ever migrated (`SeedsPrepared`). A process alone
  has made exactly the tables and seeds that its stage says (`AloneInv`): nobody else makes any, so its questions
  and inserts do not fail.
* **Memberships.** `MembersKept` is what any step does to `family_members`: a row
  keeps its family and user or is gone for good. It gives `RemovedStaysRemoved` at
  once: the UPDATE of a role by key finds no row any more.
  `OneMembership` rests on the unique key for inserted rows, and on `FamiliesKnown`
  for a new family, which nobody can be a member of before it is made.
* **Joinings.** Without the key the look has to be enough. With one client nothing comes between it and the insertion but
  the steps of the process (`JoinsNew`), and these insert memberships only while nobody is a member of
  anything: `ClosedInv` says that an empty database stays so until it is served.
* **Orphans.** The property carries its own strengthening: `Orphaned` speaks of
  rows, of requests and of the seeds under way. The proof needs that the row whose role is set is of the
  family where it was found (`UpdatesKept`); keys are never reused.

Each proof has a lemma per kind of step. `RequestTables` and `QuietTables` in `FreshFoodProofs` sum up
what the steps of a client and all others do to the tables; `NextSteps` splits
the next-state relation.

## 5. What is only model-checked

`ExpiryAnnounced`, `OverlookedIsRecommended` and `EventuallyServes`: liveness
under fairness, which the prover does not reach. Everything else that the
passing runs check is proved as well: the runs show it on instances where every step happens, the
theorems for all others, also for more requests, items and processes than TLC can go through. The violations are found by TLC only: a
counterexample is one behaviour.

## 6. What is not modelled

Every component is listed in `PROJECT.json` with its status.

* The notification sender is made and dropped in `main`: nothing calls it.
* The frontend: pages over the state of one browser. Its requests are
  among those that the clients of `FreshFood` and `Household` may send. Two places where a
  late answer or a change of user matters are listed as hazards.
* Logging, errors turned into answers, configuration, the route table:
  they keep no state and take no decision that a property sees. `RequireRole`
  guards no route.
* Reading notifications and marking them as read: one statement each, on a
  column nothing else looks at.
* The text of imported files, which ends in a row or in the end of the import
  here; a NaN, which the parser lets through, and the count that a failed
  import returns.
* Zones and daylight saving: a date is the number of a day.
* The rounding of floats, in quantities and in tokens; the memory
  that the rate limiter's buckets take, none of which is ever dropped.

Alarms are claimed to be unique only without slow scans and
failing deduplication reads (`SlowScans`, `ReadErrors`); with either they are not,
by `reminder_scheduler.go:35` and `reminder_service.go:48`, but still bounded (`RepeatsBounded`). Accounts are
claimed to be unique once the index on phones exists: on an empty database people may register while it is still to
be made, and `CreatePhoneIndex` then panics. Memberships are claimed to be unique on a database of init.sql: on
another, overlapping requests may join twice for want of a key.

## 7. Plan

1. **Done**: calculator, store, food service, reminder service, their composition,
   the stock ledger and its refinement; the reports; the rate limiter; accounts,
   families and startup; the theorems of section 4, for every property that the passing runs check but liveness,
   and for four of the refuted ones under the conditions that save them.
2. Float quantities as multiples of a binary fraction, and the remainder that keeps an
   item from being consumed (`food_item_service.go:185`).
3. The import with its count and a client that tries again after a partial one.
4. Days left between midnights of two zones, against a reference definition.
5. The frontend's selected family and its lists, with answers out of order.
6. An abstract roster of who is in which family with which role, and the proof that
   the family service implements it.
