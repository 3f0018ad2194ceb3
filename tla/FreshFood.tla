------------------------------ MODULE FreshFood ------------------------------
(***************************************************************************)
(* The food service and the reminder service at work on one database: the  *)
(* requests of the clients and the scans of the server instances           *)
(* interleave, and days go by.                                             *)
(***************************************************************************)
EXTENDS FoodService, ReminderService, Reports, FiniteSets

vars == <<storeVars, serviceVars, reminderVars>>

Init == StoreInit /\ ServiceInit /\ ReminderInit

Next ==
    \/ \E c \in Clients, f \in FoodIds :
          \/ Create(c, f) /\ UNCHANGED reminderVars
          \/ ImportRow(c, f) /\ UNCHANGED reminderVars
          \/ FindForUpdate(c, f) /\ UNCHANGED reminderVars
          \/ FindForConsume(c, f) /\ UNCHANGED reminderVars
          \/ FindForDelete(c, f) /\ UNCHANGED reminderVars
    \/ \E c \in Clients :
          \/ BeginImport(c) /\ UNCHANGED reminderVars
          \/ ComputeUpdate(c) /\ UNCHANGED reminderVars
          \/ SaveUpdate(c) /\ UNCHANGED reminderVars
          \/ CommitConsume(c) /\ UNCHANGED reminderVars
          \/ CommitDelete(c) /\ UNCHANGED reminderVars
          \/ EndRequest(c) /\ UNCHANGED reminderVars
    \/ \E s \in Instances, f \in FoodIds :
          \/ SkipUnchanged(s, f) /\ UNCHANGED serviceVars
          \/ SkipAnnounced(s, f) /\ UNCHANGED serviceVars
          \/ PrepareAlarm(s, f) /\ UNCHANGED serviceVars
          \/ PrepareUnchecked(s, f) /\ UNCHANGED serviceVars
    \/ \E s \in Instances :
          \/ AcquireLock(s) /\ UNCHANGED serviceVars
          \/ ListItems(s) /\ UNCHANGED serviceVars
          \/ CommitAlarm(s) /\ UNCHANGED serviceVars
          \/ AlarmRejected(s) /\ UNCHANGED serviceVars
          \/ ListDone(s) /\ UNCHANGED serviceVars
          \/ ScanFails(s) /\ UNCHANGED serviceVars
          \/ FinishScan(s) /\ UNCHANGED serviceVars
          \/ FinishScanLocked(s) /\ UNCHANGED serviceVars
          \/ Crash(s) /\ UNCHANGED serviceVars
    \/ LockExpires /\ UNCHANGED serviceVars
    \/ Tick /\ UNCHANGED <<serviceVars, reminderVars>>

Spec == Init /\ [][Next]_vars

(* Tickers fire for as long as a process runs, a scan that is not hit by a *)
(* fault goes on to its end, and Redis drops a key whose time has come.    *)
(* Nothing is assumed of the clients, nor of the calendar: a day holds     *)
(* hundreds of scans.                                                      *)
ScanFairness ==
    /\ \A s \in Instances : WF_vars(ScanStep(s) /\ UNCHANGED serviceVars)
    /\ WF_vars(LockExpires /\ UNCHANGED serviceVars)

FairSpec == Spec /\ ScanFairness

TypeOK == StoreTypeOK /\ ServiceTypeOK /\ ReminderTypeOK

-----------------------------------------------------------------------------
(* Stock.                                                                  *)

(* Whatever the interleaving, what is left of an item and what was         *)
(* recorded as consumed of it add up to at least what was entered for it:  *)
(* lost updates may let clients take too much, but no stock disappears     *)
(* without a consumption record (Consume, food_item_service.go:184-197).   *)
StockAccounted ==
    \A f \in FoodIds :
        Exists(f) => items[f].quantity + recorded[f] >= entered[f]

(* No sequence of requests leaves a negative quantity in the table, stale  *)
(* writes included (guard at food_item_service.go:179, binding at          *)
(* food_dto.go:12).                                                        *)
StockNonNegative ==
    \A f \in FoodIds : Exists(f) => items[f].quantity >= 0

(* To someone who looks only at quantities and records, requests that do   *)
(* not overlap keep the promises of the stock ledger, whatever the scans   *)
(* write meanwhile: every record is covered by stock, the stock falls by   *)
(* exactly what is recorded, and a deleted item does not come back         *)
(* (food_item_service.go:49-203).                                          *)
Ledger == INSTANCE StockLedger WITH
    Foods <- FoodIds, Absent <- NoRow, known <- allocated, taken <- recorded,
    stock <- [f \in FoodIds |-> IF items[f] = NoRow THEN NoRow ELSE items[f].quantity]

KeepsLedger == Ledger!Spec

(* A consumption record is only written for stock that is in the table at  *)
(* that moment: taking more than there is fails                            *)
(* (food_item_service_test.go:70, food_item_service.go:179).               *)
TakeIsCovered ==
    [][\A f \in FoodIds :
          recorded'[f] > recorded[f] =>
              /\ Exists(f)
              /\ recorded'[f] - recorded[f] <= items[f].quantity]_vars

(* An item marked consumed has a consumption record to show for it, also   *)
(* when its row was written back by requests that had read it earlier, and *)
(* whatever the scan wrote to its status meanwhile                         *)
(* (food_item_service.go:185-197).                                         *)
ConsumedIsRecorded ==
    \A f \in FoodIds :
        Exists(f) /\ items[f].status = "consumed" => recorded[f] > 0

(* Records and notifications refer to an item that is there: deleting an   *)
(* item races with consuming it and with announcing it, and the row may    *)
(* even be written back after the delete (food_item_service.go:160,        *)
(* food_item_service.go:189, reminder_service.go:56).                      *)
ReferencesResolve ==
    \A f \in FoodIds : Referenced(f) => Exists(f)

(* A consumed item keeps that status as long as nothing is put back in     *)
(* stock (ComputeFreshness, food_calculator.go:45-49).                     *)
ConsumedStaysConsumed ==
    [][\A f \in FoodIds :
          /\ Exists(f)
          /\ items[f].status = "consumed"
          /\ items'[f].quantity = 0
          => items'[f].status = "consumed"]_vars

(* A consumed item that no request and no scan under way takes for         *)
(* anything else.                                                          *)
Archived(f) ==
    /\ Exists(f)
    /\ items[f].status = "consumed"
    /\ \A c \in Clients :
          request[c].op \in {"editing", "saving", "consuming"} /\ request[c].food = f =>
              request[c].op # "consuming" /\ request[c].row.status = "consumed"
    /\ \A s \in Instances :
          /\ scan[s].stage \in {"scanning", "alarming"} => scan[s].todo[f] = NoRow
          /\ scan[s].stage = "alarming" => scan[s].food # f

(* Such an item is out of play for good, also when someone edits stock     *)
(* back into it: nothing is taken of it and nobody is told about it again, *)
(* and no request brings it back or removes it                             *)
(* (food_item_service.go:143, :175, reminder_service.go:33).               *)
ArchivedStaysArchived ==
    [][\A f \in FoodIds :
          Archived(f) =>
              Archived(f)' /\ recorded'[f] = recorded[f] /\ notified'[f] = notified[f]]_vars

-----------------------------------------------------------------------------
(* Scans and alarms.                                                       *)

(* The scan lock keeps two instances from scanning at the same time        *)
(* (reminder_scheduler.go:34-43).                                          *)
OneScanAtATime ==
    \A s, t \in Instances : scan[s] # Waiting /\ scan[t] # Waiting => s = t

(* Nobody is told twice the same thing about an item, however often its    *)
(* row is written back with an old status, a scan is cut short by a crash  *)
(* or the lock is left behind (notification_repository.go:89-95,           *)
(* reminder_service.go:48-64).                                             *)
AlarmedOnce ==
    \A f \in FoodIds, t \in NotificationTypes : notified[f][t] <= 1

(* Scans that may be about to raise an alarm at the same time.             *)
Scanners == IF SlowScans THEN Cardinality(Instances) ELSE 1

(* Where the lock does not keep scans apart, or the query for an earlier   *)
(* alarm fails and its error is taken for "none", people are told more     *)
(* than once, but within bounds: at most once by every instance, and once  *)
(* for every failure, however often rows are written back with an old      *)
(* status (reminder_service.go:48, reminder_scheduler.go:35).              *)
RepeatsBounded ==
    \A f \in FoodIds, t \in NotificationTypes : notified[f][t] <= Scanners + faults

(* The scan never announces an item it takes for fresh.  Every change of   *)
(* status but to "expired" is announced as "expiring", so this rests on    *)
(* which stored statuses and dates can meet in one row                     *)
(* (reminder_service.go:37-46).                                            *)
NoFreshAlarm ==
    \A s \in Instances :
        scan[s].stage = "alarming" => scan[s].status # "fresh"

(* An expired item that the scan still looks for, and nobody was told of.  *)
UnannouncedExpired(f) ==
    /\ Exists(f)
    /\ items[f].status \in {"fresh", "expiring"}
    /\ Freshness(f) = "expired"
    /\ ~HasForFoodAndType(f, "expired")

(* Every such item is announced in the end, unless a request changes it    *)
(* first: scans that crash, fail or lose their lock are made up for by     *)
(* later ones (reminder_service.go:29-73, reminder_scheduler.go:32-47).    *)
ExpiryAnnounced == \A f \in FoodIds : UnannouncedExpired(f) ~> ~UnannouncedExpired(f)

(* The scan brings the stored status of an expired item up to date         *)
(* (reminder_service.go:15).                                               *)
StaleExpired(f) ==
    /\ Exists(f)
    /\ items[f].status \in {"fresh", "expiring"}
    /\ Freshness(f) = "expired"

StatusRefreshed == \A f \in FoodIds : StaleExpired(f) ~> ~StaleExpired(f)

(* An item about to expire is announced as such while it is about to       *)
(* (README.md:5).                                                          *)
UnannouncedExpiring(f) ==
    /\ Exists(f)
    /\ Freshness(f) = "expiring"
    /\ ~HasForFoodAndType(f, "expiring")

ExpiringAnnounced ==
    \A f \in FoodIds : UnannouncedExpiring(f) ~> ~UnannouncedExpiring(f)

-----------------------------------------------------------------------------
(* What users are shown.                                                   *)

(* On the dashboard an expired item stays expired until it is consumed, or *)
(* someone changes its dates: old statuses that late writes of requests    *)
(* and scans put back into its row do not freshen it up                    *)
(* (stats_service.go:58-71, food_item_service.go:79-83).                   *)
DashboardOnlyAges ==
    [][\A f \in FoodIds :
          /\ f \in Dashboard["expired"]
          /\ Exists(f)'
          /\ items'[f].expiry = items[f].expiry
          => (f \in Dashboard["expired"] \cup Dashboard["consumed"])']_vars

(* An item that the dashboard shows as expiring and the recommendations    *)
(* miss, without an alarm to have told anyone.                             *)
Overlooked(f) ==
    f \in Dashboard["expiring"] \ Recommend /\ ~HasForFoodAndType(f, "expiring")

(* The scans see to it that such an item is recommended, unless its dates  *)
(* move on: the filter of the recommendations takes in whatever status a   *)
(* scan may leave behind (recipe_service.go:47-66,                         *)
(* reminder_service.go:33-64).                                             *)
OverlookedIsRecommended ==
    \A f \in FoodIds : Overlooked(f) ~> f \notin Dashboard["expiring"] \ Recommend
=============================================================================
