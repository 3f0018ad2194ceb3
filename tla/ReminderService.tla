--------------------------- MODULE ReminderService ---------------------------
(***************************************************************************)
(* ReminderScheduler and ReminderService: every server instance scans the  *)
(* items once per tick of its ticker, if it gets the scan lock in Redis,   *)
(* and turns a change of freshness into a status update and an alarm.      *)
(***************************************************************************)
EXTENDS FoodStore

CONSTANTS
    Instances,   \* server processes, each with one scheduler goroutine
    SlowScans,   \* may a scan outlive the 30 s of its lock?
    ReadErrors,  \* may the query for an existing notification fail?
    MaxFaults    \* bound: crashes and failed calls over the whole run

VARIABLES
    lock,    \* the lock key exists in Redis
    scan,    \* what the scheduler of each instance is doing
    faults   \* crashes and failed calls so far

reminderVars == <<lock, scan, faults>>

ASSUME SlowScansAssumption == SlowScans \in BOOLEAN
ASSUME ReadErrorsAssumption == ReadErrors \in BOOLEAN
ASSUME MaxFaultsAssumption == MaxFaults \in Nat

Waiting == [stage |-> "waiting"]

ScanState ==
    [stage: {"waiting", "locked", "finishing"}]
      \cup [stage: {"scanning"}, todo: Table]
      \cup [stage: {"alarming"}, todo: Table, food: FoodIds, status: Statuses]

ReminderTypeOK ==
    /\ lock \in BOOLEAN
    /\ scan \in [Instances -> ScanState]
    /\ faults \in Nat

ReminderInit ==
    /\ lock = FALSE
    /\ scan = [s \in Instances |-> Waiting]
    /\ faults = 0

Enter(s, state) == scan' = [scan EXCEPT ![s] = state]

Fault ==
    /\ faults < MaxFaults
    /\ faults' = faults + 1

(* Every status but "expired" falls under the default type.                *)
AlarmType(status) == IF status = "expired" THEN "expired" ELSE "expiring"

(* Status of an item of the scan's list, computed when its turn comes.     *)
StatusNow(row) == ComputeFreshness(row.status, row.expiry, today)

-----------------------------------------------------------------------------
(* The scheduler's lock.                                                   *)

(* Seeded fault: a plain SET, which does not look at the old value.        *)
AcquireLockBlindly(s) ==
    /\ scan[s] = Waiting
    /\ lock' = TRUE
    /\ Enter(s, [stage |-> "locked"])
    /\ UNCHANGED <<storeVars, faults>>

(* SetNX.  An instance that finds the key taken waits for its next tick.   *)
AcquireLock(s) ==
    /\ scan[s] = Waiting
    /\ ~lock
    /\ lock' = TRUE
    /\ Enter(s, [stage |-> "locked"])
    /\ UNCHANGED <<storeVars, faults>>

(* Seeded fault: the key is set without a time to live.                    *)
LockStays == FALSE /\ UNCHANGED <<storeVars, reminderVars>>

(* The key's time to live runs out; under a scan in progress only if scans *)
(* can take that long.                                                     *)
LockExpires ==
    /\ lock
    /\ (\E s \in Instances : scan[s] # Waiting) => SlowScans
    /\ lock' = FALSE
    /\ UNCHANGED <<storeVars, scan, faults>>

(* The deferred Del removes the key, whoever set it.                       *)
FinishScan(s) ==
    /\ scan[s].stage = "finishing"
    /\ lock' = FALSE
    /\ Enter(s, Waiting)
    /\ UNCHANGED <<storeVars, faults>>

(* Redis does not answer the Del: the key stays until it expires.          *)
FinishScanLocked(s) ==
    /\ scan[s].stage = "finishing"
    /\ Fault
    /\ Enter(s, Waiting)
    /\ UNCHANGED <<storeVars, lock>>

(* The process dies and is restarted; its lock stays until it expires.     *)
Crash(s) ==
    /\ scan[s] # Waiting
    /\ Fault
    /\ Enter(s, Waiting)
    /\ UNCHANGED <<storeVars, lock>>

-----------------------------------------------------------------------------
(* Scan.                                                                   *)

ListItems(s) ==
    /\ scan[s].stage = "locked"
    /\ Enter(s, [stage |-> "scanning",
                 todo |-> ListByStatus({"fresh", "expiring"})])
    /\ UNCHANGED <<storeVars, lock, faults>>

(* The rest of the list once f has been dealt with.                        *)
Without(todo, f) == [todo EXCEPT ![f] = NoRow]

(* f comes up next, the list has no order.                                 *)
Reaches(s, f) ==
    /\ scan[s].stage = "scanning"
    /\ scan[s].todo[f] # NoRow

Skip(s, f) ==
    /\ Enter(s, [scan[s] EXCEPT !.todo = Without(@, f)])
    /\ UNCHANGED <<storeVars, lock, faults>>

SkipUnchanged(s, f) ==
    /\ Reaches(s, f)
    /\ StatusNow(scan[s].todo[f]) = scan[s].todo[f].status
    /\ Skip(s, f)

(* An alarm of this type was raised before: the status is left as it is.   *)
SkipAnnounced(s, f) ==
    /\ Reaches(s, f)
    /\ LET row == scan[s].todo[f]
       IN  /\ StatusNow(row) # row.status
           /\ HasForFoodAndType(f, AlarmType(StatusNow(row)))
    /\ Skip(s, f)

Announce(s, f) ==
    Enter(s, [stage |-> "alarming", todo |-> Without(scan[s].todo, f),
              food |-> f, status |-> StatusNow(scan[s].todo[f])])

PrepareAlarm(s, f) ==
    /\ Reaches(s, f)
    /\ LET row == scan[s].todo[f]
       IN  /\ StatusNow(row) # row.status
           /\ ~HasForFoodAndType(f, AlarmType(StatusNow(row)))
    /\ Announce(s, f)
    /\ UNCHANGED <<storeVars, lock, faults>>

(* The query fails and its error is dropped: "exists" is false.            *)
PrepareUnchecked(s, f) ==
    /\ ReadErrors
    /\ Reaches(s, f)
    /\ StatusNow(scan[s].todo[f]) # scan[s].todo[f].status
    /\ Fault
    /\ Announce(s, f)
    /\ UNCHANGED <<storeVars, lock>>

(* One transaction: the new status and the notification.                   *)
CommitAlarm(s) ==
    /\ scan[s].stage = "alarming"
    /\ LET f == scan[s].food
           status == scan[s].status
       IN  /\ Exists(f)
           /\ UpdateStatus(f, status)
           /\ CreateNotification(f, AlarmType(status))
    /\ Enter(s, [stage |-> "scanning", todo |-> scan[s].todo])
    /\ UNCHANGED <<allocated, recorded, today, lock, faults>>

(* The item is gone: the notification violates its foreign key, the        *)
(* transaction is rolled back and the rest of the list is given up.        *)
AlarmRejected(s) ==
    /\ scan[s].stage = "alarming"
    /\ ~Exists(scan[s].food)
    /\ Enter(s, [stage |-> "finishing"])
    /\ UNCHANGED <<storeVars, lock, faults>>

ListDone(s) ==
    /\ scan[s].stage = "scanning"
    /\ \A f \in FoodIds : scan[s].todo[f] = NoRow
    /\ Enter(s, [stage |-> "finishing"])
    /\ UNCHANGED <<storeVars, lock, faults>>

(* A database error in the listing or in a transaction ends the scan.      *)
ScanFails(s) ==
    /\ scan[s].stage \in {"locked", "alarming"}
    /\ Fault
    /\ Enter(s, [stage |-> "finishing"])
    /\ UNCHANGED <<storeVars, lock>>

-----------------------------------------------------------------------------

(* What an instance does as long as nothing fails.                         *)
ScanStep(s) ==
    \/ AcquireLock(s)
    \/ ListItems(s)
    \/ \E f \in FoodIds :
          \/ SkipUnchanged(s, f)
          \/ SkipAnnounced(s, f)
          \/ PrepareAlarm(s, f)
    \/ CommitAlarm(s)
    \/ AlarmRejected(s)
    \/ ListDone(s)
    \/ FinishScan(s)
=============================================================================
