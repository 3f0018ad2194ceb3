------------------------------ MODULE FoodStore ------------------------------
(***************************************************************************)
(* The three tables the food and reminder services share, with the         *)
(* repository calls that read and write them, and the calendar.            *)
(*                                                                         *)
(* A repository call outside a transaction is one step (autocommit, Read   *)
(* Committed); a transaction is one step too: its first statement locks    *)
(* the row of food_items it writes until the commit.                       *)
(***************************************************************************)
EXTENDS FoodCalculator

CONSTANTS
    FoodIds,        \* primary keys of food_items that a run may hand out
    NoRow,          \* there is no row under this key
    Seed,           \* the rows of food_items when the server starts
    SeedNotified,   \* the notifications of each row when the server starts
    MaxDay          \* bound: the calendar stops at this day

VARIABLES
    items,      \* food_items: key -> row or NoRow
    allocated,  \* keys the sequence of food_items has handed out, never reused
    recorded,   \* consumption_records: key -> sum of the quantities recorded
    notified,   \* notifications: key -> type -> number of rows
    today       \* the day time.Now() falls on

storeVars == <<items, allocated, recorded, notified, today>>

NotificationTypes == {"expiring", "expired"}

FoodRow == [quantity: Int, status: Statuses, expiry: Date,
            production: Date, shelf: Int, opened: Date]

Table == [FoodIds -> FoodRow \cup {NoRow}]

ASSUME NoRowAssumption == NoRow \notin FoodRow /\ NoRow \notin Int
ASSUME SeedAssumption ==
    /\ Seed \in Table
    /\ SeedNotified \in [FoodIds -> [NotificationTypes -> Nat]]
    /\ \A f \in FoodIds : Seed[f] = NoRow =>
          \A t \in NotificationTypes : SeedNotified[f][t] = 0
    /\ \A f \in FoodIds : Seed[f] # NoRow => Seed[f].status # "consumed"
ASSUME MaxDayAssumption == MaxDay \in Nat

StoreTypeOK ==
    /\ items \in Table
    /\ allocated \in SUBSET FoodIds
    /\ recorded \in [FoodIds -> Nat]
    /\ notified \in [FoodIds -> [NotificationTypes -> Nat]]
    /\ today \in Nat

StoreInit ==
    /\ items = Seed
    /\ allocated = {f \in FoodIds : Seed[f] # NoRow}
    /\ recorded = [f \in FoodIds |-> 0]
    /\ notified = SeedNotified
    /\ today = 0

Exists(f) == items[f] # NoRow

(* Rows of other tables refer to the item by foreign key.                  *)
Referenced(f) ==
    \/ recorded[f] > 0
    \/ \E t \in NotificationTypes : notified[f][t] > 0

(* Seeded fault: the query forgets to compare the type.                    *)
HasExpiring(f, type) == notified[f]["expiring"] > 0

(* Seeded fault: the query is made with the wrong constant.                *)
HasExpired(f, type) == notified[f]["expired"] > 0

(* The query deduplicating alarms: is there a notification of this type?   *)
HasForFoodAndType(f, type) == notified[f][type] > 0

(* The rows whose stored status is one of the two the scan looks for.      *)
ListByStatus(statuses) ==
    [f \in FoodIds |->
        IF Exists(f) /\ items[f].status \in statuses THEN items[f] ELSE NoRow]

-----------------------------------------------------------------------------

(* INSERT under the next key of the sequence.                              *)
Insert(f, row) ==
    /\ f \notin allocated
    /\ allocated' = allocated \cup {f}
    /\ items' = [items EXCEPT ![f] = row]

(* gorm's Save: UPDATE of every column; when no row has the key, INSERT of *)
(* the whole row under that same key.                                      *)
Save(f, row) == items' = [items EXCEPT ![f] = row]

(* Seeded fault: a schema without the foreign keys.                        *)
DeleteRowUnguarded(f) == items' = [items EXCEPT ![f] = NoRow]

(* DELETE, refused by the foreign keys while another table refers to it.   *)
DeleteRow(f) ==
    /\ ~Referenced(f)
    /\ items' = [items EXCEPT ![f] = NoRow]

(* UPDATE of the status column alone; the caller knows that the row is     *)
(* there, because the same transaction inserts a reference to it.          *)
UpdateStatus(f, status) == items' = [items EXCEPT ![f].status = status]

(* Seeded fault: the record takes the sign of the change of stock.         *)
CreateRecordNegated(f, quantity) ==
    recorded' = [recorded EXCEPT ![f] = @ - quantity]

CreateRecord(f, quantity) ==
    recorded' = [recorded EXCEPT ![f] = @ + quantity]

CreateNotification(f, type) ==
    notified' = [notified EXCEPT ![f][type] = @ + 1]

(* Midnight passes.                                                        *)
Tick ==
    /\ today < MaxDay
    /\ today' = today + 1
    /\ UNCHANGED <<items, allocated, recorded, notified>>
=============================================================================
