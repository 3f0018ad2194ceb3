----------------------------- MODULE MCFreshFood -----------------------------
(***************************************************************************)
(* Instances of FreshFood for TLC: the values the configurations give to   *)
(* its constants.                                                          *)
(***************************************************************************)
EXTENDS FreshFood, TLC

CONSTANT f1   \* the key of the seeded item

Undated(quantity, shelf) ==
    [quantity |-> quantity, production |-> NoDate, shelf |-> shelf, opened |-> NoDate]
Dated(quantity, day, shelf) ==
    [quantity |-> quantity, production |-> day, shelf |-> shelf, opened |-> NoDate]
Opened(quantity, day, opened, shelf) ==
    [quantity |-> quantity, production |-> day, shelf |-> shelf, opened |-> opened]

NoNotifications == [f \in FoodIds |-> [t \in NotificationTypes |-> 0]]

(* An empty database, as after a migration without seeds.                  *)
EmptySeed == [f \in FoodIds |-> NoRow]

(* A row as init.sql seeds it: an expiry date of its own, stored as fresh. *)
SeededRow(quantity, daysLeft) ==
    [quantity |-> quantity, status |-> "fresh", expiry |-> daysLeft,
     production |-> NoDate, shelf |-> 2, opened |-> NoDate]
Seeding(row) == [f \in FoodIds |-> IF f = f1 THEN row ELSE NoRow]
SeedingAlarm(type) ==
    [f \in FoodIds |-> [t \in NotificationTypes |->
        IF f = f1 /\ t = type THEN 1 ELSE 0]]

(* The chicken of init.sql: more days left than the threshold.             *)
ChickenSeed == Seeding(SeededRow(1, ExpiringThresholdDays + 1))

(* The milk of init.sql: about to expire, already announced.               *)
MilkSeed == Seeding(SeededRow(2, ExpiringThresholdDays))
MilkSeedNotified == SeedingAlarm("expiring")

(* The cooked food of init.sql: expired yesterday, already announced.      *)
CookedSeed == Seeding(SeededRow(1, -1))
CookedSeedNotified == SeedingAlarm("expired")

StockInputs == {Undated(0, 0), Dated(2, 0, 1)}
StockCsv == {[quantity |-> 1, shelf |-> 1]}

ScanInputs == {Dated(2, 0, 2), Dated(1, 1, 3), Opened(0, 0, 0, 3)}

ClientSymmetry == Permutations(Clients)
=============================================================================
