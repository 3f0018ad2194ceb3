--------------------------- MODULE FoodCalculator ---------------------------
(***************************************************************************)
(* The shelf-life rules of util.FoodCalculator: the expiry date of an      *)
(* item, the days it has left and the freshness status they imply.         *)
(*                                                                         *)
(* A date is a day number; a nil *time.Time is NoDate.  Every date is      *)
(* taken to be written in the server's time zone, so that the difference   *)
(* of two midnights is a whole number of days.                             *)
(***************************************************************************)
EXTENDS Integers

CONSTANTS
    NoDate,                 \* a date that was never entered (nil)
    ExpiringThresholdDays,  \* an item this close to its expiry is "expiring"
    OpenedShelfDays         \* shelf life of an opened item

ASSUME NoDateAssumption == NoDate \notin Int
ASSUME ThresholdAssumption == ExpiringThresholdDays \in Nat
ASSUME OpenedAssumption == OpenedShelfDays \in Nat

Date == Int \cup {NoDate}

Statuses == {"fresh", "expiring", "expired", "consumed"}

(* Days left of an item without an expiry date: ten years.                 *)
UndatedRemainingDays == 365 * 10

(* now stands for time.Now(), read when the calculator is called.          *)
CalculateExpiryDate(production, shelf, opened, now) ==
    LET sealed == (IF production = NoDate THEN now ELSE production) + shelf
        unsealed == opened + OpenedShelfDays
    IN  IF shelf <= 0 THEN NoDate
        ELSE IF opened # NoDate /\ unsealed < sealed THEN unsealed
        ELSE sealed

RemainingDays(expiry, now) ==
    IF expiry = NoDate THEN UndatedRemainingDays ELSE expiry - now

ComputeFreshness(status, expiry, now) ==
    LET days == RemainingDays(expiry, now)
    IN  CASE status = "consumed" -> "consumed"
          [] status # "consumed" /\ days < 0 -> "expired"
          [] status # "consumed" /\ days \in 0..ExpiringThresholdDays -> "expiring"
          [] OTHER -> "fresh"
=============================================================================
