------------------------------- MODULE Reports -------------------------------
(***************************************************************************)
(* What the reading services answer from the food_items of a family: the   *)
(* food list, the dashboard, the waste statistics and the recommendations. *)
(*                                                                         *)
(* Each of them selects rows by their stored status and shows them with    *)
(* the status of the moment, which it does not write back.                 *)
(***************************************************************************)
EXTENDS FoodStore

(* Seeded fault: the status is shown as it is stored.                      *)
StoredStatus(f) == items[f].status

(* The status an answer shows.                                             *)
Freshness(f) == ComputeFreshness(items[f].status, items[f].expiry, today)

(* The food list: a filter is applied to the stored status, before it is   *)
(* refreshed.                                                              *)
List(statuses) == {f \in FoodIds : ListByStatus(statuses)[f] # NoRow}

(* The dashboard sorts all items by the status it shows.                   *)
Dashboard ==
    [status \in Statuses |-> {f \in List(Statuses) : Freshness(f) = status}]

(* The statistics count as wasted what has expired by now.                 *)
TopWasted == {f \in List(Statuses) : Freshness(f) = "expired"}

(* Seeded fault: items stored as expired are not worth a look.             *)
RecommendStored == {f \in List({"expiring"}) : Freshness(f) = "expiring"}

(* The recommendations look through the items stored as expiring or        *)
(* expired, and offer those that are expiring.                             *)
Recommend == {f \in List({"expiring", "expired"}) : Freshness(f) = "expiring"}
=============================================================================
