----------------------------- MODULE StockLedger -----------------------------
(***************************************************************************)
(* What the stock of food items promises to someone who looks only at      *)
(* quantities and consumption records: an item is entered once, its        *)
(* quantity may be corrected, consuming moves an amount that is there from *)
(* the stock to the records, and only an item nobody consumed can go.      *)
(***************************************************************************)
EXTENDS Integers

CONSTANTS
    Foods,   \* the keys of the items
    Absent   \* the stock of an item that is not there

VARIABLES
    stock,   \* key -> quantity left, or Absent
    taken,   \* key -> sum of the consumption records
    known    \* keys in use now or in the past

ledger == <<stock, taken, known>>

Init ==
    /\ known \in SUBSET Foods
    /\ DOMAIN stock = Foods
    /\ \A f \in Foods : f \in known <=> stock[f] # Absent
    /\ taken = [f \in Foods |-> 0]

Set(f, quantity) == stock' = [stock EXCEPT ![f] = quantity]

(* A new item comes in under a key that was never used.                    *)
Enter(f) ==
    /\ f \notin known
    /\ known' = known \cup {f}
    /\ stock'[f] \in Int
    /\ Set(f, stock'[f])
    /\ UNCHANGED taken

(* Someone corrects the quantity of an item that is there.                 *)
Correct(f) ==
    /\ stock[f] # Absent
    /\ stock'[f] \in Nat
    /\ Set(f, stock'[f])
    /\ UNCHANGED <<taken, known>>

(* A part of what is there is consumed, and all of that part is recorded.  *)
Take(f) ==
    /\ stock[f] # Absent
    /\ \E amount \in 1..stock[f] :
          /\ Set(f, stock[f] - amount)
          /\ taken' = [taken EXCEPT ![f] = @ + amount]
    /\ UNCHANGED known

(* An item without records is removed for good.                            *)
Remove(f) ==
    /\ stock[f] # Absent
    /\ taken[f] = 0
    /\ Set(f, Absent)
    /\ UNCHANGED <<taken, known>>

Next == \E f \in Foods : Enter(f) \/ Correct(f) \/ Take(f) \/ Remove(f)

Spec == Init /\ [][Next]_ledger
=============================================================================
