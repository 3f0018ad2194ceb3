----------------------------- MODULE FoodService -----------------------------
(***************************************************************************)
(* FoodItemService: the requests that create, edit, consume, delete and    *)
(* import food items.  Each client has at most one request in progress;    *)
(* requests of different clients run in different goroutines and meet only *)
(* in the database.                                                        *)
(*                                                                         *)
(* Consume, Update and Delete read the row first (FindByID), check the     *)
(* membership, and write later: what they write is computed from the row   *)
(* they read.                                                              *)
(***************************************************************************)
EXTENDS FoodStore

CONSTANTS
    Clients,      \* users with a session open on the service
    FoodInputs,   \* bodies of create and update requests
    Amounts,      \* quantities of consume requests
    CsvRows,      \* well-formed rows of imported files
    MaxRecorded   \* bound: no request may take the records of an item past it

VARIABLES
    request,      \* the request each client has in progress
    entered       \* history: the least quantity anyone entered for a key

serviceVars == <<request, entered>>

(* binding:"gte=0" on the quantity; the other fields are free.             *)
FoodInput == [quantity: Nat, production: Date, shelf: Int, opened: Date]

(* A quantity that ParseFloat accepts has no sign check; days are positive *)
(* or the default.                                                         *)
CsvRow == [quantity: Int, shelf: Nat \ {0}]

ASSUME InputsAssumption == FoodInputs \subseteq FoodInput
ASSUME AmountsAssumption == Amounts \subseteq Nat \ {0}
ASSUME CsvAssumption == CsvRows \subseteq CsvRow
ASSUME MaxRecordedAssumption == MaxRecorded \in Nat

Idle == [op |-> "idle"]

Request ==
    {Idle}
      \cup [op: {"editing", "saving"}, food: FoodIds, row: FoodRow]
      \cup [op: {"consuming"}, food: FoodIds, row: FoodRow, amount: Nat \ {0}]
      \cup [op: {"deleting"}, food: FoodIds]
      \cup [op: {"importing"}]

ServiceTypeOK ==
    /\ request \in [Clients -> Request]
    /\ entered \in [FoodIds -> Int]

ServiceInit ==
    /\ request = [c \in Clients |-> Idle]
    /\ entered = [f \in FoodIds |->
                    IF Seed[f] = NoRow THEN 0 ELSE Seed[f].quantity]

Become(c, r) == request' = [request EXCEPT ![c] = r]

-----------------------------------------------------------------------------
(* Rows the service computes.                                              *)

(* Seeded fault: the status is computed before the date it depends on.     *)
RefreshedTooEarly(row, now) ==
    [row EXCEPT
        !.expiry = CalculateExpiryDate(row.production, row.shelf, row.opened, now),
        !.status = ComputeFreshness(row.status, row.expiry, now)]

(* The expiry date and status of a row as they come out on the day now.    *)
Refreshed(row, now) ==
    LET expiry == CalculateExpiryDate(row.production, row.shelf, row.opened, now)
    IN  [row EXCEPT !.expiry = expiry,
                    !.status = ComputeFreshness(row.status, expiry, now)]

(* A new item has no status yet: it is computed as for any status but      *)
(* "consumed".                                                             *)
NewRow(input, now) ==
    Refreshed([quantity |-> input.quantity, status |-> "fresh",
               expiry |-> NoDate, production |-> input.production,
               shelf |-> input.shelf, opened |-> input.opened], now)

(* An imported item is dated from the day of the import.                   *)
CsvFood(csv, now) ==
    NewRow([quantity |-> csv.quantity, production |-> NoDate,
            shelf |-> csv.shelf, opened |-> NoDate], now)

(* Seeded fault: an edit to quantity zero archives the item.               *)
EditedToConsumed(row, input) ==
    [row EXCEPT !.quantity = input.quantity,
                !.status = IF input.quantity = 0 THEN "consumed" ELSE @]

(* An edit keeps the dates and the shelf life it does not mention, and     *)
(* always replaces the quantity.                                           *)
Edited(row, input) ==
    [row EXCEPT
        !.production = IF input.production = NoDate THEN @ ELSE input.production,
        !.shelf = IF input.shelf > 0 THEN input.shelf ELSE @,
        !.quantity = input.quantity,
        !.opened = IF input.opened = NoDate THEN @ ELSE input.opened]

Consumed(row, amount) ==
    [row EXCEPT
        !.quantity = @ - amount,
        !.status = IF row.quantity = amount THEN "consumed" ELSE @]

-----------------------------------------------------------------------------
(* Create and ImportCSV.                                                   *)

(* Insertion of a computed row; nobody but the inserter knows its key yet. *)
Store(f, row) ==
    /\ Insert(f, row)
    /\ entered' = [entered EXCEPT ![f] = row.quantity]
    /\ UNCHANGED <<recorded, notified, today>>

Create(c, f) ==
    /\ request[c] = Idle
    /\ \E input \in FoodInputs : Store(f, NewRow(input, today))
    /\ UNCHANGED request

(* The client passed the membership check and uploads a file.              *)
BeginImport(c) ==
    /\ request[c] = Idle
    /\ Become(c, [op |-> "importing"])
    /\ UNCHANGED <<storeVars, entered>>

(* Each row of the file is committed on its own.  The file may end after   *)
(* any row, or a bad row or a database error may stop the import there     *)
(* (EndRequest): the rows before it stay.                                  *)
ImportRow(c, f) ==
    /\ request[c].op = "importing"
    /\ \E csv \in CsvRows : Store(f, CsvFood(csv, today))
    /\ UNCHANGED request

-----------------------------------------------------------------------------
(* Update.                                                                 *)

FindForUpdate(c, f) ==
    /\ request[c] = Idle
    /\ Exists(f)
    /\ \E input \in FoodInputs :
          Become(c, [op |-> "editing", food |-> f,
                     row |-> Edited(items[f], input)])
    /\ UNCHANGED <<storeVars, entered>>

(* After the membership check: expiry date and status as of now.           *)
ComputeUpdate(c) ==
    /\ request[c].op = "editing"
    /\ Become(c, [op |-> "saving", food |-> request[c].food,
                  row |-> Refreshed(request[c].row, today)])
    /\ UNCHANGED <<storeVars, entered>>

SaveUpdate(c) ==
    /\ request[c].op = "saving"
    /\ LET f == request[c].food
           row == request[c].row
       IN  /\ Save(f, row)
           /\ entered' = [entered EXCEPT ![f] =
                            IF row.quantity < @ THEN row.quantity ELSE @]
    /\ Become(c, Idle)
    /\ UNCHANGED <<allocated, recorded, notified, today>>

-----------------------------------------------------------------------------
(* Consume.                                                                *)

(* Seeded fault: off by one.                                               *)
CoveredLoosely(row, amount) == amount <= row.quantity + 1

(* The request asks for no more than there was.                            *)
Covered(row, amount) == amount <= row.quantity

(* Seeded fault: nobody asks whether the item is consumed already.         *)
FindForConsumeUnguarded(c, f) ==
    /\ request[c] = Idle
    /\ Exists(f)
    /\ \E amount \in Amounts :
          /\ Covered(items[f], amount)
          /\ Become(c, [op |-> "consuming", food |-> f,
                        row |-> Consumed(items[f], amount), amount |-> amount])
    /\ UNCHANGED <<storeVars, entered>>

(* The guards and the subtraction look at the row FindByID returned.       *)
FindForConsume(c, f) ==
    /\ request[c] = Idle
    /\ Exists(f)
    /\ items[f].status # "consumed"
    /\ \E amount \in Amounts :
          /\ Covered(items[f], amount)
          /\ Become(c, [op |-> "consuming", food |-> f,
                        row |-> Consumed(items[f], amount), amount |-> amount])
    /\ UNCHANGED <<storeVars, entered>>

(* Seeded fault: two statements without a transaction, the second one      *)
(* failing.                                                                *)
CommitConsumePartly(c) ==
    /\ request[c].op = "consuming"
    /\ Save(request[c].food, request[c].row)
    /\ Become(c, Idle)
    /\ UNCHANGED <<allocated, recorded, notified, today, entered>>

(* One transaction: the whole row is saved and the record is created.      *)
CommitConsume(c) ==
    /\ request[c].op = "consuming"
    /\ LET f == request[c].food
       IN  /\ recorded[f] + request[c].amount <= MaxRecorded
           /\ Save(f, request[c].row)
           /\ CreateRecord(f, request[c].amount)
    /\ Become(c, Idle)
    /\ UNCHANGED <<allocated, notified, today, entered>>

-----------------------------------------------------------------------------
(* Delete.                                                                 *)

FindForDelete(c, f) ==
    /\ request[c] = Idle
    /\ Exists(f)
    /\ Become(c, [op |-> "deleting", food |-> f])
    /\ UNCHANGED <<storeVars, entered>>

CommitDelete(c) ==
    /\ request[c].op = "deleting"
    /\ DeleteRow(request[c].food)
    /\ Become(c, Idle)
    /\ UNCHANGED <<allocated, recorded, notified, today, entered>>

-----------------------------------------------------------------------------

(* The request ends without a write: its caller is not a member of the     *)
(* family, the database refuses a statement (and rolls its transaction     *)
(* back), the connection or the process is lost, or the file is at its end.*)
EndRequest(c) ==
    /\ request[c] # Idle
    /\ Become(c, Idle)
    /\ UNCHANGED <<storeVars, entered>>
=============================================================================
