----------------------------- MODULE StockProofs -----------------------------
(***************************************************************************)
(* Theorems about the stock of FreshFood: the accounts, the references and *)
(* the sign of the quantities.                                             *)
(*                                                                         *)
(* Each is proved from a strengthening that says of the row a request      *)
(* carries what the property says of the table: requests write back rows   *)
(* they read before anything else happened.                                *)
(***************************************************************************)
EXTENDS FreshFoodProofs

(* Requests that refer to an item.                                         *)
Refers(c, f) ==
    /\ request[c].op \in {"editing", "saving", "consuming", "deleting"}
    /\ request[c].food = f

(* Only keys that were handed out are in use or referred to.               *)
KeysAllocated ==
    /\ \A f \in FoodIds : Exists(f) => f \in allocated
    /\ \A c \in Clients, f \in FoodIds : Refers(c, f) => f \in allocated

(* The row a consumption is going to save accounts for what was entered    *)
(* together with its own record and those already there.                   *)
ConsumptionAccounted ==
    \A c \in Clients :
        request[c].op = "consuming" =>
            request[c].row.quantity + request[c].amount
              + recorded[request[c].food] >= entered[request[c].food]

StockInv == TypeOK /\ KeysAllocated /\ ConsumptionAccounted /\ StockAccounted

-----------------------------------------------------------------------------
(* The accounts.                                                           *)

(* A request that stores no row and creates no record leaves the accounts  *)
(* as they are, if it asks for no more than is there.                      *)
LEMMA StockReading ==
    ASSUME StockInv, NEW c \in Clients, NEW r \in Request, Become(c, r),
           UNCHANGED <<items, allocated, recorded, entered>>,
           r.op \in {"editing", "saving", "consuming", "deleting"} => r.food \in allocated,
           r.op = "consuming" =>
               r.row.quantity + r.amount + recorded[r.food] >= entered[r.food]
    PROVE  KeysAllocated' /\ ConsumptionAccounted' /\ StockAccounted'
<1> USE DEF StockInv, TypeOK
<1>1. \A d \in Clients : request'[d] = IF d = c THEN r ELSE request[d]
  BY RequestChange
<1>2. KeysAllocated'
  BY <1>1 DEF KeysAllocated, Exists, Refers
<1>3. ConsumptionAccounted'
  BY <1>1 DEF ConsumptionAccounted
<1>4. StockAccounted'
  BY DEF StockAccounted, Exists
<1>5. QED
  BY <1>2, <1>3, <1>4

(* A new row accounts for itself, and nothing referred to its key.         *)
LEMMA StockStore ==
    ASSUME StockInv, NEW f \in FoodIds, NEW row \in FoodRow, Store(f, row),
           UNCHANGED request
    PROVE  KeysAllocated' /\ ConsumptionAccounted' /\ StockAccounted'
<1> USE DEF StockInv, TypeOK
<1>1. /\ f \notin allocated
      /\ allocated' = allocated \cup {f}
      /\ items' = [items EXCEPT ![f] = row]
      /\ entered' = [entered EXCEPT ![f] = row.quantity]
      /\ UNCHANGED recorded
  BY DEF Store, Insert
<1>2. KeysAllocated'
  BY <1>1 DEF KeysAllocated, Exists, Refers, StoreTypeOK, Table
<1>3. ASSUME NEW d \in Clients, request[d].op = "consuming"
      PROVE  request[d].food \in FoodIds /\ request[d].food # f
  BY <1>1, <1>3, RequestFields DEF KeysAllocated, Refers
<1>4. ConsumptionAccounted'
  BY <1>1, <1>3 DEF ConsumptionAccounted, ServiceTypeOK
<1>5. row.quantity \in Int /\ recorded[f] \in Nat
  BY DEF FoodRow, StoreTypeOK
<1>6. row.quantity + recorded[f] >= row.quantity
  BY <1>5
<1>7. ASSUME NEW g \in FoodIds, items'[g] # NoRow
      PROVE  items'[g].quantity + recorded[g] >= entered'[g]
  <2>1. CASE g = f
    BY <1>1, <1>6, <2>1 DEF StoreTypeOK, ServiceTypeOK, Table
  <2>2. CASE g # f
    BY <1>1, <1>7, <2>2 DEF StockAccounted, Exists, StoreTypeOK, ServiceTypeOK, Table
  <2>3. QED
    BY <2>1, <2>2
<1>8. StockAccounted'
  BY <1>1, <1>7 DEF StockAccounted, Exists
<1>9. QED
  BY <1>2, <1>4, <1>8

(* Scans, the lock and the calendar leave quantities alone.                *)
LEMMA QuietQuantities ==
    ASSUME TypeOK, QuietStep
    PROVE  \A f \in FoodIds :
               /\ items'[f] # NoRow <=> items[f] # NoRow
               /\ items[f] # NoRow => items'[f].quantity = items[f].quantity
<1> DEFINE QuantitiesKept ==
             \A f \in FoodIds :
                 /\ items'[f] # NoRow <=> items[f] # NoRow
                 /\ items[f] # NoRow => items'[f].quantity = items[f].quantity
<1>1. CASE UNCHANGED items
  BY <1>1
<1>2. ASSUME NEW s \in Instances, scan[s].stage = "alarming",
             items[scan[s].food] # NoRow,
             items' = [items EXCEPT ![scan[s].food].status = scan[s].status]
      PROVE  QuantitiesKept
  <2> DEFINE f == scan[s].food
             row == [items[f] EXCEPT !.status = scan[s].status]
  <2>1. f \in FoodIds /\ scan[s].status \in Statuses
    BY <1>2, ScanFields DEF TypeOK
  <2>2. items[f] \in FoodRow
    BY <1>2, <2>1 DEF TypeOK, StoreTypeOK, Table
  <2>3. row \in FoodRow /\ row.quantity = items[f].quantity
    BY <2>1, <2>2 DEF FoodRow
  <2>4. \A g \in FoodIds : items'[g] = IF g = f THEN row ELSE items[g]
    BY <1>2, <2>1 DEF TypeOK, StoreTypeOK, Table
  <2> HIDE DEF f, row
  <2>5. QED
    BY <2>2, <2>3, <2>4, NoRowAssumption
<1>3. QED
  BY <1>1, <1>2, QuietTables

(* So they leave the accounts alone.                                       *)
LEMMA StockQuiet ==
    ASSUME StockInv, QuietStep
    PROVE  KeysAllocated' /\ ConsumptionAccounted' /\ StockAccounted'
<1>1. UNCHANGED <<allocated, recorded, request, entered>>
  BY QuietTables
<1>2. \A f \in FoodIds :
          /\ items'[f] # NoRow => items[f] # NoRow
          /\ items[f] # NoRow => items'[f].quantity = items[f].quantity
  BY QuietQuantities DEF StockInv
<1>3. KeysAllocated'
  BY <1>1, <1>2 DEF StockInv, KeysAllocated, Exists, Refers
<1>4. ConsumptionAccounted'
  BY <1>1 DEF StockInv, ConsumptionAccounted
<1>5. StockAccounted'
  BY <1>1, <1>2 DEF StockInv, StockAccounted, Exists
<1>6. QED
  BY <1>3, <1>4, <1>5

(* An edit lowers what was entered to what it writes; a consumption moves  *)
(* its amount to the records.                                              *)
LEMMA StockSave ==
    ASSUME StockInv, NEW c \in Clients, SaveUpdate(c) \/ CommitConsume(c)
    PROVE  KeysAllocated' /\ ConsumptionAccounted' /\ StockAccounted'
<1> USE DEF StockInv, TypeOK
<1> DEFINE f == request[c].food
           row == request[c].row
<1>1. /\ f \in FoodIds /\ row \in FoodRow /\ row.quantity \in Int
      /\ f \in allocated
      /\ items' = [items EXCEPT ![f] = row]
      /\ UNCHANGED allocated
      /\ Become(c, Idle)
  <2>1. f \in FoodIds /\ row \in FoodRow
    BY RequestFields DEF SaveUpdate, CommitConsume
  <2>2. row.quantity \in Int
    BY <2>1 DEF FoodRow
  <2>3. QED
    BY <2>1, <2>2 DEF KeysAllocated, Refers, SaveUpdate, CommitConsume, Save
<1>2. \A d \in Clients : request'[d] = IF d = c THEN Idle ELSE request[d]
  BY <1>1, RequestChange
<1>3. \A g \in FoodIds : /\ recorded[g] \in Nat
                         /\ entered[g] \in Int
                         /\ items[g] # NoRow => items[g].quantity \in Int
  BY DEF StoreTypeOK, ServiceTypeOK, Table, FoodRow
<1>4. \A d \in Clients :
          request[d].op = "consuming" =>
              /\ request[d].food \in FoodIds
              /\ request[d].row.quantity \in Int
              /\ request[d].amount \in Nat
  BY RequestFields DEF FoodRow
<1>5. /\ \A g \in FoodIds : recorded'[g] \in Nat /\ recorded'[g] >= recorded[g]
      /\ \A g \in FoodIds : entered'[g] \in Int /\ entered'[g] <= entered[g]
      /\ row.quantity + recorded'[f] >= entered'[f]
  <2>1. CASE SaveUpdate(c)
    BY <1>1, <1>3, <2>1 DEF SaveUpdate, ServiceTypeOK
  <2>2. CASE CommitConsume(c)
    <3>1. /\ recorded' = [recorded EXCEPT ![f] = @ + request[c].amount]
          /\ UNCHANGED entered
          /\ request[c].op = "consuming"
      BY <2>2 DEF CommitConsume, CreateRecord
    <3>2. row.quantity + request[c].amount + recorded[f] >= entered[f]
      BY <3>1 DEF ConsumptionAccounted
    <3>3. QED
      BY <1>1, <1>3, <1>4, <3>1, <3>2 DEF StoreTypeOK
  <2>3. QED
    BY <2>1, <2>2
<1> HIDE DEF f, row
<1>6. KeysAllocated'
  <2>1. \A g \in FoodIds : items'[g] # NoRow => g = f \/ items[g] # NoRow
    BY <1>1 DEF StoreTypeOK, Table
  <2>2. \A g \in FoodIds : items'[g] # NoRow => g \in allocated'
    BY <1>1, <2>1 DEF KeysAllocated, Exists
  <2>3. \A d \in Clients, g \in FoodIds : Refers(d, g)' => Refers(d, g)
    BY <1>2 DEF Refers, Idle
  <2>4. QED
    BY <1>1, <2>2, <2>3 DEF KeysAllocated, Exists
<1>7. ConsumptionAccounted'
  BY <1>2, <1>3, <1>4, <1>5 DEF ConsumptionAccounted, Idle
<1>8. ASSUME NEW g \in FoodIds, items'[g] # NoRow
      PROVE  items'[g].quantity + recorded'[g] >= entered'[g]
  <2>1. CASE g = f
    BY <1>1, <1>5, <2>1 DEF StoreTypeOK, Table
  <2>2. CASE g # f
    <3>1. items'[g] = items[g]
      BY <1>1, <2>2 DEF StoreTypeOK, Table
    <3>2. items[g].quantity + recorded[g] >= entered[g]
      BY <1>8, <3>1 DEF StockAccounted, Exists
    <3>3. QED
      BY <1>3, <1>5, <1>8, <3>1, <3>2
  <2>3. QED
    BY <2>1, <2>2
<1>9. StockAccounted'
  BY <1>8 DEF StockAccounted, Exists
<1>10. QED
  BY <1>6, <1>7, <1>9

(* Steps of a request.                                                     *)
LEMMA StockRequest ==
    ASSUME StockInv, NEW c \in Clients, RequestStep(c)
    PROVE  KeysAllocated' /\ ConsumptionAccounted' /\ StockAccounted'
<1> USE DEF StockInv, TypeOK
<1>0. Idle \in Request /\ [op |-> "importing"] \in Request /\ today \in Int
  BY DEF Request, Idle, StoreTypeOK
<1>1. CASE BeginImport(c)
  BY <1>0, <1>1, StockReading DEF BeginImport, storeVars
<1>2. CASE ComputeUpdate(c)
  <2> DEFINE r == [op |-> "saving", food |-> request[c].food,
                   row |-> Refreshed(request[c].row, today)]
  <2>1. request[c].food \in FoodIds /\ request[c].row \in FoodRow
    BY <1>2, RequestFields DEF ComputeUpdate
  <2>2. r \in Request
    BY <1>0, <2>1, RefreshedType DEF Request
  <2>3. request[c].food \in allocated
    BY <1>2, <2>1 DEF ComputeUpdate, KeysAllocated, Refers
  <2>4. QED
    BY <1>2, <2>2, <2>3, StockReading DEF ComputeUpdate, storeVars
<1>3. CASE SaveUpdate(c) \/ CommitConsume(c)
  BY <1>3, StockSave
<1>4. CASE CommitDelete(c)
  <2>1. request[c].food \in FoodIds
    BY <1>4, RequestFields DEF CommitDelete
  <2>2. /\ items' = [items EXCEPT ![request[c].food] = NoRow]
        /\ UNCHANGED <<allocated, recorded, entered>>
    BY <1>4 DEF CommitDelete, DeleteRow
  <2>3. \A d \in Clients : request'[d] = IF d = c THEN Idle ELSE request[d]
    BY <1>4, RequestChange DEF CommitDelete
  <2>4. \A g \in FoodIds : items'[g] # NoRow => items'[g] = items[g]
    BY <2>1, <2>2 DEF StoreTypeOK, Table
  <2>5. KeysAllocated'
    BY <2>2, <2>3, <2>4 DEF KeysAllocated, Exists, Refers, Idle
  <2>6. ConsumptionAccounted'
    BY <2>2, <2>3 DEF ConsumptionAccounted, Idle
  <2>7. StockAccounted'
    BY <2>2, <2>4 DEF StockAccounted, Exists
  <2>8. QED
    BY <2>5, <2>6, <2>7
<1>5. CASE EndRequest(c)
  BY <1>0, <1>5, StockReading DEF EndRequest, Idle, storeVars
<1>6. ASSUME NEW f \in FoodIds, Create(c, f)
      PROVE  KeysAllocated' /\ ConsumptionAccounted' /\ StockAccounted'
  <2>1. PICK input \in FoodInputs : Store(f, NewRow(input, today))
    BY <1>6 DEF Create
  <2>2. input \in [quantity: Int, production: Date, shelf: Int, opened: Date]
    BY InputsAssumption DEF FoodInput
  <2>3. QED
    BY <1>0, <1>6, <2>1, <2>2, NewRowType, StockStore DEF Create
<1>7. ASSUME NEW f \in FoodIds, ImportRow(c, f)
      PROVE  KeysAllocated' /\ ConsumptionAccounted' /\ StockAccounted'
  <2>1. PICK csv \in CsvRows : Store(f, CsvFood(csv, today))
    BY <1>7 DEF ImportRow
  <2>2. QED
    BY <1>0, <1>7, <2>1, CsvAssumption, CsvFoodType, StockStore DEF ImportRow
<1>8. ASSUME NEW f \in FoodIds, FindForUpdate(c, f)
      PROVE  KeysAllocated' /\ ConsumptionAccounted' /\ StockAccounted'
  <2>1. PICK input \in FoodInputs :
          Become(c, [op |-> "editing", food |-> f, row |-> Edited(items[f], input)])
    BY <1>8 DEF FindForUpdate
  <2>2. items[f] \in FoodRow /\ f \in allocated
    BY <1>8 DEF FindForUpdate, Exists, StoreTypeOK, Table, KeysAllocated
  <2>3. [op |-> "editing", food |-> f, row |-> Edited(items[f], input)] \in Request
    BY <2>2, EditedType, InputsAssumption DEF Request
  <2>4. QED
    BY <1>8, <2>1, <2>2, <2>3, StockReading DEF FindForUpdate, storeVars
<1>9. ASSUME NEW f \in FoodIds, FindForConsume(c, f)
      PROVE  KeysAllocated' /\ ConsumptionAccounted' /\ StockAccounted'
  <2>1. PICK amount \in Amounts :
          Become(c, [op |-> "consuming", food |-> f,
                     row |-> Consumed(items[f], amount), amount |-> amount])
    BY <1>9 DEF FindForConsume
  <2>2. /\ items[f] \in FoodRow /\ f \in allocated
        /\ items[f].quantity \in Int
        /\ amount \in Nat \ {0}
    BY <1>9, AmountsAssumption DEF FindForConsume, Exists, StoreTypeOK, Table, KeysAllocated,
       FoodRow
  <2>3. [op |-> "consuming", food |-> f, row |-> Consumed(items[f], amount),
         amount |-> amount] \in Request
    BY <2>2, ConsumedType DEF Request
  <2>4. Consumed(items[f], amount).quantity = items[f].quantity - amount
    BY <2>2 DEF Consumed, FoodRow
  <2>5. items[f].quantity + recorded[f] >= entered[f]
    BY <1>9 DEF FindForConsume, StockAccounted
  <2>6. recorded[f] \in Nat /\ entered[f] \in Int
    BY DEF StoreTypeOK, ServiceTypeOK
  <2>7. Consumed(items[f], amount).quantity + amount + recorded[f] >= entered[f]
    BY <2>2, <2>4, <2>5, <2>6
  <2>8. QED
    BY <1>9, <2>1, <2>2, <2>3, <2>7, StockReading DEF FindForConsume, storeVars
<1>10. ASSUME NEW f \in FoodIds, FindForDelete(c, f)
       PROVE  KeysAllocated' /\ ConsumptionAccounted' /\ StockAccounted'
  <2>1. [op |-> "deleting", food |-> f] \in Request
    BY DEF Request
  <2>2. f \in allocated
    BY <1>10 DEF FindForDelete, KeysAllocated
  <2>3. QED
    BY <1>10, <2>1, <2>2, StockReading DEF FindForDelete, storeVars
<1>11. QED
  BY <1>1, <1>2, <1>3, <1>4, <1>5, <1>6, <1>7, <1>8, <1>9, <1>10 DEF RequestStep

(* The seeds account for themselves.                                       *)
LEMMA StockInitially == Init => StockInv
<1> SUFFICES ASSUME Init PROVE StockInv
  OBVIOUS
<1>1. TypeOK
  BY InitTypeOK
<1>2. KeysAllocated /\ ConsumptionAccounted
  BY DEF Init, StoreInit, ServiceInit, KeysAllocated, ConsumptionAccounted, Exists, Refers, Idle
<1>3. \A f \in FoodIds : items[f] # NoRow => items[f].quantity \in Int
  BY <1>1 DEF TypeOK, StoreTypeOK, Table, FoodRow
<1>4. StockAccounted
  BY <1>3 DEF Init, StoreInit, ServiceInit, StockAccounted, Exists
<1>5. QED
  BY <1>1, <1>2, <1>4 DEF StockInv

(* No step loses stock.                                                    *)
LEMMA StockNext == StockInv /\ [Next]_vars => StockInv'
<1> SUFFICES ASSUME StockInv, [Next]_vars PROVE StockInv'
  OBVIOUS
<1>1. TypeOK'
  BY NextTypeOK DEF StockInv
<1>2. KeysAllocated' /\ ConsumptionAccounted' /\ StockAccounted'
  BY NextSteps, StockRequest, StockQuiet DEF QuietStep
<1>3. QED
  BY <1>1, <1>2 DEF StockInv

(* However the requests of the clients and the scans interleave, what is   *)
(* left of an item and what was recorded of it add up to at least what was *)
(* entered for it.                                                         *)
THEOREM StockIsAccounted == Spec => []StockAccounted
<1>1. StockInv => StockAccounted
  BY DEF StockInv
<1>2. QED
  BY <1>1, StockInitially, StockNext, PTL DEF Spec

-----------------------------------------------------------------------------
(* References.                                                             *)

(* The references need only the types to be inductive.                     *)
ReferenceInv == TypeOK /\ ReferencesResolve

(* What clients write keeps references whole.                              *)
LEMMA ReferenceRequest ==
    ASSUME ReferenceInv, NEW c \in Clients, RequestStep(c)
    PROVE  ReferencesResolve'
<1> USE DEF ReferenceInv
<1>1. UNCHANGED notified
  BY RequestTables
<1>2. CASE UNCHANGED <<items, recorded>>
  BY <1>1, <1>2 DEF ReferencesResolve, Referenced, Exists
<1>3. ASSUME NEW f \in FoodIds, NEW row \in FoodRow,
             items' = [items EXCEPT ![f] = row], UNCHANGED recorded
      PROVE  ReferencesResolve'
  BY <1>1, <1>3, NoRowAssumption
  DEF ReferencesResolve, Referenced, Exists, TypeOK, StoreTypeOK, Table
<1>4. CASE CommitConsume(c)
  <2>1. request[c].food \in FoodIds /\ request[c].row \in FoodRow
    BY <1>4, RequestFields DEF CommitConsume, TypeOK
  <2>2. \A g \in FoodIds :
            /\ g = request[c].food => items'[g] # NoRow
            /\ g # request[c].food => items'[g] = items[g] /\ recorded'[g] = recorded[g]
    BY <1>4, <2>1, NoRowAssumption
    DEF CommitConsume, Save, CreateRecord, TypeOK, StoreTypeOK, Table
  <2>3. QED
    BY <1>1, <2>2 DEF ReferencesResolve, Referenced, Exists
<1>5. CASE CommitDelete(c)
  <2>1. request[c].food \in FoodIds
    BY <1>5, RequestFields DEF CommitDelete, TypeOK
  <2>2. /\ ~Referenced(request[c].food)
        /\ UNCHANGED recorded
        /\ \A g \in FoodIds : g # request[c].food => items'[g] = items[g]
    BY <1>5, <2>1 DEF CommitDelete, DeleteRow, TypeOK, StoreTypeOK, Table
  <2>3. QED
    BY <1>1, <2>2 DEF ReferencesResolve, Referenced, Exists
<1>6. QED
  BY <1>2, <1>3, <1>4, <1>5, RequestTables

(* What scans write, too: an alarm refers to an item that is there.        *)
LEMMA ReferenceQuiet ==
    ASSUME ReferenceInv, QuietStep
    PROVE  ReferencesResolve'
<1> USE DEF ReferenceInv
<1>1. UNCHANGED recorded
  BY QuietTables
<1>2. CASE UNCHANGED <<items, notified>>
  BY <1>1, <1>2 DEF ReferencesResolve, Referenced, Exists
<1>3. ASSUME NEW s \in Instances, scan[s].stage = "alarming",
             items[scan[s].food] # NoRow,
             items' = [items EXCEPT ![scan[s].food].status = scan[s].status],
             CreateNotification(scan[s].food, AlarmType(scan[s].status))
      PROVE  ReferencesResolve'
  <2> DEFINE f == scan[s].food
  <2>1. f \in FoodIds /\ scan[s].status \in Statuses
    BY <1>3, ScanFields DEF TypeOK
  <2>2. items[f] \in FoodRow
    BY <1>3, <2>1 DEF TypeOK, StoreTypeOK, Table
  <2>3. [items[f] EXCEPT !.status = scan[s].status] \in FoodRow
    BY <2>1, <2>2 DEF FoodRow
  <2>4. items'[f] # NoRow
    BY <1>3, <2>1, <2>3, NoRowAssumption DEF TypeOK, StoreTypeOK, Table
  <2>5. \A g \in FoodIds : g # f => items'[g] = items[g] /\ notified'[g] = notified[g]
    BY <1>3, <2>1 DEF CreateNotification, TypeOK, StoreTypeOK, Table
  <2>6. QED
    BY <1>1, <2>4, <2>5 DEF ReferencesResolve, Referenced, Exists
<1>4. QED
  BY <1>2, <1>3, QuietTables

(* Records and notifications refer to items that are there, however        *)
(* deleting, consuming, writing back and announcing an item interleave.    *)
THEOREM ReferencesAlwaysResolve == Spec => []ReferencesResolve
<1>1. Init => ReferenceInv
  BY InitTypeOK, SeedAssumption
  DEF Init, StoreInit, ReferenceInv, ReferencesResolve, Referenced, Exists
<1>2. ReferenceInv /\ [Next]_vars => ReferenceInv'
  BY NextTypeOK, NextSteps, ReferenceRequest, ReferenceQuiet DEF ReferenceInv, QuietStep
<1>3. ReferenceInv => ReferencesResolve
  BY DEF ReferenceInv
<1>4. QED
  BY <1>1, <1>2, <1>3, PTL DEF Spec

-----------------------------------------------------------------------------
(* The sign of the quantities.                                             *)

(* Files and seeds without negative quantities.                            *)
NonNegativeInputs ==
    /\ \A csv \in CsvRows : csv.quantity >= 0
    /\ \A f \in FoodIds : Seed[f] # NoRow => Seed[f].quantity >= 0

(* Rows in the hands of a request have no negative quantity either.        *)
RowsNonNegative ==
    \A c \in Clients :
        request[c].op \in {"editing", "saving", "consuming"} =>
            request[c].row.quantity >= 0

SignInv == TypeOK /\ RowsNonNegative /\ StockNonNegative

(* The rows that requests compute are not negative.                        *)
LEMMA SignRows ==
    ASSUME NonNegativeInputs, SignInv, NEW c \in Clients, RequestStep(c)
    PROVE  RowsNonNegative'
<1> USE DEF SignInv, TypeOK
<1>1. ASSUME NEW r, Become(c, r),
             r.op \in {"editing", "saving", "consuming"} => r.row.quantity >= 0
      PROVE  RowsNonNegative'
  <2>1. \A d \in Clients : request'[d] = IF d = c THEN r ELSE request[d]
    BY <1>1, RequestChange
  <2>2. QED
    BY <1>1, <2>1 DEF RowsNonNegative
<1>2. CASE BeginImport(c)
  BY <1>1, <1>2 DEF BeginImport
<1>3. CASE ComputeUpdate(c)
  <2>1. request[c].row \in FoodRow /\ request[c].row.quantity >= 0
    BY <1>3, RequestFields DEF ComputeUpdate, RowsNonNegative
  <2>2. Refreshed(request[c].row, today).quantity >= 0
    BY <2>1 DEF Refreshed, FoodRow
  <2>3. QED
    BY <1>1, <1>3, <2>2 DEF ComputeUpdate
<1>4. CASE SaveUpdate(c) \/ CommitConsume(c) \/ CommitDelete(c) \/ EndRequest(c)
  BY <1>1, <1>4 DEF SaveUpdate, CommitConsume, CommitDelete, EndRequest, Idle
<1>5. ASSUME NEW f \in FoodIds, Create(c, f) \/ ImportRow(c, f)
      PROVE  RowsNonNegative'
  BY <1>5 DEF Create, ImportRow, RowsNonNegative
<1>6. ASSUME NEW f \in FoodIds, FindForUpdate(c, f)
      PROVE  RowsNonNegative'
  <2>1. PICK input \in FoodInputs :
          Become(c, [op |-> "editing", food |-> f, row |-> Edited(items[f], input)])
    BY <1>6 DEF FindForUpdate
  <2>2. items[f] \in FoodRow /\ input.quantity \in Nat
    BY <1>6, InputsAssumption DEF FindForUpdate, Exists, StoreTypeOK, Table, FoodInput
  <2>3. Edited(items[f], input).quantity = input.quantity
    BY <2>2 DEF Edited, FoodRow
  <2>4. QED
    BY <1>1, <2>1, <2>2, <2>3
<1>7. ASSUME NEW f \in FoodIds, FindForConsume(c, f)
      PROVE  RowsNonNegative'
  <2>1. PICK amount \in Amounts :
          /\ Covered(items[f], amount)
          /\ Become(c, [op |-> "consuming", food |-> f,
                        row |-> Consumed(items[f], amount), amount |-> amount])
    BY <1>7 DEF FindForConsume
  <2>2. /\ items[f] \in FoodRow
        /\ items[f].quantity \in Int
        /\ amount \in Nat
    BY <1>7, AmountsAssumption DEF FindForConsume, Exists, StoreTypeOK, Table, FoodRow
  <2>3. Consumed(items[f], amount).quantity = items[f].quantity - amount
    BY <2>2 DEF Consumed, FoodRow
  <2>4. Consumed(items[f], amount).quantity >= 0
    BY <2>1, <2>2, <2>3 DEF Covered
  <2>5. QED
    BY <1>1, <2>1, <2>4
<1>8. ASSUME NEW f \in FoodIds, FindForDelete(c, f)
      PROVE  RowsNonNegative'
  BY <1>1, <1>8 DEF FindForDelete
<1>9. QED
  BY <1>2, <1>3, <1>4, <1>5, <1>6, <1>7, <1>8 DEF RequestStep

(* The rows that requests write are those they computed.                   *)
LEMMA SignTables ==
    ASSUME NonNegativeInputs, SignInv, NEW c \in Clients, RequestStep(c)
    PROVE  StockNonNegative'
<1> USE DEF SignInv, TypeOK
<1>1. ASSUME NEW f \in FoodIds, NEW row \in FoodRow, row.quantity >= 0,
             items' = [items EXCEPT ![f] = row]
      PROVE  StockNonNegative'
  BY <1>1 DEF StockNonNegative, Exists, StoreTypeOK, Table
<1>2. CASE UNCHANGED items
  BY <1>2 DEF StockNonNegative, Exists
<1>3. CASE SaveUpdate(c) \/ CommitConsume(c)
  <2>1. /\ request[c].food \in FoodIds
        /\ request[c].row \in FoodRow
        /\ request[c].row.quantity >= 0
    BY <1>3, RequestFields DEF SaveUpdate, CommitConsume, RowsNonNegative
  <2>2. QED
    BY <1>1, <1>3, <2>1 DEF SaveUpdate, CommitConsume, Save
<1>4. CASE CommitDelete(c)
  <2>1. request[c].food \in FoodIds
    BY <1>4, RequestFields DEF CommitDelete
  <2>2. \A g \in FoodIds : items'[g] # NoRow => items'[g] = items[g]
    BY <1>4, <2>1 DEF CommitDelete, DeleteRow, StoreTypeOK, Table
  <2>3. QED
    BY <2>2 DEF StockNonNegative, Exists
<1>5. today \in Int
  BY DEF StoreTypeOK
<1>6. ASSUME NEW input \in [quantity: Int, production: Date, shelf: Int, opened: Date]
      PROVE  NewRow(input, today) \in FoodRow
             /\ NewRow(input, today).quantity = input.quantity
  BY <1>5, <1>6, NewRowType DEF NewRow, Refreshed
<1>7. ASSUME NEW f \in FoodIds, Create(c, f)
      PROVE  StockNonNegative'
  <2>1. PICK input \in FoodInputs : Store(f, NewRow(input, today))
    BY <1>7 DEF Create
  <2>2. /\ input \in [quantity: Int, production: Date, shelf: Int, opened: Date]
        /\ input.quantity >= 0
    BY InputsAssumption DEF FoodInput
  <2>3. QED
    BY <1>1, <1>6, <2>1, <2>2 DEF Store, Insert
<1>8. ASSUME NEW f \in FoodIds, ImportRow(c, f)
      PROVE  StockNonNegative'
  <2>1. PICK csv \in CsvRows : Store(f, CsvFood(csv, today))
    BY <1>8 DEF ImportRow
  <2>2. csv \in CsvRow /\ csv.quantity >= 0
    BY CsvAssumption DEF NonNegativeInputs
  <2> DEFINE input == [quantity |-> csv.quantity, production |-> NoDate,
                       shelf |-> csv.shelf, opened |-> NoDate]
  <2>3. input \in [quantity: Int, production: Date, shelf: Int, opened: Date]
    BY <2>2 DEF CsvRow, Date
  <2>4. CsvFood(csv, today) \in FoodRow /\ CsvFood(csv, today).quantity >= 0
    BY <1>6, <2>2, <2>3 DEF CsvFood
  <2>5. QED
    BY <1>1, <2>1, <2>4 DEF Store, Insert
<1>9. QED
  BY <1>2, <1>3, <1>4, <1>7, <1>8
  DEF RequestStep, BeginImport, ComputeUpdate, EndRequest, FindForUpdate, FindForConsume,
      FindForDelete, storeVars

(* No sequence or interleaving of requests makes a quantity negative, as   *)
(* long as no imported file and no seed has one.                           *)
THEOREM StockNeverNegative ==
    ASSUME NonNegativeInputs
    PROVE  Spec => []StockNonNegative
<1>1. Init => SignInv
  <2> SUFFICES ASSUME Init PROVE SignInv
    OBVIOUS
  <2>1. TypeOK
    BY InitTypeOK
  <2>2. QED
    BY <2>1 DEF NonNegativeInputs, Init, StoreInit, ServiceInit, SignInv, RowsNonNegative,
                StockNonNegative, Exists, Idle
<1>2. SignInv /\ [Next]_vars => SignInv'
  <2> SUFFICES ASSUME SignInv, [Next]_vars PROVE SignInv'
    OBVIOUS
  <2>1. TypeOK'
    BY NextTypeOK DEF SignInv
  <2>2. CASE QuietStep
    <3>1. RowsNonNegative'
      BY <2>2, QuietTables DEF SignInv, RowsNonNegative
    <3>2. StockNonNegative'
      BY <2>2, QuietQuantities DEF SignInv, StockNonNegative, Exists
    <3>3. QED
      BY <2>1, <3>1, <3>2 DEF SignInv
  <2>3. ASSUME NEW c \in Clients, RequestStep(c)
        PROVE  SignInv'
    BY <2>1, <2>3, SignRows, SignTables DEF SignInv
  <2>4. QED
    BY <2>2, <2>3, NextSteps DEF QuietStep
<1>3. SignInv => StockNonNegative
  BY DEF SignInv
<1>4. QED
  BY <1>1, <1>2, <1>3, PTL DEF Spec

-----------------------------------------------------------------------------
(* The ledger.                                                             *)

(* No two clients: no two requests overlap.                                *)
OneClient == \A c, d \in Clients : c = d

(* The stock the ledger looks at.                                          *)
Stock == [f \in FoodIds |-> IF items[f] = NoRow THEN NoRow ELSE items[f].quantity]

(* What a request is about to write fits what is in the table.             *)
Fits(c) ==
    LET f == request[c].food IN
    /\ request[c].op \in {"editing", "saving", "consuming", "deleting"} => Exists(f)
    /\ request[c].op \in {"editing", "saving"} => request[c].row.quantity \in Nat
    /\ request[c].op = "consuming" =>
          /\ request[c].amount \in 1..items[f].quantity
          /\ request[c].row.quantity = items[f].quantity - request[c].amount

LedgerInv == TypeOK /\ \A c \in Clients : Fits(c)

(* A request that comes from reading the table fits it.                    *)
LEMMA FitsRequest ==
    ASSUME OneClient, LedgerInv, NEW c \in Clients, RequestStep(c)
    PROVE  \A d \in Clients : Fits(d)'
<1> USE DEF LedgerInv, TypeOK
<1>0. today \in Int
  BY DEF StoreTypeOK
<1>1. SUFFICES Fits(c)'
  BY DEF OneClient
<1>2. CASE BeginImport(c) \/ SaveUpdate(c) \/ CommitConsume(c) \/ CommitDelete(c) \/ EndRequest(c)
  <2>1. request'[c].op \in {"importing", "idle"}
    BY <1>2, RequestChange
    DEF BeginImport, SaveUpdate, CommitConsume, CommitDelete, EndRequest, Idle
  <2>2. QED
    BY <2>1 DEF Fits
<1>3. CASE ComputeUpdate(c)
  <2>1. /\ request'[c] = [op |-> "saving", food |-> request[c].food,
                          row |-> Refreshed(request[c].row, today)]
        /\ UNCHANGED items
        /\ request[c].op = "editing"
    BY <1>3, RequestChange DEF ComputeUpdate, storeVars
  <2>2. request[c].row \in FoodRow
    BY <2>1, RequestFields
  <2>3. Refreshed(request[c].row, today).quantity = request[c].row.quantity
    BY <2>2 DEF Refreshed, FoodRow
  <2>4. Exists(request[c].food) /\ request[c].row.quantity \in Nat
    BY <2>1 DEF Fits
  <2>5. QED
    BY <2>1, <2>3, <2>4 DEF Fits, Exists
<1>4. ASSUME NEW f \in FoodIds, Create(c, f) \/ ImportRow(c, f)
      PROVE  Fits(c)'
  BY <1>4 DEF Create, ImportRow, Fits, Idle
<1>5. ASSUME NEW f \in FoodIds, FindForUpdate(c, f)
      PROVE  Fits(c)'
  <2>1. PICK input \in FoodInputs :
          Become(c, [op |-> "editing", food |-> f, row |-> Edited(items[f], input)])
    BY <1>5 DEF FindForUpdate
  <2>2. items[f] \in FoodRow /\ input.quantity \in Nat
    BY <1>5, InputsAssumption DEF FindForUpdate, Exists, StoreTypeOK, Table, FoodInput
  <2>3. Edited(items[f], input).quantity = input.quantity
    BY <2>2 DEF Edited, FoodRow
  <2>4. request'[c] = [op |-> "editing", food |-> f, row |-> Edited(items[f], input)]
    BY <2>1, RequestChange
  <2>5. UNCHANGED items /\ Exists(f)
    BY <1>5 DEF FindForUpdate, storeVars
  <2>6. QED
    BY <2>2, <2>3, <2>4, <2>5 DEF Fits, Exists
<1>6. ASSUME NEW f \in FoodIds, FindForConsume(c, f)
      PROVE  Fits(c)'
  <2>1. PICK amount \in Amounts :
          /\ Covered(items[f], amount)
          /\ Become(c, [op |-> "consuming", food |-> f,
                        row |-> Consumed(items[f], amount), amount |-> amount])
    BY <1>6 DEF FindForConsume
  <2>2. items[f] \in FoodRow /\ items[f].quantity \in Int /\ amount \in Nat \ {0}
    BY <1>6, AmountsAssumption DEF FindForConsume, Exists, StoreTypeOK, Table, FoodRow
  <2>3. Consumed(items[f], amount).quantity = items[f].quantity - amount
    BY <2>2 DEF Consumed, FoodRow
  <2>4. amount \in 1..items[f].quantity
    BY <2>1, <2>2 DEF Covered
  <2>5. request'[c] = [op |-> "consuming", food |-> f,
                       row |-> Consumed(items[f], amount), amount |-> amount]
    BY <2>1, RequestChange
  <2>6. UNCHANGED items /\ Exists(f)
    BY <1>6 DEF FindForConsume, storeVars
  <2>7. QED
    BY <2>3, <2>4, <2>5, <2>6 DEF Fits, Exists
<1>7. ASSUME NEW f \in FoodIds, FindForDelete(c, f)
      PROVE  Fits(c)'
  BY <1>7, RequestChange DEF FindForDelete, Fits, Exists, storeVars
<1>8. QED
  BY <1>2, <1>3, <1>4, <1>5, <1>6, <1>7 DEF RequestStep

(* What scans write changes no quantity.                                   *)
LEMMA FitsQuiet ==
    ASSUME LedgerInv, QuietStep
    PROVE  \A c \in Clients : Fits(c)'
<1>1. UNCHANGED request
  BY QuietTables
<1>2. \A f \in FoodIds :
          /\ items'[f] # NoRow <=> items[f] # NoRow
          /\ items[f] # NoRow => items'[f].quantity = items[f].quantity
  BY QuietQuantities DEF LedgerInv
<1>3. \A c \in Clients :
          request[c].op \in {"editing", "saving", "consuming", "deleting"} =>
              request[c].food \in FoodIds
  BY RequestFields DEF LedgerInv, TypeOK
<1>4. QED
  BY <1>1, <1>2, <1>3 DEF LedgerInv, Fits, Exists

LEMMA LedgerNext == OneClient => (LedgerInv /\ [Next]_vars => LedgerInv')
<1> SUFFICES ASSUME OneClient, LedgerInv, [Next]_vars
             PROVE  LedgerInv'
  OBVIOUS
<1>1. TypeOK'
  BY NextTypeOK DEF LedgerInv
<1>2. \A c \in Clients : Fits(c)'
  BY NextSteps, FitsRequest, FitsQuiet DEF QuietStep
<1>3. QED
  BY <1>1, <1>2 DEF LedgerInv

(* A row that is written or deleted changes one entry of the stock.        *)
LEMMA StockChange ==
    ASSUME StoreTypeOK, NEW f \in FoodIds, NEW row, items' = [items EXCEPT ![f] = row]
    PROVE  /\ Stock' = [Stock EXCEPT ![f] = IF row = NoRow THEN NoRow ELSE row.quantity]
           /\ Stock'[f] = IF row = NoRow THEN NoRow ELSE row.quantity
BY DEF StoreTypeOK, Table, Stock

(* The moves of the ledger.                                                *)
LEMMA LedgerMoves ==
    ASSUME NEW f \in FoodIds
    PROVE  /\ /\ f \notin allocated /\ allocated' = allocated \cup {f}
              /\ Stock'[f] \in Int /\ Stock' = [Stock EXCEPT ![f] = Stock'[f]]
              /\ UNCHANGED recorded
              => Ledger!Next
           /\ /\ Stock[f] # NoRow
              /\ Stock'[f] \in Nat /\ Stock' = [Stock EXCEPT ![f] = Stock'[f]]
              /\ UNCHANGED <<recorded, allocated>>
              => Ledger!Next
           /\ /\ Stock[f] # NoRow
              /\ \E amount \in 1..Stock[f] :
                    /\ Stock' = [Stock EXCEPT ![f] = Stock[f] - amount]
                    /\ recorded' = [recorded EXCEPT ![f] = @ + amount]
              /\ UNCHANGED allocated
              => Ledger!Next
           /\ /\ Stock[f] # NoRow /\ recorded[f] = 0
              /\ Stock' = [Stock EXCEPT ![f] = NoRow]
              /\ UNCHANGED <<recorded, allocated>>
              => Ledger!Next
BY DEF Ledger!Next, Ledger!Enter, Ledger!Correct, Ledger!Take, Ledger!Remove, Ledger!Set, Stock

(* Steps that leave stock, records and keys as they are.                   *)
LEMMA LedgerStutter ==
    ASSUME Stock' = Stock, UNCHANGED <<recorded, allocated>>
    PROVE  UNCHANGED Ledger!ledger
BY DEF Ledger!ledger, Stock

(* Every step of a request is a move of the ledger or none.                *)
LEMMA LedgerRequest ==
    ASSUME LedgerInv, NEW c \in Clients, RequestStep(c)
    PROVE  Ledger!Next \/ UNCHANGED Ledger!ledger
<1> USE DEF LedgerInv, TypeOK
<1>0. today \in Int
  BY DEF StoreTypeOK
<1>1. ASSUME UNCHANGED <<items, recorded, allocated>>
      PROVE  UNCHANGED Ledger!ledger
  BY <1>1, LedgerStutter DEF Stock
<1>2. CASE BeginImport(c) \/ ComputeUpdate(c) \/ EndRequest(c)
  BY <1>1, <1>2 DEF BeginImport, ComputeUpdate, EndRequest, storeVars
<1>3. ASSUME NEW f \in FoodIds,
             FindForUpdate(c, f) \/ FindForConsume(c, f) \/ FindForDelete(c, f)
      PROVE  UNCHANGED Ledger!ledger
  BY <1>1, <1>3 DEF FindForUpdate, FindForConsume, FindForDelete, storeVars
<1>4. ASSUME NEW f \in FoodIds, NEW row \in FoodRow, Store(f, row)
      PROVE  Ledger!Next
  <2>1. row # NoRow /\ row.quantity \in Int
    BY NoRowAssumption DEF FoodRow
  <2>2. /\ f \notin allocated /\ allocated' = allocated \cup {f}
        /\ items' = [items EXCEPT ![f] = row] /\ UNCHANGED recorded
    BY <1>4 DEF Store, Insert
  <2>3. Stock'[f] \in Int /\ Stock' = [Stock EXCEPT ![f] = Stock'[f]]
    BY <2>1, <2>2, StockChange
  <2>4. QED
    BY <2>2, <2>3, LedgerMoves
<1>5. ASSUME NEW f \in FoodIds, Create(c, f)
      PROVE  Ledger!Next
  <2>1. PICK input \in FoodInputs : Store(f, NewRow(input, today))
    BY <1>5 DEF Create
  <2>2. input \in [quantity: Int, production: Date, shelf: Int, opened: Date]
    BY InputsAssumption DEF FoodInput
  <2>3. QED
    BY <1>0, <1>4, <2>1, <2>2, NewRowType
<1>6. ASSUME NEW f \in FoodIds, ImportRow(c, f)
      PROVE  Ledger!Next
  <2>1. PICK csv \in CsvRows : Store(f, CsvFood(csv, today))
    BY <1>6 DEF ImportRow
  <2>2. QED
    BY <1>0, <1>4, <2>1, CsvAssumption, CsvFoodType
<1> DEFINE f == request[c].food
<1>7. CASE SaveUpdate(c)
  <2>1. f \in FoodIds /\ request[c].row \in FoodRow
    BY <1>7, RequestFields DEF SaveUpdate
  <2>2. items[f] # NoRow /\ request[c].row.quantity \in Nat
    BY <1>7 DEF SaveUpdate, Fits, Exists
  <2>3. items' = [items EXCEPT ![f] = request[c].row] /\ UNCHANGED <<recorded, allocated>>
    BY <1>7 DEF SaveUpdate, Save
  <2>4. Stock'[f] \in Nat /\ Stock' = [Stock EXCEPT ![f] = Stock'[f]]
    <3>1. request[c].row # NoRow
      BY <2>1, NoRowAssumption
    <3>2. /\ Stock' = [Stock EXCEPT ![f] = request[c].row.quantity]
          /\ Stock'[f] = request[c].row.quantity
      BY <2>1, <2>3, <3>1, StockChange
    <3>3. QED
      BY <2>2, <3>2
  <2>5. Stock[f] # NoRow
    BY <2>1, <2>2, NoRowAssumption DEF Stock, StoreTypeOK, Table, FoodRow
  <2>6. QED
    BY <2>1, <2>3, <2>4, <2>5, LedgerMoves
<1>8. CASE CommitConsume(c)
  <2>1. f \in FoodIds /\ request[c].row \in FoodRow
    BY <1>8, RequestFields DEF CommitConsume
  <2>2. /\ items[f] # NoRow
        /\ request[c].amount \in 1..items[f].quantity
        /\ request[c].row.quantity = items[f].quantity - request[c].amount
    BY <1>8 DEF CommitConsume, Fits, Exists
  <2>3. /\ items' = [items EXCEPT ![f] = request[c].row]
        /\ recorded' = [recorded EXCEPT ![f] = @ + request[c].amount]
        /\ UNCHANGED allocated
    BY <1>8 DEF CommitConsume, Save, CreateRecord
  <2>4. Stock[f] = items[f].quantity /\ Stock[f] # NoRow
    BY <2>1, <2>2, NoRowAssumption DEF Stock, StoreTypeOK, Table, FoodRow
  <2>5. Stock' = [Stock EXCEPT ![f] = Stock[f] - request[c].amount]
    BY <2>1, <2>2, <2>3, <2>4, StockChange, NoRowAssumption
  <2>6. QED
    BY <2>1, <2>2, <2>3, <2>4, <2>5, LedgerMoves
<1>9. CASE CommitDelete(c)
  <2>1. f \in FoodIds /\ items[f] # NoRow
    BY <1>9, RequestFields DEF CommitDelete, Fits, Exists
  <2>2. /\ items' = [items EXCEPT ![f] = NoRow]
        /\ recorded[f] = 0
        /\ UNCHANGED <<recorded, allocated>>
    BY <1>9, <2>1 DEF CommitDelete, DeleteRow, Referenced, StoreTypeOK
  <2>3. Stock' = [Stock EXCEPT ![f] = NoRow]
    BY <2>1, <2>2, StockChange
  <2>4. Stock[f] # NoRow
    BY <2>1, NoRowAssumption DEF Stock, StoreTypeOK, Table, FoodRow
  <2>5. QED
    BY <2>1, <2>2, <2>3, <2>4, LedgerMoves
<1>10. QED
  BY <1>2, <1>3, <1>5, <1>6, <1>7, <1>8, <1>9 DEF RequestStep

LEMMA LedgerQuiet ==
    ASSUME LedgerInv, QuietStep
    PROVE  UNCHANGED Ledger!ledger
<1>1. UNCHANGED <<allocated, recorded>>
  BY QuietTables
<1>2. \A f \in FoodIds :
          /\ items'[f] # NoRow <=> items[f] # NoRow
          /\ items[f] # NoRow => items'[f].quantity = items[f].quantity
  BY QuietQuantities DEF LedgerInv
<1>3. Stock' = Stock
  BY <1>2 DEF Stock
<1>4. QED
  BY <1>1, <1>3, LedgerStutter

LEMMA LedgerInitially == Init => LedgerInv /\ Ledger!Init
<1> SUFFICES ASSUME Init
             PROVE  LedgerInv /\ Ledger!Init
  OBVIOUS
<1>1. TypeOK
  BY InitTypeOK
<1>2. \A c \in Clients : Fits(c)
  BY DEF Init, ServiceInit, Fits, Idle
<1>3. \A f \in FoodIds : f \in allocated <=> Stock[f] # NoRow
  BY <1>1, NoRowAssumption
  DEF Init, StoreInit, Stock, TypeOK, StoreTypeOK, Table, FoodRow
<1>4. DOMAIN Stock = FoodIds /\ allocated \in SUBSET FoodIds /\ recorded = [f \in FoodIds |-> 0]
  BY DEF Init, StoreInit, Stock
<1>5. Ledger!Init
  BY <1>3, <1>4 DEF Ledger!Init, Stock
<1>6. QED
  BY <1>1, <1>2, <1>5 DEF LedgerInv

(* Requests that do not overlap keep the promises of the stock ledger: the *)
(* services, scans included, implement it.                                 *)
THEOREM ServiceKeepsLedger ==
    ASSUME OneClient
    PROVE  Spec => KeepsLedger
<1>1. LedgerInv /\ [Next]_vars => LedgerInv'
  BY LedgerNext
<1>2. LedgerInv /\ [Next]_vars => [Ledger!Next]_(Ledger!ledger)
  BY NextSteps, LedgerRequest, LedgerQuiet DEF QuietStep
<1>3. QED
  BY LedgerInitially, <1>1, <1>2, PTL DEF Spec, KeepsLedger, Ledger!Spec

(* Requests that do not overlap only take what is there, whatever the      *)
(* scans write between their steps.                                        *)
THEOREM TakesCovered ==
    ASSUME OneClient
    PROVE  Spec => TakeIsCovered
<1> DEFINE Step == \A f \in FoodIds :
                      recorded'[f] > recorded[f] =>
                          /\ Exists(f)
                          /\ recorded'[f] - recorded[f] <= items[f].quantity
<1>1. Init => LedgerInv
  BY LedgerInitially
<1>2. LedgerInv /\ [Next]_vars => LedgerInv'
  BY LedgerNext
<1>3. LedgerInv /\ [Next]_vars => [Step]_vars
  <2> SUFFICES ASSUME LedgerInv, [Next]_vars, NEW f \in FoodIds, recorded'[f] > recorded[f]
               PROVE  /\ Exists(f)
                      /\ recorded'[f] - recorded[f] <= items[f].quantity
    OBVIOUS
  <2> USE DEF LedgerInv, TypeOK
  <2>1. recorded \in [FoodIds -> Nat]
    BY DEF StoreTypeOK
  <2>2. recorded'[f] # recorded[f]
    BY <2>1
  <2>3. PICK c \in Clients : RequestStep(c)
    BY <2>2, NextSteps, QuietTables DEF QuietStep
  <2>4. CommitConsume(c)
    BY <2>2, <2>3, RequestTables DEF CommitDelete
  <2>5. /\ request[c].food \in FoodIds
        /\ Exists(request[c].food)
        /\ request[c].amount \in 1..items[request[c].food].quantity
    BY <2>4, RequestFields DEF CommitConsume, Fits
  <2>6. recorded' = [recorded EXCEPT ![request[c].food] = @ + request[c].amount]
    BY <2>4 DEF CommitConsume, CreateRecord
  <2>7. f = request[c].food /\ recorded'[f] - recorded[f] = request[c].amount
    BY <2>1, <2>2, <2>5, <2>6
  <2>8. items[f].quantity \in Int
    BY <2>5, <2>7 DEF Exists, StoreTypeOK, Table, FoodRow
  <2>9. QED
    BY <2>5, <2>7, <2>8
<1>4. QED
  BY <1>1, <1>2, <1>3, PTL DEF Spec, TakeIsCovered
=============================================================================
