---------------------------- MODULE StatusProofs ----------------------------
(***************************************************************************)
(* Theorems about the statuses of FreshFood: what "consumed" and           *)
(* "expiring" tell about an item although requests and scans write         *)
(* statuses they computed from rows they read earlier.                     *)
(***************************************************************************)
EXTENDS StockProofs

(* A scan handles items that were neither expired nor consumed, and        *)
(* announces none as consumed.                                             *)
ScanListsLive ==
    \A s \in Instances :
        /\ scan[s].stage \in {"scanning", "alarming"} =>
              \A f \in FoodIds :
                  scan[s].todo[f] # NoRow =>
                      scan[s].todo[f].status \in {"fresh", "expiring"}
        /\ scan[s].stage = "alarming" => scan[s].status # "consumed"

LiveInv == TypeOK /\ ScanListsLive

(* The calculator says "consumed" of consumed items only.                  *)
LEMMA FreshnessConsumed ==
    ASSUME NEW status \in Statuses, NEW expiry \in Date, NEW now \in Int
    PROVE  ComputeFreshness(status, expiry, now) = "consumed" <=> status = "consumed"
BY DEF ComputeFreshness, Statuses

(* A scan whose list and status satisfy the invariant may enter any state. *)
LEMMA LiveEnter ==
    ASSUME LiveInv, NEW s \in Instances, NEW state, Enter(s, state),
           state.stage \in {"scanning", "alarming"} =>
               \A f \in FoodIds :
                   state.todo[f] # NoRow => state.todo[f].status \in {"fresh", "expiring"},
           state.stage = "alarming" => state.status # "consumed"
    PROVE  ScanListsLive'
<1>1. \A t \in Instances : scan'[t] = IF t = s THEN state ELSE scan[t]
  BY ScanChange DEF LiveInv, TypeOK
<1>2. QED
  BY <1>1 DEF LiveInv, ScanListsLive

(* What is left of a list after one item.                                  *)
LEMMA ListWithout ==
    ASSUME LiveInv, NEW s \in Instances, NEW f \in FoodIds, Reaches(s, f)
    PROVE  \A g \in FoodIds :
               Without(scan[s].todo, f)[g] # NoRow =>
                   /\ Without(scan[s].todo, f)[g] = scan[s].todo[g]
                   /\ Without(scan[s].todo, f)[g].status \in {"fresh", "expiring"}
<1>1. scan[s].todo \in Table
  BY ScanFields DEF Reaches, LiveInv, TypeOK
<1>2. \A g \in FoodIds :
          scan[s].todo[g] # NoRow => scan[s].todo[g].status \in {"fresh", "expiring"}
  BY DEF Reaches, LiveInv, ScanListsLive
<1>3. \A g \in FoodIds :
          Without(scan[s].todo, f)[g] = IF g = f THEN NoRow ELSE scan[s].todo[g]
  BY <1>1 DEF Without, Table
<1>4. QED
  BY <1>2, <1>3

(* A scan that skips an item.                                              *)
LEMMA SkipEnters ==
    ASSUME LiveInv, NEW s \in Instances, NEW f \in FoodIds, Reaches(s, f), Skip(s, f)
    PROVE  Enter(s, [stage |-> "scanning", todo |-> Without(scan[s].todo, f)])
<1>1. scan[s] \in [stage: {"scanning"}, todo: Table]
  BY DEF Reaches, LiveInv, TypeOK, ReminderTypeOK, ScanState
<1>2. [scan[s] EXCEPT !.todo = Without(scan[s].todo, f)]
        = [stage |-> "scanning", todo |-> Without(scan[s].todo, f)]
  BY <1>1
<1>3. QED
  BY <1>1, <1>2 DEF Skip

(* The status of an item whose turn has come.                              *)
LEMMA StatusLive ==
    ASSUME LiveInv, NEW s \in Instances, NEW f \in FoodIds, Reaches(s, f)
    PROVE  /\ scan[s].todo[f] \in FoodRow
           /\ scan[s].todo[f].status \in {"fresh", "expiring"}
           /\ StatusNow(scan[s].todo[f]) \in Statuses \ {"consumed"}
<1> USE DEF LiveInv, TypeOK
<1>1. scan[s].todo[f] \in FoodRow
  BY ScanFields DEF Reaches, Table
<1>2. scan[s].todo[f].status \in {"fresh", "expiring"}
  BY DEF Reaches, ScanListsLive
<1>3. StatusNow(scan[s].todo[f]) \in Statuses \ {"consumed"}
  BY <1>1, <1>2, FreshnessType, FreshnessConsumed DEF StatusNow, FoodRow, StoreTypeOK
<1>4. QED
  BY <1>1, <1>2, <1>3

(* No step makes a scan handle anything else.                              *)
LEMMA LiveNext == LiveInv /\ [Next]_vars => LiveInv'
<1> SUFFICES ASSUME LiveInv, [Next]_vars PROVE LiveInv'
  OBVIOUS
<1>1. TypeOK'
  BY NextTypeOK DEF LiveInv
<1>2. CASE UNCHANGED scan
  BY <1>1, <1>2 DEF LiveInv, ScanListsLive
<1>3. ASSUME NEW s \in Instances, InstanceStep(s)
      PROVE  ScanListsLive'
  <2>1. CASE \/ AcquireLock(s) \/ AlarmRejected(s) \/ ListDone(s) \/ ScanFails(s)
             \/ FinishScan(s) \/ FinishScanLocked(s) \/ Crash(s)
    BY <2>1, LiveEnter
    DEF AcquireLock, AlarmRejected, ListDone, ScanFails, FinishScan, FinishScanLocked,
        Crash, Waiting
  <2>2. CASE ListItems(s)
    BY <2>2, LiveEnter DEF ListItems, ListByStatus
  <2>3. CASE CommitAlarm(s)
    BY <2>3, LiveEnter DEF CommitAlarm, LiveInv, ScanListsLive
  <2>4. ASSUME NEW f \in FoodIds, SkipUnchanged(s, f) \/ SkipAnnounced(s, f)
        PROVE  ScanListsLive'
    <3>1. Reaches(s, f) /\ Skip(s, f)
      BY <2>4 DEF SkipUnchanged, SkipAnnounced
    <3>2. \A g \in FoodIds :
              Without(scan[s].todo, f)[g] # NoRow =>
                  Without(scan[s].todo, f)[g].status \in {"fresh", "expiring"}
      BY <3>1, ListWithout
    <3>3. Enter(s, [stage |-> "scanning", todo |-> Without(scan[s].todo, f)])
      BY <3>1, SkipEnters
    <3>4. QED
      BY <3>2, <3>3, LiveEnter
  <2>5. ASSUME NEW f \in FoodIds, PrepareAlarm(s, f) \/ PrepareUnchecked(s, f)
        PROVE  ScanListsLive'
    <3>1. Reaches(s, f) /\ Announce(s, f)
      BY <2>5 DEF PrepareAlarm, PrepareUnchecked
    <3>2. \A g \in FoodIds :
              Without(scan[s].todo, f)[g] # NoRow =>
                  Without(scan[s].todo, f)[g].status \in {"fresh", "expiring"}
      BY <3>1, ListWithout
    <3>3. StatusNow(scan[s].todo[f]) # "consumed"
      BY <3>1, StatusLive
    <3>4. QED
      BY <3>1, <3>2, <3>3, LiveEnter DEF Announce
  <2>6. QED
    BY <1>3, <2>1, <2>2, <2>3, <2>4, <2>5 DEF InstanceStep
<1>4. CASE LockExpires \/ (Tick /\ UNCHANGED reminderVars) \/ UNCHANGED vars
  BY <1>2, <1>4 DEF LockExpires, reminderVars, vars
<1>5. QED
  BY <1>1, <1>2, <1>3, <1>4, NextSteps DEF LiveInv, reminderVars

(* The first states have no scan in progress.                              *)
LEMMA LiveInitially == Init => LiveInv
BY InitTypeOK DEF Init, ReminderInit, LiveInv, ScanListsLive, Waiting
-----------------------------------------------------------------------------
(* Consumed items.                                                         *)

(* A row marked consumed in the hands of an edit has a record already.     *)
ConsumedRowsRecorded ==
    \A c \in Clients :
        /\ request[c].op \in {"editing", "saving"}
        /\ request[c].row.status = "consumed"
        => recorded[request[c].food] > 0

ConsumedInv == LiveInv /\ ConsumedRowsRecorded /\ ConsumedIsRecorded

(* A row that has just been computed from an input is not consumed.        *)
LEMMA NewRowFresh ==
    ASSUME NEW input \in [quantity: Int, production: Date, shelf: Int, opened: Date],
           NEW now \in Int
    PROVE  NewRow(input, now) \in FoodRow /\ NewRow(input, now).status # "consumed"
<1> DEFINE row == [quantity |-> input.quantity, status |-> "fresh", expiry |-> NoDate,
                   production |-> input.production, shelf |-> input.shelf,
                   opened |-> input.opened]
           expiry == CalculateExpiryDate(row.production, row.shelf, row.opened, now)
<1>1. expiry \in Date
  BY ExpiryType
<1>2. ComputeFreshness("fresh", expiry, now) # "consumed"
  BY <1>1, FreshnessConsumed DEF Statuses
<1>3. NewRow(input, now).status = ComputeFreshness("fresh", expiry, now)
  BY DEF NewRow, Refreshed
<1>4. QED
  BY <1>2, <1>3, NewRowType

(* Requests that compute or drop a row.                                    *)
LEMMA ConsumedReading ==
    ASSUME ConsumedInv, NEW c \in Clients, NEW r, Become(c, r),
           UNCHANGED <<items, recorded>>,
           /\ r.op \in {"editing", "saving"}
           /\ r.row.status = "consumed"
           => recorded[r.food] > 0
    PROVE  ConsumedRowsRecorded' /\ ConsumedIsRecorded'
<1>1. \A d \in Clients : request'[d] = IF d = c THEN r ELSE request[d]
  BY RequestChange DEF ConsumedInv, LiveInv, TypeOK
<1>2. QED
  BY <1>1 DEF ConsumedInv, ConsumedRowsRecorded, ConsumedIsRecorded, Exists

(* Requests that write a row that is recorded if it is consumed.           *)
LEMMA ConsumedWriting ==
    ASSUME ConsumedInv, NEW f \in FoodIds, NEW row \in FoodRow,
           items' = [items EXCEPT ![f] = row],
           \A g \in FoodIds : recorded'[g] >= recorded[g] /\ recorded'[g] \in Nat,
           row.status = "consumed" => recorded'[f] > 0,
           \/ UNCHANGED request
           \/ \E c \in Clients : Become(c, Idle)
    PROVE  ConsumedRowsRecorded' /\ ConsumedIsRecorded'
<1> USE DEF ConsumedInv, LiveInv, TypeOK
<1>1. \A d \in Clients : request'[d] = Idle \/ request'[d] = request[d]
  BY RequestChange
<1>2. \A g \in FoodIds : recorded[g] \in Nat
  BY DEF StoreTypeOK
<1>3. \A d \in Clients :
          request[d].op \in {"editing", "saving"} => request[d].food \in FoodIds
  BY RequestFields
<1>4. ConsumedRowsRecorded'
  BY <1>1, <1>2, <1>3 DEF ConsumedRowsRecorded, Idle
<1>5. \A g \in FoodIds : items'[g] = IF g = f THEN row ELSE items[g]
  BY DEF StoreTypeOK, Table
<1>6. ConsumedIsRecorded'
  BY <1>2, <1>5 DEF ConsumedIsRecorded, Exists
<1>7. QED
  BY <1>4, <1>6

(* Steps of a request.                                                     *)
LEMMA ConsumedRequest ==
    ASSUME ConsumedInv, NEW c \in Clients, RequestStep(c)
    PROVE  ConsumedRowsRecorded' /\ ConsumedIsRecorded'
<1> USE DEF ConsumedInv, LiveInv, TypeOK
<1>0. today \in Int /\ \A g \in FoodIds : recorded[g] \in Nat
  BY DEF StoreTypeOK
<1>0a. UNCHANGED recorded =>
          \A g \in FoodIds : recorded'[g] >= recorded[g] /\ recorded'[g] \in Nat
  BY <1>0
<1>1. CASE BeginImport(c) \/ EndRequest(c)
  BY <1>1, ConsumedReading DEF BeginImport, EndRequest, Idle, storeVars
<1>2. CASE ComputeUpdate(c)
  <2> DEFINE row == request[c].row
             expiry == CalculateExpiryDate(row.production, row.shelf, row.opened, today)
  <2>1. row \in FoodRow /\ request[c].food \in FoodIds
    BY <1>2, RequestFields DEF ComputeUpdate
  <2>2. expiry \in Date
    BY <1>0, <2>1, ExpiryType DEF FoodRow
  <2>3. Refreshed(row, today).status = ComputeFreshness(row.status, expiry, today)
    BY <2>1 DEF Refreshed, FoodRow
  <2>4. Refreshed(row, today).status = "consumed" => row.status = "consumed"
    BY <1>0, <2>1, <2>2, <2>3, FreshnessConsumed DEF FoodRow
  <2>5. Refreshed(row, today).status = "consumed" => recorded[request[c].food] > 0
    BY <1>2, <2>4 DEF ComputeUpdate, ConsumedRowsRecorded
  <2>6. QED
    BY <1>2, <2>5, ConsumedReading DEF ComputeUpdate, storeVars
<1>3. CASE SaveUpdate(c)
  <2>1. request[c].food \in FoodIds /\ request[c].row \in FoodRow
    BY <1>3, RequestFields DEF SaveUpdate
  <2>2. request[c].row.status = "consumed" => recorded[request[c].food] > 0
    BY <1>3 DEF SaveUpdate, ConsumedRowsRecorded
  <2>3. QED
    BY <1>0a, <1>3, <2>1, <2>2, ConsumedWriting DEF SaveUpdate, Save
<1>4. CASE CommitConsume(c)
  <2> DEFINE f == request[c].food
  <2>1. /\ f \in FoodIds
        /\ request[c].row \in FoodRow
        /\ request[c].amount \in Nat \ {0}
    BY <1>4, RequestFields DEF CommitConsume
  <2>2. recorded' = [recorded EXCEPT ![f] = @ + request[c].amount]
    BY <1>4 DEF CommitConsume, CreateRecord
  <2>3. /\ \A g \in FoodIds : recorded'[g] >= recorded[g] /\ recorded'[g] \in Nat
        /\ recorded'[f] > 0
    <3>1. \A g \in FoodIds :
              recorded'[g] = IF g = f THEN recorded[f] + request[c].amount ELSE recorded[g]
      BY <2>1, <2>2 DEF StoreTypeOK
    <3>2. recorded'[f] = recorded[f] + request[c].amount
      BY <2>1, <3>1
    <3> HIDE DEF f
    <3>3. QED
      BY <1>0, <2>1, <3>1, <3>2
  <2>4. QED
    BY <1>4, <2>1, <2>3, ConsumedWriting DEF CommitConsume, Save
<1>5. CASE CommitDelete(c)
  <2>1. request[c].food \in FoodIds
    BY <1>5, RequestFields DEF CommitDelete
  <2>2. UNCHANGED recorded /\ \A g \in FoodIds : items'[g] # NoRow => items'[g] = items[g]
    BY <1>5, <2>1 DEF CommitDelete, DeleteRow, StoreTypeOK, Table
  <2>3. \A d \in Clients : request'[d] = IF d = c THEN Idle ELSE request[d]
    BY <1>5, RequestChange DEF CommitDelete
  <2>4. QED
    BY <2>2, <2>3 DEF ConsumedRowsRecorded, ConsumedIsRecorded, Exists, Idle
<1>6. ASSUME NEW f \in FoodIds, Create(c, f)
      PROVE  ConsumedRowsRecorded' /\ ConsumedIsRecorded'
  <2>1. PICK input \in FoodInputs : Store(f, NewRow(input, today))
    BY <1>6 DEF Create
  <2>2. input \in [quantity: Int, production: Date, shelf: Int, opened: Date]
    BY InputsAssumption DEF FoodInput
  <2>3. NewRow(input, today) \in FoodRow /\ NewRow(input, today).status # "consumed"
    BY <1>0, <2>2, NewRowFresh
  <2>4. QED
    BY <1>0a, <1>6, <2>1, <2>3, ConsumedWriting DEF Create, Store, Insert
<1>7. ASSUME NEW f \in FoodIds, ImportRow(c, f)
      PROVE  ConsumedRowsRecorded' /\ ConsumedIsRecorded'
  <2>1. PICK csv \in CsvRows : Store(f, CsvFood(csv, today))
    BY <1>7 DEF ImportRow
  <2>2. csv \in CsvRow
    BY CsvAssumption
  <2>3. CsvFood(csv, today) \in FoodRow /\ CsvFood(csv, today).status # "consumed"
    BY <1>0, <2>2, NewRowFresh DEF CsvFood, CsvRow, Date
  <2>4. QED
    BY <1>0a, <1>7, <2>1, <2>3, ConsumedWriting DEF ImportRow, Store, Insert
<1>8. ASSUME NEW f \in FoodIds, FindForUpdate(c, f)
      PROVE  ConsumedRowsRecorded' /\ ConsumedIsRecorded'
  <2>1. PICK input \in FoodInputs :
          Become(c, [op |-> "editing", food |-> f, row |-> Edited(items[f], input)])
    BY <1>8 DEF FindForUpdate
  <2>2. items[f] \in FoodRow
    BY <1>8 DEF FindForUpdate, Exists, StoreTypeOK, Table
  <2>3. Edited(items[f], input).status = items[f].status
    BY <2>2 DEF Edited, FoodRow
  <2>4. Edited(items[f], input).status = "consumed" => recorded[f] > 0
    BY <1>8, <2>3 DEF FindForUpdate, ConsumedIsRecorded
  <2>5. QED
    BY <1>8, <2>1, <2>4, ConsumedReading DEF FindForUpdate, storeVars
<1>9. ASSUME NEW f \in FoodIds, FindForConsume(c, f) \/ FindForDelete(c, f)
      PROVE  ConsumedRowsRecorded' /\ ConsumedIsRecorded'
  BY <1>9, ConsumedReading DEF FindForConsume, FindForDelete, storeVars
<1>10. QED
  BY <1>1, <1>2, <1>3, <1>4, <1>5, <1>6, <1>7, <1>8, <1>9 DEF RequestStep

(* Scans mark nothing as consumed.                                         *)
LEMMA ConsumedQuiet ==
    ASSUME ConsumedInv, QuietStep
    PROVE  ConsumedRowsRecorded' /\ ConsumedIsRecorded'
<1> USE DEF ConsumedInv, LiveInv, TypeOK
<1>1. UNCHANGED <<recorded, request>>
  BY QuietTables
<1>2. ConsumedRowsRecorded'
  BY <1>1 DEF ConsumedRowsRecorded
<1>3. CASE UNCHANGED items
  BY <1>1, <1>2, <1>3 DEF ConsumedIsRecorded, Exists
<1>4. ASSUME NEW s \in Instances, scan[s].stage = "alarming",
             items[scan[s].food] # NoRow,
             items' = [items EXCEPT ![scan[s].food].status = scan[s].status]
      PROVE  ConsumedIsRecorded'
  <2>1. scan[s].food \in FoodIds /\ scan[s].status # "consumed"
    BY <1>4, ScanFields DEF ScanListsLive
  <2>2. items[scan[s].food] \in FoodRow
    BY <1>4, <2>1 DEF StoreTypeOK, Table
  <2>3. items'[scan[s].food].status = scan[s].status
    BY <1>4, <2>1, <2>2 DEF StoreTypeOK, Table, FoodRow
  <2>4. \A g \in FoodIds : g # scan[s].food => items'[g] = items[g]
    BY <1>4, <2>1 DEF StoreTypeOK, Table
  <2>5. QED
    BY <1>1, <2>1, <2>3, <2>4 DEF ConsumedIsRecorded, Exists
<1>5. QED
  BY <1>2, <1>3, <1>4, QuietTables

(* No step breaks this.                                                    *)
LEMMA ConsumedNext == ConsumedInv /\ [Next]_vars => ConsumedInv'
<1> SUFFICES ASSUME ConsumedInv, [Next]_vars PROVE ConsumedInv'
  OBVIOUS
<1>1. LiveInv'
  BY LiveNext DEF ConsumedInv
<1>2. ConsumedRowsRecorded' /\ ConsumedIsRecorded'
  BY NextSteps, ConsumedRequest, ConsumedQuiet DEF QuietStep
<1>3. QED
  BY <1>1, <1>2 DEF ConsumedInv

(* No seed is consumed.                                                    *)
LEMMA ConsumedInitially == Init => ConsumedInv
BY LiveInitially, SeedAssumption
DEF Init, StoreInit, ServiceInit, ConsumedInv, ConsumedRowsRecorded, ConsumedIsRecorded,
    Exists, Idle

(* An item marked consumed has a consumption record, whatever requests and *)
(* scans write back of what they read earlier.                             *)
THEOREM ConsumedAlwaysRecorded == Spec => []ConsumedIsRecorded
<1>1. ConsumedInv => ConsumedIsRecorded
  BY DEF ConsumedInv
<1>2. QED
  BY <1>1, ConsumedInitially, ConsumedNext, PTL DEF Spec
-----------------------------------------------------------------------------
(* Archived items.                                                         *)

(* A request, and a scan, that take an item for what it is.                *)
RequestRespects(c, f) ==
    request[c].op \in {"editing", "saving", "consuming"} /\ request[c].food = f =>
        request[c].op # "consuming" /\ request[c].row.status = "consumed"

ScanRespects(s, f) ==
    /\ scan[s].stage \in {"scanning", "alarming"} => scan[s].todo[f] = NoRow
    /\ scan[s].stage = "alarming" => scan[s].food # f

ArchiveInv == ConsumedInv /\ StockInv

(* A request that starts, goes on or ends respects an archived item.       *)
LEMMA ArchivedRequests ==
    ASSUME ArchiveInv, NEW f \in FoodIds, Archived(f), NEW c \in Clients, RequestStep(c)
    PROVE  \A d \in Clients : RequestRespects(d, f)'
<1> USE DEF ArchiveInv, ConsumedInv, LiveInv, TypeOK
<1>0. /\ today \in Int
      /\ items[f] \in FoodRow
      /\ items[f].status = "consumed"
      /\ \A d \in Clients : RequestRespects(d, f)
  BY DEF Archived, Exists, StoreTypeOK, Table, RequestRespects
<1>1. ASSUME NEW r, Become(c, r),
             r.op \in {"editing", "saving", "consuming"} /\ r.food = f =>
                 r.op # "consuming" /\ r.row.status = "consumed"
      PROVE  \A d \in Clients : RequestRespects(d, f)'
  <2>1. \A d \in Clients : request'[d] = IF d = c THEN r ELSE request[d]
    BY <1>1, RequestChange
  <2>2. QED
    BY <1>0, <1>1, <2>1 DEF RequestRespects
<1>2. CASE BeginImport(c) \/ SaveUpdate(c) \/ CommitConsume(c) \/ CommitDelete(c) \/ EndRequest(c)
  BY <1>1, <1>2 DEF BeginImport, SaveUpdate, CommitConsume, CommitDelete, EndRequest, Idle
<1>3. CASE ComputeUpdate(c)
  <2> DEFINE row == request[c].row
             expiry == CalculateExpiryDate(row.production, row.shelf, row.opened, today)
  <2>1. row \in FoodRow
    BY <1>3, RequestFields DEF ComputeUpdate
  <2>2. expiry \in Date
    BY <1>0, <2>1, ExpiryType DEF FoodRow
  <2>3. Refreshed(row, today).status = ComputeFreshness(row.status, expiry, today)
    BY <2>1 DEF Refreshed, FoodRow
  <2>4. row.status = "consumed" => Refreshed(row, today).status = "consumed"
    BY <1>0, <2>1, <2>2, <2>3, FreshnessConsumed DEF FoodRow
  <2>5. request[c].food = f => row.status = "consumed"
    BY <1>0, <1>3 DEF ComputeUpdate, RequestRespects
  <2>6. QED
    BY <1>1, <1>3, <2>4, <2>5 DEF ComputeUpdate
<1>4. ASSUME NEW g \in FoodIds, Create(c, g) \/ ImportRow(c, g)
      PROVE  \A d \in Clients : RequestRespects(d, f)'
  BY <1>0, <1>4 DEF Create, ImportRow, RequestRespects
<1>5. ASSUME NEW g \in FoodIds, FindForUpdate(c, g)
      PROVE  \A d \in Clients : RequestRespects(d, f)'
  <2>1. PICK input \in FoodInputs :
          Become(c, [op |-> "editing", food |-> g, row |-> Edited(items[g], input)])
    BY <1>5 DEF FindForUpdate
  <2>2. Edited(items[f], input).status = "consumed"
    BY <1>0 DEF Edited, FoodRow
  <2>3. QED
    BY <1>1, <2>1, <2>2
<1>6. ASSUME NEW g \in FoodIds, FindForConsume(c, g) \/ FindForDelete(c, g)
      PROVE  \A d \in Clients : RequestRespects(d, f)'
  BY <1>0, <1>1, <1>6 DEF FindForConsume, FindForDelete
<1>7. QED
  BY <1>2, <1>3, <1>4, <1>5, <1>6 DEF RequestStep

(* It writes nothing to the item that changes what it is, records nothing  *)
(* of it and does not delete it.                                           *)
LEMMA ArchivedTables ==
    ASSUME ArchiveInv, NEW f \in FoodIds, Archived(f), NEW c \in Clients, RequestStep(c)
    PROVE  /\ items'[f] # NoRow /\ items'[f].status = "consumed"
           /\ recorded'[f] = recorded[f]
<1> USE DEF ArchiveInv, ConsumedInv, LiveInv, TypeOK
<1>0. /\ items[f] # NoRow
      /\ items[f].status = "consumed"
      /\ f \in allocated
      /\ recorded[f] > 0
      /\ RequestRespects(c, f)
  BY DEF Archived, Exists, RequestRespects, ConsumedIsRecorded, StockInv, KeysAllocated
<1>1. CASE UNCHANGED <<items, recorded>>
  BY <1>0, <1>1
<1>2. ASSUME NEW g \in FoodIds, NEW row, items' = [items EXCEPT ![g] = row],
             g = f => row # NoRow /\ row.status = "consumed"
      PROVE  items'[f] # NoRow /\ items'[f].status = "consumed"
  BY <1>0, <1>2 DEF StoreTypeOK, Table
<1>3. CASE SaveUpdate(c)
  <2>1. request[c].food \in FoodIds /\ request[c].row \in FoodRow
    BY <1>3, RequestFields DEF SaveUpdate
  <2>2. request[c].food = f => request[c].row.status = "consumed"
    BY <1>0, <1>3 DEF SaveUpdate, RequestRespects
  <2>3. QED
    BY <1>2, <1>3, <2>1, <2>2, NoRowAssumption DEF SaveUpdate, Save
<1>4. CASE CommitConsume(c)
  <2>1. request[c].food \in FoodIds /\ request[c].food # f
    BY <1>0, <1>4, RequestFields DEF CommitConsume, RequestRespects
  <2>2. recorded'[f] = recorded[f]
    BY <1>4, <2>1 DEF CommitConsume, CreateRecord, StoreTypeOK
  <2>3. QED
    BY <1>2, <1>4, <2>1, <2>2 DEF CommitConsume, Save
<1>5. CASE CommitDelete(c)
  <2>1. request[c].food \in FoodIds /\ request[c].food # f
    BY <1>0, <1>5, RequestFields DEF CommitDelete, DeleteRow, Referenced
  <2>2. QED
    BY <1>2, <1>5, <2>1 DEF CommitDelete, DeleteRow
<1>6. ASSUME NEW g \in FoodIds, Create(c, g) \/ ImportRow(c, g)
      PROVE  /\ items'[f] # NoRow /\ items'[f].status = "consumed"
             /\ recorded'[f] = recorded[f]
  <2>1. PICK row : Store(g, row)
    BY <1>6 DEF Create, ImportRow
  <2>2. g # f
    BY <1>0, <2>1 DEF Store, Insert
  <2>3. QED
    BY <1>2, <2>1, <2>2 DEF Store, Insert
<1>7. ASSUME \/ BeginImport(c) \/ ComputeUpdate(c) \/ EndRequest(c)
             \/ \E g \in FoodIds : FindForUpdate(c, g) \/ FindForConsume(c, g) \/ FindForDelete(c, g)
      PROVE  UNCHANGED <<items, recorded>>
  BY <1>7
  DEF BeginImport, ComputeUpdate, EndRequest, FindForUpdate, FindForConsume, FindForDelete,
      storeVars
<1>8. QED
  BY <1>1, <1>3, <1>4, <1>5, <1>6, <1>7 DEF RequestStep

(* A scan step respects it, too: it is on no list, and no list takes it up.*)
LEMMA ArchivedScans ==
    ASSUME ArchiveInv, NEW f \in FoodIds, Archived(f), NEW s \in Instances, InstanceStep(s)
    PROVE  \A t \in Instances : ScanRespects(t, f)'
<1> USE DEF ArchiveInv, ConsumedInv, LiveInv, TypeOK
<1>0. /\ items[f].status = "consumed"
      /\ \A t \in Instances : ScanRespects(t, f)
  BY DEF Archived, ScanRespects
<1>1. ASSUME NEW state, Enter(s, state),
             state.stage \in {"scanning", "alarming"} => state.todo[f] = NoRow,
             state.stage = "alarming" => state.food # f
      PROVE  \A t \in Instances : ScanRespects(t, f)'
  <2>1. \A t \in Instances : scan'[t] = IF t = s THEN state ELSE scan[t]
    BY <1>1, ScanChange
  <2>2. QED
    BY <1>0, <1>1, <2>1 DEF ScanRespects
<1>2. CASE \/ AcquireLock(s) \/ AlarmRejected(s) \/ ListDone(s) \/ ScanFails(s)
           \/ FinishScan(s) \/ FinishScanLocked(s) \/ Crash(s)
  BY <1>1, <1>2
  DEF AcquireLock, AlarmRejected, ListDone, ScanFails, FinishScan, FinishScanLocked,
      Crash, Waiting
<1>3. CASE ListItems(s)
  <2>1. ListByStatus({"fresh", "expiring"})[f] = NoRow
    BY <1>0 DEF ListByStatus
  <2>2. QED
    BY <1>1, <1>3, <2>1 DEF ListItems
<1>4. CASE CommitAlarm(s)
  BY <1>0, <1>1, <1>4 DEF CommitAlarm, ScanRespects
<1>5. ASSUME NEW g \in FoodIds, Reaches(s, g)
      PROVE  g # f /\ Without(scan[s].todo, g)[f] = NoRow
  <2>1. scan[s].todo \in Table /\ scan[s].todo[f] = NoRow /\ scan[s].todo[g] # NoRow
    BY <1>0, <1>5, ScanFields DEF Reaches, ScanRespects
  <2>2. QED
    BY <2>1 DEF Without, Table
<1>6. ASSUME NEW g \in FoodIds, SkipUnchanged(s, g) \/ SkipAnnounced(s, g)
      PROVE  \A t \in Instances : ScanRespects(t, f)'
  <2>1. Reaches(s, g) /\ Skip(s, g)
    BY <1>6 DEF SkipUnchanged, SkipAnnounced
  <2>2. Enter(s, [stage |-> "scanning", todo |-> Without(scan[s].todo, g)])
    BY <2>1, SkipEnters
  <2>3. QED
    BY <1>1, <1>5, <2>1, <2>2
<1>7. ASSUME NEW g \in FoodIds, PrepareAlarm(s, g) \/ PrepareUnchecked(s, g)
      PROVE  \A t \in Instances : ScanRespects(t, f)'
  BY <1>1, <1>5, <1>7 DEF PrepareAlarm, PrepareUnchecked, Announce
<1>8. QED
  BY <1>2, <1>3, <1>4, <1>6, <1>7 DEF InstanceStep

(* What scans write is not written to this item.                           *)
LEMMA ArchivedQuiet ==
    ASSUME ArchiveInv, NEW f \in FoodIds, Archived(f), QuietStep
    PROVE  items'[f] = items[f] /\ notified'[f] = notified[f]
<1> USE DEF ArchiveInv, ConsumedInv, LiveInv, TypeOK
<1>1. ASSUME NEW s \in Instances, scan[s].stage = "alarming",
             items' = [items EXCEPT ![scan[s].food].status = scan[s].status],
             CreateNotification(scan[s].food, AlarmType(scan[s].status))
      PROVE  items'[f] = items[f] /\ notified'[f] = notified[f]
  <2>1. scan[s].food # f
    BY <1>1 DEF Archived
  <2>2. QED
    BY <1>1, <2>1 DEF CreateNotification, StoreTypeOK, Table
<1>2. QED
  BY <1>1, QuietTables

(* A consumed item that nobody has in hand for anything else stays as it   *)
(* is, whatever edits put back in stock, and nothing happens to it again.  *)
THEOREM ArchivedForGood == Spec => ArchivedStaysArchived
<1> DEFINE Step == \A f \in FoodIds :
                      Archived(f) =>
                          Archived(f)' /\ recorded'[f] = recorded[f] /\ notified'[f] = notified[f]
<1>1. Init => ArchiveInv
  BY ConsumedInitially, StockInitially DEF ArchiveInv
<1>2. ArchiveInv /\ [Next]_vars => ArchiveInv'
  BY ConsumedNext, StockNext DEF ArchiveInv
<1>3. ArchiveInv /\ [Next]_vars => [Step]_vars
  <2> SUFFICES ASSUME ArchiveInv, [Next]_vars, NEW f \in FoodIds, Archived(f)
               PROVE  Archived(f)' /\ recorded'[f] = recorded[f] /\ notified'[f] = notified[f]
    OBVIOUS
  <2>0. Archived(f)' <=> /\ Exists(f)'
                         /\ items'[f].status = "consumed"
                         /\ \A c \in Clients : RequestRespects(c, f)'
                         /\ \A s \in Instances : ScanRespects(s, f)'
    BY DEF Archived, RequestRespects, ScanRespects
  <2>1. /\ Exists(f) /\ items[f].status = "consumed"
        /\ \A c \in Clients : RequestRespects(c, f)
        /\ \A s \in Instances : ScanRespects(s, f)
    BY DEF Archived, RequestRespects, ScanRespects
  <2>2. CASE QuietStep
    <3>1. UNCHANGED <<recorded, request>>
      BY <2>2, QuietTables
    <3>2. items'[f] = items[f] /\ notified'[f] = notified[f]
      BY <2>2, ArchivedQuiet
    <3>3. \A s \in Instances : ScanRespects(s, f)'
      <4>1. CASE \E s \in Instances : InstanceStep(s)
        BY <4>1, ArchivedScans
      <4>2. CASE UNCHANGED scan
        BY <2>1, <4>2 DEF ScanRespects
      <4>3. QED
        BY <2>2, <4>1, <4>2 DEF QuietStep, LockExpires, reminderVars, vars
    <3>4. QED
      BY <2>0, <2>1, <3>1, <3>2, <3>3 DEF RequestRespects, Exists
  <2>3. ASSUME NEW c \in Clients, RequestStep(c), UNCHANGED reminderVars
        PROVE  Archived(f)' /\ recorded'[f] = recorded[f] /\ notified'[f] = notified[f]
    <3>1. notified' = notified
      BY <2>3, RequestTables DEF ArchiveInv, StockInv
    <3>2. UNCHANGED scan
      BY <2>3 DEF reminderVars
    <3>3. QED
      BY <2>0, <2>1, <2>3, <3>1, <3>2, ArchivedRequests, ArchivedTables DEF ScanRespects, Exists
  <2>4. QED
    BY <2>2, <2>3, NextSteps DEF QuietStep
<1>4. QED
  BY <1>1, <1>2, <1>3, PTL DEF Spec, ArchivedStaysArchived
-----------------------------------------------------------------------------
(* Alarms about fresh items.                                               *)

(* Near on the day now.                                                    *)
Near(expiry, now) == RemainingDays(expiry, now) <= ExpiringThresholdDays

(* An item stored as "expiring" is near its expiry date, or was announced. *)
Justified(f, row) ==
    row.status = "expiring" => Near(row.expiry, today) \/ notified[f]["expiring"] > 0

(* That holds of rows in the table, in a request and in a scan's list.     *)
ItemsJustified == \A f \in FoodIds : Exists(f) => Justified(f, items[f])

RequestsJustified ==
    \A c \in Clients :
        request[c].op \in {"editing", "saving", "consuming"} =>
            Justified(request[c].food, request[c].row)

ScansJustified ==
    \A s \in Instances, f \in FoodIds :
        /\ scan[s].stage \in {"scanning", "alarming"}
        /\ scan[s].todo[f] # NoRow
        => Justified(f, scan[s].todo[f])

FreshInv ==
    LiveInv /\ ItemsJustified /\ RequestsJustified /\ ScansJustified /\ NoFreshAlarm

(* Seeds stored as "expiring" are justified on the first day.              *)
SeedsJustified ==
    \A f \in FoodIds :
        Seed[f] # NoRow /\ Seed[f].status = "expiring" =>
            Near(Seed[f].expiry, 0) \/ SeedNotified[f]["expiring"] > 0

(* An item that is near stays near as days pass, and a notification stays. *)
LEMMA NearStays ==
    ASSUME NEW expiry \in Date, NEW now \in Int, NEW later \in Int, now <= later,
           Near(expiry, now)
    PROVE  Near(expiry, later)
BY ThresholdAssumption, NoDateAssumption
DEF Near, RemainingDays, UndatedRemainingDays, Date

LEMMA JustifiedStays ==
    ASSUME NEW f \in FoodIds, NEW row \in FoodRow, Justified(f, row),
           StoreTypeOK, today <= today', today' \in Int,
           notified[f]["expiring"] > 0 => notified'[f]["expiring"] > 0
    PROVE  Justified(f, row)'
BY NearStays DEF Justified, FoodRow, StoreTypeOK

(* What the calculator says of an item that is near, and of one that is    *)
(* not.                                                                    *)
LEMMA FreshnessNear ==
    ASSUME NEW status \in Statuses \ {"consumed"}, NEW expiry \in Date, NEW now \in Int
    PROVE  /\ Near(expiry, now) => ComputeFreshness(status, expiry, now) # "fresh"
           /\ ComputeFreshness(status, expiry, now) = "expiring" => Near(expiry, now)
<1>1. RemainingDays(expiry, now) \in Int
  BY NoDateAssumption DEF RemainingDays, UndatedRemainingDays, Date
<1>2. QED
  BY <1>1, ThresholdAssumption DEF Near, ComputeFreshness, Statuses

(* A row that has just been computed is justified, whatever its item.      *)
LEMMA RefreshedJustified ==
    ASSUME NEW row \in FoodRow, StoreTypeOK, NEW f
    PROVE  Justified(f, Refreshed(row, today))
<1> DEFINE expiry == CalculateExpiryDate(row.production, row.shelf, row.opened, today)
<1>1. today \in Int
  BY DEF StoreTypeOK
<1>2. expiry \in Date
  BY <1>1, ExpiryType DEF FoodRow
<1>3. /\ Refreshed(row, today).expiry = expiry
      /\ Refreshed(row, today).status = ComputeFreshness(row.status, expiry, today)
  BY DEF Refreshed, FoodRow
<1>4. ComputeFreshness(row.status, expiry, today) = "expiring" => Near(expiry, today)
  <2>1. CASE row.status = "consumed"
    BY <2>1 DEF ComputeFreshness
  <2>2. CASE row.status # "consumed"
    BY <1>1, <1>2, <2>2, FreshnessNear DEF FoodRow
  <2>3. QED
    BY <2>1, <2>2
<1>5. QED
  BY <1>3, <1>4 DEF Justified

(* A scan takes no item for fresh whose stored status is justified, unless *)
(* it was announced.                                                       *)
LEMMA FreshAnnounced ==
    ASSUME FreshInv, NEW s \in Instances, NEW f \in FoodIds, Reaches(s, f),
           StatusNow(scan[s].todo[f]) # scan[s].todo[f].status,
           StatusNow(scan[s].todo[f]) = "fresh"
    PROVE  HasForFoodAndType(f, AlarmType(StatusNow(scan[s].todo[f])))
<1> DEFINE row == scan[s].todo[f]
<1>1. row \in FoodRow /\ row.status \in {"fresh", "expiring"}
  BY StatusLive DEF FreshInv
<1>2. row.status = "expiring"
  BY <1>1
<1>3. today \in Int /\ row.expiry \in Date
  BY <1>1 DEF FreshInv, LiveInv, TypeOK, StoreTypeOK, FoodRow
<1>4. ~Near(row.expiry, today)
  BY <1>2, <1>3, FreshnessNear DEF StatusNow, Statuses
<1>5. Justified(f, row)
  BY DEF FreshInv, ScansJustified, Reaches
<1>6. notified[f]["expiring"] > 0
  BY <1>2, <1>4, <1>5 DEF Justified
<1>7. QED
  BY <1>6 DEF HasForFoodAndType, AlarmType
(* Requests that compute or drop a row leave rows justified.               *)
LEMMA JustifiedReading ==
    ASSUME FreshInv, NEW c \in Clients, NEW r, Become(c, r),
           UNCHANGED <<items, notified, today>>,
           r.op \in {"editing", "saving", "consuming"} => Justified(r.food, r.row)
    PROVE  ItemsJustified' /\ RequestsJustified'
<1>1. \A d \in Clients : request'[d] = IF d = c THEN r ELSE request[d]
  BY RequestChange DEF FreshInv, LiveInv, TypeOK
<1>2. RequestsJustified'
  BY <1>1 DEF FreshInv, RequestsJustified, Justified
<1>3. ItemsJustified'
  BY DEF FreshInv, ItemsJustified, Exists, Justified
<1>4. QED
  BY <1>2, <1>3

(* So do requests that write a justified row.                              *)
LEMMA JustifiedWriting ==
    ASSUME FreshInv, NEW f \in FoodIds, NEW row \in FoodRow,
           items' = [items EXCEPT ![f] = row], Justified(f, row),
           UNCHANGED <<notified, today>>,
           \/ UNCHANGED request
           \/ \E c \in Clients : Become(c, Idle)
    PROVE  ItemsJustified' /\ RequestsJustified'
<1> USE DEF FreshInv, LiveInv, TypeOK
<1>1. \A d \in Clients : request'[d] = Idle \/ request'[d] = request[d]
  BY RequestChange
<1>2. RequestsJustified'
  BY <1>1 DEF RequestsJustified, Justified, Idle
<1>3. \A g \in FoodIds : items'[g] = IF g = f THEN row ELSE items[g]
  BY DEF StoreTypeOK, Table
<1>4. ItemsJustified'
  BY <1>3 DEF ItemsJustified, Exists, Justified
<1>5. QED
  BY <1>2, <1>4

(* Steps of a request.                                                     *)
LEMMA JustifiedRequest ==
    ASSUME FreshInv, NEW c \in Clients, RequestStep(c)
    PROVE  ItemsJustified' /\ RequestsJustified'
<1> USE DEF FreshInv, LiveInv, TypeOK
<1>0. UNCHANGED <<notified, today>> /\ today \in Int
  BY RequestTables DEF StoreTypeOK
<1>1. CASE BeginImport(c) \/ EndRequest(c)
  BY <1>0, <1>1, JustifiedReading DEF BeginImport, EndRequest, Idle, storeVars
<1>2. CASE ComputeUpdate(c)
  <2>1. request[c].row \in FoodRow
    BY <1>2, RequestFields DEF ComputeUpdate
  <2>2. Justified(request[c].food, Refreshed(request[c].row, today))
    BY <2>1, RefreshedJustified
  <2>3. QED
    BY <1>0, <1>2, <2>2, JustifiedReading DEF ComputeUpdate, storeVars
<1>3. CASE SaveUpdate(c) \/ CommitConsume(c)
  <2>1. request[c].food \in FoodIds /\ request[c].row \in FoodRow
    BY <1>3, RequestFields DEF SaveUpdate, CommitConsume
  <2>2. Justified(request[c].food, request[c].row)
    BY <1>3 DEF SaveUpdate, CommitConsume, RequestsJustified
  <2>3. QED
    BY <1>0, <1>3, <2>1, <2>2, JustifiedWriting DEF SaveUpdate, CommitConsume, Save
<1>4. CASE CommitDelete(c)
  <2>1. request[c].food \in FoodIds
    BY <1>4, RequestFields DEF CommitDelete
  <2>2. \A g \in FoodIds : items'[g] # NoRow => items'[g] = items[g]
    BY <1>4, <2>1 DEF CommitDelete, DeleteRow, StoreTypeOK, Table
  <2>3. \A d \in Clients : request'[d] = IF d = c THEN Idle ELSE request[d]
    BY <1>4, RequestChange DEF CommitDelete
  <2>4. QED
    BY <1>0, <2>2, <2>3 DEF ItemsJustified, RequestsJustified, Exists, Justified, Idle
<1>5. ASSUME NEW input \in [quantity: Int, production: Date, shelf: Int, opened: Date],
             NEW f \in FoodIds
      PROVE  NewRow(input, today) \in FoodRow /\ Justified(f, NewRow(input, today))
  <2> DEFINE row == [quantity |-> input.quantity, status |-> "fresh", expiry |-> NoDate,
                     production |-> input.production, shelf |-> input.shelf,
                     opened |-> input.opened]
  <2>1. row \in FoodRow
    BY DEF FoodRow, Statuses, Date
  <2>2. Justified(f, Refreshed(row, today))
    BY <2>1, RefreshedJustified
  <2>3. QED
    BY <1>0, <2>2, NewRowType DEF NewRow
<1>6. ASSUME NEW f \in FoodIds, Create(c, f)
      PROVE  ItemsJustified' /\ RequestsJustified'
  <2>1. PICK input \in FoodInputs : Store(f, NewRow(input, today))
    BY <1>6 DEF Create
  <2>2. input \in [quantity: Int, production: Date, shelf: Int, opened: Date]
    BY InputsAssumption DEF FoodInput
  <2>3. QED
    BY <1>0, <1>5, <1>6, <2>1, <2>2, JustifiedWriting DEF Create, Store, Insert
<1>7. ASSUME NEW f \in FoodIds, ImportRow(c, f)
      PROVE  ItemsJustified' /\ RequestsJustified'
  <2>1. PICK csv \in CsvRows : Store(f, CsvFood(csv, today))
    BY <1>7 DEF ImportRow
  <2>2. CsvFood(csv, today) \in FoodRow /\ Justified(f, CsvFood(csv, today))
    BY <1>5, CsvAssumption DEF CsvFood, CsvRow, Date
  <2>3. QED
    BY <1>0, <1>7, <2>1, <2>2, JustifiedWriting DEF ImportRow, Store, Insert
<1>8. ASSUME NEW f \in FoodIds, FindForUpdate(c, f)
      PROVE  ItemsJustified' /\ RequestsJustified'
  <2>1. PICK input \in FoodInputs :
          Become(c, [op |-> "editing", food |-> f, row |-> Edited(items[f], input)])
    BY <1>8 DEF FindForUpdate
  <2>2. items[f] \in FoodRow
    BY <1>8 DEF FindForUpdate, Exists, StoreTypeOK, Table
  <2>3. /\ Edited(items[f], input).status = items[f].status
        /\ Edited(items[f], input).expiry = items[f].expiry
    BY <2>2 DEF Edited, FoodRow
  <2>4. Justified(f, Edited(items[f], input))
    BY <1>8, <2>3 DEF FindForUpdate, ItemsJustified, Justified
  <2>5. QED
    BY <1>0, <1>8, <2>1, <2>4, JustifiedReading DEF FindForUpdate, storeVars
<1>9. ASSUME NEW f \in FoodIds, FindForConsume(c, f)
      PROVE  ItemsJustified' /\ RequestsJustified'
  <2>1. PICK amount \in Amounts :
          Become(c, [op |-> "consuming", food |-> f,
                     row |-> Consumed(items[f], amount), amount |-> amount])
    BY <1>9 DEF FindForConsume
  <2>2. items[f] \in FoodRow
    BY <1>9 DEF FindForConsume, Exists, StoreTypeOK, Table
  <2>3. /\ Consumed(items[f], amount).status \in {"consumed", items[f].status}
        /\ Consumed(items[f], amount).expiry = items[f].expiry
    BY <2>2 DEF Consumed, FoodRow
  <2>4. Justified(f, Consumed(items[f], amount))
    BY <1>9, <2>3 DEF FindForConsume, ItemsJustified, Justified
  <2>5. QED
    BY <1>0, <1>9, <2>1, <2>4, JustifiedReading DEF FindForConsume, storeVars
<1>10. ASSUME NEW f \in FoodIds, FindForDelete(c, f)
       PROVE  ItemsJustified' /\ RequestsJustified'
  BY <1>0, <1>10, JustifiedReading DEF FindForDelete, storeVars
<1>11. QED
  BY <1>1, <1>2, <1>3, <1>4, <1>6, <1>7, <1>8, <1>9, <1>10 DEF RequestStep

(* Time passes and notifications add up.                                   *)
LEMMA TimePasses ==
    ASSUME TypeOK, QuietStep
    PROVE  /\ today \in Int /\ today' \in Int /\ today <= today'
           /\ \A f \in FoodIds :
                 notified[f]["expiring"] > 0 => notified'[f]["expiring"] > 0
<1>1. today' = today \/ today' = today + 1
  BY DEF QuietStep, InstanceStep, AcquireLock, ListItems, CommitAlarm, AlarmRejected,
     ListDone, ScanFails, FinishScan, FinishScanLocked, Crash, SkipUnchanged, SkipAnnounced,
     Skip, PrepareAlarm, PrepareUnchecked, LockExpires, Tick, vars, storeVars
<1>2. today \in Int
  BY DEF TypeOK, StoreTypeOK
<1>3. today' \in Int /\ today <= today'
  BY <1>1, <1>2
<1>4. ASSUME NEW s \in Instances, scan[s].stage = "alarming",
             CreateNotification(scan[s].food, AlarmType(scan[s].status)),
             NEW f \in FoodIds, notified[f]["expiring"] > 0
      PROVE  notified'[f]["expiring"] > 0
  <2>1. scan[s].food \in FoodIds
    BY <1>4, ScanFields DEF TypeOK
  <2>2. AlarmType(scan[s].status) \in NotificationTypes
    BY DEF AlarmType, NotificationTypes
  <2>3. QED
    BY <1>4, <2>1, <2>2 DEF CreateNotification, TypeOK, StoreTypeOK, NotificationTypes
<1>5. \A f \in FoodIds : notified[f]["expiring"] > 0 => notified'[f]["expiring"] > 0
  BY <1>4, QuietTables
<1>6. QED
  BY <1>2, <1>3, <1>5
(* Scans leave the rows of items and requests justified: the status they   *)
(* write comes with its notification.                                      *)
LEMMA JustifiedQuiet ==
    ASSUME FreshInv, QuietStep
    PROVE  ItemsJustified' /\ RequestsJustified'
<1> USE DEF FreshInv, LiveInv, TypeOK
<1>1. ASSUME NEW f \in FoodIds, NEW row \in FoodRow, Justified(f, row)
      PROVE  Justified(f, row)'
  BY <1>1, JustifiedStays, TimePasses
<1>2. RequestsJustified'
  <2>1. UNCHANGED request
    BY QuietTables
  <2>2. ASSUME NEW c \in Clients, request[c].op \in {"editing", "saving", "consuming"}
        PROVE  Justified(request[c].food, request[c].row)'
    <3>1. request[c].food \in FoodIds /\ request[c].row \in FoodRow
      BY <2>2, RequestFields
    <3>2. Justified(request[c].food, request[c].row)
      BY <2>2 DEF RequestsJustified
    <3>3. QED
      BY <1>1, <2>1, <3>1, <3>2 DEF Justified
  <2>3. QED
    BY <2>1, <2>2 DEF RequestsJustified
<1>3. CASE UNCHANGED items
  <2>1. ASSUME NEW f \in FoodIds, items[f] # NoRow
        PROVE  Justified(f, items[f])'
    <3>1. items[f] \in FoodRow /\ Justified(f, items[f])
      BY <2>1 DEF StoreTypeOK, Table, ItemsJustified, Exists
    <3>2. QED
      BY <1>1, <1>3, <3>1 DEF Justified
  <2>2. QED
    BY <1>2, <1>3, <2>1 DEF ItemsJustified, Exists
<1>4. ASSUME NEW s \in Instances, scan[s].stage = "alarming",
             items[scan[s].food] # NoRow,
             items' = [items EXCEPT ![scan[s].food].status = scan[s].status],
             CreateNotification(scan[s].food, AlarmType(scan[s].status))
      PROVE  ItemsJustified'
  <2>0. PICK f \in FoodIds : f = scan[s].food
    BY <1>4, ScanFields
  <2>1. scan[s].status \in {"expiring", "expired"}
    BY <1>4, ScanFields DEF ScanListsLive, NoFreshAlarm, Statuses
  <2>2. items[f] \in FoodRow
    BY <1>4, <2>0 DEF StoreTypeOK, Table
  <2>3. items'[f].status = scan[s].status
    BY <1>4, <2>0, <2>2 DEF StoreTypeOK, Table, FoodRow
  <2>4. scan[s].status = "expiring" => notified'[f]["expiring"] > 0
    BY <1>4, <2>0 DEF CreateNotification, AlarmType, StoreTypeOK, NotificationTypes
  <2>5. Justified(f, items[f])'
    BY <2>1, <2>3, <2>4 DEF Justified
  <2>6. ASSUME NEW g \in FoodIds, items'[g] # NoRow, g # f
        PROVE  Justified(g, items[g])'
    <3>1. items'[g] = items[g]
      BY <1>4, <2>0, <2>6 DEF StoreTypeOK, Table
    <3>2. items[g] \in FoodRow /\ Justified(g, items[g])
      BY <2>6, <3>1 DEF StoreTypeOK, Table, ItemsJustified, Exists
    <3>3. QED
      BY <1>1, <3>1, <3>2 DEF Justified
  <2>7. QED
    BY <2>5, <2>6 DEF ItemsJustified, Exists
<1>5. QED
  BY <1>2, <1>3, <1>4, QuietTables

(* A scan may enter any state whose list is justified.                     *)
LEMMA JustifiedEnter ==
    ASSUME FreshInv, QuietStep, NEW s \in Instances, NEW state \in ScanState,
           Enter(s, state),
           state.stage \in {"scanning", "alarming"} =>
               \A f \in FoodIds : state.todo[f] # NoRow => Justified(f, state.todo[f])
    PROVE  ScansJustified'
<1> USE DEF FreshInv, LiveInv, TypeOK
<1>1. \A t \in Instances : scan'[t] = IF t = s THEN state ELSE scan[t]
  BY ScanChange
<1>2. ASSUME NEW t \in Instances, NEW f \in FoodIds,
             scan'[t].stage \in {"scanning", "alarming"}, scan'[t].todo[f] # NoRow
      PROVE  Justified(f, scan[t].todo[f])'
  <2>1. Justified(f, scan'[t].todo[f])
    BY <1>1, <1>2 DEF ScansJustified
  <2>2. scan'[t] \in ScanState
    BY <1>1 DEF ReminderTypeOK
  <2>3. scan'[t].todo \in Table
    BY <1>2, <2>2 DEF ScanState
  <2>4. scan'[t].todo[f] \in FoodRow
    BY <1>2, <2>3 DEF Table
  <2>5. PICK row \in FoodRow : row = scan'[t].todo[f]
    BY <2>4
  <2>6. Justified(f, row)
    BY <2>1, <2>5
  <2>7. Justified(f, row)'
    BY <2>6, JustifiedStays, TimePasses
  <2>8. QED
    BY <2>5, <2>7 DEF Justified
<1>3. QED
  BY <1>2 DEF ScansJustified
(* Lists stay justified, and no alarm is about a fresh item.               *)
LEMMA FreshScans ==
    ASSUME FreshInv, QuietStep, ~ReadErrors
    PROVE  ScansJustified' /\ NoFreshAlarm'
<1> USE DEF FreshInv, LiveInv, TypeOK
<1>1. CASE UNCHANGED scan
  <2>1. ASSUME NEW s \in Instances, NEW f \in FoodIds,
               scan[s].stage \in {"scanning", "alarming"}, scan[s].todo[f] # NoRow
        PROVE  Justified(f, scan[s].todo[f])'
    <3>1. scan[s].todo \in Table
      BY <2>1, ScanFields
    <3>2. PICK row \in FoodRow : row = scan[s].todo[f]
      BY <2>1, <3>1 DEF Table
    <3>3. Justified(f, row)
      BY <2>1, <3>2 DEF ScansJustified
    <3>4. Justified(f, row)'
      BY <3>3, JustifiedStays, TimePasses
    <3>5. QED
      BY <1>1, <3>2, <3>4 DEF Justified
  <2>2. QED
    BY <1>1, <2>1 DEF ScansJustified, NoFreshAlarm
<1>2. ASSUME NEW s \in Instances, NEW state \in ScanState, Enter(s, state),
             state.stage \in {"scanning", "alarming"} =>
                 \A f \in FoodIds : state.todo[f] # NoRow => Justified(f, state.todo[f]),
             state.stage = "alarming" => state.status # "fresh"
      PROVE  ScansJustified' /\ NoFreshAlarm'
  <2>1. \A t \in Instances : scan'[t] = IF t = s THEN state ELSE scan[t]
    BY <1>2, ScanChange
  <2>2. QED
    BY <1>2, <2>1, JustifiedEnter DEF NoFreshAlarm
<1>3. /\ Waiting \in ScanState
      /\ [stage |-> "locked"] \in ScanState
      /\ [stage |-> "finishing"] \in ScanState
  BY DEF Waiting, ScanState
<1>4. ASSUME NEW s \in Instances, InstanceStep(s)
      PROVE  ScansJustified' /\ NoFreshAlarm'
  <2>1. CASE \/ AcquireLock(s) \/ AlarmRejected(s) \/ ListDone(s) \/ ScanFails(s)
             \/ FinishScan(s) \/ FinishScanLocked(s) \/ Crash(s)
    BY <1>2, <1>3, <2>1
    DEF AcquireLock, AlarmRejected, ListDone, ScanFails, FinishScan, FinishScanLocked,
        Crash, Waiting
  <2>2. CASE ListItems(s)
    <3> DEFINE list == ListByStatus({"fresh", "expiring"})
    <3>1. list \in Table
      BY DEF ListByStatus, Table, StoreTypeOK
    <3>2. \A f \in FoodIds : list[f] # NoRow => Justified(f, list[f])
      BY DEF ListByStatus, ItemsJustified, Justified
    <3> HIDE DEF list
    <3>3. [stage |-> "scanning", todo |-> list] \in ScanState
      BY <3>1 DEF ScanState
    <3>4. Enter(s, [stage |-> "scanning", todo |-> list])
      BY <2>2 DEF ListItems, list
    <3>5. QED
      BY <1>2, <3>2, <3>3, <3>4
  <2>3. CASE CommitAlarm(s)
    <3>1. scan[s].todo \in Table
      BY <2>3, ScanFields DEF CommitAlarm
    <3>2. [stage |-> "scanning", todo |-> scan[s].todo] \in ScanState
      BY <3>1 DEF ScanState
    <3>3. \A f \in FoodIds : scan[s].todo[f] # NoRow => Justified(f, scan[s].todo[f])
      BY <2>3 DEF CommitAlarm, ScansJustified
    <3>4. QED
      BY <1>2, <2>3, <3>2, <3>3 DEF CommitAlarm
  <2>4. ASSUME NEW f \in FoodIds, Reaches(s, f)
        PROVE  /\ Without(scan[s].todo, f) \in Table
               /\ \A g \in FoodIds :
                     Without(scan[s].todo, f)[g] # NoRow =>
                         Justified(g, Without(scan[s].todo, f)[g])
    <3>1. scan[s].todo \in Table
      BY <2>4, ScanFields DEF Reaches
    <3>2. Without(scan[s].todo, f) \in Table
      BY <3>1 DEF Without, Table
    <3>3. ASSUME NEW g \in FoodIds, Without(scan[s].todo, f)[g] # NoRow
          PROVE  Justified(g, Without(scan[s].todo, f)[g])
      <4>1. /\ Without(scan[s].todo, f)[g] = scan[s].todo[g]
            /\ scan[s].todo[g] # NoRow
        BY <2>4, <3>3, ListWithout
      <4>2. Justified(g, scan[s].todo[g])
        BY <2>4, <4>1 DEF ScansJustified, Reaches
      <4>3. QED
        BY <4>1, <4>2
    <3>4. QED
      BY <3>2, <3>3
  <2>5. ASSUME NEW f \in FoodIds, SkipUnchanged(s, f) \/ SkipAnnounced(s, f)
        PROVE  ScansJustified' /\ NoFreshAlarm'
    <3>1. Reaches(s, f) /\ Skip(s, f)
      BY <2>5 DEF SkipUnchanged, SkipAnnounced
    <3>2. [stage |-> "scanning", todo |-> Without(scan[s].todo, f)] \in ScanState
      BY <2>4, <3>1 DEF ScanState
    <3>3. QED
      BY <1>2, <2>4, <3>1, <3>2, SkipEnters
  <2>6. ASSUME NEW f \in FoodIds, PrepareAlarm(s, f)
        PROVE  ScansJustified' /\ NoFreshAlarm'
    <3> DEFINE status == StatusNow(scan[s].todo[f])
               state == [stage |-> "alarming", todo |-> Without(scan[s].todo, f),
                         food |-> f, status |-> status]
    <3>1. Reaches(s, f) /\ Enter(s, state)
      BY <2>6 DEF PrepareAlarm, Announce
    <3>2. status \in Statuses
      BY <3>1, StatusLive
    <3>3. status # "fresh"
      BY <2>6, <3>1, FreshAnnounced DEF PrepareAlarm
    <3> HIDE DEF status
    <3>4. state \in ScanState
      BY <2>4, <3>1, <3>2 DEF ScanState
    <3>5. QED
      BY <1>2, <2>4, <3>1, <3>3, <3>4
  <2>7. ASSUME NEW f \in FoodIds
        PROVE  ~PrepareUnchecked(s, f)
    BY DEF PrepareUnchecked
  <2>8. QED
    BY <1>4, <2>1, <2>2, <2>3, <2>5, <2>6, <2>7 DEF InstanceStep
<1>5. CASE \A s \in Instances : ~InstanceStep(s)
  BY <1>1, <1>5 DEF QuietStep, LockExpires, reminderVars, vars
<1>6. QED
  BY <1>4, <1>5

(* The scan never announces an item it takes for fresh, although it would  *)
(* call any change of status but one "expiring": an item can be stored as  *)
(* "expiring" and not be near its expiry date only after it was announced. *)
(* Reads must not fail, and the seeds must be justified.                   *)
THEOREM FreshNeverAnnounced ==
    ASSUME ~ReadErrors, SeedsJustified
    PROVE  Spec => []NoFreshAlarm
<1>1. Init => FreshInv
  <2> SUFFICES ASSUME Init PROVE FreshInv
    OBVIOUS
  <2>1. LiveInv
    BY LiveInitially
  <2>2. ItemsJustified
    BY DEF Init, StoreInit, ItemsJustified, Justified, Exists, SeedsJustified
  <2>3. RequestsJustified
    BY DEF Init, ServiceInit, RequestsJustified, Idle
  <2>4. ScansJustified /\ NoFreshAlarm
    BY DEF Init, ReminderInit, ScansJustified, NoFreshAlarm, Waiting
  <2>5. QED
    BY <2>1, <2>2, <2>3, <2>4 DEF FreshInv
<1>2. FreshInv /\ [Next]_vars => FreshInv'
  <2> SUFFICES ASSUME FreshInv, [Next]_vars PROVE FreshInv'
    OBVIOUS
  <2>1. LiveInv'
    BY LiveNext DEF FreshInv
  <2>2. CASE QuietStep
    BY <2>1, <2>2, JustifiedQuiet, FreshScans DEF FreshInv
  <2>3. ASSUME NEW c \in Clients, RequestStep(c), UNCHANGED reminderVars
        PROVE  FreshInv'
    <3>1. UNCHANGED <<notified, today, scan>>
      BY <2>3, RequestTables DEF FreshInv, LiveInv, reminderVars
    <3>2. ScansJustified' /\ NoFreshAlarm'
      BY <3>1 DEF FreshInv, ScansJustified, NoFreshAlarm, Justified
    <3>3. QED
      BY <2>1, <2>3, <3>2, JustifiedRequest DEF FreshInv
  <2>4. QED
    BY <2>2, <2>3, NextSteps DEF QuietStep
<1>3. FreshInv => NoFreshAlarm
  BY DEF FreshInv
<1>4. QED
  BY <1>1, <1>2, <1>3, PTL DEF Spec

-----------------------------------------------------------------------------
(* The dashboard.                                                          *)

Outdated(f) ==
    /\ Exists(f) /\ items[f].status # "consumed"
    /\ items[f].expiry # NoDate /\ items[f].expiry < today

(* Whom the dashboard shows as expired, and as consumed.                   *)
DashboardShows ==
    \A f \in FoodIds :
        /\ f \in Dashboard["expired"] <=> Outdated(f)
        /\ f \in Dashboard["consumed"] <=> Exists(f) /\ items[f].status = "consumed"

LEMMA OnDashboard == StoreTypeOK => DashboardShows
<1> SUFFICES ASSUME StoreTypeOK, NEW f \in FoodIds
             PROVE  /\ f \in Dashboard["expired"] <=> Outdated(f)
                    /\ f \in Dashboard["consumed"] <=> Exists(f) /\ items[f].status = "consumed"
  BY DEF DashboardShows
<1>1. Exists(f) => items[f].status \in Statuses /\ items[f].expiry \in Date
  BY DEF StoreTypeOK, Table, Exists, FoodRow
<1>2. f \in List(Statuses) <=> Exists(f)
  BY <1>1 DEF List, ListByStatus, Exists
<1>3. /\ f \in Dashboard["expired"] <=> Exists(f) /\ Freshness(f) = "expired"
      /\ f \in Dashboard["consumed"] <=> Exists(f) /\ Freshness(f) = "consumed"
  BY <1>2 DEF Dashboard, Statuses
<1>4. today \in Int
  BY DEF StoreTypeOK
<1>5. Exists(f) =>
         /\ Freshness(f) = "consumed" <=> items[f].status = "consumed"
         /\ Freshness(f) = "expired" <=>
               /\ items[f].status # "consumed"
               /\ items[f].expiry # NoDate /\ items[f].expiry < today
  BY <1>1, <1>4, NoDateAssumption
  DEF Freshness, ComputeFreshness, RemainingDays, UndatedRemainingDays, Date
<1>6. QED
  BY <1>3, <1>5 DEF Outdated

(* An item that the dashboard shows as expired does not freshen up unless  *)
(* its date is moved, whatever status is written back into its row.        *)
THEOREM DashboardAges == Spec => DashboardOnlyAges
<1> DEFINE Step == \A f \in FoodIds :
                      /\ f \in Dashboard["expired"]
                      /\ Exists(f)'
                      /\ items'[f].expiry = items[f].expiry
                      => (f \in Dashboard["expired"] \cup Dashboard["consumed"])'
<1>1. TypeOK /\ [Next]_vars => TypeOK'
  BY NextTypeOK
<1>2. TypeOK => DashboardShows
  BY OnDashboard DEF TypeOK
<1>3. TypeOK' => DashboardShows'
  BY <1>2, PTL
<1>4. TypeOK /\ [Next]_vars => [Step]_vars
  <2> SUFFICES ASSUME TypeOK, [Next]_vars, NEW f \in FoodIds,
                      f \in Dashboard["expired"], Exists(f)',
                      items'[f].expiry = items[f].expiry
               PROVE  f \in Dashboard'["expired"] \/ f \in Dashboard'["consumed"]
    OBVIOUS
  <2>1. StoreTypeOK /\ StoreTypeOK'
    BY NextTypeOK DEF TypeOK
  <2>2. today \in Int /\ today' \in Int /\ today <= today'
    <3>1. CASE QuietStep
      BY <3>1, TimePasses
    <3>2. ASSUME NEW c \in Clients, RequestStep(c)
          PROVE  today \in Int /\ today' = today
      BY <2>1, <3>2, RequestTables DEF StoreTypeOK
    <3>3. QED
      BY <3>1, <3>2, NextSteps DEF QuietStep
  <2>3. items[f].expiry # NoDate /\ items[f].expiry < today /\ items[f].expiry \in Date
    BY <1>2, <2>1 DEF DashboardShows, Outdated, StoreTypeOK, Table, Exists, FoodRow
  <2>4. items'[f].expiry # NoDate /\ items'[f].expiry < today'
    BY <2>2, <2>3 DEF Date
  <2>5. QED
    BY <1>1, <1>3, <2>4 DEF DashboardShows, Outdated
<1> HIDE DEF Step
<1>5. Spec => [][Step]_vars
  BY InitTypeOK, <1>1, <1>4, PTL DEF Spec
<1>6. QED
  BY <1>5 DEF DashboardOnlyAges, Step
=============================================================================
