--------------------------- MODULE FreshFoodProofs ---------------------------
(***************************************************************************)
(* Theorems of FreshFood, for every set of items, clients and instances,   *)
(* every input and every bound.                                            *)
(***************************************************************************)
EXTENDS FreshFood, TLAPS

(* The calculator returns a status, and a date when it is given dates.     *)
LEMMA FreshnessType ==
    ASSUME NEW status \in Statuses, NEW expiry \in Date, NEW now \in Int
    PROVE  ComputeFreshness(status, expiry, now) \in Statuses
BY DEF ComputeFreshness, Statuses

(* An expiry date is a date or none.                                       *)
LEMMA ExpiryType ==
    ASSUME NEW production \in Date, NEW shelf \in Int, NEW opened \in Date,
           NEW now \in Int
    PROVE  CalculateExpiryDate(production, shelf, opened, now) \in Date
BY NoDateAssumption, OpenedAssumption DEF CalculateExpiryDate, Date

(* What the service computes from rows and inputs are rows again.          *)
LEMMA RefreshedType ==
    ASSUME NEW row \in FoodRow, NEW now \in Int
    PROVE  Refreshed(row, now) \in FoodRow
<1> DEFINE expiry == CalculateExpiryDate(row.production, row.shelf, row.opened, now)
<1>1. expiry \in Date
  BY ExpiryType DEF FoodRow
<1>2. ComputeFreshness(row.status, expiry, now) \in Statuses
  BY <1>1, FreshnessType DEF FoodRow
<1>3. QED
  BY <1>1, <1>2 DEF Refreshed, FoodRow

(* An edited row is a row.                                                 *)
LEMMA EditedType ==
    ASSUME NEW row \in FoodRow, NEW input \in FoodInput
    PROVE  Edited(row, input) \in FoodRow
<1> DEFINE production == IF input.production = NoDate THEN row.production
                                                     ELSE input.production
           shelf == IF input.shelf > 0 THEN input.shelf ELSE row.shelf
           opened == IF input.opened = NoDate THEN row.opened ELSE input.opened
<1>1. production \in Date /\ shelf \in Int /\ opened \in Date
  BY DEF FoodRow, FoodInput
<1>2. input.quantity \in Int
  BY DEF FoodInput
<1>3. Edited(row, input) = [row EXCEPT !.production = production, !.shelf = shelf,
                                       !.quantity = input.quantity, !.opened = opened]
  BY DEF Edited, FoodRow
<1> HIDE DEF production, shelf, opened
<1>4. QED
  BY <1>1, <1>2, <1>3 DEF FoodRow

(* A row less an amount is a row.                                          *)
LEMMA ConsumedType ==
    ASSUME NEW row \in FoodRow, NEW amount \in Nat
    PROVE  Consumed(row, amount) \in FoodRow
<1> DEFINE status == IF row.quantity = amount THEN "consumed" ELSE row.status
<1>1. status \in Statuses /\ row.quantity - amount \in Int
  BY DEF FoodRow, Statuses
<1>2. Consumed(row, amount) = [row EXCEPT !.quantity = row.quantity - amount,
                                          !.status = status]
  BY DEF Consumed, FoodRow
<1> HIDE DEF status
<1>3. QED
  BY <1>1, <1>2 DEF FoodRow

(* A new row is a row, whatever quantity it is given.                      *)
LEMMA NewRowType ==
    ASSUME NEW input \in [quantity: Int, production: Date, shelf: Int, opened: Date],
           NEW now \in Int
    PROVE  NewRow(input, now) \in FoodRow
<1>1. [quantity |-> input.quantity, status |-> "fresh", expiry |-> NoDate,
       production |-> input.production, shelf |-> input.shelf,
       opened |-> input.opened] \in FoodRow
  BY DEF FoodRow, Statuses, Date
<1>2. QED
  BY <1>1, RefreshedType DEF NewRow

(* An imported row is a row.                                               *)
LEMMA CsvFoodType ==
    ASSUME NEW csv \in CsvRow, NEW now \in Int
    PROVE  CsvFood(csv, now) \in FoodRow
BY NewRowType DEF CsvFood, CsvRow, Date
-----------------------------------------------------------------------------

(* The steps of a client's request and of an instance's scan.              *)
RequestStep(c) ==
    \/ BeginImport(c)
    \/ ComputeUpdate(c)
    \/ SaveUpdate(c)
    \/ CommitConsume(c)
    \/ CommitDelete(c)
    \/ EndRequest(c)
    \/ \E f \in FoodIds :
          \/ Create(c, f)
          \/ ImportRow(c, f)
          \/ FindForUpdate(c, f)
          \/ FindForConsume(c, f)
          \/ FindForDelete(c, f)

InstanceStep(s) ==
    \/ AcquireLock(s)
    \/ ListItems(s)
    \/ CommitAlarm(s)
    \/ AlarmRejected(s)
    \/ ListDone(s)
    \/ ScanFails(s)
    \/ FinishScan(s)
    \/ FinishScanLocked(s)
    \/ Crash(s)
    \/ \E f \in FoodIds :
          \/ SkipUnchanged(s, f)
          \/ SkipAnnounced(s, f)
          \/ PrepareAlarm(s, f)
          \/ PrepareUnchecked(s, f)

(* What a fault, a request or a scan step may replace keeps its type.      *)
LEMMA BecomeType ==
    ASSUME ServiceTypeOK, NEW c \in Clients, NEW r \in Request, Become(c, r)
    PROVE  request' \in [Clients -> Request]
BY DEF ServiceTypeOK, Become

(* A scan in a new state.                                                  *)
LEMMA EnterType ==
    ASSUME ReminderTypeOK, NEW s \in Instances, NEW state \in ScanState,
           Enter(s, state)
    PROVE  scan' \in [Instances -> ScanState]
BY DEF ReminderTypeOK, Enter

(* The count of faults.                                                    *)
LEMMA FaultType ==
    ASSUME ReminderTypeOK, Fault
    PROVE  faults' \in Nat
BY DEF ReminderTypeOK, Fault

(* A request in progress has the fields of its operation.                  *)
LEMMA RequestFields ==
    ASSUME ServiceTypeOK, NEW c \in Clients
    PROVE  /\ request[c].op \in {"editing", "saving"} =>
                 /\ request[c].food \in FoodIds
                 /\ request[c].row \in FoodRow
           /\ request[c].op = "consuming" =>
                 /\ request[c].food \in FoodIds
                 /\ request[c].row \in FoodRow
                 /\ request[c].amount \in Nat \ {0}
           /\ request[c].op = "deleting" => request[c].food \in FoodIds
BY DEF ServiceTypeOK, Request, Idle

(* A scan in progress has the fields of its stage.                         *)
LEMMA ScanFields ==
    ASSUME ReminderTypeOK, NEW s \in Instances
    PROVE  /\ scan[s].stage = "scanning" => scan[s].todo \in Table
           /\ scan[s].stage = "alarming" =>
                 /\ scan[s].todo \in Table
                 /\ scan[s].food \in FoodIds
                 /\ scan[s].status \in Statuses
BY DEF ReminderTypeOK, ScanState

(* The seeds and the idle clients and instances are well typed.            *)
THEOREM InitTypeOK == Init => TypeOK
<1> SUFFICES ASSUME Init PROVE TypeOK
  OBVIOUS
<1>1. StoreTypeOK
  BY SeedAssumption DEF Init, StoreInit, StoreTypeOK
<1>2. ServiceTypeOK
  BY SeedAssumption DEF Init, ServiceInit, ServiceTypeOK, Request, Idle, Table, FoodRow
<1>3. ReminderTypeOK
  BY DEF Init, ReminderInit, ReminderTypeOK, ScanState, Waiting
<1>4. QED
  BY <1>1, <1>2, <1>3 DEF TypeOK

(* Steps that leave the tables alone.                                      *)
LEMMA StoreUnchanged ==
    StoreTypeOK /\ UNCHANGED storeVars => StoreTypeOK'
BY DEF StoreTypeOK, storeVars

(* Steps that leave the requests alone.                                    *)
LEMMA ServiceUnchanged ==
    ServiceTypeOK /\ UNCHANGED serviceVars => ServiceTypeOK'
BY DEF ServiceTypeOK, serviceVars

(* Steps that leave the scans alone.                                       *)
LEMMA ReminderUnchanged ==
    ReminderTypeOK /\ UNCHANGED reminderVars => ReminderTypeOK'
BY DEF ReminderTypeOK, reminderVars

(* Creation and import insert a row of the right type.                     *)
LEMMA StoreType ==
    ASSUME StoreTypeOK, ServiceTypeOK, NEW f \in FoodIds, NEW row \in FoodRow,
           Store(f, row), UNCHANGED request
    PROVE  StoreTypeOK' /\ ServiceTypeOK'
<1>1. row.quantity \in Int
  BY DEF FoodRow
<1>2. StoreTypeOK'
  BY DEF StoreTypeOK, Store, Insert, Table
<1>3. ServiceTypeOK'
  BY <1>1 DEF ServiceTypeOK, Store
<1>4. QED
  BY <1>2, <1>3

(* Steps of a request.                                                     *)
LEMMA RequestTypeOK ==
    ASSUME TypeOK, NEW c \in Clients, RequestStep(c)
    PROVE  StoreTypeOK' /\ ServiceTypeOK'
<1> USE DEF TypeOK
<1>0. /\ Idle \in Request
      /\ [op |-> "importing"] \in Request
      /\ today \in Int
  BY DEF Request, Idle, StoreTypeOK
<1>1. CASE BeginImport(c)
  BY <1>0, <1>1, BecomeType, StoreUnchanged DEF BeginImport, ServiceTypeOK
<1>2. CASE ComputeUpdate(c)
  <2>1. request[c].food \in FoodIds /\ request[c].row \in FoodRow
    BY <1>2, RequestFields DEF ComputeUpdate
  <2>2. Refreshed(request[c].row, today) \in FoodRow
    BY <1>0, <2>1, RefreshedType
  <2>3. [op |-> "saving", food |-> request[c].food,
         row |-> Refreshed(request[c].row, today)] \in Request
    BY <2>1, <2>2 DEF Request
  <2>4. QED
    BY <1>2, <2>3, BecomeType, StoreUnchanged DEF ComputeUpdate, ServiceTypeOK
<1>3. CASE SaveUpdate(c)
  <2>1. request[c].food \in FoodIds /\ request[c].row \in FoodRow
    BY <1>3, RequestFields DEF SaveUpdate
  <2>2. request[c].row.quantity \in Int
    BY <2>1 DEF FoodRow
  <2>3. entered' \in [FoodIds -> Int]
    BY <1>3, <2>1, <2>2 DEF SaveUpdate, ServiceTypeOK
  <2>4. request' \in [Clients -> Request]
    BY <1>0, <1>3, BecomeType DEF SaveUpdate
  <2>5. StoreTypeOK'
    BY <1>3, <2>1 DEF SaveUpdate, Save, StoreTypeOK, Table
  <2>6. QED
    BY <2>3, <2>4, <2>5 DEF ServiceTypeOK
<1>4. CASE CommitConsume(c)
  <2>1. /\ request[c].food \in FoodIds
        /\ request[c].row \in FoodRow
        /\ request[c].amount \in Nat
    BY <1>4, RequestFields DEF CommitConsume
  <2>2. request' \in [Clients -> Request]
    BY <1>0, <1>4, BecomeType DEF CommitConsume
  <2>3. items' \in Table
    BY <1>4, <2>1 DEF CommitConsume, Save, StoreTypeOK, Table
  <2>4. recorded' \in [FoodIds -> Nat]
    BY <1>4, <2>1 DEF CommitConsume, CreateRecord, StoreTypeOK
  <2>5. QED
    BY <1>4, <2>2, <2>3, <2>4 DEF CommitConsume, StoreTypeOK, ServiceTypeOK
<1>5. CASE CommitDelete(c)
  <2>1. request[c].food \in FoodIds
    BY <1>5, RequestFields DEF CommitDelete
  <2>2. request' \in [Clients -> Request]
    BY <1>0, <1>5, BecomeType DEF CommitDelete
  <2>3. items' \in Table
    BY <1>5, <2>1 DEF CommitDelete, DeleteRow, StoreTypeOK, Table
  <2>4. QED
    BY <1>5, <2>2, <2>3 DEF CommitDelete, StoreTypeOK, ServiceTypeOK
<1>6. CASE EndRequest(c)
  BY <1>0, <1>6, BecomeType, StoreUnchanged DEF EndRequest, ServiceTypeOK
<1>7. ASSUME NEW f \in FoodIds, Create(c, f)
      PROVE  StoreTypeOK' /\ ServiceTypeOK'
  <2>1. PICK input \in FoodInputs : Store(f, NewRow(input, today))
    BY <1>7 DEF Create
  <2>2. input \in [quantity: Int, production: Date, shelf: Int, opened: Date]
    BY InputsAssumption DEF FoodInput
  <2>3. QED
    BY <1>0, <1>7, <2>1, <2>2, NewRowType, StoreType DEF Create
<1>8. ASSUME NEW f \in FoodIds, ImportRow(c, f)
      PROVE  StoreTypeOK' /\ ServiceTypeOK'
  <2>1. PICK csv \in CsvRows : Store(f, CsvFood(csv, today))
    BY <1>8 DEF ImportRow
  <2>2. QED
    BY <1>0, <1>8, <2>1, CsvAssumption, CsvFoodType, StoreType DEF ImportRow
<1>9. ASSUME NEW f \in FoodIds, FindForUpdate(c, f)
      PROVE  StoreTypeOK' /\ ServiceTypeOK'
  <2>1. PICK input \in FoodInputs :
          Become(c, [op |-> "editing", food |-> f, row |-> Edited(items[f], input)])
    BY <1>9 DEF FindForUpdate
  <2>2. items[f] \in FoodRow
    BY <1>9 DEF FindForUpdate, Exists, StoreTypeOK, Table
  <2>3. Edited(items[f], input) \in FoodRow
    BY <2>2, EditedType, InputsAssumption
  <2>4. [op |-> "editing", food |-> f, row |-> Edited(items[f], input)] \in Request
    BY <2>3 DEF Request
  <2>5. QED
    BY <1>9, <2>1, <2>4, BecomeType, StoreUnchanged DEF FindForUpdate, ServiceTypeOK
<1>10. ASSUME NEW f \in FoodIds, FindForConsume(c, f)
       PROVE  StoreTypeOK' /\ ServiceTypeOK'
  <2>1. PICK amount \in Amounts :
          Become(c, [op |-> "consuming", food |-> f,
                     row |-> Consumed(items[f], amount), amount |-> amount])
    BY <1>10 DEF FindForConsume
  <2>2. items[f] \in FoodRow /\ amount \in Nat \ {0}
    BY <1>10, AmountsAssumption DEF FindForConsume, Exists, StoreTypeOK, Table
  <2>3. Consumed(items[f], amount) \in FoodRow
    BY <2>2, ConsumedType
  <2>4. [op |-> "consuming", food |-> f, row |-> Consumed(items[f], amount),
         amount |-> amount] \in Request
    BY <2>2, <2>3 DEF Request
  <2>5. QED
    BY <1>10, <2>1, <2>4, BecomeType, StoreUnchanged DEF FindForConsume, ServiceTypeOK
<1>11. ASSUME NEW f \in FoodIds, FindForDelete(c, f)
       PROVE  StoreTypeOK' /\ ServiceTypeOK'
  <2>1. [op |-> "deleting", food |-> f] \in Request
    BY DEF Request
  <2>2. QED
    BY <1>11, <2>1, BecomeType, StoreUnchanged DEF FindForDelete, ServiceTypeOK
<1>12. QED
  BY <1>1, <1>2, <1>3, <1>4, <1>5, <1>6, <1>7, <1>8, <1>9, <1>10, <1>11
  DEF RequestStep

(* Steps of a scan.                                                        *)
LEMMA ScanTypeOK ==
    ASSUME TypeOK, NEW s \in Instances, InstanceStep(s)
    PROVE  StoreTypeOK' /\ ReminderTypeOK'
<1> USE DEF TypeOK
<1>0. /\ Waiting \in ScanState
      /\ [stage |-> "locked"] \in ScanState
      /\ [stage |-> "finishing"] \in ScanState
  BY DEF Waiting, ScanState
<1>1. CASE AcquireLock(s)
  BY <1>0, <1>1, EnterType, StoreUnchanged DEF AcquireLock, ReminderTypeOK
<1>2. CASE ListItems(s)
  <2>1. ListByStatus({"fresh", "expiring"}) \in Table
    BY DEF ListByStatus, Table, StoreTypeOK
  <2>2. [stage |-> "scanning", todo |-> ListByStatus({"fresh", "expiring"})] \in ScanState
    BY <2>1 DEF ScanState
  <2>3. QED
    BY <1>2, <2>2, EnterType, StoreUnchanged DEF ListItems, ReminderTypeOK
<1>3. CASE CommitAlarm(s)
  <2>1. /\ scan[s].todo \in Table
        /\ scan[s].food \in FoodIds
        /\ scan[s].status \in Statuses
    BY <1>3, ScanFields DEF CommitAlarm
  <2>2. [stage |-> "scanning", todo |-> scan[s].todo] \in ScanState
    BY <2>1 DEF ScanState
  <2>3. scan' \in [Instances -> ScanState]
    BY <1>3, <2>2, EnterType DEF CommitAlarm
  <2>4. items[scan[s].food] \in FoodRow
    BY <1>3, <2>1 DEF CommitAlarm, Exists, StoreTypeOK, Table
  <2>5. [items[scan[s].food] EXCEPT !.status = scan[s].status] \in FoodRow
    BY <2>1, <2>4 DEF FoodRow
  <2>6. items' = [items EXCEPT ![scan[s].food] =
                    [items[scan[s].food] EXCEPT !.status = scan[s].status]]
    BY <1>3, <2>1 DEF CommitAlarm, UpdateStatus, StoreTypeOK, Table
  <2>7. items' \in Table
    BY <2>1, <2>5, <2>6 DEF StoreTypeOK, Table
  <2>8. notified' \in [FoodIds -> [NotificationTypes -> Nat]]
    BY <1>3, <2>1 DEF CommitAlarm, CreateNotification, StoreTypeOK, NotificationTypes,
                      AlarmType
  <2>9. QED
    BY <1>3, <2>3, <2>7, <2>8 DEF CommitAlarm, StoreTypeOK, ReminderTypeOK
<1>4. CASE AlarmRejected(s)
  BY <1>0, <1>4, EnterType, StoreUnchanged DEF AlarmRejected, ReminderTypeOK
<1>5. CASE ListDone(s)
  BY <1>0, <1>5, EnterType, StoreUnchanged DEF ListDone, ReminderTypeOK
<1>6. CASE ScanFails(s)
  BY <1>0, <1>6, EnterType, FaultType, StoreUnchanged DEF ScanFails, ReminderTypeOK
<1>7. CASE FinishScan(s)
  BY <1>0, <1>7, EnterType, StoreUnchanged DEF FinishScan, ReminderTypeOK
<1>8. CASE FinishScanLocked(s)
  BY <1>0, <1>8, EnterType, FaultType, StoreUnchanged DEF FinishScanLocked, ReminderTypeOK
<1>9. CASE Crash(s)
  BY <1>0, <1>9, EnterType, FaultType, StoreUnchanged DEF Crash, ReminderTypeOK
<1>10. ASSUME NEW f \in FoodIds, Reaches(s, f)
       PROVE  /\ Without(scan[s].todo, f) \in Table
              /\ [scan[s] EXCEPT !.todo = Without(@, f)] \in ScanState
              /\ [stage |-> "alarming", todo |-> Without(scan[s].todo, f),
                  food |-> f, status |-> StatusNow(scan[s].todo[f])] \in ScanState
  <2>1. scan[s].todo \in Table /\ scan[s].todo[f] \in FoodRow
    BY <1>10, ScanFields DEF Reaches, Table
  <2>2. Without(scan[s].todo, f) \in Table
    BY <2>1 DEF Without, Table
  <2>3. scan[s] \in [stage: {"scanning"}, todo: Table]
    BY <1>10 DEF Reaches, ReminderTypeOK, ScanState
  <2>4. [scan[s] EXCEPT !.todo = Without(@, f)] \in ScanState
    BY <2>2, <2>3 DEF ScanState
  <2>5. StatusNow(scan[s].todo[f]) \in Statuses
    BY <2>1, FreshnessType DEF StatusNow, FoodRow, StoreTypeOK
  <2>6. QED
    BY <2>2, <2>4, <2>5 DEF ScanState
<1>11. ASSUME NEW f \in FoodIds, SkipUnchanged(s, f) \/ SkipAnnounced(s, f)
       PROVE  StoreTypeOK' /\ ReminderTypeOK'
  BY <1>10, <1>11, EnterType, StoreUnchanged
  DEF SkipUnchanged, SkipAnnounced, Skip, ReminderTypeOK
<1>12. ASSUME NEW f \in FoodIds, PrepareAlarm(s, f)
       PROVE  StoreTypeOK' /\ ReminderTypeOK'
  BY <1>10, <1>12, EnterType, StoreUnchanged DEF PrepareAlarm, Announce, ReminderTypeOK
<1>13. ASSUME NEW f \in FoodIds, PrepareUnchecked(s, f)
       PROVE  StoreTypeOK' /\ ReminderTypeOK'
  BY <1>10, <1>13, EnterType, FaultType, StoreUnchanged
  DEF PrepareUnchecked, Announce, ReminderTypeOK
<1>14. QED
  BY <1>1, <1>2, <1>3, <1>4, <1>5, <1>6, <1>7, <1>8, <1>9, <1>11, <1>12, <1>13
  DEF InstanceStep

(* Every step is one of a request, of an instance, of Redis, of the        *)
(* calendar, or none.                                                      *)
LEMMA NextSteps ==
    ASSUME [Next]_vars
    PROVE  \/ \E c \in Clients : RequestStep(c) /\ UNCHANGED reminderVars
           \/ \E s \in Instances : InstanceStep(s) /\ UNCHANGED serviceVars
           \/ LockExpires /\ UNCHANGED serviceVars
           \/ Tick /\ UNCHANGED <<serviceVars, reminderVars>>
           \/ UNCHANGED vars
BY DEF Next, RequestStep, InstanceStep

(* Only one request changes at a time.                                     *)
LEMMA RequestChange ==
    ASSUME ServiceTypeOK, NEW c \in Clients, NEW r, Become(c, r), NEW d \in Clients
    PROVE  request'[d] = IF d = c THEN r ELSE request[d]
BY DEF ServiceTypeOK, Become

(* And one scan.                                                           *)
LEMMA ScanChange ==
    ASSUME ReminderTypeOK, NEW s \in Instances, NEW state, Enter(s, state),
           NEW t \in Instances
    PROVE  scan'[t] = IF t = s THEN state ELSE scan[t]
BY DEF ReminderTypeOK, Enter

(* Steps that are not a client's: at most the status of one item changes.  *)
QuietStep ==
    \/ \E s \in Instances : InstanceStep(s) /\ UNCHANGED serviceVars
    \/ LockExpires /\ UNCHANGED serviceVars
    \/ Tick /\ UNCHANGED <<serviceVars, reminderVars>>
    \/ UNCHANGED vars

LEMMA QuietTables ==
    ASSUME QuietStep
    PROVE  /\ UNCHANGED <<allocated, recorded, request, entered>>
           /\ \/ UNCHANGED <<items, notified>>
              \/ \E s \in Instances :
                    /\ scan[s].stage = "alarming"
                    /\ items[scan[s].food] # NoRow
                    /\ items' = [items EXCEPT ![scan[s].food].status = scan[s].status]
                    /\ CreateNotification(scan[s].food, AlarmType(scan[s].status))
<1>1. ASSUME NEW s \in Instances, InstanceStep(s), UNCHANGED serviceVars
      PROVE  /\ UNCHANGED <<allocated, recorded, request, entered>>
             /\ UNCHANGED <<items, notified>> \/ CommitAlarm(s)
  BY <1>1 DEF InstanceStep, AcquireLock, ListItems, CommitAlarm, AlarmRejected, ListDone,
     ScanFails, FinishScan, FinishScanLocked, Crash, SkipUnchanged, SkipAnnounced, Skip,
     PrepareAlarm, PrepareUnchecked, storeVars, serviceVars
<1>2. CASE LockExpires /\ UNCHANGED serviceVars
  BY <1>2 DEF LockExpires, storeVars, serviceVars
<1>3. CASE Tick /\ UNCHANGED <<serviceVars, reminderVars>>
  BY <1>3 DEF Tick, serviceVars
<1>4. CASE UNCHANGED vars
  BY <1>4 DEF vars, storeVars, serviceVars
<1>5. QED
  BY <1>1, <1>2, <1>3, <1>4 DEF QuietStep, CommitAlarm, Exists, UpdateStatus

(* Steps of a client: a row is written, consumed or deleted, or the tables *)
(* stay as they are.                                                       *)
LEMMA RequestTables ==
    ASSUME TypeOK, NEW c \in Clients, RequestStep(c)
    PROVE  /\ UNCHANGED <<notified, today>>
           /\ \/ UNCHANGED <<items, recorded>>
              \/ /\ \E f \in FoodIds, row \in FoodRow : items' = [items EXCEPT ![f] = row]
                 /\ UNCHANGED recorded
              \/ CommitConsume(c)
              \/ CommitDelete(c)
<1> USE DEF TypeOK
<1>1. CASE BeginImport(c) \/ ComputeUpdate(c) \/ EndRequest(c)
  BY <1>1 DEF BeginImport, ComputeUpdate, EndRequest, storeVars
<1>2. CASE SaveUpdate(c)
  <2>1. request[c].food \in FoodIds /\ request[c].row \in FoodRow
    BY <1>2, RequestFields DEF SaveUpdate
  <2>2. QED
    BY <1>2, <2>1 DEF SaveUpdate, Save
<1>3. CASE CommitConsume(c) \/ CommitDelete(c)
  BY <1>3 DEF CommitConsume, CommitDelete
<1>4. ASSUME NEW f \in FoodIds, Create(c, f) \/ ImportRow(c, f)
      PROVE  /\ UNCHANGED <<notified, today, recorded>>
             /\ \E row \in FoodRow : items' = [items EXCEPT ![f] = row]
  <2>1. today \in Int
    BY DEF StoreTypeOK
  <2>2. \A input \in FoodInputs : NewRow(input, today) \in FoodRow
    <3>1. \A input \in FoodInputs :
              input \in [quantity: Int, production: Date, shelf: Int, opened: Date]
      BY InputsAssumption DEF FoodInput
    <3>2. QED
      BY <2>1, <3>1, NewRowType
  <2>3. \A csv \in CsvRows : CsvFood(csv, today) \in FoodRow
    BY <2>1, CsvAssumption, CsvFoodType
  <2>4. QED
    BY <1>4, <2>2, <2>3 DEF Create, ImportRow, Store, Insert
<1>5. ASSUME NEW f \in FoodIds,
             FindForUpdate(c, f) \/ FindForConsume(c, f) \/ FindForDelete(c, f)
      PROVE  UNCHANGED <<notified, today, items, recorded>>
  BY <1>5 DEF FindForUpdate, FindForConsume, FindForDelete, storeVars
<1>6. QED
  BY <1>1, <1>2, <1>3, <1>4, <1>5 DEF RequestStep

(* No step breaks a type.                                                  *)
LEMMA NextTypeOK == TypeOK /\ [Next]_vars => TypeOK'
<1> SUFFICES ASSUME TypeOK, [Next]_vars PROVE TypeOK'
  OBVIOUS
<1> USE DEF TypeOK
<1>1. ASSUME NEW c \in Clients, RequestStep(c), UNCHANGED reminderVars
      PROVE  TypeOK'
  BY <1>1, RequestTypeOK, ReminderUnchanged
<1>2. ASSUME NEW s \in Instances, InstanceStep(s), UNCHANGED serviceVars
      PROVE  TypeOK'
  BY <1>2, ScanTypeOK, ServiceUnchanged
<1>3. CASE LockExpires /\ UNCHANGED serviceVars
  BY <1>3, StoreUnchanged, ServiceUnchanged DEF LockExpires, ReminderTypeOK
<1>4. CASE Tick /\ UNCHANGED <<serviceVars, reminderVars>>
  BY <1>4, ServiceUnchanged, ReminderUnchanged DEF Tick, StoreTypeOK
<1>5. CASE UNCHANGED vars
  BY <1>5, StoreUnchanged, ServiceUnchanged, ReminderUnchanged DEF vars
<1>6. QED
  BY <1>1, <1>2, <1>3, <1>4, <1>5, NextSteps

(* The tables, the requests and the scans keep their types.                *)
THEOREM TypeCorrect == Spec => []TypeOK
BY InitTypeOK, NextTypeOK, PTL DEF Spec
=============================================================================
