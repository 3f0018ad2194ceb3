----------------------------- MODULE AlarmProofs -----------------------------
(***************************************************************************)
(* Theorems about the scans of FreshFood: the lock that keeps them apart,  *)
(* and the check and the commit of an alarm that rely on it.               *)
(***************************************************************************)
EXTENDS FreshFoodProofs, FiniteSetTheorems

Scanning(s) == scan[s] # Waiting

(* Who scans holds the lock, and the lock has one holder.                  *)
LockInv ==
    /\ TypeOK
    /\ \A s \in Instances : Scanning(s) => lock
    /\ OneScanAtATime

(* A step of an instance starts its scan, goes on with it or ends it, and  *)
(* leaves the others alone.                                                *)
LEMMA InstanceScan ==
    ASSUME TypeOK, NEW s \in Instances, InstanceStep(s)
    PROVE  /\ \A t \in Instances \ {s} : scan'[t] = scan[t]
           /\ \/ Scanning(s) /\ (lock' = lock)
              \/ ~Scanning(s) /\ ~lock /\ lock'
              \/ Scanning(s) /\ ~Scanning(s)'
<1> USE DEF TypeOK
<1>1. \A state : Enter(s, state) =>
          /\ scan'[s] = state
          /\ \A t \in Instances \ {s} : scan'[t] = scan[t]
  BY ScanChange
<1>2. \E state : Enter(s, state)
  BY DEF InstanceStep, AcquireLock, ListItems, CommitAlarm, AlarmRejected, ListDone,
     ScanFails, FinishScan, FinishScanLocked, Crash, SkipUnchanged, SkipAnnounced, Skip,
     PrepareAlarm, PrepareUnchecked, Announce
<1>3. CASE AcquireLock(s)
  BY <1>1, <1>3 DEF AcquireLock, Scanning
<1>4. CASE FinishScan(s)
  BY <1>1, <1>4 DEF FinishScan, Scanning, Waiting
<1>5. CASE \/ ListItems(s) \/ CommitAlarm(s) \/ AlarmRejected(s) \/ ListDone(s)
           \/ ScanFails(s) \/ FinishScanLocked(s) \/ Crash(s)
  <2>1. lock' = lock
    BY <1>5 DEF ListItems, CommitAlarm, AlarmRejected, ListDone, ScanFails,
       FinishScanLocked, Crash
  <2>2. scan[s].stage # "waiting" \/ scan[s] # Waiting
    BY <1>5 DEF ListItems, CommitAlarm, AlarmRejected, ListDone, ScanFails,
       FinishScanLocked, Crash
  <2>3. QED
    BY <1>1, <1>2, <2>1, <2>2 DEF Scanning, Waiting
<1>6. ASSUME NEW f \in FoodIds,
             \/ SkipUnchanged(s, f)
             \/ SkipAnnounced(s, f)
             \/ PrepareAlarm(s, f)
             \/ PrepareUnchecked(s, f)
      PROVE  Scanning(s) /\ (lock' = lock)
  BY <1>6
  DEF SkipUnchanged, SkipAnnounced, Skip, PrepareAlarm, PrepareUnchecked, Reaches,
      Scanning, Waiting
<1>7. QED
  BY <1>1, <1>2, <1>3, <1>4, <1>5, <1>6 DEF InstanceStep

(* No step lets a second scan in.                                          *)
LEMMA LockNext ==
    ASSUME ~SlowScans, LockInv, [Next]_vars
    PROVE  LockInv'
<1>1. TypeOK'
  BY NextTypeOK DEF LockInv
<1>2. ASSUME NEW s \in Instances, InstanceStep(s)
      PROVE  LockInv'
  <2>1. /\ \A t \in Instances \ {s} : scan'[t] = scan[t]
        /\ \/ Scanning(s) /\ (lock' = lock)
           \/ ~Scanning(s) /\ ~lock /\ lock'
           \/ Scanning(s) /\ ~Scanning(s)'
    BY <1>2, InstanceScan DEF LockInv
  <2>2. QED
    BY <1>1, <2>1 DEF LockInv, OneScanAtATime, Scanning
<1>3. CASE LockExpires
  BY <1>1, <1>3 DEF LockExpires, LockInv, OneScanAtATime, Scanning
<1>4. CASE UNCHANGED <<lock, scan>>
  BY <1>1, <1>4 DEF LockInv, OneScanAtATime, Scanning
<1>5. QED
  BY <1>2, <1>3, <1>4, NextSteps DEF reminderVars, vars

(* As long as no scan outlives its lock, two instances never scan at the   *)
(* same time, whoever crashes or leaves the lock behind.                   *)
THEOREM OneScanner ==
    ASSUME ~SlowScans
    PROVE  Spec => []OneScanAtATime
<1>1. Init => LockInv
  BY InitTypeOK DEF Init, ReminderInit, LockInv, OneScanAtATime, Scanning, Waiting
<1>2. LockInv /\ [Next]_vars => LockInv'
  BY LockNext
<1>3. LockInv => OneScanAtATime
  BY DEF LockInv
<1>4. QED
  BY <1>1, <1>2, <1>3, PTL DEF Spec
-----------------------------------------------------------------------------
(* Alarms.                                                                 *)

(* Seeds announce nothing twice.                                           *)
SeedsAnnouncedOnce ==
    \A f \in FoodIds, t \in NotificationTypes : SeedNotified[f][t] <= 1

(* The alarm a scan is about to raise has not been raised.                 *)
PendingAlarmNew ==
    \A s \in Instances :
        scan[s].stage = "alarming" =>
            notified[scan[s].food][AlarmType(scan[s].status)] = 0

AlarmInv == LockInv /\ PendingAlarmNew /\ AlarmedOnce

(* Every alarm is of one of the two types.                                 *)
LEMMA AlarmTypes ==
    ASSUME NEW status
    PROVE  AlarmType(status) \in NotificationTypes
BY DEF AlarmType, NotificationTypes

(* A scan that finds no alarm of this type prepares one.                   *)
LEMMA PendingPrepared ==
    ASSUME AlarmInv, NEW s \in Instances, NEW f \in FoodIds, PrepareAlarm(s, f)
    PROVE  PendingAlarmNew'
<1> USE DEF AlarmInv, LockInv, TypeOK
<1>1. PICK status :
          /\ status = StatusNow(scan[s].todo[f])
          /\ ~HasForFoodAndType(f, AlarmType(status))
  BY DEF PrepareAlarm
<1>2. notified[f][AlarmType(status)] = 0
  BY <1>1, AlarmTypes DEF HasForFoodAndType, StoreTypeOK
<1>3. \A t \in Instances :
          scan'[t] = IF t = s THEN [stage |-> "alarming",
                                    todo |-> Without(scan[s].todo, f),
                                    food |-> f, status |-> status]
                              ELSE scan[t]
  BY <1>1, ScanChange DEF PrepareAlarm, Announce
<1>4. notified' = notified
  BY DEF PrepareAlarm, storeVars
<1>5. QED
  BY <1>2, <1>3, <1>4 DEF PendingAlarmNew

(* The commit of an alarm raises it for the first time, and no other scan  *)
(* is about to raise one.                                                  *)
LEMMA AlarmCommitted ==
    ASSUME AlarmInv, NEW s \in Instances, CommitAlarm(s)
    PROVE  PendingAlarmNew' /\ AlarmedOnce'
<1> USE DEF AlarmInv, LockInv, TypeOK
<1>1. PICK f, type :
          /\ f = scan[s].food
          /\ type = AlarmType(scan[s].status)
  OBVIOUS
<1>2. f \in FoodIds /\ type \in NotificationTypes
  BY <1>1, ScanFields, AlarmTypes DEF CommitAlarm
<1>3. notified[f][type] = 0
  BY <1>1 DEF CommitAlarm, PendingAlarmNew
<1>4. notified' = [notified EXCEPT ![f][type] = @ + 1]
  BY <1>1 DEF CommitAlarm, CreateNotification
<1>5. \A g \in FoodIds, u \in NotificationTypes :
          notified'[g][u] = IF g = f /\ u = type THEN 1 ELSE notified[g][u]
  BY <1>2, <1>3, <1>4 DEF StoreTypeOK
<1>6. AlarmedOnce'
  BY <1>5 DEF AlarmedOnce
<1>7. \A t \in Instances : scan'[t] = IF t = s THEN [stage |-> "scanning",
                                                     todo |-> scan[s].todo]
                                               ELSE scan[t]
  BY ScanChange DEF CommitAlarm
<1>8. \A t \in Instances : scan[t].stage = "alarming" => t = s
  BY DEF CommitAlarm, OneScanAtATime, Waiting
<1>9. PendingAlarmNew'
  BY <1>7, <1>8 DEF PendingAlarmNew
<1>10. QED
  BY <1>6, <1>9

(* Other steps of an instance raise nothing and prepare nothing.           *)
LEMMA OtherSteps ==
    ASSUME TypeOK, NEW s \in Instances, InstanceStep(s), ~CommitAlarm(s),
           \A f \in FoodIds : ~PrepareAlarm(s, f) /\ ~PrepareUnchecked(s, f)
    PROVE  /\ notified' = notified
           /\ faults' \in {faults, faults + 1}
           /\ \E state : Enter(s, state) /\ state.stage # "alarming"
<1> USE DEF TypeOK
<1>1. notified' = notified /\ faults' \in {faults, faults + 1}
  BY DEF InstanceStep, AcquireLock, ListItems, AlarmRejected, ListDone, ScanFails,
     FinishScan, FinishScanLocked, Crash, SkipUnchanged, SkipAnnounced, Skip,
     Fault, storeVars
<1>2. CASE AcquireLock(s)
  BY <1>1, <1>2 DEF AcquireLock
<1>3. CASE ListItems(s)
  BY <1>1, <1>3 DEF ListItems
<1>4. CASE AlarmRejected(s) \/ ListDone(s) \/ ScanFails(s)
  BY <1>1, <1>4 DEF AlarmRejected, ListDone, ScanFails
<1>5. CASE FinishScan(s) \/ FinishScanLocked(s) \/ Crash(s)
  BY <1>1, <1>5 DEF FinishScan, FinishScanLocked, Crash, Waiting
<1>6. ASSUME NEW f \in FoodIds, SkipUnchanged(s, f) \/ SkipAnnounced(s, f)
      PROVE  \E state : Enter(s, state) /\ state.stage # "alarming"
  <2>1. scan[s].stage = "scanning" /\ Skip(s, f)
    BY <1>6 DEF SkipUnchanged, SkipAnnounced, Reaches
  <2>2. PICK state : /\ state = [scan[s] EXCEPT !.todo = Without(scan[s].todo, f)]
                     /\ Enter(s, state)
    BY <2>1 DEF Skip
  <2>3. state.stage = "scanning"
    <3>1. scan[s] \in [stage: {"scanning"}, todo: Table]
      BY <2>1 DEF ReminderTypeOK, ScanState
    <3>2. QED
      BY <2>2, <3>1
  <2>4. QED
    BY <2>2, <2>3
<1>7. QED
  BY <1>1, <1>2, <1>3, <1>4, <1>5, <1>6 DEF InstanceStep

(* So what is pending stays new.                                           *)
LEMMA AlarmOther ==
    ASSUME AlarmInv, ~ReadErrors, NEW s \in Instances, InstanceStep(s),
           ~CommitAlarm(s), \A f \in FoodIds : ~PrepareAlarm(s, f)
    PROVE  PendingAlarmNew' /\ AlarmedOnce'
<1> USE DEF AlarmInv, LockInv, TypeOK
<1>1. PICK state : Enter(s, state) /\ state.stage # "alarming"
  BY OtherSteps DEF PrepareUnchecked
<1>2. notified' = notified
  BY OtherSteps DEF PrepareUnchecked
<1>3. \A t \in Instances : scan'[t] = IF t = s THEN state ELSE scan[t]
  BY <1>1, ScanChange
<1>4. QED
  BY <1>1, <1>2, <1>3 DEF PendingAlarmNew, AlarmedOnce

(* Nobody is told twice the same thing about an item: the check for an     *)
(* earlier alarm and the commit of the new one are two steps, and it is    *)
(* the lock that keeps them together.                                      *)
THEOREM AlarmedAtMostOnce ==
    ASSUME ~SlowScans, ~ReadErrors, SeedsAnnouncedOnce
    PROVE  Spec => []AlarmedOnce
<1>1. Init => AlarmInv
  <2> SUFFICES ASSUME Init PROVE AlarmInv
    OBVIOUS
  <2>1. LockInv
    BY InitTypeOK DEF Init, ReminderInit, LockInv, OneScanAtATime, Scanning, Waiting
  <2>2. QED
    BY <2>1 DEF SeedsAnnouncedOnce, Init, StoreInit, ReminderInit, AlarmInv,
                PendingAlarmNew, AlarmedOnce, Waiting
<1>2. AlarmInv /\ [Next]_vars => AlarmInv'
  <2> SUFFICES ASSUME AlarmInv, [Next]_vars PROVE AlarmInv'
    OBVIOUS
  <2>1. LockInv'
    BY LockNext DEF AlarmInv
  <2>2. ASSUME NEW s \in Instances, InstanceStep(s)
        PROVE  PendingAlarmNew' /\ AlarmedOnce'
    <3>1. ASSUME NEW f \in FoodIds, PrepareAlarm(s, f)
          PROVE  AlarmedOnce'
      BY <3>1 DEF PrepareAlarm, storeVars, AlarmInv, AlarmedOnce
    <3>2. QED
      BY <2>2, <3>1, PendingPrepared, AlarmCommitted, AlarmOther
  <2>3. CASE UNCHANGED <<notified, scan>>
    BY <2>1, <2>3 DEF AlarmInv, PendingAlarmNew, AlarmedOnce
  <2>4. ASSUME NEW c \in Clients, RequestStep(c), UNCHANGED reminderVars
        PROVE  UNCHANGED <<notified, scan>>
    BY <2>4, RequestTables DEF AlarmInv, LockInv, reminderVars
  <2>5. QED
    BY <2>1, <2>2, <2>3, <2>4, NextSteps
    DEF AlarmInv, LockExpires, Tick, storeVars, reminderVars, vars
<1>3. AlarmInv => AlarmedOnce
  BY DEF AlarmInv
<1>4. QED
  BY <1>1, <1>2, <1>3, PTL DEF Spec
-----------------------------------------------------------------------------
(* Repeated alarms.                                                        *)

(* Some instances, and not infinitely many.                                *)
SomeInstances == IsFiniteSet(Instances) /\ Instances # {}

(* The scans about to raise this alarm.                                    *)
Pending(f, type) ==
    {s \in Instances :
        /\ scan[s].stage = "alarming"
        /\ scan[s].food = f
        /\ AlarmType(scan[s].status) = type}

(* What was raised and what is about to be stay within the bound.          *)
AlarmsWithin(f, type) ==
    notified[f][type] + Cardinality(Pending(f, type)) <= Scanners + faults

BoundInv ==
    /\ TypeOK
    /\ ~SlowScans => LockInv
    /\ \A f \in FoodIds, type \in NotificationTypes : AlarmsWithin(f, type)

(* A set of scans that the lock keeps apart where it does.                 *)
LEMMA Crowd ==
    ASSUME SomeInstances, NEW P \in SUBSET Instances,
           ~SlowScans => \A s, t \in P : s = t
    PROVE  Cardinality(P) <= Scanners
<1>1. CASE SlowScans
  BY <1>1, FS_Subset DEF SomeInstances, Scanners
<1>2. CASE ~SlowScans
  <2>1. CASE P = {}
    BY <1>2, <2>1, FS_EmptySet DEF Scanners
  <2>2. CASE P # {}
    <3>1. PICK s : P = {s}
      BY <1>2, <2>2
    <3>2. QED
      BY <1>2, <3>1, FS_Singleton DEF Scanners
  <2>3. QED
    BY <2>1, <2>2
<1>3. QED
  BY <1>1, <1>2

(* There is room for an alarm to begin with.                               *)
LEMMA ScannersType ==
    ASSUME SomeInstances
    PROVE  Scanners \in Nat \ {0}
BY FS_CardinalityType, FS_EmptySet DEF SomeInstances, Scanners

(* Pending alarms can be counted, and fewer count for less.                *)
LEMMA PendingCount ==
    ASSUME SomeInstances, NEW P \in SUBSET Instances
    PROVE  /\ Cardinality(P) \in Nat
           /\ \A Q \in SUBSET P : Cardinality(Q) \in Nat /\ Cardinality(Q) <= Cardinality(P)
           /\ \A s : Cardinality(P \cup {s}) \in Nat /\ Cardinality(P \cup {s}) <= Cardinality(P) + 1
           /\ \A s \in P : Cardinality(P \ {s}) = Cardinality(P) - 1
<1>1. IsFiniteSet(P)
  BY FS_Subset DEF SomeInstances
<1>2. Cardinality(P) \in Nat
  BY <1>1, FS_CardinalityType
<1>3. \A Q \in SUBSET P : Cardinality(Q) \in Nat /\ Cardinality(Q) <= Cardinality(P)
  BY <1>1, FS_Subset, FS_CardinalityType
<1>4. \A s : Cardinality(P \cup {s}) \in Nat /\ Cardinality(P \cup {s}) <= Cardinality(P) + 1
  BY <1>1, <1>2, FS_AddElement
<1>5. \A s \in P : Cardinality(P \ {s}) = Cardinality(P) - 1
  BY <1>1, FS_RemoveElement
<1>6. QED
  BY <1>2, <1>3, <1>4, <1>5

(* A step of a scan adds its alarm to those pending, or takes it away.     *)
LEMMA PendingChange ==
    ASSUME TypeOK, NEW s \in Instances, NEW state, Enter(s, state),
           NEW f, NEW type
    PROVE  Pending(f, type)' =
               IF state.stage = "alarming" /\ state.food = f /\ AlarmType(state.status) = type
               THEN Pending(f, type) \cup {s}
               ELSE Pending(f, type) \ {s}
<1>1. \A t \in Instances : scan'[t] = IF t = s THEN state ELSE scan[t]
  BY ScanChange DEF TypeOK
<1>2. QED
  BY <1>1 DEF Pending

(* Steps that raise nothing and add nothing to what is pending.            *)
LEMMA NothingPrepared ==
    ASSUME SomeInstances, BoundInv, NEW f \in FoodIds, NEW type \in NotificationTypes,
           notified' = notified, faults' \in Nat, faults' >= faults,
           Pending(f, type)' \subseteq Pending(f, type)
    PROVE  AlarmsWithin(f, type)'
<1>1. /\ Cardinality(Pending(f, type)) \in Nat
      /\ Cardinality(Pending(f, type)') \in Nat
      /\ Cardinality(Pending(f, type)') <= Cardinality(Pending(f, type))
  <2>1. Pending(f, type) \in SUBSET Instances
    BY DEF Pending
  <2>2. QED
    BY <2>1, PendingCount
<1>2. AlarmsWithin(f, type) /\ notified[f][type] \in Nat /\ faults \in Nat
  BY DEF BoundInv, TypeOK, StoreTypeOK, ReminderTypeOK
<1>3. Cardinality(Pending(f, type))' = Cardinality(Pending(f, type)')
  OBVIOUS
<1>4. Scanners \in Nat /\ Scanners' = Scanners
  BY ScannersType DEF Scanners
<1>5. QED
  BY <1>1, <1>2, <1>3, <1>4 DEF AlarmsWithin

(* A scan that found no such alarm shares the bound with the scans that    *)
(* are about to raise it too.                                              *)
LEMMA WithinPrepared ==
    ASSUME SomeInstances, BoundInv, TypeOK', ~SlowScans => LockInv',
           NEW s \in Instances, NEW g \in FoodIds, PrepareAlarm(s, g),
           NEW f \in FoodIds, NEW type \in NotificationTypes
    PROVE  AlarmsWithin(f, type)'
<1> USE DEF BoundInv, TypeOK
<1>1. PICK status :
          /\ ~HasForFoodAndType(g, AlarmType(status))
          /\ Enter(s, [stage |-> "alarming", todo |-> Without(scan[s].todo, g),
                       food |-> g, status |-> status])
  BY DEF PrepareAlarm, Announce
<1>2. UNCHANGED <<notified, faults>>
  BY DEF PrepareAlarm, storeVars
<1>3. notified[f][type] \in Nat /\ faults \in Nat
  BY DEF StoreTypeOK, ReminderTypeOK
<1>4. CASE f = g /\ type = AlarmType(status)
  <2>1. notified'[f][type] = 0
    BY <1>1, <1>2, <1>3, <1>4 DEF HasForFoodAndType
  <2>2. Pending(f, type)' \in SUBSET Instances
    BY DEF Pending
  <2>3. ~SlowScans => \A t, u \in Pending(f, type)' : t = u
    BY DEF LockInv, OneScanAtATime, Pending, Waiting
  <2>4. Cardinality(Pending(f, type)') <= Scanners
    BY <2>2, <2>3, Crowd
  <2>5. Cardinality(Pending(f, type)') \in Nat /\ Scanners \in Nat /\ Scanners' = Scanners
    BY <2>2, PendingCount, ScannersType DEF Scanners
  <2>6. QED
    BY <1>2, <1>3, <2>1, <2>4, <2>5 DEF AlarmsWithin
<1>5. CASE ~(f = g /\ type = AlarmType(status))
  <2>1. Pending(f, type)' \subseteq Pending(f, type)
    BY <1>1, <1>5, PendingChange
  <2>2. faults' \in Nat /\ faults' >= faults
    BY <1>2, <1>3
  <2>3. QED
    BY <1>2, <2>1, <2>2, NothingPrepared
<1>6. QED
  BY <1>4, <1>5

(* A failing query costs a fault for the alarm it lets through.            *)
LEMMA WithinUnchecked ==
    ASSUME SomeInstances, BoundInv,
           NEW s \in Instances, NEW g \in FoodIds, PrepareUnchecked(s, g),
           NEW f \in FoodIds, NEW type \in NotificationTypes
    PROVE  AlarmsWithin(f, type)'
<1> USE DEF BoundInv, TypeOK
<1>1. PICK state : Enter(s, state)
  BY DEF PrepareUnchecked, Announce
<1>2. notified' = notified /\ faults' = faults + 1
  BY DEF PrepareUnchecked, Fault, storeVars
<1>3. Pending(f, type)' \subseteq Pending(f, type) \cup {s}
  BY <1>1, PendingChange
<1>4. Pending(f, type) \in SUBSET Instances /\ Pending(f, type) \cup {s} \in SUBSET Instances
  BY DEF Pending
<1>5. /\ Cardinality(Pending(f, type)) \in Nat
      /\ Cardinality(Pending(f, type)') \in Nat
      /\ Cardinality(Pending(f, type)') <= Cardinality(Pending(f, type)) + 1
  <2>1. /\ Cardinality(Pending(f, type)) \in Nat
        /\ Cardinality(Pending(f, type) \cup {s}) \in Nat
        /\ Cardinality(Pending(f, type) \cup {s}) <= Cardinality(Pending(f, type)) + 1
    BY <1>4, PendingCount
  <2>2. /\ Cardinality(Pending(f, type)') \in Nat
        /\ Cardinality(Pending(f, type)') <= Cardinality(Pending(f, type) \cup {s})
    BY <1>3, <1>4, PendingCount
  <2>3. QED
    BY <2>1, <2>2
<1>6. AlarmsWithin(f, type) /\ notified[f][type] \in Nat /\ faults \in Nat
  BY DEF StoreTypeOK, ReminderTypeOK
<1>7. Scanners \in Nat /\ Scanners' = Scanners
  BY ScannersType DEF Scanners
<1>8. QED
  BY <1>2, <1>5, <1>6, <1>7 DEF AlarmsWithin

(* An alarm that is raised is pending no more.                             *)
LEMMA WithinCommitted ==
    ASSUME SomeInstances, BoundInv, NEW s \in Instances, CommitAlarm(s),
           NEW f \in FoodIds, NEW type \in NotificationTypes
    PROVE  AlarmsWithin(f, type)'
<1> USE DEF BoundInv, TypeOK
<1>1. /\ scan[s].stage = "alarming"
      /\ scan[s].food \in FoodIds
      /\ AlarmType(scan[s].status) \in NotificationTypes
  BY ScanFields, AlarmTypes DEF CommitAlarm
<1>2. Pending(f, type)' = Pending(f, type) \ {s}
  BY PendingChange DEF CommitAlarm
<1>3. /\ notified' = [notified EXCEPT ![scan[s].food][AlarmType(scan[s].status)] = @ + 1]
      /\ faults' = faults
  BY DEF CommitAlarm, CreateNotification
<1>4. AlarmsWithin(f, type) /\ notified[f][type] \in Nat /\ faults \in Nat
  BY DEF StoreTypeOK, ReminderTypeOK
<1>5. Pending(f, type) \in SUBSET Instances /\ Cardinality(Pending(f, type)) \in Nat
  <2>1. Pending(f, type) \in SUBSET Instances
    BY DEF Pending
  <2>2. QED
    BY <2>1, PendingCount
<1>6. Scanners \in Nat /\ Scanners' = Scanners
  BY ScannersType DEF Scanners
<1>7. CASE s \in Pending(f, type)
  <2>1. notified'[f][type] = notified[f][type] + 1
    BY <1>1, <1>3, <1>7 DEF Pending, StoreTypeOK
  <2>2. Cardinality(Pending(f, type)') = Cardinality(Pending(f, type)) - 1
    BY <1>2, <1>5, <1>7, PendingCount
  <2>3. QED
    BY <1>3, <1>4, <1>5, <1>6, <2>1, <2>2 DEF AlarmsWithin
<1>8. CASE s \notin Pending(f, type)
  <2>1. ~(f = scan[s].food /\ type = AlarmType(scan[s].status))
    BY <1>1, <1>8 DEF Pending
  <2>2. notified'[f][type] = notified[f][type]
    BY <1>1, <1>3, <2>1 DEF StoreTypeOK
  <2>3. Pending(f, type)' = Pending(f, type)
    BY <1>2, <1>8
  <2>4. QED
    BY <1>3, <1>4, <1>5, <1>6, <2>2, <2>3 DEF AlarmsWithin
<1>9. QED
  BY <1>7, <1>8

(* However scans overlap and whatever queries fail, people are told of the *)
(* same thing at most once by every scan that may overlap with others, and *)
(* once for every failure.                                                 *)
THEOREM RepeatsAreBounded ==
    ASSUME SomeInstances, SeedsAnnouncedOnce
    PROVE  Spec => []RepeatsBounded
<1>1. Init => BoundInv
  <2> SUFFICES ASSUME Init PROVE BoundInv
    OBVIOUS
  <2>1. TypeOK
    BY InitTypeOK
  <2>2. LockInv
    BY <2>1 DEF Init, ReminderInit, LockInv, OneScanAtATime, Scanning, Waiting
  <2>3. ASSUME NEW f \in FoodIds, NEW type \in NotificationTypes
        PROVE  AlarmsWithin(f, type)
    <3>1. Pending(f, type) = {}
      BY DEF Init, ReminderInit, Pending, Waiting
    <3>2. notified[f][type] \in Nat /\ notified[f][type] <= 1 /\ faults = 0
      BY <2>1 DEF SeedsAnnouncedOnce, Init, StoreInit, ReminderInit, TypeOK, StoreTypeOK
    <3>3. Cardinality(Pending(f, type)) = 0
      BY <3>1, FS_EmptySet
    <3>4. QED
      BY <3>2, <3>3, ScannersType DEF AlarmsWithin
  <2>4. QED
    BY <2>1, <2>2, <2>3 DEF BoundInv
<1>2. BoundInv /\ [Next]_vars => BoundInv'
  <2> SUFFICES ASSUME BoundInv, [Next]_vars PROVE BoundInv'
    OBVIOUS
  <2>1. TypeOK' /\ (~SlowScans => LockInv')
    BY NextTypeOK, LockNext DEF BoundInv
  <2>2. ASSUME NEW f \in FoodIds, NEW type \in NotificationTypes
        PROVE  AlarmsWithin(f, type)'
    <3>1. faults \in Nat
      BY DEF BoundInv, TypeOK, ReminderTypeOK
    <3>2. ASSUME NEW s \in Instances, InstanceStep(s), ~CommitAlarm(s),
                 \A g \in FoodIds : ~PrepareAlarm(s, g) /\ ~PrepareUnchecked(s, g)
          PROVE  AlarmsWithin(f, type)'
      <4>1. PICK state : Enter(s, state) /\ state.stage # "alarming"
        BY <3>2, OtherSteps DEF BoundInv
      <4>2. Pending(f, type)' \subseteq Pending(f, type)
        BY <4>1, PendingChange DEF BoundInv
      <4>3. notified' = notified /\ faults' \in {faults, faults + 1}
        BY <3>2, OtherSteps DEF BoundInv
      <4>4. faults' \in Nat /\ faults' >= faults
        BY <3>1, <4>3
      <4>5. QED
        BY <4>2, <4>3, <4>4, NothingPrepared
    <3>3. CASE UNCHANGED <<notified, scan, faults>>
      <4>1. Pending(f, type)' = Pending(f, type)
        BY <3>3 DEF Pending
      <4>2. QED
        BY <3>1, <3>3, <4>1, NothingPrepared
    <3>4. ASSUME NEW c \in Clients, RequestStep(c), UNCHANGED reminderVars
          PROVE  UNCHANGED <<notified, scan, faults>>
      BY <3>4, RequestTables DEF BoundInv, reminderVars
    <3>5. ASSUME NEW s \in Instances, InstanceStep(s)
          PROVE  AlarmsWithin(f, type)'
      <4>1. ASSUME NEW g \in FoodIds, PrepareAlarm(s, g)
            PROVE  AlarmsWithin(f, type)'
        BY <2>1, <4>1, WithinPrepared
      <4>2. QED
        BY <3>2, <3>5, <4>1, WithinUnchecked, WithinCommitted
    <3>6. QED
      BY <3>3, <3>4, <3>5, NextSteps DEF LockExpires, Tick, storeVars, reminderVars, vars
  <2>3. QED
    BY <2>1, <2>2 DEF BoundInv
<1>3. BoundInv => RepeatsBounded
  <2> SUFFICES ASSUME BoundInv, NEW f \in FoodIds, NEW type \in NotificationTypes
               PROVE  notified[f][type] <= Scanners + faults
    BY DEF RepeatsBounded
  <2>1. AlarmsWithin(f, type) /\ notified[f][type] \in Nat /\ faults \in Nat
    BY DEF BoundInv, TypeOK, StoreTypeOK, ReminderTypeOK
  <2>2. Cardinality(Pending(f, type)) \in Nat
    <3>1. Pending(f, type) \in SUBSET Instances
      BY DEF Pending
    <3>2. QED
      BY <3>1, PendingCount
  <2>3. QED
    BY <2>1, <2>2, ScannersType DEF AlarmsWithin
<1>4. QED
  BY <1>1, <1>2, <1>3, PTL DEF Spec
=============================================================================
