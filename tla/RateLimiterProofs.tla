-------------------------- MODULE RateLimiterProofs --------------------------
(***************************************************************************)
(* Theorems about RateLimiter, for every limit, every resolution of the    *)
(* clock and every set of callers.                                         *)
(***************************************************************************)
EXTENDS RateLimiter, TLAPS

(* A factor can be cancelled.                                              *)
LEMMA Cancel ==
    ASSUME NEW a \in Int, NEW b \in Int, NEW m \in Nat \ {0}, a * m <= b * m
    PROVE  a <= b
<1> SUFFICES ASSUME b + 1 <= a PROVE FALSE
  OBVIOUS
<1>1. (b + 1) * m <= a * m
  OBVIOUS
<1>2. (b + 1) * m = b * m + m
  OBVIOUS
<1>3. b * m \in Int /\ a * m \in Int
  OBVIOUS
<1>4. QED
  BY <1>1, <1>2, <1>3

(* A product of natural numbers is one.                                    *)
LEMMA Product ==
    ASSUME NEW a \in Nat, NEW b \in Nat
    PROVE  a * b \in Nat
OBVIOUS

(* Constants in use.                                                       *)
LEMMA Units ==
    /\ PerMin \in Nat
    /\ Minute \in Nat \ {0}
    /\ Token \in Nat \ {0}
    /\ Burst \in Nat
BY RateAssumption, Product DEF Token, Burst

(* What a refill gives.                                                    *)
LEMMA RefillBounds ==
    ASSUME TypeOK, NEW k \in Keys, buckets[k] # NoBucket
    PROVE  /\ Refilled(buckets[k]) \in 0..Burst
           /\ PerMin * (now - buckets[k].last) \in Nat
           /\ \/ Refilled(buckets[k]) = Burst
              \/ Refilled(buckets[k])
                   = buckets[k].tokens + PerMin * (now - buckets[k].last)
           /\ Refilled(buckets[k])
                <= buckets[k].tokens + PerMin * (now - buckets[k].last)
<1>1. PICK b : b = buckets[k]
  OBVIOUS
<1>2. /\ b.tokens \in 0..Burst
      /\ b.last \in Nat
      /\ now \in Nat
      /\ b.last <= now
  BY <1>1 DEF TypeOK, Bucket
<1>3. PICK refill : refill = PerMin * (now - b.last)
  OBVIOUS
<1>4. refill \in Nat
  BY <1>2, <1>3, Units, Product
<1>5. Refilled(b) = IF b.tokens + refill > Burst THEN Burst ELSE b.tokens + refill
  BY <1>3 DEF Refilled
<1>6. QED
  BY <1>1, <1>2, <1>3, <1>4, <1>5, Units

(* A call leaves one bucket full enough, and the others alone.             *)
LEMMA LeaveType ==
    ASSUME TypeOK, NEW c \in Callers, NEW tokens \in 0..Burst, Leave(c, tokens),
           UNCHANGED now
    PROVE  /\ buckets' \in [Keys -> Bucket \cup {NoBucket}]
           /\ \A k \in Keys :
                 buckets'[k] = IF k = Key(c) THEN [tokens |-> tokens, last |-> now]
                                             ELSE buckets[k]
           /\ \A k \in Keys : buckets'[k] # NoBucket => buckets'[k].last <= now'
           /\ Key(c) \in Keys
<1>1. Key(c) \in Keys
  BY DEF Keys
<1>2. \A k \in Keys :
          buckets'[k] = IF k = Key(c) THEN [tokens |-> tokens, last |-> now]
                                      ELSE buckets[k]
  BY <1>1 DEF Leave, TypeOK
<1>3. [tokens |-> tokens, last |-> now] \in Bucket
  BY DEF TypeOK, Bucket
<1>4. buckets' \in [Keys -> Bucket \cup {NoBucket}]
  BY <1>3 DEF Leave, TypeOK
<1>5. \A k \in Keys : buckets'[k] # NoBucket => buckets'[k].last <= now'
  BY <1>2 DEF TypeOK
<1>6. QED
  BY <1>1, <1>2, <1>4, <1>5

(* The histories of a request let through.                                 *)
LEMMA PassType ==
    ASSUME TypeOK, NEW c \in Callers, Pass(c)
    PROVE  /\ passed' \in [Keys -> Nat]
           /\ served' \in [Callers -> Int]
           /\ \A k \in Keys : passed'[k] = IF k = Key(c) /\ Observed THEN passed[k] + 1
                                                                    ELSE passed[k]
           /\ \A d \in Callers : served'[d] = IF d = c THEN now ELSE served[d]
<1>1. Key(c) \in Keys
  BY DEF Keys
<1>2. QED
  BY <1>1 DEF Pass, TypeOK

(* The tokens each call leaves behind.                                     *)
LEMMA CallLeaves ==
    ASSUME TypeOK, NEW c \in Callers
    PROVE  /\ FirstRequest(c) => Burst \in 0..Burst
           /\ Grant(c) => Refilled(buckets[Key(c)]) - Token \in 0..Burst
           /\ Refuse(c) => Refilled(buckets[Key(c)]) \in 0..Burst
<1>1. Key(c) \in Keys
  BY DEF Keys
<1>2. QED
  BY <1>1, Units, RefillBounds DEF Grant, Refuse

(* No step breaks a type.                                                  *)
LEMMA TypeNext == TypeOK /\ [Next]_vars => TypeOK'
<1> SUFFICES ASSUME TypeOK, [Next]_vars PROVE TypeOK'
  OBVIOUS
<1>1. ASSUME NEW c \in Callers, FirstRequest(c)
      PROVE  TypeOK'
  BY <1>1, CallLeaves, LeaveType, PassType DEF FirstRequest, TypeOK
<1>2. ASSUME NEW c \in Callers, Grant(c)
      PROVE  TypeOK'
  BY <1>2, CallLeaves, LeaveType, PassType DEF Grant, TypeOK
<1>3. ASSUME NEW c \in Callers, Refuse(c)
      PROVE  TypeOK'
  BY <1>3, CallLeaves, LeaveType DEF Refuse, TypeOK
<1>4. CASE Tick
  BY <1>4 DEF Tick, TypeOK, Bucket
<1>5. CASE UNCHANGED vars
  BY <1>5 DEF vars, TypeOK
<1>6. QED
  BY <1>1, <1>2, <1>3, <1>4, <1>5 DEF Next

LEMMA TypeInit == Init => TypeOK
BY RateAssumption, MaxTimeAssumption DEF Init, TypeOK

(* Tokens stay between nothing and the capacity of a bucket, and no bucket *)
(* was used in the future.                                                 *)
THEOREM BucketsTyped == Spec => []TypeOK
BY TypeInit, TypeNext, PTL DEF Spec
-----------------------------------------------------------------------------
(* The bound on a minute.                                                  *)

(* What a bucket gave since the minute began and what it still holds is no *)
(* more than a full bucket, the request that made it and the refill.       *)
Account(k) ==
    passed[k] * Token + buckets[k].tokens
        <= Burst + Token + PerMin * (buckets[k].last - start)

WindowInv ==
    /\ TypeOK
    /\ \A k \in Keys :
          /\ buckets[k] = NoBucket \/ buckets[k].last < start => passed[k] = 0
          /\ buckets[k] # NoBucket /\ buckets[k].last \in start..(start + Minute) =>
                Account(k)
    /\ WindowBound

(* The account of a minute bounds the requests.                            *)
LEMMA AccountBound ==
    ASSUME NEW n \in Nat, NEW tokens \in Nat, NEW elapsed \in 0..Minute,
           n * Token + tokens <= Burst + Token + PerMin * elapsed
    PROVE  n <= 2 * PerMin + 1
<1>1. PerMin * elapsed <= PerMin * Minute
  BY Units
<1>2. (2 * PerMin + 1) * Token = Burst + Token + PerMin * Minute
  BY Units DEF Burst, Token
<1>3. /\ n * Token \in Int
      /\ PerMin * elapsed \in Int
      /\ PerMin * Minute \in Int
      /\ (2 * PerMin + 1) * Token \in Int
  BY Units
<1>4. n * Token <= (2 * PerMin + 1) * Token
  BY <1>1, <1>2, <1>3, Units
<1>5. QED
  BY <1>4, Cancel, Units

(* Time that goes by twice is refilled twice.                              *)
LEMMA RefillAdds ==
    ASSUME NEW t0 \in Nat, NEW t1 \in Nat, NEW t2 \in Nat
    PROVE  PerMin * (t2 - t0) = PerMin * (t1 - t0) + PerMin * (t2 - t1)
BY Units

(* A call that lets a number of requests through and leaves tokens that it *)
(* did not have to make up keeps the account.                              *)
LEMMA AccountCall ==
    ASSUME WindowInv, NEW c \in Callers, NEW tokens \in 0..Burst, Leave(c, tokens),
           UNCHANGED <<now, start>>, TypeOK',
           NEW n \in {0, 1},
           \A k \in Keys : passed'[k] = IF k = Key(c) /\ Observed THEN passed[k] + n
                                                                  ELSE passed[k],
           \/ buckets[Key(c)] = NoBucket /\ tokens = Burst
           \/ /\ buckets[Key(c)] # NoBucket
              /\ tokens = Refilled(buckets[Key(c)]) - n * Token
    PROVE  WindowInv'
<1> USE DEF WindowInv
<1>1. /\ buckets' \in [Keys -> Bucket \cup {NoBucket}]
      /\ \A k \in Keys :
            buckets'[k] = IF k = Key(c) THEN [tokens |-> tokens, last |-> now]
                                        ELSE buckets[k]
      /\ \A k \in Keys : buckets'[k] # NoBucket => buckets'[k].last <= now'
      /\ Key(c) \in Keys
  BY LeaveType
<1>2. PICK k \in Keys : k = Key(c)
  BY <1>1
<1>3. /\ passed[k] \in Nat
      /\ now \in Nat
      /\ start \in Nat
  BY DEF TypeOK
<1>4. n * Token = IF n = 1 THEN Token ELSE 0
  BY Units
<1>5. ASSUME Observed
      PROVE  (passed[k] + n) * Token + tokens <= Burst + Token + PerMin * (now - start)
  <2>1. (passed[k] + n) * Token = passed[k] * Token + n * Token
    BY <1>3, Units
  <2>2. PerMin * (now - start) \in Nat
    BY <1>3, <1>5, Units, Product DEF Observed
  <2>3. CASE passed[k] = 0
    <3>1. passed[k] * Token = 0
      BY <2>3, Units
    <3>2. tokens + n * Token <= Burst + Token
      <4>1. CASE buckets[k] = NoBucket
        BY <1>2, <1>4, <4>1, Units
      <4>2. CASE buckets[k] # NoBucket
        BY <1>2, <1>4, <4>2, RefillBounds, Units
      <4>3. QED
        BY <4>1, <4>2
    <3>3. QED
      BY <1>4, <2>1, <2>2, <3>1, <3>2, Units
  <2>4. CASE passed[k] # 0
    <3>1. PICK b : b = buckets[k]
      OBVIOUS
    <3>2. /\ buckets[k] # NoBucket
          /\ b.last \in Nat
          /\ b.tokens \in 0..Burst
          /\ start <= b.last
          /\ b.last <= now
      BY <1>3, <2>4, <3>1 DEF TypeOK, Bucket
    <3>3. b.last \in start..(start + Minute)
      BY <1>3, <1>5, <3>2, Units DEF Observed
    <3>4. passed[k] * Token + b.tokens <= Burst + Token + PerMin * (b.last - start)
      BY <3>1, <3>2, <3>3 DEF Account
    <3>5. tokens + n * Token <= b.tokens + PerMin * (now - b.last)
      BY <1>2, <1>4, <3>1, <3>2, RefillBounds, Units
    <3>6. PerMin * (now - start) = PerMin * (b.last - start) + PerMin * (now - b.last)
      BY <1>3, <3>2, RefillAdds
    <3>7. /\ passed[k] * Token \in Int
          /\ PerMin * (b.last - start) \in Int
          /\ PerMin * (now - b.last) \in Int
      BY <1>3, <3>2, Units
    <3>8. QED
      BY <1>4, <2>1, <3>2, <3>4, <3>5, <3>6, <3>7, Units
  <2>5. QED
    BY <2>3, <2>4
<1>6. \A j \in Keys : j # k => passed'[j] = passed[j] /\ buckets'[j] = buckets[j]
  BY <1>1, <1>2
<1>7. /\ passed'[k] = IF Observed THEN passed[k] + n ELSE passed[k]
      /\ buckets'[k] = [tokens |-> tokens, last |-> now]
      /\ buckets'[k] # NoBucket
  BY <1>1, <1>2, NoBucketAssumption DEF TypeOK, Bucket
<1>8. CASE Observed
  <2>1. (passed[k] + n) * Token + tokens <= Burst + Token + PerMin * (now - start)
    BY <1>5, <1>8
  <2>2. Account(k)'
    BY <1>7, <1>8, <2>1 DEF Account, Burst, Token
  <2>3. passed'[k] <= 2 * PerMin + 1
    <3>1. now - start \in 0..Minute
      BY <1>3, <1>8, Units DEF Observed
    <3>2. passed[k] + n \in Nat
      BY <1>3
    <3>3. QED
      BY <1>7, <1>8, <2>1, <3>1, <3>2, AccountBound
  <2>4. buckets'[k].last = now /\ start <= now
    BY <1>3, <1>7, <1>8, Units DEF Observed
  <2>5. WindowBound'
    BY <1>6, <2>3 DEF WindowBound
  <2>6. \A j \in Keys : j # k => (Account(j) => Account(j)')
    BY <1>6 DEF Account
  <2>7. QED
    BY <1>3, <1>6, <1>7, <2>2, <2>4, <2>5, <2>6
<1>9. CASE ~Observed
  <2>1. now \notin start..(start + Minute)
    BY <1>9 DEF Observed
  <2>2. passed' = passed
    BY <1>6, <1>7, <1>9 DEF TypeOK
  <2>3. now < start => passed[k] = 0
    BY <1>3 DEF TypeOK, Bucket
  <2>4. /\ buckets'[k].last = now
        /\ passed'[k] = passed[k]
        /\ passed[k] <= 2 * PerMin + 1
    BY <1>7, <2>2 DEF WindowBound
  <2>5. WindowBound'
    BY <1>6, <2>4 DEF WindowBound
  <2>6. \A j \in Keys : j # k => (Account(j) => Account(j)')
    BY <1>6 DEF Account
  <2>7. QED
    BY <1>3, <1>6, <1>7, <2>1, <2>3, <2>4, <2>5, <2>6
<1>10. QED
  BY <1>8, <1>9

(* No step lets too many requests through.                                 *)
LEMMA WindowNext == WindowInv /\ [Next]_vars => WindowInv'
<1> SUFFICES ASSUME WindowInv, [Next]_vars PROVE WindowInv'
  OBVIOUS
<1> USE DEF WindowInv
<1>1. TypeOK'
  BY TypeNext
<1>2. ASSUME NEW c \in Callers, FirstRequest(c)
      PROVE  WindowInv'
  <2>1. Burst \in 0..Burst /\ 1 \in {0, 1}
    BY Units
  <2>2. /\ buckets[Key(c)] = NoBucket
        /\ Leave(c, Burst)
        /\ UNCHANGED <<now, start>>
        /\ \A k \in Keys : passed'[k] = IF k = Key(c) /\ Observed THEN passed[k] + 1
                                                                 ELSE passed[k]
    BY <1>2, PassType DEF FirstRequest
  <2>3. QED
    BY <1>1, <2>1, <2>2, AccountCall
<1>3. ASSUME NEW c \in Callers, Grant(c)
      PROVE  WindowInv'
  <2>1. PICK tokens \in 0..Burst : tokens = Refilled(buckets[Key(c)]) - Token
    BY <1>3, CallLeaves
  <2>2. /\ buckets[Key(c)] # NoBucket
        /\ Leave(c, tokens)
        /\ UNCHANGED <<now, start>>
        /\ \A k \in Keys : passed'[k] = IF k = Key(c) /\ Observed THEN passed[k] + 1
                                                                 ELSE passed[k]
    BY <1>3, <2>1, PassType DEF Grant
  <2>3. 1 * Token = Token /\ 1 \in {0, 1}
    BY Units
  <2>4. QED
    BY <1>1, <2>1, <2>2, <2>3, AccountCall
<1>4. ASSUME NEW c \in Callers, Refuse(c)
      PROVE  WindowInv'
  <2>1. PICK tokens \in 0..Burst : tokens = Refilled(buckets[Key(c)])
    BY <1>4, CallLeaves
  <2>2. /\ buckets[Key(c)] # NoBucket
        /\ Leave(c, tokens)
        /\ UNCHANGED <<now, start, passed>>
    BY <1>4, <2>1 DEF Refuse
  <2>3. \A k \in Keys : passed'[k] = IF k = Key(c) /\ Observed THEN passed[k] + 0
                                                               ELSE passed[k]
    BY <2>2 DEF TypeOK
  <2>4. tokens = Refilled(buckets[Key(c)]) - 0 * Token /\ 0 \in {0, 1}
    BY <2>1, Units
  <2>5. QED
    BY <1>1, <2>1, <2>2, <2>3, <2>4, AccountCall
<1>5. CASE Tick \/ UNCHANGED vars
  <2>1. UNCHANGED <<buckets, start, passed>>
    BY <1>5 DEF Tick, vars
  <2>2. QED
    BY <1>1, <2>1 DEF Account, WindowBound, Token, Burst
<1>6. QED
  BY <1>2, <1>3, <1>4, <1>5 DEF Next

(* No minute sees more requests of one key than twice the limit and one,   *)
(* wherever the minute begins and however the requests come.               *)
THEOREM MinuteBounded == Spec => []WindowBound
<1>1. Init => WindowInv
  BY TypeInit, Units DEF Init, WindowInv, WindowBound
<1>2. WindowInv => WindowBound
  BY DEF WindowInv
<1>3. QED
  BY <1>1, <1>2, WindowNext, PTL DEF Spec
-----------------------------------------------------------------------------
(* Refusals.                                                               *)

(* User ids below the surrogates, which begin at 55296.                    *)
SmallIds == \A c \in Callers : c.kind = "user" => c.id <= 55295

(* Nobody shares a bucket then.                                            *)
LEMMA OwnKeys ==
    ASSUME SmallIds, NEW c \in Callers, NEW d \in Callers, Key(c) = Key(d)
    PROVE  c = d
<1>1. c \in Caller /\ d \in Caller
  BY CallersAssumption
<1>2. Key(c) = c /\ Key(d) = d
  <2>1. ASSUME NEW e \in Caller, e.kind = "user" => e.id <= 55295
        PROVE  Key(e) = e
    <3>1. CASE e.kind = "user"
      <4>1. e.id \in Nat /\ e.id <= 55295
        BY <2>1, <3>1, SMT DEF Caller
      <4>2. Rune(e.id) = e.id
        BY <4>1, SMT DEF Rune
      <4>3. e = [kind |-> e.kind, id |-> e.id]
        BY SMT DEF Caller
      <4>4. [e EXCEPT !.id = e.id] = e
        BY <4>3, SMT
      <4>5. QED
        BY <3>1, <4>2, <4>4, SMT DEF Key
    <3>2. QED
      BY <3>1, SMT DEF Key
  <2>2. QED
    BY <1>1, <2>1, SMT DEF SmallIds
<1>3. QED
  BY <1>2

(* Since a caller was let through, its bucket has been refilled, but for   *)
(* what did not fit.                                                       *)
RefillInv ==
    /\ TypeOK
    /\ \A c \in Callers :
          buckets[Key(c)] # NoBucket =>
              \/ buckets[Key(c)].tokens = Burst
              \/ buckets[Key(c)].tokens >= PerMin * (buckets[Key(c)].last - served[c])

(* Refilled tokens, too.                                                   *)
LEMMA RefilledSince ==
    ASSUME RefillInv, NEW c \in Callers, buckets[Key(c)] # NoBucket
    PROVE  \/ Refilled(buckets[Key(c)]) = Burst
           \/ Refilled(buckets[Key(c)]) >= PerMin * (now - served[c])
<1> USE DEF RefillInv
<1>1. Key(c) \in Keys
  BY DEF Keys
<1>2. PICK b : b = buckets[Key(c)]
  OBVIOUS
<1>3. /\ b.tokens \in 0..Burst
      /\ b.last \in Nat
      /\ now \in Nat
      /\ served[c] \in Int
  BY <1>1, <1>2 DEF TypeOK, Bucket
<1>4. /\ PerMin * (now - b.last) \in Nat
      /\ Refilled(b) = Burst \/ Refilled(b) = b.tokens + PerMin * (now - b.last)
      /\ Refilled(b) \in 0..Burst
  BY <1>1, <1>2, RefillBounds
<1>5. PerMin * (now - served[c])
        = PerMin * (b.last - served[c]) + PerMin * (now - b.last)
  BY <1>3, Units
<1>6. PerMin * (b.last - served[c]) \in Int
  BY <1>3, Units
<1>7. CASE b.tokens = Burst
  BY <1>2, <1>4, <1>7, Units
<1>8. CASE b.tokens >= PerMin * (b.last - served[c])
  BY <1>2, <1>3, <1>4, <1>5, <1>6, <1>8, Units
<1>9. QED
  BY <1>2, <1>7, <1>8

(* No step takes a refill away from a caller that was not let through.     *)
LEMMA RefillNext ==
    ASSUME SmallIds, RefillInv, [Next]_vars
    PROVE  RefillInv'
<1> USE DEF RefillInv
<1>1. TypeOK'
  BY TypeNext
<1>2. ASSUME NEW c \in Callers, NEW tokens \in 0..Burst, Leave(c, tokens),
             UNCHANGED now, \A d \in Callers : d # c => served'[d] = served[d],
             tokens = Burst \/ tokens >= PerMin * (now - served'[c])
      PROVE  RefillInv'
  <2>1. \A k \in Keys :
            buckets'[k] = IF k = Key(c) THEN [tokens |-> tokens, last |-> now]
                                        ELSE buckets[k]
    BY <1>2, LeaveType
  <2>2. \A d \in Callers : Key(d) \in Keys /\ (Key(d) = Key(c) => d = c)
    BY OwnKeys DEF Keys
  <2>3. QED
    BY <1>1, <1>2, <2>1, <2>2
<1>3. ASSUME NEW c \in Callers, FirstRequest(c)
      PROVE  RefillInv'
  <2>1. Burst \in 0..Burst /\ Leave(c, Burst) /\ UNCHANGED now
    BY <1>3, Units DEF FirstRequest
  <2>2. \A d \in Callers : d # c => served'[d] = served[d]
    BY <1>3, PassType DEF FirstRequest
  <2>3. QED
    BY <1>2, <2>1, <2>2
<1>4. ASSUME NEW c \in Callers, Grant(c)
      PROVE  RefillInv'
  <2>1. PICK tokens \in 0..Burst : tokens = Refilled(buckets[Key(c)]) - Token
    BY <1>4, CallLeaves
  <2>2. Leave(c, tokens) /\ UNCHANGED now
    BY <1>4, <2>1 DEF Grant
  <2>3. served'[c] = now /\ \A d \in Callers : d # c => served'[d] = served[d]
    BY <1>4, PassType DEF Grant
  <2>4. tokens >= PerMin * (now - served'[c])
    <3>1. now - served'[c] = 0
      BY <2>3 DEF TypeOK
    <3>2. PerMin * 0 = 0
      BY Units
    <3>3. QED
      BY <3>1, <3>2, Units
  <2>5. QED
    BY <1>2, <2>2, <2>3, <2>4
<1>5. ASSUME NEW c \in Callers, Refuse(c)
      PROVE  RefillInv'
  <2>1. PICK tokens \in 0..Burst : tokens = Refilled(buckets[Key(c)])
    BY <1>5, CallLeaves
  <2>2. Leave(c, tokens) /\ UNCHANGED <<now, served>>
    BY <1>5, <2>1 DEF Refuse
  <2>3. tokens = Burst \/ tokens >= PerMin * (now - served'[c])
    BY <1>5, <2>1, <2>2, RefilledSince DEF Refuse
  <2>4. QED
    BY <1>2, <2>2, <2>3
<1>6. CASE Tick \/ UNCHANGED vars
  <2>1. UNCHANGED <<buckets, served>>
    BY <1>6 DEF Tick, vars
  <2>2. QED
    BY <1>1, <2>1
<1>7. QED
  BY <1>3, <1>4, <1>5, <1>6 DEF Next

(* As long as ids are below 55296, a caller is refused only if it was let  *)
(* through less than the time of one token ago, whatever it and others do  *)
(* in the meantime.                                                        *)
THEOREM RefusalsAreShort ==
    ASSUME SmallIds
    PROVE  Spec => RefusedOnlyBusy
<1> DEFINE Short == \A c \in Callers : Refuse(c) => PerMin * (now - served[c]) < Token
<1>1. Init => RefillInv
  BY TypeInit DEF Init, RefillInv, Keys
<1>2. RefillInv /\ [Next]_vars => RefillInv'
  BY RefillNext
<1>3. RefillInv => Short
  <2> SUFFICES ASSUME RefillInv, NEW c \in Callers, Refuse(c)
               PROVE  PerMin * (now - served[c]) < Token
    OBVIOUS
  <2>1. buckets[Key(c)] # NoBucket /\ Refilled(buckets[Key(c)]) < Token
    BY DEF Refuse
  <2>2. PICK tokens : tokens = Refilled(buckets[Key(c)])
    OBVIOUS
  <2>3. now - served[c] \in Int
    BY DEF RefillInv, TypeOK
  <2>4. CASE tokens = Burst
    <3>1. PerMin = 0
      <4> SUFFICES ASSUME PerMin >= 1 PROVE FALSE
        BY Units
      <4>1. PerMin * Minute >= 1 * Minute
        BY Units
      <4>2. QED
        BY <2>1, <2>2, <2>4, <4>1, Units DEF Burst, Token
    <3>2. QED
      BY <2>3, <3>1, Units
  <2>5. CASE tokens >= PerMin * (now - served[c]) /\ tokens \in 0..Burst
    <3>1. PerMin * (now - served[c]) \in Int
      BY <2>3, Units
    <3>2. QED
      BY <2>1, <2>2, <2>5, <3>1, Units
  <2>6. QED
    BY <2>1, <2>2, <2>4, <2>5, RefilledSince, CallLeaves DEF RefillInv
<1>4. RefillInv /\ [Next]_vars => [Short]_vars
  BY <1>3
<1>5. QED
  BY <1>1, <1>2, <1>4, PTL DEF Spec, RefusedOnlyBusy
-----------------------------------------------------------------------------
(* The bucket that is brought up to date at each call, seen as one that    *)
(* fills steadily.                                                         *)

(* What a bucket holds if it is brought up to date now.                    *)
Level(k) == IF buckets[k] = NoBucket THEN NoBucket ELSE Refilled(buckets[k])

LEMMA LevelType ==
    ASSUME TypeOK, NEW k \in Keys
    PROVE  /\ buckets[k] # NoBucket => Level(k) \in 0..Burst
           /\ Level(k) = NoBucket <=> buckets[k] = NoBucket
BY RefillBounds, NoBucketAssumption, Units DEF Level

(* A bucket just left holds what it was left with: no time went by since.  *)
LEMMA LevelLeft ==
    ASSUME TypeOK, NEW c \in Callers, NEW tokens \in 0..Burst, Leave(c, tokens),
           UNCHANGED now
    PROVE  /\ Key(c) \in Keys
           /\ Level(Key(c))' = tokens
           /\ \A k \in Keys : k # Key(c) => Level(k)' = Level(k)
<1>1. /\ \A k \in Keys :
            buckets'[k] = IF k = Key(c) THEN [tokens |-> tokens, last |-> now]
                                        ELSE buckets[k]
      /\ Key(c) \in Keys
  BY LeaveType
<1>2. PICK b : b = [tokens |-> tokens, last |-> now]
  OBVIOUS
<1>3. b \in Bucket /\ b.tokens = tokens /\ b.last = now
  BY <1>2 DEF TypeOK, Bucket
<1>4. buckets'[Key(c)] = b /\ b # NoBucket
  BY <1>1, <1>2, <1>3, NoBucketAssumption
<1>5. Level(Key(c))' = tokens
  <2>1. PerMin * (now - b.last) = 0
    BY <1>3, Units DEF TypeOK
  <2>2. Level(Key(c))' = IF tokens > Burst THEN Burst ELSE tokens
    BY <1>3, <1>4, <2>1, Units DEF Level, Refilled
  <2>3. QED
    BY <2>2, Units
<1>6. \A k \in Keys : k # Key(c) => Level(k)' = Level(k)
  BY <1>1 DEF Level, Refilled
<1>7. QED
  BY <1>1, <1>5, <1>6

(* One tick more is one refill more.                                       *)
LEMMA RefillTick ==
    ASSUME NEW t0 \in Nat, NEW t1 \in Nat
    PROVE  PerMin * ((t1 + 1) - t0) = PerMin * (t1 - t0) + PerMin
BY Units

(* Refilled at once for a time and a tick is refilled for the time, and    *)
(* then for the tick.                                                      *)
LEMMA LevelTicks ==
    ASSUME TypeOK, Tick, NEW k \in Keys, buckets[k] # NoBucket
    PROVE  /\ Level(k)' = Meter!Filled(Level(k))
           /\ Level(k)' # NoBucket
<1>1. PICK b : b = buckets[k]
  OBVIOUS
<1>2. /\ b.tokens \in 0..Burst
      /\ b.last \in Nat
      /\ now \in Nat
      /\ b.last <= now
      /\ now' = now + 1
      /\ buckets' = buckets
  BY <1>1 DEF TypeOK, Bucket, Tick
<1>3. PICK refill : refill = PerMin * (now - b.last)
  OBVIOUS
<1>4. refill \in Nat
  BY <1>2, <1>3, Units, Product
<1>5. PerMin * (now' - b.last) = refill + PerMin
  <2>1. \A t0, t1 \in Nat : PerMin * ((t1 + 1) - t0) = PerMin * (t1 - t0) + PerMin
    BY RefillTick
  <2>2. PerMin * ((now + 1) - b.last) = PerMin * (now - b.last) + PerMin
    BY <1>2, <2>1
  <2>3. QED
    BY <1>2, <1>3, <2>2
<1>6. Level(k) = IF b.tokens + refill > Burst THEN Burst ELSE b.tokens + refill
  BY <1>1, <1>3 DEF Level, Refilled
<1>7. Level(k)' = IF b.tokens + (refill + PerMin) > Burst THEN Burst
                                                        ELSE b.tokens + (refill + PerMin)
  BY <1>1, <1>2, <1>5 DEF Level, Refilled
<1>8. Level(k)' = Meter!Filled(Level(k))
  BY <1>2, <1>4, <1>6, <1>7, Units DEF Meter!Filled
<1>9. Level(k)' \in Int
  BY <1>2, <1>4, <1>7, Units
<1>10. QED
  BY <1>8, <1>9, NoBucketAssumption

(* A call that is let through serves its caller at this moment.            *)
LEMMA PassServes ==
    ASSUME TypeOK, NEW c \in Callers, Pass(c), UNCHANGED now
    PROVE  Meter!Serve(c)
BY DEF Pass, Meter!Serve, TypeOK

(* Every step of the limiter is one of the steadily filled buckets, or     *)
(* none of them that can be seen: a refusal only brings a bucket up to     *)
(* date.                                                                   *)
LEMMA MeterNext == TypeOK /\ [Next]_vars => [Meter!Next]_(Meter!meter)
<1> SUFFICES ASSUME TypeOK, [Next]_vars PROVE [Meter!Next]_(Meter!meter)
  OBVIOUS
<1> DEFINE Levels == [k \in Keys |-> Level(k)]
<1>1. ASSUME NEW c \in Callers, FirstRequest(c)
      PROVE  Meter!Open(c)
  <2>1. Burst \in 0..Burst /\ Leave(c, Burst) /\ UNCHANGED now /\ Pass(c)
    BY <1>1, Units DEF FirstRequest
  <2>2. /\ Key(c) \in Keys
        /\ Level(Key(c)) = NoBucket
        /\ Levels' = [Levels EXCEPT ![Key(c)] = Burst]
    BY <1>1, <2>1, LevelLeft DEF FirstRequest, Level
  <2>3. QED
    BY <2>1, <2>2, PassServes DEF Meter!Open, Level
<1>2. ASSUME NEW c \in Callers, Grant(c)
      PROVE  Meter!Take(c)
  <2>1. PICK tokens \in 0..Burst : tokens = Refilled(buckets[Key(c)]) - Token
    BY <1>2, CallLeaves
  <2>2. /\ Leave(c, tokens)
        /\ UNCHANGED now
        /\ Pass(c)
        /\ Level(Key(c)) # NoBucket
        /\ Level(Key(c)) = Refilled(buckets[Key(c)])
        /\ Level(Key(c)) >= Token
    <3>1. Key(c) \in Keys
      BY DEF Keys
    <3>2. QED
      BY <1>2, <2>1, <3>1, LevelType DEF Grant, Level
  <2>3. /\ Key(c) \in Keys
        /\ Levels' = [Levels EXCEPT ![Key(c)] = @ - Token]
    BY <2>1, <2>2, LevelLeft
  <2>4. QED
    BY <2>2, <2>3, PassServes DEF Meter!Take, Level
<1>3. ASSUME NEW c \in Callers, Refuse(c)
      PROVE  UNCHANGED Meter!meter
  <2>1. PICK tokens \in 0..Burst : tokens = Refilled(buckets[Key(c)])
    BY <1>3, CallLeaves
  <2>2. /\ Leave(c, tokens)
        /\ UNCHANGED <<now, served>>
        /\ Level(Key(c)) = tokens
    BY <1>3, <2>1 DEF Refuse, Level
  <2>3. Levels' = Levels
    BY <2>2, LevelLeft
  <2>4. QED
    BY <2>2, <2>3 DEF Meter!meter, Level
<1>4. ASSUME Tick
      PROVE  Meter!Tick
  <2>1. \A k \in Keys : Level(k)' = IF Level(k) = NoBucket THEN NoBucket
                                                         ELSE Meter!Filled(Level(k))
    <3> SUFFICES ASSUME NEW k \in Keys
                 PROVE  Level(k)' = IF Level(k) = NoBucket THEN NoBucket
                                                        ELSE Meter!Filled(Level(k))
      OBVIOUS
    <3>1. CASE buckets[k] = NoBucket
      BY <1>4, <3>1 DEF Level, Tick
    <3>2. CASE buckets[k] # NoBucket
      BY <1>4, <3>2, LevelTicks, LevelType
    <3>3. QED
      BY <3>1, <3>2
  <2>2. Levels' = [k \in Keys |-> IF Levels[k] = NoBucket THEN NoBucket
                                                      ELSE Meter!Filled(Levels[k])]
    BY <2>1
  <2>3. now' = now + 1 /\ UNCHANGED served
    BY <1>4 DEF Tick
  <2>4. QED
    BY <2>2, <2>3 DEF Meter!Tick, Level
<1>5. CASE UNCHANGED vars
  BY <1>5 DEF vars, Meter!meter, Refilled
<1>6. QED
  BY <1>1, <1>2, <1>3, <1>4, <1>5 DEF Next, Meter!Next

(* However seldom or often a bucket is brought up to date, its callers are *)
(* served as if tokens fell into it steadily.                              *)
THEOREM LimiterFillsSteadily == Spec => FillsSteadily
<1>1. Init => TypeOK /\ Meter!Init
  BY TypeInit, Units DEF Init, Meter!Init
<1>2. QED
  BY <1>1, TypeNext, MeterNext, PTL DEF Spec, FillsSteadily, Meter!Spec
=============================================================================
