----------------------------- MODULE RateLimiter -----------------------------
(***************************************************************************)
(* middleware.RateLimiter: one token bucket per key, refilled in           *)
(* proportion to the time since its last use, from the start of the        *)
(* process on.  allow runs under a mutex, so a call is one step.           *)
(*                                                                         *)
(* Time goes by in ticks of 1/Minute of a minute, tokens are counted in    *)
(* parts of 1/Minute of a token: a tick refills PerMin parts, and a finer  *)
(* clock is a larger Minute.                                               *)
(***************************************************************************)
EXTENDS Integers

CONSTANTS
    Callers,   \* signed-in users and, before the sign-in, addresses
    PerMin,    \* RATE_LIMIT_PER_MIN
    Minute,    \* ticks in a minute
    NoBucket,  \* a key nobody called with yet
    MaxTime    \* bound: ticks in a run

VARIABLES
    now,      \* time.Now(), read when allow is called
    buckets,  \* key -> tokens and time of the last call
    start,    \* history: when the minute under observation begins
    passed,   \* history: key -> requests let through in that minute
    served    \* history: caller -> when it was last let through

vars == <<now, buckets, start, passed, served>>

(* Ids of 2^32 and more, of which only the low 32 bits would count, are    *)
(* left out.                                                               *)
Caller == [kind: {"user", "address"}, id: Nat]

ASSUME CallersAssumption == Callers \subseteq Caller
ASSUME RateAssumption == PerMin \in Nat /\ Minute \in Nat \ {0}
ASSUME MaxTimeAssumption == MaxTime \in Nat

Token == Minute
Burst == PerMin * Minute

(* A user id becomes the text of one code point, and U+FFFD if it is none. *)
Rune(id) ==
    IF id < 55296 \/ (57344 <= id /\ id <= 1114111) THEN id ELSE 65533

Key(c) == IF c.kind = "user" THEN [c EXCEPT !.id = Rune(c.id)] ELSE c

Keys == {Key(c) : c \in Callers}

Bucket == [tokens: 0..Burst, last: Nat]

ASSUME NoBucketAssumption == NoBucket \notin Bucket /\ NoBucket \notin Int

TypeOK ==
    /\ now \in Nat
    /\ buckets \in [Keys -> Bucket \cup {NoBucket}]
    /\ \A k \in Keys : buckets[k] # NoBucket => buckets[k].last <= now
    /\ start \in Nat
    /\ passed \in [Keys -> Nat]
    /\ served \in [Callers -> Int]

(* Callers who were never let through count as served long ago.            *)
Init ==
    /\ now = 0
    /\ buckets = [k \in Keys |-> NoBucket]
    /\ start \in 0..MaxTime
    /\ passed = [k \in Keys |-> 0]
    /\ served = [c \in Callers |-> -Minute]

-----------------------------------------------------------------------------

(* Seeded fault: tokens above the capacity are kept.                       *)
RefilledUncapped(b) == b.tokens + PerMin * (now - b.last)

(* Seeded fault: whole tokens only, the fraction is lost at every call.    *)
RefilledWhole(b) ==
    LET tokens == b.tokens + ((PerMin * (now - b.last)) \div Token) * Token
    IN  IF tokens > Burst THEN Burst ELSE tokens

(* Tokens of a bucket after the refill.                                    *)
Refilled(b) ==
    LET tokens == b.tokens + PerMin * (now - b.last)
    IN  IF tokens > Burst THEN Burst ELSE tokens

Leave(c, tokens) ==
    buckets' = [buckets EXCEPT ![Key(c)] = [tokens |-> tokens, last |-> now]]

Observed == now \in start..(start + Minute)

(* The request goes on to its handler.                                     *)
Pass(c) ==
    /\ passed' = [passed EXCEPT ![Key(c)] = IF Observed THEN @ + 1 ELSE @]
    /\ served' = [served EXCEPT ![c] = now]

(* The first request of a key makes its bucket, and takes no token.        *)
FirstRequest(c) ==
    /\ buckets[Key(c)] = NoBucket
    /\ Leave(c, Burst)
    /\ Pass(c)
    /\ UNCHANGED <<now, start>>

Grant(c) ==
    /\ buckets[Key(c)] # NoBucket
    /\ LET tokens == Refilled(buckets[Key(c)])
       IN  /\ tokens >= Token
           /\ Leave(c, tokens - Token)
    /\ Pass(c)
    /\ UNCHANGED <<now, start>>

(* Too many requests: the refill is kept.                                  *)
Refuse(c) ==
    /\ buckets[Key(c)] # NoBucket
    /\ LET tokens == Refilled(buckets[Key(c)])
       IN  /\ tokens < Token
           /\ Leave(c, tokens)
    /\ UNCHANGED <<now, start, passed, served>>

Tick ==
    /\ now < MaxTime
    /\ now' = now + 1
    /\ UNCHANGED <<buckets, start, passed, served>>

Next ==
    \/ \E c \in Callers : FirstRequest(c) \/ Grant(c) \/ Refuse(c)
    \/ Tick

Spec == Init /\ [][Next]_vars

-----------------------------------------------------------------------------

(* No minute, wherever it begins, sees more requests of one key than a     *)
(* full bucket, the refill of a minute, and the one that made the bucket   *)
(* (rate_limiter.go:34-55).                                                *)
WindowBound == \A k \in Keys : passed[k] <= 2 * PerMin + 1

(* A caller that is refused was let through less than the time ago that    *)
(* one token takes: however fast it keeps calling meanwhile, being refused *)
(* does not put off its turn, and what others do does not either           *)
(* (rate_limiter.go:44-53).                                                *)
RefusedOnlyBusy ==
    [][\A c \in Callers : Refuse(c) => PerMin * (now - served[c]) < Token]_vars

(* Although a bucket is brought up to date only when it is called, by      *)
(* whatever time has gone by since, and refused calls write to it as well: *)
(* to its callers it is one that fills steadily.  Neither how often nor    *)
(* when it is called makes or loses a part of a token                      *)
(* (rate_limiter.go:36-55).                                                *)
Meter == INSTANCE SteadyBuckets WITH
    keyOf <- [c \in Callers |-> Key(c)],
    Rate <- PerMin, Cost <- Token, Capacity <- Burst, None <- NoBucket, time <- now,
    level <- [k \in Keys |->
                IF buckets[k] = NoBucket THEN NoBucket ELSE Refilled(buckets[k])]

FillsSteadily == Meter!Spec

(* The limit is the number of requests per minute (rate_limiter.go:26).    *)
AtMostPerMinute == \A k \in Keys : passed[k] <= PerMin
=============================================================================
