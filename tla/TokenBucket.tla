---------------------------- MODULE TokenBucket ----------------------------
(***************************************************************************)
(* The request-rate limit (internal/ratelimit and the middlewares of       *)
(* http/middleware/admission.go): a token bucket per key, kept either in   *)
(* the memory of the API server or in Redis, refilled only when its key    *)
(* asks, and forgotten when it has not been asked for a while.             *)
(*                                                                         *)
(* A token is Unit units, a tick brings Rate units, a second is Second     *)
(* ticks: the units stand for the fractions the code keeps in floats.      *)
(* Time is unbounded: a bucket carries its age, not a date.                *)
(***************************************************************************)
EXTENDS Integers

CONSTANTS
    Keys,       \* installations or remote addresses
    Unit, Rate, Second,
    Burst,      \* tokens of a full bucket
    Forget,     \* ticks for each store: 24 hours in memory, 5 minutes in Redis
    None

Stores == {"memory", "redis"}

\* Nothing relates the burst to what a store's time refills: the configuration accepts
\* a burst that five minutes do not bring back.
ASSUME ForgetAssumption == Forget \in [Stores -> Nat]
ASSUME UnitAssumption == {Unit, Rate, Second, Burst} \subseteq Nat \ {0}
ASSUME NoneAssumption == None \notin Int

VARIABLES
    store,    \* where the server keeps them
    buckets,  \* for the keys that have one: tokens left at the last request, ticks since
    answer,   \* the last answer of every key
    due       \* ticks until the moment its Retry-After named, None if not refused

vars == <<store, buckets, answer, due>>

Full == Burst * Unit

Init ==
    /\ store \in Stores
    /\ buckets = [k \in {} |-> 0]
    /\ answer = [k \in Keys |-> "none"]
    /\ due = [k \in Keys |-> None]

\* In memory, every request deletes the buckets older than the limit; Redis drops
\* them when their time is over (Tick).
Kept == {k \in DOMAIN buckets : buckets[k].age <= Forget[store]}

Refilled(b) == IF b.tokens + b.age * Rate > Full THEN Full ELSE b.tokens + b.age * Rate

Tokens(k) == IF k \in Kept THEN Refilled(buckets[k]) ELSE Full

\* mutant: a refused request loses the fraction its key had gathered
Left_Whole(tokens) == IF tokens >= Unit THEN tokens - Unit ELSE 0

\* What a request leaves: a refused one costs nothing.
Left(tokens) == IF tokens >= Unit THEN tokens - Unit ELSE tokens

\* The bucket is written whether the request is admitted or not.
Take(k) ==
    buckets' = [j \in Kept \cup {k} |->
                  IF j = k THEN [tokens |-> Left(Tokens(k)), age |-> 0] ELSE buckets[j]]

\* mutant: the header counts the time since the bucket was asked
RetryAfter_Zero(tokens) == 0

\* Whole seconds until the missing fraction is there, rounded down, at least one.
RetryAfter(tokens) ==
    LET seconds == (Unit - tokens) \div (Rate * Second)
    IN  IF seconds < 1 THEN 1 ELSE seconds

\* A request of key k through the middleware.
Allow(k) ==
    /\ Take(k)
    /\ IF Tokens(k) >= Unit
       THEN /\ answer' = [answer EXCEPT ![k] = "granted"]
            /\ due' = [due EXCEPT ![k] = None]
       ELSE /\ answer' = [answer EXCEPT ![k] = "refused"]
            /\ due' = [due EXCEPT ![k] = RetryAfter(Tokens(k)) * Second]
    /\ UNCHANGED store

\* Redis does not answer: the request is answered 503, its script may have run.
Unavailable(k) ==
    /\ store = "redis"
    /\ answer' = [answer EXCEPT ![k] = "failed"]
    /\ due' = [due EXCEPT ![k] = None]
    /\ Take(k) \/ UNCHANGED buckets
    /\ UNCHANGED store

\* PEXPIRE: a key of Redis goes when its time is over.
Expired(k) == store = "redis" /\ buckets[k].age >= Forget[store]

\* Ages above the limit are alike, and so are moments a second past.
Tick ==
    /\ buckets' = [k \in {j \in DOMAIN buckets : ~Expired(j)} |->
                     [buckets[k] EXCEPT !.age = IF @ > Forget[store] THEN @ ELSE @ + 1]]
    /\ due' = [k \in Keys |->
                 IF due[k] = None \/ due[k] = -Second THEN due[k] ELSE due[k] - 1]
    /\ UNCHANGED <<store, answer>>

\* The server's memory is lost; Redis keeps its buckets.
Restart ==
    /\ store = "memory"
    /\ buckets' = [k \in {} |-> 0]
    /\ answer' = [k \in Keys |-> "none"]
    /\ due' = [k \in Keys |-> None]
    /\ UNCHANGED store

Next ==
    \/ \E k \in Keys : Allow(k) \/ Unavailable(k)
    \/ Tick \/ Restart

Spec == Init /\ [][Next]_vars

-----------------------------------------------------------------------------
(* Properties *)

Idle(k) == IF k \in Kept THEN buckets[k].age ELSE Forget[store] + 1

\* Refilling late, sweeping, expiring and losing replies keep the contract: the level
\* of a key is what it would find if it asked now, and it is given a full bucket early
\* only if it has not asked for the whole time of its store (InMemory.Allow,
\* Redis.Allow).
Contract == INSTANCE BucketContract WITH
    Capacity <- Full,
    Terms <- {Forget[s] : s \in Stores},
    term <- Forget[store],
    level <- [k \in Keys |-> Tokens(k)],
    idle <- [k \in Keys |-> Idle(k)]

ImplementsContract == Contract!Spec

\* A client that waits a second longer than Retry-After says is not refused again
\* (middleware.retry, InMemory.Allow).
PatienceIsRewarded ==
    [][\A k \in Keys : due[k] = -Second => due'[k] \in {None, -Second}]_vars
=============================================================================
