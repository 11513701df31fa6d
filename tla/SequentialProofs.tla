--------------------------- MODULE SequentialProofs ---------------------------
(***************************************************************************)
(* Machine-checked proofs about the smaller components that Sequential     *)
(* puts side by side: the rate limit, for any keys, rates, bursts and      *)
(* times of forgetting, in both stores; the items handed to the editor;    *)
(* the quality events and their report; the configuration; the size of a   *)
(* request; and the text of an answer.                                     *)
(***************************************************************************)
EXTENDS Sequential, TLAPS, SequenceTheorems, FiniteSetTheorems, WellFoundedInduction

-----------------------------------------------------------------------------
(* The arithmetic of units and ticks.                                      *)

LEMMA Sizes ==
  /\ Unit \in Nat \ {0} /\ Rate \in Nat \ {0} /\ Second \in Nat \ {0}
  /\ Full \in Nat /\ Full >= Unit
<1>1. Unit \in Nat \ {0} /\ Rate \in Nat \ {0} /\ Second \in Nat \ {0} /\ Burst \in Nat \ {0}
  BY UnitAssumption
<1>2. \A u, b \in Nat \ {0} : b * u \in Nat /\ b * u >= u
  OBVIOUS
<1>3. QED
  BY <1>1, <1>2 DEF Full

\* Ticks bring units one after the other.
LEMMA TickGain ==
  ASSUME NEW a \in Nat
  PROVE  a * Rate \in Nat /\ (a + 1) * Rate = a * Rate + Rate
<1>1. \A r \in Nat : a * r \in Nat /\ (a + 1) * r = a * r + r
  OBVIOUS
<1>2. QED
  BY <1>1, Sizes

LEMMA MoreTicks ==
  ASSUME NEW a \in Nat, NEW b \in Nat, a <= b
  PROVE  a * Rate <= b * Rate
<1>1. \A r, c \in Nat : (a + c) * r = a * r + c * r /\ c * r \in Nat /\ a * r \in Nat
  OBVIOUS
<1>2. b - a \in Nat /\ b = a + (b - a)
  OBVIOUS
<1>3. QED
  BY <1>1, <1>2, Sizes

\* Two seconds of patience beyond the division bring what was missing.
LEMMA RetrySuffices ==
  ASSUME NEW t \in Nat, t < Unit
  PROVE  /\ RetryAfter(t) \in Nat \ {0}
         /\ t + (RetryAfter(t) * Second + Second) * Rate >= Unit
<1> DEFINE m == Rate * Second
           q == (Unit - t) \div m
<1>1. m \in Nat \ {0} /\ Unit - t \in Nat
  BY Sizes
<1>2. \A x \in Nat, y \in Nat \ {0} : x \div y \in Nat /\ x < (x \div y + 1) * y
  OBVIOUS
<1>3. q \in Nat /\ Unit - t < (q + 1) * m
  BY <1>1, <1>2
<1>4. RetryAfter(t) = IF q < 1 THEN 1 ELSE q
  BY DEF RetryAfter
<1> HIDE DEF q, m
<1> DEFINE n == RetryAfter(t)
<1>5. n \in Nat \ {0} /\ q <= n
  BY <1>3, <1>4
<1>6. (q + 1) * m <= (n + 1) * m
  <2>1. \A x, y, z \in Nat : x <= y => x * z <= y * z
    OBVIOUS
  <2>2. q + 1 \in Nat /\ n + 1 \in Nat /\ q + 1 <= n + 1
    BY <1>3, <1>5
  <2>3. QED
    BY <1>1, <2>1, <2>2
<1>7. (n * Second + Second) * Rate = (n + 1) * m
  <2>1. \A x, y, z \in Nat : (x * y + y) * z = (x + 1) * (z * y)
    OBVIOUS
  <2>2. QED
    BY <1>5, <2>1, Sizes DEF m
<1>8. (q + 1) * m \in Nat /\ (n + 1) * m \in Nat
  BY <1>1, <1>3, <1>5
<1>9. Unit - t <= (n * Second + Second) * Rate
  BY <1>1, <1>3, <1>6, <1>7, <1>8
<1> HIDE DEF n
<1>10. t + (n * Second + Second) * Rate >= Unit
  BY <1>7, <1>8, <1>9, Sizes
<1>11. QED
  BY <1>5, <1>10 DEF n

-----------------------------------------------------------------------------
(* The inductive invariant.                                                *)

TypeOK ==
    /\ store \in Stores
    /\ \E D \in SUBSET Keys : buckets \in [D -> [tokens : 0..Full, age : Nat]]
    /\ answer \in [Keys -> {"none", "granted", "refused", "failed"}]
    /\ due \in [Keys -> {None} \cup Int]

\* A refused client will find a token a second after the moment it was named, unless
\* it asks before.
Promise(k) ==
    due[k] # None => due[k] >= -Second /\ Tokens(k) + (due[k] + Second) * Rate >= Unit

IInv == TypeOK /\ \A k \in Keys : Promise(k)

-----------------------------------------------------------------------------
(* The level of a key.                                                     *)

LEMMA BucketShape ==
  ASSUME TypeOK
  PROVE  /\ DOMAIN buckets \subseteq Keys
         /\ \A k \in DOMAIN buckets :
              /\ buckets[k] \in [tokens : 0..Full, age : Nat]
              /\ buckets[k].tokens \in 0..Full /\ buckets[k].age \in Nat
BY DEF TypeOK

LEMMA LevelBounds ==
  ASSUME TypeOK, NEW k \in Keys
  PROVE  Tokens(k) \in 0..Full
<1>1. CASE k \notin Kept
  BY <1>1, Sizes DEF Tokens
<1>2. CASE k \in Kept
  <2> DEFINE b == buckets[k]
  <2>1. b.tokens \in 0..Full /\ b.age \in Nat
    BY <1>2, BucketShape DEF Kept
  <2>2. b.age * Rate \in Nat
    BY <2>1, TickGain
  <2> HIDE DEF b
  <2>3. Refilled(b) \in 0..Full
    BY <2>1, <2>2, Sizes DEF Refilled
  <2>4. QED
    BY <1>2, <2>3 DEF Tokens, b
<1>3. QED
  BY <1>1, <1>2

LEMMA LeftBounds ==
  ASSUME NEW n \in 0..Full
  PROVE  Left(n) \in 0..Full /\ Left(n) = IF n >= Unit THEN n - Unit ELSE n
BY Sizes DEF Left

\* Writing a bucket costs its key what it takes, and the other keys nothing.
Written(k) ==
  /\ \A j \in Keys : Tokens(j)' = IF j = k THEN Left(Tokens(k)) ELSE Tokens(j)
  /\ \A j \in Keys : Idle(j)' = IF j = k THEN 0 ELSE Idle(j)

LEMMA TakeLevels ==
  ASSUME TypeOK, NEW k \in Keys, Take(k), UNCHANGED store
  PROVE  /\ \E D \in SUBSET Keys : buckets' \in [D -> [tokens : 0..Full, age : Nat]]
         /\ Written(k)
<1>1. Tokens(k) \in 0..Full /\ Left(Tokens(k)) \in 0..Full
  BY LevelBounds, LeftBounds
<1>2. Kept \subseteq Keys /\ Kept \subseteq DOMAIN buckets /\ Forget[store] \in Nat
  BY BucketShape, ForgetAssumption DEF Kept, TypeOK
<1>3. /\ DOMAIN buckets' = Kept \cup {k}
      /\ buckets'[k] = [tokens |-> Left(Tokens(k)), age |-> 0]
      /\ \A j \in Kept \ {k} : buckets'[j] = buckets[j]
  BY DEF Take
<1>4. buckets' \in [Kept \cup {k} -> [tokens : 0..Full, age : Nat]]
  <2>1. \A j \in Kept : buckets[j] \in [tokens : 0..Full, age : Nat]
    BY <1>2, BucketShape
  <2>2. [tokens |-> Left(Tokens(k)), age |-> 0] \in [tokens : 0..Full, age : Nat]
    BY <1>1
  <2>3. QED
    BY <2>1, <2>2 DEF Take
<1>5. \A j \in Keys : j \in Kept' <=> j \in Kept \cup {k}
  BY <1>2, <1>3 DEF Kept
<1>6. Tokens(k)' = Left(Tokens(k))
  <2> DEFINE n == Left(Tokens(k))
  <2>1. 0 * Rate = 0
    BY Sizes
  <2>2. Refilled([tokens |-> n, age |-> 0]) = n
    BY <1>1, <2>1, Sizes DEF Refilled
  <2>3. QED
    BY <1>3, <1>5, <2>2 DEF Tokens, Refilled
<1>7. ASSUME NEW j \in Keys, j # k
      PROVE  Tokens(j)' = Tokens(j)
  BY <1>3, <1>5, <1>7 DEF Tokens, Refilled
<1>8. ASSUME NEW j \in Keys
      PROVE  Idle(j)' = IF j = k THEN 0 ELSE Idle(j)
  BY <1>3, <1>5 DEF Idle
<1>9. Kept \cup {k} \in SUBSET Keys
  BY <1>2
<1>10. QED
  BY <1>4, <1>6, <1>7, <1>8, <1>9 DEF Written

\* A tick fills every bucket by its rate, and those that are forgotten with it to the brim.
LEMMA TickLevels ==
  ASSUME TypeOK, Tick
  PROVE  /\ \E D \in SUBSET Keys : buckets' \in [D -> [tokens : 0..Full, age : Nat]]
         /\ \A k \in Keys :
              Tokens(k)' = IF Idle(k) >= Forget[store] THEN Full
                           ELSE IF Tokens(k) + Rate > Full THEN Full ELSE Tokens(k) + Rate
         /\ \A k \in Keys : Idle(k)' = IF Idle(k) > Forget[store] THEN Idle(k) ELSE Idle(k) + 1
<1> DEFINE F == Forget[store]
           D == {j \in DOMAIN buckets : ~Expired(j)}
           older(k) == [buckets[k] EXCEPT !.age = IF @ > F THEN @ ELSE @ + 1]
<1>1. store \in Stores /\ F \in Nat /\ store' = store
  BY ForgetAssumption DEF TypeOK, Tick
<1>2. D \in SUBSET Keys
  BY BucketShape
<1>3. buckets' = [k \in D |-> older(k)]
  BY DEF Tick
<1>4. \A k \in D : /\ older(k) \in [tokens : 0..Full, age : Nat]
                   /\ older(k).tokens = buckets[k].tokens
                   /\ older(k).age = IF buckets[k].age > F THEN buckets[k].age ELSE buckets[k].age + 1
  BY <1>1, BucketShape
<1> HIDE DEF older
<1>5. buckets' \in [D -> [tokens : 0..Full, age : Nat]]
  BY <1>3, <1>4
<1>6. ASSUME NEW k \in Keys
      PROVE  /\ Tokens(k)' = IF Idle(k) >= F THEN Full
                             ELSE IF Tokens(k) + Rate > Full THEN Full ELSE Tokens(k) + Rate
             /\ Idle(k)' = IF Idle(k) > F THEN Idle(k) ELSE Idle(k) + 1
  <2> DEFINE b == buckets[k]
  <2>1. CASE k \in Kept /\ b.age < F
    <3>1. k \in DOMAIN buckets /\ b.tokens \in 0..Full /\ b.age \in Nat
      BY <2>1, BucketShape DEF Kept
    <3>2. k \in D
      BY <1>1, <2>1, <3>1 DEF Expired
    <3>3. buckets'[k].tokens = b.tokens /\ buckets'[k].age = b.age + 1
      BY <1>1, <1>3, <1>4, <2>1, <3>1, <3>2
    <3>4. k \in Kept'
      BY <1>1, <1>3, <2>1, <3>1, <3>2, <3>3 DEF Kept
    <3>5. b.age * Rate \in Nat /\ (b.age + 1) * Rate = b.age * Rate + Rate
      BY <3>1, TickGain
    <3>6. Tokens(k) = Refilled(b) /\ Tokens(k)' = Refilled(buckets[k])'
      BY <2>1, <3>4 DEF Tokens
    <3>7. Idle(k) = b.age /\ Idle(k)' = b.age + 1 /\ b.age < F
      BY <2>1, <3>3, <3>4 DEF Idle
    <3> HIDE DEF b, F
    <3>8. QED
      BY <1>1, <3>1, <3>3, <3>5, <3>6, <3>7, Sizes DEF Refilled
  <2>2. CASE k \in Kept /\ b.age >= F
    <3>1. k \in DOMAIN buckets /\ b.tokens \in 0..Full /\ b.age \in Nat /\ b.age = F
      BY <1>1, <2>2, BucketShape DEF Kept
    <3>2. k \notin Kept'
      <4>1. k \in D => buckets'[k].age = F + 1
        BY <1>1, <1>3, <1>4, <3>1
      <4>2. QED
        BY <1>1, <1>3, <4>1 DEF Kept
    <3>3. Idle(k) = F /\ Idle(k)' = F + 1
      BY <1>1, <2>2, <3>1, <3>2 DEF Idle
    <3>4. Tokens(k)' = Full
      BY <3>2 DEF Tokens, Full
    <3>5. QED
      BY <1>1, <3>3, <3>4
  <2>3. CASE k \notin Kept
    <3>1. k \notin Kept'
      <4>1. k \in D => b.age \in Nat /\ b.age > F
        BY <1>1, <2>3, BucketShape DEF Kept
      <4>2. k \in D => buckets'[k].age = b.age
        BY <1>1, <1>3, <1>4, <4>1
      <4>3. QED
        BY <1>1, <1>3, <4>1, <4>2 DEF Kept
    <3>2. Idle(k) = F + 1 /\ Idle(k)' = F + 1
      BY <1>1, <2>3, <3>1 DEF Idle
    <3>3. Tokens(k)' = Full
      BY <3>1 DEF Tokens, Full
    <3>4. QED
      BY <1>1, <3>2, <3>3
  <2>4. QED
    BY <1>1, <2>1, <2>2, <2>3, BucketShape DEF Kept
<1>7. QED
  BY <1>2, <1>5, <1>6

-----------------------------------------------------------------------------
(* The steps.                                                              *)

LEMMA InitLevels ==
  ASSUME NEW k, buckets = [j \in {} |-> 0]
  PROVE  Tokens(k) = Full /\ Idle(k) = Forget[store] + 1
BY DEF Tokens, Idle, Kept

LEMMA InitIInv == Init => IInv
<1> SUFFICES ASSUME Init
             PROVE  IInv
  OBVIOUS
<1>1. buckets \in [{} -> [tokens : 0..Full, age : Nat]] /\ {} \in SUBSET Keys
  BY DEF Init
<1>2. TypeOK
  BY <1>1 DEF Init, TypeOK
<1>3. \A k \in Keys : Promise(k)
  BY DEF Init, Promise
<1>4. QED
  BY <1>2, <1>3 DEF IInv

\* A request is granted when its token is there, and told when it will be otherwise.
LEMMA AllowStep ==
  ASSUME IInv, NEW k \in Keys, Allow(k)
  PROVE  IInv'
<1>1. Take(k) /\ UNCHANGED store /\ TypeOK
  BY DEF Allow, IInv
<1>2. /\ \E D \in SUBSET Keys : buckets' \in [D -> [tokens : 0..Full, age : Nat]]
      /\ \A j \in Keys : Tokens(j)' = IF j = k THEN Left(Tokens(k)) ELSE Tokens(j)
  BY <1>1, TakeLevels DEF Written
<1>3. Tokens(k) \in 0..Full
  BY <1>1, LevelBounds
<1>4. /\ \A j \in Keys : j # k => due'[j] = due[j]
      /\ \/ due'[k] = None
         \/ Tokens(k) < Unit /\ due'[k] = RetryAfter(Tokens(k)) * Second
      /\ due' \in [Keys -> {None} \cup Int]
      /\ answer' \in [Keys -> {"none", "granted", "refused", "failed"}]
  <2>1. CASE Tokens(k) >= Unit
    BY <1>1, <2>1 DEF Allow, TypeOK
  <2>2. CASE Tokens(k) < Unit
    <3>1. RetryAfter(Tokens(k)) * Second \in Int
      <4>1. RetryAfter(Tokens(k)) \in Nat \ {0}
        BY <1>3, <2>2, RetrySuffices
      <4>2. QED
        BY <4>1, Sizes
    <3>2. QED
      BY <1>1, <1>3, <2>2, <3>1, Sizes DEF Allow, TypeOK
  <2>3. QED
    BY <1>3, <2>1, <2>2, Sizes
<1>5. TypeOK'
  BY <1>1, <1>2, <1>4 DEF TypeOK
<1>6. ASSUME NEW j \in Keys
      PROVE  Promise(j)'
  <2>1. CASE j # k
    BY <1>2, <1>4, <2>1 DEF IInv, Promise
  <2>2. CASE j = k /\ due'[k] = None
    BY <2>2 DEF Promise
  <2>3. CASE j = k /\ Tokens(k) < Unit /\ due'[k] = RetryAfter(Tokens(k)) * Second
    <3>1. Tokens(k)' = Tokens(k)
      BY <1>2, <1>3, <2>3, Sizes DEF Left
    <3>2. /\ RetryAfter(Tokens(k)) \in Nat \ {0}
          /\ Tokens(k) + (RetryAfter(Tokens(k)) * Second + Second) * Rate >= Unit
      BY <1>3, <2>3, RetrySuffices
    <3>3. RetryAfter(Tokens(k)) * Second >= -Second
      <4>1. \A x, y \in Nat : x * y >= -y
        OBVIOUS
      <4>2. QED
        BY <3>2, <4>1, Sizes
    <3>4. QED
      BY <2>3, <3>1, <3>2, <3>3 DEF Promise
  <2>4. QED
    BY <1>4, <2>1, <2>2, <2>3
<1>7. QED
  BY <1>5, <1>6 DEF IInv

LEMMA UnavailableStep ==
  ASSUME IInv, NEW k \in Keys, Unavailable(k)
  PROVE  /\ IInv'
         /\ \/ \A j \in Keys : Tokens(j)' = Tokens(j) /\ Idle(j)' = Idle(j)
            \/ Written(k)
<1>1. TypeOK /\ UNCHANGED store
  BY DEF IInv, Unavailable
<1>2. /\ \E D \in SUBSET Keys : buckets' \in [D -> [tokens : 0..Full, age : Nat]]
      /\ \/ \A j \in Keys : Tokens(j)' = Tokens(j) /\ Idle(j)' = Idle(j)
         \/ Written(k)
  <2>1. CASE Take(k)
    BY <1>1, <2>1, TakeLevels
  <2>2. CASE UNCHANGED buckets
    BY <1>1, <2>2 DEF Tokens, Idle, Kept, Refilled, TypeOK
  <2>3. QED
    BY <2>1, <2>2 DEF Unavailable
<1>3. /\ due' \in [Keys -> {None} \cup Int] /\ due'[k] = None
      /\ \A j \in Keys : j # k => due'[j] = due[j]
      /\ answer' \in [Keys -> {"none", "granted", "refused", "failed"}]
  BY <1>1 DEF TypeOK, Unavailable
<1>4. TypeOK'
  BY <1>1, <1>2, <1>3 DEF TypeOK
<1>5. \A j \in Keys : Promise(j)'
  BY <1>2, <1>3 DEF IInv, Promise, Written
<1>6. QED
  BY <1>2, <1>4, <1>5 DEF IInv

\* A tick brings the moment nearer by what it brings of the token.
LEMMA TickStep ==
  ASSUME IInv, Tick
  PROVE  IInv'
<1>1. TypeOK
  BY DEF IInv
<1>2. /\ \E D \in SUBSET Keys : buckets' \in [D -> [tokens : 0..Full, age : Nat]]
      /\ \A k \in Keys : Tokens(k)' = Full \/ Tokens(k)' = Tokens(k) + Rate
  BY <1>1, TickLevels
<1>3. \A k \in Keys :
        due'[k] = IF due[k] = None \/ due[k] = -Second THEN due[k] ELSE due[k] - 1
  BY DEF Tick
<1>4. due' \in [Keys -> {None} \cup Int] /\ UNCHANGED <<store, answer>>
  BY <1>1 DEF Tick, TypeOK
<1>5. TypeOK'
  BY <1>1, <1>2, <1>4 DEF TypeOK
<1>6. ASSUME NEW k \in Keys, due'[k] # None
      PROVE  due'[k] >= -Second /\ Tokens(k)' + (due'[k] + Second) * Rate >= Unit
  <2>1. due[k] # None
    BY <1>3, <1>6
  <2>2. /\ due[k] \in Int /\ due[k] >= -Second
        /\ Tokens(k) + (due[k] + Second) * Rate >= Unit
    BY <1>1, <2>1 DEF IInv, Promise, TypeOK
  <2>3. Tokens(k) \in 0..Full
    BY <1>1, LevelBounds
  <2>4. /\ due'[k] \in Int /\ due'[k] >= -Second /\ due'[k] + Second \in Nat
        /\ due[k] + Second \in Nat
    BY <1>3, <2>1, <2>2, Sizes
  <2>5. (due'[k] + Second) * Rate \in Nat
    BY <2>4, TickGain
  <2>6. CASE Tokens(k)' = Full
    BY <2>4, <2>5, <2>6, Sizes
  <2>7. CASE Tokens(k)' = Tokens(k) + Rate
    <3>1. CASE due'[k] = due[k]
      BY <2>2, <2>3, <2>4, <2>5, <2>7, <3>1, Sizes
    <3>2. CASE due'[k] = due[k] - 1
      <4>1. due[k] + Second = (due'[k] + Second) + 1
        BY <2>2, <3>2, Sizes
      <4>2. (due[k] + Second) * Rate = (due'[k] + Second) * Rate + Rate
        BY <2>4, <4>1, TickGain
      <4>3. QED
        BY <2>2, <2>3, <2>4, <2>5, <2>7, <4>2, Sizes
    <3>3. QED
      BY <1>3, <3>1, <3>2
  <2>8. QED
    BY <1>2, <2>6, <2>7
<1>7. QED
  BY <1>5, <1>6 DEF IInv, Promise

LEMMA RestartStep ==
  ASSUME IInv, Restart
  PROVE  IInv'
<1>1. buckets' \in [{} -> [tokens : 0..Full, age : Nat]] /\ {} \in SUBSET Keys
  BY DEF Restart
<1>2. TypeOK'
  BY <1>1 DEF IInv, Restart, TypeOK
<1>3. \A k \in Keys : Promise(k)'
  BY DEF Restart, Promise
<1>4. QED
  BY <1>2, <1>3 DEF IInv

LEMMA NextIInv ==
  ASSUME IInv, [Next]_vars
  PROVE  IInv'
<1>1. CASE UNCHANGED vars
  BY <1>1 DEF vars, IInv, TypeOK, Promise, Tokens, Kept, Refilled
<1>2. QED
  BY <1>1, AllowStep, UnavailableStep, TickStep, RestartStep DEF Next

LEMMA Invariance == Spec => []IInv
<1>1. IInv /\ [Next]_vars => IInv'
  BY NextIInv
<1>2. QED
  BY <1>1, InitIInv, PTL DEF Spec

\* Every variable keeps its type; no bucket ever holds more than its burst.
THEOREM TypeCorrect == Spec => []TypeOK
<1>1. IInv => TypeOK
  BY DEF IInv
<1>2. QED
  BY <1>1, Invariance, PTL

-----------------------------------------------------------------------------
(* Retry-After.                                                            *)

\* A client that waits a second longer than Retry-After says is not refused again.
THEOREM PatienceIsRewardedHolds == Spec => PatienceIsRewarded
<1> DEFINE Rewarded(k) == due[k] = -Second => due'[k] \in {None, -Second}
<1>1. ASSUME IInv, [Next]_vars, NEW k \in Keys
      PROVE  Rewarded(k)
  <2> SUFFICES ASSUME due[k] = -Second
               PROVE  due'[k] \in {None, -Second}
    OBVIOUS
  <2>1. due[k] # None /\ TypeOK
    BY <1>1, Sizes, NoneAssumption DEF IInv
  <2>2. Tokens(k) \in 0..Full /\ Tokens(k) >= Unit
    <3>1. Tokens(k) \in 0..Full
      BY <2>1, LevelBounds
    <3>2. Tokens(k) + (due[k] + Second) * Rate >= Unit
      BY <1>1, <2>1 DEF IInv, Promise
    <3>3. (due[k] + Second) * Rate = 0
      BY Sizes
    <3>4. QED
      BY <3>1, <3>2, <3>3, Sizes
  <2>3. ASSUME NEW j \in Keys, Allow(j)
        PROVE  due'[k] \in {None, -Second}
    BY <2>1, <2>2, <2>3, Sizes DEF Allow, TypeOK
  <2>4. ASSUME NEW j \in Keys, Unavailable(j)
        PROVE  due'[k] \in {None, -Second}
    BY <2>1, <2>4 DEF Unavailable, TypeOK
  <2>5. CASE Tick
    BY <2>5 DEF Tick
  <2>6. CASE Restart
    BY <2>6 DEF Restart
  <2>7. CASE UNCHANGED vars
    BY <2>7 DEF vars
  <2>8. QED
    BY <1>1, <2>3, <2>4, <2>5, <2>6, <2>7 DEF Next
<1>2. IInv /\ [Next]_vars => [\A k \in Keys : Rewarded(k)]_vars
  BY <1>1
<1>3. QED
  BY <1>2, Invariance, PTL DEF Spec, PatienceIsRewarded

-----------------------------------------------------------------------------
(* The contract.                                                           *)

\* The levels are what the contract says they are, at every step.
LEMMA ContractStep ==
  ASSUME IInv, [Next]_vars
  PROVE  Contract!Next \/ UNCHANGED Contract!vars
<1> DEFINE level == [k \in Keys |-> Tokens(k)]
           idle == [k \in Keys |-> Idle(k)]
           term == Forget[store]
<1>1. TypeOK /\ (\A k \in Keys : Tokens(k) \in 0..Full) /\ Full \in Nat /\ Unit \in Nat
  BY LevelBounds, Sizes DEF IInv
<1>2. ASSUME NEW k \in Keys, Written(k)
      PROVE  /\ IF level[k] >= Unit THEN level' = [level EXCEPT ![k] = @ - Unit] ELSE level' = level
             /\ idle' = [idle EXCEPT ![k] = 0]
  <2>1. /\ level' = [level EXCEPT ![k] = Left(Tokens(k))]
        /\ idle' = [idle EXCEPT ![k] = 0]
    BY <1>2 DEF Written
  <2>2. level[k] = Tokens(k)
    OBVIOUS
  <2>3. [level EXCEPT ![k] = level[k]] = level
    OBVIOUS
  <2> HIDE DEF level, idle
  <2>4. QED
    BY <2>1, <2>2, <2>3 DEF Left
<1>3. ASSUME NEW k \in Keys, Allow(k)
      PROVE  Contract!Grant(k) \/ Contract!Refuse(k)
  <2>1. Written(k) /\ term' = term
    BY <1>1, <1>3, TakeLevels DEF Allow
  <2>2. /\ IF level[k] >= Unit THEN level' = [level EXCEPT ![k] = @ - Unit] ELSE level' = level
        /\ idle' = [idle EXCEPT ![k] = 0]
    BY <1>2, <2>1
  <2>3. level[k] = Tokens(k) /\ level[k] \in Nat
    BY <1>1
  <2> HIDE DEF level, idle, term
  <2>4. CASE level[k] >= Unit
    BY <1>3, <2>1, <2>2, <2>3, <2>4 DEF Allow, Contract!Grant, Contract!Asked, level, idle, term
  <2>5. CASE level[k] < Unit
    BY <1>1, <1>3, <2>1, <2>2, <2>3, <2>5 DEF Allow, Contract!Refuse, Contract!Asked, level, idle, term
  <2>6. QED
    BY <1>1, <2>3, <2>4, <2>5
<1>4. ASSUME NEW k \in Keys, Unavailable(k)
      PROVE  Contract!Fail(k)
  <2>1. answer' = [answer EXCEPT ![k] = "failed"] /\ term' = term
    BY <1>4 DEF Unavailable
  <2>2. \/ level' = level /\ idle' = idle
        \/ level[k] >= Unit /\ level' = [level EXCEPT ![k] = @ - Unit] /\ idle' = [idle EXCEPT ![k] = 0]
        \/ level[k] < Unit /\ level' = level /\ idle' = [idle EXCEPT ![k] = 0]
    <3>1. CASE \A j \in Keys : Tokens(j)' = Tokens(j) /\ Idle(j)' = Idle(j)
      BY <3>1
    <3>2. CASE Written(k)
      <4>1. level[k] \in Nat
        BY <1>1
      <4> HIDE DEF level, idle
      <4>2. level[k] >= Unit \/ level[k] < Unit
        BY <1>1, <4>1
      <4>3. QED
        BY <1>2, <3>2, <4>2
    <3>3. QED
      BY <1>4, <3>1, <3>2, UnavailableStep
  <2> HIDE DEF level, idle, term
  <2>3. QED
    BY <2>1, <2>2 DEF Contract!Fail, Contract!Asked, level, idle, term
<1>5. CASE Tick
  <2>1. /\ \A k \in Keys :
              Tokens(k)' = IF Idle(k) >= term THEN Full
                           ELSE IF Tokens(k) + Rate > Full THEN Full ELSE Tokens(k) + Rate
        /\ \A k \in Keys : Idle(k)' = IF Idle(k) > term THEN Idle(k) ELSE Idle(k) + 1
    BY <1>1, <1>5, TickLevels
  <2>2. /\ level' = [k \in Keys |-> IF idle[k] >= term THEN Full ELSE Contract!Filled(level[k] + Rate)]
        /\ idle' = [k \in Keys |-> IF idle[k] > term THEN idle[k] ELSE idle[k] + 1]
    <3> HIDE DEF term
    <3>1. QED
      BY <2>1 DEF Contract!Filled
  <2>3. answer' = answer /\ term' = term
    BY <1>5 DEF Tick
  <2> HIDE DEF level, idle, term
  <2>4. Contract!Tick
    BY <2>2, <2>3 DEF Contract!Tick, level, idle, term
  <2>5. QED
    BY <2>4 DEF Contract!Next
<1>6. CASE Restart
  <2>1. \A k \in Keys : Tokens(k)' = Full /\ Idle(k)' = Forget[store] + 1
    BY <1>6 DEF Restart, Tokens, Idle, Full, Kept
  <2>2. Contract!Restart
    BY <1>6, <2>1 DEF Restart, Contract!Restart
  <2>3. QED
    BY <2>2 DEF Contract!Next
<1>7. CASE UNCHANGED vars
  BY <1>7 DEF vars, Tokens, Idle, Kept, Refilled, Contract!vars
<1>8. QED
  BY <1>3, <1>4, <1>5, <1>6, <1>7 DEF Next, Contract!Next

\* Refilling late, sweeping, expiring and losing replies keep the contract, in both
\* stores: the level of a key is what it would find if it asked now, and only a key that
\* has not asked for the whole time of its store is given more than the ticks brought.
THEOREM Refinement == Spec => ImplementsContract
<1>1. Init => Contract!Init
  BY InitLevels DEF Init, Contract!Init
<1>2. IInv /\ [Next]_vars => [Contract!Next]_(Contract!vars)
  BY ContractStep
<1>3. QED
  BY <1>1, <1>2, Invariance, PTL DEF Spec, ImplementsContract, Contract!Spec

-----------------------------------------------------------------------------
(* InlineCompletion: what the editor is handed.                            *)

\* The plans of a version and a position were computed for that version.
Plans == {[key |-> <<v, p>>, version |-> v] : v \in Nat, p \in Positions \cup {None}}

InlineCall ==
    [at : {"new", "permission", "waiting", "over"}, position : Positions \cup {None},
     cancelled : BOOLEAN, version : Nat \cup {None}]

InlineType ==
    /\ version \in Nat /\ enabled \in BOOLEAN
    /\ call \in [Calls -> InlineCall]
    /\ lookup \in [Calls -> Nat \cup {None}]
    /\ plans \in Seq(Plans)

\* The resolver's map: a key has one set of plans, and there are few of them.
MapOK ==
    /\ Len(plans) <= MaxPlans
    /\ \A i, j \in DOMAIN plans : plans[i].key = plans[j].key => i = j

InlineInv == InlineType /\ MapOK /\ Inline!ItemsFitTheText

LEMMA PlanFacts ==
  ASSUME NEW e \in Plans
  PROVE  \E v \in Nat, p \in Positions \cup {None} : e.key = <<v, p>> /\ e.version = v
  BY DEF Plans

LEMMA RemovedOne ==
  ASSUME NEW S, NEW s \in Seq(S), NEW i \in 1..Len(s)
  PROVE  /\ Inline!RemoveAt(s, i) \in Seq(S)
         /\ Len(Inline!RemoveAt(s, i)) = Len(s) - 1
         /\ \A j \in 1..(Len(s) - 1) :
              Inline!RemoveAt(s, i)[j] = s[IF j < i THEN j ELSE j + 1]
<1>1. Len(s) \in Nat /\ i \in Nat /\ 1 <= i /\ i <= Len(s)
  OBVIOUS
<1> DEFINE a == SubSeq(s, 1, i - 1)
           b == SubSeq(s, i + 1, Len(s))
<1>2. a \in Seq(S) /\ Len(a) = i - 1 /\ \A j \in 1..(i - 1) : a[j] = s[j]
  BY <1>1
<1>3. b \in Seq(S) /\ Len(b) = Len(s) - i /\ \A j \in 1..(Len(s) - i) : b[j] = s[i + j]
  BY <1>1
<1>4. Inline!RemoveAt(s, i) = a \o b
  BY DEF Inline!RemoveAt
<1> HIDE DEF a, b
<1>5. /\ a \o b \in Seq(S) /\ Len(a \o b) = Len(a) + Len(b)
      /\ \A j \in 1..(Len(a) + Len(b)) :
           (a \o b)[j] = IF j <= Len(a) THEN a[j] ELSE b[j - Len(a)]
  BY <1>2, <1>3, ConcatProperties
<1>6. Len(a) + Len(b) = Len(s) - 1
  BY <1>1, <1>2, <1>3
<1>7. ASSUME NEW j \in 1..(Len(s) - 1)
      PROVE  (a \o b)[j] = s[IF j < i THEN j ELSE j + 1]
  <2>1. (a \o b)[j] = IF j <= i - 1 THEN a[j] ELSE b[j - (i - 1)]
    BY <1>2, <1>5, <1>6
  <2>2. CASE j < i
    <3>1. j <= i - 1 /\ j \in 1..(i - 1)
      BY <1>1, <2>2
    <3>2. QED
      BY <1>2, <2>1, <2>2, <3>1
  <2>3. CASE j >= i
    <3>1. j - (i - 1) \in 1..(Len(s) - i) /\ i + (j - (i - 1)) = j + 1 /\ ~(j <= i - 1) /\ ~(j < i)
      BY <1>1, <2>3
    <3>2. QED
      BY <1>3, <2>1, <3>1
  <2>4. j < i \/ j >= i
    BY <1>1
  <2>5. QED
    BY <2>2, <2>3, <2>4
<1>8. QED
  BY <1>4, <1>5, <1>6, <1>7

\* The key is gone, the others stay, in their order.
LEMMA WithoutKey ==
  ASSUME InlineType, MapOK, NEW key
  PROVE  /\ Inline!Without(key) \in Seq(Plans)
         /\ Len(Inline!Without(key)) <= Len(plans)
         /\ \A j \in 1..Len(Inline!Without(key)) : Inline!Without(key)[j].key # key
         /\ \A i, j \in 1..Len(Inline!Without(key)) :
              Inline!Without(key)[i].key = Inline!Without(key)[j].key => i = j
<1>1. plans \in Seq(Plans) /\ Len(plans) \in Nat /\ DOMAIN plans = 1..Len(plans)
  BY DEF InlineType
<1> DEFINE found == {i \in DOMAIN plans : plans[i].key = key}
           one == CHOOSE i \in found : TRUE
<1>2. CASE found = {}
  <2>1. Inline!Without(key) = plans
    BY <1>2 DEF Inline!Without
  <2>2. QED
    BY <1>1, <1>2, <2>1 DEF MapOK
<1>3. CASE found # {}
  <2>1. one \in found
    BY <1>3
  <2>2. Inline!Without(key) = Inline!RemoveAt(plans, one)
    BY <1>3 DEF Inline!Without
  <2> HIDE DEF one
  <2>3. one \in 1..Len(plans) /\ plans[one].key = key
    BY <1>1, <2>1
  <2> DEFINE w == Inline!RemoveAt(plans, one)
             old(j) == IF j < one THEN j ELSE j + 1
  <2>4. /\ w \in Seq(Plans) /\ Len(w) = Len(plans) - 1
        /\ \A j \in 1..(Len(plans) - 1) : w[j] = plans[old(j)]
    BY <1>1, <2>3, RemovedOne
  <2> HIDE DEF w
  <2>5. ASSUME NEW j \in 1..(Len(plans) - 1)
        PROVE  old(j) \in 1..Len(plans) /\ old(j) # one
    BY <1>1, <2>3
  <2>6. ASSUME NEW i \in 1..(Len(plans) - 1), NEW j \in 1..(Len(plans) - 1), old(i) = old(j)
        PROVE  i = j
    BY <1>1, <2>3, <2>6
  <2> HIDE DEF old
  <2>7. \A j \in 1..(Len(plans) - 1) : w[j].key # key
    BY <1>1, <2>3, <2>4, <2>5 DEF MapOK
  <2>8. \A i, j \in 1..(Len(plans) - 1) : w[i].key = w[j].key => i = j
    BY <1>1, <2>4, <2>5, <2>6 DEF MapOK
  <2>9. Len(w) <= Len(plans)
    BY <1>1, <2>4
  <2>10. QED
    BY <2>2, <2>4, <2>7, <2>8, <2>9 DEF w
<1>4. QED
  BY <1>2, <1>3

\* What is kept is a map with few entries again.
LEMMA KeptMap ==
  ASSUME InlineType, MapOK, Inline!PlansAssumption, NEW e \in Plans
  PROVE  /\ Inline!Kept(e) \in Seq(Plans)
         /\ Len(Inline!Kept(e)) <= MaxPlans
         /\ \A i, j \in 1..Len(Inline!Kept(e)) : Inline!Kept(e)[i].key = Inline!Kept(e)[j].key => i = j
<1> DEFINE w == Inline!Without(e.key)
           all == Append(w, e)
<1>1. /\ w \in Seq(Plans) /\ Len(w) \in Nat /\ Len(w) <= MaxPlans /\ MaxPlans \in Nat /\ MaxPlans > 0
      /\ \A j \in 1..Len(w) : w[j].key # e.key
      /\ \A i, j \in 1..Len(w) : w[i].key = w[j].key => i = j
  <2>1. Len(plans) \in Nat /\ Len(plans) <= MaxPlans /\ MaxPlans \in Nat /\ MaxPlans > 0
    BY DEF InlineType, MapOK, Inline!PlansAssumption
  <2>2. /\ w \in Seq(Plans) /\ Len(w) <= Len(plans)
        /\ \A j \in 1..Len(w) : w[j].key # e.key
        /\ \A i, j \in 1..Len(w) : w[i].key = w[j].key => i = j
    BY WithoutKey
  <2> HIDE DEF w
  <2>3. Len(w) \in Nat
    BY <2>2
  <2>4. QED
    BY <2>1, <2>2, <2>3
<1>2. Inline!Kept(e) = IF Len(all) > MaxPlans THEN Tail(all) ELSE all
  BY DEF Inline!Kept
<1> HIDE DEF w
<1>3. /\ all \in Seq(Plans) /\ Len(all) = Len(w) + 1 /\ all[Len(w) + 1] = e
      /\ \A j \in 1..Len(w) : all[j] = w[j]
  BY <1>1, AppendProperties
<1> HIDE DEF all
<1>4. ASSUME NEW i \in 1..(Len(w) + 1), NEW j \in 1..(Len(w) + 1), all[i].key = all[j].key
      PROVE  i = j
  <2>1. (i \in 1..Len(w) \/ i = Len(w) + 1) /\ (j \in 1..Len(w) \/ j = Len(w) + 1)
    BY <1>1
  <2>2. QED
    BY <1>1, <1>3, <1>4, <2>1
<1>5. CASE ~(Len(all) > MaxPlans)
  <2>1. Inline!Kept(e) = all /\ Len(all) <= MaxPlans
    BY <1>1, <1>2, <1>3, <1>5
  <2>2. QED
    BY <1>3, <1>4, <2>1
<1>6. CASE Len(all) > MaxPlans
  <2>1. Inline!Kept(e) = Tail(all) /\ all # <<>>
    BY <1>1, <1>2, <1>3, <1>6
  <2>2. /\ Tail(all) \in Seq(Plans) /\ Len(Tail(all)) = Len(w)
        /\ \A i \in 1..Len(w) : Tail(all)[i] = all[i + 1]
    BY <1>1, <1>3, <2>1, HeadTailProperties
  <2>3. \A i \in 1..Len(w) : i + 1 \in 1..(Len(w) + 1)
    BY <1>1
  <2>4. ASSUME NEW i \in 1..Len(w), NEW j \in 1..Len(w), Tail(all)[i].key = Tail(all)[j].key
        PROVE  i = j
    <3>1. i + 1 = j + 1
      BY SMTT(60), <1>4, <2>2, <2>3, <2>4
    <3>2. QED
      BY <1>1, <3>1
  <2>5. QED
    BY <1>1, <2>1, <2>2, <2>4
<1>7. QED
  BY <1>5, <1>6

\* Only a look-up changes the plans, and only an answer the items.
LEMMA PrefetchStep ==
  ASSUME Inline!PlansAssumption, InlineInv, NEW k \in Calls, Inline!Prefetch(k)
  PROVE  InlineInv'
<1>1. /\ InlineType /\ MapOK /\ Inline!ItemsFitTheText
      /\ UNCHANGED <<version, enabled, call, items>>
      /\ lookup' = [lookup EXCEPT ![k] = None]
  BY DEF InlineInv, Inline!Prefetch
<1>2. CASE UNCHANGED plans
  BY <1>1, <1>2 DEF InlineInv, InlineType, MapOK, Inline!ItemsFitTheText
<1>3. CASE /\ lookup[k] = version
           /\ plans' = Inline!Kept([key |-> Inline!Key(lookup[k], call[k].position), version |-> version])
  <2>1. call[k].position \in Positions \cup {None} /\ version \in Nat
    BY <1>1 DEF InlineType, InlineCall
  <2> DEFINE e == [key |-> <<version, call[k].position>>, version |-> version]
  <2>2. e \in Plans
    <3>1. \E v \in Nat, p \in Positions \cup {None} : e = [key |-> <<v, p>>, version |-> v]
      BY <2>1
    <3> HIDE DEF e
    <3>2. QED
      BY <3>1 DEF Plans
  <2>3. plans' = Inline!Kept(e)
    BY <1>3 DEF Inline!Key
  <2> HIDE DEF e
  <2>4. /\ plans' \in Seq(Plans) /\ Len(plans') <= MaxPlans
        /\ \A i, j \in 1..Len(plans') : plans'[i].key = plans'[j].key => i = j
    BY <1>1, <2>2, <2>3, KeptMap
  <2>5. DOMAIN plans' = 1..Len(plans')
    BY <2>4
  <2>6. QED
    BY <1>1, <2>4, <2>5 DEF InlineInv, InlineType, MapOK, Inline!ItemsFitTheText
<1>4. QED
  BY <1>2, <1>3 DEF Inline!Prefetch

LEMMA AnswerStep ==
  ASSUME InlineInv, NEW k \in Calls, Inline!Answer(k)
  PROVE  InlineInv'
<1>1. /\ InlineType /\ MapOK /\ Inline!ItemsFitTheText
      /\ UNCHANGED <<version, enabled, lookup, plans>>
      /\ call' = [call EXCEPT ![k].at = "over"]
  BY DEF InlineInv, Inline!Answer, Inline!Finish
<1>2. call' \in [Calls -> InlineCall]
  BY <1>1 DEF InlineType, InlineCall
<1>3. ASSUME NEW plan \in Inline!Prefetched(k) \cup {None}, Inline!IsCurrent(k)
      PROVE  call[k].version = version /\ plan \in {None, version}
  <2>1. call[k].version = version
    BY <1>3 DEF Inline!IsCurrent
  <2>2. CASE plan \in Inline!Prefetched(k)
    <3>1. PICK i \in DOMAIN plans :
            plans[i].key = <<version, call[k].position>> /\ plan = plans[i].version
      BY <2>2 DEF Inline!Prefetched, Inline!Key
    <3>2. plans[i] \in Plans
      BY <1>1 DEF InlineType
    <3>3. PICK v \in Nat, p \in Positions \cup {None} :
            plans[i].key = <<v, p>> /\ plans[i].version = v
      BY <3>2, PlanFacts
    <3>4. QED
      BY <2>1, <3>1, <3>3
  <2>3. QED
    BY <1>3, <2>1, <2>2
<1>4. Inline!ItemsFitTheText'
  <2>1. CASE UNCHANGED items
    BY <1>1, <2>1 DEF Inline!ItemsFitTheText
  <2>2. CASE Inline!IsCurrent(k)
             /\ \E plan \in Inline!Prefetched(k) \cup {None} :
                  items' = items \cup {[version |-> version, request |-> call[k].version, plan |-> plan]}
    BY <1>1, <1>3, <2>2 DEF Inline!ItemsFitTheText
  <2>3. QED
    BY <2>1, <2>2 DEF Inline!Answer
<1>5. QED
  BY <1>1, <1>2, <1>4 DEF InlineInv, InlineType, MapOK

LEMMA InlineNext ==
  ASSUME Inline!PlansAssumption, InlineInv, [Inline!Next]_(Inline!vars)
  PROVE  InlineInv'
<1>1. ASSUME UNCHANGED <<plans, items>>
      PROVE  (MapOK /\ Inline!ItemsFitTheText)' /\ plans' \in Seq(Plans)
  BY <1>1 DEF InlineInv, InlineType, MapOK, Inline!ItemsFitTheText
<1>2. ASSUME NEW k \in Calls, Inline!Permitted(k)
      PROVE  InlineInv'
  <2>1. UNCHANGED <<version, enabled, plans, items>> /\ version \in Nat
    BY <1>2 DEF InlineInv, InlineType, Inline!Permitted
  <2>2. lookup' \in [Calls -> Nat \cup {None}]
    BY <1>2, <2>1 DEF InlineInv, InlineType, Inline!Permitted
  <2>3. call' = [call EXCEPT ![k].at = "over"] \/ call' = [call EXCEPT ![k].at = "waiting", ![k].version = version]
    BY <1>2 DEF Inline!Permitted, Inline!Finish
  <2>4. call' \in [Calls -> InlineCall]
    <3>1. call \in [Calls -> InlineCall]
      BY DEF InlineInv, InlineType
    <3>2. CASE call' = [call EXCEPT ![k].at = "over"]
      BY <3>1, <3>2 DEF InlineCall
    <3>3. CASE call' = [call EXCEPT ![k].at = "waiting", ![k].version = version]
      BY <2>1, <3>1, <3>3 DEF InlineCall
    <3>4. QED
      BY <2>3, <3>2, <3>3
  <2>5. QED
    BY <1>1, <2>1, <2>2, <2>4 DEF InlineInv, InlineType
<1>3. ASSUME NEW k \in Calls, NEW p \in Positions, Inline!Provide(k, p)
      PROVE  InlineInv'
  BY <1>1, <1>3 DEF InlineInv, InlineType, InlineCall, Inline!Provide
<1>4. ASSUME NEW k \in Calls, Inline!Cancel(k)
      PROVE  InlineInv'
  BY <1>1, <1>4 DEF InlineInv, InlineType, InlineCall, Inline!Cancel
<1>5. ASSUME Inline!Edit \/ Inline!Switch \/ UNCHANGED Inline!vars
      PROVE  InlineInv'
  <2>1. UNCHANGED <<call, lookup, plans, items>>
    BY <1>5 DEF Inline!Edit, Inline!Switch, Inline!vars
  <2>2. version \in Nat => version' \in Nat
    BY <1>5 DEF Inline!Edit, Inline!Switch, Inline!vars
  <2>3. enabled \in BOOLEAN => enabled' \in BOOLEAN
    BY <1>5 DEF Inline!Edit, Inline!Switch, Inline!vars
  <2>4. QED
    BY <1>1, <2>1, <2>2, <2>3 DEF InlineInv, InlineType
<1>6. QED
  BY <1>2, <1>3, <1>4, <1>5, AnswerStep, PrefetchStep DEF Inline!Next

LEMMA InlineInit ==
  ASSUME Inline!PlansAssumption
  PROVE  Inline!Init => InlineInv
  BY DEF Inline!Init, Inline!PlansAssumption, InlineInv, InlineType, InlineCall, MapOK, Inline!ItemsFitTheText

\* inlineCompletionProvider.ts: an item is handed out for the text its request was built
\* from, with an import computed for that same text, whatever is typed meanwhile.
LEMMA InlineItemsFit ==
  ASSUME Inline!PlansAssumption
  PROVE  Inline!Spec => []Inline!ItemsFitTheText
<1>1. Inline!Init => InlineInv
  BY InlineInit
<1>2. InlineInv /\ [Inline!Next]_(Inline!vars) => InlineInv'
  BY InlineNext
<1>3. InlineInv => Inline!ItemsFitTheText
  BY DEF InlineInv
<1>4. QED
  BY <1>1, <1>2, <1>3, PTL DEF Inline!Spec

-----------------------------------------------------------------------------
(* QualityEvents: what is recorded, and the report about it.               *)

Events == [id : Nat, completion : Completions, type : Quality!Outcomes \cup Quality!Votes]

Rows == [id : Nat, completion : Completions, type : Quality!Outcomes \cup Quality!Votes, created : Nat]

QualityType ==
    /\ insights \in [on : BOOLEAN, available : BOOLEAN]
    /\ shown \in SUBSET Completions /\ context \in SUBSET Completions
    /\ lastShown \in Completions \cup {None}
    /\ wire \in SUBSET Events /\ serial \in Nat
    /\ server \in [recording : Recordings, percent : Percents]
    /\ table \in SUBSET Rows /\ now \in Nat /\ lost \in BOOLEAN
    /\ report \in [at : {"none", "done"} \cup Quality!Parts, window : Nat, asked : [Quality!Parts -> Nat],
                   rows : [Quality!Parts -> SUBSET Rows]]

\* A part that has been asked: its rows are still recorded, and what it left out has come
\* since or was outside the window already.
Counted(part) ==
    /\ report.asked[part] <= now
    /\ report.rows[part] \subseteq table
    /\ \A row \in table \ report.rows[part] :
         row.type \in Quality!Counts(part) =>
           \/ row.created >= report.asked[part]
           \/ ~Quality!Recent(row, report.window, report.asked[part])

\* How far a report has come.
Growing ==
    /\ report.at = "dimensions" => Counted("summary")
    /\ report.at = "trend" => Counted("dimensions") /\ Quality!FollowsOn("summary", "dimensions")
    /\ report.at = "feedback" =>
         /\ Counted("trend")
         /\ Quality!FollowsOn("summary", "dimensions") /\ Quality!FollowsOn("dimensions", "trend")
    /\ Quality!ReportAddsUp

\* Everything that is under way or recorded is about a completion that was offered; and of
\* one that was, the "shown" event is under way, recorded, or not sampled.
Announced ==
    /\ \A e \in wire : e.completion \in context
    /\ \A row \in table : row.completion \in context /\ Bucket[row.completion] < server.percent
    /\ lastShown \in context \cup {None}
    /\ \A c \in context :
         \/ \E e \in wire : e.completion = c /\ e.type = "shown"
         \/ \E row \in table : row.completion = c /\ row.type = "shown"
         \/ ~(Bucket[c] < server.percent)

QualityAssumptions ==
    /\ Quality!BucketAssumption /\ Quality!ServerAssumption
    /\ Quality!TimeAssumption /\ Quality!NoneAssumption

LEMMA Names ==
  /\ "shown" \in Quality!Outcomes /\ "accepted" \in Quality!Outcomes
  /\ "shown" \notin Quality!Votes
  /\ \A p \in Quality!Parts : p \notin {"none", "done"}
  BY DEF Quality!Outcomes, Quality!Votes, Quality!Parts

\* An event is sent.
LEMMA SendType ==
  ASSUME QualityType, NEW c \in Completions, NEW type \in Quality!Outcomes \cup Quality!Votes,
         Quality!Send(c, type)
  PROVE  /\ wire' \in SUBSET Events /\ serial' \in Nat
         /\ \E e \in Events : e.completion = c /\ e.type = type /\ wire' = wire \cup {e}
<1> DEFINE e == [id |-> serial, completion |-> c, type |-> type]
<1>1. serial \in Nat /\ wire \in SUBSET Events /\ serial' = serial + 1 /\ wire' = wire \cup {e}
  BY DEF QualityType, Quality!Send
<1>2. e \in Events /\ e.completion = c /\ e.type = type
  BY <1>1 DEF Events
<1> HIDE DEF e
<1>3. QED
  BY <1>1, <1>2

\* An event is recorded, or not.
LEMMA RecordTable ==
  ASSUME QualityType, NEW e \in wire, Quality!Record(e)
  PROVE  /\ wire' = wire \ {e}
         /\ UNCHANGED <<shown, context, lastShown, serial, server, now, report>>
         /\ insights' \in [on : BOOLEAN, available : BOOLEAN]
         /\ table \subseteq table' /\ table' \in SUBSET Rows
         /\ \A row \in table' \ table :
              /\ Quality!Sampled(e) /\ row.completion = e.completion /\ row.type = e.type
              /\ row.created = now
         /\ server.recording /\ Quality!Sampled(e) =>
              Quality!Conflicts(e) \/ \E row \in table' : row.completion = e.completion /\ row.type = e.type
<1> DEFINE new == [id |-> e.id, completion |-> e.completion, type |-> e.type, created |-> now]
<1>1. /\ wire' = wire \ {e}
      /\ UNCHANGED <<shown, context, lastShown, serial, server, now, report>>
  BY DEF Quality!Record
<1>2. insights' \in [on : BOOLEAN, available : BOOLEAN]
  BY DEF QualityType, Quality!Record
<1>3. new \in Rows /\ new.completion = e.completion /\ new.type = e.type /\ new.created = now
  BY DEF QualityType, Events, Rows
<1>4. \/ table' = table /\ (server.recording /\ Quality!Sampled(e) => Quality!Conflicts(e))
      \/ table' = table \cup {new} /\ Quality!Sampled(e)
  BY DEF Quality!Record, Quality!RecordQualityEvent
<1> HIDE DEF new
<1>5. QED
  BY <1>1, <1>2, <1>3, <1>4 DEF QualityType

LEMMA SampledByHash ==
  ASSUME QualityAssumptions, QualityType, NEW e \in Events
  PROVE  Quality!Sampled(e) <=> Bucket[e.completion] < server.percent
<1>1. Bucket[e.completion] \in 0..99 /\ server.percent \in 0..100
  BY DEF QualityAssumptions, QualityType, Events, Quality!BucketAssumption, Quality!ServerAssumption
<1>2. CASE server.percent = 0
  BY <1>1, <1>2 DEF Quality!Sampled
<1>3. CASE server.percent >= 100
  BY <1>1, <1>3 DEF Quality!Sampled
<1>4. CASE server.percent # 0 /\ ~(server.percent >= 100)
  BY <1>1, <1>4 DEF Quality!Sampled
<1>5. QED
  BY <1>2, <1>3, <1>4

\* The steps that change neither the recorded events nor the report.
Reporter ==
    \/ \E on \in BOOLEAN : Quality!Configure(on)
    \/ \E c \in Completions : Quality!Shown(c) \/ Quality!Accepted(c)
    \/ \E vote \in Quality!Votes : Quality!Feedback(vote)
    \/ \E e \in wire : Quality!Lose(e)

\* What is lost stays lost.
LEMMA LostStays ==
  ASSUME [Quality!Next]_(Quality!vars)
  PROVE  lost => lost'
  BY DEF Quality!Next, Quality!vars, Quality!Configure, Quality!Shown, Quality!Accepted,
     Quality!Feedback, Quality!Record, Quality!Lose, Quality!StartUp, Quality!Later,
     Quality!AdminQuality, Quality!QueryPart, Quality!QueryFails

LEMMA ReporterType ==
  ASSUME QualityAssumptions, QualityType, Reporter
  PROVE  QualityType' /\ UNCHANGED <<server, table, now, report>>
<1>1. UNCHANGED <<server, table, now, report>> /\ lost' \in BOOLEAN
  BY DEF QualityType, Reporter, Quality!Configure, Quality!Shown, Quality!Accepted, Quality!Feedback,
     Quality!Lose
<1> SUFFICES /\ insights' \in [on : BOOLEAN, available : BOOLEAN]
             /\ shown' \in SUBSET Completions /\ context' \in SUBSET Completions
             /\ lastShown' \in Completions \cup {None}
             /\ wire' \in SUBSET Events /\ serial' \in Nat
  BY <1>1 DEF QualityType
<1>2. CASE \E on \in BOOLEAN : Quality!Configure(on)
  BY <1>2 DEF QualityType, Quality!Configure
<1>3. ASSUME NEW c \in Completions, Quality!Shown(c)
      PROVE  /\ insights' \in [on : BOOLEAN, available : BOOLEAN]
             /\ shown' \in SUBSET Completions /\ context' \in SUBSET Completions
             /\ lastShown' \in Completions \cup {None}
             /\ wire' \in SUBSET Events /\ serial' \in Nat
  <2>1. UNCHANGED insights /\ shown' = shown \cup {c}
    BY <1>3 DEF Quality!Shown
  <2>2. CASE Quality!Offers
    BY <1>3, <2>1, <2>2, SendType, Names DEF QualityType, Quality!Shown
  <2>3. CASE ~Quality!Offers
    BY <1>3, <2>1, <2>3 DEF QualityType, Quality!Shown
  <2>4. QED
    BY <2>2, <2>3
<1>4. ASSUME NEW c \in Completions, Quality!Accepted(c)
      PROVE  /\ insights' \in [on : BOOLEAN, available : BOOLEAN]
             /\ shown' \in SUBSET Completions /\ context' \in SUBSET Completions
             /\ lastShown' \in Completions \cup {None}
             /\ wire' \in SUBSET Events /\ serial' \in Nat
  BY <1>4, SendType, Names DEF QualityType, Quality!Accepted
<1>5. ASSUME NEW vote \in Quality!Votes, Quality!Feedback(vote)
      PROVE  /\ insights' \in [on : BOOLEAN, available : BOOLEAN]
             /\ shown' \in SUBSET Completions /\ context' \in SUBSET Completions
             /\ lastShown' \in Completions \cup {None}
             /\ wire' \in SUBSET Events /\ serial' \in Nat
  BY <1>5, SendType DEF QualityType, Quality!Feedback
<1>6. CASE \E e \in wire : Quality!Lose(e)
  BY <1>6 DEF QualityType, Quality!Lose
<1>7. QED
  BY <1>2, <1>3, <1>4, <1>5, <1>6 DEF Reporter

LEMMA RecordType ==
  ASSUME QualityType, NEW e \in wire, Quality!Record(e)
  PROVE  QualityType'
<1>1. lost' \in BOOLEAN
  BY DEF QualityType, Quality!Record
<1>2. QED
  BY <1>1, RecordTable DEF QualityType

LEMMA NoReportType ==
  Quality!NoReport \in [at : {"none", "done"} \cup Quality!Parts, window : Nat, asked : [Quality!Parts -> Nat],
                        rows : [Quality!Parts -> SUBSET Rows]]
  BY DEF Quality!NoReport

LEMMA StartUpType ==
  ASSUME QualityType, NEW recording \in Recordings, NEW percent \in Percents,
         Quality!StartUp(recording, percent)
  PROVE  QualityType' /\ table' \subseteq table /\ report' = Quality!NoReport
<1>1. table' \subseteq table
  BY DEF Quality!StartUp, Quality!DeleteQualityEventsBefore
<1>2. report' \in [at : {"none", "done"} \cup Quality!Parts, window : Nat, asked : [Quality!Parts -> Nat],
                   rows : [Quality!Parts -> SUBSET Rows]]
  BY NoReportType DEF Quality!StartUp
<1>3. report' = Quality!NoReport
  BY DEF Quality!StartUp
<1>4. QED
  BY <1>1, <1>2, <1>3 DEF QualityType, Quality!StartUp

\* What a part finds.
Found(part) ==
  {row \in table : row.type \in Quality!Counts(part) /\ Quality!Recent(row, report.window, now)}

\* What the parts of a report do to it.
LEMMA QueryShape ==
  ASSUME QualityType, NEW part \in Quality!Parts, Quality!QueryPart(part)
  PROVE  /\ UNCHANGED <<insights, shown, context, lastShown, wire, serial, server, table, now, lost>>
         /\ report.at = part /\ report'.at = Quality!After[part]
         /\ report'.window = report.window
         /\ report'.asked[part] = now /\ report'.rows[part] = Found(part)
         /\ \A p \in Quality!Parts \ {part} :
              report'.asked[p] = report.asked[p] /\ report'.rows[p] = report.rows[p]
         /\ QualityType'
<1>1. /\ UNCHANGED <<insights, shown, context, lastShown, wire, serial, server, table, now, lost>>
      /\ report.at = part
      /\ report' = [report EXCEPT !.at = Quality!After[part], !.asked[part] = now, !.rows[part] = Found(part)]
  BY DEF Quality!QueryPart, Quality!Inside, Found
<1>2. Found(part) \in SUBSET Rows
  BY DEF QualityType, Found
<1>3. Quality!After[part] \in {"none", "done"} \cup Quality!Parts
  BY DEF Quality!After, Quality!Parts
<1>4. /\ report'.at = Quality!After[part] /\ report'.window = report.window
      /\ report'.asked[part] = now /\ report'.rows[part] = Found(part)
      /\ \A p \in Quality!Parts \ {part} :
           report'.asked[p] = report.asked[p] /\ report'.rows[p] = report.rows[p]
  BY <1>1 DEF QualityType
<1>5. report' \in [at : {"none", "done"} \cup Quality!Parts, window : Nat, asked : [Quality!Parts -> Nat],
                   rows : [Quality!Parts -> SUBSET Rows]]
  BY <1>1, <1>2, <1>3 DEF QualityType
<1>6. QualityType'
  BY <1>1, <1>5 DEF QualityType
<1>7. QED
  BY <1>1, <1>4, <1>6

LEMMA AdminShape ==
  ASSUME QualityAssumptions, QualityType, NEW days \in Days, Quality!AdminQuality(days)
  PROVE  /\ UNCHANGED <<insights, shown, context, lastShown, wire, serial, server, table, now, lost>>
         /\ report'.at = "summary"
         /\ QualityType'
<1>1. Quality!Window(days) \in Nat
  BY DEF QualityAssumptions, Quality!TimeAssumption, Quality!Window
<1>2. /\ UNCHANGED <<insights, shown, context, lastShown, wire, serial, server, table, now, lost>>
      /\ report' = [Quality!NoReport EXCEPT !.at = "summary", !.window = Quality!Window(days)]
  BY DEF Quality!AdminQuality
<1>3. /\ report'.at = "summary"
      /\ report' \in [at : {"none", "done"} \cup Quality!Parts, window : Nat, asked : [Quality!Parts -> Nat],
                      rows : [Quality!Parts -> SUBSET Rows]]
  BY <1>1, <1>2 DEF QualityType, Quality!NoReport, Quality!Parts
<1>4. QED
  BY <1>2, <1>3 DEF QualityType

\* What comes later does not change what has been counted.
LEMMA GrowingKept ==
  ASSUME QualityType, Growing, UNCHANGED report, table \subseteq table', now' \in Nat, now <= now',
         \A row \in table' \ table : row.created = now
  PROVE  Growing'
<1>1. ASSUME NEW part \in Quality!Parts, Counted(part)
      PROVE  Counted(part)'
  <2>1. report.asked[part] \in Nat /\ now \in Nat /\ report.asked[part] <= now
    BY <1>1 DEF QualityType, Counted
  <2>2. report.asked[part] <= now' /\ report.rows[part] \subseteq table'
    BY <1>1, <2>1 DEF Counted
  <2>3. ASSUME NEW row \in table' \ report.rows[part], row.type \in Quality!Counts(part)
        PROVE  \/ row.created >= report.asked[part]
               \/ ~Quality!Recent(row, report.window, report.asked[part])
    <3>1. CASE row \in table
      BY <1>1, <2>3, <3>1 DEF Counted
    <3>2. CASE row \notin table
      BY <2>1, <2>3, <3>2
    <3>3. QED
      BY <3>1, <3>2
  <2>4. QED
    BY <2>2, <2>3 DEF Counted
<1>2. {"summary", "dimensions", "trend"} \subseteq Quality!Parts
  BY DEF Quality!Parts
<1>3. /\ \A p, q \in Quality!Parts : Quality!FollowsOn(p, q) => Quality!FollowsOn(p, q)'
      /\ Quality!ReportAddsUp => Quality!ReportAddsUp'
  BY DEF Quality!FollowsOn, Quality!Recent, Quality!ReportAddsUp
<1>4. QED
  BY <1>1, <1>2, <1>3 DEF Growing

\* A report that begins, or is not made, has counted nothing.
LEMMA GrowingOver ==
  ASSUME report'.at \in {"none", "summary"}
  PROVE  Growing'
  BY DEF Growing, Quality!ReportAddsUp

\* A part that is asked counts as Counted says.
LEMMA QueryCounted ==
  ASSUME QualityType, NEW part \in Quality!Parts, Quality!QueryPart(part)
  PROVE  Counted(part)'
<1>1. /\ UNCHANGED <<table, now>> /\ report'.window = report.window
      /\ report'.asked[part] = now /\ report'.rows[part] = Found(part)
  BY QueryShape
<1>2. now \in Nat
  BY DEF QualityType
<1>3. report'.asked[part] <= now' /\ report'.rows[part] \subseteq table'
  BY <1>1, <1>2 DEF Found
<1>4. ASSUME NEW row \in table' \ report'.rows[part], row.type \in Quality!Counts(part)
      PROVE  ~Quality!Recent(row, report'.window, report'.asked[part])
  BY <1>1, <1>4 DEF Found
<1>5. QED
  BY <1>3, <1>4 DEF Counted, Quality!Recent, Quality!Counts

\* The window only moves on: what the next part finds and this one did not has come since.
LEMMA QueryFollows ==
  ASSUME QualityAssumptions, QualityType, NEW part \in Quality!Parts, NEW prior \in Quality!Parts,
         Quality!QueryPart(part), prior # part, Counted(prior), prior # "feedback"
  PROVE  Quality!FollowsOn(prior, part)'
<1>1. /\ UNCHANGED <<table, now>> /\ report'.window = report.window
      /\ report'.asked[part] = now /\ report'.asked[prior] = report.asked[prior]
      /\ report'.rows[part] = Found(part) /\ report'.rows[prior] = report.rows[prior]
  BY QueryShape
<1>2. report.rows[prior] \subseteq table /\ report.asked[prior] <= now
  BY DEF Counted
<1>3. ASSUME NEW row \in report'.rows[prior], row.type \in Quality!Counts(part),
             Quality!Recent(row, report'.window, report'.asked[part])
      PROVE  row \in report'.rows[part]
  BY <1>1, <1>2, <1>3 DEF Found
<1>4. ASSUME NEW row \in Found(part) \ report.rows[prior]
      PROVE  row.created >= report.asked[prior]
  <2>1. row \in table /\ row.type \in Quality!Counts(part) /\ Quality!Recent(row, report.window, now)
    BY DEF Found
  <2>2. row.created \in Nat /\ now \in Nat /\ report.window \in Nat /\ report.asked[prior] \in Nat
    BY <2>1 DEF QualityType, Rows
  <2>3. report.window * Day \in Nat
    <3>1. Day \in Nat
      BY DEF QualityAssumptions, Quality!TimeAssumption
    <3>2. \A m, n \in Nat : m * n \in Nat
      OBVIOUS
    <3>3. QED
      BY <2>2, <3>1, <3>2
  <2>4. Quality!Recent(row, report.window, report.asked[prior])
    <3>1. \A c, w, n, a \in Nat : c + w >= n /\ a <= n => c + w >= a
      OBVIOUS
    <3>2. QED
      BY <1>2, <2>1, <2>2, <2>3, <3>1 DEF Quality!Recent
  <2>5. row.type \in Quality!Counts(prior)
    BY <2>1 DEF Quality!Counts, Quality!Outcomes, Quality!Votes
  <2>6. QED
    BY <1>4, <2>1, <2>4, <2>5 DEF Counted
<1>5. \A row \in report'.rows[part] \ report'.rows[prior] : row.created >= report'.asked[prior]
  BY <1>1, <1>4
<1>6. QED
  BY <1>3, <1>5 DEF Quality!FollowsOn, Quality!Recent, Quality!Counts

\* What two earlier parts counted is not touched.
LEMMA QueryLeaves ==
  ASSUME QualityType, NEW part \in Quality!Parts, NEW p \in Quality!Parts, NEW q \in Quality!Parts,
         Quality!QueryPart(part), part \notin {p, q}, Quality!FollowsOn(p, q)
  PROVE  Quality!FollowsOn(p, q)'
<1>1. /\ report'.window = report.window
      /\ \A r \in {p, q} : report'.asked[r] = report.asked[r] /\ report'.rows[r] = report.rows[r]
  BY QueryShape
<1>2. QED
  BY <1>1 DEF Quality!FollowsOn, Quality!Recent

LEMMA GrowingQuery ==
  ASSUME QualityAssumptions, QualityType, Growing, NEW part \in Quality!Parts, Quality!QueryPart(part)
  PROVE  Growing'
<1>1. report.at = part /\ report'.at = Quality!After[part] /\ Counted(part)'
  BY QueryShape, QueryCounted
<1>2. Quality!Parts = {"summary", "dimensions", "trend", "feedback"}
  BY DEF Quality!Parts
<1>3. CASE part = "summary"
  BY <1>1, <1>3 DEF Growing, Quality!ReportAddsUp, Quality!After
<1>4. CASE part = "dimensions"
  <2>1. Counted("summary")
    BY <1>1, <1>4 DEF Growing
  <2>2. Quality!FollowsOn("summary", "dimensions")'
    BY <1>2, <1>4, <2>1, QueryFollows
  <2>3. report'.at = "trend"
    BY <1>1, <1>4 DEF Quality!After
  <2>4. QED
    BY <1>1, <1>4, <2>2, <2>3 DEF Growing, Quality!ReportAddsUp
<1>5. CASE part = "trend"
  <2>1. Counted("dimensions") /\ Quality!FollowsOn("summary", "dimensions")
    BY <1>1, <1>5 DEF Growing
  <2>2. Quality!FollowsOn("dimensions", "trend")'
    BY <1>2, <1>5, <2>1, QueryFollows
  <2>3. Quality!FollowsOn("summary", "dimensions")'
    BY <1>2, <1>5, <2>1, QueryLeaves
  <2>4. report'.at = "feedback"
    BY <1>1, <1>5 DEF Quality!After
  <2>5. QED
    BY <1>1, <1>5, <2>2, <2>3, <2>4 DEF Growing, Quality!ReportAddsUp
<1>6. CASE part = "feedback"
  <2>1. /\ Counted("trend")
        /\ Quality!FollowsOn("summary", "dimensions") /\ Quality!FollowsOn("dimensions", "trend")
    BY <1>1, <1>6 DEF Growing
  <2>2. Quality!FollowsOn("trend", "feedback")'
    BY <1>2, <1>6, <2>1, QueryFollows
  <2>3. Quality!FollowsOn("summary", "dimensions")' /\ Quality!FollowsOn("dimensions", "trend")'
    BY <1>2, <1>6, <2>1, QueryLeaves
  <2>4. report'.at = "done"
    BY <1>1, <1>6 DEF Quality!After
  <2>5. QED
    BY <2>2, <2>3, <2>4 DEF Growing, Quality!ReportAddsUp
<1>7. QED
  BY <1>2, <1>3, <1>4, <1>5, <1>6

LEMMA QualityNext ==
  ASSUME QualityAssumptions, QualityType, [Quality!Next]_(Quality!vars)
  PROVE  QualityType' /\ (Growing => Growing')
<1>1. CASE Reporter
  <2>1. QualityType' /\ UNCHANGED <<table, now, report>>
    BY <1>1, ReporterType
  <2>2. QED
    BY <2>1, GrowingKept DEF QualityType
<1>2. ASSUME NEW e \in wire, Quality!Record(e)
      PROVE  QualityType' /\ (Growing => Growing')
  <2>1. /\ UNCHANGED <<now, report>> /\ table \subseteq table'
        /\ \A row \in table' \ table : row.created = now
    BY <1>2, RecordTable
  <2>2. QED
    BY <1>2, <2>1, RecordType, GrowingKept DEF QualityType
<1>3. ASSUME NEW recording \in Recordings, NEW percent \in Percents, Quality!StartUp(recording, percent)
      PROVE  QualityType' /\ (Growing => Growing')
  <2>1. QualityType' /\ report' = Quality!NoReport
    BY <1>3, StartUpType
  <2>2. report'.at = "none"
    BY <2>1 DEF Quality!NoReport
  <2>3. QED
    BY <2>1, <2>2, GrowingOver
<1>4. CASE Quality!Later
  <2>1. QualityType'
    BY <1>4 DEF QualityType, Quality!Later
  <2>2. UNCHANGED <<table, report>> /\ now' = now + 1 /\ now \in Nat
    BY <1>4 DEF QualityType, Quality!Later
  <2>3. QED
    BY <2>1, <2>2, GrowingKept
<1>5. ASSUME NEW days \in Days, Quality!AdminQuality(days)
      PROVE  QualityType' /\ (Growing => Growing')
  BY <1>5, AdminShape, GrowingOver
<1>6. ASSUME NEW part \in Quality!Parts, Quality!QueryPart(part)
      PROVE  QualityType' /\ (Growing => Growing')
  BY <1>6, QueryShape, GrowingQuery
<1>7. CASE Quality!QueryFails
  <2>1. report' = Quality!NoReport
    BY <1>7 DEF Quality!QueryFails
  <2>2. QualityType'
    BY <1>7, <2>1, NoReportType DEF QualityType, Quality!QueryFails
  <2>3. report'.at = "none"
    BY <2>1 DEF Quality!NoReport
  <2>4. QED
    BY <2>2, <2>3, GrowingOver
<1>8. CASE UNCHANGED Quality!vars
  BY <1>8, GrowingKept DEF QualityType, Quality!vars
<1>9. QED
  BY <1>1, <1>2, <1>3, <1>4, <1>5, <1>6, <1>7, <1>8 DEF Quality!Next, Reporter

LEMMA QualityInit ==
  ASSUME Quality!Init
  PROVE  QualityType /\ Growing /\ Announced
<1>1. QualityType
  BY NoReportType DEF Quality!Init, QualityType
<1>2. report.at = "none"
  BY DEF Quality!Init, Quality!NoReport
<1>3. Growing
  BY <1>2 DEF Growing, Quality!ReportAddsUp
<1>4. Announced
  BY DEF Quality!Init, Announced
<1>5. QED
  BY <1>1, <1>3, <1>4

\* quality_repository.go: the four queries of an administrator's report run one after the
\* other while events arrive and leave their windows; the report fits together all the same.
LEMMA QualityReportAddsUp ==
  ASSUME QualityAssumptions
  PROVE  Quality!Spec => []Quality!ReportAddsUp
<1>1. Quality!Init => QualityType /\ Growing
  BY QualityInit
<1>2. QualityType /\ Growing /\ [Quality!Next]_(Quality!vars) => (QualityType /\ Growing)'
  BY QualityNext
<1>3. Growing => Quality!ReportAddsUp
  BY DEF Growing, Quality!ReportAddsUp
<1>4. QED
  BY <1>1, <1>2, <1>3, PTL DEF Quality!Spec

\* One step of the reporter: what is sent is about a completion that was offered.
LEMMA AnnouncedReporter ==
  ASSUME QualityAssumptions, QualityType, Announced, Reporter, ~lost'
  PROVE  Announced'
<1>1. UNCHANGED <<server, table>>
  BY ReporterType
<1>2. ASSUME NEW e \in Events, wire' = wire \cup {e}, e.completion \in context',
             context \subseteq context', lastShown' \in context' \cup {None},
             \A c \in context' \ context : e.completion = c /\ e.type = "shown"
      PROVE  Announced'
  BY <1>1, <1>2 DEF Announced
<1>3. ASSUME context' = context, wire' = wire, lastShown' \in context \cup {None}
      PROVE  Announced'
  BY <1>1, <1>3 DEF Announced
<1>4. ASSUME NEW on \in BOOLEAN, Quality!Configure(on)
      PROVE  Announced'
  BY <1>3, <1>4 DEF Announced, Quality!Configure
<1>5. ASSUME NEW c \in Completions, Quality!Shown(c)
      PROVE  Announced'
  <2>1. CASE Quality!Offers
    <3>1. context' = context \cup {c} /\ lastShown' = c
      BY <1>5, <2>1 DEF Quality!Shown
    <3>2. PICK e \in Events : e.completion = c /\ e.type = "shown" /\ wire' = wire \cup {e}
      BY <1>5, <2>1, SendType, Names DEF Quality!Shown
    <3>3. QED
      BY <1>2, <3>1, <3>2
  <2>2. CASE ~Quality!Offers
    BY <1>3, <1>5, <2>2 DEF Announced, Quality!Shown
  <2>3. QED
    BY <2>1, <2>2
<1>6. ASSUME NEW c \in context, NEW type \in Quality!Outcomes \cup Quality!Votes,
             Quality!Send(c, type), context' = context, lastShown' \in context \cup {None}
      PROVE  Announced'
  <2>1. PICK e \in Events : e.completion = c /\ e.type = type /\ wire' = wire \cup {e}
    BY <1>6, SendType DEF QualityType
  <2>2. QED
    BY <1>2, <1>6, <2>1
<1>7. ASSUME NEW c \in Completions, Quality!Accepted(c)
      PROVE  Announced'
  BY <1>6, <1>7, Names DEF Announced, Quality!Accepted, Quality!Reports
<1>8. ASSUME NEW vote \in Quality!Votes, Quality!Feedback(vote)
      PROVE  Announced'
  <2>1. lastShown \in context /\ lastShown' = None /\ context' = context
    BY <1>8 DEF Announced, Quality!Feedback
  <2>2. Quality!Send(lastShown, vote)
    BY <1>8 DEF Quality!Feedback
  <2>3. QED
    BY <1>6, <2>1, <2>2
<1>9. QED
  BY <1>4, <1>5, <1>7, <1>8 DEF Reporter, Quality!Lose

\* The "shown" event arrives: it is recorded, or was, or is not sampled.
LEMMA AnnouncedRecord ==
  ASSUME QualityAssumptions, QualityType, Announced, NEW e \in wire, Quality!Record(e), ~lost'
  PROVE  Announced'
<1>0. server.recording
  BY DEF Quality!Record
<1>1. /\ wire' = wire \ {e} /\ UNCHANGED <<context, lastShown, server>>
      /\ table \subseteq table' /\ server.recording /\ e \in Events
      /\ \A row \in table' \ table : Quality!Sampled(e) /\ row.completion = e.completion /\ row.type = e.type
      /\ server.recording /\ Quality!Sampled(e) =>
           Quality!Conflicts(e) \/ \E row \in table' : row.completion = e.completion /\ row.type = e.type
  BY <1>0, RecordTable DEF QualityType
<1>2. \A row \in table' : row.completion \in context' /\ Bucket[row.completion] < server'.percent
  BY <1>1, SampledByHash DEF Announced
<1>3. ASSUME NEW c \in context, e.completion = c, e.type = "shown", Bucket[c] < server.percent
      PROVE  \E row \in table' : row.completion = c /\ row.type = "shown"
  <2>1. CASE Quality!Conflicts(e)
    <3>1. PICK row \in table : row.completion = c /\ row.type = "shown"
      BY <1>3, <2>1, Names DEF Quality!Conflicts
    <3>2. QED
      BY <1>1, <3>1
  <2>2. CASE ~Quality!Conflicts(e)
    BY <1>1, <1>3, <2>2, SampledByHash
  <2>3. QED
    BY <2>1, <2>2
<1>4. ASSUME NEW c \in context
      PROVE  \/ \E f \in wire' : f.completion = c /\ f.type = "shown"
             \/ \E row \in table' : row.completion = c /\ row.type = "shown"
             \/ ~(Bucket[c] < server'.percent)
  BY <1>1, <1>3 DEF Announced
<1>5. QED
  BY <1>1, <1>2, <1>4 DEF Announced

LEMMA AnnouncedNext ==
  ASSUME QualityAssumptions, QualityType, ~lost => Announced, [Quality!Next]_(Quality!vars)
  PROVE  ~lost' => Announced'
<1>0. SUFFICES ASSUME Announced, ~lost'
               PROVE  Announced'
  BY LostStays
<1>1. CASE Reporter
  BY <1>0, <1>1, AnnouncedReporter
<1>2. ASSUME NEW e \in wire, Quality!Record(e)
      PROVE  Announced'
  BY <1>0, <1>2, AnnouncedRecord
<1>3. ASSUME NEW recording \in Recordings, NEW percent \in Percents, Quality!StartUp(recording, percent)
      PROVE  Announced'
  <2>1. UNCHANGED <<context, lastShown, wire>> /\ server' = [recording |-> recording, percent |-> percent]
    BY <1>3 DEF Quality!StartUp
  <2>2. table' = table /\ percent = server.percent
    BY <1>0, <1>3 DEF Quality!StartUp
  <2>3. server'.percent = server.percent
    BY <2>1, <2>2
  <2>4. QED
    BY <1>0, <2>1, <2>2, <2>3 DEF Announced
<1>4. CASE Quality!Later
  BY <1>0, <1>4 DEF Announced, Quality!Later
<1>5. ASSUME NEW days \in Days, Quality!AdminQuality(days)
      PROVE  Announced'
  BY <1>0, <1>5 DEF Announced, Quality!AdminQuality
<1>6. ASSUME NEW part \in Quality!Parts, Quality!QueryPart(part)
      PROVE  Announced'
  BY <1>0, <1>6 DEF Announced, Quality!QueryPart
<1>7. CASE Quality!QueryFails
  BY <1>0, <1>7 DEF Announced, Quality!QueryFails
<1>8. CASE UNCHANGED Quality!vars
  BY <1>0, <1>8 DEF Announced, Quality!vars
<1>9. QED
  BY <1>1, <1>2, <1>3, <1>4, <1>5, <1>6, <1>7, <1>8 DEF Quality!Next, Reporter

\* qualityReporter.ts, handlers/quality.go: unless events were lost or deleted, or the
\* percentage changed, every recorded acceptance or vote has its "shown" event once nothing
\* is under way: whatever the order in which the events arrive, one hash decides for all.
LEMMA QualityPairsArrive ==
  ASSUME QualityAssumptions
  PROVE  Quality!Spec => []Quality!PairsArrive
<1> DEFINE Inv == QualityType /\ (~lost => Announced)
<1>1. Quality!Init => Inv
  BY QualityInit
<1>2. Inv /\ [Quality!Next]_(Quality!vars) => Inv'
  BY QualityNext, AnnouncedNext
<1>3. Inv => Quality!PairsArrive
  <2> SUFFICES ASSUME Announced, wire = {}, NEW type \in {"accepted", "helpful", "not-helpful"},
                      NEW row \in table, row.type = type
               PROVE  row.completion \in Quality!RowsOf("shown")
    BY DEF Quality!PairsArrive, Quality!RowsOf
  <2>1. row.completion \in context /\ Bucket[row.completion] < server.percent
    BY DEF Announced
  <2>2. \E r \in table : r.completion = row.completion /\ r.type = "shown"
    BY <2>1 DEF Announced
  <2>3. QED
    BY <2>2 DEF Quality!RowsOf
<1>4. QED
  BY <1>1, <1>2, <1>3, PTL DEF Quality!Spec

-----------------------------------------------------------------------------
(* Configuration: what the server starts with.                             *)

Upstream ==
    [provider : {"none", "mock", "openai-compatible", "anthropic", "other"}, mode : {"chat", "fim"},
     api : {"chat", "completion"}, scheme : {"none", "http", "https", "other"}, timeout : Int]

ConfigType ==
    config \in [env : Environments, redis : BOOLEAN, database : BOOLEAN, required : BOOLEAN,
                mail : BOOLEAN, signed : BOOLEAN, auth : BOOLEAN, admin : BOOLEAN, quality : BOOLEAN,
                perMinute : Int, burst : Int, primary : Upstream, fallback : Upstream,
                attempts : Int]

\* What the accounts need.
AccountsOK ==
    /\ config.required => config.database
    /\ config.database => config.signed
    /\ config.database /\ config.env = "production" => config.mail

\* What the administrator and the quality events need; neither is switched on before the
\* section that decides on it.
ExtrasOK ==
    /\ config.admin => config.database /\ at \notin {"redis", "database"}
    /\ config.quality => config.database /\ config.auth /\ at \notin {"redis", "database", "auth"}

TokensOK ==
    at \notin {"redis", "database", "auth", "refused"} => (config.env = "production" => config.auth)

AdmissionOK ==
    at \in {"ai", "router", "fallback", "providers", "started"} => config.perMinute >= 1 /\ config.burst >= 1

RouterOK == at \in {"fallback", "providers", "started"} => config.attempts >= 1

\* What a target may be.
Proper(t) ==
    /\ config.env = "production" => t.scheme \in {"https", "none"}
    /\ t.api = "completion" => t.mode = "fim" /\ t.provider # "anthropic"

TargetsOK == Proper(config.primary) /\ Proper(config.fallback)

\* There is no fallback before its section, and it has the time-out of the primary after it.
FallbackOK ==
    config.fallback # Config!Nobody =>
        at \in {"providers", "started", "refused"} /\ config.fallback.timeout = config.primary.timeout

ConfigInv ==
    /\ ConfigType /\ AccountsOK /\ ExtrasOK /\ TokensOK /\ AdmissionOK /\ RouterOK
    /\ TargetsOK /\ FallbackOK

LEMMA ConfigSound == ConfigInv => Config!StartsSound
<1> SUFFICES ASSUME ConfigInv, at = "started"
             PROVE  Config!StartsSound
  BY DEF Config!StartsSound, Config!ProductionIsProtected, Config!SectionsFitTogether,
     Config!FallbackKeepsTimeout, Config!Started
<1>1. Config!ProductionIsProtected
  BY DEF ConfigInv, AccountsOK, TokensOK, TargetsOK, Proper, Config!ProductionIsProtected, Config!Upstreams
<1>2. Config!SectionsFitTogether
  BY DEF ConfigInv, AccountsOK, ExtrasOK, TokensOK, AdmissionOK, RouterOK, TargetsOK, Proper,
     Config!SectionsFitTogether, Config!Upstreams
<1>3. Config!FallbackKeepsTimeout
  BY DEF ConfigInv, FallbackOK, Config!FallbackKeepsTimeout
<1>4. QED
  BY <1>1, <1>2, <1>3 DEF Config!StartsSound

LEMMA ConfigInit == Config!Init => ConfigInv
<1> SUFFICES ASSUME Config!Init
             PROVE  ConfigInv
  OBVIOUS
<1>1. Config!Nobody \in Upstream
  BY DEF Config!Nobody, Upstream
<1>2. /\ at = "redis" /\ ~config.required /\ ~config.database /\ ~config.admin /\ ~config.quality
      /\ config.primary = Config!Nobody /\ config.fallback = Config!Nobody
  BY DEF Config!Init
<1>3. ConfigType
  <2>1. {Config!Nobody} \subseteq Upstream /\ {0} \subseteq Int /\ {FALSE} \subseteq BOOLEAN
    BY <1>1
  <2> DEFINE no == {FALSE}
             zero == {0}
             nobody == {Config!Nobody}
  <2>2. config \in [env : Environments, redis : no, database : no, required : no, mail : no, signed : no,
                    auth : no, admin : no, quality : no, perMinute : zero, burst : zero,
                    primary : nobody, fallback : nobody, attempts : zero]
    BY DEF Config!Init
  <2>3. no \subseteq BOOLEAN /\ zero \subseteq Int /\ nobody \subseteq Upstream
    BY <2>1
  <2> HIDE DEF no, zero, nobody
  <2>4. QED
    BY <2>2, <2>3 DEF ConfigType
<1>4. QED
  BY <1>2, <1>3 DEF ConfigInv, AccountsOK, ExtrasOK, TokensOK, AdmissionOK, RouterOK, TargetsOK, Proper,
     FallbackOK, Config!Nobody

\* A refusal accepts nothing.
LEMMA RefusedKeeps ==
  ASSUME ConfigInv, at' = "refused", config' = config
  PROVE  ConfigInv'
  BY DEF ConfigInv, ConfigType, AccountsOK, ExtrasOK, TokensOK, AdmissionOK, RouterOK, TargetsOK,
     Proper, FallbackOK

LEMMA KeptTarget ==
  ASSUME NEW t \in Config!Targets, NEW timeout \in Int, Config!Sound(t)
  PROVE  /\ Config!Kept(t, timeout) \in Upstream /\ Proper(Config!Kept(t, timeout))
         /\ Config!Kept(t, timeout).timeout = timeout
<1> DEFINE k == Config!Kept(t, timeout)
<1>1. k \in Upstream /\ k.timeout = timeout
  BY DEF Config!Targets, Config!Kept, Upstream
<1>2. /\ k.provider = t.provider /\ k.mode = t.mode /\ k.api = t.api
      /\ k.scheme = IF t.provider \in {"openai-compatible", "anthropic"} THEN t.scheme ELSE "none"
  BY DEF Config!Kept
<1> HIDE DEF k
<1>3. config.env = "production" => k.scheme \in {"https", "none"}
  BY <1>2 DEF Config!Sound, Config!SecureURL
<1>4. k.api = "completion" => k.mode = "fim" /\ k.provider # "anthropic"
  BY <1>2 DEF Config!Sound
<1>5. QED
  BY <1>1, <1>3, <1>4 DEF Proper, k

\* A section that refuses accepts nothing.
LEMMA SectionKeeps ==
  ASSUME ConfigInv, NEW ok, NEW next, NEW accepted, Config!Section(ok, next, accepted),
         ok /\ at' = next /\ config' = accepted => ConfigInv'
  PROVE  ConfigInv'
<1>1. CASE ok
  BY <1>1 DEF Config!Section
<1>2. CASE ~ok
  <2>1. at' = "refused" /\ config' = config
    BY <1>2 DEF Config!Section
  <2>2. QED
    BY <2>1 DEF ConfigInv, ConfigType, AccountsOK, ExtrasOK, TokensOK, AdmissionOK, RouterOK,
       TargetsOK, Proper, FallbackOK
<1>3. QED
  BY <1>1, <1>2

LEMMA RedisStep ==
  ASSUME ConfigInv, Config!ParseRedis
  PROVE  ConfigInv'
<1>1. PICK on \in BOOLEAN, address \in BOOLEAN, fine \in BOOLEAN :
        Config!Section((on => address) /\ fine, "database", [config EXCEPT !.redis = on])
  BY DEF Config!ParseRedis
<1>2. ASSUME at' = "database", config' = [config EXCEPT !.redis = on]
      PROVE  ConfigInv'
  BY <1>2 DEF ConfigInv, ConfigType, AccountsOK, ExtrasOK, TokensOK, AdmissionOK, RouterOK,
     TargetsOK, Proper, FallbackOK, Config!ParseRedis
<1>3. QED
  BY <1>1, <1>2, SectionKeeps

LEMMA DatabaseStep ==
  ASSUME ConfigInv, Config!ParseDatabase
  PROVE  ConfigInv'
<1>1. PICK on \in BOOLEAN, required \in BOOLEAN, url \in BOOLEAN, mail \in BOOLEAN,
           signed \in BOOLEAN, fine \in BOOLEAN,
           registration \in {"open", "invite", "disabled", "other"},
           open \in Config!Written, idle \in Config!Written :
        Config!Section(
          IF ~on THEN ~required
          ELSE /\ url /\ signed /\ fine
               /\ config.env = "production" => mail
               /\ registration # "other"
               /\ Config!Allowed(open, 1, 100) /\ Config!Allowed(idle, 0, 100)
               /\ Config!OrDefault(idle, 5) <= Config!OrDefault(open, 10),
          "auth",
          [config EXCEPT !.database = on, !.required = required,
                         !.mail = on /\ mail, !.signed = on /\ signed])
  BY DEF Config!ParseDatabase
<1>2. ASSUME on => signed /\ (config.env = "production" => mail), ~on => ~required,
             at' = "auth",
             config' = [config EXCEPT !.database = on, !.required = required,
                                      !.mail = on /\ mail, !.signed = on /\ signed]
      PROVE  ConfigInv'
  <2>1. at = "database" /\ ConfigType
    BY DEF ConfigInv, Config!ParseDatabase
  <2>2. PICK m \in BOOLEAN, s \in BOOLEAN : (m <=> (on /\ mail)) /\ (s <=> (on /\ signed))
    OBVIOUS
  <2>3. config' = [config EXCEPT !.database = on, !.required = required, !.mail = m, !.signed = s]
    BY <1>2, <2>2
  <2>4. ConfigType'
    BY ZenonT(60), <2>1, <2>3 DEF ConfigType
  <2>5. /\ config'.database = on /\ config'.required = required /\ config'.mail = m /\ config'.signed = s
        /\ config'.env = config.env /\ config'.auth = config.auth /\ config'.admin = config.admin
        /\ config'.quality = config.quality /\ config'.primary = config.primary
        /\ config'.fallback = config.fallback
    BY <2>1, <2>3 DEF ConfigType
  <2>6. QED
    BY <1>2, <2>1, <2>2, <2>4, <2>5 DEF ConfigInv, AccountsOK, ExtrasOK, TokensOK, AdmissionOK, RouterOK,
       TargetsOK, Proper, FallbackOK
<1>3. QED
  BY <1>1, <1>2, SectionKeeps

LEMMA BasicsStep ==
  ASSUME ConfigInv, Config!ParseBasics
  PROVE  ConfigInv'
<1>1. PICK on \in BOOLEAN, secret \in BOOLEAN, fine \in BOOLEAN :
        Config!Section(
          /\ fine /\ config.env \in {"development", "test", "production"}
          /\ Config!AuthAllowed(on, secret),
          "admin", [config EXCEPT !.auth = on])
  BY DEF Config!ParseBasics
<1>2. ASSUME Config!AuthAllowed(on, secret), at' = "admin", config' = [config EXCEPT !.auth = on]
      PROVE  ConfigInv'
  BY <1>2 DEF ConfigInv, ConfigType, AccountsOK, ExtrasOK, TokensOK, AdmissionOK, RouterOK,
     TargetsOK, Proper, FallbackOK, Config!ParseBasics, Config!AuthAllowed
<1>3. QED
  BY <1>1, <1>2, SectionKeeps

LEMMA AdminStep ==
  ASSUME ConfigInv, Config!ParseAdmin
  PROVE  ConfigInv'
<1>1. PICK on \in BOOLEAN, token \in BOOLEAN :
        Config!Section(on => config.database /\ token, "quality", [config EXCEPT !.admin = on])
  BY DEF Config!ParseAdmin
<1>2. ASSUME on => config.database, at' = "quality", config' = [config EXCEPT !.admin = on]
      PROVE  ConfigInv'
  BY <1>2 DEF ConfigInv, ConfigType, AccountsOK, ExtrasOK, TokensOK, AdmissionOK, RouterOK,
     TargetsOK, Proper, FallbackOK, Config!ParseAdmin
<1>3. QED
  BY <1>1, <1>2, SectionKeeps

LEMMA QualityStep ==
  ASSUME ConfigInv, Config!ParseQuality
  PROVE  ConfigInv'
<1>1. PICK on \in BOOLEAN, fine \in BOOLEAN :
        Config!Section(fine /\ (on => config.database /\ config.auth), "admission",
                       [config EXCEPT !.quality = on])
  BY DEF Config!ParseQuality
<1>2. ASSUME on => config.database /\ config.auth, at' = "admission",
             config' = [config EXCEPT !.quality = on]
      PROVE  ConfigInv'
  BY <1>2 DEF ConfigInv, ConfigType, AccountsOK, ExtrasOK, TokensOK, AdmissionOK, RouterOK,
     TargetsOK, Proper, FallbackOK, Config!ParseQuality
<1>3. QED
  BY <1>1, <1>2, SectionKeeps

LEMMA InRange ==
  ASSUME NEW said, NEW high \in Int, Config!Allowed(said, 1, high)
  PROVE  said = Unset \/ (said \in Int /\ said >= 1)
  BY DEF Config!Allowed

LEMMA AdmissionStep ==
  ASSUME ConfigInv, Config!ParseAdmission
  PROVE  ConfigInv'
<1>1. PICK perMinute \in Config!Written, burst \in Config!Written, daily \in BOOLEAN :
        Config!Section(
          Config!Allowed(perMinute, 1, Config!MaxPerMinute) /\ Config!Allowed(burst, 1, Config!MaxBurst) /\ daily, "ai",
          [config EXCEPT !.perMinute = Config!OrDefault(perMinute, 60), !.burst = Config!OrDefault(burst, 10)])
  BY DEF Config!ParseAdmission
<1>2. ASSUME Config!Allowed(perMinute, 1, Config!MaxPerMinute), Config!Allowed(burst, 1, Config!MaxBurst), at' = "ai",
             config' = [config EXCEPT !.perMinute = Config!OrDefault(perMinute, 60),
                                      !.burst = Config!OrDefault(burst, 10)]
      PROVE  ConfigInv'
  <2> DEFINE p == Config!OrDefault(perMinute, 60)
             b == Config!OrDefault(burst, 10)
  <2>1. p \in Int /\ p >= 1
    <3>1. Config!Allowed(perMinute, 1, Config!MaxPerMinute)
      BY <1>2
    <3>2. perMinute = Unset \/ (perMinute \in Int /\ perMinute >= 1)
      BY <3>1, InRange DEF Config!MaxPerMinute
    <3>3. QED
      BY ONLY <3>2 DEF Config!OrDefault
  <2>2. b \in Int /\ b >= 1
    <3>1. Config!Allowed(burst, 1, Config!MaxBurst)
      BY <1>2
    <3>2. burst = Unset \/ (burst \in Int /\ burst >= 1)
      BY <3>1, InRange DEF Config!MaxBurst
    <3>3. QED
      BY ONLY <3>2 DEF Config!OrDefault
  <2>3. config' = [config EXCEPT !.perMinute = p, !.burst = b]
    BY <1>2
  <2>4. at = "admission"
    BY DEF Config!ParseAdmission
  <2> HIDE DEF p, b
  <2>5. /\ ConfigType' /\ config'.perMinute = p /\ config'.burst = b
        /\ config'.database = config.database /\ config'.required = config.required
        /\ config'.mail = config.mail /\ config'.signed = config.signed
        /\ config'.env = config.env /\ config'.auth = config.auth /\ config'.admin = config.admin
        /\ config'.quality = config.quality /\ config'.primary = config.primary
        /\ config'.fallback = config.fallback
    BY <2>1, <2>2, <2>3 DEF ConfigInv, ConfigType
  <2>6. QED
    BY <1>2, <2>1, <2>2, <2>4, <2>5 DEF ConfigInv, AccountsOK, ExtrasOK, TokensOK, AdmissionOK, RouterOK,
       TargetsOK, Proper, FallbackOK
<1> DEFINE ok == Config!Allowed(perMinute, 1, Config!MaxPerMinute) /\ Config!Allowed(burst, 1, Config!MaxBurst) /\ daily
           accepted == [config EXCEPT !.perMinute = Config!OrDefault(perMinute, 60),
                                      !.burst = Config!OrDefault(burst, 10)]
<1>3. ok /\ at' = "ai" /\ config' = accepted => ConfigInv'
  BY <1>2
<1>4. Config!Section(ok, "ai", accepted)
  BY <1>1
<1> HIDE DEF ok, accepted
<1>5. QED
  BY <1>3, <1>4, SectionKeeps

LEMMA AIStep ==
  ASSUME ConfigInv, Config!ParseAI
  PROVE  ConfigInv'
<1>1. PICK t \in Config!Targets, timeout \in Config!Written, fine \in BOOLEAN :
        Config!Section(Config!Sound(t) /\ Config!Allowed(timeout, 1, 60) /\ fine, "router",
                       [config EXCEPT !.primary = Config!Kept(t, Config!OrDefault(timeout, 10))])
  BY DEF Config!ParseAI
<1>2. ASSUME Config!Sound(t), Config!Allowed(timeout, 1, 60), at' = "router",
             config' = [config EXCEPT !.primary = Config!Kept(t, Config!OrDefault(timeout, 10))]
      PROVE  ConfigInv'
  <2>1. Config!OrDefault(timeout, 10) \in Int
    BY <1>2 DEF Config!Allowed, Config!OrDefault
  <2>2. PICK k \in Upstream : Proper(k) /\ config' = [config EXCEPT !.primary = k]
    BY <1>2, <2>1, KeptTarget
  <2>3. QED
    BY <1>2, <2>2 DEF ConfigInv, ConfigType, AccountsOK, ExtrasOK, TokensOK, AdmissionOK, RouterOK,
       TargetsOK, Proper, FallbackOK, Config!ParseAI
<1>3. QED
  BY <1>1, <1>2, SectionKeeps

LEMMA RouterStep ==
  ASSUME ConfigInv, Config!ParseRouter
  PROVE  ConfigInv'
<1>1. PICK attempts \in Config!Written, fine \in BOOLEAN :
        Config!Section(Config!Allowed(attempts, 1, 5) /\ fine, "fallback",
                       [config EXCEPT !.attempts = Config!OrDefault(attempts, 2)])
  BY DEF Config!ParseRouter
<1>2. ASSUME Config!Allowed(attempts, 1, 5), at' = "fallback",
             config' = [config EXCEPT !.attempts = Config!OrDefault(attempts, 2)]
      PROVE  ConfigInv'
  <2>1. Config!OrDefault(attempts, 2) \in Int /\ Config!OrDefault(attempts, 2) >= 1
    BY <1>2 DEF Config!Allowed, Config!OrDefault
  <2>2. QED
    BY <1>2, <2>1 DEF ConfigInv, ConfigType, AccountsOK, ExtrasOK, TokensOK, AdmissionOK, RouterOK,
       TargetsOK, Proper, FallbackOK, Config!ParseRouter
<1>3. QED
  BY <1>1, <1>2, SectionKeeps

LEMMA FallbackStep ==
  ASSUME ConfigInv, Config!ParseFallback
  PROVE  ConfigInv'
<1>1. PICK named \in BOOLEAN, t \in Config!Targets :
        Config!Section(named /\ Config!Sound(t), "providers",
                       [config EXCEPT !.fallback = Config!Kept(t, Config!FallbackTimeout)])
  BY DEF Config!ParseFallback
<1>2. ASSUME Config!Sound(t), at' = "providers",
             config' = [config EXCEPT !.fallback = Config!Kept(t, Config!FallbackTimeout)]
      PROVE  ConfigInv'
  <2>1. Config!FallbackTimeout = config.primary.timeout /\ config.primary.timeout \in Int
    BY DEF ConfigInv, ConfigType, Upstream, Config!FallbackTimeout
  <2>2. PICK k \in Upstream : /\ Proper(k) /\ k.timeout = config.primary.timeout
                              /\ config' = [config EXCEPT !.fallback = k]
    BY <1>2, <2>1, KeptTarget
  <2>3. QED
    BY <1>2, <2>2 DEF ConfigInv, ConfigType, AccountsOK, ExtrasOK, TokensOK, AdmissionOK, RouterOK,
       TargetsOK, Proper, FallbackOK, Config!ParseFallback
<1>3. QED
  BY <1>1, <1>2, SectionKeeps

LEMMA ProvidersStep ==
  ASSUME ConfigInv, Config!NoFallback \/ Config!NewProviders \/ UNCHANGED Config!vars
  PROVE  ConfigInv'
<1>1. ASSUME config' = config, \/ at = "fallback" /\ at' = "providers"
                               \/ at = "providers" /\ at' = "started"
                               \/ at' = at
      PROVE  ConfigInv'
  BY <1>1 DEF ConfigInv, ConfigType, AccountsOK, ExtrasOK, TokensOK, AdmissionOK, RouterOK,
     TargetsOK, Proper, FallbackOK
<1>2. CASE Config!NoFallback
  BY <1>1, <1>2 DEF Config!NoFallback
<1>3. CASE Config!NewProviders
  BY <1>1, <1>3, SectionKeeps DEF Config!NewProviders
<1>4. CASE UNCHANGED Config!vars
  BY <1>1, <1>4 DEF Config!vars
<1>5. QED
  BY <1>2, <1>3, <1>4

\* config.go, cmd/server/main.go: a server that starts is protected in production, keeps the
\* fallback's time-out, and its sections, accepted one by one, fit together.
LEMMA ConfigStartsSound == Config!Spec => []Config!StartsSound
<1>1. ConfigInv /\ [Config!Next]_(Config!vars) => ConfigInv'
  BY RedisStep, DatabaseStep, BasicsStep, AdminStep, QualityStep, AdmissionStep, AIStep, RouterStep,
     FallbackStep, ProvidersStep DEF Config!Next
<1>2. QED
  BY ConfigInit, ConfigSound, <1>1, PTL DEF Config!Spec

-----------------------------------------------------------------------------
(* What a loop over a sequence computes, by induction.  The prover cannot  *)
(* instantiate the library's induction theorems, which take a predicate as *)
(* parameter; here it is a set.                                            *)

LEMMA Induction ==
  ASSUME NEW n \in Nat, NEW D, 0 \in D,
         \A k \in 0..n : k \in D /\ k < n => k + 1 \in D
  PROVE  \A k \in 0..n : k \in D
<1> DEFINE T == {k \in 0..n : k \notin D}
           Below(k) == 0..(k-1)
           U == {Below(k) : k \in T}
<1>1. SUFFICES ASSUME T # {} PROVE FALSE
  OBVIOUS
<1>2. IsFiniteSet(0..n)
  BY FS_Interval
<1>3. IsWellFoundedOn(StrictSubsetOrdering(0..n), FiniteSubsetsOf(0..n))
  BY <1>2, FS_StrictSubsetOrderingWellFounded
<1>4. U \subseteq FiniteSubsetsOf(0..n) /\ U # {}
  <2>1. \A k \in T : Below(k) \subseteq 0..n
    OBVIOUS
  <2>2. \A k \in T : IsFiniteSet(Below(k))
    BY FS_Interval
  <2>3. QED
    BY <1>1, <2>1, <2>2 DEF FiniteSubsetsOf
<1>5. PICK x \in U : \A y \in U : ~(<<y, x>> \in StrictSubsetOrdering(0..n))
  <2> HIDE DEF U
  <2>1. QED
    BY <1>3, <1>4, WFMin
<1>6. PICK m \in T : x = Below(m)
  OBVIOUS
<1>7. m - 1 \in 0..n /\ m - 1 < m /\ m - 1 \notin D
  OBVIOUS
<1>8. Below(m-1) \in U
  BY <1>7
<1>9. Below(m-1) \subseteq Below(m) /\ Below(m-1) # Below(m)
  <2>1. m - 1 \in Below(m) /\ m - 1 \notin Below(m-1)
    BY <1>7
  <2>2. QED
    BY <2>1, <1>7
<1>10. <<Below(m-1), x>> \in StrictSubsetOrdering(0..n)
  BY <1>6, <1>7, <1>9 DEF StrictSubsetOrdering
<1>11. QED
  BY <1>5, <1>8, <1>10

\* The values of a loop of n rounds from b on, among S, with the effect of each round.
Effects(next, n, S) == \A i \in 1..n : \A v \in S : next[i][v] \in S
Loop(f, b, next, n, S) ==
    f \in [0..n -> S] /\ f[0] = b /\ \A i \in 1..n : f[i] = next[i][f[i-1]]

LEMMA LoopExists ==
  ASSUME NEW S, NEW n \in Nat, NEW b \in S, NEW next, Effects(next, n, S)
  PROVE  \E f : Loop(f, b, next, n, S)
<1> USE DEF Effects
<1> DEFINE Steps(f, k) == f[0] = b /\ \A i \in 1..k : f[i] = next[i][f[i-1]]
           D == {k \in 0..n : \E f \in [0..k -> S] : Steps(f, k)}
<1>1. 0 \in D
  <2> DEFINE f == [i \in 0..0 |-> b]
  <2>1. f \in [0..0 -> S] /\ Steps(f, 0) /\ 0 \in 0..n
    OBVIOUS
  <2> HIDE DEF f
  <2>2. QED
    BY <2>1
<1>2. ASSUME NEW k \in 0..n, k \in D, k < n
      PROVE  k + 1 \in D
  <2>1. PICK g \in [0..k -> S] : Steps(g, k)
    BY <1>2
  <2> DEFINE f == [i \in 0..(k+1) |-> IF i = k + 1 THEN next[k+1][g[k]] ELSE g[i]]
  <2>2. f \in [0..(k+1) -> S]
    <3>1. k + 1 \in 1..n /\ g[k] \in S
      BY <1>2
    <3>2. next[k+1][g[k]] \in S
      BY <3>1
    <3>3. \A i \in 0..(k+1) : i # k + 1 => i \in 0..k
      OBVIOUS
    <3>4. QED
      BY <3>2, <3>3
  <2>3. ASSUME NEW i \in 1..(k+1)
        PROVE  f[i] = next[i][f[i-1]]
    <3>1. CASE i = k + 1
      <4>1. f[i-1] = g[k] /\ f[i] = next[k+1][g[k]]
        BY <3>1
      <4>2. QED
        BY <3>1, <4>1
    <3>2. CASE i # k + 1
      <4>1. i \in 1..k /\ f[i] = g[i] /\ f[i-1] = g[i-1]
        BY <3>2
      <4>2. QED
        BY <2>1, <4>1
    <3>3. QED
      BY <3>1, <3>2
  <2>4. f[0] = b
    BY <2>1
  <2> HIDE DEF f
  <2>5. Steps(f, k + 1) /\ k + 1 \in 0..n
    BY <2>3, <2>4, <1>2
  <2>6. QED
    BY <2>2, <2>5
<1> HIDE DEF D
<1>3. n \in D
  <2>1. n \in 0..n
    OBVIOUS
  <2>2. QED
    BY <1>1, <1>2, <2>1, Induction
<1>4. PICK f \in [0..n -> S] : Steps(f, n)
  BY <1>3 DEF D
<1>5. QED
  BY <1>4 DEF Loop

-----------------------------------------------------------------------------
(* The size of a request.                                                  *)

\* What Total computes.
Adding(sum, ns, n) ==
    /\ sum \in [0..n -> Nat] /\ sum[0] = 0
    /\ \A i \in 1..n : sum[i] = sum[i-1] + ns[i]
    /\ Request!Total(ns) = sum[n]

LEMMA Totals ==
  ASSUME NEW ns \in Seq(Nat), NEW n \in Nat, n = Len(ns)
  PROVE  \E sum : Adding(sum, ns, n)
<1>1. n = Len(ns) /\ ns \in [1..n -> Nat]
  OBVIOUS
<1> DEFINE Sums(f) == f = [i \in 0..n |-> IF i = 0 THEN 0 ELSE f[i-1] + ns[i]]
           F == CHOOSE f : Sums(f)
<1>2. PICK next : Effects(next, n, Nat) /\ \A i \in 1..n : \A v \in Nat : next[i][v] = v + ns[i]
  <2> DEFINE next == [i \in 1..n |-> [v \in Nat |-> v + ns[i]]]
  <2>1. Effects(next, n, Nat) /\ \A i \in 1..n : \A v \in Nat : next[i][v] = v + ns[i]
    BY <1>1 DEF Effects
  <2> HIDE DEF next
  <2>2. QED
    BY <2>1
<1>3. PICK g \in [0..n -> Nat] : g[0] = 0 /\ \A i \in 1..n : g[i] = next[i][g[i-1]]
  <2>1. \E g : Loop(g, 0, next, n, Nat)
    BY <1>2, LoopExists
  <2>2. QED
    BY <2>1 DEF Loop
<1>4. ASSUME NEW i \in 0..n
      PROVE  g[i] = IF i = 0 THEN 0 ELSE g[i-1] + ns[i]
  <2>1. CASE i = 0
    BY <1>3, <2>1
  <2>2. CASE i # 0
    <3>1. i \in 1..n /\ i - 1 \in 0..n
      BY <2>2
    <3>2. g[i-1] \in Nat /\ g[i] = next[i][g[i-1]]
      BY <1>3, <3>1
    <3>3. QED
      BY <1>2, <2>2, <3>1, <3>2
  <2>3. QED
    BY <2>1, <2>2
<1>5. Sums(g)
  BY <1>4
<1>6. Sums(F)
  BY <1>5
<1>7. Request!Total(ns) = F[n]
  BY <1>1 DEF Request!Total
<1> HIDE DEF F
<1>8. F[0] = 0 /\ \A i \in 1..n : F[i] = F[i-1] + ns[i]
  <2>1. \A i \in 0..n : F[i] = IF i = 0 THEN 0 ELSE F[i-1] + ns[i]
    BY <1>6
  <2>2. 0 \in 0..n /\ \A i \in 1..n : i \in 0..n /\ i # 0
    OBVIOUS
  <2>3. QED
    BY <2>1, <2>2
<1>9. \A i \in 0..n : F[i] \in Nat
  <2> DEFINE D == {i \in 0..n : F[i] \in Nat}
  <2>1. 0 \in D
    BY <1>8
  <2>2. ASSUME NEW k \in 0..n, k \in D, k < n
        PROVE  k + 1 \in D
    <3>1. k + 1 \in 1..n /\ (k + 1) - 1 = k
      BY <2>2
    <3>2. F[k+1] = F[k] + ns[k+1] /\ ns[k+1] \in Nat
      BY <1>1, <1>8, <3>1
    <3>3. F[k] \in Nat /\ F[k+1] \in Nat
      BY <2>2, <3>2
    <3>4. QED
      BY <3>1, <3>3
  <2> HIDE DEF D
  <2>3. \A i \in 0..n : i \in D
    BY <2>1, <2>2, Induction
  <2>4. QED
    BY <2>3 DEF D
<1>10. F \in [0..n -> Nat]
  BY <1>6, <1>9
<1>11. QED
  <2>1. Adding(F, ns, n)
    BY <1>7, <1>8, <1>10 DEF Adding
  <2>2. QED
    BY <2>1

LEMMA SameCardinality == \A S : Request!Cardinality(S) = Cardinality(S)
  BY DEF Request!Cardinality, Cardinality

Texts == [units : Nat, width : 1..3]

\* What Budgeted leaves of the budget after each file, and keeps of the files.
Leaving(left, budget, n) ==
    /\ left \in [0..n -> Nat] /\ left[0] = budget
    /\ \A i \in 1..n : left[i] = left[i-1] - Request!Lesser(files[i].units, left[i-1])
    /\ LET kept == {i \in DOMAIN files : left[i-1] > 0}
       IN  Request!Budgeted(budget) = [i \in 1..Cardinality(kept) |-> Request!Cut(files[i], left[i-1])]

LEMMA Remainders ==
  ASSUME NEW budget \in Nat, files \in Seq(Texts), NEW n \in Nat, n = Len(files)
  PROVE  \E left : Leaving(left, budget, n)
<1>1. n = Len(files) /\ DOMAIN files = 1..n /\ \A i \in 1..n : files[i].units \in Nat
  <2>1. Len(files) \in Nat /\ DOMAIN files = 1..Len(files) /\ \A i \in 1..Len(files) : files[i] \in Texts
    BY ElementOfSeq
  <2>2. \A t \in Texts : t.units \in Nat
    BY DEF Texts
  <2>3. QED
    BY <2>1, <2>2
<1> DEFINE After(i, v) == v - Request!Lesser(files[i].units, v)
           Leaves(f) == f = [i \in 0..Len(files) |-> IF i = 0 THEN budget
                                            ELSE LET left == f[i-1] IN left - Request!Lesser(files[i].units, left)]
           F == CHOOSE f : Leaves(f)
<1>2. \A i \in 1..n : \A v \in Nat : After(i, v) \in Nat
  BY <1>1 DEF Request!Lesser
<1>3. PICK next : Effects(next, n, Nat) /\ \A i \in 1..n : \A v \in Nat : next[i][v] = After(i, v)
  <2> DEFINE next == [i \in 1..n |-> [v \in Nat |-> After(i, v)]]
  <2> HIDE DEF After
  <2>1. Effects(next, n, Nat) /\ \A i \in 1..n : \A v \in Nat : next[i][v] = After(i, v)
    BY <1>2 DEF Effects
  <2> HIDE DEF next
  <2>2. QED
    BY <2>1
<1>4. PICK g : Loop(g, budget, next, n, Nat)
  BY <1>3, LoopExists
<1>5. ASSUME NEW i \in 0..n
      PROVE  g[i] = IF i = 0 THEN budget ELSE After(i, g[i-1])
  <2>1. CASE i = 0
    BY <1>4, <2>1 DEF Loop
  <2>2. CASE i # 0
    <3>1. i \in 1..n /\ i - 1 \in 0..n
      BY <2>2
    <3>2. g[i-1] \in Nat /\ g[i] = next[i][g[i-1]]
      BY <1>4, <3>1 DEF Loop
    <3> HIDE DEF After
    <3>3. QED
      BY <1>3, <2>2, <3>1, <3>2
  <2>3. QED
    BY <2>1, <2>2
<1>6. Leaves(g)
  <2>1. g = [i \in 0..n |-> g[i]]
    BY <1>4 DEF Loop
  <2>2. QED
    BY <1>1, <1>5, <2>1
<1>7. Leaves(F)
  <2> HIDE DEF Leaves
  <2>1. QED
    BY <1>6
<1>8. \A i \in 0..n : F[i] = IF i = 0 THEN budget ELSE After(i, F[i-1])
  <2> HIDE DEF F
  <2>1. QED
    BY <1>1, <1>7
<1>9. Request!Budgeted(budget) =
        [i \in 1..Cardinality({j \in DOMAIN files : F[j-1] > 0}) |-> Request!Cut(files[i], F[i-1])]
  BY SameCardinality DEF Request!Budgeted
<1> HIDE DEF F, After
<1>10. F[0] = budget /\ \A i \in 1..n : F[i] = After(i, F[i-1])
  <2>1. 0 \in 0..n /\ \A i \in 1..n : i \in 0..n /\ i # 0
    OBVIOUS
  <2>2. QED
    BY <1>8, <2>1
<1>11. \A i \in 0..n : F[i] \in Nat
  <2> DEFINE D == {i \in 0..n : F[i] \in Nat}
  <2>1. 0 \in D
    BY <1>10
  <2>2. ASSUME NEW k \in 0..n, k \in D, k < n
        PROVE  k + 1 \in D
    <3>1. k + 1 \in 1..n /\ k + 1 \in 0..n /\ (k + 1) - 1 = k
      BY <2>2
    <3>2. F[k+1] = After(k + 1, F[k])
      BY <1>10, <3>1
    <3>3. F[k+1] \in Nat
      BY <1>2, <2>2, <3>1, <3>2
    <3>4. QED
      BY <3>1, <3>3
  <2> HIDE DEF D
  <2>3. \A i \in 0..n : i \in D
    BY <2>1, <2>2, Induction
  <2>4. QED
    BY <2>3 DEF D
<1>12. F \in [0..n -> Nat]
  <2>1. F = [i \in 0..n |-> F[i]]
    BY <1>1, <1>7
  <2>2. QED
    BY <1>11, <2>1
<1>13. QED
  <2>1. Leaving(F, budget, n)
    BY <1>1, <1>9, <1>10, <1>12 DEF After, Leaving
  <2>2. QED
    BY <2>1

\* A text takes at most three bytes per unit.
LEMMA BytesBound ==
  ASSUME NEW t \in Texts
  PROVE  Request!Bytes(t) \in Nat /\ Request!Bytes(t) <= 3 * t.units
<1>1. t.units \in Nat /\ (t.width = 1 \/ t.width = 2 \/ t.width = 3)
  BY DEF Texts
<1>2. CASE t.width = 1
  BY <1>1, <1>2 DEF Request!Bytes
<1>3. CASE t.width = 2
  BY <1>1, <1>3 DEF Request!Bytes
<1>4. CASE t.width = 3
  BY <1>1, <1>4 DEF Request!Bytes
<1>5. QED
  BY <1>1, <1>2, <1>3, <1>4

LEMMA CutText ==
  ASSUME NEW t \in Texts, NEW limit \in Nat
  PROVE  /\ Request!Cut(t, limit) \in Texts
         /\ Request!Cut(t, limit).units = Request!Lesser(t.units, limit)
         /\ Request!Cut(t, limit).units <= t.units /\ Request!Cut(t, limit).units <= limit
  BY DEF Texts, Request!Cut, Request!Lesser

FilesOK ==
    /\ files \in Seq(Texts) /\ Len(files) <= 8
    /\ \A i \in 1..Len(files) : files[i].units <= 3000

\* What is kept of the files fits: the budget is in units, the limits in bytes.
LEMMA BudgetedFits ==
  ASSUME FilesOK, NEW budget \in Nat, budget <= 8000
  PROVE  Request!FilesFit(Request!Budgeted(budget))
<1>1. PICK n \in Nat : /\ n = Len(files) /\ n <= 8 /\ DOMAIN files = 1..n
                       /\ \A i \in 1..n : files[i] \in Texts /\ files[i].units <= 3000
  <2>1. /\ Len(files) \in Nat /\ DOMAIN files = 1..Len(files)
        /\ \A i \in 1..Len(files) : files[i] \in Texts
    BY ElementOfSeq DEF FilesOK
  <2>2. Len(files) <= 8 /\ \A i \in 1..Len(files) : files[i].units <= 3000
    BY DEF FilesOK
  <2>3. QED
    BY <2>1, <2>2
<1>2. PICK left : Leaving(left, budget, n)
  BY <1>1, Remainders DEF FilesOK
<1> DEFINE some == {i \in DOMAIN files : left[i-1] > 0}
<1>3. some \subseteq 1..n
  BY <1>1
<1>4. Request!Budgeted(budget) = [i \in 1..Cardinality(some) |-> Request!Cut(files[i], left[i-1])]
  BY <1>2 DEF Leaving
<1> HIDE DEF some
<1>5. PICK k \in 0..n : k = Cardinality(some)
  <2>1. IsFiniteSet(1..n) /\ Cardinality(1..n) = n
    BY FS_Interval
  <2>2. IsFiniteSet(some) /\ Cardinality(some) <= Cardinality(1..n)
    <3>1. PICK all, few : all = 1..n /\ IsFiniteSet(all) /\ few = some /\ few \in SUBSET all
      BY ONLY <1>3, <2>1, Zenon
    <3>2. IsFiniteSet(few) /\ Cardinality(few) <= Cardinality(all)
      BY ONLY <3>1, FS_Subset, Zenon
    <3>3. QED
      BY <3>1, <3>2
  <2>3. Cardinality(some) \in Nat
    BY <2>2, FS_CardinalityType
  <2>4. QED
    BY <2>1, <2>2, <2>3
<1>6. PICK kept : kept = Request!Budgeted(budget) /\ kept = [i \in 1..k |-> Request!Cut(files[i], left[i-1])]
  BY <1>4, <1>5
<1>7. ASSUME NEW i \in 1..k
      PROVE  /\ kept[i] \in Texts /\ kept[i].units <= 3000 /\ kept[i].units \in Nat
             /\ kept[i].units = left[i-1] - left[i]
             /\ left[i-1] \in Nat /\ left[i] \in Nat
  <2>1. i \in 1..n /\ i - 1 \in 0..n /\ i \in 0..n
    BY <1>5
  <2>2. PICK t \in Texts : t = files[i] /\ t.units <= 3000 /\ t.units \in Nat
    BY <1>1, <2>1 DEF Texts
  <2>3. PICK limit \in Nat : limit = left[i-1]
    BY <1>2, <2>1 DEF Leaving
  <2>4. kept[i] = Request!Cut(t, limit)
    BY <1>6, <2>2, <2>3
  <2>5. left[i] = limit - Request!Lesser(t.units, limit) /\ left[i] \in Nat
    BY <1>2, <2>1, <2>2, <2>3 DEF Leaving
  <2>6. /\ kept[i] \in Texts /\ kept[i].units <= t.units
        /\ kept[i].units = Request!Lesser(t.units, limit)
    <3>1. PICK u : u = Request!Cut(t, limit)
      OBVIOUS
    <3>2. u \in Texts /\ u.units = Request!Lesser(t.units, limit) /\ u.units <= t.units
      BY <3>1, CutText
    <3>3. QED
      BY <2>4, <3>1, <3>2
  <2>7. kept[i].units \in Nat
    BY <2>6 DEF Texts
  <2>8. kept[i].units = left[i-1] - left[i] /\ kept[i].units <= 3000
    BY <2>2, <2>3, <2>5, <2>6, <2>7
  <2>9. QED
    BY <2>3, <2>5, <2>6, <2>7, <2>8
<1>8. Len(kept) = k /\ DOMAIN kept = 1..k
  BY <1>6
<1>9. PICK ns \in Seq(Nat) : /\ ns = [i \in DOMAIN kept |-> Request!Bytes(kept[i])]
                             /\ Len(ns) = k /\ \A i \in 1..k : ns[i] = Request!Bytes(kept[i])
  <2> DEFINE ns == [i \in 1..k |-> Request!Bytes(kept[i])]
  <2>1. \A i \in 1..k : ns[i] \in Nat
    BY <1>7, BytesBound
  <2>2. ns \in Seq(Nat) /\ Len(ns) = k
    BY <2>1
  <2>3. ns = [i \in DOMAIN kept |-> Request!Bytes(kept[i])] /\ \A i \in 1..k : ns[i] = Request!Bytes(kept[i])
    BY <1>8
  <2> HIDE DEF ns
  <2>4. QED
    BY <2>2, <2>3
<1>10. PICK sum : Adding(sum, ns, k)
  <2>1. k \in Nat /\ k = Len(ns)
    BY <1>9
  <2>2. QED
    BY <2>1, Totals
<1>11. \A j \in 0..k : sum[j] <= 3 * (budget - left[j])
  <2> DEFINE D == {j \in 0..k : sum[j] <= 3 * (budget - left[j])}
  <2>1. 0 \in D
    BY <1>2, <1>10 DEF Leaving, Adding
  <2>2. ASSUME NEW j \in 0..k, j \in D, j < k
        PROVE  j + 1 \in D
    <3>1. j + 1 \in 1..k /\ j + 1 \in 0..k /\ (j + 1) - 1 = j
      BY <2>2
    <3>2. sum[j+1] = sum[j] + ns[j+1] /\ sum[j] \in Nat /\ sum[j+1] \in Nat
      BY <1>10, <3>1 DEF Adding
    <3>3. ns[j+1] \in Nat /\ ns[j+1] <= 3 * kept[j+1].units
      <4>1. ns[j+1] = Request!Bytes(kept[j+1])
        BY <1>9, <3>1
      <4>2. QED
        BY <1>7, <3>1, <4>1, BytesBound
    <3>4. kept[j+1].units = left[(j+1)-1] - left[j+1] /\ left[(j+1)-1] \in Nat /\ left[j+1] \in Nat
      BY <1>7, <3>1
    <3>5. sum[j] <= 3 * (budget - left[j])
      BY <2>2
    <3>6. sum[j+1] <= 3 * (budget - left[j+1])
      <4>1. PICK a \in Nat, c \in Nat : /\ a = left[j] /\ c = left[j+1] /\ kept[j+1].units = a - c
        BY <3>1, <3>4
      <4>2. PICK p \in Nat, q \in Nat, m \in Nat : p = sum[j] /\ q = sum[j+1] /\ m = ns[j+1] /\ q = p + m
        BY <3>2, <3>3
      <4>3. p <= 3 * (budget - a) /\ m <= 3 * (a - c)
        BY <3>3, <3>5, <4>1, <4>2
      <4>4. q <= 3 * (budget - c)
        BY <4>2, <4>3
      <4>5. QED
        BY <4>1, <4>2, <4>4
    <3>7. QED
      BY <3>1, <3>6
  <2> HIDE DEF D
  <2>3. \A j \in 0..k : j \in D
    BY <2>1, <2>2, Induction
  <2>4. QED
    BY <2>3 DEF D
<1>12. Request!TotalBytes(kept) = sum[k] /\ sum[k] <= 3 * budget
  <2>1. k \in 0..k /\ left[k] \in Nat /\ sum[k] \in Nat
    BY <1>2, <1>5, <1>10 DEF Leaving, Adding
  <2>2. sum[k] <= 3 * (budget - left[k])
    BY <1>11, <2>1
  <2>3. QED
    <3>1. Request!TotalBytes(kept) = sum[k]
      BY <1>9, <1>10 DEF Request!TotalBytes, Adding
    <3>2. sum[k] <= 3 * budget
      BY <2>1, <2>2
    <3>3. QED
      BY <3>1, <3>2
<1>13. \A i \in 1..k : Request!Bytes(kept[i]) <= 10000
  <2> TAKE i \in 1..k
  <2>1. kept[i] \in Texts /\ kept[i].units <= 3000 /\ kept[i].units \in Nat
    BY <1>7
  <2>2. Request!Bytes(kept[i]) \in Nat /\ Request!Bytes(kept[i]) <= 3 * kept[i].units
    BY <2>1, BytesBound
  <2>3. QED
    BY <2>1, <2>2
<1>14. Request!TotalBytes(kept) <= 30000
  <2>1. sum[k] \in Nat
    BY <1>5, <1>10 DEF Adding
  <2>2. QED
    BY <1>12, <2>1
<1>15. QED
  BY <1>5, <1>6, <1>8, <1>13, <1>14, <1>1 DEF Request!FilesFit, Request!FileLimit

\* What the settings, the documents and the scripts may be.
RequestAssumptions ==
    Request!LengthAssumption /\ Request!WidthAssumption /\ Request!SettingsAssumption

RequestInv ==
    /\ settings \in Settings
    /\ windows.prefix \in Texts /\ windows.suffix \in Texts
    /\ FilesOK
    /\ stage = "built" =>
         /\ Request!Bytes(request.prefix) <= 50000 /\ Request!Bytes(request.suffix) <= 25000
         /\ Request!FilesFit(request.files)
    /\ Request!SourceTextIsAccepted

LEMMA SettingsFit ==
  ASSUME RequestAssumptions, NEW s \in Settings
  PROVE  /\ s.prefix \in Nat /\ s.suffix \in Nat /\ s.characters \in Nat
         /\ s.files \in Nat /\ s.files <= 8
<1>1. \A n, low, high : Request!IsWithin(n, low, high) /\ low \in Nat /\ high \in Nat => n \in Nat /\ n <= high
  BY DEF Request!IsWithin
<1>2. /\ Request!IsWithin(s.prefix, 500, 20000) /\ Request!IsWithin(s.suffix, 200, 10000)
      /\ Request!IsWithin(s.files, 1, 8) /\ Request!IsWithin(s.characters, 1000, 30000)
  BY DEF RequestAssumptions, Request!SettingsAssumption
<1>3. QED
  BY <1>1, <1>2

LEMMA WindowText ==
  ASSUME RequestAssumptions, NEW n \in Documents, NEW w \in Widths, NEW limit \in Nat,
         NEW t \in Request!Window(n, w, limit)
  PROVE  t \in Texts
<1>1. n \in Nat /\ w \in 1..3 /\ limit \div 2 \in Nat
  BY DEF RequestAssumptions, Request!LengthAssumption, Request!WidthAssumption
<1>2. QED
  BY <1>1 DEF Request!Window, Texts

LEMMA RequestInit ==
  ASSUME RequestAssumptions, Request!Init
  PROVE  RequestInv
<1>1. PICK before \in Documents, after \in Documents, w \in Widths :
        windows \in [prefix : Request!Window(before, w, settings.prefix),
                     suffix : Request!Window(after, w, settings.suffix)]
  BY DEF Request!Init
<1>2. settings \in Settings /\ settings.prefix \in Nat /\ settings.suffix \in Nat
  BY SettingsFit DEF Request!Init
<1>3. /\ windows.prefix \in Request!Window(before, w, settings.prefix)
      /\ windows.suffix \in Request!Window(after, w, settings.suffix)
  BY <1>1
<1>4. windows.prefix \in Texts /\ windows.suffix \in Texts
  BY <1>2, <1>3, WindowText
<1>5. FilesOK
  BY EmptySeq DEF FilesOK, Request!Init
<1>6. QED
  BY <1>2, <1>4, <1>5 DEF RequestInv, Request!Init, Request!SourceTextIsAccepted

\* Another file of what room there is.
LEMMA AddFileStep ==
  ASSUME RequestAssumptions, RequestInv, NEW n \in Sources, NEW w \in Widths, Request!AddFile(n, w)
  PROVE  RequestInv'
<1>1. PICK said \in Texts : said = [units |-> n, width |-> w]
  BY DEF Texts, RequestAssumptions, Request!LengthAssumption, Request!WidthAssumption
<1>2. Request!Units(files) \in Nat
  <2>1. PICK k \in Nat : k = Len(files) /\ DOMAIN files = 1..k /\ \A i \in 1..k : files[i] \in Texts
    BY ElementOfSeq DEF RequestInv, FilesOK
  <2> DEFINE ns == [i \in DOMAIN files |-> files[i].units]
  <2>2. ns \in Seq(Nat) /\ Len(ns) = k
    BY <2>1 DEF Texts
  <2>3. Request!Units(files) = Request!Total(ns)
    BY DEF Request!Units
  <2> HIDE DEF ns
  <2>4. PICK sum : Adding(sum, ns, k)
    BY <2>2, Totals
  <2>5. QED
    BY <2>3, <2>4 DEF Adding
<1>3. settings.characters \in Nat /\ settings.files \in Nat /\ settings.files <= 8
  BY SettingsFit DEF RequestInv
<1>4. PICK room \in Nat : room = Request!Room /\ room <= 3000
  <2>1. Request!Units(files) < settings.characters
    BY DEF Request!AddFile
  <2>2. settings.characters - Request!Units(files) \in Nat
    BY <1>2, <1>3, <2>1
  <2>3. QED
    BY <2>2 DEF Request!Room, Request!Lesser, Request!PerFileCharacters
<1>5. PICK t \in Texts : t = Request!Cut(said, room) /\ t.units <= 3000
  <2>1. PICK t : t = Request!Cut(said, room)
    OBVIOUS
  <2>2. t \in Texts /\ t.units <= room
    BY <2>1, CutText
  <2>3. t.units \in Nat
    BY <2>2 DEF Texts
  <2>4. QED
    BY <1>4, <2>1, <2>2, <2>3
<1>6. files' = Append(files, t) /\ Len(files) < settings.files
  BY <1>1, <1>4, <1>5 DEF Request!AddFile
<1>7. FilesOK'
  <2>1. files \in Seq(Texts) /\ Len(files) \in Nat
    BY DEF RequestInv, FilesOK
  <2>2. /\ files' \in Seq(Texts) /\ Len(files') = Len(files) + 1
        /\ files'[Len(files) + 1] = t
        /\ \A i \in 1..Len(files) : files'[i] = files[i]
    BY <1>6, <2>1, AppendProperties
  <2>3. Len(files') <= 8
    BY <1>3, <1>6, <2>1, <2>2
  <2>4. ASSUME NEW i \in 1..Len(files')
        PROVE  files'[i].units <= 3000
    <3>1. i = Len(files) + 1 \/ i \in 1..Len(files)
      BY <2>1, <2>2
    <3>2. QED
      BY <1>5, <2>2, <3>1 DEF RequestInv, FilesOK
  <2>5. QED
    BY <2>2, <2>3, <2>4 DEF FilesOK
<1>8. QED
  BY <1>7 DEF RequestInv, Request!AddFile, Request!SourceTextIsAccepted

LEMMA Limits ==
  /\ Request!ContextLimits.prefix \in Nat /\ Request!ContextLimits.prefix <= 4000
  /\ Request!ContextLimits.suffix \in Nat /\ Request!ContextLimits.suffix <= 2000
  /\ Request!ContextLimits.repository \in Nat /\ Request!ContextLimits.repository <= 8000
<1> DEFINE full == CASE focus = "member-access" -> [prefix |-> 1500, suffix |-> 500, repository |-> 2000]
                     [] focus \in {"component-props", "function-arguments"} ->
                          [prefix |-> 2500, suffix |-> 1000, repository |-> 4000]
                     [] focus = "tailwind-class" -> [prefix |-> 2000, suffix |-> 500, repository |-> 3000]
                     [] OTHER -> [prefix |-> 4000, suffix |-> 2000, repository |-> 8000]
<1>1. \E p, s, r \in Nat : /\ full = [prefix |-> p, suffix |-> s, repository |-> r]
                           /\ p <= 4000 /\ s <= 2000 /\ r <= 8000
  <2>1. CASE focus = "member-access"
    <3>1. full = [prefix |-> 1500, suffix |-> 500, repository |-> 2000]
      BY <2>1
    <3> HIDE DEF full
    <3>2. QED
      BY <3>1
  <2>2. CASE focus \in {"component-props", "function-arguments"}
    <3>1. full = [prefix |-> 2500, suffix |-> 1000, repository |-> 4000]
      BY <2>2
    <3> HIDE DEF full
    <3>2. QED
      BY <3>1
  <2>3. CASE focus = "tailwind-class"
    <3>1. full = [prefix |-> 2000, suffix |-> 500, repository |-> 3000]
      BY <2>3
    <3> HIDE DEF full
    <3>2. QED
      BY <3>1
  <2>4. CASE focus \notin {"member-access", "component-props", "function-arguments", "tailwind-class"}
    <3>1. full = [prefix |-> 4000, suffix |-> 2000, repository |-> 8000]
      BY <2>4
    <3> HIDE DEF full
    <3>2. QED
      BY <3>1
  <2> HIDE DEF full
  <2>5. QED
    BY <2>1, <2>2, <2>3, <2>4
<1>2. Request!ContextLimits =
        CASE mode = "fast" -> [prefix |-> 1800, suffix |-> 700, repository |-> 0]
          [] mode # "fast" /\ timedOut -> [full EXCEPT !.repository = @ \div 2]
          [] OTHER -> full
  BY DEF Request!ContextLimits
<1> HIDE DEF full
<1>3. PICK p \in Nat, s \in Nat, r \in Nat : /\ full = [prefix |-> p, suffix |-> s, repository |-> r]
                                             /\ p <= 4000 /\ s <= 2000 /\ r <= 8000
  BY <1>1
<1>4. r \div 2 \in Nat /\ r \div 2 <= r
  OBVIOUS
<1>5. CASE mode = "fast"
  BY <1>2, <1>5
<1>6. CASE mode # "fast" /\ timedOut
  BY <1>2, <1>3, <1>4, <1>6
<1>7. CASE mode # "fast" /\ ~timedOut
  BY <1>2, <1>3, <1>7
<1>8. QED
  BY <1>5, <1>6, <1>7

LEMMA BuildStep ==
  ASSUME RequestInv, Request!ToApiCompletionRequest
  PROVE  RequestInv'
<1>1. PICK p \in Nat, s \in Nat, r \in Nat :
        /\ p = Request!ContextLimits.prefix /\ s = Request!ContextLimits.suffix
        /\ r = Request!ContextLimits.repository
        /\ p <= 4000 /\ s <= 2000 /\ r <= 8000
  BY Limits
<1>2. windows.prefix \in Texts /\ windows.suffix \in Texts
  BY DEF RequestInv
<1>3. PICK before \in Texts, after \in Texts :
        /\ before = Request!Cut(windows.prefix, p) /\ before.units <= p
        /\ after = Request!Cut(windows.suffix, s) /\ after.units <= s
  <2>1. Request!Cut(windows.prefix, p) \in Texts /\ Request!Cut(windows.prefix, p).units <= p
    BY <1>2, CutText
  <2>2. Request!Cut(windows.suffix, s) \in Texts /\ Request!Cut(windows.suffix, s).units <= s
    BY <1>2, CutText
  <2>3. QED
    BY <2>1, <2>2
<1>4. /\ Request!Bytes(before) \in Nat /\ Request!Bytes(before) <= 3 * before.units
      /\ Request!Bytes(after) \in Nat /\ Request!Bytes(after) <= 3 * after.units
  BY BytesBound
<1>5. Request!Bytes(before) <= 50000 /\ Request!Bytes(after) <= 25000
  <2>1. before.units \in Nat /\ after.units \in Nat
    BY DEF Texts
  <2>2. QED
    BY <1>1, <1>3, <1>4, <2>1
<1>6. Request!FilesFit(Request!Budgeted(r))
  BY <1>1, BudgetedFits DEF RequestInv
<1>7. request' = [prefix |-> before, suffix |-> after, files |-> Request!Budgeted(r), signals |-> signals]
  BY <1>1, <1>3 DEF Request!ToApiCompletionRequest
<1>8. /\ Request!Bytes(request'.prefix) <= 50000 /\ Request!Bytes(request'.suffix) <= 25000
      /\ Request!FilesFit(request'.files)
  BY <1>5, <1>6, <1>7
<1>9. QED
  BY <1>8 DEF RequestInv, FilesOK, Request!ToApiCompletionRequest, Request!SourceTextIsAccepted,
     Request!FilesFit, Request!Bytes, Request!TotalBytes, Request!Total

LEMMA RequestNext ==
  ASSUME RequestAssumptions, RequestInv, [Request!Next]_(Request!vars)
  PROVE  RequestInv'
<1>1. ASSUME NEW n \in Sources, NEW w \in Widths, Request!AddFile(n, w)
      PROVE  RequestInv'
  BY <1>1, AddFileStep
<1>2. CASE Request!Expire
  BY <1>2 DEF Request!Expire, RequestInv, FilesOK, Request!SourceTextIsAccepted
<1>3. ASSUME NEW n \in Sources, NEW w \in SignalWidths, Request!Collect(n, w)
      PROVE  RequestInv'
  BY <1>3 DEF Request!Collect, RequestInv, FilesOK, Request!SourceTextIsAccepted
<1>4. CASE Request!ToApiCompletionRequest
  BY <1>4, BuildStep
<1>5. CASE Request!Validate
  <2>1. stage = "built" /\ request' = request /\ settings' = settings /\ windows' = windows /\ files' = files
    BY <1>5 DEF Request!Validate
  <2>2. stage' = "refused" => ~Request!Valid(request)
    BY <1>5 DEF Request!Validate
  <2>3. stage' = "refused" => ~Request!SignalsFit(request.signals)
    BY <2>1, <2>2 DEF RequestInv, Request!Valid
  <2>4. stage' # "built"
    BY <1>5 DEF Request!Validate
  <2>5. QED
    BY <2>1, <2>3, <2>4 DEF RequestInv, FilesOK, Request!SourceTextIsAccepted, Request!SignalsFit, Request!Bytes
<1>6. CASE UNCHANGED Request!vars
  BY <1>6 DEF Request!vars, RequestInv, FilesOK, Request!SourceTextIsAccepted
<1>7. QED
  BY <1>1, <1>2, <1>3, <1>4, <1>5, <1>6 DEF Request!Next

\* toApiCompletionRequest cuts in UTF-16 units and Validate counts bytes: whatever the
\* settings, the scripts and the lengths, what is refused is refused for a diagnostic or a
\* signature, never for the source text.
LEMMA RequestIsAccepted ==
  ASSUME RequestAssumptions
  PROVE  Request!Spec => []Request!SourceTextIsAccepted
<1>1. Request!Init => RequestInv
  BY RequestInit
<1>2. RequestInv /\ [Request!Next]_(Request!vars) => RequestInv'
  BY RequestNext
<1>3. RequestInv => Request!SourceTextIsAccepted
  BY DEF RequestInv
<1>4. QED
  BY <1>1, <1>2, <1>3, PTL DEF Request!Spec

-----------------------------------------------------------------------------
(* The text of an answer.                                                  *)

TextAssumptions == Text!SignsAssumption /\ Text!InputsAssumption /\ Text!LimitAssumption

LEMMA Extremes ==
  ASSUME NEW n \in Nat, NEW T, T \subseteq 0..n, T # {}
  PROVE  /\ \E m \in T : \A j \in T : m <= j
         /\ \E m \in T : \A j \in T : j <= m
<1>0. PICK x \in T : x \in Nat /\ x <= n /\ x >= n - n
  <2>1. PICK x : x \in T
    OBVIOUS
  <2>2. x \in 0..n
    BY <2>1
  <2>3. x \in Nat /\ x <= n /\ x >= n - n
    BY <2>2
  <2>4. QED
    BY <2>1, <2>3
<1>1. \E m \in T : \A j \in T : m <= j
  <2> DEFINE D == {k \in 0..n : (\E j \in T : j <= k) => \E m \in T : \A j \in T : m <= j}
  <2>1. 0 \in D
    OBVIOUS
  <2>2. ASSUME NEW k \in 0..n, k \in D, k < n
        PROVE  k + 1 \in D
    <3>1. CASE \E j \in T : j <= k
      BY <2>2, <3>1
    <3>2. CASE ~\E j \in T : j <= k
      BY <2>2, <3>2
    <3>3. QED
      BY <3>1, <3>2
  <2> HIDE DEF D
  <2>3. n \in D
    BY <2>1, <2>2, Induction
  <2>4. \E j \in T : j <= n
    BY <1>0
  <2>5. QED
    BY <2>3, <2>4 DEF D
<1>2. \E m \in T : \A j \in T : j <= m
  <2> DEFINE D == {k \in 0..n : (\E j \in T : j >= n - k) => \E m \in T : \A j \in T : j <= m}
  <2>1. 0 \in D
    OBVIOUS
  <2>2. ASSUME NEW k \in 0..n, k \in D, k < n
        PROVE  k + 1 \in D
    <3>1. CASE \E j \in T : j >= n - k
      BY <2>2, <3>1
    <3>2. CASE ~\E j \in T : j >= n - k
      BY <2>2, <3>2
    <3>3. QED
      BY <3>1, <3>2
  <2> HIDE DEF D
  <2>3. n \in D
    BY <2>1, <2>2, Induction
  <2>4. \E j \in T : j >= n - n
    BY <1>0
  <2>5. QED
    BY <2>3, <2>4 DEF D
<1>3. QED
  BY <1>1, <1>2

\* What is left of a text trimmed at both ends.
Trimming(t, s, i, j) ==
    /\ i \in 1..Len(s) /\ j \in i..Len(s) /\ t = SubSeq(s, i, j)
    /\ s[i] \notin Text!White /\ s[j] \notin Text!White
    /\ \A k \in 1..Len(s) : s[k] \notin Text!White => i <= k /\ k <= j

LEMMA Trim ==
  ASSUME NEW A, NEW s \in Seq(A)
  PROVE  \/ Text!TrimSpace(s) = <<>> /\ \A k \in 1..Len(s) : s[k] \in Text!White
         \/ \E i, j \in 1..Len(s) : Trimming(Text!TrimSpace(s), s, i, j)
<1>1. PICK n \in Nat : n = Len(s) /\ DOMAIN s = 1..n
  OBVIOUS
<1> DEFINE solid == {i \in DOMAIN s : s[i] \notin Text!White}
           first == CHOOSE i \in solid : \A j \in solid : i <= j
           last == CHOOSE i \in solid : \A j \in solid : j <= i
<1>2. CASE solid = {}
  BY <1>1, <1>2 DEF Text!TrimSpace
<1>3. CASE solid # {}
  <2>1. solid \subseteq 0..n
    BY <1>1
  <2>2. Text!TrimSpace(s) = SubSeq(s, first, last)
    BY <1>3 DEF Text!TrimSpace
  <2>3. /\ \E m \in solid : \A j \in solid : m <= j
        /\ \E m \in solid : \A j \in solid : j <= m
    <3> HIDE DEF solid
    <3>1. QED
      BY <1>3, <2>1, Extremes
  <2>4. /\ first \in solid /\ \A j \in solid : first <= j
        /\ last \in solid /\ \A j \in solid : j <= last
    <3> HIDE DEF solid
    <3>1. QED
      BY <2>3
  <2> HIDE DEF first, last
  <2>5. first \in 1..n /\ last \in first..n
    BY <1>1, <2>4
  <2>6. Trimming(Text!TrimSpace(s), s, first, last)
    BY <1>1, <2>2, <2>4, <2>5 DEF Trimming
  <2>7. QED
    BY <1>1, <2>5, <2>6
<1>4. QED
  BY <1>2, <1>3

LEMMA TrimType ==
  ASSUME NEW A, NEW s \in Seq(A)
  PROVE  Text!TrimSpace(s) \in Seq(A)
<1>1. CASE Text!TrimSpace(s) = <<>>
  BY <1>1
<1>2. ASSUME NEW i \in 1..Len(s), NEW j \in 1..Len(s), Trimming(Text!TrimSpace(s), s, i, j)
      PROVE  Text!TrimSpace(s) \in Seq(A)
  <2>1. Text!TrimSpace(s) = SubSeq(s, i, j)
    BY <1>2 DEF Trimming
  <2>2. QED
    BY <2>1, SubSeqProperties
<1>3. QED
  BY <1>1, <1>2, Trim

LEMMA NoSuffix ==
  ASSUME NEW A, NEW s \in Seq(A), NEW a, NEW b, b \notin A
  PROVE  Text!TrimSuffix(s, <<a, b>>) = s
<1>1. SUFFICES ASSUME Text!IsSuffix(<<a, b>>, s)
               PROVE  FALSE
  BY DEF Text!TrimSuffix
<1> DEFINE u == Text!Reverse(<<a, b>>)
           v == Text!Reverse(s)
<1>2. u = [k \in 1..2 |-> <<a, b>>[(2 - k) + 1]] /\ v = [k \in 1..Len(s) |-> s[(Len(s) - k) + 1]]
  BY DEF Text!Reverse
<1>3. Len(u) = 2 /\ u[1] = b /\ Len(v) = Len(s)
  BY <1>2
<1>4. Len(u) <= Len(v) /\ SubSeq(u, 1, Len(u)) = SubSeq(v, 1, Len(u))
  BY <1>1 DEF Text!IsSuffix, Text!IsPrefix
<1>5. Len(s) \in Nat /\ Len(s) >= 2
  BY <1>3, <1>4
<1>6. SubSeq(u, 1, 2)[1] = u[1] /\ SubSeq(v, 1, 2)[1] = v[1]
  BY <1>2, <1>3, <1>5
<1>7. v[1] = s[Len(s)] /\ s[Len(s)] \in A
  BY <1>2, <1>5
<1>8. QED
  BY <1>3, <1>4, <1>6, <1>7

-----------------------------------------------------------------------------
(* A fenced answer.                                                        *)

RawSigns == Text!Around \cup {Fence, Announcement, Foreign}

\* What stands between the fences, between signs i and j, has no fence.
Between(i, j) ==
    /\ i \in 3..Len(raw) /\ j \in 3..Len(raw)
    /\ raw[1] = Fence /\ raw[i-1] = Break /\ \A k \in 2..i-2 : raw[k] # Break
    /\ i < j /\ raw[j] = Fence /\ raw[j-1] = Break
    /\ \A k \in i..j-1 : raw[k] # Fence

LEMMA PlainStays ==
  ASSUME TextAssumptions, raw \in Seq(RawSigns), NEW i, NEW j, Between(i, j)
  PROVE  Text!StripFence(SubSeq(raw, i, j - 2)) = SubSeq(raw, i, j - 2)
<1> DEFINE A == RawSigns \ {Fence}
<1>1. PICK s : s = SubSeq(raw, i, j - 2)
  OBVIOUS
<1>2. s \in Seq(A)
  <2>1. /\ i \in Nat /\ j \in Nat /\ i >= 1 /\ i <= j - 1 /\ j - 2 <= Len(raw) /\ Len(raw) \in Nat
        /\ j - 2 \in Int
    BY DEF Between
  <2>2. Len(s) = j - 1 - i /\ s \in Seq(RawSigns) /\ \A k \in 1..Len(s) : s[k] = raw[i + k - 1]
    BY <1>1, <2>1
  <2>3. ASSUME NEW k \in 1..Len(s)
        PROVE  s[k] \in A
    <3>1. i + k - 1 \in i..j-1 /\ i + k - 1 \in 1..Len(raw)
      BY <2>1, <2>2
    <3>2. raw[i + k - 1] \in RawSigns /\ raw[i + k - 1] # Fence
      BY <3>1 DEF Between
    <3>3. QED
      BY <2>2, <3>2
  <2>4. QED
    BY <2>2, <2>3
<1>3. Fence \notin A
  OBVIOUS
<1> HIDE DEF A
<1>4. Text!TrimSpace(s) = <<>> \/ Text!TrimSpace(s)[1] # Fence
  <2>1. PICK t \in Seq(A) : t = Text!TrimSpace(s)
    BY <1>2, TrimType
  <2>2. t # <<>> => t[1] \in A
    OBVIOUS
  <2>3. QED
    BY <1>3, <2>1, <2>2
<1>5. Text!StripFence(s) = Text!TrimSuffix(s, <<Break, Fence>>)
  BY <1>4 DEF Text!StripFence
<1>6. QED
  BY <1>1, <1>2, <1>3, <1>5, NoSuffix

LEMMA FenceGoes ==
  ASSUME TextAssumptions, raw \in Seq(RawSigns), NEW i, NEW j, Between(i, j)
  PROVE  Text!StripFence(raw) = SubSeq(raw, i, j - 2)
<1>0. Fence # Blank /\ Fence # Break /\ Fence \notin Text!White
  BY DEF TextAssumptions, Text!SignsAssumption, Text!Around, Text!White
<1>1. /\ i \in Nat /\ j \in Nat /\ Len(raw) \in Nat
      /\ 3 <= i /\ i < j /\ j <= Len(raw)
  BY DEF Between
<1>2. PICK t : t = Text!TrimSpace(raw)
  OBVIOUS
<1>3. PICK m \in j..Len(raw) : t = SubSeq(raw, 1, m)
  <2>1. raw[1] \notin Text!White /\ raw[j] \notin Text!White /\ 1 \in 1..Len(raw) /\ j \in 1..Len(raw)
    BY <1>0, <1>1 DEF Between
  <2>2. PICK a, b \in 1..Len(raw) : Trimming(t, raw, a, b)
    BY <1>2, <2>1, Trim
  <2>3. a <= 1 /\ j <= b
    BY <2>1, <2>2 DEF Trimming
  <2>4. a = 1 /\ b \in j..Len(raw)
    BY <1>1, <2>3
  <2>5. QED
    BY <2>2, <2>4 DEF Trimming
<1>4. t \in Seq(RawSigns) /\ Len(t) = m /\ \A k \in 1..m : t[k] = raw[k]
  BY <1>1, <1>3
<1>5. t # <<>> /\ t[1] = Fence
  BY <1>1, <1>4 DEF Between
<1>6. PICK first : first = Text!SelectInSeq(t, LAMBDA sign : sign = Break)
  OBVIOUS
<1>7. first = i - 1
  <2> DEFINE I == {k \in 1..Len(t) : t[k] = Break}
  <2>1. i - 1 \in I
    BY <1>1, <1>4 DEF Between
  <2>2. ASSUME NEW k \in I
        PROVE  i - 1 <= k
    <3>1. k # 1
      BY <1>0, <1>5
    <3>2. k \notin 2..i-2
      BY <1>4 DEF Between
    <3>3. QED
      BY <1>1, <1>4, <3>1, <3>2
  <2>3. first = IF I # {} THEN Text!Min(I) ELSE 0
    BY <1>6 DEF Text!SelectInSeq
  <2>4. \A k \in I : k \in Nat
    BY <1>4
  <2> HIDE DEF I
  <2>5. first = CHOOSE x \in I : \A y \in I : x <= y
    BY <2>1, <2>3 DEF Text!Min
  <2>6. first \in I /\ \A y \in I : first <= y
    BY <2>1, <2>2, <2>5
  <2>7. QED
    BY <1>1, <2>1, <2>2, <2>4, <2>6
<1>8. PICK rest : rest = Text!Without(t, first)
  OBVIOUS
<1>9. rest = SubSeq(t, i, m) /\ rest \in Seq(RawSigns) /\ Len(rest) = m - i + 1
      /\ \A k \in 1..m-i+1 : rest[k] = raw[i - 1 + k]
  <2>1. rest = SubSeq(t, i, m)
    BY <1>1, <1>4, <1>7, <1>8 DEF Text!Without
  <2>2. rest \in Seq(RawSigns) /\ Len(rest) = m - i + 1 /\ \A k \in 1..m-i+1 : rest[k] = t[i - 1 + k]
    BY <1>1, <1>4, <2>1
  <2>3. \A k \in 1..m-i+1 : t[i - 1 + k] = raw[i - 1 + k]
    BY <1>1, <1>4
  <2>4. QED
    BY <2>1, <2>2, <2>3
<1> DEFINE ends == {k \in 1..Len(rest) - 1 : rest[k] = Break /\ rest[k + 1] = Fence}
<1>10. j - i \in ends
  <2>1. j - i \in 1..Len(rest) - 1 /\ j - i \in 1..m-i+1 /\ j - i + 1 \in 1..m-i+1
    BY <1>1, <1>9
  <2>2. rest[j - i] = raw[j - 1] /\ rest[j - i + 1] = raw[j]
    <3>1. i - 1 + (j - i) = j - 1 /\ i - 1 + (j - i + 1) = j
      BY <1>1
    <3>2. QED
      BY <1>9, <2>1, <3>1
  <2>3. QED
    BY <2>1, <2>2 DEF Between
<1>11. ASSUME NEW k \in ends
       PROVE  j - i <= k /\ k \in Nat
  <2>1. k \in Nat /\ k + 1 \in 1..m-i+1 /\ rest[k+1] = Fence
    BY <1>1, <1>9
  <2>2. raw[i - 1 + (k + 1)] = Fence
    BY <1>9, <2>1
  <2>3. i - 1 + (k + 1) \notin i..j-1
    BY <2>2 DEF Between
  <2>4. QED
    BY <1>1, <2>1, <2>3
<1>12. (CHOOSE k \in ends : \A y \in ends : k <= y) = j - i
  <2> HIDE DEF ends
  <2> DEFINE c == CHOOSE k \in ends : \A y \in ends : k <= y
  <2>1. c \in ends /\ \A y \in ends : c <= y
    BY <1>10, <1>11
  <2> HIDE DEF c
  <2>2. c = j - i
    BY <1>1, <1>10, <1>11, <2>1
  <2>3. QED
    BY <2>2 DEF c
<1>13. Text!StripFence(raw) = SubSeq(rest, 1, j - i - 1)
  <2>1. first # 0 /\ ends # {}
    <3> HIDE DEF ends
    <3>1. QED
      BY <1>1, <1>7, <1>10
  <2>2. Text!StripFence(raw) =
          IF ends = {} THEN Text!TrimSuffix(rest, <<Fence>>)
          ELSE SubSeq(rest, 1, (CHOOSE k \in ends : \A y \in ends : k <= y) - 1)
    BY <1>2, <1>5, <1>6, <1>8, <2>1 DEF Text!StripFence
  <2> HIDE DEF ends
  <2>3. QED
    BY <1>12, <2>1, <2>2
<1>14. SubSeq(rest, 1, j - i - 1) = SubSeq(raw, i, j - 2)
  <2> DEFINE x == SubSeq(rest, 1, j - i - 1)
             y == SubSeq(raw, i, j - 2)
  <2>1. j - i - 1 \in Nat /\ j - i - 1 <= m - i + 1
    BY <1>1
  <2>2. x \in Seq(RawSigns) /\ Len(x) = j - i - 1 /\ \A k \in 1..j-i-1 : x[k] = rest[k]
    BY SMTT(60), <1>9, <2>1
  <2>3. y \in Seq(RawSigns) /\ Len(y) = j - i - 1 /\ \A k \in 1..j-i-1 : y[k] = raw[i + k - 1]
    BY <1>1
  <2>4. \A k \in 1..j-i-1 : k \in 1..m-i+1 /\ i - 1 + k = i + k - 1
    BY <1>1, <2>1
  <2> HIDE DEF x, y
  <2>5. \A k \in 1..j-i-1 : x[k] = y[k]
    BY <1>9, <2>2, <2>3, <2>4
  <2>6. x = y
    BY <2>1, <2>2, <2>3, <2>5
  <2>7. QED
    BY <2>6 DEF x, y
<1>15. QED
  BY <1>13, <1>14

\* The text is made of the answer.
TextInv ==
    /\ raw \in Seq(RawSigns)
    /\ text # Text!Pending => text = Text!Sanitized(prefix, suffix, raw)

LEMMA TextInit ==
  ASSUME TextAssumptions, Text!Init
  PROVE  TextInv
<1>1. raw \in Seq(RawSigns)
  BY DEF TextAssumptions, Text!InputsAssumption, Text!Init, RawSigns
<1>2. QED
  BY <1>1 DEF TextInv, Text!Init

LEMMA TextNext == TextInv /\ [Text!Next]_(Text!vars) => TextInv'
<1> SUFFICES ASSUME TextInv, [Text!Next]_(Text!vars)
             PROVE  TextInv'
  OBVIOUS
<1>1. /\ prefix' = prefix /\ suffix' = suffix /\ intent' = intent /\ raw' = raw
      /\ text' = text \/ text' = Text!Sanitized(prefix, suffix, raw)
  BY DEF Text!Next, Text!Sanitize, Text!vars
<1>2. Text!Sanitized(prefix, suffix, raw)' = Text!Sanitized(prefix, suffix, raw)
  BY <1>1 DEF Text!Sanitized, Text!Limited, Text!MaxLinesForIntent
<1>3. QED
  BY <1>1, <1>2 DEF TextInv, Text!Pending

LEMMA Fenced ==
  ASSUME TextAssumptions, TextInv
  PROVE  Text!FencedAsPlain
<1>1. SUFFICES ASSUME text # Text!Pending, NEW i \in 3..Len(raw), NEW j \in 3..Len(raw), Between(i, j)
               PROVE  text = Text!Sanitized(prefix, suffix, SubSeq(raw, i, j - 2))
  BY DEF Text!FencedAsPlain, Text!Done, Between
<1>2. PICK s : s = SubSeq(raw, i, j - 2)
  OBVIOUS
<1>3. Text!StripFence(raw) = Text!StripFence(s)
  BY <1>1, <1>2, PlainStays, FenceGoes DEF TextInv
<1>4. Text!Sanitized(prefix, suffix, raw) = Text!Sanitized(prefix, suffix, s)
  BY <1>3 DEF Text!Sanitized, Text!Fitting
<1>5. QED
  BY <1>1, <1>2, <1>4 DEF TextInv

\* sanitizer.go, stripFence: whatever an answer says behind its opening fence and after its
\* closing one, it is worth what stands between them, for texts of any length.
LEMMA FencedCounts ==
  ASSUME TextAssumptions
  PROVE  Text!Spec => []Text!FencedAsPlain
<1>1. TextInv => Text!FencedAsPlain
  BY Fenced
<1>2. QED
  BY TextInit, TextNext, <1>1, PTL DEF Text!Spec

-----------------------------------------------------------------------------
(* The lines of a text put together again are the text.                    *)

Signs == Text!Around
Whole == Seq(Signs)
SomeLines == Seq(Whole) \ {<<>>}

Split(before, sign) ==
    IF sign = Break THEN Append(before, <<>>)
    ELSE [before EXCEPT ![Len(before)] = Append(@, sign)]

Splitting(f, s, n) ==
    /\ f \in [0..n -> SomeLines] /\ f[0] = << <<>> >>
    /\ \A i \in 1..n : f[i] = Split(f[i-1], s[i])
    /\ Text!Lines(s) = f[n]

Joining(g, ls, n) ==
    /\ g \in [1..n -> Whole] /\ g[1] = ls[1]
    /\ \A i \in 2..n : g[i] = g[i-1] \o <<Break>> \o ls[i]
    /\ Text!Joined(ls) = g[n]

LEMMA SplitShape ==
  ASSUME NEW ls \in SomeLines, NEW sign \in Signs
  PROVE  /\ Split(ls, sign) \in SomeLines
         /\ sign = Break => /\ Len(Split(ls, sign)) = Len(ls) + 1
                            /\ Split(ls, sign)[Len(ls) + 1] = <<>>
                            /\ \A i \in 1..Len(ls) : Split(ls, sign)[i] = ls[i]
         /\ sign # Break => /\ Len(Split(ls, sign)) = Len(ls)
                            /\ Split(ls, sign)[Len(ls)] = Append(ls[Len(ls)], sign)
                            /\ \A i \in 1..Len(ls) : i # Len(ls) => Split(ls, sign)[i] = ls[i]
<1>1. ls \in Seq(Whole) /\ ls # <<>> /\ Len(ls) \in Nat /\ Len(ls) >= 1 /\ Len(ls) \in 1..Len(ls)
  BY EmptySeq DEF SomeLines
<1>2. CASE sign = Break
  <2>1. <<>> \in Whole
    BY DEF Whole
  <2>2. PICK r : r = Split(ls, sign) /\ r = Append(ls, <<>>)
    BY <1>2 DEF Split
  <2>3. r \in Seq(Whole) /\ Len(r) = Len(ls) + 1 /\ r[Len(ls) + 1] = <<>>
        /\ \A i \in 1..Len(ls) : r[i] = ls[i]
    BY <1>1, <2>1, <2>2, AppendProperties
  <2>4. r # <<>>
    BY <1>1, <2>3, EmptySeq
  <2>5. QED
    BY <1>2, <2>2, <2>3, <2>4 DEF SomeLines
<1>3. CASE sign # Break
  <2>1. ls[Len(ls)] \in Whole
    BY <1>1
  <2>2. PICK l \in Whole : l = Append(ls[Len(ls)], sign)
    <3>1. PICK x \in Seq(Signs) : x = ls[Len(ls)]
      BY <2>1 DEF Whole
    <3>2. Append(x, sign) \in Seq(Signs)
      BY AppendProperties
    <3>3. QED
      BY <3>1, <3>2 DEF Whole
  <2>3. PICK r : r = Split(ls, sign) /\ r = [ls EXCEPT ![Len(ls)] = l]
    BY <1>3, <2>2 DEF Split
  <2>4. r \in Seq(Whole) /\ Len(r) = Len(ls) /\ r[Len(ls)] = l
        /\ \A i \in 1..Len(ls) : i # Len(ls) => r[i] = ls[i]
    BY <1>1, <2>2, <2>3, ExceptSeq
  <2>5. r # <<>>
    BY <1>1, <2>4, EmptySeq
  <2>6. QED
    BY <1>3, <2>2, <2>3, <2>4, <2>5 DEF SomeLines
<1>4. QED
  BY <1>2, <1>3

LEMMA Splits ==
  ASSUME NEW s \in Whole, NEW n \in Nat, n = Len(s)
  PROVE  \E f : Splitting(f, s, n)
<1>1. s \in [1..n -> Signs]
  BY DEF Whole
<1>2. << <<>> >> \in SomeLines
  BY DEF SomeLines, Whole
<1> DEFINE Lists(f) == f = [i \in 0..Len(s) |->
                              IF i = 0 THEN << <<>> >>
                              ELSE LET before == f[i-1]
                                   IN  IF s[i] = Break THEN Append(before, <<>>)
                                       ELSE [before EXCEPT ![Len(before)] = Append(@, s[i])]]
           F == CHOOSE f : Lists(f)
<1>3. PICK next : Effects(next, n, SomeLines)
                  /\ \A i \in 1..n : \A v \in SomeLines : next[i][v] = Split(v, s[i])
  <2> DEFINE next == [i \in 1..n |-> [v \in SomeLines |-> Split(v, s[i])]]
  <2>1. \A i \in 1..n : \A v \in SomeLines : next[i][v] = Split(v, s[i])
    OBVIOUS
  <2> HIDE DEF next
  <2>2. \A i \in 1..n : \A v \in SomeLines : Split(v, s[i]) \in SomeLines
    BY <1>1, SplitShape
  <2>3. Effects(next, n, SomeLines)
    BY <2>1, <2>2 DEF Effects
  <2>4. QED
    BY <2>1, <2>3
<1>4. PICK g : Loop(g, << <<>> >>, next, n, SomeLines)
  BY <1>2, <1>3, LoopExists
<1>5. \A i \in 0..n : g[i] = IF i = 0 THEN << <<>> >> ELSE Split(g[i-1], s[i])
  <2> TAKE i \in 0..n
  <2>1. CASE i = 0
    BY <1>4, <2>1 DEF Loop
  <2>2. CASE i # 0
    <3>1. i \in 1..n /\ i - 1 \in 0..n
      BY <2>2
    <3>2. g[i-1] \in SomeLines /\ g[i] = next[i][g[i-1]]
      BY <1>4, <3>1 DEF Loop
    <3>3. QED
      BY <1>3, <2>2, <3>1, <3>2
  <2>3. QED
    BY <2>1, <2>2
<1>6. Lists(g)
  <2>1. g = [i \in 0..Len(s) |-> g[i]]
    BY <1>4 DEF Loop
  <2>2. g = [i \in 0..Len(s) |-> IF i = 0 THEN << <<>> >> ELSE Split(g[i-1], s[i])]
    BY <1>5, <2>1
  <2>3. QED
    BY <2>2 DEF Split
<1>7. Lists(F)
  <2> HIDE DEF Lists
  <2>1. QED
    BY <1>6
<1>8. Text!Lines(s) = F[n]
  BY DEF Text!Lines
<1> HIDE DEF F
<1>9. F = [i \in 0..n |-> IF i = 0 THEN << <<>> >> ELSE Split(F[i-1], s[i])]
  BY <1>7 DEF Split
<1>10. F[0] = << <<>> >> /\ \A i \in 1..n : F[i] = Split(F[i-1], s[i])
  <2>1. \A i \in 0..n : F[i] = IF i = 0 THEN << <<>> >> ELSE Split(F[i-1], s[i])
    BY <1>9
  <2>2. 0 \in 0..n /\ \A i \in 1..n : i \in 0..n /\ i # 0
    OBVIOUS
  <2>3. QED
    BY <2>1, <2>2
<1>11. \A i \in 0..n : F[i] \in SomeLines
  <2> DEFINE D == {i \in 0..n : F[i] \in SomeLines}
  <2>1. 0 \in D
    BY <1>2, <1>10
  <2>2. ASSUME NEW k \in 0..n, k \in D, k < n
        PROVE  k + 1 \in D
    <3>1. k + 1 \in 1..n /\ k + 1 \in 0..n /\ (k + 1) - 1 = k
      BY <2>2
    <3>2. F[k+1] = Split(F[k], s[k+1]) /\ s[k+1] \in Signs /\ F[k] \in SomeLines
      BY <1>1, <1>10, <2>2, <3>1
    <3>3. F[k+1] \in SomeLines
      BY <3>2, SplitShape
    <3>4. QED
      BY <3>1, <3>3
  <2> HIDE DEF D
  <2>3. \A i \in 0..n : i \in D
    BY <2>1, <2>2, Induction
  <2>4. QED
    BY <2>3 DEF D
<1>12. F \in [0..n -> SomeLines]
  <2>1. F = [i \in 0..n |-> F[i]]
    BY <1>9
  <2>2. QED
    BY <1>11, <2>1
<1>13. Splitting(F, s, n)
  BY <1>8, <1>10, <1>12 DEF Splitting
<1>14. QED
  BY <1>13

LEMMA JoinShape ==
  ASSUME TextAssumptions, NEW u \in Whole, NEW v \in Whole
  PROVE  u \o <<Break>> \o v \in Whole
<1>1. <<Break>> \in Whole
  BY DEF Whole, Signs, Text!Around
<1>2. u \o <<Break>> \in Whole
  BY <1>1, ConcatProperties DEF Whole
<1>3. QED
  BY <1>2, ConcatProperties DEF Whole

LEMMA Joins ==
  ASSUME TextAssumptions, NEW ls \in SomeLines, NEW n \in Nat, n = Len(ls)
  PROVE  n >= 1 /\ \E g : Joining(g, ls, n)
<1>1. n >= 1 /\ ls \in [1..n -> Whole] /\ ls # <<>>
  BY EmptySeq DEF SomeLines
<1> DEFINE Joint(f) == f = [i \in 1..Len(ls) |-> IF i = 1 THEN ls[1] ELSE f[i-1] \o <<Break>> \o ls[i]]
           F == CHOOSE f : Joint(f)
<1>2. PICK next : Effects(next, n - 1, Whole)
                  /\ \A i \in 1..n-1 : \A v \in Whole : next[i][v] = v \o <<Break>> \o ls[i+1]
  <2> DEFINE next == [i \in 1..n-1 |-> [v \in Whole |-> v \o <<Break>> \o ls[i+1]]]
  <2>1. \A i \in 1..n-1 : \A v \in Whole : next[i][v] = v \o <<Break>> \o ls[i+1]
    OBVIOUS
  <2> HIDE DEF next
  <2>2. \A i \in 1..n-1 : \A v \in Whole : next[i][v] \in Whole
    <3> TAKE i \in 1..n-1
    <3> TAKE v \in Whole
    <3>1. ls[i+1] \in Whole
      BY <1>1
    <3>2. QED
      BY <2>1, <3>1, JoinShape
  <2>3. Effects(next, n - 1, Whole)
    BY <2>2 DEF Effects
  <2>4. QED
    BY <2>1, <2>3
<1>3. PICK h : Loop(h, ls[1], next, n - 1, Whole)
  <2>1. PICK b \in Whole, k \in Nat : b = ls[1] /\ k = n - 1
    BY <1>1
  <2>2. \E h : Loop(h, b, next, k, Whole)
    BY <1>2, <2>1, LoopExists
  <2>3. QED
    BY <2>1, <2>2
<1> DEFINE g == [i \in 1..n |-> h[i-1]]
<1>4. \A i \in 1..n : g[i] = IF i = 1 THEN ls[1] ELSE g[i-1] \o <<Break>> \o ls[i]
  <2> TAKE i \in 1..n
  <2>1. CASE i = 1
    BY <1>3, <2>1 DEF Loop
  <2>2. CASE i # 1
    <3>1. i - 1 \in 1..n-1 /\ i - 1 \in 1..n /\ (i - 1) - 1 \in 0..n-1 /\ (i - 1) + 1 = i
      BY <2>2
    <3>2. g[i] = h[i-1] /\ g[i-1] = h[(i-1)-1]
      BY <3>1
    <3>3. h[i-1] = next[i-1][h[(i-1)-1]] /\ h[(i-1)-1] \in Whole
      BY <1>3, <3>1 DEF Loop
    <3>4. h[i-1] = h[(i-1)-1] \o <<Break>> \o ls[(i-1)+1]
      BY <1>2, <3>1, <3>3
    <3> HIDE DEF g
    <3>5. QED
      BY <2>2, <3>1, <3>2, <3>4
  <2>3. QED
    BY <2>1, <2>2
<1>5. Joint(g)
  <2>1. g = [i \in 1..Len(ls) |-> g[i]]
    OBVIOUS
  <2> HIDE DEF g
  <2>2. QED
    BY <1>4, <2>1
<1>6. Joint(F)
  <2> HIDE DEF Joint, g
  <2>1. QED
    BY <1>5
<1>7. Text!Joined(ls) = F[n]
  BY <1>1 DEF Text!Joined
<1> HIDE DEF F
<1>8. \A i \in 1..n : F[i] = IF i = 1 THEN ls[1] ELSE F[i-1] \o <<Break>> \o ls[i]
  BY <1>6
<1>9. F[1] = ls[1] /\ \A i \in 2..n : F[i] = F[i-1] \o <<Break>> \o ls[i]
  <2>1. 1 \in 1..n /\ \A i \in 2..n : i \in 1..n /\ i # 1
    BY <1>1
  <2>2. QED
    BY <1>8, <2>1
<1>10. \A i \in 1..n : F[i] \in Whole
  <2> DEFINE D == {k \in 0..n-1 : F[k+1] \in Whole}
  <2>1. 0 \in D
    BY <1>1, <1>9
  <2>2. ASSUME NEW k \in 0..n-1, k \in D, k < n - 1
        PROVE  k + 1 \in D
    <3>1. k + 2 \in 2..n /\ (k + 2) - 1 = k + 1 /\ k + 1 \in 0..n-1 /\ (k + 1) + 1 = k + 2 /\ k + 2 \in 1..n
      BY <2>2
    <3>2. F[k+2] = F[k+1] \o <<Break>> \o ls[k+2] /\ ls[k+2] \in Whole /\ F[k+1] \in Whole
      BY <1>1, <1>9, <2>2, <3>1
    <3>3. F[k+2] \in Whole
      BY <3>2, JoinShape
    <3>4. QED
      BY <3>1, <3>3
  <2> HIDE DEF D
  <2>3. PICK m \in Nat : m = n - 1
    BY <1>1
  <2>4. \A k \in 0..m : k \in D
    BY <2>1, <2>2, <2>3, Induction
  <2>5. \A i \in 1..n : i - 1 \in 0..m /\ (i - 1) + 1 = i
    BY <2>3
  <2>6. QED
    BY <2>4, <2>5 DEF D
<1>11. F \in [1..n -> Whole]
  <2>1. F = [i \in 1..n |-> F[i]]
    BY <1>6
  <2>2. QED
    BY <1>10, <2>1
<1>12. Joining(F, ls, n)
  BY <1>7, <1>9, <1>11 DEF Joining
<1>13. QED
  BY <1>1, <1>12

Chained(g, ls, n) == g[1] = ls[1] /\ \A i \in 2..n : g[i] = g[i-1] \o <<Break>> \o ls[i]
Agree(ls, ms, n) == \A i \in 1..n : ls[i] = ms[i]

\* Lines that agree up to a point are joined alike up to it.
LEMMA JoinAlike ==
  ASSUME NEW n \in Nat, n >= 1, NEW g, NEW h, NEW ls, NEW ms,
         Chained(g, ls, n), Chained(h, ms, n), Agree(ls, ms, n)
  PROVE  g[n] = h[n]
<1> USE DEF Chained, Agree
<1> DEFINE D == {k \in 0..n-1 : g[k+1] = h[k+1]}
<1>1. 0 \in D
  OBVIOUS
<1>2. ASSUME NEW k \in 0..n-1, k \in D, k < n - 1
      PROVE  k + 1 \in D
  <2>1. k + 2 \in 2..n /\ (k + 2) - 1 = k + 1 /\ k + 1 \in 0..n-1 /\ (k + 1) + 1 = k + 2 /\ k + 2 \in 1..n
    BY <1>2
  <2>2. g[k+2] = g[k+1] \o <<Break>> \o ls[k+2] /\ h[k+2] = h[k+1] \o <<Break>> \o ms[k+2]
    BY <2>1
  <2>3. g[k+2] = h[k+2]
    BY <1>2, <2>1, <2>2
  <2>4. QED
    BY <2>1, <2>3
<1> HIDE DEF D
<1>3. PICK m \in Nat : m = n - 1 /\ m \in 0..m /\ m + 1 = n
  OBVIOUS
<1>4. \A k \in 0..m : k \in D
  BY <1>1, <1>2, <1>3, Induction
<1>5. m \in D
  BY <1>3, <1>4
<1>6. QED
  BY <1>3, <1>5 DEF D

\* Another sign in the lines is another sign of the text.
LEMMA SplitJoined ==
  ASSUME TextAssumptions, NEW ls \in SomeLines, NEW sign \in Signs
  PROVE  Text!Joined(ls) \in Whole /\ Text!Joined(Split(ls, sign)) = Text!Joined(ls) \o <<sign>>
<1>1. PICK n \in Nat : n = Len(ls) /\ ls \in [1..n -> Whole]
  BY DEF SomeLines
<1>2. n >= 1 /\ \E g : Joining(g, ls, n)
  BY <1>1, Joins
<1>3. PICK g : Joining(g, ls, n)
  BY <1>2
<1>4. PICK r \in SomeLines : r = Split(ls, sign)
  BY SplitShape
<1>5. Text!Joined(ls) = g[n] /\ g[n] \in Whole
  BY <1>2, <1>3 DEF Joining
<1>6. CASE sign = Break
  <2>1. Len(r) = n + 1 /\ r[n+1] = <<>> /\ \A i \in 1..n : r[i] = ls[i]
    BY <1>1, <1>4, <1>6, SplitShape
  <2>2. n + 1 \in Nat
    OBVIOUS
  <2>3. PICK h : Joining(h, r, n + 1)
    BY <2>1, <2>2, Joins
  <2>4. g[n] = h[n]
    <3>1. Chained(g, ls, n)
      BY <1>3 DEF Joining, Chained
    <3>2. h[1] = r[1]
      BY <2>3 DEF Joining
    <3>3. \A i \in 2..n : h[i] = h[i-1] \o <<Break>> \o r[i]
      <4> TAKE i \in 2..n
      <4>1. i \in 2..n+1
        OBVIOUS
      <4>2. QED
        BY <2>3, <4>1 DEF Joining
    <3>4. Chained(h, r, n)
      BY <3>2, <3>3 DEF Chained
    <3>5. Agree(ls, r, n)
      BY <2>1 DEF Agree
    <3>6. QED
      BY <1>2, <3>1, <3>4, <3>5, JoinAlike
  <2>5. h[n+1] = h[n] \o <<Break>> \o <<>>
    <3>1. n + 1 \in 2..n+1 /\ (n + 1) - 1 = n
      BY <1>2
    <3>2. QED
      BY <2>1, <2>3, <3>1 DEF Joining
  <2>6. PICK u \in Seq(Signs) : u = h[n] \o <<Break>>
    <3>1. <<Break>> \in Seq(Signs) /\ h[n] \in Seq(Signs)
      BY <1>5, <1>6, <2>4 DEF Whole
    <3>2. h[n] \o <<Break>> \in Seq(Signs)
      BY <3>1, ConcatProperties
    <3>3. QED
      BY <3>2
  <2>7. h[n+1] = u
    BY <2>5, <2>6, ConcatEmptySeq
  <2>8. Text!Joined(r) = h[n+1]
    BY <2>3 DEF Joining
  <2>9. QED
    BY <1>4, <1>5, <1>6, <2>4, <2>6, <2>7, <2>8
<1>7. CASE sign # Break
  <2>1. PICK l \in Seq(Signs) : l = ls[n]
    BY <1>1, <1>2 DEF Whole
  <2>2. Len(r) = n /\ r[n] = Append(l, sign) /\ \A i \in 1..n : i # n => r[i] = ls[i]
    BY <1>1, <1>4, <1>7, <2>1, SplitShape
  <2>3. r[n] = l \o <<sign>> /\ <<sign>> \in Seq(Signs)
    BY <2>2, AppendIsConcat
  <2>4. PICK h : Joining(h, r, n)
    BY <2>2, Joins
  <2>5. CASE n = 1
    BY <1>3, <1>4, <1>5, <2>1, <2>3, <2>4, <2>5 DEF Joining
  <2>6. CASE n # 1
    <3>1. n - 1 \in Nat /\ n - 1 >= 1 /\ n \in 2..n
      BY <1>2, <2>6
    <3>2. g[n-1] = h[n-1]
      <4>1. g[1] = ls[1] /\ h[1] = r[1]
        BY <1>3, <2>4 DEF Joining
      <4>2. PICK p \in Nat : p = n - 1 /\ p >= 1
        BY <3>1
      <4>3. \A i \in 2..p : g[i] = g[i-1] \o <<Break>> \o ls[i]
        <5> TAKE i \in 2..p
        <5>1. i \in 2..n
          BY <4>2
        <5>2. QED
          BY <1>3, <5>1 DEF Joining
      <4>4. \A i \in 2..p : h[i] = h[i-1] \o <<Break>> \o r[i]
        <5> TAKE i \in 2..p
        <5>1. i \in 2..n
          BY <4>2
        <5>2. QED
          BY <2>4, <5>1 DEF Joining
      <4>5. Agree(ls, r, p)
        BY <2>2, <4>2 DEF Agree
      <4>6. Chained(g, ls, p) /\ Chained(h, r, p)
        BY <4>1, <4>3, <4>4 DEF Chained
      <4>7. QED
        BY <4>2, <4>5, <4>6, JoinAlike
    <3>3. PICK u \in Seq(Signs) : u = g[n-1] \o <<Break>>
      <4>1. <<Break>> \in Seq(Signs)
        BY DEF Signs, Text!Around
      <4>2. g[n-1] \in Seq(Signs)
        BY <1>3, <3>1 DEF Joining, Whole
      <4>3. g[n-1] \o <<Break>> \in Seq(Signs)
        BY <4>1, <4>2, ConcatProperties
      <4>4. QED
        BY <4>3
    <3>4. g[n] = u \o l /\ h[n] = u \o (l \o <<sign>>)
      <4>1. g[n] = g[n-1] \o <<Break>> \o ls[n]
        BY <1>3, <3>1 DEF Joining
      <4>2. h[n] = h[n-1] \o <<Break>> \o r[n]
        BY <2>4, <3>1 DEF Joining
      <4>3. QED
        BY <2>1, <2>3, <3>2, <3>3, <4>1, <4>2
    <3>5. h[n] = g[n] \o <<sign>>
      BY <2>3, <3>4, ConcatAssociative
    <3>6. QED
      BY <1>4, <1>5, <2>4, <3>5 DEF Joining
  <2>7. QED
    BY <2>5, <2>6
<1>8. QED
  BY <1>5, <1>6, <1>7

LEMMA LinesJoined ==
  ASSUME TextAssumptions, NEW s \in Whole
  PROVE  Text!Lines(s) \in SomeLines /\ Text!Joined(Text!Lines(s)) = s
<1>1. PICK n \in Nat : n = Len(s) /\ s \in [1..n -> Signs] /\ s \in Seq(Signs)
  BY DEF Whole
<1>2. PICK f : Splitting(f, s, n)
  BY <1>1, Splits
<1> DEFINE D == {k \in 0..n : Text!Joined(f[k]) = SubSeq(s, 1, k)}
<1>3. 0 \in D
  <2>1. PICK e \in SomeLines : e = << <<>> >> /\ Len(e) = 1 /\ e[1] = <<>>
    <3>1. PICK o \in Whole : o = <<>>
      <4>1. <<>> \in Whole
        BY DEF Whole
      <4>2. QED
        BY <4>1
    <3>2. <<o>> \in Seq(Whole) /\ <<o>> # <<>> /\ Len(<<o>>) = 1 /\ <<o>>[1] = o
      OBVIOUS
    <3>3. QED
      BY <3>1, <3>2 DEF SomeLines
  <2>2. PICK g : Joining(g, e, 1)
    BY <2>1, Joins
  <2>3. Text!Joined(e) = <<>>
    BY <2>1, <2>2 DEF Joining
  <2>4. SubSeq(s, 1, 0) = <<>>
    BY SubSeqEmpty
  <2>5. f[0] = e
    BY <1>2, <2>1 DEF Splitting
  <2>6. Text!Joined(f[0]) = SubSeq(s, 1, 0)
    BY <2>3, <2>4, <2>5
  <2>7. 0 \in 0..n
    BY <1>1
  <2>8. QED
    BY <2>6, <2>7
<1>4. ASSUME NEW k \in 0..n, k \in D, k < n
      PROVE  k + 1 \in D
  <2>1. k + 1 \in 1..n /\ k + 1 \in 0..n /\ (k + 1) - 1 = k
    BY <1>4
  <2>2. f[k+1] = Split(f[k], s[k+1]) /\ f[k] \in SomeLines /\ s[k+1] \in Signs
    BY <1>1, <1>2, <2>1 DEF Splitting
  <2>3. Text!Joined(f[k+1]) = Text!Joined(f[k]) \o <<s[k+1]>>
    BY <2>2, SplitJoined
  <2>4. SubSeq(s, 1, k + 1) = SubSeq(s, 1, (k + 1) - 1) \o <<s[k+1]>>
    <3>1. PICK m : m = k + 1 /\ m \in 1..Len(s) /\ 1 \in 1..Len(s)
      BY <1>1, <2>1
    <3>2. SubSeq(s, 1, m) = SubSeq(s, 1, m - 1) \o <<s[m]>>
      BY <1>1, <3>1, SubSeqRecursiveSecond
    <3>3. QED
      BY <3>1, <3>2
  <2>5. QED
    BY <1>4, <2>1, <2>3, <2>4
<1> HIDE DEF D
<1>5. n \in D
  <2>1. n \in 0..n
    OBVIOUS
  <2>2. QED
    BY <1>3, <1>4, <2>1, Induction
<1>6. Text!Lines(s) = f[n] /\ f[n] \in SomeLines
  BY <1>2 DEF Splitting
<1>7. Text!Joined(f[n]) = s
  BY <1>1, <1>5, SubSeqFull DEF D
<1>8. QED
  BY <1>6, <1>7

-----------------------------------------------------------------------------
(* What each step leaves of a text that needs no repair.                   *)

LEMMA FenceStays ==
  ASSUME TextAssumptions, NEW s \in Whole
  PROVE  Text!StripFence(s) = s
<1>1. PICK t \in Whole : t = Text!TrimSpace(s)
  BY TrimType DEF Whole
<1>2. t = <<>> \/ t[1] # Fence
  <2>1. Fence \notin Signs
    BY DEF TextAssumptions, Text!SignsAssumption, Signs
  <2>2. t # <<>> => t[1] \in Signs
    BY DEF Whole
  <2>3. QED
    BY <2>1, <2>2
<1>3. Text!StripFence(s) = Text!TrimSuffix(s, <<Break, Fence>>)
  BY <1>1, <1>2 DEF Text!StripFence
<1>4. Fence \notin Signs /\ s \in Seq(Signs)
  BY DEF TextAssumptions, Text!SignsAssumption, Signs, Whole
<1>5. QED
  BY <1>3, <1>4, NoSuffix

LEMMA ExplanationStays ==
  ASSUME TextAssumptions, NEW s \in Whole
  PROVE  Text!StripExplanation(s) = s
<1>1. PICK ls \in SomeLines : ls = Text!Lines(s)
  BY LinesJoined
<1>2. ls[1] \in Seq(Signs)
  BY EmptySeq DEF SomeLines, Whole
<1>3. PICK t \in Seq(Signs) : t = Text!TrimSpace(ls[1])
  BY <1>2, TrimType
<1>4. Announcement \notin Signs
  BY DEF TextAssumptions, Text!SignsAssumption, Signs
<1>5. t # <<Announcement>>
  <2>1. SUFFICES ASSUME t = <<Announcement>>
                 PROVE  FALSE
    OBVIOUS
  <2>2. Len(t) = 1 /\ t[1] = Announcement
    BY <2>1
  <2>3. t[1] \in Signs
    BY <2>2
  <2>4. QED
    BY <1>4, <2>2, <2>3
<1>6. QED
  BY <1>1, <1>3, <1>5 DEF Text!StripExplanation

\* All lines of a text, joined, are the text.
LEMMA AllJoined ==
  ASSUME TextAssumptions, NEW s \in Whole
  PROVE  /\ Len(Text!Lines(s)) \in Nat /\ Len(Text!Lines(s)) >= 1
         /\ DOMAIN Text!Lines(s) = 1..Len(Text!Lines(s))
         /\ Text!Joined(SubSeq(Text!Lines(s), 1, Len(Text!Lines(s)))) = s
<1>1. PICK ls \in SomeLines : ls = Text!Lines(s) /\ Text!Joined(ls) = s
  BY LinesJoined
<1>2. ls \in Seq(Whole) /\ Len(ls) \in Nat /\ Len(ls) >= 1 /\ DOMAIN ls = 1..Len(ls)
  BY <1>1, EmptySeq DEF SomeLines
<1>3. SubSeq(ls, 1, Len(ls)) = ls
  BY <1>2, SubSeqFull
<1>4. QED
  BY <1>1, <1>2, <1>3

LEMMA BlankLinesStay ==
  ASSUME TextAssumptions, NEW s \in Whole,
         ~Text!IsBlank(Text!Lines(s)[1]), ~Text!IsBlank(Text!Last(Text!Lines(s)))
  PROVE  Text!TrimBlankLines(s) = s
<1>1. PICK ls : ls = Text!Lines(s)
  OBVIOUS
<1>2. PICK n \in Nat : n = Len(ls) /\ n >= 1 /\ DOMAIN ls = 1..n /\ Text!Joined(SubSeq(ls, 1, n)) = s
  BY <1>1, AllJoined
<1> DEFINE solid == {i \in DOMAIN ls : ~Text!IsBlank(ls[i])}
           first == CHOOSE i \in solid : \A j \in solid : i <= j
           last == CHOOSE i \in solid : \A j \in solid : j <= i
<1>3. ~Text!IsBlank(ls[1]) /\ ~Text!IsBlank(ls[n])
  BY <1>1, <1>2 DEF Text!Last
<1>4. 1 \in solid /\ n \in solid /\ \A j \in solid : 1 <= j /\ j <= n /\ j \in Nat
  BY <1>2, <1>3
<1>5. Text!TrimBlankLines(s) = Text!Joined(SubSeq(ls, first, last))
  <2>1. solid # {}
    BY <1>4
  <2>2. QED
    BY <1>1, <2>1 DEF Text!TrimBlankLines
<1> HIDE DEF solid
<1>6. first = 1
  <2>1. first \in solid /\ \A j \in solid : first <= j
    BY <1>4
  <2> HIDE DEF first
  <2>2. first <= 1 /\ 1 <= first /\ first \in Nat
    BY <1>4, <2>1
  <2>3. QED
    BY <2>2
<1>7. last = n
  <2>1. last \in solid /\ \A j \in solid : j <= last
    BY <1>4
  <2> HIDE DEF last
  <2>2. last <= n /\ n <= last /\ last \in Nat
    BY <1>4, <2>1
  <2>3. QED
    BY <2>2
<1>8. QED
  BY <1>2, <1>5, <1>6, <1>7

LEMMA PrefixStays ==
  ASSUME NEW before, NEW s \in Whole, \A n \in 1..Len(s) : ~Text!Overlaps(before, s, n)
  PROVE  Text!RemovePrefixOverlap(before, s) = s
<1> DEFINE ns == {n \in 1..Text!Lesser(Text!MaxOverlap, Len(s)) : Text!Overlaps(before, s, n)}
<1>1. PICK k \in Nat : k = Len(s)
  BY DEF Whole
<1>2. ns = {}
  <2>1. Text!Lesser(1000, k) <= k /\ Text!Lesser(1000, k) \in Nat
    BY DEF Text!Lesser
  <2>2. \A n \in 1..Text!Lesser(1000, k) : n \in 1..k
    BY <2>1
  <2>3. QED
    BY <1>1, <2>2 DEF Text!MaxOverlap
<1>3. Text!Overlap(before, s) = 0
  BY <1>2 DEF Text!Overlap
<1>4. Text!Without(s, 0) = s
  <2>1. Text!Without(s, 0) = SubSeq(s, 1, Len(s))
    BY DEF Text!Without
  <2>2. QED
    BY <2>1, SubSeqFull DEF Whole
<1>5. QED
  BY <1>3, <1>4 DEF Text!RemovePrefixOverlap

LEMMA SuffixStays ==
  ASSUME NEW after, NEW s \in Whole, \A n \in 2..Len(s) : ~Text!Overlaps(s, after, n)
  PROVE  Text!RemoveSuffixOverlap(s, after) = s
<1> DEFINE ns == {n \in 1..Text!Lesser(Text!MaxOverlap, Len(after)) : Text!Overlaps(s, after, n)}
           most == CHOOSE n \in ns : \A m \in ns : m <= n
<1>1. PICK k \in Nat : k = Len(s)
  BY DEF Whole
<1>2. \A n \in ns : n = 1
  <2> TAKE n \in ns
  <2>1. n \in Int /\ n >= 1 /\ n <= k
    BY <1>1 DEF Text!Overlaps
  <2>2. n \notin 2..k
    BY <1>1
  <2>3. QED
    BY <2>1, <2>2
<1>3. Text!Overlap(s, after) = 0 \/ Text!Overlap(s, after) = 1
  <2>1. CASE ns = {}
    BY <2>1 DEF Text!Overlap
  <2>2. CASE ns # {}
    <3>1. Text!Overlap(s, after) = most
      BY <2>2 DEF Text!Overlap
    <3>2. most = 1
      <4> HIDE DEF ns
      <4>1. \E n \in ns : \A m \in ns : m <= n
        BY <1>2, <2>2
      <4>2. most \in ns
        BY <4>1
      <4>3. QED
        BY <1>2, <4>2
    <3>3. QED
      BY <3>1, <3>2
  <2>3. QED
    BY <2>1, <2>2
<1>4. QED
  BY <1>3 DEF Text!RemoveSuffixOverlap, Text!Repeats

LEMMA LanguageFits ==
  ASSUME TextAssumptions, NEW s \in Whole
  PROVE  ~Text!WrongLanguage(s)
<1>1. PICK t \in Seq(Signs) : t = Text!TrimSpace(s)
  BY TrimType DEF Whole
<1>2. Foreign \notin Signs
  BY DEF TextAssumptions, Text!SignsAssumption, Signs
<1>3. t # <<>> => t[1] \in Signs
  OBVIOUS
<1>4. QED
  BY <1>1, <1>2, <1>3 DEF Text!WrongLanguage

LEMMA LineLimit ==
  ASSUME TextAssumptions
  PROVE  Text!MaxLinesForIntent(MaxLines) \in Nat
<1>1. MaxLines \in Nat
  BY DEF TextAssumptions, Text!LimitAssumption
<1>2. \A a \in Nat : Text!Lesser(MaxLines, a) \in Nat
  BY <1>1 DEF Text!Lesser
<1>3. PICK one \in Nat, two \in Nat, eight \in Nat, twelve \in Nat :
          /\ one = Text!Lesser(MaxLines, 1) /\ two = Text!Lesser(MaxLines, 2)
          /\ eight = Text!Lesser(MaxLines, 8) /\ twelve = Text!Lesser(MaxLines, 12)
  BY <1>2
<1>4. QED
  BY <1>1, <1>3 DEF Text!MaxLinesForIntent

LEMMA LimitsFit ==
  ASSUME TextAssumptions, NEW s \in Whole,
         Len(Text!Lines(s)) <= Text!MaxLinesForIntent(MaxLines), Len(s) <= MaxChars
  PROVE  Text!LimitChars(Text!LimitLines(s, Text!MaxLinesForIntent(MaxLines)), MaxChars) = s
<1>1. PICK max \in Nat : max = Text!MaxLinesForIntent(MaxLines)
  BY LineLimit
<1>2. PICK n \in Nat : n = Len(Text!Lines(s)) /\ Text!Joined(SubSeq(Text!Lines(s), 1, n)) = s
  BY AllJoined
<1>3. Text!Lesser(max, n) = n
  BY <1>1, <1>2 DEF Text!Lesser
<1>4. Text!LimitLines(s, max) = s
  BY <1>2, <1>3 DEF Text!LimitLines
<1>5. Text!LimitChars(s, MaxChars) = s
  <2>1. Len(s) \in Nat /\ MaxChars \in Nat /\ Len(s) <= MaxChars
    BY DEF Whole, TextAssumptions, Text!LimitAssumption
  <2>2. QED
    BY <2>1 DEF Text!LimitChars
<1>6. QED
  BY <1>1, <1>4, <1>5

LEMMA CleanStays ==
  ASSUME TextAssumptions, TextInv
  PROVE  Text!CleanIsUntouched
<1>1. SUFFICES ASSUME text # Text!Pending, Text!Clean(prefix, suffix, raw)
               PROVE  text = raw
  BY DEF Text!CleanIsUntouched, Text!Done
<1>2. PICK s \in Whole : s = raw
  <2>1. \A i \in 1..Len(raw) : raw[i] \in Signs
    BY <1>1 DEF TextInv, Text!Clean, Signs
  <2>2. raw \in Seq(Signs)
    BY <2>1 DEF TextInv
  <2>3. QED
    BY <2>2 DEF Whole
<1>3. /\ ~Text!IsBlank(Text!Lines(s)[1]) /\ ~Text!IsBlank(Text!Last(Text!Lines(s)))
      /\ Text!CollapseBlankLines(s) = s
      /\ \A n \in 1..Len(s) : ~Text!Overlaps(prefix, s, n)
      /\ \A n \in 2..Len(s) : ~Text!Overlaps(s, suffix, n)
      /\ Len(Text!Lines(s)) <= Text!MaxLinesForIntent(MaxLines) /\ Len(s) <= MaxChars
  BY <1>1, <1>2 DEF Text!Clean
<1>4. Text!TrimBlankLines(s) = s
  BY <1>3, BlankLinesStay
<1>5. Text!StripExplanation(Text!StripFence(s)) = s
  BY FenceStays, ExplanationStays
<1>6. Text!RemoveSuffixOverlap(Text!RemovePrefixOverlap(prefix, s), suffix) = s
  BY <1>3, PrefixStays, SuffixStays
<1>7. Text!Fitting(prefix, suffix, s) = s
  BY <1>3, <1>4, <1>5, <1>6 DEF Text!Fitting
<1>8. Text!Limited(s) = s
  BY <1>3, <1>4, LimitsFit DEF Text!Limited
<1>9. Text!Sanitized(prefix, suffix, s) = s
  BY <1>7, <1>8, LanguageFits DEF Text!Sanitized
<1>10. QED
  BY <1>1, <1>2, <1>9 DEF TextInv

\* sanitizer.go, Sanitize: the steps together leave a text alone that none of them has a
\* reason to change, whatever its length and whatever stands around the cursor.
LEMMA CleanStaysClean ==
  ASSUME TextAssumptions
  PROVE  Text!Spec => []Text!CleanIsUntouched
<1>1. TextInv => Text!CleanIsUntouched
  BY CleanStays
<1>2. QED
  BY TextInit, TextNext, <1>1, PTL DEF Text!Spec
-----------------------------------------------------------------------------
(* The components side by side: a behaviour of Sequential is one of the    *)
(* component it is about.                                                  *)

LEMMA ComponentStays == [ComponentsNext]_allVars => component' = component
  BY DEF ComponentsNext, allVars

LEMMA AssumptionsHold ==
  Inline!PlansAssumption /\ QualityAssumptions /\ RequestAssumptions /\ TextAssumptions
  BY ComponentsAssumption DEF QualityAssumptions, RequestAssumptions, TextAssumptions

LEMMA AboutConfig ==
  ASSUME component = "config"
  PROVE  /\ ComponentsInit => Config!Init
         /\ [ComponentsNext]_allVars => [Config!Next]_(Config!vars)
  BY DEF ComponentsInit, ComponentsNext, allVars, configVars, Config!vars

LEMMA AboutRequest ==
  ASSUME component = "request"
  PROVE  /\ ComponentsInit => Request!Init
         /\ [ComponentsNext]_allVars => [Request!Next]_(Request!vars)
  BY DEF ComponentsInit, ComponentsNext, allVars, requestVars, Request!vars

LEMMA AboutText ==
  ASSUME component = "text"
  PROVE  /\ ComponentsInit => Text!Init
         /\ [ComponentsNext]_allVars => [Text!Next]_(Text!vars)
  BY DEF ComponentsInit, ComponentsNext, allVars, textVars, Text!vars

LEMMA AboutQuality ==
  ASSUME component = "quality"
  PROVE  /\ ComponentsInit => Quality!Init
         /\ [ComponentsNext]_allVars => [Quality!Next]_(Quality!vars)
  BY DEF ComponentsInit, ComponentsNext, allVars, qualityVars, Quality!vars

LEMMA AboutInline ==
  ASSUME component = "inline"
  PROVE  /\ ComponentsInit => Inline!Init
         /\ [ComponentsNext]_allVars => [Inline!Next]_(Inline!vars)
  BY DEF ComponentsInit, ComponentsNext, allVars, inlineVars, Inline!vars

\* config.go, cmd/server/main.go: a server that starts is protected in production, keeps the
\* fallback's time-out, and its sections, accepted one by one, fit together.
THEOREM StartsSoundHolds == ComponentsSpec => []StartsSound
<1>1. ComponentsInit /\ component = "config" => Config!Init
  BY AboutConfig
<1>2. [ComponentsNext]_allVars /\ component = "config" => [Config!Next]_(Config!vars)
  BY AboutConfig
<1>3. Config!Spec => []Config!StartsSound
  BY ConfigStartsSound
<1>4. StartsSound <=> (component = "config" => Config!StartsSound)
  BY DEF StartsSound
<1>5. [ComponentsNext]_allVars => (component = "config" <=> (component = "config")')
  BY ComponentStays
<1>6. QED
  BY <1>1, <1>2, <1>3, <1>4, <1>5, PTL DEF ComponentsSpec, Config!Spec

\* toApiCompletionRequest cuts in UTF-16 units and Validate counts bytes: source text is
\* never what a request is refused for, whatever the settings, the scripts and the lengths.
THEOREM SourceTextIsAcceptedHolds == ComponentsSpec => []SourceTextIsAccepted
<1>1. ComponentsInit /\ component = "request" => Request!Init
  BY AboutRequest
<1>2. [ComponentsNext]_allVars /\ component = "request" => [Request!Next]_(Request!vars)
  BY AboutRequest
<1>3. Request!Spec => []Request!SourceTextIsAccepted
  BY RequestIsAccepted, AssumptionsHold
<1>4. SourceTextIsAccepted <=> (component = "request" => Request!SourceTextIsAccepted)
  BY DEF SourceTextIsAccepted
<1>5. [ComponentsNext]_allVars => (component = "request" <=> (component = "request")')
  BY ComponentStays
<1>6. QED
  BY <1>1, <1>2, <1>3, <1>4, <1>5, PTL DEF ComponentsSpec, Request!Spec

\* sanitizer.go, Sanitize: an answer that none of the steps has a reason to change reaches
\* the editor as it is, whatever its length and whatever stands around the cursor.
THEOREM CleanIsUntouchedHolds == ComponentsSpec => []CleanIsUntouched
<1>1. ComponentsInit /\ component = "text" => Text!Init
  BY AboutText
<1>2. [ComponentsNext]_allVars /\ component = "text" => [Text!Next]_(Text!vars)
  BY AboutText
<1>3. Text!Spec => []Text!CleanIsUntouched
  BY CleanStaysClean, AssumptionsHold
<1>4. CleanIsUntouched <=> (component = "text" => Text!CleanIsUntouched)
  BY DEF CleanIsUntouched
<1>5. [ComponentsNext]_allVars => (component = "text" <=> (component = "text")')
  BY ComponentStays
<1>6. QED
  BY <1>1, <1>2, <1>3, <1>4, <1>5, PTL DEF ComponentsSpec, Text!Spec

\* sanitizer.go, stripFence: a fenced answer counts as what stands between its fences, for
\* texts of any length.
THEOREM FencedAsPlainHolds == ComponentsSpec => []FencedAsPlain
<1>1. ComponentsInit /\ component = "text" => Text!Init
  BY AboutText
<1>2. [ComponentsNext]_allVars /\ component = "text" => [Text!Next]_(Text!vars)
  BY AboutText
<1>3. Text!Spec => []Text!FencedAsPlain
  BY FencedCounts, AssumptionsHold
<1>4. FencedAsPlain <=> (component = "text" => Text!FencedAsPlain)
  BY DEF FencedAsPlain
<1>5. [ComponentsNext]_allVars => (component = "text" <=> (component = "text")')
  BY ComponentStays
<1>6. QED
  BY <1>1, <1>2, <1>3, <1>4, <1>5, PTL DEF ComponentsSpec, Text!Spec

\* qualityReporter.ts, handlers/quality.go: unless events are lost or deleted, or the
\* percentage changes, every recorded acceptance or vote has its "shown" event once nothing
\* is under way, in whatever order the events arrive.
THEOREM PairsArriveHolds == ComponentsSpec => []PairsArrive
<1>1. ComponentsInit /\ component = "quality" => Quality!Init
  BY AboutQuality
<1>2. [ComponentsNext]_allVars /\ component = "quality" => [Quality!Next]_(Quality!vars)
  BY AboutQuality
<1>3. Quality!Spec => []Quality!PairsArrive
  BY QualityPairsArrive, AssumptionsHold
<1>4. PairsArrive <=> (component = "quality" => Quality!PairsArrive)
  BY DEF PairsArrive
<1>5. [ComponentsNext]_allVars => (component = "quality" <=> (component = "quality")')
  BY ComponentStays
<1>6. QED
  BY <1>1, <1>2, <1>3, <1>4, <1>5, PTL DEF ComponentsSpec, Quality!Spec

\* quality_repository.go: a report made within a day fits together although its four
\* queries run one after the other while events arrive.
THEOREM ReportAddsUpHolds == ComponentsSpec => []ReportAddsUp
<1>1. ComponentsInit /\ component = "quality" => Quality!Init
  BY AboutQuality
<1>2. [ComponentsNext]_allVars /\ component = "quality" => [Quality!Next]_(Quality!vars)
  BY AboutQuality
<1>3. Quality!Spec => []Quality!ReportAddsUp
  BY QualityReportAddsUp, AssumptionsHold
<1>4. ReportAddsUp <=> (component = "quality" => Quality!ReportAddsUp)
  BY DEF ReportAddsUp
<1>5. [ComponentsNext]_allVars => (component = "quality" <=> (component = "quality")')
  BY ComponentStays
<1>6. QED
  BY <1>1, <1>2, <1>3, <1>4, <1>5, PTL DEF ComponentsSpec, Quality!Spec

\* inlineCompletionProvider.ts: an item, and its import, fit the text it is handed out for,
\* whatever is typed while its completion is under way.
THEOREM ItemsFitTheTextHolds == ComponentsSpec => []ItemsFitTheText
<1>1. ComponentsInit /\ component = "inline" => Inline!Init
  BY AboutInline
<1>2. [ComponentsNext]_allVars /\ component = "inline" => [Inline!Next]_(Inline!vars)
  BY AboutInline
<1>3. Inline!Spec => []Inline!ItemsFitTheText
  BY InlineItemsFit, AssumptionsHold
<1>4. ItemsFitTheText <=> (component = "inline" => Inline!ItemsFitTheText)
  BY DEF ItemsFitTheText
<1>5. [ComponentsNext]_allVars => (component = "inline" <=> (component = "inline")')
  BY ComponentStays
<1>6. QED
  BY <1>1, <1>2, <1>3, <1>4, <1>5, PTL DEF ComponentsSpec, Inline!Spec
=============================================================================
