-------------------------- MODULE RateLimiterProofs --------------------------
(* Theorems about RateLimiter, for every set of keys, rate and clock.        *)
EXTENDS RateLimiter, TLAPS

-----------------------------------------------------------------------------
(* Arithmetic the backends do not find by themselves.                        *)

LEMMA Distributes ==
    ASSUME NEW m \in Int, NEW n \in Int, NEW p \in Nat
    PROVE  /\ (m + n) * p = m * p + n * p
           /\ (m - n) * p = m * p - n * p
           /\ m * p \in Int
           /\ 0 * p = 0 /\ 1 * p = p
OBVIOUS

LEMMA ProductNat ==
    ASSUME NEW m \in Nat, NEW p \in Nat
    PROVE  m * p \in Nat
OBVIOUS

LEMMA ProductGrows ==
    ASSUME NEW m \in Nat, NEW p \in Nat \ {0}
    PROVE  p <= p * p /\ m <= p * m /\ m <= m * p
OBVIOUS

LEMMA Parts == Token \in Nat \ {0} /\ Burst \in Nat /\ Token <= Burst
<1>1. Token \in Nat \ {0} /\ PerMin \in Nat \ {0}
  BY LimiterAssumption DEF Token
<1>2. Burst \in Nat
  BY <1>1, ProductNat DEF Burst
<1>3. Token <= Burst
  BY <1>1, ProductGrows DEF Burst
<1> QED
  BY <1>1, <1>2, <1>3

LEMMA CappedType ==
    ASSUME NEW n \in Nat
    PROVE  Capped(n) \in 0 .. Burst /\ Capped(n) <= n
BY Parts DEF Capped

LEMMA BucketOfType ==
    ASSUME TypeOK, NEW k \in Key
    PROVE  /\ BucketOf(k) \in Bucket
           /\ BucketOf(k).last <= now
BY Parts DEF TypeOK, BucketOf, NewBucket, Bucket

LEMMA EarnedType ==
    ASSUME TypeOK, NEW k \in Key
    PROVE  Earned(BucketOf(k)) \in Nat
<1>1. now - BucketOf(k).last \in Nat
  BY BucketOfType DEF TypeOK, Bucket
<1> QED
  BY <1>1, ProductNat, LimiterAssumption DEF Earned

LEMMA LevelType ==
    ASSUME TypeOK, NEW k \in Key
    PROVE  Level(k) \in 0 .. Burst
<1>1. BucketOf(k).tokens + Earned(BucketOf(k)) \in Nat
  BY BucketOfType, EarnedType DEF Bucket
<1> QED
  BY <1>1, CappedType DEF Level

-----------------------------------------------------------------------------
(* What each step does to the level of a key.                                *)

LEMMA AtRest ==
    ASSUME TypeOK, NEW k \in Key, UNCHANGED <<now, buckets>>
    PROVE  Level(k)' = Level(k)
BY DEF Level, BucketOf, NewBucket, Earned, Capped

\* A bucket brought up to date shows exactly what was put into it.
LEMMA Updated ==
    ASSUME TypeOK, NEW k \in Key, NEW n \in 0 .. Burst, Update(k, n), now' = now
    PROVE  /\ Level(k)' = n
           /\ \A j \in Key \ {k} : Level(j)' = Level(j)
           /\ buckets' \in [Key -> Bucket]
           /\ \A j \in Key : buckets'[j].last <= now'
<1>1. buckets'[k] = [known |-> TRUE, tokens |-> n, last |-> now]
  BY DEF Update, TypeOK
<1>2. BucketOf(k)' = buckets'[k] /\ Earned(BucketOf(k))' = 0
  <2>1. (now - now) * PerMin = 0
    BY Distributes, LimiterAssumption DEF TypeOK
  <2> QED
    BY <1>1, <2>1 DEF BucketOf, Earned
<1>3. Level(k)' = n
  BY <1>1, <1>2, Parts DEF Level, Capped
<1>4. \A j \in Key \ {k} : Level(j)' = Level(j)
  BY DEF Update, TypeOK, Level, BucketOf, NewBucket, Earned, Capped
<1>5. buckets' \in [Key -> Bucket] /\ \A j \in Key : buckets'[j].last <= now'
  BY <1>1 DEF Update, TypeOK, Bucket
<1> QED
  BY <1>3, <1>4, <1>5

LEMMA Earning ==
    ASSUME TypeOK, Tick, NEW k \in Key
    PROVE  Level(k)' = Capped(Level(k) + PerMin)
<1> DEFINE b == BucketOf(k)
<1>0. now \in Nat /\ now' = now + 1 /\ PerMin \in Nat /\ b \in Bucket /\ b.last <= now
  BY BucketOfType, LimiterAssumption DEF Tick, TypeOK
<1>1. CASE buckets[k].known
  <2>1. BucketOf(k)' = b
    BY <1>1 DEF Tick, BucketOf
  <2>2. (now' - b.last) * PerMin = Earned(b) + PerMin
    <3>1. now' - b.last = (now - b.last) + 1 /\ now - b.last \in Int /\ 1 \in Int
      BY <1>0 DEF Bucket
    <3>2. ((now - b.last) + 1) * PerMin = (now - b.last) * PerMin + 1 * PerMin
      BY <1>0, <3>1, Distributes
    <3>3. 1 * PerMin = PerMin
      BY <1>0
    <3> QED
      BY <3>1, <3>2, <3>3 DEF Earned
  <2>3. Level(k)' = Capped(b.tokens + (Earned(b) + PerMin))
    BY <2>1, <2>2 DEF Level, Earned, Capped, Burst, Token
  <2> QED
    BY <1>0, <2>3, EarnedType, Parts DEF Level, Capped, Bucket
<1>2. CASE ~buckets[k].known
  <2>1. b = NewBucket /\ BucketOf(k)' = NewBucket'
    BY <1>2 DEF Tick, BucketOf
  <2>2. (now - now) * PerMin = 0 /\ (now' - now') * PerMin = 0
    BY <1>0, Distributes
  <2>3. Level(k) = Burst /\ Level(k)' = Burst
    BY <2>1, <2>2, Parts DEF Level, Capped, NewBucket, Earned
  <2> QED
    BY <1>0, <2>3, Parts DEF Capped
<1> QED
  BY <1>1, <1>2

-----------------------------------------------------------------------------
LEMMA LimiterInit == Init => LimiterInv
<1> SUFFICES ASSUME Init PROVE LimiterInv
  OBVIOUS
<1>1. TypeOK
  BY Parts DEF Init, TypeOK, Bucket, NoBucket, NoAnswer
<1>2. \A k \in Key : granted[k] * Token = 0
  <2>1. 0 * Token = 0
    BY Parts
  <2> QED
    BY <2>1 DEF Init
<1>3. (now - since) * PerMin = 0
  BY Distributes, LimiterAssumption DEF Init
<1> QED
  BY <1>1, <1>2, <1>3, LevelType, Parts DEF LimiterInv

LEMMA LimiterNext == LimiterInv /\ [Next]_vars => LimiterInv'
<1> SUFFICES ASSUME LimiterInv, [Next]_vars PROVE LimiterInv'
  OBVIOUS
<1>0. TypeOK /\ PerMin \in Nat /\ Token \in Nat \ {0} /\ Burst \in Nat
  BY Parts, LimiterAssumption DEF LimiterInv
<1> DEFINE budget == Burst + (now - since) * PerMin
<1>b. budget \in Int /\ \A k \in Key : granted[k] * Token \in Nat
  <2>1. now - since \in Int /\ (now - since) * PerMin \in Int
    BY <1>0, Distributes DEF TypeOK
  <2> QED
    BY <1>0, <2>1, ProductNat DEF TypeOK
<1>1. ASSUME NEW k \in Key, AllowGrants(k) PROVE LimiterInv'
  <2>1. Level(k) \in 0 .. Burst /\ Level(k) - Token \in 0 .. Burst
    BY <1>0, <1>1, LevelType DEF AllowGrants
  <2>2. /\ Level(k)' = Level(k) - Token
        /\ \A j \in Key \ {k} : Level(j)' = Level(j)
        /\ buckets' \in [Key -> Bucket]
        /\ \A j \in Key : buckets'[j].last <= now'
    BY <1>0, <1>1, <2>1, Updated DEF AllowGrants
  <2>3. TypeOK'
    <3>1. granted' \in [Key -> Nat]
      BY <1>0, <1>1 DEF AllowGrants, TypeOK
    <3>2. answer' \in [key : Key \cup {NoKey}, ok : BOOLEAN]
      BY <1>1 DEF AllowGrants
    <3> QED
      BY <1>0, <1>1, <2>2, <3>1, <3>2 DEF AllowGrants, TypeOK
  <2>4. granted'[k] * Token = granted[k] * Token + Token
    <3>1. granted'[k] = granted[k] + 1 /\ granted[k] \in Nat
      BY <1>0, <1>1 DEF AllowGrants, TypeOK
    <3>2. (granted[k] + 1) * Token = granted[k] * Token + 1 * Token /\ 1 * Token = Token
      BY <1>0, <3>1, Distributes
    <3> QED
      BY <3>1, <3>2
  <2>5. \A j \in Key \ {k} : granted'[j] = granted[j]
    BY <1>0, <1>1 DEF AllowGrants, TypeOK
  <2>6. budget' = budget
    BY <1>1 DEF AllowGrants
  <2>7. granted'[k] * Token + Level(k)' <= budget'
    BY <1>0, <1>b, <2>1, <2>2, <2>4, <2>6 DEF LimiterInv
  <2>8. \A j \in Key \ {k} : granted'[j] * Token + Level(j)' <= budget'
    BY <2>2, <2>5, <2>6 DEF LimiterInv
  <2> QED
    BY <2>3, <2>7, <2>8 DEF LimiterInv, Token, Burst
<1>2. ASSUME NEW k \in Key, AllowRefuses(k) PROVE LimiterInv'
  <2>1. Level(k) \in 0 .. Burst
    BY <1>0, LevelType
  <2>2. /\ Level(k)' = Level(k)
        /\ \A j \in Key \ {k} : Level(j)' = Level(j)
        /\ buckets' \in [Key -> Bucket]
        /\ \A j \in Key : buckets'[j].last <= now'
    BY <1>0, <1>2, <2>1, Updated DEF AllowRefuses
  <2>3. TypeOK'
    BY <1>0, <1>2, <2>2 DEF AllowRefuses, TypeOK
  <2>4. \A j \in Key : granted'[j] * Token + Level(j)' <= budget'
    BY <1>2, <2>2 DEF AllowRefuses, LimiterInv
  <2> QED
    BY <2>3, <2>4 DEF LimiterInv, Token, Burst
<1>3. CASE Tick
  <2>1. TypeOK'
    <3>1. now' \in Nat /\ since' \in 0 .. now'
      BY <1>0, <1>3 DEF Tick, TypeOK
    <3>2. \A k \in Key : buckets'[k].last <= now'
      BY <1>0, <1>3 DEF Tick, TypeOK, Bucket
    <3> QED
      BY <1>0, <1>3, <3>1, <3>2 DEF Tick, TypeOK, NoAnswer
  <2>2. budget' = budget + PerMin
    <3>1. now' - since' = (now - since) + 1 /\ now - since \in Int
      BY <1>0, <1>3 DEF Tick, TypeOK
    <3>2. (now' - since') * PerMin = (now - since) * PerMin + PerMin
      BY <1>0, <3>1, Distributes
    <3>3. (now - since) * PerMin \in Int
      BY <1>0, <3>1, Distributes
    <3> QED
      BY <1>0, <3>2, <3>3
  <2>3. \A k \in Key : Level(k)' <= Level(k) + PerMin
    <3> SUFFICES ASSUME NEW k \in Key PROVE Level(k)' <= Level(k) + PerMin
      OBVIOUS
    <3>1. Level(k) + PerMin \in Nat
      BY <1>0, LevelType
    <3> QED
      BY <1>0, <1>3, <3>1, Earning, CappedType
  <2>4. \A k \in Key : granted'[k] * Token + Level(k)' <= budget'
    <3> SUFFICES ASSUME NEW k \in Key PROVE granted'[k] * Token + Level(k)' <= budget'
      OBVIOUS
    <3>1. granted' = granted /\ granted[k] * Token + Level(k) <= budget
      BY <1>3 DEF Tick, LimiterInv
    <3>2. Level(k) \in Int /\ Level(k)' \in Int
      <4>1. Level(k)' \in 0 .. Burst
        BY <1>0, <1>3, Earning, CappedType, LevelType, Parts
      <4> QED
        BY <1>0, <4>1, LevelType
    <3> QED
      BY <1>0, <1>b, <2>2, <2>3, <3>1, <3>2
  <2> QED
    BY <2>1, <2>4 DEF LimiterInv, Token, Burst
<1>4. CASE Observe
  <2>1. TypeOK'
    BY <1>0, <1>4 DEF Observe, TypeOK
  <2>2. (now' - since') * PerMin = 0 /\ \A k \in Key : granted'[k] * Token = 0
    BY <1>0, <1>4, Distributes DEF Observe, TypeOK
  <2>3. \A k \in Key : Level(k)' \in 0 .. Burst
    BY <1>0, <1>4, AtRest, LevelType DEF Observe
  <2> QED
    BY <1>0, <2>1, <2>2, <2>3 DEF LimiterInv, Token, Burst
<1>5. CASE UNCHANGED vars
  <2>1. TypeOK'
    BY <1>0, <1>5 DEF vars, TypeOK
  <2>2. \A k \in Key : Level(k)' = Level(k)
    BY <1>0, <1>5, AtRest DEF vars
  <2> QED
    BY <1>5, <2>1, <2>2 DEF vars, LimiterInv, Token, Burst
<1> QED
  BY <1>1, <1>2, <1>3, <1>4, <1>5 DEF Next

(* What was granted since any moment and what is left stay in the budget.    *)
THEOREM LimiterInductive == Spec => []LimiterInv
BY LimiterInit, LimiterNext, PTL DEF Spec

(* No key is ever granted more than the burst and what the rate allows.      *)
THEOREM StaysWithinBudget == Spec => []WithinBudget
<1>1. LimiterInv => WithinBudget
  <2> SUFFICES ASSUME LimiterInv, NEW k \in Key
               PROVE  granted[k] * Token <= Burst + (now - since) * PerMin
    BY DEF WithinBudget
  <2>1. TypeOK
    BY DEF LimiterInv
  <2>2. granted[k] * Token \in Nat
    BY <2>1, Parts, ProductNat DEF TypeOK
  <2>3. (now - since) * PerMin \in Int
    BY <2>1, LimiterAssumption, Distributes DEF TypeOK
  <2>4. Level(k) \in Nat
    BY <2>1, LevelType, Parts
  <2> QED
    BY <2>2, <2>3, <2>4, Parts DEF LimiterInv
<1> QED
  BY <1>1, LimiterInductive, PTL

LEMMA Compare ==
    ASSUME NEW m \in Nat, NEW p \in Nat, p >= 60
    PROVE  60 * m <= m * p
<1>1. PICK q \in Nat : p = 60 + q
  <2>1. p - 60 \in Nat /\ p = 60 + (p - 60)
    OBVIOUS
  <2> QED
    BY <2>1
<1>2. m * p = m * 60 + m * q
  BY <1>1
<1>3. m * q \in Nat
  BY ProductNat
<1> QED
  BY <1>2, <1>3

(* At 60 calls a minute or more, whoever waits out `Retry-After: 1` finds a  *)
(* token, at whatever level its bucket was left.                             *)
THEOREM WaitingIsEnough ==
    ASSUME PerMin >= 60
    PROVE  Spec => []RetryAfterIsEnough
<1>1. LimiterInv => RetryAfterIsEnough
  <2> SUFFICES ASSUME LimiterInv, NEW k \in Key,
                      60 * (now - BucketOf(k).last) >= Minute
               PROVE  Level(k) >= Token
    BY DEF RetryAfterIsEnough
  <2> DEFINE b == BucketOf(k)
             n == b.tokens + Earned(b)
  <2>1. TypeOK
    BY DEF LimiterInv
  <2>2. b.tokens \in 0 .. Burst /\ now - b.last \in Nat
    BY <2>1, BucketOfType DEF TypeOK, Bucket
  <2>3. Earned(b) = (now - b.last) * PerMin /\ Earned(b) \in Nat
    BY <2>1, EarnedType DEF Earned
  <2>4. 60 * (now - b.last) <= Earned(b)
    BY <2>2, <2>3, Compare, LimiterAssumption
  <2>5. Token \in Nat /\ Token = Minute /\ Burst \in Nat /\ Token <= Burst
    BY Parts DEF Token
  <2> HIDE DEF b
  <2>6. 60 * (now - b.last) >= Minute
    BY DEF b
  <2>7. n >= Token /\ n \in Nat
    BY <2>2, <2>3, <2>4, <2>5, <2>6
  <2>8. Level(k) = Capped(n)
    BY DEF Level, b
  <2> QED
    BY <2>5, <2>7, <2>8 DEF Capped
<1> QED
  BY <1>1, LimiterInductive, PTL

-----------------------------------------------------------------------------
(* RateLimiter implements TokenBucket.                                       *)

LEMMA SameWords ==
    /\ Steady!Token = Token /\ Steady!Burst = Burst /\ Steady!NoAnswer = NoAnswer
    /\ \A n : Steady!Capped(n) = Capped(n)
BY DEF Steady!Token, Steady!Burst, Steady!NoAnswer, Steady!Capped, Token, Burst, NoAnswer, Capped

LEMMA SteadyStart == Init => Steady!FullInit
<1> SUFFICES ASSUME Init PROVE Steady!FullInit
  OBVIOUS
<1>1. TypeOK
  BY LimiterInit DEF LimiterInv
<1>2. ASSUME NEW k \in Key PROVE Level(k) = Burst
  <2>1. BucketOf(k) = NewBucket
    BY DEF Init, NoBucket, BucketOf
  <2>2. (now - now) * PerMin = 0
    BY Distributes, LimiterAssumption DEF Init
  <2> QED
    BY <2>1, <2>2, Parts DEF Level, NewBucket, Earned, Capped
<1> QED
  BY <1>2, SameWords DEF Steady!FullInit, Init

LEMMA SteadyTick ==
    ASSUME TypeOK, Tick
    PROVE  Steady!Refill
<1>1. \A k \in Key : Level(k)' = Capped(Level(k) + PerMin)
  BY Earning
<1> QED
  BY <1>1, SameWords DEF Steady!Refill, Tick

\* A call changes the level of its own key and of no other.
LEMMA SteadyCall ==
    ASSUME TypeOK, NEW k \in Key, AllowGrants(k) \/ AllowRefuses(k)
    PROVE  Steady!Take(k) \/ Steady!Refuse(k)
<1>1. Level(k) \in 0 .. Burst
  BY LevelType
<1>2. CASE AllowGrants(k)
  <2>1. Level(k) >= Token /\ Level(k) - Token \in 0 .. Burst
    BY <1>1, <1>2, Parts DEF AllowGrants
  <2>2. Level(k)' = Level(k) - Token /\ \A j \in Key \ {k} : Level(j)' = Level(j)
    BY <1>2, <2>1, Updated DEF AllowGrants
  <2> QED
    BY <1>2, <2>1, <2>2, SameWords DEF AllowGrants, Steady!Take
<1>3. CASE AllowRefuses(k)
  <2>1. \A j \in Key : Level(j)' = Level(j)
    BY <1>1, <1>3, Updated DEF AllowRefuses
  <2> QED
    BY <1>3, <2>1, SameWords DEF AllowRefuses, Steady!Refuse
<1> QED
  BY <1>2, <1>3

(* A bucket that is made at the first call of its key and brought up to date *)
(* at the later ones answers like one that is always there and always fills. *)
THEOREM Refinement == Spec => FillsSteadily
<1>1. LimiterInv /\ [Next]_vars =>
        [Steady!Refill \/ \E k \in Key : Steady!Take(k) \/ Steady!Refuse(k)]_(Steady!bucketVars)
  <2> SUFFICES ASSUME TypeOK, [Next]_vars
               PROVE  [Steady!Refill \/ \E k \in Key : Steady!Take(k) \/ Steady!Refuse(k)]_
                        (Steady!bucketVars)
    BY DEF LimiterInv
  <2>1. CASE Observe \/ UNCHANGED vars
    <3>1. \A k \in Key : Level(k)' = Level(k)
      BY <2>1, AtRest DEF Observe, vars
    <3> QED
      BY <2>1, <3>1 DEF Observe, vars, Steady!bucketVars
  <2> QED
    BY <2>1, SteadyTick, SteadyCall DEF Next
<1> QED
  BY <1>1, SteadyStart, LimiterInductive, PTL DEF Spec, FillsSteadily, Steady!BucketSpec

=============================================================================
