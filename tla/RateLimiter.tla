----------------------------- MODULE RateLimiter -----------------------------
(* The rate limiter of internal/server/ratelimit.go. A bucket comes into     *)
(* being with the first call of its key and is brought up to date only when  *)
(* its key calls. Tokens are counted in parts of 1/Minute, so that what a    *)
(* tick earns is an integer; the code has float64 and nanoseconds.           *)
EXTENDS Integers

CONSTANTS
    Key, NoKey,
    PerMin,   \* the argument of newLimiter
    Minute,   \* ticks in a minute
    Horizon   \* the clock stops here (a bound for TLC)

ASSUME LimiterAssumption == /\ PerMin \in Nat \ {0}
                            /\ Minute \in Nat \ {0}
                            /\ Horizon \in Nat
                            /\ NoKey \notin Key

VARIABLES
    now,
    buckets,  \* per key: its bucket, if it ever called
    answer,   \* the last call and its outcome
    since,    \* an observer began counting here ...
    granted   \* ... and has seen so many granted calls per key

vars == <<now, buckets, answer, since, granted>>

Token == Minute

Burst == PerMin * Token

Bucket == [known : BOOLEAN, tokens : 0 .. Burst, last : Nat]

NoBucket == [known |-> FALSE, tokens |-> 0, last |-> 0]

NoAnswer == [key |-> NoKey, ok |-> FALSE]

TypeOK ==
    /\ now \in Nat
    /\ buckets \in [Key -> Bucket]
    /\ \A k \in Key : buckets[k].last <= now
    /\ answer \in [key : Key \cup {NoKey}, ok : BOOLEAN]
    /\ since \in 0 .. now
    /\ granted \in [Key -> Nat]

Init ==
    /\ now = 0
    /\ buckets = [k \in Key |-> NoBucket]
    /\ answer = NoAnswer
    /\ since = 0
    /\ granted = [k \in Key |-> 0]

-----------------------------------------------------------------------------
\* Mutant: a bucket starts empty.
StartsEmpty == [known |-> TRUE, tokens |-> 0, last |-> now]

NewBucket == [known |-> TRUE, tokens |-> Burst, last |-> now]

\* The bucket of the key, made at its first call.
BucketOf(k) == IF buckets[k].known THEN buckets[k] ELSE NewBucket

Earned(b) == (now - b.last) * PerMin

\* Mutant: a key that waits saves up without limit.
Uncapped(n) == n

Capped(n) == IF n > Burst THEN Burst ELSE n

\* The tokens a call of the key finds now.
Level(k) == Capped(BucketOf(k).tokens + Earned(BucketOf(k)))

\* Mutant: the time of the last call is kept.
Stale(k, tokens) ==
    buckets' = [buckets EXCEPT ![k] = [BucketOf(k) EXCEPT !.tokens = tokens]]

Update(k, tokens) ==
    buckets' = [buckets EXCEPT ![k] = [known |-> TRUE, tokens |-> tokens, last |-> now]]

AllowGrants(k) ==
    /\ Level(k) >= Token
    /\ Update(k, Level(k) - Token)
    /\ answer' = [key |-> k, ok |-> TRUE]
    /\ granted' = [granted EXCEPT ![k] = granted[k] + 1]
    /\ UNCHANGED <<now, since>>

AllowRefuses(k) ==
    /\ Level(k) < Token
    /\ Update(k, Level(k))
    /\ answer' = [key |-> k, ok |-> FALSE]
    /\ UNCHANGED <<now, since, granted>>

Tick ==
    /\ now < Horizon
    /\ now' = now + 1
    /\ answer' = NoAnswer
    /\ UNCHANGED <<buckets, since, granted>>

\* The observer begins anew, at any moment of its choice.
Observe ==
    /\ since' = now
    /\ granted' = [k \in Key |-> 0]
    /\ UNCHANGED <<now, buckets, answer>>

Next == \/ \E k \in Key : AllowGrants(k) \/ AllowRefuses(k)
        \/ Tick \/ Observe

Spec == Init /\ [][Next]_vars

-----------------------------------------------------------------------------
(* Whenever one starts to count, no key is granted more calls than the burst *)
(* and what the rate allows for the time since.                              *)
WithinBudget ==
    \A k \in Key : granted[k] * Token <= Burst + (now - since) * PerMin

\* What was granted and what is left together stay in the budget.
LimiterInv ==
    /\ TypeOK
    /\ \A k \in Key : granted[k] * Token + Level(k) <= Burst + (now - since) * PerMin

(* `Retry-After: 1` keeps its word at 60 calls a minute or more: a caller    *)
(* that stays away for a second finds a token.                               *)
RetryAfterIsEnough ==
    \A k \in Key : 60 * (now - BucketOf(k).last) >= Minute => Level(k) >= Token

Steady == INSTANCE TokenBucket WITH level <- [k \in Key |-> Level(k)]

(* Buckets that are made late and filled late are as good as buckets that    *)
(* are always there and always filling, for each key apart from the others.  *)
FillsSteadily == Steady!BucketSpec

=============================================================================
