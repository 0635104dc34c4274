----------------------------- MODULE TokenBucket -----------------------------
(* What a rate limit promises: every key has a bucket of its own that fills  *)
(* up steadily to the burst, a call takes one token, and a call is refused   *)
(* only if there is none.                                                    *)
EXTENDS Integers

CONSTANTS Key, NoKey,
          PerMin,  \* calls per minute, and the burst
          Minute   \* ticks of the clock in a minute

VARIABLES
    level,  \* per key: the tokens in its bucket, in parts of a token
    answer  \* the last call and its outcome

bucketVars == <<level, answer>>

\* A tick earns PerMin parts, a minute PerMin tokens.
Token == Minute

Burst == PerMin * Token

Capped(n) == IF n > Burst THEN Burst ELSE n

NoAnswer == [key |-> NoKey, ok |-> FALSE]

FullInit == level = [k \in Key |-> Burst] /\ answer = NoAnswer

Refill == /\ level' = [k \in Key |-> Capped(level[k] + PerMin)]
          /\ answer' = NoAnswer

Take(k) == /\ level[k] >= Token
           /\ level' = [level EXCEPT ![k] = level[k] - Token]
           /\ answer' = [key |-> k, ok |-> TRUE]

Refuse(k) == /\ level[k] < Token
             /\ answer' = [key |-> k, ok |-> FALSE]
             /\ UNCHANGED level

BucketSpec ==
    FullInit /\ [][Refill \/ \E k \in Key : Take(k) \/ Refuse(k)]_bucketVars

=============================================================================
