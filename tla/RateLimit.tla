----------------------------- MODULE RateLimit -----------------------------
(***************************************************************************)
(* The requests of one caller within one window of the rate limit, served  *)
(* by several instances of the API (apps/api/src/common/throttler).  They  *)
(* are counted in Redis; an increment that fails there is made in the      *)
(* memory of the instance.  A store blocks the caller once its own count   *)
(* is over the limit.                                                      *)
(***************************************************************************)
EXTENDS Naturals, FiniteSets

CONSTANTS
    Instance,        \* the instances of the API
    Limit            \* THROTTLE_LIMIT

ASSUME LimitAssumption == Limit \in Nat /\ IsFiniteSet(Instance)

VARIABLES
    redis,           \* does Redis answer?
    counted,         \* counted[x]: hits in the store x, up to one over the limit
    accepted,        \* requests let through
    fellBack         \* has any increment been made in memory?

limitVars == <<redis, counted, accepted, fellBack>>

Store == Instance \cup {"redis"}

LimitTypeOK ==
    /\ redis \in BOOLEAN
    /\ counted \in [Store -> 0 .. Limit + 1]
    /\ accepted \in Nat
    /\ fellBack \in BOOLEAN

LimitInit ==
    /\ redis = TRUE
    /\ counted = [x \in Store |-> 0]
    /\ accepted = 0
    /\ fellBack = FALSE

RedisMoves == redis' = ~redis /\ UNCHANGED <<counted, accepted, fellBack>>

\* The ThrottlerGuard lets a request through that its store does not block.
Hit(x) ==
    /\ counted[x] <= Limit
    /\ counted' = [counted EXCEPT ![x] = @ + 1]
    /\ accepted' = IF counted[x] < Limit THEN accepted + 1 ELSE accepted

\* Mutant: nothing is counted while Redis is away.
FallBackOpen(i) ==
    /\ ~redis
    /\ accepted <= Limit * (Cardinality(Instance) + 1)
    /\ accepted' = accepted + 1
    /\ fellBack' = TRUE
    /\ UNCHANGED <<redis, counted>>

FallBack(i) == ~redis /\ Hit(i) /\ fellBack' = TRUE /\ UNCHANGED redis

Increment(i) ==
    \/ redis /\ Hit("redis") /\ UNCHANGED <<redis, fellBack>>
    \/ FallBack(i)

LimitNext == RedisMoves \/ \E i \in Instance : Increment(i)

\* The callers share one budget over all instances as long as Redis answers, and
\* however often it comes and goes each instance adds at most one budget to it.
BudgetHolds ==
    accepted <= Limit * (IF fellBack THEN Cardinality(Instance) + 1 ELSE 1)
============================================================================
