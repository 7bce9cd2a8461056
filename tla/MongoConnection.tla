-------------------------- MODULE MongoConnection --------------------------
(***************************************************************************)
(* Waiting for the database at boot (apps/api/src/common/db): probes with  *)
(* exponential backoff while the fault is a transient one, and then the    *)
(* connection of Mongoose itself, which is tried a few times more.  The    *)
(* database comes and goes as it likes meanwhile.                          *)
(***************************************************************************)
EXTENDS Integers, Sequences

CONSTANTS
    MaxAttempts,     \* MONGO_CONNECT_MAX_ATTEMPTS
    BaseDelay,       \* MONGO_CONNECT_BASE_DELAY_MS
    MaxDelay,        \* MONGO_CONNECT_MAX_DELAY_MS
    RetryAttempts    \* retryAttempts of the Mongoose options

ASSUME AttemptsAssumption == MaxAttempts \in Nat \ {0} /\ RetryAttempts \in Nat \ {0}
ASSUME DelayAssumption == BaseDelay \in Nat \ {0} /\ MaxDelay \in Nat \ {0}

VARIABLES
    database,        \* what the database does with a connection
    phase,           \* how far bootstrap is
    attempt,         \* the probe that is next or under way
    delay,           \* how long the last failed probe waited before the next
    failures         \* connections of Mongoose that failed

mongoVars == <<database, phase, attempt, delay, failures>>

\* "refusing": it answers, with an error that no retry resolves.
Database == {"up", "down", "refusing"}

----------------------------------------------------------------------------
(* Which errors are transient.                                             *)

MaxCauseDepth == 5

\* An error is the sequence of itself and its causes, each of them recognised as a
\* network or database fault ("infrastructure") or not.
IsTransient(error) ==
    \E d \in DOMAIN error : d <= MaxCauseDepth + 1 /\ error[d] = "infrastructure"

ErrorOf == [ down |-> <<"other", "infrastructure">>, refusing |-> <<"other">> ]

----------------------------------------------------------------------------

Least(a, b) == IF a < b THEN a ELSE b

\* The longest delay after that many failed attempts.
BackoffWindow(n) == Least(MaxDelay, BaseDelay * 2 ^ (n - 1))

\* Half of the window is fixed and half is random, rounded to the millisecond.
BackoffDelays(n) == (BackoffWindow(n) + 1) \div 2 .. BackoffWindow(n)

\* One turn of waitForMongo.  The last attempt, and an error that is not transient,
\* leave the verdict to Mongoose.
Probe ==
    /\ phase = "probe"
    /\ IF /\ database # "up"
          /\ IsTransient(ErrorOf[database])
          /\ attempt < MaxAttempts
       THEN phase' = "sleep" /\ delay' \in BackoffDelays(attempt)
       ELSE phase' = "connect" /\ UNCHANGED delay
    /\ UNCHANGED <<database, attempt, failures>>

Wake ==
    /\ phase = "sleep"
    /\ phase' = "probe"
    /\ attempt' = attempt + 1
    /\ UNCHANGED <<database, delay, failures>>

\* The connection of the application: NestFactory.create gives up, and with it the
\* process, once RetryAttempts of them failed.
Connect ==
    /\ phase = "connect"
    /\ \/ database = "up" /\ phase' = "wire" /\ UNCHANGED failures
       \/ /\ database # "up"
          /\ failures' = failures + 1
          /\ phase' = IF failures' = RetryAttempts THEN "exited" ELSE "connect"
    /\ UNCHANGED <<database, attempt, delay>>

\* The database starts, stops or fails over; wrong credentials stay wrong.
DatabaseMoves ==
    /\ database \in {"up", "down"}
    /\ database' \in {"up", "down"} \ {database}
    /\ UNCHANGED <<phase, attempt, delay, failures>>
============================================================================
