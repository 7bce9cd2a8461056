------------------------------- MODULE Server -------------------------------
(***************************************************************************)
(* One process of the API, from bootstrap to its end (apps/api/src/main.ts *)
(* with the process guards and the health check), on a database that comes *)
(* and goes, beside the rate limit it shares with the other instances.     *)
(* Errors that escape every handler arrive at any moment.                  *)
(***************************************************************************)
EXTENDS MongoConnection, RateLimit

CONSTANTS Escaped    \* errors that escape: each the sequence of its causes

ASSUME EscapedAssumption == Escaped \subseteq Seq({"infrastructure", "other"})

VARIABLES
    trustsAnyProxy,  \* TRUST_PROXY=true in production
    fatalHandled,    \* has an exception been found fatal?
    closing,         \* is app.close() pending, or the process about to end?
    checking         \* is a health check waiting for its ping?

serverVars == <<trustsAnyProxy, fatalHandled, closing, checking>>
vars       == <<mongoVars, limitVars, serverVars>>

Phase == { "probe", "sleep", "connect", "wire", "listen", "serving", "stranded", "exited" }

TypeOK ==
    /\ database \in Database
    /\ phase \in Phase
    /\ attempt \in 1 .. MaxAttempts
    /\ delay \in 0 .. MaxDelay
    /\ failures \in 0 .. RetryAttempts
    /\ LimitTypeOK
    /\ trustsAnyProxy \in BOOLEAN
    /\ fatalHandled \in BOOLEAN
    /\ closing \in {"no", "app", "exit"}
    /\ checking \in BOOLEAN

Init ==
    /\ database \in Database
    /\ phase = "probe"
    /\ attempt = 1
    /\ delay = 0
    /\ failures = 0
    /\ LimitInit
    /\ trustsAnyProxy \in BOOLEAN
    /\ fatalHandled = FALSE
    /\ closing = "no"
    /\ checking = FALSE

Running == phase # "exited"

----------------------------------------------------------------------------
(* bootstrap.                                                              *)

\* The application exists; resolveTrustProxy throws out of bootstrap in production
\* if every proxy is to be trusted.
Wire ==
    /\ phase = "wire"
    /\ phase' = IF trustsAnyProxy THEN "stranded" ELSE "listen"
    /\ UNCHANGED <<database, attempt, delay, failures, serverVars>>

\* app.listen fails if the port is taken.  A rejection of bootstrap is a rejection
\* nobody handles: it is logged.
Listen ==
    /\ phase = "listen"
    /\ phase' \in {"serving", "stranded"}
    /\ UNCHANGED <<database, attempt, delay, failures, serverVars>>

Boot ==
    \/ (Probe \/ Wake \/ Connect) /\ UNCHANGED serverVars
    \/ Wire
    \/ Listen

----------------------------------------------------------------------------
(* The process guards.                                                     *)

AppExists == phase \notin {"probe", "sleep", "connect"}

\* onFatal: app.close() if there is an app, then process.exit; a timer ends the
\* process if the close hangs.
Shutdown == closing' = IF AppExists THEN "app" ELSE "exit"

\* An error unwound a whole stack: nothing happens if it is transient, nor if the
\* process is going down already.
UncaughtException(error) ==
    /\ Running
    /\ ~IsTransient(error)
    /\ ~fatalHandled
    /\ fatalHandled' = TRUE
    /\ Shutdown
    /\ UNCHANGED <<mongoVars, trustsAnyProxy, checking>>

\* app.close() is over, with or without an error.
Closed ==
    /\ closing = "app"
    /\ closing' = "exit"
    /\ UNCHANGED <<mongoVars, trustsAnyProxy, fatalHandled, checking>>

End ==
    /\ phase' = "exited"
    /\ UNCHANGED <<database, attempt, delay, failures, serverVars>>

Exit == Running /\ closing = "exit" /\ End

\* Mutant: no timer is set.
ForcedExitNever == FALSE /\ UNCHANGED vars

\* The timer of onFatal.
ForcedExit == Running /\ closing = "app" /\ End

----------------------------------------------------------------------------
(* The health check.                                                       *)

Check ==
    /\ phase = "serving"
    /\ ~checking
    /\ checking' = TRUE
    /\ UNCHANGED <<mongoVars, trustsAnyProxy, fatalHandled, closing>>

Report ==
    /\ phase = "serving"
    /\ checking
    /\ checking' = FALSE
    /\ UNCHANGED <<mongoVars, trustsAnyProxy, fatalHandled, closing>>

\* The ping is answered, or fails; nothing makes the database answer.
PingEnds == Report

\* withTimeout: the timer wins, and a late answer finds nobody waiting.
PingTimesOut == Report

----------------------------------------------------------------------------

ServerNext ==
    \/ Running /\ Boot
    \/ DatabaseMoves /\ UNCHANGED serverVars
    \/ \E error \in Escaped : UncaughtException(error)
    \/ Closed \/ Exit \/ ForcedExit
    \/ Check \/ PingEnds \/ PingTimesOut

Next ==
    \/ ServerNext /\ UNCHANGED limitVars
    \/ LimitNext /\ UNCHANGED <<mongoVars, serverVars>>

\* Bootstrap goes on as long as the process runs, timers fire, and a promise that
\* settled is acted on; neither the database nor app.close() owes an answer.
Fairness ==
    /\ WF_vars(Running /\ Boot /\ UNCHANGED limitVars)
    /\ WF_vars(Exit /\ UNCHANGED limitVars)
    /\ WF_vars(ForcedExit /\ UNCHANGED limitVars)
    /\ WF_vars(PingTimesOut /\ UNCHANGED limitVars)

Spec == Init /\ [][Next]_vars /\ Fairness

----------------------------------------------------------------------------
(* Properties.                                                             *)

\* Whatever the database does, bootstrap comes to an end; a shutdown ends the
\* process, though app.close() may hang; and a health check is answered while the
\* process serves, though the ping may never be.
NothingHangs ==
    /\ <>(phase \in {"serving", "stranded", "exited"})
    /\ fatalHandled ~> phase = "exited"
    /\ checking ~> ~checking \/ phase = "exited"
=============================================================================
