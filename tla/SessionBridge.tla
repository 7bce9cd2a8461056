--------------------------- MODULE SessionBridge ---------------------------
(***************************************************************************)
(* How one browser tab gets its session and gives it up.  Clerk redirects  *)
(* to /complete after a sign-in, where an effect swaps Clerk's token for   *)
(* the API's cookie (components/auth/session-bridge.tsx) and may ask for   *)
(* the role (role-choice.tsx); signing out tears down both sessions and    *)
(* goes to /login (hooks/use-logout.ts).  React may run the effect again   *)
(* at any time, after aborting the run before.                             *)
(***************************************************************************)
EXTENDS Naturals

CONSTANTS
    MaxPolls,       \* how often a run asks Clerk for the token: 20 in the code
    MaxRuns,        \* bound: effect runs in the life of the tab
    MaxSignIns      \* bound: sign-ins by the user

ASSUME BridgeAssumption == {MaxPolls, MaxRuns, MaxSignIns} \subseteq Nat \ {0}

VARIABLES
    page,           \* /complete, the app, or /login
    clerk,          \* is Clerk's session in this browser live?
    cookie,         \* does the browser hold a live bdph_session?
    run,            \* where each run of the effect stands, and how often it has asked
    current,        \* the run that is not aborted, 0 if there is none
    screen,         \* what /complete shows
    leaving,        \* "Signing out..." of useLogout, or a recovery's Clerk sign-out
    apiOut,         \* the call that revokes the API's session
    clerkOut,       \* the call that ends Clerk's session
    signIns,        \* bounded
    out             \* signed out with both sessions torn down; no action looks at it

bridge == <<run, current, screen>>
logout == <<leaving, apiOut, clerkOut>>
tab    == <<page, clerk, cookie, bridge, logout, signIns, out>>

----------------------------------------------------------------------------

Run == 1..MaxRuns

\* An exchange is posted until the headers of an answer arrive, welcoming or refusing;
\* then its body is awaited.
Stage == {"off", "polling", "asking", "posting", "welcomed", "refused", "over"}

Runs == [Run -> [ at : Stage, polls : 0..MaxPolls ]]

TabTypeOK ==
    /\ page \in {"complete", "app", "login"}
    /\ clerk \in BOOLEAN
    /\ cookie \in BOOLEAN
    /\ run \in Runs
    /\ current \in 0..MaxRuns
    /\ screen \in {"spinner", "failed", "choosing", "promoting"}
    /\ leaving \in {"no", "logout", "recovery"}
    /\ apiOut \in {"none", "asked", "ok", "failed"}
    /\ clerkOut \in {"none", "asked", "ok", "failed"}
    /\ signIns \in 0..MaxSignIns
    /\ out \in BOOLEAN

TabInit ==
    /\ page = "login"
    /\ clerk = FALSE
    /\ cookie = FALSE
    /\ run = [r \in Run |-> [at |-> "off", polls |-> 0]]
    /\ current = 0
    /\ screen = "spinner"
    /\ leaving = "no"
    /\ apiOut = "none"
    /\ clerkOut = "none"
    /\ signIns = 0
    /\ out = FALSE

----------------------------------------------------------------------------
\* /complete

\* The effect runs; the cleanup of the run before has aborted that one.
Starts(r) ==
    /\ run[r].at = "off"
    /\ \A q \in 1..(r - 1) : run[q].at # "off"
    /\ run' = [run EXCEPT ![r].at = "polling"]
    /\ current' = r

Mount ==
    /\ \E r \in Run : Starts(r)
    /\ page' = "complete"
    /\ screen' = "spinner"

Unmount(to) == page' = to /\ current' = 0

\* StrictMode, or a dependency of the effect that changed its identity.
Rerun ==
    /\ page = "complete"
    /\ \E r \in Run : Starts(r)
    /\ UNCHANGED <<page, clerk, cookie, screen, logout, signIns, out>>

Aborted(r) == r # current

Move(r, step) == run' = [run EXCEPT ![r].at = step]

\* setFailed, which a run that is aborted leaves out.
ShowsFailure(r) ==
    screen' = IF ~Aborted(r) /\ screen = "spinner" THEN "failed" ELSE screen

Poll(r) ==
    /\ run[r].at = "polling"
    /\ \/ /\ Aborted(r)
          /\ Move(r, "over")
          /\ UNCHANGED screen
       \/ /\ ~Aborted(r)
          /\ run[r].polls = MaxPolls
          /\ Move(r, "over")
          /\ ShowsFailure(r)
       \/ /\ ~Aborted(r)
          /\ run[r].polls < MaxPolls
          /\ Move(r, "asking")
          /\ UNCHANGED screen
    /\ UNCHANGED <<page, clerk, cookie, current, logout, signIns, out>>

Counted(n) == n + 1

\* Clerk may still be hydrating: no token although there is a session.
AskToken(r) ==
    /\ run[r].at = "asking"
    /\ \/ /\ Aborted(r)
          /\ Move(r, "over")
       \/ /\ ~Aborted(r)
          /\ clerk
          /\ Move(r, "posting")
       \/ /\ ~Aborted(r)
          /\ run' = [run EXCEPT ![r] = [at |-> "polling", polls |-> Counted(@.polls)]]
    /\ UNCHANGED <<page, clerk, cookie, current, screen, logout, signIns, out>>

\* The headers of the answer arrive, the cookie among those of a welcome.  From here
\* neither the timer nor an abort ends the call.
Answered(r) ==
    /\ run[r].at = "posting"
    /\ ~Aborted(r)
    /\ \/ Move(r, "welcomed") /\ cookie' = TRUE
       \/ Move(r, "refused") /\ UNCHANGED cookie
    /\ UNCHANGED <<page, clerk, current, screen, logout, signIns, out>>

\* Mutant: a call that the timer ends is taken for one that an abort ended.
NotAnsweredUnseen(r) ==
    /\ run[r].at = "posting"
    /\ Move(r, "over")
    /\ UNCHANGED <<page, clerk, cookie, current, screen, logout, signIns, out>>

\* No headers: the call fails, ten seconds pass, or the run was aborted.
NotAnswered(r) ==
    /\ run[r].at = "posting"
    /\ Move(r, "over")
    /\ ShowsFailure(r)
    /\ UNCHANGED <<page, clerk, cookie, current, logout, signIns, out>>

\* The body of a welcome: a new buyer is asked for a role, others are sent on.
Exchanged(r) ==
    /\ run[r].at = "welcomed"
    /\ ~Aborted(r)
    /\ Move(r, "over")
    /\ \/ /\ screen' = IF screen = "promoting" THEN screen ELSE "choosing"
          /\ UNCHANGED <<page, current>>
       \/ /\ Unmount("app")
          /\ UNCHANGED screen
    /\ UNCHANGED <<clerk, cookie, logout, signIns, out>>

\* The body of a refusal, or one that breaks off or does not parse; or any body, for
\* a run that was aborted while it waited.
NotExchanged(r) ==
    /\ run[r].at \in {"welcomed", "refused"}
    /\ Move(r, "over")
    /\ ShowsFailure(r)
    /\ UNCHANGED <<page, clerk, cookie, current, logout, signIns, out>>

ChooseBuyer ==
    /\ page = "complete"
    /\ screen = "choosing"
    /\ Unmount("app")
    /\ UNCHANGED <<clerk, cookie, run, screen, logout, signIns, out>>

ChooseSeller ==
    /\ page = "complete"
    /\ screen = "choosing"
    /\ screen' = "promoting"
    /\ UNCHANGED <<page, clerk, cookie, run, current, logout, signIns, out>>

\* POST /me/become-seller succeeds, or the question is asked again.
Promoted ==
    /\ page = "complete"
    /\ screen = "promoting"
    /\ \/ Unmount("app") /\ UNCHANGED screen
       \/ screen' = "choosing" /\ UNCHANGED <<page, current>>
    /\ UNCHANGED <<clerk, cookie, run, logout, signIns, out>>

\* Sign-out clears Clerk's session before /login is shown, which would otherwise
\* send the user back here.
BackToSignIn ==
    /\ page = "complete"
    /\ screen = "failed"
    /\ leaving = "no"
    /\ leaving' = "recovery"
    /\ clerkOut' = "asked"
    /\ UNCHANGED <<page, clerk, cookie, bridge, apiOut, signIns, out>>

Recovered ==
    /\ leaving = "recovery"
    /\ leaving' = "no"
    /\ clerkOut' = "none"
    /\ \/ /\ clerk' = FALSE
          /\ Unmount("login")
       \/ UNCHANGED <<page, clerk, current>>
    /\ UNCHANGED <<cookie, run, screen, apiOut, signIns, out>>

----------------------------------------------------------------------------
\* Signing out, and the login page.

Logout ==
    /\ page = "app"
    /\ leaving = "no"
    /\ apiOut # "asked"
    /\ leaving' = "logout"
    /\ apiOut' = "asked"
    /\ clerkOut' = "asked"
    /\ UNCHANGED <<page, clerk, cookie, bridge, signIns, out>>

\* The answer clears the cookie, even one that was set in the meantime: the call
\* outlives the page (keepalive).
ApiSignsOut ==
    /\ apiOut = "asked"
    /\ \/ apiOut' = "ok" /\ cookie' = FALSE
       \/ apiOut' = "failed" /\ UNCHANGED cookie
    /\ UNCHANGED <<page, clerk, bridge, leaving, clerkOut, signIns, out>>

\* Mutant: Clerk's session is left to expire.
ClerkStays == TRUE

ClerkEnds == FALSE

ClerkSignsOut ==
    /\ leaving = "logout"
    /\ clerkOut = "asked"
    /\ \/ clerkOut' = "ok" /\ clerk' = ClerkEnds
       \/ clerkOut' = "failed" /\ UNCHANGED clerk
    /\ UNCHANGED <<page, cookie, bridge, leaving, apiOut, signIns, out>>

\* The full page load, when both calls have settled or, by the safeguard, whenever
\* 1.5 seconds have passed.  It cuts off Clerk's call, which may have reached Clerk all
\* the same.
Redirect ==
    /\ leaving = "logout"
    /\ leaving' = "no"
    /\ Unmount("login")
    /\ out' = (apiOut = "ok" /\ clerkOut = "ok")
    /\ clerk' \in IF clerkOut = "asked" THEN {clerk, FALSE} ELSE {clerk}
    /\ clerkOut' = "none"
    /\ UNCHANGED <<cookie, run, screen, apiOut, signIns>>

\* The pages of the app send a visitor without a session to /login.
TurnAway ==
    /\ page = "app"
    /\ ~cookie
    /\ leaving # "logout"
    /\ Unmount("login")
    /\ UNCHANGED <<clerk, cookie, run, screen, logout, signIns, out>>

SessionEnds ==
    /\ cookie
    /\ cookie' = FALSE
    /\ UNCHANGED <<page, clerk, bridge, logout, signIns, out>>

SignIn ==
    /\ page = "login"
    /\ ~clerk
    /\ signIns < MaxSignIns
    /\ signIns' = signIns + 1
    /\ clerk' = TRUE
    /\ Mount
    /\ out' = FALSE
    /\ UNCHANGED <<cookie, logout>>

\* Clerk's sign-in does not show its form to somebody who has a session.
BounceBack ==
    /\ page = "login"
    /\ clerk
    /\ Mount
    /\ UNCHANGED <<clerk, cookie, logout, signIns, out>>
===========================================================================
