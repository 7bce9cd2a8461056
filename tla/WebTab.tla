------------------------------- MODULE WebTab -------------------------------
(***************************************************************************)
(* One browser tab of the web application: SessionBridge signs it in and   *)
(* out, and while it shows the app it reads the catalog (CatalogPaging).   *)
(***************************************************************************)
EXTENDS SessionBridge, CatalogPaging

vars == <<tab, catalog>>

----------------------------------------------------------------------------

Init == TabInit /\ CatalogInit /\ public = {}

TypeOK == TabTypeOK /\ CatalogTypeOK

\* Opening the app finds the catalog as it is by then, and what the catalog does while
\* nobody looks is not followed.  Pages that the query cache brings back are those of
\* a scan that goes on, as if the app had not been left.
Visit ==
    IF page' = page
    THEN UNCHANGED catalog
    ELSE /\ public' \in IF page' = "app" THEN SUBSET Listing ELSE {{}}
         /\ moves' = 0
         /\ scan' = NoScan
         /\ history' = NoHistory

RunSteps(r) == \/ Poll(r) \/ AskToken(r)
               \/ Answered(r) \/ NotAnswered(r) \/ Exchanged(r) \/ NotExchanged(r)

Bridge == \/ \E r \in Run : RunSteps(r)
          \/ Rerun \/ ChooseBuyer \/ ChooseSeller \/ Promoted \/ BackToSignIn \/ Recovered

SignOut == Logout \/ ApiSignsOut \/ ClerkSignsOut \/ Redirect

Moves == TurnAway \/ SessionEnds \/ SignIn \/ BounceBack

Catalog ==
    /\ UNCHANGED tab
    /\ page = "app"
    /\ \/ \E l \in Listing : Enters(l) \/ Leaves(l)
       \/ \E sort \in {"newest", "price_asc"} : Browse(sort)
       \/ LoadMore

Next ==
    \/ (Bridge \/ SignOut \/ Moves) /\ Visit
    \/ Catalog

\* The poll's timer, and the ten seconds the headers of an answer are given.  Clerk's
\* answer to getToken has no limit in this code: that it comes is supposed of Clerk's
\* library.  Nothing is supposed of the body of an answer, which the code awaits
\* without a limit.
Fairness ==
    \A r \in Run : /\ WF_vars(Poll(r) /\ Visit)
                   /\ WF_vars(AskToken(r) /\ Visit)
                   /\ WF_vars((Answered(r) \/ NotAnswered(r)) /\ Visit)

Spec == Init /\ [][Next]_vars /\ Fairness

----------------------------------------------------------------------------

Spinning == page = "complete" /\ screen = "spinner"

AwaitsBody(r) == run[r].at \in {"welcomed", "refused"}

\* The spinner of /complete ends, however often the effect is run again and whatever
\* becomes of the runs before: but for the one wait that has no limit, that of the
\* current run for the body of an answer (session-bridge.tsx 101-130, api.ts 171-200).
SpinnerEnds == Spinning ~> \/ ~Spinning
                           \/ \E r \in Run : r = current /\ AwaitsBody(r)

\* "a hung (not failed) API must still reject -- otherwise the user is stranded on the
\* spinner with no retry" (api.ts 171-173): the spinner ends, without exception.
HungApiRejects == Spinning ~> ~Spinning

\* A user signed out of both sessions stays out until the next sign-in: the login
\* page does not bounce back, and no run of an earlier visit brings a cookie
\* (use-logout.ts, 17-20).
SignOutHolds == out => page = "login" /\ ~clerk /\ ~cookie
===========================================================================
