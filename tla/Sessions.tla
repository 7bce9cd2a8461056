------------------------------ MODULE Sessions ------------------------------
(***************************************************************************)
(* The sessions that can still be presented: a document is here from the   *)
(* moment SessionService.issue creates it until it is revoked or expires,  *)
(* and no document comes back from either.                                 *)
(***************************************************************************)
CONSTANTS
    SessionId,     \* bound: the sessions that live at the same time
    NoSession

VARIABLE session   \* session[i]: a live session, or none

\* `stale`: opened before its account was last cut off from earlier sessions,
\* which dates the session; no action looks at it.
Session(owners) == [user : owners, stale : BOOLEAN]

Live == {i \in SessionId : session[i] # NoSession}

SessionsOf(u) == {i \in Live : session[i].user = u}

Issue(u) ==
    \E i \in SessionId \ Live :
        session' = [session EXCEPT ![i] = [user |-> u, stale |-> FALSE]]

\* Also what its expiry does.
Revoke(i) ==
    /\ i \in Live
    /\ session' = [session EXCEPT ![i] = NoSession]

RevokeAllForUser(u) ==
    session' = [i \in SessionId |-> IF i \in SessionsOf(u) THEN NoSession ELSE session[i]]

\* From here on the sessions of u are earlier ones.
Date(u) ==
    session' = [i \in SessionId |->
                   IF i \in SessionsOf(u) THEN [session[i] EXCEPT !.stale = TRUE]
                   ELSE session[i]]
=============================================================================
