--------------------------- MODULE SavedListings ---------------------------
(***************************************************************************)
(* The bookmarks of one user, at both ends: the rows the API keeps         *)
(* (apps/api/src/saved) and the catalog's copy of them in the browser      *)
(* (apps/web/src/hooks/use-saved-listings.ts), which is changed at once    *)
(* when a heart is clicked and changed back when the call fails.           *)
(* A call is served in several steps, and calls on different listings are  *)
(* served at the same time.  The browser may hear of a failure while the   *)
(* API is still at work.                                                   *)
(***************************************************************************)
EXTENDS Naturals, FiniteSets

CONSTANTS
    Listing,        \* the listings with a heart to click
    Call,           \* calls being made or served at the same time
    Cap,            \* MAX_SAVED_LISTINGS
    NoIds,          \* no ids: the copy while signed out or not loaded, no lookup
    Asked,          \* a lookup that the API has not answered yet
    MaxFlips        \* bound: how often the session is found to be gone

ASSUME SavedAssumption == /\ Cap \in Nat \ {0}
                          /\ IsFiniteSet(Call)
                          /\ IsFiniteSet(Listing)
                          /\ MaxFlips \in Nat
                          /\ Asked # NoIds
                          /\ \A s \in SUBSET Listing : s # NoIds /\ s # Asked

VARIABLES
    saved,          \* the listings with a row for this user
    job,            \* the calls
    authenticated,  \* isAuthenticated of the hook
    flips,          \* how often it was lost; bounded
    ids,            \* the copy: a set of listings, or NoIds
    lookup,         \* the fetch of the ids: NoIds, Asked, or the ids it brings
    doubt           \* where the copy may be wrong; no action looks at it

server == <<saved>>
hook   == <<authenticated, flips, ids, lookup>>
vars   == <<saved, job, hook, doubt>>

----------------------------------------------------------------------------

Ids == SUBSET Listing

\* `at` is where the handler stands; `heard` says that the browser still waits.
Idle == [at |-> "idle"]

Jobs == [ at      : {"sent", "found", "new", "under", "done", "failed"},
          op      : {"save", "unsave"},
          listing : Listing,
          heard   : BOOLEAN ]

TypeOK ==
    /\ saved \in Ids
    /\ job \in [Call -> Jobs \cup {Idle}]
    /\ authenticated \in BOOLEAN
    /\ flips \in 0..MaxFlips
    /\ ids \in Ids \cup {NoIds}
    /\ lookup \in {NoIds, Asked} \cup Ids
    /\ doubt \in Ids

Init ==
    /\ saved = {}
    /\ job = [c \in Call |-> Idle]
    /\ authenticated = TRUE
    /\ flips = 0
    /\ ids = NoIds
    /\ lookup = Asked
    /\ doubt = {}

\* The listings a call that is not over yet is about.
Busy(states) == { job[c].listing : c \in { d \in Call : job[d].at \in states } }

Underway == {"sent", "found", "new", "under", "failed"}

\* pendingRef: the listings the browser waits for.
Pending == { job[c].listing : c \in { d \in Call : job[d] # Idle /\ job[d].heard } }

----------------------------------------------------------------------------
\* The API.  A handler nobody waits for any more is forgotten when it ends.

At(c, op, step) == job[c] # Idle /\ job[c].at = step /\ job[c].op = op

Reach(c, step) ==
    job' = [job EXCEPT ![c] = IF step \in {"done", "failed"} /\ ~job[c].heard
                              THEN Idle ELSE [@ EXCEPT !.at = step]]

\* A listing that is not public (any more) cannot be saved: the other outcome is
\* ServerFails.
FindPublic(c) ==
    /\ At(c, "save", "sent")
    /\ Reach(c, "found")
    /\ UNCHANGED <<saved, hook, doubt>>

CheckSaved(c) ==
    /\ At(c, "save", "found")
    /\ Reach(c, IF job[c].listing \in saved THEN "under" ELSE "new")
    /\ UNCHANGED <<saved, hook, doubt>>

\* Mutant: the limit is one too high.
RoomForOneTooMany(rows) == Cardinality(rows) <= Cap

RoomForMore(rows) == Cardinality(rows) < Cap

CountSaved(c) ==
    /\ At(c, "save", "new")
    /\ Reach(c, IF RoomForMore(saved) THEN "under" ELSE "failed")
    /\ UNCHANGED <<saved, hook, doubt>>

\* The upsert finds the row or inserts it.
Upsert(c) ==
    /\ At(c, "save", "under")
    /\ saved' = saved \cup {job[c].listing}
    /\ Reach(c, "done")
    /\ UNCHANGED <<hook, doubt>>

DeleteSave(c) ==
    /\ At(c, "unsave", "sent")
    /\ saved' = saved \ {job[c].listing}
    /\ Reach(c, "done")
    /\ UNCHANGED <<hook, doubt>>

\* Not public, a failed query, or a call that never arrives.
ServerFails(c) ==
    /\ job[c].at \in {"sent", "found", "new", "under"}
    /\ Reach(c, "failed")
    /\ UNCHANGED <<saved, hook, doubt>>

----------------------------------------------------------------------------
\* The browser.

Toggle(c, l) ==
    /\ job[c] = Idle
    /\ authenticated
    /\ ids # NoIds
    /\ l \notin Pending
    /\ ids' = IF l \in ids THEN ids \ {l} ELSE ids \cup {l}
    /\ job' = [job EXCEPT ![c] = [ at |-> "sent", listing |-> l, heard |-> TRUE,
                                   op |-> IF l \in ids THEN "unsave" ELSE "save" ]]
    /\ UNCHANGED <<saved, authenticated, flips, lookup, doubt>>

Succeed(c) ==
    /\ job[c].at = "done"
    /\ job' = [job EXCEPT ![c] = Idle]
    /\ UNCHANGED <<saved, hook, doubt>>

\* Mutant: a failed call leaves the heart as it was clicked.
NotRolledBack(copy, op, l) == copy

RolledBack(copy, op, l) ==
    CASE copy = NoIds  -> NoIds
      [] copy # NoIds /\ op = "save"   -> copy \ {l}
      [] copy # NoIds /\ op = "unsave" -> copy \cup {l}

\* The API answers with an error.
Fail(c) ==
    /\ job[c].at = "failed"
    /\ ids' = RolledBack(ids, job[c].op, job[c].listing)
    /\ job' = [job EXCEPT ![c] = Idle]
    /\ UNCHANGED <<saved, authenticated, flips, lookup, doubt>>

\* The connection is lost, wherever the API is with the call.
LoseAnswer(c) ==
    /\ job[c] # Idle
    /\ job[c].heard
    /\ job[c].at # "failed"
    /\ ids' = RolledBack(ids, job[c].op, job[c].listing)
    /\ job' = [job EXCEPT ![c] = IF job[c].at = "done" THEN Idle
                                 ELSE [@ EXCEPT !.heard = FALSE]]
    /\ doubt' = doubt \cup {job[c].listing}
    /\ UNCHANGED <<saved, authenticated, flips, lookup>>

\* useCurrentUser reports anything but "authenticated": signed out, or merely a
\* refetch that failed.  The effect drops the copy and ignores its own fetch.
SessionGone ==
    /\ authenticated
    /\ flips < MaxFlips
    /\ authenticated' = FALSE
    /\ flips' = flips + 1
    /\ ids' = NoIds
    /\ lookup' = NoIds
    /\ UNCHANGED <<saved, job, doubt>>

SessionBack ==
    /\ ~authenticated
    /\ authenticated' = TRUE
    /\ lookup' = Asked
    /\ UNCHANGED <<saved, job, flips, ids, doubt>>

\* listSavedIds.  What calls still under way do to the rows, it does not see.
ReadIds ==
    /\ lookup = Asked
    /\ lookup' = saved
    /\ doubt' = Busy(Underway)
    /\ UNCHANGED <<saved, job, authenticated, flips, ids>>

IdsArrive ==
    /\ lookup \notin {NoIds, Asked}
    /\ ids' = lookup
    /\ lookup' = NoIds
    /\ UNCHANGED <<saved, job, authenticated, flips, doubt>>

\* A failed lookup shows every listing as not saved.
LookupFails ==
    /\ lookup # NoIds
    /\ ids' = {}
    /\ lookup' = NoIds
    /\ doubt' = Listing
    /\ UNCHANGED <<saved, job, authenticated, flips>>

Serve(c) == FindPublic(c) \/ CheckSaved(c) \/ CountSaved(c) \/ Upsert(c) \/ DeleteSave(c)

Hear(c) == Succeed(c) \/ Fail(c) \/ LoseAnswer(c)

Hook == SessionGone \/ SessionBack \/ ReadIds \/ IdsArrive \/ LookupFails

Next ==
    \/ \E c \in Call : \/ Serve(c) \/ ServerFails(c) \/ Hear(c)
                       \/ \E l \in Listing : Toggle(c, l)
    \/ Hook

Spec == Init /\ [][Next]_vars

----------------------------------------------------------------------------

\* Where no call is under way, the hearts show what the API holds: a click that
\* failed has been taken back, one that succeeded has not.  Not known after an
\* answer was lost, after a lookup failed, and for what was still being served when
\* the ids were read again (use-saved-listings.ts, 28-31 and 75-91).
MirrorAgrees ==
    ids # NoIds =>
        \A l \in Listing \ (doubt \cup Busy(Underway)) : l \in ids <=> l \in saved

\* The rows and those about to be inserted never pass the cap by more than the
\* calls that can be counting at the same time, less one: the soft cap is exact for a
\* user who makes one call at a time (saved-listings.service.ts, 30-40).
Promised == saved \cup { job[c].listing : c \in { d \in Call : At(d, "save", "under") } }

CapHolds == Cardinality(Promised) <= Cap + Cardinality(Call) - 1
===========================================================================
