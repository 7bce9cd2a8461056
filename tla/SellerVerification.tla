------------------------- MODULE SellerVerification -------------------------
(***************************************************************************)
(* The verification of sellers (apps/api/src/seller-verification): a       *)
(* seller asks, staff approve or reject with a note, a rejected seller may *)
(* ask again.  A request reads the user's document, checks the kycStatus   *)
(* it read, and writes the status, the note and a history row in one       *)
(* transaction, with no check that the status is still the one it read.    *)
(* Mongoose writes a field only when it differs from what was read.        *)
(***************************************************************************)
EXTENDS Naturals, Sequences

CONSTANTS
    Seller,         \* the users who can ask to be verified
    Staff,          \* the users with role admin or admin_prime
    Slot,           \* requests being served at the same time
    NoRequest,      \* what an idle slot holds
    MaxEvents,      \* bound: no request is accepted on a longer history
    CommitFaults    \* can a transaction fail after its save went through?

ASSUME BoundAssumption == MaxEvents \in Nat
ASSUME FaultAssumption == CommitFaults \in BOOLEAN

VARIABLES
    kycStatus,      \* kycStatus of every seller
    hasNote,        \* is the seller's kycReason other than null?
    events,         \* the sellerVerificationHistory rows of the seller, oldest first
    pc,             \* is the request in a slot about to commit, or the slot idle?
    req             \* that request, with what it read

users == <<kycStatus, hasNote, events>>
vars  == <<kycStatus, hasNote, events, pc, req>>

----------------------------------------------------------------------------

KycStatus == {"unverified", "pending", "verified", "rejected"}

\* Mutant: the verified may ask again.
CanRequestUnlessPending(st) == st # "pending"

CanRequestVerificationFrom(st) == st \in {"unverified", "rejected"}

\* Mutant: a seller who never asked may be decided on.
CanReviewUnasked(st) == st \in {"pending", "unverified"}

CanReviewVerificationFrom(st) == st = "pending"

\* Mutant: asking is enough.
CanSubmitOnceAsked(st) == st \in {"pending", "verified"}

\* The gate of ListingLifecycle.
CanSubmitListings(st) == st = "verified"

Target == [ request |-> "pending", approve |-> "verified", reject |-> "rejected" ]

Operation == DOMAIN Target

\* A rejection carries a note, the other transitions clear it.
LeavesNote(op) == op = "reject"

Event == [from : KycStatus, to : KycStatus, by : Seller \cup Staff]

\* `seen`, the length of the history when the user was read, dates the read;
\* no action looks at it.
Request == [ op     : Operation,
             actor  : Seller \cup Staff,
             seller : Seller,
             from   : KycStatus,
             noted  : BOOLEAN,
             seen   : Nat,
             dirty  : BOOLEAN ]

TypeOK ==
    /\ kycStatus \in [Seller -> KycStatus]
    /\ hasNote \in [Seller -> BOOLEAN]
    /\ events \in [Seller -> Seq(Event)]
    /\ pc \in [Slot -> {"idle", "commit"}]
    /\ req \in [Slot -> Request \cup {NoRequest}]
    /\ \A s \in Slot : pc[s] # "idle" => req[s] \in Request

Init ==
    /\ kycStatus = [u \in Seller |-> "unverified"]
    /\ hasNote = [u \in Seller |-> FALSE]
    /\ events = [u \in Seller |-> << >>]
    /\ pc = [s \in Slot |-> "idle"]
    /\ req = [s \in Slot |-> NoRequest]

----------------------------------------------------------------------------

\* findOrThrow, and the snapshot the transition is to work from.
Begin(s, op, actor, u) ==
    /\ Len(events[u]) < MaxEvents
    /\ pc[s] = "idle"
    /\ pc' = [pc EXCEPT ![s] = "commit"]
    /\ req' = [req EXCEPT ![s] =
                  [ op |-> op, actor |-> actor, seller |-> u, from |-> kycStatus[u],
                    noted |-> hasNote[u], seen |-> Len(events[u]), dirty |-> TRUE ]]
    /\ UNCHANGED users

Answer(s) ==
    /\ pc' = [pc EXCEPT ![s] = "idle"]
    /\ req' = [req EXCEPT ![s] = NoRequest]

RequestVerification(s, u) ==
    /\ CanRequestVerificationFrom(kycStatus[u])
    /\ Begin(s, "request", u, u)

Approve(s, actor, u) ==
    /\ CanReviewVerificationFrom(kycStatus[u])
    /\ Begin(s, "approve", actor, u)

Reject(s, actor, u) ==
    /\ CanReviewVerificationFrom(kycStatus[u])
    /\ Begin(s, "reject", actor, u)

\* Mutant: a rejection that leaves only its note.
WrittenStatusUnlessRejected(r) ==
    IF r.dirty /\ ~LeavesNote(r.op) THEN Target[r.op] ELSE kycStatus[r.seller]

\* What saving the document writes: the status always differs from the one
\* read, the note only if the transition changes the one read.
WrittenStatus(r) == IF r.dirty THEN Target[r.op] ELSE kycStatus[r.seller]

\* Mutant: the note never cleared.
WrittenNoteKept(r) == hasNote[r.seller] \/ (r.dirty /\ LeavesNote(r.op))

WrittenNote(r) ==
    IF r.dirty /\ LeavesNote(r.op) # r.noted THEN LeavesNote(r.op) ELSE hasNote[r.seller]

\* Mutant: the two statuses of the row swapped.
HistoryRowSwapped(r) == [from |-> Target[r.op], to |-> r.from, by |-> r.actor]

HistoryRow(r) == [from |-> r.from, to |-> Target[r.op], by |-> r.actor]

\* transition: the transaction that saves the user and creates the row.
Commit(s) ==
    LET r == req[s] IN
    /\ pc[s] = "commit"
    /\ kycStatus' = [kycStatus EXCEPT ![r.seller] = WrittenStatus(r)]
    /\ hasNote' = [hasNote EXCEPT ![r.seller] = WrittenNote(r)]
    /\ events' = [events EXCEPT ![r.seller] = Append(@, HistoryRow(r))]
    /\ Answer(s)

\* A transient error after user.save() succeeded in the transaction: nothing is
\* written, withTransaction calls the callback again, and the document no
\* longer counts as modified.
RetryAfterSave(s) ==
    /\ CommitFaults
    /\ pc[s] = "commit"
    /\ req[s].dirty
    /\ req' = [req EXCEPT ![s].dirty = FALSE]
    /\ UNCHANGED <<users, pc>>

\* The transaction fails for good, or the process dies.
Abort(s) ==
    /\ pc[s] = "commit"
    /\ Answer(s)
    /\ UNCHANGED users

Next ==
    \E s \in Slot :
        \/ \E u \in Seller :
               \/ RequestVerification(s, u)
               \/ \E actor \in Staff : Approve(s, actor, u) \/ Reject(s, actor, u)
        \/ Commit(s)
        \/ RetryAfterSave(s)
        \/ Abort(s)

Spec == Init /\ [][Next]_vars

----------------------------------------------------------------------------
(* Properties.                                                             *)

MovedSince(s, st) ==
    LET rows == events[req[s].seller] IN
    \E i \in DOMAIN rows : i > req[s].seen /\ rows[i].to = st

\* Two consecutive rows that do not join: the second leaves a status other than
\* the one the first reached.
HistoryForks(u) ==
    \E i \in DOMAIN events[u] : i > 1 /\ events[u][i].from # events[u][i - 1].to

\* No seller passes the gate that did not ask for it themselves and was not then
\* approved by staff, whatever requests overlap or are retried.
VerifiedByStaff ==
    \A u \in Seller :
        CanSubmitListings(kycStatus[u]) =>
            \E i, j \in DOMAIN events[u] :
                /\ i < j
                /\ events[u][i].to = "pending"  /\ events[u][i].by = u
                /\ events[u][j].to = "verified" /\ events[u][j].by \in Staff

\* A decision is taken on a status the seller has left only if what moved it was
\* committed while the decision was being served.
StaleOnlyByOverlap ==
    \A s \in Slot :
        pc[s] # "idle" /\ kycStatus[req[s].seller] # req[s].from
            => MovedSince(s, kycStatus[req[s].seller])

\* A verified seller loses the status only to a request that was being served
\* when it was granted: nothing that starts later can take it
\* (canRequestVerificationFrom, canReviewVerificationFrom).
VerifiedHoldsForLaterRequests ==
    [][\A u \in Seller :
           kycStatus[u] = "verified" /\ kycStatus'[u] # "verified" =>
               \E s \in Slot :
                   pc[s] = "commit" /\ req[s].seller = u /\ MovedSince(s, "verified")]_vars

\* A note stays with a seller whose last status is not 'rejected' only if the
\* history shows that requests overlapped.  user.schema.ts 70-71 has no exception,
\* "Null unless the last decision was a rejection": with overlapping requests that is
\* not so, and the history tells for whom.
NoteOutlivesRejectionOnlyByOverlap ==
    \A u \in Seller : hasNote[u] /\ kycStatus[u] # "rejected" => HistoryForks(u)

\* The status and its history move together, as long as no transaction is
\* retried after its save (seller-verification-event.schema.ts).
Ledger == INSTANCE AuditedStatus WITH
              Subject <- Seller, Actor <- Seller \cup Staff, Live <- KycStatus,
              First <- "unverified", Unborn <- "unborn", Gone <- "deleted",
              status <- kycStatus, trail <- events

HistoryIsTheLedger == Ledger!AuditSpec
============================================================================
