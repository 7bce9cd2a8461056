-------------------------- MODULE ListingLifecycle --------------------------
(***************************************************************************)
(* The life of a listing, from draft through moderation to the public      *)
(* catalog and out of it (apps/api/src/listings/listings.service.ts).      *)
(*                                                                         *)
(* Every request is served the same way: the handler reads the listing     *)
(* (findOrThrow), checks the status it read, awaits whatever else it       *)
(* needs, and then writes without looking again.  The document write is an *)
(* unconditional Mongoose save of the fields it set, so requests that      *)
(* overlap act on what they read, not on what is there.  A slot holds one  *)
(* request between its read and its last write.                            *)
(*                                                                         *)
(* A status transition writes the listing and its history row in one       *)
(* MongoDB transaction.  The first attempt is one step here: it modifies   *)
(* the listing, so two of them conflict, as one does with the delete of a  *)
(* draft, and the driver runs the loser again from the start of the        *)
(* callback.  An attempt made after the save went through once finds       *)
(* nothing left to modify: its save only asks whether the document is      *)
(* there, conflicts with nothing, and the row follows in a later step.     *)
(*                                                                         *)
(* The seller's kycStatus belongs to SellerVerification; this module sees  *)
(* of it which sellers are verified and which ever were, and lets both     *)
(* move at any time.  Marketplace puts the two together.                   *)
(***************************************************************************)
EXTENDS Naturals, Sequences

CONSTANTS
    Listing,        \* the ObjectIds listings can be created under
    Seller,         \* the users who own listings
    Staff,          \* the users with role admin or admin_prime
    Content,        \* what a seller can fill a listing with
    Bare,           \* the content that still lacks its location
    Slot,           \* requests being served at the same time
    NoRequest,      \* what an idle slot holds
    NoOwner,        \* the owner of an id no listing was created under
    MaxRows,        \* bound: no transition is accepted on a longer history
    CommitFaults    \* can a transaction fail after its save went through?

ASSUME ContentAssumption == Bare \in Content
ASSUME BoundAssumption == MaxRows \in Nat
ASSUME FaultAssumption == CommitFaults \in BOOLEAN
ASSUME ListingAssumption == NoOwner \notin Seller

VARIABLES
    status,         \* publicationStatus of every id, "unborn" or "deleted" with no document
    owner,          \* ownerId
    content,        \* the fields the catalog shows
    trail,          \* the listingStatusHistory rows of the listing, oldest first
    verified,       \* the sellers whose kycStatus is 'verified'
    everVerified,   \* the sellers some decision has verified, now or before
    pc,             \* what the request in a slot does next
    req             \* that request, with what it read

docs == <<status, owner, content, trail>>
kyc  == <<verified, everVerified>>
vars == <<status, owner, content, trail, verified, everVerified, pc, req>>

----------------------------------------------------------------------------
(* Statuses, and the rules on them.                                        *)

PublicationStatus ==
    {"draft", "pending_review", "approved", "rejected", "archived", "removed"}

Status == PublicationStatus \cup {"unborn", "deleted"}

Resubmittable == {"draft", "rejected"}

\* Mutant: the lock forgotten.
StaffLockedNever(st) == FALSE

StaffLocked(st) == st = "removed"

CanTakeDownFrom(st) == st = "approved"

\* Mutant: reinstating whatever is out of the catalog.
CanReinstateFromArchive(st) == st \in {"removed", "archived"}

CanReinstateFrom(st) == st = "removed"

\* The status each transition moves a listing to.
Target == [ submit    |-> "pending_review",
            withdraw  |-> "archived",
            restore   |-> "draft",
            approve   |-> "approved",
            reject    |-> "rejected",
            takedown  |-> "removed",
            reinstate |-> "approved" ]

Transition == DOMAIN Target

Operation == Transition \cup {"create", "update", "delete"}

Row == [from : PublicationStatus, to : PublicationStatus, by : Seller \cup Staff]

\* `seen` is the length of the history when the listing was read; the code
\* does not keep it, and no action looks at it: it dates the read.
Request == [ op      : Operation,
             actor   : Seller \cup Staff,
             listing : Listing,
             from    : Status,
             seen    : Nat,
             text    : Content,
             dirty   : BOOLEAN ]

Step == {"idle", "gate", "insert", "save", "commit", "append", "count", "erase", "purge"}

\* Mutant: a deleted document still found and written.
ExistsWhenDeleted(l) == status[l] # "unborn"

Exists(l) == status[l] \in PublicationStatus

\* findOrThrow and findOwnedOrThrow: any other caller is answered 404 or 403.
Found(l) == Exists(l)

FoundOwned(u, l) == Exists(l) /\ owner[l] = u

TypeOK ==
    /\ status \in [Listing -> Status]
    /\ owner \in [Listing -> Seller \cup {NoOwner}]
    /\ content \in [Listing -> Content]
    /\ trail \in [Listing -> Seq(Row)]
    /\ verified \in SUBSET Seller
    /\ everVerified \in SUBSET Seller
    /\ pc \in [Slot -> Step]
    /\ req \in [Slot -> Request \cup {NoRequest}]
    /\ \A s \in Slot : pc[s] # "idle" => req[s] \in Request

Init ==
    /\ status = [l \in Listing |-> "unborn"]
    /\ owner = [l \in Listing |-> NoOwner]
    /\ content = [l \in Listing |-> Bare]
    /\ trail = [l \in Listing |-> << >>]
    /\ verified = {}
    /\ everVerified = {}
    /\ pc = [s \in Slot |-> "idle"]
    /\ req = [s \in Slot |-> NoRequest]

----------------------------------------------------------------------------
(* A request: its arrival, with the read and the checks the handler makes  *)
(* before its first await on something else, and its end.  A request that  *)
(* fails those checks is answered 403, 404, 400 or 409 and changes nothing.*)

Snapshot(op, u, l, text) ==
    [ op |-> op, actor |-> u, listing |-> l, from |-> status[l],
      seen |-> Len(trail[l]), text |-> text, dirty |-> TRUE ]

Serve(s, r, next) ==
    /\ pc[s] = "idle"
    /\ pc' = [pc EXCEPT ![s] = next]
    /\ req' = [req EXCEPT ![s] = r]
    /\ UNCHANGED <<docs, kyc>>

Continue(s, next) ==
    /\ pc' = [pc EXCEPT ![s] = next]
    /\ UNCHANGED req

Answer(s) ==
    /\ pc' = [pc EXCEPT ![s] = "idle"]
    /\ req' = [req EXCEPT ![s] = NoRequest]

RoomInTrail(l) == Len(trail[l]) < MaxRows

Begin(s, op, u, l, next) ==
    RoomInTrail(l) /\ Serve(s, Snapshot(op, u, l, Bare), next)

\* The seller's operations.

\* The ObjectId is new: no other request can name it before the insert.
CreateDraft(s, u, l) ==
    /\ status[l] = "unborn"
    /\ \A other \in Slot : pc[other] # "idle" => req[other].listing # l
    /\ \E text \in Content : Serve(s, Snapshot("create", u, l, text), "gate")

\* Mutant: the status check forgotten.
UpdateAnyStatus(s, u, l) ==
    /\ FoundOwned(u, l)
    /\ \E text \in Content \ {Bare, content[l]} :
           Serve(s, Snapshot("update", u, l, text), "save")

\* An update that saves the values already there writes nothing; it is left out.
Update(s, u, l) ==
    /\ FoundOwned(u, l)
    /\ ~StaffLocked(status[l])
    /\ status[l] \in Resubmittable
    /\ \E text \in Content \ {Bare, content[l]} :
           Serve(s, Snapshot("update", u, l, text), "save")

\* Mutant: the completeness check forgotten.
SubmitIncomplete(s, u, l) ==
    /\ FoundOwned(u, l)
    /\ status[l] \in Resubmittable
    /\ Begin(s, "submit", u, l, "gate")

\* The completeness check runs after the gate but on the listing read here.
SubmitForReview(s, u, l) ==
    /\ FoundOwned(u, l)
    /\ ~StaffLocked(status[l])
    /\ status[l] \in Resubmittable
    /\ content[l] # Bare
    /\ Begin(s, "submit", u, l, "gate")

Withdraw(s, u, l) ==
    /\ FoundOwned(u, l)
    /\ status[l] # "archived"
    /\ ~StaffLocked(status[l])
    /\ Begin(s, "withdraw", u, l, "commit")

Restore(s, u, l) ==
    /\ FoundOwned(u, l)
    /\ status[l] = "archived"
    /\ Begin(s, "restore", u, l, "commit")

DeleteDraft(s, u, l) ==
    /\ FoundOwned(u, l)
    /\ status[l] = "draft"
    /\ Serve(s, Snapshot("delete", u, l, Bare), "count")

\* The staff's operations.

Approve(s, u, l) ==
    /\ Found(l)
    /\ status[l] = "pending_review"
    /\ Begin(s, "approve", u, l, "commit")

Reject(s, u, l) ==
    /\ Found(l)
    /\ status[l] = "pending_review"
    /\ Begin(s, "reject", u, l, "commit")

Takedown(s, u, l) ==
    /\ Found(l)
    /\ CanTakeDownFrom(status[l])
    /\ Begin(s, "takedown", u, l, "commit")

Reinstate(s, u, l) ==
    /\ Found(l)
    /\ CanReinstateFrom(status[l])
    /\ Begin(s, "reinstate", u, l, "commit")

----------------------------------------------------------------------------
(* What a request does after its first await.                              *)

\* assertSellerVerified, for createDraft and submitForReview: a read of the
\* owner's user document, of its own.
SellerVerifiedGate(s) ==
    /\ pc[s] = "gate"
    /\ IF req[s].actor \in verified
       THEN Continue(s, IF req[s].op = "create" THEN "insert" ELSE "commit")
       ELSE Answer(s)
    /\ UNCHANGED <<docs, kyc>>

InsertDraft(s) ==
    LET r == req[s] IN
    /\ pc[s] = "insert"
    /\ status' = [status EXCEPT ![r.listing] = "draft"]
    /\ owner' = [owner EXCEPT ![r.listing] = r.actor]
    /\ content' = [content EXCEPT ![r.listing] = r.text]
    /\ Answer(s)
    /\ UNCHANGED <<trail, kyc>>

\* Mutant: the whole document written back, status included.
SaveWholeDocument(s) ==
    LET r == req[s] IN
    /\ pc[s] = "save"
    /\ Exists(r.listing)
    /\ content' = [content EXCEPT ![r.listing] = r.text]
    /\ status' = [status EXCEPT ![r.listing] = r.from]
    /\ Answer(s)
    /\ UNCHANGED <<owner, trail, kyc>>

\* listing.save() at the end of update: the fields set, filtered by _id alone.
SaveUpdate(s) ==
    LET r == req[s] IN
    /\ pc[s] = "save"
    /\ content' = IF Exists(r.listing)
                  THEN [content EXCEPT ![r.listing] = r.text]
                  ELSE content
    /\ Answer(s)
    /\ UNCHANGED <<status, owner, trail, kyc>>

\* Mutant: the two statuses of the row swapped.
HistoryRowSwapped(r) == [from |-> Target[r.op], to |-> r.from, by |-> r.actor]

HistoryRow(r) == [from |-> r.from, to |-> Target[r.op], by |-> r.actor]

\* transitionStatus: the transaction that saves the status and creates the row.
\* A document that is gone fails the save and so aborts it.
CommitTransition(s) ==
    LET r == req[s]
        l == r.listing
    IN
    /\ pc[s] = "commit"
    /\ r.dirty
    /\ IF Exists(l)
       THEN /\ status' = [status EXCEPT ![l] = Target[r.op]]
            /\ trail' = [trail EXCEPT ![l] = Append(@, HistoryRow(r))]
       ELSE UNCHANGED <<status, trail>>
    /\ Answer(s)
    /\ UNCHANGED <<owner, content, kyc>>

\* A transient error after listing.save() succeeded in the transaction, from
\* the row's insert or from the commit: nothing is written, withTransaction
\* calls the callback again, and the document no longer counts as modified.
RetryAfterSave(s) ==
    /\ CommitFaults
    /\ \/ pc[s] = "append"
       \/ pc[s] = "commit" /\ req[s].dirty /\ Exists(req[s].listing)
    /\ pc' = [pc EXCEPT ![s] = "commit"]
    /\ req' = [req EXCEPT ![s].dirty = FALSE]
    /\ UNCHANGED <<docs, kyc>>

\* The save of a retry: no field is modified, and Mongoose only looks whether
\* the document exists.
SaveUnmodified(s) ==
    /\ pc[s] = "commit"
    /\ ~req[s].dirty
    /\ IF Exists(req[s].listing) THEN Continue(s, "append") ELSE Answer(s)
    /\ UNCHANGED <<docs, kyc>>

\* The row of a retry is committed, whatever became of the listing since.
AppendRow(s) ==
    LET r == req[s] IN
    /\ pc[s] = "append"
    /\ trail' = [trail EXCEPT ![r.listing] = Append(@, HistoryRow(r))]
    /\ Answer(s)
    /\ UNCHANGED <<status, owner, content, kyc>>

\* Mutant: a draft's history not asked for, as if every draft were new.
CountHistorySkipped(s) ==
    /\ pc[s] = "count"
    /\ Continue(s, "erase")
    /\ UNCHANGED <<docs, kyc>>

\* deleteDraft: count the rows, delete the draft, remove rows left behind.
CountHistory(s) ==
    /\ pc[s] = "count"
    /\ IF trail[req[s].listing] = << >> THEN Continue(s, "erase") ELSE Answer(s)
    /\ UNCHANGED <<docs, kyc>>

EraseDraft(s) ==
    LET l == req[s].listing IN
    /\ pc[s] = "erase"
    /\ IF status[l] = "draft"
       THEN status' = [status EXCEPT ![l] = "deleted"] /\ Continue(s, "purge")
       ELSE Answer(s) /\ UNCHANGED status
    /\ UNCHANGED <<owner, content, trail, kyc>>

PurgeHistory(s) ==
    /\ pc[s] = "purge"
    /\ trail' = [trail EXCEPT ![req[s].listing] = << >>]
    /\ Answer(s)
    /\ UNCHANGED <<status, owner, content, kyc>>

\* A query fails, the connection drops or the process dies: the request ends
\* where it is, and an open transaction leaves nothing.
Abort(s) ==
    /\ pc[s] # "idle"
    /\ Answer(s)
    /\ UNCHANGED <<docs, kyc>>

\* Seller verification, as far as this module sees it.
VerificationMoves ==
    /\ verified' \in SUBSET Seller
    /\ everVerified' \in SUBSET Seller
    /\ everVerified \cup verified' \subseteq everVerified'
    /\ UNCHANGED <<docs, pc, req>>

----------------------------------------------------------------------------

OwnerRequest(s, u, l) ==
    \/ CreateDraft(s, u, l)
    \/ Update(s, u, l)
    \/ SubmitForReview(s, u, l)
    \/ Withdraw(s, u, l)
    \/ Restore(s, u, l)
    \/ DeleteDraft(s, u, l)

StaffRequest(s, u, l) ==
    \/ Approve(s, u, l)
    \/ Reject(s, u, l)
    \/ Takedown(s, u, l)
    \/ Reinstate(s, u, l)

Progress(s) ==
    \/ SellerVerifiedGate(s)
    \/ InsertDraft(s)
    \/ SaveUpdate(s)
    \/ CommitTransition(s)
    \/ SaveUnmodified(s)
    \/ AppendRow(s)
    \/ CountHistory(s)
    \/ EraseDraft(s)
    \/ PurgeHistory(s)

ListingNext ==
    \E s \in Slot :
        \/ \E l \in Listing :
               \/ \E u \in Seller : OwnerRequest(s, u, l)
               \/ \E u \in Staff : StaffRequest(s, u, l)
        \/ Progress(s)
        \/ RetryAfterSave(s)
        \/ Abort(s)

Next == ListingNext \/ VerificationMoves

Spec == Init /\ [][Next]_vars

----------------------------------------------------------------------------
(* Properties.                                                             *)

\* The history shows the listing's owner submitting it and, later on, staff
\* approving it.
ReviewedInTrail(l) ==
    \E i, j \in DOMAIN trail[l] :
        /\ i < j
        /\ trail[l][i].to = "pending_review" /\ trail[l][i].by = owner[l]
        /\ trail[l][j].to = "approved"       /\ trail[l][j].by \in Staff

\* Some row recorded after the request in slot s read its listing moved the
\* listing to status st.
MovedSince(s, st) ==
    LET rows == trail[req[s].listing] IN
    \E i \in DOMAIN rows : i > req[s].seen /\ rows[i].to = st

\* Nothing is in the public catalog that its owner did not submit and staff did
\* not then approve, or whose owner no one ever verified, whatever requests
\* overlap: the catalog serves 'approved' alone (findPublicListing), and the
\* checks in submitForReview and approve are made on stale reads.
PublicOnlyAfterReview ==
    \A l \in Listing :
        status[l] = "approved" => ReviewedInTrail(l) /\ owner[l] \in everVerified

\* What reaches moderation and the catalog has a location: submitForReview
\* checks the listing it read, and no update since can have taken it away.
CompleteOnceSubmitted ==
    \A l \in Listing :
        status[l] \in {"pending_review", "approved", "removed"} => content[l] # Bare

\* A handler acts on a status the listing has left only if the transition that
\* moved it was committed while the handler was running: what a request reads
\* is never staler than the request is old.
StaleOnlyByOverlap ==
    \A s \in Slot :
        /\ pc[s] # "idle"
        /\ req[s].op # "create"
        /\ Exists(req[s].listing)
        /\ status[req[s].listing] # req[s].from
        => MovedSince(s, status[req[s].listing])

\* A takedown is lifted by staff reinstating the listing, or else by a request
\* that had read it before the takedown: what starts later finds it frozen
\* (isStaffLocked).
TakedownHoldsForLaterRequests ==
    [][\A l \in Listing :
           status[l] = "removed" /\ status'[l] # "removed" =>
               \E s \in Slot :
                   /\ pc[s] = "commit" /\ req[s].listing = l
                   /\ \/ req[s].op = "reinstate" /\ req[s].actor \in Staff
                      \/ MovedSince(s, "removed")]_vars

\* The content of a listing in review, in the catalog or out of it again changes
\* only by an update that read the listing while it could still be edited.
ContentFrozenForLaterUpdates ==
    [][\A l \in Listing :
           status[l] \notin {"unborn"} \cup Resubmittable /\ content'[l] # content[l] =>
               \E s \in Slot :
                   /\ pc[s] = "save" /\ req[s].listing = l
                   /\ req[s].from \in Resubmittable
                   /\ status[l] # "deleted" /\ MovedSince(s, status[l])]_vars

\* A transition in flight while deleteDraft deletes the listing writes no row
\* after the delete, unless its transaction is on a retry after its save: only
\* such a row can outlive its listing.
RowsAfterDeleteAreRetries ==
    [][\A l \in Listing :
           status[l] = "deleted" /\ trail'[l] \notin {trail[l], << >>} =>
               CommitFaults /\ \E s \in Slot :
                   pc[s] = "append" /\ req[s].listing = l /\ ~req[s].dirty]_vars

\* The status and its history move together (listing-status-history.schema.ts),
\* whatever requests overlap, as long as no transaction is retried after its save.
Ledger == INSTANCE AuditedStatus WITH
              Subject <- Listing, Actor <- Seller \cup Staff, Live <- PublicationStatus,
              First <- "draft", Unborn <- "unborn", Gone <- "deleted"

HistoryIsTheLedger == Ledger!AuditSpec

Policy == INSTANCE ModerationPolicy

\* The listing is no longer as the request in slot s read it, or the
\* transaction of the request is on a retry after its save.
Overtaken(s) ==
    LET r == req[s] IN
    \/ pc[s] # "purge" /\ status[r.listing] # r.from
    \/ Len(trail[r.listing]) # r.seen
    \/ ~r.dirty

\* What is written is a step of the documented moderation state machine, except
\* by a request that was overtaken since its read, whatever else is being served.
PolicyUnlessOvertaken ==
    [][\/ Policy!PolicyNext
       \/ UNCHANGED docs
       \/ \E s \in Slot : pc[s] # "idle" /\ pc'[s] # pc[s] /\ Overtaken(s)]_vars

\* Served one at a time, and with no transaction retried after its save, the
\* requests follow that state machine step by step.
FollowsThePolicy == Policy!PolicySpec
============================================================================
