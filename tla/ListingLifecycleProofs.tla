----------------------- MODULE ListingLifecycleProofs -----------------------
(***************************************************************************)
(* Proofs about ListingLifecycle, for any set of listings, users and       *)
(* requests in flight, and histories of any length.                        *)
(*                                                                         *)
(* What a request wrote depends on what it read, so nothing about a        *)
(* listing can be shown without saying what the requests in flight hold.   *)
(* The invariant is built in layers, each of which rests on the ones       *)
(* before it:                                                              *)
(*   WellFormed   each request is at a step its operation has, and read a  *)
(*                status its operation accepts;                            *)
(*   InPlace      it is about a listing that is there, and its owner's;    *)
(*   Dated        what it read is stale only if a later row says why;      *)
(*   Vouched      statuses, and statuses that were read, have a past;      *)
(*   Located      submitted listings, and listings about to be, have a     *)
(*                location;                                                *)
(*   Counted      a delete past its count is of a listing with no history. *)
(***************************************************************************)
EXTENDS ListingLifecycle, TLAPS

InFlight(s) == pc[s] # "idle"

OwnerOperation == {"create", "update", "submit", "withdraw", "restore", "delete"}

Withdrawable == {"draft", "pending_review", "approved", "rejected"}

\* The statuses an operation lets through.
ReadFits(r) ==
    /\ r.op = "create" => r.from = "unborn"
    /\ r.op \in {"update", "submit"} => r.from \in Resubmittable
    /\ r.op = "withdraw" => r.from \in Withdrawable
    /\ r.op = "restore" => r.from = "archived"
    /\ r.op = "delete" => r.from = "draft"
    /\ r.op \in {"approve", "reject"} => r.from = "pending_review"
    /\ r.op = "takedown" => r.from = "approved"
    /\ r.op = "reinstate" => r.from = "removed"

\* The steps an operation goes through.
StepFits(r, step) ==
    /\ step = "gate" => r.op \in {"create", "submit"}
    /\ step = "insert" => r.op = "create"
    /\ step = "save" => r.op = "update"
    /\ step \in {"commit", "append"} => r.op \in Transition
    /\ step = "append" => ~r.dirty
    /\ step \in {"count", "erase", "purge"} => r.op = "delete"

Fits(r, step) ==
    /\ ReadFits(r)
    /\ StepFits(r, step)
    /\ r.actor \in IF r.op \in OwnerOperation THEN Seller ELSE Staff
    /\ r.op = "update" => r.text # Bare
    /\ ~CommitFaults => r.dirty

WellFormed ==
    /\ TypeOK
    /\ \A s \in Slot : InFlight(s) => Fits(req[s], pc[s])

\* No one else knows the id of a listing that is being created, every other
\* request found the document there, and only the owner's requests act for them.
Placed(s) ==
    /\ req[s].op = "create" =>
           /\ status[req[s].listing] = "unborn"
           /\ \A other \in Slot \ {s} :
                  InFlight(other) => req[other].listing # req[s].listing
    /\ req[s].op # "create" => status[req[s].listing] # "unborn"
    /\ req[s].op \in OwnerOperation \ {"create"} => req[s].actor = owner[req[s].listing]
    /\ pc[s] = "purge" => status[req[s].listing] = "deleted"

InPlace == \A s \in Slot : InFlight(s) => Placed(s)

DatedRead(s) ==
    /\ req[s].seen <= Len(trail[req[s].listing])
    /\ status[req[s].listing] # req[s].from => MovedSince(s, status[req[s].listing])

\* Requests on a listing that is there.
Pending(s) == InFlight(s) /\ req[s].op # "create" /\ Exists(req[s].listing)

Dated == \A s \in Slot : Pending(s) => DatedRead(s)

\* Sellers in whose name something is done were verified before.
OwnersWereVerified ==
    /\ verified \subseteq everVerified
    /\ \A s \in Slot : pc[s] = "insert" => req[s].actor \in everVerified
    /\ \A l \in Listing : Exists(l) => owner[l] \in everVerified

SubmittedInTrail(l) ==
    \E i \in DOMAIN trail[l] : trail[l][i].to = "pending_review" /\ trail[l][i].by = owner[l]

\* What the history of a listing shows when its status is, or was, st.
PastOf(l, st) ==
    /\ st = "pending_review" => SubmittedInTrail(l)
    /\ st \in {"approved", "removed"} => ReviewedInTrail(l)

Vouched ==
    /\ \A l \in Listing : PastOf(l, status[l])
    /\ \A s \in Slot : Pending(s) => PastOf(req[s].listing, req[s].from)

InReview == {"pending_review", "approved", "removed"}

Located ==
    /\ CompleteOnceSubmitted
    /\ \A s \in Slot :
           InFlight(s) /\ (req[s].op = "submit" \/ req[s].from \in InReview)
               => content[req[s].listing] # Bare

\* Unless another delete was faster, a listing about to be deleted had no history
\* when it was read; and so had the one that was.
Counted ==
    \A s \in Slot :
        \/ pc[s] = "erase" /\ Exists(req[s].listing)
        \/ pc[s] = "purge"
        => req[s].seen = 0

IInv == WellFormed /\ InPlace /\ Dated /\ OwnersWereVerified /\ Vouched /\ Located /\ Counted

----------------------------------------------------------------------------
(* Facts about the constant operators.                                     *)

LEMMA Transitions ==
    Transition = {"submit", "withdraw", "restore", "approve", "reject", "takedown", "reinstate"}
BY DEF Transition, Target

LEMMA TargetOf ==
    ASSUME NEW op \in Transition
    PROVE  /\ Target[op] \in PublicationStatus
           /\ Target[op] = "pending_review" <=> op = "submit"
           /\ Target[op] = "approved" <=> op \in {"approve", "reinstate"}
           /\ Target[op] = "removed" <=> op = "takedown"
BY Transitions DEF Target, PublicationStatus

LEMMA Operations ==
    Operation = {"submit", "withdraw", "restore", "approve", "reject", "takedown", "reinstate",
                 "create", "update", "delete"}
BY Transitions DEF Operation

----------------------------------------------------------------------------
(* What every new request has in common.                                   *)

Arrives(s) ==
    \E r \in Request, step \in Step :
        /\ Serve(s, r, step)
        /\ Fits(r, step)
        /\ step \notin {"idle", "append", "insert", "erase", "purge"}
        /\ r.from = status[r.listing]
        /\ r.op = "create" =>
               \A other \in Slot : InFlight(other) => req[other].listing # r.listing
        /\ r.seen = Len(trail[r.listing])
        /\ r.op \in OwnerOperation \ {"create"} => r.actor = owner[r.listing]
        /\ r.op = "submit" => content[r.listing] # Bare

\* A snapshot of any operation a user of either kind may ask for is a request.
LEMMA SnapshotIsRequest ==
    ASSUME TypeOK, NEW op \in Operation, NEW u \in Seller \cup Staff, NEW l \in Listing,
           NEW text \in Content
    PROVE  Snapshot(op, u, l, text) \in Request
<1>1. Len(trail[l]) \in Nat
  BY DEF TypeOK
<1> QED
  BY <1>1 DEF TypeOK, Snapshot, Request

LEMMA OwnerArrives ==
    ASSUME TypeOK, NEW s \in Slot, NEW u \in Seller, NEW l \in Listing, OwnerRequest(s, u, l)
    PROVE  Arrives(s)
<1> USE Operations, SnapshotIsRequest, ContentAssumption
<1>1. CASE CreateDraft(s, u, l)
  BY <1>1, Transitions
  DEF CreateDraft, Arrives, InFlight, Snapshot, Fits, ReadFits, StepFits, OwnerOperation, Step
<1>2. CASE Update(s, u, l)
  BY <1>2, Transitions
  DEF Update, FoundOwned, Arrives, Snapshot, Fits, ReadFits, StepFits, OwnerOperation, Step
<1>3. CASE SubmitForReview(s, u, l)
  BY <1>3, Transitions
  DEF SubmitForReview, FoundOwned, Begin, Arrives, Snapshot, Fits, ReadFits, StepFits,
      OwnerOperation, Step
<1>4. CASE Withdraw(s, u, l)
  <2>1. status[l] \in Withdrawable
    BY <1>4 DEF Withdraw, FoundOwned, Exists, PublicationStatus, StaffLocked, Withdrawable
  <2> QED
    BY <1>4, <2>1, Transitions
    DEF Withdraw, FoundOwned, Begin, Arrives, Snapshot, Fits, ReadFits, StepFits,
        OwnerOperation, Step
<1>5. CASE Restore(s, u, l)
  BY <1>5, Transitions
  DEF Restore, FoundOwned, Begin, Arrives, Snapshot, Fits, ReadFits, StepFits,
      OwnerOperation, Step
<1>6. CASE DeleteDraft(s, u, l)
  BY <1>6, Transitions
  DEF DeleteDraft, FoundOwned, Arrives, Snapshot, Fits, ReadFits, StepFits,
      OwnerOperation, Step
<1> QED
  BY <1>1, <1>2, <1>3, <1>4, <1>5, <1>6 DEF OwnerRequest

LEMMA StaffArrives ==
    ASSUME TypeOK, NEW s \in Slot, NEW u \in Staff, NEW l \in Listing, StaffRequest(s, u, l)
    PROVE  Arrives(s)
<1> USE Operations, SnapshotIsRequest, ContentAssumption, Transitions
<1>1. CASE Approve(s, u, l)
  BY <1>1
  DEF Approve, Begin, Arrives, Snapshot, Fits, ReadFits, StepFits, OwnerOperation, Step
<1>2. CASE Reject(s, u, l)
  BY <1>2
  DEF Reject, Begin, Arrives, Snapshot, Fits, ReadFits, StepFits, OwnerOperation, Step
<1>3. CASE Takedown(s, u, l)
  BY <1>3
  DEF Takedown, CanTakeDownFrom, Begin, Arrives, Snapshot, Fits, ReadFits, StepFits,
      OwnerOperation, Step
<1>4. CASE Reinstate(s, u, l)
  BY <1>4
  DEF Reinstate, CanReinstateFrom, Begin, Arrives, Snapshot, Fits, ReadFits, StepFits,
      OwnerOperation, Step
<1> QED
  BY <1>1, <1>2, <1>3, <1>4 DEF StaffRequest

----------------------------------------------------------------------------
(* WellFormed.                                                             *)

LEMMA StepCases ==
    ASSUME TypeOK, [Next]_vars
    PROVE  \/ \E s \in Slot :
                  \/ Arrives(s)
                  \/ Progress(s)
                  \/ RetryAfterSave(s)
                  \/ Abort(s)
           \/ VerificationMoves
           \/ UNCHANGED vars
BY OwnerArrives, StaffArrives DEF Next, ListingNext

LEMMA WellFormedInit == Init => WellFormed
BY ContentAssumption DEF Init, WellFormed, TypeOK, InFlight, Status, Step

\* The requests of the other slots are left alone, and the one of slot s is
\* answered or goes on unchanged.
LEMMA ProgressOfOne ==
    ASSUME TypeOK, NEW s \in Slot, Progress(s) \/ Abort(s)
    PROVE  /\ InFlight(s)
           /\ pc' \in [Slot -> Step] /\ req' \in [Slot -> Request \cup {NoRequest}]
           /\ \A t \in Slot \ {s} : pc'[t] = pc[t] /\ req'[t] = req[t]
           /\ pc'[s] # "idle" => req'[s] = req[s]
BY DEF TypeOK, Progress, SellerVerifiedGate, InsertDraft, SaveUpdate, CommitTransition,
       SaveUnmodified, AppendRow, CountHistory, EraseDraft, PurgeHistory, Abort, Answer,
       Continue, Step, InFlight

\* A history that grows by a row, or is removed, is still one.
LEMMA TrailKeepsType ==
    ASSUME TypeOK, NEW l \in Listing
    PROVE  /\ \A row \in Row :
                  [trail EXCEPT ![l] = Append(@, row)] \in [Listing -> Seq(Row)]
           /\ [trail EXCEPT ![l] = << >>] \in [Listing -> Seq(Row)]
<1>1. trail \in [Listing -> Seq(Row)] /\ trail[l] \in Seq(Row)
  BY DEF TypeOK
<1>2. \A row \in Row : Append(trail[l], row) \in Seq(Row)
  BY <1>1
<1>3. << >> \in Seq(Row)
  OBVIOUS
<1> QED
  BY <1>1, <1>2, <1>3

\* The row a transition records, on the first attempt or on a retry.
LEMMA RowOfCommit ==
    ASSUME WellFormed, NEW s \in Slot, pc[s] \in {"commit", "append"}
    PROVE  /\ req[s] \in Request /\ req[s].op \in Transition
           /\ HistoryRow(req[s]) \in Row
           /\ HistoryRow(req[s]).to = Target[req[s].op]
           /\ HistoryRow(req[s]).by = req[s].actor
<1>1. /\ req[s] \in Request /\ req[s].op \in Transition
      /\ req[s].from \in PublicationStatus
  BY Transitions
  DEF WellFormed, TypeOK, InFlight, Fits, ReadFits, StepFits,
      Resubmittable, Withdrawable, PublicationStatus
<1> QED
  BY <1>1, TargetOf DEF HistoryRow, Row, Request

LEMMA RowAdded ==
    ASSUME TypeOK, NEW r \in Request, HistoryRow(r) \in Row
    PROVE  [trail EXCEPT ![r.listing] = Append(@, HistoryRow(r))] \in [Listing -> Seq(Row)]
<1> DEFINE l == r.listing
           row == HistoryRow(r)
<1>1. l \in Listing /\ row \in Row
  BY DEF Request
<1> HIDE DEF l, row
<1>2. [trail EXCEPT ![l] = Append(@, row)] \in [Listing -> Seq(Row)]
  BY <1>1, TrailKeepsType
<1> QED
  BY <1>2 DEF l, row

LEMMA WellFormedStep ==
    ASSUME WellFormed, [Next]_vars
    PROVE  WellFormed'
<1> USE DEF InFlight
<1>1. ASSUME NEW s \in Slot, Arrives(s)
      PROVE  WellFormed'
  BY <1>1 DEF WellFormed, TypeOK, Arrives, Serve, Fits, ReadFits, StepFits, docs, kyc
<1>2. ASSUME NEW s \in Slot, Progress(s) \/ Abort(s),
             TypeOK',
             pc'[s] # "idle" => Fits(req[s], pc'[s])
      PROVE  WellFormed'
  BY <1>2, ProgressOfOne DEF WellFormed, Fits, ReadFits, StepFits
<1>3. ASSUME NEW s \in Slot, SellerVerifiedGate(s)
      PROVE  WellFormed'
  <2>1. TypeOK'
    BY <1>3, ProgressOfOne DEF Progress, SellerVerifiedGate, WellFormed, TypeOK, docs, kyc
  <2>2. pc'[s] # "idle" => Fits(req[s], pc'[s])
    BY <1>3, Transitions
    DEF SellerVerifiedGate, WellFormed, TypeOK, Continue, Answer, Fits, ReadFits, StepFits
  <2> QED
    BY <1>2, <1>3, <2>1, <2>2 DEF Progress
<1>4. ASSUME NEW s \in Slot, InsertDraft(s)
      PROVE  WellFormed'
  <2>1. req[s] \in Request /\ req[s].actor \in Seller
    BY <1>4 DEF InsertDraft, WellFormed, TypeOK, Fits, StepFits, OwnerOperation
  <2>2. TypeOK'
    BY <1>4, <2>1, ProgressOfOne
    DEF Progress, InsertDraft, WellFormed, TypeOK, Request, kyc, Status, PublicationStatus
  <2>3. pc'[s] = "idle"
    BY <1>4 DEF InsertDraft, Answer, WellFormed, TypeOK
  <2> QED
    BY <1>2, <1>4, <2>2, <2>3 DEF Progress
<1>5. ASSUME NEW s \in Slot, SaveUpdate(s)
      PROVE  WellFormed'
  <2>1. req[s] \in Request
    BY <1>5 DEF SaveUpdate, WellFormed, TypeOK
  <2>2. TypeOK'
    BY <1>5, <2>1, ProgressOfOne DEF Progress, SaveUpdate, WellFormed, TypeOK, Request, kyc
  <2>3. pc'[s] = "idle"
    BY <1>5 DEF SaveUpdate, Answer, WellFormed, TypeOK
  <2> QED
    BY <1>2, <1>5, <2>2, <2>3 DEF Progress
<1>6. ASSUME NEW s \in Slot, CommitTransition(s)
      PROVE  WellFormed'
  <2>1. /\ req[s] \in Request /\ req[s].op \in Transition
        /\ HistoryRow(req[s]) \in Row /\ Target[req[s].op] \in Status
    BY <1>6, RowOfCommit, TargetOf DEF CommitTransition, Status
  <2>2. status' \in [Listing -> Status]
    BY <1>6, <2>1 DEF CommitTransition, WellFormed, TypeOK
  <2>3. trail' \in [Listing -> Seq(Row)]
    BY <1>6, RowAdded, <2>1, ZenonT(40) DEF CommitTransition, WellFormed, TypeOK
  <2>4. TypeOK'
    BY <1>6, <2>2, <2>3, ProgressOfOne DEF Progress, CommitTransition, WellFormed, TypeOK, kyc
  <2>5. pc'[s] = "idle"
    BY <1>6 DEF CommitTransition, Answer, WellFormed, TypeOK
  <2> QED
    BY <1>2, <1>6, <2>4, <2>5 DEF Progress
<1>14. ASSUME NEW s \in Slot, SaveUnmodified(s)
       PROVE  WellFormed'
  <2>1. TypeOK'
    BY <1>14, ProgressOfOne DEF Progress, SaveUnmodified, WellFormed, TypeOK, docs, kyc
  <2>2. pc'[s] # "idle" => Fits(req[s], pc'[s])
    BY <1>14
    DEF SaveUnmodified, WellFormed, TypeOK, Continue, Answer, Fits, ReadFits, StepFits
  <2> QED
    BY <1>2, <1>14, <2>1, <2>2 DEF Progress
<1>15. ASSUME NEW s \in Slot, AppendRow(s)
       PROVE  WellFormed'
  <2>1. HistoryRow(req[s]) \in Row /\ req[s] \in Request
    BY <1>15, RowOfCommit DEF AppendRow
  <2>2. trail' \in [Listing -> Seq(Row)]
    BY <1>15, <2>1, RowAdded DEF AppendRow, WellFormed
  <2>3. TypeOK'
    BY <1>15, <2>2, ProgressOfOne DEF Progress, AppendRow, WellFormed, TypeOK, kyc
  <2>4. pc'[s] = "idle"
    BY <1>15 DEF AppendRow, Answer, WellFormed, TypeOK
  <2> QED
    BY <1>2, <1>15, <2>3, <2>4 DEF Progress
<1>7. ASSUME NEW s \in Slot, CountHistory(s)
      PROVE  WellFormed'
  <2>1. TypeOK'
    BY <1>7, ProgressOfOne DEF Progress, CountHistory, WellFormed, TypeOK, docs, kyc
  <2>2. pc'[s] # "idle" => Fits(req[s], pc'[s])
    BY <1>7
    DEF CountHistory, WellFormed, TypeOK, Continue, Answer, Fits, ReadFits, StepFits
  <2> QED
    BY <1>2, <1>7, <2>1, <2>2 DEF Progress
<1>8. ASSUME NEW s \in Slot, EraseDraft(s)
      PROVE  WellFormed'
  <2>1. TypeOK'
    BY <1>8, ProgressOfOne DEF Progress, EraseDraft, WellFormed, TypeOK, kyc, Status
  <2>2. pc'[s] # "idle" => Fits(req[s], pc'[s])
    BY <1>8
    DEF EraseDraft, WellFormed, TypeOK, Continue, Answer, Fits, ReadFits, StepFits
  <2> QED
    BY <1>2, <1>8, <2>1, <2>2 DEF Progress
<1>9. ASSUME NEW s \in Slot, PurgeHistory(s)
      PROVE  WellFormed'
  <2>1. TypeOK'
    <3>1. req[s].listing \in Listing
      BY <1>9 DEF PurgeHistory, WellFormed, TypeOK, Request
    <3>2. trail' \in [Listing -> Seq(Row)]
      BY <1>9, <3>1, TrailKeepsType DEF PurgeHistory, WellFormed
    <3> QED
      BY <1>9, <3>2, ProgressOfOne DEF Progress, PurgeHistory, WellFormed, TypeOK, kyc
  <2>2. pc'[s] = "idle"
    BY <1>9 DEF PurgeHistory, Answer, WellFormed, TypeOK
  <2> QED
    BY <1>2, <1>9, <2>1, <2>2 DEF Progress
<1>10. ASSUME NEW s \in Slot, RetryAfterSave(s)
       PROVE  WellFormed'
  <2> DEFINE r == [req[s] EXCEPT !.dirty = FALSE]
  <2>1. req[s] \in Request /\ r \in Request
    BY <1>10 DEF RetryAfterSave, WellFormed, TypeOK, Request
  <2>2. r.op = req[s].op /\ r.from = req[s].from /\ r.actor = req[s].actor /\ r.text = req[s].text
    BY <2>1 DEF Request
  <2>3. Fits(r, "commit")
    BY <1>10, <2>1, <2>2 DEF RetryAfterSave, WellFormed, Fits, ReadFits, StepFits
  <2>4. /\ req' = [req EXCEPT ![s] = r] /\ pc' = [pc EXCEPT ![s] = "commit"]
        /\ UNCHANGED <<status, owner, content, trail, verified, everVerified>>
    BY <1>10 DEF RetryAfterSave, docs, kyc
  <2> HIDE DEF r
  <2> QED
    BY <2>1, <2>3, <2>4 DEF WellFormed, TypeOK, Fits, ReadFits, StepFits, Step
<1>11. ASSUME NEW s \in Slot, Abort(s)
       PROVE  WellFormed'
  <2>1. TypeOK'
    BY <1>11, ProgressOfOne DEF Abort, WellFormed, TypeOK, docs, kyc
  <2>2. pc'[s] = "idle"
    BY <1>11 DEF Abort, Answer, WellFormed, TypeOK
  <2> QED
    BY <1>2, <1>11, <2>1, <2>2
<1>12. ASSUME VerificationMoves
       PROVE  WellFormed'
  BY <1>12 DEF VerificationMoves, docs, WellFormed, TypeOK, Fits, ReadFits, StepFits
<1>13. ASSUME UNCHANGED vars
       PROVE  WellFormed'
  BY <1>13 DEF vars, WellFormed, TypeOK, Fits, ReadFits, StepFits
<1> QED
  BY <1>1, <1>3, <1>4, <1>5, <1>6, <1>7, <1>8, <1>9, <1>10, <1>11, <1>12, <1>13, <1>14, <1>15,
     StepCases
  DEF Progress, WellFormed

----------------------------------------------------------------------------
(* InPlace.                                                                *)

\* A step of a request that is being served touches its listing only, and
\* leaves a document that is there with its owner, a deleted one deleted, and a
\* history whole, to which it may have added its row.
LEMMA OneListing ==
    ASSUME WellFormed, InPlace, NEW s \in Slot, Progress(s)
    PROVE  /\ req[s] \in Request
           /\ \A l \in Listing \ {req[s].listing} :
                  /\ status'[l] = status[l] /\ owner'[l] = owner[l]
                  /\ content'[l] = content[l] /\ trail'[l] = trail[l]
           /\ \A l \in Listing :
                  /\ status[l] # "unborn" => status'[l] # "unborn" /\ owner'[l] = owner[l]
                  /\ status[l] = "deleted" => status'[l] = "deleted"
                  /\ status[l] # "deleted" =>
                         \/ trail'[l] = trail[l]
                         \/ /\ pc[s] \in {"commit", "append"} /\ l = req[s].listing
                            /\ trail'[l] = Append(trail[l], HistoryRow(req[s]))
<1>1. req[s] \in Request
  BY ProgressOfOne DEF WellFormed, TypeOK, InFlight
<1>2. CASE SellerVerifiedGate(s)
  BY <1>1, <1>2 DEF SellerVerifiedGate, docs
<1>3. CASE InsertDraft(s)
  <2>1. status[req[s].listing] = "unborn"
    BY <1>3 DEF InsertDraft, WellFormed, Fits, StepFits, InPlace, Placed, InFlight
  <2> QED
    BY <1>1, <1>3, <2>1 DEF InsertDraft, WellFormed, TypeOK
<1>4. CASE SaveUpdate(s)
  BY <1>1, <1>4 DEF SaveUpdate, WellFormed, TypeOK
<1>5. CASE CommitTransition(s)
  <2>1. Target[req[s].op] # "unborn"
    BY <1>5, TargetOf
    DEF CommitTransition, WellFormed, Fits, StepFits, InFlight, PublicationStatus
  <2> QED
    BY <1>1, <1>5, <2>1 DEF CommitTransition, WellFormed, TypeOK, Exists, PublicationStatus
<1>6. CASE SaveUnmodified(s) \/ CountHistory(s)
  BY <1>1, <1>6 DEF SaveUnmodified, CountHistory, docs
<1>9. CASE AppendRow(s)
  BY <1>1, <1>9 DEF AppendRow, WellFormed, TypeOK
<1>7. CASE EraseDraft(s)
  BY <1>1, <1>7 DEF EraseDraft, WellFormed, TypeOK
<1>8. CASE PurgeHistory(s)
  <2>1. status[req[s].listing] = "deleted"
    BY <1>8 DEF PurgeHistory, InPlace, Placed, InFlight
  <2> QED
    BY <1>1, <1>8, <2>1 DEF PurgeHistory, WellFormed, TypeOK
<1> QED
  BY <1>2, <1>3, <1>4, <1>5, <1>6, <1>7, <1>8, <1>9 DEF Progress

LEMMA InPlaceInit == Init => InPlace
BY DEF Init, InPlace, InFlight

LEMMA InPlaceStep ==
    ASSUME WellFormed, InPlace, WellFormed', [Next]_vars
    PROVE  InPlace'
<1> SUFFICES ASSUME NEW t \in Slot, InFlight(t)'
             PROVE  Placed(t)'
  BY DEF InPlace
<1>1. ASSUME NEW s \in Slot, Arrives(s)
      PROVE  Placed(t)'
  <2>1. PICK r \in Request, step \in Step :
            /\ Serve(s, r, step) /\ Fits(r, step)
            /\ step \notin {"idle", "append", "insert", "erase", "purge"}
            /\ r.from = status[r.listing]
            /\ r.op = "create" =>
                   \A other \in Slot : InFlight(other) => req[other].listing # r.listing
            /\ r.op \in OwnerOperation \ {"create"} => r.actor = owner[r.listing]
    BY <1>1 DEF Arrives
  <2>2. pc'[s] = step /\ req'[s] = r /\ UNCHANGED <<status, owner>>
    BY <2>1 DEF Serve, WellFormed, TypeOK, docs
  <2>3. \A other \in Slot \ {s} : pc'[other] = pc[other] /\ req'[other] = req[other]
    BY <2>1 DEF Serve, WellFormed, TypeOK
  <2>4. CASE t = s
    <3>1. r.op = "create" <=> status[r.listing] = "unborn"
      BY <2>1, Operations DEF Fits, ReadFits, Request, Resubmittable, Withdrawable
    <3>2. r.op = "create" =>
              \A other \in Slot \ {s} : InFlight(other)' => req'[other].listing # r.listing
      BY <2>1, <2>3 DEF InFlight
    <3> QED
      BY <2>1, <2>2, <2>4, <3>1, <3>2 DEF Placed
  <2>5. CASE t # s
    <3>1. InFlight(t) /\ Placed(t)
      BY <2>3, <2>5 DEF InFlight, InPlace
    <3>2. req[t].op = "create" => r.listing # req[t].listing
      BY <2>1, <2>5, <3>1, Operations
      DEF Placed, Fits, ReadFits, Request, Resubmittable, Withdrawable
    <3> QED
      BY <2>1, <2>2, <2>3, <2>5, <3>1, <3>2 DEF Placed, InFlight
  <2> QED
    BY <2>4, <2>5
<1>2. ASSUME NEW s \in Slot, Progress(s)
      PROVE  Placed(t)'
  <2>1. /\ \A u \in Slot \ {s} : pc'[u] = pc[u] /\ req'[u] = req[u]
        /\ pc'[s] # "idle" => req'[s] = req[s]
        /\ InFlight(s)
    BY <1>2, ProgressOfOne DEF WellFormed
  <2>2. /\ InFlight(t) /\ Placed(t) /\ Placed(s) /\ req'[t] = req[t]
        /\ req[t] \in Request /\ req[s] \in Request
    BY <2>1 DEF InFlight, InPlace, WellFormed, TypeOK
  <2>3. status'[req[t].listing] = "unborn" <=> status[req[t].listing] = "unborn"
    <3>1. CASE t # s
      BY <1>2, <2>1, <2>2, <3>1, OneListing DEF Placed, Request
    <3>2. CASE t = s
      <4>1. pc'[s] # "idle"
        BY <3>2 DEF InFlight
      <4>2. CASE EraseDraft(s)
        <5>1. status[req[s].listing] = "draft" => status' = [status EXCEPT ![req[s].listing] = "deleted"]
          BY <4>2 DEF EraseDraft
        <5>2. status[req[s].listing] # "draft" => status' = status
          BY <4>2 DEF EraseDraft
        <5> QED
          BY <2>2, <3>2, <5>1, <5>2 DEF WellFormed, TypeOK, Request
      <4>3. CASE ~EraseDraft(s)
        <5>1. pc'[s] = "idle" \/ status' = status
          BY <1>2, <4>3
          DEF Progress, SellerVerifiedGate, InsertDraft, SaveUpdate, CommitTransition,
              SaveUnmodified, AppendRow, CountHistory, PurgeHistory, Answer, docs,
              WellFormed, TypeOK
        <5> QED
          BY <3>2, <4>1, <5>1
      <4> QED
        BY <4>2, <4>3
    <3> QED
      BY <3>1, <3>2
  <2>4. req[t].op = "create" =>
            \A other \in Slot \ {t} : InFlight(other)' => req'[other].listing # req[t].listing
    BY <2>1, <2>2 DEF Placed, InFlight
  <2>5. req[t].op # "create" => owner'[req[t].listing] = owner[req[t].listing]
    BY <1>2, <2>2, OneListing DEF Placed, Request
  <2>6. pc'[t] = "purge" => status'[req[t].listing] = "deleted"
    <3>1. CASE pc[t] = "purge"
      BY <1>2, <2>2, <3>1, OneListing DEF Placed, Request
    <3>2. CASE pc[t] # "purge" /\ t = s
      BY <1>2, <2>2, <3>2
      DEF Progress, SellerVerifiedGate, InsertDraft, SaveUpdate, CommitTransition, Answer,
          SaveUnmodified, AppendRow,
          Continue, CountHistory, EraseDraft, PurgeHistory, WellFormed, TypeOK, Request
    <3> QED
      BY <2>1, <3>1, <3>2
  <2> QED
    BY <2>2, <2>3, <2>4, <2>5, <2>6 DEF Placed, OwnerOperation
<1>3. ASSUME NEW s \in Slot, RetryAfterSave(s)
      PROVE  Placed(t)'
  <2>1. /\ UNCHANGED <<status, owner>>
        /\ \A u \in Slot : InFlight(u)' => InFlight(u) /\ (pc'[u] = "purge" => pc[u] = "purge")
        /\ \A u \in Slot : InFlight(u) =>
               /\ req'[u].op = req[u].op
               /\ req'[u].actor = req[u].actor
               /\ req'[u].listing = req[u].listing
    BY <1>3 DEF RetryAfterSave, docs, WellFormed, TypeOK, Request, InFlight
  <2> QED
    BY <2>1 DEF InPlace, Placed, InFlight
<1>4. ASSUME NEW s \in Slot, Abort(s)
      PROVE  Placed(t)'
  <2>1. /\ \A u \in Slot \ {s} : pc'[u] = pc[u] /\ req'[u] = req[u]
        /\ pc'[s] = "idle"
        /\ UNCHANGED <<status, owner>>
    BY <1>4, ProgressOfOne DEF Abort, Answer, docs, WellFormed, TypeOK
  <2> QED
    BY <2>1 DEF InPlace, Placed, InFlight
<1>5. ASSUME VerificationMoves
      PROVE  Placed(t)'
  BY <1>5 DEF VerificationMoves, docs, InPlace, Placed, InFlight
<1>6. ASSUME UNCHANGED vars
      PROVE  Placed(t)'
  BY <1>6 DEF vars, InPlace, Placed, InFlight
<1> QED
  BY <1>1, <1>2, <1>3, <1>4, <1>5, <1>6, StepCases DEF WellFormed

----------------------------------------------------------------------------
(* Dated.                                                                  *)

LEMMA AppendedRow ==
    ASSUME NEW rows \in Seq(Row), NEW row \in Row
    PROVE  /\ DOMAIN rows = 1 .. Len(rows) /\ Len(rows) \in Nat
           /\ DOMAIN Append(rows, row) = 1 .. Len(rows) + 1
           /\ Len(Append(rows, row)) = Len(rows) + 1
           /\ \A i \in 1 .. Len(rows) : Append(rows, row)[i] = rows[i]
           /\ Append(rows, row)[Len(rows) + 1] = row
OBVIOUS

\* The document of a listing keeps its status and its history, or a transition
\* was committed on it.
Unmoved(l) == status'[l] = status[l] /\ trail'[l] = trail[l]

MovedBy(s, l) ==
    /\ pc[s] = IF req[s].dirty THEN "commit" ELSE "append"
    /\ req[s].listing = l
    /\ trail'[l] = Append(trail[l], HistoryRow(req[s]))
    /\ status'[l] = IF req[s].dirty THEN Target[req[s].op] ELSE status[l]

LEMMA LiveStep ==
    ASSUME WellFormed, InPlace, NEW s \in Slot, Progress(s),
           NEW l \in Listing, status[l] # "unborn", status'[l] \in PublicationStatus
    PROVE  Exists(l) /\ (Unmoved(l) \/ MovedBy(s, l))
<1>1. Exists(l)
  BY OneListing DEF Exists, WellFormed, TypeOK, Status, PublicationStatus
<1>2. CASE l # req[s].listing
  BY <1>1, <1>2, OneListing DEF Unmoved
<1>3. CASE l = req[s].listing
  <2>1. CASE SellerVerifiedGate(s)
    BY <1>1, <2>1 DEF SellerVerifiedGate, docs, Unmoved
  <2>2. CASE InsertDraft(s)
    BY <1>3, <2>2
    DEF InsertDraft, WellFormed, Fits, StepFits, InPlace, Placed, InFlight
  <2>3. CASE SaveUpdate(s)
    BY <1>1, <2>3 DEF SaveUpdate, Unmoved
  <2>4. CASE CommitTransition(s)
    BY <1>1, <1>3, <2>4 DEF CommitTransition, MovedBy, WellFormed, TypeOK
  <2>5. CASE SaveUnmodified(s) \/ CountHistory(s)
    BY <1>1, <2>5 DEF SaveUnmodified, CountHistory, docs, Unmoved
  <2>8. CASE AppendRow(s)
    <3>1. ~req[s].dirty
      BY <2>8 DEF AppendRow, WellFormed, InFlight, Fits, StepFits
    <3> QED
      BY <1>1, <1>3, <2>8, <3>1 DEF AppendRow, MovedBy, WellFormed, TypeOK
  <2>6. CASE EraseDraft(s)
    BY <1>1, <1>3, <2>6
    DEF EraseDraft, Unmoved, WellFormed, TypeOK, Exists, PublicationStatus
  <2>7. CASE PurgeHistory(s)
    BY <1>1, <1>3, <2>7
    DEF PurgeHistory, InPlace, Placed, InFlight, Exists, PublicationStatus
  <2> QED
    BY <2>1, <2>2, <2>3, <2>4, <2>5, <2>6, <2>7, <2>8 DEF Progress
<1> QED
  BY <1>2, <1>3

LEMMA DatedInit == Init => Dated
BY DEF Init, Dated, Pending, InFlight

LEMMA DatedStep ==
    ASSUME WellFormed, InPlace, Dated, WellFormed', [Next]_vars
    PROVE  Dated'
<1> SUFFICES ASSUME NEW t \in Slot, Pending(t)'
             PROVE  DatedRead(t)'
  BY DEF Dated
<1>1. ASSUME NEW s \in Slot, Arrives(s)
      PROVE  DatedRead(t)'
  <2>1. PICK r \in Request, step \in Step :
            /\ Serve(s, r, step)
            /\ r.from = status[r.listing]
            /\ r.op # "create" => r.seen = Len(trail[r.listing])
    BY <1>1 DEF Arrives
  <2>2. /\ req'[s] = r /\ UNCHANGED <<status, trail>>
        /\ \A other \in Slot \ {s} : pc'[other] = pc[other] /\ req'[other] = req[other]
    BY <2>1 DEF Serve, WellFormed, TypeOK, docs
  <2>3. CASE t = s
    <3>1. trail[r.listing] \in Seq(Row)
      BY DEF WellFormed, TypeOK, Request
    <3> QED
      BY <2>1, <2>2, <2>3, <3>1 DEF DatedRead, Pending
  <2>4. CASE t # s
    BY <2>2, <2>4 DEF Dated, DatedRead, Pending, InFlight, Exists, MovedSince
  <2> QED
    BY <2>3, <2>4
<1>2. ASSUME NEW s \in Slot, Progress(s)
      PROVE  DatedRead(t)'
  <2>1. InFlight(t) /\ req'[t] = req[t]
    BY <1>2, ProgressOfOne DEF WellFormed, Pending, InFlight
  <2> DEFINE l == req[t].listing
  <2>2. l \in Listing /\ req[t] \in Request
    BY <2>1 DEF WellFormed, TypeOK, Request, InFlight
  <2>3. status[l] # "unborn" /\ status'[l] \in PublicationStatus
    BY <2>1 DEF Pending, InPlace, Placed, Exists
  <2>4. Exists(l) /\ (Unmoved(l) \/ MovedBy(s, l))
    BY <1>2, <2>2, <2>3, LiveStep
  <2>5. DatedRead(t)
    BY <2>1, <2>4 DEF Pending, Dated
  <2>6. CASE Unmoved(l)
    BY <2>1, <2>5, <2>6 DEF DatedRead, Unmoved, MovedSince
  <2>7. CASE MovedBy(s, l)
    <3> DEFINE row == HistoryRow(req[s])
    <3>1. row \in Row /\ row.to = Target[req[s].op]
      BY <2>7, RowOfCommit DEF MovedBy
    <3>2. trail[l] \in Seq(Row)
      BY <2>2 DEF WellFormed, TypeOK
    <3>3. trail'[l] = Append(trail[l], row)
      BY <2>7 DEF MovedBy
    <3> HIDE DEF row
    <3>4. /\ DOMAIN trail[l] = 1 .. Len(trail[l]) /\ Len(trail[l]) \in Nat
          /\ DOMAIN trail'[l] = 1 .. Len(trail[l]) + 1
          /\ Len(trail'[l]) = Len(trail[l]) + 1
          /\ \A i \in 1 .. Len(trail[l]) : trail'[l][i] = trail[l][i]
          /\ trail'[l][Len(trail[l]) + 1] = row
      BY <3>1, <3>2, <3>3, AppendedRow
    <3>5. req[t].seen \in Nat /\ req[t].seen <= Len(trail[l])
      BY <2>2, <2>5 DEF Request, DatedRead
    <3>6. CASE req[s].dirty
      <4>1. status'[l] = row.to
        BY <2>7, <3>1, <3>6 DEF MovedBy
      <4>2. Len(trail[l]) + 1 > req[t].seen /\ Len(trail[l]) + 1 \in DOMAIN trail'[l]
        BY <3>4, <3>5
      <4>3. MovedSince(t, status[l])'
        BY <2>1, <3>4, <4>1, <4>2 DEF MovedSince
      <4> QED
        BY <2>1, <3>4, <3>5, <4>3 DEF DatedRead
    <3>7. CASE ~req[s].dirty
      <4>1. status'[l] = status[l]
        BY <2>7, <3>7 DEF MovedBy
      <4>2. MovedSince(t, status[l]) => MovedSince(t, status[l])'
        BY <2>1, <3>4, <4>1 DEF MovedSince
      <4> QED
        BY <2>1, <2>5, <3>4, <3>5, <4>1, <4>2 DEF DatedRead
    <3> QED
      BY <3>6, <3>7
  <2> QED
    BY <2>4, <2>6, <2>7
<1>3. ASSUME NEW s \in Slot, RetryAfterSave(s)
      PROVE  DatedRead(t)'
  <2>1. /\ UNCHANGED <<status, trail>>
        /\ \A u \in Slot : InFlight(u)' => InFlight(u)
        /\ \A u \in Slot : InFlight(u) =>
               /\ req'[u].op = req[u].op
               /\ req'[u].from = req[u].from
               /\ req'[u].seen = req[u].seen
               /\ req'[u].listing = req[u].listing
    BY <1>3 DEF RetryAfterSave, docs, WellFormed, TypeOK, Request, InFlight
  <2>2. Pending(t)
    BY <2>1 DEF Pending, InFlight, Exists
  <2> QED
    BY <2>1, <2>2 DEF Dated, DatedRead, Pending, InFlight, MovedSince
<1>4. ASSUME NEW s \in Slot, Abort(s)
      PROVE  DatedRead(t)'
  <2>1. /\ \A u \in Slot \ {s} : pc'[u] = pc[u] /\ req'[u] = req[u]
        /\ pc'[s] = "idle"
        /\ UNCHANGED <<status, trail>>
    BY <1>4, ProgressOfOne DEF Abort, Answer, docs, WellFormed, TypeOK
  <2> QED
    BY <2>1 DEF Dated, DatedRead, Pending, InFlight, Exists, MovedSince
<1>5. ASSUME VerificationMoves
      PROVE  DatedRead(t)'
  BY <1>5 DEF VerificationMoves, docs, Dated, DatedRead, Pending, InFlight, Exists, MovedSince
<1>6. ASSUME UNCHANGED vars
      PROVE  DatedRead(t)'
  BY <1>6 DEF vars, Dated, DatedRead, Pending, InFlight, Exists, MovedSince
<1> QED
  BY <1>1, <1>2, <1>3, <1>4, <1>5, <1>6, StepCases DEF WellFormed

----------------------------------------------------------------------------
(* OwnersWereVerified.                                                     *)

LEMMA OwnersWereVerifiedInit == Init => OwnersWereVerified
BY DEF Init, OwnersWereVerified, Exists, PublicationStatus

LEMMA OwnersWereVerifiedStep ==
    ASSUME WellFormed, InPlace, OwnersWereVerified, WellFormed', [Next]_vars
    PROVE  OwnersWereVerified'
<1>1. ASSUME NEW s \in Slot, Arrives(s)
      PROVE  OwnersWereVerified'
  <2>1. /\ UNCHANGED <<status, owner, verified, everVerified>>
        /\ pc'[s] # "insert"
        /\ \A t \in Slot \ {s} : pc'[t] = pc[t] /\ req'[t] = req[t]
    BY <1>1 DEF Arrives, Serve, docs, kyc, WellFormed, TypeOK
  <2> QED
    BY <2>1 DEF OwnersWereVerified, Exists
<1>2. ASSUME NEW s \in Slot, Progress(s)
      PROVE  OwnersWereVerified'
  <2>1. /\ \A t \in Slot \ {s} : pc'[t] = pc[t] /\ req'[t] = req[t]
        /\ pc'[s] # "idle" => req'[s] = req[s]
    BY <1>2, ProgressOfOne DEF WellFormed
  <2>2. UNCHANGED <<verified, everVerified>>
    BY <1>2 DEF Progress, SellerVerifiedGate, InsertDraft, SaveUpdate, CommitTransition,
                SaveUnmodified, AppendRow, CountHistory, EraseDraft, PurgeHistory, kyc
  <2>3. pc'[s] = "insert" => req'[s].actor \in everVerified
    <3>1. pc'[s] = "insert" => SellerVerifiedGate(s) /\ req[s].actor \in verified
      BY <1>2
      DEF Progress, SellerVerifiedGate, InsertDraft, SaveUpdate, CommitTransition, Answer,
          SaveUnmodified, AppendRow,
          Continue, CountHistory, EraseDraft, PurgeHistory, WellFormed, TypeOK
    <3> QED
      BY <2>1, <3>1 DEF OwnersWereVerified
  <2>4. ASSUME NEW l \in Listing, status'[l] \in PublicationStatus
        PROVE  owner'[l] \in everVerified
    <3>1. CASE status[l] = "unborn"
      <4>1. /\ status' # status
            /\ InsertDraft(s) \/ CommitTransition(s) \/ EraseDraft(s)
        BY <1>2, <2>4, <3>1
        DEF Progress, SellerVerifiedGate, InsertDraft, SaveUpdate, CommitTransition,
            SaveUnmodified, AppendRow, CountHistory, EraseDraft, PurgeHistory, docs,
            PublicationStatus
      <4>2. l = req[s].listing
        BY <1>2, <2>4, <3>1, OneListing DEF PublicationStatus
      <4>3. InsertDraft(s)
        BY <2>4, <3>1, <4>1, <4>2
        DEF CommitTransition, EraseDraft, Exists, PublicationStatus
      <4>4. owner'[l] = req[s].actor /\ pc[s] = "insert"
        BY <4>2, <4>3 DEF InsertDraft, WellFormed, TypeOK
      <4> QED
        BY <4>4 DEF OwnersWereVerified
    <3>2. CASE status[l] # "unborn"
      <4>1. Exists(l) /\ owner'[l] = owner[l]
        BY <1>2, <2>4, <3>2, LiveStep, OneListing
      <4> QED
        BY <4>1 DEF OwnersWereVerified
    <3> QED
      BY <3>1, <3>2
  <2> QED
    BY <2>1, <2>2, <2>3, <2>4 DEF OwnersWereVerified, Exists
<1>3. ASSUME NEW s \in Slot, RetryAfterSave(s)
      PROVE  OwnersWereVerified'
  <2>1. /\ UNCHANGED <<status, owner, verified, everVerified>>
        /\ \A t \in Slot : pc'[t] = "insert" => pc[t] = "insert" /\ req'[t] = req[t]
    BY <1>3 DEF RetryAfterSave, docs, kyc, WellFormed, TypeOK
  <2> QED
    BY <2>1 DEF OwnersWereVerified, Exists
<1>4. ASSUME NEW s \in Slot, Abort(s)
      PROVE  OwnersWereVerified'
  <2>1. /\ \A t \in Slot \ {s} : pc'[t] = pc[t] /\ req'[t] = req[t]
        /\ pc'[s] = "idle"
        /\ UNCHANGED <<status, owner, verified, everVerified>>
    BY <1>4, ProgressOfOne DEF Abort, Answer, docs, kyc, WellFormed, TypeOK
  <2> QED
    BY <2>1 DEF OwnersWereVerified, Exists
<1>5. ASSUME VerificationMoves
      PROVE  OwnersWereVerified'
  BY <1>5 DEF VerificationMoves, docs, OwnersWereVerified, Exists
<1>6. ASSUME UNCHANGED vars
      PROVE  OwnersWereVerified'
  BY <1>6 DEF vars, OwnersWereVerified, Exists
<1> QED
  BY <1>1, <1>2, <1>3, <1>4, <1>5, <1>6, StepCases DEF WellFormed

----------------------------------------------------------------------------
(* Vouched.                                                                *)

\* What a history shows, it goes on showing as rows are added.
LEMMA PastGrows ==
    ASSUME NEW l \in Listing, trail[l] \in Seq(Row), owner'[l] = owner[l],
           trail'[l] = trail[l] \/ \E row \in Row : trail'[l] = Append(trail[l], row),
           NEW st, PastOf(l, st)
    PROVE  PastOf(l, st)'
<1>1. /\ DOMAIN trail[l] \subseteq DOMAIN trail'[l]
      /\ \A i \in DOMAIN trail[l] : trail'[l][i] = trail[l][i]
  <2>1. CASE trail'[l] = trail[l]
    BY <2>1
  <2>2. CASE \E row \in Row : trail'[l] = Append(trail[l], row)
    <3>1. PICK row \in Row : trail'[l] = Append(trail[l], row)
      BY <2>2
    <3>2. DOMAIN trail[l] = 1 .. Len(trail[l]) /\ Len(trail[l]) \in Nat
      BY AppendedRow, <3>1
    <3>3. DOMAIN trail'[l] = 1 .. Len(trail[l]) + 1
      BY AppendedRow, <3>1
    <3>4. \A i \in 1 .. Len(trail[l]) : trail'[l][i] = trail[l][i]
      BY AppendedRow, <3>1
    <3> QED
      BY <3>2, <3>3, <3>4
  <2> QED
    BY <2>1, <2>2
<1> QED
  BY <1>1 DEF PastOf, SubmittedInTrail, ReviewedInTrail

LEMMA VouchedInit == Init => Vouched
BY DEF Init, Vouched, Pending, InFlight, PastOf

LEMMA VouchedStep ==
    ASSUME WellFormed, InPlace, Vouched, WellFormed', [Next]_vars
    PROVE  Vouched'
<1>1. ASSUME UNCHANGED <<status, owner, trail>>,
             \A t \in Slot : Pending(t)' =>
                 /\ Pending(t) \/ req'[t].from = status[req'[t].listing]
                 /\ Pending(t) => req'[t].listing = req[t].listing /\ req'[t].from = req[t].from
      PROVE  Vouched'
  <2>1. \A l \in Listing : PastOf(l, status[l])'
    BY <1>1 DEF Vouched, PastOf, SubmittedInTrail, ReviewedInTrail
  <2>2. ASSUME NEW t \in Slot, Pending(t)'
        PROVE  PastOf(req[t].listing, req[t].from)'
    <3>1. PastOf(req'[t].listing, req'[t].from)
      <4>1. req'[t].listing \in Listing
        BY <2>2 DEF Pending, InFlight, WellFormed, TypeOK, Request
      <4> QED
        BY <1>1, <2>2, <4>1 DEF Vouched
    <3> QED
      BY <1>1, <3>1 DEF PastOf, SubmittedInTrail, ReviewedInTrail
  <2> QED
    BY <2>1, <2>2 DEF Vouched
<1>2. ASSUME NEW s \in Slot, Arrives(s)
      PROVE  Vouched'
  <2>1. /\ UNCHANGED <<status, owner, trail>>
        /\ req'[s].from = status[req'[s].listing]
        /\ pc[s] = "idle"
        /\ \A t \in Slot \ {s} : pc'[t] = pc[t] /\ req'[t] = req[t]
    BY <1>2 DEF Arrives, Serve, docs, WellFormed, TypeOK
  <2> QED
    BY <1>1, <2>1 DEF Pending, InFlight, Exists
<1>3. ASSUME NEW s \in Slot, Progress(s)
      PROVE  Vouched'
  <2>1. \A t \in Slot : InFlight(t)' => InFlight(t) /\ req'[t] = req[t]
    BY <1>3, ProgressOfOne DEF WellFormed, InFlight
  <2>2. ASSUME NEW l \in Listing, status[l] # "unborn", status'[l] \in PublicationStatus,
               NEW st, PastOf(l, st)
        PROVE  PastOf(l, st)'
    <3>1. trail[l] \in Seq(Row) /\ owner'[l] = owner[l]
      BY <1>3, <2>2, OneListing DEF WellFormed, TypeOK
    <3>2. Unmoved(l) \/ MovedBy(s, l)
      BY <1>3, <2>2, LiveStep
    <3>3. trail'[l] = trail[l] \/ \E row \in Row : trail'[l] = Append(trail[l], row)
      BY <3>2, RowOfCommit DEF Unmoved, MovedBy
    <3> QED
      BY <2>2, <3>1, <3>3, PastGrows
  <2>3. ASSUME NEW l \in Listing
        PROVE  PastOf(l, status[l])'
    <3>1. CASE status'[l] \notin {"pending_review", "approved", "removed"}
      BY <3>1 DEF PastOf
    <3>2. CASE /\ status'[l] \in {"pending_review", "approved", "removed"}
               /\ status[l] = "unborn"
      <4>1. InsertDraft(s) \/ CommitTransition(s) \/ EraseDraft(s)
        BY <1>3, <3>2
        DEF Progress, SellerVerifiedGate, InsertDraft, SaveUpdate, CommitTransition,
            SaveUnmodified, AppendRow, CountHistory, EraseDraft, PurgeHistory, docs
      <4>2. l = req[s].listing
        BY <1>3, <3>2, OneListing
      <4> QED
        BY <3>2, <4>1, <4>2
        DEF InsertDraft, CommitTransition, EraseDraft, Exists, PublicationStatus,
            WellFormed, TypeOK
    <3>3. CASE /\ status'[l] \in {"pending_review", "approved", "removed"}
               /\ status[l] # "unborn"
      <4>1. status'[l] \in PublicationStatus
        BY <3>3 DEF PublicationStatus
      <4>2. Exists(l) /\ (Unmoved(l) \/ MovedBy(s, l))
        BY <1>3, <3>3, <4>1, LiveStep
      <4>3. CASE status'[l] = status[l]
        BY <2>2, <3>3, <4>1, <4>3 DEF Vouched
      <4>4. CASE status'[l] # status[l]
        <5> DEFINE row == HistoryRow(req[s])
        <5>1. /\ MovedBy(s, l) /\ pc[s] = "commit" /\ req[s].listing = l
              /\ status'[l] = Target[req[s].op]
              /\ trail'[l] = Append(trail[l], row)
          BY <4>2, <4>4 DEF Unmoved, MovedBy
        <5>2. /\ row \in Row /\ row.to = Target[req[s].op] /\ row.by = req[s].actor
              /\ req[s].op \in Transition
          BY <5>1, RowOfCommit
        <5>3. trail[l] \in Seq(Row) /\ owner'[l] = owner[l]
          BY <1>3, <3>3, OneListing DEF WellFormed, TypeOK
        <5> HIDE DEF row
        <5>4. /\ DOMAIN trail[l] = 1 .. Len(trail[l]) /\ Len(trail[l]) \in Nat
              /\ DOMAIN trail'[l] = 1 .. Len(trail[l]) + 1
              /\ \A i \in 1 .. Len(trail[l]) : trail'[l][i] = trail[l][i]
              /\ trail'[l][Len(trail[l]) + 1] = row
          BY <5>1, <5>2, <5>3, AppendedRow
        <5>5. Pending(s) /\ Placed(s) /\ Fits(req[s], pc[s]) /\ PastOf(l, req[s].from)
          <6>1. InFlight(s) /\ req[s].op # "create"
            BY <5>1, <5>2, Transitions DEF InFlight
          <6> QED
            BY <4>2, <5>1, <6>1 DEF Pending, Vouched, InPlace, WellFormed
        <5>6. CASE req[s].op = "submit"
          <6>1. row.to = "pending_review" /\ row.by = owner'[l]
            BY <5>1, <5>2, <5>3, <5>5, <5>6, TargetOf DEF Placed, OwnerOperation
          <6>2. SubmittedInTrail(l)'
            BY <5>4, <6>1 DEF SubmittedInTrail
          <6> QED
            BY <5>1, <5>2, <5>6, <6>2, TargetOf DEF PastOf
        <5>7. CASE req[s].op = "approve"
          <6>1. row.to = "approved" /\ row.by \in Staff
            BY <5>2, <5>5, <5>7, TargetOf DEF Fits, OwnerOperation
          <6>2. PICK i \in 1 .. Len(trail[l]) :
                    trail[l][i].to = "pending_review" /\ trail[l][i].by = owner[l]
            BY <5>4, <5>5, <5>7 DEF Fits, ReadFits, PastOf, SubmittedInTrail
          <6>3. ReviewedInTrail(l)'
            BY <5>3, <5>4, <6>1, <6>2 DEF ReviewedInTrail
          <6> QED
            BY <5>1, <5>2, <5>7, <6>3, TargetOf DEF PastOf
        <5>8. CASE req[s].op \in {"takedown", "reinstate"}
          <6>1. PastOf(l, "approved")
            BY <5>5, <5>8 DEF Fits, ReadFits, PastOf
          <6>2. PastOf(l, "approved")'
            BY <2>2, <3>3, <4>1, <6>1
          <6> QED
            BY <5>1, <5>2, <5>8, <6>2, TargetOf DEF PastOf
        <5> QED
          BY <3>3, <5>1, <5>2, <5>6, <5>7, <5>8, Transitions, TargetOf
      <4> QED
        BY <4>3, <4>4
    <3> QED
      BY <3>1, <3>2, <3>3
  <2>4. ASSUME NEW t \in Slot, Pending(t)'
        PROVE  PastOf(req[t].listing, req[t].from)'
    <3>1. InFlight(t) /\ req'[t] = req[t] /\ req[t].op # "create" /\ req[t].listing \in Listing
      BY <2>1, <2>4 DEF Pending, InFlight, WellFormed, TypeOK, Request
    <3>2. status[req[t].listing] # "unborn" /\ status'[req[t].listing] \in PublicationStatus
      BY <2>4, <3>1 DEF Pending, InPlace, Placed, Exists
    <3>3. PastOf(req[t].listing, req[t].from)
      BY <1>3, <3>1, <3>2, LiveStep DEF Pending, Vouched
    <3> DEFINE l == req[t].listing
               st == req[t].from
    <3>4. l \in Listing /\ PastOf(l, st) /\ req'[t].listing = l /\ req'[t].from = st
      BY <3>1, <3>3
    <3>5. status[l] # "unborn" /\ status'[l] \in PublicationStatus
      BY <3>2
    <3> HIDE DEF l, st
    <3>6. \A m \in Listing, x \in {st} :
              m = l => (PastOf(m, x) => PastOf(m, x)')
      BY <2>2, <3>5
    <3> QED
      BY <3>4, <3>6 DEF PastOf, SubmittedInTrail, ReviewedInTrail
  <2> QED
    BY <2>3, <2>4 DEF Vouched
<1>4. ASSUME NEW s \in Slot, RetryAfterSave(s)
      PROVE  Vouched'
  <2>1. /\ UNCHANGED <<status, owner, trail>>
        /\ \A t \in Slot : InFlight(t)' => InFlight(t)
        /\ \A t \in Slot : InFlight(t) =>
               /\ req'[t].op = req[t].op
               /\ req'[t].from = req[t].from
               /\ req'[t].listing = req[t].listing
    BY <1>4 DEF RetryAfterSave, docs, WellFormed, TypeOK, Request, InFlight
  <2> QED
    BY <1>1, <2>1 DEF Pending, InFlight, Exists
<1>5. ASSUME NEW s \in Slot, Abort(s)
      PROVE  Vouched'
  <2>1. /\ \A t \in Slot \ {s} : pc'[t] = pc[t] /\ req'[t] = req[t]
        /\ pc'[s] = "idle"
        /\ UNCHANGED <<status, owner, trail>>
    BY <1>5, ProgressOfOne DEF Abort, Answer, docs, WellFormed, TypeOK
  <2> QED
    BY <1>1, <2>1 DEF Pending, InFlight, Exists
<1>6. ASSUME VerificationMoves
      PROVE  Vouched'
  BY <1>1, <1>6 DEF VerificationMoves, docs, Pending, InFlight, Exists
<1>7. ASSUME UNCHANGED vars
      PROVE  Vouched'
  BY <1>1, <1>7 DEF vars, Pending, InFlight, Exists
<1> QED
  BY <1>2, <1>3, <1>4, <1>5, <1>6, <1>7, StepCases DEF WellFormed

----------------------------------------------------------------------------
(* Located.                                                                *)

LEMMA LocatedInit == Init => Located
BY DEF Init, Located, CompleteOnceSubmitted, InFlight

LEMMA LocatedStep ==
    ASSUME WellFormed, InPlace, Located, WellFormed', [Next]_vars
    PROVE  Located'
<1> USE DEF InReview
<1>1. ASSUME UNCHANGED <<status, content>>,
             \A t \in Slot : InFlight(t)' =>
                 \/ req'[t].op = "submit" \/ req'[t].from \in InReview
                        => content[req'[t].listing] # Bare
                 \/ /\ InFlight(t) /\ req'[t].listing = req[t].listing
                    /\ req'[t].from = req[t].from /\ req'[t].op = req[t].op
      PROVE  Located'
  BY <1>1 DEF Located, CompleteOnceSubmitted
<1>2. ASSUME NEW s \in Slot, Arrives(s)
      PROVE  Located'
  <2>1. PICK r \in Request, step \in Step :
            /\ Serve(s, r, step)
            /\ r.from = status[r.listing]
            /\ r.op = "submit" => content[r.listing] # Bare
    BY <1>2 DEF Arrives
  <2>2. /\ UNCHANGED <<status, content>>
        /\ req'[s] = r
        /\ \A t \in Slot \ {s} : pc'[t] = pc[t] /\ req'[t] = req[t]
    BY <2>1 DEF Serve, docs, WellFormed, TypeOK
  <2>3. r.from \in InReview => content[r.listing] # Bare
    BY <2>1 DEF Located, CompleteOnceSubmitted, Request
  <2> QED
    BY <1>1, <2>1, <2>2, <2>3 DEF InFlight
<1>3. ASSUME NEW s \in Slot, Progress(s)
      PROVE  Located'
  <2>1. \A t \in Slot : InFlight(t)' => InFlight(t) /\ req'[t] = req[t]
    BY <1>3, ProgressOfOne DEF WellFormed, InFlight
  <2>2. InFlight(s) /\ Placed(s) /\ Fits(req[s], pc[s]) /\ req[s] \in Request
    BY <1>3, ProgressOfOne DEF WellFormed, TypeOK, InPlace, InFlight
  <2>3. ASSUME NEW l \in Listing, status[l] # "unborn", content[l] # Bare
        PROVE  content'[l] # Bare
    <3>1. CASE SaveUpdate(s)
      <4>1. req[s].text # Bare
        BY <2>2, <3>1 DEF SaveUpdate, Fits, StepFits
      <4> QED
        BY <2>3, <3>1, <4>1 DEF SaveUpdate, WellFormed, TypeOK
    <3>2. CASE InsertDraft(s)
      <4>1. req[s].listing # l
        BY <2>2, <2>3, <3>2 DEF InsertDraft, Fits, StepFits, Placed
      <4> QED
        BY <2>3, <3>2, <4>1 DEF InsertDraft, WellFormed, TypeOK
    <3>3. CASE ~SaveUpdate(s) /\ ~InsertDraft(s)
      BY <1>3, <2>3, <3>3
      DEF Progress, SellerVerifiedGate, CommitTransition, SaveUnmodified, AppendRow,
          CountHistory, EraseDraft, PurgeHistory, docs
    <3> QED
      BY <3>1, <3>2, <3>3
  <2>4. ASSUME NEW l \in Listing, status'[l] \in InReview
        PROVE  content'[l] # Bare
    <3>1. CASE status[l] = "unborn"
      <4>1. InsertDraft(s) \/ CommitTransition(s) \/ EraseDraft(s)
        BY <1>3, <2>4, <3>1
        DEF Progress, SellerVerifiedGate, InsertDraft, SaveUpdate, CommitTransition,
            SaveUnmodified, AppendRow, CountHistory, EraseDraft, PurgeHistory, docs
      <4>2. l = req[s].listing
        BY <1>3, <2>4, <3>1, OneListing
      <4> QED
        BY <2>4, <3>1, <4>1, <4>2
        DEF InsertDraft, CommitTransition, EraseDraft, Exists, PublicationStatus,
            WellFormed, TypeOK
    <3>2. CASE status[l] # "unborn"
      <4>1. Unmoved(l) \/ MovedBy(s, l)
        BY <1>3, <2>4, <3>2, LiveStep DEF PublicationStatus
      <4>2. CASE status'[l] = status[l]
        BY <2>3, <2>4, <3>2, <4>2 DEF Located, CompleteOnceSubmitted
      <4>3. CASE status'[l] # status[l]
        <5>1. /\ pc[s] = "commit" /\ req[s].listing = l
              /\ status'[l] = Target[req[s].op]
          BY <4>1, <4>3 DEF Unmoved, MovedBy
        <5>2. req[s].op \in {"submit", "approve", "reinstate", "takedown"}
          BY <2>4, <5>1, RowOfCommit, TargetOf
        <5>3. req[s].op = "submit" \/ req[s].from \in InReview
          BY <2>2, <5>2 DEF Fits, ReadFits
        <5>4. content[l] # Bare
          BY <2>2, <5>1, <5>3 DEF Located
        <5> QED
          BY <2>3, <3>2, <5>4
      <4> QED
        BY <4>2, <4>3
    <3> QED
      BY <3>1, <3>2
  <2>5. ASSUME NEW t \in Slot, InFlight(t)',
               req'[t].op = "submit" \/ req'[t].from \in InReview
        PROVE  content'[req'[t].listing] # Bare
    <3>1. /\ InFlight(t) /\ req'[t] = req[t] /\ req[t] \in Request
          /\ Fits(req[t], pc[t]) /\ Placed(t)
      BY <2>1, <2>5 DEF WellFormed, TypeOK, InPlace, InFlight
    <3>2. req[t].op # "create"
      BY <2>5, <3>1 DEF Fits, ReadFits
    <3> QED
      BY <2>3, <2>5, <3>1, <3>2 DEF Located, Placed, Request
  <2> QED
    BY <2>4, <2>5 DEF Located, CompleteOnceSubmitted
<1>4. ASSUME NEW s \in Slot, RetryAfterSave(s)
      PROVE  Located'
  <2>1. /\ UNCHANGED <<status, content>>
        /\ \A t \in Slot : InFlight(t)' => InFlight(t)
        /\ \A t \in Slot : InFlight(t) =>
               /\ req'[t].op = req[t].op
               /\ req'[t].from = req[t].from
               /\ req'[t].listing = req[t].listing
    BY <1>4 DEF RetryAfterSave, docs, WellFormed, TypeOK, Request, InFlight
  <2> QED
    BY <1>1, <2>1 DEF InFlight
<1>5. ASSUME NEW s \in Slot, Abort(s)
      PROVE  Located'
  <2>1. /\ \A t \in Slot \ {s} : pc'[t] = pc[t] /\ req'[t] = req[t]
        /\ pc'[s] = "idle"
        /\ UNCHANGED <<status, content>>
    BY <1>5, ProgressOfOne DEF Abort, Answer, docs, WellFormed, TypeOK
  <2> QED
    BY <1>1, <2>1 DEF InFlight
<1>6. ASSUME VerificationMoves
      PROVE  Located'
  BY <1>1, <1>6 DEF VerificationMoves, docs, InFlight
<1>7. ASSUME UNCHANGED vars
      PROVE  Located'
  BY <1>1, <1>7 DEF vars, InFlight
<1> QED
  BY <1>2, <1>3, <1>4, <1>5, <1>6, <1>7, StepCases DEF WellFormed

----------------------------------------------------------------------------
(* Counted.                                                                *)

LEMMA CountedInit == Init => Counted
BY DEF Init, Counted

LEMMA CountedStep ==
    ASSUME WellFormed, InPlace, Dated, Counted, WellFormed', [Next]_vars
    PROVE  Counted'
<1> DEFINE Deleting(t) == \/ pc[t] = "erase" /\ Exists(req[t].listing)
                          \/ pc[t] = "purge"
<1> SUFFICES ASSUME NEW t \in Slot, Deleting(t)'
             PROVE  req'[t].seen = 0
  BY DEF Counted
<1>1. ASSUME NEW s \in Slot, Arrives(s)
      PROVE  req'[t].seen = 0
  <2>1. /\ pc'[s] \notin {"erase", "purge"} /\ UNCHANGED status
        /\ \A u \in Slot \ {s} : pc'[u] = pc[u] /\ req'[u] = req[u]
    BY <1>1 DEF Arrives, Serve, docs, WellFormed, TypeOK
  <2> QED
    BY <2>1 DEF Counted, Exists
<1>2. ASSUME NEW s \in Slot, Progress(s)
      PROVE  req'[t].seen = 0
  <2>1. /\ InFlight(t) /\ req'[t] = req[t] /\ req[t] \in Request
        /\ t # s => pc'[t] = pc[t]
    BY <1>2, ProgressOfOne DEF WellFormed, TypeOK, InFlight
  <2>2. CASE pc'[t] = pc[t]
    <3>1. pc[t] = "erase" => status[req[t].listing] # "unborn"
      BY <2>1 DEF InPlace, Placed, WellFormed, Fits, StepFits
    <3>2. pc[t] = "erase" => Exists(req[t].listing)
      BY <1>2, <2>1, <2>2, <3>1, LiveStep DEF Exists, Request
    <3> QED
      BY <2>1, <2>2, <3>2 DEF Counted
  <2>3. CASE pc'[t] # pc[t]
    <3>1. t = s /\ (CountHistory(s) \/ EraseDraft(s))
      BY <1>2, <2>1, <2>3
      DEF Progress, SellerVerifiedGate, InsertDraft, SaveUpdate, CommitTransition, Answer,
          SaveUnmodified, AppendRow, Continue, CountHistory, EraseDraft, PurgeHistory,
          WellFormed, TypeOK
    <3>2. CASE CountHistory(s)
      <4>1. trail[req[t].listing] = << >> /\ pc'[t] = "erase" /\ UNCHANGED status
        BY <2>1, <3>1, <3>2
        DEF CountHistory, Continue, Answer, docs, WellFormed, TypeOK
      <4>2. Pending(t)
        BY <2>1, <3>1, <3>2, <4>1
        DEF Pending, CountHistory, Exists, WellFormed, Fits, StepFits
      <4>3. req[t].seen \in Nat /\ req[t].seen <= 0
        BY <2>1, <4>1, <4>2 DEF Dated, DatedRead, Request
      <4> QED
        BY <2>1, <4>3
    <3>3. CASE EraseDraft(s)
      <4>1. pc[t] = "erase" /\ Exists(req[t].listing)
        BY <2>1, <3>1, <3>3
        DEF EraseDraft, Continue, Answer, Exists, PublicationStatus, WellFormed, TypeOK
      <4> QED
        BY <2>1, <4>1 DEF Counted
    <3> QED
      BY <3>1, <3>2, <3>3
  <2> QED
    BY <2>2, <2>3
<1>3. ASSUME NEW s \in Slot, RetryAfterSave(s)
      PROVE  req'[t].seen = 0
  <2>1. /\ UNCHANGED status
        /\ t # s /\ pc'[t] = pc[t] /\ req'[t] = req[t]
    BY <1>3 DEF RetryAfterSave, docs, WellFormed, TypeOK
  <2> QED
    BY <2>1 DEF Counted, Exists
<1>4. ASSUME NEW s \in Slot, Abort(s)
      PROVE  req'[t].seen = 0
  <2>1. /\ \A u \in Slot \ {s} : pc'[u] = pc[u] /\ req'[u] = req[u]
        /\ pc'[s] = "idle" /\ UNCHANGED status
    BY <1>4, ProgressOfOne DEF Abort, Answer, docs, WellFormed, TypeOK
  <2> QED
    BY <2>1 DEF Counted, Exists
<1>5. CASE VerificationMoves \/ UNCHANGED vars
  BY <1>5 DEF VerificationMoves, docs, vars, Counted, Exists
<1> QED
  BY <1>1, <1>2, <1>3, <1>4, <1>5, StepCases DEF WellFormed

----------------------------------------------------------------------------
(* The theorems.                                                           *)

\* The layers hold together, in every state of every behaviour.
THEOREM Invariance == Spec => []IInv
<1>1. Init => IInv
  BY WellFormedInit, InPlaceInit, DatedInit, OwnersWereVerifiedInit, VouchedInit, LocatedInit,
     CountedInit
  DEF IInv
<1>2. IInv /\ [Next]_vars => IInv'
  <2> SUFFICES ASSUME IInv, [Next]_vars
               PROVE  IInv'
    OBVIOUS
  <2>1. WellFormed'
    BY WellFormedStep DEF IInv
  <2> QED
    BY <2>1, InPlaceStep, DatedStep, OwnersWereVerifiedStep, VouchedStep, LocatedStep,
       CountedStep
    DEF IInv
<1> QED
  BY <1>1, <1>2, PTL DEF Spec

\* The document, its history and the requests in flight keep their types.
THEOREM TypeCorrect == Spec => []TypeOK
<1>1. IInv => TypeOK
  BY DEF IInv, WellFormed
<1> QED
  BY <1>1, Invariance, PTL

\* Whatever requests overlap, nothing is public that its owner did not submit and
\* staff did not then approve, or whose owner was never verified.
THEOREM CatalogIsReviewed == Spec => []PublicOnlyAfterReview
<1>1. IInv => PublicOnlyAfterReview
  BY DEF IInv, OwnersWereVerified, Vouched, PastOf, PublicOnlyAfterReview, Exists,
         PublicationStatus
<1> QED
  BY <1>1, Invariance, PTL

\* A listing in moderation, in the catalog or taken down from it has its location.
THEOREM SubmittedIsComplete == Spec => []CompleteOnceSubmitted
<1>1. IInv => CompleteOnceSubmitted
  BY DEF IInv, Located
<1> QED
  BY <1>1, Invariance, PTL

\* What a handler has read is stale only if a row recorded since says what moved.
THEOREM ReadsAreDated == Spec => []StaleOnlyByOverlap
<1>1. IInv => StaleOnlyByOverlap
  BY DEF IInv, Dated, DatedRead, Pending, InFlight, StaleOnlyByOverlap
<1> QED
  BY <1>1, Invariance, PTL

\* A step that changes the status or the content of a document is one of a few.
LEMMA WhoMoves ==
    ASSUME IInv, [Next]_vars, NEW l \in Listing, status[l] # "unborn"
    PROVE  /\ status[l] = "removed" /\ status'[l] # "removed" =>
                  \E s \in Slot : CommitTransition(s) /\ req[s].listing = l
           /\ content'[l] # content[l] =>
                  \E s \in Slot : SaveUpdate(s) /\ req[s].listing = l /\ Exists(l)
<1>1. WellFormed /\ InPlace
  BY DEF IInv
<1>2. ASSUME NEW s \in Slot, Arrives(s)
      PROVE  status' = status /\ content' = content
  BY <1>2 DEF Arrives, Serve, docs
<1>3. ASSUME NEW s \in Slot, RetryAfterSave(s) \/ Abort(s)
      PROVE  status' = status /\ content' = content
  BY <1>3 DEF RetryAfterSave, Abort, docs
<1>4. ASSUME VerificationMoves \/ UNCHANGED vars
      PROVE  status' = status /\ content' = content
  BY <1>4 DEF VerificationMoves, docs, vars
<1>5. ASSUME NEW s \in Slot, Progress(s)
      PROVE  /\ status[l] = "removed" /\ status'[l] # "removed" =>
                    CommitTransition(s) /\ req[s].listing = l
             /\ content'[l] # content[l] =>
                    SaveUpdate(s) /\ req[s].listing = l /\ Exists(l)
  <2>1. CASE InsertDraft(s)
    <3>1. req[s].listing # l
      BY <1>1, <2>1 DEF InsertDraft, WellFormed, Fits, StepFits, InPlace, Placed, InFlight
    <3> QED
      BY <1>1, <2>1, <3>1 DEF InsertDraft, WellFormed, TypeOK
  <2>2. CASE SaveUpdate(s)
    BY <1>1, <2>2 DEF SaveUpdate, WellFormed, TypeOK
  <2>3. CASE CommitTransition(s)
    BY <1>1, <2>3 DEF CommitTransition, WellFormed, TypeOK
  <2>4. CASE EraseDraft(s)
    BY <1>1, <2>4 DEF EraseDraft, WellFormed, TypeOK
  <2>5. CASE \/ SellerVerifiedGate(s) \/ SaveUnmodified(s) \/ AppendRow(s)
             \/ CountHistory(s) \/ PurgeHistory(s)
    BY <2>5
    DEF SellerVerifiedGate, SaveUnmodified, AppendRow, CountHistory, PurgeHistory, docs
  <2> QED
    BY <1>5, <2>1, <2>2, <2>3, <2>4, <2>5 DEF Progress
<1> QED
  BY <1>1, <1>2, <1>3, <1>4, <1>5, StepCases DEF WellFormed

\* A takedown is lifted by a reinstatement, or by a request older than it.
THEOREM TakedownHolds == Spec => TakedownHoldsForLaterRequests
<1>1. ASSUME IInv, [Next]_vars, NEW l \in Listing,
             status[l] = "removed", status'[l] # "removed"
      PROVE  \E s \in Slot :
                 /\ pc[s] = "commit" /\ req[s].listing = l
                 /\ \/ req[s].op = "reinstate" /\ req[s].actor \in Staff
                    \/ MovedSince(s, "removed")
  <2>1. PICK s \in Slot : CommitTransition(s) /\ req[s].listing = l
    BY <1>1, WhoMoves
  <2>2. /\ pc[s] = "commit" /\ req[s] \in Request /\ req[s].op \in Transition
        /\ Fits(req[s], pc[s])
    BY <1>1, <2>1, RowOfCommit DEF CommitTransition, IInv, WellFormed, InFlight
  <2>3. Exists(l) /\ Pending(s)
    BY <1>1, <2>1, <2>2, Transitions DEF Pending, InFlight, Exists, PublicationStatus
  <2>4. CASE req[s].from = "removed"
    <3>1. req[s].op = "reinstate"
      BY <2>2, <2>4, Transitions DEF Fits, ReadFits, Resubmittable, Withdrawable
    <3> QED
      BY <2>1, <2>2, <3>1 DEF Fits, OwnerOperation
  <2>5. CASE req[s].from # "removed"
    BY <1>1, <2>1, <2>2, <2>3, <2>5 DEF IInv, Dated, DatedRead
  <2> QED
    BY <2>4, <2>5
<1>2. IInv /\ [Next]_vars =>
          [\A l \in Listing :
              status[l] = "removed" /\ status'[l] # "removed" =>
                  \E s \in Slot :
                      /\ pc[s] = "commit" /\ req[s].listing = l
                      /\ \/ req[s].op = "reinstate" /\ req[s].actor \in Staff
                         \/ MovedSince(s, "removed")]_vars
  BY <1>1
<1> QED
  BY <1>2, Invariance, PTL DEF Spec, TakedownHoldsForLaterRequests

\* Content past drafting changes only by an update older than the move.
THEOREM ContentIsFrozen == Spec => ContentFrozenForLaterUpdates
<1>1. ASSUME IInv, [Next]_vars, NEW l \in Listing,
             status[l] \notin {"unborn"} \cup Resubmittable, content'[l] # content[l]
      PROVE  \E s \in Slot :
                 /\ pc[s] = "save" /\ req[s].listing = l
                 /\ req[s].from \in Resubmittable
                 /\ status[l] # "deleted" /\ MovedSince(s, status[l])
  <2>1. PICK s \in Slot : SaveUpdate(s) /\ req[s].listing = l /\ Exists(l)
    BY <1>1, WhoMoves
  <2>2. pc[s] = "save" /\ req[s].op = "update" /\ req[s].from \in Resubmittable
    BY <1>1, <2>1 DEF SaveUpdate, IInv, WellFormed, InFlight, Fits, ReadFits, StepFits
  <2>3. Pending(s) /\ status[l] # req[s].from
    BY <1>1, <2>1, <2>2 DEF Pending, InFlight
  <2> QED
    BY <1>1, <2>1, <2>2, <2>3 DEF IInv, Dated, DatedRead, Exists, PublicationStatus
<1>2. IInv /\ [Next]_vars =>
          [\A l \in Listing :
              status[l] \notin {"unborn"} \cup Resubmittable /\ content'[l] # content[l] =>
                  \E s \in Slot :
                      /\ pc[s] = "save" /\ req[s].listing = l
                      /\ req[s].from \in Resubmittable
                      /\ status[l] # "deleted" /\ MovedSince(s, status[l])]_vars
  BY <1>1
<1> QED
  BY <1>2, Invariance, PTL DEF Spec, ContentFrozenForLaterUpdates

\* What is written to the history of a deleted listing is the row of a transaction
\* that is on a retry; with no retries, that history only ever loses its rows.
THEOREM NothingWrittenAfterDelete == Spec => RowsAfterDeleteAreRetries
<1>1. ASSUME IInv, [Next]_vars, NEW l \in Listing,
             status[l] = "deleted", trail'[l] \notin {trail[l], << >>}
      PROVE  CommitFaults /\ \E s \in Slot :
                 pc[s] = "append" /\ req[s].listing = l /\ ~req[s].dirty
  <2>1. WellFormed /\ trail' # trail
    BY <1>1 DEF IInv
  <2>2. PICK s \in Slot : Progress(s)
    BY <2>1, <1>1, StepCases
    DEF WellFormed, Arrives, Serve, RetryAfterSave, Abort, VerificationMoves, docs, vars
  <2>3. CommitTransition(s) \/ AppendRow(s) \/ PurgeHistory(s)
    BY <2>1, <2>2
    DEF Progress, SellerVerifiedGate, InsertDraft, SaveUpdate, SaveUnmodified, CountHistory,
        EraseDraft, docs
  <2>4. ~PurgeHistory(s)
    BY <1>1, <2>1 DEF PurgeHistory, WellFormed, TypeOK
  <2>5. ~CommitTransition(s)
    BY <1>1, <2>1 DEF CommitTransition, Exists, PublicationStatus, WellFormed, TypeOK
  <2>6. AppendRow(s) /\ pc[s] = "append" /\ InFlight(s)
    BY <2>3, <2>4, <2>5 DEF AppendRow, InFlight
  <2>7. req[s].listing = l
    BY <1>1, <2>1, <2>6 DEF AppendRow, WellFormed, TypeOK
  <2>8. ~req[s].dirty /\ CommitFaults
    BY <2>1, <2>6 DEF WellFormed, Fits, StepFits
  <2> QED
    BY <2>6, <2>7, <2>8
<1>2. IInv /\ [Next]_vars =>
          [\A l \in Listing :
              status[l] = "deleted" /\ trail'[l] \notin {trail[l], << >>} =>
                  CommitFaults /\ \E s \in Slot :
                      pc[s] = "append" /\ req[s].listing = l /\ ~req[s].dirty]_vars
  BY <1>1
<1> QED
  BY <1>2, Invariance, PTL DEF Spec, RowsAfterDeleteAreRetries

----------------------------------------------------------------------------
(* The refinement of the ledger.                                           *)

LEMMA LedgerInit == Init => Ledger!AuditInit
BY DEF Init, Ledger!AuditInit

LEMMA LedgerStep ==
    ASSUME ~CommitFaults, IInv, [Next]_vars
    PROVE  [Ledger!AuditNext]_(Ledger!auditVars)
<1> SUFFICES ASSUME ~UNCHANGED <<status, trail>>
             PROVE  Ledger!AuditNext
  BY DEF Ledger!auditVars
<1>1. WellFormed /\ InPlace
  BY DEF IInv
<1>2. PICK s \in Slot : Progress(s)
  BY <1>1, StepCases
  DEF WellFormed, Arrives, Serve, RetryAfterSave, Abort, VerificationMoves, docs, vars
<1> DEFINE l == req[s].listing
<1>3. req[s] \in Request /\ l \in Listing /\ InFlight(s) /\ Fits(req[s], pc[s]) /\ Placed(s)
  BY <1>1, <1>2, ProgressOfOne DEF WellFormed, TypeOK, InPlace, Request, InFlight
<1>4. CASE InsertDraft(s)
  <2>1. status[l] = "unborn"
    BY <1>3, <1>4 DEF InsertDraft, Fits, StepFits, Placed
  <2>2. Ledger!Open(l)
    BY <1>4, <2>1 DEF InsertDraft, Ledger!Open
  <2> QED
    BY <1>3, <2>2 DEF Ledger!AuditNext
<1>5. CASE CommitTransition(s)
  <2>1. req[s].dirty
    BY <1>3 DEF Fits
  <2>2. Exists(l)
    BY <1>5 DEF CommitTransition
  <2>3. /\ status' = [status EXCEPT ![l] = HistoryRow(req[s]).to]
        /\ trail' = [trail EXCEPT ![l] = Append(@, HistoryRow(req[s]))]
    BY <1>5, <2>1, <2>2 DEF CommitTransition, HistoryRow
  <2>4. HistoryRow(req[s]) \in Ledger!Row
    BY <1>1, <1>5, RowOfCommit DEF CommitTransition, Row, Ledger!Row
  <2>5. Ledger!Record(l)
    BY <2>2, <2>3, <2>4 DEF Ledger!Record, Exists
  <2> QED
    BY <1>3, <2>5 DEF Ledger!AuditNext
<1>6. CASE EraseDraft(s)
  <2>1. Ledger!Close(l)
    BY <1>6 DEF EraseDraft, Ledger!Close
  <2> QED
    BY <1>3, <2>1 DEF Ledger!AuditNext
<1>7. CASE PurgeHistory(s)
  <2>1. Ledger!Forget(l)
    BY <1>3, <1>7 DEF PurgeHistory, Placed, Ledger!Forget
  <2> QED
    BY <1>3, <2>1 DEF Ledger!AuditNext
<1>8. CASE SellerVerifiedGate(s) \/ SaveUpdate(s) \/ SaveUnmodified(s) \/ CountHistory(s)
  BY <1>8 DEF SellerVerifiedGate, SaveUpdate, SaveUnmodified, CountHistory, docs
<1>9. ~AppendRow(s)
  BY <1>3 DEF AppendRow, Fits, StepFits
<1> QED
  BY <1>2, <1>4, <1>5, <1>6, <1>7, <1>8, <1>9 DEF Progress

\* As long as no transaction is retried after its save, status and history move
\* together: the listings implement AuditedStatus.
THEOREM HistoryRefinesLedger ==
    ASSUME ~CommitFaults
    PROVE  Spec => HistoryIsTheLedger
<1>1. Init => Ledger!AuditInit
  BY LedgerInit
<1>2. IInv /\ [Next]_vars => [Ledger!AuditNext]_(Ledger!auditVars)
  BY LedgerStep
<1> QED
  BY <1>1, <1>2, Invariance, PTL DEF Spec, HistoryIsTheLedger, Ledger!AuditSpec

----------------------------------------------------------------------------
(* The moderation policy: what the comments of the code describe is what   *)
(* every request does that was not overtaken since its read.               *)

\* A committed transition is a move of the owner's or of the staff's.
LEMMA CommitIsAMove ==
    ASSUME IInv, NEW s \in Slot, CommitTransition(s), ~Overtaken(s),
           ~UNCHANGED <<status, trail>>
    PROVE  Policy!OwnerMove(req[s].listing) \/ Policy!StaffMove(req[s].listing)
<1> DEFINE r == req[s]
           l == req[s].listing
<1>1. /\ r \in Request /\ r.op \in Transition /\ l \in Listing
      /\ Fits(r, pc[s]) /\ Placed(s) /\ InFlight(s)
  BY RowOfCommit DEF IInv, InPlace, WellFormed, CommitTransition, InFlight, Request
<1>2. r.op # "create" /\ pc[s] = "commit"
  BY <1>1, Transitions DEF CommitTransition
<1>3. status[l] = r.from
  BY <1>2 DEF Overtaken
<1>4. r.dirty
  BY DEF CommitTransition
<1>5. Policy!MoveTo(l, Target[r.op], r.actor)
  <2>1. Target[r.op] = "pending_review" => content[l] # Bare
    BY <1>1, TargetOf DEF IInv, Located
  <2>2. /\ status' = [status EXCEPT ![l] = Target[r.op]]
        /\ trail' = [trail EXCEPT ![l] = Append(@, HistoryRow(r))]
        /\ UNCHANGED <<owner, content>>
    BY <1>4 DEF CommitTransition
  <2>3. HistoryRow(r) = [from |-> status[l], to |-> Target[r.op], by |-> r.actor]
    BY <1>3 DEF HistoryRow
  <2> QED
    BY <2>1, <2>2, <2>3 DEF Policy!MoveTo
<1>6. CASE r.op \in {"submit", "withdraw", "restore"}
  <2>1. r.actor = owner[l]
    BY <1>1, <1>6 DEF Placed, OwnerOperation
  <2>2. <<status[l], Target[r.op]>> \in Policy!OwnerMoves
    BY <1>1, <1>3, <1>6
    DEF Fits, ReadFits, Target, Policy!OwnerMoves, Resubmittable, Withdrawable
  <2> QED
    BY <1>5, <2>1, <2>2 DEF Policy!OwnerMove
<1>7. CASE r.op \in {"approve", "reject", "takedown", "reinstate"}
  <2>1. r.actor \in Staff
    BY <1>1, <1>7 DEF Fits, OwnerOperation
  <2>2. <<status[l], Target[r.op]>> \in Policy!StaffMoves
    BY <1>1, <1>3, <1>7 DEF Fits, ReadFits, Target, Policy!StaffMoves
  <2> QED
    BY <1>5, <2>1, <2>2 DEF Policy!StaffMove
<1> QED
  BY <1>1, <1>6, <1>7, Transitions

\* A step that writes is one of the policy's, or its request was overtaken.
LEMMA PolicyStep ==
    ASSUME IInv, [Next]_vars,
           \A s \in Slot : pc[s] # "idle" /\ pc'[s] # pc[s] => ~Overtaken(s)
    PROVE  Policy!PolicyNext \/ UNCHANGED docs
<1> SUFFICES ASSUME ~UNCHANGED <<status, owner, content, trail>>
             PROVE  Policy!PolicyNext
  BY DEF docs
<1>1. WellFormed /\ InPlace
  BY DEF IInv
<1>2. PICK s \in Slot : Progress(s)
  BY <1>1, StepCases
  DEF WellFormed, Arrives, Serve, RetryAfterSave, Abort, VerificationMoves, docs, vars
<1> DEFINE l == req[s].listing
<1>3. req[s] \in Request /\ l \in Listing /\ InFlight(s) /\ Fits(req[s], pc[s]) /\ Placed(s)
  BY <1>1, <1>2, ProgressOfOne DEF WellFormed, TypeOK, InPlace, Request, InFlight
<1>10. pc'[s] # pc[s]
  BY <1>1, <1>2
  DEF Progress, SellerVerifiedGate, InsertDraft, SaveUpdate, CommitTransition, SaveUnmodified,
      AppendRow, CountHistory, EraseDraft, PurgeHistory, Answer, Continue, WellFormed, TypeOK
<1>11. ~Overtaken(s)
  BY <1>3, <1>10 DEF InFlight
<1>4. CASE InsertDraft(s)
  <2>1. status[l] = "unborn" /\ req[s].actor \in Seller /\ req[s].text \in Content
    BY <1>3, <1>4 DEF InsertDraft, Fits, StepFits, Placed, OwnerOperation, Request
  <2>2. Policy!Draft(l)
    BY <1>4, <2>1 DEF InsertDraft, Policy!Draft
  <2> QED
    BY <1>3, <2>2 DEF Policy!PolicyNext
<1>5. CASE SaveUpdate(s)
  <2>1. /\ req[s].text \in Content \ {Bare}
        /\ status[l] = req[s].from /\ req[s].from \in Resubmittable
    BY <1>3, <1>5, <1>11 DEF SaveUpdate, Fits, ReadFits, StepFits, Overtaken, Request
  <2>2. Policy!Edit(l)
    BY <1>5, <2>1 DEF SaveUpdate, Exists, Policy!Edit, Policy!Editable, Resubmittable
  <2> QED
    BY <1>3, <2>2 DEF Policy!PolicyNext
<1>6. CASE CommitTransition(s)
  <2>1. ~UNCHANGED <<status, trail>>
    BY <1>6 DEF CommitTransition
  <2> QED
    BY <1>3, <1>6, <1>11, <2>1, CommitIsAMove DEF Policy!PolicyNext
<1>7. CASE EraseDraft(s)
  <2>1. status[l] = "draft"
    BY <1>7 DEF EraseDraft
  <2>2. req[s].seen = 0
    BY <1>7, <2>1 DEF EraseDraft, IInv, Counted, Exists, PublicationStatus
  <2>3. Len(trail[l]) = 0 /\ trail[l] \in Seq(Row)
    BY <1>1, <1>3, <1>11, <2>2 DEF Overtaken, WellFormed, TypeOK
  <2>4. trail[l] = << >>
    BY <2>3
  <2>5. Policy!Delete(l)
    BY <1>7, <2>1, <2>4 DEF EraseDraft, Policy!Delete
  <2> QED
    BY <1>3, <2>5 DEF Policy!PolicyNext
<1>8. CASE PurgeHistory(s)
  <2>1. Len(trail[l]) = 0 /\ trail[l] \in Seq(Row)
    BY <1>1, <1>3, <1>8, <1>11 DEF PurgeHistory, IInv, Counted, Overtaken, WellFormed, TypeOK
  <2>2. trail[l] = << >>
    BY <2>1
  <2>3. trail' = trail
    BY <1>1, <1>3, <1>8, <2>2 DEF PurgeHistory, WellFormed, TypeOK
  <2> QED
    BY <1>8, <2>3 DEF PurgeHistory
<1>9. CASE SellerVerifiedGate(s) \/ SaveUnmodified(s) \/ CountHistory(s)
  BY <1>9 DEF SellerVerifiedGate, SaveUnmodified, CountHistory, docs
<1>12. ~AppendRow(s)
  BY <1>3, <1>11 DEF AppendRow, Fits, StepFits, Overtaken
<1> QED
  BY <1>2, <1>4, <1>5, <1>6, <1>7, <1>8, <1>9, <1>12 DEF Progress

\* Requests depart from the documented moderation state machine only when they
\* were overtaken, or their transaction is on a retry.
THEOREM PolicyHolds == Spec => PolicyUnlessOvertaken
<1>1. IInv /\ [Next]_vars =>
          [\/ Policy!PolicyNext
           \/ UNCHANGED docs
           \/ \E s \in Slot : pc[s] # "idle" /\ pc'[s] # pc[s] /\ Overtaken(s)]_vars
  BY PolicyStep
<1> QED
  BY <1>1, Invariance, PTL DEF Spec, PolicyUnlessOvertaken

----------------------------------------------------------------------------
(* Served one at a time, and with no transaction retried after its save,   *)
(* no request is overtaken, and the requests implement ModerationPolicy.   *)

OneAtATime == \A s, t \in Slot : s = t

Undisturbed == \A s \in Slot : InFlight(s) => ~Overtaken(s)

LEMMA UndisturbedInit == Init => Undisturbed
BY DEF Init, Undisturbed, InFlight

LEMMA UndisturbedStep ==
    ASSUME OneAtATime, ~CommitFaults, IInv, Undisturbed, [Next]_vars
    PROVE  Undisturbed'
<1>1. WellFormed
  BY DEF IInv
<1> SUFFICES ASSUME NEW t \in Slot, InFlight(t)'
             PROVE  ~Overtaken(t)'
  BY DEF Undisturbed
<1>2. ASSUME NEW s \in Slot, Arrives(s)
      PROVE  ~Overtaken(t)'
  <2>1. s = t
    BY DEF OneAtATime
  <2>2. PICK r \in Request, step \in Step :
            /\ Serve(s, r, step) /\ Fits(r, step)
            /\ r.from = status[r.listing] /\ r.seen = Len(trail[r.listing])
    BY <1>2 DEF Arrives
  <2>3. req'[t] = r /\ UNCHANGED <<status, trail>> /\ r.dirty
    BY <1>1, <2>1, <2>2 DEF Serve, docs, Fits, WellFormed, TypeOK
  <2> QED
    BY <2>2, <2>3 DEF Overtaken
<1>3. ASSUME NEW s \in Slot, Progress(s)
      PROVE  ~Overtaken(t)'
  <2>1. s = t
    BY DEF OneAtATime
  <2>2. InFlight(t) /\ req'[t] = req[t] /\ req[t] \in Request /\ ~Overtaken(t)
    BY <1>1, <1>3, <2>1, ProgressOfOne DEF InFlight, Undisturbed, WellFormed, TypeOK
  <2>3. \/ SellerVerifiedGate(s) \/ SaveUnmodified(s) \/ CountHistory(s)
        \/ EraseDraft(s)
    BY <1>1, <1>3, <2>1
    DEF Progress, InsertDraft, SaveUpdate, CommitTransition, AppendRow, PurgeHistory, Answer,
        InFlight, WellFormed, TypeOK
  <2>4. CASE SellerVerifiedGate(s) \/ SaveUnmodified(s) \/ CountHistory(s)
    <3>1. UNCHANGED <<status, trail>> /\ pc[t] # "purge"
      BY <2>1, <2>4 DEF SellerVerifiedGate, SaveUnmodified, CountHistory, docs
    <3> QED
      BY <2>2, <3>1 DEF Overtaken
  <2>5. CASE EraseDraft(s)
    <3>1. UNCHANGED trail /\ pc'[t] = "purge"
      BY <1>1, <2>1, <2>5 DEF EraseDraft, Continue, Answer, InFlight, WellFormed, TypeOK
    <3> QED
      BY <2>2, <3>1 DEF Overtaken
  <2> QED
    BY <2>3, <2>4, <2>5
<1>4. ASSUME NEW s \in Slot, Abort(s)
      PROVE  ~Overtaken(t)'
  BY <1>1, <1>4 DEF Abort, Answer, InFlight, OneAtATime, WellFormed, TypeOK
<1>5. CASE VerificationMoves \/ UNCHANGED vars
  BY <1>5 DEF VerificationMoves, docs, vars, Undisturbed, InFlight, Overtaken
<1>6. \A s \in Slot : ~RetryAfterSave(s)
  BY DEF RetryAfterSave
<1> QED
  BY <1>1, <1>2, <1>3, <1>4, <1>5, <1>6, StepCases DEF WellFormed

LEMMA PolicyInitRefined == Init => Policy!PolicyInit
BY DEF Init, Policy!PolicyInit

\* One request at a time, the documented moderation state machine is what runs.
THEOREM SequentialPolicy ==
    ASSUME OneAtATime, ~CommitFaults
    PROVE  Spec => FollowsThePolicy
<1>1. Init => Policy!PolicyInit /\ Undisturbed
  BY PolicyInitRefined, UndisturbedInit
<1>2. IInv /\ Undisturbed /\ [Next]_vars => Undisturbed'
  BY UndisturbedStep
<1>3. IInv /\ Undisturbed /\ [Next]_vars => [Policy!PolicyNext]_(Policy!policyVars)
  BY PolicyStep DEF Undisturbed, InFlight, docs, Policy!policyVars
<1> QED
  BY <1>1, <1>2, <1>3, Invariance, PTL DEF Spec, FollowsThePolicy, Policy!PolicySpec
=============================================================================
