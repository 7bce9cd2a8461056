------------------------- MODULE MarketplaceProofs -------------------------
(***************************************************************************)
(* Proofs about Marketplace, for any set of listings, users and requests.  *)
(* A behaviour of the marketplace is, seen from the verification, one of   *)
(* SellerVerification; and so, by what is proved of that module, what the  *)
(* listings see of the verification is what ListingLifecycle supposes of   *)
(* it.  A behaviour of the marketplace is then one of ListingLifecycle as  *)
(* well, and what is proved of the two modules holds of them together.     *)
(***************************************************************************)
EXTENDS Marketplace, TLAPS

VP == INSTANCE SellerVerificationProofs WITH
          Slot <- VerificationSlot, pc <- verificationPc, req <- verificationReq

LP == INSTANCE ListingLifecycleProofs WITH
          Slot <- ListingSlot, pc <- listingPc, req <- listingReq,
          verified <- VerifiedNow, everVerified <- VerifiedInHistory

----------------------------------------------------------------------------
(* VP and LP have the actions of V and L under other names.                *)

LEMMA SameVerification == V!Next <=> VP!Next
BY DEF V!Next, VP!Next, V!RequestVerification, VP!RequestVerification,
       V!Approve, VP!Approve, V!Reject, VP!Reject, V!Begin, VP!Begin,
       V!Commit, VP!Commit, V!RetryAfterSave, VP!RetryAfterSave, V!Abort, VP!Abort,
       V!Answer, VP!Answer, V!users, VP!users,
       V!CanRequestVerificationFrom, VP!CanRequestVerificationFrom,
       V!CanReviewVerificationFrom, VP!CanReviewVerificationFrom,
       V!WrittenStatus, VP!WrittenStatus, V!WrittenNote, VP!WrittenNote,
       V!HistoryRow, VP!HistoryRow, V!Target, VP!Target, V!LeavesNote, VP!LeavesNote

LEMMA SameArrivals ==
    ASSUME NEW s \in ListingSlot, NEW u, NEW l \in Listing
    PROVE  /\ L!OwnerRequest(s, u, l) <=> LP!OwnerRequest(s, u, l)
           /\ L!StaffRequest(s, u, l) <=> LP!StaffRequest(s, u, l)
BY DEF L!OwnerRequest, LP!OwnerRequest, L!CreateDraft, LP!CreateDraft, L!Update, LP!Update,
       L!SubmitForReview, LP!SubmitForReview, L!Withdraw, LP!Withdraw, L!Restore, LP!Restore,
       L!DeleteDraft, LP!DeleteDraft, L!StaffRequest, LP!StaffRequest, L!Approve, LP!Approve,
       L!Reject, LP!Reject, L!Takedown, LP!Takedown, L!Reinstate, LP!Reinstate,
       L!Begin, LP!Begin, L!Serve, LP!Serve, L!Snapshot, LP!Snapshot,
       L!RoomInTrail, LP!RoomInTrail, L!Found, LP!Found, L!FoundOwned, LP!FoundOwned,
       L!Exists, LP!Exists, L!PublicationStatus, LP!PublicationStatus,
       L!StaffLocked, LP!StaffLocked, L!Resubmittable, LP!Resubmittable,
       L!CanTakeDownFrom, LP!CanTakeDownFrom, L!CanReinstateFrom, LP!CanReinstateFrom,
       L!docs, LP!docs, L!kyc, LP!kyc

LEMMA SameProgress ==
    ASSUME NEW s \in ListingSlot
    PROVE  /\ L!Progress(s) <=> LP!Progress(s)
           /\ L!RetryAfterSave(s) <=> LP!RetryAfterSave(s)
           /\ L!Abort(s) <=> LP!Abort(s)
BY DEF L!Progress, LP!Progress, L!SellerVerifiedGate, LP!SellerVerifiedGate,
       L!InsertDraft, LP!InsertDraft, L!SaveUpdate, LP!SaveUpdate,
       L!CommitTransition, LP!CommitTransition, L!SaveUnmodified, LP!SaveUnmodified,
       L!AppendRow, LP!AppendRow, L!CountHistory, LP!CountHistory,
       L!EraseDraft, LP!EraseDraft, L!PurgeHistory, LP!PurgeHistory,
       L!RetryAfterSave, LP!RetryAfterSave, L!Abort, LP!Abort,
       L!Continue, LP!Continue, L!Answer, LP!Answer, L!Exists, LP!Exists,
       L!PublicationStatus, LP!PublicationStatus, L!Target, LP!Target,
       L!HistoryRow, LP!HistoryRow, L!docs, LP!docs, L!kyc, LP!kyc

LEMMA SameListings == [L!Next]_(L!vars) <=> [LP!Next]_(LP!vars)
<1>1. L!ListingNext <=> LP!ListingNext
  BY SameArrivals, SameProgress DEF L!ListingNext, LP!ListingNext
<1>2. L!VerificationMoves <=> LP!VerificationMoves
  BY DEF L!VerificationMoves, LP!VerificationMoves, L!docs, LP!docs
<1> QED
  BY <1>1, <1>2 DEF L!Next, LP!Next, L!vars, LP!vars

----------------------------------------------------------------------------
(* The verification of sellers, in the marketplace.                        *)

LEMMA VerificationRuns == Spec => VP!Spec
<1>1. Init => VP!Init
  BY DEF Init, V!Init, VP!Init
<1>2. [Next]_vars => [VP!Next]_(VP!vars)
  BY SameVerification
  DEF Next, VerificationStep, ListingStep, vars, verificationVars, VP!vars
<1> QED
  BY <1>1, <1>2, PTL DEF Spec, VP!Spec

LEMMA VerificationHolds == Spec => [](VP!IInv /\ VP!RowsAreDecided)
<1>1. VP!Spec => []VP!IInv
  BY BoundAssumption, FaultAssumption, VP!Invariance
<1>2. VP!Spec => []VP!RowsAreDecided
  BY BoundAssumption, FaultAssumption, VP!HistoryIsDecided
<1> QED
  BY <1>1, <1>2, VerificationRuns, PTL

\* Rows stay, and a verified seller has one that says so.
LEMMA VerificationMoves ==
    ASSUME VP!IInv, VP!IInv', VP!Next
    PROVE  VerifiedInHistory \cup VerifiedNow' \subseteq VerifiedInHistory'
<1>1. VP!WellFormed
  BY DEF VP!IInv
<1>2. ASSUME NEW u \in Seller
      PROVE  /\ DOMAIN events[u] \subseteq DOMAIN events'[u]
             /\ \A k \in DOMAIN events[u] : events'[u][k] = events[u][k]
  <2>1. CASE UNCHANGED events
    BY <2>1
  <2>2. ASSUME NEW s \in VerificationSlot, VP!Commit(s)
        PROVE  /\ DOMAIN events[u] \subseteq DOMAIN events'[u]
               /\ \A k \in DOMAIN events[u] : events'[u][k] = events[u][k]
    BY <1>1, <2>2, BoundAssumption, FaultAssumption, VP!HistoryGrows
  <2>3. UNCHANGED events \/ \E s \in VerificationSlot : VP!Commit(s)
    BY DEF VP!Next, VP!RequestVerification, VP!Approve, VP!Reject, VP!Begin,
           VP!RetryAfterSave, VP!Abort, VP!users
  <2> QED
    BY <2>1, <2>2, <2>3
<1>3. VerifiedInHistory \subseteq VerifiedInHistory'
  BY <1>2 DEF VerifiedInHistory, V!CanSubmitListings
<1>4. ASSUME NEW u \in VerifiedNow'
      PROVE  u \in VerifiedInHistory'
  <2>1. u \in Seller /\ kycStatus'[u] = "verified"
    BY <1>4 DEF VerifiedNow, V!CanSubmitListings
  <2>2. VP!DecidedOn(u)'
    BY <2>1 DEF VP!IInv, VP!Vouched, VP!PastOf
  <2> QED
    BY <2>1, <2>2 DEF VP!DecidedOn, VerifiedInHistory, V!CanSubmitListings
<1> QED
  BY <1>3, <1>4

\* Seller verification is what the listings suppose of it: no one is verified without a
\* history row that says so, and the rows stay.  Every behaviour of the marketplace is
\* one of ListingLifecycle, step by step (listings.service.ts assertSellerVerified).
THEOREM ListingsAreServed == Spec => VerificationIsAsSupposed
<1>1. Init => L!Init
  BY DEF Init, V!Init, L!Init, VerifiedNow, VerifiedInHistory, V!CanSubmitListings
<1>2. ASSUME VP!IInv, VP!IInv', [Next]_vars
      PROVE  [L!Next]_(L!vars)
  <2>1. CASE VerificationStep
    <3>1. VP!Next /\ UNCHANGED <<status, owner, content, trail, listingPc, listingReq>>
      BY <2>1, SameVerification DEF VerificationStep, listingVars
    <3>2. VerifiedNow' \subseteq Seller /\ VerifiedInHistory' \subseteq Seller
      BY DEF VerifiedNow, VerifiedInHistory
    <3>3. VerifiedInHistory \cup VerifiedNow' \subseteq VerifiedInHistory'
      BY <1>2, <3>1, VerificationMoves
    <3>4. L!VerificationMoves
      BY <3>1, <3>2, <3>3 DEF L!VerificationMoves, L!docs
    <3> QED
      BY <3>4 DEF L!Next
  <2>2. CASE ListingStep
    BY <2>2 DEF ListingStep, L!Next
  <2>3. CASE UNCHANGED vars
    BY <2>3 DEF vars, listingVars, verificationVars, L!vars, VerifiedNow, VerifiedInHistory
  <2> QED
    BY <1>2, <2>1, <2>2, <2>3 DEF Next
<1>3. VP!IInv /\ VP!IInv' /\ [Next]_vars => [L!Next]_(L!vars)
  BY <1>2
<1> QED
  BY <1>1, <1>3, VerificationHolds, PTL DEF Spec, VerificationIsAsSupposed, L!Spec

----------------------------------------------------------------------------
(* The listings, in the marketplace.                                       *)

LEMMA ListingsRun == Spec => LP!Spec
<1>1. L!Init => LP!Init
  BY DEF L!Init, LP!Init
<1> QED
  BY <1>1, SameListings, ListingsAreServed, PTL DEF VerificationIsAsSupposed, L!Spec, LP!Spec

\* Every listing in the catalog is vouched for twice, by its own history and by that of
\* its owner, though the gate and the transition are different operations
\* (listings.service.ts submitForReview, approve; seller-verification.service.ts).
THEOREM CatalogIsVouched == Spec => []CatalogIsVouchedFor
<1>1. LP!Spec => []LP!PublicOnlyAfterReview
  BY ContentAssumption, BoundAssumption, FaultAssumption, OwnerAssumption,
     LP!CatalogIsReviewed
<1>2. ASSUME VP!RowsAreDecided, LP!PublicOnlyAfterReview
      PROVE  CatalogIsVouchedFor
  <2> SUFFICES ASSUME NEW l \in Listing, status[l] = "approved"
               PROVE  /\ L!ReviewedInTrail(l)
                      /\ \E i \in DOMAIN events[owner[l]] :
                             /\ events[owner[l]][i].to = "verified"
                             /\ events[owner[l]][i].by \in Staff
    BY DEF CatalogIsVouchedFor
  <2>1. LP!ReviewedInTrail(l) /\ owner[l] \in VerifiedInHistory
    BY <1>2 DEF LP!PublicOnlyAfterReview
  <2>2. L!ReviewedInTrail(l)
    BY <2>1 DEF LP!ReviewedInTrail, L!ReviewedInTrail
  <2>3. PICK i \in DOMAIN events[owner[l]] : events[owner[l]][i].to = "verified"
    BY <2>1 DEF VerifiedInHistory, V!CanSubmitListings
  <2>4. events[owner[l]][i].by \in Staff
    BY <1>2, <2>1, <2>3 DEF VP!RowsAreDecided, VP!VerifyingRow, VerifiedInHistory
  <2> QED
    BY <2>2, <2>3, <2>4
<1>3. VP!RowsAreDecided /\ LP!PublicOnlyAfterReview => CatalogIsVouchedFor
  BY <1>2
<1> QED
  BY <1>1, <1>3, ListingsRun, VerificationHolds, PTL

----------------------------------------------------------------------------
(* What holds as long as no transaction is retried after its save.         *)

\* A note stays with a seller who is not rejected only if requests overlapped.
THEOREM NoteNeedsOverlap ==
    ASSUME ~CommitFaults
    PROVE  Spec => []NoteOutlivesRejectionOnlyByOverlap
<1>1. VP!Spec => []VP!NoteOutlivesRejectionOnlyByOverlap
  BY BoundAssumption, FaultAssumption, VP!NoteNeedsOverlap
<1>2. VP!NoteOutlivesRejectionOnlyByOverlap => NoteOutlivesRejectionOnlyByOverlap
  BY DEF VP!NoteOutlivesRejectionOnlyByOverlap, V!NoteOutlivesRejectionOnlyByOverlap,
         VP!HistoryForks, V!HistoryForks, NoteOutlivesRejectionOnlyByOverlap
<1> QED
  BY <1>1, <1>2, VerificationRuns, PTL

LEMMA SameListingLedger ==
    /\ L!Ledger!AuditInit <=> LP!Ledger!AuditInit
    /\ [L!Ledger!AuditNext]_(L!Ledger!auditVars) <=> [LP!Ledger!AuditNext]_(LP!Ledger!auditVars)
BY DEF L!Ledger!AuditInit, LP!Ledger!AuditInit, L!Ledger!AuditNext, LP!Ledger!AuditNext,
       L!Ledger!Open, LP!Ledger!Open, L!Ledger!Record, LP!Ledger!Record,
       L!Ledger!Close, LP!Ledger!Close, L!Ledger!Forget, LP!Ledger!Forget,
       L!Ledger!Row, LP!Ledger!Row, L!PublicationStatus, LP!PublicationStatus,
       L!Ledger!auditVars, LP!Ledger!auditVars

LEMMA SameVerificationLedger ==
    /\ V!Ledger!AuditInit <=> VP!Ledger!AuditInit
    /\ [V!Ledger!AuditNext]_(V!Ledger!auditVars) <=> [VP!Ledger!AuditNext]_(VP!Ledger!auditVars)
BY DEF V!Ledger!AuditInit, VP!Ledger!AuditInit, V!Ledger!AuditNext, VP!Ledger!AuditNext,
       V!Ledger!Open, VP!Ledger!Open, V!Ledger!Record, VP!Ledger!Record,
       V!Ledger!Close, VP!Ledger!Close, V!Ledger!Forget, VP!Ledger!Forget,
       V!Ledger!Row, VP!Ledger!Row, V!KycStatus, VP!KycStatus,
       V!Ledger!auditVars, VP!Ledger!auditVars

\* The status of a listing and its history move together
\* (listing-status-history.schema.ts).
THEOREM ListingHistoryHolds ==
    ASSUME ~CommitFaults
    PROVE  Spec => ListingHistoryIsTheLedger
<1>1. LP!Spec => LP!HistoryIsTheLedger
  BY ContentAssumption, BoundAssumption, FaultAssumption, OwnerAssumption,
     LP!HistoryRefinesLedger
<1> QED
  BY <1>1, ListingsRun, SameListingLedger, PTL
  DEF ListingHistoryIsTheLedger, L!HistoryIsTheLedger, LP!HistoryIsTheLedger,
      L!Ledger!AuditSpec, LP!Ledger!AuditSpec

\* The kycStatus of a seller and its history move together
\* (seller-verification-event.schema.ts).
THEOREM VerificationHistoryHolds ==
    ASSUME ~CommitFaults
    PROVE  Spec => VerificationHistoryIsTheLedger
<1>1. VP!Spec => VP!HistoryIsTheLedger
  BY BoundAssumption, FaultAssumption, VP!HistoryRefinesLedger
<1> QED
  BY <1>1, VerificationRuns, SameVerificationLedger, PTL
  DEF VerificationHistoryIsTheLedger, V!HistoryIsTheLedger, VP!HistoryIsTheLedger,
      V!Ledger!AuditSpec, VP!Ledger!AuditSpec
=============================================================================
