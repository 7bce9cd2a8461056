---------------------------- MODULE Marketplace ----------------------------
(***************************************************************************)
(* Listings and seller verification together.  submitForReview and         *)
(* createDraft read the owner's kycStatus through UsersService, in a query *)
(* of its own, while the verification requests of that owner are served:   *)
(* ListingLifecycle is given the statuses SellerVerification keeps.        *)
(***************************************************************************)
EXTENDS Naturals, Sequences

CONSTANTS
    Listing, Seller, Staff, Content, Bare, NoRequest, NoOwner,
    ListingSlot,        \* requests on listings served at the same time
    VerificationSlot,   \* verification requests served at the same time
    MaxRows, MaxEvents, \* bounds on the two histories
    CommitFaults        \* can a transaction fail after its save went through?

ASSUME ContentAssumption == Bare \in Content
ASSUME BoundAssumption == MaxRows \in Nat /\ MaxEvents \in Nat
ASSUME FaultAssumption == CommitFaults \in BOOLEAN
ASSUME OwnerAssumption == NoOwner \notin Seller

VARIABLES
    status, owner, content, trail, listingPc, listingReq,
    kycStatus, hasNote, events, verificationPc, verificationReq

listingVars      == <<status, owner, content, trail, listingPc, listingReq>>
verificationVars == <<kycStatus, hasNote, events, verificationPc, verificationReq>>
vars             == <<listingVars, verificationVars>>

V == INSTANCE SellerVerification WITH
         Slot <- VerificationSlot, pc <- verificationPc, req <- verificationReq

\* What assertSellerVerified reads of the user document.
VerifiedNow == {u \in Seller : V!CanSubmitListings(kycStatus[u])}

VerifiedInHistory ==
    {u \in Seller : \E i \in DOMAIN events[u] : V!CanSubmitListings(events[u][i].to)}

L == INSTANCE ListingLifecycle WITH
         Slot <- ListingSlot, pc <- listingPc, req <- listingReq,
         verified <- VerifiedNow, everVerified <- VerifiedInHistory

----------------------------------------------------------------------------

Init == V!Init /\ L!Init

VerificationStep == V!Next /\ UNCHANGED listingVars

ListingStep == UNCHANGED verificationVars /\ L!ListingNext

Next == VerificationStep \/ ListingStep

Spec == Init /\ [][Next]_vars

----------------------------------------------------------------------------
(* Properties.                                                             *)

\* Every listing in the catalog is vouched for twice: its history shows its owner
\* submitting it and staff approving it, and the owner's own history shows staff
\* verifying them, though the gate reads the user and the transition writes the
\* listing in different operations.
CatalogIsVouchedFor ==
    \A l \in Listing :
        status[l] = "approved" =>
            /\ L!ReviewedInTrail(l)
            /\ \E i \in DOMAIN events[owner[l]] :
                   /\ events[owner[l]][i].to = "verified"
                   /\ events[owner[l]][i].by \in Staff

\* A note stays with a seller whose last status is not 'rejected' only if the
\* history shows that requests overlapped: the exception that user.schema.ts 70-71,
\* "Null unless the last decision was a rejection", does not make.
NoteOutlivesRejectionOnlyByOverlap == V!NoteOutlivesRejectionOnlyByOverlap

\* Seller verification behaves as ListingLifecycle supposes: no one is verified
\* without a history row that says so, and the rows stay.
VerificationIsAsSupposed == L!Spec

\* Each status moves together with its history, as long as no transaction is
\* retried after its save.
ListingHistoryIsTheLedger == L!HistoryIsTheLedger

VerificationHistoryIsTheLedger == V!HistoryIsTheLedger
============================================================================
