--------------------------- MODULE AuditedStatus ---------------------------
(***************************************************************************)
(* What the two audited records of the marketplace, a listing and a        *)
(* seller's verification, promise about their status: a status never moves *)
(* without a history row that says so, and a row is never written without  *)
(* the move it names.  The promise says nothing of which moves are allowed *)
(* nor of the status a row claims to have left: those depend on what a     *)
(* request had read, and are stated in the modules that implement this     *)
(* one, ListingLifecycle and SellerVerification.                           *)
(*                                                                         *)
(* A record may be opened, in status First; one that is back in First may  *)
(* be closed, for good, and its history is then forgotten with it.         *)
(***************************************************************************)
EXTENDS Sequences

CONSTANTS
    Subject,   \* what has a status: listings, or sellers
    Actor,     \* who can move one
    Live,      \* the statuses of a record that exists
    First,     \* the one a record is opened in
    Unborn,    \* not opened yet
    Gone       \* closed

VARIABLES
    status,    \* status[x] of every subject x
    trail      \* trail[x], the history rows of x, oldest first

auditVars == <<status, trail>>

Row == [from : Live, to : Live, by : Actor]

----------------------------------------------------------------------------

AuditInit ==
    /\ status \in [Subject -> {Unborn, First}]
    /\ trail = [x \in Subject |-> << >>]

Open(x) ==
    /\ status[x] = Unborn
    /\ status' = [status EXCEPT ![x] = First]
    /\ UNCHANGED trail

\* The one way a live status moves: together with the row that records it.
Record(x) ==
    /\ status[x] \in Live
    /\ \E row \in Row :
           /\ status' = [status EXCEPT ![x] = row.to]
           /\ trail'  = [trail EXCEPT ![x] = Append(@, row)]

Close(x) ==
    /\ status[x] = First
    /\ status' = [status EXCEPT ![x] = Gone]
    /\ UNCHANGED trail

Forget(x) ==
    /\ status[x] = Gone
    /\ trail' = [trail EXCEPT ![x] = << >>]
    /\ UNCHANGED status

AuditNext == \E x \in Subject : Open(x) \/ Record(x) \/ Close(x) \/ Forget(x)

AuditSpec == AuditInit /\ [][AuditNext]_auditVars
============================================================================
