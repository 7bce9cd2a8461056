------------------------------- MODULE Users -------------------------------
(***************************************************************************)
(* The user documents and the writes of UsersService.  An account is named *)
(* by its e-mail address, and the Clerk identity that can be linked to it  *)
(* has that address as its verified primary one.  A save writes the fields *)
(* that differ from what was read into the document, and no other.         *)
(***************************************************************************)
EXTENDS Roles

CONSTANTS
    User,          \* the addresses an account can have
    Owner,         \* the one SUPER_ADMIN_EMAIL names
    Unborn         \* no account with that address

VARIABLE account   \* account[u]: the document of u

Status == {"pending_verification", "active", "suspended", "deleted"}

\* A session of such an account opens nothing (SessionService.resolve).
Denied == {"suspended", "deleted"}

AdminSettableStatus == {"active", "suspended"}

\* password: is passwordHash other than null?  clerk: is clerkUserId?
Account == [ verified : BOOLEAN,
             status   : Status,
             password : BOOLEAN,
             clerk    : BOOLEAN,
             role     : Role \cup {Unset},
             legacy   : SUBSET LegacyRole ]

UsersTypeOK == account \in [User -> Account \cup {Unborn}]

Exists(u) == account[u] # Unborn

IsStaff(doc) == EffectiveRole(doc) \in StaffRole

----------------------------------------------------------------------------

CreateLocal(u) ==
    account' = [account EXCEPT ![u] =
        [ verified |-> FALSE, status |-> "pending_verification", password |-> TRUE,
          clerk |-> FALSE, role |-> "buyer", legacy |-> {} ]]

CreateFromClerk(u) ==
    account' = [account EXCEPT ![u] =
        [ verified |-> TRUE, status |-> "active", password |-> FALSE,
          clerk |-> TRUE, role |-> "buyer", legacy |-> {} ]]

\* Mutant: any account becomes active.
ActivatedAlways(u, read) == "active"

\* The status a verified address leaves: only a pending one is written over.
Activated(u, read) ==
    IF read.status = "pending_verification" THEN "active" ELSE account[u].status

\* markEmailVerified.
SaveVerified(u, read) ==
    account' = [account EXCEPT ![u] = [@ EXCEPT !.verified = TRUE,
                                                !.status   = Activated(u, read)]]

\* A password set before the address was proven is dropped.
KeptPassword(u, read) == account[u].password /\ ~(read.password /\ ~read.verified)

\* upsertClerkUser, on an account that has the address.
SaveLink(u, read) ==
    account' = [account EXCEPT ![u] = [@ EXCEPT !.clerk    = TRUE,
                                                !.verified = TRUE,
                                                !.status   = Activated(u, read),
                                                !.password = KeptPassword(u, read)]]

SetPasswordHash(u) == account' = [account EXCEPT ![u].password = TRUE]

SoftDelete(u) == account' = [account EXCEPT ![u].status = "deleted"]

\* AdminUsersService.setStatus: nothing is written if the status read is the one
\* asked for.
SaveStatus(u, read, status) ==
    account' = [account EXCEPT ![u].status = IF read.status = status THEN @ ELSE status]

SetRole(u, role) ==
    account' = [account EXCEPT ![u] = [@ EXCEPT !.role = role, !.legacy = {}]]

\* The updateMany of the script, on one document.
Backfill(u) ==
    account' = [account EXCEPT ![u] = [@ EXCEPT !.role   = BackfilledRole(account[u].legacy),
                                                !.legacy = {}]]

\* Mutant: the address need not be verified.
EarnsPrimeUnverified(u, doc) ==
    /\ u = Owner
    /\ doc.status = "active"
    /\ EffectiveRole(doc) # "admin_prime"

\* ensureAdminPrime: the document read is the owner's, proven, active, and not
\* prime yet.
EarnsPrime(u, doc) ==
    /\ u = Owner
    /\ doc.verified
    /\ doc.status = "active"
    /\ EffectiveRole(doc) # "admin_prime"
============================================================================
