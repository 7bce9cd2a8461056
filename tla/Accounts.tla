----------------------------- MODULE Accounts -----------------------------
(***************************************************************************)
(* Accounts, the sessions opened on them and the tokens e-mailed for them  *)
(* (apps/api/src/auth, users, admin): every request of a handful is served *)
(* as a sequence of single database operations, so two requests interleave *)
(* between any two of them, and a request may die after any of them.       *)
(* No transaction spans two documents here, and no save checks that the    *)
(* document is still the one it read.                                      *)
(***************************************************************************)
EXTENDS FiniteSets, Users, Sessions, AuthTokens

CONSTANTS
    Slot,          \* requests being served at the same time
    Offered,       \* the routes each user uses in this instance
    Founders,      \* accounts of staff, older than the single role
    LegacyArrays,  \* the arrays of roles such an account may carry
    None           \* no value

Route == { "register", "login", "bridge", "webhook", "verify", "resend", "forgot",
           "reset", "becomeSeller", "setStatus", "assignRole" }

ASSUME OfferedAssumption == Offered \in [User -> SUBSET Route]
ASSUME FoundersAssumption == Founders \subseteq User \ {Owner}
ASSUME LegacyAssumption == LegacyArrays \subseteq SUBSET LegacyRole

VARIABLES
    pc,            \* the database operation the request in a slot does next
    req,           \* that request, with what it read
    lapsed         \* lapsed[u]: a request ended between cutting u off and revoking

requests == <<pc, req>>
vars     == <<account, session, token, pc, req, lapsed>>

Step == { "idle", "create", "supersede", "createToken", "open", "findByEmail", "link",
          "insert", "recover", "revoke", "elevate", "mark", "save", "reread",
          "setPassword", "authenticate", "findTarget", "saveStatus", "write" }

\* `overtaken`: since this request read who its account is, the account was cut
\* off from earlier sessions, registered or denied.  `raced`: as in a token.  Both
\* date the request; no action looks at them.
Request == [ route     : Route,
             user      : User,                                  \* whom it is about
             by        : User,                                  \* whose session it carries
             byPrime   : BOOLEAN,                               \* what the guards read of `by`
             read      : Account \cup {Unborn},                 \* the last document read
             goal      : AdminSettableStatus \cup Role \cup {None},
             overtaken : BOOLEAN,
             raced     : BOOLEAN ]

\* What stands for a missing value is none of the values.
ASSUME ValueAssumption ==
    /\ None \notin Request
    /\ Unborn \notin Account
    /\ Unset \notin Role
    /\ NoSession \notin Session(User)
    /\ NoToken \notin Token(User)

TypeOK ==
    /\ UsersTypeOK
    /\ session \in [SessionId -> Session(User) \cup {NoSession}]
    /\ token \in [TokenId -> Token(User) \cup {NoToken}]
    /\ pc \in [Slot -> Step]
    /\ req \in [Slot -> Request \cup {None}]
    /\ \A s \in Slot : pc[s] = "idle" <=> req[s] = None
    /\ lapsed \in [User -> BOOLEAN]

Init ==
    /\ account \in [User -> {Unborn} \cup
           [ verified : {TRUE}, status : {"active"}, password : {TRUE}, clerk : {FALSE},
             role : {Unset}, legacy : LegacyArrays ]]
    /\ \A u \in User : Exists(u) <=> u \in Founders
    /\ session \in [SessionId -> {NoSession} \cup [user : Founders, stale : {FALSE}]]
    /\ \A u \in Founders : Cardinality(SessionsOf(u)) = 1
    /\ token = [i \in TokenId |-> NoToken]
    /\ pc = [s \in Slot |-> "idle"]
    /\ req = [s \in Slot |-> None]
    /\ lapsed = [u \in User |-> FALSE]

----------------------------------------------------------------------------
(* How a request moves.                                                    *)

NewRequest(route, u) ==
    [ route |-> route, user |-> u, by |-> u, byPrime |-> FALSE, read |-> Unborn,
      goal |-> None, overtaken |-> FALSE, raced |-> FALSE ]

\* The request arrives, and next does `step`.
Serve(s, step, r) ==
    /\ r.route \in Offered[r.by]
    /\ pc[s] = "idle"
    /\ pc' = [pc EXCEPT ![s] = step]
    /\ req' = [req EXCEPT ![s] = r]

Continue(s, step) == pc' = [pc EXCEPT ![s] = step]

Reading(s, doc) == req' = [req EXCEPT ![s].read = doc]

\* The routes that act on what the request read of its own account.
Trusting == {"register", "login", "bridge", "webhook", "verify"}

\* The requests, once what happened to u has overtaken these `others` on u.
Overtaken(others, u) ==
    [t \in Slot |->
        IF t \in others /\ pc[t] # "idle" /\ req[t].user = u /\ req[t].route \in Trusting
        THEN [req[t] EXCEPT !.overtaken = TRUE] ELSE req[t]]

\* Mutant: the request is not cleared away.
AnswerAndKeep(s) ==
    /\ pc' = [pc EXCEPT ![s] = "idle"]
    /\ UNCHANGED req

Answer(s) ==
    /\ pc' = [pc EXCEPT ![s] = "idle"]
    /\ req' = [req EXCEPT ![s] = None]

\* A request ends with the sessions it was to revoke still open.
LeaveOpen(u) == lapsed' = [lapsed EXCEPT ![u] = SessionsOf(u) # {}]

\* To the session of a sign-in, by way of the owner's role when it is due.
SignIn(s, doc) == Continue(s, IF EarnsPrime(req[s].user, doc) THEN "elevate" ELSE "open")

----------------------------------------------------------------------------
(* AuthController: register, login, logout.                                *)

\* createLocal found nobody with that address.
Register(s, u) ==
    /\ ~Exists(u)
    /\ Serve(s, "create", NewRequest("register", u))
    /\ UNCHANGED <<account, session, token, lapsed>>

\* An account created since then makes the insert fail, and the request with it.
CreateAccount(s) ==
    LET u == req[s].user IN
    /\ pc[s] = "create"
    /\ IF Exists(u)
       THEN UNCHANGED account /\ Answer(s)
       ELSE CreateLocal(u) /\ Continue(s, "supersede") /\ req' = Overtaken(Slot \ {s}, u)
    /\ UNCHANGED <<session, token, lapsed>>

\* Mutant: the status is not looked at.
LoginWhateverStatus(s, u) ==
    /\ Exists(u)
    /\ account[u].password
    /\ Serve(s, IF EarnsPrime(u, account[u]) THEN "elevate" ELSE "open", NewRequest("login", u))
    /\ UNCHANGED <<account, session, token, lapsed>>

\* The password and the status are those of one read.
Login(s, u) ==
    /\ Exists(u)
    /\ account[u].password
    /\ account[u].status \notin Denied
    /\ Serve(s, IF EarnsPrime(u, account[u]) THEN "elevate" ELSE "open", NewRequest("login", u))
    /\ UNCHANGED <<account, session, token, lapsed>>

\* setRole, where ensureAdminPrime asked for it.
Elevate(s) ==
    /\ pc[s] = "elevate"
    /\ SetRole(req[s].user, "admin_prime")
    /\ IF req[s].route = "verify" THEN Answer(s) ELSE Continue(s, "open") /\ UNCHANGED req
    /\ UNCHANGED <<session, token, lapsed>>

\* startSession.
OpenSession(s) ==
    /\ pc[s] = "open"
    /\ Issue(req[s].user)
    /\ Answer(s)
    /\ UNCHANGED <<account, token, lapsed>>

\* Needs the raw token and nothing else; or thirty days pass.
Logout(i) ==
    /\ Revoke(i)
    /\ UNCHANGED <<account, token, pc, req, lapsed>>

----------------------------------------------------------------------------
(* AuthTokenService and AccountFlowsService.                               *)

PurposeOf(route) == IF route = "forgot" THEN "password_reset" ELSE "email_verify"

Resend(s, u) ==
    /\ Exists(u)
    /\ ~account[u].verified
    /\ Serve(s, "supersede", NewRequest("resend", u))
    /\ UNCHANGED <<account, session, token, lapsed>>

ForgotPassword(s, u) ==
    /\ Exists(u)
    /\ account[u].password
    /\ Serve(s, "supersede", NewRequest("forgot", u))
    /\ UNCHANGED <<account, session, token, lapsed>>

SupersedeTokens(s) ==
    /\ pc[s] = "supersede"
    /\ Supersede(req[s].user, PurposeOf(req[s].route))
    /\ Continue(s, "createToken")
    /\ UNCHANGED <<account, session, req, lapsed>>

\* After the mail a registration opens its session; the others are done.
Mailed(s) == pc' = [pc EXCEPT ![s] = IF req[s].route = "register" THEN "open" ELSE "idle"]

\* The token of s exists: it came between the two operations of these others.
Raced(s) ==
    [t \in Slot |->
        IF t = s THEN IF req[s].route = "register" THEN req[s] ELSE None
        ELSE IF /\ pc[t] = "createToken"
                /\ req[t].user = req[s].user
                /\ PurposeOf(req[t].route) = PurposeOf(req[s].route)
             THEN [req[t] EXCEPT !.raced = TRUE] ELSE req[t]]

CreateToken(s) ==
    /\ pc[s] = "createToken"
    /\ Create(req[s].user, PurposeOf(req[s].route), req[s].raced)
    /\ Mailed(s)
    /\ req' = Raced(s)
    /\ UNCHANGED <<account, session, lapsed>>

\* Issuing the token fails; a registration goes on without it.
MailFails(s) ==
    /\ pc[s] \in {"supersede", "createToken"}
    /\ req[s].route = "register"
    /\ Continue(s, "open")
    /\ UNCHANGED <<account, session, token, req, lapsed>>

ExpireToken(i) ==
    /\ i \in Redeemable
    /\ Spend(i)
    /\ UNCHANGED <<account, session, pc, req, lapsed>>

\* consume spends the token before anything is done with it.
VerifyEmail(s, i) ==
    /\ i \in Redeemable
    /\ token[i].purpose = "email_verify"
    /\ Spend(i)
    /\ Serve(s, "mark", NewRequest("verify", token[i].user))
    /\ UNCHANGED <<account, session, lapsed>>

ReadToMark(s) ==
    /\ pc[s] = "mark"
    /\ Reading(s, account[req[s].user])
    /\ Continue(s, "save")
    /\ UNCHANGED <<account, session, token, lapsed>>

MarkVerified(s) ==
    /\ pc[s] = "save"
    /\ SaveVerified(req[s].user, req[s].read)
    /\ Continue(s, "reread")
    /\ Reading(s, Unborn)
    /\ UNCHANGED <<session, token, lapsed>>

\* verifyEmail reads the account again before it offers it the owner's role.
Reread(s) ==
    LET u == req[s].user IN
    /\ pc[s] = "reread"
    /\ IF EarnsPrime(u, account[u])
       THEN Continue(s, "elevate") /\ UNCHANGED req
       ELSE Answer(s)
    /\ UNCHANGED <<account, session, token, lapsed>>

ResetPassword(s, i) ==
    /\ i \in Redeemable
    /\ token[i].purpose = "password_reset"
    /\ Spend(i)
    /\ Serve(s, "setPassword", NewRequest("reset", token[i].user))
    /\ UNCHANGED <<account, session, lapsed>>

\* Mutant: the sessions are left alone.
SetPasswordOnly(s) ==
    LET u == req[s].user IN
    /\ pc[s] = "setPassword"
    /\ SetPasswordHash(u)
    /\ Date(u)
    /\ pc' = [pc EXCEPT ![s] = "idle"]
    /\ req' = [Overtaken(Slot \ {s}, u) EXCEPT ![s] = None]
    /\ UNCHANGED <<token, lapsed>>

SetPassword(s) ==
    LET u == req[s].user IN
    /\ pc[s] = "setPassword"
    /\ SetPasswordHash(u)
    /\ Date(u)
    /\ Continue(s, "revoke")
    /\ req' = Overtaken(Slot \ {s}, u)
    /\ UNCHANGED <<token, lapsed>>

\* revokeAllForUser; a sign-in goes on, every other request is done.
RevokeSessions(s) ==
    LET u == req[s].user IN
    /\ pc[s] = "revoke"
    /\ RevokeAllForUser(u)
    /\ lapsed' = [lapsed EXCEPT ![u] = FALSE]
    /\ IF req[s].route = "bridge"
       THEN SignIn(s, req[s].read) /\ Reading(s, Unborn)
       ELSE Answer(s)
    /\ UNCHANGED <<account, token>>

----------------------------------------------------------------------------
(* Clerk: the session bridge and the webhook, through upsertClerkUser.     *)

\* The upsert is over, with the document `doc` it returns; `dropped`: it proved
\* an address nobody had, and the sessions from before are to go.  The bridge
\* refuses a denied account first.
Upserted(s, doc, dropped, others) ==
    LET u == req[s].user IN
    CASE req[s].route = "bridge" /\ doc.status \in Denied ->
             /\ pc' = [pc EXCEPT ![s] = "idle"]
             /\ req' = [others EXCEPT ![s] = None]
             /\ IF dropped THEN LeaveOpen(u) ELSE UNCHANGED lapsed
      [] ~(req[s].route = "bridge" /\ doc.status \in Denied) /\ dropped ->
             /\ Continue(s, "revoke")
             /\ req' = [others EXCEPT ![s].read = doc]
             /\ UNCHANGED lapsed
      [] req[s].route = "bridge" /\ doc.status \notin Denied /\ ~dropped ->
             /\ SignIn(s, doc)
             /\ req' = [others EXCEPT ![s].read = Unborn]
             /\ UNCHANGED lapsed
      [] OTHER ->
             /\ pc' = [pc EXCEPT ![s] = "idle"]
             /\ req' = [others EXCEPT ![s] = None]
             /\ UNCHANGED lapsed

\* Nobody is linked to the identity: the upsert looks for the address next.
UpsertUnlinked(s, route, u) ==
    /\ ~(Exists(u) /\ account[u].clerk)
    /\ Serve(s, "findByEmail", NewRequest(route, u))
    /\ UNCHANGED <<account, session, token, lapsed>>

\* An account that is linked already is signed in, unless it is denied; for the
\* webhook there is nothing to do.
BridgeLinked(s, u) ==
    /\ Exists(u)
    /\ account[u].clerk
    /\ account[u].status \notin Denied
    /\ Serve(s, IF EarnsPrime(u, account[u]) THEN "elevate" ELSE "open", NewRequest("bridge", u))
    /\ UNCHANGED <<account, session, token, lapsed>>

FindByEmail(s) ==
    LET u == req[s].user IN
    /\ pc[s] = "findByEmail"
    /\ Continue(s, IF Exists(u) THEN "link" ELSE "insert")
    /\ Reading(s, account[u])
    /\ UNCHANGED <<account, session, token, lapsed>>

\* The document the save leaves in memory: what was read, with the changes.
LinkedDoc(read) ==
    [read EXCEPT !.clerk    = TRUE,
                 !.verified = TRUE,
                 !.password = @ /\ read.verified,
                 !.status   = IF @ = "pending_verification" THEN "active" ELSE @]

Link(s) ==
    LET u    == req[s].user
        read == req[s].read
    IN
    /\ pc[s] = "link"
    /\ SaveLink(u, read)
    /\ IF read.verified
       THEN UNCHANGED session /\ Upserted(s, LinkedDoc(read), FALSE, req)
       ELSE Date(u) /\ Upserted(s, LinkedDoc(read), TRUE, Overtaken(Slot \ {s}, u))
    /\ UNCHANGED token

\* A unique index refuses the insert if the address has an account by now.
InsertFromClerk(s) ==
    LET u == req[s].user IN
    /\ pc[s] = "insert"
    /\ IF Exists(u)
       THEN /\ Continue(s, "recover")
            /\ UNCHANGED <<account, req, lapsed>>
       ELSE /\ CreateFromClerk(u)
            /\ Upserted(s, account'[u], FALSE, Overtaken(Slot \ {s}, u))
    /\ UNCHANGED <<session, token>>

\* The winner is found by its Clerk id or by its address, and returned as it is.
Recover(s) ==
    /\ pc[s] = "recover"
    /\ Upserted(s, account[req[s].user], FALSE, req)
    /\ UNCHANGED <<account, session, token>>

\* Clerk's user.deleted: no session is revoked.
MirrorDeletion(u) ==
    /\ "webhook" \in Offered[u]
    /\ Exists(u)
    /\ account[u].clerk
    /\ account[u].status # "deleted"
    /\ SoftDelete(u)
    /\ req' = Overtaken(Slot, u)
    /\ UNCHANGED <<session, token, pc, lapsed>>

----------------------------------------------------------------------------
(* Routes behind SessionAuthGuard: becomeSeller, setStatus, assignRole.    *)

\* The guard finds the session by its token, and then its user.
Present(s, route, by, u, goal) ==
    /\ SessionsOf(by) # {}
    /\ Serve(s, "authenticate",
             [NewRequest(route, u) EXCEPT !.by = by, !.goal = goal])
    /\ UNCHANGED <<account, session, token, lapsed>>

BecomeSeller(s, u) == Present(s, "becomeSeller", u, u, "seller")

SetStatus(s, by, u, status) == Present(s, "setStatus", by, u, status)

AssignRole(s, by, u, role) == Present(s, "assignRole", by, u, role)

\* What RolesGuard asks for, and the buyer becomeSeller has something to do for.
MayPass(route, doc) ==
    CASE route = "becomeSeller" -> EffectiveRole(doc) = "buyer"
      [] route = "setStatus"    -> RoleCapabilities(EffectiveRole(doc)) \cap {"admin", "admin_prime"} # {}
      [] OTHER                  -> "admin_prime" \in RoleCapabilities(EffectiveRole(doc))

Authenticate(s) ==
    LET doc == account[req[s].by] IN
    /\ pc[s] = "authenticate"
    /\ IF doc.status \in Denied \/ ~MayPass(req[s].route, doc)
       THEN Answer(s)
       ELSE IF req[s].route = "becomeSeller"
       THEN Continue(s, "write") /\ Reading(s, doc)
       ELSE /\ Continue(s, "findTarget")
            /\ req' = [req EXCEPT ![s].byPrime = EffectiveRole(doc) = "admin_prime"]
    /\ UNCHANGED <<account, session, token, lapsed>>

\* Mutant: staff may be managed by any other staff.
MayManageAnyone(r, target) == r.user # r.by

\* Nobody manages themselves, and staff are managed by the prime alone.
MayManage(r, target) ==
    /\ r.user # r.by
    /\ r.route = "assignRole" \/ ~IsStaff(target) \/ r.byPrime

FindTarget(s) ==
    LET u == req[s].user IN
    /\ pc[s] = "findTarget"
    /\ IF Exists(u) /\ MayManage(req[s], account[u])
       THEN /\ Continue(s, IF req[s].route = "setStatus" THEN "saveStatus" ELSE "write")
            /\ Reading(s, account[u])
       ELSE Answer(s)
    /\ UNCHANGED <<account, session, token, lapsed>>

SaveAccountStatus(s) ==
    LET u == req[s].user IN
    /\ pc[s] = "saveStatus"
    /\ SaveStatus(u, req[s].read, req[s].goal)
    /\ IF req[s].goal = "suspended"
       THEN Date(u) /\ Continue(s, "revoke") /\ req' = Overtaken(Slot \ {s}, u)
       ELSE UNCHANGED session /\ Answer(s)
    /\ UNCHANGED <<token, lapsed>>

WriteRole(s) ==
    /\ pc[s] = "write"
    /\ SetRole(req[s].user, req[s].goal)
    /\ Answer(s)
    /\ UNCHANGED <<session, token, lapsed>>

----------------------------------------------------------------------------

\* scripts/backfill-single-role reaches u.
BackfillRole(u) ==
    /\ Exists(u)
    /\ account[u].role = Unset
    /\ Backfill(u)
    /\ UNCHANGED <<session, token, pc, req, lapsed>>

\* The next operation fails, or the process dies.
Abort(s) ==
    /\ pc[s] # "idle"
    /\ Answer(s)
    /\ IF pc[s] = "revoke" THEN LeaveOpen(req[s].user) ELSE UNCHANGED lapsed
    /\ UNCHANGED <<account, session, token>>

Arrive(s) ==
    \/ \E u \in User :
           \/ Register(s, u) \/ Login(s, u) \/ BridgeLinked(s, u)
           \/ \E route \in {"bridge", "webhook"} : UpsertUnlinked(s, route, u)
           \/ Resend(s, u) \/ ForgotPassword(s, u) \/ BecomeSeller(s, u)
           \/ \E by \in User :
                  \/ \E status \in AdminSettableStatus : SetStatus(s, by, u, status)
                  \/ \E role \in AssignableRole : AssignRole(s, by, u, role)
    \/ \E i \in TokenId : VerifyEmail(s, i) \/ ResetPassword(s, i)

Proceed(s) ==
    \/ CreateAccount(s) \/ SupersedeTokens(s) \/ CreateToken(s) \/ MailFails(s)
    \/ FindByEmail(s) \/ Link(s) \/ InsertFromClerk(s) \/ Recover(s)
    \/ ReadToMark(s) \/ MarkVerified(s) \/ Reread(s) \/ Elevate(s)
    \/ SetPassword(s) \/ RevokeSessions(s) \/ OpenSession(s)
    \/ Authenticate(s) \/ FindTarget(s) \/ SaveAccountStatus(s) \/ WriteRole(s)

Next ==
    \/ \E s \in Slot : Arrive(s) \/ Proceed(s) \/ Abort(s)
    \/ \E i \in SessionId : Logout(i)
    \/ \E i \in TokenId : ExpireToken(i)
    \/ \E u \in User : MirrorDeletion(u) \/ BackfillRole(u)

Spec == Init /\ [][Next]_vars

----------------------------------------------------------------------------
(* Properties.                                                             *)

\* Once an account is cut off from its earlier sessions (a password is reset, the
\* account suspended, its unproven address proven through Clerk), those sessions
\* are gone as soon as the request that cut it off has revoked them: one outlives
\* the revocation only where that request ended before it.  "a reset always ends
\* other sessions" (account-flows.service.ts 109-110) has no such exception, and is
\* not so for a request that dies between the two writes.
EarlierSessionsEnd ==
    \A i \in Live :
        session[i].stale =>
            \/ \E s \in Slot : pc[s] = "revoke" /\ req[s].user = session[i].user
            \/ lapsed[session[i].user]

\* A sign-in reaches its session on a suspended or deleted account only if the
\* account was denied after the sign-in had read it; and a sign-in through Clerk
\* reaches it on an account that is not linked only if someone registered the
\* address meanwhile.
SignInsAreVouchedFor ==
    \A s \in Slot :
        pc[s] = "open" =>
            LET doc == account[req[s].user] IN
            /\ doc.status \in Denied => req[s].overtaken
            /\ req[s].route = "bridge" /\ ~doc.clerk => req[s].overtaken

\* Two e-mailed links of one purpose work at once only if the later token's
\* updateMany came before the earlier token was created.  That they then do is not
\* what auth-token.service.ts 17-19 says: "only the most recently emailed link works".
LiveTokensOnlyByOverlap ==
    \A i, j \in Redeemable :
        /\ i # j
        /\ token[i].user = token[j].user
        /\ token[i].purpose = token[j].purpose
        => token[i].raced \/ token[j].raced

\* The prime's role is on nobody but the owner of SUPER_ADMIN_EMAIL, and on them
\* only once the address is proven, whatever a sign-in had read; an account that
\* had the role before the single role keeps it.
PrimeOnlyIfProven ==
    \A u \in User :
        Exists(u) /\ EffectiveRole(account[u]) = "admin_prime" =>
            u \in Founders \/ (u = Owner /\ account[u].verified)

\* A suspension or deletion is lifted by a staff decision alone, or by a request
\* that read the account, still pending, before it was denied.  The second is not what
\* users.service.ts 81-82 says of markEmailVerified: "Never downgrades an
\* already-active/suspended/deleted status".
DenialsHold ==
    [][\A u \in User :
           /\ Exists(u) /\ account[u].status \in Denied
           /\ account'[u].status \notin Denied
           => \E s \in Slot :
                  /\ pc'[s] # pc[s]
                  /\ req[s].user = u
                  /\ \/ pc[s] = "saveStatus"
                     \/ req[s].read.status = "pending_verification" /\ req[s].overtaken]_vars

\* Staff lose their role or are suspended only at the hand of the prime, or by a
\* request that read the account before it was staff's.  Among these is becomeSeller,
\* of which me.controller.ts 16-19 says that it "can never DEMOTE staff by overwriting
\* their role".
OnlyPrimeActsOnStaff ==
    [][\A u \in User :
           /\ Exists(u) /\ IsStaff(account[u])
           /\ \/ ~IsStaff(account'[u])
              \/ account'[u].status = "suspended" /\ account[u].status # "suspended"
           => \E s \in Slot :
                  /\ pc'[s] # pc[s]
                  /\ req[s].user = u
                  /\ req[s].byPrime \/ ~IsStaff(req[s].read)]_vars
============================================================================
