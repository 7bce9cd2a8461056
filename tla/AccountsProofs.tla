--------------------------- MODULE AccountsProofs ---------------------------
(***************************************************************************)
(* Proofs about Accounts, for any number of accounts, sessions, tokens and *)
(* requests, and any routes in use.  The properties say what a request may *)
(* do that acts on a document it read earlier; the invariant they rest on  *)
(* says what a request under way knows about its account, step by step.    *)
(***************************************************************************)
EXTENDS Accounts, TLAPS

\* The steps at which the account a request is about is known to be there.
OnAccount == { "supersede", "createToken", "open", "link", "recover", "revoke", "elevate",
               "mark", "save", "reread", "setPassword", "saveStatus", "write" }

\* Which routes lead to a step.
OnRoute(step, r) ==
    /\ step = "create" => r.route = "register"
    /\ step \in {"supersede", "createToken"} => r.route \in {"register", "resend", "forgot"}
    /\ step \in {"findByEmail", "link", "insert", "recover"} => r.route \in {"bridge", "webhook"}
    /\ step \in {"mark", "save", "reread"} => r.route = "verify"
    /\ step = "setPassword" => r.route = "reset"
    /\ step \in {"open", "elevate"} => r.route \in {"register", "login", "bridge", "verify"}
    /\ step = "authenticate" => r.route \in {"becomeSeller", "setStatus", "assignRole"}
    /\ step = "findTarget" => r.route \in {"setStatus", "assignRole"}
    /\ step = "saveStatus" => r.route = "setStatus"
    /\ step = "write" => r.route \in {"becomeSeller", "assignRole"}
    /\ r.route = "setStatus" => r.goal \in AdminSettableStatus
    /\ r.route \in {"becomeSeller", "assignRole"} => r.goal \in AssignableRole
    /\ r.route = "becomeSeller" => r.by = r.user

\* What a step needs is there.
Grounded(acct, step, r) ==
    /\ step \in OnAccount => acct[r.user] # Unborn
    /\ step = "authenticate" => acct[r.by] # Unborn
    /\ step \in {"link", "save", "saveStatus"} => r.read \in Account
    /\ step = "revoke" /\ r.route = "bridge" => r.read \in Account

\* A sign-in that has passed the check of its account's status.
Admitted(step, r) ==
    \/ step \in {"open", "elevate"}
    \/ step = "revoke" /\ r.route = "bridge"
    \/ step \in {"supersede", "createToken"} /\ r.route = "register"

\* A request that holds something against what the account is by now was overtaken.
Dated(acct, step, r) ==
    /\ Admitted(step, r) /\ acct[r.user].status \in Denied => r.overtaken
    /\ step \in {"link", "save"} /\ acct[r.user].status \in Denied =>
           r.overtaken \/ r.read.status \in Denied
    /\ \/ step \in {"insert", "recover"} /\ acct[r.user] # Unborn
       \/ Admitted(step, r) /\ r.route = "bridge"
       => acct[r.user].clerk \/ r.overtaken

\* On the way to the prime's role, the owner's address is proven.
Proven(acct, step, r) ==
    /\ step = "elevate" => r.user = Owner /\ acct[r.user].verified
    /\ step = "revoke" /\ r.route = "bridge" => acct[r.user].verified

\* A decision on somebody has passed the checks on who decides it.
Entitled(step, r) ==
    /\ step = "write" /\ r.route = "becomeSeller" => ~IsStaff(r.read)
    /\ step \in {"findTarget", "write"} /\ r.route = "assignRole" => r.byPrime
    /\ step = "saveStatus" => r.byPrime \/ ~IsStaff(r.read)

Fits(acct, step, r) ==
    /\ OnRoute(step, r)
    /\ Grounded(acct, step, r)
    /\ Dated(acct, step, r)
    /\ Proven(acct, step, r)
    /\ Entitled(step, r)

RequestsFit == \A t \in Slot : pc[t] # "idle" => Fits(account, pc[t], req[t])

\* Sessions and tokens belong to accounts.
Owned ==
    /\ \A i \in Live : Exists(session[i].user)
    /\ \A i \in Redeemable : Exists(token[i].user)

\* Between the two operations of a request that no other overlapped, no token of its
\* purpose can be redeemed.
Superseded ==
    \A t \in Slot :
        pc[t] = "createToken" /\ ~req[t].raced =>
            TokensFor(req[t].user, PurposeOf(req[t].route)) = {}

IInv ==
    /\ TypeOK
    /\ RequestsFit
    /\ Owned
    /\ Superseded
    /\ LiveTokensOnlyByOverlap
    /\ EarlierSessionsEnd
    /\ PrimeOnlyIfProven

----------------------------------------------------------------------------
(* Roles.                                                                  *)

LEMMA HighestRole ==
    ASSUME NEW roles \in SUBSET Role, NEW r \in roles, \A q \in roles : Rank[q] <= Rank[r]
    PROVE  (CHOOSE x \in roles : \A q \in roles : Rank[q] <= Rank[x]) = r
<1> DEFINE Highest(x) == \A q \in roles : Rank[q] <= Rank[x]
<1>1. \A x \in roles : Highest(x) => x = r
  BY DEF Role, Rank
<1>2. Highest(r)
  OBVIOUS
<1>3. /\ (CHOOSE x \in roles : Highest(x)) \in roles
      /\ Highest(CHOOSE x \in roles : Highest(x))
  BY <1>2
<1> QED
  BY <1>1, <1>3

\* The script and the read-time fallback agree on every legacy array: the script's
\* $switch, branch by branch, is the highest of the roles that the fallback finds
\* (scripts/backfill-single-role.ts, packages/types effectiveRole).
THEOREM BackfillKeepsRole ==
    \A legacy \in SUBSET LegacyRole : BackfilledRole(legacy) = CollapseLegacyRoles(legacy)
<1> SUFFICES ASSUME NEW legacy \in SUBSET LegacyRole
             PROVE  BackfilledRole(legacy) = CollapseLegacyRoles(legacy)
  OBVIOUS
<1> DEFINE roles == {Renamed(raw) : raw \in legacy} \cap Role
<1>1. /\ "admin_prime" \in roles <=> "admin_prime" \in legacy \/ "super_admin" \in legacy
      /\ "admin" \in roles <=> "admin" \in legacy \/ "customer_support" \in legacy
      /\ "seller" \in roles <=> "seller" \in legacy
      /\ "buyer" \in roles <=> "buyer" \in legacy
  BY DEF Renamed, Role, LegacyRole
<1>2. roles \in SUBSET Role
  OBVIOUS
<1>3. CollapseLegacyRoles(legacy) =
          IF roles = {} THEN "buyer"
          ELSE CHOOSE r \in roles : \A q \in roles : Rank[q] <= Rank[r]
  BY DEF CollapseLegacyRoles
<1> HIDE DEF roles
<1>4. CASE "admin_prime" \in roles
  <2>1. \A q \in roles : Rank[q] <= Rank["admin_prime"]
    BY <1>2 DEF Role, Rank
  <2> QED
    BY <1>1, <1>2, <1>3, <1>4, <2>1, HighestRole DEF BackfilledRole
<1>5. CASE "admin_prime" \notin roles /\ "admin" \in roles
  <2>1. \A q \in roles : Rank[q] <= Rank["admin"]
    BY <1>2, <1>5 DEF Role, Rank
  <2> QED
    BY <1>1, <1>2, <1>3, <1>5, <2>1, HighestRole DEF BackfilledRole
<1>6. CASE "admin_prime" \notin roles /\ "admin" \notin roles /\ "seller" \in roles
  <2>1. \A q \in roles : Rank[q] <= Rank["seller"]
    BY <1>2, <1>6 DEF Role, Rank
  <2> QED
    BY <1>1, <1>2, <1>3, <1>6, <2>1, HighestRole DEF BackfilledRole
<1>7. CASE roles \subseteq {"buyer"}
  <2>1. CASE roles = {}
    BY <1>1, <1>3, <1>7, <2>1 DEF BackfilledRole
  <2>2. CASE roles = {"buyer"}
    <3>1. "buyer" \in roles /\ \A q \in roles : Rank[q] <= Rank["buyer"]
      BY <2>2 DEF Rank
    <3> QED
      BY <1>1, <1>2, <1>3, <1>7, <3>1, HighestRole DEF BackfilledRole
  <2> QED
    BY <1>7, <2>1, <2>2
<1> QED
  BY <1>2, <1>4, <1>5, <1>6, <1>7 DEF Role

LEMMA BackfilledIsRole == \A legacy : BackfilledRole(legacy) \in Role
BY DEF BackfilledRole, Role

----------------------------------------------------------------------------
(* The writes to an account, as what they leave of the document.           *)

\* Only the document of u is written, and there is one.
Only(u) ==
    /\ UsersTypeOK'
    /\ account'[u] \in Account
    /\ \A v \in User \ {u} : account'[v] = account[v]

\* The write keeps the role.
SameRole(u) == EffectiveRole(account'[u]) = EffectiveRole(account[u])

LEMMA RewriteOf ==
    ASSUME UsersTypeOK, NEW u \in User, NEW doc \in Account,
           account' = [account EXCEPT ![u] = doc]
    PROVE  Only(u) /\ account'[u] = doc
BY DEF UsersTypeOK, Only

LEMMA CreateLocalWrites ==
    ASSUME UsersTypeOK, NEW u \in User, CreateLocal(u)
    PROVE  /\ Only(u)
           /\ account'[u].status = "pending_verification"
           /\ ~IsStaff(account'[u])
           /\ EffectiveRole(account'[u]) = "buyer"
<1> DEFINE doc == [ verified |-> FALSE, status |-> "pending_verification", password |-> TRUE,
                    clerk |-> FALSE, role |-> "buyer", legacy |-> {} ]
<1>1. doc \in Account
  BY DEF Account, Status, Role
<1>2. account' = [account EXCEPT ![u] = doc]
  BY DEF CreateLocal
<1>3. EffectiveRole(doc) = "buyer"
  BY ValueAssumption DEF EffectiveRole, Role
<1>4. Only(u) /\ account'[u] = doc
  BY <1>1, <1>2, RewriteOf
<1> QED
  BY <1>3, <1>4 DEF IsStaff, StaffRole

LEMMA CreateFromClerkWrites ==
    ASSUME UsersTypeOK, NEW u \in User, CreateFromClerk(u)
    PROVE  /\ Only(u)
           /\ account'[u].status = "active"
           /\ account'[u].verified /\ account'[u].clerk
           /\ EffectiveRole(account'[u]) = "buyer"
<1> DEFINE doc == [ verified |-> TRUE, status |-> "active", password |-> FALSE,
                    clerk |-> TRUE, role |-> "buyer", legacy |-> {} ]
<1>1. doc \in Account
  BY DEF Account, Status, Role
<1>2. account' = [account EXCEPT ![u] = doc]
  BY DEF CreateFromClerk
<1>3. EffectiveRole(doc) = "buyer"
  BY ValueAssumption DEF EffectiveRole, Role
<1>4. Only(u) /\ account'[u] = doc
  BY <1>1, <1>2, RewriteOf
<1> QED
  BY <1>3, <1>4

LEMMA SaveVerifiedWrites ==
    ASSUME UsersTypeOK, NEW u \in User, Exists(u), NEW read, SaveVerified(u, read)
    PROVE  /\ Only(u) /\ SameRole(u)
           /\ account'[u].verified
           /\ account'[u].clerk = account[u].clerk
           /\ account'[u].status = Activated(u, read)
<1> DEFINE doc == [account[u] EXCEPT !.verified = TRUE, !.status = Activated(u, read)]
<1>1. account[u] \in Account
  BY DEF UsersTypeOK, Exists
<1>2. doc \in Account
  BY <1>1 DEF Account, Status, Activated
<1>3. account' = [account EXCEPT ![u] = doc]
  BY DEF SaveVerified, UsersTypeOK
<1>4. Only(u) /\ account'[u] = doc
  BY <1>2, <1>3, RewriteOf
<1> QED
  BY <1>1, <1>4 DEF Account, SameRole, EffectiveRole

LEMMA SaveLinkWrites ==
    ASSUME UsersTypeOK, NEW u \in User, Exists(u), NEW read, SaveLink(u, read)
    PROVE  /\ Only(u) /\ SameRole(u)
           /\ account'[u].verified /\ account'[u].clerk
           /\ account'[u].status = Activated(u, read)
<1> DEFINE doc == [account[u] EXCEPT !.clerk    = TRUE,
                                     !.verified = TRUE,
                                     !.status   = Activated(u, read),
                                     !.password = KeptPassword(u, read)]
<1>1. account[u] \in Account
  BY DEF UsersTypeOK, Exists
<1>2. KeptPassword(u, read) \in BOOLEAN
  BY <1>1 DEF Account, KeptPassword
<1>3. doc \in Account
  BY <1>1, <1>2 DEF Account, Status, Activated
<1>4. account' = [account EXCEPT ![u] = doc]
  BY DEF SaveLink, UsersTypeOK
<1>5. Only(u) /\ account'[u] = doc
  BY <1>3, <1>4, RewriteOf
<1> QED
  BY <1>1, <1>5 DEF Account, SameRole, EffectiveRole

LEMMA SetPasswordHashWrites ==
    ASSUME UsersTypeOK, NEW u \in User, Exists(u), SetPasswordHash(u)
    PROVE  /\ Only(u) /\ SameRole(u)
           /\ account'[u].verified = account[u].verified
           /\ account'[u].clerk = account[u].clerk
           /\ account'[u].status = account[u].status
<1> DEFINE doc == [account[u] EXCEPT !.password = TRUE]
<1>1. account[u] \in Account
  BY DEF UsersTypeOK, Exists
<1>2. doc \in Account
  BY <1>1 DEF Account
<1>3. account' = [account EXCEPT ![u] = doc]
  BY DEF SetPasswordHash, UsersTypeOK
<1>4. Only(u) /\ account'[u] = doc
  BY <1>2, <1>3, RewriteOf
<1> QED
  BY <1>1, <1>4 DEF Account, SameRole, EffectiveRole

LEMMA SoftDeleteWrites ==
    ASSUME UsersTypeOK, NEW u \in User, Exists(u), SoftDelete(u)
    PROVE  /\ Only(u) /\ SameRole(u)
           /\ account'[u].verified = account[u].verified
           /\ account'[u].clerk = account[u].clerk
           /\ account'[u].status = "deleted"
<1> DEFINE doc == [account[u] EXCEPT !.status = "deleted"]
<1>1. account[u] \in Account
  BY DEF UsersTypeOK, Exists
<1>2. doc \in Account
  BY <1>1 DEF Account, Status
<1>3. account' = [account EXCEPT ![u] = doc]
  BY DEF SoftDelete, UsersTypeOK
<1>4. Only(u) /\ account'[u] = doc
  BY <1>2, <1>3, RewriteOf
<1> QED
  BY <1>1, <1>4 DEF Account, SameRole, EffectiveRole

LEMMA SaveStatusWrites ==
    ASSUME UsersTypeOK, NEW u \in User, Exists(u), NEW read,
           NEW status \in AdminSettableStatus, SaveStatus(u, read, status)
    PROVE  /\ Only(u) /\ SameRole(u)
           /\ account'[u].verified = account[u].verified
           /\ account'[u].clerk = account[u].clerk
           /\ account'[u].status \in {account[u].status, status}
<1> DEFINE doc == [account[u] EXCEPT !.status = IF read.status = status THEN @ ELSE status]
<1>1. account[u] \in Account
  BY DEF UsersTypeOK, Exists
<1>2. doc \in Account
  BY <1>1 DEF Account, Status, AdminSettableStatus
<1>3. account' = [account EXCEPT ![u] = doc]
  BY DEF SaveStatus, UsersTypeOK
<1>4. Only(u) /\ account'[u] = doc
  BY <1>2, <1>3, RewriteOf
<1> QED
  BY <1>1, <1>4 DEF Account, SameRole, EffectiveRole

LEMMA SetRoleWrites ==
    ASSUME UsersTypeOK, NEW u \in User, Exists(u), NEW role \in Role, SetRole(u, role)
    PROVE  /\ Only(u)
           /\ EffectiveRole(account'[u]) = role
           /\ account'[u].verified = account[u].verified
           /\ account'[u].clerk = account[u].clerk
           /\ account'[u].status = account[u].status
<1> DEFINE doc == [account[u] EXCEPT !.role = role, !.legacy = {}]
<1>1. account[u] \in Account
  BY DEF UsersTypeOK, Exists
<1>2. doc \in Account
  BY <1>1 DEF Account
<1>3. account' = [account EXCEPT ![u] = doc]
  BY DEF SetRole, UsersTypeOK
<1>4. Only(u) /\ account'[u] = doc
  BY <1>2, <1>3, RewriteOf
<1>5. role # Unset
  BY ValueAssumption
<1> QED
  BY <1>1, <1>4, <1>5 DEF Account, EffectiveRole

LEMMA BackfillWrites ==
    ASSUME UsersTypeOK, NEW u \in User, Exists(u), account[u].role = Unset, Backfill(u)
    PROVE  /\ Only(u) /\ SameRole(u)
           /\ account'[u].verified = account[u].verified
           /\ account'[u].clerk = account[u].clerk
           /\ account'[u].status = account[u].status
<1> DEFINE role == BackfilledRole(account[u].legacy)
<1>1. role \in Role
  BY BackfilledIsRole
<1>2. SetRole(u, role)
  BY DEF Backfill, SetRole
<1>3. account[u].legacy \in SUBSET LegacyRole
  BY DEF UsersTypeOK, Exists, Account
<1>4. EffectiveRole(account[u]) = role
  BY <1>3, BackfillKeepsRole DEF EffectiveRole
<1> HIDE DEF role
<1> QED
  BY <1>1, <1>2, <1>4, SetRoleWrites DEF SameRole

----------------------------------------------------------------------------
(* Sessions and tokens.                                                    *)

SessionsTypeOK == session \in [SessionId -> Session(User) \cup {NoSession}]

TokensTypeOK == token \in [TokenId -> Token(User) \cup {NoToken}]

\* Sessions end, some are opened on accounts of `users`, and nothing else happens.
SessionsComeAndGo(users) ==
    /\ SessionsTypeOK'
    /\ \A i \in Live' : \/ i \in Live /\ session'[i] = session[i]
                        \/ session'[i].user \in users /\ ~session'[i].stale

\* Tokens are spent, and nothing else happens to them.
TokensGo ==
    /\ TokensTypeOK'
    /\ \A i \in Redeemable' : i \in Redeemable /\ token'[i] = token[i]

LEMMA SameSessions ==
    ASSUME SessionsTypeOK, UNCHANGED session
    PROVE  SessionsComeAndGo({})
BY DEF SessionsTypeOK, SessionsComeAndGo, Live

LEMMA IssueOpens ==
    ASSUME SessionsTypeOK, NEW u \in User, Issue(u)
    PROVE  SessionsComeAndGo({u})
<1>1. PICK i \in SessionId \ Live :
          session' = [session EXCEPT ![i] = [user |-> u, stale |-> FALSE]]
  BY DEF Issue
<1>2. [user |-> u, stale |-> FALSE] \in Session(User)
  BY DEF Session
<1> QED
  BY <1>1, <1>2 DEF SessionsTypeOK, SessionsComeAndGo, Live

LEMMA RevokeEnds ==
    ASSUME SessionsTypeOK, NEW i \in SessionId, Revoke(i)
    PROVE  SessionsComeAndGo({})
BY DEF Revoke, SessionsTypeOK, SessionsComeAndGo, Live

LEMMA RevokeAllEnds ==
    ASSUME SessionsTypeOK, NEW u, RevokeAllForUser(u)
    PROVE  /\ SessionsTypeOK'
           /\ \A i \in Live' : i \in Live /\ session'[i] = session[i] /\ session[i].user # u
BY DEF RevokeAllForUser, SessionsTypeOK, Live, SessionsOf

LEMMA DateMarks ==
    ASSUME SessionsTypeOK, NEW u, Date(u)
    PROVE  /\ SessionsTypeOK'
           /\ \A i \in Live' :
                  /\ i \in Live
                  /\ session'[i].user = session[i].user
                  /\ session[i].user # u => session'[i] = session[i]
<1>1. \A i \in Live : [session[i] EXCEPT !.stale = TRUE] \in Session(User)
                      /\ [session[i] EXCEPT !.stale = TRUE].user = session[i].user
  BY DEF SessionsTypeOK, Session, Live
<1> QED
  BY <1>1 DEF Date, SessionsTypeOK, Live, SessionsOf

LEMMA SameTokens ==
    ASSUME TokensTypeOK, UNCHANGED token
    PROVE  TokensGo
BY DEF TokensTypeOK, TokensGo, Redeemable

LEMMA SpendEnds ==
    ASSUME TokensTypeOK, NEW i \in TokenId, Spend(i)
    PROVE  TokensGo
BY DEF TokensTypeOK, TokensGo, Redeemable, Spend

LEMMA SupersedeEnds ==
    ASSUME TokensTypeOK, NEW u, NEW purpose, Supersede(u, purpose)
    PROVE  TokensGo /\ TokensFor(u, purpose)' = {}
BY DEF TokensTypeOK, TokensGo, Redeemable, Supersede, TokensFor

----------------------------------------------------------------------------
(* Requests.                                                               *)

\* Two requests that differ at most in what dates them.
Alike(r, q) ==
    /\ q \in Request
    /\ q.route = r.route /\ q.user = r.user /\ q.by = r.by /\ q.byPrime = r.byPrime
    /\ q.read = r.read /\ q.goal = r.goal
    /\ r.overtaken => q.overtaken
    /\ r.raced => q.raced

\* What may become of the accounts while q waits: if its own is denied, or registered
\* with a password, q is overtaken.
Later(acct, next, q) ==
    /\ \A w \in User : acct[w] # Unborn => next[w] # Unborn
    /\ acct[q.user] # Unborn =>
           /\ acct[q.user].verified => next[q.user].verified
           /\ acct[q.user].clerk => next[q.user].clerk
    /\ q.route \in Trusting /\ next[q.user] # Unborn =>
           /\ next[q.user].status \in Denied =>
                  q.overtaken \/ (acct[q.user] # Unborn /\ acct[q.user].status \in Denied)
           /\ acct[q.user] = Unborn => q.overtaken \/ next[q.user].clerk

\* A request that waits still fits its step.
LEMMA WaitingFits ==
    ASSUME NEW acct, NEW next, NEW step, NEW r \in Request, NEW q,
           Fits(acct, step, r), Alike(r, q), Later(acct, next, q)
    PROVE  Fits(next, step, q)
<1> USE DEF Alike, OnAccount
<1>0. r.user \in User /\ r.by \in User
  BY DEF Request
<1>1. OnRoute(step, q)
  BY DEF Fits, OnRoute
<1>2. Grounded(next, step, q)
  BY <1>0 DEF Fits, Grounded, Later
<1>3. Admitted(step, q) => Admitted(step, r) /\ q.route \in Trusting /\ acct[r.user] # Unborn
  BY DEF Fits, OnRoute, Grounded, Admitted, Trusting
<1>4. step \in {"link", "save", "insert", "recover"} => q.route \in Trusting
  BY DEF Fits, OnRoute, Trusting
<1>5. Admitted(step, q) /\ next[q.user].status \in Denied => q.overtaken
  BY <1>0, <1>3 DEF Fits, Dated, Later
<1>6. step \in {"link", "save"} /\ next[q.user].status \in Denied =>
          q.overtaken \/ q.read.status \in Denied
  BY <1>0, <1>4 DEF Fits, Dated, Grounded, Later
<1>7. \/ step \in {"insert", "recover"} /\ next[q.user] # Unborn
      \/ Admitted(step, q) /\ q.route = "bridge"
      => next[q.user].clerk \/ q.overtaken
  BY <1>0, <1>3, <1>4 DEF Fits, Dated, Later
<1>8. Dated(next, step, q)
  BY <1>5, <1>6, <1>7 DEF Dated
<1>9. Proven(next, step, q)
  BY <1>0 DEF Fits, Proven, Grounded, Later
<1>10. Entitled(step, q)
  BY DEF Fits, Entitled
<1> QED
  BY <1>1, <1>2, <1>8, <1>9, <1>10 DEF Fits

LEMMA AlikeItself == \A r \in Request : Alike(r, r)
BY DEF Alike

LEMMA RequestTypes ==
    ASSUME TypeOK, NEW t \in Slot
    PROVE  /\ pc[t] = "idle" => req[t] = None
           /\ pc[t] # "idle" => req[t] \in Request /\ req[t].user \in User
BY DEF TypeOK, Request

LEMMA OvertakenAlike ==
    ASSUME TypeOK, NEW others \in SUBSET Slot, NEW u, NEW t \in Slot
    PROVE  /\ pc[t] = "idle" => Overtaken(others, u)[t] = req[t]
           /\ pc[t] # "idle" => Alike(req[t], Overtaken(others, u)[t])
           /\ /\ pc[t] # "idle" /\ t \in others
              /\ req[t].user = u /\ req[t].route \in Trusting
              => Overtaken(others, u)[t].overtaken
           /\ t \notin others => Overtaken(others, u)[t] = req[t]
<1> DEFINE q == [req[t] EXCEPT !.overtaken = TRUE]
<1>1. CASE t \in others /\ pc[t] # "idle" /\ req[t].user = u /\ req[t].route \in Trusting
  <2>1. Overtaken(others, u)[t] = q
    BY <1>1 DEF Overtaken
  <2>2. req[t] \in Request
    BY <1>1, RequestTypes
  <2>3. Alike(req[t], q) /\ q.overtaken
    BY <2>2 DEF Alike, Request
  <2> QED
    BY <1>1, <2>1, <2>3
<1>2. CASE ~(t \in others /\ pc[t] # "idle" /\ req[t].user = u /\ req[t].route \in Trusting)
  <2>1. Overtaken(others, u)[t] = req[t]
    BY <1>2 DEF Overtaken
  <2> QED
    BY <1>2, <2>1, RequestTypes, AlikeItself
<1> QED
  BY <1>1, <1>2

LEMMA RacedAlike ==
    ASSUME TypeOK, NEW s \in Slot, NEW t \in Slot, t # s
    PROVE  /\ pc[t] = "idle" => Raced(s)[t] = req[t]
           /\ pc[t] # "idle" => Alike(req[t], Raced(s)[t])
           /\ /\ pc[t] = "createToken" /\ req[t].user = req[s].user
              /\ PurposeOf(req[t].route) = PurposeOf(req[s].route)
              => Raced(s)[t].raced
<1> DEFINE q == [req[t] EXCEPT !.raced = TRUE]
           Hit == /\ pc[t] = "createToken"
                  /\ req[t].user = req[s].user
                  /\ PurposeOf(req[t].route) = PurposeOf(req[s].route)
<1>1. CASE Hit
  <2>1. Raced(s)[t] = q
    BY <1>1 DEF Raced
  <2>2. req[t] \in Request
    BY <1>1, RequestTypes
  <2>3. Alike(req[t], q) /\ q.raced
    BY <2>2 DEF Alike, Request
  <2> QED
    BY <1>1, <2>1, <2>3
<1>2. CASE ~Hit
  <2>1. Raced(s)[t] = req[t]
    BY <1>2 DEF Raced
  <2> QED
    BY <1>2, <2>1, RequestTypes, AlikeItself
<1> QED
  BY <1>1, <1>2

\* The requests other than those in S stay where they are, and may be dated.
OthersWait(S) ==
    \A t \in Slot \ S :
        /\ pc'[t] = pc[t]
        /\ pc[t] = "idle" => req'[t] = req[t]
        /\ pc[t] # "idle" => Alike(req[t], req'[t]) /\ Later(account, account', req'[t])

\* The request in s is answered, or fits the step it comes to.
Settles(s) ==
    \/ pc'[s] = "idle" /\ req'[s] = None
    \/ /\ pc'[s] \in Step \ {"idle"}
       /\ req'[s] \in Request
       /\ Fits(account', pc'[s], req'[s])

Moves(S) ==
    /\ DOMAIN pc' = Slot /\ pc' = [t \in Slot |-> pc'[t]]
    /\ DOMAIN req' = Slot /\ req' = [t \in Slot |-> req'[t]]
    /\ OthersWait(S)
    /\ \A s \in S : Settles(s)

LEMMA MovesFit ==
    ASSUME TypeOK, RequestsFit, NEW S \in SUBSET Slot, Moves(S)
    PROVE  /\ pc' \in [Slot -> Step]
           /\ req' \in [Slot -> Request \cup {None}]
           /\ \A t \in Slot : pc'[t] = "idle" <=> req'[t] = None
           /\ RequestsFit'
<1>0. None \notin Request
  BY ValueAssumption
<1>1. ASSUME NEW t \in Slot
      PROVE  /\ pc'[t] \in Step
             /\ req'[t] \in Request \cup {None}
             /\ pc'[t] = "idle" <=> req'[t] = None
             /\ pc'[t] # "idle" => Fits(account', pc'[t], req'[t])
  <2>1. CASE t \in S
    <3>1. Settles(t)
      BY <2>1 DEF Moves
    <3> QED
      BY <1>0, <3>1 DEF Settles, Step
  <2>2. CASE t \notin S /\ pc[t] = "idle"
    <3>1. pc'[t] = pc[t] /\ req'[t] = req[t]
      BY <2>2 DEF Moves, OthersWait
    <3> QED
      BY <2>2, <3>1 DEF TypeOK
  <2>3. CASE t \notin S /\ pc[t] # "idle"
    <3>1. /\ pc'[t] = pc[t]
          /\ Alike(req[t], req'[t]) /\ Later(account, account', req'[t])
      BY <2>3 DEF Moves, OthersWait
    <3>2. req[t] \in Request /\ pc[t] \in Step /\ req'[t] \in Request
      BY <2>3, <3>1, RequestTypes DEF TypeOK, Alike
    <3>3. Fits(account, pc[t], req[t])
      BY <2>3 DEF RequestsFit
    <3>4. Fits(account', pc[t], req'[t])
      BY <3>1, <3>2, <3>3, WaitingFits
    <3> QED
      BY <1>0, <2>3, <3>1, <3>2, <3>4
  <2> QED
    BY <2>1, <2>2, <2>3
<1>2. RequestsFit'
  BY <1>1 DEF RequestsFit
<1> QED
  BY <1>1, <1>2 DEF Moves

----------------------------------------------------------------------------
(* What each part of the invariant needs of a step.                        *)

Growing == \A w \in User : Exists(w) => Exists(w)'

\* A role changes to one that is not the prime's, or to the prime's for the owner
\* whose address is proven.
RolesAreEarned ==
    \A w \in User :
        Exists(w)' =>
            \/ Exists(w) /\ SameRole(w) /\ (account[w].verified => account'[w].verified)
            \/ EffectiveRole(account'[w]) # "admin_prime"
            \/ w = Owner /\ account'[w].verified

LEMMA PrimeKept ==
    ASSUME PrimeOnlyIfProven, RolesAreEarned
    PROVE  PrimeOnlyIfProven'
BY DEF PrimeOnlyIfProven, RolesAreEarned, SameRole

LEMMA OwnedKept ==
    ASSUME TypeOK, Owned, Growing, TokensGo,
           NEW users \in SUBSET User, \A u \in users : Exists(u)',
           \A i \in Live' : \/ i \in Live /\ session'[i].user = session[i].user
                           \/ session'[i].user \in users
    PROVE  Owned'
<1>1. \A i \in Live : session[i].user \in User
  BY DEF TypeOK, Live, Session
<1>2. \A i \in Redeemable : token[i].user \in User
  BY DEF TypeOK, Redeemable, Token
<1>3. \A i \in Live' : Exists(session[i].user)'
  BY <1>1 DEF Owned, Growing, Exists
<1> QED
  BY <1>2, <1>3 DEF Owned, Growing, TokensGo, Exists

LEMMA TokensKept ==
    ASSUME Superseded, LiveTokensOnlyByOverlap, TokensGo,
           \A t \in Slot :
               pc'[t] = "createToken" =>
                   \/ /\ pc[t] = "createToken"
                      /\ req'[t].user = req[t].user /\ req'[t].route = req[t].route
                      /\ req[t].raced => req'[t].raced
                   \/ TokensFor(req[t].user, PurposeOf(req[t].route))' = {}
    PROVE  Superseded' /\ LiveTokensOnlyByOverlap'
<1>1. \A u, p : TokensFor(u, p)' \subseteq TokensFor(u, p)
  BY DEF TokensGo, TokensFor
<1>2. Superseded'
  BY <1>1 DEF Superseded
<1>3. LiveTokensOnlyByOverlap'
  BY DEF LiveTokensOnlyByOverlap, TokensGo
<1> QED
  BY <1>2, <1>3

LEMMA CutOffKept ==
    ASSUME EarlierSessionsEnd, NEW users, SessionsComeAndGo(users), UNCHANGED lapsed,
           \A t \in Slot : pc[t] = "revoke" => pc'[t] = "revoke" /\ req'[t].user = req[t].user
    PROVE  EarlierSessionsEnd'
BY DEF EarlierSessionsEnd, SessionsComeAndGo

LEMMA MovesElsewhere ==
    ASSUME TypeOK, NEW S \in SUBSET Slot, Moves(S), NEW t \in Slot \ S
    PROVE  /\ pc'[t] = pc[t]
           /\ pc[t] # "idle" =>
                  /\ req'[t].user = req[t].user /\ req'[t].route = req[t].route
                  /\ req[t].raced => req'[t].raced
BY DEF Moves, OthersWait, Alike

LEMMA StepKeeps ==
    ASSUME IInv, NEW S \in SUBSET Slot, Moves(S),
           UsersTypeOK', SessionsTypeOK', TokensTypeOK', lapsed' \in [User -> BOOLEAN],
           RolesAreEarned, Owned', Superseded', LiveTokensOnlyByOverlap', EarlierSessionsEnd'
    PROVE  IInv'
<1>1. TypeOK /\ RequestsFit /\ PrimeOnlyIfProven
  BY DEF IInv
<1>2. /\ pc' \in [Slot -> Step]
      /\ req' \in [Slot -> Request \cup {None}]
      /\ \A t \in Slot : pc'[t] = "idle" <=> req'[t] = None
      /\ RequestsFit'
  BY <1>1, MovesFit
<1>3. TypeOK'
  BY <1>2 DEF TypeOK, SessionsTypeOK, TokensTypeOK
<1>4. PrimeOnlyIfProven'
  BY <1>1, PrimeKept
<1> QED
  BY <1>2, <1>3, <1>4 DEF IInv

\* A step that revokes nothing and creates no token.
LEMMA PlainStep ==
    ASSUME IInv, NEW S \in SUBSET Slot, Moves(S),
           UsersTypeOK', Growing, RolesAreEarned,
           NEW users \in SUBSET User, SessionsComeAndGo(users), \A u \in users : Exists(u)',
           TokensGo, UNCHANGED lapsed,
           \A s \in S :
               /\ pc[s] # "revoke"
               /\ pc'[s] = "createToken" =>
                      TokensFor(req[s].user, PurposeOf(req[s].route))' = {}
    PROVE  IInv'
<1>1. TypeOK /\ Owned /\ Superseded /\ LiveTokensOnlyByOverlap /\ EarlierSessionsEnd
  BY DEF IInv
<1>2. Owned'
  BY <1>1, OwnedKept DEF SessionsComeAndGo
<1>3. \A t \in Slot \ S :
          /\ pc'[t] = "createToken" =>
                 /\ pc[t] = "createToken"
                 /\ req'[t].user = req[t].user /\ req'[t].route = req[t].route
                 /\ req[t].raced => req'[t].raced
          /\ pc[t] = "revoke" => pc'[t] = "revoke" /\ req'[t].user = req[t].user
  BY <1>1, MovesElsewhere
<1>4. Superseded' /\ LiveTokensOnlyByOverlap'
  BY <1>1, <1>3, TokensKept
<1>5. EarlierSessionsEnd'
  BY <1>1, <1>3, CutOffKept
<1>6. SessionsTypeOK' /\ TokensTypeOK' /\ lapsed' \in [User -> BOOLEAN]
  BY <1>1 DEF TypeOK, SessionsComeAndGo, TokensGo
<1> QED
  BY <1>2, <1>4, <1>5, <1>6, StepKeeps

\* The same for a step that leaves accounts, sessions and tokens alone.
LEMMA AccountsAlone ==
    ASSUME TypeOK, UNCHANGED account
    PROVE  UsersTypeOK' /\ Growing /\ RolesAreEarned
BY DEF TypeOK, UsersTypeOK, Growing, RolesAreEarned, Exists, SameRole

LEMMA LaterSame ==
    ASSUME NEW acct, NEW q
    PROVE  Later(acct, acct, q)
BY DEF Later

\* The request in s moves to `step` as r, while `others` says what becomes of the rest.
LEMMA MovesByOne ==
    ASSUME TypeOK, NEW s \in Slot, NEW step, NEW r, NEW others,
           DOMAIN others = Slot,
           pc' = [pc EXCEPT ![s] = step],
           req' = [others EXCEPT ![s] = r],
           \A t \in Slot \ {s} :
               /\ pc[t] = "idle" => others[t] = req[t]
               /\ pc[t] # "idle" => Alike(req[t], others[t])
                                    /\ Later(account, account', others[t]),
           \/ step = "idle" /\ r = None
           \/ step \in Step \ {"idle"} /\ r \in Request /\ Fits(account', step, r)
    PROVE  Moves({s}) /\ pc'[s] = step /\ req'[s] = r
<1>1. pc'[s] = step /\ req'[s] = r
  BY DEF TypeOK
<1>2. DOMAIN pc' = Slot /\ pc' = [t \in Slot |-> pc'[t]]
  BY DEF TypeOK
<1>3. DOMAIN req' = Slot /\ req' = [t \in Slot |-> req'[t]]
  OBVIOUS
<1>4. \A t \in Slot \ {s} : pc'[t] = pc[t] /\ req'[t] = others[t]
  BY DEF TypeOK
<1>5. OthersWait({s})
  BY <1>4 DEF OthersWait
<1>6. Settles(s)
  BY <1>1 DEF Settles
<1> QED
  BY <1>1, <1>2, <1>3, <1>5, <1>6 DEF Moves

\* The same, with no account written and nobody else dated.
LEMMA MovesAlone ==
    ASSUME TypeOK, NEW s \in Slot, NEW step, NEW r,
           pc' = [pc EXCEPT ![s] = step],
           req' = [req EXCEPT ![s] = r],
           UNCHANGED account,
           \/ step = "idle" /\ r = None
           \/ step \in Step \ {"idle"} /\ r \in Request /\ Fits(account, step, r)
    PROVE  Moves({s}) /\ pc'[s] = step /\ req'[s] = r
<1>1. DOMAIN req = Slot
  BY DEF TypeOK
<1>2. \A t \in Slot \ {s} :
          pc[t] # "idle" => Alike(req[t], req[t]) /\ Later(account, account', req[t])
  BY RequestTypes, AlikeItself, LaterSame
<1> QED
  BY <1>1, <1>2, MovesByOne

LEMMA MovesAnswered ==
    ASSUME TypeOK, NEW s \in Slot, Answer(s), UNCHANGED account
    PROVE  Moves({s}) /\ pc'[s] = "idle"
BY MovesAlone DEF Answer

\* A request that reads or waits: nothing but its own step and record changes.
LEMMA QuietStep ==
    ASSUME IInv, NEW s \in Slot, Moves({s}), UNCHANGED <<account, session, token, lapsed>>,
           pc[s] # "revoke", pc'[s] # "createToken"
    PROVE  IInv'
<1>1. TypeOK /\ SessionsTypeOK /\ TokensTypeOK
  BY DEF IInv, TypeOK, SessionsTypeOK, TokensTypeOK
<1>2. SessionsComeAndGo({}) /\ TokensGo
  BY <1>1, SameSessions, SameTokens
<1>3. UsersTypeOK' /\ Growing /\ RolesAreEarned
  BY <1>1, AccountsAlone
<1> QED
  BY <1>2, <1>3, PlainStep

----------------------------------------------------------------------------
(* Requests arrive.                                                        *)

LEMMA NewRequestIs ==
    ASSUME NEW route \in Route, NEW u \in User
    PROVE  LET r == NewRequest(route, u) IN
           /\ r \in Request
           /\ r.route = route /\ r.user = u /\ r.by = u
BY DEF NewRequest, Request

LEMMA ServeKeeps ==
    ASSUME IInv, NEW s \in Slot, NEW step \in Step \ {"idle", "createToken"}, NEW r \in Request,
           Serve(s, step, r), Fits(account, step, r),
           UNCHANGED <<account, session, lapsed>>, TokensGo
    PROVE  IInv'
<1>1. TypeOK /\ SessionsTypeOK
  BY DEF IInv, TypeOK, SessionsTypeOK
<1>2. Moves({s}) /\ pc'[s] = step
  BY <1>1, MovesAlone DEF Serve
<1>3. SessionsComeAndGo({})
  BY <1>1, SameSessions
<1>4. UsersTypeOK' /\ Growing /\ RolesAreEarned
  BY <1>1, AccountsAlone
<1>5. pc[s] # "revoke"
  BY DEF Serve
<1> QED
  BY <1>2, <1>3, <1>4, <1>5, PlainStep

\* A sign-in that read a document which is not denied.
LEMMA SignInFits ==
    ASSUME NEW u \in User, Exists(u), account[u].status \notin Denied,
           NEW route \in {"login", "bridge"},
           route = "bridge" => account[u].clerk
    PROVE  LET r    == NewRequest(route, u)
               step == IF EarnsPrime(u, account[u]) THEN "elevate" ELSE "open"
           IN  Fits(account, step, r)
<1> DEFINE r    == NewRequest(route, u)
           step == IF EarnsPrime(u, account[u]) THEN "elevate" ELSE "open"
<1>1. r.route = route /\ r.user = u /\ r.by = u
  BY DEF NewRequest
<1>2. step \in {"elevate", "open"} /\ (step = "elevate" => u = Owner /\ account[u].verified)
  BY DEF EarnsPrime
<1> HIDE DEF r, step
<1>3. OnRoute(step, r)
  BY <1>1, <1>2 DEF OnRoute
<1>4. Grounded(account, step, r)
  BY <1>1, <1>2 DEF Grounded, Exists
<1>5. Dated(account, step, r)
  BY <1>1, <1>2 DEF Dated
<1>6. Proven(account, step, r) /\ Entitled(step, r)
  BY <1>1, <1>2 DEF Proven, Entitled
<1> QED
  BY <1>3, <1>4, <1>5, <1>6 DEF Fits, r, step

LEMMA SignInServed ==
    ASSUME IInv, NEW s \in Slot, NEW u \in User,
           Exists(u), account[u].status \notin Denied,
           NEW route \in {"login", "bridge"}, route = "bridge" => account[u].clerk,
           Serve(s, IF EarnsPrime(u, account[u]) THEN "elevate" ELSE "open",
                 NewRequest(route, u)),
           UNCHANGED <<account, session, token, lapsed>>
    PROVE  IInv'
<1> DEFINE step == IF EarnsPrime(u, account[u]) THEN "elevate" ELSE "open"
<1>1. Fits(account, step, NewRequest(route, u))
  BY SignInFits
<1>2. route \in Route
  BY DEF Route
<1>3. NewRequest(route, u) \in Request
  BY <1>2, NewRequestIs
<1>4. step \in Step \ {"idle", "createToken"}
  BY DEF Step
<1>5. TokensGo
  BY SameTokens DEF IInv, TypeOK, TokensTypeOK
<1> QED
  BY <1>1, <1>3, <1>4, <1>5, ServeKeeps

\* A request that is only taken up.
LEMMA NewRequestFits ==
    ASSUME NEW u \in User, NEW route \in Route, NEW step,
           \/ step = "create" /\ route = "register"
           \/ step = "findByEmail" /\ route \in {"bridge", "webhook"}
           \/ /\ Exists(u)
              /\ \/ step = "supersede" /\ route \in {"resend", "forgot"}
                 \/ step = "mark" /\ route = "verify"
                 \/ step = "setPassword" /\ route = "reset"
    PROVE  Fits(account, step, NewRequest(route, u))
<1> DEFINE r == NewRequest(route, u)
<1>1. r.route = route /\ r.user = u /\ r.by = u
  BY DEF NewRequest
<1> HIDE DEF r
<1>2. OnRoute(step, r)
  BY <1>1 DEF OnRoute
<1>3. Grounded(account, step, r)
  BY <1>1 DEF Grounded, OnAccount, Exists
<1>4. Dated(account, step, r)
  BY <1>1 DEF Dated, Admitted
<1>5. Proven(account, step, r) /\ Entitled(step, r)
  BY <1>1 DEF Proven, Entitled
<1> QED
  BY <1>2, <1>3, <1>4, <1>5 DEF Fits, r

LEMMA NewRequestServed ==
    ASSUME IInv, NEW s \in Slot, NEW u \in User, NEW route \in Route, NEW step,
           \/ step = "create" /\ route = "register"
           \/ step = "findByEmail" /\ route \in {"bridge", "webhook"}
           \/ /\ Exists(u)
              /\ \/ step = "supersede" /\ route \in {"resend", "forgot"}
                 \/ step = "mark" /\ route = "verify"
                 \/ step = "setPassword" /\ route = "reset",
           Serve(s, step, NewRequest(route, u)),
           UNCHANGED <<account, session, lapsed>>, TokensGo
    PROVE  IInv'
<1>1. Fits(account, step, NewRequest(route, u))
  BY NewRequestFits
<1>2. NewRequest(route, u) \in Request
  BY NewRequestIs
<1>3. step \in Step \ {"idle", "createToken"}
  BY DEF Step
<1> QED
  BY <1>1, <1>2, <1>3, ServeKeeps

\* The guarded routes: whoever has a session has an account.
LEMMA PresentKeeps ==
    ASSUME IInv, NEW s \in Slot, NEW route \in {"becomeSeller", "setStatus", "assignRole"},
           NEW by \in User, NEW u \in User, NEW goal \in AdminSettableStatus \cup AssignableRole,
           route = "becomeSeller" => by = u,
           route = "setStatus" => goal \in AdminSettableStatus,
           route # "setStatus" => goal \in AssignableRole,
           Present(s, route, by, u, goal)
    PROVE  IInv'
<1> DEFINE r == [NewRequest(route, u) EXCEPT !.by = by, !.goal = goal]
<1>1. route \in Route
  BY DEF Route
<1>2. /\ r \in Request
      /\ r.route = route /\ r.user = u /\ r.by = by /\ r.goal = goal
  BY <1>1 DEF NewRequest, Request, AssignableRole
<1>3. Exists(by)
  BY DEF Present, SessionsOf, IInv, Owned
<1> HIDE DEF r
<1>4. OnRoute("authenticate", r)
  BY <1>2 DEF OnRoute
<1>5. Grounded(account, "authenticate", r)
  BY <1>2, <1>3 DEF Grounded, OnAccount, Exists
<1>6. Dated(account, "authenticate", r)
  BY DEF Dated, Admitted
<1>7. Proven(account, "authenticate", r) /\ Entitled("authenticate", r)
  BY DEF Proven, Entitled
<1>8. Fits(account, "authenticate", r)
  BY <1>4, <1>5, <1>6, <1>7 DEF Fits
<1>9. TokensGo
  BY SameTokens DEF Present, IInv, TypeOK, TokensTypeOK
<1>10. "authenticate" \in Step \ {"idle", "createToken"}
  BY DEF Step
<1>11. Serve(s, "authenticate", r) /\ UNCHANGED <<account, session, token, lapsed>>
  BY DEF Present, r
<1> QED
  BY <1>2, <1>8, <1>9, <1>10, <1>11, ServeKeeps

LEMMA ArriveKeeps ==
    ASSUME IInv, NEW s \in Slot, Arrive(s)
    PROVE  IInv'
<1>0. TokensTypeOK
  BY DEF IInv, TypeOK, TokensTypeOK
<1>1. ASSUME NEW u \in User, Register(s, u)
      PROVE  IInv'
  BY <1>0, <1>1, SameTokens, NewRequestServed DEF Register, Route
<1>2. ASSUME NEW u \in User, Login(s, u)
      PROVE  IInv'
  BY <1>2, SignInServed DEF Login
<1>3. ASSUME NEW u \in User, BridgeLinked(s, u)
      PROVE  IInv'
  BY <1>3, SignInServed DEF BridgeLinked
<1>4. ASSUME NEW u \in User, NEW route \in {"bridge", "webhook"}, UpsertUnlinked(s, route, u)
      PROVE  IInv'
  BY <1>0, <1>4, SameTokens, NewRequestServed DEF UpsertUnlinked, Route
<1>5. ASSUME NEW u \in User, Resend(s, u)
      PROVE  IInv'
  BY <1>0, <1>5, SameTokens, NewRequestServed DEF Resend, Route
<1>6. ASSUME NEW u \in User, ForgotPassword(s, u)
      PROVE  IInv'
  BY <1>0, <1>6, SameTokens, NewRequestServed DEF ForgotPassword, Route
<1>7. ASSUME NEW u \in User, BecomeSeller(s, u)
      PROVE  IInv'
  <2>1. "seller" \in AssignableRole
    BY DEF AssignableRole, Role
  <2> QED
    BY <1>7, <2>1, PresentKeeps DEF BecomeSeller
<1>8. ASSUME NEW u \in User, NEW by \in User, NEW status \in AdminSettableStatus,
             SetStatus(s, by, u, status)
      PROVE  IInv'
  BY <1>8, PresentKeeps DEF SetStatus
<1>9. ASSUME NEW u \in User, NEW by \in User, NEW role \in AssignableRole,
             AssignRole(s, by, u, role)
      PROVE  IInv'
  BY <1>9, PresentKeeps DEF AssignRole
<1>10. ASSUME NEW i \in TokenId, VerifyEmail(s, i)
       PROVE  IInv'
  <2>1. token[i].user \in User /\ Exists(token[i].user)
    BY <1>10 DEF VerifyEmail, IInv, TypeOK, Owned, Redeemable, Token
  <2>2. TokensGo
    BY <1>0, <1>10, SpendEnds DEF VerifyEmail
  <2> QED
    BY <1>10, <2>1, <2>2, NewRequestServed DEF VerifyEmail, Route
<1>11. ASSUME NEW i \in TokenId, ResetPassword(s, i)
       PROVE  IInv'
  <2>1. token[i].user \in User /\ Exists(token[i].user)
    BY <1>11 DEF ResetPassword, IInv, TypeOK, Owned, Redeemable, Token
  <2>2. TokensGo
    BY <1>0, <1>11, SpendEnds DEF ResetPassword
  <2> QED
    BY <1>11, <2>1, <2>2, NewRequestServed DEF ResetPassword, Route
<1> QED
  BY <1>1, <1>2, <1>3, <1>4, <1>5, <1>6, <1>7, <1>8, <1>9, <1>10, <1>11 DEF Arrive

----------------------------------------------------------------------------
(* Requests proceed.                                                       *)

LEMMA AtStep ==
    ASSUME IInv, NEW s \in Slot, pc[s] # "idle"
    PROVE  /\ TypeOK /\ UsersTypeOK /\ SessionsTypeOK /\ TokensTypeOK
           /\ req[s] \in Request /\ req[s].user \in User /\ req[s].by \in User
           /\ Fits(account, pc[s], req[s])
           /\ pc[s] \in OnAccount => Exists(req[s].user)
<1>1. TypeOK
  BY DEF IInv
<1>2. req[s] \in Request
  BY <1>1, RequestTypes
<1>3. Fits(account, pc[s], req[s])
  BY DEF IInv, RequestsFit
<1> QED
  BY <1>1, <1>2, <1>3
  DEF TypeOK, SessionsTypeOK, TokensTypeOK, Request, Fits, Grounded, Exists

LEMMA SameRequest ==
    ASSUME TypeOK, NEW s \in Slot
    PROVE  req = [req EXCEPT ![s] = req[s]]
BY DEF TypeOK

LEMMA AdmittedFits ==
    ASSUME NEW acct, NEW step \in {"open", "elevate"}, NEW r,
           r.route \in {"register", "login", "bridge", "verify"},
           acct[r.user] # Unborn,
           acct[r.user].status \in Denied => r.overtaken,
           r.route = "bridge" => acct[r.user].clerk \/ r.overtaken,
           step = "elevate" => r.user = Owner /\ acct[r.user].verified
    PROVE  Fits(acct, step, r)
<1>1. OnRoute(step, r)
  BY DEF OnRoute
<1>2. Grounded(acct, step, r)
  BY DEF Grounded
<1>3. Dated(acct, step, r)
  BY DEF Dated
<1>4. Proven(acct, step, r) /\ Entitled(step, r)
  BY DEF Proven, Entitled
<1> QED
  BY <1>1, <1>2, <1>3, <1>4 DEF Fits

LEMMA ReadIs ==
    ASSUME NEW r \in Request, NEW doc \in Account \cup {Unborn}
    PROVE  LET q == [r EXCEPT !.read = doc] IN
           /\ q \in Request
           /\ q.route = r.route /\ q.user = r.user /\ q.by = r.by /\ q.goal = r.goal
           /\ q.byPrime = r.byPrime /\ q.overtaken = r.overtaken /\ q.raced = r.raced
           /\ q.read = doc
BY DEF Request

\* A write that denies nobody and keeps what is proven and linked dates no request.
LEMMA LaterRewritten ==
    ASSUME NEW u \in User, Exists(u), Only(u),
           account[u].verified => account'[u].verified,
           account[u].clerk => account'[u].clerk,
           account'[u].status \in Denied => account[u].status \in Denied
    PROVE  /\ \A q \in Request : Later(account, account', q)
           /\ Growing
<1>1. account'[u] # Unborn
  BY ValueAssumption DEF Only
<1>2. \A w \in User : account[w] # Unborn => account'[w] # Unborn
  BY <1>1 DEF Only
<1>3. \A q \in Request : q.user \in User
  BY DEF Request
<1> QED
  BY <1>1, <1>2, <1>3 DEF Only, Later, Growing, Exists

\* A write that may deny or register an account, where others are told.
LEMMA LaterOvertaken ==
    ASSUME NEW u \in User, Only(u),
           Exists(u) => /\ account[u].verified => account'[u].verified
                        /\ account[u].clerk => account'[u].clerk
    PROVE  /\ \A q \in Request : (q.user = u /\ q.route \in Trusting => q.overtaken)
                                     => Later(account, account', q)
           /\ Growing
<1>1. account'[u] # Unborn
  BY ValueAssumption DEF Only
<1>2. \A w \in User : account[w] # Unborn => account'[w] # Unborn
  BY <1>1 DEF Only
<1>3. \A q \in Request : q.user \in User
  BY DEF Request
<1> QED
  BY <1>1, <1>2, <1>3 DEF Only, Later, Growing, Exists

\* What becomes of the others when s writes the account of u and overtakes them.
LEMMA OthersOvertaken ==
    ASSUME TypeOK, NEW s \in Slot, NEW u \in User, Only(u),
           Exists(u) => /\ account[u].verified => account'[u].verified
                        /\ account[u].clerk => account'[u].clerk
    PROVE  /\ DOMAIN Overtaken(Slot \ {s}, u) = Slot
           /\ Overtaken(Slot \ {s}, u)[s] = req[s]
           /\ Overtaken(Slot \ {s}, u) = [Overtaken(Slot \ {s}, u) EXCEPT ![s] = req[s]]
           /\ \A t \in Slot \ {s} :
                  LET others == Overtaken(Slot \ {s}, u) IN
                  /\ pc[t] = "idle" => others[t] = req[t]
                  /\ pc[t] # "idle" => Alike(req[t], others[t])
                                       /\ Later(account, account', others[t])
<1> DEFINE others == Overtaken(Slot \ {s}, u)
<1>1. /\ DOMAIN others = Slot /\ others[s] = req[s]
      /\ others = [others EXCEPT ![s] = req[s]]
  BY DEF Overtaken
<1>2. ASSUME NEW t \in Slot \ {s}
      PROVE  /\ pc[t] = "idle" => others[t] = req[t]
             /\ pc[t] # "idle" => Alike(req[t], others[t])
             /\ pc[t] # "idle" /\ req[t].user = u /\ req[t].route \in Trusting
                => others[t].overtaken
  BY OvertakenAlike
<1> HIDE DEF others
<1>3. ASSUME NEW t \in Slot \ {s}, pc[t] # "idle"
      PROVE  Later(account, account', others[t])
  <2>1. Alike(req[t], others[t]) /\ others[t] \in Request
    BY <1>2, <1>3 DEF Alike
  <2>2. others[t].user = u /\ others[t].route \in Trusting => others[t].overtaken
    BY <1>2, <1>3, <2>1 DEF Alike
  <2> QED
    BY <2>1, <2>2, LaterOvertaken
<1> QED
  BY <1>1, <1>2, <1>3 DEF others

\* What becomes of them when the write dates nobody.
LEMMA OthersUndated ==
    ASSUME TypeOK, NEW s \in Slot, \A q \in Request : Later(account, account', q)
    PROVE  /\ DOMAIN req = Slot
           /\ \A t \in Slot \ {s} :
                  pc[t] # "idle" => Alike(req[t], req[t]) /\ Later(account, account', req[t])
BY RequestTypes, AlikeItself DEF TypeOK

----------------------------------------------------------------------------
(* Registration, sign-in and the tokens.                                   *)

LEMMA CreateAccountKeeps ==
    ASSUME IInv, NEW s \in Slot, CreateAccount(s)
    PROVE  IInv'
<1> DEFINE u == req[s].user
           others == Overtaken(Slot \ {s}, u)
<1>1. /\ pc[s] = "create" /\ TypeOK /\ UsersTypeOK /\ SessionsTypeOK /\ TokensTypeOK
      /\ req[s] \in Request /\ u \in User /\ Fits(account, "create", req[s])
  BY AtStep DEF CreateAccount
<1>2. CASE Exists(u)
  <2>1. Answer(s) /\ UNCHANGED <<account, session, token, lapsed>>
    BY <1>2 DEF CreateAccount
  <2> QED
    BY <1>1, <2>1, MovesAnswered, QuietStep
<1>3. CASE ~Exists(u)
  <2>1. /\ CreateLocal(u) /\ pc' = [pc EXCEPT ![s] = "supersede"] /\ req' = others
        /\ UNCHANGED <<session, token, lapsed>>
    BY <1>3 DEF CreateAccount, Continue
  <2>2. /\ Only(u) /\ account'[u].status = "pending_verification"
        /\ EffectiveRole(account'[u]) = "buyer"
    BY <1>1, <2>1, CreateLocalWrites
  <2>3. /\ DOMAIN others = Slot /\ others[s] = req[s]
        /\ others = [others EXCEPT ![s] = req[s]]
        /\ \A t \in Slot \ {s} :
               /\ pc[t] = "idle" => others[t] = req[t]
               /\ pc[t] # "idle" => Alike(req[t], others[t])
                                    /\ Later(account, account', others[t])
    BY <1>1, <1>3, <2>2, OthersOvertaken
  <2> HIDE DEF others
  <2>4. req' = [others EXCEPT ![s] = req[s]]
    BY <2>1, <2>3
  <2>5. req[s].route = "register"
    BY <1>1 DEF Fits, OnRoute
  <2>6. account'[u] # Unborn
    BY <2>2, ValueAssumption DEF Only
  <2>7. Fits(account', "supersede", req[s])
    <3>1. OnRoute("supersede", req[s])
      BY <2>5 DEF OnRoute
    <3>2. Grounded(account', "supersede", req[s])
      BY <2>6 DEF Grounded
    <3>3. Dated(account', "supersede", req[s])
      BY <2>2, <2>5 DEF Dated, Admitted, Denied
    <3>4. Proven(account', "supersede", req[s]) /\ Entitled("supersede", req[s])
      BY DEF Proven, Entitled
    <3> QED
      BY <3>1, <3>2, <3>3, <3>4 DEF Fits
  <2>8. Moves({s}) /\ pc'[s] = "supersede"
    <3>1. "supersede" \in Step \ {"idle"} /\ pc' = [pc EXCEPT ![s] = "supersede"]
      BY <2>1 DEF Step
    <3> HIDE DEF u
    <3> QED
      BY <1>1, <2>3, <2>4, <2>7, <3>1, MovesByOne
  <2>9. RolesAreEarned
    BY <2>2 DEF RolesAreEarned, Only, SameRole, Exists
  <2>10. Growing
    BY <1>1, <1>3, <2>2, LaterOvertaken
  <2>11. SessionsComeAndGo({}) /\ TokensGo /\ UsersTypeOK'
    BY <1>1, <2>1, <2>2, SameSessions, SameTokens DEF Only
  <2> QED
    BY <1>1, <2>1, <2>8, <2>9, <2>10, <2>11, PlainStep
<1> QED
  BY <1>2, <1>3

LEMMA OpenSessionKeeps ==
    ASSUME IInv, NEW s \in Slot, OpenSession(s)
    PROVE  IInv'
<1> DEFINE u == req[s].user
<1>1. /\ pc[s] = "open" /\ TypeOK /\ SessionsTypeOK /\ TokensTypeOK
      /\ u \in User /\ Exists(u)
  BY AtStep DEF OpenSession, OnAccount
<1>2. Issue(u) /\ Answer(s) /\ UNCHANGED <<account, token, lapsed>>
  BY DEF OpenSession
<1>3. Moves({s}) /\ pc'[s] = "idle"
  BY <1>1, <1>2, MovesAnswered
<1>4. SessionsComeAndGo({u}) /\ TokensGo
  BY <1>1, <1>2, IssueOpens, SameTokens
<1>5. UsersTypeOK' /\ Growing /\ RolesAreEarned
  BY <1>1, <1>2, AccountsAlone
<1>6. {u} \in SUBSET User /\ \A w \in {u} : Exists(w)'
  BY <1>1, <1>5 DEF Growing
<1> HIDE DEF u
<1> QED
  BY <1>1, <1>2, <1>3, <1>4, <1>5, <1>6, PlainStep

LEMMA ElevateKeeps ==
    ASSUME IInv, NEW s \in Slot, Elevate(s)
    PROVE  IInv'
<1> DEFINE u == req[s].user
<1>1. /\ pc[s] = "elevate" /\ TypeOK /\ UsersTypeOK /\ SessionsTypeOK /\ TokensTypeOK
      /\ req[s] \in Request /\ u \in User /\ Exists(u) /\ Fits(account, "elevate", req[s])
  BY AtStep DEF Elevate, OnAccount
<1>2. SetRole(u, "admin_prime") /\ UNCHANGED <<session, token, lapsed>>
  BY DEF Elevate
<1>3. /\ Only(u)
      /\ account'[u].verified = account[u].verified
      /\ account'[u].clerk = account[u].clerk
      /\ account'[u].status = account[u].status
  BY <1>1, <1>2, SetRoleWrites DEF Role
<1>4. u = Owner /\ account[u].verified
  BY <1>1 DEF Fits, Proven
<1>5. (\A q \in Request : Later(account, account', q)) /\ Growing
  BY <1>1, <1>3, LaterRewritten
<1>6. /\ DOMAIN req = Slot
      /\ \A t \in Slot \ {s} :
             pc[t] # "idle" => Alike(req[t], req[t]) /\ Later(account, account', req[t])
  BY <1>1, <1>5, OthersUndated
<1>7. Moves({s}) /\ pc'[s] # "createToken"
  <2>1. CASE req[s].route = "verify"
    <3>1. pc' = [pc EXCEPT ![s] = "idle"] /\ req' = [req EXCEPT ![s] = None]
      BY <2>1 DEF Elevate, Answer
    <3> QED
      BY <1>1, <1>6, <3>1, MovesByOne
  <2>2. CASE req[s].route # "verify"
    <3>1. pc' = [pc EXCEPT ![s] = "open"] /\ req' = [req EXCEPT ![s] = req[s]]
      BY <1>1, <2>2, SameRequest DEF Elevate, Continue
    <3>2. account'[u] # Unborn
      BY <1>3, ValueAssumption DEF Only
    <3>3. Fits(account', "open", req[s])
      BY <1>1, <1>3, <3>2, AdmittedFits DEF Fits, OnRoute, Dated, Admitted
    <3> QED
      BY <1>1, <1>6, <3>1, <3>3, MovesByOne DEF Step
  <2> QED
    BY <2>1, <2>2
<1>8. RolesAreEarned
  BY <1>3, <1>4 DEF RolesAreEarned, Only, SameRole, Exists
<1>9. SessionsComeAndGo({}) /\ TokensGo /\ UsersTypeOK'
  BY <1>1, <1>2, <1>3, SameSessions, SameTokens DEF Only
<1> QED
  BY <1>1, <1>2, <1>5, <1>7, <1>8, <1>9, PlainStep

LEMMA SupersedeTokensKeeps ==
    ASSUME IInv, NEW s \in Slot, SupersedeTokens(s)
    PROVE  IInv'
<1>1. /\ pc[s] = "supersede" /\ TypeOK /\ SessionsTypeOK /\ TokensTypeOK
      /\ req[s] \in Request /\ Fits(account, "supersede", req[s])
  BY AtStep DEF SupersedeTokens
<1>2. /\ Supersede(req[s].user, PurposeOf(req[s].route))
      /\ pc' = [pc EXCEPT ![s] = "createToken"]
      /\ UNCHANGED <<account, session, req, lapsed>>
  BY DEF SupersedeTokens, Continue
<1>3. Fits(account, "createToken", req[s])
  <2>1. OnRoute("createToken", req[s])
    BY <1>1 DEF Fits, OnRoute
  <2>2. Grounded(account, "createToken", req[s])
    BY <1>1 DEF Fits, Grounded, OnAccount
  <2>3. Dated(account, "createToken", req[s])
    BY <1>1 DEF Fits, Dated, Admitted
  <2>4. Proven(account, "createToken", req[s]) /\ Entitled("createToken", req[s])
    BY DEF Proven, Entitled
  <2> QED
    BY <2>1, <2>2, <2>3, <2>4 DEF Fits
<1>4. Moves({s})
  <2>1. req' = [req EXCEPT ![s] = req[s]]
    BY <1>1, <1>2, SameRequest
  <2> QED
    BY <1>1, <1>2, <1>3, <2>1, MovesAlone DEF Step
<1>5. TokensGo /\ TokensFor(req[s].user, PurposeOf(req[s].route))' = {}
  <2>1. \A u, p : Supersede(u, p) => TokensGo /\ TokensFor(u, p)' = {}
    BY <1>1, SupersedeEnds
  <2> QED
    BY <1>2, <2>1 DEF TokensFor, PurposeOf
<1>6. UsersTypeOK' /\ Growing /\ RolesAreEarned
  BY <1>1, <1>2, AccountsAlone
<1>7. SessionsComeAndGo({})
  BY <1>1, <1>2, SameSessions
<1> QED
  BY <1>1, <1>2, <1>4, <1>5, <1>6, <1>7, PlainStep

\* After the mail a registration opens its session.
LEMMA OpenAfterMail ==
    ASSUME NEW step \in {"supersede", "createToken"}, NEW r, Fits(account, step, r),
           r.route = "register"
    PROVE  Fits(account, "open", r)
BY AdmittedFits DEF Fits, Grounded, OnAccount, Dated, Admitted

LEMMA MailFailsKeeps ==
    ASSUME IInv, NEW s \in Slot, MailFails(s)
    PROVE  IInv'
<1>1. /\ pc[s] \in {"supersede", "createToken"} /\ TypeOK
      /\ req[s] \in Request /\ Fits(account, pc[s], req[s])
  BY AtStep DEF MailFails
<1>2. Fits(account, "open", req[s])
  BY <1>1, OpenAfterMail DEF MailFails
<1>3. pc' = [pc EXCEPT ![s] = "open"] /\ req' = [req EXCEPT ![s] = req[s]]
  BY <1>1, SameRequest DEF MailFails, Continue
<1>4. UNCHANGED <<account, session, token, lapsed>>
  BY DEF MailFails
<1>5. Moves({s}) /\ pc'[s] = "open"
  BY <1>1, <1>2, <1>3, <1>4, MovesAlone DEF Step
<1> QED
  BY <1>1, <1>4, <1>5, QuietStep

LEMMA CreateTokenKeeps ==
    ASSUME IInv, NEW s \in Slot, CreateToken(s)
    PROVE  IInv'
<1> DEFINE u == req[s].user
           p == PurposeOf(req[s].route)
<1>1. /\ pc[s] = "createToken" /\ TypeOK /\ SessionsTypeOK /\ TokensTypeOK
      /\ req[s] \in Request /\ u \in User /\ Exists(u)
      /\ Fits(account, "createToken", req[s])
  BY AtStep DEF CreateToken, OnAccount
<1>2. /\ Mailed(s) /\ req' = Raced(s) /\ UNCHANGED <<account, session, lapsed>>
  BY DEF CreateToken
<1>3. PICK i \in TokenId \ Redeemable :
          token' = [token EXCEPT ![i] = [user |-> u, purpose |-> p, raced |-> req[s].raced]]
  BY DEF CreateToken, Create
<1>4. UsersTypeOK' /\ Growing /\ RolesAreEarned
  BY <1>1, <1>2, AccountsAlone
<1>5. DOMAIN Raced(s) = Slot /\ Raced(s) = [Raced(s) EXCEPT ![s] = Raced(s)[s]]
  BY DEF Raced
<1>6. Raced(s)[s] = IF req[s].route = "register" THEN req[s] ELSE None
  BY DEF Raced
<1>7. \A t \in Slot \ {s} :
          /\ pc[t] = "idle" => Raced(s)[t] = req[t]
          /\ pc[t] # "idle" => Alike(req[t], Raced(s)[t])
                               /\ Later(account, account', Raced(s)[t])
  BY <1>1, <1>2, RacedAlike, LaterSame
<1>8. Moves({s}) /\ pc'[s] \in {"open", "idle"}
  <2> DEFINE step == IF req[s].route = "register" THEN "open" ELSE "idle"
             r    == Raced(s)[s]
  <2>1. pc' = [pc EXCEPT ![s] = step] /\ req' = [Raced(s) EXCEPT ![s] = r]
    BY <1>2, <1>5 DEF Mailed
  <2>2. \/ step = "idle" /\ r = None
        \/ step \in Step \ {"idle"} /\ r \in Request /\ Fits(account', step, r)
    BY <1>1, <1>2, <1>6, OpenAfterMail DEF Step
  <2>3. step \in {"open", "idle"}
    OBVIOUS
  <2> HIDE DEF step, r
  <2> QED
    BY <1>1, <1>5, <1>7, <2>1, <2>2, <2>3, MovesByOne
<1>9. TokensTypeOK'
  <2>1. [user |-> u, purpose |-> p, raced |-> req[s].raced] \in Token(User)
    BY <1>1 DEF Token, Purpose, PurposeOf, Request
  <2> QED
    BY <1>1, <1>3, <2>1 DEF TokensTypeOK
<1>10. /\ i \in TokenId /\ i \notin Redeemable
       /\ Redeemable' = Redeemable \cup {i}
       /\ token'[i].user = u /\ token'[i].purpose = p /\ token'[i].raced = req[s].raced
       /\ \A j \in Redeemable : token'[j] = token[j]
  <2>1. [user |-> u, purpose |-> p, raced |-> req[s].raced] # NoToken
    BY <1>1, ValueAssumption DEF Token, Purpose, PurposeOf, Request
  <2> QED
    BY <1>1, <1>3, <2>1 DEF TokensTypeOK, Redeemable
<1>11. ~req[s].raced => TokensFor(u, p) = {}
  BY <1>1 DEF IInv, Superseded
<1> HIDE DEF p, u
<1>12. LiveTokensOnlyByOverlap'
  <2> SUFFICES ASSUME NEW j \in Redeemable', NEW k \in Redeemable', j # k,
                      token'[j].user = token'[k].user, token'[j].purpose = token'[k].purpose
               PROVE  token'[j].raced \/ token'[k].raced
    BY DEF LiveTokensOnlyByOverlap
  <2>1. CASE j # i /\ k # i
    BY <1>10, <2>1 DEF IInv, LiveTokensOnlyByOverlap
  <2>2. CASE j = i
    BY <1>10, <1>11, <2>2 DEF TokensFor
  <2>3. CASE k = i
    BY <1>10, <1>11, <2>3 DEF TokensFor
  <2> QED
    BY <2>1, <2>2, <2>3
<1>13. Superseded'
  <2> SUFFICES ASSUME NEW t \in Slot, pc'[t] = "createToken", ~req'[t].raced,
                      NEW j \in Redeemable',
                      token'[j].user = req'[t].user,
                      token'[j].purpose = PurposeOf(req'[t].route)
               PROVE  FALSE
    BY DEF Superseded, TokensFor
  <2>1. t # s
    BY <1>8
  <2>2. pc[t] = "createToken"
    BY <1>1, <1>8, <2>1, MovesElsewhere
  <2>3. /\ req'[t].user = req[t].user /\ req'[t].route = req[t].route
        /\ req[t].raced => req'[t].raced
    BY <1>1, <1>8, <2>1, <2>2, MovesElsewhere
  <2>4. TokensFor(req[t].user, PurposeOf(req[t].route)) = {}
    BY <2>2, <2>3 DEF IInv, Superseded
  <2>5. CASE j # i
    BY <1>10, <2>3, <2>4, <2>5 DEF TokensFor
  <2>6. CASE j = i
    BY <1>1, <1>2, <1>10, <2>1, <2>2, <2>3, <2>6, RacedAlike DEF u, p
  <2> QED
    BY <2>5, <2>6
<1>14. Owned'
  BY <1>1, <1>2, <1>10 DEF IInv, Owned, Live, Exists
<1>15. EarlierSessionsEnd'
  <2>1. SessionsComeAndGo({})
    BY <1>1, <1>2, SameSessions
  <2>2. \A t \in Slot : pc[t] = "revoke" => pc'[t] = "revoke" /\ req'[t].user = req[t].user
    BY <1>1, <1>8, MovesElsewhere
  <2> QED
    BY <1>2, <2>1, <2>2, CutOffKept DEF IInv
<1>16. SessionsTypeOK' /\ lapsed' \in [User -> BOOLEAN]
  BY <1>1, <1>2 DEF TypeOK, SessionsTypeOK
<1> QED
  BY <1>4, <1>8, <1>9, <1>12, <1>13, <1>14, <1>15, <1>16, StepKeeps

LEMMA ReadToMarkKeeps ==
    ASSUME IInv, NEW s \in Slot, ReadToMark(s)
    PROVE  IInv'
<1> DEFINE u == req[s].user
           r == [req[s] EXCEPT !.read = account[u]]
<1>1. /\ pc[s] = "mark" /\ TypeOK /\ UsersTypeOK /\ req[s] \in Request /\ u \in User /\ Exists(u)
      /\ Fits(account, "mark", req[s])
  BY AtStep DEF ReadToMark, OnAccount
<1>2. account[u] \in Account
  BY <1>1 DEF UsersTypeOK, Exists
<1>3. /\ r \in Request
      /\ r.route = "verify" /\ r.user = u /\ r.goal = req[s].goal /\ r.read = account[u]
  BY <1>1, <1>2, ReadIs DEF Fits, OnRoute
<1>4. /\ pc' = [pc EXCEPT ![s] = "save"] /\ req' = [req EXCEPT ![s] = r]
      /\ UNCHANGED <<account, session, token, lapsed>>
  BY <1>1 DEF ReadToMark, Continue, Reading, TypeOK
<1> HIDE DEF r
<1>5. Fits(account, "save", r)
  <2>1. OnRoute("save", r)
    BY <1>3 DEF OnRoute
  <2>2. Grounded(account, "save", r)
    BY <1>1, <1>2, <1>3 DEF Grounded, Exists
  <2>3. Dated(account, "save", r)
    BY <1>3 DEF Dated, Admitted
  <2>4. Proven(account, "save", r) /\ Entitled("save", r)
    BY DEF Proven, Entitled
  <2> QED
    BY <2>1, <2>2, <2>3, <2>4 DEF Fits
<1>6. Moves({s}) /\ pc'[s] = "save"
  BY <1>1, <1>3, <1>4, <1>5, MovesAlone DEF Step
<1> QED
  BY <1>1, <1>4, <1>6, QuietStep

LEMMA MarkVerifiedKeeps ==
    ASSUME IInv, NEW s \in Slot, MarkVerified(s)
    PROVE  IInv'
<1> DEFINE u == req[s].user
           r == [req[s] EXCEPT !.read = Unborn]
<1>1. /\ pc[s] = "save" /\ TypeOK /\ UsersTypeOK /\ SessionsTypeOK /\ TokensTypeOK
      /\ req[s] \in Request /\ u \in User /\ Exists(u) /\ Fits(account, "save", req[s])
  BY AtStep DEF MarkVerified, OnAccount
<1>2. /\ r \in Request
      /\ r.route = "verify" /\ r.user = u /\ r.goal = req[s].goal
  BY <1>1, ReadIs DEF Fits, OnRoute
<1>3. /\ SaveVerified(u, req[s].read)
      /\ pc' = [pc EXCEPT ![s] = "reread"] /\ req' = [req EXCEPT ![s] = r]
      /\ UNCHANGED <<session, token, lapsed>>
  BY <1>1 DEF MarkVerified, Continue, Reading, TypeOK
<1>4. /\ Only(u) /\ SameRole(u)
      /\ account'[u].verified
      /\ account'[u].clerk = account[u].clerk
      /\ account'[u].status \in {"active", account[u].status}
  BY <1>1, <1>3, SaveVerifiedWrites DEF Activated
<1>5. account'[u] # Unborn
  BY <1>4, ValueAssumption DEF Only
<1>6. (\A q \in Request : Later(account, account', q)) /\ Growing
  BY <1>1, <1>4, LaterRewritten DEF Denied
<1>7. /\ DOMAIN req = Slot
      /\ \A t \in Slot \ {s} :
             pc[t] # "idle" => Alike(req[t], req[t]) /\ Later(account, account', req[t])
  BY <1>1, <1>6, OthersUndated
<1> HIDE DEF r
<1>8. Fits(account', "reread", r)
  <2>1. OnRoute("reread", r)
    BY <1>2 DEF OnRoute
  <2>2. Grounded(account', "reread", r)
    BY <1>2, <1>5 DEF Grounded
  <2>3. Dated(account', "reread", r)
    BY DEF Dated, Admitted
  <2>4. Proven(account', "reread", r) /\ Entitled("reread", r)
    BY DEF Proven, Entitled
  <2> QED
    BY <2>1, <2>2, <2>3, <2>4 DEF Fits
<1>9. Moves({s}) /\ pc'[s] = "reread"
  BY <1>1, <1>2, <1>3, <1>7, <1>8, MovesByOne DEF Step
<1>10. RolesAreEarned
  BY <1>1, <1>4 DEF RolesAreEarned, Only, SameRole, Exists
<1>11. SessionsComeAndGo({}) /\ TokensGo /\ UsersTypeOK'
  BY <1>1, <1>3, <1>4, SameSessions, SameTokens DEF Only
<1> QED
  BY <1>1, <1>3, <1>6, <1>9, <1>10, <1>11, PlainStep

LEMMA RereadKeeps ==
    ASSUME IInv, NEW s \in Slot, Reread(s)
    PROVE  IInv'
<1> DEFINE u == req[s].user
<1>1. /\ pc[s] = "reread" /\ TypeOK /\ req[s] \in Request /\ u \in User /\ Exists(u)
      /\ Fits(account, "reread", req[s])
  BY AtStep DEF Reread, OnAccount
<1>2. UNCHANGED <<account, session, token, lapsed>>
  BY DEF Reread
<1>3. CASE EarnsPrime(u, account[u])
  <2>1. pc' = [pc EXCEPT ![s] = "elevate"] /\ req' = [req EXCEPT ![s] = req[s]]
    BY <1>1, <1>3, SameRequest DEF Reread, Continue
  <2>2. /\ req[s].route = "verify" /\ account[u] # Unborn
        /\ u = Owner /\ account[u].verified /\ account[u].status \notin Denied
    BY <1>1, <1>3 DEF Fits, OnRoute, EarnsPrime, Exists, Denied
  <2>3. Fits(account, "elevate", req[s])
    BY <2>2, AdmittedFits
  <2>4. Moves({s}) /\ pc'[s] = "elevate"
    BY <1>1, <1>2, <2>1, <2>3, MovesAlone DEF Step
  <2> QED
    BY <1>1, <1>2, <2>4, QuietStep
<1>4. CASE ~EarnsPrime(u, account[u])
  <2>1. Answer(s)
    BY <1>4 DEF Reread
  <2> QED
    BY <1>1, <1>2, <2>1, MovesAnswered, QuietStep
<1> QED
  BY <1>3, <1>4

----------------------------------------------------------------------------
(* Sign-in through Clerk.                                                  *)

LEMMA FindByEmailKeeps ==
    ASSUME IInv, NEW s \in Slot, FindByEmail(s)
    PROVE  IInv'
<1> DEFINE u    == req[s].user
           r    == [req[s] EXCEPT !.read = account[u]]
           step == IF Exists(u) THEN "link" ELSE "insert"
<1>1. /\ pc[s] = "findByEmail" /\ TypeOK /\ UsersTypeOK /\ req[s] \in Request /\ u \in User
      /\ Fits(account, "findByEmail", req[s])
  BY AtStep DEF FindByEmail
<1>2. account[u] \in Account \cup {Unborn} /\ (Exists(u) => account[u] \in Account)
  BY <1>1 DEF UsersTypeOK, Exists
<1>3. /\ r \in Request
      /\ r.route \in {"bridge", "webhook"} /\ r.user = u /\ r.read = account[u]
  BY <1>1, <1>2, ReadIs DEF Fits, OnRoute
<1>4. /\ pc' = [pc EXCEPT ![s] = step] /\ req' = [req EXCEPT ![s] = r]
      /\ UNCHANGED <<account, session, token, lapsed>>
  BY <1>1 DEF FindByEmail, Continue, Reading, TypeOK
<1>5. step \in {"link", "insert"} /\ (step = "link" <=> Exists(u))
  OBVIOUS
<1> HIDE DEF r, step
<1>6. Fits(account, step, r)
  <2>1. OnRoute(step, r)
    BY <1>3, <1>5 DEF OnRoute
  <2>2. Grounded(account, step, r)
    BY <1>2, <1>3, <1>5 DEF Grounded, OnAccount, Exists
  <2>3. Dated(account, step, r)
    BY <1>3, <1>5 DEF Dated, Admitted, Exists
  <2>4. Proven(account, step, r) /\ Entitled(step, r)
    BY <1>5 DEF Proven, Entitled
  <2> QED
    BY <2>1, <2>2, <2>3, <2>4 DEF Fits
<1>7. Moves({s}) /\ pc'[s] = step
  BY <1>1, <1>3, <1>4, <1>5, <1>6, MovesAlone DEF Step
<1> QED
  BY <1>1, <1>4, <1>5, <1>7, QuietStep

\* The session of a sign-in, or the prime's role before it.
LEMMA SignInIs ==
    ASSUME NEW s \in Slot, NEW doc, SignIn(s, doc)
    PROVE  \E step \in {"open", "elevate"} :
               /\ pc' = [pc EXCEPT ![s] = step]
               /\ step = "elevate" => req[s].user = Owner /\ doc.verified
BY DEF SignIn, Continue, EarnsPrime

LEMMA UpsertedMoves ==
    ASSUME TypeOK, NEW s \in Slot, pc[s] # "idle", req[s].route \in {"bridge", "webhook"},
           NEW doc \in Account, NEW dropped \in BOOLEAN, NEW others,
           DOMAIN others = Slot, others[s] = req[s],
           \A t \in Slot \ {s} :
               /\ pc[t] = "idle" => others[t] = req[t]
               /\ pc[t] # "idle" => Alike(req[t], others[t])
                                    /\ Later(account, account', others[t]),
           account'[req[s].user] # Unborn,
           doc.verified => account'[req[s].user].verified,
           req[s].route = "bridge" /\ doc.status \notin Denied =>
               /\ account'[req[s].user].status \in Denied => req[s].overtaken
               /\ account'[req[s].user].clerk \/ req[s].overtaken,
           dropped => account'[req[s].user].verified,
           Upserted(s, doc, dropped, others)
    PROVE  /\ Moves({s})
           /\ pc'[s] # "createToken"
           /\ ~dropped => UNCHANGED lapsed
           /\ dropped => \/ /\ pc'[s] = "revoke" /\ req'[s].user = req[s].user
                            /\ UNCHANGED lapsed
                         \/ LeaveOpen(req[s].user)
<1> DEFINE u == req[s].user
           denied == req[s].route = "bridge" /\ doc.status \in Denied
<1>1. req[s] \in Request /\ u \in User
  BY RequestTypes
<1>2. CASE denied
  <2>1. /\ pc' = [pc EXCEPT ![s] = "idle"] /\ req' = [others EXCEPT ![s] = None]
        /\ IF dropped THEN LeaveOpen(u) ELSE UNCHANGED lapsed
    BY <1>2 DEF Upserted
  <2>2. Moves({s}) /\ pc'[s] = "idle"
    BY <2>1, MovesByOne
  <2> QED
    BY <2>1, <2>2
<1>3. CASE ~denied /\ dropped
  <2> DEFINE r == [req[s] EXCEPT !.read = doc]
  <2>1. /\ pc' = [pc EXCEPT ![s] = "revoke"] /\ req' = [others EXCEPT ![s].read = doc]
        /\ UNCHANGED lapsed
    BY <1>3 DEF Upserted, Continue
  <2>2. req' = [others EXCEPT ![s] = r]
    BY <2>1
  <2>3. /\ r \in Request /\ r.route = req[s].route /\ r.user = u /\ r.read = doc
        /\ r.overtaken = req[s].overtaken /\ r.goal = req[s].goal
    BY <1>1, ReadIs
  <2> HIDE DEF r
  <2>4. Fits(account', "revoke", r)
    <3>1. OnRoute("revoke", r)
      BY <2>3 DEF OnRoute
    <3>2. Grounded(account', "revoke", r)
      BY <2>3 DEF Grounded
    <3>3. Dated(account', "revoke", r)
      BY <1>3, <2>3 DEF Dated, Admitted
    <3>4. Proven(account', "revoke", r) /\ Entitled("revoke", r)
      BY <1>3, <2>3 DEF Proven, Entitled
    <3> QED
      BY <3>1, <3>2, <3>3, <3>4 DEF Fits
  <2>5. Moves({s}) /\ pc'[s] = "revoke" /\ req'[s] = r
    BY <2>1, <2>2, <2>3, <2>4, MovesByOne, ZenonT(40) DEF Step
  <2> QED
    BY <1>3, <2>1, <2>3, <2>5
<1>4. CASE ~denied /\ ~dropped /\ req[s].route = "bridge"
  <2> DEFINE r == [req[s] EXCEPT !.read = Unborn]
  <2>1. /\ SignIn(s, doc) /\ req' = [others EXCEPT ![s].read = Unborn]
        /\ UNCHANGED lapsed
    BY <1>4 DEF Upserted
  <2>2. req' = [others EXCEPT ![s] = r]
    BY <2>1
  <2>3. PICK step \in {"open", "elevate"} :
            /\ pc' = [pc EXCEPT ![s] = step]
            /\ step = "elevate" => u = Owner /\ doc.verified
    BY <2>1, SignInIs
  <2>4. /\ r \in Request /\ r.route = req[s].route /\ r.user = u
        /\ r.overtaken = req[s].overtaken
    BY <1>1, ReadIs
  <2> HIDE DEF r
  <2>5. Fits(account', step, r)
    BY <1>4, <2>3, <2>4, AdmittedFits
  <2>6. Moves({s}) /\ pc'[s] = step
    BY <2>2, <2>3, <2>4, <2>5, MovesByOne DEF Step
  <2> QED
    BY <1>4, <2>1, <2>3, <2>6
<1>5. CASE ~denied /\ ~dropped /\ req[s].route = "webhook"
  <2>1. /\ pc' = [pc EXCEPT ![s] = "idle"] /\ req' = [others EXCEPT ![s] = None]
        /\ UNCHANGED lapsed
    BY <1>5 DEF Upserted
  <2>2. Moves({s}) /\ pc'[s] = "idle"
    BY <2>1, MovesByOne
  <2> QED
    BY <1>5, <2>1, <2>2
<1> QED
  BY <1>2, <1>3, <1>4, <1>5

----------------------------------------------------------------------------
(* Cutting an account off from its sessions.                               *)

\* s dates the sessions of u, and revokes them next or leaves them open for good.
LEMMA CutOffStep ==
    ASSUME IInv, NEW s \in Slot, Moves({s}), pc[s] # "revoke", pc'[s] # "createToken",
           UsersTypeOK', Growing, RolesAreEarned,
           NEW u \in User, Date(u), UNCHANGED token,
           \/ pc'[s] = "revoke" /\ req'[s].user = u /\ UNCHANGED lapsed
           \/ LeaveOpen(u)
    PROVE  IInv'
<1>1. TypeOK /\ SessionsTypeOK /\ TokensTypeOK /\ Owned
      /\ Superseded /\ LiveTokensOnlyByOverlap /\ EarlierSessionsEnd
  BY DEF IInv, TypeOK, SessionsTypeOK, TokensTypeOK
<1>2. /\ SessionsTypeOK'
      /\ \A i \in Live' :
             /\ i \in Live
             /\ session'[i].user = session[i].user
             /\ session[i].user # u => session'[i] = session[i]
  BY <1>1, DateMarks
<1>3. TokensGo
  BY <1>1, SameTokens
<1>4. Owned'
  <2>1. {} \in SUBSET User
    OBVIOUS
  <2> QED
    BY <1>1, <1>2, <1>3, <2>1, OwnedKept
<1>5. \A t \in Slot :
          /\ pc'[t] = "createToken" =>
                 /\ pc[t] = "createToken"
                 /\ req'[t].user = req[t].user /\ req'[t].route = req[t].route
                 /\ req[t].raced => req'[t].raced
          /\ pc[t] = "revoke" => pc'[t] = "revoke" /\ req'[t].user = req[t].user
  BY <1>1, MovesElsewhere
<1>6. Superseded' /\ LiveTokensOnlyByOverlap'
  BY <1>1, <1>3, <1>5, TokensKept
<1>7. EarlierSessionsEnd' /\ lapsed' \in [User -> BOOLEAN]
  <2>1. CASE pc'[s] = "revoke" /\ req'[s].user = u /\ UNCHANGED lapsed
    BY <1>1, <1>2, <1>5, <2>1 DEF EarlierSessionsEnd, TypeOK
  <2>2. CASE LeaveOpen(u)
    <3>1. lapsed' \in [User -> BOOLEAN]
          /\ (\A w \in User \ {u} : lapsed'[w] = lapsed[w])
          /\ lapsed'[u] = (SessionsOf(u) # {})
      BY <1>1, <2>2 DEF LeaveOpen, TypeOK
    <3>2. \A i \in Live' : session[i].user \in User
      BY <1>1, <1>2 DEF SessionsTypeOK, Session, Live
    <3>3. \A i \in Live' : session[i].user = u => lapsed'[u]
      BY <1>2, <3>1 DEF SessionsOf
    <3> QED
      BY <1>1, <1>2, <1>5, <3>1, <3>2, <3>3 DEF EarlierSessionsEnd
  <2> QED
    BY <2>1, <2>2
<1>8. TokensTypeOK'
  BY <1>3 DEF TokensGo
<1> QED
  BY <1>2, <1>4, <1>6, <1>7, <1>8, StepKeeps

LEMMA LinkKeeps ==
    ASSUME IInv, NEW s \in Slot, Link(s)
    PROVE  IInv'
<1> DEFINE u    == req[s].user
           read == req[s].read
           doc  == LinkedDoc(read)
           others == IF read.verified THEN req ELSE Overtaken(Slot \ {s}, u)
<1>1. /\ pc[s] = "link" /\ TypeOK /\ UsersTypeOK /\ SessionsTypeOK /\ TokensTypeOK
      /\ req[s] \in Request /\ u \in User /\ Exists(u) /\ Fits(account, "link", req[s])
  BY AtStep DEF Link, OnAccount
<1>2. read \in Account /\ req[s].route \in {"bridge", "webhook"}
  BY <1>1 DEF Fits, Grounded, OnRoute
<1>3. /\ SaveLink(u, read) /\ UNCHANGED token
      /\ Upserted(s, doc, ~read.verified, others)
      /\ IF read.verified THEN UNCHANGED session ELSE Date(u)
  <2>1. read.verified \in BOOLEAN
    BY <1>2 DEF Account
  <2> QED
    BY <2>1 DEF Link
<1>4. /\ doc \in Account
      /\ doc.verified
      /\ doc.status = IF read.status = "pending_verification" THEN "active" ELSE read.status
  <2>1. (read.password /\ read.verified) \in BOOLEAN
    BY <1>2 DEF Account
  <2> QED
    BY <1>2, <2>1 DEF LinkedDoc, Account, Status
<1>5. /\ Only(u) /\ SameRole(u)
      /\ account'[u].verified /\ account'[u].clerk
      /\ account'[u].status =
             IF read.status = "pending_verification" THEN "active" ELSE account[u].status
  BY <1>1, <1>3, SaveLinkWrites DEF Activated
<1>6. account'[u] # Unborn
  BY <1>5, ValueAssumption DEF Only
<1>7. (\A q \in Request : Later(account, account', q)) /\ Growing
  BY <1>1, <1>5, LaterRewritten DEF Denied
<1>8. /\ DOMAIN others = Slot /\ others[s] = req[s]
      /\ \A t \in Slot \ {s} :
             /\ pc[t] = "idle" => others[t] = req[t]
             /\ pc[t] # "idle" => Alike(req[t], others[t]) /\ Later(account, account', others[t])
  <2>1. CASE read.verified
    BY <1>1, <1>7, <2>1, OthersUndated
  <2>2. CASE ~read.verified
    <3> DEFINE dated == Overtaken(Slot \ {s}, u)
    <3>1. others = dated
      BY <2>2
    <3>2. /\ DOMAIN dated = Slot /\ dated[s] = req[s]
          /\ \A t \in Slot \ {s} :
                 /\ pc[t] = "idle" => dated[t] = req[t]
                 /\ pc[t] # "idle" => Alike(req[t], dated[t])
                                      /\ Later(account, account', dated[t])
      BY <1>1, <1>5, OthersOvertaken
    <3> HIDE DEF dated, others
    <3> QED
      BY <3>1, <3>2
  <2> QED
    BY <2>1, <2>2
<1>9. req[s].route = "bridge" /\ doc.status \notin Denied =>
          (account'[u].status \in Denied => req[s].overtaken)
  BY <1>1, <1>4, <1>5 DEF Fits, Dated, Denied
<1> HIDE DEF others, doc
<1>10. /\ Moves({s})
       /\ pc'[s] # "createToken"
       /\ read.verified => UNCHANGED lapsed
       /\ ~read.verified => \/ pc'[s] = "revoke" /\ req'[s].user = u /\ UNCHANGED lapsed
                            \/ LeaveOpen(u)
  <2> DEFINE dropped == ~read.verified
  <2>2. dropped \in BOOLEAN /\ Upserted(s, doc, dropped, others)
    BY <1>3
  <2>3. dropped <=> ~read.verified
    OBVIOUS
  <2> HIDE DEF dropped
  <2> QED
    BY <1>1, <1>2, <1>4, <1>5, <1>6, <1>8, <1>9, <2>2, <2>3, UpsertedMoves
<1>11. RolesAreEarned
  BY <1>1, <1>5 DEF RolesAreEarned, Only, SameRole, Exists
<1>12. UsersTypeOK'
  BY <1>5 DEF Only
<1>13. CASE read.verified
  <2>1. SessionsComeAndGo({}) /\ TokensGo
    BY <1>1, <1>3, <1>13, SameSessions, SameTokens
  <2> QED
    BY <1>1, <1>7, <1>10, <1>11, <1>12, <1>13, <2>1, PlainStep
<1>14. CASE ~read.verified
  BY <1>1, <1>3, <1>7, <1>10, <1>11, <1>12, <1>14, CutOffStep
<1> QED
  BY <1>13, <1>14

LEMMA InsertFromClerkKeeps ==
    ASSUME IInv, NEW s \in Slot, InsertFromClerk(s)
    PROVE  IInv'
<1> DEFINE u == req[s].user
           others == Overtaken(Slot \ {s}, u)
           doc == account'[u]
<1>1. /\ pc[s] = "insert" /\ TypeOK /\ UsersTypeOK /\ SessionsTypeOK /\ TokensTypeOK
      /\ req[s] \in Request /\ u \in User /\ Fits(account, "insert", req[s])
  BY AtStep DEF InsertFromClerk
<1>2. req[s].route \in {"bridge", "webhook"}
  BY <1>1 DEF Fits, OnRoute
<1>3. UNCHANGED <<session, token>>
  BY DEF InsertFromClerk
<1>4. CASE Exists(u)
  <2>1. /\ pc' = [pc EXCEPT ![s] = "recover"] /\ req' = [req EXCEPT ![s] = req[s]]
        /\ UNCHANGED <<account, session, token, lapsed>>
    BY <1>1, <1>4, SameRequest DEF InsertFromClerk, Continue
  <2>2. Fits(account, "recover", req[s])
    <3>1. OnRoute("recover", req[s])
      BY <1>1 DEF Fits, OnRoute
    <3>2. Grounded(account, "recover", req[s])
      BY <1>4 DEF Grounded, Exists
    <3>3. Dated(account, "recover", req[s])
      BY <1>1, <1>4 DEF Fits, Dated, Admitted, Exists
    <3>4. Proven(account, "recover", req[s]) /\ Entitled("recover", req[s])
      BY DEF Proven, Entitled
    <3> QED
      BY <3>1, <3>2, <3>3, <3>4 DEF Fits
  <2>3. Moves({s}) /\ pc'[s] = "recover"
    BY <1>1, <2>1, <2>2, MovesAlone DEF Step
  <2> QED
    BY <1>1, <2>1, <2>3, QuietStep
<1>5. CASE ~Exists(u)
  <2>1. CreateFromClerk(u) /\ Upserted(s, doc, FALSE, others)
    BY <1>5 DEF InsertFromClerk
  <2>2. /\ Only(u)
        /\ account'[u].status = "active"
        /\ account'[u].verified /\ account'[u].clerk
        /\ EffectiveRole(account'[u]) = "buyer"
    BY <1>1, <2>1, CreateFromClerkWrites
  <2>3. doc \in Account /\ account'[u] # Unborn
    BY <2>2, ValueAssumption DEF Only
  <2>4. /\ DOMAIN others = Slot /\ others[s] = req[s]
        /\ \A t \in Slot \ {s} :
               /\ pc[t] = "idle" => others[t] = req[t]
               /\ pc[t] # "idle" => Alike(req[t], others[t])
                                    /\ Later(account, account', others[t])
    BY <1>1, <1>5, <2>2, OthersOvertaken
  <2> HIDE DEF others
  <2>5. account'[u].status \notin Denied
    BY <2>2 DEF Denied
  <2>6. Moves({s}) /\ pc'[s] # "createToken" /\ UNCHANGED lapsed
    BY <1>1, <1>2, <2>1, <2>2, <2>3, <2>4, <2>5, UpsertedMoves
  <2>7. RolesAreEarned
    BY <2>2 DEF RolesAreEarned, Only, SameRole, Exists
  <2>8. Growing
    BY <1>1, <1>5, <2>2, LaterOvertaken
  <2>9. SessionsComeAndGo({}) /\ TokensGo /\ UsersTypeOK'
    BY <1>1, <1>3, <2>2, SameSessions, SameTokens DEF Only
  <2> QED
    BY <1>1, <2>6, <2>7, <2>8, <2>9, PlainStep
<1> QED
  BY <1>4, <1>5

LEMMA RecoverKeeps ==
    ASSUME IInv, NEW s \in Slot, Recover(s)
    PROVE  IInv'
<1> DEFINE u == req[s].user
           doc == account[u]
<1>1. /\ pc[s] = "recover" /\ TypeOK /\ UsersTypeOK /\ SessionsTypeOK /\ TokensTypeOK
      /\ req[s] \in Request /\ u \in User /\ Exists(u) /\ Fits(account, "recover", req[s])
  BY AtStep DEF Recover, OnAccount
<1>2. req[s].route \in {"bridge", "webhook"}
  BY <1>1 DEF Fits, OnRoute
<1>3. UNCHANGED <<account, session, token>> /\ Upserted(s, doc, FALSE, req)
  BY DEF Recover
<1>4. doc \in Account /\ account'[u] = doc /\ doc # Unborn
  BY <1>1, <1>3 DEF UsersTypeOK, Exists
<1>5. doc.clerk \/ req[s].overtaken
  BY <1>1 DEF Fits, Dated, Exists
<1>6. /\ DOMAIN req = Slot
      /\ \A t \in Slot \ {s} :
             pc[t] # "idle" => Alike(req[t], req[t]) /\ Later(account, account', req[t])
  BY <1>1, <1>3, OthersUndated, LaterSame
<1> HIDE DEF doc
<1>7. Moves({s}) /\ pc'[s] # "createToken" /\ UNCHANGED lapsed
  BY <1>1, <1>2, <1>3, <1>4, <1>5, <1>6, UpsertedMoves
<1> QED
  BY <1>1, <1>3, <1>7, QuietStep

LEMMA SetPasswordKeeps ==
    ASSUME IInv, NEW s \in Slot, SetPassword(s)
    PROVE  IInv'
<1> DEFINE u == req[s].user
           others == Overtaken(Slot \ {s}, u)
<1>1. /\ pc[s] = "setPassword" /\ TypeOK /\ UsersTypeOK
      /\ req[s] \in Request /\ u \in User /\ Exists(u) /\ Fits(account, "setPassword", req[s])
  BY AtStep DEF SetPassword, OnAccount
<1>2. /\ SetPasswordHash(u) /\ Date(u)
      /\ pc' = [pc EXCEPT ![s] = "revoke"] /\ req' = others
      /\ UNCHANGED <<token, lapsed>>
  BY DEF SetPassword, Continue
<1>3. /\ Only(u) /\ SameRole(u)
      /\ account'[u].verified = account[u].verified
      /\ account'[u].clerk = account[u].clerk
      /\ account'[u].status = account[u].status
  BY <1>1, <1>2, SetPasswordHashWrites
<1>4. account'[u] # Unborn
  BY <1>3, ValueAssumption DEF Only
<1>5. /\ DOMAIN others = Slot /\ others[s] = req[s]
      /\ others = [others EXCEPT ![s] = req[s]]
      /\ \A t \in Slot \ {s} :
             /\ pc[t] = "idle" => others[t] = req[t]
             /\ pc[t] # "idle" => Alike(req[t], others[t]) /\ Later(account, account', others[t])
  <2>1. Only(u) /\ (account[u].verified => account'[u].verified)
                /\ (account[u].clerk => account'[u].clerk)
    BY <1>3
  <2> QED
    BY <1>1, <2>1, OthersOvertaken
<1>6. Growing
  BY <1>1, <1>3, LaterOvertaken
<1> HIDE DEF others, u
<1>7. req[s].route # "bridge"
  BY <1>1 DEF Fits, OnRoute
<1>8. Fits(account', "revoke", req[s])
  <2>1. OnRoute("revoke", req[s])
    BY <1>1 DEF Fits, OnRoute
  <2>2. Grounded(account', "revoke", req[s])
    BY <1>4, <1>7 DEF Grounded, u
  <2>3. Dated(account', "revoke", req[s])
    BY <1>7 DEF Dated, Admitted
  <2>4. Proven(account', "revoke", req[s]) /\ Entitled("revoke", req[s])
    BY <1>7 DEF Proven, Entitled
  <2> QED
    BY <2>1, <2>2, <2>3, <2>4 DEF Fits
<1>9. Moves({s}) /\ pc'[s] = "revoke" /\ req'[s] = req[s]
  <2>1. "revoke" \in Step \ {"idle"} /\ req' = [others EXCEPT ![s] = req[s]]
    BY <1>2, <1>5 DEF Step
  <2> QED
    BY <1>1, <1>2, <1>5, <1>8, <2>1, MovesByOne
<1>10. RolesAreEarned
  BY <1>1, <1>3 DEF RolesAreEarned, Only, SameRole, Exists
<1>11. UsersTypeOK'
  BY <1>3 DEF Only
<1>12. req'[s].user = u
  BY <1>9 DEF u
<1> QED
  BY <1>1, <1>2, <1>6, <1>9, <1>10, <1>11, <1>12, CutOffStep

LEMMA RevokeSessionsKeeps ==
    ASSUME IInv, NEW s \in Slot, RevokeSessions(s)
    PROVE  IInv'
<1> DEFINE u == req[s].user
<1>1. /\ pc[s] = "revoke" /\ TypeOK /\ SessionsTypeOK /\ TokensTypeOK
      /\ req[s] \in Request /\ u \in User /\ Exists(u) /\ Fits(account, "revoke", req[s])
  BY AtStep DEF RevokeSessions, OnAccount
<1>2. /\ RevokeAllForUser(u) /\ lapsed' = [lapsed EXCEPT ![u] = FALSE]
      /\ UNCHANGED <<account, token>>
  BY DEF RevokeSessions
<1>3. Moves({s}) /\ pc'[s] \in {"idle", "open", "elevate"}
  <2>1. CASE req[s].route = "bridge"
    <3> DEFINE r == [req[s] EXCEPT !.read = Unborn]
    <3>1. SignIn(s, req[s].read) /\ req' = [req EXCEPT ![s] = r]
      BY <1>1, <2>1 DEF RevokeSessions, Reading, TypeOK
    <3>2. PICK step \in {"open", "elevate"} :
              /\ pc' = [pc EXCEPT ![s] = step]
              /\ step = "elevate" => u = Owner
      BY <3>1, SignInIs
    <3>3. /\ r \in Request /\ r.route = "bridge" /\ r.user = u
          /\ r.overtaken = req[s].overtaken
      BY <1>1, <2>1, ReadIs
    <3>4. /\ account[u] # Unborn /\ account[u].verified
          /\ account[u].status \in Denied => req[s].overtaken
          /\ account[u].clerk \/ req[s].overtaken
      BY <1>1, <2>1 DEF Fits, Dated, Proven, Admitted, Exists
    <3> HIDE DEF r
    <3>5. Fits(account, step, r)
      BY <3>2, <3>3, <3>4, AdmittedFits
    <3> QED
      BY <1>1, <1>2, <3>1, <3>2, <3>3, <3>5, MovesAlone DEF Step
  <2>2. CASE req[s].route # "bridge"
    <3>1. Answer(s)
      BY <2>2 DEF RevokeSessions
    <3> QED
      BY <1>1, <1>2, <3>1, MovesAnswered
  <2> QED
    BY <2>1, <2>2
<1>4. UsersTypeOK' /\ Growing /\ RolesAreEarned
  BY <1>1, <1>2, AccountsAlone
<1>5. /\ SessionsTypeOK'
      /\ \A i \in Live' : i \in Live /\ session'[i] = session[i] /\ session[i].user # u
  BY <1>1, <1>2, RevokeAllEnds
<1>6. TokensGo
  BY <1>1, <1>2, SameTokens
<1> HIDE DEF u
<1>7. Owned'
  <2>1. {} \in SUBSET User
    OBVIOUS
  <2> QED
    BY <1>1, <1>4, <1>5, <1>6, <2>1, OwnedKept DEF IInv
<1>8. \A t \in Slot \ {s} :
          /\ pc'[t] = pc[t]
          /\ pc[t] # "idle" =>
                 /\ req'[t].user = req[t].user /\ req'[t].route = req[t].route
                 /\ req[t].raced => req'[t].raced
  BY <1>1, <1>3, MovesElsewhere
<1>9. Superseded' /\ LiveTokensOnlyByOverlap'
  BY <1>3, <1>6, <1>8, TokensKept DEF IInv
<1>10. EarlierSessionsEnd'
  <2> SUFFICES ASSUME NEW i \in Live', session'[i].stale
               PROVE  \/ \E t \in Slot : pc'[t] = "revoke" /\ req'[t].user = session'[i].user
                      \/ lapsed'[session'[i].user]
    BY DEF EarlierSessionsEnd
  <2>1. i \in Live /\ session'[i] = session[i] /\ session[i].user # u
        /\ session[i].user \in User
    BY <1>1, <1>5 DEF SessionsTypeOK, Session, Live
  <2>2. CASE lapsed[session[i].user]
    BY <1>1, <1>2, <2>1, <2>2 DEF TypeOK
  <2>3. CASE \E t \in Slot : pc[t] = "revoke" /\ req[t].user = session[i].user
    <3>1. PICK t \in Slot : pc[t] = "revoke" /\ req[t].user = session[i].user
      BY <2>3
    <3>2. t # s
      BY <2>1, <3>1 DEF u
    <3> QED
      BY <1>8, <2>1, <3>1, <3>2
  <2> QED
    BY <2>1, <2>2, <2>3 DEF IInv, EarlierSessionsEnd
<1>11. TokensTypeOK' /\ lapsed' \in [User -> BOOLEAN]
  BY <1>1, <1>2, <1>6 DEF TokensGo, TypeOK
<1> QED
  BY <1>3, <1>4, <1>5, <1>7, <1>9, <1>10, <1>11, StepKeeps

LEMMA AbortKeeps ==
    ASSUME IInv, NEW s \in Slot, Abort(s)
    PROVE  IInv'
<1> DEFINE u == req[s].user
<1>1. /\ pc[s] # "idle" /\ TypeOK /\ SessionsTypeOK /\ TokensTypeOK /\ u \in User
  BY AtStep DEF Abort
<1>2. Answer(s) /\ UNCHANGED <<account, session, token>>
  BY DEF Abort
<1>3. Moves({s}) /\ pc'[s] = "idle"
  BY <1>1, <1>2, MovesAnswered
<1>4. CASE pc[s] # "revoke"
  <2>1. UNCHANGED lapsed
    BY <1>4 DEF Abort
  <2> QED
    BY <1>2, <1>3, <1>4, <2>1, QuietStep
<1>5. CASE pc[s] = "revoke"
  <2>1. UsersTypeOK' /\ Growing /\ RolesAreEarned
    BY <1>1, <1>2, AccountsAlone
  <2>2. SessionsTypeOK' /\ Live' = Live /\ session' = session
    BY <1>1, <1>2 DEF SessionsTypeOK, Live
  <2>3. TokensGo
    BY <1>1, <1>2, SameTokens
  <2>4. LeaveOpen(u)
    BY <1>5 DEF Abort
  <2>5. lapsed' \in [User -> BOOLEAN]
        /\ (\A w \in User \ {u} : lapsed'[w] = lapsed[w])
        /\ lapsed'[u] = (SessionsOf(u) # {})
    BY <1>1, <2>4 DEF LeaveOpen, TypeOK
  <2> HIDE DEF u
  <2>6. Owned'
    <3>1. {} \in SUBSET User
      OBVIOUS
    <3> QED
      BY <1>1, <2>1, <2>2, <2>3, <3>1, OwnedKept DEF IInv
  <2>7. \A t \in Slot \ {s} :
            /\ pc'[t] = pc[t]
            /\ pc[t] # "idle" =>
                   /\ req'[t].user = req[t].user /\ req'[t].route = req[t].route
                   /\ req[t].raced => req'[t].raced
    BY <1>1, <1>3, MovesElsewhere
  <2>8. Superseded' /\ LiveTokensOnlyByOverlap'
    BY <1>3, <2>3, <2>7, TokensKept DEF IInv
  <2>9. EarlierSessionsEnd'
    <3> SUFFICES ASSUME NEW i \in Live, session[i].stale
                 PROVE  \/ \E t \in Slot : pc'[t] = "revoke" /\ req'[t].user = session[i].user
                        \/ lapsed'[session[i].user]
      BY <2>2 DEF EarlierSessionsEnd
    <3>1. session[i].user \in User
      BY <1>1 DEF SessionsTypeOK, Session, Live
    <3>2. CASE session[i].user = u
      BY <2>5, <3>2 DEF SessionsOf
    <3>3. CASE session[i].user # u /\ lapsed[session[i].user]
      BY <2>5, <3>1, <3>3
    <3>4. CASE /\ session[i].user # u
               /\ \E t \in Slot : pc[t] = "revoke" /\ req[t].user = session[i].user
      <4>1. PICK t \in Slot : pc[t] = "revoke" /\ req[t].user = session[i].user
        BY <3>4
      <4>2. t # s
        BY <3>4, <4>1 DEF u
      <4> QED
        BY <2>7, <4>1, <4>2
    <3> QED
      BY <3>2, <3>3, <3>4 DEF IInv, EarlierSessionsEnd
  <2>10. TokensTypeOK'
    BY <2>3 DEF TokensGo
  <2> QED
    BY <1>3, <2>1, <2>2, <2>5, <2>6, <2>8, <2>9, <2>10, StepKeeps
<1> QED
  BY <1>4, <1>5

----------------------------------------------------------------------------
(* The guarded routes.                                                     *)

LEMMA PrimeCapability ==
    ASSUME NEW role, "admin_prime" \in RoleCapabilities(role)
    PROVE  role = "admin_prime"
<1>1. CASE role = "admin"
  BY <1>1 DEF RoleCapabilities
<1>2. CASE role # "admin" /\ role # "admin_prime"
  <2>1. RoleCapabilities(role) = {role}
    BY <1>2 DEF RoleCapabilities
  <2> QED
    BY <2>1
<1> QED
  BY <1>1, <1>2

LEMMA Passing ==
    ASSUME NEW doc
    PROVE  /\ MayPass("becomeSeller", doc) => ~IsStaff(doc)
           /\ MayPass("assignRole", doc) => EffectiveRole(doc) = "admin_prime"
<1>1. MayPass("becomeSeller", doc) => EffectiveRole(doc) = "buyer"
  BY DEF MayPass
<1>2. MayPass("assignRole", doc) => "admin_prime" \in RoleCapabilities(EffectiveRole(doc))
  BY DEF MayPass
<1> QED
  BY <1>1, <1>2, PrimeCapability DEF IsStaff, StaffRole

LEMMA AuthenticateKeeps ==
    ASSUME IInv, NEW s \in Slot, Authenticate(s)
    PROVE  IInv'
<1> DEFINE by  == req[s].by
           doc == account[by]
<1>1. /\ pc[s] = "authenticate" /\ TypeOK /\ UsersTypeOK
      /\ req[s] \in Request /\ by \in User /\ Fits(account, "authenticate", req[s])
  BY AtStep DEF Authenticate
<1>2. doc \in Account /\ account[by] # Unborn
  BY <1>1 DEF Fits, Grounded, UsersTypeOK
<1>3. UNCHANGED <<account, session, token, lapsed>>
  BY DEF Authenticate
<1>4. CASE doc.status \in Denied \/ ~MayPass(req[s].route, doc)
  <2>1. Answer(s)
    BY <1>4 DEF Authenticate
  <2> QED
    BY <1>1, <1>3, <2>1, MovesAnswered, QuietStep
<1>5. CASE MayPass(req[s].route, doc) /\ doc.status \notin Denied /\ req[s].route = "becomeSeller"
  <2> DEFINE r == [req[s] EXCEPT !.read = doc]
  <2>1. pc' = [pc EXCEPT ![s] = "write"] /\ req' = [req EXCEPT ![s] = r]
    BY <1>1, <1>5 DEF Authenticate, Continue, Reading, TypeOK
  <2>2. /\ r \in Request /\ r.route = "becomeSeller" /\ r.user = req[s].user /\ r.by = by
        /\ r.goal = req[s].goal /\ r.read = doc
    BY <1>1, <1>2, <1>5, ReadIs
  <2>3. ~IsStaff(doc)
    BY <1>5, Passing
  <2> HIDE DEF r, doc
  <2>4. Fits(account, "write", r)
    <3>1. OnRoute("write", r)
      BY <1>1, <1>5, <2>2 DEF Fits, OnRoute
    <3>2. Grounded(account, "write", r)
      BY <1>1, <1>2, <1>5, <2>2 DEF Fits, OnRoute, Grounded
    <3>3. Dated(account, "write", r)
      BY DEF Dated, Admitted
    <3>4. Proven(account, "write", r) /\ Entitled("write", r)
      BY <2>2, <2>3 DEF Proven, Entitled
    <3> QED
      BY <3>1, <3>2, <3>3, <3>4 DEF Fits
  <2>5. Moves({s}) /\ pc'[s] = "write"
    BY <1>1, <1>3, <2>1, <2>2, <2>4, MovesAlone DEF Step
  <2> QED
    BY <1>1, <1>3, <2>5, QuietStep
<1>6. CASE MayPass(req[s].route, doc) /\ doc.status \notin Denied /\ req[s].route # "becomeSeller"
  <2> DEFINE prime == EffectiveRole(doc) = "admin_prime"
             r == [req[s] EXCEPT !.byPrime = prime]
  <2>1. pc' = [pc EXCEPT ![s] = "findTarget"] /\ req' = [req EXCEPT ![s] = r]
    BY <1>1, <1>6 DEF Authenticate, Continue, TypeOK
  <2>2. prime \in BOOLEAN
    OBVIOUS
  <2>3. req[s].route = "assignRole" => prime
    BY <1>6, Passing
  <2> HIDE DEF prime, doc
  <2>4. /\ r \in Request /\ r.route = req[s].route /\ r.user = req[s].user
        /\ r.goal = req[s].goal /\ r.byPrime = prime
    BY <1>1, <2>2 DEF Request
  <2> HIDE DEF r
  <2>5. Fits(account, "findTarget", r)
    <3>1. OnRoute("findTarget", r)
      BY <1>1, <1>6, <2>4 DEF Fits, OnRoute
    <3>2. Grounded(account, "findTarget", r)
      BY DEF Grounded, OnAccount
    <3>3. Dated(account, "findTarget", r)
      BY DEF Dated, Admitted
    <3>4. Proven(account, "findTarget", r) /\ Entitled("findTarget", r)
      BY <2>3, <2>4 DEF Proven, Entitled
    <3> QED
      BY <3>1, <3>2, <3>3, <3>4 DEF Fits
  <2>6. Moves({s}) /\ pc'[s] = "findTarget"
    BY <1>1, <1>3, <2>1, <2>4, <2>5, MovesAlone DEF Step
  <2> QED
    BY <1>1, <1>3, <2>6, QuietStep
<1> QED
  BY <1>4, <1>5, <1>6

LEMMA FindTargetKeeps ==
    ASSUME IInv, NEW s \in Slot, FindTarget(s)
    PROVE  IInv'
<1> DEFINE u == req[s].user
           r == [req[s] EXCEPT !.read = account[u]]
           step == IF req[s].route = "setStatus" THEN "saveStatus" ELSE "write"
<1>1. /\ pc[s] = "findTarget" /\ TypeOK /\ UsersTypeOK
      /\ req[s] \in Request /\ u \in User /\ Fits(account, "findTarget", req[s])
  BY AtStep DEF FindTarget
<1>2. UNCHANGED <<account, session, token, lapsed>>
  BY DEF FindTarget
<1>3. CASE Exists(u) /\ MayManage(req[s], account[u])
  <2>1. pc' = [pc EXCEPT ![s] = step] /\ req' = [req EXCEPT ![s] = r]
    BY <1>1, <1>3 DEF FindTarget, Continue, Reading, TypeOK
  <2>2. account[u] \in Account /\ account[u] # Unborn
    BY <1>1, <1>3 DEF UsersTypeOK, Exists
  <2>3. /\ r \in Request /\ r.route = req[s].route /\ r.user = u /\ r.by = req[s].by
        /\ r.goal = req[s].goal /\ r.byPrime = req[s].byPrime /\ r.read = account[u]
    BY <1>1, <2>2, ReadIs
  <2>4. \/ step = "saveStatus" /\ r.route = "setStatus"
        \/ step = "write" /\ r.route = "assignRole"
    BY <1>1, <2>3 DEF Fits, OnRoute
  <2>5. step = "saveStatus" => r.byPrime \/ ~IsStaff(account[u])
    BY <1>3, <2>3, <2>4 DEF MayManage
  <2> HIDE DEF r, step
  <2>6. Fits(account, step, r)
    <3>1. OnRoute(step, r)
      BY <1>1, <2>3, <2>4 DEF Fits, OnRoute
    <3>2. Grounded(account, step, r)
      BY <2>2, <2>3, <2>4 DEF Grounded
    <3>3. Dated(account, step, r)
      BY <2>4 DEF Dated, Admitted
    <3>4. Proven(account, step, r)
      BY <2>4 DEF Proven
    <3>5. Entitled(step, r)
      BY <1>1, <2>3, <2>4, <2>5 DEF Fits, Entitled
    <3> QED
      BY <3>1, <3>2, <3>3, <3>4, <3>5 DEF Fits
  <2>7. Moves({s}) /\ pc'[s] = step
    BY <1>1, <1>2, <2>1, <2>3, <2>4, <2>6, MovesAlone DEF Step
  <2> QED
    BY <1>1, <1>2, <2>4, <2>7, QuietStep
<1>4. CASE ~(Exists(u) /\ MayManage(req[s], account[u]))
  <2>1. Answer(s)
    BY <1>4 DEF FindTarget
  <2> QED
    BY <1>1, <1>2, <2>1, MovesAnswered, QuietStep
<1> QED
  BY <1>3, <1>4

LEMMA SaveAccountStatusKeeps ==
    ASSUME IInv, NEW s \in Slot, SaveAccountStatus(s)
    PROVE  IInv'
<1> DEFINE u == req[s].user
           others == Overtaken(Slot \ {s}, u)
<1>1. /\ pc[s] = "saveStatus" /\ TypeOK /\ UsersTypeOK /\ SessionsTypeOK /\ TokensTypeOK
      /\ req[s] \in Request /\ u \in User /\ Exists(u) /\ Fits(account, "saveStatus", req[s])
  BY AtStep DEF SaveAccountStatus, OnAccount
<1>2. req[s].route = "setStatus" /\ req[s].goal \in AdminSettableStatus
  BY <1>1 DEF Fits, OnRoute
<1>3. SaveStatus(u, req[s].read, req[s].goal) /\ UNCHANGED <<token, lapsed>>
  BY DEF SaveAccountStatus
<1>4. /\ Only(u) /\ SameRole(u)
      /\ account'[u].verified = account[u].verified
      /\ account'[u].clerk = account[u].clerk
      /\ account'[u].status \in {account[u].status, req[s].goal}
  BY <1>1, <1>2, <1>3, SaveStatusWrites
<1>5. account'[u] # Unborn
  BY <1>4, ValueAssumption DEF Only
<1>6. RolesAreEarned
  BY <1>1, <1>4 DEF RolesAreEarned, Only, SameRole, Exists
<1>7. UsersTypeOK'
  BY <1>4 DEF Only
<1>8. /\ account[u].verified => account'[u].verified
      /\ account[u].clerk => account'[u].clerk
  BY <1>4
<1>9. Growing
  BY <1>1, <1>4, <1>8, LaterOvertaken
<1>10. CASE req[s].goal = "suspended"
  <2>1. /\ Date(u) /\ pc' = [pc EXCEPT ![s] = "revoke"] /\ req' = others
    BY <1>10 DEF SaveAccountStatus, Continue
  <2>2. /\ DOMAIN others = Slot /\ others[s] = req[s]
        /\ others = [others EXCEPT ![s] = req[s]]
        /\ \A t \in Slot \ {s} :
               /\ pc[t] = "idle" => others[t] = req[t]
               /\ pc[t] # "idle" => Alike(req[t], others[t])
                                    /\ Later(account, account', others[t])
    BY <1>1, <1>4, <1>8, OthersOvertaken
  <2>3. Fits(account', "revoke", req[s])
    <3>1. OnRoute("revoke", req[s])
      BY <1>1 DEF Fits, OnRoute
    <3>2. Grounded(account', "revoke", req[s])
      BY <1>2, <1>5 DEF Grounded
    <3>3. Dated(account', "revoke", req[s])
      BY <1>2 DEF Dated, Admitted
    <3>4. Proven(account', "revoke", req[s]) /\ Entitled("revoke", req[s])
      BY <1>2 DEF Proven, Entitled
    <3> QED
      BY <3>1, <3>2, <3>3, <3>4 DEF Fits
  <2> HIDE DEF others
  <2>4. Moves({s}) /\ pc'[s] = "revoke" /\ req'[s] = req[s]
    <3>1. "revoke" \in Step \ {"idle"} /\ req' = [others EXCEPT ![s] = req[s]]
      BY <2>1, <2>2 DEF Step
    <3> HIDE DEF u
    <3> QED
      BY <1>1, <2>1, <2>2, <2>3, <3>1, MovesByOne
  <2>5. req'[s].user = u
    BY <2>4
  <2> HIDE DEF u
  <2> QED
    BY <1>1, <1>3, <1>6, <1>7, <1>9, <2>1, <2>4, <2>5, CutOffStep
<1>11. CASE req[s].goal # "suspended"
  <2>1. /\ UNCHANGED session
        /\ pc' = [pc EXCEPT ![s] = "idle"] /\ req' = [req EXCEPT ![s] = None]
    BY <1>11 DEF SaveAccountStatus, Answer
  <2>2. account'[u].status \in Denied => account[u].status \in Denied
    BY <1>2, <1>4, <1>11 DEF AdminSettableStatus, Denied
  <2>3. \A q \in Request : Later(account, account', q)
    BY <1>1, <1>4, <1>8, <2>2, LaterRewritten
  <2>4. /\ DOMAIN req = Slot
        /\ \A t \in Slot \ {s} :
               pc[t] # "idle" => Alike(req[t], req[t]) /\ Later(account, account', req[t])
    BY <1>1, <2>3, OthersUndated
  <2>5. Moves({s}) /\ pc'[s] = "idle"
    BY <1>1, <2>1, <2>4, MovesByOne
  <2>6. SessionsComeAndGo({}) /\ TokensGo
    BY <1>1, <1>3, <2>1, SameSessions, SameTokens
  <2> QED
    BY <1>1, <1>3, <1>6, <1>7, <1>9, <2>5, <2>6, PlainStep
<1> QED
  BY <1>10, <1>11

LEMMA WriteRoleKeeps ==
    ASSUME IInv, NEW s \in Slot, WriteRole(s)
    PROVE  IInv'
<1> DEFINE u == req[s].user
<1>1. /\ pc[s] = "write" /\ TypeOK /\ UsersTypeOK /\ SessionsTypeOK /\ TokensTypeOK
      /\ req[s] \in Request /\ u \in User /\ Exists(u) /\ Fits(account, "write", req[s])
  BY AtStep DEF WriteRole, OnAccount
<1>2. req[s].goal \in AssignableRole
  BY <1>1 DEF Fits, OnRoute
<1>3. /\ SetRole(u, req[s].goal)
      /\ pc' = [pc EXCEPT ![s] = "idle"] /\ req' = [req EXCEPT ![s] = None]
      /\ UNCHANGED <<session, token, lapsed>>
  BY DEF WriteRole, Answer
<1>4. /\ Only(u) /\ EffectiveRole(account'[u]) = req[s].goal
      /\ account'[u].verified = account[u].verified
      /\ account'[u].clerk = account[u].clerk
      /\ account'[u].status = account[u].status
  BY <1>1, <1>2, <1>3, SetRoleWrites DEF AssignableRole
<1>5. (\A q \in Request : Later(account, account', q)) /\ Growing
  BY <1>1, <1>4, LaterRewritten
<1>6. /\ DOMAIN req = Slot
      /\ \A t \in Slot \ {s} :
             pc[t] # "idle" => Alike(req[t], req[t]) /\ Later(account, account', req[t])
  BY <1>1, <1>5, OthersUndated
<1>7. Moves({s}) /\ pc'[s] = "idle"
  BY <1>1, <1>3, <1>6, MovesByOne
<1>8. EffectiveRole(account'[u]) # "admin_prime"
  BY <1>2, <1>4 DEF AssignableRole
<1>9. RolesAreEarned
  BY <1>4, <1>8 DEF RolesAreEarned, Only, SameRole, Exists
<1>10. SessionsComeAndGo({}) /\ TokensGo /\ UsersTypeOK'
  BY <1>1, <1>3, <1>4, SameSessions, SameTokens DEF Only
<1> QED
  BY <1>1, <1>3, <1>5, <1>7, <1>9, <1>10, PlainStep

----------------------------------------------------------------------------
(* Steps of no request.                                                    *)

LEMMA LogoutKeeps ==
    ASSUME IInv, NEW i \in SessionId, Logout(i)
    PROVE  IInv'
<1>1. TypeOK /\ SessionsTypeOK /\ TokensTypeOK
  BY DEF IInv, TypeOK, SessionsTypeOK, TokensTypeOK
<1>2. Revoke(i) /\ UNCHANGED <<account, token, pc, req, lapsed>>
  BY DEF Logout
<1>3. Moves({})
  BY <1>1, <1>2, RequestTypes, AlikeItself, LaterSame DEF Moves, OthersWait, TypeOK
<1>4. SessionsComeAndGo({}) /\ TokensGo
  BY <1>1, <1>2, RevokeEnds, SameTokens
<1>5. UsersTypeOK' /\ Growing /\ RolesAreEarned
  BY <1>1, <1>2, AccountsAlone
<1> QED
  BY <1>2, <1>3, <1>4, <1>5, PlainStep

LEMMA ExpireTokenKeeps ==
    ASSUME IInv, NEW i \in TokenId, ExpireToken(i)
    PROVE  IInv'
<1>1. TypeOK /\ SessionsTypeOK /\ TokensTypeOK
  BY DEF IInv, TypeOK, SessionsTypeOK, TokensTypeOK
<1>2. Spend(i) /\ UNCHANGED <<account, session, pc, req, lapsed>>
  BY DEF ExpireToken
<1>3. Moves({})
  BY <1>1, <1>2, RequestTypes, AlikeItself, LaterSame DEF Moves, OthersWait, TypeOK
<1>4. SessionsComeAndGo({}) /\ TokensGo
  BY <1>1, <1>2, SameSessions, SpendEnds
<1>5. UsersTypeOK' /\ Growing /\ RolesAreEarned
  BY <1>1, <1>2, AccountsAlone
<1> QED
  BY <1>2, <1>3, <1>4, <1>5, PlainStep

LEMMA MirrorDeletionKeeps ==
    ASSUME IInv, NEW u \in User, MirrorDeletion(u)
    PROVE  IInv'
<1>1. TypeOK /\ UsersTypeOK /\ SessionsTypeOK /\ TokensTypeOK
  BY DEF IInv, TypeOK, SessionsTypeOK, TokensTypeOK
<1>2. /\ Exists(u) /\ SoftDelete(u) /\ req' = Overtaken(Slot, u)
      /\ UNCHANGED <<session, token, pc, lapsed>>
  BY DEF MirrorDeletion
<1>3. /\ Only(u) /\ SameRole(u)
      /\ account'[u].verified = account[u].verified
      /\ account'[u].clerk = account[u].clerk
  BY <1>1, <1>2, SoftDeleteWrites
<1>4. /\ account[u].verified => account'[u].verified
      /\ account[u].clerk => account'[u].clerk
  BY <1>3
<1>5. /\ \A q \in Request : (q.user = u /\ q.route \in Trusting => q.overtaken)
                                => Later(account, account', q)
      /\ Growing
  BY <1>3, <1>4, LaterOvertaken
<1>6. Moves({})
  <2>1. ASSUME NEW t \in Slot
        PROVE  /\ pc[t] = "idle" => req'[t] = req[t]
               /\ pc[t] # "idle" => Alike(req[t], req'[t])
               /\ pc[t] # "idle" /\ req[t].user = u /\ req[t].route \in Trusting
                  => req'[t].overtaken
    <3>1. Slot \in SUBSET Slot
      OBVIOUS
    <3> QED
      BY <1>1, <1>2, <3>1, OvertakenAlike
  <2>2. ASSUME NEW t \in Slot, pc[t] # "idle"
        PROVE  Later(account, account', req'[t])
    <3>1. req'[t] \in Request /\ req'[t].user = req[t].user /\ req'[t].route = req[t].route
      BY <2>1, <2>2 DEF Alike
    <3> QED
      BY <1>5, <2>1, <2>2, <3>1
  <2>3. DOMAIN req' = Slot /\ req' = [t \in Slot |-> req'[t]]
    BY <1>2 DEF Overtaken
  <2>4. pc' = pc /\ DOMAIN pc = Slot /\ pc = [t \in Slot |-> pc[t]]
    BY <1>1, <1>2 DEF TypeOK
  <2> QED
    BY <2>1, <2>2, <2>3, <2>4 DEF Moves, OthersWait
<1>7. RolesAreEarned
  BY <1>2, <1>3, <1>4 DEF RolesAreEarned, Only, SameRole, Exists
<1>8. SessionsComeAndGo({}) /\ TokensGo /\ UsersTypeOK'
  BY <1>1, <1>2, <1>3, SameSessions, SameTokens DEF Only
<1> QED
  BY <1>2, <1>5, <1>6, <1>7, <1>8, PlainStep

LEMMA BackfillRoleKeeps ==
    ASSUME IInv, NEW u \in User, BackfillRole(u)
    PROVE  IInv'
<1>1. TypeOK /\ UsersTypeOK /\ SessionsTypeOK /\ TokensTypeOK
  BY DEF IInv, TypeOK, SessionsTypeOK, TokensTypeOK
<1>2. /\ Exists(u) /\ account[u].role = Unset /\ Backfill(u)
      /\ UNCHANGED <<session, token, pc, req, lapsed>>
  BY DEF BackfillRole
<1>3. /\ Only(u) /\ SameRole(u)
      /\ account'[u].verified = account[u].verified
      /\ account'[u].clerk = account[u].clerk
      /\ account'[u].status = account[u].status
  BY <1>1, <1>2, BackfillWrites
<1>4. (\A q \in Request : Later(account, account', q)) /\ Growing
  BY <1>2, <1>3, LaterRewritten
<1>5. Moves({})
  BY <1>1, <1>2, <1>4, RequestTypes, AlikeItself DEF Moves, OthersWait, TypeOK
<1>6. RolesAreEarned
  BY <1>2, <1>3 DEF RolesAreEarned, Only, SameRole, Exists
<1>7. SessionsComeAndGo({}) /\ TokensGo /\ UsersTypeOK'
  BY <1>1, <1>2, <1>3, SameSessions, SameTokens DEF Only
<1> QED
  BY <1>2, <1>4, <1>5, <1>6, <1>7, PlainStep

----------------------------------------------------------------------------
(* The invariant, and what follows from it.                                *)

LEMMA InitKeeps == Init => IInv
<1> SUFFICES ASSUME Init PROVE IInv
  OBVIOUS
<1> DEFINE founder == [ verified : {TRUE}, status : {"active"}, password : {TRUE},
                        clerk : {FALSE}, role : {Unset}, legacy : LegacyArrays ]
<1>1. founder \subseteq Account
  BY LegacyAssumption DEF Account, Status
<1>2. account \in [User -> {Unborn} \cup founder] /\ \A u \in User : Exists(u) <=> u \in Founders
  BY DEF Init
<1>3. session \in [SessionId -> {NoSession} \cup [user : Founders, stale : {FALSE}]]
  BY DEF Init
<1>4. Founders \subseteq User
  BY FoundersAssumption
<1>5. UsersTypeOK
  BY <1>1, <1>2 DEF UsersTypeOK
<1>6. session \in [SessionId -> Session(User) \cup {NoSession}]
  BY <1>3, <1>4 DEF Session
<1>7. TypeOK
  BY <1>5, <1>6 DEF Init, TypeOK, Step
<1>8. RequestsFit /\ Superseded
  BY DEF Init, RequestsFit, Superseded
<1>9. Owned
  BY <1>2, <1>3, <1>4 DEF Init, Owned, Live, Redeemable
<1>10. LiveTokensOnlyByOverlap
  BY DEF Init, LiveTokensOnlyByOverlap, Redeemable
<1>11. EarlierSessionsEnd
  BY <1>3 DEF EarlierSessionsEnd, Live
<1>12. PrimeOnlyIfProven
  BY <1>2 DEF PrimeOnlyIfProven
<1> QED
  BY <1>7, <1>8, <1>9, <1>10, <1>11, <1>12 DEF IInv

LEMMA NextKeeps ==
    ASSUME IInv, [Next]_vars
    PROVE  IInv'
<1>1. ASSUME NEW s \in Slot, Proceed(s)
      PROVE  IInv'
  BY <1>1, CreateAccountKeeps, SupersedeTokensKeeps, CreateTokenKeeps, MailFailsKeeps,
     FindByEmailKeeps, LinkKeeps, InsertFromClerkKeeps, RecoverKeeps,
     ReadToMarkKeeps, MarkVerifiedKeeps, RereadKeeps, ElevateKeeps,
     SetPasswordKeeps, RevokeSessionsKeeps, OpenSessionKeeps,
     AuthenticateKeeps, FindTargetKeeps, SaveAccountStatusKeeps, WriteRoleKeeps
  DEF Proceed
<1>2. CASE UNCHANGED vars
  <2>1. UNCHANGED <<account, session, token, pc, req, lapsed>>
    BY <1>2 DEF vars
  <2> QED
    BY <2>1
    DEF IInv, TypeOK, UsersTypeOK, RequestsFit, Owned, Superseded, LiveTokensOnlyByOverlap,
        EarlierSessionsEnd, PrimeOnlyIfProven, Live, Redeemable, Exists, TokensFor
<1> QED
  BY <1>1, <1>2, ArriveKeeps, AbortKeeps, LogoutKeeps, ExpireTokenKeeps,
     MirrorDeletionKeeps, BackfillRoleKeeps
  DEF Next

\* What a request under way knows about its account, its sessions and its tokens holds
\* at every step, for any number of requests in any order (apps/api/src/auth, users).
THEOREM Invariance == Spec => []IInv
BY InitKeeps, NextKeeps, PTL DEF Spec

\* Type correctness of accounts, sessions, tokens and requests.
THEOREM TypeCorrect == Spec => []TypeOK
<1>1. IInv => TypeOK
  BY DEF IInv
<1> QED
  BY <1>1, Invariance, PTL

\* A session opened before its account was cut off outlives the revocation only where
\* the request that cut it off ended before it (session.service.ts revokeAllForUser).
THEOREM CutOffEnds == Spec => []EarlierSessionsEnd
<1>1. IInv => EarlierSessionsEnd
  BY DEF IInv
<1> QED
  BY <1>1, Invariance, PTL

\* Two e-mailed links of one purpose work at once only if their requests overlapped
\* (auth-token.service.ts issue).
THEOREM TokensAreSingle == Spec => []LiveTokensOnlyByOverlap
<1>1. IInv => LiveTokensOnlyByOverlap
  BY DEF IInv
<1> QED
  BY <1>1, Invariance, PTL

\* The prime's role is the owner's, once the address is proven (users.service.ts
\* ensureAdminPrime).
THEOREM PrimeIsProven == Spec => []PrimeOnlyIfProven
<1>1. IInv => PrimeOnlyIfProven
  BY DEF IInv
<1> QED
  BY <1>1, Invariance, PTL

\* A sign-in reaches a session on a denied account only if the account was denied after
\* it was read, and through Clerk on one that is not linked only if it was registered
\* meanwhile (auth.controller.ts, users.service.ts upsertClerkUser).
THEOREM SignInsAreAdmitted == Spec => []SignInsAreVouchedFor
<1>1. IInv => SignInsAreVouchedFor
  BY DEF IInv, RequestsFit, Fits, Dated, Admitted, SignInsAreVouchedFor
<1> QED
  BY <1>1, Invariance, PTL

----------------------------------------------------------------------------
(* What a step may do to the status and the role of an account.            *)

\* The steps that decide nothing about an account: they leave its status and its role,
\* but for the deletion Clerk reports and the role the owner has earned.
Harmless(u) ==
    /\ account'[u].status \in {account[u].status, "deleted"}
    /\ SameRole(u) \/ EffectiveRole(account'[u]) = "admin_prime"

LEMMA HarmlessAlone ==
    ASSUME NEW u \in User, Only(u), Exists(u) => Harmless(u)
    PROVE  \A v \in User : Exists(v) => Harmless(v)
BY DEF Only, Harmless, SameRole

LEMMA HarmlessArrivals ==
    ASSUME NEW s \in Slot, Arrive(s)
    PROVE  UNCHANGED account
BY DEF Arrive, Register, Login, BridgeLinked, UpsertUnlinked, Resend, ForgotPassword,
       BecomeSeller, SetStatus, AssignRole, Present, VerifyEmail, ResetPassword

\* The steps of a request that decide about its account.
Decides(s) == Link(s) \/ MarkVerified(s) \/ SaveAccountStatus(s) \/ WriteRole(s)

LEMMA HarmlessProgress ==
    ASSUME IInv, NEW s \in Slot, Proceed(s), ~Decides(s)
    PROVE  \A u \in User : Exists(u) => Harmless(u)
<1> DEFINE u == req[s].user
<1>1. CASE UNCHANGED account
  BY <1>1 DEF Harmless, SameRole
<1>2. ASSUME pc[s] # "idle"
      PROVE  u \in User /\ UsersTypeOK /\ (pc[s] \in OnAccount => Exists(u))
  BY <1>2, AtStep
<1>3. CASE CreateAccount(s)
  <2>1. u \in User /\ UsersTypeOK
    BY <1>2, <1>3 DEF CreateAccount
  <2>2. UNCHANGED account \/ (~Exists(u) /\ CreateLocal(u))
    BY <1>3 DEF CreateAccount
  <2>3. CASE ~Exists(u) /\ CreateLocal(u)
    <3>1. Only(u)
      BY <2>1, <2>3, CreateLocalWrites
    <3> QED
      BY <2>1, <2>3, <3>1, HarmlessAlone
  <2> QED
    BY <1>1, <2>2, <2>3
<1>4. CASE InsertFromClerk(s)
  <2>1. u \in User /\ UsersTypeOK
    BY <1>2, <1>4 DEF InsertFromClerk
  <2>2. UNCHANGED account \/ (~Exists(u) /\ CreateFromClerk(u))
    BY <1>4 DEF InsertFromClerk
  <2>3. CASE ~Exists(u) /\ CreateFromClerk(u)
    <3>1. Only(u)
      BY <2>1, <2>3, CreateFromClerkWrites
    <3> QED
      BY <2>1, <2>3, <3>1, HarmlessAlone
  <2> QED
    BY <1>1, <2>2, <2>3
<1>5. CASE Elevate(s)
  <2>1. u \in User /\ UsersTypeOK /\ Exists(u)
    BY <1>2, <1>5 DEF Elevate, OnAccount
  <2>2. SetRole(u, "admin_prime") /\ "admin_prime" \in Role
    BY <1>5 DEF Elevate, Role
  <2>3. /\ Only(u)
        /\ EffectiveRole(account'[u]) = "admin_prime"
        /\ account'[u].status = account[u].status
    BY <2>1, <2>2, SetRoleWrites
  <2> QED
    BY <2>1, <2>3, HarmlessAlone DEF Harmless
<1>6. CASE SetPassword(s)
  <2>1. u \in User /\ UsersTypeOK /\ Exists(u)
    BY <1>2, <1>6 DEF SetPassword, OnAccount
  <2>2. SetPasswordHash(u)
    BY <1>6 DEF SetPassword
  <2>3. Only(u) /\ SameRole(u) /\ account'[u].status = account[u].status
    BY <2>1, <2>2, SetPasswordHashWrites
  <2> QED
    BY <2>1, <2>3, HarmlessAlone DEF Harmless
<1>7. \/ CreateAccount(s) \/ InsertFromClerk(s) \/ Elevate(s) \/ SetPassword(s)
      \/ UNCHANGED account
  BY DEF Proceed, Decides, SupersedeTokens, CreateToken, MailFails, FindByEmail, Recover,
         ReadToMark, Reread, RevokeSessions, OpenSession, Authenticate, FindTarget
<1> QED
  BY <1>1, <1>3, <1>4, <1>5, <1>6, <1>7

LEMMA HarmlessSteps ==
    ASSUME IInv, [Next]_vars, \A s \in Slot : ~Decides(s)
    PROVE  \A u \in User : Exists(u) => Harmless(u)
<1>1. CASE UNCHANGED account
  BY <1>1 DEF Harmless, SameRole
<1>2. ASSUME NEW u \in User, MirrorDeletion(u)
      PROVE  \A v \in User : Exists(v) => Harmless(v)
  <2>1. UsersTypeOK /\ Exists(u) /\ SoftDelete(u)
    BY <1>2 DEF MirrorDeletion, IInv, TypeOK
  <2>2. Only(u) /\ SameRole(u) /\ account'[u].status = "deleted"
    BY <2>1, SoftDeleteWrites
  <2> QED
    BY <2>2, HarmlessAlone DEF Harmless
<1>3. ASSUME NEW u \in User, BackfillRole(u)
      PROVE  \A v \in User : Exists(v) => Harmless(v)
  <2>1. UsersTypeOK /\ Exists(u) /\ account[u].role = Unset /\ Backfill(u)
    BY <1>3 DEF BackfillRole, IInv, TypeOK
  <2>2. Only(u) /\ SameRole(u) /\ account'[u].status = account[u].status
    BY <2>1, BackfillWrites
  <2> QED
    BY <2>2, HarmlessAlone DEF Harmless
<1>4. ASSUME NEW s \in Slot, Arrive(s) \/ Abort(s)
      PROVE  UNCHANGED account
  BY <1>4, HarmlessArrivals DEF Abort
<1>5. ASSUME NEW i \in SessionId, Logout(i)
      PROVE  UNCHANGED account
  BY <1>5 DEF Logout
<1>6. ASSUME NEW i \in TokenId, ExpireToken(i)
      PROVE  UNCHANGED account
  BY <1>6 DEF ExpireToken
<1>7. CASE UNCHANGED vars
  BY <1>1, <1>7 DEF vars
<1> QED
  BY <1>1, <1>2, <1>3, <1>4, <1>5, <1>6, <1>7, HarmlessProgress DEF Next

\* The account a deciding step is about, and what the step leaves of it.
LEMMA DecisionsAre ==
    ASSUME IInv, NEW s \in Slot, Decides(s)
    PROVE  LET u == req[s].user IN
           /\ u \in User /\ Only(u) /\ pc'[s] # pc[s]
           /\ Fits(account, pc[s], req[s])
           /\ \/ /\ pc[s] = "saveStatus"
                 /\ SameRole(u)
              \/ /\ pc[s] \in {"link", "save"}
                 /\ SameRole(u)
                 /\ account'[u].status = Activated(u, req[s].read)
              \/ /\ pc[s] = "write"
                 /\ account'[u].status = account[u].status
<1> DEFINE u == req[s].user
<1>1. pc[s] \in {"saveStatus", "link", "save", "write"}
  BY DEF Decides, Link, MarkVerified, SaveAccountStatus, WriteRole
<1>2. /\ TypeOK /\ UsersTypeOK /\ u \in User /\ Exists(u)
      /\ Fits(account, pc[s], req[s])
  BY <1>1, AtStep DEF OnAccount
<1>3. CASE SaveAccountStatus(s)
  <2>1. pc[s] = "saveStatus" /\ SaveStatus(u, req[s].read, req[s].goal)
    BY <1>3 DEF SaveAccountStatus
  <2>2. req[s].goal \in AdminSettableStatus
    BY <1>2, <2>1 DEF Fits, OnRoute
  <2>3. Only(u) /\ SameRole(u)
    BY <1>2, <2>1, <2>2, SaveStatusWrites
  <2>4. pc'[s] \in {"revoke", "idle"}
    BY <1>2, <1>3 DEF SaveAccountStatus, Continue, Answer, TypeOK
  <2> QED
    BY <1>2, <2>1, <2>3, <2>4
<1>4. CASE MarkVerified(s)
  <2>1. pc[s] = "save" /\ SaveVerified(u, req[s].read) /\ pc'[s] = "reread"
    BY <1>2, <1>4 DEF MarkVerified, Continue, TypeOK
  <2>2. Only(u) /\ SameRole(u) /\ account'[u].status = Activated(u, req[s].read)
    BY <1>2, <2>1, SaveVerifiedWrites
  <2> QED
    BY <1>2, <2>1, <2>2
<1>5. CASE Link(s)
  <2>1. pc[s] = "link" /\ SaveLink(u, req[s].read)
    BY <1>5 DEF Link
  <2>2. Only(u) /\ SameRole(u) /\ account'[u].status = Activated(u, req[s].read)
    BY <1>2, <2>1, SaveLinkWrites
  <2>3. pc'[s] # "link"
    BY <1>2, <1>5 DEF Link, Upserted, SignIn, Continue, TypeOK
  <2> QED
    BY <1>2, <2>1, <2>2, <2>3
<1>6. CASE WriteRole(s)
  <2>1. pc[s] = "write" /\ SetRole(u, req[s].goal) /\ pc'[s] = "idle"
    BY <1>2, <1>6 DEF WriteRole, Answer, TypeOK
  <2>2. req[s].goal \in Role
    BY <1>2, <2>1 DEF Fits, OnRoute, AssignableRole
  <2>3. Only(u) /\ account'[u].status = account[u].status
    BY <1>2, <2>1, <2>2, SetRoleWrites
  <2> QED
    BY <1>2, <2>1, <2>3
<1> QED
  BY <1>3, <1>4, <1>5, <1>6 DEF Decides

\* A suspension or deletion is lifted by staff, or by a request that read the account
\* while it was pending and was overtaken (users.service.ts markEmailVerified and
\* upsertClerkUser, which activate what they read).
THEOREM DenialsAreKept == Spec => DenialsHold
<1> DEFINE Lifts(s, u) ==
               /\ pc'[s] # pc[s]
               /\ req[s].user = u
               /\ \/ pc[s] = "saveStatus"
                  \/ req[s].read.status = "pending_verification" /\ req[s].overtaken
           Held == \A u \in User :
                       /\ Exists(u) /\ account[u].status \in Denied
                       /\ account'[u].status \notin Denied
                       => \E s \in Slot : Lifts(s, u)
<1>1. ASSUME IInv, [Next]_vars, NEW u \in User, Exists(u), account[u].status \in Denied,
             account'[u].status \notin Denied
      PROVE  \E s \in Slot : Lifts(s, u)
  <2>1. ~Harmless(u)
    BY <1>1 DEF Harmless, Denied
  <2>2. PICK s \in Slot : Decides(s)
    BY <1>1, <2>1, HarmlessSteps
  <2>3. req[s].user = u
    BY <1>1, <2>2, DecisionsAre DEF Only
  <2>4. pc'[s] # pc[s] /\ Fits(account, pc[s], req[s])
    BY <1>1, <2>2, DecisionsAre
  <2>5. CASE pc[s] = "saveStatus"
    BY <2>3, <2>4, <2>5
  <2>6. CASE pc[s] \in {"link", "save"} /\ account'[u].status = Activated(u, req[s].read)
    <3>1. req[s].read.status = "pending_verification"
      BY <1>1, <2>6 DEF Activated
    <3>2. req[s].overtaken
      BY <1>1, <2>3, <2>4, <2>6, <3>1 DEF Fits, Dated, Denied
    <3> QED
      BY <2>3, <2>4, <3>1, <3>2
  <2> QED
    BY <1>1, <2>2, <2>3, <2>5, <2>6, DecisionsAre
<1>2. IInv /\ [Next]_vars => [Held]_vars
  BY <1>1
<1> QED
  BY <1>2, Invariance, PTL DEF Spec, DenialsHold

\* Staff lose their role or are suspended at the hand of the prime alone, or by a
\* request that read the account before it was staff's (admin/admin-users.service.ts
\* setStatus, users.service.ts setRole).
THEOREM StaffAnswerToThePrime == Spec => OnlyPrimeActsOnStaff
<1> DEFINE Acts(s, u) ==
               /\ pc'[s] # pc[s]
               /\ req[s].user = u
               /\ req[s].byPrime \/ ~IsStaff(req[s].read)
           Held == \A u \in User :
                       /\ Exists(u) /\ IsStaff(account[u])
                       /\ \/ ~IsStaff(account'[u])
                          \/ account'[u].status = "suspended" /\ account[u].status # "suspended"
                       => \E s \in Slot : Acts(s, u)
<1>1. ASSUME IInv, [Next]_vars, NEW u \in User, Exists(u), IsStaff(account[u]),
             \/ ~IsStaff(account'[u])
             \/ account'[u].status = "suspended" /\ account[u].status # "suspended"
      PROVE  \E s \in Slot : Acts(s, u)
  <2>1. ~Harmless(u)
    BY <1>1 DEF Harmless, IsStaff, StaffRole, SameRole
  <2>2. PICK s \in Slot : Decides(s)
    BY <1>1, <2>1, HarmlessSteps
  <2>3. req[s].user = u
    BY <1>1, <2>2, DecisionsAre DEF Only
  <2>4. pc'[s] # pc[s] /\ Fits(account, pc[s], req[s])
    BY <1>1, <2>2, DecisionsAre
  <2>5. CASE pc[s] \in {"saveStatus", "write"}
    <3>1. OnRoute(pc[s], req[s]) /\ Entitled(pc[s], req[s])
      BY <2>4 DEF Fits
    <3>2. req[s].byPrime \/ ~IsStaff(req[s].read)
      BY <2>5, <3>1 DEF OnRoute, Entitled
    <3> QED
      BY <2>3, <2>4, <3>2
  <2>6. CASE SameRole(u) /\ account'[u].status = Activated(u, req[s].read)
    BY <1>1, <2>6 DEF Activated, IsStaff, SameRole
  <2> QED
    BY <1>1, <2>2, <2>3, <2>5, <2>6, DecisionsAre
<1>2. IInv /\ [Next]_vars => [Held]_vars
  BY <1>1
<1> QED
  BY <1>2, Invariance, PTL DEF Spec, OnlyPrimeActsOnStaff

=============================================================================
