---------------------------- MODULE MCAccounts ----------------------------
(* A small instance of Accounts for TLC. *)
EXTENDS Accounts, TLC

CONSTANTS ann, olu, s1, s2, c1, c2, t1, t2

Alike == Permutations(Slot) \cup Permutations(SessionId) \cup Permutations(TokenId)

\* Sign-ins, mail and suspensions, beside the prime of the multi-role days.
AccessOffers == [u \in User |->
    IF u = ann THEN {"setStatus"}
    ELSE {"register", "login", "bridge", "webhook", "forgot", "reset"}]
PrimeArray == {{"super_admin", "buyer"}}

\* Roles and what leads to them, beside a member of the support staff.
RoleOffers == [u \in User |->
    IF u = ann THEN {"setStatus", "becomeSeller"}
    ELSE {"register", "login", "verify", "resend", "assignRole"}]
SupportArray == {{"customer_support", "seller"}}
===========================================================================
