----------------------------- MODULE AuthTokens -----------------------------
(***************************************************************************)
(* The single-use tokens that were e-mailed and can still be redeemed: a   *)
(* document is here until it is spent, superseded or expired.  Issuing one *)
(* takes two operations, an updateMany that spends the earlier tokens of   *)
(* the purpose and the create.                                             *)
(***************************************************************************)
CONSTANTS
    TokenId,       \* bound: the tokens that live at the same time
    NoToken

VARIABLE token     \* token[i]: a live token, or none

Purpose == {"email_verify", "password_reset"}

\* `raced`: another token of the purpose was created after the updateMany of this
\* one and before its create; no action looks at it.
Token(owners) == [user : owners, purpose : Purpose, raced : BOOLEAN]

Redeemable == {i \in TokenId : token[i] # NoToken}

TokensFor(u, purpose) ==
    {i \in Redeemable : token[i].user = u /\ token[i].purpose = purpose}

\* Mutant: the tokens of the other purpose are spent.
SupersedeOther(u, purpose) ==
    token' = [i \in TokenId |->
                 IF \E p \in Purpose \ {purpose} : i \in TokensFor(u, p)
                 THEN NoToken ELSE token[i]]

Supersede(u, purpose) ==
    token' = [i \in TokenId |-> IF i \in TokensFor(u, purpose) THEN NoToken ELSE token[i]]

Create(u, purpose, raced) ==
    \E i \in TokenId \ Redeemable :
        token' = [token EXCEPT ![i] = [user |-> u, purpose |-> purpose, raced |-> raced]]

\* Also what its expiry does.
Spend(i) == token' = [token EXCEPT ![i] = NoToken]
=============================================================================
