------------------------------- MODULE Roles -------------------------------
(***************************************************************************)
(* The single role of an account, and the retired array of roles that      *)
(* accounts not migrated yet still carry (packages/types).  A document is  *)
(* read through effectiveRole; the script backfill-single-role collapses   *)
(* the array in the database, by an aggregation pipeline of its own.       *)
(***************************************************************************)
EXTENDS Naturals

CONSTANT Unset   \* the role of an account that is not migrated

Role == {"admin_prime", "admin", "seller", "buyer"}

AssignableRole == Role \ {"admin_prime"}

\* The roles that act on other accounts.
StaffRole == {"admin_prime", "admin"}

\* What a legacy array may hold: today's roles, and two that were retired.
LegacyRole == Role \cup {"super_admin", "customer_support"}

----------------------------------------------------------------------------

\* The role a legacy entry stands for today.
Renamed(raw) ==
    CASE raw = "super_admin"      -> "admin_prime"
      [] raw = "customer_support" -> "admin"
      [] OTHER                    -> raw

Rank == [ admin_prime |-> 3, admin |-> 2, seller |-> 1, buyer |-> 0 ]

\* Read-time fallback: the highest of the roles the array stands for.
CollapseLegacyRoles(legacy) ==
    LET roles == {Renamed(raw) : raw \in legacy} \cap Role IN
    IF roles = {} THEN "buyer"
    ELSE CHOOSE r \in roles : \A q \in roles : Rank[q] <= Rank[r]

\* The $switch of the script, its branches in order.
BackfilledRole(legacy) ==
    IF "super_admin" \in legacy THEN "admin_prime"
    ELSE IF "admin_prime" \in legacy THEN "admin_prime"
    ELSE IF "admin" \in legacy \/ "customer_support" \in legacy THEN "admin"
    ELSE IF "seller" \in legacy THEN "seller"
    ELSE "buyer"

EffectiveRole(doc) ==
    IF doc.role # Unset THEN doc.role ELSE CollapseLegacyRoles(doc.legacy)

\* What a role may do; RolesGuard asks for membership.
RoleCapabilities(role) ==
    CASE role = "admin_prime" -> Role
      [] role = "admin"       -> {"admin", "seller", "buyer"}
      [] OTHER                -> {role}
============================================================================
