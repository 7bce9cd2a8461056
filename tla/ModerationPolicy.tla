-------------------------- MODULE ModerationPolicy --------------------------
(***************************************************************************)
(* The moderation state machine a listing is meant to follow, as the       *)
(* comments of listings.service.ts and listing-moderation.ts describe it,  *)
(* with every operation taking effect at once: what the owner may do, what *)
(* staff may do, when content may change, and a history in which each row  *)
(* leaves the status the row before it reached.                            *)
(*                                                                         *)
(* In ListingLifecycle every step follows it that no other request has     *)
(* overtaken, and so does the whole module when requests are served one at *)
(* a time and no transaction is retried after its save.                    *)
(***************************************************************************)
EXTENDS Sequences

CONSTANTS Listing, Seller, Staff, Content, Bare, NoOwner

VARIABLES status, owner, content, trail

policyVars == <<status, owner, content, trail>>

Editable == {"draft", "rejected"}

OwnerMoves ==
    { <<"draft", "pending_review">>, <<"rejected", "pending_review">> }
        \cup { <<st, "archived">> : st \in {"draft", "pending_review", "approved", "rejected"} }
        \cup { <<"archived", "draft">> }

StaffMoves ==
    { <<"pending_review", "approved">>, <<"pending_review", "rejected">>,
      <<"approved", "removed">>, <<"removed", "approved">> }

PolicyInit ==
    /\ status = [l \in Listing |-> "unborn"]
    /\ owner = [l \in Listing |-> NoOwner]
    /\ content = [l \in Listing |-> Bare]
    /\ trail = [l \in Listing |-> << >>]

Draft(l) ==
    /\ status[l] = "unborn"
    /\ status' = [status EXCEPT ![l] = "draft"]
    /\ \E u \in Seller : owner' = [owner EXCEPT ![l] = u]
    /\ \E text \in Content : content' = [content EXCEPT ![l] = text]
    /\ UNCHANGED trail

Edit(l) ==
    /\ status[l] \in Editable
    /\ \E text \in Content \ {Bare} : content' = [content EXCEPT ![l] = text]
    /\ UNCHANGED <<status, owner, trail>>

MoveTo(l, st, u) ==
    /\ st = "pending_review" => content[l] # Bare
    /\ status' = [status EXCEPT ![l] = st]
    /\ trail' = [trail EXCEPT ![l] = Append(@, [from |-> status[l], to |-> st, by |-> u])]
    /\ UNCHANGED <<owner, content>>

OwnerMove(l) ==
    \E move \in OwnerMoves : status[l] = move[1] /\ MoveTo(l, move[2], owner[l])

StaffMove(l) ==
    \E move \in StaffMoves, u \in Staff : status[l] = move[1] /\ MoveTo(l, move[2], u)

\* Only what was never submitted can be deleted.
Delete(l) ==
    /\ status[l] = "draft"
    /\ trail[l] = << >>
    /\ status' = [status EXCEPT ![l] = "deleted"]
    /\ UNCHANGED <<owner, content, trail>>

PolicyNext ==
    \E l \in Listing : Draft(l) \/ Edit(l) \/ OwnerMove(l) \/ StaffMove(l) \/ Delete(l)

PolicySpec == PolicyInit /\ [][PolicyNext]_policyVars
============================================================================
