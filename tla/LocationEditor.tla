--------------------------- MODULE LocationEditor ---------------------------
(***************************************************************************)
(* The cascade of selectors a seller locates a listing with                *)
(* (components/dashboard/listing-editor.tsx).  Every level is offered at   *)
(* once: the list of a level is fetched for the place chosen above it, or  *)
(* whole, and a choice fills in the levels above from the lists at hand.   *)
(* Every selector can also be set back to no place.  The answer of a fetch *)
(* that another one has replaced is ignored.                               *)
(***************************************************************************)
EXTENDS Geography

CONSTANT Unsent     \* nothing was sent yet

VARIABLES
    chosen,         \* the four selectors
    offered,        \* the list each selector offers
    loading,        \* the levels whose present list is still to come
    sent            \* the location of the last save

vars == <<chosen, offered, loading, sent>>

----------------------------------------------------------------------------

Level == {"district", "upazila", "area"}

Above == [district |-> "division", upazila |-> "district", area |-> "upazila"]

PlacesAt(level) == CASE level = "district" -> District
                     [] level = "upazila"  -> Upazila
                     [] level = "area"     -> Area

Selection == [ division : Division \cup {NoPlace},
               district : District \cup {NoPlace},
               upazila  : Upazila \cup {NoPlace},
               area     : Area \cup {NoPlace} ]

TypeOK ==
    /\ chosen \in Selection
    /\ \A level \in Level : offered[level] \subseteq PlacesAt(level)
    /\ loading \subseteq Level
    /\ sent \in [ district : District, upazila : Upazila \cup {NoPlace},
                  area : Area \cup {NoPlace} ] \cup {Unsent}

\* The selectors of a stored location.
Shown(c) == [ division |-> Parent[c.district], district |-> c.district,
              upazila |-> c.upazila, area |-> c.area ]

Blank == [l \in {"division"} \cup Level |-> NoPlace]

Init ==
    /\ chosen \in {Blank} \cup { Shown(c) : c \in { k \in Chain : IsNested(k) } }
    /\ offered = [level \in Level |-> {}]
    /\ loading = Level
    /\ sent = Unsent

----------------------------------------------------------------------------

Within(level, place) ==
    IF place = NoPlace THEN PlacesAt(level)
                       ELSE { p \in PlacesAt(level) : Parent[p] = place }

Loaded(level) ==
    /\ level \in loading
    /\ offered' = [offered EXCEPT ![level] = Within(level, chosen[Above[level]])]
    /\ loading' = loading \ {level}
    /\ UNCHANGED <<chosen, sent>>

\* The list stays the one of before.
LoadFails(level) ==
    /\ level \in loading
    /\ loading' = loading \ {level}
    /\ UNCHANGED <<chosen, offered, sent>>

\* The effects fetch the list under every selector that changed.
Choose(selection) ==
    /\ chosen' = selection
    /\ loading' = loading \cup { l \in Level : selection[Above[l]] # chosen[Above[l]] }
    /\ UNCHANGED <<offered, sent>>

\* The parent of a place, if the place is on the list; else what is chosen stays.
ParentIfOffered(level, place, otherwise) ==
    IF place \in offered[level] THEN Parent[place] ELSE otherwise

\* A place, or none.
ChooseDivision(v) ==
    Choose([Blank EXCEPT !.division = v])

\* The placeholder of a selector: nothing is found in its list, the levels below are
\* cleared, and those above stay as they are.
Clear(levels) ==
    Choose([l \in {"division"} \cup Level |-> IF l \in levels THEN NoPlace ELSE chosen[l]])

ClearDistrict == Clear({"district", "upazila", "area"})

ClearUpazila == Clear({"upazila", "area"})

ClearArea == Clear({"area"})

ChooseDistrict(d) ==
    /\ d \in offered["district"]
    /\ Choose([ division |-> Parent[d], district |-> d,
                upazila |-> NoPlace, area |-> NoPlace ])

ChooseUpazila(u) ==
    /\ u \in offered["upazila"]
    /\ Choose([ division |-> ParentIfOffered("district", Parent[u], chosen.division),
                district |-> Parent[u], upazila |-> u, area |-> NoPlace ])

ChooseArea(a) ==
    LET u == Parent[a]
        d == ParentIfOffered("upazila", u, chosen.district)
    IN
    /\ a \in offered["area"]
    /\ Choose([ division |-> IF u \in offered["upazila"]
                             THEN ParentIfOffered("district", d, chosen.division)
                             ELSE chosen.division,
                district |-> d, upazila |-> u, area |-> a ])

\* Without a district no location is sent.
SendLocation ==
    /\ chosen.district # NoPlace
    /\ sent' = [ district |-> chosen.district,
                 upazila  |-> chosen.upazila,
                 area     |-> IF chosen.upazila # NoPlace THEN chosen.area ELSE NoPlace ]
    /\ UNCHANGED <<chosen, offered, loading>>

Next ==
    \/ \E level \in Level : Loaded(level) \/ LoadFails(level)
    \/ \E v \in Division \cup {NoPlace} : ChooseDivision(v)
    \/ \E d \in District : ChooseDistrict(d)
    \/ \E u \in Upazila : ChooseUpazila(u)
    \/ \E a \in Area : ChooseArea(a)
    \/ ClearDistrict \/ ClearUpazila \/ ClearArea
    \/ SendLocation

Spec == Init /\ [][Next]_vars

----------------------------------------------------------------------------

\* The chain the form sends is nested: "the chain sent is always self-consistent"
\* (listing-editor.tsx 253-255, 184-189).
ChainSentIsConsistent == sent # Unsent => IsNested(sent)
============================================================================
