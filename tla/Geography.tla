----------------------------- MODULE Geography -----------------------------
(***************************************************************************)
(* The four nested levels of Bangladesh's administrative geography         *)
(* (apps/api/src/geo/data), and the chain of places a listing is located   *)
(* by.  City corporations are a flat tag beside them and are left out.     *)
(***************************************************************************)
CONSTANTS
    Division, District, Upazila, Area,  \* the places of the seed files, by code
    Parent,                             \* the place each lies in
    NoPlace                             \* a level that is not given

Place == Division \cup District \cup Upazila \cup Area

\* geo.data.spec.ts checks the seed files for this.
ASSUME GeographyAssumption ==
    /\ Parent \in [District \cup Upazila \cup Area -> Place]
    /\ \A d \in District : Parent[d] \in Division
    /\ \A u \in Upazila : Parent[u] \in District
    /\ \A a \in Area : Parent[a] \in Upazila
    /\ Division \cap (District \cup Upazila \cup Area) = {}
    /\ District \cap (Upazila \cup Area) = {}
    /\ Upazila \cap Area = {}
    /\ NoPlace \notin Place

\* What a client may send; the schema asks for an upazila with every area.
Chain == { c \in [ district : District,
                   upazila  : Upazila \cup {NoPlace},
                   area     : Area \cup {NoPlace} ] :
               c.area # NoPlace => c.upazila # NoPlace }

IsNested(c) ==
    /\ c.upazila # NoPlace => Parent[c.upazila] = c.district
    /\ c.area # NoPlace => Parent[c.area] = c.upazila

PlacesOf(c) == {c.district, c.upazila, c.area} \ {NoPlace}
============================================================================
