-------------------------- MODULE MCListingFields --------------------------
(* A small instance of ListingFields for TLC. *)
EXTENDS ListingFields, TLC

CONSTANTS v1, d1, d2, u1, u2, a1, s1, s2, x1, x2, p1, p2, rent, sale, shared

Inside == (d1 :> v1) @@ (d2 :> v1) @@ (u1 :> d1) @@ (u2 :> d2) @@ (a1 :> u1)

Only(kind, location, pin) == [kind |-> kind, location |-> location, pin |-> pin]

Bodies ==
    { Only(rent, [district |-> d1, upazila |-> u1, area |-> NoPlace], p1),
      Only(sale, Omitted, Omitted),
      Only(shared, Omitted, Omitted),
      Only(Omitted, [district |-> d1, upazila |-> u1, area |-> a1], Omitted),
      Only(Omitted, [district |-> d2, upazila |-> u2, area |-> a1], Omitted),
      Only(Omitted, Omitted, p1), Only(Omitted, Omitted, p2),
      Only(Omitted, Omitted, NoPin) }

Alike == Permutations(Slot)
============================================================================
