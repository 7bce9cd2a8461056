-------------------------- MODULE MCListingMedia --------------------------
(* Small instances of ListingMedia for TLC. *)
EXTENDS ListingMedia, TLC

CONSTANTS k1, k2, k3, s1, s2

Alike == Permutations(Slot) \cup Permutations(Key)
===========================================================================
