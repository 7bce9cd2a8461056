-------------------------- MODULE MCSavedListings --------------------------
(* A small instance of SavedListings for TLC. *)
EXTENDS SavedListings, TLC

CONSTANTS l1, l2, l3, l4, c1, c2

Alike == Permutations(Listing) \cup Permutations(Call)
============================================================================
