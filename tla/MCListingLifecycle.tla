------------------------ MODULE MCListingLifecycle ------------------------
(* Small instances of ListingLifecycle for TLC. *)
EXTENDS ListingLifecycle, TLC

CONSTANTS alice, bob, sam, l1, l2, bare, flat, plot, s1, s2

SlotsAreAlike == Permutations(Slot)
===========================================================================
