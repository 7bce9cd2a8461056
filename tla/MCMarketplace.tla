-------------------------- MODULE MCMarketplace --------------------------
(* A small instance of Marketplace for TLC. *)
EXTENDS Marketplace, TLC

CONSTANTS alice, sam, l1, bare, flat, s1, s2, v1, v2

SlotsAreAlike == Permutations(ListingSlot) \cup Permutations(VerificationSlot)
==========================================================================
