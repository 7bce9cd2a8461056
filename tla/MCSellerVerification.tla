----------------------- MODULE MCSellerVerification -----------------------
(* Small instances of SellerVerification for TLC. *)
EXTENDS SellerVerification, TLC

CONSTANTS alice, bob, sam, s1, s2, s3

SlotsAreAlike == Permutations(Slot)
===========================================================================
