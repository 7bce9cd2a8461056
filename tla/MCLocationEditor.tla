------------------------- MODULE MCLocationEditor -------------------------
(* A small instance of LocationEditor for TLC. *)
EXTENDS LocationEditor, TLC

CONSTANTS v1, d1, d2, u1, u2, a1

Inside == (d1 :> v1) @@ (d2 :> v1) @@ (u1 :> d1) @@ (u2 :> d2) @@ (a1 :> u1)
============================================================================
