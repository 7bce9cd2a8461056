----------------------------- MODULE MCWebTab -----------------------------
(* A small instance of WebTab for TLC. *)
EXTENDS WebTab

\* Two listings of the same age and two of the same price.
Ages   == [l \in 1..3 |-> IF l < 3 THEN 1 ELSE l]
Prices == [l \in 1..3 |-> IF l \in {1, 3} THEN 7 ELSE l]
===========================================================================
