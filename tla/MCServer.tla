----------------------------- MODULE MCServer -----------------------------
(* A small instance of Server for TLC. *)
EXTENDS Server

CONSTANTS i1, i2

\* A bug, a socket error, one wrapped in another error, and one wrapped so deep that
\* it is not recognised.
Errors == { <<"other">>, <<"infrastructure">>, <<"other", "infrastructure">>,
            <<"other", "other", "other", "other", "other", "other", "infrastructure">> }
===========================================================================
