------------------------- MODULE MCIdentityBuilder -------------------------
(* Builders that are given up to four pieces, texts and numbers. *)
EXTENDS IdentityBuilder

CONSTANTS request, text, number
=============================================================================
