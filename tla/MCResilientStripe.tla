------------------------- MODULE MCResilientStripe -------------------------
(* Small instances of ResilientStripe for TLC. *)
EXTENDS ResilientStripe
=============================================================================
