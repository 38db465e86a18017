--------------------------- MODULE MCTokenRotation ---------------------------
(* TokenRotation on small instances. *)
EXTENDS TokenRotation, TLC
=============================================================================
