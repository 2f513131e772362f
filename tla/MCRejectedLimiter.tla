------------------------- MODULE MCRejectedLimiter --------------------------
(* Interchangeable rejected values.                                        *)
EXTENDS RejectedLimiter, TLC

Symmetry == Permutations(Keys)
=============================================================================
