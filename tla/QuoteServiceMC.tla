---------------------------- MODULE QuoteServiceMC ----------------------------
(***************************************************************************)
(* An instance of QuoteService for TLC.                                    *)
(***************************************************************************)
EXTENDS QuoteService, TLC

CONSTANTS p1, p2, k1

\* No expression tells the pairs apart, and the run checks no liveness.
PairSymmetry == Permutations({p1, p2})
=============================================================================
