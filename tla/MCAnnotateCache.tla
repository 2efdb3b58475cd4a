--------------------------- MODULE MCAnnotateCache ---------------------------
(***************************************************************************)
(* Instances of AnnotateCache for TLC: one document on CPA's file host and *)
(* one on a local path.                                                    *)
(***************************************************************************)
EXTENDS AnnotateCache, TLC

CONSTANTS h1, h2, q1, q2, q3, q4

Symmetry == Permutations(Requests)
=============================================================================
