------------------------- MODULE MCEsignCompletion -------------------------
(***************************************************************************)
(* Instances of EsignCompletion for TLC: two submissions, and up to three  *)
(* signers: the third has no email that SQL Server knows, and may or may   *)
(* not have a LoginDetailID.                                               *)
(***************************************************************************)
EXTENDS EsignCompletion, TLC

CONSTANTS ann, bob, cat, p1, p2

Symmetry == Permutations(Submissions)
=============================================================================
