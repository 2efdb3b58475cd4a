----------------------- MODULE MCRememberedSignature -----------------------
(***************************************************************************)
(* Instances of RememberedSignature for TLC: the users, regions and        *)
(* operations of MCSigningWorkflow.                                        *)
(***************************************************************************)
EXTENDS MCSigningWorkflow, RememberedSignature

MCGiven == (q1 :> "draw") @@ (q2 :> "type") @@ (q3 :> "draw")
=============================================================================
