-------------------------- MODULE MCCallbackDelivery --------------------------
(***************************************************************************)
(* Instances of CallbackDelivery for TLC: up to three calls for one        *)
(* document and signer.                                                    *)
(***************************************************************************)
EXTENDS CallbackDelivery

CONSTANTS c1, c2, c3
=============================================================================
