------------------------- MODULE MCSqlServerAccess -------------------------
(***************************************************************************)
(* Instances of SqlServerAccess for TLC: one write and three SELECTs, of   *)
(* which two match a row.                                                 *)
(***************************************************************************)
EXTENDS SqlServerAccess

CONSTANTS s1, s2, s3, w1
=============================================================================
