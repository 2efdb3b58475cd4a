------------------------------- MODULE PdfEngine -------------------------------
(***************************************************************************)
(* The PDF engine: a call stamps a file, or renders the audit report and   *)
(* appends it.  The engine keeps nothing between calls, so one call at a   *)
(* time is all there is to it.                                             *)
(***************************************************************************)
EXTENDS PdfStamping, AuditReport

vars == <<stampVars, reportVars>>

Init == \/ StampInit /\ ReportIdle
        \/ ReportInit /\ StampIdle

Next == \/ StampNext /\ UNCHANGED reportVars
        \/ ReportNext /\ UNCHANGED stampVars

Spec == Init /\ [][Next]_vars

-----------------------------------------------------------------------------
\* Text that does not fit is cut visibly in the report and at the lower margin
\* of a note; nothing is lost, doubled or out of place before the cut.
TextIsTruthful == NotesStayInside /\ TitlesAreTruthful
=============================================================================
