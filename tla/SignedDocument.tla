--------------------------- MODULE SignedDocument ---------------------------
(***************************************************************************)
(* What the signing backend promises of one document when its requests do  *)
(* not overlap: the published PDF shows exactly the signatures on record,  *)
(* and the status follows from them.  SigningWorkflow with MaxActive = 1   *)
(* implements this specification; with overlapping requests it does not.   *)
(***************************************************************************)

CONSTANTS Requests, Users, Regions, Assignee, InitialRegions, Notes, NoImage, NoPdf

VARIABLES
  regions,    \* the regions that exist
  signature,  \* the image each region is signed with, or NoImage
  status,
  final,      \* the published PDF
  notes       \* the admin's annotations

vars == <<regions, signature, status, final, notes>>

Signed(sig)      == {r \in regions : sig[r] # NoImage}
RegionsOf(u)     == {r \in regions : Assignee[r] = u}
RenderedFrom(sig) == [stamps |-> sig, notes |-> notes]

\* How far signing has come, by how many of the regions are signed.
Progress(total, signed) ==
  IF total = {} THEN "Draft"
  ELSE IF signed = {} THEN "Pending"
  ELSE IF signed = total THEN "Completed" ELSE "Partially Signed"

Init ==
  /\ regions = InitialRegions
  /\ signature = [r \in Regions |-> NoImage]
  /\ status = Progress(InitialRegions, {})
  /\ final = NoPdf
  /\ notes = {}

\* The signatures become sig, and the PDF and the status follow.
Record(sig) ==
  /\ signature' = sig
  /\ final' = RenderedFrom(sig)
  /\ status' = Progress(regions, Signed(sig))
  /\ UNCHANGED <<regions, notes>>

\* A signer puts a new image q on one or more of their regions.
Sign(q, u, R) ==
  /\ R # {} /\ R \subseteq RegionsOf(u)
  /\ Record([r \in Regions |-> IF r \in R THEN q ELSE signature[r]])

\* A signer takes one or more of their signatures back.
Withdraw(u, R) ==
  /\ R # {} /\ R \subseteq RegionsOf(u) \cap Signed(signature)
  /\ Record([r \in Regions |-> IF r \in R THEN NoImage ELSE signature[r]])

\* The admin adds regions: the document waits for signatures again.
Define(R) ==
  /\ R \cap regions = {}
  /\ regions' = regions \cup R
  /\ status' = "Pending"
  /\ UNCHANGED <<signature, final, notes>>

\* The admin adds or removes an annotation; the PDF follows in a second step.
Annotate(n) ==
  /\ notes' \in {notes \cup {n}, notes \ {n}}
  /\ UNCHANGED <<regions, signature, status, final>>

RefreshPdf ==
  /\ Signed(signature) # {}
  /\ Record(signature)

\* A signer whose regions are all signed submits.
Submit(u) ==
  /\ RegionsOf(u) # {} /\ RegionsOf(u) \subseteq Signed(signature)
  /\ status' = "Completed"
  /\ UNCHANGED <<regions, signature, final, notes>>

Next ==
  \/ \E u \in Users, R \in SUBSET Regions :
       \/ \E q \in Requests : Sign(q, u, R)
       \/ Withdraw(u, R)
       \/ Submit(u)
  \/ \E R \in SUBSET Regions : Define(R)
  \/ \E n \in Notes : Annotate(n)
  \/ RefreshPdf

Spec == Init /\ [][Next]_vars
=============================================================================
