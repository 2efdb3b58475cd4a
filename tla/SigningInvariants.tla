------------------------- MODULE SigningInvariants -------------------------
(***************************************************************************)
(* The inductive invariants behind the safety properties of                *)
(* SigningWorkflow, in the order in which SigningWorkflow_proofs proves    *)
(* them; each may use the ones before it.                                  *)
(***************************************************************************)
EXTENDS SigningWorkflow

Asks(p, kinds) == op[p] # NoOp /\ op[p].kind \in kinds

\* An idle request asks for nothing yet; any other carries one of Ops, and
\* while it is active that operation has passed the checks of Arrive.
OpsAdmitted ==
  \A p \in Requests :
    /\ pc[p] = "idle" => op[p] = NoOp
    /\ pc[p] # "idle" => op[p] \in Ops
    /\ Active(p) => Authorized(op[p])

\* A row lock is held by a request at work.  Outside its loops a request
\* has no region left to read or mark, and a signing request has marked
\* nothing before it has loaded the regions.
Phases ==
  \A p \in Requests :
    /\ \A r \in Regions : holder[r] = p => Active(p) /\ Asks(p, SignKinds \cup WithdrawKinds)
    /\ pc[p] \notin {"check", "loadNotes", "select", "update"} => todo[p] = {}
    /\ pc[p] = "update" <=> want[p] # NoRegion
    /\ pc[p] # "check" => picked[p] = {}
    /\ pc[p] \in {"check", "loadNotes", "loadRegions"} /\ Asks(p, SignKinds) =>
         \A r \in Regions : holder[r] # p
    /\ pc[p] = "check" => Asks(p, WithdrawKinds)
    /\ pc[p] \in {"select", "update"} => Asks(p, SignKinds \cup WithdrawKinds)
    /\ pc[p] = "loadNotes" /\ ~Asks(p, SignKinds) => todo[p] = {}
    /\ pc[p] \in {"writeNote", "log", "loadFinal"} => Asks(p, NoteKinds \cup {"define"})

\* A request marks, waits for and holds only rows assigned to its caller.
Mine(p, r) == op[p].by = Assignee[r]

OwnRowsOnly ==
  \A p \in Requests :
    /\ \A r \in picked[p] : Mine(p, r)
    /\ pc[p] # "check" => \A r \in todo[p] : Mine(p, r)
    /\ pc[p] = "update" => Mine(p, want[p])
    /\ \A r \in Regions : holder[r] = p => Mine(p, r)

\* Every image, committed or not, is NoImage or the work of a signing request
\* of the assignee that has committed, or of the request that is drawing it.
Provenance(q, r, drawing) ==
  q = NoImage \/ (SignedByAssignee(q, r) /\ (q \in logged \/ q = drawing))

ImagesAccountedFor ==
  \A r \in Regions :
    /\ Provenance(row[r].image, r, NoRequest)
    /\ final # NoPdf => Provenance(final.stamps[r], r, NoRequest)
    /\ Provenance(dirty[r].image, r, holder[r])
    /\ \A p \in Requests : Provenance(pdf[p].stamps[r], r, p)

\* A request that has not arrived is not in the audit log, and a signing
\* request is logged when it commits, not before.
LoggedLast ==
  \A p \in logged : pc[p] # "idle" /\ (Asks(p, SignKinds) => pc[p] = "done")

\* What a request has marked, or is about to mark, shows in the PDF it is going
\* to publish; the row it loaded never shows its own image, and is not blank
\* when it is to be blanked, so its UPDATE does change the row.
SignerShows(p, r) ==
  Asks(p, SignKinds) =>
    /\ r \in todo[p] \/ r = want[p] \/ holder[r] = p => pdf[p].stamps[r] = p
    /\ holder[r] = p => dirty[r].image = p

WithdrawerShows(p, r) ==
  Asks(p, WithdrawKinds) /\ holder[r] = p =>
    /\ Applied(dirty)[r] = NoImage
    /\ pc[p] \in {"loadNotes", "readStatus", "readRegions", "publish"} =>
         pdf[p].stamps[r] = NoImage

LoadedToChange(p) ==
  pc[p] = "update" =>
    loaded[p].image # p /\ (Asks(p, WithdrawKinds) => loaded[p] # Blank)

MarksShow ==
  \A p \in Requests :
    /\ LoadedToChange(p)
    /\ \A r \in Regions : SignerShows(p, r) /\ WithdrawerShows(p, r)

\* Requests work on regions that exist, and a status they computed is not Draft.
RowsExist == \A r \in Regions : row[r] # Blank \/ holder[r] # NoRequest => r \in regions

WorksOnRegions(p) ==
  /\ Active(p) /\ Asks(p, {"sign"} \cup WithdrawKinds) =>
       op[p].targets # {} /\ op[p].targets \subseteq regions
  /\ todo[p] \subseteq regions /\ picked[p] \subseteq regions
  /\ want[p] # NoRegion => want[p] \in regions
  /\ pc[p] \in {"loadNotes", "select", "update", "readStatus", "readRegions", "publish"}
       /\ ~Asks(p, {"define"}) => regions # {}
  /\ pc[p] = "submit" => regions # {}
  /\ pc[p] = "publish" /\ ~Asks(p, {"define"}) => verdict[p] # "Draft"
  /\ verdict[p] = "Pending" => regions # {}

RegionsExist == RowsExist /\ \A p \in Requests : WorksOnRegions(p)

\* A signed row, and a submission past its gate, mean that a PDF is on file.
SignedHasPdf ==
  /\ \A r \in Regions : row[r].signed => final # NoPdf
  /\ \A p \in Requests : pc[p] = "submit" => final # NoPdf

IInv ==
  /\ TypeOK /\ OpsAdmitted /\ Phases /\ OwnRowsOnly /\ ImagesAccountedFor /\ LoggedLast
  /\ MarksShow /\ RegionsExist /\ DraftIffNoRegions /\ SignedHasPdf /\ CompletedHasPdf

-----------------------------------------------------------------------------
(* With one request at a time (MaxActive = 1): what the active request knows of *)
(* the database is still so.                                               *)

OneAtATime == \A p, q \in Requests : Active(p) /\ Active(q) => p = q

\* A row is signed with an image or not at all.
Whole(r)  == r.signed <=> r.image # NoImage
WholeRows == \A r \in Regions : Whole(row[r])

Marking   == {"select", "update"}
Rendering == {"loadNotes", "readStatus", "readRegions", "publish"}

\* The regions a request is going to mark, is marking or has marked.
Work(p) == todo[p] \cup {r \in Regions : r = want[p] \/ holder[r] = p}

\* An UPDATE assigns all of the row that it changes.
TurnMarks(p) ==
  /\ pc[p] = "update" => loaded[p] = row[want[p]]
  /\ \A r \in Regions : holder[r] = p => dirty[r] = MarkTarget(p)

\* A signing request marks what it draws, over the signatures on record.
TurnSigns(p) ==
  Asks(p, SignKinds) /\ pc[p] \in Marking \cup Rendering =>
    /\ Work(p) = SignTargets(p) /\ SignTargets(p) # {}
    /\ pdf[p].stamps = [r \in Regions |-> IF r \in SignTargets(p) THEN p ELSE Applied(row)[r]]

\* An unsign or a discard works on signed regions, and on one at least.
TurnWithdraws(p) ==
  Asks(p, WithdrawKinds) =>
    /\ \A r \in picked[p] : row[r].signed
    /\ pc[p] = "check" => \A r \in Regions : holder[r] # p
    /\ pc[p] \in Marking \cup Rendering \cup {"loadRegions"} =>
         Work(p) # {} /\ \A r \in Work(p) : row[r].signed

\* A rebuild draws what will be on record when it commits; one for an
\* annotation is for a document with a signature.
TurnRebuilds(p) ==
  Asks(p, WithdrawKinds \cup NoteKinds) /\ pc[p] \in Rendering =>
    /\ pdf[p].stamps = Applied(View(p))
    /\ Asks(p, NoteKinds) => \E r \in Regions : Applied(row)[r] # NoImage

\* Every PDF has the annotations on record.
TurnAnnotates(p) ==
  /\ Asks(p, SignKinds \cup WithdrawKinds \cup NoteKinds)
  /\ pc[p] \in {"readStatus", "readRegions", "publish"} \/ (pc[p] \in Marking /\ Asks(p, SignKinds))
  => pdf[p].notes = notes

\* New regions are new, and the status is the one that was loaded.
TurnDefines(p) ==
  Asks(p, {"define"}) =>
    /\ pc[p] \in {"readStatus", "publish", "log"}
    /\ pc[p] \in {"readStatus", "publish"} => op[p].targets \cap regions = {}
    /\ pc[p] = "publish" => verdict[p] = status

\* The status to be left is the one the regions amount to.
TurnComputes(p) ==
  /\ pc[p] = "readRegions" => verdict[p] = status
  /\ pc[p] = "publish" /\ ~Asks(p, {"define"}) =>
       (IF verdict[p] = NoStatus THEN status ELSE verdict[p])
         = RecomputedStatus(regions, {r \in regions : View(p)[r].signed})

\* A submission that was let through could be let through again.
TurnSubmits(p) ==
  /\ Asks(p, {"submit"}) => pc[p] \in {"loadRegions", "submit"}
  /\ pc[p] = "submit" => Asks(p, {"submit"}) /\ SubmitAllowed(p)

Turn(p) ==
  /\ TurnMarks(p) /\ TurnSigns(p) /\ TurnWithdraws(p) /\ TurnRebuilds(p)
  /\ TurnAnnotates(p) /\ TurnDefines(p) /\ TurnComputes(p) /\ TurnSubmits(p)

\* A signed PDF that lacks an annotation, or shows one too many, is being rebuilt.
SyncUnderWay ==
  (\A p \in Requests : pc[p] # "failed")
    /\ final # NoPdf /\ (\E r \in Regions : row[r].signed) /\ final.notes # notes
  => \E p \in Requests : Active(p) /\ Asks(p, NoteKinds) /\ pc[p] # "writeNote"

SerialInv ==
  OneAtATime /\ WholeRows /\ (\A p \in Requests : Active(p) => Turn(p)) /\ SyncUnderWay
=============================================================================
