-------------------------- MODULE SigningWorkflow --------------------------
(***************************************************************************)
(* One document of the signing backend and the HTTP requests that work on  *)
(* it: app/application/services/document_workflow_service.py over          *)
(* SqlAlchemyDocumentRepository, and the gate and status write of          *)
(* IntegrationService.submit_document.                                     *)
(*                                                                         *)
(* The server is one asyncio process (start.sh runs one worker), so code   *)
(* between two awaits is atomic, and every await on the database is a      *)
(* place where another request runs.  Each request has its own session:    *)
(* one READ COMMITTED transaction, whose reads see the committed rows and  *)
(* the request's own flushed writes, and whose UPDATEs hold their row      *)
(* until the commit.  One action below is one statement that reads or      *)
(* writes shared rows, with the code that runs before the next await.      *)
(*                                                                         *)
(* An UPDATE carries only the columns whose new value differs from the one *)
(* its SELECT loaded (the ORM's unit of work), so the row an UPDATE leaves *)
(* behind depends on what was loaded and on what was committed since.      *)
(*                                                                         *)
(* The UPDATE of the documents row is always the last write before the     *)
(* commit and its transaction reads nothing shared after it, so the two    *)
(* are one step (Publish, SubmitDocument): holding that row any longer     *)
(* only delays other requests.                                             *)
(***************************************************************************)
EXTENDS FiniteSets, Naturals

CONSTANTS
  Requests,        \* HTTP requests; one also names the image and file it writes
  Users,           \* users.id
  Owner,           \* documents.uploaded_by, the admin of this document
  Regions,         \* signature_regions.id, existing or yet to be defined
  Assignee,        \* signature_regions.assigned_to
  InitialRegions,  \* the regions defined before the first request
  Notes,           \* annotations.id
  Ops,             \* the operations clients may ask for
  MaxActive,       \* bound: requests in flight at the same time
  NoRequest, NoRegion, NoImage, NoNote, NoPdf, NoStatus, NoOp

SignKinds     == {"sign", "signAll"}
WithdrawKinds == {"unsign", "discard"}
NoteKinds     == {"addNote", "dropNote"}
Kinds         == SignKinds \cup WithdrawKinds \cup NoteKinds \cup {"define", "submit"}

Operation == [kind: Kinds, by: Users, targets: SUBSET Regions, note: Notes \cup {NoNote}]

ASSUME ConstantsAssumption ==
  /\ Owner \in Users
  /\ Assignee \in [Regions -> Users]
  /\ InitialRegions \subseteq Regions
  /\ Ops \subseteq Operation
  /\ \A o \in Ops :
       /\ o.kind \in NoteKinds => o.note \in Notes
       /\ o.kind \in {"sign", "unsign", "define"} => o.targets # {}
  /\ NoRequest \notin Requests /\ NoImage \notin Requests
  /\ NoRegion \notin Regions /\ NoOp \notin Ops

Statuses == {"Draft", "Pending", "Partially Signed", "Completed"}
Images   == Requests \cup {NoImage}

\* The columns of a signature_regions row that change: signed, and
\* signature_image_path with signed_at, which are always written together.
Row   == [signed: BOOLEAN, image: Images]
Blank == [signed |-> FALSE, image |-> NoImage]

\* A rendered PDF: the image stamped on each region and the annotations drawn.
Pdf == [stamps: [Regions -> Images], notes: SUBSET Notes]
BlankPdf == [stamps |-> [r \in Regions |-> NoImage], notes |-> {}]

ASSUME NullsAssumption == NoPdf \notin Pdf /\ NoStatus \notin Statuses

Labels == {"idle", "check", "select", "update", "loadFinal", "loadRegions", "loadNotes",
           "readStatus", "readRegions", "publish", "writeNote", "submit", "log",
           "done", "failed"}

VARIABLES
  \* committed rows
  regions,   \* the signature_regions rows that exist
  row,       \* their mutable columns
  status,    \* documents.status
  final,     \* the file documents.final_path names; final_hash is its digest
  notes,     \* the annotations rows
  logged,    \* requests with an audit entry
  \* row locks, and the uncommitted version the holder of a lock has written
  holder, dirty,
  \* the requests
  pc, op,
  todo,      \* regions still to read (check) or to mark (select)
  picked,    \* regions discard found to be the caller's and signed
  want,      \* the region row being marked
  loaded,    \* that row as mark/unmark_region_signed's SELECT returned it
  pdf,       \* the PDF being rendered from the loaded document
  verdict    \* the status loaded by, then to be written by, the document UPDATE

database == <<regions, row, status, final, notes, logged>>
locks    == <<holder, dirty>>
vars == <<regions, row, status, final, notes, logged, holder, dirty,
          pc, op, todo, picked, want, loaded, pdf, verdict>>

-----------------------------------------------------------------------------
(* Reads and pure computations *)

Ended(p)  == pc[p] \in {"done", "failed"}
Active(p) == pc[p] \notin {"idle", "done", "failed"}

\* Mutants of View: dirty reads; reads that miss the request's own writes.
ViewUncommitted(p)   == [r \in Regions |-> IF holder[r] # NoRequest THEN dirty[r] ELSE row[r]]
ViewCommittedOnly(p) == row

\* What a SELECT of p returns: committed rows and p's own flushed writes.
View(p) == [r \in Regions |-> IF holder[r] = p THEN dirty[r] ELSE row[r]]

\* The signature a render applies for a row: none unless signed with an image.
Applied(rows) == [r \in Regions |-> IF rows[r].signed THEN rows[r].image ELSE NoImage]

\* The regions that carry p's new image: the requested one, or every one of
\* the caller's.
SignTargets(p) ==
  IF op[p].kind = "sign" THEN op[p].targets
  ELSE {r \in regions : Assignee[r] = op[p].by}

\* Mutant of RecomputedStatus: the enum's name for its value.
RecomputedStatusByName(total, signed) ==
  IF total = {} THEN "Draft" ELSE IF signed = {} THEN "Pending"
  ELSE IF signed # total THEN "PARTIALLY_SIGNED" ELSE "Completed"

\* The status that the regions and how many of them are signed amount to.
RecomputedStatus(total, signed) ==
  CASE total = {}      -> "Draft"
    [] total # {} /\ signed = {} -> "Pending"
    [] signed # {} /\ signed # total -> "Partially Signed"
    [] OTHER           -> "Completed"

\* Mutants of StampsWithTargets: the new image forgotten; the others forgotten.
StampsWithoutTargets(p) == Applied(View(p))
StampsOfTargetsOnly(p)  == [r \in Regions |-> IF r \in SignTargets(p) THEN p ELSE NoImage]

\* What the PDF of a signing request shows: its own image on its targets, and
\* what the loaded rows have on the others.
StampsWithTargets(p) ==
  [r \in Regions |-> IF r \in SignTargets(p) THEN p ELSE Applied(View(p))[r]]

\* Mutant of Authorized: no assigned_to check.
AuthorizedForAnyone(o) == o.kind \in NoteKinds \cup {"define"} => o.by = Owner

\* The checks on immutable columns: 403/400 before anything is written.
Authorized(o) ==
  /\ o.kind \in {"sign", "unsign"} => \A r \in o.targets : Assignee[r] = o.by
  /\ o.kind \in NoteKinds \cup {"define"} => o.by = Owner

FirstLabel(o) ==
  CASE o.kind \in SignKinds \cup {"submit"} -> "loadRegions"
    [] o.kind \in WithdrawKinds -> IF o.targets = {} THEN "done" ELSE "check"
    [] o.kind = "define" -> "readStatus"
    [] OTHER -> "writeNote"

\* Ids a client can know of: regions it was shown, an annotation that exists;
\* a new row gets an id (uuid4) no other request carries.
Plausible(o) ==
  /\ o.kind \in SignKinds \cup WithdrawKinds => o.targets \subseteq regions
  /\ o.kind \in {"define", "addNote"} => \A q \in Requests : op[q] # o
  /\ o.kind = "define" => o.targets \cap regions = {}
  /\ o.kind = "addNote" => o.note \notin notes
  /\ o.kind = "dropNote" => o.note \in notes

-----------------------------------------------------------------------------
Init ==
  /\ regions = InitialRegions
  /\ row = [r \in Regions |-> Blank]
  /\ status = RecomputedStatus(InitialRegions, {})
  /\ final = NoPdf
  /\ notes = {}
  /\ logged = {}
  /\ holder = [r \in Regions |-> NoRequest]
  /\ dirty = [r \in Regions |-> Blank]
  /\ pc = [p \in Requests |-> "idle"]
  /\ op = [p \in Requests |-> NoOp]
  /\ todo = [p \in Requests |-> {}]
  /\ picked = [p \in Requests |-> {}]
  /\ want = [p \in Requests |-> NoRegion]
  /\ loaded = [p \in Requests |-> Blank]
  /\ pdf = [p \in Requests |-> BlankPdf]
  /\ verdict = [p \in Requests |-> NoStatus]

Goto(p, label) == pc' = [pc EXCEPT ![p] = label]

\* Mutant of RowsReleasedBy: no rollback closes the transaction.
RowsKeptBy(p) == holder

RowsReleasedBy(p) == [r \in Regions |-> IF holder[r] = p THEN NoRequest ELSE holder[r]]

\* The request is over: its transaction is closed and its rows are released.
End(p, outcome) ==
  /\ Goto(p, outcome)
  /\ holder' = RowsReleasedBy(p)
  /\ dirty' = [r \in Regions |-> IF holder[r] = p THEN Blank ELSE dirty[r]]
  /\ todo' = [todo EXCEPT ![p] = {}]
  /\ picked' = [picked EXCEPT ![p] = {}]
  /\ want' = [want EXCEPT ![p] = NoRegion]
  /\ loaded' = [loaded EXCEPT ![p] = Blank]
  /\ pdf' = [pdf EXCEPT ![p] = BlankPdf]
  /\ verdict' = [verdict EXCEPT ![p] = NoStatus]
  /\ UNCHANGED op

-----------------------------------------------------------------------------
(* Handler steps *)

\* A request reaches its handler; the checks on immutable columns come first.
Arrive(p, o) ==
  /\ pc[p] = "idle"
  /\ Cardinality({q \in Requests : Active(q)}) < MaxActive
  /\ Plausible(o)
  /\ op' = [op EXCEPT ![p] = o]
  /\ Goto(p, IF Authorized(o) THEN FirstLabel(o) ELSE "failed")
  /\ todo' = [todo EXCEPT ![p] = IF o.kind \in WithdrawKinds /\ Authorized(o)
                                 THEN o.targets ELSE {}]
  /\ UNCHANGED <<database, locks, picked, want, loaded, pdf, verdict>>

\* Mutant of Withdrawable: no assigned_to check.
SignedByAnyone(p, r) == row[r].signed

\* A region unsign or discard takes up: the caller's, and signed.
Withdrawable(p, r) == Assignee[r] = op[p].by /\ row[r].signed

\* unsign_region's and discard_draft_regions' get_region_by_id: other regions
\* are passed over; with none left, return.
CheckRegion(p, r) ==
  /\ pc[p] = "check" /\ r \in todo[p]
  /\ LET found == IF Withdrawable(p, r) THEN picked[p] \cup {r} ELSE picked[p]
         rest  == todo[p] \ {r}
     IN  \/ /\ rest # {}
            /\ todo' = [todo EXCEPT ![p] = rest]
            /\ picked' = [picked EXCEPT ![p] = found]
            /\ UNCHANGED <<pc, op, locks, want, loaded, pdf, verdict>>
         \/ /\ rest = {} /\ found # {}
            /\ todo' = [todo EXCEPT ![p] = found]
            /\ picked' = [picked EXCEPT ![p] = {}]
            /\ Goto(p, "select")
            /\ UNCHANGED <<op, locks, want, loaded, pdf, verdict>>
         \/ /\ rest = {} /\ found = {}
            /\ End(p, "done")
  /\ UNCHANGED database

\* sign_region, sign_all_regions: the regions are loaded once, and what the
\* new PDF will show of the other regions is fixed here.
LoadForSigning(p) ==
  /\ pc[p] = "loadRegions" /\ op[p].kind \in SignKinds
  /\ IF SignTargets(p) = {}
     THEN End(p, "failed")
     ELSE /\ pdf' = [pdf EXCEPT ![p] = [stamps |-> StampsWithTargets(p), notes |-> {}]]
          /\ todo' = [todo EXCEPT ![p] = SignTargets(p)]
          /\ Goto(p, "loadNotes")
          /\ UNCHANGED <<op, locks, picked, want, loaded, verdict>>
  /\ UNCHANGED database

\* The rebuilds, with whatever signatures remain.  An annotation change
\* leaves a PDF without signatures alone (_rebuild_final_pdf_if_signed).
LoadForRebuild(p) ==
  /\ pc[p] = "loadRegions" /\ op[p].kind \in WithdrawKinds \cup NoteKinds
  /\ IF op[p].kind \in NoteKinds /\ Applied(View(p)) = BlankPdf.stamps
     THEN End(p, "done")
     ELSE /\ pdf' = [pdf EXCEPT ![p] = [stamps |-> Applied(View(p)), notes |-> {}]]
          /\ Goto(p, "loadNotes")
          /\ UNCHANGED <<op, locks, todo, picked, want, loaded, verdict>>
  /\ UNCHANGED database

LoadNotes(p) ==
  /\ pc[p] = "loadNotes"
  /\ pdf' = [pdf EXCEPT ![p] = [stamps |-> pdf[p].stamps, notes |-> notes]]
  /\ Goto(p, IF op[p].kind \in SignKinds THEN "select" ELSE "readStatus")
  /\ UNCHANGED <<database, locks, op, todo, picked, want, loaded, verdict>>

-----------------------------------------------------------------------------
(* mark_region_signed and unmark_region_signed *)

NextAfterMarks(p) == IF op[p].kind \in SignKinds THEN "readStatus" ELSE "loadRegions"

\* The SELECT.  Unmarking a row that is already blank changes no column, so no
\* UPDATE is sent.
SelectRegion(p, r) ==
  /\ pc[p] = "select" /\ r \in todo[p]
  /\ todo' = [todo EXCEPT ![p] = @ \ {r}]
  /\ IF op[p].kind \in WithdrawKinds /\ row[r] = Blank
     THEN /\ Goto(p, IF todo[p] = {r} THEN NextAfterMarks(p) ELSE "select")
          /\ UNCHANGED <<want, loaded>>
     ELSE /\ want' = [want EXCEPT ![p] = r]
          /\ loaded' = [loaded EXCEPT ![p] = row[r]]
          /\ Goto(p, "update")
  /\ UNCHANGED <<database, locks, op, picked, pdf, verdict>>

\* The row after an UPDATE that assigns target to a row loaded as old, when
\* the committed version is now current: only changed columns are written.
Flushed(current, old, target) ==
  [signed |-> IF target.signed # old.signed THEN target.signed ELSE current.signed,
   image  |-> IF target.image # old.image THEN target.image ELSE current.image]

MarkTarget(p) ==
  IF op[p].kind \in SignKinds THEN [signed |-> TRUE, image |-> p] ELSE Blank

\* The UPDATE waits until no other transaction holds the row.
UpdateRegion(p) ==
  /\ pc[p] = "update" /\ holder[want[p]] = NoRequest
  /\ holder' = [holder EXCEPT ![want[p]] = p]
  /\ dirty' = [dirty EXCEPT ![want[p]] = Flushed(row[want[p]], loaded[p], MarkTarget(p))]
  /\ want' = [want EXCEPT ![p] = NoRegion]
  /\ loaded' = [loaded EXCEPT ![p] = Blank]
  /\ Goto(p, IF todo[p] = {} THEN NextAfterMarks(p) ELSE "select")
  /\ UNCHANGED <<database, op, todo, picked, pdf, verdict>>

-----------------------------------------------------------------------------
(* update_document_after_sign, create_signature_regions, and the commits *)

\* The SELECT of the documents row, in update_document_after_sign and in
\* create_signature_regions.
ReadStatus(p) ==
  /\ pc[p] = "readStatus"
  /\ verdict' = [verdict EXCEPT ![p] = status]
  /\ Goto(p, IF op[p].kind = "define" THEN "publish" ELSE "readRegions")
  /\ UNCHANGED <<database, locks, op, todo, picked, want, loaded, pdf>>

\* The SELECT of its regions, and the status they amount to.
ReadRegions(p) ==
  /\ pc[p] = "readRegions"
  /\ LET new == RecomputedStatus(regions, {r \in regions : View(p)[r].signed})
     IN  verdict' = [verdict EXCEPT ![p] = IF new = @ THEN NoStatus ELSE new]
  /\ Goto(p, "publish")
  /\ UNCHANGED <<database, locks, op, todo, picked, want, loaded, pdf>>

\* UPDATE documents, audit entry, commit.  The rebuild after an annotation
\* change has written its audit entry already.
Publish(p) ==
  /\ pc[p] = "publish" /\ op[p].kind # "define"
  /\ row' = [r \in Regions |-> IF holder[r] = p THEN dirty[r] ELSE row[r]]
  /\ final' = pdf[p]
  /\ status' = IF verdict[p] = NoStatus THEN status ELSE verdict[p]
  /\ logged' = logged \cup {p}
  /\ End(p, "done")
  /\ UNCHANGED <<regions, notes>>

\* create_regions' first commit: the new rows, and Pending unless it was loaded.
DefineRegions(p) ==
  /\ pc[p] = "publish" /\ op[p].kind = "define"
  /\ regions' = regions \cup op[p].targets
  /\ status' = IF verdict[p] = "Pending" THEN status ELSE "Pending"
  /\ verdict' = [verdict EXCEPT ![p] = NoStatus]
  /\ Goto(p, "log")
  /\ UNCHANGED <<row, final, notes, logged, locks, op, todo, picked, want, loaded, pdf>>

\* Mutant of SubmitAllowed: the gate left open.
SubmitAlwaysAllowed(p) == TRUE

\* The gate of submit_document: the caller has regions and all are signed.
SubmitAllowed(p) ==
  LET mine == {r \in regions : Assignee[r] = op[p].by}
  IN  mine # {} /\ \A r \in mine : row[r].signed

GateSubmit(p) ==
  /\ pc[p] = "loadRegions" /\ op[p].kind = "submit"
  /\ IF SubmitAllowed(p)
     THEN /\ Goto(p, "submit")
          /\ UNCHANGED <<locks, op, todo, picked, want, loaded, pdf, verdict>>
     ELSE End(p, "failed")
  /\ UNCHANGED database

\* Its UPDATE (status alone, whatever it was), audit entry and commit.
SubmitDocument(p) ==
  /\ pc[p] = "submit"
  /\ status' = "Completed"
  /\ logged' = logged \cup {p}
  /\ End(p, "done")
  /\ UNCHANGED <<regions, row, final, notes>>

-----------------------------------------------------------------------------
(* create_annotations, delete_annotation *)

\* The first commit.  An annotation deleted meanwhile is a 404, or nothing to
\* do when it went after the check.
WriteNote(p) ==
  /\ pc[p] = "writeNote"
  /\ \/ /\ op[p].kind = "addNote" \/ op[p].note \in notes
        /\ notes' = IF op[p].kind = "addNote" THEN notes \cup {op[p].note}
                    ELSE notes \ {op[p].note}
        /\ Goto(p, "log")
     \/ /\ op[p].kind = "dropNote" /\ op[p].note \notin notes
        /\ \E next \in {"log", "failed"} : Goto(p, next)
        /\ UNCHANGED notes
  /\ UNCHANGED <<regions, row, status, final, logged, locks, op, todo, picked, want,
                 loaded, pdf, verdict>>

\* The second commit, of the audit entry alone.
WriteLog(p) ==
  /\ pc[p] = "log"
  /\ logged' = logged \cup {p}
  /\ Goto(p, IF op[p].kind = "define" THEN "done" ELSE "loadFinal")
  /\ UNCHANGED <<regions, row, status, final, notes, locks, op, todo, picked, want,
                 loaded, pdf, verdict>>

\* Mutant of PdfToRebuild: the signed PDF is left as it is.
NothingToRebuild == FALSE

PdfToRebuild == final # NoPdf

\* _rebuild_final_pdf_if_signed: nothing to rebuild before the first signature.
LoadFinal(p) ==
  /\ pc[p] = "loadFinal"
  /\ Goto(p, IF PdfToRebuild THEN "loadRegions" ELSE "done")
  /\ UNCHANGED <<database, locks, op, todo, picked, want, loaded, pdf, verdict>>

-----------------------------------------------------------------------------
(* Failures *)

\* The request dies: an error the handler does not catch (rolled back by
\* get_db_session), a lost connection; a restart of the container is an Abort
\* of every active request.  Files already written stay, unreferenced.
Abort(p) ==
  /\ Active(p)
  /\ End(p, "failed")
  /\ UNCHANGED database

\* p is on a cycle of transactions that wait for each other's rows.
InDeadlock(p) ==
  \E S \in SUBSET Requests :
    /\ p \in S
    /\ \A q \in S : pc[q] = "update"
    /\ S = {holder[want[q]] : q \in S}

\* PostgreSQL's deadlock detector aborts one transaction of a cycle.
DeadlockVictim(p) ==
  /\ InDeadlock(p)
  /\ End(p, "failed")
  /\ UNCHANGED database

-----------------------------------------------------------------------------
Step(p) ==
  \/ \E r \in Regions : CheckRegion(p, r) \/ SelectRegion(p, r)
  \/ LoadForSigning(p) \/ LoadForRebuild(p) \/ LoadNotes(p)
  \/ UpdateRegion(p) \/ ReadStatus(p) \/ ReadRegions(p)
  \/ Publish(p) \/ DefineRegions(p) \/ GateSubmit(p) \/ SubmitDocument(p)
  \/ WriteNote(p) \/ WriteLog(p) \/ LoadFinal(p)

\* Every request of the bounded instance has been answered.
AllAnswered ==
  /\ \A p \in Requests : Ended(p)
  /\ UNCHANGED vars

Next ==
  \/ \E p \in Requests :
       \/ \E o \in Ops : Arrive(p, o)
       \/ Step(p) \/ Abort(p) \/ DeadlockVictim(p)
  \/ AllAnswered

Spec == Init /\ [][Next]_vars

\* The event loop runs every ready task, and the database breaks every cycle
\* of waiting transactions after deadlock_timeout.
Fairness ==
  \A p \in Requests : WF_vars(Step(p)) /\ WF_vars(DeadlockVictim(p))

FairSpec == Spec /\ Fairness

-----------------------------------------------------------------------------
(* Properties *)

\* Every variable has its type.
TypeOK ==
  /\ regions \in SUBSET Regions
  /\ row \in [Regions -> Row]
  /\ status \in Statuses
  /\ final \in Pdf \cup {NoPdf}
  /\ notes \in SUBSET Notes
  /\ logged \in SUBSET Requests
  /\ holder \in [Regions -> Requests \cup {NoRequest}]
  /\ dirty \in [Regions -> Row]
  /\ pc \in [Requests -> Labels]
  /\ op \in [Requests -> Ops \cup {NoOp}]
  /\ todo \in [Requests -> SUBSET Regions]
  /\ picked \in [Requests -> SUBSET Regions]
  /\ want \in [Requests -> Regions \cup {NoRegion}]
  /\ loaded \in [Requests -> Row]
  /\ pdf \in [Requests -> Pdf]
  /\ verdict \in [Requests -> Statuses \cup {NoStatus}]

\* q is a signing request of the user the region r is assigned to.
SignedByAssignee(q, r) ==
  q \in Requests /\ op[q] # NoOp /\ op[q].kind \in SignKinds /\ op[q].by = Assignee[r]

\* Authenticity: whatever requests overlap, every image recorded for a region
\* and every stamp in the published PDF was made by a signing request of the
\* region's assignee (the assigned_to checks of sign_region, unsign_region,
\* discard_draft_regions and sign_all_regions).
Authentic ==
  \A r \in Regions :
    /\ row[r].image # NoImage => SignedByAssignee(row[r].image, r)
    /\ final # NoPdf /\ final.stamps[r] # NoImage => SignedByAssignee(final.stamps[r], r)

\* No phantom signature: an image in a row or in the published PDF belongs to
\* a request that committed, and with it its audit entry; an aborted request
\* leaves no signature (one transaction around rows, document and audit log).
NoPhantomSignature ==
  \A r \in Regions :
    /\ row[r].image # NoImage => row[r].image \in logged
    /\ final # NoPdf /\ final.stamps[r] # NoImage => final.stamps[r] \in logged

\* A document is a Draft exactly while it has no regions, however
\* create_regions overlaps the requests that recompute the status.
DraftIffNoRegions == status = "Draft" <=> regions = {}

\* A Completed document has a signed PDF, so the two halves of the guard in
\* get_download_path_for_admin never disagree, not even after a submit.
CompletedHasPdf == status = "Completed" => final # NoPdf

\* What the status says of the document is true of its regions and files.
StatusIsBacked == DraftIffNoRegions /\ CompletedHasPdf

\* A row is only ever waited for by the signer whose request holds it: two
\* signers never block, let alone deadlock, each other on region rows.
WaitsStayWithOneSigner ==
  \A p \in Requests :
    pc[p] = "update" /\ holder[want[p]] # NoRequest
      => op[p].by = op[holder[want[p]]].by

\* A region's row changes only by the commit of a request of its assignee.
OnlyAssigneeChangesRow ==
  [][\A r \in Regions : row[r] # row'[r] =>
       \E p \in Requests : /\ pc[p] = "publish" /\ pc'[p] = "done"
                           /\ op[p].by = Assignee[r]]_vars

\* The commit of a signing request shows: every region it signed bears its
\* image in the row and in the PDF it publishes (sign_region, sign_all_regions).
SigningShowsOnFile ==
  [][\A p \in Requests :
       pc[p] = "publish" /\ pc'[p] = "done" /\ op[p].kind \in SignKinds =>
         \A r \in Regions : holder[r] = p =>
           row'[r].image = p /\ final'.stamps[r] = p]_vars

\* The commit of an unsign or a discard shows: the PDF it publishes bears no
\* stamp on the regions it withdrew ("rebuild the PDF without it").
WithdrawalShowsOnFile ==
  [][\A p \in Requests :
       pc[p] = "publish" /\ pc'[p] = "done" /\ op[p].kind \in WithdrawKinds =>
         \A r \in Regions : holder[r] = p => final'.stamps[r] = NoImage]_vars

\* With one request at a time (MaxActive = 1) the service keeps the promise of
\* SignedDocument: the PDF on file shows the signatures on record, those of
\* other signers included, and the status follows from them.
Promise == INSTANCE SignedDocument WITH signature <- Applied(row)
KeepsPromise == Promise!Spec

\* sign_all_regions: "Regions already signed by other signers are preserved."
OthersSignaturesPreserved ==
  [][\A p \in Requests :
       pc[p] = "publish" /\ pc'[p] = "done" /\ op[p].kind = "signAll" =>
         \A r \in regions : Assignee[r] # op[p].by /\ row[r].signed =>
           final'.stamps[r] = row[r].image]_vars

\* create_annotations: "Keep the downloadable signed PDF in sync if any
\* signature has already been applied": once every request has been answered
\* and none failed, the signed PDF shows the annotations on record.
AnnotationsInSync ==
  (\A p \in Requests : ~Active(p) /\ pc[p] # "failed")
    /\ final # NoPdf /\ (\E r \in Regions : row[r].signed)
  => final.notes = notes

=============================================================================
