----------------------- MODULE SigningWorkflow_proofs -----------------------
(***************************************************************************)
(* Proofs of the safety properties of SigningWorkflow, for any number of   *)
(* requests, users, regions and annotations and any set of operations: for *)
(* overlapping requests, for one request at a time, and for what is        *)
(* remembered of a signer.                                                 *)
(***************************************************************************)
EXTENDS SigningInvariants, RememberedSignature, FiniteSetTheorems, TLAPS

-----------------------------------------------------------------------------
(* Type correctness *)

\* Closing a request leaves every variable of the requests well typed.
LEMMA EndTyped ==
  ASSUME TypeOK, NEW p \in Requests, NEW outcome \in Labels, End(p, outcome)
  PROVE  /\ holder' \in [Regions -> Requests \cup {NoRequest}]
         /\ dirty' \in [Regions -> Row]
         /\ pc' \in [Requests -> Labels]
         /\ op' \in [Requests -> Ops \cup {NoOp}]
         /\ todo' \in [Requests -> SUBSET Regions]
         /\ picked' \in [Requests -> SUBSET Regions]
         /\ want' \in [Requests -> Regions \cup {NoRegion}]
         /\ loaded' \in [Requests -> Row]
         /\ pdf' \in [Requests -> Pdf]
         /\ verdict' \in [Requests -> Statuses \cup {NoStatus}]
  BY DEF TypeOK, End, RowsReleasedBy, Goto, Row, Blank, Images, Pdf, BlankPdf

\* What a SELECT returns is a row for every region.
LEMMA ViewTyped ==
  ASSUME TypeOK, NEW p \in Requests
  PROVE  View(p) \in [Regions -> Row]
  BY DEF TypeOK, View

\* The signatures applied for well-typed rows are images.
LEMMA AppliedTyped ==
  ASSUME NEW rows \in [Regions -> Row]
  PROVE  Applied(rows) \in [Regions -> Images]
  BY DEF Applied, Row, Images

\* The status that update_document_after_sign computes is a status.
LEMMA RecomputedTyped ==
  ASSUME NEW total, NEW signed
  PROVE  RecomputedStatus(total, signed) \in Statuses
  BY DEF RecomputedStatus, Statuses

\* The regions a signing request marks are regions.
LEMMA SignTargetsTyped ==
  ASSUME TypeOK, NEW p \in Requests, op[p] \in Ops
  PROVE  SignTargets(p) \in SUBSET Regions
  BY ConstantsAssumption DEF TypeOK, SignTargets, Operation

\* The row an UPDATE leaves behind is a row.
LEMMA FlushedTyped ==
  ASSUME NEW current \in Row, NEW old \in Row, NEW p \in Requests
  PROVE  Flushed(current, old, MarkTarget(p)) \in Row
  BY DEF Flushed, MarkTarget, Row, Blank, Images

Typed == TypeOK /\ OpsAdmitted

\* One step of a request or of the environment keeps every variable's type,
\* and an operation once admitted stays with its request.
LEMMA TypedStep == Typed /\ [Next]_vars => Typed'
<1> SUFFICES ASSUME Typed, [Next]_vars PROVE Typed'
  OBVIOUS
<1> USE DEF Typed
<1>1. ASSUME NEW p \in Requests, NEW o \in Ops, Arrive(p, o) PROVE Typed'
  <2>1. FirstLabel(o) \in Labels /\ "failed" \in Labels
    BY DEF FirstLabel, Labels
  <2>2. o.targets \in SUBSET Regions
    BY ConstantsAssumption DEF Operation
  <2>3. TypeOK'
    BY <1>1, <2>1, <2>2 DEF Arrive, Goto, TypeOK, database, locks
  <2>4. OpsAdmitted'
    BY <1>1, <2>1 DEF Arrive, Goto, TypeOK, OpsAdmitted, Active, Authorized, FirstLabel
  <2> QED
    BY <2>3, <2>4
<1>2. ASSUME NEW p \in Requests, NEW r \in Regions, CheckRegion(p, r) PROVE Typed'
  <2>1. "done" \in Labels /\ "select" \in Labels
    BY DEF Labels
  <2>2. TypeOK'
    BY <1>2, <2>1, EndTyped DEF CheckRegion, Goto, TypeOK, database, locks
  <2>3. OpsAdmitted'
    BY <1>2 DEF CheckRegion, Goto, End, TypeOK, OpsAdmitted, Active, Authorized
  <2> QED
    BY <2>2, <2>3
<1>3. ASSUME NEW p \in Requests, LoadForSigning(p) PROVE Typed'
  <2>1. "failed" \in Labels /\ "loadNotes" \in Labels
    BY DEF Labels
  <2>2. SignTargets(p) \in SUBSET Regions
    BY <1>3, SignTargetsTyped DEF LoadForSigning, OpsAdmitted
  <2>3. [stamps |-> StampsWithTargets(p), notes |-> {}] \in Pdf
    BY ViewTyped, AppliedTyped DEF StampsWithTargets, Images, Pdf
  <2>4. TypeOK'
    <3>1. CASE End(p, "failed")
      <4>1. UNCHANGED database
        BY <1>3 DEF LoadForSigning
      <4> QED
        BY <2>1, <3>1, <4>1, EndTyped DEF TypeOK, database
    <3>2. CASE ~End(p, "failed")
      BY <1>3, <2>1, <2>2, <2>3, <3>2 DEF LoadForSigning, Goto, TypeOK, database, locks
    <3> QED
      BY <3>1, <3>2
  <2>5. OpsAdmitted'
    BY <1>3 DEF LoadForSigning, Goto, End, TypeOK, OpsAdmitted, Active, Authorized
  <2> QED
    BY <2>4, <2>5
<1>4. ASSUME NEW p \in Requests, LoadForRebuild(p) PROVE Typed'
  <2>1. "done" \in Labels /\ "loadNotes" \in Labels
    BY DEF Labels
  <2>2. Applied(View(p)) \in [Regions -> Images]
    BY ViewTyped, AppliedTyped
  <2>a. [stamps |-> Applied(View(p)), notes |-> {}] \in Pdf
    BY <2>2 DEF Pdf
  <2>3. TypeOK'
    <3>1. CASE End(p, "done")
      <4>1. UNCHANGED database
        BY <1>4 DEF LoadForRebuild
      <4> QED
        BY <2>1, <3>1, <4>1, EndTyped DEF TypeOK, database
    <3>2. CASE ~End(p, "done")
      BY <1>4, <2>1, <2>a, <3>2 DEF LoadForRebuild, Goto, TypeOK, database, locks
    <3> QED
      BY <3>1, <3>2
  <2>4. OpsAdmitted'
    BY <1>4 DEF LoadForRebuild, Goto, End, TypeOK, OpsAdmitted, Active, Authorized
  <2> QED
    BY <2>3, <2>4
<1>5. ASSUME NEW p \in Requests, LoadNotes(p) PROVE Typed'
  BY <1>5 DEF LoadNotes, Goto, TypeOK, OpsAdmitted, Active, Authorized, Pdf, Labels, database, locks
<1>6. ASSUME NEW p \in Requests, NEW r \in Regions, SelectRegion(p, r) PROVE Typed'
  BY <1>6 DEF SelectRegion, NextAfterMarks, Goto, TypeOK, OpsAdmitted, Active, Authorized,
              Labels, database, locks
<1>7. ASSUME NEW p \in Requests, UpdateRegion(p) PROVE Typed'
  <2>1. want[p] \in Regions =>
          Flushed(row[want[p]], loaded[p], MarkTarget(p)) \in Row
    BY FlushedTyped DEF TypeOK
  <2>2. TypeOK'
    BY <1>7, <2>1 DEF UpdateRegion, NextAfterMarks, Goto, TypeOK, Labels, Row, Blank, Images,
                      database
  <2>3. OpsAdmitted'
    BY <1>7 DEF UpdateRegion, NextAfterMarks, Goto, TypeOK, OpsAdmitted, Active, Authorized
  <2> QED
    BY <2>2, <2>3
<1>8. ASSUME NEW p \in Requests, ReadStatus(p) PROVE Typed'
  BY <1>8 DEF ReadStatus, Goto, TypeOK, OpsAdmitted, Active, Authorized, Labels, database, locks
<1>9. ASSUME NEW p \in Requests, ReadRegions(p) PROVE Typed'
  BY <1>9, RecomputedTyped
     DEF ReadRegions, Goto, TypeOK, OpsAdmitted, Active, Authorized, Labels, database, locks
<1>10. ASSUME NEW p \in Requests, Publish(p) PROVE Typed'
  <2>1. TypeOK'
    BY <1>10, EndTyped DEF Publish, TypeOK, Labels
  <2>2. OpsAdmitted'
    BY <1>10 DEF Publish, End, Goto, TypeOK, OpsAdmitted, Active, Authorized
  <2> QED
    BY <2>1, <2>2
<1>11. ASSUME NEW p \in Requests, DefineRegions(p) PROVE Typed'
  <2>1. op[p].targets \in SUBSET Regions
    BY <1>11, ConstantsAssumption DEF DefineRegions, OpsAdmitted, Operation
  <2> QED
    BY <1>11, <2>1 DEF DefineRegions, Goto, TypeOK, OpsAdmitted, Active, Authorized, Labels,
                       Statuses, locks
<1>12. ASSUME NEW p \in Requests, GateSubmit(p) PROVE Typed'
  <2>1. TypeOK'
    BY <1>12, EndTyped DEF GateSubmit, Goto, TypeOK, Labels, database, locks
  <2>2. OpsAdmitted'
    BY <1>12 DEF GateSubmit, End, Goto, TypeOK, OpsAdmitted, Active, Authorized
  <2> QED
    BY <2>1, <2>2
<1>13. ASSUME NEW p \in Requests, SubmitDocument(p) PROVE Typed'
  <2>1. TypeOK'
    BY <1>13, EndTyped DEF SubmitDocument, TypeOK, Labels, Statuses
  <2>2. OpsAdmitted'
    BY <1>13 DEF SubmitDocument, End, Goto, TypeOK, OpsAdmitted, Active, Authorized
  <2> QED
    BY <2>1, <2>2
<1>14. ASSUME NEW p \in Requests, WriteNote(p) PROVE Typed'
  <2>1. op[p] \in Ops
    BY <1>14 DEF WriteNote, OpsAdmitted
  <2>2. op[p].kind = "addNote" => op[p].note \in Notes
    BY <2>1, ConstantsAssumption DEF NoteKinds
  <2> QED
    BY <1>14, <2>1, <2>2
       DEF WriteNote, Goto, TypeOK, OpsAdmitted, Active, Authorized, Labels, locks
<1>15. ASSUME NEW p \in Requests, WriteLog(p) PROVE Typed'
  BY <1>15 DEF WriteLog, Goto, TypeOK, OpsAdmitted, Active, Authorized, Labels, locks
<1>16. ASSUME NEW p \in Requests, LoadFinal(p) PROVE Typed'
  BY <1>16 DEF LoadFinal, Goto, TypeOK, OpsAdmitted, Active, Authorized, Labels, database, locks
<1>17. ASSUME NEW p \in Requests, End(p, "failed"), UNCHANGED database, pc[p] # "idle"
       PROVE  Typed'
  <2>1. TypeOK'
    BY <1>17, EndTyped DEF TypeOK, Labels, database
  <2>2. OpsAdmitted'
    BY <1>17 DEF End, Goto, TypeOK, OpsAdmitted, Active, Authorized
  <2> QED
    BY <2>1, <2>2
<1>18. ASSUME UNCHANGED vars PROVE Typed'
  BY <1>18 DEF vars, TypeOK, OpsAdmitted, Active, Authorized
<1>19. \A p \in Requests : Abort(p) \/ DeadlockVictim(p) =>
         End(p, "failed") /\ UNCHANGED database /\ pc[p] # "idle"
  BY DEF Abort, DeadlockVictim, InDeadlock, Active
<1> QED
  BY <1>1, <1>2, <1>3, <1>4, <1>5, <1>6, <1>7, <1>8, <1>9, <1>10, <1>11, <1>12, <1>13, <1>14,
     <1>15, <1>16, <1>17, <1>18, <1>19
     DEF Next, Step, AllAnswered

\* The initial states are well typed.
LEMMA InitTyped == Init => Typed
  BY ConstantsAssumption, RecomputedTyped
     DEF Init, Typed, TypeOK, OpsAdmitted, Active, Row, Blank, Images, Pdf, BlankPdf, Labels

\* Every variable has its type in every reachable state.
THEOREM TypeCorrect == Spec => []TypeOK
<1>1. Init => Typed
  BY InitTyped
<1>2. Typed => TypeOK
  BY DEF Typed
<1> QED
  BY <1>1, <1>2, TypedStep, PTL DEF Spec

-----------------------------------------------------------------------------
(* Who holds and marks which rows *)

Held == Typed /\ Phases

\* A row lock is only ever held by a request at work, and a request's lists of
\* regions are empty outside its loops.
LEMMA PhasesStep == Held /\ [Next]_vars => Phases'
<1> SUFFICES ASSUME Held, [Next]_vars PROVE Phases'
  OBVIOUS
<1> USE NullsAssumption, ConstantsAssumption DEF Held, Typed
<1>1. ASSUME NEW p \in Requests, NEW o \in Ops, Arrive(p, o) PROVE Phases'
  BY <1>1 DEF Arrive, Goto, FirstLabel, TypeOK, OpsAdmitted, Phases, Active, Asks, locks, Operation,
              SignKinds, WithdrawKinds, NoteKinds, Kinds
<1>2. ASSUME NEW p \in Requests, NEW r \in Regions, CheckRegion(p, r) PROVE Phases'
  BY <1>2 DEF CheckRegion, Goto, End, RowsReleasedBy, TypeOK, OpsAdmitted, Phases, Active, Asks, locks
<1>3. ASSUME NEW p \in Requests, LoadForSigning(p) PROVE Phases'
  BY <1>3 DEF LoadForSigning, Goto, End, RowsReleasedBy, TypeOK, OpsAdmitted, Phases, Active, Asks, locks
<1>4. ASSUME NEW p \in Requests, LoadForRebuild(p) PROVE Phases'
  BY <1>4 DEF LoadForRebuild, Goto, End, RowsReleasedBy, TypeOK, OpsAdmitted, Phases, Active, Asks, locks
<1>5. ASSUME NEW p \in Requests, LoadNotes(p) PROVE Phases'
  BY <1>5 DEF LoadNotes, Goto, TypeOK, OpsAdmitted, Phases, Active, Asks, locks
<1>6. ASSUME NEW p \in Requests, NEW r \in Regions, SelectRegion(p, r) PROVE Phases'
  BY <1>6 DEF SelectRegion, NextAfterMarks, Goto, TypeOK, OpsAdmitted, Phases, Active, Asks, locks
<1>7. ASSUME NEW p \in Requests, UpdateRegion(p) PROVE Phases'
  BY <1>7 DEF UpdateRegion, NextAfterMarks, Goto, TypeOK, OpsAdmitted, Phases, Active, Asks
<1>8. ASSUME NEW p \in Requests, ReadStatus(p) PROVE Phases'
  BY <1>8 DEF ReadStatus, Goto, TypeOK, OpsAdmitted, Phases, Active, Asks, locks
<1>9. ASSUME NEW p \in Requests, ReadRegions(p) PROVE Phases'
  BY <1>9 DEF ReadRegions, Goto, TypeOK, OpsAdmitted, Phases, Active, Asks, locks
<1>10. ASSUME NEW p \in Requests, DefineRegions(p) PROVE Phases'
  BY <1>10 DEF DefineRegions, Goto, TypeOK, OpsAdmitted, Phases, Active, Asks, locks
<1>11. ASSUME NEW p \in Requests, GateSubmit(p) PROVE Phases'
  BY <1>11 DEF GateSubmit, Goto, End, RowsReleasedBy, TypeOK, OpsAdmitted, Phases, Active, Asks, locks
<1>12. ASSUME NEW p \in Requests, WriteNote(p) PROVE Phases'
  BY <1>12 DEF WriteNote, Goto, TypeOK, OpsAdmitted, Phases, Active, Asks, locks,
               SignKinds, WithdrawKinds, NoteKinds
<1>13. ASSUME NEW p \in Requests, WriteLog(p) PROVE Phases'
  BY <1>13 DEF WriteLog, Goto, TypeOK, OpsAdmitted, Phases, Active, Asks, locks,
               SignKinds, WithdrawKinds, NoteKinds
<1>14. ASSUME NEW p \in Requests, LoadFinal(p) PROVE Phases'
  BY <1>14 DEF LoadFinal, Goto, TypeOK, OpsAdmitted, Phases, Active, Asks, locks,
               SignKinds, WithdrawKinds, NoteKinds
<1>15. ASSUME NEW p \in Requests, NEW outcome \in {"done", "failed"}, End(p, outcome)
       PROVE  Phases'
  BY <1>15 DEF End, Goto, RowsReleasedBy, TypeOK, OpsAdmitted, Phases, Active, Asks
<1>16. ASSUME UNCHANGED vars PROVE Phases'
  BY <1>16 DEF vars, Phases, Active, Asks
<1>17. \A p \in Requests :
         /\ Publish(p) \/ SubmitDocument(p) => End(p, "done")
         /\ Abort(p) \/ DeadlockVictim(p) => End(p, "failed")
  BY DEF Publish, SubmitDocument, Abort, DeadlockVictim
<1> QED
  BY <1>1, <1>2, <1>3, <1>4, <1>5, <1>6, <1>7, <1>8, <1>9, <1>10, <1>11, <1>12, <1>13, <1>14,
     <1>15, <1>16, <1>17 DEF Next, Step, AllAnswered

Owned == Held /\ OwnRowsOnly

\* The regions a signing request marks are its caller's.
LEMMA SignTargetsMine ==
  ASSUME Typed, NEW p \in Requests, Active(p), op[p].kind \in SignKinds
  PROVE  \A r \in SignTargets(p) : Mine(p, r)
<1>1. Authorized(op[p])
  BY DEF Typed, OpsAdmitted
<1>2. CASE op[p].kind = "sign"
  BY <1>1, <1>2 DEF Authorized, SignTargets, Mine
<1>3. CASE op[p].kind # "sign"
  BY <1>3 DEF SignTargets, Mine
<1> QED
  BY <1>2, <1>3

\* A request only ever takes up, waits for and holds rows assigned to its
\* caller.
LEMMA OwnRowsStep == Owned /\ [Next]_vars => OwnRowsOnly'
<1> SUFFICES ASSUME Owned, [Next]_vars PROVE OwnRowsOnly'
  OBVIOUS
<1> USE NullsAssumption, ConstantsAssumption DEF Owned, Held, Typed
<1>1. ASSUME NEW p \in Requests, NEW o \in Ops, Arrive(p, o) PROVE OwnRowsOnly'
  BY <1>1 DEF Arrive, Goto, FirstLabel, Authorized, TypeOK, Phases, OwnRowsOnly, Mine, Active,
              locks, Operation, Kinds, SignKinds, WithdrawKinds, NoteKinds
<1>2. ASSUME NEW p \in Requests, NEW r \in Regions, CheckRegion(p, r) PROVE OwnRowsOnly'
  BY <1>2 DEF CheckRegion, Withdrawable, Goto, End, RowsReleasedBy, TypeOK, OwnRowsOnly, Mine,
              locks
<1>3. ASSUME NEW p \in Requests, LoadForSigning(p) PROVE OwnRowsOnly'
  <2>1. \A r \in SignTargets(p) : Mine(p, r)
    BY <1>3, SignTargetsMine DEF LoadForSigning, Active
  <2> QED
    BY <1>3, <2>1 DEF LoadForSigning, Goto, End, RowsReleasedBy, TypeOK, OwnRowsOnly, Mine, locks
<1>4. ASSUME NEW p \in Requests, LoadForRebuild(p) PROVE OwnRowsOnly'
  BY <1>4 DEF LoadForRebuild, Goto, End, RowsReleasedBy, TypeOK, OwnRowsOnly, Mine, locks
<1>5. ASSUME NEW p \in Requests, LoadNotes(p) PROVE OwnRowsOnly'
  BY <1>5 DEF LoadNotes, Goto, TypeOK, OwnRowsOnly, Mine, locks
<1>6. ASSUME NEW p \in Requests, NEW r \in Regions, SelectRegion(p, r) PROVE OwnRowsOnly'
  BY <1>6 DEF SelectRegion, NextAfterMarks, Goto, TypeOK, OwnRowsOnly, Mine, locks
<1>7. ASSUME NEW p \in Requests, UpdateRegion(p) PROVE OwnRowsOnly'
  BY <1>7 DEF UpdateRegion, NextAfterMarks, Goto, TypeOK, OwnRowsOnly, Mine
<1>8. ASSUME NEW p \in Requests, ReadStatus(p) PROVE OwnRowsOnly'
  BY <1>8 DEF ReadStatus, Goto, TypeOK, OwnRowsOnly, Mine, locks
<1>9. ASSUME NEW p \in Requests, ReadRegions(p) PROVE OwnRowsOnly'
  BY <1>9 DEF ReadRegions, Goto, TypeOK, OwnRowsOnly, Mine, locks
<1>10. ASSUME NEW p \in Requests, DefineRegions(p) PROVE OwnRowsOnly'
  BY <1>10 DEF DefineRegions, Goto, TypeOK, OwnRowsOnly, Mine, locks
<1>11. ASSUME NEW p \in Requests, GateSubmit(p) PROVE OwnRowsOnly'
  BY <1>11 DEF GateSubmit, Goto, End, RowsReleasedBy, TypeOK, OwnRowsOnly, Mine, locks
<1>12. ASSUME NEW p \in Requests, WriteNote(p) PROVE OwnRowsOnly'
  BY <1>12 DEF WriteNote, Goto, TypeOK, OwnRowsOnly, Mine, locks
<1>13. ASSUME NEW p \in Requests, WriteLog(p) PROVE OwnRowsOnly'
  BY <1>13 DEF WriteLog, Goto, TypeOK, OwnRowsOnly, Mine, locks
<1>14. ASSUME NEW p \in Requests, LoadFinal(p) PROVE OwnRowsOnly'
  BY <1>14 DEF LoadFinal, Goto, TypeOK, OwnRowsOnly, Mine, locks
<1>15. ASSUME NEW p \in Requests, NEW outcome \in {"done", "failed"}, End(p, outcome)
       PROVE  OwnRowsOnly'
  BY <1>15 DEF End, Goto, RowsReleasedBy, TypeOK, OwnRowsOnly, Mine
<1>16. ASSUME UNCHANGED vars PROVE OwnRowsOnly'
  BY <1>16 DEF vars, OwnRowsOnly, Mine
<1>17. \A p \in Requests :
         /\ Publish(p) \/ SubmitDocument(p) => End(p, "done")
         /\ Abort(p) \/ DeadlockVictim(p) => End(p, "failed")
  BY DEF Publish, SubmitDocument, Abort, DeadlockVictim
<1> QED
  BY <1>1, <1>2, <1>3, <1>4, <1>5, <1>6, <1>7, <1>8, <1>9, <1>10, <1>11, <1>12, <1>13, <1>14,
     <1>15, <1>16, <1>17 DEF Next, Step, AllAnswered

\* Requests hold only rows of their callers, in every reachable state.
LEMMA OwnedInvariant == Spec => []Owned
<1>1. Init => Owned
  <2>1. Init => Typed
    BY InitTyped
  <2> QED
    BY <2>1, NullsAssumption, ConstantsAssumption
       DEF Init, Owned, Held, Phases, OwnRowsOnly, Active, Asks
<1>2. Owned /\ [Next]_vars => Owned'
  BY TypedStep, PhasesStep, OwnRowsStep DEF Owned, Held
<1> QED
  BY <1>1, <1>2, PTL DEF Spec

\* Whoever waits for a row waits for a request of the same signer.
THEOREM OnlySignersWait == Spec => []WaitsStayWithOneSigner
<1>1. Owned => WaitsStayWithOneSigner
  BY DEF Owned, Held, Typed, TypeOK, Phases, OwnRowsOnly, Mine, WaitsStayWithOneSigner
<1> QED
  BY <1>1, OwnedInvariant, PTL

\* A region's row changes only by the commit of a request of its assignee.
THEOREM OnlyAssigneeChanges == Spec => OnlyAssigneeChangesRow
<1> DEFINE ByAssignee == \A r \in Regions : row[r] # row'[r] =>
             \E p \in Requests : /\ pc[p] = "publish" /\ pc'[p] = "done"
                                 /\ op[p].by = Assignee[r]
<1>1. Owned /\ [Next]_vars => ByAssignee
  <2> SUFFICES ASSUME Owned, [Next]_vars PROVE ByAssignee
    OBVIOUS
  <2>1. ASSUME NEW p \in Requests, Publish(p) PROVE ByAssignee
    BY <2>1 DEF Publish, End, Goto, Owned, Held, Typed, TypeOK, OwnRowsOnly, Mine
  <2>2. ASSUME NEW p \in Requests,
               \/ \E o \in Ops : Arrive(p, o)
               \/ \E r \in Regions : CheckRegion(p, r) \/ SelectRegion(p, r)
               \/ LoadForSigning(p) \/ LoadForRebuild(p) \/ LoadNotes(p)
               \/ UpdateRegion(p) \/ ReadStatus(p) \/ ReadRegions(p)
               \/ DefineRegions(p) \/ GateSubmit(p) \/ SubmitDocument(p)
               \/ WriteNote(p) \/ WriteLog(p) \/ LoadFinal(p)
               \/ Abort(p) \/ DeadlockVictim(p)
        PROVE  row' = row
    BY <2>2 DEF Arrive, CheckRegion, SelectRegion, LoadForSigning, LoadForRebuild, LoadNotes,
                UpdateRegion, ReadStatus, ReadRegions, DefineRegions, GateSubmit,
                SubmitDocument, WriteNote, WriteLog, LoadFinal, Abort, DeadlockVictim, database
  <2>3. UNCHANGED vars => row' = row
    BY DEF vars
  <2> QED
    BY <2>1, <2>2, <2>3 DEF Next, Step, AllAnswered
<1> QED
  BY <1>1, OwnedInvariant, PTL DEF Spec, OnlyAssigneeChangesRow

-----------------------------------------------------------------------------
(* Where the images come from *)

Accounted == Owned /\ ImagesAccountedFor

\* A request keeps its operation, and the audit log only grows.
LEMMA OperationsKept ==
  ASSUME Typed, [Next]_vars
  PROVE  /\ \A q \in Requests : op[q] # NoOp => op'[q] = op[q]
         /\ logged \subseteq logged'
<1> DEFINE Kept == /\ \A q \in Requests : op[q] # NoOp => op'[q] = op[q]
                   /\ logged \subseteq logged'
<1>1. ASSUME NEW p \in Requests, NEW o \in Ops, Arrive(p, o) PROVE Kept
  BY <1>1 DEF Arrive, Typed, TypeOK, OpsAdmitted, database
<1>2. ASSUME NEW p \in Requests, Step(p) \/ Abort(p) \/ DeadlockVictim(p)
      PROVE  op' = op /\ logged \subseteq logged'
  BY <1>2 DEF Step, CheckRegion, LoadForSigning, LoadForRebuild, LoadNotes, SelectRegion,
              UpdateRegion, ReadStatus, ReadRegions, Publish, DefineRegions, GateSubmit,
              SubmitDocument, WriteNote, WriteLog, LoadFinal, Abort, DeadlockVictim, End,
              database
<1>3. UNCHANGED vars => Kept
  BY DEF vars
<1> QED
  BY <1>1, <1>2, <1>3 DEF Next, AllAnswered

\* The images that p's SELECT of the regions returns are p's or committed.
LEMMA AppliedAccounted ==
  ASSUME Accounted, NEW p \in Requests, NEW r \in Regions
  PROVE  Provenance(Applied(View(p))[r], r, p)
  BY NullsAssumption, ConstantsAssumption
     DEF Accounted, ImagesAccountedFor, Applied, View, Provenance, SignedByAssignee

\* Every image, in a committed or an uncommitted row, in the published PDF or
\* in one being rendered, comes from a signing request of the assignee.
LEMMA ImagesStep == Accounted /\ [Next]_vars => ImagesAccountedFor'
<1> SUFFICES ASSUME Accounted, [Next]_vars PROVE ImagesAccountedFor'
  OBVIOUS
<1> USE NullsAssumption, ConstantsAssumption DEF Accounted, Owned, Held, Typed
<1>0. /\ \A q \in Requests : op[q] # NoOp => op'[q] = op[q]
      /\ logged \subseteq logged'
  BY OperationsKept
<1> DEFINE Committed(r) == /\ Provenance(row[r].image, r, NoRequest)
                           /\ final # NoPdf => Provenance(final.stamps[r], r, NoRequest)
           Uncommitted(r) == Provenance(dirty[r].image, r, holder[r])
           Drawn(q, r)    == Provenance(pdf[q].stamps[r], r, q)
<1>a. (\A r \in Regions : Committed(r)' /\ Uncommitted(r)' /\ \A q \in Requests : Drawn(q, r)')
        => ImagesAccountedFor'
  BY DEF ImagesAccountedFor
<1>b. ASSUME UNCHANGED <<row, final>>, NEW r \in Regions PROVE Committed(r)'
  BY <1>b, <1>0 DEF ImagesAccountedFor, Provenance, SignedByAssignee
<1>c. ASSUME UNCHANGED <<dirty, holder>>, NEW r \in Regions PROVE Uncommitted(r)'
  BY <1>c, <1>0 DEF ImagesAccountedFor, Provenance, SignedByAssignee
<1>d. ASSUME NEW q \in Requests, UNCHANGED pdf[q], NEW r \in Regions PROVE Drawn(q, r)'
  BY <1>d, <1>0 DEF ImagesAccountedFor, Provenance, SignedByAssignee
<1>e. ASSUME NEW p \in Requests, NEW outcome, End(p, outcome), NEW r \in Regions
      PROVE  Uncommitted(r)' /\ \A q \in Requests : Drawn(q, r)'
  <2>1. dirty'[r].image = NoImage \/ (dirty'[r] = dirty[r] /\ holder'[r] = holder[r])
    BY <1>e DEF End, RowsReleasedBy, TypeOK, Blank
  <2>2. \A q \in Requests : pdf'[q].stamps[r] \in {pdf[q].stamps[r], NoImage}
    BY <1>e DEF End, TypeOK, BlankPdf
  <2>3. Uncommitted(r)'
    BY <2>1, <1>0 DEF ImagesAccountedFor, Provenance, SignedByAssignee
  <2>4. ASSUME NEW q \in Requests PROVE Drawn(q, r)'
    BY <2>2, <1>0 DEF ImagesAccountedFor, Provenance, SignedByAssignee
  <2> QED
    BY <2>3, <2>4
<1>1. ASSUME UNCHANGED <<row, final, dirty, holder, pdf>> PROVE ImagesAccountedFor'
  BY <1>1, <1>a, <1>b, <1>c, <1>d
<1>2. ASSUME NEW p \in Requests, NEW outcome, End(p, outcome), UNCHANGED <<row, final>>
      PROVE  ImagesAccountedFor'
  BY <1>2, <1>a, <1>b, <1>e
<1>3. ASSUME NEW p \in Requests, UNCHANGED <<row, final, dirty, holder>>,
             NEW stamps, NEW drawn,
             pdf' = [pdf EXCEPT ![p] = [stamps |-> stamps, notes |-> drawn]],
             \A r \in Regions : Provenance(stamps[r], r, p)
      PROVE  ImagesAccountedFor'
  <2>1. ASSUME NEW r \in Regions, NEW q \in Requests PROVE Drawn(q, r)'
    <3>1. CASE q = p
      BY <3>1, <1>3, <1>0 DEF Provenance, SignedByAssignee, TypeOK
    <3>2. CASE q # p
      BY <3>2, <1>3, <1>d DEF TypeOK
    <3> QED
      BY <3>1, <3>2
  <2> QED
    BY <1>3, <2>1, <1>a, <1>b, <1>c
<1>4. ASSUME NEW p \in Requests, LoadForSigning(p), ~End(p, "failed")
      PROVE  ImagesAccountedFor'
  <2>1. \A r \in SignTargets(p) : SignedByAssignee(p, r)
    BY <1>4, SignTargetsMine DEF LoadForSigning, Active, SignedByAssignee, Mine, OpsAdmitted
  <2>2. \A r \in Regions : Provenance(StampsWithTargets(p)[r], r, p)
    BY <2>1, AppliedAccounted DEF StampsWithTargets, Provenance
  <2>3. /\ UNCHANGED <<row, final, dirty, holder>>
        /\ pdf' = [pdf EXCEPT ![p] = [stamps |-> StampsWithTargets(p), notes |-> {}]]
    BY <1>4 DEF LoadForSigning, database, locks
  <2> QED
    BY <1>3, <2>2, <2>3
<1>5. ASSUME NEW p \in Requests, LoadForRebuild(p), ~End(p, "done")
      PROVE  ImagesAccountedFor'
  <2>1. /\ UNCHANGED <<row, final, dirty, holder>>
        /\ pdf' = [pdf EXCEPT ![p] = [stamps |-> Applied(View(p)), notes |-> {}]]
    BY <1>5 DEF LoadForRebuild, database, locks
  <2> QED
    BY <1>3, <2>1, AppliedAccounted
<1>6. ASSUME NEW p \in Requests, LoadNotes(p) PROVE ImagesAccountedFor'
  <2>1. /\ UNCHANGED <<row, final, dirty, holder>>
        /\ pdf' = [pdf EXCEPT ![p] = [stamps |-> pdf[p].stamps, notes |-> notes]]
    BY <1>6 DEF LoadNotes, database, locks
  <2>2. \A r \in Regions : Provenance(pdf[p].stamps[r], r, p)
    BY DEF ImagesAccountedFor
  <2> QED
    BY <1>3, <2>1, <2>2
<1>7. ASSUME NEW p \in Requests, UpdateRegion(p) PROVE ImagesAccountedFor'
  <2> DEFINE w == want[p]
             target == Flushed(row[w], loaded[p], MarkTarget(p))
  <2>1. w \in Regions /\ Mine(p, w) /\ Asks(p, SignKinds \cup WithdrawKinds)
    BY <1>7 DEF UpdateRegion, TypeOK, Phases, OwnRowsOnly
  <2>2. target.image \in {row[w].image, NoImage} \/ (target.image = p /\ op[p].kind \in SignKinds)
    BY DEF Flushed, MarkTarget, Blank
  <2>3. Provenance(target.image, w, p)
    BY <2>1, <2>2 DEF Provenance, ImagesAccountedFor, SignedByAssignee, Mine, Asks
  <2>4. /\ UNCHANGED <<row, final, pdf>>
        /\ holder' = [holder EXCEPT ![w] = p] /\ dirty' = [dirty EXCEPT ![w] = target]
    BY <1>7 DEF UpdateRegion, database
  <2> QED
    BY <2>1, <2>3, <2>4, <1>0
       DEF ImagesAccountedFor, Provenance, SignedByAssignee, TypeOK
<1>8. ASSUME NEW p \in Requests, Publish(p) PROVE ImagesAccountedFor'
  <2>1. /\ row' = [r \in Regions |-> IF holder[r] = p THEN dirty[r] ELSE row[r]]
        /\ final' = pdf[p] /\ p \in logged'
    BY <1>8 DEF Publish
  <2>2. ASSUME NEW r \in Regions PROVE Committed(r)'
    BY <2>1, <1>0 DEF ImagesAccountedFor, Provenance, SignedByAssignee
  <2> QED
    BY <1>8, <2>2, <1>a, <1>e DEF Publish
<1>9. ASSUME NEW p \in Requests,
             \/ \E o \in Ops : Arrive(p, o)
             \/ \E r \in Regions : SelectRegion(p, r)
             \/ ReadStatus(p) \/ ReadRegions(p) \/ DefineRegions(p)
             \/ WriteNote(p) \/ WriteLog(p) \/ LoadFinal(p)
      PROVE  UNCHANGED <<row, final, dirty, holder, pdf>>
  BY <1>9 DEF Arrive, SelectRegion, ReadStatus, ReadRegions, DefineRegions, WriteNote, WriteLog,
              LoadFinal, database, locks
<1>10. ASSUME NEW p \in Requests,
              (\E r \in Regions : CheckRegion(p, r)) \/ GateSubmit(p) \/ SubmitDocument(p)
                \/ Abort(p) \/ DeadlockVictim(p)
       PROVE  /\ UNCHANGED <<row, final>>
              /\ UNCHANGED <<dirty, holder, pdf>> \/ \E outcome \in Labels : End(p, outcome)
  BY <1>10 DEF CheckRegion, GateSubmit, SubmitDocument, Abort, DeadlockVictim, database, locks,
               Labels
<1>11. \A p \in Requests : LoadForSigning(p) \/ LoadForRebuild(p) => UNCHANGED <<row, final>>
  BY DEF LoadForSigning, LoadForRebuild, database
<1>12. UNCHANGED vars => UNCHANGED <<row, final, dirty, holder, pdf>>
  BY DEF vars
<1> QED
  BY <1>1, <1>2, <1>4, <1>5, <1>6, <1>7, <1>8, <1>9, <1>10, <1>11, <1>12
     DEF Next, Step, AllAnswered

\* Every image is somebody's work, in every reachable state.
LEMMA AccountedInvariant == Spec => []Accounted
<1>1. Init => ImagesAccountedFor
  BY DEF Init, ImagesAccountedFor, Provenance, Blank, BlankPdf
<1>2. Accounted /\ [Next]_vars /\ Owned' => Accounted'
  BY ImagesStep DEF Accounted
<1>3. Owned /\ ImagesAccountedFor => Accounted
  BY DEF Accounted
<1> QED
  BY <1>1, <1>2, <1>3, OwnedInvariant, PTL DEF Spec

\* Every recorded image and every stamp on file is the assignee's.
THEOREM Authenticity == Spec => []Authentic
<1>1. Accounted => Authentic
  BY DEF Accounted, ImagesAccountedFor, Provenance, Authentic
<1> QED
  BY <1>1, AccountedInvariant, PTL

\* Every recorded image and every stamp on file was committed and logged.
THEOREM NoPhantoms == Spec => []NoPhantomSignature
<1>1. Accounted => NoPhantomSignature
  BY ConstantsAssumption
     DEF Accounted, ImagesAccountedFor, Provenance, SignedByAssignee, NoPhantomSignature
<1> QED
  BY <1>1, AccountedInvariant, PTL

-----------------------------------------------------------------------------
(* What a commit shows *)

Shown == Accounted /\ LoggedLast /\ MarksShow

\* A request enters the audit log once it has arrived, a signing request when
\* it commits.
LEMMA LoggedStep == Shown /\ [Next]_vars => LoggedLast'
<1> SUFFICES ASSUME Shown, [Next]_vars PROVE LoggedLast'
  OBVIOUS
<1> USE DEF Shown, Accounted, Owned, Held, Typed
<1>1. ASSUME NEW p \in Requests, NEW o \in Ops, Arrive(p, o) PROVE LoggedLast'
  <2>1. logged' = logged /\ p \notin logged
    BY <1>1 DEF Arrive, LoggedLast, database
  <2>2. \A q \in Requests \ {p} : pc'[q] = pc[q] /\ op'[q] = op[q]
    BY <1>1 DEF Arrive, Goto, TypeOK
  <2> QED
    BY <2>1, <2>2 DEF LoggedLast, Asks, TypeOK
<1>2. ASSUME NEW p \in Requests, NEW label \in Labels \ {"idle"}, Goto(p, label), pc[p] # "done",
             op' = op, logged' = logged
      PROVE  LoggedLast'
  <2>1. \A q \in logged : Asks(q, SignKinds)' => Asks(q, SignKinds)
    BY <1>2 DEF Asks
  <2> QED
    BY <1>2, <2>1 DEF LoggedLast, Goto, TypeOK, Asks
<1>3. ASSUME NEW p \in Requests, NEW label \in Labels \ {"idle"}, Goto(p, label), op' = op,
             logged' = logged \cup {p}, label = "done" \/ ~Asks(p, SignKinds)
      PROVE  LoggedLast'
  BY <1>3 DEF LoggedLast, Goto, TypeOK, Asks
<1>4. ASSUME UNCHANGED <<pc, op, logged>> PROVE LoggedLast'
  BY <1>4 DEF LoggedLast, Asks
<1>5. ASSUME NEW p \in Requests, Publish(p) \/ SubmitDocument(p) PROVE LoggedLast'
  <2>1. Goto(p, "done") /\ op' = op /\ logged' = logged \cup {p}
    BY <1>5 DEF Publish, SubmitDocument, End
  <2> QED
    BY <1>3, <2>1 DEF Labels
<1>6. ASSUME NEW p \in Requests, WriteLog(p) PROVE LoggedLast'
  <2>1. ~Asks(p, SignKinds)
    BY <1>6 DEF WriteLog, Phases, Asks, SignKinds, NoteKinds
  <2>2. \E label \in {"done", "loadFinal"} :
          Goto(p, label) /\ op' = op /\ logged' = logged \cup {p}
    BY <1>6 DEF WriteLog
  <2> QED
    BY <1>3, <2>1, <2>2 DEF Labels
<1>7. ASSUME NEW p \in Requests,
             \/ \E r \in Regions : CheckRegion(p, r) \/ SelectRegion(p, r)
             \/ LoadForSigning(p) \/ LoadForRebuild(p) \/ LoadNotes(p)
             \/ UpdateRegion(p) \/ ReadStatus(p) \/ ReadRegions(p)
             \/ DefineRegions(p) \/ GateSubmit(p)
             \/ WriteNote(p) \/ LoadFinal(p)
             \/ Abort(p) \/ DeadlockVictim(p)
      PROVE  \/ UNCHANGED <<pc, op, logged>>
             \/ /\ pc[p] # "done" /\ op' = op /\ logged' = logged
                /\ \E label \in Labels \ {"idle"} : Goto(p, label)
  BY <1>7 DEF CheckRegion, SelectRegion, LoadForSigning, LoadForRebuild, LoadNotes,
              UpdateRegion, NextAfterMarks, ReadStatus, ReadRegions, DefineRegions, GateSubmit,
              WriteNote, LoadFinal, Abort, DeadlockVictim, InDeadlock, Active, End, database,
              Labels
<1>8. UNCHANGED vars => UNCHANGED <<pc, op, logged>>
  BY DEF vars
<1> QED
  BY <1>1, <1>2, <1>4, <1>5, <1>6, <1>7, <1>8 DEF Next, Step, AllAnswered

\* Blanking a row that was not blank when it was loaded leaves it unsigned or
\* without an image, whatever was committed to it since.
LEMMA BlankedRowIsUnsigned ==
  ASSUME NEW current \in Row, NEW old \in Row, old # Blank
  PROVE  \/ ~Flushed(current, old, Blank).signed
         \/ Flushed(current, old, Blank).image = NoImage
<1>1. CASE old.signed
  BY <1>1 DEF Flushed, Blank
<1>2. CASE ~old.signed /\ old.image # NoImage
  BY <1>2 DEF Flushed, Blank
<1>3. CASE ~old.signed /\ old.image = NoImage
  <2>1. old.signed = FALSE
    BY <1>3 DEF Row
  <2>2. old = [signed |-> FALSE, image |-> NoImage]
    BY <1>3, <2>1 DEF Row
  <2> QED
    BY <2>2 DEF Blank
<1> QED
  BY <1>1, <1>2, <1>3

\* What a request marks shows in the PDF it renders: a signing request stamps
\* its image on its targets before it marks them, and a withdrawal renders
\* after its marks, from rows that it has blanked.
LEMMA MarksStep == Shown /\ [Next]_vars => MarksShow'
<1> SUFFICES ASSUME Shown, [Next]_vars PROVE MarksShow'
  OBVIOUS
<1> USE NullsAssumption, ConstantsAssumption DEF Shown, Accounted, Owned, Held, Typed
<1>a. ASSUME NEW p \in Requests,
             \A q \in Requests \ {p} :
               UNCHANGED <<pc[q], op[q], todo[q], want[q], loaded[q], pdf[q]>>,
             \A r \in Regions :
               UNCHANGED <<holder[r], dirty[r]>>
                 \/ (holder[r] \in {p, NoRequest} /\ holder'[r] \in {p, NoRequest}),
             LoadedToChange(p)',
             \A r \in Regions : SignerShows(p, r)' /\ WithdrawerShows(p, r)'
      PROVE  MarksShow'
  <2>1. ASSUME NEW q \in Requests \ {p} PROVE LoadedToChange(q)'
    BY <1>a, <2>1 DEF MarksShow, LoadedToChange, Asks
  <2>2. ASSUME NEW q \in Requests \ {p}, NEW r \in Regions
        PROVE  SignerShows(q, r)' /\ WithdrawerShows(q, r)'
    BY <1>a, <2>2 DEF MarksShow, SignerShows, WithdrawerShows, Applied, Asks
  <2> QED
    BY <1>a, <2>1, <2>2 DEF MarksShow
<1>1. ASSUME NEW p \in Requests, NEW o \in Ops, Arrive(p, o) PROVE MarksShow'
  BY <1>1, <1>a DEF Arrive, Goto, FirstLabel, TypeOK, Phases, MarksShow, SignerShows, WithdrawerShows,
              LoadedToChange, Applied, Active, Asks, locks,
              SignKinds, WithdrawKinds, NoteKinds, Kinds
<1>2. ASSUME NEW p \in Requests, NEW r \in Regions, CheckRegion(p, r) PROVE MarksShow'
  BY <1>2, <1>a DEF CheckRegion, Goto, End, RowsReleasedBy, TypeOK, Phases, MarksShow, SignerShows,
              WithdrawerShows, LoadedToChange, Applied, Active, Asks, locks, SignKinds, WithdrawKinds
<1>3. ASSUME NEW p \in Requests, LoadForSigning(p) PROVE MarksShow'
  BY <1>3, <1>a DEF LoadForSigning, StampsWithTargets, Goto, End, RowsReleasedBy, TypeOK, Phases,
              MarksShow, SignerShows, WithdrawerShows, LoadedToChange, Applied, Asks, locks,
              SignKinds, WithdrawKinds
<1>4. ASSUME NEW p \in Requests, LoadForRebuild(p) PROVE MarksShow'
  BY <1>4, <1>a DEF LoadForRebuild, View, Goto, End, RowsReleasedBy, TypeOK, Phases,
              MarksShow, SignerShows, WithdrawerShows, LoadedToChange, Applied, Asks, locks,
              SignKinds, WithdrawKinds, NoteKinds
<1>5. ASSUME NEW p \in Requests, LoadNotes(p) PROVE MarksShow'
  BY <1>5, <1>a DEF LoadNotes, Goto, TypeOK, MarksShow, SignerShows, WithdrawerShows, LoadedToChange,
              Applied, Asks, locks, SignKinds, WithdrawKinds, Pdf
<1>6. ASSUME NEW p \in Requests, NEW r \in Regions, SelectRegion(p, r) PROVE MarksShow'
  <2>1. row[r].image # p
    BY <1>6 DEF SelectRegion, ImagesAccountedFor, Provenance, SignedByAssignee, LoggedLast, Asks
  <2> QED
    BY <1>6, <1>a, <2>1 DEF SelectRegion, NextAfterMarks, Goto, TypeOK, Phases, MarksShow, SignerShows,
              WithdrawerShows, LoadedToChange, Applied, Asks, locks, SignKinds, WithdrawKinds
<1>7. ASSUME NEW p \in Requests, UpdateRegion(p) PROVE MarksShow'
  <2> DEFINE w == want[p]
             target == Flushed(row[w], loaded[p], MarkTarget(p))
  <2>1. /\ w \in Regions /\ holder[w] = NoRequest /\ op' = op /\ pdf' = pdf
        /\ holder' = [holder EXCEPT ![w] = p] /\ dirty' = [dirty EXCEPT ![w] = target]
        /\ want' = [want EXCEPT ![p] = NoRegion] /\ todo' = todo
        /\ loaded' = [loaded EXCEPT ![p] = Blank]
        /\ Goto(p, IF todo[p] = {} THEN NextAfterMarks(p) ELSE "select")
    BY <1>7 DEF UpdateRegion, TypeOK, Phases
  <2>2. op[p].kind \in SignKinds => target.image = p
    BY <1>7 DEF UpdateRegion, MarksShow, LoadedToChange, Flushed, MarkTarget
  <2>3. op[p].kind \in WithdrawKinds => ~target.signed \/ target.image = NoImage
    <3>1. op[p].kind \in WithdrawKinds => loaded[p] # Blank /\ MarkTarget(p) = Blank
      BY <1>7 DEF UpdateRegion, MarksShow, LoadedToChange, Asks, Phases, MarkTarget,
                  SignKinds, WithdrawKinds
    <3>2. loaded[p] \in Row /\ row[w] \in Row
      BY <2>1 DEF TypeOK
    <3> QED
      BY <3>1, <3>2, BlankedRowIsUnsigned
  <2>4. pc'[p] \notin {"update", "loadNotes", "publish"}
          /\ (pc'[p] = "readStatus" => op[p].kind \in SignKinds)
    BY <2>1 DEF Goto, NextAfterMarks, TypeOK
  <2>5. ASSUME NEW r \in Regions PROVE SignerShows(p, r)'
    BY <1>7, <2>1, <2>2 DEF SignerShows, MarksShow, TypeOK, Asks
  <2>6. ASSUME NEW r \in Regions PROVE WithdrawerShows(p, r)'
    <3>1. CASE r = w
      BY <2>1, <2>3, <2>4, <3>1, <1>7
         DEF UpdateRegion, WithdrawerShows, MarksShow, TypeOK, Asks, Applied, Goto,
             NextAfterMarks, SignKinds, WithdrawKinds
    <3>2. CASE r # w
      BY <2>1, <2>4, <3>2, <1>7
         DEF UpdateRegion, WithdrawerShows, MarksShow, TypeOK, Asks, Applied, Goto,
             NextAfterMarks, SignKinds, WithdrawKinds
    <3> QED
      BY <3>1, <3>2
  <2>7. LoadedToChange(p)'
    BY <2>4 DEF LoadedToChange
  <2> QED
    BY <2>1, <2>5, <2>6, <2>7, <1>a DEF Goto, TypeOK
<1>8. ASSUME NEW p \in Requests, ReadStatus(p) \/ ReadRegions(p) \/ DefineRegions(p)
                                  \/ WriteNote(p) \/ WriteLog(p) \/ LoadFinal(p)
      PROVE MarksShow'
  BY <1>8, <1>a DEF ReadStatus, ReadRegions, DefineRegions, WriteNote, WriteLog, LoadFinal, Goto,
              TypeOK, MarksShow, SignerShows, WithdrawerShows, LoadedToChange, Applied, Asks, locks
<1>9. ASSUME NEW p \in Requests, NEW outcome \in {"done", "failed"}, End(p, outcome)
      PROVE  MarksShow'
  BY <1>9, <1>a DEF End, Goto, RowsReleasedBy, TypeOK, MarksShow, SignerShows, WithdrawerShows,
              LoadedToChange, Applied, Asks
<1>10. ASSUME NEW p \in Requests, GateSubmit(p), ~End(p, "failed") PROVE MarksShow'
  BY <1>10, <1>a DEF GateSubmit, Goto, TypeOK, MarksShow, SignerShows, WithdrawerShows, LoadedToChange,
              Applied, Asks, locks
<1>11. ASSUME UNCHANGED vars PROVE MarksShow'
  BY <1>11 DEF vars, MarksShow, SignerShows, WithdrawerShows, LoadedToChange, Applied, Asks
<1>12. \A p \in Requests :
         /\ Publish(p) \/ SubmitDocument(p) => End(p, "done")
         /\ Abort(p) \/ DeadlockVictim(p) => End(p, "failed")
  BY DEF Publish, SubmitDocument, Abort, DeadlockVictim
<1> QED
  BY <1>1, <1>2, <1>3, <1>4, <1>5, <1>6, <1>7, <1>8, <1>9, <1>10, <1>11, <1>12
     DEF Next, Step, AllAnswered

\* What a request logs and marks its PDF shows, in every reachable state.
LEMMA ShownInvariant == Spec => []Shown
<1>1. Init => LoggedLast /\ MarksShow
  BY NullsAssumption, ConstantsAssumption
     DEF Init, LoggedLast, MarksShow, LoadedToChange, SignerShows, WithdrawerShows, Asks
<1>2. Shown /\ [Next]_vars /\ Accounted' => Shown'
  BY LoggedStep, MarksStep DEF Shown
<1>3. Accounted /\ LoggedLast /\ MarksShow => Shown
  BY DEF Shown
<1> QED
  BY <1>1, <1>2, <1>3, AccountedInvariant, PTL DEF Spec

\* A request that moves from publish to done does so by its commit.
LEMMA DoneByCommit ==
  ASSUME Typed, [Next]_vars, NEW p \in Requests, pc[p] = "publish", pc'[p] = "done"
  PROVE  Publish(p)
<1>1. ASSUME NEW q \in Requests, NEW label, Goto(q, label), q # p PROVE FALSE
  BY <1>1 DEF Goto, Typed, TypeOK
<1>2. ASSUME NEW q \in Requests,
             (\E o \in Ops : Arrive(q, o)) \/ Step(q) \/ Abort(q) \/ DeadlockVictim(q)
      PROVE  pc' = pc \/ \E label : Goto(q, label)
  BY <1>2 DEF Arrive, Step, CheckRegion, LoadForSigning, LoadForRebuild, LoadNotes,
              SelectRegion, UpdateRegion, ReadStatus, ReadRegions, Publish, DefineRegions,
              GateSubmit, SubmitDocument, WriteNote, WriteLog, LoadFinal, Abort,
              DeadlockVictim, End
<1>3. (\E o \in Ops : Arrive(p, o)) \/ Step(p) \/ Abort(p) \/ DeadlockVictim(p) => Publish(p)
  BY DEF Arrive, Step, CheckRegion, LoadForSigning, LoadForRebuild, LoadNotes,
         SelectRegion, UpdateRegion, ReadStatus, ReadRegions, DefineRegions,
         GateSubmit, SubmitDocument, WriteNote, WriteLog, LoadFinal, Abort,
         DeadlockVictim, InDeadlock, End, Goto, Typed, TypeOK
<1>4. pc' # pc
  OBVIOUS
<1> QED
  BY <1>1, <1>2, <1>3, <1>4 DEF Next, AllAnswered, vars

\* The commit of a signing request shows its image on every region it signed.
THEOREM SigningShows == Spec => SigningShowsOnFile
<1> DEFINE Shows ==
      \A p \in Requests :
        pc[p] = "publish" /\ pc'[p] = "done" /\ op[p].kind \in SignKinds =>
          \A r \in Regions : holder[r] = p => row'[r].image = p /\ final'.stamps[r] = p
<1>1. Shown /\ [Next]_vars => Shows
  <2> SUFFICES ASSUME Shown, [Next]_vars,
                      NEW p \in Requests, pc[p] = "publish", pc'[p] = "done",
                      op[p].kind \in SignKinds,
                      NEW r \in Regions, holder[r] = p
               PROVE  row'[r].image = p /\ final'.stamps[r] = p
    OBVIOUS
  <2>1. Publish(p)
    BY DoneByCommit DEF Shown, Accounted, Owned, Held
  <2>2. pdf[p].stamps[r] = p /\ dirty[r].image = p
    BY DEF Shown, MarksShow, SignerShows, Accounted, Owned, Held, Phases, Asks
  <2> QED
    BY <2>1, <2>2 DEF Publish
<1> QED
  BY <1>1, ShownInvariant, PTL DEF Spec, SigningShowsOnFile

\* The commit of an unsign or a discard publishes a PDF with no stamp on the
\* regions it withdrew.
THEOREM WithdrawalShows == Spec => WithdrawalShowsOnFile
<1> DEFINE Shows ==
      \A p \in Requests :
        pc[p] = "publish" /\ pc'[p] = "done" /\ op[p].kind \in WithdrawKinds =>
          \A r \in Regions : holder[r] = p => final'.stamps[r] = NoImage
<1>1. Shown /\ [Next]_vars => Shows
  <2> SUFFICES ASSUME Shown, [Next]_vars,
                      NEW p \in Requests, pc[p] = "publish", pc'[p] = "done",
                      op[p].kind \in WithdrawKinds,
                      NEW r \in Regions, holder[r] = p
               PROVE  final'.stamps[r] = NoImage
    OBVIOUS
  <2>1. Publish(p)
    BY DoneByCommit DEF Shown, Accounted, Owned, Held
  <2>2. pdf[p].stamps[r] = NoImage
    BY DEF Shown, MarksShow, WithdrawerShows, Accounted, Owned, Held, Phases, Asks
  <2> QED
    BY <2>1, <2>2 DEF Publish
<1> QED
  BY <1>1, ShownInvariant, PTL DEF Spec, WithdrawalShowsOnFile

-----------------------------------------------------------------------------
(* What the status says *)

Backed == Held /\ RegionsExist /\ DraftIffNoRegions /\ SignedHasPdf /\ CompletedHasPdf

\* The status computed for a document with regions is not Draft, and Completed
\* or Partially Signed only if one is signed.
LEMMA RecomputedRight ==
  ASSUME NEW total, NEW signed
  PROVE  /\ total # {} => RecomputedStatus(total, signed) # "Draft"
         /\ total = {} /\ signed = {} => RecomputedStatus(total, signed) = "Draft"
         /\ signed = {} => RecomputedStatus(total, signed) \in {"Draft", "Pending"}
         /\ total = {} /\ signed = {} => RecomputedStatus(total, signed) # "Pending"
<1>1. CASE total = {} /\ signed = {}
  BY <1>1 DEF RecomputedStatus
<1>2. CASE total # {} /\ signed = {}
  BY <1>2 DEF RecomputedStatus
<1>3. CASE total # {} /\ signed # {}
  BY <1>3 DEF RecomputedStatus
<1> QED
  BY <1>1, <1>2, <1>3

\* Rows are locked and written, and requests work, on regions that exist.
LEMMA RegionsStep == Backed /\ [Next]_vars => RegionsExist'
<1> SUFFICES ASSUME Backed, [Next]_vars PROVE RegionsExist'
  OBVIOUS
<1> USE NullsAssumption, ConstantsAssumption DEF Backed, Held, Typed
<1>a. ASSUME NEW p \in Requests, regions \subseteq regions', RowsExist', WorksOnRegions(p)',
             \A q \in Requests \ {p} :
               UNCHANGED <<pc[q], op[q], todo[q], picked[q], want[q], verdict[q]>>
      PROVE  RegionsExist'
  <2>1. ASSUME NEW q \in Requests \ {p} PROVE WorksOnRegions(q)'
    BY <1>a, <2>1 DEF RegionsExist, WorksOnRegions, Active, Asks
  <2> QED
    BY <1>a, <2>1 DEF RegionsExist
<1>b. ASSUME regions \subseteq regions', UNCHANGED <<row, holder>> PROVE RowsExist'
  BY <1>b DEF RegionsExist, RowsExist
<1>c. ASSUME NEW p \in Requests, NEW outcome \in {"done", "failed"}, End(p, outcome),
             UNCHANGED <<regions, row>>
      PROVE  RegionsExist'
  <2>1. RowsExist'
    BY <1>c DEF End, RowsReleasedBy, TypeOK, RegionsExist, RowsExist
  <2>2. WorksOnRegions(p)'
    BY <1>c DEF End, Goto, TypeOK, WorksOnRegions, Active, Statuses
  <2>3. \A q \in Requests \ {p} :
          UNCHANGED <<pc[q], op[q], todo[q], picked[q], want[q], verdict[q]>>
    BY <1>c DEF End, Goto, TypeOK
  <2> QED
    BY <1>c, <2>1, <2>2, <2>3, <1>a
<1>1. ASSUME NEW p \in Requests, NEW o \in Ops, Arrive(p, o) PROVE RegionsExist'
  <2>1. o.kind = "unsign" => o.targets # {}
    OBVIOUS
  <2>2. WorksOnRegions(p)'
    BY <1>1, <2>1 DEF Arrive, Goto, FirstLabel, Plausible, TypeOK, OpsAdmitted, Phases, RegionsExist,
                WorksOnRegions, Active, Asks, locks, database, SignKinds, WithdrawKinds,
                NoteKinds, Kinds, Operation
  <2> QED
    BY <1>1, <2>2, <1>a, <1>b DEF Arrive, Goto, TypeOK, locks, database
<1>2. ASSUME NEW p \in Requests, NEW r \in Regions, CheckRegion(p, r) PROVE RegionsExist'
  BY <1>2, <1>a DEF CheckRegion, Goto, End, RowsReleasedBy, TypeOK, Phases, RegionsExist, RowsExist,
              WorksOnRegions, Active, Asks, locks, database, WithdrawKinds
<1>3. ASSUME NEW p \in Requests, LoadForSigning(p) PROVE RegionsExist'
  <2>1. SignTargets(p) \subseteq regions
    BY <1>3 DEF LoadForSigning, SignTargets, RegionsExist, WorksOnRegions, Active, Asks, OpsAdmitted
  <2>2. CASE End(p, "failed")
    BY <1>3, <2>2, <1>c DEF LoadForSigning, database
  <2>3. CASE ~End(p, "failed")
    BY <1>3, <2>1, <2>3, <1>a, <1>b
       DEF LoadForSigning, Goto, TypeOK, Phases, RegionsExist, WorksOnRegions, Active, Asks,
           locks, database, SignKinds
  <2> QED
    BY <2>2, <2>3
<1>4. ASSUME NEW p \in Requests, LoadForRebuild(p) PROVE RegionsExist'
  <2>1. Applied(View(p)) # BlankPdf.stamps => regions # {}
    BY DEF Applied, View, BlankPdf, TypeOK, Phases, RegionsExist, RowsExist, Blank
  <2>2. op[p].kind \in WithdrawKinds => regions # {}
    BY <1>4 DEF LoadForRebuild, RegionsExist, WorksOnRegions, Active, Asks, OpsAdmitted
  <2>3. CASE End(p, "done")
    BY <1>4, <2>3, <1>c DEF LoadForRebuild, database
  <2>4. CASE ~End(p, "done")
    BY <1>4, <2>1, <2>2, <2>4, <1>a, <1>b
       DEF LoadForRebuild, Goto, TypeOK, RegionsExist, WorksOnRegions, Active, Asks, locks,
           database
  <2> QED
    BY <2>3, <2>4
<1>5. ASSUME NEW p \in Requests, LoadNotes(p) \/ ReadStatus(p) PROVE RegionsExist'
  BY <1>5, <1>a, <1>b
     DEF LoadNotes, ReadStatus, Goto, TypeOK, RegionsExist, WorksOnRegions, DraftIffNoRegions,
         Active, Asks, locks, database
<1>6. ASSUME NEW p \in Requests, NEW r \in Regions, SelectRegion(p, r) PROVE RegionsExist'
  BY <1>6, <1>a, <1>b
     DEF SelectRegion, NextAfterMarks, Goto, TypeOK, RegionsExist, WorksOnRegions, Active, Asks,
         Phases, locks, database, SignKinds, WithdrawKinds
<1>7. ASSUME NEW p \in Requests, UpdateRegion(p) PROVE RegionsExist'
  BY <1>7, <1>a
     DEF UpdateRegion, NextAfterMarks, Goto, TypeOK, Phases, RegionsExist, RowsExist,
         WorksOnRegions, Active, Asks, database, SignKinds, WithdrawKinds
<1>8. ASSUME NEW p \in Requests, ReadRegions(p) PROVE RegionsExist'
  <2> DEFINE new == RecomputedStatus(regions, {r \in regions : View(p)[r].signed})
  <2>1. /\ new = "Pending" => regions # {}
        /\ regions # {} => new # "Draft"
    BY RecomputedRight
  <2>2. verdict'[p] \in {new, NoStatus}
    BY <1>8 DEF ReadRegions, TypeOK
  <2>3. /\ pc[p] = "readRegions" /\ pc' = [pc EXCEPT ![p] = "publish"]
        /\ verdict' = [verdict EXCEPT ![p] = verdict'[p]]
        /\ UNCHANGED <<regions, row, holder, op, todo, picked, want>>
    BY <1>8 DEF ReadRegions, Goto, database, locks, TypeOK
  <2>4. WorksOnRegions(p)
    BY DEF RegionsExist
  <2> HIDE DEF new
  <2>5. WorksOnRegions(p)'
    BY <2>1, <2>2, <2>3, <2>4 DEF WorksOnRegions, TypeOK, Active, Asks, Statuses
  <2> QED
    BY <1>a, <1>b, <2>3, <2>5 DEF TypeOK
<1>9. ASSUME NEW p \in Requests, Publish(p) PROVE RegionsExist'
  <2>1. RowsExist'
    BY <1>9 DEF Publish, End, RowsReleasedBy, TypeOK, RegionsExist, RowsExist
  <2> QED
    BY <1>9, <2>1, <1>a
       DEF Publish, End, Goto, TypeOK, RegionsExist, WorksOnRegions, Active, Asks
<1>10. ASSUME NEW p \in Requests, DefineRegions(p) \/ WriteNote(p) \/ WriteLog(p) \/ LoadFinal(p)
       PROVE  RegionsExist'
  BY <1>10, <1>a, <1>b
     DEF DefineRegions, WriteNote, WriteLog, LoadFinal, Goto, TypeOK, RegionsExist,
         WorksOnRegions, Active, Asks, locks, database
<1>11. ASSUME NEW p \in Requests, GateSubmit(p), ~End(p, "failed") PROVE RegionsExist'
  BY <1>11, <1>a, <1>b
     DEF GateSubmit, SubmitAllowed, Goto, TypeOK, RegionsExist, WorksOnRegions, Active, Asks,
         locks, database
<1>12. ASSUME UNCHANGED vars PROVE RegionsExist'
  BY <1>12 DEF vars, RegionsExist, RowsExist, WorksOnRegions, Active, Asks
<1>13. \A p \in Requests :
         /\ SubmitDocument(p) => End(p, "done") /\ UNCHANGED <<regions, row>>
         /\ GateSubmit(p) => UNCHANGED <<regions, row>>
         /\ Abort(p) \/ DeadlockVictim(p) => End(p, "failed") /\ UNCHANGED <<regions, row>>
  BY DEF SubmitDocument, GateSubmit, Abort, DeadlockVictim, database
<1> QED
  BY <1>1, <1>2, <1>3, <1>4, <1>5, <1>6, <1>7, <1>8, <1>9, <1>10, <1>11, <1>12, <1>13, <1>c
     DEF Next, Step, AllAnswered

\* The commits keep the status true of the regions and of the PDF on file.
LEMMA StatusStep ==
  Backed /\ [Next]_vars => DraftIffNoRegions' /\ SignedHasPdf' /\ CompletedHasPdf'
<1> SUFFICES ASSUME Backed, [Next]_vars
             PROVE  DraftIffNoRegions' /\ SignedHasPdf' /\ CompletedHasPdf'
  OBVIOUS
<1> USE NullsAssumption, ConstantsAssumption
        DEF Backed, Held, Typed, DraftIffNoRegions, SignedHasPdf, CompletedHasPdf
<1>1. ASSUME NEW p \in Requests, Publish(p)
      PROVE  DraftIffNoRegions' /\ SignedHasPdf' /\ CompletedHasPdf'
  <2>1. final' # NoPdf /\ regions # {} /\ regions' = regions /\ status' # "Draft"
    BY <1>1 DEF Publish, TypeOK, RegionsExist, WorksOnRegions, Asks
  <2> QED
    BY <2>1
<1>2. ASSUME NEW p \in Requests, DefineRegions(p)
      PROVE  DraftIffNoRegions' /\ SignedHasPdf' /\ CompletedHasPdf'
  <2>1. regions' # {}
    BY <1>2 DEF DefineRegions, OpsAdmitted, Active
  <2>2. status' \in {status, "Pending"} /\ status' # "Draft"
    BY <1>2 DEF DefineRegions, RegionsExist, WorksOnRegions
  <2>3. row' = row /\ final' = final /\ (\A q \in Requests : pc'[q] = "submit" => pc[q] = "submit")
    BY <1>2 DEF DefineRegions, Goto, TypeOK
  <2> QED
    BY <2>1, <2>2, <2>3
<1>3. ASSUME NEW p \in Requests, SubmitDocument(p)
      PROVE  DraftIffNoRegions' /\ SignedHasPdf' /\ CompletedHasPdf'
  <2>1. regions # {} /\ final # NoPdf
    BY <1>3 DEF SubmitDocument, RegionsExist, WorksOnRegions
  <2> QED
    BY <1>3, <2>1 DEF SubmitDocument, End, Goto, TypeOK
<1>4. ASSUME NEW p \in Requests, GateSubmit(p)
      PROVE  DraftIffNoRegions' /\ SignedHasPdf' /\ CompletedHasPdf'
  <2>1. SubmitAllowed(p) => final # NoPdf
    BY DEF SubmitAllowed, TypeOK
  <2> QED
    BY <1>4, <2>1 DEF GateSubmit, Goto, End, TypeOK, database
<1>5. ASSUME UNCHANGED <<regions, row, status, final>>,
             \A q \in Requests : pc'[q] = "submit" => pc[q] = "submit"
      PROVE  DraftIffNoRegions' /\ SignedHasPdf' /\ CompletedHasPdf'
  BY <1>5
<1>6. ASSUME NEW p \in Requests,
             \/ \E o \in Ops : Arrive(p, o)
             \/ \E r \in Regions : CheckRegion(p, r) \/ SelectRegion(p, r)
             \/ LoadForSigning(p) \/ LoadForRebuild(p) \/ LoadNotes(p)
             \/ UpdateRegion(p) \/ ReadStatus(p) \/ ReadRegions(p)
             \/ WriteNote(p) \/ WriteLog(p) \/ LoadFinal(p)
             \/ Abort(p) \/ DeadlockVictim(p)
      PROVE  /\ UNCHANGED <<regions, row, status, final>>
             /\ \A q \in Requests : pc'[q] = "submit" => pc[q] = "submit"
  <2>1. ASSUME NEW label, Goto(p, label), label # "submit"
        PROVE  \A q \in Requests : pc'[q] = "submit" => pc[q] = "submit"
    BY <2>1 DEF Goto, TypeOK
  <2>2. \A o \in Ops : FirstLabel(o) # "submit"
    BY DEF FirstLabel
  <2>3. CASE \E o \in Ops : Arrive(p, o)
    BY <2>1, <2>2, <2>3 DEF Arrive, database
  <2>4. CASE \E r \in Regions : CheckRegion(p, r) \/ SelectRegion(p, r)
    BY <2>1, <2>4 DEF CheckRegion, SelectRegion, NextAfterMarks, End, database
  <2>5. CASE LoadForSigning(p) \/ LoadForRebuild(p) \/ LoadNotes(p)
    BY <2>1, <2>5 DEF LoadForSigning, LoadForRebuild, LoadNotes, End, database
  <2>6. CASE UpdateRegion(p) \/ ReadStatus(p) \/ ReadRegions(p)
    BY <2>1, <2>6 DEF UpdateRegion, NextAfterMarks, ReadStatus, ReadRegions, database
  <2>7. CASE WriteNote(p) \/ WriteLog(p) \/ LoadFinal(p)
    BY <2>1, <2>7 DEF WriteNote, WriteLog, LoadFinal, database
  <2>8. CASE Abort(p) \/ DeadlockVictim(p)
    BY <2>1, <2>8 DEF Abort, DeadlockVictim, End, database
  <2> QED
    BY <1>6, <2>3, <2>4, <2>5, <2>6, <2>7, <2>8
<1>7. UNCHANGED vars => /\ UNCHANGED <<regions, row, status, final>>
                        /\ \A q \in Requests : pc'[q] = "submit" => pc[q] = "submit"
  BY DEF vars
<1> QED
  BY <1>1, <1>2, <1>3, <1>4, <1>5, <1>6, <1>7 DEF Next, Step, AllAnswered

\* The status is backed by the regions and the file in every reachable state.
LEMMA BackedInvariant == Spec => []Backed
<1>1. Init => Backed
  <2>1. Init => Held
    BY InitTyped, NullsAssumption, ConstantsAssumption DEF Init, Held, Phases, Active, Asks
  <2>2. Init => RegionsExist
    BY NullsAssumption, ConstantsAssumption
       DEF Init, RegionsExist, RowsExist, WorksOnRegions, Active, Asks, Statuses
  <2>3. Init => DraftIffNoRegions /\ SignedHasPdf /\ CompletedHasPdf
    BY RecomputedRight DEF Init, DraftIffNoRegions, SignedHasPdf, CompletedHasPdf, Blank
  <2> QED
    BY <2>1, <2>2, <2>3 DEF Backed
<1>2. Backed /\ [Next]_vars => Backed'
  BY TypedStep, PhasesStep, RegionsStep, StatusStep DEF Backed, Held
<1> QED
  BY <1>1, <1>2, PTL DEF Spec

\* A document is a Draft exactly while it has no regions, and a Completed one
\* has a signed PDF.
THEOREM StatusBacked == Spec => []StatusIsBacked
<1>1. Backed => StatusIsBacked
  BY DEF Backed, StatusIsBacked
<1> QED
  BY <1>1, BackedInvariant, PTL

-----------------------------------------------------------------------------
(* With one request at a time (MaxActive = 1): the workflow implements        *)
(* SignedDocument, and the annotations of the signed PDF are in sync.         *)

\* A step of a request: the others stay where they are, and it is active before
\* the step or arrives.
LEMMA Turns ==
  ASSUME Typed, NEW p \in Requests,
         (\E o \in Ops : Arrive(p, o)) \/ Step(p) \/ Abort(p) \/ DeadlockVictim(p)
  PROVE  /\ \A q \in Requests \ {p} : pc'[q] = pc[q] /\ op'[q] = op[q]
         /\ (\E o \in Ops : Arrive(p, o)) \/ Active(p)
<1> USE DEF Typed, TypeOK, Goto, Active
<1>1. ASSUME NEW o \in Ops, Arrive(p, o) PROVE \A q \in Requests \ {p} : pc'[q] = pc[q] /\ op'[q] = op[q]
  BY <1>1 DEF Arrive
<1>2. ASSUME NEW r \in Regions, CheckRegion(p, r) \/ SelectRegion(p, r)
      PROVE  (\A q \in Requests \ {p} : pc'[q] = pc[q] /\ op'[q] = op[q]) /\ Active(p)
  BY <1>2 DEF CheckRegion, SelectRegion, End
<1>3. ASSUME LoadForSigning(p) \/ LoadForRebuild(p) \/ LoadNotes(p)
      PROVE  (\A q \in Requests \ {p} : pc'[q] = pc[q] /\ op'[q] = op[q]) /\ Active(p)
  BY <1>3 DEF LoadForSigning, LoadForRebuild, LoadNotes, End
<1>4. ASSUME UpdateRegion(p) \/ ReadStatus(p) \/ ReadRegions(p)
      PROVE  (\A q \in Requests \ {p} : pc'[q] = pc[q] /\ op'[q] = op[q]) /\ Active(p)
  BY <1>4 DEF UpdateRegion, ReadStatus, ReadRegions
<1>5. ASSUME Publish(p) \/ DefineRegions(p) \/ GateSubmit(p) \/ SubmitDocument(p)
      PROVE  (\A q \in Requests \ {p} : pc'[q] = pc[q] /\ op'[q] = op[q]) /\ Active(p)
  BY <1>5 DEF Publish, DefineRegions, GateSubmit, SubmitDocument, End
<1>6. ASSUME WriteNote(p) \/ WriteLog(p) \/ LoadFinal(p)
      PROVE  (\A q \in Requests \ {p} : pc'[q] = pc[q] /\ op'[q] = op[q]) /\ Active(p)
  BY <1>6 DEF WriteNote, WriteLog, LoadFinal
<1>7. ASSUME Abort(p) \/ DeadlockVictim(p)
      PROVE  (\A q \in Requests \ {p} : pc'[q] = pc[q] /\ op'[q] = op[q]) /\ Active(p)
  BY <1>7 DEF Abort, DeadlockVictim, InDeadlock, End
<1> QED
  BY <1>1, <1>2, <1>3, <1>4, <1>5, <1>6, <1>7 DEF Step

\* A request arrives when no other is active.
LEMMA ArrivesAlone ==
  ASSUME MaxActive = 1, OneAtATime, NEW p \in Requests, NEW o \in Ops, Arrive(p, o)
  PROVE  \A q \in Requests : ~Active(q)
<1> SUFFICES ASSUME NEW q \in Requests, Active(q) PROVE FALSE
  OBVIOUS
<1>1. {s \in Requests : Active(s)} = {q}
  BY DEF OneAtATime
<1>2. Cardinality({q}) = 1
  BY FS_Singleton
<1> QED
  BY <1>1, <1>2 DEF Arrive

\* One request at a time stays one.
LEMMA OneAtATimeStep == MaxActive = 1 /\ Typed /\ OneAtATime /\ [Next]_vars => OneAtATime'
<1> SUFFICES ASSUME MaxActive = 1, Typed, OneAtATime, [Next]_vars PROVE OneAtATime'
  OBVIOUS
<1>1. ASSUME NEW p \in Requests,
             (\E o \in Ops : Arrive(p, o)) \/ Step(p) \/ Abort(p) \/ DeadlockVictim(p)
      PROVE  OneAtATime'
  <2>1. \A q \in Requests \ {p} : ~Active(q)
    BY <1>1, Turns, ArrivesAlone DEF OneAtATime
  <2>2. \A q \in Requests \ {p} : ~Active(q)'
    BY <1>1, <2>1, Turns DEF Active
  <2> QED
    BY <2>2 DEF OneAtATime
<1>2. CASE UNCHANGED vars
  BY <1>2 DEF vars, OneAtATime, Active
<1> QED
  BY <1>1, <1>2 DEF Next, AllAnswered

-----------------------------------------------------------------------------
(* What the active request knows stays so *)

Ready ==
  /\ Owned /\ Backed /\ OneAtATime /\ WholeRows
  /\ \A p \in Requests : Active(p) => Turn(p)

\* To a step that changes no row and takes no lock the database looks as before.
LEMMA SameSight ==
  ASSUME NEW p \in Requests, UNCHANGED <<regions, row, holder, dirty, op>>
  PROVE  /\ View(p)' = View(p) /\ Applied(row)' = Applied(row)
         /\ Applied(View(p))' = Applied(View(p))
         /\ SignTargets(p)' = SignTargets(p) /\ MarkTarget(p)' = MarkTarget(p)
         /\ SubmitAllowed(p)' = SubmitAllowed(p)
         /\ Asks(p, SignKinds)' = Asks(p, SignKinds)
         /\ Asks(p, WithdrawKinds)' = Asks(p, WithdrawKinds)
         /\ Asks(p, NoteKinds)' = Asks(p, NoteKinds)
         /\ Asks(p, {"define"})' = Asks(p, {"define"})
         /\ Asks(p, {"submit"})' = Asks(p, {"submit"})
  BY DEF View, Applied, SignTargets, MarkTarget, SubmitAllowed, Asks

\* An operation is of one kind.
LEMMA OneKind ==
  ASSUME NEW p
  PROVE  /\ Asks(p, SignKinds) => ~Asks(p, WithdrawKinds) /\ ~Asks(p, NoteKinds) /\ ~Asks(p, {"define"})
         /\ Asks(p, WithdrawKinds) => ~Asks(p, NoteKinds) /\ ~Asks(p, {"define"})
         /\ Asks(p, NoteKinds) => ~Asks(p, {"define"})
         /\ Asks(p, SignKinds) \/ Asks(p, WithdrawKinds) \/ Asks(p, NoteKinds) \/ Asks(p, {"define"})
              => ~Asks(p, {"submit"})
         /\ Asks(p, WithdrawKinds \cup NoteKinds) <=> Asks(p, WithdrawKinds) \/ Asks(p, NoteKinds)
         /\ Asks(p, SignKinds \cup WithdrawKinds) <=> Asks(p, SignKinds) \/ Asks(p, WithdrawKinds)
         /\ Asks(p, SignKinds \cup WithdrawKinds \cup NoteKinds)
              <=> Asks(p, SignKinds) \/ Asks(p, WithdrawKinds) \/ Asks(p, NoteKinds)
  BY DEF Asks, SignKinds, WithdrawKinds, NoteKinds

\* A request has arrived and has its ids from the database as it is.
LEMMA ArriveTurn ==
  ASSUME Ready, NEW p \in Requests, NEW o \in Ops, Arrive(p, o), Active(p)'
  PROVE  Turn(p)'
<1>1. /\ op'[p] = o /\ pc'[p] = FirstLabel(o) /\ pc[p] = "idle"
      /\ UNCHANGED <<regions, row, status, holder, dirty, picked, want>>
      /\ o.kind = "define" => o.targets \cap regions = {}
  BY DEF Arrive, Goto, Ready, Owned, Held, Typed, TypeOK, Active, database, locks, Plausible
<1>2. \A r \in Regions : holder[r] # p
  BY <1>1 DEF Ready, Owned, Held, Phases, Active
<1>3. pc'[p] \in {"loadRegions", "check", "done", "readStatus", "writeNote"}
      /\ (pc'[p] = "loadRegions" => ~Asks(p, WithdrawKinds)')
      /\ (pc'[p] = "readStatus" <=> Asks(p, {"define"})')
      /\ (Asks(p, {"submit"})' => pc'[p] = "loadRegions")
  <2>1. o # NoOp
    BY ConstantsAssumption
  <2>2. CASE o.kind \in SignKinds \cup {"submit"}
    BY <1>1, <2>2 DEF FirstLabel, Asks, SignKinds, WithdrawKinds
  <2>3. CASE o.kind \in WithdrawKinds
    BY <1>1, <2>3 DEF FirstLabel, Asks, SignKinds, WithdrawKinds
  <2>4. CASE o.kind = "define"
    BY <1>1, <2>1, <2>4 DEF FirstLabel, Asks, SignKinds, WithdrawKinds
  <2>5. CASE o.kind \notin SignKinds \cup WithdrawKinds \cup {"define", "submit"}
    BY <1>1, <2>5 DEF FirstLabel, Asks
  <2> QED
    BY <2>2, <2>3, <2>4, <2>5
<1>4. picked'[p] = {}
  BY <1>1 DEF Ready, Owned, Held, Phases
<1>5. pc'[p] = "readStatus" =>
        ~Asks(p, SignKinds)' /\ ~Asks(p, WithdrawKinds)' /\ ~Asks(p, WithdrawKinds \cup NoteKinds)'
          /\ ~Asks(p, SignKinds \cup WithdrawKinds \cup NoteKinds)'
  BY <1>3 DEF Asks, SignKinds, WithdrawKinds, NoteKinds
<1>6. TurnMarks(p)' /\ TurnSigns(p)' /\ TurnWithdraws(p)' /\ TurnRebuilds(p)'
  BY <1>1, <1>2, <1>3, <1>4, <1>5
     DEF TurnMarks, TurnSigns, TurnWithdraws, TurnRebuilds, Marking, Rendering
<1>7. TurnAnnotates(p)' /\ TurnDefines(p)' /\ TurnComputes(p)' /\ TurnSubmits(p)'
  BY <1>1, <1>3, <1>5
     DEF TurnAnnotates, TurnDefines, TurnComputes, TurnSubmits, Marking, Asks
<1> QED
  BY <1>6, <1>7 DEF Turn

\* What a check has picked is signed.
LEMMA CheckTurn ==
  ASSUME Ready, NEW p \in Requests, NEW r \in Regions, CheckRegion(p, r), Active(p)'
  PROVE  Turn(p)'
<1>1. /\ pc[p] = "check" /\ Asks(p, WithdrawKinds) /\ Turn(p) /\ want[p] = NoRegion
      /\ picked[p] \subseteq Regions
  BY DEF CheckRegion, Ready, Owned, Held, Typed, TypeOK, Phases, Active
<1>2. ~End(p, "done")
  BY DEF End, Goto, Active, Ready, Owned, Held, Typed, TypeOK
<1> DEFINE chosen == IF Withdrawable(p, r) THEN picked[p] \cup {r} ELSE picked[p]
<1>3. /\ UNCHANGED <<regions, row, status, final, notes, holder, dirty, op, want>>
      /\ \/ pc' = pc /\ picked'[p] = chosen
         \/ pc'[p] = "select" /\ picked'[p] = {} /\ todo'[p] = chosen /\ chosen # {}
  BY <1>2 DEF CheckRegion, Goto, Ready, Owned, Held, Typed, TypeOK, database, locks
<1>4. chosen \subseteq Regions /\ \A s \in chosen : row[s].signed
  BY <1>1 DEF Turn, TurnWithdraws, Withdrawable
<1> HIDE DEF chosen
<1>5. \A s \in Regions : holder[s] # p
  BY <1>1 DEF Turn, TurnWithdraws
<1>6. pc'[p] \in {"check", "select"} /\ Asks(p, WithdrawKinds)' /\ ~Asks(p, SignKinds)'
        /\ ~Asks(p, NoteKinds)' /\ ~Asks(p, {"define"})' /\ ~Asks(p, {"submit"})'
  BY <1>1, <1>3, OneKind, SameSight
<1>7. TurnMarks(p)' /\ TurnSigns(p)' /\ TurnRebuilds(p)'
  BY <1>3, <1>5, <1>6 DEF TurnMarks, TurnSigns, TurnRebuilds, Rendering
<1>8. TurnAnnotates(p)' /\ TurnDefines(p)' /\ TurnComputes(p)' /\ TurnSubmits(p)'
  BY <1>6 DEF TurnAnnotates, TurnDefines, TurnComputes, TurnSubmits
<1>9. TurnWithdraws(p)'
  <2>1. CASE pc' = pc /\ picked'[p] = chosen
    BY <1>1, <1>3, <1>4, <1>5, <2>1 DEF TurnWithdraws, Marking, Rendering
  <2>2. CASE pc'[p] = "select" /\ picked'[p] = {} /\ todo'[p] = chosen /\ chosen # {}
    <3>1. Work(p)' = chosen
      BY <1>1, <1>3, <1>5, <2>2, ConstantsAssumption DEF Work
    <3> QED
      BY <1>3, <1>4, <2>2, <3>1 DEF TurnWithdraws
  <2> QED
    BY <1>3, <2>1, <2>2
<1> QED
  BY <1>7, <1>8, <1>9 DEF Turn

\* A signing request that has loaded the regions draws and marks the same ones.
LEMMA LoadForSigningTurn ==
  ASSUME Ready, NEW p \in Requests, LoadForSigning(p), Active(p)'
  PROVE  Turn(p)'
<1>1. /\ pc[p] = "loadRegions" /\ Asks(p, SignKinds) /\ want[p] = NoRegion
      /\ \A r \in Regions : holder[r] # p
  BY ConstantsAssumption
     DEF LoadForSigning, Ready, Owned, Held, Typed, TypeOK, OpsAdmitted, Phases, Active, Asks
<1>2. ~End(p, "failed")
  BY DEF End, Goto, Active, Ready, Owned, Held, Typed, TypeOK
<1>3. /\ UNCHANGED <<regions, row, status, final, notes, holder, dirty, op, want>>
      /\ SignTargets(p) # {} /\ todo'[p] = SignTargets(p) /\ pc'[p] = "loadNotes"
      /\ pdf'[p].stamps = StampsWithTargets(p)
  BY <1>2 DEF LoadForSigning, Goto, Ready, Owned, Held, Typed, TypeOK, database, locks
<1>4. View(p) = row
  BY <1>1 DEF View, Ready, Owned, Held, Typed, TypeOK
<1>5. Work(p)' = SignTargets(p)
  <2>1. SignTargets(p) \subseteq Regions
    BY <1>1, SignTargetsTyped DEF Ready, Owned, Held, Typed, OpsAdmitted
  <2> QED
    BY <1>1, <1>3, <2>1, ConstantsAssumption DEF Work
<1>6. StampsWithTargets(p) = [r \in Regions |-> IF r \in SignTargets(p) THEN p ELSE Applied(row)[r]]
  BY <1>4 DEF StampsWithTargets
<1>7. Asks(p, SignKinds)' /\ ~Asks(p, WithdrawKinds)' /\ ~Asks(p, WithdrawKinds \cup NoteKinds)'
        /\ ~Asks(p, {"define"})' /\ ~Asks(p, {"submit"})'
  BY <1>1, <1>3, OneKind DEF Asks
<1>8. TurnSigns(p)'
  BY <1>3, <1>5, <1>6, SameSight DEF TurnSigns
<1>9. TurnMarks(p)' /\ TurnWithdraws(p)' /\ TurnRebuilds(p)'
  BY <1>1, <1>3, <1>7 DEF TurnMarks, TurnWithdraws, TurnRebuilds
<1>10. TurnAnnotates(p)' /\ TurnDefines(p)' /\ TurnComputes(p)' /\ TurnSubmits(p)'
  BY <1>3, <1>7 DEF TurnAnnotates, TurnDefines, TurnComputes, TurnSubmits, Marking
<1> QED
  BY <1>8, <1>9, <1>10 DEF Turn

\* A rebuild draws what the request sees; one for an annotation sees a signature.
LEMMA LoadForRebuildTurn ==
  ASSUME Ready, NEW p \in Requests, LoadForRebuild(p), Active(p)'
  PROVE  Turn(p)'
<1>1. /\ pc[p] = "loadRegions" /\ op[p].kind \in WithdrawKinds \cup NoteKinds /\ Turn(p)
      /\ op[p] # NoOp /\ todo[p] = {}
  BY ConstantsAssumption
     DEF LoadForRebuild, Ready, Owned, Held, Typed, TypeOK, OpsAdmitted, Phases, Active
<1>2. ~End(p, "done")
  BY DEF End, Goto, Active, Ready, Owned, Held, Typed, TypeOK
<1>3. /\ UNCHANGED <<regions, row, status, final, notes, holder, dirty, op, want, todo, picked>>
      /\ pc'[p] = "loadNotes" /\ pdf'[p].stamps = Applied(View(p))
      /\ op[p].kind \in NoteKinds => Applied(View(p)) # BlankPdf.stamps
  BY <1>2 DEF LoadForRebuild, Goto, Ready, Owned, Held, Typed, TypeOK, database, locks
<1>4. Asks(p, NoteKinds) => \E r \in Regions : Applied(row)[r] # NoImage
  <2> SUFFICES ASSUME Asks(p, NoteKinds) PROVE \E r \in Regions : Applied(row)[r] # NoImage
    OBVIOUS
  <2>1. \A r \in Regions : holder[r] # p
    BY OneKind DEF Ready, Owned, Held, Phases
  <2>2. View(p) = row
    BY <2>1 DEF View, Ready, Owned, Held, Typed, TypeOK
  <2>3. Applied(row) # [r \in Regions |-> NoImage]
    BY <1>3, <2>2 DEF Asks, BlankPdf
  <2> QED
    BY <2>3 DEF Applied
<1>5. ~Asks(p, SignKinds)' /\ ~Asks(p, {"define"})' /\ ~Asks(p, {"submit"})'
  BY <1>1, <1>3 DEF Asks, SignKinds, WithdrawKinds, NoteKinds
<1>6. Work(p)' = Work(p)
  BY <1>3 DEF Work
<1>7. TurnMarks(p)' /\ TurnSigns(p)' /\ TurnDefines(p)' /\ TurnSubmits(p)' /\ TurnComputes(p)'
  BY <1>1, <1>3, <1>5, SameSight
     DEF Turn, TurnMarks, TurnSigns, TurnDefines, TurnSubmits, TurnComputes
<1>8. TurnWithdraws(p)'
  BY <1>1, <1>3, <1>6, SameSight DEF Turn, TurnWithdraws
<1>9. TurnRebuilds(p)' /\ TurnAnnotates(p)'
  BY <1>3, <1>4, SameSight DEF TurnRebuilds, TurnAnnotates, Marking
<1> QED
  BY <1>7, <1>8, <1>9 DEF Turn

\* The annotations are drawn as they are.
LEMMA LoadNotesTurn ==
  ASSUME Ready, NEW p \in Requests, LoadNotes(p)
  PROVE  Turn(p)'
<1>1. pc[p] = "loadNotes" /\ Turn(p) /\ op[p] # NoOp /\ op[p].kind \in Kinds
  BY ConstantsAssumption
     DEF LoadNotes, Ready, Owned, Held, Typed, OpsAdmitted, Active, Operation
<1>2. /\ UNCHANGED <<regions, row, status, final, notes, holder, dirty, op, want, todo, picked>>
      /\ pc'[p] = IF op[p].kind \in SignKinds THEN "select" ELSE "readStatus"
      /\ pdf'[p].stamps = pdf[p].stamps /\ pdf'[p].notes = notes
  BY DEF LoadNotes, Goto, Ready, Owned, Held, Typed, TypeOK, database, locks
<1>3. Work(p)' = Work(p)
  BY <1>2 DEF Work
<1>4. (pc'[p] = "select" /\ Asks(p, SignKinds)) \/ pc'[p] = "readStatus"
  BY <1>1, <1>2 DEF Asks
<1>5. TurnMarks(p)'
  BY <1>1, <1>2, <1>4, SameSight DEF Turn, TurnMarks
<1>6. TurnSigns(p)'
  BY <1>1, <1>2, <1>3, SameSight DEF Turn, TurnSigns, Rendering
<1>7. TurnWithdraws(p)'
  BY <1>1, <1>2, <1>3, <1>4, SameSight DEF Turn, TurnWithdraws, Rendering
<1>8. TurnRebuilds(p)'
  BY <1>1, <1>2, SameSight, OneKind DEF Turn, TurnRebuilds, Rendering, Asks
<1>9. TurnAnnotates(p)' /\ TurnComputes(p)' /\ TurnSubmits(p)'
  BY <1>1, <1>2, <1>4, SameSight DEF Turn, TurnAnnotates, TurnComputes, TurnSubmits
<1>10. TurnDefines(p)'
  <2>1. ~Asks(p, {"define"})
    BY <1>1 DEF Turn, TurnDefines
  <2> QED
    BY <1>2, <2>1, SameSight DEF TurnDefines
<1> QED
  BY <1>5, <1>6, <1>7, <1>8, <1>9, <1>10 DEF Turn

\* The row a SELECT loads is the one its UPDATE will change; a signed row is
\* never passed over.
LEMMA SelectTurn ==
  ASSUME Ready, NEW p \in Requests, NEW r \in Regions, SelectRegion(p, r)
  PROVE  Turn(p)'
<1>1. /\ pc[p] = "select" /\ r \in todo[p] /\ Turn(p) /\ want[p] = NoRegion
      /\ Asks(p, SignKinds) \/ Asks(p, WithdrawKinds)
  BY OneKind DEF SelectRegion, Ready, Owned, Held, Phases, Active
<1>2. Asks(p, WithdrawKinds) => row[r] # Blank
  BY <1>1 DEF Turn, TurnWithdraws, Marking, Work, Blank
<1>3. /\ UNCHANGED <<regions, row, status, final, notes, holder, dirty, op, picked, pdf>>
      /\ todo'[p] = todo[p] \ {r} /\ want'[p] = r /\ loaded'[p] = row[r] /\ pc'[p] = "update"
  BY <1>1, <1>2 DEF SelectRegion, Goto, Asks, Ready, Owned, Held, Typed, TypeOK, database, locks
<1>4. Work(p)' = Work(p)
  BY <1>1, <1>3, ConstantsAssumption DEF Work
<1>5. TurnMarks(p)'
  BY <1>1, <1>3, SameSight DEF Turn, TurnMarks
<1>6. TurnSigns(p)'
  BY <1>1, <1>3, <1>4, SameSight DEF Turn, TurnSigns, Marking
<1>7. TurnWithdraws(p)'
  BY <1>1, <1>3, <1>4, SameSight DEF Turn, TurnWithdraws, Marking
<1>8. TurnAnnotates(p)'
  BY <1>1, <1>3, SameSight, OneKind DEF Turn, TurnAnnotates, Marking
<1>9. TurnRebuilds(p)' /\ TurnComputes(p)' /\ TurnSubmits(p)' /\ TurnDefines(p)'
  BY <1>1, <1>3, SameSight, OneKind
     DEF TurnRebuilds, TurnComputes, TurnSubmits, TurnDefines, Rendering
<1> QED
  BY <1>5, <1>6, <1>7, <1>8, <1>9 DEF Turn

\* An UPDATE of a row that nobody changed since assigns all of it.
LEMMA FlushedWhole ==
  ASSUME NEW current \in Row, NEW target \in Row
  PROVE  Flushed(current, current, target) = target
  BY DEF Flushed, Row

\* The UPDATE of a row the request selected leaves it where the code goes on.
LEMMA UpdateTurn ==
  ASSUME Ready, NEW p \in Requests, UpdateRegion(p)
  PROVE  Turn(p)'
<1>1. /\ pc[p] = "update" /\ Turn(p) /\ want[p] \in Regions
      /\ Asks(p, SignKinds) \/ Asks(p, WithdrawKinds)
  BY OneKind DEF UpdateRegion, Ready, Owned, Held, Typed, TypeOK, Phases, Active
<1>2. /\ UNCHANGED <<regions, row, status, final, notes, op, picked, pdf, todo>>
      /\ holder' = [holder EXCEPT ![want[p]] = p]
      /\ dirty' = [dirty EXCEPT ![want[p]] = Flushed(row[want[p]], loaded[p], MarkTarget(p))]
      /\ want'[p] = NoRegion
      /\ pc'[p] = IF todo[p] = {} THEN NextAfterMarks(p) ELSE "select"
  BY DEF UpdateRegion, Goto, Ready, Owned, Held, Typed, TypeOK, database
<1>3. Work(p)' = Work(p)
  BY <1>1, <1>2, ConstantsAssumption DEF Work, Ready, Owned, Held, Typed, TypeOK
<1>4. /\ Applied(row)' = Applied(row) /\ SignTargets(p)' = SignTargets(p)
      /\ MarkTarget(p)' = MarkTarget(p) /\ SubmitAllowed(p)' = SubmitAllowed(p)
      /\ Asks(p, SignKinds)' = Asks(p, SignKinds)
      /\ Asks(p, WithdrawKinds)' = Asks(p, WithdrawKinds)
      /\ Asks(p, NoteKinds)' = Asks(p, NoteKinds)
      /\ Asks(p, {"define"})' = Asks(p, {"define"})
      /\ Asks(p, {"submit"})' = Asks(p, {"submit"})
  BY <1>2 DEF Applied, SignTargets, MarkTarget, SubmitAllowed, Asks
<1>5. \/ pc'[p] = "select"
      \/ pc'[p] = "readStatus" /\ Asks(p, SignKinds)
      \/ pc'[p] = "loadRegions" /\ Asks(p, WithdrawKinds)
  BY <1>1, <1>2, OneKind DEF NextAfterMarks, Asks
<1>6. TurnMarks(p)'
  <2>1. row[want[p]] \in Row /\ MarkTarget(p) \in Row
    <3>1. TRUE \in BOOLEAN /\ FALSE \in BOOLEAN
      OBVIOUS
    <3> QED
      BY <1>1, <3>1 DEF MarkTarget, Row, Blank, Images, Ready, Owned, Held, Typed, TypeOK
  <2>2. dirty'[want[p]] = MarkTarget(p)
    BY <1>1, <1>2, <2>1, FlushedWhole DEF Turn, TurnMarks, Ready, Owned, Held, Typed, TypeOK
  <2>3. \A r \in Regions \ {want[p]} : holder'[r] = holder[r] /\ dirty'[r] = dirty[r]
    BY <1>2 DEF Ready, Owned, Held, Typed, TypeOK
  <2> QED
    BY <1>1, <1>4, <1>5, <2>2, <2>3 DEF Turn, TurnMarks
<1>7. TurnSigns(p)'
  BY <1>1, <1>2, <1>3, <1>4 DEF Turn, TurnSigns, Marking
<1>8. TurnWithdraws(p)'
  BY <1>1, <1>2, <1>3, <1>4, <1>5 DEF Turn, TurnWithdraws, Marking
<1>9. TurnAnnotates(p)'
  BY <1>1, <1>2, <1>4, <1>5, OneKind DEF Turn, TurnAnnotates, Marking
<1>10. TurnRebuilds(p)'
  <2>1. pc'[p] \in Rendering => ~Asks(p, WithdrawKinds \cup NoteKinds)'
    BY <1>2, <1>5, OneKind DEF Rendering, Asks
  <2> QED
    BY <2>1 DEF TurnRebuilds
<1>11. TurnComputes(p)' /\ TurnSubmits(p)'
  BY <1>1, <1>4, <1>5, OneKind DEF TurnComputes, TurnSubmits
<1>12. TurnDefines(p)'
  BY <1>1, <1>4, <1>5, OneKind DEF TurnDefines
<1> QED
  BY <1>6, <1>7, <1>8, <1>9, <1>10, <1>11, <1>12 DEF Turn

\* The status that is loaded stays the status.
LEMMA ReadStatusTurn ==
  ASSUME Ready, NEW p \in Requests, ReadStatus(p)
  PROVE  Turn(p)'
<1>1. pc[p] = "readStatus" /\ Turn(p) /\ op[p] # NoOp
  BY ConstantsAssumption DEF ReadStatus, Ready, Owned, Held, Typed, OpsAdmitted, Active
<1>2. /\ UNCHANGED <<regions, row, status, final, notes, holder, dirty, op, want, todo, picked, pdf>>
      /\ verdict'[p] = status
      /\ pc'[p] = IF op[p].kind = "define" THEN "publish" ELSE "readRegions"
  BY DEF ReadStatus, Goto, Ready, Owned, Held, Typed, TypeOK, database, locks
<1>3. Work(p)' = Work(p)
  BY <1>2 DEF Work
<1>4. \/ pc'[p] = "publish" /\ Asks(p, {"define"})
      \/ pc'[p] = "readRegions" /\ ~Asks(p, {"define"})
  BY <1>1, <1>2 DEF Asks
<1>5. TurnMarks(p)'
  BY <1>1, <1>2, <1>4, SameSight DEF Turn, TurnMarks
<1>6. TurnSigns(p)'
  BY <1>1, <1>2, <1>3, SameSight DEF Turn, TurnSigns, Rendering
<1>7. TurnWithdraws(p)'
  BY <1>1, <1>2, <1>3, <1>4, SameSight DEF Turn, TurnWithdraws, Rendering
<1>8. TurnRebuilds(p)'
  BY <1>1, <1>2, SameSight DEF Turn, TurnRebuilds, Rendering, Asks
<1>9. TurnAnnotates(p)'
  BY <1>1, <1>2, SameSight DEF Turn, TurnAnnotates, Asks
<1>10. TurnDefines(p)' /\ TurnComputes(p)' /\ TurnSubmits(p)'
  BY <1>1, <1>2, <1>4, SameSight DEF Turn, TurnDefines, TurnComputes, TurnSubmits
<1> QED
  BY <1>5, <1>6, <1>7, <1>8, <1>9, <1>10 DEF Turn

\* The verdict is what the regions amount to, or nothing if the status says so.
LEMMA ReadRegionsTurn ==
  ASSUME Ready, NEW p \in Requests, ReadRegions(p)
  PROVE  Turn(p)'
<1> DEFINE new == RecomputedStatus(regions, {r \in regions : View(p)[r].signed})
<1>1. pc[p] = "readRegions" /\ Turn(p) /\ new \in Statuses
  BY RecomputedTyped DEF ReadRegions, Ready, Active
<1>2. /\ UNCHANGED <<regions, row, status, final, notes, holder, dirty, op, want, todo, picked, pdf>>
      /\ verdict'[p] = (IF new = verdict[p] THEN NoStatus ELSE new) /\ pc'[p] = "publish"
  BY DEF ReadRegions, Goto, Ready, Owned, Held, Typed, TypeOK, database, locks
<1>3. Work(p)' = Work(p) /\ new' = new
  BY <1>2, SameSight DEF Work
<1>4. ~Asks(p, {"define"}) /\ verdict[p] = status
  BY <1>1 DEF Turn, TurnDefines, TurnComputes
<1>5. TurnComputes(p)'
  <2>1. (IF verdict'[p] = NoStatus THEN status ELSE verdict'[p]) = new
    BY <1>1, <1>2, <1>4, NullsAssumption
  <2> HIDE DEF new
  <2>2. (IF verdict'[p] = NoStatus THEN status' ELSE verdict'[p]) = new'
    BY <1>2, <1>3, <2>1
  <2> USE DEF new
  <2> QED
    BY <1>2, <2>2 DEF TurnComputes
<1> HIDE DEF new
<1>6. TurnMarks(p)'
  BY <1>1, <1>2, SameSight DEF Turn, TurnMarks
<1>7. TurnSigns(p)'
  BY <1>1, <1>2, <1>3, SameSight DEF Turn, TurnSigns, Rendering
<1>8. TurnWithdraws(p)'
  BY <1>1, <1>2, <1>3, SameSight DEF Turn, TurnWithdraws, Rendering
<1>9. TurnRebuilds(p)'
  BY <1>1, <1>2, SameSight DEF Turn, TurnRebuilds, Rendering, Asks
<1>10. TurnAnnotates(p)'
  BY <1>1, <1>2, SameSight DEF Turn, TurnAnnotates, Asks
<1>11. TurnDefines(p)' /\ TurnSubmits(p)'
  BY <1>1, <1>2, <1>4, SameSight DEF Turn, TurnDefines, TurnSubmits
<1> QED
  BY <1>5, <1>6, <1>7, <1>8, <1>9, <1>10, <1>11 DEF Turn

\* The regions a submission was let through for stay signed.
LEMMA GateTurn ==
  ASSUME Ready, NEW p \in Requests, GateSubmit(p), Active(p)'
  PROVE  Turn(p)'
<1>1. pc[p] = "loadRegions" /\ op[p].kind = "submit"
  BY DEF GateSubmit
<1>2. ~End(p, "failed")
  BY DEF End, Goto, Active, Ready, Owned, Held, Typed, TypeOK
<1>3. /\ UNCHANGED <<regions, row, status, final, notes, holder, dirty, op>>
      /\ SubmitAllowed(p) /\ pc'[p] = "submit"
  BY <1>2 DEF GateSubmit, Goto, Ready, Owned, Held, Typed, TypeOK, database, locks
<1>4. ~Asks(p, SignKinds) /\ ~Asks(p, WithdrawKinds) /\ ~Asks(p, {"define"})
        /\ Asks(p, {"submit"}) /\ \A r \in Regions : holder[r] # p
  BY <1>1, ConstantsAssumption DEF OpsAdmitted, Typed, Active, Asks, SignKinds, WithdrawKinds, Ready, Owned, Held, Phases
<1>5. TurnMarks(p)' /\ TurnSigns(p)' /\ TurnWithdraws(p)' /\ TurnDefines(p)' /\ TurnSubmits(p)'
  BY <1>3, <1>4, SameSight DEF TurnMarks, TurnSigns, TurnWithdraws, TurnDefines, TurnSubmits
<1>6. TurnRebuilds(p)' /\ TurnAnnotates(p)' /\ TurnComputes(p)'
  BY <1>3 DEF TurnRebuilds, TurnAnnotates, TurnComputes, Marking, Rendering
<1> QED
  BY <1>5, <1>6 DEF Turn

\* A request that has written its annotation or its regions goes on to the audit
\* entry, and for an annotation to the rebuild.
LEMMA NoteTurn ==
  ASSUME Ready, NEW p \in Requests,
         DefineRegions(p) \/ WriteNote(p) \/ WriteLog(p) \/ LoadFinal(p), Active(p)'
  PROVE  Turn(p)'
<1>1. /\ Active(p) /\ Turn(p) /\ UNCHANGED <<op, holder, row, dirty>>
      /\ Asks(p, NoteKinds \cup {"define"})
      /\ \/ pc'[p] = "log"
         \/ pc'[p] \in {"loadFinal", "loadRegions"} /\ ~Asks(p, {"define"})
  <2>1. CASE DefineRegions(p)
    BY <2>1, ConstantsAssumption
       DEF DefineRegions, Goto, Active, Asks, Ready, Owned, Held, Typed, TypeOK, OpsAdmitted, locks
  <2>2. CASE WriteNote(p)
    BY <2>2 DEF WriteNote, Goto, Active, Ready, Owned, Held, Typed, TypeOK, Phases, locks
  <2>3. CASE WriteLog(p)
    BY <2>3 DEF WriteLog, Goto, Active, Asks, Ready, Owned, Held, Typed, TypeOK, Phases, locks
  <2>4. CASE LoadFinal(p)
    <3>1. ~Asks(p, {"define"})
      BY <2>4 DEF LoadFinal, Active, Ready, Turn, TurnDefines
    <3> QED
      BY <2>4, <3>1 DEF LoadFinal, Goto, Active, Ready, Owned, Held, Typed, TypeOK, Phases, locks, database
  <2> QED
    BY <2>1, <2>2, <2>3, <2>4
<1>2. ~Asks(p, SignKinds)' /\ ~Asks(p, WithdrawKinds)' /\ ~Asks(p, {"submit"})'
        /\ \A r \in Regions : holder'[r] # p
  BY <1>1 DEF Asks, SignKinds, WithdrawKinds, NoteKinds, Ready, Owned, Held, Phases
<1>3. TurnMarks(p)' /\ TurnSigns(p)' /\ TurnWithdraws(p)'
  BY <1>1, <1>2 DEF TurnMarks, TurnSigns, TurnWithdraws
<1>4. TurnRebuilds(p)' /\ TurnAnnotates(p)' /\ TurnComputes(p)' /\ TurnSubmits(p)'
  BY <1>1, <1>2 DEF TurnRebuilds, TurnAnnotates, TurnComputes, TurnSubmits, Marking, Rendering
<1>5. TurnDefines(p)'
  BY <1>1 DEF TurnDefines, Asks
<1> QED
  BY <1>3, <1>4, <1>5 DEF Turn

\* A committing request of either kind leaves whole rows, its own and the others'.
LEMMA WholeViews ==
  ASSUME Ready, NEW p \in Requests, Active(p)
  PROVE  \A r \in Regions : Whole(View(p)[r])
<1> SUFFICES ASSUME NEW r \in Regions PROVE Whole(View(p)[r])
  OBVIOUS
<1>1. Turn(p) /\ p # NoImage
  BY ConstantsAssumption DEF Ready
<1>2. CASE holder[r] = p
  <2>1. View(p)[r] = MarkTarget(p)
    BY <1>1, <1>2 DEF View, Turn, TurnMarks
  <2> QED
    BY <1>1, <2>1 DEF MarkTarget, Blank, Whole
<1>3. CASE holder[r] # p
  BY <1>3 DEF View, Ready, WholeRows
<1> QED
  BY <1>2, <1>3

\* One step keeps the rows whole, and what the active request knows.
LEMMA ReadyStep == MaxActive = 1 /\ Ready /\ [Next]_vars => WholeRows' /\ (\A p \in Requests : Active(p) => Turn(p))'
<1> SUFFICES ASSUME MaxActive = 1, Ready, [Next]_vars
             PROVE  WholeRows' /\ \A p \in Requests : Active(p)' => Turn(p)'
  OBVIOUS
<1>1. ASSUME NEW p \in Requests,
             (\E o \in Ops : Arrive(p, o)) \/ Step(p) \/ Abort(p) \/ DeadlockVictim(p)
      PROVE  \A q \in Requests : Active(q)' => Turn(q)'
  <2>1. \A q \in Requests \ {p} : ~Active(q)'
    <3>1. \A q \in Requests \ {p} : ~Active(q)
      BY <1>1, Turns, ArrivesAlone DEF Ready, Owned, Held, OneAtATime
    <3> QED
      BY <1>1, <3>1, Turns DEF Active, Ready, Owned, Held
  <2>2. Active(p)' => Turn(p)'
    <3> SUFFICES ASSUME Active(p)' PROVE Turn(p)'
      OBVIOUS
    <3>1. ~End(p, "done") /\ ~End(p, "failed")
      BY DEF End, Goto, Active, Ready, Owned, Held, Typed, TypeOK
    <3>2. ~Publish(p) /\ ~SubmitDocument(p) /\ ~Abort(p) /\ ~DeadlockVictim(p)
      BY <3>1 DEF Publish, SubmitDocument, Abort, DeadlockVictim
    <3>3. \/ \E o \in Ops : Arrive(p, o)
          \/ \E r \in Regions : CheckRegion(p, r) \/ SelectRegion(p, r)
          \/ LoadForSigning(p) \/ LoadForRebuild(p) \/ LoadNotes(p)
          \/ UpdateRegion(p) \/ ReadStatus(p) \/ ReadRegions(p) \/ GateSubmit(p)
          \/ DefineRegions(p) \/ WriteNote(p) \/ WriteLog(p) \/ LoadFinal(p)
      BY <1>1, <3>2 DEF Step
    <3> QED
      BY <3>3, ArriveTurn, CheckTurn, SelectTurn, LoadForSigningTurn, LoadForRebuildTurn, LoadNotesTurn,
         UpdateTurn, ReadStatusTurn, ReadRegionsTurn, GateTurn, NoteTurn
  <2> QED
    BY <2>1, <2>2
<1>2. ASSUME UNCHANGED vars PROVE \A q \in Requests : Active(q)' => Turn(q)'
  <2> SUFFICES ASSUME NEW q \in Requests, Active(q)' PROVE Turn(q)'
    OBVIOUS
  <2>1. Active(q) /\ Turn(q)
    BY <1>2 DEF vars, Active, Ready
  <2>2. UNCHANGED <<regions, row, status, final, notes, holder, dirty, pc, op, todo, picked, want,
                    loaded, pdf, verdict>>
    BY <1>2 DEF vars
  <2>3. Work(q)' = Work(q)
    BY <2>2 DEF Work
  <2>4. TurnMarks(q)' /\ TurnSigns(q)' /\ TurnWithdraws(q)' /\ TurnRebuilds(q)'
    BY <2>1, <2>2, <2>3, SameSight DEF Turn, TurnMarks, TurnSigns, TurnWithdraws, TurnRebuilds, Asks
  <2>5. TurnAnnotates(q)' /\ TurnDefines(q)' /\ TurnComputes(q)' /\ TurnSubmits(q)'
    BY <2>1, <2>2, SameSight DEF Turn, TurnAnnotates, TurnDefines, TurnComputes, TurnSubmits, Asks
  <2> QED
    BY <2>4, <2>5 DEF Turn
<1>3. WholeRows'
  <2>1. ASSUME NEW p \in Requests, Publish(p) PROVE WholeRows'
    <3>1. Active(p) /\ row' = [r \in Regions |-> View(p)[r]]
      BY <2>1 DEF Publish, View, Active
    <3> QED
      BY <3>1, WholeViews DEF WholeRows
  <2>2. ASSUME UNCHANGED row PROVE WholeRows'
    BY <2>2 DEF WholeRows, Ready
  <2>3. ASSUME NEW p \in Requests,
               \/ \E o \in Ops : Arrive(p, o)
               \/ \E r \in Regions : CheckRegion(p, r) \/ SelectRegion(p, r)
               \/ LoadForSigning(p) \/ LoadForRebuild(p) \/ LoadNotes(p)
               \/ UpdateRegion(p) \/ ReadStatus(p) \/ ReadRegions(p)
               \/ DefineRegions(p) \/ GateSubmit(p) \/ SubmitDocument(p)
               \/ WriteNote(p) \/ WriteLog(p) \/ LoadFinal(p)
               \/ Abort(p) \/ DeadlockVictim(p)
        PROVE  UNCHANGED row
    BY <2>3 DEF Arrive, CheckRegion, SelectRegion, LoadForSigning, LoadForRebuild, LoadNotes,
                UpdateRegion, ReadStatus, ReadRegions, DefineRegions, GateSubmit,
                SubmitDocument, WriteNote, WriteLog, LoadFinal, Abort, DeadlockVictim, database
  <2>4. UNCHANGED vars => UNCHANGED row
    BY DEF vars
  <2> QED
    BY <2>1, <2>2, <2>3, <2>4 DEF Next, Step, AllAnswered
<1> QED
  BY <1>1, <1>2, <1>3 DEF Next, AllAnswered

\* With one request at a time the active one knows what it needs to, always.
LEMMA ReadyInvariant == ASSUME MaxActive = 1 PROVE Spec => []Ready
<1> DEFINE Serial == OneAtATime /\ WholeRows /\ \A p \in Requests : Active(p) => Turn(p)
<1>1. Init => Serial
  <2>1. Init => \A p \in Requests : ~Active(p)
    BY DEF Init, Active
  <2>2. Init => WholeRows
    BY DEF Init, WholeRows, Whole, Blank
  <2> QED
    BY <2>1, <2>2 DEF OneAtATime
<1>2. Owned /\ Backed /\ Serial /\ [Next]_vars => Serial'
  BY OneAtATimeStep, ReadyStep DEF Ready, Owned, Held
<1>3. Owned /\ Backed /\ Serial <=> Ready
  BY DEF Ready
<1> QED
  BY <1>1, <1>2, <1>3, OwnedInvariant, BackedInvariant, PTL DEF Spec

-----------------------------------------------------------------------------
(* The refinement *)

\* The status of SignedDocument is the one the code computes.
LEMMA ProgressIsRecomputed ==
  ASSUME NEW total, NEW signed \in SUBSET total
  PROVE  Promise!Progress(total, signed) = RecomputedStatus(total, signed)
<1>1. CASE total = {}
  BY <1>1 DEF RecomputedStatus, Promise!Progress
<1>2. CASE total # {} /\ signed = {}
  BY <1>2 DEF RecomputedStatus, Promise!Progress
<1>3. CASE signed # {} /\ signed # total
  <2>1. total # {}
    BY <1>3
  <2> QED
    BY <1>3, <2>1, Zenon DEF RecomputedStatus, Promise!Progress
<1>4. CASE signed # {} /\ signed = total
  BY <1>4, Zenon DEF RecomputedStatus, Promise!Progress
<1> QED
  BY <1>1, <1>2, <1>3, <1>4

\* A region shows a signature if its row is signed.
LEMMA AppliedIffSigned ==
  ASSUME NEW rows \in [Regions -> Row], \A r \in Regions : Whole(rows[r]), NEW r \in Regions
  PROVE  /\ Applied(rows)[r] # NoImage <=> rows[r].signed
         /\ Applied(rows)[r] = rows[r].image
  BY DEF Applied, Whole, Row

\* A commit records the signatures its request sees, and publishes a PDF and a
\* status that follow from them.
LEMMA PublishRecords ==
  ASSUME Ready, NEW p \in Requests, Publish(p)
  PROVE  /\ Promise!Record(Applied(View(p))) /\ pdf[p].stamps = Applied(View(p))
         /\ Asks(p, SignKinds) \/ Asks(p, WithdrawKinds) \/ Asks(p, NoteKinds)
<1> DEFINE sig == Applied(View(p))
           signed == {r \in regions : View(p)[r].signed}
<1>1. /\ pc[p] = "publish" /\ Active(p) /\ Turn(p) /\ op[p] \in Ops /\ op[p].kind # "define"
      /\ View(p) \in [Regions -> Row] /\ regions \subseteq Regions /\ pdf[p] \in Pdf
      /\ todo[p] = {} /\ want[p] = NoRegion
  BY ViewTyped DEF Publish, Active, Ready, Owned, Held, Typed, TypeOK, OpsAdmitted, Phases
<1>2. \A r \in Regions : Whole(View(p)[r])
  BY <1>1, WholeViews
<1>3. row' = View(p) /\ final' = pdf[p] /\ UNCHANGED <<regions, notes>>
  BY DEF Publish, View
<1>4. Asks(p, SignKinds) \/ Asks(p, WithdrawKinds) \/ Asks(p, NoteKinds)
  <2>1. op[p].kind # "submit"
    <3>1. ~Asks(p, {"submit"})
      BY <1>1 DEF Turn, TurnSubmits
    <3> QED
      BY <1>1, <3>1, ConstantsAssumption DEF Asks
  <2> QED
    BY <1>1, <2>1, ConstantsAssumption DEF Asks, Operation, Kinds
<1>5. pdf[p].stamps = sig
  <2>1. CASE Asks(p, SignKinds)
    <3>1. /\ Work(p) = SignTargets(p)
          /\ pdf[p].stamps = [r \in Regions |-> IF r \in SignTargets(p) THEN p ELSE Applied(row)[r]]
      BY <1>1, <2>1 DEF Turn, TurnSigns, Rendering
    <3>2. \A r \in Regions : r \in SignTargets(p) <=> holder[r] = p
      BY <1>1, <3>1, ConstantsAssumption DEF Work
    <3>3. \A r \in Regions : holder[r] = p => View(p)[r] = [signed |-> TRUE, image |-> p]
      BY <1>1, <2>1 DEF View, Turn, TurnMarks, MarkTarget, Asks
    <3>4. \A r \in Regions : holder[r] # p => View(p)[r] = row[r]
      BY DEF View
    <3>5. \A r \in Regions : sig[r] = IF r \in SignTargets(p) THEN p ELSE Applied(row)[r]
      BY <3>2, <3>3, <3>4 DEF Applied
    <3> QED
      BY <3>1, <3>5 DEF Applied
  <2>2. CASE Asks(p, WithdrawKinds) \/ Asks(p, NoteKinds)
    BY <1>1, <2>2, OneKind DEF Turn, TurnRebuilds, Rendering
  <2> QED
    BY <1>4, <2>1, <2>2
<1>6. pdf[p].notes = notes
  BY <1>1, <1>4, OneKind DEF Turn, TurnAnnotates
<1>7. final' = Promise!RenderedFrom(sig)
  BY <1>1, <1>3, <1>5, <1>6 DEF Pdf, Promise!RenderedFrom
<1>8. Promise!Signed(sig) = signed
  BY <1>1, <1>2, AppliedIffSigned DEF Promise!Signed
<1>9. status' = RecomputedStatus(regions, signed)
  BY <1>1, <1>4, OneKind DEF Publish, Turn, TurnComputes
<1>10. status' = Promise!Progress(regions, Promise!Signed(sig))
  BY <1>8, <1>9, ProgressIsRecomputed
<1> QED
  BY <1>3, <1>4, <1>5, <1>7, <1>10 DEF Promise!Record

\* The commit of a signing request is a signer's Sign.
LEMMA PublishSigns ==
  ASSUME Ready, NEW p \in Requests, Publish(p), Asks(p, SignKinds)
  PROVE  Promise!Sign(p, op[p].by, SignTargets(p)) /\ op[p].by \in Users
                                                   /\ SignTargets(p) \in SUBSET Regions
<1>1. /\ pc[p] = "publish" /\ Active(p) /\ Turn(p) /\ op[p] \in Ops /\ regions \subseteq Regions
  BY DEF Publish, Active, Ready, Owned, Held, Typed, TypeOK, OpsAdmitted
<1>2. /\ SignTargets(p) # {}
      /\ pdf[p].stamps = [r \in Regions |-> IF r \in SignTargets(p) THEN p ELSE Applied(row)[r]]
  BY <1>1 DEF Turn, TurnSigns, Rendering
<1>3. SignTargets(p) \subseteq regions
  BY <1>1 DEF SignTargets, Asks, Ready, Backed, RegionsExist, WorksOnRegions
<1>4. \A r \in SignTargets(p) : Assignee[r] = op[p].by
  BY <1>1, SignTargetsMine DEF Mine, Asks, Ready, Owned, Held
<1>5. Promise!Record([r \in Regions |-> IF r \in SignTargets(p) THEN p ELSE Applied(row)[r]])
  BY <1>2, PublishRecords
<1>6. op[p].by \in Users
  BY <1>1, ConstantsAssumption DEF Operation
<1> QED
  BY <1>1, <1>2, <1>3, <1>4, <1>5, <1>6 DEF Promise!Sign, Promise!RegionsOf

\* The commit of an unsign or a discard is a Withdraw of the regions it holds.
LEMMA PublishWithdraws ==
  ASSUME Ready, NEW p \in Requests, Publish(p), Asks(p, WithdrawKinds)
  PROVE  Promise!Withdraw(op[p].by, {r \in Regions : holder[r] = p}) /\ op[p].by \in Users
<1> DEFINE R == {r \in Regions : holder[r] = p}
<1>1. /\ pc[p] = "publish" /\ Active(p) /\ Turn(p) /\ op[p] \in Ops
      /\ todo[p] = {} /\ want[p] = NoRegion /\ row \in [Regions -> Row]
  BY DEF Publish, Active, Ready, Owned, Held, Typed, TypeOK, OpsAdmitted, Phases
<1>2. Work(p) = R
  BY <1>1, ConstantsAssumption DEF Work
<1>3. R # {} /\ \A r \in R : row[r].signed
  BY <1>1, <1>2 DEF Turn, TurnWithdraws, Rendering
<1>4. \A r \in R : r \in regions /\ Assignee[r] = op[p].by
  BY ConstantsAssumption DEF Ready, Owned, OwnRowsOnly, Mine, Backed, RegionsExist, RowsExist
<1>5. \A r \in R : Applied(row)[r] # NoImage
  BY <1>1, <1>3, AppliedIffSigned DEF Ready, WholeRows
<1>6. Applied(View(p)) = [r \in Regions |-> IF r \in R THEN NoImage ELSE Applied(row)[r]]
  <2>1. MarkTarget(p) = Blank
    BY OneKind DEF MarkTarget, Asks, SignKinds, WithdrawKinds
  <2>2. \A r \in Regions : View(p)[r] = IF r \in R THEN Blank ELSE row[r]
    BY <1>1, <2>1 DEF View, Turn, TurnMarks
  <2> QED
    BY <2>2 DEF Applied, Blank
<1>7. op[p].by \in Users
  BY <1>1, ConstantsAssumption DEF Operation
<1>8. Promise!Record([r \in Regions |-> IF r \in R THEN NoImage ELSE Applied(row)[r]])
  BY <1>6, PublishRecords
<1> QED
  BY <1>3, <1>4, <1>5, <1>7, <1>8 DEF Promise!Withdraw, Promise!RegionsOf, Promise!Signed

\* The commit of a rebuild after an annotation change is a RefreshPdf.
LEMMA PublishRefreshes ==
  ASSUME Ready, NEW p \in Requests, Publish(p), Asks(p, NoteKinds)
  PROVE  Promise!RefreshPdf
<1>1. /\ pc[p] = "publish" /\ Turn(p) /\ row \in [Regions -> Row]
      /\ \A r \in Regions : holder[r] # p
  BY OneKind DEF Publish, Active, Ready, Owned, Held, Typed, TypeOK, Phases
<1>2. View(p) = row
  BY <1>1 DEF View
<1>3. PICK r \in Regions : Applied(row)[r] # NoImage
  BY <1>1, OneKind DEF Turn, TurnRebuilds, Rendering
<1>4. row[r] # Blank
  BY <1>3 DEF Applied, Blank
<1>5. r \in Promise!Signed(Applied(row))
  BY <1>3, <1>4 DEF Promise!Signed, Ready, Backed, RegionsExist, RowsExist
<1> QED
  BY <1>2, <1>5, PublishRecords DEF Promise!RefreshPdf

\* Every step with one request at a time is a step of SignedDocument or changes
\* nothing that it speaks of.
LEMMA PromiseStep == Ready /\ [Next]_vars => [Promise!Next]_(Promise!vars)
<1> SUFFICES ASSUME Ready, [Next]_vars PROVE [Promise!Next]_(Promise!vars)
  OBVIOUS
<1>1. ASSUME NEW p \in Requests, Publish(p) PROVE Promise!Next
  <2>1. CASE Asks(p, SignKinds)
    BY <1>1, <2>1, PublishSigns DEF Promise!Next
  <2>2. CASE Asks(p, WithdrawKinds)
    <3>1. {r \in Regions : holder[r] = p} \in SUBSET Regions
      OBVIOUS
    <3> QED
      BY <1>1, <2>2, <3>1, PublishWithdraws DEF Promise!Next
  <2>3. CASE Asks(p, NoteKinds)
    BY <1>1, <2>3, PublishRefreshes DEF Promise!Next
  <2> QED
    BY <1>1, <2>1, <2>2, <2>3, PublishRecords
<1>2. ASSUME NEW p \in Requests, DefineRegions(p) PROVE Promise!Next
  <2>1. Turn(p) /\ Asks(p, {"define"}) /\ op[p] \in Ops
    BY <1>2, ConstantsAssumption
       DEF DefineRegions, Asks, Active, Ready, Owned, Held, Typed, OpsAdmitted
  <2>2. op[p].targets \cap regions = {} /\ verdict[p] = status
    BY <1>2, <2>1 DEF DefineRegions, Turn, TurnDefines
  <2>3. op[p].targets \in SUBSET Regions
    BY <2>1, ConstantsAssumption DEF Operation
  <2>4. Promise!Define(op[p].targets)
    BY <1>2, <2>2 DEF DefineRegions, Promise!Define
  <2> QED
    BY <2>3, <2>4 DEF Promise!Next
<1>3. ASSUME NEW p \in Requests, SubmitDocument(p) PROVE Promise!Next
  <2>1. Turn(p) /\ op[p] \in Ops /\ row \in [Regions -> Row] /\ regions \subseteq Regions
    BY <1>3 DEF SubmitDocument, Active, Ready, Owned, Held, Typed, TypeOK, OpsAdmitted
  <2>2. SubmitAllowed(p)
    BY <1>3, <2>1 DEF SubmitDocument, Turn, TurnSubmits
  <2>3. \A r \in Regions : row[r].signed => Applied(row)[r] # NoImage
    BY <2>1, AppliedIffSigned DEF Ready, WholeRows
  <2>4. Promise!Submit(op[p].by)
    BY <1>3, <2>1, <2>2, <2>3
       DEF SubmitDocument, SubmitAllowed, Promise!Submit, Promise!RegionsOf, Promise!Signed
  <2>5. op[p].by \in Users
    BY <2>1, ConstantsAssumption DEF Operation
  <2> QED
    BY <2>4, <2>5 DEF Promise!Next
<1>4. ASSUME NEW p \in Requests, WriteNote(p) PROVE [Promise!Next]_(Promise!vars)
  <2>1. op[p] \in Ops /\ notes \subseteq Notes
    BY <1>4 DEF WriteNote, Ready, Owned, Held, Typed, TypeOK, OpsAdmitted
  <2>2. CASE UNCHANGED notes
    BY <1>4, <2>2 DEF WriteNote, Promise!vars
  <2>3. CASE notes' # notes
    <3>1. op[p].note \in Notes
      BY <1>4, <2>1, <2>3, ConstantsAssumption DEF WriteNote, NoteKinds
    <3>2. Promise!Annotate(op[p].note)
      BY <1>4, <2>3 DEF WriteNote, Promise!Annotate
    <3> QED
      BY <3>1, <3>2 DEF Promise!Next
  <2> QED
    BY <2>2, <2>3
<1>5. ASSUME NEW p \in Requests,
             \/ \E o \in Ops : Arrive(p, o)
             \/ \E r \in Regions : CheckRegion(p, r) \/ SelectRegion(p, r)
             \/ LoadForSigning(p) \/ LoadForRebuild(p) \/ LoadNotes(p)
             \/ UpdateRegion(p) \/ ReadStatus(p) \/ ReadRegions(p)
             \/ GateSubmit(p) \/ WriteLog(p) \/ LoadFinal(p)
             \/ Abort(p) \/ DeadlockVictim(p)
      PROVE  UNCHANGED <<regions, row, status, final, notes>>
  BY <1>5 DEF Arrive, CheckRegion, SelectRegion, LoadForSigning, LoadForRebuild, LoadNotes,
              UpdateRegion, ReadStatus, ReadRegions, GateSubmit, WriteLog, LoadFinal, Abort,
              DeadlockVictim, database
<1>6. UNCHANGED vars => UNCHANGED <<regions, row, status, final, notes>>
  BY DEF vars
<1>7. UNCHANGED <<regions, row, status, final, notes>> => UNCHANGED Promise!vars
  BY DEF Promise!vars
<1> QED
  BY <1>1, <1>2, <1>3, <1>4, <1>5, <1>6, <1>7 DEF Next, Step, AllAnswered

\* KeepsPromise: with one request at a time the service implements
\* SignedDocument.  Whatever order requests come in and wherever they fail, every
\* commit that changes a signature publishes a PDF of all the signatures on record
\* and the annotations, and a status that follows from them
\* (document_workflow_service.py).
THEOREM SerialKeepsPromise == ASSUME MaxActive = 1 PROVE Spec => KeepsPromise
<1>1. Init => Promise!Init
  <2> SUFFICES ASSUME Init PROVE Promise!Init
    OBVIOUS
  <2>1. Applied(row) = [r \in Regions |-> NoImage]
    BY DEF Init, Applied, Blank
  <2>2. status = Promise!Progress(InitialRegions, {})
    BY ProgressIsRecomputed DEF Init
  <2> QED
    BY <2>1, <2>2 DEF Init, Promise!Init
<1> QED
  BY <1>1, ReadyInvariant, PromiseStep, PTL DEF Spec, KeepsPromise, Promise!Spec

-----------------------------------------------------------------------------
(* The annotations of the signed PDF *)

\* A step that changes neither rows, PDF nor annotations, of a request that does
\* not end unless it is for no annotation, or fails.
LEMMA SyncKept ==
  ASSUME Ready, SyncUnderWay, NEW p \in Requests,
         UNCHANGED <<row, final, notes>>,
         \A q \in Requests \ {p} : pc'[q] = pc[q] /\ op'[q] = op[q],
         pc[p] # "failed",
         pc'[p] = "failed"
           \/ (Active(p) /\ op'[p] = op[p]
                 /\ (Asks(p, NoteKinds) => Active(p)' /\ pc'[p] # "writeNote"))
           \/ ~Active(p)
  PROVE  SyncUnderWay'
<1> SUFFICES ASSUME \A q \in Requests : pc'[q] # "failed",
                    final' # NoPdf, \E r \in Regions : row'[r].signed, final'.notes # notes'
             PROVE  \E q \in Requests : Active(q)' /\ Asks(q, NoteKinds)' /\ pc'[q] # "writeNote"
  BY DEF SyncUnderWay
<1>1. \A q \in Requests : pc[q] # "failed"
  OBVIOUS
<1>2. PICK q \in Requests : Active(q) /\ Asks(q, NoteKinds) /\ pc[q] # "writeNote"
  BY <1>1 DEF SyncUnderWay
<1>3. CASE q = p
  BY <1>2, <1>3 DEF Asks
<1>4. CASE q # p
  BY <1>2, <1>4 DEF Active, Asks
<1> QED
  BY <1>3, <1>4

\* One step keeps the annotations in sync or under way.
LEMMA SyncStep == Ready /\ SyncUnderWay /\ [Next]_vars => SyncUnderWay'
<1> SUFFICES ASSUME Ready, SyncUnderWay, [Next]_vars PROVE SyncUnderWay'
  OBVIOUS
<1>1. ASSUME NEW p \in Requests, Publish(p) PROVE SyncUnderWay'
  <2>1. final' = Promise!RenderedFrom(Applied(View(p))) /\ notes' = notes
    BY <1>1, PublishRecords DEF Promise!Record
  <2> QED
    BY <2>1 DEF SyncUnderWay, Promise!RenderedFrom
<1>2. ASSUME NEW p \in Requests, WriteNote(p) PROVE SyncUnderWay'
  <2>1. Asks(p, NoteKinds) /\ op' = op
    BY <1>2 DEF WriteNote, Active, Ready, Owned, Held, Phases, Turn, TurnDefines, Asks
  <2>2. pc'[p] \in {"log", "failed"}
    BY <1>2 DEF WriteNote, Goto, Ready, Owned, Held, Typed, TypeOK
  <2> QED
    BY <2>1, <2>2 DEF SyncUnderWay, Active, Asks
<1>3. ASSUME NEW p \in Requests, LoadForRebuild(p), Asks(p, NoteKinds), pc'[p] = "done"
      PROVE  SyncUnderWay'
  <2>1. Applied(View(p)) = BlankPdf.stamps /\ row' = row
    BY <1>3 DEF LoadForRebuild, Goto, Ready, Owned, Held, Typed, TypeOK, database
  <2>2. \A r \in Regions : holder[r] # p
    BY <1>3, OneKind DEF Ready, Owned, Held, Phases
  <2>3. View(p) = row /\ row \in [Regions -> Row]
    BY <2>2 DEF View, Ready, Owned, Held, Typed, TypeOK
  <2>4. \A r \in Regions : ~row[r].signed
    BY <2>1, <2>3, AppliedIffSigned DEF BlankPdf, Ready, WholeRows
  <2> QED
    BY <2>1, <2>4 DEF SyncUnderWay
<1>4. ASSUME NEW p \in Requests, LoadFinal(p), pc'[p] = "done" PROVE SyncUnderWay'
  BY <1>4 DEF LoadFinal, PdfToRebuild, Goto, SyncUnderWay, Ready, Owned, Held, Typed, TypeOK, database
<1>5. ASSUME NEW p \in Requests,
             (\E o \in Ops : Arrive(p, o)) \/ Step(p) \/ Abort(p) \/ DeadlockVictim(p),
             ~Publish(p), ~WriteNote(p),
             ~(LoadForRebuild(p) /\ Asks(p, NoteKinds) /\ pc'[p] = "done"),
             ~(LoadFinal(p) /\ pc'[p] = "done")
      PROVE  SyncUnderWay'
  <2> DEFINE Follows == pc'[p] = "failed"
                          \/ (Active(p) /\ op'[p] = op[p]
                                /\ (Asks(p, NoteKinds) => Active(p)' /\ pc'[p] # "writeNote"))
                          \/ ~Active(p)
             Stays == UNCHANGED <<row, final, notes>>
  <2> USE DEF Goto, Ready, Owned, Held, Typed, TypeOK
  <2>1. pc[p] # "failed" /\ \A q \in Requests \ {p} : pc'[q] = pc[q] /\ op'[q] = op[q]
    BY <1>5, Turns DEF Active, Arrive
  <2>2. ASSUME NEW o \in Ops, Arrive(p, o) PROVE Stays /\ Follows
    BY <2>2 DEF Arrive, Active, database
  <2>3. ASSUME NEW r \in Regions, CheckRegion(p, r) PROVE Stays /\ Follows
    <3>1. ~Asks(p, NoteKinds)
      BY <2>3, OneKind DEF CheckRegion, Phases
    <3> QED
      BY <2>3, <3>1 DEF CheckRegion, End, Active, database
  <2>4. ASSUME NEW r \in Regions, SelectRegion(p, r) PROVE Stays /\ Follows
    BY <2>4 DEF SelectRegion, NextAfterMarks, Active, database
  <2>5. ASSUME LoadForSigning(p) PROVE Stays /\ Follows
    BY <2>5 DEF LoadForSigning, End, Active, database
  <2>6. ASSUME LoadForRebuild(p) PROVE Stays /\ Follows
    BY <1>5, <2>6 DEF LoadForRebuild, End, Active, database
  <2>7. ASSUME LoadNotes(p) \/ ReadStatus(p) \/ ReadRegions(p) PROVE Stays /\ Follows
    BY <2>7 DEF LoadNotes, ReadStatus, ReadRegions, Active, database
  <2>8. ASSUME UpdateRegion(p) PROVE Stays /\ Follows
    BY <2>8 DEF UpdateRegion, NextAfterMarks, Active, database
  <2>9. ASSUME DefineRegions(p) \/ GateSubmit(p) PROVE Stays /\ Follows
    BY <2>9 DEF DefineRegions, GateSubmit, End, Active, database
  <2>10. ASSUME SubmitDocument(p) PROVE Stays /\ Follows
    <3>1. ~Asks(p, NoteKinds)
      BY <2>10, OneKind DEF SubmitDocument, Active, Turn, TurnSubmits
    <3> QED
      BY <2>10, <3>1 DEF SubmitDocument, End, Active
  <2>11. ASSUME WriteLog(p) PROVE Stays /\ Follows
    BY <2>11 DEF WriteLog, Active, Asks, NoteKinds
  <2>12. ASSUME LoadFinal(p) PROVE Stays /\ Follows
    BY <1>5, <2>12 DEF LoadFinal, Active, database
  <2>13. ASSUME Abort(p) \/ DeadlockVictim(p) PROVE Stays /\ Follows
    BY <2>13 DEF Abort, DeadlockVictim, End, database
  <2>14. Stays /\ Follows
    BY <1>5, <2>2, <2>3, <2>4, <2>5, <2>6, <2>7, <2>8, <2>9, <2>10, <2>11, <2>12, <2>13 DEF Step
  <2> QED
    BY <2>1, <2>14, SyncKept
<1>6. CASE UNCHANGED vars
  BY <1>6 DEF vars, SyncUnderWay, Active, Asks
<1> QED
  BY <1>1, <1>2, <1>3, <1>4, <1>5, <1>6 DEF Next, AllAnswered

\* AnnotationsInSync: with one request at a time, once all requests have been
\* answered and none failed, the signed PDF shows the annotations on record
\* (_rebuild_final_pdf_if_signed).
THEOREM AnnotationsSync == ASSUME MaxActive = 1 PROVE Spec => []AnnotationsInSync
<1>1. Init => SyncUnderWay
  BY DEF Init, SyncUnderWay, Blank
<1>2. SyncUnderWay => AnnotationsInSync
  BY DEF SyncUnderWay, AnnotationsInSync
<1> QED
  BY <1>1, <1>2, ReadyInvariant, SyncStep, PTL DEF Spec

-----------------------------------------------------------------------------
(* The requests themselves do not depend on what is remembered. *)

\* Requests that save signatures are requests of SigningWorkflow.
LEMMA SavingRefines == RememberSpec => Spec
<1>1. RememberInit => Init
  BY DEF RememberInit
<1>2. [RememberNext]_<<vars, saves>> => [Next]_vars
  BY DEF RememberNext, SaveStep, FindSaved, WriteSaved, AbortSave
<1> QED
  BY <1>1, <1>2, PTL DEF RememberSpec, Spec

-----------------------------------------------------------------------------
(* The inductive invariant, part by part *)

SavesTyped ==
  /\ saved \in [Users -> Saved \cup {NoSaved}]
  /\ saving \in [Requests -> {"none", "find", "write", "done", "duplicate", "failed"}]
  /\ found \in [Requests -> Saved \cup {NoSaved}]
  /\ crossed \in SUBSET Users

\* Only a signing request that has committed saves a signature, its own.
SaversSigned ==
  \A p \in Requests : saving[p] # "none" =>
    p \in logged /\ Asks(p, SignKinds) /\ op[p].by \in Users /\ Given[p] \in Methods

\* A row has been saved by a signing request of its user that has committed, and
\* as it was given unless saves of this user have overlapped.
RowsGiven ==
  \A u \in Users : saved[u] # NoSaved =>
    LET p == saved[u].data
    IN  /\ op[p] # NoOp /\ op[p].by = u /\ p \in logged
        /\ u \notin crossed => saved[u].method = Given[p]

\* A save about to write has found the row as it is, unless another one has
\* overlapped it; a row that was found is never gone.
FoundIsSaved ==
  \A p \in Requests : saving[p] = "write" =>
    /\ found[p] # NoSaved => saved[op[p].by] # NoSaved
    /\ op[p].by \notin crossed => found[p] = saved[op[p].by]
    /\ \A q \in Requests \ {p} :
         saving[q] = "write" /\ op[q].by = op[p].by => op[p].by \in crossed

DuplicatesCrossed == \A p \in Requests : saving[p] = "duplicate" => op[p].by \in crossed

Remembered == SavesTyped /\ SaversSigned /\ RowsGiven /\ FoundIsSaved /\ DuplicatesCrossed

-----------------------------------------------------------------------------
(* The steps *)

\* A step of the requests starts saves of committed signatures, and leaves the
\* others and the rows alone.
LEMMA WorkStep ==
  Shown /\ Shown' /\ Remembered /\ Next /\ SignaturesGoOn /\ UNCHANGED <<saved, found, crossed>>
    => Remembered'
<1> SUFFICES ASSUME Shown, Shown', Remembered, Next, SignaturesGoOn, UNCHANGED <<saved, found, crossed>>
             PROVE  Remembered'
  OBVIOUS
<1> USE DEF Remembered
<1>1. Typed
  BY DEF Shown, Accounted, Owned, Held
<1>2. (\A q \in Requests : op[q] # NoOp => op'[q] = op[q]) /\ logged \subseteq logged'
  BY <1>1, OperationsKept
<1>3. \A p \in Requests : saving'[p] = IF Remembers(p) THEN "find" ELSE saving[p]
  BY DEF SignaturesGoOn
<1>4. ASSUME NEW p \in Requests, Remembers(p)
      PROVE  /\ saving[p] = "none" /\ p \in logged' /\ op'[p] = op[p]
             /\ Asks(p, SignKinds) /\ op[p].by \in Users /\ Given[p] \in Methods
  <2>1. Publish(p) /\ pc[p] = "publish"
    BY <1>1, <1>4, DoneByCommit DEF Remembers
  <2>2. op[p] \in Ops /\ op[p] # NoOp
    BY <1>1, <2>1, ConstantsAssumption DEF Typed, OpsAdmitted
  <2>3. Asks(p, SignKinds)
    BY <1>4, <2>2 DEF Remembers, Asks
  <2>4. saving[p] = "none"
    BY <2>1 DEF SaversSigned, Shown, LoggedLast
  <2>5. p \in logged'
    BY <2>1 DEF Publish
  <2>6. op[p].by \in Users
    BY <2>2, ConstantsAssumption DEF Operation
  <2>7. Given[p] \in Methods
    BY <1>4, GivenAssumption DEF Remembers
  <2> QED
    BY <1>2, <2>2, <2>3, <2>4, <2>5, <2>6, <2>7
<1>5. \A p \in Requests : saving[p] # "none" => op'[p] = op[p] /\ saving'[p] = saving[p]
  BY <1>2, <1>3, <1>4 DEF SaversSigned, Asks
<1>6. \A p \in Requests : saving'[p] # "none" => saving'[p] = "find" \/ saving'[p] = saving[p]
  BY <1>3
<1>7. SavesTyped'
  BY DEF SavesTyped, SignaturesGoOn
<1>8. SaversSigned'
  BY <1>2, <1>3, <1>4, <1>5 DEF SaversSigned, Asks
<1>9. RowsGiven'
  BY <1>2 DEF RowsGiven, SavesTyped, Saved
<1>10. \A p \in Requests : saving'[p] \in {"write", "duplicate"} => saving[p] = saving'[p] /\ op'[p] = op[p]
  BY <1>5, <1>6
<1>11. FoundIsSaved' /\ DuplicatesCrossed'
  BY <1>10 DEF FoundIsSaved, DuplicatesCrossed
<1> QED
  BY <1>7, <1>8, <1>9, <1>11

\* Looking up the row marks a user of whom another save is about to write.
LEMMA FindStep ==
  ASSUME Remembered, NEW p \in Requests, FindSaved(p)
  PROVE  Remembered'
<1> USE DEF Remembered
<1>1. op[p].by \in Users /\ saving[p] = "find"
  BY DEF FindSaved, SaversSigned
<1>2. /\ UNCHANGED <<saved, op, logged>>
      /\ saving' = [saving EXCEPT ![p] = "write"]
      /\ found' = [found EXCEPT ![p] = saved[op[p].by]]
      /\ crossed' \in SUBSET Users /\ crossed \subseteq crossed'
  BY <1>1 DEF FindSaved, SavesTyped, vars
<1>3. \A q \in Requests : saving[q] = "write" /\ op[q].by = op[p].by => op[p].by \in crossed'
  BY DEF FindSaved
<1>4. SavesTyped'
  BY <1>1, <1>2 DEF SavesTyped
<1>5. SaversSigned' /\ RowsGiven' /\ DuplicatesCrossed'
  BY <1>1, <1>2 DEF SavesTyped, SaversSigned, RowsGiven, DuplicatesCrossed, Asks
<1>6. FoundIsSaved'
  BY <1>1, <1>2, <1>3 DEF SavesTyped, FoundIsSaved
<1> QED
  BY <1>4, <1>5, <1>6

\* A save leaves a row that is its own, method and payload, unless it has
\* been overlapped.
LEMMA WriteStep ==
  ASSUME Remembered, NEW p \in Requests, WriteSaved(p)
  PROVE  Remembered'
<1> USE DEF Remembered
<1> DEFINE u == op[p].by
<1>1. /\ u \in Users /\ saving[p] = "write" /\ p \in logged /\ op[p] # NoOp /\ Given[p] \in Methods
      /\ found[p] # NoSaved => saved[u] # NoSaved
      /\ u \notin crossed => found[p] = saved[u]
      /\ \A q \in Requests \ {p} : saving[q] = "write" /\ op[q].by = u => u \in crossed
  BY DEF WriteSaved, SaversSigned, FoundIsSaved, Asks
<1>2. /\ UNCHANGED <<op, logged, crossed>>
      /\ found' = [found EXCEPT ![p] = NoSaved]
  BY DEF WriteSaved, vars
<1>3. ASSUME NEW r \in Saved, r.data = p, u \notin crossed => r.method = Given[p],
             saved' = [saved EXCEPT ![u] = r], saving' = [saving EXCEPT ![p] = "done"]
      PROVE  Remembered'
  <2>0. r # NoSaved
    BY GivenAssumption
  <2>1. SavesTyped'
    BY <1>1, <1>2, <1>3 DEF SavesTyped
  <2>2. SaversSigned' /\ DuplicatesCrossed'
    BY <1>1, <1>2, <1>3 DEF SavesTyped, SaversSigned, DuplicatesCrossed, Asks
  <2>3. RowsGiven'
    BY <1>1, <1>2, <1>3 DEF SavesTyped, RowsGiven
  <2>4. FoundIsSaved'
    BY <1>1, <1>2, <1>3, <2>0 DEF SavesTyped, SaversSigned, FoundIsSaved
  <2> QED
    BY <2>1, <2>2, <2>3, <2>4
<1>4. CASE found[p] # NoSaved /\ saved' = [saved EXCEPT ![u] = Overwritten(p, saved[u])]
             /\ saving' = [saving EXCEPT ![p] = "done"]
  <2>1. saved[u] \in Saved
    BY <1>1, <1>4 DEF SavesTyped
  <2>2. /\ Overwritten(p, saved[u]) \in Saved /\ Overwritten(p, saved[u]).data = p
        /\ found[p] = saved[u] => Overwritten(p, saved[u]).method = Given[p]
    BY <1>1, <2>1 DEF Overwritten, Saved
  <2> QED
    BY <1>1, <1>3, <1>4, <2>2
<1>5. CASE found[p] = NoSaved /\ saved' = [saved EXCEPT ![u] = [method |-> Given[p], data |-> p]]
             /\ saving' = [saving EXCEPT ![p] = "done"]
  <2>1. /\ [method |-> Given[p], data |-> p] \in Saved
        /\ [method |-> Given[p], data |-> p].data = p
        /\ [method |-> Given[p], data |-> p].method = Given[p]
    BY <1>1 DEF Saved
  <2> QED
    BY <1>3, <1>5, <2>1
<1>6. CASE found[p] = NoSaved /\ saved[u] # NoSaved /\ UNCHANGED saved
             /\ saving' = [saving EXCEPT ![p] = "duplicate"]
  <2>1. u \in crossed
    BY <1>1, <1>6
  <2>2. SavesTyped' /\ RowsGiven'
    BY <1>1, <1>2, <1>6 DEF SavesTyped, RowsGiven
  <2>3. SaversSigned' /\ DuplicatesCrossed'
    BY <1>1, <1>2, <1>6, <2>1 DEF SavesTyped, SaversSigned, DuplicatesCrossed, Asks
  <2>4. FoundIsSaved'
    BY <1>1, <1>2, <1>6 DEF SavesTyped, FoundIsSaved
  <2> QED
    BY <2>2, <2>3, <2>4
<1> QED
  BY <1>4, <1>5, <1>6 DEF WriteSaved

\* A request that dies leaves the rows alone.
LEMMA AbortStep ==
  ASSUME Remembered, NEW p \in Requests, AbortSave(p)
  PROVE  Remembered'
<1> USE DEF Remembered
<1>1. /\ UNCHANGED <<op, logged, crossed, saved>> /\ saving[p] # "none"
      /\ saving' = [saving EXCEPT ![p] = "failed"] /\ found' = [found EXCEPT ![p] = NoSaved]
  BY DEF AbortSave, Saving, vars
<1>2. SavesTyped' /\ SaversSigned' /\ RowsGiven' /\ DuplicatesCrossed'
  BY <1>1 DEF SavesTyped, SaversSigned, RowsGiven, DuplicatesCrossed, Asks
<1>3. FoundIsSaved'
  BY <1>1 DEF SavesTyped, FoundIsSaved
<1> QED
  BY <1>2, <1>3

\* RememberedAsGiven: what is remembered of a signer is what one of their own
\* committed signings gave, method and payload together, and remembering only
\* fails on the row of another save; both go wrong only for a signer of whom two
\* saves have overlapped (save_user_signature).
THEOREM RememberedRight == RememberSpec => []RememberedAsGiven
<1>1. RememberInit => Remembered
  BY DEF RememberInit, Remembered, SavesTyped, SaversSigned, RowsGiven, FoundIsSaved, DuplicatesCrossed
<1>2. Shown /\ Shown' /\ Remembered /\ [RememberNext]_<<vars, saves>> => Remembered'
  <2> SUFFICES ASSUME Shown, Shown', Remembered, [RememberNext]_<<vars, saves>> PROVE Remembered'
    OBVIOUS
  <2>1. CASE UNCHANGED <<vars, saves>>
    BY <2>1 DEF vars, saves, Remembered, SavesTyped, SaversSigned, RowsGiven, FoundIsSaved,
                DuplicatesCrossed, Asks
  <2> QED
    BY <2>1, WorkStep, FindStep, WriteStep, AbortStep DEF RememberNext, SaveStep
<1>3. Remembered => RememberedAsGiven
  BY DEF Remembered, RowsGiven, DuplicatesCrossed, RememberedAsGiven
<1> QED
  BY <1>1, <1>2, <1>3, SavingRefines, ShownInvariant, PTL DEF RememberSpec
=============================================================================
