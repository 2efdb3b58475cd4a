----------------------- MODULE EsignCompletion_proofs -----------------------
(***************************************************************************)
(* Proofs of the safety properties of EsignCompletion, for any number of   *)
(* submissions, signers and faults.                                        *)
(***************************************************************************)
EXTENDS EsignCompletion, TLAPS

-----------------------------------------------------------------------------
(* The inductive invariant, part by part *)

\* The steps of a handler between its UPDATE of documents and its commit.
Holding == {"mark", "check", "lookup", "commit"}

\* The documents row is locked by the one submission between its UPDATE and
\* its commit, if there is one.
RowHeld == \A p \in Submissions : lock = p <=> pc[p] \in Holding

\* A submission has the document its gate loaded, signed by its own signer,
\* once it is past the gate and not before; it finds all rows signed later still.
PastGate ==
  \A p \in Submissions :
    /\ pc[p] # "idle" => who[p] \in Signers
    /\ pc[p] \in {"idle", "gate"} => loaded[p] = NoDocument
    /\ pc[p] \in {"update", "done"} \cup Holding => PassedGate(p)
    /\ loaded[p] # "own"
    /\ allSigned[p] => PassedGate(p) /\ pc[p] \in {"lookup", "commit", "done", "failed"}

\* A task that is to complete the request has had its callback, which comes too
\* late only when the request is completed already, and is spoiled by a fault only.
CallbackSent ==
  \A p \in Submissions :
    /\ task[p] = "complete" => reply[p] # "none"
    /\ reply[p] = "tooLate" => request = "Completed"
    /\ reply[p] \in Spoiled => faults # 0

\* Until it has looked at the rows, a submission whose document another signer
\* has yet to sign sees that signer waiting, or has been overtaken.
SeesWaiting(p) ==
  pc[p] \in {"update", "mark", "check"} /\ loaded[p] = "another" =>
    p \in overtaken \/ \E c \in Signers \ {who[p]} : client[c] = "waiting"

NobodyLacks(p) ==
  allSigned[p] /\ who[p] \in linked /\ loaded[p] = "another" => p \in overtaken

Seen == \A p \in Submissions : SeesWaiting(p) /\ NobodyLacks(p)

\* Without faults, once every invited signer's row is signed, the request is
\* closed, or a submission is on its way to close it.
AllRowsSigned ==
  /\ \E s \in Signers : client[s] # "absent"
  /\ \A s \in Signers : client[s] \in {"absent", "signed"}

Closing(p) ==
  \/ pc[p] = "check"
  \/ allSigned[p] /\ (pc[p] = "lookup" \/ task[p] \in {"send", "complete"})

ClosedOrClosing ==
  faults = 0 /\ tracked /\ AllRowsSigned =>
    request = "Completed" \/ \E p \in Submissions : Closing(p)

IInv ==
  /\ TypeOK /\ RowHeld /\ PastGate /\ SignedRowsWereEarned /\ CallbackSent /\ Seen
  /\ ClosedOrClosing

-----------------------------------------------------------------------------
(* Types, and the documents row *)

\* Every status that is written is a status.
LEMMA StatusTyped ==
  /\ "Pending" \in Statuses /\ "Completed" \in Statuses
  /\ \A total, done : Recomputed(total, done) \in Statuses
  BY DEF Recomputed, Statuses

\* One step keeps every variable's type.
LEMMA TypeStep == TypeOK /\ [Next]_vars => TypeOK'
<1> SUFFICES ASSUME TypeOK, [Next]_vars PROVE TypeOK'
  OBVIOUS
<1> USE EsignAssumption, StatusTyped DEF TypeOK, settled, handler, tasks, Fault, NoFault, Goto, Document
<1>1. ASSUME NEW s \in Signers, Sign(s) \/ Withdraw(s) \/ Assign(s) PROVE TypeOK'
  BY <1>1 DEF Sign, Withdraw, Assign
<1>2. ASSUME NEW s \in Signers, InviteSigner(s) PROVE TypeOK'
  BY <1>2 DEF InviteSigner
<1>3. ASSUME Prepare PROVE TypeOK'
  BY <1>3 DEF Prepare
<1>4. ASSUME NEW p \in Submissions, NEW s \in Signers, Submit(p, s) PROVE TypeOK'
  BY <1>4 DEF Submit
<1>5. ASSUME NEW p \in Submissions, Gate(p) PROVE TypeOK'
  BY <1>5 DEF Gate, Lacking
<1>6. ASSUME NEW p \in Submissions, MarkDocument(p) PROVE TypeOK'
  BY <1>6 DEF MarkDocument
<1>7. ASSUME NEW p \in Submissions, MarkClient(p) PROVE TypeOK'
  BY <1>7 DEF MarkClient, Marked
<1>8. ASSUME NEW p \in Submissions, CheckClients(p) PROVE TypeOK'
  <2>1. EveryClientSigned(p) \in BOOLEAN
    BY DEF EveryClientSigned
  <2> QED
    BY <1>8, <2>1 DEF CheckClients, Fail
<1>9. ASSUME NEW p \in Submissions, StartTask(p) PROVE TypeOK'
  BY <1>9 DEF StartTask, FirstWork, Fail
<1>10. ASSUME NEW p \in Submissions, Commit(p) PROVE TypeOK'
  BY <1>10 DEF Commit, Fail
<1>11. ASSUME NEW p \in Submissions, SendCompletion(p) PROVE TypeOK'
  BY <1>11 DEF SendCompletion, DeskTakes, AfterSending, Spoiled
<1>12. ASSUME NEW p \in Submissions, CompleteRequest(p) \/ WriteBack(p) PROVE TypeOK'
  BY <1>12 DEF CompleteRequest, WriteBack
<1>13. ASSUME Restart PROVE TypeOK'
  BY <1>13 DEF Restart
<1>14. ASSUME UNCHANGED vars PROVE TypeOK'
  BY <1>14 DEF vars
<1> QED
  BY <1>1, <1>2, <1>3, <1>4, <1>5, <1>6, <1>7, <1>8, <1>9, <1>10, <1>11, <1>12, <1>13, <1>14
     DEF Next, Serve, Work

Sound == TypeOK /\ RowHeld /\ PastGate

\* The documents row passes from one submission to another only through its
\* release, and a submission's document and signer stay what its gate saw.
LEMMA SoundStep == Sound /\ [Next]_vars => RowHeld' /\ PastGate'
<1> SUFFICES ASSUME Sound, [Next]_vars PROVE RowHeld' /\ PastGate'
  OBVIOUS
<1> USE EsignAssumption DEF Sound, TypeOK, RowHeld, PastGate, PassedGate, Holding, settled,
                            handler, tasks, Goto, Document
<1>1. ASSUME UNCHANGED handler PROVE RowHeld' /\ PastGate'
  BY <1>1
<1>2. ASSUME NEW s \in Signers, Sign(s) \/ Withdraw(s) \/ Assign(s) PROVE UNCHANGED handler
  BY <1>2 DEF Sign, Withdraw, Assign, RowFree
<1>3. ASSUME NEW s \in Signers, InviteSigner(s) \/ Prepare PROVE UNCHANGED handler
  BY <1>3 DEF InviteSigner, Prepare
<1>4. ASSUME NEW p \in Submissions, NEW s \in Signers, Submit(p, s)
      PROVE  RowHeld' /\ PastGate'
  BY <1>4 DEF Submit
<1>5. ASSUME NEW p \in Submissions, Gate(p) PROVE RowHeld' /\ PastGate'
  BY <1>5 DEF Gate, GateOpen, Lacking
<1>6. ASSUME NEW p \in Submissions, MarkDocument(p) PROVE RowHeld' /\ PastGate'
  BY <1>6 DEF MarkDocument, RowFree
<1>7. ASSUME NEW p \in Submissions, MarkClient(p) PROVE RowHeld' /\ PastGate'
  BY <1>7 DEF MarkClient
<1>8. ASSUME NEW p \in Submissions, CheckClients(p) PROVE RowHeld' /\ PastGate'
  BY <1>8 DEF CheckClients, EveryClientSigned, Fail
<1>9. ASSUME NEW p \in Submissions, StartTask(p) PROVE RowHeld' /\ PastGate'
  BY <1>9 DEF StartTask, Fail
<1>10. ASSUME NEW p \in Submissions, Commit(p) PROVE RowHeld' /\ PastGate'
  BY <1>10 DEF Commit, Fail
<1>11. ASSUME NEW p \in Submissions, Work(p) PROVE UNCHANGED handler
  BY <1>11 DEF Work, SendCompletion, CompleteRequest, WriteBack
<1>12. ASSUME Restart PROVE RowHeld' /\ PastGate'
  BY <1>12 DEF Restart, Handling
<1>13. UNCHANGED vars => UNCHANGED handler
  BY DEF vars
<1>14. Prepare => UNCHANGED handler
  BY DEF Prepare
<1> QED
  BY <1>1, <1>2, <1>3, <1>4, <1>5, <1>6, <1>7, <1>8, <1>9, <1>10, <1>11, <1>12, <1>13, <1>14
     DEF Next, Serve

\* Types, the documents row and the gate, in every reachable state.
LEMMA SoundInvariant == Spec => []Sound
<1>1. Init => Sound
  BY EsignAssumption, StatusTyped
     DEF Init, Sound, TypeOK, RowHeld, PastGate, PassedGate, Holding, settled, Document
<1>2. Sound /\ [Next]_vars => Sound'
  BY TypeStep, SoundStep DEF Sound
<1> QED
  BY <1>1, <1>2, PTL DEF Spec

\* Every variable has its type, and no handler leaves the documents row locked.
THEOREM SubmissionsSound == Spec => []SubmissionsAreSound
<1>1. Sound => SubmissionsAreSound
  BY DEF Sound, RowHeld, Holding, Handling, TypeOK, RowGivenBack, SubmissionsAreSound
<1> QED
  BY <1>1, SoundInvariant, PTL

-----------------------------------------------------------------------------
(* Whose rows are signed *)

\* A step marks at most the row of the submission that is at "mark", and makes
\* no other row signed.
LEMMA RowsMarked ==
  ASSUME Sound, [Next]_vars
  PROVE  \/ \E p \in Submissions : pc[p] = "mark" /\ client' = Marked(who[p])
         \/ \A s \in Signers :
              client'[s] = client[s] \/ (client'[s] = "waiting" /\ client[s] = "absent")
<1> USE DEF Sound, TypeOK
<1>1. ASSUME NEW s \in Signers, InviteSigner(s)
      PROVE  \A c \in Signers :
               client'[c] = client[c] \/ (client'[c] = "waiting" /\ client[c] = "absent")
  BY <1>1 DEF InviteSigner
<1>2. ASSUME NEW p \in Submissions, MarkClient(p)
      PROVE  client' = client \/ (pc[p] = "mark" /\ client' = Marked(who[p]))
  BY <1>2 DEF MarkClient
<1>3. ASSUME NEW s \in Signers, Sign(s) \/ Withdraw(s) \/ Assign(s) PROVE client' = client
  BY <1>3 DEF Sign, Withdraw, Assign
<1>4. ASSUME NEW p \in Submissions,
             \/ \E s \in Signers : Submit(p, s)
             \/ Gate(p) \/ MarkDocument(p) \/ CheckClients(p) \/ StartTask(p) \/ Commit(p)
             \/ Work(p)
      PROVE  client' = client
  BY <1>4 DEF Submit, Gate, MarkDocument, CheckClients, StartTask, Commit, Work,
              SendCompletion, CompleteRequest, WriteBack
<1>5. Prepare \/ Restart \/ UNCHANGED vars => client' = client
  BY DEF Prepare, Restart, vars
<1> QED
  BY <1>1, <1>2, <1>3, <1>4, <1>5 DEF Next, Serve

\* A submission that is under way keeps its signer, and one past its gate its
\* document; what SQL Server knows of the signers does not change.
LEMMA SubmissionKept ==
  ASSUME Sound, [Next]_vars
  PROVE  /\ tracked' = tracked /\ linked' = linked /\ overtaken \subseteq overtaken'
         /\ \A p \in Submissions : /\ pc[p] # "idle" => who'[p] = who[p]
                                   /\ loaded[p] # NoDocument => loaded'[p] = loaded[p]
<1> DEFINE Kept == /\ tracked' = tracked /\ linked' = linked /\ overtaken \subseteq overtaken'
                   /\ \A p \in Submissions : /\ pc[p] # "idle" => who'[p] = who[p]
                                             /\ loaded[p] # NoDocument => loaded'[p] = loaded[p]
<1> USE DEF Sound, TypeOK, settled, handler
<1>1. ASSUME NEW p \in Submissions, NEW s \in Signers, Submit(p, s) PROVE Kept
  BY <1>1 DEF Submit
<1>2. ASSUME NEW p \in Submissions, Gate(p) PROVE Kept
  BY <1>2 DEF Gate, PastGate
<1>3. ASSUME NEW p \in Submissions, MarkClient(p) PROVE Kept
  BY <1>3 DEF MarkClient
<1>4. ASSUME UNCHANGED <<tracked, linked, overtaken, who, loaded>> PROVE Kept
  BY <1>4
<1>5. ASSUME NEW s \in Signers, Sign(s) \/ Withdraw(s) \/ Assign(s) \/ InviteSigner(s)
      PROVE  UNCHANGED <<tracked, linked, overtaken, who, loaded>>
  BY <1>5 DEF Sign, Withdraw, Assign, InviteSigner
<1>6. ASSUME NEW p \in Submissions,
             MarkDocument(p) \/ CheckClients(p) \/ StartTask(p) \/ Commit(p) \/ Work(p)
      PROVE  UNCHANGED <<tracked, linked, overtaken, who, loaded>>
  BY <1>6 DEF MarkDocument, CheckClients, StartTask, Commit, Work, SendCompletion,
              CompleteRequest, WriteBack
<1>7. Prepare \/ Restart \/ UNCHANGED vars => UNCHANGED <<tracked, linked, overtaken, who, loaded>>
  BY DEF Prepare, Restart, vars
<1> QED
  BY <1>1, <1>2, <1>3, <1>4, <1>5, <1>6, <1>7 DEF Next, Serve

Earned == Sound /\ SignedRowsWereEarned

\* Only a submission past its gate marks a row, and it marks its own signer's.
LEMMA EarnedStep == Earned /\ [Next]_vars => SignedRowsWereEarned'
<1> SUFFICES ASSUME Earned, [Next]_vars PROVE SignedRowsWereEarned'
  OBVIOUS
<1> USE DEF Earned, Sound
<1>1. ASSUME NEW p \in Submissions, who[p] \in Signers, PassedGate(p)
      PROVE  who'[p] = who[p] /\ loaded'[p] \notin {NoDocument, "own"}
  <2>1. pc[p] # "idle"
    BY <1>1 DEF PastGate, PassedGate
  <2> QED
    BY <1>1, <2>1, SubmissionKept DEF PastGate, PassedGate
<1>2. ASSUME NEW s \in Signers, client[s] = "signed"
      PROVE  \E p \in Submissions : who'[p] = s /\ loaded'[p] \notin {NoDocument, "own"}
  <2>1. PICK p \in Submissions : who[p] = s /\ loaded[p] \notin {NoDocument, "own"}
    BY <1>2 DEF SignedRowsWereEarned
  <2> QED
    BY <2>1, <1>1 DEF PassedGate
<1>3. ASSUME NEW p \in Submissions, pc[p] = "mark"
      PROVE  who'[p] = who[p] /\ who[p] \in Signers /\ loaded'[p] \notin {NoDocument, "own"}
  BY <1>1, <1>3 DEF PastGate, Holding
<1>4. CASE \E p \in Submissions : pc[p] = "mark" /\ client' = Marked(who[p])
  <2>1. PICK p \in Submissions : pc[p] = "mark" /\ client' = Marked(who[p])
    BY <1>4
  <2>2. \A s \in Signers \ {who[p]} : client'[s] = client[s]
    BY <2>1 DEF Marked, TypeOK
  <2> QED
    BY <1>2, <1>3, <2>1, <2>2 DEF SignedRowsWereEarned
<1>5. CASE \A s \in Signers :
             client'[s] = client[s] \/ (client'[s] = "waiting" /\ client[s] = "absent")
  BY <1>2, <1>5 DEF SignedRowsWereEarned
<1> QED
  BY <1>4, <1>5, RowsMarked

\* A row is marked signed only of a signer who signed, in every reachable state.
LEMMA EarnedInvariant == Spec => []Earned
<1>1. Init => SignedRowsWereEarned
  BY DEF Init, SignedRowsWereEarned
<1>2. Earned /\ [Next]_vars /\ Sound' => Earned'
  BY EarnedStep DEF Earned
<1>3. Sound /\ SignedRowsWereEarned => Earned
  BY DEF Earned
<1> QED
  BY <1>1, <1>2, <1>3, SoundInvariant, PTL DEF Spec

\* A signed row of ESignClients is that of a signer who submitted with
\* everything signed.
THEOREM RowsWereEarned == Spec => []SignedRowsWereEarned
<1>1. Earned => SignedRowsWereEarned
  BY DEF Earned
<1> QED
  BY <1>1, EarnedInvariant, PTL

-----------------------------------------------------------------------------
(* The callback, and the request it closes *)

\* The request changes only when a submission's task closes it, one that found
\* all rows signed.
LEMMA ClosedByTask ==
  ASSUME Sound, [Next]_vars, request' # request
  PROVE  /\ request = "Pending" /\ request' = "Completed"
         /\ \E p \in Submissions :
              /\ CompleteRequest(p) /\ allSigned[p]
              /\ task[p] = "complete" /\ task' = [task EXCEPT ![p] = "done"]
<1> USE DEF Sound, TypeOK, tasks
<1>1. ASSUME NEW p \in Submissions, CompleteRequest(p)
      PROVE  /\ request = "Pending" /\ request' = "Completed"
             /\ allSigned[p] /\ task[p] = "complete" /\ task' = [task EXCEPT ![p] = "done"]
  BY <1>1 DEF CompleteRequest, MayComplete
<1>2. ASSUME NEW s \in Signers, Sign(s) \/ Withdraw(s) \/ Assign(s) \/ InviteSigner(s)
      PROVE  FALSE
  BY <1>2 DEF Sign, Withdraw, Assign, InviteSigner
<1>3. ASSUME NEW p \in Submissions,
             \/ \E s \in Signers : Submit(p, s)
             \/ Serve(p) \/ SendCompletion(p) \/ WriteBack(p)
      PROVE  FALSE
  BY <1>3 DEF Submit, Serve, Gate, MarkDocument, MarkClient, CheckClients, StartTask, Commit,
              SendCompletion, WriteBack
<1>4. ~Prepare /\ ~Restart /\ vars' # vars
  BY DEF Prepare, Restart, vars
<1> QED
  BY <1>1, <1>2, <1>3, <1>4 DEF Next, Work

Sent == Sound /\ CallbackSent

\* What faults there have been stay counted.
LEMMA FaultsStay == TypeOK /\ [Next]_vars /\ faults # 0 => faults' # 0
<1> SUFFICES ASSUME TypeOK, [Next]_vars, faults # 0 PROVE faults' # 0
  OBVIOUS
<1> USE DEF TypeOK
<1>1. Fault \/ NoFault => faults' # 0
  BY DEF Fault, NoFault
<1>2. ASSUME NEW s \in Signers, Sign(s) \/ Withdraw(s) \/ Assign(s) PROVE faults' # 0
  BY <1>2 DEF Sign, Withdraw, Assign
<1>3. ASSUME NEW s \in Signers, InviteSigner(s) PROVE faults' # 0
  BY <1>1, <1>3 DEF InviteSigner
<1>4. ASSUME NEW p \in Submissions, NEW s \in Signers, Submit(p, s) PROVE faults' # 0
  BY <1>1, <1>4 DEF Submit
<1>5. ASSUME NEW p \in Submissions, Gate(p) \/ MarkDocument(p) \/ WriteBack(p) PROVE faults' # 0
  BY <1>5 DEF Gate, MarkDocument, WriteBack
<1>6. ASSUME NEW p \in Submissions, MarkClient(p) \/ CheckClients(p) \/ StartTask(p) \/ Commit(p)
      PROVE  faults' # 0
  BY <1>1, <1>6 DEF MarkClient, CheckClients, StartTask, Commit
<1>7. ASSUME NEW p \in Submissions, SendCompletion(p) \/ CompleteRequest(p) PROVE faults' # 0
  BY <1>1, <1>7 DEF SendCompletion, CompleteRequest
<1>8. Prepare \/ Restart \/ UNCHANGED vars => faults' # 0
  BY <1>1 DEF Prepare, Restart, vars
<1> QED
  BY <1>2, <1>3, <1>4, <1>5, <1>6, <1>7, <1>8 DEF Next, Serve, Work

\* The callback goes out before the request is to be completed, comes too late
\* for a completed request only, and is spoiled by a fault only.
LEMMA SentStep == Sent /\ [Next]_vars => CallbackSent'
<1> SUFFICES ASSUME Sent, [Next]_vars PROVE CallbackSent'
  OBVIOUS
<1> USE FaultsStay DEF Sent, Sound, TypeOK, tasks
<1>1. ASSUME UNCHANGED <<task, reply>>, request' = request PROVE CallbackSent'
  BY <1>1 DEF CallbackSent
<1>2. ASSUME NEW s \in Signers, Sign(s) \/ Withdraw(s) \/ Assign(s) \/ InviteSigner(s)
      PROVE  UNCHANGED <<task, reply>> /\ request' = request
  BY <1>2 DEF Sign, Withdraw, Assign, InviteSigner
<1>3. ASSUME NEW p \in Submissions,
             \/ \E s \in Signers : Submit(p, s)
             \/ Gate(p) \/ MarkClient(p) \/ CheckClients(p) \/ Commit(p)
      PROVE  UNCHANGED <<task, reply>> /\ request' = request
  BY <1>3 DEF Submit, Gate, MarkClient, CheckClients, Commit
<1>4. ASSUME NEW p \in Submissions, MarkDocument(p) \/ StartTask(p) \/ WriteBack(p)
      PROVE  CallbackSent'
  BY <1>4 DEF MarkDocument, StartTask, FirstWork, WriteBack, CallbackSent
<1>5. ASSUME NEW p \in Submissions, SendCompletion(p) PROVE CallbackSent'
  <2>1. CASE DeskTakes(p) /\ AfterSending(p)
    BY <1>5, <2>1 DEF SendCompletion, DeskTakes, AfterSending, CallbackSent, Spoiled
  <2>2. CASE (\E r \in Spoiled : reply' = [reply EXCEPT ![p] = r]) /\ AfterSending(p) /\ Fault
    <3>1. faults' # 0
      BY <2>2 DEF Fault
    <3> QED
      BY <1>5, <2>2, <3>1 DEF SendCompletion, AfterSending, CallbackSent, Spoiled
  <2>3. CASE task' = [task EXCEPT ![p] = "died"] /\ UNCHANGED reply
    BY <1>5, <2>3 DEF SendCompletion, CallbackSent
  <2> QED
    BY <1>5, <2>1, <2>2, <2>3 DEF SendCompletion
<1>6. ASSUME NEW p \in Submissions, CompleteRequest(p) PROVE CallbackSent'
  BY <1>6 DEF CompleteRequest, CallbackSent
<1>7. ASSUME Restart PROVE CallbackSent'
  BY <1>7 DEF Restart, CallbackSent
<1>8. Prepare \/ UNCHANGED vars => UNCHANGED <<task, reply>> /\ request' = request
  BY DEF Prepare, vars
<1> QED
  BY <1>1, <1>2, <1>3, <1>4, <1>5, <1>6, <1>7, <1>8 DEF Next, Serve, Work

\* A request is complete only after its callback, in every reachable state.
LEMMA SentInvariant == Spec => []Sent
<1>1. Init => CallbackSent
  BY DEF Init, CallbackSent, Spoiled
<1>2. Sent /\ [Next]_vars /\ Sound' => Sent'
  BY SentStep DEF Sent
<1>3. Sound /\ CallbackSent => Sent
  BY DEF Sent
<1> QED
  BY <1>1, <1>2, <1>3, SoundInvariant, PTL DEF Spec

\* The submission that closes the request has had its one callback first, while
\* the request was open: CpaDesk has answered it, unless an outage spoiled it
\* (_complete_then_mark).
THEOREM CallbackFirst == Spec => CallbackPrecedesCompletion
<1> DEFINE First ==
      request # request' =>
        \E p \in Submissions :
          /\ task[p] = "complete" /\ task'[p] = "done"
          /\ reply[p] \in {"answered"} \cup IF faults = 0 THEN {} ELSE Spoiled
<1>1. Sent /\ [Next]_vars => First
  <2> SUFFICES ASSUME Sent, [Next]_vars, request' # request PROVE First
    OBVIOUS
  <2>1. PICK p \in Submissions :
          task[p] = "complete" /\ task' = [task EXCEPT ![p] = "done"] /\ request = "Pending"
    BY ClosedByTask DEF Sent
  <2>2. reply[p] = "answered" \/ (reply[p] \in Spoiled /\ faults # 0)
    BY <2>1 DEF Sent, CallbackSent, Sound, TypeOK
  <2> QED
    BY <2>1, <2>2 DEF Sent, Sound, TypeOK
<1> QED
  BY <1>1, SentInvariant, PTL DEF Spec, CallbackPrecedesCompletion

\* A submission finds all rows signed only when every invited signer has
\* submitted (check_all_esign_clients_signed); and the submission whose task closes
\* the request is one that did, or one of a signer without LoginDetailID.
THEOREM ClosedAfterAll == Spec => ClosedWhenInvitedSubmitted
<1> DEFINE AfterAll ==
      /\ \A p \in Submissions : who[p] \in linked /\ allSigned'[p] # allSigned[p] =>
           \A s \in Invited : Submitted(s)
      /\ request # request' =>
           \E p \in Submissions : task[p] = "complete" /\ task'[p] = "done" /\ allSigned[p]
<1>1. Earned /\ [Next]_vars => AfterAll
  <2> SUFFICES ASSUME Earned, [Next]_vars PROVE AfterAll
    OBVIOUS
  <2> USE DEF Earned, Sound, TypeOK
  <2>1. ASSUME NEW p \in Submissions, who[p] \in linked, allSigned'[p] # allSigned[p]
        PROVE  EveryClientSigned(p)
    <3>1. ASSUME NEW q \in Submissions, MarkDocument(q) PROVE FALSE
      BY <2>1, <3>1 DEF MarkDocument
    <3>2. ASSUME NEW q \in Submissions, CheckClients(q) PROVE EveryClientSigned(p)
      <4>1. q = p /\ ~allSigned[p] /\ allSigned' = [allSigned EXCEPT ![p] = EveryClientSigned(p)]
        BY <2>1, <3>2 DEF CheckClients, PastGate
      <4>2. EveryClientSigned(p) \in BOOLEAN
        BY DEF EveryClientSigned
      <4> QED
        BY <2>1, <4>1, <4>2
    <3>3. ASSUME NEW s \in Signers, Sign(s) \/ Withdraw(s) \/ Assign(s) \/ InviteSigner(s)
          PROVE  FALSE
      BY <2>1, <3>3 DEF Sign, Withdraw, Assign, InviteSigner, handler
    <3>4. ASSUME NEW q \in Submissions,
                 \/ \E s \in Signers : Submit(q, s)
                 \/ Gate(q) \/ MarkClient(q) \/ StartTask(q) \/ Commit(q) \/ Work(q)
          PROVE  FALSE
      BY <2>1, <3>4 DEF Submit, Gate, MarkClient, StartTask, Commit, Work, SendCompletion,
                        CompleteRequest, WriteBack, handler
    <3>5. ~Prepare /\ ~Restart /\ vars' # vars
      BY <2>1 DEF Prepare, Restart, vars, handler
    <3> QED
      BY <3>1, <3>2, <3>3, <3>4, <3>5 DEF Next, Serve
  <2>2. ASSUME NEW p \in Submissions, EveryClientSigned(p), NEW s \in Invited PROVE Submitted(s)
    BY <2>2 DEF EveryClientSigned, Invited, SignedRowsWereEarned, Submitted, PassedGate
  <2> QED
    BY <2>1, <2>2, ClosedByTask
<1> QED
  BY <1>1, EarnedInvariant, PTL DEF Spec, ClosedWhenInvitedSubmitted

-----------------------------------------------------------------------------
(* The document that goes out before the request is closed *)

Complete == Sound /\ Seen

\* A submission whose document another has yet to sign sees that signer waiting
\* until the signer submits; while it holds the documents row nobody else can.
LEMMA SeenStep == Complete /\ [Next]_vars => Seen'
<1> SUFFICES ASSUME Complete, [Next]_vars PROVE Seen'
  OBVIOUS
<1> USE DEF Complete, Sound, TypeOK
<1>1. ASSUME NEW q \in Submissions,
             UNCHANGED <<pc[q], who[q], loaded[q], allSigned[q], client, linked, overtaken>>
      PROVE  SeesWaiting(q)' /\ NobodyLacks(q)'
  BY <1>1 DEF Seen, SeesWaiting, NobodyLacks
<1>2. ASSUME UNCHANGED <<handler, settled, client, overtaken>> PROVE Seen'
  BY <1>1, <1>2 DEF Seen, handler, settled
<1>3. ASSUME NEW s \in Signers, Sign(s) \/ Withdraw(s) \/ Assign(s)
      PROVE  UNCHANGED <<handler, settled, client, overtaken>>
  BY <1>3 DEF Sign, Withdraw, Assign, RowFree, handler
<1>4. ASSUME NEW s \in Signers, InviteSigner(s) PROVE Seen'
  <2>1. /\ UNCHANGED <<pc, who, loaded, allSigned, linked, overtaken>>
        /\ \A c \in Signers : client[c] = "waiting" => client'[c] = "waiting"
    BY <1>4 DEF InviteSigner, handler, settled
  <2> QED
    BY <2>1 DEF Seen, SeesWaiting, NobodyLacks
<1>5. ASSUME NEW p \in Submissions, NEW s \in Signers, Submit(p, s) PROVE Seen'
  <2>1. SeesWaiting(p)' /\ NobodyLacks(p)'
    BY <1>5, EsignAssumption DEF Submit, Goto, PastGate, SeesWaiting, NobodyLacks
  <2> QED
    BY <1>1, <1>5, <2>1 DEF Submit, Goto, settled, Seen
<1>6. ASSUME NEW p \in Submissions, Gate(p) PROVE Seen'
  <2>1. SeesWaiting(p)'
    BY <1>6 DEF Gate, GateOpen, Lacking, Goto, SeesWaiting
  <2>2. NobodyLacks(p)'
    BY <1>6 DEF Gate, PastGate, NobodyLacks
  <2> QED
    BY <1>1, <1>6, <2>1, <2>2 DEF Gate, Goto, settled, Seen
<1>7. ASSUME NEW p \in Submissions, MarkDocument(p) PROVE Seen'
  <2>1. SeesWaiting(p)' /\ NobodyLacks(p)'
    BY <1>7 DEF MarkDocument, Goto, settled, Seen, SeesWaiting, NobodyLacks
  <2> QED
    BY <1>1, <1>7, <2>1 DEF MarkDocument, Goto, settled, Seen
<1>8. ASSUME NEW p \in Submissions, MarkClient(p) PROVE Seen'
  <2>1. ASSUME NEW q \in Submissions PROVE SeesWaiting(q)'
    <3>1. CASE q = p
      <4>1. \A c \in Signers \ {who[p]} : client'[c] = client[c]
        BY <1>8 DEF MarkClient, Marked
      <4> QED
        BY <1>8, <3>1, <4>1 DEF MarkClient, Seen, SeesWaiting
    <3>2. CASE q # p
      <4>1. pc[q] \notin {"mark", "check"} /\ pc'[q] = pc[q]
        BY <1>8, <3>2 DEF MarkClient, Goto, RowHeld, Holding
      <4> QED
        BY <1>8, <3>2, <4>1 DEF MarkClient, Seen, SeesWaiting
    <3> QED
      BY <3>1, <3>2
  <2>2. ASSUME NEW q \in Submissions PROVE NobodyLacks(q)'
    BY <1>8 DEF MarkClient, settled, Seen, NobodyLacks
  <2> QED
    BY <2>1, <2>2 DEF Seen
<1>9. ASSUME NEW p \in Submissions, CheckClients(p) PROVE Seen'
  <2>1. SeesWaiting(p)'
    BY <1>9 DEF CheckClients, Goto, Fail, SeesWaiting
  <2>2. CASE EveryClientSigned(p)
    <3>1. loaded[p] = "another" => p \in overtaken
      BY <1>9, <2>2 DEF CheckClients, EveryClientSigned, Seen, SeesWaiting
    <3> QED
      BY <1>1, <1>9, <2>1, <3>1 DEF CheckClients, Goto, Fail, settled, Seen, NobodyLacks
  <2>3. CASE ~EveryClientSigned(p)
    <3>1. allSigned'[p] => allSigned[p]
      BY <1>9, <2>3 DEF CheckClients
    <3>2. NobodyLacks(p)'
      BY <1>9, <3>1 DEF CheckClients, settled, Seen, NobodyLacks
    <3> QED
      BY <1>1, <1>9, <2>1, <3>2 DEF CheckClients, Goto, Fail, settled, Seen
  <2> QED
    BY <2>2, <2>3
<1>10. ASSUME NEW p \in Submissions, StartTask(p) \/ Commit(p) PROVE Seen'
  <2>1. SeesWaiting(p)' /\ NobodyLacks(p)'
    BY <1>10 DEF StartTask, Commit, Goto, Fail, settled, Seen, SeesWaiting, NobodyLacks
  <2> QED
    BY <1>1, <1>10, <2>1 DEF StartTask, Commit, Goto, Fail, settled, Seen
<1>11. ASSUME NEW p \in Submissions, Work(p)
       PROVE  UNCHANGED <<handler, settled, client, overtaken>>
  BY <1>11 DEF Work, SendCompletion, CompleteRequest, WriteBack
<1>12. ASSUME Restart PROVE Seen'
  BY <1>12 DEF Restart, Handling, settled, Seen, SeesWaiting, NobodyLacks
<1>13. Prepare \/ UNCHANGED vars => UNCHANGED <<handler, settled, client, overtaken>>
  BY DEF Prepare, vars, handler, settled
<1> QED
  BY <1>2, <1>3, <1>4, <1>5, <1>6, <1>7, <1>8, <1>9, <1>10, <1>11, <1>12, <1>13
     DEF Next, Serve

\* Where the submission that closes the request looked at the rows, every invited
\* signer had signed the document it sends (_complete_then_mark), unless another
\* signer has submitted since its gate loaded it.
THEOREM ClosedWithSigned == Spec => ClosedWithAllSigned
<1> DEFINE AllHadSigned ==
      \A p \in Submissions :
        /\ request # request' /\ task[p] # task'[p] /\ who[p] \in linked
        /\ p \notin overtaken
        => loaded[p] = "neither"
<1>1. Init => Seen
  BY DEF Init, Seen, SeesWaiting, NobodyLacks
<1>2. Complete /\ [Next]_vars /\ Sound' => Complete'
  BY SeenStep DEF Complete
<1>3. Complete /\ [Next]_vars => AllHadSigned
  <2> SUFFICES ASSUME Complete, [Next]_vars, NEW p \in Submissions, request # request',
                      task[p] # task'[p], who[p] \in linked, p \notin overtaken
               PROVE  loaded[p] = "neither"
    OBVIOUS
  <2> USE DEF Complete, Sound, TypeOK
  <2>1. PICK q \in Submissions : allSigned[q] /\ task' = [task EXCEPT ![q] = "done"]
    BY ClosedByTask
  <2>2. allSigned[p]
    BY <2>1
  <2>3. loaded[p] \notin {NoDocument, "own"}
    BY <2>2 DEF PastGate, PassedGate, Holding
  <2>4. loaded[p] # "another"
    BY <2>2 DEF Seen, NobodyLacks
  <2> QED
    BY <2>3, <2>4 DEF Document
<1>4. Sound /\ Seen => Complete
  BY DEF Complete
<1> QED
  BY <1>1, <1>2, <1>3, <1>4, SoundInvariant, PTL DEF Spec, ClosedWithAllSigned

-----------------------------------------------------------------------------
(* Nobody is left waiting *)

Attended == Sound /\ ClosedOrClosing

\* Without faults, the submission that marks the last waiting row goes on to
\* see that all are signed, and its task closes the request.
LEMMA AttendedStep == Attended /\ [Next]_vars => ClosedOrClosing'
<1> SUFFICES ASSUME Attended, [Next]_vars, faults' = 0, tracked', AllRowsSigned'
             PROVE  request' = "Completed" \/ \E p \in Submissions : Closing(p)'
  BY DEF ClosedOrClosing
<1> USE DEF Attended, Sound, TypeOK, settled, handler, tasks
<1> DEFINE Done == request' = "Completed" \/ \E p \in Submissions : Closing(p)'
<1>1. ASSUME faults = 0, tracked, client' = client PROVE \/ request = "Completed"
                                                         \/ \E p \in Submissions : Closing(p)
  BY <1>1 DEF ClosedOrClosing, AllRowsSigned
<1>2. ASSUME NoFault PROVE faults = 0
  BY <1>2 DEF NoFault
<1>3. ~Fault
  BY EsignAssumption DEF Fault
<1>4. ASSUME UNCHANGED <<pc, allSigned, task, request, client, tracked>>, faults = 0 PROVE Done
  BY <1>1, <1>4 DEF Closing
<1>5. ASSUME NEW s \in Signers, Sign(s) \/ Withdraw(s) \/ Assign(s) PROVE Done
  BY <1>4, <1>5 DEF Sign, Withdraw, Assign
<1>6. ASSUME NEW s \in Signers, InviteSigner(s) PROVE Done
  <2>1. client' = client
    BY <1>3, <1>6 DEF InviteSigner, AllRowsSigned
  <2> QED
    BY <1>2, <1>3, <1>4, <1>6, <2>1 DEF InviteSigner
<1>7. ASSUME NEW p \in Submissions, NEW s \in Signers, Submit(p, s) PROVE Done
  <2>1. \A q \in Submissions : Closing(q) => Closing(q)'
    BY <1>7 DEF Submit, Goto, Closing
  <2> QED
    BY <1>1, <1>2, <1>3, <1>7, <2>1 DEF Submit
<1>8. ASSUME NEW p \in Submissions, Gate(p) \/ MarkDocument(p) PROVE Done
  <2>1. \A q \in Submissions : Closing(q) => Closing(q)'
    BY <1>8 DEF Gate, MarkDocument, Goto, Closing
  <2> QED
    BY <1>1, <1>8, <2>1 DEF Gate, MarkDocument
<1>9. ASSUME NEW p \in Submissions, MarkClient(p) PROVE Done
  BY <1>9 DEF MarkClient, Goto, Closing
<1>10. ASSUME NEW p \in Submissions, CheckClients(p) PROVE Done
  <2>1. EveryClientSigned(p)
    BY <1>10 DEF CheckClients, AllRowsSigned, EveryClientSigned
  <2> QED
    BY <1>3, <1>10, <2>1 DEF CheckClients, Goto, Closing
<1>11. ASSUME NEW p \in Submissions, StartTask(p) \/ Commit(p) PROVE Done
  <2>1. \A q \in Submissions : Closing(q) => Closing(q)'
    BY <1>3, <1>11 DEF StartTask, FirstWork, Commit, Goto, Closing
  <2> QED
    BY <1>1, <1>2, <1>3, <1>11, <2>1 DEF StartTask, Commit
<1>12. ASSUME NEW p \in Submissions, SendCompletion(p) PROVE Done
  <2>1. \A q \in Submissions : Closing(q) => Closing(q)'
    BY <1>3, <1>12 DEF SendCompletion, AfterSending, Closing
  <2> QED
    BY <1>1, <1>2, <1>3, <1>12, <2>1 DEF SendCompletion
<1>13. ASSUME NEW p \in Submissions, CompleteRequest(p) PROVE Done
  <2>1. \A q \in Submissions : Closing(q) => Closing(q)' \/ request' = "Completed"
    BY <1>3, <1>13 DEF CompleteRequest, MayComplete, Closing
  <2>2. request = "Completed" => request' = "Completed"
    BY <1>13 DEF CompleteRequest
  <2> QED
    BY <1>1, <1>2, <1>3, <1>13, <2>1, <2>2 DEF CompleteRequest
<1>14. ASSUME NEW p \in Submissions, WriteBack(p) PROVE Done
  <2>1. \A q \in Submissions : Closing(q) => Closing(q)'
    BY <1>14 DEF WriteBack, Closing
  <2> QED
    BY <1>1, <1>14, <2>1 DEF WriteBack
<1>15. ASSUME Prepare \/ UNCHANGED vars PROVE Done
  BY <1>4, <1>15 DEF Prepare, vars
<1>16. ~Restart
  BY <1>3 DEF Restart
<1> QED
  BY <1>5, <1>6, <1>7, <1>8, <1>9, <1>10, <1>11, <1>12, <1>13, <1>14, <1>15, <1>16
     DEF Next, Serve, Work

\* Without outages, signers who all submitted are never left waiting.
THEOREM NobodyWaits == Spec => []NobodyLeftWaiting
<1>1. Init => ClosedOrClosing
  BY DEF Init, ClosedOrClosing, AllRowsSigned
<1>2. Attended /\ [Next]_vars /\ Sound' => Attended'
  BY AttendedStep DEF Attended
<1>3. Attended => NobodyLeftWaiting
  <2> SUFFICES ASSUME Attended, faults = 0, tracked, AllRowsSigned,
                      \A p \in Submissions : ~Handling(p) /\ ~Running(p)
               PROVE  request = "Completed"
    BY DEF NobodyLeftWaiting, AllRowsSigned
  <2>1. \A p \in Submissions : ~Closing(p)
    BY DEF Closing, Handling, Running
  <2> QED
    BY <2>1 DEF Attended, ClosedOrClosing
<1>4. Sound /\ ClosedOrClosing => Attended
  BY DEF Attended
<1> QED
  BY <1>1, <1>2, <1>3, <1>4, SoundInvariant, PTL DEF Spec
=============================================================================
