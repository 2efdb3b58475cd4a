-------------------------- MODULE EsignCompletion --------------------------
(***************************************************************************)
(* Submitting a signed document: IntegrationService.submit_document, the   *)
(* background task it starts, notify_document_prepared, and the SQL Server *)
(* rows of CpaDesk they write (ESignClients, ESignRequests).               *)
(*                                                                         *)
(* A submission spans two databases and an HTTP endpoint without a common  *)
(* transaction: the UPDATE of documents.status is flushed first, and its   *)
(* row stays locked while ESignClients is written and read; the background *)
(* task may run before the commit; it carries the document as the gate     *)
(* loaded it.  Signing and withdrawing are one step each here, and show in *)
(* the rows of the regions only: which stamps the PDF then shows, when     *)
(* requests to sign overlap, is the subject of SigningWorkflow.            *)
(***************************************************************************)
EXTENDS FiniteSets, Naturals

CONSTANTS
  Submissions,   \* calls of POST /documents/{id}/submit
  Signers,
  FirstAssigned, \* the signers who have regions from the start
  FirstInvited,  \* those of them with an ESignClients row from the start
  Invitable,     \* signers whose email SQL Server knows
  MaxFaults,     \* bound: outages, lost replies and restarts
  NoSubmission, NoSigner, NoDocument

\* The document that a submission sends, by whose regions are not all signed in it:
\* those of the signer who submits, of somebody else who is still waited for, or
\* neither.
Document == {"own", "another", "neither"}

\* What an outage makes of a callback: it is not sent, for want of a base URL; it
\* is sent without the file, which cannot be read; it, or its answer, is lost.
Spoiled == {"unsent", "blank", "lost"}

\* Those of a document with regions.
Statuses == {"Pending", "Partially Signed", "Completed"}

ASSUME EsignAssumption ==
  /\ FirstAssigned \subseteq Signers /\ FirstInvited \subseteq FirstAssigned \cap Invitable
  /\ Invitable \subseteq Signers
  /\ MaxFaults \in Nat
  /\ NoSubmission \notin Submissions /\ NoSigner \notin Signers /\ NoDocument \notin Document

VARIABLES
  \* the local database
  assigned,  \* signers who have regions
  signed,    \* signers whose regions are all signed, as their rows say
  status,    \* documents.status
  lock,      \* the submission that holds the documents row
  tracked,   \* external_document_id is an ESignRequestID
  linked,    \* signers with a LoginDetailID when they submit: it is looked up by
             \* the email, or is the number in a placeholder
  \* SQL Server
  client,    \* ESignClients: each signer's row
  request,   \* ESignRequests.Status
  \* the server
  inviting,  \* signers _insert_esign_clients has yet to look at
  pc, who, loaded, allSigned,  \* each submission's handler
  task,                      \* and its background task
  reply,     \* what became of its callback; an answer is "answered", be it that
             \* CpaDesk takes the file or refuses it for a reason of its own
  faults,
  overtaken  \* history: submissions whose document somebody else had yet to sign
             \* when they loaded it, and which another then marked its row ahead of

settled == <<tracked, linked>>
vars == <<assigned, signed, status, lock, settled, client, request, inviting,
          pc, who, loaded, allSigned, task, reply, faults, overtaken>>

handler == <<pc, who, loaded, allSigned, lock>>
tasks   == <<task, reply, request>>

Handling(p) == pc[p] \notin {"idle", "done", "failed"}
Running(p)  == task[p] \in {"send", "complete", "writeBack"}

TypeOK ==
  /\ assigned \in SUBSET Signers /\ signed \in SUBSET Signers
  /\ status \in Statuses
  /\ lock \in Submissions \cup {NoSubmission}
  /\ tracked \in BOOLEAN /\ linked \in SUBSET Signers
  /\ client \in [Signers -> {"absent", "waiting", "signed"}]
  /\ request \in {"Pending", "Completed"}
  /\ inviting \in SUBSET Signers
  /\ pc \in [Submissions -> {"idle", "gate", "update", "mark", "check", "lookup", "commit",
                             "done", "failed"}]
  /\ who \in [Submissions -> Signers \cup {NoSigner}]
  /\ loaded \in [Submissions -> Document \cup {NoDocument}]
  /\ allSigned \in [Submissions -> BOOLEAN]
  /\ task \in [Submissions -> {"none", "send", "complete", "writeBack", "done", "died"}]
  /\ reply \in [Submissions -> {"none", "answered", "tooLate"} \cup Spoiled]
  /\ faults \in 0 .. MaxFaults
  /\ overtaken \in SUBSET Submissions

Init ==
  /\ assigned = FirstAssigned /\ signed = {} /\ status = "Pending"
  /\ lock = NoSubmission
  /\ tracked \in BOOLEAN
  /\ linked \in {S \in SUBSET Signers : Invitable \subseteq S}
  /\ client = [s \in Signers |-> IF tracked /\ s \in FirstInvited THEN "waiting" ELSE "absent"]
  /\ request = "Pending"
  /\ inviting = {}
  /\ pc = [p \in Submissions |-> "idle"]
  /\ who = [p \in Submissions |-> NoSigner]
  /\ loaded = [p \in Submissions |-> NoDocument]
  /\ allSigned = [p \in Submissions |-> FALSE]
  /\ task = [p \in Submissions |-> "none"]
  /\ reply = [p \in Submissions |-> "none"]
  /\ faults = 0
  /\ overtaken = {}

Fault   == faults < MaxFaults /\ faults' = faults + 1
NoFault == faults' = faults

Goto(p, label) == pc' = [pc EXCEPT ![p] = label]

-----------------------------------------------------------------------------
(* The document: regions, signatures *)

\* Requests that update the documents row wait for a submission that holds it.
RowFree == lock = NoSubmission

\* The status that update_document_after_sign derives.
Recomputed(total, done) ==
  IF done = {} THEN "Pending" ELSE IF done # total THEN "Partially Signed" ELSE "Completed"

\* The signer signs the last of their regions (sign_region, sign_all_regions).
Sign(s) ==
  /\ RowFree /\ s \in assigned \ signed
  /\ signed' = signed \cup {s}
  /\ status' = Recomputed(assigned, signed')
  /\ UNCHANGED <<assigned, lock, settled, client, inviting, pc, who, loaded, allSigned, tasks,
                 faults, overtaken>>

\* The signer takes a signature back; ESignClients is not told.
Withdraw(s) ==
  /\ RowFree /\ s \in signed
  /\ signed' = signed \ {s}
  /\ status' = Recomputed(assigned, signed')
  /\ UNCHANGED <<assigned, lock, settled, client, inviting, pc, who, loaded, allSigned, tasks,
                 faults, overtaken>>

\* The admin defines regions for a signer, who has more to sign now
\* (create_regions).
Assign(s) ==
  /\ RowFree
  /\ assigned' = assigned \cup {s}
  /\ signed' = signed \ {s}
  /\ status' = "Pending"
  /\ UNCHANGED <<lock, settled, client, inviting, pc, who, loaded, allSigned, tasks, faults,
                 overtaken>>

\* notify_document_prepared reads the assignees of the regions ...
Prepare ==
  /\ tracked /\ inviting = {}
  /\ inviting' = assigned
  /\ UNCHANGED <<assigned, signed, status, settled, client, handler, tasks, faults, overtaken>>

\* ... and gives each of them a row unless there is one.  An email that SQL
\* Server does not know (a placeholder, too), or an error, skips the signer.
InviteSigner(s) ==
  /\ s \in inviting
  /\ inviting' = inviting \ {s}
  /\ \/ /\ s \in Invitable /\ client[s] = "absent"
        /\ client' = [client EXCEPT ![s] = "waiting"]
        /\ NoFault
     \/ /\ s \notin Invitable \/ client[s] # "absent"
        /\ UNCHANGED client /\ NoFault
     \/ /\ UNCHANGED client /\ Fault
  /\ UNCHANGED <<assigned, signed, status, settled, handler, tasks,
                 overtaken>>

-----------------------------------------------------------------------------
(* The submit handler *)

\* POST submit: the signer's LoginDetailID is looked up in SQL Server first.
Submit(p, s) ==
  /\ pc[p] = "idle" /\ s \in assigned
  /\ who' = [who EXCEPT ![p] = s]
  /\ \/ Goto(p, "gate") /\ NoFault
     \/ Goto(p, "failed") /\ Fault
  /\ UNCHANGED <<assigned, signed, status, lock, settled, client, inviting, loaded, allSigned,
                 tasks, overtaken>>

\* Mutant of GateOpen: the gate left open.
GateAlwaysOpen(p) == TRUE

\* "Cannot submit: i of n required regions are signed".
GateOpen(p) == who[p] \in signed

\* Whose regions are not all signed in the document that s loads.
Lacking(s) ==
  IF s \notin signed THEN "own"
  ELSE IF \E c \in Signers \ signed : client[c] = "waiting" THEN "another" ELSE "neither"

\* The document is loaded as the task will send it.
Gate(p) ==
  /\ pc[p] = "gate"
  /\ \/ /\ GateOpen(p)
        /\ loaded' = [loaded EXCEPT ![p] = Lacking(who[p])]
        /\ Goto(p, "update")
     \/ /\ ~GateOpen(p)
        /\ UNCHANGED loaded /\ Goto(p, "failed")
  /\ UNCHANGED <<assigned, signed, status, lock, settled, client, inviting, who, allSigned,
                 tasks, faults, overtaken>>

\* UPDATE documents, flushed but not committed.  Without an ESignRequestID the
\* write-back task starts at once; without a LoginDetailID all is taken as signed.
MarkDocument(p) ==
  /\ pc[p] = "update" /\ RowFree
  /\ lock' = p
  /\ \/ /\ tracked /\ who[p] \in linked
        /\ Goto(p, "mark") /\ UNCHANGED <<allSigned, task>>
     \/ /\ tracked /\ who[p] \notin linked
        /\ Goto(p, "lookup") /\ allSigned' = [allSigned EXCEPT ![p] = TRUE]
        /\ UNCHANGED task
     \/ /\ ~tracked
        /\ Goto(p, "commit") /\ task' = [task EXCEPT ![p] = "writeBack"]
        /\ UNCHANGED allSigned
  /\ UNCHANGED <<assigned, signed, status, settled, client, request, inviting, who, loaded,
                 reply, faults, overtaken>>

\* Mutant of Marked: every row of the request.
AllMarked(s) == [c \in Signers |-> IF client[c] = "absent" THEN "absent" ELSE "signed"]

\* The row of the request and the signer's LoginDetailID.
Marked(s) == [client EXCEPT ![s] = IF @ = "absent" THEN @ ELSE "signed"]

\* mark_esign_client_signed: execute_non_query swallows every error, and a
\* missing row is only logged.
MarkClient(p) ==
  /\ pc[p] = "mark"
  /\ Goto(p, "check")
  /\ \/ /\ client' = Marked(who[p])
        /\ overtaken' = overtaken \cup {q \in Submissions : pc[q] = "update" /\ loaded[q] = "another"}
        /\ NoFault
     \/ UNCHANGED <<client, overtaken>> /\ Fault
  /\ UNCHANGED <<assigned, signed, status, lock, settled, inviting, who, loaded, allSigned, tasks>>

\* Mutant of EveryClientSigned: one signed row is enough.
SomeClientSigned(p) == \E s \in Signers : client[s] = "signed"

\* check_all_esign_clients_signed: there are rows, and all of them are signed.
EveryClientSigned(p) ==
  /\ \E s \in Signers : client[s] # "absent"
  /\ \A s \in Signers : client[s] \in {"absent", "signed"}

\* Mutant of Fail: the transaction is left open.
FailKeepingRow(p) == Goto(p, "failed") /\ UNCHANGED lock

\* The rollback of get_db_session: documents is as before, but what SQL Server
\* was told stays.
Fail(p) == Goto(p, "failed") /\ lock' = NoSubmission

CheckClients(p) ==
  /\ pc[p] = "check"
  /\ \/ /\ allSigned' = [allSigned EXCEPT ![p] = EveryClientSigned(p)]
        /\ Goto(p, "lookup") /\ UNCHANGED lock /\ NoFault
     \/ /\ Fail(p) /\ UNCHANGED allSigned /\ Fault
  /\ UNCHANGED <<assigned, signed, status, settled, client, inviting, who, loaded, tasks, overtaken>>

\* Mutant of FirstWork: ESignRequests is completed without waiting for the callback.
CompleteFirst == "complete"

\* _complete_then_mark sends the callback first.
FirstWork == "send"

\* get_esign_request for the ClientID, then the task is created.
StartTask(p) ==
  /\ pc[p] = "lookup"
  /\ \/ /\ task' = [task EXCEPT ![p] = FirstWork]
        /\ Goto(p, "commit") /\ UNCHANGED lock /\ NoFault
     \/ /\ Fail(p) /\ UNCHANGED task /\ Fault
  /\ UNCHANGED <<assigned, signed, status, settled, client, request, inviting, who, loaded,
                 allSigned, reply, overtaken>>

\* The audit entry and the commit.
Commit(p) ==
  /\ pc[p] = "commit"
  /\ \/ /\ status' = "Completed" /\ NoFault
        /\ Goto(p, "done") /\ lock' = NoSubmission
     \/ /\ Fail(p) /\ UNCHANGED status /\ Fault
  /\ UNCHANGED <<assigned, signed, settled, client, inviting, who, loaded, allSigned, tasks,
                 overtaken>>

-----------------------------------------------------------------------------
(* The background task *)

\* The next step of the task, whatever the callback returned.
AfterSending(p) == task' = [task EXCEPT ![p] = "complete"]

\* CpaDesk's endpoint rejects a request that is Completed.  It may refuse any
\* other too: a TResult of false ("E-Sign request not found"), or an error status.
DeskTakes(p) ==
  reply' = [reply EXCEPT ![p] = IF request = "Completed" THEN "tooLate" ELSE "answered"]

\* _send_esign_completion: one POST, whose result nobody looks at.  An outage
\* while the base URL is looked up kills the task.
SendCompletion(p) ==
  /\ task[p] = "send"
  /\ \/ DeskTakes(p) /\ AfterSending(p) /\ NoFault
     \/ (\E r \in Spoiled : reply' = [reply EXCEPT ![p] = r]) /\ AfterSending(p) /\ Fault
     \/ task' = [task EXCEPT ![p] = "died"] /\ UNCHANGED reply /\ Fault
  /\ UNCHANGED <<assigned, signed, status, settled, client, request, inviting, handler, overtaken>>

\* Mutant of MayComplete: the task trusts a documents row not committed yet.
MayCompleteOnceCommitted(p) == allSigned[p] /\ pc[p] = "done"

\* Only a submission that found all rows signed completes the request.
MayComplete(p) == allSigned[p]

\* update_esign_request_completed; its result is not looked at.
CompleteRequest(p) ==
  /\ task[p] = "complete"
  /\ task' = [task EXCEPT ![p] = "done"]
  /\ \/ request' = (IF MayComplete(p) THEN "Completed" ELSE request) /\ NoFault
     \/ MayComplete(p) /\ UNCHANGED request /\ Fault
  /\ UNCHANGED <<assigned, signed, status, settled, client, inviting, handler, reply, overtaken>>

\* _writeback_signed_pdf: the file is posted to, or copied over, its source, or
\* that fails and is logged.
WriteBack(p) ==
  /\ task[p] = "writeBack"
  /\ task' = [task EXCEPT ![p] = "done"]
  /\ UNCHANGED <<assigned, signed, status, settled, client, request, inviting, handler, reply,
                 faults, overtaken>>

\* The container restarts: handlers and tasks are gone.
Restart ==
  /\ Fault
  /\ pc' = [p \in Submissions |-> IF Handling(p) THEN "failed" ELSE pc[p]]
  /\ task' = [p \in Submissions |-> IF Running(p) THEN "died" ELSE task[p]]
  /\ lock' = NoSubmission
  /\ inviting' = {}
  /\ UNCHANGED <<assigned, signed, status, settled, client, request, who, loaded, allSigned,
                 reply, overtaken>>

-----------------------------------------------------------------------------
Serve(p) ==
  \/ Gate(p) \/ MarkDocument(p) \/ MarkClient(p) \/ CheckClients(p) \/ StartTask(p) \/ Commit(p)
Work(p) == SendCompletion(p) \/ CompleteRequest(p) \/ WriteBack(p)

Next ==
  \/ \E s \in Signers : Sign(s) \/ Withdraw(s) \/ Assign(s) \/ InviteSigner(s)
  \/ Prepare
  \/ \E p \in Submissions, s \in Signers : Submit(p, s)
  \/ \E p \in Submissions : Serve(p) \/ Work(p)
  \/ Restart

Spec == Init /\ [][Next]_vars

-----------------------------------------------------------------------------
(* Properties *)

\* The submission p was answered 200, or has got past the gate at least.
PassedGate(p) == loaded[p] # NoDocument

Invited      == {s \in Signers : client[s] # "absent"}
Submitted(s) == \E p \in Submissions : who[p] = s /\ PassedGate(p)

\* "Set Status='Completed' ... when all signers done" (update_esign_request_completed):
\* a submission finds all rows signed only when every signer invited by then
\* has got a submission past the gate; and the submission whose task closes the
\* request is one that did, or one of a signer without LoginDetailID.
ClosedWhenInvitedSubmitted ==
  [][/\ \A p \in Submissions : who[p] \in linked /\ allSigned'[p] # allSigned[p] =>
          \A s \in Invited : Submitted(s)
     /\ request # request' =>
          \E p \in Submissions : task[p] = "complete" /\ task'[p] = "done" /\ allSigned[p]]_vars

\* "Marking Completed only AFTER the callback": the submission that closes the
\* request has had its one callback first, while the request was open.  CpaDesk
\* has answered it, if only to refuse it, unless an outage spoiled it: the
\* request is closed all the same (the order of _complete_then_mark).
CallbackPrecedesCompletion ==
  [][request # request' =>
       \E p \in Submissions :
         /\ task[p] = "complete" /\ task'[p] = "done"
         /\ reply[p] \in {"answered"} \cup IF faults = 0 THEN {} ELSE Spoiled]_vars

\* Without outages, signers who all submitted are never left waiting: once no
\* submission and no task is at work, the request is closed if all rows are signed.
NobodyLeftWaiting ==
  faults = 0 /\ tracked /\ (\A p \in Submissions : ~Handling(p) /\ ~Running(p))
    /\ (\E s \in Signers : client[s] # "absent")
    /\ (\A s \in Signers : client[s] \in {"absent", "signed"})
  => request = "Completed"

\* The task sends the document that its submission's gate loaded
\* (_complete_then_mark gets it).  Where the submission that closes the request
\* is one of a signer with a LoginDetailID, so that it looked at the rows, every
\* invited signer who has not taken a signature back after submitting had signed
\* that document, unless another signer submitted after it was loaded.
ClosedWithAllSigned ==
  [][\A p \in Submissions :
       /\ request # request' /\ task[p] # task'[p] /\ who[p] \in linked
       /\ p \notin overtaken
       => loaded[p] = "neither"]_vars

\* The documents row that a submission locks while it talks to SQL Server is
\* given back on every way out of the handler, outages included.
RowGivenBack == lock # NoSubmission => Handling(lock)

\* Every variable has its type, and no handler leaves the row locked.
SubmissionsAreSound == TypeOK /\ RowGivenBack

\* A row of ESignClients says signed only of a signer who had signed everything
\* when they submitted, and stays so across failed submissions and restarts.
SignedRowsWereEarned ==
  \A s \in Signers : client[s] = "signed" =>
    \E p \in Submissions : who[p] = s /\ loaded[p] \notin {NoDocument, "own"}

\* "it must receive the signed file while the request is still open": CpaDesk
\* never turns a signer's callback down because the request is closed.
ReceivedWhileOpen == \A p \in Submissions : reply[p] # "tooLate"
=============================================================================
