# SignatureBack: formal models

TLA+ specifications of the document signing backend in `src/app`, checked with TLC on small
instances and, for all the safety of the stateful parts, proved with TLAPS for every value of the
constants. Paths below are
relative to `src/app`; DWS is `application/services/document_workflow_service.py`, IS is
`application/services/integration_service.py`.

## The system

A FastAPI service lets a CPA's admin place signature regions on a PDF and lets signers sign them.
It is entered from CpaDesk, whose SQL Server tells who people are and keeps the state of the
signing request, and which gets the signed file back. `start.sh` runs one uvicorn worker, so there is
one asyncio event loop: code between two awaits is atomic and every await is a place where another
request runs. The state is in PostgreSQL (one READ COMMITTED transaction per request session, rolled
back by `get_db_session` when a handler raises), in CpaDesk's SQL Server, in a few module level
variables, and in files.

| Component | State it keeps | Operations | Interacts with | Hard about it |
|---|---|---|---|---|
| Document workflow (DWS, `persistence/repositories.py`, `routers/documents.py`) | documents, signature_regions, annotations, audit_logs, rendered PDFs | upload, create_regions, sign, sign_all, unsign, discard, annotations, download | PostgreSQL, PDF engine | whole-file renders from a snapshot, row locks, several commits per request |
| Submission (IS 659-777, 865-1112) | documents.status, ESignClients, ESignRequests | submit, notify-prepared, background tasks | SQL Server, CpaDesk by HTTP | two databases and an endpoint without a common transaction; tasks outlive requests |
| Launch and accounts (IS 166-629, `routers/integration.py`) | users, documents.external_document_id | launch, resolve user, bootstrap, signer lists | SQL Server, CpaDesk's file host | check-then-insert over awaits; identity keyed by a mutable email |
| SQL Server client (`sqlserver_client.py`) | `_init_attempted`, `_engine`, the pool | execute_query, execute_non_query | all of the above, from worker threads | threads, pool limits, retries, "not found" against "unavailable" |
| SQL Server repository (`sqlserver_repository.py`) | none of its own | statements on ESign tables and the directory | SQL Server client | swallowed errors |
| External callback client (`callback_client.py`) | callback_audit_logs | send_completion_callback | an external endpoint | retries, idempotency, read-modify-write of the audit row |
| Annotate endpoints (`routers/annotate.py`) | `_PDF_FETCH_CACHE`, temporary files | meta, file, save | CPA's file host, SQL Server, CpaDesk | a shared cache that owns files |
| PDF engine (`pdf_engine/signature_pdf_service.py`), signature box | none between calls | apply_signatures, render_region_boxes, render_audit_report | called by the workflow, the annotate endpoints and the audit report | the placement of boxes, text that does not fit, two passes that must agree |
| Audit report (`routers/audit_report.py`) | none | append_audit_page | PDF engine | page breaks, a derived list of signers |
| Auth and users (`auth_service.py`, `core/dependencies.py`) | users | register, login, role checks | PostgreSQL | one check-then-insert; roles that stay as created |
| Event bus, schemas, configuration | none | no-ops, declarations | | |

What makes each of them correct:

* Workflow: nobody but its assignee changes a region; the PDF on file shows the signatures on record;
  the status follows from the regions; a failed request leaves no signature; what is remembered of a
  signer is one signature they gave; every request is answered.
* Submission: a request is closed only when every invited signer has submitted; nobody is left waiting;
  a row says signed only of somebody who signed; the documents row is given back; the document that is
  sent before a request is closed was signed by everybody.
* Launch: races for a new account end well; one document for each ESignRequestID; a signer gets the
  account that regions were assigned to, and everybody the role they entered in.
* SQL Server client: connections are returned, every caller is answered, an outage is not "not found".
* Callback client: success means delivered, deliveries are not repeated, attempts are counted.
* Annotate: cached files exist, CPA's files are never deleted, a usable file is not fetched again, and what
  was downloaded can be removed again.
* PDF engine and audit report: every mark is where the admin put it; text is cut visibly or not at all;
  the report is complete and its page numbers are right.

## Modules

| Module | Models |
|---|---|
| `SigningWorkflow` | one document and the overlapping requests on it, statement by statement |
| `SignedDocument` | the abstract document: signatures, the PDF that shows them, the status that follows |
| `SigningInvariants` | inductive invariants of `SigningWorkflow` |
| `SigningWorkflow_proofs` | their proofs, and the theorems: for any number of overlapping requests, for one at a time, and for remembered signatures |
| `RememberedSignature` | `SigningWorkflow` with what a signing request does after its commit: the upsert of the signer's remembered signature |
| `EsignCompletion`, `EsignCompletion_proofs` | submission, its background task, ESignClients and ESignRequests, and theorems |
| `Launch`, `Launch_proofs` | launches, registration, accounts and their roles, bootstrap, signer lists, routing, and theorems |
| `SqlServerAccess`, `SqlServerAccess_proofs` | the SQL Server client and theorems about it |
| `CallbackDelivery`, `CallbackDelivery_proofs` | deliveries for one idempotency key, and theorems |
| `AnnotateCache`, `AnnotateCache_proofs` | the cache of source PDFs and its files, and theorems |
| `TextLayout`, `TextLayout_proofs` | the lines that text is wrapped into, and how it is cut; the proof that nothing is lost, for any text |
| `PdfStamping` | signature boxes; stamps, captions, annotations and empty boxes on the pages of a file |
| `AuditReport` | the two passes that lay out the audit report, and its place after the signed file |
| `PdfEngine`, `PdfEngine_proofs` | the composition of the three: one call of the engine; theorems on stamped files, the report and its texts |
| `MC...` | the instances that TLC checks |

Operators whose comment calls them a mutant of another one are versions of it with a plausible bug;
substituted for it, each makes the property it is listed with in `PROJECT.json` fail. No specification
uses them.

### SigningWorkflow

`regions`, `row`, `status`, `final`, `notes`, `logged` are the committed rows: the regions that exist,
their signed and image columns, documents.status and final_path, annotations and audit entries. `holder`
and `dirty` are PostgreSQL's row locks and the version the holder has flushed. The rest is per request:
`pc` names the next statement, `op` the request, `pdf` what it is going to render.

One action is one statement on shared rows with the code up to the next await:

| Actions | Code |
|---|---|
| `Arrive`, `CheckRegion` | the routers' role checks, the checks of the service methods |
| `LoadForSigning`, `LoadForRebuild`, `LoadNotes` | get_document_by_id and the collection of stamps |
| `SelectRegion`, `UpdateRegion` | mark_region_signed, unmark_region_signed: SELECT, then the flush |
| `ReadStatus`, `ReadRegions`, `Publish` | update_document_after_sign, create_log, commit |
| `DefineRegions`, `WriteNote`, `WriteLog`, `LoadFinal` | create_regions, annotations and their rebuild |
| `GateSubmit`, `SubmitDocument` | the gate and the status write of submit_document |
| `Abort`, `DeadlockVictim` | rollback by get_db_session or a restart; PostgreSQL's deadlock detector |

Points of translation: the ORM writes only columns that differ from what its SELECT loaded (`Flushed`);
an UPDATE waits for a row another transaction holds; the image path and signed_at change together and
are one value, named by the request that drew it; final_hash is a digest of the file and left out; the
UPDATE of documents and the commit are one step, since the transaction reads nothing shared after that
UPDATE; the first load of unsign and discard is merged into `Arrive` because only immutable columns are
looked at.

`SignedDocument` has the signatures on record and a PDF and a status derived from them. `KeepsPromise`
is the refinement: with one request at a time `SigningWorkflow` implements it (`signature <- Applied(row)`),
an aborted request being a stutter.

### RememberedSignature

The routers call save_user_signature after sign_region or sign_all_regions has committed and before they
answer. The module extends `SigningWorkflow` and leaves its actions alone: a signing request that commits
with `remember_signature` goes on (`SignaturesGoOn`) to `FindSaved` and `WriteSaved`, which is the upsert of
one row per user. `Overwritten` is the ORM's UPDATE: signature_data always, the method only if it differs
from the row that was read. Two overlapping saves of one signer can therefore leave the method of one with
the payload of the other, and two first saves an answer of 500 for a signature that is on file;
`crossed` is the history variable by which `RememberedAsGiven` says that nothing else can do either.

### EsignCompletion

`assigned` and `signed` are the signers who have regions and who have signed all of theirs; `lock` is the
documents row, which submit_document's flushed UPDATE holds while the handler talks to SQL Server;
`client` and `request` are ESignClients and ESignRequests; `task` is the background task of each
submission, which may start before the commit. Signing and withdrawing are single steps here, their
insides being the subject of `SigningWorkflow`. `loaded` is the document that a submission's task will
send, as its gate loaded it, by whose regions are not all signed in it; that its file shows all the
signatures on record is not implied (`SigningLosesOthers`), and nothing here says so. `overtaken` is a
history variable of the submissions that another one got ahead of afterwards. `reply` is what became of
the one callback: CpaDesk has answered ("answered", whether it took the file or refused it for a reason
of its own, say a request it does not know), it has refused because the request was Completed
("tooLate"), or an outage spoiled it; the code goes on in the same way after each of them. `Fault` counts
outages, lost answers and restarts. execute_non_query swallows its errors, so
`MarkClient` and `CompleteRequest` go on after a fault, while `CheckClients` and `StartTask` raise and
roll back. A submission without ESignRequestID (`tracked` false) takes the write-back branch. `linked`,
chosen at the start, are the signers with a LoginDetailID when they submit; a signer without one is the
branch in which the code takes all as signed. notify-prepared looks it up by email only, so it can invite
no more than `Invitable`, while submit also takes the number in a placeholder email: somebody in `linked`
and not in `Invitable` submits without a row to mark. Left out: what CpaDesk does with a file, payloads
and URLs.

### Launch

`users` maps each email to its row (users.email is unique), `inserting` to the transaction with an
uncommitted INSERT, for which others wait. `People` are the rows of the directory, LoginDetail and Client
rows apart, for the code resolves a client by one or the other; `RowOf` is the ESignRequests row behind
each id. A request is a launch as admin or as signer (with a loginDetailId, the code's 3-tier flow, or
without, its 2-tier flow), one of the two signer lists, or a registration. `VerifyLoginId` is the login
id that validate_launch_token demands: a signer with neither a loginDetailId nor a ClientLoginDetailID is
answered 401, so a 2-tier launch is always that of a client with a LoginDetail. There the signer list
makes the account of the LoginDetail, while the launch takes Client.Email. `Contacts` is whose accounts
it needs and under which email (`Address`, `ClientAddress`, `Listed`); `FindUser`, `InsertUser`,
`CommitUser` and `RefetchUser` are the statements of `_get_or_create_user_race_safe` and of the two
places that do the same without catching the duplicate (get_allowed_signers_for_admin, register_user). A
new account gets the role of the request, a found one keeps its own. `FindLinked`, `CreateDocument` and
`RouteSigner` are the document; `AssignRegion` is the admin who picks somebody from a list, with the
checks of create_regions. Token and path decoding, refusals and outages are `Abort`. `overlapped` and
`asked` are history variables: ids for which two admin launches overlapped, and the roles under which an
email was asked for. Requests are numbered in the order they come in, which loses no behaviour.

### SqlServerAccess

Queries run in threads, so reading `_init_attempted`, setting it, and setting `_engine` are three steps.
The backoff sleep is part of the next attempt. `Reject` is the ProgrammingError, whatever its cause (a
parameter that cannot be converted, a missing permission, a database that is not available), when the
connection is made or the SELECT is run: it is answered with no rows, without retry, also where a row
matches. `rejected` is the history of it.

### CallbackDelivery and AnnotateCache

`CallbackDelivery` has one idempotency key; increment_attempt's SELECT and its UPDATE with the commit
are two steps. The application constructs the client, but at this commit only the tests call it.
There `overlapped` is a history variable that tells properties for sequential use from those that hold
for every interleaving. `AnnotateCache` has the lookup, download, streaming and callback awaits; expiry is
an event; reading a file that the cache has just returned happens in the same step, as in the code. An
entry is popped before its file is unlinked, and an OSError of unlink is swallowed: `Drop` and `CacheSet`
choose which files are spared. A download may break off after its file was created, and `Restart` empties
the cache while the files stay on the volume. These faults are counted, and the files they leave behind
are `stray`; `crossed` are the requests that downloaded a ref while another one did.

### TextLayout, PdfStamping, AuditReport and PdfEngine

A call of the engine is a run of one of its methods from start to end; nothing is kept between calls and
nothing in a call awaits, so calls are not interleaved. What can go wrong is arithmetic at the edges and
the order in which things are drawn, over inputs that no test enumerates.

`TextLayout` has `_wrap_text`, `_wrap_2_lines` and `_clip` over texts given as lengths of words, every
character one unit wide; pieces of words are tracked, so that a lost or doubled character shows.
`PdfStamping` has boxes in exact fractions of the page and lengths in quarter points: `Valid` is
SignatureBox.validate, `OnPage` the flip from the upper to the lower left corner, and the actions are the
loops of apply_signatures and render_region_boxes. `AuditReport` has one action per row of the timeline,
the page break, and the two passes of render_audit_report, of which the first only counts pages; the
header and the cards of page 1 have fixed heights and are operators. Lengths that the code computes in
fractions of points are rounded to the unit of the module where no comparison depends on it.
`SigningWorkflow` has what a rendered file shows, `PdfStamping` where it shows it.

## Runs

| Run | Shows | Instance |
|---|---|---|
| `SigningConcurrent` | authenticity, no phantom signatures, the status backed by regions and PDF, only the assignee changes a row, signing and withdrawing show on file | 4 requests, 2 at a time, all operations of an admin and two signers, three regions |
| `SigningSerial` | the abstract document is implemented; annotations stay in the PDF | 4 requests, one at a time |
| `SigningContention` | waits stay with one signer; every request is answered, deadlocks included; a remembered signature is one that was given | 3 requests at once: tabs of one signer and another signer, all of them remembered |
| `SigningLosesOthers` | violated: "Regions already signed by other signers are preserved" (DWS 395) | 2 requests |
| `EsignSubmit` | closing only after all invited have submitted, after the callback was answered or spoiled and, with no submission in between, with a document that all of them have signed; nobody left waiting; rows earned; the row given back | 2 submissions, 3 signers (one invited, one not yet, one with a placeholder email, with or without a LoginDetailID), 1 fault |
| `EsignRejected` | violated: the signed file is received "while the request is still open" (IS 742) | 2 submissions, no fault |
| `LaunchRaces` | races for accounts end well; accounts are real and have the role that was asked for; one document unless launches overlap; signers get their account; every launch ends | 3 requests, 2 at a time, of all kinds over three ESignRequests; an admin, a client with Client row and LoginDetail, and a user without email whose LoginDetail is that of the second ESignRequest; 1 change of an email |
| `LaunchTwice` | violated: bootstrap is "Idempotent" (IS 397) | 2 requests |
| `SqlServerCold` | no leak; a row that is there is missed only after a ProgrammingError or for want of an engine; every query answered | 4 queries, pool smaller than that |
| `CallbackCalls` | delivered means delivered, skipped once recorded, attempts counted | 3 calls, 3 attempts, 1 restart |
| `AnnotateCalls` | cached files exist, only own files deleted; only downloads that cross each other take a usable entry away, and only they or a fault leave an orphan | 3 requests, a remote and a local ref, 2 expiries, 2 faults |
| `Rendering` | stamps fill their regions, captions follow their stamps, annotations lie on top; text is whole or visibly cut; the report is complete, paginated as its footers say, after the file; signers listed once | files of up to 2 pages of 2 sizes, 2 signatures, 2 annotations; reports of up to 6 events on pages of 3 heights |

Bounds. `MaxActive` is the number of requests in flight, `MaxFaults`, `MaxRestarts`, `MaxExpiries` and
`MaxMoves` count events of the environment; everything else is finite by itself. Two requests in
flight with two more before or after them are enough for a stale snapshot, its publication and a third
party who sees it; three in `SigningContention` are enough for a deadlock beside a bystander. Three
regions give one signer two rows, hence lock cycles, and leave one for another signer. Requests are
interchangeable, so they are a symmetry set wherever no liveness is checked (in `LaunchRaces` they are
numbered instead). `Movers` is whose email may change: one person with regions is enough, as accounts of
different people meet only in one email. In `Rendering` the narrow columns (5 and 8 characters, with an
ellipsis of 3) make titles of a few words wrap, break and be cut, and 6 events on a page of 300 points
need three pages. `AllAnswered` marks the
intended end of the signing runs, so that TLC's deadlock check stays on; the other runs switch it off,
as the system stops there when the calls of the instance have been answered.

Fairness. `SigningWorkflow`: weak fairness of every request's steps, because the event loop runs every
ready task, and of `DeadlockVictim`, because PostgreSQL breaks every cycle after deadlock_timeout.
A waiting UPDATE is not enabled, so nothing is assumed about the order in which locks are granted.
`SqlServerAccess`: the operating system runs every thread, and a wait for the pool ends by pool_timeout
(`ConnectFails`). `RememberedSignature`: the steps of a save, as for the event loop. `Launch`: likewise. No fairness is assumed of clients, faults or the
environment.

## Where code and comments part

The three violation runs are recorded as findings in `PROJECT.json`. Modelling met other places where a
comment says more than the code does; they follow from steps of the models and are not checked by
runs:

* unsign_region "rebuild[s] the PDF without it" (DWS 268): a signing request that loaded the document
  before publishes the withdrawn stamp again. `SigningSerial` shows that it takes an overlap.
* "Document is not fully signed yet" (DWS 718) guards the download, but one signer's submit sets Completed.
* The gate of a submission (IS 666) and its commit are awaits apart; a withdrawal fits in between.
* Annotations are kept "in sync" (DWS 579) unless a signature is being rendered at the moment.
* submit is "Idempotent: repeated calls return success without re-triggering callback"
  (`routers/integration.py` 377): nothing records that a signer has submitted.
* "it must receive the signed file" (IS 742): the file sent is that of the document as the gate loaded it. A
  signer who signs and submits between another one's gate and mark is missing from what is sent before
  the request is closed (TLC finds it when `ClosedWithAllSigned` is stated without `overtaken`).
* "Marking Completed only AFTER the callback" (IS 743-744): after it was posted, whatever came of it. A
  TResult of false, an error status or an exception is logged (IS 1026-1049) and the request closed.
* "fire-and-forget with internal retry" (IS 668): the completion callback is posted once.
* "when all signers done" (`sqlserver_repository.py` 427): signers without an ESignClients row do not count.
* "the connection pool is shared across all requests" (`routers/integration.py` 58): two first queries
  build an engine each.
* An exact id "is unambiguous" (`routers/integration.py` 151) until `LaunchTwice` happens; then every
  lookup by it raises.
* "exactly who the admin assigned regions to" (IS 298), until the email changes in CpaDesk.
* "the same local user the admin assigned regions to" (IS 310): get_allowed_signers_for_client prefers the
  LoginDetail of ClientLoginDetailID (IS 590-603), which every admitted 2-tier launch has, and the launch takes
  Client.Email. They are one user only if the two entries have one email.
* SqlServerUnavailableError sets an outage apart from "a query that legitimately returned zero rows"
  (`sqlserver_client.py` 23), but a query that comes between `_init_attempted` and the engine gets an empty
  result too, and so does every query that ends in a ProgrammingError, of which the comment says "it can
  never match a row" (142-150): that is so of a parameter that cannot be converted, not of a missing
  permission. `MissingIsExplained` says that there is no third case.
* "Opportunistic cleanup so this never grows unbounded" (`routers/annotate.py` 76): files whose unlink failed,
  or which were downloaded before a restart, are never looked at again.
* "Upsert the user's remembered signature" (DWS 477): two overlapping first saves are two INSERTs, and the
  second answers 500 after its signature has been committed.
* "retries survive restarts" (`callback_client.py` 5): nothing resumes them; and a failure of an
  overlapping call overwrites a recorded success.

* "successfully signed and completed" (PDF engine 678) is printed under the signers of every report that
  lists any, whatever the status on its card.
* The cards of page 1 are not continued: on a Letter page nine signers run over the footer (`PanelHolds`
  says from which height on they do not).

## Proofs

Every safety invariant and action property of a passing run is a theorem for all values of the
constants. A theorem assumes what its module assumes of the constants
(the named ASSUMEs, which TLC evaluates in every run) and nothing else, except that
`SerialKeepsPromise` and `AnnotationsSync` are for `MaxActive = 1`, as their runs are: with overlapping requests they are
false, which is what the comments under "Where code and comments part" are about.

Invariants are proved one part after another, each step using the parts before it, in the primed state
too. TLC has checked that each of them is an invariant before it was proved; the state counts are of
the instance of the run named.

**Workflow** (`SigningInvariants`, `SigningWorkflow_proofs`; `IInv` on `SigningConcurrent`, 1.8 million
states).

* `TypeCorrect`: `Spec => []TypeOK`. Needs `OpsAdmitted`: whatever is active carries an admitted operation.
* `OnlySignersWait`: `Spec => []WaitsStayWithOneSigner`, by `OwnRowsOnly`: a request picks, waits for and
  holds only rows assigned to its caller, because the checks of `Arrive` and `CheckRegion` come before
  every mark. `Phases` ties the loops' bookkeeping to `pc`.
* `OnlyAssigneeChanges`: a row changes only in the commit of its holder, who is its assignee.
* `Authenticity` and `NoPhantoms`: `Authentic` is not inductive, as images travel through `dirty` rows and
  PDFs under way. `ImagesAccountedFor` says of every image in a row, in an uncommitted row and in a PDF
  under way that it is the work of a signing request of the assignee that has committed, or of the request
  which is drawing it; `LoggedLast` that a signing request is logged only when it commits.
* `SigningShows` and `WithdrawalShows`: what a request is about to mark or has marked, its PDF shows
  (`MarksShow`). This rests on the ORM's habit of writing changed columns only: the image of a request is new,
  so a signing UPDATE always changes the row (`LoadedToChange`), and one that blanks a row somebody else
  signed in between leaves no image of either.
* `StatusBacked`: regions are never deleted, so a request that has seen one computes no Draft
  (`RegionsExist`), and Completed is only computed or submitted over a signed row (`SignedHasPdf`).

**Workflow, one request at a time** (`SerialInv` on `SigningSerial`, 370,000 states).

* `SerialKeepsPromise`: `Spec => KeepsPromise`, the refinement of `SignedDocument`. `Turn` says that what the
  active request has loaded is still what is on record: the row it is about to update, the stamps and
  annotations of its PDF, the status it computed. Each `Publish` is then a `Sign`, `Withdraw` or `Refresh` of
  the abstract document, and every other step a stutter or a change of regions, annotations or status.
* `AnnotationsSync`: by `SyncUnderWay`, a PDF that differs from the annotations on record has a rebuild
  under way, or one of the requests failed.

**Remembered signature.** `SavingRefines`: `RememberSpec => Spec`, so that the workflow's theorems hold of
`RememberedSignature` too. `RememberedRight`: a row is a committed signing of its user (`RowsGiven`), and a save
about to write has found the row as it still is, or its user is in `crossed` (`FoundIsSaved`).

**Submission** (`IInv` of `EsignCompletion_proofs` on `EsignSubmit`, 10.8 million states).

* `SubmissionsSound`: the documents row is locked exactly by the submission between its UPDATE and its commit.
* `RowsWereEarned`: the row is marked after the gate (`PastGate`), and nothing takes "signed" back.
* `CallbackFirst`, `ClosedAfterAll`: the task which is to complete a request has an answer to its callback, or an
  outage has spoiled it (`CallbackSent`); it is the task of a submission that found all rows signed.
* `ClosedWithSigned`: a submission that loaded a document which another signer had yet to sign sees that signer's row waiting,
  or that signer submitted after its gate, which is what `overtaken` records (`SeesWaiting`). The row
  cannot change while it is looked at, as the documents row is held from before the mark on.
* `NobodyWaits`: `ClosedOrClosing`, once all rows are signed the request is closed or a submission is at a
  step from which, without faults, it closes it: the last one to mark its row.

**Launch** (the parts on `LaunchRaces`, 779,000 states). For any directory: `Emails`, `People`, `RowOf` are
arbitrary sets and functions.

* `LaunchTypes`, with `Admitted`: what a request does next depends on what it asked for.
* `RaceSafety`: a request whose INSERT met a duplicate has an account for its email in the table, committed by
  another request (`Raced`): accounts never go away, one INSERT at a time is under way for an email, and a
  list that inserted an account for an earlier entry finds it before it inserts again.
* `AccountsReal`: one INSERT at a time is under way for an email, and none for an email with an account
  (`InsertsExclude`), so accounts never change once there (`AccountsKept`).
* `InRole`: roles of accounts were asked for (`AccountsKeyed`, `RolesAsked`); `SignerMeant` and the admin's part
  of `InRole` from `FromDirectory`, which relates accounts, documents and assignments to the emails that the
  directory has, as long as nobody has changed theirs.
* `OneDocument`: `Overlaps`, a launch about to create a document finds none unless another one overlapped it.

An attempt to prove `LaunchTypes` with `AfterAccounts` as a CASE whose arms overlapped (a list is asked for in
the role of an admin as well) failed, since TLA+ leaves open which arm is taken; it is now the IF that the
code has.

**SQL Server client.** Type correctness (with it the bound on attempts) and that the pool never drains are
inductive together; a row is missed only when the SELECT was rejected, or without an engine (`MissingExplained`). For any number of queries,
connections and attempts.

**Annotate cache.** No two entries share a file (`Held`), hence evictions leave the files of other
entries alone (`CacheSound`, `OwnFilesOnly`). For the other two, `Apart`: the download of a request that
has not crossed another of its ref finds no entry when it is done (`DownloadsMiss`), and an entry beside a
download under way is that of a request which crossed it. Hence no usable entry is replaced and no file is left
without an entry but by a fault, which records it in `stray` (`NoOrphans`, `DownloadOnce`).

**Callback client** (the parts on `CallbackCalls`, 2.5 million states). For any finite set of calls
(the counters have no bound otherwise).

* `DeliveredIsTrue`: `DeliveriesHold`, nothing that is loaded, saved or answered is ahead of the POSTs taken.
* `RecordedIsSkipped`: `Alone`, while calls do not overlap a save writes over the row it has loaded.
* `CallsSound`: the bound on POSTs is the number of pairs of a call and an attempt that may have been
  tried (`Tried`, a finite set); counts in the row are behind by the outcomes not written yet (`Unwritten`).

**Stamped files** (`StampInv` on `Rendering`, 337,233 states). For any pages, regions, captions and annotations.

* `MarksPlaced`: what has been drawn is right mark by mark (`MarkInPlace`), and the stamps and the annotations
  drawn so far are one for each item that the loops have passed (`OneEach` with `SignaturesDrawn` and
  `NotesDrawn`); a caption comes after its stamp and is the only one (`HasCaption`); a page of annotations or boxes is drawn by a loop of its own, through which `MergedKeeps` carries
  the same statement. That a stamp is the rectangle of its region, and on the page, rests on `Fraction`: on a page whose sides are multiples of
  the grid nothing is rounded.

**Audit report** (`ReportInv` on `Rendering`, 337,233 states). For reports of any size: any files, signers,
events and annotations, texts of any length.

* `AuditReportIsWhole`: both passes walk the same layout, which depends on neither the page count nor what has
  been drawn; so the number of pages that the first one counts, and the second one prints, is the
  number drawn (`Measured`). The rows drawn so far follow each other, each below
  the one before it or at the top of the next page, and the last one ends where the pass stands
  (`RowsFollow`). A row ends above the footer because its height is at most 94 (`RowHeights`), which rests on
  `TwoLines`: `Wrap2Lines` returns at most two lines, whatever the text.
* `EverySignerListedOnce`: by induction over the history (`ListedOnce`, of the list derived from the events so far).

**Text** (`NotesInv` on `Rendering`, 337,233 states). For any text (also one with empty paragraphs and adjacent
spaces), in a note of any width and in columns that hold at least the three dots.

* `TextCutVisibly`: `Spec => []TextIsTruthful`, for notes and for titles. It rests on two lemmas about
  `_wrap_text`, which hold outside the engine too:
  * `AlwaysWrappedWell`: its lines show every letter once and in order and are filled as far as they can be.
    After each turn of the loop over the words, the closed lines and the current one together show the words so
    far (`Filled`); a line is closed only when the next word did not fit (`EndsBefore`). A current line
    of no width is forgotten, which loses no letter because such a line is one empty word. `HardBreakParts`
    says that the parts of a long word make up the word.
  * `TitleIsTruthful`: two lines, the second one with dots if it was cut, show a beginning of the text;
    `FirstCharsBegin` says so of the cut itself.
* The lines of a note that are drawn are the first ones (`FirstLinesShown`), as each is lower than the one before
  it; they are inside the paper unless the paper is narrower than one character (`LineInside`).

The attempt to prove `TextIsTruthful` showed that it had been stated too strongly in two places which the
instance did not reach: a text whose remainder is blank ends in dots though no letter is missing, and in a paper
narrower than its margins even an empty line begins outside. The property says so now, and the instance
has a text of the first kind.

The library's induction theorems take an operator as their parameter, which the provers cannot
instantiate. `TextLayout_proofs` gets round this with `LeastNumber` (a set of numbers that is not empty has a
least one), `Iterates` (a recursive function over 0..n has the values that repeating its step gives), `UpTo`
and `AllSequences` (induction over a set of numbers, or of sequences, that exists), proved once and used for
every list that the engine builds.

Only model-checked:

* Liveness (`EveryRequestAnswered`, `EveryQueryAnswered`, `EveryLaunchEnds`), which the prover cannot do.
* The three violations, which are about instances.

## Not modelled

The upload and read-only queries (among them what a signer's list of pending work shows), password
hashing, login and JWTs (a request's caller is an input), the decoding of tokens and paths, payloads of
callbacks and what CpaDesk does with a file, the drawing of icons, colours, typed signatures and strokes,
fonts (every character is one unit wide), pages that are rotated or whose mediabox does not begin at 0,0
(the engine does not look at either), spellings of names (the derived list of signers compares them in lower
case; the models have the people they stand for), schemas and
configuration, the no-op event bus, migrations and scripts. Code that nothing calls
(validate_signer_in_mapping, get_esign_client_for_document, the legacy branch of
resolve_or_create_local_user) is left out too.

## Plan

Done, in this order: the document workflow with its abstract specification, submission, the SQL Server
client, launches, the callback client, the annotate cache; type correctness, authenticity and the row
discipline of the workflow, and the client's theorems; the PDF engine and the audit report, roles and
registration and both tiers of launches, remembered signatures, placeholder emails in submissions; the
theorems on the remaining safety of the workflow with its refinement, on submissions, launches, the
annotate cache and the callback client; those on stamped files, the audit report and the wrapping of text.

Next:

1. An abstract specification of a signing request (open, signers submit, closed), and its refinement by
   submissions without faults.
