-------------------------------- MODULE Launch --------------------------------
(***************************************************************************)
(* Entering from CpaDesk: _exchange_launch_token with validate_launch_token, *)
(* resolve_or_create_local_user and bootstrap_external_document, the       *)
(* signer lists that create accounts for people who have not launched yet, *)
(* and register_user, which creates accounts without CpaDesk.              *)
(*                                                                         *)
(* Local accounts are keyed by the email that SQL Server's directory has   *)
(* for somebody and keep the role they were created with; users.email is   *)
(* unique, documents.external_document_id is not.  Every request has its   *)
(* own session.  An INSERT of an email that another transaction has        *)
(* inserted and not committed waits for that transaction to end.           *)
(***************************************************************************)
EXTENDS FiniteSets, Naturals

CONSTANTS
  Requests,      \* numbered as they come in
  People,        \* the directory: LoginDetail rows and Client rows
  Emails,
  FirstEmail,    \* the email of each, if it has one
  Placeholder,   \* <id>@external.local of each
  Externals,     \* ESignRequestID
  RowOf,         \* the ESignRequests row of each
  UsersOf,       \* the ClientUser rows of a client
  MappedTo,      \* the clients that CAPUserClientMapping gives an admin
  Ops,           \* the requests clients may make
  MaxActive,     \* bound: requests in flight at the same time
  Movers,        \* bound: whose email may change in the directory
  MaxMoves,      \* bound: how often
  NoRequest, NoAccount, NoOp, NoPerson, NoEmail

Roles == {"ADMIN", "SIGNER"}
Kinds == {"launch", "list", "register"}

\* FileURL, AssignedByLoginID, ClientID, ClientLoginDetailID, ClientEmail.
Row == [file: Externals, admin: People, client: People \cup {NoPerson},
        login: People \cup {NoPerson}, contact: Emails \cup {NoEmail}]

\* `as` is the role of the launch, or of the accounts that are created; `who`
\* the loginDetailId of a signer's launch, if it has one, or who registers.
Operation == [kind: Kinds, as: Roles, who: People \cup {NoPerson}, ext: Externals]

ASSUME LaunchAssumption ==
  /\ Requests \subseteq Nat
  /\ NoPerson \notin People /\ NoRequest \notin Requests /\ NoOp \notin Ops
  /\ NoEmail \notin Emails
  /\ FirstEmail \in [People -> Emails \cup {NoEmail}]
  /\ Placeholder \in [People \cup {NoPerson} -> Emails]
  /\ RowOf \in [Externals -> Row]
  /\ UsersOf \in [People -> SUBSET People] /\ MappedTo \in [People -> SUBSET People]
  /\ Ops \subseteq Operation
  /\ \A o \in Ops : /\ o.kind = "register" => o.who # NoPerson
                    /\ o.kind = "list" => o.as = "SIGNER"
  /\ MaxActive \in Nat \ {0} /\ MaxMoves \in Nat /\ Movers \subseteq People

\* A users row, named by the request that inserted it and its email.
Account == [by: Requests, email: Emails, role: Roles]
Contact == [who: People \cup {NoPerson}, email: Emails]

ASSUME NoAccountAssumption == NoAccount \notin Account

VARIABLES
  \* committed rows
  users,      \* each email's users row
  docs,       \* the documents: who created it and when, and external_document_id
  work,       \* regions: on which document, for which account, meant for whom
  inserting,  \* each email's uncommitted INSERT
  \* SQL Server
  email,      \* the email of each entry of the directory
  moves,
  \* the requests
  pc, op,
  todo,       \* people whose account is still to be resolved
  current,    \* the ones whose INSERT or re-read comes next
  resolved,   \* the accounts found or created, and for whom
  route,      \* the document the caller is sent to
  \* history: the ids for which launches of an admin have overlapped, and the
  \* roles under which accounts were asked for each email
  overlapped, asked

vars == <<users, docs, work, inserting, email, moves, pc, op, todo, current, resolved, route,
          overlapped, asked>>
history == <<overlapped, asked>>
world == <<docs, work, email, moves>>

Document == [by: Requests, ext: Externals, uploaded_by: Account]
Resolved == [who: People \cup {NoPerson}, account: Account]
Labels   == {"idle", "lookup", "find", "insert", "commit", "refetch",
             "link", "download", "route", "done", "failed", "duplicate", "raised", "ambiguous"}

TypeOK ==
  /\ users \in [Emails -> Account \cup {NoAccount}]
  /\ docs \subseteq Document
  /\ work \subseteq [doc: Document, account: Account, meant: People]
  /\ inserting \in [Emails -> Requests \cup {NoRequest}]
  /\ email \in [People -> Emails \cup {NoEmail}]
  /\ moves \in 0 .. MaxMoves
  /\ pc \in [Requests -> Labels]
  /\ op \in [Requests -> Ops \cup {NoOp}]
  /\ todo \in [Requests -> SUBSET Contact]
  /\ current \in [Requests -> SUBSET Contact]
  /\ resolved \in [Requests -> SUBSET Resolved]
  /\ route \in [Requests -> SUBSET Document]
  /\ overlapped \subseteq Externals
  /\ asked \in [Emails -> SUBSET Roles]

Init ==
  /\ users = [e \in Emails |-> NoAccount]
  /\ docs = {} /\ work = {}
  /\ inserting = [e \in Emails |-> NoRequest]
  /\ email = FirstEmail /\ moves = 0
  /\ pc = [p \in Requests |-> "idle"]
  /\ op = [p \in Requests |-> NoOp]
  /\ todo = [p \in Requests |-> {}]
  /\ current = [p \in Requests |-> {}]
  /\ resolved = [p \in Requests |-> {}]
  /\ route = [p \in Requests |-> {}]
  /\ overlapped = {}
  /\ asked = [e \in Emails |-> {}]

Ended(p)  == pc[p] \in {"done", "failed", "duplicate", "raised", "ambiguous"}
Active(p) == pc[p] # "idle" /\ ~Ended(p)

Goto(p, label) == pc' = [pc EXCEPT ![p] = label]

\* Mutant of TransactionClosed: the transaction stays open.
TransactionOpen(p) == inserting

\* A commit or rollback: p has no uncommitted INSERT any more.
TransactionClosed(p) ==
  [e \in Emails |-> IF inserting[e] = p THEN NoRequest ELSE inserting[e]]

End(p, outcome) ==
  /\ Goto(p, outcome)
  /\ inserting' = TransactionClosed(p)
  /\ todo' = [todo EXCEPT ![p] = {}]
  /\ current' = [current EXCEPT ![p] = {}]

-----------------------------------------------------------------------------
(* Validation, and the identity in SQL Server's directory *)

BootstrapUnderWay(x) ==
  \E q \in Requests : Active(q) /\ op[q].kind = "launch" /\ op[q].as = "ADMIN" /\ op[q].ext = x

\* require_role({ADMIN}), by the role in the users table.
MayAdminister(a) == a # NoAccount /\ a.role = "ADMIN"

\* verify_login_id: the admin who asked for the signature, or the loginDetailId of
\* the URL, else the row's ClientLoginDetailID.
VerifyLoginId(o) ==
  LET row == RowOf[o.ext]
  IN  IF o.as = "ADMIN" THEN row.admin ELSE IF o.who # NoPerson THEN o.who ELSE row.login

\* The request comes in; validate_launch_token reads the row of its guid, which
\* nothing here changes, and answers 401, which changes nothing, to a launch
\* without a login id.  The lists are for admins, about a linked document.
Call(p, o) ==
  /\ pc[p] = "idle" /\ \A q \in Requests : q < p => pc[q] # "idle"
  /\ Cardinality({q \in Requests : Active(q)}) < MaxActive
  /\ o.kind = "launch" => VerifyLoginId(o) # NoPerson
  /\ o.kind = "list" => /\ \E d \in docs : d.ext = o.ext
                        /\ \E e \in Emails : MayAdminister(users[e])
  /\ op' = [op EXCEPT ![p] = o]
  /\ Goto(p, "lookup")
  /\ overlapped' = overlapped \cup
       {x \in {o.ext} : o.kind = "launch" /\ o.as = "ADMIN" /\ BootstrapUnderWay(x)}
  /\ UNCHANGED <<users, world, inserting, todo, current, resolved, route, asked>>

\* Mutant of Address: the placeholder is forgotten.
AddressAsIs(w) == email[w]

Address(w) == IF email[w] # NoEmail THEN email[w] ELSE Placeholder[w]

HasClientEmail(row) == row.client # NoPerson /\ email[row.client] # NoEmail

\* Mutant of ClientAddress: ESignRequests.ClientEmail before Client.Email.
ClientAddressOfRow(row) ==
  IF row.contact # NoEmail THEN row.contact ELSE Placeholder[row.login]

\* 2-tier, without a loginDetailId: Client.Email, else what the ESignRequests
\* row says.  The lists name the row's LoginDetail, and take its email.
ClientAddress(row) ==
  IF HasClientEmail(row) THEN email[row.client] ELSE ClientAddressOfRow(row)

\* The client and its users, or, without a ClientID, the admin's mapping.
Listed(row) ==
  IF row.client = NoPerson THEN MappedTo[row.admin]
  ELSE {IF row.login # NoPerson THEN row.login ELSE row.client} \cup UsersOf[row.client]

\* Whose accounts the request needs.
Contacts(o) ==
  LET row   == RowOf[o.ext]
      of(S) == {[who |-> w, email |-> Address(w)] : w \in S}
  IN  IF o.kind = "list" THEN of(Listed(row))
      ELSE IF o.kind = "launch" /\ o.as = "ADMIN" THEN of({row.admin})
      ELSE IF o.who # NoPerson THEN of({o.who})
      ELSE {[who |-> row.client, email |-> ClientAddress(row)]}

\* Their entries in the directory (an admin's launch fails without one).
Lookup(p) ==
  /\ pc[p] = "lookup"
  /\ LET contacts == Contacts(op[p])
     IN  /\ todo' = [todo EXCEPT ![p] = contacts]
         /\ Goto(p, IF contacts = {} THEN "done" ELSE "find")
         /\ asked' = [e \in Emails |->
              asked[e] \cup {r \in {op[p].as} : \E c \in contacts : c.email = e}]
  /\ UNCHANGED <<users, world, inserting, op, current, resolved, route, overlapped>>

-----------------------------------------------------------------------------
(* _get_or_create_user_race_safe, and the loop of get_allowed_signers_for_admin *)

AfterAccounts(p) ==
  IF op[p].kind # "launch" THEN "done" ELSE IF op[p].as = "ADMIN" THEN "link" ELSE "route"

Resolve(p, c, account) ==
  /\ todo' = [todo EXCEPT ![p] = @ \ {c}]
  /\ resolved' = [resolved EXCEPT ![p] = @ \cup {[who |-> c.who, account |-> account]}]
  /\ current' = [current EXCEPT ![p] = {}]
  /\ Goto(p, IF todo[p] \subseteq {c} THEN AfterAccounts(p) ELSE "find")

\* get_by_email.  A found account is taken as it is, whatever its role;
\* register_user refuses the email.
FindUser(p) ==
  /\ pc[p] = "find"
  /\ \E c \in todo[p] :
       \/ /\ users[c.email] # NoAccount /\ op[p].kind # "register"
          /\ Resolve(p, c, users[c.email]) /\ UNCHANGED inserting
       \/ /\ users[c.email] # NoAccount /\ op[p].kind = "register"
          /\ End(p, "failed") /\ UNCHANGED resolved
       \/ /\ users[c.email] = NoAccount
          /\ todo' = [todo EXCEPT ![p] = @ \ {c}]
          /\ current' = [current EXCEPT ![p] = {c}]
          /\ Goto(p, "insert") /\ UNCHANGED <<resolved, inserting>>
  /\ UNCHANGED <<users, world, op, route, history>>

RaceSafe(o) ==
  o.kind = "launch" \/ (o.kind = "list" /\ RowOf[o.ext].client # NoPerson)

\* Mutant of OnDuplicate: the IntegrityError is not caught.
DuplicateIsFatal(o) == "duplicate"

\* get_allowed_signers_for_admin and register_user do not catch it.
OnDuplicate(o) == IF RaceSafe(o) THEN "refetch" ELSE "duplicate"

\* Mutant of NewAccount: every account is created as a signer's.
NewSigner(p, e) == [by |-> p, email |-> e, role |-> "SIGNER"]

NewAccount(p, e) == [by |-> p, email |-> e, role |-> op[p].as]

\* create: the INSERT waits for one of the same email to commit or go away.
InsertUser(p) ==
  /\ pc[p] = "insert"
  /\ \E c \in current[p] :
       /\ inserting[c.email] = NoRequest
       /\ \/ /\ users[c.email] = NoAccount
             /\ inserting' = [inserting EXCEPT ![c.email] = p]
             /\ Goto(p, "commit") /\ UNCHANGED <<todo, current>>
          \/ /\ users[c.email] # NoAccount /\ OnDuplicate(op[p]) = "refetch"
             /\ Goto(p, "refetch") /\ UNCHANGED <<inserting, todo, current>>
          \/ /\ users[c.email] # NoAccount /\ OnDuplicate(op[p]) = "duplicate"
             /\ End(p, "duplicate")
  /\ UNCHANGED <<users, world, op, resolved, route, history>>

CommitUser(p) ==
  /\ pc[p] = "commit"
  /\ \E c \in current[p] :
       /\ users' = [users EXCEPT ![c.email] = NewAccount(p, c.email)]
       /\ Resolve(p, c, NewAccount(p, c.email))
  /\ inserting' = TransactionClosed(p)
  /\ UNCHANGED <<world, op, route, history>>

\* Mutants of Refetched: the entity of the failed INSERT; a re-read whose
\* result is not looked at.
RefetchedOwn(p, c)     == NewAccount(p, c.email)
RefetchedNothing(p, c) == NoAccount

Refetched(p, c) == users[c.email]

\* After the rollback: the row that the other request committed, or, if there is
\* none, the IntegrityError once more.
RefetchUser(p) ==
  /\ pc[p] = "refetch"
  /\ \E c \in current[p] :
       LET found == Refetched(p, c)
       IN  IF found # NoAccount THEN Resolve(p, c, found) /\ UNCHANGED inserting
           ELSE End(p, "raised") /\ UNCHANGED resolved
  /\ UNCHANGED <<users, world, op, route, history>>

-----------------------------------------------------------------------------
(* bootstrap_external_document, and the document a signer is sent to *)

\* Mutant of LinkedTo: the query for an existing document finds nothing.
LinkedToNothing(o) == {}

\* get_by_external_document_id, which raises when it finds more than one.
LinkedTo(o) == {d \in docs : d.ext = o.ext}

AccountOf(p) == {x.account : x \in resolved[p]}

SendTo(p, found) ==
  /\ route' = [route EXCEPT ![p] = found]
  /\ End(p, "done")

FindLinked(p) ==
  /\ pc[p] = "link"
  /\ \/ /\ LinkedTo(op[p]) = {}
        /\ Goto(p, "download") /\ UNCHANGED <<inserting, todo, current, route>>
     \/ Cardinality(LinkedTo(op[p])) = 1 /\ SendTo(p, LinkedTo(op[p]))
     \/ Cardinality(LinkedTo(op[p])) > 1 /\ End(p, "ambiguous") /\ UNCHANGED route
  /\ UNCHANGED <<users, world, op, resolved, history>>

\* The file has been downloaded; create_document and the commit.
CreateDocument(p) ==
  /\ pc[p] = "download"
  /\ \E a \in AccountOf(p) :
       LET d == [by |-> p, ext |-> op[p].ext, uploaded_by |-> a]
       IN  docs' = docs \cup {d} /\ SendTo(p, {d})
  /\ UNCHANGED <<users, work, email, moves, op, resolved, history>>

WorkOf(p)    == {w.doc : w \in {v \in work : v.account \in AccountOf(p)}}

\* get_by_external_path_for_user: the same file, and work for the caller.
SameFile(p) == {d \in WorkOf(p) : RowOf[d.ext].file = RowOf[op[p].ext].file}

\* The exact request, else the same file, else any document with work for the
\* caller; of several, the newest (any, here).
RouteSigner(p) ==
  /\ pc[p] = "route"
  /\ LET exact == LinkedTo(op[p])
         one(S) == \E d \in S : SendTo(p, {d})
     IN  \/ Cardinality(exact) = 1 /\ SendTo(p, exact)
         \/ Cardinality(exact) > 1 /\ End(p, "ambiguous") /\ UNCHANGED route
         \/ exact = {} /\ SameFile(p) # {} /\ one(SameFile(p))
         \/ exact = {} /\ SameFile(p) = {} /\ WorkOf(p) # {} /\ one(WorkOf(p))
         \/ exact = {} /\ WorkOf(p) = {} /\ SendTo(p, {})
  /\ UNCHANGED <<users, world, op, resolved, history>>

-----------------------------------------------------------------------------
(* Around the requests *)

\* The request is refused (guid, token or role), SQL Server or CpaDesk cannot
\* be reached, or it dies.
Abort(p) ==
  /\ Active(p)
  /\ End(p, "failed")
  /\ UNCHANGED <<users, world, op, resolved, route, history>>

\* The admin who owns the document picks somebody from a list and defines a
\* region for them: create_regions wants an account of a signer.
AssignRegion(p) ==
  /\ pc[p] = "done" /\ op[p].kind = "list"
  /\ \E x \in resolved[p], d \in LinkedTo(op[p]) :
       /\ MayAdminister(d.uploaded_by) /\ x.account.role = "SIGNER"
       /\ work' = work \cup {[doc |-> d, account |-> x.account, meant |-> x.who]}
  /\ UNCHANGED <<users, docs, inserting, email, moves, pc, op, todo, current, resolved,
                 route, history>>

\* Somebody's email changes in CpaDesk.
ChangeEmail(w, e) ==
  /\ moves < MaxMoves /\ moves' = moves + 1
  /\ \A v \in People : Address(v) # e
  /\ email' = [email EXCEPT ![w] = e]
  /\ UNCHANGED <<users, docs, work, inserting, pc, op, todo, current, resolved,
                 route, history>>

Step(p) ==
  \/ Lookup(p) \/ FindUser(p) \/ InsertUser(p) \/ CommitUser(p) \/ RefetchUser(p)
  \/ FindLinked(p) \/ CreateDocument(p) \/ RouteSigner(p)

Next ==
  \/ \E p \in Requests :
       (\E o \in Ops : Call(p, o)) \/ Step(p) \/ Abort(p) \/ AssignRegion(p)
  \/ \E w \in Movers, e \in Emails : ChangeEmail(w, e)

Spec == Init /\ [][Next]_vars

\* The event loop runs every request that can go on.
FairSpec == Spec /\ \A p \in Requests : WF_vars(Step(p))

-----------------------------------------------------------------------------
(* Properties *)

\* "re-fetches the row the other request just committed, instead of letting the
\* IntegrityError propagate as a 500": when the INSERT of a launch or a list
\* meets an account of the same email, the re-read after the rollback finds one,
\* and it is another request's: whatever other requests insert, commit, roll
\* back or lose, and whatever the list inserted for its earlier entries, nobody
\* is thrown out by an INSERT that vanished, or trips over an account of its own.
RacesEndWell ==
  \A p \in Requests :
    /\ pc[p] # "raised"
    /\ pc[p] = "refetch" =>
         \A c \in current[p] : users[c.email] # NoAccount /\ users[c.email].by # p

\* A token is only issued for, and a region only assigned to, an account that
\* was committed: the one the users table has for its email, whoever won.
AccountsAreReal ==
  \A p \in Requests : \A x \in resolved[p] : users[x.account.email] = x.account

\* An account keeps the role of whoever created it, and the token says that
\* role.  So long as nobody asked for its email under the other role, a launch
\* is answered in the role it was made in, and everybody on a list is a signer,
\* to whom create_regions lets a region be assigned; and a launching admin
\* owns the document it is sent to while the directory stays as it is.
EnteredInRole ==
  \A p \in Requests : pc[p] = "done" =>
    \A a \in AccountOf(p) :
      /\ a.role = op[p].as \/ asked[a.email] = Roles
      /\ op[p].as = "ADMIN" /\ moves = 0 => \A d \in route[p] : d.uploaded_by = a

\* Requests never wait for each other for ever: every one of them ends.
EveryLaunchEnds == \A p \in Requests : pc[p] = "lookup" ~> Ended(p)

\* bootstrap_external_document is "Idempotent: returns the existing local
\* document if already linked": one document for each ESignRequestID.
OneDocumentPerRequest == \A d, e \in docs : d.ext = e.ext => d = e

\* It is so for every ESignRequestID whose admin launches did not overlap,
\* whatever other requests did at the same time, and then no launch fails
\* because the id has several documents.
OneDocumentUnlessOverlapped ==
  /\ \A d, e \in docs : d.ext = e.ext /\ d.ext \notin overlapped => d = e
  /\ \A p \in Requests : pc[p] = "ambiguous" => op[p].ext \in overlapped

\* The LoginDetail of a request's client has the email of its Client row.
SameEmail(row) == HasClientEmail(row) /\ email[row.login] = email[row.client]

\* "This ensures the local user matches exactly who the admin assigned regions
\* to" (3-tier), "so the signer resolves to the same local user the admin
\* assigned regions to" (2-tier): while the directory's emails stay as they are,
\* a signer whose launch is done has the account that every earlier assignment
\* to its login id was made for.  2-tier that is so only of a client whose two
\* entries have one email: the lists make the account of the LoginDetail, the
\* launch takes that of Client.Email.
SignerIsWhoWasMeant ==
  [][\A p \in Requests :
       /\ moves = 0 /\ pc[p] # "done" /\ pc'[p] = "done"
       /\ op[p].kind = "launch" /\ op[p].as = "SIGNER"
       /\ op[p].who # NoPerson \/ SameEmail(RowOf[op[p].ext])
       => \A w \in work : w.meant = VerifyLoginId(op[p]) => w.account \in AccountOf(p)]_vars
=============================================================================
