---------------------------- MODULE Launch_proofs ----------------------------
(***************************************************************************)
(* Proofs of the safety properties of Launch, for any number of requests,  *)
(* people, emails and ESignRequests rows, and any directory.               *)
(***************************************************************************)
EXTENDS Launch, FiniteSetTheorems, TLAPS

-----------------------------------------------------------------------------
(* The inductive invariant, part by part *)

Asks(p, kind, role) == op[p].kind = kind /\ op[p].as = role

\* A request that has come in carries one of Ops, and one that has not has
\* nothing; what it does after its accounts depends on what it asks for.
AdmittedOf(p) ==
  /\ IF pc[p] = "idle"
     THEN todo[p] = {} /\ current[p] = {} /\ resolved[p] = {} /\ route[p] = {}
     ELSE op[p] \in Ops
  /\ pc[p] = "lookup" => resolved[p] = {} /\ route[p] = {}
  /\ pc[p] \in {"link", "download"} => Asks(p, "launch", "ADMIN")
  /\ pc[p] = "route" => Asks(p, "launch", "SIGNER") /\ resolved[p] # {}
  /\ pc[p] # "idle" /\ route[p] # {} => op[p].kind = "launch"
  /\ pc[p] # "idle" /\ op[p].kind = "list" =>
       /\ \A c \in todo[p] \cup current[p] : c.who \in People
       /\ \A x \in resolved[p] : x.who \in People

Admitted == \A p \in Requests : AdmittedOf(p)

\* One INSERT at a time is under way for an email, and none for one that has
\* an account; a request inserts one account at a time.
InsertOf(p) ==
  /\ \A c, d \in current[p] : c = d
  /\ pc[p] = "commit" => \A c \in current[p] : inserting[c.email] = p

InsertsExclude ==
  /\ \A e \in Emails : inserting[e] # NoRequest => users[e] = NoAccount
  /\ \A p \in Requests : InsertOf(p)

\* An account is kept under its own email, in a role that was asked for.
AccountsKeyed ==
  \A e \in Emails : users[e] # NoAccount => users[e].email = e /\ users[e].role \in asked[e]

\* The role of a request counts as asked for all accounts it needs or has.
RolesAsked ==
  \A p \in Requests : pc[p] # "idle" =>
    /\ \A c \in todo[p] \cup current[p] : op[p].as \in asked[c.email]
    /\ \A x \in resolved[p] : op[p].as \in asked[x.account.email]

\* The account that SQL Server's directory makes the admin of a request.
AdminOf(x) == users[Address(RowOf[x].admin)]

\* While the directory stays as it is, requests, documents and regions have
\* the accounts of the emails that it has for those whom they concern.
FromDirectory ==
  moves = 0 =>
    /\ \A p \in Requests : pc[p] # "idle" =>
         /\ todo[p] \cup current[p] \subseteq Contacts(op[p])
         /\ \A x \in resolved[p] :
              [who |-> x.who, email |-> x.account.email] \in Contacts(op[p])
         /\ op[p].as = "ADMIN" => \A d \in route[p] : d.uploaded_by = AdminOf(op[p].ext)
    /\ \A d \in docs : d.uploaded_by = AdminOf(d.ext)
    /\ \A w \in work : w.account = users[Address(w.meant)]

\* Two launches of an admin for one ESignRequestID that are both at work
\* overlap; one that is about to create a document has seen that there is none.
Overlaps ==
  \A p, q \in Requests :
    /\ p # q /\ Active(p) /\ Active(q) /\ Asks(p, "launch", "ADMIN")
       /\ Asks(q, "launch", "ADMIN") /\ op[p].ext = op[q].ext
       => op[p].ext \in overlapped
    /\ pc[p] = "download" /\ op[p].ext \notin overlapped => LinkedTo(op[p]) = {}

-----------------------------------------------------------------------------
(* Types *)

Typed == TypeOK /\ Admitted

\* Every person has an address.
LEMMA AddressTyped ==
  ASSUME TypeOK, NEW w \in People
  PROVE  Address(w) \in Emails
  BY LaunchAssumption DEF TypeOK, Address

\* The contacts of a request are people with an email, those of a list people
\* of the directory.
LEMMA ContactsTyped ==
  ASSUME TypeOK, NEW o \in Ops
  PROVE  /\ Contacts(o) \subseteq Contact
         /\ o.kind = "list" => \A c \in Contacts(o) : c.who \in People
<1> DEFINE row == RowOf[o.ext]
<1>0. o \in Operation /\ row \in Row
  BY LaunchAssumption DEF Operation
<1>1. /\ row.admin \in People /\ row.client \in People \cup {NoPerson}
      /\ row.login \in People \cup {NoPerson} /\ row.contact \in Emails \cup {NoEmail}
  BY <1>0 DEF Row
<1>2. ASSUME NEW S, S \subseteq People, NEW c \in {[who |-> w, email |-> Address(w)] : w \in S}
      PROVE  c \in Contact /\ c.who \in People
  <2>1. PICK w \in S : c = [who |-> w, email |-> Address(w)]
    BY <1>2
  <2>2. w \in People /\ Address(w) \in Emails
    BY <1>2, <2>1, AddressTyped
  <2> QED
    BY <2>1, <2>2 DEF Contact
<1>3. Listed(row) \subseteq People
  BY <1>1, LaunchAssumption DEF Listed
<1>4. ClientAddress(row) \in Emails
  BY <1>1, LaunchAssumption DEF ClientAddress, ClientAddressOfRow, HasClientEmail, TypeOK
<1>5. CASE o.kind = "list"
  BY <1>2, <1>3, <1>5 DEF Contacts
<1>6. CASE o.kind = "launch" /\ o.as = "ADMIN"
  <2>1. {row.admin} \subseteq People
    BY <1>1
  <2> QED
    BY <1>2, <1>6, <2>1 DEF Contacts
<1>7. CASE o.kind # "list" /\ ~(o.kind = "launch" /\ o.as = "ADMIN") /\ o.who # NoPerson
  <2>1. {o.who} \subseteq People
    BY <1>0, <1>7 DEF Operation
  <2> QED
    BY <1>2, <1>7, <2>1 DEF Contacts
<1>8. CASE o.kind # "list" /\ ~(o.kind = "launch" /\ o.as = "ADMIN") /\ o.who = NoPerson
  BY <1>1, <1>4, <1>8 DEF Contacts, Contact
<1> QED
  BY <1>5, <1>6, <1>7, <1>8

\* Taking an account for one of its contacts keeps a request well typed.
LEMMA ResolveTyped ==
  ASSUME Typed, NEW p \in Requests, pc[p] # "idle", NEW c \in Contact, NEW a \in Account,
         Resolve(p, c, a)
  PROVE  /\ pc' \in [Requests -> Labels] /\ todo' \in [Requests -> SUBSET Contact]
         /\ current' \in [Requests -> SUBSET Contact]
         /\ resolved' \in [Requests -> SUBSET Resolved]
<1>1. op[p] \in Ops /\ op[p].as \in Roles
  BY LaunchAssumption DEF Typed, Admitted, AdmittedOf, Operation
<1>2. AfterAccounts(p) \in Labels
  BY <1>1 DEF AfterAccounts, Labels, Roles
<1>3. [who |-> c.who, account |-> a] \in Resolved
  BY DEF Contact, Resolved
<1>4. "find" \in Labels
  BY DEF Labels
<1> QED
  BY <1>2, <1>3, <1>4 DEF Resolve, Goto, Typed, TypeOK

\* One step keeps every variable's type.
LEMMA TypeStep == Typed /\ [Next]_vars => TypeOK'
<1> SUFFICES ASSUME Typed, [Next]_vars PROVE TypeOK'
  OBVIOUS
<1> USE LaunchAssumption DEF Typed
<1>a. {"idle", "lookup", "find", "insert", "commit", "refetch", "link", "download", "route",
       "done", "failed", "duplicate", "raised", "ambiguous"} = Labels
  BY DEF Labels
<1>b. ASSUME NEW p \in Requests, NEW outcome \in Labels, End(p, outcome)
      PROVE  /\ pc' \in [Requests -> Labels] /\ todo' \in [Requests -> SUBSET Contact]
             /\ current' \in [Requests -> SUBSET Contact]
             /\ inserting' \in [Emails -> Requests \cup {NoRequest}]
  BY <1>b DEF End, Goto, TransactionClosed, TypeOK
<1>c. ASSUME NEW p \in Requests, pc[p] # "idle"
      PROVE  op[p] \in Ops /\ op[p] \in Operation
  BY <1>c, LaunchAssumption DEF Admitted, AdmittedOf
<1>1. ASSUME NEW p \in Requests, NEW o \in Ops, Call(p, o) PROVE TypeOK'
  <2>1. o.ext \in Externals
    BY DEF Operation
  <2> QED
    BY <1>1, <1>a, <2>1 DEF Call, Goto, TypeOK, world
<1>2. ASSUME NEW p \in Requests, Lookup(p) PROVE TypeOK'
  <2>1. Contacts(op[p]) \subseteq Contact /\ op[p].as \in Roles
    BY <1>2, <1>c, ContactsTyped DEF Lookup, Operation
  <2> QED
    BY <1>2, <1>a, <2>1 DEF Lookup, Goto, TypeOK, world
<1>3. ASSUME NEW p \in Requests, FindUser(p) PROVE TypeOK'
  <2>1. PICK c \in todo[p] :
          \/ /\ users[c.email] # NoAccount
             /\ Resolve(p, c, users[c.email]) /\ UNCHANGED inserting
          \/ End(p, "failed") /\ UNCHANGED resolved
          \/ /\ todo' = [todo EXCEPT ![p] = @ \ {c}]
             /\ current' = [current EXCEPT ![p] = {c}]
             /\ Goto(p, "insert") /\ UNCHANGED <<resolved, inserting>>
    BY <1>3 DEF FindUser
  <2>2. c \in Contact /\ c.email \in Emails
    BY DEF TypeOK, Contact
  <2>3. UNCHANGED <<users, world, op, route, history>> /\ pc[p] # "idle"
    BY <1>3 DEF FindUser
  <2>4. CASE users[c.email] # NoAccount /\ Resolve(p, c, users[c.email]) /\ UNCHANGED inserting
    <3>1. users[c.email] \in Account
      BY <2>2, <2>4 DEF TypeOK
    <3> QED
      BY <2>2, <2>3, <2>4, <3>1, ResolveTyped DEF TypeOK, world, history
  <2>5. CASE End(p, "failed") /\ UNCHANGED resolved
    BY <1>a, <1>b, <2>3, <2>5 DEF TypeOK, world, history
  <2>6. CASE /\ todo' = [todo EXCEPT ![p] = @ \ {c}]
             /\ current' = [current EXCEPT ![p] = {c}]
             /\ Goto(p, "insert") /\ UNCHANGED <<resolved, inserting>>
    BY <1>a, <2>2, <2>3, <2>6 DEF Goto, TypeOK, world, history
  <2> QED
    BY <2>1, <2>4, <2>5, <2>6
<1>4. ASSUME NEW p \in Requests, InsertUser(p) PROVE TypeOK'
  <2>1. PICK c \in current[p] :
          \/ /\ inserting' = [inserting EXCEPT ![c.email] = p]
             /\ Goto(p, "commit") /\ UNCHANGED <<todo, current>>
          \/ Goto(p, "refetch") /\ UNCHANGED <<inserting, todo, current>>
          \/ End(p, "duplicate")
    BY <1>4 DEF InsertUser
  <2>2. UNCHANGED <<users, world, op, resolved, route, history>>
    BY <1>4 DEF InsertUser
  <2>3. CASE End(p, "duplicate")
    BY <1>a, <1>b, <2>2, <2>3 DEF TypeOK, world, history
  <2>4. CASE ~End(p, "duplicate")
    BY <1>a, <2>1, <2>2, <2>4 DEF Goto, TypeOK, world, history
  <2> QED
    BY <2>3, <2>4
<1>5. ASSUME NEW p \in Requests, CommitUser(p) PROVE TypeOK'
  <2>1. PICK c \in current[p] :
          /\ users' = [users EXCEPT ![c.email] = NewAccount(p, c.email)]
          /\ Resolve(p, c, NewAccount(p, c.email))
    BY <1>5 DEF CommitUser
  <2>2. c \in Contact /\ c.email \in Emails
    BY DEF TypeOK, Contact
  <2>3. NewAccount(p, c.email) \in Account
    BY <1>5, <1>c, <2>2 DEF CommitUser, NewAccount, Account, Operation
  <2>4. inserting' = TransactionClosed(p) /\ UNCHANGED <<world, op, route, history>> /\ pc[p] # "idle"
    BY <1>5 DEF CommitUser
  <2>5. inserting' \in [Emails -> Requests \cup {NoRequest}]
    BY <2>4 DEF TransactionClosed, TypeOK
  <2> QED
    BY <2>1, <2>2, <2>3, <2>4, <2>5, ResolveTyped DEF TypeOK, world, history
<1>6. ASSUME NEW p \in Requests, RefetchUser(p) PROVE TypeOK'
  <2>1. PICK c \in current[p] :
          \/ users[c.email] # NoAccount /\ Resolve(p, c, users[c.email]) /\ UNCHANGED inserting
          \/ End(p, "raised") /\ UNCHANGED resolved
    BY <1>6 DEF RefetchUser, Refetched
  <2>2. UNCHANGED <<users, world, op, route, history>> /\ pc[p] # "idle"
    BY <1>6 DEF RefetchUser
  <2>3. CASE users[c.email] # NoAccount /\ Resolve(p, c, users[c.email]) /\ UNCHANGED inserting
    <3>1. c \in Contact
      BY DEF TypeOK
    <3>2. c.email \in Emails
      BY <3>1 DEF Contact
    <3>3. users[c.email] \in Account
      BY <2>3, <3>2 DEF TypeOK
    <3> QED
      BY <2>2, <2>3, <3>1, <3>3, ResolveTyped DEF TypeOK, world, history
  <2>4. CASE End(p, "raised") /\ UNCHANGED resolved
    BY <1>a, <1>b, <2>2, <2>4 DEF TypeOK, world, history
  <2> QED
    BY <2>1, <2>3, <2>4
<1>7. ASSUME NEW p \in Requests, FindLinked(p) PROVE TypeOK'
  <2>1. LinkedTo(op[p]) \subseteq Document
    BY DEF LinkedTo, TypeOK
  <2>2. UNCHANGED <<users, world, op, resolved, history>>
    BY <1>7 DEF FindLinked
  <2>3. CASE Goto(p, "download") /\ UNCHANGED <<inserting, todo, current, route>>
    BY <1>a, <2>2, <2>3 DEF Goto, TypeOK, world, history
  <2>4. CASE SendTo(p, LinkedTo(op[p]))
    BY <1>a, <1>b, <2>1, <2>2, <2>4 DEF SendTo, TypeOK, world, history
  <2>5. CASE End(p, "ambiguous") /\ UNCHANGED route
    BY <1>a, <1>b, <2>2, <2>5 DEF TypeOK, world, history
  <2> QED
    BY <1>7, <2>3, <2>4, <2>5 DEF FindLinked
<1>8. ASSUME NEW p \in Requests, CreateDocument(p) PROVE TypeOK'
  <2>1. PICK a \in AccountOf(p) :
          LET d == [by |-> p, ext |-> op[p].ext, uploaded_by |-> a]
          IN  docs' = docs \cup {d} /\ SendTo(p, {d})
    BY <1>8 DEF CreateDocument
  <2> DEFINE d == [by |-> p, ext |-> op[p].ext, uploaded_by |-> a]
  <2>2. a \in Account
    BY DEF AccountOf, TypeOK, Resolved
  <2>3. d \in Document
    BY <1>8, <1>c, <2>2 DEF CreateDocument, Document, Operation
  <2> HIDE DEF d
  <2>4. docs' = docs \cup {d} /\ route' = [route EXCEPT ![p] = {d}] /\ End(p, "done")
    BY <2>1 DEF SendTo, d
  <2>5. UNCHANGED <<users, work, email, moves, op, resolved, history>>
    BY <1>8 DEF CreateDocument
  <2> QED
    BY <1>a, <1>b, <2>3, <2>4, <2>5 DEF TypeOK, history
<1>9. ASSUME NEW p \in Requests, RouteSigner(p) PROVE TypeOK'
  <2>1. LinkedTo(op[p]) \subseteq Document /\ WorkOf(p) \subseteq Document
          /\ SameFile(p) \subseteq Document
    BY DEF LinkedTo, WorkOf, SameFile, TypeOK
  <2>2. UNCHANGED <<users, world, op, resolved, history>>
    BY <1>9 DEF RouteSigner
  <2>3. \/ \E S \in SUBSET Document : SendTo(p, S)
        \/ End(p, "ambiguous") /\ UNCHANGED route
    BY <1>9, <2>1 DEF RouteSigner
  <2>4. CASE \E S \in SUBSET Document : SendTo(p, S)
    BY <1>a, <1>b, <2>2, <2>4 DEF SendTo, TypeOK, world, history
  <2>5. CASE End(p, "ambiguous") /\ UNCHANGED route
    BY <1>a, <1>b, <2>2, <2>5 DEF TypeOK, world, history
  <2> QED
    BY <2>3, <2>4, <2>5
<1>10. ASSUME NEW p \in Requests, Abort(p) PROVE TypeOK'
  BY <1>10, <1>a, <1>b DEF Abort, TypeOK, world, history
<1>11. ASSUME NEW p \in Requests, AssignRegion(p) PROVE TypeOK'
  <2>1. PICK x \in resolved[p], d \in LinkedTo(op[p]) :
          work' = work \cup {[doc |-> d, account |-> x.account, meant |-> x.who]}
    BY <1>11 DEF AssignRegion
  <2>2. d \in Document /\ x.account \in Account /\ x.who \in People
    BY <1>11 DEF AssignRegion, LinkedTo, TypeOK, Resolved, Admitted, AdmittedOf
  <2>3. work' \subseteq [doc: Document, account: Account, meant: People]
    BY <2>1, <2>2 DEF TypeOK
  <2> QED
    BY <1>11, <2>3 DEF AssignRegion, TypeOK, history
<1>12. ASSUME NEW w \in Movers, NEW e \in Emails, ChangeEmail(w, e) PROVE TypeOK'
  BY <1>12 DEF ChangeEmail, TypeOK, history
<1>13. ASSUME UNCHANGED vars PROVE TypeOK'
  BY <1>13 DEF vars, TypeOK
<1> QED
  BY <1>1, <1>2, <1>3, <1>4, <1>5, <1>6, <1>7, <1>8, <1>9, <1>10, <1>11, <1>12, <1>13
     DEF Next, Step

\* A step of one request leaves what the others have alone.
LEMMA OthersUnchanged ==
  ASSUME Typed, NEW p \in Requests,
         (\E o \in Ops : Call(p, o)) \/ Step(p) \/ Abort(p) \/ AssignRegion(p),
         NEW q \in Requests, q # p
  PROVE  /\ pc'[q] = pc[q] /\ op'[q] = op[q] /\ todo'[q] = todo[q]
         /\ current'[q] = current[q] /\ resolved'[q] = resolved[q] /\ route'[q] = route[q]
<1> USE DEF Typed, TypeOK, Goto, End
<1>1. ASSUME NEW o \in Ops, Call(p, o)
      PROVE  /\ pc'[q] = pc[q] /\ op'[q] = op[q] /\ todo'[q] = todo[q]
             /\ current'[q] = current[q] /\ resolved'[q] = resolved[q] /\ route'[q] = route[q]
  BY <1>1 DEF Call
<1>2. CASE Lookup(p)
  BY <1>2 DEF Lookup
<1>3. CASE FindUser(p)
  BY <1>3 DEF FindUser, Resolve
<1>4. CASE InsertUser(p)
  BY <1>4 DEF InsertUser
<1>5. CASE CommitUser(p)
  BY <1>5 DEF CommitUser, Resolve
<1>6. CASE RefetchUser(p)
  BY <1>6 DEF RefetchUser, Resolve
<1>7. CASE FindLinked(p)
  BY <1>7 DEF FindLinked, SendTo
<1>8. CASE CreateDocument(p)
  BY <1>8 DEF CreateDocument, SendTo
<1>9. CASE RouteSigner(p)
  BY <1>9 DEF RouteSigner, SendTo
<1>10. CASE Abort(p)
  BY <1>10 DEF Abort
<1>11. CASE AssignRegion(p)
  BY <1>11 DEF AssignRegion
<1> QED
  BY <1>1, <1>2, <1>3, <1>4, <1>5, <1>6, <1>7, <1>8, <1>9, <1>10, <1>11 DEF Step

\* Taking an account for one of its contacts keeps a request admitted.
LEMMA ResolveAdmitted ==
  ASSUME Typed, NEW p \in Requests, pc[p] \in {"find", "commit", "refetch"},
         NEW c \in todo[p] \cup current[p], NEW a, Resolve(p, c, a), UNCHANGED <<op, route>>
  PROVE  AdmittedOf(p)'
<1> USE DEF Typed, TypeOK
<1>1. op[p] \in Ops /\ op[p].as \in Roles
  BY LaunchAssumption DEF Admitted, AdmittedOf, Operation
<1>2. /\ todo'[p] \subseteq todo[p] /\ current'[p] = {} /\ pc'[p] \in {"find", AfterAccounts(p)}
      /\ resolved'[p] = resolved[p] \cup {[who |-> c.who, account |-> a]}
  BY DEF Resolve, Goto
<1>3. /\ AfterAccounts(p) \in {"done", "link", "route"}
      /\ AfterAccounts(p) = "link" => Asks(p, "launch", "ADMIN")
      /\ AfterAccounts(p) = "route" => Asks(p, "launch", "SIGNER")
  BY <1>1 DEF AfterAccounts, Roles, Asks
<1>4. op[p].kind = "list" =>
        c.who \in People /\ \A x \in resolved'[p] : x.who \in People
  BY <1>2 DEF Admitted, AdmittedOf
<1> QED
  BY <1>1, <1>2, <1>3, <1>4 DEF Admitted, AdmittedOf, Asks

\* One step keeps the requests admitted.
LEMMA AdmittedStep == Typed /\ [Next]_vars => Admitted'
<1> SUFFICES ASSUME Typed, [Next]_vars PROVE Admitted'
  OBVIOUS
<1> USE DEF Typed
<1>0. ASSUME NEW p \in Requests,
             \E outcome \in {"failed", "duplicate", "raised", "ambiguous"} : End(p, outcome),
             pc[p] # "idle", UNCHANGED <<op, resolved, route>>
      PROVE  AdmittedOf(p)'
  <2>1. /\ pc'[p] \in {"failed", "duplicate", "raised", "ambiguous"} /\ todo'[p] = {} /\ current'[p] = {}
    BY <1>0 DEF End, Goto, TypeOK
  <2> QED
    BY <1>0, <2>1 DEF Admitted, AdmittedOf
<1>s. ASSUME NEW p \in Requests, NEW found, SendTo(p, found), UNCHANGED <<op, resolved>>,
             pc[p] # "idle", op[p].kind = "launch"
      PROVE  AdmittedOf(p)'
  <2>1. pc'[p] = "done" /\ todo'[p] = {} /\ current'[p] = {}
    BY <1>s DEF SendTo, End, Goto, TypeOK
  <2> QED
    BY <1>s, <2>1 DEF Admitted, AdmittedOf
<1>1. ASSUME NEW p \in Requests, NEW o \in Ops, Call(p, o) PROVE AdmittedOf(p)'
  <2>1. pc[p] = "idle" /\ pc'[p] = "lookup" /\ op'[p] = o
    BY <1>1 DEF Call, Goto, TypeOK
  <2>2. UNCHANGED <<todo, current, resolved, route>>
    BY <1>1 DEF Call
  <2> QED
    BY <2>1, <2>2 DEF Admitted, AdmittedOf
<1>2. ASSUME NEW p \in Requests, Lookup(p) PROVE AdmittedOf(p)'
  <2>1. op[p] \in Ops /\ resolved[p] = {} /\ route[p] = {} /\ pc[p] = "lookup"
    BY <1>2 DEF Lookup, Admitted, AdmittedOf
  <2>2. pc'[p] \in {"done", "find"} /\ todo'[p] = Contacts(op[p]) /\ UNCHANGED <<op, current, resolved, route>>
    BY <1>2 DEF Lookup, Goto, TypeOK
  <2>3. op[p].kind = "list" => \A c \in todo'[p] : c.who \in People
    BY <2>1, <2>2, ContactsTyped
  <2> QED
    BY <2>1, <2>2, <2>3 DEF Admitted, AdmittedOf
<1>3. ASSUME NEW p \in Requests, FindUser(p) PROVE AdmittedOf(p)'
  <2>1. PICK c \in todo[p] :
          \/ Resolve(p, c, users[c.email])
          \/ End(p, "failed") /\ UNCHANGED resolved
          \/ /\ todo' = [todo EXCEPT ![p] = @ \ {c}]
             /\ current' = [current EXCEPT ![p] = {c}]
             /\ Goto(p, "insert") /\ UNCHANGED resolved
    BY <1>3 DEF FindUser
  <2>2. pc[p] = "find" /\ UNCHANGED <<op, route>>
    BY <1>3 DEF FindUser
  <2>3. CASE Resolve(p, c, users[c.email])
    BY <2>2, <2>3, ResolveAdmitted
  <2>4. CASE End(p, "failed") /\ UNCHANGED resolved
    BY <1>0, <2>2, <2>4
  <2>5. CASE /\ todo' = [todo EXCEPT ![p] = @ \ {c}]
             /\ current' = [current EXCEPT ![p] = {c}]
             /\ Goto(p, "insert") /\ UNCHANGED resolved
    <3>1. pc'[p] = "insert" /\ todo'[p] \subseteq todo[p] /\ current'[p] = {c}
      BY <2>5 DEF Goto, TypeOK
    <3> QED
      BY <2>2, <2>5, <3>1 DEF Admitted, AdmittedOf
  <2> QED
    BY <2>1, <2>3, <2>4, <2>5
<1>4. ASSUME NEW p \in Requests, InsertUser(p) PROVE AdmittedOf(p)'
  <2>1. pc[p] = "insert" /\ UNCHANGED <<op, resolved, route>>
    BY <1>4 DEF InsertUser
  <2>2. CASE End(p, "duplicate")
    BY <1>0, <2>1, <2>2
  <2>3. CASE (Goto(p, "commit") \/ Goto(p, "refetch")) /\ UNCHANGED <<todo, current>>
    <3>1. pc'[p] \in {"commit", "refetch"}
      BY <2>3 DEF Goto, TypeOK
    <3> QED
      BY <2>1, <2>3, <3>1 DEF Admitted, AdmittedOf
  <2> QED
    BY <1>4, <2>2, <2>3 DEF InsertUser
<1>5. ASSUME NEW p \in Requests, CommitUser(p) PROVE AdmittedOf(p)'
  <2>1. PICK c \in current[p] : Resolve(p, c, NewAccount(p, c.email))
    BY <1>5 DEF CommitUser
  <2>2. pc[p] = "commit" /\ UNCHANGED <<op, route>>
    BY <1>5 DEF CommitUser
  <2> QED
    BY <2>1, <2>2, ResolveAdmitted
<1>6. ASSUME NEW p \in Requests, RefetchUser(p) PROVE AdmittedOf(p)'
  <2>1. PICK c \in current[p] :
          Resolve(p, c, users[c.email]) \/ (End(p, "raised") /\ UNCHANGED resolved)
    BY <1>6 DEF RefetchUser, Refetched
  <2>2. pc[p] = "refetch" /\ UNCHANGED <<op, route>>
    BY <1>6 DEF RefetchUser
  <2>3. CASE Resolve(p, c, users[c.email])
    BY <2>2, <2>3, ResolveAdmitted
  <2>4. CASE End(p, "raised") /\ UNCHANGED resolved
    BY <1>0, <2>2, <2>4
  <2> QED
    BY <2>1, <2>3, <2>4
<1>7. ASSUME NEW p \in Requests, FindLinked(p) PROVE AdmittedOf(p)'
  <2>1. pc[p] = "link" /\ Asks(p, "launch", "ADMIN") /\ UNCHANGED <<op, resolved>>
    BY <1>7 DEF FindLinked, Admitted, AdmittedOf
  <2>2. CASE Goto(p, "download") /\ UNCHANGED <<inserting, todo, current, route>>
    <3>1. pc'[p] = "download"
      BY <2>2 DEF Goto, TypeOK
    <3> QED
      BY <2>1, <2>2, <3>1 DEF Admitted, AdmittedOf, Asks
  <2>3. CASE SendTo(p, LinkedTo(op[p]))
    BY <1>s, <2>1, <2>3 DEF Asks
  <2>4. CASE End(p, "ambiguous") /\ UNCHANGED route
    BY <1>0, <2>1, <2>4
  <2> QED
    BY <1>7, <2>2, <2>3, <2>4 DEF FindLinked
<1>8. ASSUME NEW p \in Requests, CreateDocument(p) PROVE AdmittedOf(p)'
  <2>1. pc[p] = "download" /\ Asks(p, "launch", "ADMIN") /\ UNCHANGED <<op, resolved>>
    BY <1>8 DEF CreateDocument, Admitted, AdmittedOf
  <2>2. \E a : SendTo(p, {[by |-> p, ext |-> op[p].ext, uploaded_by |-> a]})
    BY <1>8 DEF CreateDocument
  <2> QED
    BY <1>s, <2>1, <2>2 DEF Asks
<1>9. ASSUME NEW p \in Requests, RouteSigner(p) PROVE AdmittedOf(p)'
  <2>1. pc[p] = "route" /\ Asks(p, "launch", "SIGNER") /\ UNCHANGED <<op, resolved>>
    BY <1>9 DEF RouteSigner, Admitted, AdmittedOf
  <2>2. (\E found : SendTo(p, found)) \/ (End(p, "ambiguous") /\ UNCHANGED route)
    BY <1>9 DEF RouteSigner
  <2> QED
    BY <1>0, <1>s, <2>1, <2>2 DEF Asks
<1>10. ASSUME NEW p \in Requests, Abort(p) PROVE AdmittedOf(p)'
  BY <1>0, <1>10 DEF Abort, Active
<1>11. ASSUME NEW p \in Requests, AssignRegion(p) PROVE AdmittedOf(p)'
  BY <1>11 DEF AssignRegion, Admitted, AdmittedOf, Asks
<1>12. ASSUME NEW p \in Requests, (\E o \in Ops : Call(p, o)) \/ Step(p) \/ Abort(p) \/ AssignRegion(p)
       PROVE  Admitted'
  <2>1. AdmittedOf(p)'
    BY <1>1, <1>2, <1>3, <1>4, <1>5, <1>6, <1>7, <1>8, <1>9, <1>10, <1>11, <1>12 DEF Step
  <2>2. ASSUME NEW q \in Requests, q # p PROVE AdmittedOf(q)'
    <3>1. /\ pc'[q] = pc[q] /\ op'[q] = op[q] /\ todo'[q] = todo[q]
          /\ current'[q] = current[q] /\ resolved'[q] = resolved[q] /\ route'[q] = route[q]
      BY <1>12, <2>2, OthersUnchanged
    <3> QED
      BY <3>1 DEF Admitted, AdmittedOf, Asks
  <2> QED
    BY <2>1, <2>2 DEF Admitted
<1>13. ASSUME UNCHANGED <<pc, op, todo, current, resolved, route>> PROVE Admitted'
  BY <1>13 DEF Admitted, AdmittedOf, Asks
<1>14. ASSUME NEW w \in Movers, NEW e \in Emails, ChangeEmail(w, e) PROVE Admitted'
  BY <1>13, <1>14 DEF ChangeEmail
<1> QED
  BY <1>12, <1>13, <1>14 DEF Next, vars

\* Initially everything is well typed and nobody has come in.
LEMMA TypedInitially == Init => Typed
  BY LaunchAssumption DEF Init, Typed, TypeOK, Admitted, AdmittedOf, Labels

\* A request only goes on to what its kind leads to.
LEMMA TypedInvariant == Spec => []Typed
<1>1. Typed /\ [Next]_vars => Typed'
  BY TypeStep, AdmittedStep DEF Typed
<1> QED
  BY TypedInitially, <1>1, PTL DEF Spec

\* TypeOK: every variable keeps its type, for any number of requests and any
\* directory.
THEOREM LaunchTypes == Spec => []TypeOK
<1>1. Typed => TypeOK
  BY DEF Typed
<1> QED
  BY TypedInvariant, <1>1, PTL

-----------------------------------------------------------------------------
(* Accounts *)

\* The end of a transaction frees its own emails only.
LEMMA ClosedTransaction ==
  ASSUME Typed, NEW p \in Requests, NEW e \in Emails
  PROVE  /\ TransactionClosed(p)[e] \in {inserting[e], NoRequest}
         /\ TransactionClosed(p)[e] # p
         /\ inserting[e] # p => TransactionClosed(p)[e] = inserting[e]
  BY LaunchAssumption DEF TransactionClosed

\* One step of a request keeps the INSERTs apart.
LEMMA InsertsStep == Typed /\ InsertsExclude /\ [Next]_vars => InsertsExclude'
<1> SUFFICES ASSUME Typed, InsertsExclude, [Next]_vars PROVE InsertsExclude'
  OBVIOUS
<1> USE LaunchAssumption DEF Typed
<1>1. ASSUME NEW p \in Requests,
             (\E o \in Ops : Call(p, o)) \/ Step(p) \/ Abort(p) \/ AssignRegion(p)
      PROVE  InsertsExclude'
  <2>a. CASE CommitUser(p)
    <3>1. PICK c \in current[p] :
            /\ users' = [users EXCEPT ![c.email] = NewAccount(p, c.email)]
            /\ Resolve(p, c, NewAccount(p, c.email))
      BY <2>a DEF CommitUser
    <3>2. inserting' = TransactionClosed(p) /\ pc[p] = "commit"
      BY <2>a DEF CommitUser
    <3>3. inserting[c.email] = p
      BY <3>2 DEF InsertsExclude, InsertOf
    <3>4. c.email \in Emails
      BY DEF TypeOK, Contact
    <3>5. ASSUME NEW e \in Emails, inserting'[e] # NoRequest PROVE users'[e] = NoAccount
      BY <3>1, <3>2, <3>3, <3>4, <3>5, ClosedTransaction DEF InsertsExclude, TypeOK
    <3>6. current'[p] = {}
      BY <3>1 DEF Resolve, TypeOK
    <3>7. ASSUME NEW q \in Requests, q # p PROVE InsertOf(q)'
      <4>1. pc'[q] = pc[q] /\ current'[q] = current[q]
        BY <1>1, <3>7, OthersUnchanged
      <4>2. ASSUME pc[q] = "commit", NEW d \in current[q] PROVE inserting'[d.email] = q
        <5>1. d.email \in Emails /\ inserting[d.email] = q
          BY <4>2 DEF InsertsExclude, InsertOf, TypeOK, Contact
        <5> QED
          BY <3>2, <3>7, <5>1, ClosedTransaction
      <4> QED
        BY <4>1, <4>2 DEF InsertsExclude, InsertOf
    <3>8. InsertOf(p)'
      BY <3>6 DEF InsertOf
    <3> QED
      BY <3>5, <3>7, <3>8 DEF InsertsExclude, InsertOf
  <2>b. CASE InsertUser(p) /\ ~End(p, "duplicate")
    <3>1. PICK c \in current[p] :
            /\ inserting[c.email] = NoRequest
            /\ \/ /\ users[c.email] = NoAccount
                  /\ inserting' = [inserting EXCEPT ![c.email] = p]
                  /\ Goto(p, "commit") /\ UNCHANGED <<todo, current>>
               \/ Goto(p, "refetch") /\ UNCHANGED <<inserting, todo, current>>
      BY <2>b DEF InsertUser
    <3>2. UNCHANGED <<users, current>> /\ c.email \in Emails
      BY <2>b, <3>1 DEF InsertUser, TypeOK, Contact
    <3>3. ASSUME NEW e \in Emails, inserting'[e] # NoRequest PROVE users'[e] = NoAccount
      BY <3>1, <3>2, <3>3 DEF InsertsExclude, TypeOK
    <3>4. ASSUME NEW q \in Requests, q # p PROVE InsertOf(q)'
      <4>1. pc'[q] = pc[q] /\ current'[q] = current[q]
        BY <1>1, <3>4, OthersUnchanged
      <4>2. ASSUME pc[q] = "commit", NEW d \in current[q] PROVE inserting'[d.email] = q
        <5>1. d.email \in Emails /\ inserting[d.email] = q
          BY <4>2 DEF InsertsExclude, InsertOf, TypeOK, Contact
        <5> QED
          BY <3>1, <5>1 DEF TypeOK
      <4> QED
        BY <4>1, <4>2 DEF InsertsExclude, InsertOf
    <3>5. \A d \in current[p] : d = c
      BY DEF InsertsExclude, InsertOf
    <3>6. pc'[p] = "commit" => inserting'[c.email] = p
      BY <3>1, <3>2 DEF Goto, TypeOK
    <3>7. InsertOf(p)'
      BY <3>2, <3>5, <3>6 DEF InsertOf
    <3> QED
      BY <3>3, <3>4, <3>7 DEF InsertsExclude, InsertOf
  <2>c. CASE ~CommitUser(p) /\ ~(InsertUser(p) /\ ~End(p, "duplicate"))
    <3>1. \/ (\E o \in Ops : Call(p, o)) \/ Lookup(p) \/ FindUser(p) \/ RefetchUser(p) \/ FindLinked(p)
          \/ CreateDocument(p) \/ RouteSigner(p) \/ Abort(p) \/ AssignRegion(p)
          \/ (InsertUser(p) /\ End(p, "duplicate"))
      BY <1>1, <2>c DEF Step
    <3>2. UNCHANGED users /\ inserting' \in {inserting, TransactionClosed(p)}
      BY <3>1 DEF Call, Lookup, FindUser, RefetchUser, FindLinked, CreateDocument, RouteSigner,
                  Abort, AssignRegion, InsertUser, SendTo, End
    <3>3. ASSUME NEW e \in Emails, inserting'[e] # NoRequest PROVE users'[e] = NoAccount
      BY <3>2, <3>3, ClosedTransaction DEF InsertsExclude
    <3>4. ASSUME NEW q \in Requests, q # p PROVE InsertOf(q)'
      <4>1. pc'[q] = pc[q] /\ current'[q] = current[q]
        BY <1>1, <3>4, OthersUnchanged
      <4>2. ASSUME pc[q] = "commit", NEW d \in current[q] PROVE inserting'[d.email] = q
        <5>1. d.email \in Emails /\ inserting[d.email] = q
          BY <4>2 DEF InsertsExclude, InsertOf, TypeOK, Contact
        <5> QED
          BY <3>2, <3>4, <5>1, ClosedTransaction
      <4> QED
        BY <4>1, <4>2 DEF InsertsExclude, InsertOf
    <3>5. InsertOf(p)'
      <4>1. CASE (\E o \in Ops : Call(p, o)) \/ Lookup(p)
        <5>1. pc'[p] # "commit" /\ UNCHANGED current
          BY <4>1 DEF Call, Lookup, Goto, TypeOK
        <5> QED
          BY <5>1 DEF InsertsExclude, InsertOf
      <4>2. CASE FindUser(p) \/ RefetchUser(p)
        <5>1. pc[p] \in {"find", "refetch"}
          BY <4>2 DEF FindUser, RefetchUser
        <5>2. op[p] \in Ops /\ op[p].as \in Roles
          BY <5>1, LaunchAssumption DEF Admitted, AdmittedOf, Operation
        <5>3. AfterAccounts(p) \in {"done", "link", "route"}
          BY <5>2 DEF AfterAccounts, Roles
        <5>4. pc'[p] \in {"find", "insert", "failed", "raised", AfterAccounts(p)}
          BY <4>2 DEF FindUser, RefetchUser, Resolve, End, Goto, TypeOK
        <5>5. current'[p] = {} \/ \E c : current'[p] = {c}
          <6>1. \/ current' = [current EXCEPT ![p] = {}]
                \/ \E c : current' = [current EXCEPT ![p] = {c}]
            BY <4>2 DEF FindUser, RefetchUser, Resolve, End
          <6> QED
            BY <6>1 DEF TypeOK
        <5> QED
          BY <5>3, <5>4, <5>5 DEF InsertOf
      <4>3. CASE FindLinked(p) \/ CreateDocument(p) \/ RouteSigner(p) \/ Abort(p)
                 \/ (InsertUser(p) /\ End(p, "duplicate"))
        <5>1. pc'[p] # "commit" /\ current'[p] \in {{}, current[p]}
          BY <4>3 DEF FindLinked, CreateDocument, RouteSigner, Abort, SendTo, End, Goto, TypeOK
        <5> QED
          BY <5>1 DEF InsertsExclude, InsertOf
      <4>4. CASE AssignRegion(p)
        BY <4>4 DEF AssignRegion, InsertsExclude, InsertOf
      <4> QED
        BY <3>1, <4>1, <4>2, <4>3, <4>4
    <3> QED
      BY <3>3, <3>4, <3>5 DEF InsertsExclude, InsertOf
  <2> QED
    BY <2>a, <2>b, <2>c
<1>2. ASSUME UNCHANGED <<users, inserting, pc, current>> PROVE InsertsExclude'
  BY <1>2 DEF InsertsExclude, InsertOf
<1> QED
  BY <1>1, <1>2 DEF Next, ChangeEmail, vars

\* What a step may do to the accounts: an email that has one keeps it.
LEMMA AccountsKept ==
  ASSUME Typed, InsertsExclude, [Next]_vars, NEW e \in Emails, users[e] # NoAccount
  PROVE  users'[e] = users[e]
<1> USE LaunchAssumption DEF Typed, TypeOK
<1>1. ASSUME NEW p \in Requests, CommitUser(p) PROVE users'[e] = users[e]
  <2>1. PICK c \in current[p] : users' = [users EXCEPT ![c.email] = NewAccount(p, c.email)]
    BY <1>1 DEF CommitUser
  <2>2. inserting[c.email] = p /\ c.email \in Emails
    BY <1>1 DEF CommitUser, InsertsExclude, InsertOf, Contact
  <2>3. users[c.email] = NoAccount
    BY <2>2 DEF InsertsExclude
  <2> QED
    BY <2>1, <2>2, <2>3
<1>2. CASE \A p \in Requests : ~CommitUser(p)
  BY <1>2 DEF Next, Step, Call, Lookup, FindUser, InsertUser, RefetchUser, FindLinked,
              CreateDocument, RouteSigner, Abort, AssignRegion, ChangeEmail, vars
<1> QED
  BY <1>1, <1>2

\* What a step may do to a request that has come in: it goes on to no other
\* contacts, and takes the accounts that the users table has for them.
Outline(p) ==
  /\ op'[p] = op[p]
  /\ pc[p] # "lookup" => todo'[p] \cup current'[p] \subseteq todo[p] \cup current[p]
  /\ pc[p] = "lookup" => resolved'[p] = resolved[p]
  /\ \A x \in resolved'[p] :
       x \in resolved[p] \/ \E c \in todo[p] \cup current[p] :
         x.who = c.who /\ x.account.email = c.email /\ users'[c.email] = x.account

\* It is so for one that makes a step of its own,
LEMMA OwnOutline ==
  ASSUME Typed, InsertsExclude, AccountsKeyed, NEW p \in Requests, pc[p] # "idle",
         Step(p) \/ Abort(p) \/ AssignRegion(p)
  PROVE  Outline(p)
<1> USE DEF Typed, TypeOK
<1>a. ASSUME NEW c \in todo[p] \cup current[p], NEW a, Resolve(p, c, a), UNCHANGED op,
             a.email = c.email, users'[c.email] = a, pc[p] # "lookup"
      PROVE  Outline(p)
  <2>1. /\ todo'[p] \subseteq todo[p] /\ current'[p] = {}
        /\ resolved'[p] = resolved[p] \cup {[who |-> c.who, account |-> a]}
    BY <1>a DEF Resolve
  <2>2. ASSUME NEW x \in resolved'[p], x \notin resolved[p]
        PROVE  x.who = c.who /\ x.account.email = c.email /\ users'[c.email] = x.account
    <3>1. x = [who |-> c.who, account |-> a]
      BY <2>1, <2>2
    <3> QED
      BY <1>a, <3>1
  <2> QED
    BY <1>a, <2>1, <2>2 DEF Outline
<1>b. ASSUME UNCHANGED <<op, resolved>>,
             pc[p] = "lookup" \/ todo'[p] \cup current'[p] \subseteq todo[p] \cup current[p]
      PROVE  Outline(p)
  BY <1>b DEF Outline
<1>1. CASE FindUser(p)
  <2>1. PICK c \in todo[p] :
          \/ users[c.email] # NoAccount /\ Resolve(p, c, users[c.email])
          \/ End(p, "failed") /\ UNCHANGED resolved
          \/ /\ todo' = [todo EXCEPT ![p] = @ \ {c}]
             /\ current' = [current EXCEPT ![p] = {c}] /\ UNCHANGED resolved
    BY <1>1 DEF FindUser
  <2>2. pc[p] = "find" /\ UNCHANGED <<users, op>> /\ c.email \in Emails
    BY <1>1 DEF FindUser, Contact
  <2>3. CASE users[c.email] # NoAccount /\ Resolve(p, c, users[c.email])
    <3>1. users[c.email].email = c.email
      BY <2>2, <2>3 DEF AccountsKeyed
    <3> QED
      BY <1>a, <2>2, <2>3, <3>1
  <2>4. CASE End(p, "failed") /\ UNCHANGED resolved
    BY <1>b, <2>2, <2>4 DEF End
  <2>5. CASE /\ todo' = [todo EXCEPT ![p] = @ \ {c}]
             /\ current' = [current EXCEPT ![p] = {c}] /\ UNCHANGED resolved
    BY <1>b, <2>2, <2>5
  <2> QED
    BY <2>1, <2>3, <2>4, <2>5
<1>2. CASE CommitUser(p)
  <2>1. PICK c \in current[p] :
          /\ users' = [users EXCEPT ![c.email] = NewAccount(p, c.email)]
          /\ Resolve(p, c, NewAccount(p, c.email))
    BY <1>2 DEF CommitUser
  <2>2. c.email \in Emails /\ UNCHANGED op /\ pc[p] = "commit"
    BY <1>2 DEF CommitUser, Contact, world
  <2>3. users'[c.email] = NewAccount(p, c.email) /\ NewAccount(p, c.email).email = c.email
    BY <2>1, <2>2 DEF NewAccount
  <2> QED
    BY <1>a, <2>1, <2>2, <2>3
<1>3. CASE RefetchUser(p)
  <2>1. PICK c \in current[p] :
          \/ users[c.email] # NoAccount /\ Resolve(p, c, users[c.email])
          \/ End(p, "raised") /\ UNCHANGED resolved
    BY <1>3 DEF RefetchUser, Refetched
  <2>2. c.email \in Emails /\ UNCHANGED <<users, op>> /\ pc[p] = "refetch"
    BY <1>3 DEF RefetchUser, Contact
  <2>3. CASE users[c.email] # NoAccount /\ Resolve(p, c, users[c.email])
    <3>1. users[c.email].email = c.email
      BY <2>2, <2>3 DEF AccountsKeyed
    <3> QED
      BY <1>a, <2>2, <2>3, <3>1
  <2>4. CASE End(p, "raised") /\ UNCHANGED resolved
    BY <1>b, <2>2, <2>4 DEF End
  <2> QED
    BY <2>1, <2>3, <2>4
<1>4. CASE Lookup(p)
  BY <1>b, <1>4 DEF Lookup
<1>5. CASE InsertUser(p) \/ FindLinked(p) \/ CreateDocument(p) \/ RouteSigner(p) \/ Abort(p)
  <2>1. UNCHANGED <<op, resolved>>
    BY <1>5 DEF InsertUser, FindLinked, CreateDocument, RouteSigner, Abort, world
  <2>2. \/ UNCHANGED <<todo, current>>
        \/ todo' = [todo EXCEPT ![p] = {}] /\ current' = [current EXCEPT ![p] = {}]
    BY <1>5 DEF InsertUser, FindLinked, CreateDocument, RouteSigner, Abort, SendTo, End
  <2> QED
    BY <1>b, <2>1, <2>2
<1>6. CASE AssignRegion(p)
  BY <1>b, <1>6 DEF AssignRegion
<1> QED
  BY <1>1, <1>2, <1>3, <1>4, <1>5, <1>6 DEF Step

\* and for every other.
LEMMA StepOutline ==
  ASSUME Typed, InsertsExclude, AccountsKeyed, [Next]_vars, NEW q \in Requests, pc[q] # "idle"
  PROVE  Outline(q)
<1>1. ASSUME NEW p \in Requests,
             (\E o \in Ops : Call(p, o)) \/ Step(p) \/ Abort(p) \/ AssignRegion(p)
      PROVE  Outline(q)
  <2>1. CASE q = p
    <3>1. ~ \E o \in Ops : Call(p, o)
      BY <2>1 DEF Call
    <3> QED
      BY <1>1, <2>1, <3>1, OwnOutline
  <2>2. CASE q # p
    BY <1>1, <2>2, OthersUnchanged DEF Outline
  <2> QED
    BY <2>1, <2>2
<1>2. CASE UNCHANGED <<op, todo, current, resolved>>
  BY <1>2 DEF Outline
<1> QED
  BY <1>1, <1>2 DEF Next, ChangeEmail, vars

\* One that has not come in has nothing yet.
LEMMA ComesIn ==
  ASSUME Typed, [Next]_vars, NEW q \in Requests, pc[q] = "idle"
  PROVE  /\ todo'[q] = {} /\ current'[q] = {} /\ resolved'[q] = {} /\ route'[q] = {}
         /\ pc'[q] # "idle" => pc'[q] = "lookup"
<1> USE DEF Typed
<1>0. todo[q] = {} /\ current[q] = {} /\ resolved[q] = {} /\ route[q] = {}
  BY DEF Admitted, AdmittedOf
<1>1. ASSUME NEW o \in Ops, Call(q, o)
      PROVE  UNCHANGED <<todo, current, resolved, route>> /\ pc'[q] = "lookup"
  BY <1>1 DEF Call, Goto, TypeOK
<1>2. ~Step(q) /\ ~Abort(q) /\ ~AssignRegion(q)
  BY DEF Step, Lookup, FindUser, InsertUser, CommitUser, RefetchUser, FindLinked, CreateDocument,
         RouteSigner, Abort, AssignRegion, Active
<1>3. ASSUME NEW p \in Requests, p # q,
             (\E o \in Ops : Call(p, o)) \/ Step(p) \/ Abort(p) \/ AssignRegion(p)
      PROVE  /\ todo'[q] = todo[q] /\ current'[q] = current[q] /\ resolved'[q] = resolved[q]
             /\ route'[q] = route[q] /\ pc'[q] = pc[q]
  BY <1>3, OthersUnchanged
<1>4. CASE UNCHANGED <<pc, todo, current, resolved, route>>
  BY <1>0, <1>4
<1> QED
  BY <1>0, <1>1, <1>2, <1>3, <1>4 DEF Next, ChangeEmail, vars

\* Nor has one that is looking them up; what it then has are its contacts.
LEMMA LookupStep ==
  ASSUME Typed, [Next]_vars, NEW q \in Requests, pc[q] = "lookup",
         NEW c \in todo'[q] \cup current'[q], c \notin todo[q] \cup current[q]
  PROVE  Lookup(q) /\ c \in Contacts(op[q])
<1>1. Lookup(q)
  <2>1. ASSUME NEW p \in Requests, p # q,
               (\E o \in Ops : Call(p, o)) \/ Step(p) \/ Abort(p) \/ AssignRegion(p)
        PROVE  todo'[q] = todo[q] /\ current'[q] = current[q]
    BY <2>1, OthersUnchanged
  <2>2. ~AssignRegion(q) /\ \A o \in Ops : ~Call(q, o)
    BY DEF AssignRegion, Call
  <2>3. Step(q) => Lookup(q)
    BY DEF Step, FindUser, InsertUser, CommitUser, RefetchUser, FindLinked, CreateDocument,
           RouteSigner
  <2>4. Abort(q) => todo'[q] = {} /\ current'[q] = {}
    BY DEF Abort, End, Typed, TypeOK
  <2> QED
    BY <2>1, <2>2, <2>3, <2>4 DEF Next, ChangeEmail, vars
<1> QED
  BY <1>1 DEF Lookup, Typed, TypeOK

\* asked only grows, by the role of a request and all its contacts, as it
\* looks them up.
LEMMA AskedGrows ==
  ASSUME Typed, [Next]_vars, NEW e \in Emails
  PROVE  asked[e] \subseteq asked'[e]
<1> USE DEF Typed, TypeOK
<1>1. CASE \E p \in Requests : Lookup(p)
  BY <1>1 DEF Lookup
<1>2. CASE \A p \in Requests : ~Lookup(p)
  BY <1>2 DEF Next, Step, Call, FindUser, InsertUser, CommitUser, RefetchUser, FindLinked,
              CreateDocument, RouteSigner, Abort, AssignRegion, ChangeEmail, vars, history
<1> QED
  BY <1>1, <1>2

Sound == Typed /\ InsertsExclude /\ AccountsKeyed /\ RolesAsked /\ AccountsAreReal

\* What has been taken stays real, and so is what a step takes.
LEMMA RealStep == Sound /\ [Next]_vars => AccountsAreReal'
<1> SUFFICES ASSUME Sound, [Next]_vars, NEW q \in Requests, NEW x \in resolved'[q]
             PROVE  users'[x.account.email] = x.account
  BY DEF AccountsAreReal
<1> USE DEF Sound
<1>0. TypeOK'
  BY TypeStep
<1>1. CASE pc[q] = "idle"
  BY <1>1, ComesIn
<1>2. CASE pc[q] # "idle"
  <2>1. CASE x \in resolved[q]
    <3>1. x.account \in Account /\ x.account.email \in Emails
      BY <2>1 DEF Typed, TypeOK, Resolved, Account
    <3>2. users[x.account.email] = x.account
      BY <2>1 DEF AccountsAreReal
    <3> QED
      BY <3>1, <3>2, AccountsKept, NoAccountAssumption
  <2>2. CASE x \notin resolved[q]
    BY <1>2, <2>2, StepOutline DEF Outline
  <2> QED
    BY <2>1, <2>2
<1> QED
  BY <1>1, <1>2

\* Accounts stay keyed by their emails; a new one has its creator's role.
LEMMA KeyedStep == Sound /\ [Next]_vars => AccountsKeyed'
<1> SUFFICES ASSUME Sound, [Next]_vars, NEW e \in Emails, users'[e] # NoAccount
             PROVE  users'[e].email = e /\ users'[e].role \in asked'[e]
  BY DEF AccountsKeyed
<1> USE DEF Sound
<1>0. asked[e] \subseteq asked'[e]
  BY AskedGrows
<1>1. CASE users'[e] = users[e]
  BY <1>0, <1>1 DEF AccountsKeyed
<1>2. CASE users'[e] # users[e]
  <2>1. PICK p \in Requests : CommitUser(p)
    BY <1>2 DEF Next, Step, Call, Lookup, FindUser, InsertUser, RefetchUser, FindLinked,
                CreateDocument, RouteSigner, Abort, AssignRegion, ChangeEmail, vars
  <2>2. PICK c \in current[p] : users' = [users EXCEPT ![c.email] = NewAccount(p, c.email)]
    BY <2>1 DEF CommitUser
  <2>3. e = c.email /\ users'[e] = NewAccount(p, e)
    BY <1>2, <2>2 DEF Typed, TypeOK
  <2>4. op[p].as \in asked[e]
    BY <2>1, <2>3 DEF CommitUser, RolesAsked
  <2> QED
    BY <1>0, <2>3, <2>4 DEF NewAccount
<1> QED
  BY <1>1, <1>2

\* Looking up its contacts, a request counts as asking for them.
LEMMA RolesAskedStep == Sound /\ [Next]_vars => RolesAsked'
<1> SUFFICES ASSUME Sound, [Next]_vars, NEW q \in Requests, pc'[q] # "idle"
             PROVE  /\ \A c \in todo'[q] \cup current'[q] : op'[q].as \in asked'[c.email]
                    /\ \A x \in resolved'[q] : op'[q].as \in asked'[x.account.email]
  BY DEF RolesAsked
<1> USE DEF Sound
<1>1. CASE pc[q] = "idle"
  BY <1>1, ComesIn
<1>2. CASE pc[q] # "idle"
  <2>1. /\ todo[q] \subseteq Contact /\ current[q] \subseteq Contact
        /\ \A x \in resolved[q] : x.account.email \in Emails
        /\ \A c \in Contact : c.email \in Emails
    BY DEF Typed, TypeOK, Resolved, Account, Contact
  <2>2. \A e \in Emails : asked[e] \subseteq asked'[e]
    BY AskedGrows
  <2>3. Outline(q)
    BY <1>2, StepOutline
  <2>4. ASSUME NEW x \in resolved'[q] PROVE op'[q].as \in asked'[x.account.email]
    <3>1. CASE x \in resolved[q]
      BY <1>2, <2>1, <2>2, <2>3, <3>1 DEF RolesAsked, Outline
    <3>2. CASE x \notin resolved[q]
      <4>1. PICK c \in todo[q] \cup current[q] : x.account.email = c.email
        BY <2>3, <3>2 DEF Outline
      <4> QED
        BY <1>2, <2>1, <2>2, <2>3, <4>1 DEF RolesAsked, Outline
    <3> QED
      BY <3>1, <3>2
  <2>5. ASSUME NEW c \in todo'[q] \cup current'[q] PROVE op'[q].as \in asked'[c.email]
    <3>1. CASE pc[q] # "lookup"
      BY <1>2, <2>1, <2>2, <2>3, <2>5, <3>1 DEF RolesAsked, Outline
    <3>2. CASE pc[q] = "lookup" /\ c \in todo[q] \cup current[q]
      BY <1>2, <2>1, <2>2, <2>3, <3>2 DEF RolesAsked, Outline
    <3>3. CASE pc[q] = "lookup" /\ c \notin todo[q] \cup current[q]
      <4>1. Lookup(q) /\ c \in Contacts(op[q])
        BY <2>5, <3>3, LookupStep
      <4>3. c.email \in Emails
        BY <1>2, <4>1, ContactsTyped DEF Typed, Admitted, AdmittedOf, Contact
      <4> QED
        BY <4>1, <4>3 DEF Lookup, Typed, TypeOK
    <3> QED
      BY <3>1, <3>2, <3>3
  <2> QED
    BY <2>4, <2>5
<1> QED
  BY <1>1, <1>2

\* All of it holds in every state.
LEMMA SoundInvariant == Spec => []Sound
<1>1. Init => Sound
  BY TypedInitially, LaunchAssumption
     DEF Init, Sound, InsertsExclude, InsertOf, AccountsKeyed, RolesAsked, AccountsAreReal
<1>2. Sound /\ [Next]_vars => Sound'
  BY TypeStep, AdmittedStep, InsertsStep, KeyedStep, RolesAskedStep, RealStep DEF Sound, Typed
<1> QED
  BY <1>1, <1>2, PTL DEF Spec

\* AccountsAreReal: a token is only issued for, and a region only assigned to,
\* the account that the users table has for its email, whoever won the race.
THEOREM AccountsReal == Spec => []AccountsAreReal
<1>1. Sound => AccountsAreReal
  BY DEF Sound
<1> QED
  BY <1>1, SoundInvariant, PTL

\* A request that is about to insert, or has met an account while inserting,
\* has not made that account itself; and in the second case it is there.
Raced(p) ==
  /\ pc[p] # "raised"
  /\ pc[p] \in {"insert", "refetch"} =>
       \A c \in current[p] : users[c.email] # NoAccount => users[c.email].by # p
  /\ pc[p] = "refetch" => \A c \in current[p] : users[c.email] # NoAccount

AllRaced == \A p \in Requests : Raced(p)

\* A step of the request itself keeps it so,
LEMMA OwnRace ==
  ASSUME Sound, AllRaced, NEW p \in Requests, pc[p] # "idle", Step(p) \/ Abort(p) \/ AssignRegion(p)
  PROVE  Raced(p)'
<1> USE DEF Sound, Typed, TypeOK
<1>a. ASSUME pc'[p] \notin {"insert", "refetch", "raised"} PROVE Raced(p)'
  BY <1>a DEF Raced
<1>b. ASSUME NEW c \in todo[p] \cup current[p], NEW a, Resolve(p, c, a) PROVE Raced(p)'
  <2>1. op[p] \in Ops /\ op[p].as \in Roles
    BY LaunchAssumption DEF Admitted, AdmittedOf, Operation
  <2>2. pc'[p] \in {"find", "done", "link", "route"}
    BY <1>b, <2>1 DEF Resolve, Goto, AfterAccounts
  <2> QED
    BY <1>a, <2>2
<1>1. CASE FindUser(p)
  <2>1. PICK c \in todo[p] :
          \/ Resolve(p, c, users[c.email])
          \/ End(p, "failed")
          \/ /\ users[c.email] = NoAccount
             /\ current' = [current EXCEPT ![p] = {c}]
             /\ Goto(p, "insert")
    BY <1>1 DEF FindUser
  <2>2. CASE End(p, "failed")
    BY <1>a, <2>2 DEF End, Goto
  <2>3. CASE /\ users[c.email] = NoAccount
             /\ current' = [current EXCEPT ![p] = {c}]
             /\ Goto(p, "insert")
    <3>1. pc'[p] = "insert" /\ current'[p] = {c} /\ UNCHANGED users
      BY <1>1, <2>3 DEF FindUser, Goto
    <3> QED
      BY <2>3, <3>1 DEF Raced
  <2> QED
    BY <1>b, <2>1, <2>2, <2>3
<1>2. CASE InsertUser(p)
  <2>1. PICK c \in current[p] :
          \/ Goto(p, "commit")
          \/ users[c.email] # NoAccount /\ Goto(p, "refetch") /\ UNCHANGED current
          \/ End(p, "duplicate")
    BY <1>2 DEF InsertUser
  <2>2. CASE Goto(p, "commit") \/ End(p, "duplicate")
    BY <1>a, <2>2 DEF End, Goto
  <2>3. CASE users[c.email] # NoAccount /\ Goto(p, "refetch") /\ UNCHANGED current
    <3>1. pc'[p] = "refetch" /\ current'[p] = current[p] /\ UNCHANGED users /\ pc[p] = "insert"
      BY <1>2, <2>3 DEF InsertUser, Goto
    <3>2. \A d \in current[p] : d = c
      BY DEF InsertsExclude, InsertOf
    <3> QED
      BY <2>3, <3>1, <3>2 DEF AllRaced, Raced
  <2> QED
    BY <2>1, <2>2, <2>3
<1>3. CASE CommitUser(p)
  BY <1>b, <1>3 DEF CommitUser
<1>4. CASE RefetchUser(p)
  <2>1. PICK c \in current[p] : users[c.email] # NoAccount => Resolve(p, c, users[c.email])
    BY <1>4 DEF RefetchUser, Refetched
  <2>2. users[c.email] # NoAccount
    BY <1>4 DEF RefetchUser, AllRaced, Raced
  <2> QED
    BY <1>b, <2>1, <2>2
<1>5. CASE Lookup(p) \/ FindLinked(p) \/ CreateDocument(p) \/ RouteSigner(p) \/ Abort(p)
  <2>1. pc'[p] \in {"done", "find", "download", "ambiguous", "failed"}
    BY <1>5 DEF Lookup, FindLinked, CreateDocument, RouteSigner, Abort, SendTo, End, Goto
  <2> QED
    BY <1>a, <2>1
<1>6. CASE AssignRegion(p)
  BY <1>a, <1>6 DEF AssignRegion
<1> QED
  BY <1>1, <1>2, <1>3, <1>4, <1>5, <1>6 DEF Step

\* and so does what the others do: the accounts they commit are theirs, and
\* none goes away.
LEMMA RaceStep == Sound /\ AllRaced /\ [Next]_vars => AllRaced'
<1> SUFFICES ASSUME Sound, AllRaced, [Next]_vars, NEW q \in Requests PROVE Raced(q)'
  BY DEF AllRaced
<1> USE DEF Sound
<1>1. CASE pc[q] = "idle"
  <2>1. pc'[q] \in {"idle", "lookup"}
    BY <1>1, ComesIn
  <2> QED
    BY <2>1 DEF Raced
<1>2. CASE pc[q] # "idle" /\ (Step(q) \/ Abort(q) \/ AssignRegion(q))
  BY <1>2, OwnRace
<1>3. CASE pc'[q] = pc[q] /\ current'[q] = current[q] /\ ~CommitUser(q)
  <2>1. ASSUME NEW c \in current[q]
        PROVE  /\ users[c.email] # NoAccount => users'[c.email] = users[c.email]
               /\ users[c.email] = NoAccount /\ users'[c.email] # NoAccount =>
                    users'[c.email].by # q
    <3>1. c.email \in Emails
      BY DEF Typed, TypeOK, Contact
    <3>2. users[c.email] # NoAccount => users'[c.email] = users[c.email]
      BY <3>1, AccountsKept
    <3>3. ASSUME users'[c.email] # users[c.email] PROVE users'[c.email].by # q
      <4>1. PICK p \in Requests : CommitUser(p)
        BY <3>3 DEF Next, Step, Call, Lookup, FindUser, InsertUser, RefetchUser, FindLinked,
                    CreateDocument, RouteSigner, Abort, AssignRegion, ChangeEmail, vars
      <4>2. PICK d \in current[p] : users' = [users EXCEPT ![d.email] = NewAccount(p, d.email)]
        BY <4>1 DEF CommitUser
      <4>3. users'[c.email] = NewAccount(p, c.email)
        BY <3>1, <3>3, <4>2 DEF Typed, TypeOK
      <4> QED
        BY <1>3, <4>1, <4>3 DEF NewAccount
    <3> QED
      BY <3>2, <3>3
  <2> QED
    BY <1>3, <2>1 DEF AllRaced, Raced
<1>4. ASSUME NEW p \in Requests, p # q,
             (\E o \in Ops : Call(p, o)) \/ Step(p) \/ Abort(p) \/ AssignRegion(p)
      PROVE  pc'[q] = pc[q] /\ current'[q] = current[q]
  BY <1>4, OthersUnchanged
<1>5. ASSUME CommitUser(q) PROVE Step(q)
  BY <1>5 DEF Step
<1>6. ASSUME NEW o \in Ops, Call(q, o) PROVE pc[q] = "idle"
  BY <1>6 DEF Call
<1> QED
  BY <1>1, <1>2, <1>3, <1>4, <1>5, <1>6 DEF Next, ChangeEmail, vars

\* RacesEndWell: however requests race for an email, the one that loses finds
\* the account of another when it reads again.
THEOREM RaceSafety == Spec => []RacesEndWell
<1>1. Init => AllRaced
  BY DEF Init, AllRaced, Raced
<1>2. Sound /\ AllRaced /\ [Next]_vars => AllRaced'
  BY RaceStep
<1>3. AllRaced => RacesEndWell
  BY DEF AllRaced, Raced, RacesEndWell
<1> QED
  BY <1>1, <1>2, <1>3, SoundInvariant, PTL DEF Spec

-----------------------------------------------------------------------------
(* The directory *)

Informed == Sound /\ FromDirectory

\* The contact of an admin's launch, of a list and of a signer's launch.
LEMMA WhoIsAsked ==
  ASSUME NEW o \in Ops, NEW c \in Contacts(o)
  PROVE  /\ o.kind = "launch" /\ o.as = "ADMIN" => c.email = Address(RowOf[o.ext].admin)
         /\ o.kind = "list" => c.email = Address(c.who)
         /\ /\ o.kind = "launch" /\ o.as = "SIGNER"
            /\ o.who # NoPerson \/ SameEmail(RowOf[o.ext])
            => c.email = Address(VerifyLoginId(o))
<1> DEFINE row == RowOf[o.ext]
<1>1. CASE o.kind = "list"
  <2>1. PICK w \in Listed(row) : c = [who |-> w, email |-> Address(w)]
    BY <1>1 DEF Contacts
  <2> QED
    BY <1>1, <2>1
<1>2. CASE o.kind = "launch" /\ o.as = "ADMIN"
  <2>1. c = [who |-> row.admin, email |-> Address(row.admin)]
    BY <1>2 DEF Contacts
  <2> QED
    BY <1>2, <2>1
<1>3. CASE o.kind # "list" /\ o.as # "ADMIN" /\ o.who # NoPerson
  <2>1. c = [who |-> o.who, email |-> Address(o.who)]
    BY <1>3 DEF Contacts
  <2> QED
    BY <1>3, <2>1 DEF VerifyLoginId
<1>4. CASE o.kind # "list" /\ o.as # "ADMIN" /\ o.who = NoPerson
  <2>1. c = [who |-> row.client, email |-> ClientAddress(row)]
    BY <1>4 DEF Contacts
  <2>2. SameEmail(row) => ClientAddress(row) = Address(row.login)
    BY DEF ClientAddress, SameEmail, HasClientEmail, Address
  <2> QED
    BY <1>4, <2>1, <2>2 DEF VerifyLoginId
<1>5. CASE o.kind # "list" /\ o.kind # "launch"
  BY <1>5
<1> QED
  BY <1>1, <1>2, <1>3, <1>4, <1>5

\* What an admin's launch and a list have resolved, while nobody's email changes.
LEMMA AdminIsKnown ==
  ASSUME Informed, moves = 0, NEW p \in Requests, pc[p] # "idle", Asks(p, "launch", "ADMIN"),
         NEW a \in AccountOf(p)
  PROVE  a = AdminOf(op[p].ext)
<1>1. PICK x \in resolved[p] : a = x.account
  BY DEF AccountOf
<1>2. users[a.email] = a
  BY <1>1 DEF Informed, Sound, AccountsAreReal
<1>3. op[p] \in Ops /\ [who |-> x.who, email |-> a.email] \in Contacts(op[p])
  BY <1>1 DEF Informed, Sound, Typed, Admitted, AdmittedOf, FromDirectory
<1>4. a.email = Address(RowOf[op[p].ext].admin)
  BY <1>3, WhoIsAsked DEF Asks
<1> QED
  BY <1>2, <1>4 DEF AdminOf

\* As long as the directory stays as it is, so do everybody's contacts,
LEMMA DirectoryKept ==
  ASSUME Informed, [Next]_vars, moves' = 0
  PROVE  moves = 0 /\ email' = email
<1>1. moves \in Nat
  BY LaunchAssumption DEF Informed, Sound, Typed, TypeOK
<1>2. ~\E w \in Movers, e \in Emails : ChangeEmail(w, e)
  BY <1>1 DEF ChangeEmail
<1> QED
  BY <1>2 DEF Next, Step, Call, Lookup, FindUser, InsertUser, CommitUser, RefetchUser, FindLinked,
              CreateDocument, RouteSigner, Abort, AssignRegion, vars, world

\* and the account of an email.
LEMMA AdminKept ==
  ASSUME Informed, [Next]_vars, moves' = 0, NEW x \in Externals, AdminOf(x) \in Account
  PROVE  AdminOf(x)' = AdminOf(x)
<1>1. email' = email
  BY DirectoryKept
<1>2. RowOf[x].admin \in People
  BY LaunchAssumption DEF Row
<1>3. Address(RowOf[x].admin) \in Emails
  BY <1>2, AddressTyped DEF Informed, Sound, Typed
<1>4. Address(RowOf[x].admin)' = Address(RowOf[x].admin)
  BY <1>1 DEF Address
<1> QED
  BY <1>3, <1>4, AccountsKept, NoAccountAssumption DEF AdminOf, Informed, Sound

\* A new document is the one of the admin whom the directory says,
LEMMA DocumentStep ==
  ASSUME Informed, [Next]_vars, moves' = 0, NEW d \in docs'
  PROVE  d.uploaded_by = AdminOf(d.ext)'
<1> USE DEF Informed, Sound
<1>0. moves = 0
  BY DirectoryKept
<1>1. CASE d \in docs
  <2>1. d.uploaded_by = AdminOf(d.ext) /\ d.uploaded_by \in Account /\ d.ext \in Externals
    BY <1>0, <1>1 DEF FromDirectory, Typed, TypeOK, Document
  <2> QED
    BY <2>1, AdminKept
<1>2. CASE d \notin docs
  <2>1. PICK p \in Requests : CreateDocument(p)
    BY <1>2 DEF Next, Step, Call, Lookup, FindUser, InsertUser, CommitUser, RefetchUser, FindLinked,
                RouteSigner, Abort, AssignRegion, ChangeEmail, vars, world
  <2>2. PICK a \in AccountOf(p) : d = [by |-> p, ext |-> op[p].ext, uploaded_by |-> a]
    BY <1>2, <2>1 DEF CreateDocument
  <2>3. pc[p] # "idle" /\ Asks(p, "launch", "ADMIN")
    BY <2>1 DEF CreateDocument, Typed, Admitted, AdmittedOf
  <2>4. a = AdminOf(op[p].ext)
    BY <1>0, <2>3, AdminIsKnown
  <2>5. a \in Account
    BY DEF AccountOf, Typed, TypeOK, Resolved
  <2>6. op[p].ext \in Externals
    BY <2>3, LaunchAssumption DEF Typed, Admitted, AdmittedOf, Operation
  <2> QED
    BY <2>2, <2>4, <2>5, <2>6, AdminKept
<1> QED
  BY <1>1, <1>2

\* a region the one of the person it is meant for,
LEMMA WorkStep ==
  ASSUME Informed, [Next]_vars, moves' = 0, NEW w \in work'
  PROVE  w.account = users'[Address(w.meant)']
<1> USE DEF Informed, Sound
<1>0. moves = 0 /\ email' = email
  BY DirectoryKept
<1>1. Address(w.meant)' = Address(w.meant)
  BY <1>0 DEF Address
<1>2. CASE w \in work
  <2>1. w.account = users[Address(w.meant)] /\ w.account \in Account /\ w.meant \in People
    BY <1>0, <1>2 DEF FromDirectory, Typed, TypeOK
  <2>2. Address(w.meant) \in Emails
    BY <2>1, AddressTyped DEF Typed
  <2> QED
    BY <1>1, <2>1, <2>2, AccountsKept, NoAccountAssumption
<1>3. CASE w \notin work
  <2>1. PICK p \in Requests : AssignRegion(p)
    BY <1>3 DEF Next, Step, Call, Lookup, FindUser, InsertUser, CommitUser, RefetchUser, FindLinked,
                CreateDocument, RouteSigner, Abort, ChangeEmail, vars, world
  <2>2. PICK x \in resolved[p] : w.account = x.account /\ w.meant = x.who
    BY <1>3, <2>1 DEF AssignRegion
  <2>3. [who |-> x.who, email |-> x.account.email] \in Contacts(op[p]) /\ op[p] \in Ops
    BY <1>0, <2>1 DEF AssignRegion, FromDirectory, Typed, Admitted, AdmittedOf
  <2>4. x.account.email = Address(x.who)
    BY <2>1, <2>3, WhoIsAsked DEF AssignRegion
  <2>5. users'[x.account.email] = x.account
    BY <2>1 DEF AssignRegion, AccountsAreReal
  <2> QED
    BY <1>1, <2>2, <2>4, <2>5
<1> QED
  BY <1>2, <1>3

\* an admin is sent to a document of the directory's admin,
LEMMA RouteStep ==
  ASSUME Informed, [Next]_vars, moves' = 0, NEW q \in Requests, pc'[q] # "idle",
         op'[q].as = "ADMIN", NEW d \in route'[q]
  PROVE  d.uploaded_by = AdminOf(op[q].ext)'
<1> USE DEF Informed, Sound
<1>0. moves = 0
  BY DirectoryKept
<1>1. pc[q] # "idle"
  BY ComesIn
<1>2. op'[q] = op[q] /\ op[q] \in Ops
  BY <1>1, StepOutline DEF Outline, Typed, Admitted, AdmittedOf
<1>3. op[q].ext \in Externals
  BY <1>2, LaunchAssumption DEF Operation
<1>4. CASE d \in route[q]
  <2>1. d.uploaded_by = AdminOf(op[q].ext) /\ d.uploaded_by \in Account
    <3>1. d.uploaded_by \in Account
      BY <1>4 DEF Typed, TypeOK, Document
    <3> QED
      BY <1>0, <1>1, <1>2, <1>4, <3>1 DEF FromDirectory
  <2> QED
    BY <1>2, <1>3, <2>1, AdminKept DEF AdminOf, Address
<1>5. CASE d \notin route[q]
  <2>1. FindLinked(q) \/ CreateDocument(q) \/ RouteSigner(q)
    <3>1. ASSUME NEW p \in Requests, p # q,
                 (\E o \in Ops : Call(p, o)) \/ Step(p) \/ Abort(p) \/ AssignRegion(p)
          PROVE  route'[q] = route[q]
      BY <3>1, OthersUnchanged
    <3> QED
      BY <1>5, <3>1 DEF Next, Step, Call, Lookup, FindUser, InsertUser, CommitUser, RefetchUser,
                        Abort, AssignRegion, ChangeEmail, vars
  <2>2. ~RouteSigner(q)
    BY <1>2 DEF RouteSigner, Typed, Admitted, AdmittedOf, Asks
  <2>3. d \in docs' /\ d.ext = op[q].ext
    <3>1. CASE FindLinked(q)
      BY <1>5, <3>1 DEF FindLinked, SendTo, LinkedTo, Typed, TypeOK, world
    <3>2. CASE CreateDocument(q)
      <4>1. PICK a : /\ docs' = docs \cup {[by |-> q, ext |-> op[q].ext, uploaded_by |-> a]}
                     /\ SendTo(q, {[by |-> q, ext |-> op[q].ext, uploaded_by |-> a]})
        BY <3>2 DEF CreateDocument
      <4>2. d = [by |-> q, ext |-> op[q].ext, uploaded_by |-> a]
        BY <1>5, <4>1 DEF SendTo, Typed, TypeOK
      <4> QED
        BY <4>1, <4>2
    <3> QED
      BY <2>1, <2>2, <3>1, <3>2
  <2> QED
    BY <1>2, <2>3, DocumentStep DEF AdminOf, Address
<1> QED
  BY <1>4, <1>5

\* and all that a request has resolved is among its contacts.
LEMMA DirectoryStep == Informed /\ [Next]_vars => FromDirectory'
<1> SUFFICES ASSUME Informed, [Next]_vars, moves' = 0 PROVE FromDirectory'
  BY DEF FromDirectory
<1>0. moves = 0 /\ email' = email
  BY DirectoryKept
<1>1. ASSUME NEW o PROVE Contacts(o)' = Contacts(o)
  BY <1>0 DEF Contacts, Address, ClientAddress, ClientAddressOfRow, HasClientEmail, Listed
<1>2. ASSUME NEW q \in Requests, pc'[q] # "idle"
      PROVE  /\ todo'[q] \cup current'[q] \subseteq Contacts(op'[q])
             /\ \A x \in resolved'[q] :
                  [who |-> x.who, email |-> x.account.email] \in Contacts(op'[q])
  <2> USE DEF Informed, Sound
  <2>1. CASE pc[q] = "idle"
    BY <2>1, ComesIn
  <2>2. CASE pc[q] # "idle"
    <3>1. Outline(q)
      BY <2>2, StepOutline
    <3>2. /\ todo[q] \cup current[q] \subseteq Contacts(op[q]) /\ op'[q] = op[q]
          /\ \A x \in resolved[q] :
               [who |-> x.who, email |-> x.account.email] \in Contacts(op[q])
      BY <1>0, <2>2, <3>1 DEF FromDirectory, Outline
    <3>3. ASSUME NEW x \in resolved'[q]
          PROVE  [who |-> x.who, email |-> x.account.email] \in Contacts(op[q])
      <4>1. CASE x \in resolved[q]
        BY <3>2, <4>1
      <4>2. CASE x \notin resolved[q]
        <5>1. PICK c \in todo[q] \cup current[q] : x.who = c.who /\ x.account.email = c.email
          BY <3>1, <4>2 DEF Outline
        <5>2. c \in Contact /\ c \in Contacts(op[q])
          BY <3>2 DEF Typed, TypeOK
        <5>3. c = [who |-> x.who, email |-> x.account.email]
          BY <5>1, <5>2 DEF Contact
        <5> QED
          BY <5>2, <5>3
      <4> QED
        BY <4>1, <4>2
    <3>4. todo'[q] \cup current'[q] \subseteq Contacts(op[q])
      <4>1. CASE pc[q] # "lookup"
        BY <3>1, <3>2, <4>1 DEF Outline
      <4>2. CASE pc[q] = "lookup"
        BY <3>2, <4>2, LookupStep
      <4> QED
        BY <4>1, <4>2
    <3> QED
      BY <3>2, <3>3, <3>4
  <2> QED
    BY <2>1, <2>2
<1> QED
  BY <1>1, <1>2, DocumentStep, WorkStep, RouteStep DEF FromDirectory

\* What requests know of the directory is true of it, in every reachable state.
LEMMA InformedInvariant == Spec => []Informed
<1>1. Init => FromDirectory
  BY DEF Init, FromDirectory
<1>2. Informed /\ [Next]_vars => FromDirectory'
  BY DirectoryStep
<1>3. Informed <=> Sound /\ FromDirectory
  BY DEF Informed
<1> QED
  BY <1>1, <1>2, <1>3, SoundInvariant, PTL DEF Spec

\* EnteredInRole: whoever asked for its email in one role only is answered in
\* that role, and an admin owns the document it is sent to.
THEOREM InRole == Spec => []EnteredInRole
<1>1. ASSUME Informed, NEW p \in Requests, pc[p] = "done", NEW a \in AccountOf(p)
      PROVE  /\ a.role = op[p].as \/ asked[a.email] = Roles
             /\ op[p].as = "ADMIN" /\ moves = 0 => \A d \in route[p] : d.uploaded_by = a
  <2> USE <1>1 DEF Informed, Sound, Typed
  <2>1. PICK x \in resolved[p] : a = x.account
    BY DEF AccountOf
  <2>2. a \in Account /\ users[a.email] = a
    BY <2>1 DEF TypeOK, Resolved, AccountsAreReal
  <2>3. a.email \in Emails /\ a.role \in Roles /\ a # NoAccount
    BY <2>2, NoAccountAssumption DEF Account
  <2>4. a.role \in asked[a.email] /\ op[p].as \in asked[a.email]
    BY <2>1, <2>2, <2>3 DEF AccountsKeyed, RolesAsked
  <2>5. op[p] \in Ops /\ op[p].as \in Roles /\ asked[a.email] \subseteq Roles
    BY <2>3, LaunchAssumption DEF Admitted, AdmittedOf, Operation, TypeOK
  <2>6. a.role = op[p].as \/ asked[a.email] = Roles
    BY <2>3, <2>4, <2>5 DEF Roles
  <2>7. ASSUME op[p].as = "ADMIN", moves = 0, NEW d \in route[p] PROVE d.uploaded_by = a
    <3>1. Asks(p, "launch", "ADMIN")
      BY <2>7 DEF Admitted, AdmittedOf, Asks
    <3>2. d.uploaded_by = AdminOf(op[p].ext)
      BY <2>7 DEF FromDirectory
    <3>3. a = AdminOf(op[p].ext)
      BY <2>7, <3>1, AdminIsKnown
    <3> QED
      BY <3>2, <3>3
  <2> QED
    BY <2>6, <2>7
<1>2. Informed => EnteredInRole
  BY <1>1 DEF EnteredInRole
<1> QED
  BY <1>2, InformedInvariant, PTL

\* SignerIsWhoWasMeant: a signer's launch that is done has the account that every
\* earlier assignment to its login id was made for; 2-tier, if the client's two
\* entries in the directory have one email.
THEOREM SignerMeant == Spec => SignerIsWhoWasMeant
<1> DEFINE Meant(p) ==
      /\ moves = 0 /\ pc[p] # "done" /\ pc'[p] = "done"
      /\ op[p].kind = "launch" /\ op[p].as = "SIGNER"
      /\ op[p].who # NoPerson \/ SameEmail(RowOf[op[p].ext])
      => \A w \in work : w.meant = VerifyLoginId(op[p]) => w.account \in AccountOf(p)
<1>1. ASSUME Informed, [Next]_vars, NEW q \in Requests PROVE Meant(q)
  <2> SUFFICES ASSUME moves = 0, pc[q] # "done", pc'[q] = "done",
                      op[q].kind = "launch", op[q].as = "SIGNER",
                      op[q].who # NoPerson \/ SameEmail(RowOf[op[q].ext]),
                      NEW w \in work, w.meant = VerifyLoginId(op[q])
               PROVE  w.account \in AccountOf(q)
    OBVIOUS
  <2> USE <1>1 DEF Informed, Sound
  <2>1. pc[q] # "idle"
    BY ComesIn
  <2>2. op[q] \in Ops
    BY <2>1 DEF Typed, Admitted, AdmittedOf
  <2>3. RouteSigner(q)
    <3>1. ASSUME NEW p \in Requests, p # q,
                 (\E o \in Ops : Call(p, o)) \/ Step(p) \/ Abort(p) \/ AssignRegion(p)
          PROVE  pc'[q] = pc[q]
      BY <3>1, OthersUnchanged
    <3>2. ~(\E o \in Ops : Call(q, o)) /\ ~Abort(q) /\ ~AssignRegion(q)
      BY <2>1 DEF Call, Abort, AssignRegion, End, Goto, Typed, TypeOK
    <3>3. ~Lookup(q)
      <4>1. Contacts(op[q]) # {}
        BY DEF Contacts
      <4> QED
        BY <4>1 DEF Lookup, Goto, Typed, TypeOK
    <3>4. ~FindUser(q) /\ ~CommitUser(q) /\ ~RefetchUser(q)
      <4>1. AfterAccounts(q) # "done"
        BY DEF AfterAccounts
      <4> QED
        BY <4>1 DEF FindUser, CommitUser, RefetchUser, Resolve, End, Goto, Typed, TypeOK
    <3>5. ~InsertUser(q)
      BY DEF InsertUser, End, Goto, Typed, TypeOK
    <3>6. ~FindLinked(q) /\ ~CreateDocument(q)
      BY DEF FindLinked, CreateDocument, Typed, Admitted, AdmittedOf, Asks
    <3> QED
      BY <3>1, <3>2, <3>3, <3>4, <3>5, <3>6 DEF Next, Step, ChangeEmail, vars
  <2>4. PICK x \in resolved[q] : TRUE
    BY <2>3 DEF RouteSigner, Typed, Admitted, AdmittedOf
  <2>5. [who |-> x.who, email |-> x.account.email] \in Contacts(op[q])
    BY <2>1 DEF FromDirectory
  <2>6. x.account.email = Address(VerifyLoginId(op[q]))
    BY <2>2, <2>5, WhoIsAsked
  <2>7. users[x.account.email] = x.account
    BY DEF AccountsAreReal
  <2>8. w.account = users[Address(w.meant)]
    BY DEF FromDirectory
  <2> QED
    BY <2>6, <2>7, <2>8 DEF AccountOf
<1>2. ASSUME Informed, [Next]_vars PROVE [\A p \in Requests : Meant(p)]_vars
  BY <1>1, <1>2
<1> QED
  BY <1>2, InformedInvariant, PTL DEF Spec, SignerIsWhoWasMeant

-----------------------------------------------------------------------------
(* The documents *)

Linked == Typed /\ Overlaps /\ OneDocumentUnlessOverlapped

\* A request that is at work was at work before, unless it has just come in.
LEMMA AtWork ==
  ASSUME Typed, [Next]_vars, NEW q \in Requests, pc[q] # "idle"
  PROVE  op'[q] = op[q] /\ (Active(q)' => Active(q))
<1> USE DEF Typed, TypeOK
<1>1. ASSUME NEW p \in Requests, p # q,
             (\E o \in Ops : Call(p, o)) \/ Step(p) \/ Abort(p) \/ AssignRegion(p)
      PROVE  pc'[q] = pc[q] /\ op'[q] = op[q]
  BY <1>1, OthersUnchanged
<1>2. CASE AssignRegion(q)
  BY <1>2 DEF AssignRegion, Active, Ended
<1>3. CASE Step(q) \/ Abort(q)
  <2>1. Active(q)
    BY <1>3 DEF Step, Abort, Active, Ended, Lookup, FindUser, InsertUser, CommitUser, RefetchUser,
                FindLinked, CreateDocument, RouteSigner
  <2>2. UNCHANGED op
    BY <1>3 DEF Step, Abort, Lookup, FindUser, InsertUser, CommitUser, RefetchUser,
                FindLinked, CreateDocument, RouteSigner
  <2> QED
    BY <2>1, <2>2
<1>4. ~ \E o \in Ops : Call(q, o)
  BY DEF Call
<1>5. CASE UNCHANGED <<pc, op>>
  BY <1>5 DEF Active, Ended
<1> QED
  BY <1>1, <1>2, <1>3, <1>4, <1>5 DEF Next, ChangeEmail, vars, Active, Ended

\* The history of overlaps only grows, and a document comes of a download.
LEMMA DocumentsGrow ==
  ASSUME Typed, [Next]_vars
  PROVE  /\ overlapped \subseteq overlapped'
         /\ docs' = docs \/ \E p \in Requests : CreateDocument(p)
<1>1. CASE \E p \in Requests : CreateDocument(p)
  BY <1>1 DEF CreateDocument, history
<1>2. CASE ~ \E p \in Requests : CreateDocument(p)
  BY <1>2 DEF Next, Step, Call, Lookup, FindUser, InsertUser, CommitUser, RefetchUser, FindLinked,
              RouteSigner, Abort, AssignRegion, ChangeEmail, vars, world, history
<1> QED
  BY <1>1, <1>2

\* An admin's launch that comes in marks those that it overlaps.
LEMMA OverlapsStep == Linked /\ [Next]_vars => Overlaps'
<1> SUFFICES ASSUME Linked, [Next]_vars PROVE Overlaps'
  OBVIOUS
<1> USE DEF Linked
<1>0. Typed' /\ overlapped \subseteq overlapped'
  BY TypeStep, AdmittedStep, DocumentsGrow DEF Typed
<1>1. ASSUME NEW p \in Requests, NEW q \in Requests, p # q, Active(p)', Active(q)',
             Asks(p, "launch", "ADMIN")', Asks(q, "launch", "ADMIN")', op'[p].ext = op'[q].ext
      PROVE  op'[p].ext \in overlapped'
  <2>1. CASE pc[p] # "idle" /\ pc[q] # "idle"
    <3>1. op'[p] = op[p] /\ op'[q] = op[q] /\ Active(p) /\ Active(q)
      BY <1>1, <2>1, AtWork
    <3> QED
      BY <1>0, <1>1, <3>1 DEF Overlaps, Asks
  <2>2. ASSUME NEW r \in Requests, NEW s \in Requests, r # s, pc[r] = "idle",
               pc'[r] # "idle", pc'[s] # "idle", Active(s)', Asks(r, "launch", "ADMIN")',
               Asks(s, "launch", "ADMIN")', op'[r].ext = op'[s].ext
        PROVE  op'[r].ext \in overlapped'
    <3>1. PICK o \in Ops : Call(r, o)
      <4>1. ASSUME NEW t \in Requests, t # r,
                   (\E o \in Ops : Call(t, o)) \/ Step(t) \/ Abort(t) \/ AssignRegion(t)
            PROVE  pc'[r] = pc[r]
        BY <4>1, OthersUnchanged
      <4>2. ~Step(r) /\ ~Abort(r) /\ ~AssignRegion(r)
        BY <2>2 DEF Step, Lookup, FindUser, InsertUser, CommitUser, RefetchUser, FindLinked,
                    CreateDocument, RouteSigner, Abort, AssignRegion, Active
      <4> QED
        BY <2>2, <4>1, <4>2 DEF Next, ChangeEmail, vars
    <3>2. op'[r] = o /\ op'[s] = op[s] /\ pc'[s] = pc[s]
      BY <2>2, <3>1 DEF Call, Goto, Typed, TypeOK
    <3>3. Active(s) /\ Asks(s, "launch", "ADMIN") /\ op[s].ext = o.ext
      BY <2>2, <3>2 DEF Active, Ended, Asks
    <3>4. BootstrapUnderWay(o.ext)
      BY <3>3 DEF BootstrapUnderWay, Asks
    <3>5. o.kind = "launch" /\ o.as = "ADMIN"
      BY <2>2, <3>2 DEF Asks
    <3> QED
      BY <3>1, <3>2, <3>4, <3>5 DEF Call
  <2>3. pc'[p] # "idle" /\ pc'[q] # "idle"
    BY <1>1 DEF Active
  <2> QED
    BY <1>1, <2>1, <2>2, <2>3
<1>2. ASSUME NEW p \in Requests, pc'[p] = "download", op'[p].ext \notin overlapped'
      PROVE  LinkedTo(op[p])' = {}
  <2>1. pc[p] # "idle"
    BY <1>2, ComesIn
  <2>2. op'[p] = op[p] /\ op[p].ext \notin overlapped
    BY <1>0, <1>2, <2>1, AtWork
  <2>3. CASE \E q \in Requests : CreateDocument(q)
    <3>1. PICK q \in Requests : CreateDocument(q)
      BY <2>3
    <3>2. p # q
      BY <1>2, <3>1 DEF CreateDocument, SendTo, End, Goto, Typed, TypeOK
    <3>3. pc[p] = "download"
      BY <1>2, <3>1, <3>2, OthersUnchanged DEF Step
    <3>4. /\ pc[q] = "download" /\ Asks(p, "launch", "ADMIN") /\ Asks(q, "launch", "ADMIN")
          /\ Active(p) /\ Active(q)
      BY <3>1, <3>3 DEF CreateDocument, Typed, Admitted, AdmittedOf, Active, Ended
    <3>5. op[q].ext # op[p].ext
      BY <2>2, <3>2, <3>4 DEF Overlaps
    <3>6. PICK a : docs' = docs \cup {[by |-> q, ext |-> op[q].ext, uploaded_by |-> a]}
      BY <3>1 DEF CreateDocument
    <3>7. LinkedTo(op[p]) = {}
      BY <2>2, <3>3 DEF Overlaps
    <3> QED
      BY <2>2, <3>5, <3>6, <3>7 DEF LinkedTo
  <2>4. CASE docs' = docs
    <3>1. LinkedTo(op[p]) = {}
      <4>1. CASE pc[p] = "download"
        BY <2>2, <4>1 DEF Overlaps
      <4>2. CASE pc[p] # "download"
        <5>1. FindLinked(p)
          <6>1. ASSUME NEW t \in Requests, t # p,
                       (\E o \in Ops : Call(t, o)) \/ Step(t) \/ Abort(t) \/ AssignRegion(t)
                PROVE  pc'[p] = pc[p]
            BY <6>1, OthersUnchanged
          <6>2. ~(FindUser(p) \/ CommitUser(p) \/ RefetchUser(p))
            <7>1. ASSUME pc[p] \in {"find", "commit", "refetch"}
                  PROVE  AfterAccounts(p) # "download"
              BY DEF AfterAccounts
            <7> QED
              BY <1>2, <7>1 DEF FindUser, CommitUser, RefetchUser, Resolve, End, Goto, Typed, TypeOK
          <6>3. ~(Lookup(p) \/ InsertUser(p) \/ CreateDocument(p) \/ RouteSigner(p) \/ Abort(p))
            BY <1>2 DEF Lookup, InsertUser, CreateDocument, RouteSigner, Abort, SendTo, End, Goto,
                        Typed, TypeOK
          <6>4. ~AssignRegion(p) /\ \A o \in Ops : ~Call(p, o)
            BY <1>2, <2>1 DEF AssignRegion, Call
          <6> QED
            BY <1>2, <4>2, <6>1, <6>2, <6>3, <6>4 DEF Next, Step, ChangeEmail, vars
        <5> QED
          BY <1>2, <5>1 DEF FindLinked, SendTo, End, Goto, Typed, TypeOK
      <4> QED
        BY <4>1, <4>2
    <3> QED
      BY <2>2, <2>4, <3>1 DEF LinkedTo
  <2> QED
    BY <2>3, <2>4, DocumentsGrow
<1> QED
  BY <1>1, <1>2 DEF Overlaps

\* More than one document is linked to an id only if its launches overlapped.
LEMMA ManyLinked ==
  ASSUME Linked, NEW o \in Ops, Cardinality(LinkedTo(o)) > 1
  PROVE  o.ext \in overlapped
<1> SUFFICES ASSUME o.ext \notin overlapped PROVE FALSE
  OBVIOUS
<1>1. \A d, e \in LinkedTo(o) : d = e
  BY DEF LinkedTo, Linked, OneDocumentUnlessOverlapped
<1>2. CASE LinkedTo(o) = {}
  <2>1. Cardinality(LinkedTo(o)) = 0
    BY <1>2, FS_EmptySet
  <2> QED
    BY <2>1
<1>3. CASE LinkedTo(o) # {}
  <2>1. PICK d \in LinkedTo(o) : TRUE
    BY <1>3
  <2>2. LinkedTo(o) = {d}
    BY <1>1, <2>1
  <2>3. Cardinality({d}) = 1
    BY FS_Singleton
  <2> QED
    BY <2>2, <2>3
<1> QED
  BY <1>2, <1>3

\* The step that creates a document follows a query that has found none.
LEMMA OneDocumentStep == Linked /\ [Next]_vars => OneDocumentUnlessOverlapped'
<1> SUFFICES ASSUME Linked, [Next]_vars PROVE OneDocumentUnlessOverlapped'
  OBVIOUS
<1> USE DEF Linked
<1>0. Typed' /\ overlapped \subseteq overlapped'
  BY TypeStep, AdmittedStep, DocumentsGrow DEF Typed
<1>1. ASSUME NEW d \in docs', NEW e \in docs', d.ext = e.ext, d.ext \notin overlapped'
      PROVE  d = e
  <2>1. CASE docs' = docs
    BY <1>0, <1>1, <2>1 DEF OneDocumentUnlessOverlapped
  <2>2. CASE \E p \in Requests : CreateDocument(p)
    <3>1. PICK p \in Requests : CreateDocument(p)
      BY <2>2
    <3>2. PICK a : docs' = docs \cup {[by |-> p, ext |-> op[p].ext, uploaded_by |-> a]}
      BY <3>1 DEF CreateDocument
    <3>3. op[p].ext \notin overlapped => \A f \in docs : f.ext # op[p].ext
      BY <3>1 DEF CreateDocument, Overlaps, LinkedTo
    <3> DEFINE new == [by |-> p, ext |-> op[p].ext, uploaded_by |-> a]
    <3>4. new.ext = op[p].ext
      OBVIOUS
    <3> HIDE DEF new
    <3>5. docs' = docs \cup {new}
      BY <3>2 DEF new
    <3> QED
      BY <1>0, <1>1, <3>3, <3>4, <3>5 DEF OneDocumentUnlessOverlapped
  <2> QED
    BY <2>1, <2>2, DocumentsGrow
<1>2. ASSUME NEW q \in Requests, pc'[q] = "ambiguous" PROVE op'[q].ext \in overlapped'
  <2>1. pc[q] # "idle"
    BY <1>2, ComesIn
  <2>2. op'[q] = op[q] /\ op[q] \in Ops
    BY <2>1, AtWork DEF Typed, Admitted, AdmittedOf
  <2>3. CASE pc[q] = "ambiguous"
    BY <1>0, <2>2, <2>3 DEF OneDocumentUnlessOverlapped
  <2>4. CASE pc[q] # "ambiguous"
    <3>1. ASSUME NEW t \in Requests, t # q,
                 (\E o \in Ops : Call(t, o)) \/ Step(t) \/ Abort(t) \/ AssignRegion(t)
          PROVE  pc'[q] = pc[q]
      BY <3>1, OthersUnchanged
    <3>2. ~(FindUser(q) \/ CommitUser(q) \/ RefetchUser(q))
      <4>1. AfterAccounts(q) # "ambiguous"
        BY DEF AfterAccounts
      <4> QED
        BY <1>2, <4>1 DEF FindUser, CommitUser, RefetchUser, Resolve, End, Goto, Typed, TypeOK
    <3>3. ~(Lookup(q) \/ InsertUser(q) \/ CreateDocument(q) \/ Abort(q))
      BY <1>2 DEF Lookup, InsertUser, CreateDocument, Abort, SendTo, End, Goto, Typed, TypeOK
    <3>4. ~AssignRegion(q) /\ \A o \in Ops : ~Call(q, o)
      BY <1>2, <2>1 DEF AssignRegion, Call
    <3>5. FindLinked(q) \/ RouteSigner(q)
      BY <1>2, <2>4, <3>1, <3>2, <3>3, <3>4 DEF Next, Step, ChangeEmail, vars
    <3>6. Cardinality(LinkedTo(op[q])) > 1
      BY <1>2, <3>5 DEF FindLinked, RouteSigner, SendTo, End, Goto, Typed, TypeOK
    <3> QED
      BY <1>0, <2>2, <3>6, ManyLinked
  <2> QED
    BY <2>3, <2>4
<1> QED
  BY <1>1, <1>2 DEF OneDocumentUnlessOverlapped

\* OneDocumentUnlessOverlapped: bootstrap_external_document is idempotent for
\* every ESignRequestID whose admin launches did not overlap, and no launch
\* for it fails on several documents.
THEOREM OneDocument == Spec => []OneDocumentUnlessOverlapped
<1>1. Init => Linked
  BY TypedInitially DEF Init, Linked, Overlaps, OneDocumentUnlessOverlapped, Active
<1>2. Linked /\ [Next]_vars => Linked'
  BY TypeStep, AdmittedStep, OverlapsStep, OneDocumentStep DEF Linked, Typed
<1>3. Linked => OneDocumentUnlessOverlapped
  BY DEF Linked
<1> QED
  BY <1>1, <1>2, <1>3, PTL DEF Spec
=============================================================================
