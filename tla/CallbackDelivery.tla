--------------------------- MODULE CallbackDelivery ---------------------------
(***************************************************************************)
(* ExternalCallbackClient.send_completion_callback over                    *)
(* SqlAlchemyCallbackAuditRepository: several calls for one (document,     *)
(* user, status) triple, hence for one row of callback_audit_logs.  The    *)
(* application constructs the client; only tests call it.                  *)
(*                                                                         *)
(* Every call has its own session.  The UPDATE of the row and its commit   *)
(* follow each other and are one step; the SELECT before it is another.    *)
(***************************************************************************)
EXTENDS FiniteSets, Naturals

CONSTANTS
  Calls,
  MaxAttempts,  \* MAX_ATTEMPTS
  MaxRestarts,  \* bound
  NoRecord

Record == [attempts: Nat, succeeded: BOOLEAN]
Fresh  == [attempts |-> 0, succeeded |-> FALSE]

ASSUME DeliveryAssumption ==
  /\ IsFiniteSet(Calls) /\ MaxAttempts \in Nat \ {0} /\ MaxRestarts \in Nat
  /\ NoRecord \notin Record

VARIABLES
  record,    \* the row of the triple
  pc,
  attempt,   \* the attempt a call is at
  posted,    \* whether its last POST was answered 2xx
  loaded,    \* the row as increment_attempt's SELECT returned it
  taken,     \* how many POSTs the external system has taken
  posts,     \* how many were answered or failed
  restarts,
  overlapped \* history: two calls have been in flight at the same time

vars == <<record, pc, attempt, posted, loaded, taken, posts, restarts, overlapped>>

Posts == 0 .. MaxAttempts * Cardinality(Calls)

TypeOK ==
  /\ record \in [attempts: Posts, succeeded: BOOLEAN] \cup {NoRecord}
  /\ pc \in [Calls -> {"idle", "check", "create", "post", "load", "save", "delivered",
                       "exhausted", "failed"}]
  /\ attempt \in [Calls -> 1 .. MaxAttempts]
  /\ posted \in [Calls -> BOOLEAN]
  /\ loaded \in [Calls -> [attempts: Posts, succeeded: BOOLEAN]]
  /\ taken \in Posts /\ posts \in Posts
  /\ restarts \in 0 .. MaxRestarts
  /\ overlapped \in BOOLEAN

Init ==
  /\ record = NoRecord
  /\ pc = [c \in Calls |-> "idle"]
  /\ attempt = [c \in Calls |-> 1]
  /\ posted = [c \in Calls |-> FALSE]
  /\ loaded = [c \in Calls |-> Fresh]
  /\ taken = 0 /\ posts = 0
  /\ restarts = 0
  /\ overlapped = FALSE

Ended(c)  == pc[c] \in {"delivered", "exhausted", "failed"}
Active(c) == pc[c] # "idle" /\ ~Ended(c)

Goto(c, label) == pc' = [pc EXCEPT ![c] = label]

-----------------------------------------------------------------------------
Call(c) ==
  /\ pc[c] = "idle"
  /\ Goto(c, "check")
  /\ overlapped' = (overlapped \/ \E d \in Calls : Active(d))
  /\ UNCHANGED <<record, attempt, posted, loaded, taken, posts, restarts>>

Recorded == record # NoRecord
Succeeded == Recorded /\ record.succeeded

\* Mutant of AlreadyDelivered: the idempotency key is not looked up.
NeverDelivered == FALSE

\* "Skip if already succeeded".
AlreadyDelivered == Succeeded

Check(c) ==
  /\ pc[c] = "check"
  /\ Goto(c, IF AlreadyDelivered THEN "delivered" ELSE IF Recorded THEN "post" ELSE "create")
  /\ UNCHANGED <<record, attempt, posted, loaded, taken, posts, restarts, overlapped>>

\* create_record and its commit: the key is unique, and nothing catches the
\* IntegrityError when another call has committed the row since.
Create(c) ==
  /\ pc[c] = "create"
  /\ \/ ~Recorded /\ record' = Fresh /\ Goto(c, "post")
     \/ Recorded /\ UNCHANGED record /\ \E next \in {"post", "failed"} : Goto(c, next)
  /\ UNCHANGED <<attempt, posted, loaded, taken, posts, restarts, overlapped>>

\* Mutant of CountsAsDelivered: raise_for_status is left out.
AnyAnswerCounts(takes, answered) == TRUE

\* A 2xx answer, of the external system or of whatever stands for it.
CountsAsDelivered(takes, answered) == takes /\ answered

\* The POST: the external system takes it or refuses it, and its answer
\* arrives or is lost.
Post(c) ==
  /\ pc[c] = "post"
  /\ \E takes, answered \in BOOLEAN :
       /\ taken' = IF takes THEN taken + 1 ELSE taken
       /\ posted' = [posted EXCEPT ![c] = CountsAsDelivered(takes, answered)]
  /\ posts' = posts + 1
  /\ Goto(c, "load")
  /\ UNCHANGED <<record, attempt, loaded, restarts, overlapped>>

\* increment_attempt's SELECT.
LoadRecord(c) ==
  /\ pc[c] = "load"
  /\ loaded' = [loaded EXCEPT ![c] = record]
  /\ Goto(c, "save")
  /\ UNCHANGED <<record, attempt, posted, taken, posts, restarts, overlapped>>

\* Mutant of Incremented: the count is not raised.
NotIncremented(old, ok) == [attempts |-> old.attempts, succeeded |-> ok]

\* The count and the outcome are computed from the row as it was loaded; an
\* outcome that did not change is not written.
Incremented(old, ok) ==
  [attempts  |-> old.attempts + 1,
   succeeded |-> IF ok # old.succeeded THEN ok ELSE record.succeeded]

AfterFailure(c) == IF attempt[c] < MaxAttempts THEN "post" ELSE "exhausted"

\* Its UPDATE and the commit; then the next attempt, after a delay.
SaveRecord(c) ==
  /\ pc[c] = "save"
  /\ record' = Incremented(loaded[c], posted[c])
  /\ loaded' = [loaded EXCEPT ![c] = Fresh]
  /\ Goto(c, IF posted[c] THEN "delivered" ELSE AfterFailure(c))
  /\ attempt' = [attempt EXCEPT ![c] =
                   IF ~posted[c] /\ AfterFailure(c) = "post" THEN @ + 1 ELSE @]
  /\ UNCHANGED <<posted, taken, posts, restarts, overlapped>>

\* A restart, or an error of the session, ends the calls; nothing resumes them.
Restart ==
  /\ restarts < MaxRestarts /\ restarts' = restarts + 1
  /\ pc' = [c \in Calls |-> IF Active(c) THEN "failed" ELSE pc[c]]
  /\ loaded' = [c \in Calls |-> Fresh]
  /\ UNCHANGED <<record, attempt, posted, taken, posts, overlapped>>

-----------------------------------------------------------------------------
Step(c) == Check(c) \/ Create(c) \/ Post(c) \/ LoadRecord(c) \/ SaveRecord(c)

Next == Restart \/ \E c \in Calls : Call(c) \/ Step(c)

Spec == Init /\ [][Next]_vars

-----------------------------------------------------------------------------
(* Properties *)

\* "return True if eventually delivered": neither a call nor the row says so
\* unless the external system has taken a POST.
TrueMeansDelivered == Succeeded \/ (\E c \in Calls : pc[c] = "delivered") => taken > 0

\* Calls that have not overlapped POST nothing once a delivery is recorded,
\* across restarts too ("Skip if already succeeded").
SkippedOnceRecorded == [][Succeeded /\ ~overlapped => posts' = posts]_vars

\* "every attempt (success or failure) is written to callback_audit_logs": as
\* long as no two calls overlap and none is cut short, the count is the number of
\* POSTs, but for the one whose outcome is being written.
AttemptsCounted ==
  restarts = 0 /\ ~overlapped /\ Recorded =>
    record.attempts = posts - Cardinality({c \in Calls : pc[c] \in {"load", "save"}})

\* The calls and the row: the type invariant, which bounds the attempts of a
\* call, and the count.
CallsAreSound == TypeOK /\ AttemptsCounted
=============================================================================
