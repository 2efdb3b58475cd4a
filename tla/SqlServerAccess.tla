--------------------------- MODULE SqlServerAccess ---------------------------
(***************************************************************************)
(* SqlServerClient: the engine that the first query creates, its           *)
(* connection pool, and the retries of a query.                            *)
(*                                                                         *)
(* Queries run in worker threads (asyncio.to_thread), not on the event     *)
(* loop: one action below is one read or one write of the client's         *)
(* attributes or of the pool, and threads interleave between any two.      *)
(***************************************************************************)
EXTENDS FiniteSets, Naturals

CONSTANTS
  Queries,       \* calls of execute_query and execute_non_query
  Writes,        \* those of execute_non_query
  Matching,      \* SELECTs that some row matches
  Configured,    \* SQLSERVER_URL names a usable server
  PoolSize,      \* pool_size + max_overflow
  MaxAttempts,   \* _RETRY_ATTEMPTS
  NoEngine

ASSUME AccessAssumption ==
  /\ Writes \subseteq Queries /\ Matching \subseteq Queries \ Writes
  /\ Configured \in BOOLEAN
  /\ PoolSize \in Nat \ {0} /\ MaxAttempts \in Nat \ {0}
  /\ NoEngine \notin Queries

\* An engine is named by the query whose thread created it.
Engines == Queries \cup {NoEngine}
Results == {"none", "rows", "empty", "unavailable", "count", "minusOne"}

VARIABLES
  attempted,   \* _init_attempted
  engine,      \* _engine
  pc,
  attempt,     \* the attempt a query is at
  conn,        \* the engine whose pool its connection comes from
  result,      \* what its caller got
  applied,     \* the writes that SQL Server committed
  rejected     \* history: SELECTs that a ProgrammingError ended

vars == <<attempted, engine, pc, attempt, conn, result, applied, rejected>>

TypeOK ==
  /\ attempted \in BOOLEAN
  /\ engine \in Engines
  /\ pc \in [Queries -> {"idle", "ensure", "mark", "build", "test", "connect", "run", "done"}]
  /\ attempt \in [Queries -> 1 .. MaxAttempts]
  /\ conn \in [Queries -> Engines]
  /\ result \in [Queries -> Results]
  /\ applied \subseteq Writes /\ rejected \subseteq Queries \ Writes

Init ==
  /\ attempted = FALSE
  /\ engine = NoEngine
  /\ pc = [q \in Queries |-> "idle"]
  /\ attempt = [q \in Queries |-> 1]
  /\ conn = [q \in Queries |-> NoEngine]
  /\ result = [q \in Queries |-> "none"]
  /\ applied = {} /\ rejected = {}

Goto(q, label) == pc' = [pc EXCEPT ![q] = label]

-----------------------------------------------------------------------------
(* _ensure_engine *)

Call(q) ==
  /\ pc[q] = "idle"
  /\ Goto(q, "ensure")
  /\ UNCHANGED <<attempted, engine, attempt, conn, result, applied, rejected>>

\* The first thing a worker does: has somebody tried before?
EnsureEngine(q) ==
  /\ pc[q] = "ensure"
  /\ Goto(q, IF attempted THEN "test" ELSE "mark")
  /\ UNCHANGED <<attempted, engine, attempt, conn, result, applied, rejected>>

MarkAttempted(q) ==
  /\ pc[q] = "mark"
  /\ attempted' = TRUE
  /\ Goto(q, "build")
  /\ UNCHANGED <<engine, attempt, conn, result, applied, rejected>>

\* create_engine; a URL that is missing or wrong leaves no engine for good.
BuildEngine(q) ==
  /\ pc[q] = "build"
  /\ engine' = IF Configured THEN q ELSE engine
  /\ Goto(q, "test")
  /\ UNCHANGED <<attempted, attempt, conn, result, applied, rejected>>

-----------------------------------------------------------------------------
(* _sync_execute and _sync_execute_non_query *)

Answer(q, r) ==
  /\ result' = [result EXCEPT ![q] = r]
  /\ Goto(q, "done")

\* Mutant of Released: the connection is not returned.
Kept(q) == conn

\* The with block returns the connection to its pool, whatever happened.
Released(q) == [conn EXCEPT ![q] = NoEngine]

\* "if not self._engine": no rows, or -1.
TestEngine(q) ==
  /\ pc[q] = "test"
  /\ \/ /\ engine # NoEngine
        /\ Goto(q, "connect") /\ UNCHANGED result
     \/ /\ engine = NoEngine
        /\ Answer(q, IF q \in Writes THEN "minusOne" ELSE "empty")
  /\ UNCHANGED <<attempted, engine, attempt, conn, applied, rejected>>

InUse(e) == {q \in Queries : conn[q] = e}

\* A connection of the current engine's pool.
Connect(q) ==
  /\ pc[q] = "connect" /\ Cardinality(InUse(engine)) < PoolSize
  /\ conn' = [conn EXCEPT ![q] = engine]
  /\ Goto(q, "run")
  /\ UNCHANGED <<attempted, engine, attempt, result, applied, rejected>>

\* Mutants of NextAttempt: the failure taken for no rows; no limit; one more.
NextAttemptAsEmpty(q) == Answer(q, "empty") /\ UNCHANGED attempt
NextAttemptForEver(q) == Goto(q, "connect") /\ UNCHANGED <<attempt, result>>
NextAttemptOneMore(q) ==
  \/ /\ attempt[q] <= MaxAttempts
     /\ attempt' = [attempt EXCEPT ![q] = @ + 1]
     /\ Goto(q, "connect") /\ UNCHANGED result
  \/ /\ attempt[q] > MaxAttempts
     /\ Answer(q, "unavailable") /\ UNCHANGED attempt

\* A SELECT that failed is tried again; after the last attempt it raises
\* SqlServerUnavailableError.
NextAttempt(q) ==
  \/ /\ attempt[q] < MaxAttempts
     /\ attempt' = [attempt EXCEPT ![q] = @ + 1]
     /\ Goto(q, "connect") /\ UNCHANGED result
  \/ /\ attempt[q] = MaxAttempts
     /\ Answer(q, "unavailable") /\ UNCHANGED attempt

\* A write that failed is not tried again and its error is swallowed.
FailAttempt(q) ==
  \/ q \notin Writes /\ NextAttempt(q)
  \/ q \in Writes /\ Answer(q, "minusOne") /\ UNCHANGED attempt

\* The pool stays exhausted for pool_timeout, or the server cannot be reached.
ConnectFails(q) ==
  /\ pc[q] = "connect"
  /\ FailAttempt(q)
  /\ UNCHANGED <<attempted, engine, conn, applied, rejected>>

\* The rows, if there are any.
Select(q) ==
  /\ pc[q] = "run" /\ q \notin Writes
  /\ Answer(q, IF q \in Matching THEN "rows" ELSE "empty")
  /\ conn' = Released(q)
  /\ UNCHANGED <<attempted, engine, attempt, applied, rejected>>

\* begin() commits before the row count is returned.
Write(q) ==
  /\ pc[q] = "run" /\ q \in Writes
  /\ Answer(q, "count")
  /\ applied' = applied \cup {q}
  /\ conn' = Released(q)
  /\ UNCHANGED <<attempted, engine, attempt, rejected>>

\* A ProgrammingError, on connecting or on executing, is taken for a parameter
\* that can match no row, and answered at once.  It may as well be a permission
\* or the state of the database, and the row be there.
Reject(q) ==
  /\ pc[q] \in {"connect", "run"} /\ q \notin Writes
  /\ rejected' = rejected \cup {q}
  /\ Answer(q, "empty")
  /\ conn' = Released(q)
  /\ UNCHANGED <<attempted, engine, attempt, applied>>

\* The connection breaks, or another error; a write may have been committed all
\* the same.
RunFails(q) ==
  /\ pc[q] = "run"
  /\ FailAttempt(q)
  /\ conn' = Released(q)
  /\ \/ UNCHANGED applied
     \/ q \in Writes /\ applied' = applied \cup {q}
  /\ UNCHANGED <<attempted, engine, rejected>>

-----------------------------------------------------------------------------
Step(q) ==
  \/ EnsureEngine(q) \/ MarkAttempted(q) \/ BuildEngine(q) \/ TestEngine(q)
  \/ Connect(q) \/ ConnectFails(q) \/ Select(q) \/ Write(q)
  \/ Reject(q) \/ RunFails(q)

Next == \E q \in Queries : Call(q) \/ Step(q)

Spec == Init /\ [][Next]_vars

\* The operating system runs every thread; a wait for the pool ends by timeout.
FairSpec == Spec /\ \A q \in Queries : WF_vars(Step(q))

-----------------------------------------------------------------------------
(* Properties *)

\* _ensure_engine is between its flag and the engine, in some thread.
BeingBuilt == \E p \in Queries : pc[p] = "build"

\* SqlServerUnavailableError is raised "as opposed to a query that legitimately
\* returned zero rows".  A row that is there is reported missing in two cases
\* only: SQL Server rejected the query (the ProgrammingError of _sync_execute); or
\* there is no engine, and then the URL is unusable or the thread of the first
\* query is creating it at that moment (_ensure_engine).  A full pool, an outage
\* or the last failed attempt never look like it.
MissingIsExplained ==
  [][\A q \in Matching :
       result[q] # result'[q] /\ result'[q] = "empty" =>
         \/ q \in rejected'
         \/ engine = NoEngine /\ (Configured => BeingBuilt)]_vars

\* Callers are not left waiting by an exhausted pool or an unreachable server:
\* every query is answered or raises after its attempts (_sync_execute).
EveryQueryAnswered == \A q \in Queries : pc[q] = "ensure" ~> pc[q] = "done"

\* A connection is only ever held by a query that is running on it, so errors
\* and retries do not drain the pool (the with blocks).
NoConnectionLeak == \A q \in Queries : conn[q] # NoEngine => pc[q] = "run"
=============================================================================
