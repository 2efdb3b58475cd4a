------------------------ MODULE SqlServerAccess_proofs ------------------------
(***************************************************************************)
(* Theorems about SqlServerAccess, for any number of queries, attempts and *)
(* connections.                                                            *)
(***************************************************************************)
EXTENDS SqlServerAccess, TLAPS

Inv == TypeOK /\ NoConnectionLeak

\* The pool is whole and nothing is held in the initial states.
LEMMA InvInit == Init => Inv
<1> SUFFICES ASSUME Init PROVE Inv
  OBVIOUS
<1>1. 1 \in 1 .. MaxAttempts
  BY AccessAssumption
<1>2. TypeOK
  BY <1>1 DEF Init, TypeOK, Engines, Results
<1>3. NoConnectionLeak
  BY DEF Init, NoConnectionLeak
<1> QED BY <1>2, <1>3 DEF Inv

\* A connection is taken on the way to running and returned on every way out.
LEMMA InvNext == Inv /\ [Next]_vars => Inv'
<1> SUFFICES ASSUME Inv, [Next]_vars PROVE Inv'
  OBVIOUS
<1> USE AccessAssumption DEF Inv, TypeOK, NoConnectionLeak, Engines, Results, Goto
<1>1. ASSUME NEW q \in Queries, Call(q) PROVE Inv'
  BY <1>1 DEF Call
<1>2. ASSUME NEW q \in Queries, EnsureEngine(q) PROVE Inv'
  BY <1>2 DEF EnsureEngine
<1>3. ASSUME NEW q \in Queries, MarkAttempted(q) PROVE Inv'
  BY <1>3 DEF MarkAttempted
<1>4. ASSUME NEW q \in Queries, BuildEngine(q) PROVE Inv'
  BY <1>4 DEF BuildEngine
<1>5. ASSUME NEW q \in Queries, TestEngine(q) PROVE Inv'
  BY <1>5 DEF TestEngine, Answer
<1>6. ASSUME NEW q \in Queries, Connect(q) PROVE Inv'
  BY <1>6 DEF Connect
<1>7. ASSUME NEW q \in Queries, ConnectFails(q) PROVE Inv'
  <2>1. CASE q \in Writes /\ Answer(q, "minusOne") /\ UNCHANGED attempt
    BY <1>7, <2>1 DEF ConnectFails, Answer
  <2>2. CASE q \notin Writes /\ NextAttempt(q)
    BY <1>7, <2>2 DEF ConnectFails, NextAttempt, Answer
  <2> QED BY <1>7, <2>1, <2>2 DEF ConnectFails, FailAttempt
<1>8. ASSUME NEW q \in Queries, Select(q) PROVE Inv'
  BY <1>8 DEF Select, Answer, Released
<1>9. ASSUME NEW q \in Queries, Write(q) \/ Reject(q) PROVE Inv'
  BY <1>9 DEF Write, Reject, Answer, Released
<1>10. ASSUME NEW q \in Queries, RunFails(q) PROVE Inv'
  <2>1. CASE q \in Writes /\ Answer(q, "minusOne") /\ UNCHANGED attempt
    BY <1>10, <2>1 DEF RunFails, Answer, Released
  <2>2. CASE q \notin Writes /\ NextAttempt(q)
    BY <1>10, <2>2 DEF RunFails, NextAttempt, Answer, Released
  <2> QED BY <1>10, <2>1, <2>2 DEF RunFails, FailAttempt
<1>11. CASE UNCHANGED vars
  BY <1>11 DEF vars
<1> QED BY <1>1, <1>2, <1>3, <1>4, <1>5, <1>6, <1>7, <1>8, <1>9, <1>10, <1>11 DEF Next, Step

\* Types and the accounting of connections are inductive together: Inv holds
\* whatever the order in which the threads of execute_query run.
THEOREM Invariance == Spec => []Inv
  BY InvInit, InvNext, PTL DEF Spec

\* Every variable has its type: no query makes more than MaxAttempts attempts
\* (the loop of _sync_execute).
THEOREM AccessTypes == Spec => []TypeOK
  BY Invariance, PTL DEF Inv

\* However many queries fail, wait or are retried, a connection of the pool is
\* only held by a query that is running on it (the with blocks).
THEOREM PoolNeverDrains == Spec => []NoConnectionLeak
  BY Invariance, PTL DEF Inv

-----------------------------------------------------------------------------
(* When a row is reported missing *)

\* The flag is never seen set without an engine, but while one is being built
\* or none can be.
Started ==
  /\ \A q \in Queries : pc[q] \in {"build", "test"} => attempted
  /\ attempted /\ Configured => engine # NoEngine \/ BeingBuilt

\* Once there is an engine it stays, or another takes its place.
LEMMA StartedStep == Inv /\ Started /\ [Next]_vars => Started'
<1> SUFFICES ASSUME Inv, Started, [Next]_vars PROVE Started'
  OBVIOUS
<1> USE AccessAssumption DEF Inv, TypeOK, Started, BeingBuilt, Goto
<1>1. ASSUME NEW q \in Queries, Call(q) \/ EnsureEngine(q) PROVE Started'
  BY <1>1 DEF Call, EnsureEngine
<1>2. ASSUME NEW q \in Queries, MarkAttempted(q) PROVE Started'
  BY <1>2 DEF MarkAttempted
<1>3. ASSUME NEW q \in Queries, BuildEngine(q) PROVE Started'
  BY <1>3 DEF BuildEngine
<1>4. ASSUME NEW q \in Queries, TestEngine(q) PROVE Started'
  BY <1>4 DEF TestEngine, Answer
<1>5. ASSUME NEW q \in Queries, Connect(q) \/ Select(q) \/ Write(q) \/ Reject(q) PROVE Started'
  BY <1>5 DEF Connect, Select, Write, Reject, Answer
<1>6. ASSUME NEW q \in Queries, ConnectFails(q) \/ RunFails(q) PROVE Started'
  <2>1. FailAttempt(q) /\ UNCHANGED <<attempted, engine>> /\ pc[q] \in {"connect", "run"}
    BY <1>6 DEF ConnectFails, RunFails
  <2> QED
    BY <2>1 DEF FailAttempt, NextAttempt, Answer
<1>7. CASE UNCHANGED vars
  BY <1>7 DEF vars
<1> QED
  BY <1>1, <1>2, <1>3, <1>4, <1>5, <1>6, <1>7 DEF Next, Step

\* A row that is there is reported missing only by a ProgrammingError of SQL
\* Server, or for want of an engine, which is being created at that moment or
\* cannot be: no outage and no full pool ever looks like it (_sync_execute).
THEOREM MissingExplained == Spec => MissingIsExplained
<1> DEFINE Explained ==
      \A q \in Matching :
        result[q] # result'[q] /\ result'[q] = "empty" =>
          \/ q \in rejected'
          \/ engine = NoEngine /\ (Configured => BeingBuilt)
<1>1. Init => Started
  BY DEF Init, Started
<1>2. Inv /\ Started /\ [Next]_vars => Explained
  <2> SUFFICES ASSUME Inv, Started, Next \/ UNCHANGED vars, NEW q \in Matching,
                      result[q] # result'[q], result'[q] = "empty"
               PROVE  q \in rejected' \/ (engine = NoEngine /\ (Configured => BeingBuilt))
    BY DEF vars
  <2> USE AccessAssumption DEF Inv, TypeOK, Goto, Answer
  <2>1. PICK p \in Queries : Call(p) \/ Step(p)
    BY DEF Next, vars
  <2>2. CASE Select(p)
    BY <2>2 DEF Select
  <2>3. CASE Reject(p)
    BY <2>3 DEF Reject
  <2>4. CASE TestEngine(p)
    BY <2>4 DEF TestEngine, Started
  <2>5. CASE ConnectFails(p) \/ RunFails(p)
    <3>1. FailAttempt(p)
      BY <2>5 DEF ConnectFails, RunFails
    <3> QED BY <3>1 DEF FailAttempt, NextAttempt
  <2>6. CASE Write(p)
    BY <2>6 DEF Write
  <2>7. CASE Call(p) \/ EnsureEngine(p) \/ MarkAttempted(p) \/ BuildEngine(p) \/ Connect(p)
    BY <2>7 DEF Call, EnsureEngine, MarkAttempted, BuildEngine, Connect
  <2> QED BY <2>1, <2>2, <2>3, <2>4, <2>5, <2>6, <2>7 DEF Step
<1> QED BY <1>1, <1>2, StartedStep, Invariance, PTL DEF Spec, MissingIsExplained
=============================================================================
