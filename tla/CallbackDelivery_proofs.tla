----------------------- MODULE CallbackDelivery_proofs -----------------------
(***************************************************************************)
(* Proofs of the safety properties of CallbackDelivery, for any finite set *)
(* of calls and any number of attempts and restarts.                       *)
(***************************************************************************)
EXTENDS CallbackDelivery, FiniteSetTheorems, TLAPS

-----------------------------------------------------------------------------
(* The inductive invariant, part by part *)

\* The types, without the bound on the counts.
Shape ==
  /\ record \in Record \cup {NoRecord}
  /\ pc \in [Calls -> {"idle", "check", "create", "post", "load", "save", "delivered",
                       "exhausted", "failed"}]
  /\ attempt \in [Calls -> 1 .. MaxAttempts]
  /\ posted \in [Calls -> BOOLEAN]
  /\ loaded \in [Calls -> Record]
  /\ taken \in Nat /\ posts \in Nat
  /\ restarts \in 0 .. MaxRestarts
  /\ overlapped \in BOOLEAN

\* Calls whose POST has no outcome in the row yet.
Unwritten == {c \in Calls : pc[c] \in {"load", "save"}}

\* The attempts that may have been POSTed: those before the one a call is at,
\* and that one unless the call is still on its way to the POST.
Tried ==
  {t \in Calls \X (1 .. MaxAttempts) :
     t[2] < attempt[t[1]]
       \/ (t[2] = attempt[t[1]] /\ pc[t[1]] \notin {"idle", "check", "create", "post"})}

\* The row is there when a call gets to its POST.
RowIsThere == \A c \in Calls : pc[c] \in {"post", "load", "save"} => Recorded

\* No count, in the row or loaded, is ahead of the outcomes that were written.
CountsHold ==
  /\ taken <= posts /\ posts <= Cardinality(Tried)
  /\ Recorded => record.attempts <= posts - Cardinality(Unwritten)
  /\ Cardinality(Unwritten) <= posts
  /\ \A c \in Calls : loaded[c].attempts <= posts - Cardinality(Unwritten)

\* Whoever knows of a delivery has it from a POST that was taken.
DeliveriesHold ==
  /\ Succeeded => taken > 0
  /\ \A c \in Calls : /\ loaded[c].succeeded \/ posted[c] => taken > 0
                      /\ pc[c] = "delivered" => taken > 0

\* Calls that do not overlap: one is in flight at a time, it saves what it has
\* loaded, and once a delivery is recorded it is not on its way to a POST.
Alone ==
  ~overlapped =>
    /\ \A c, d \in Calls : Active(c) /\ Active(d) => c = d
    /\ \A c \in Calls : pc[c] = "save" => loaded[c] = record
    /\ \A c \in Calls : pc[c] \in {"create", "post", "load", "save"} => ~Succeeded

\* Nothing is POSTed before there is a row.
NoneBefore == ~Recorded => posts = 0

-----------------------------------------------------------------------------
(* Types and the row *)

Sound == Shape /\ RowIsThere

\* What an UPDATE writes is a row.
LEMMA IncrementedTyped ==
  ASSUME Sound, NEW c \in Calls, pc[c] = "save"
  PROVE  /\ Incremented(loaded[c], posted[c]) \in Record
         /\ Incremented(loaded[c], posted[c]).attempts = loaded[c].attempts + 1
         /\ Incremented(loaded[c], posted[c]).succeeded
              = IF posted[c] # loaded[c].succeeded THEN posted[c] ELSE record.succeeded
<1>1. record \in Record /\ loaded[c] \in Record /\ posted[c] \in BOOLEAN
  BY DEF Sound, Shape, RowIsThere, Recorded
<1> DEFINE n == loaded[c].attempts + 1
           s == IF posted[c] # loaded[c].succeeded THEN posted[c] ELSE record.succeeded
<1>2. n \in Nat /\ s \in BOOLEAN
  BY <1>1 DEF Record
<1>3. Incremented(loaded[c], posted[c]) = [attempts |-> n, succeeded |-> s]
  BY DEF Incremented
<1> HIDE DEF n, s
<1>4. [attempts |-> n, succeeded |-> s] \in Record
  BY <1>2 DEF Record
<1>5. /\ Incremented(loaded[c], posted[c]).attempts = n
      /\ Incremented(loaded[c], posted[c]).succeeded = s
  BY <1>3
<1>6. Incremented(loaded[c], posted[c]) \in Record
  BY <1>3, <1>4
<1> USE DEF n, s
<1> QED
  BY <1>5, <1>6, Zenon

\* A new row, which is also what a call has when it has loaded nothing.
LEMMA FreshTyped == Fresh \in Record /\ Fresh # NoRecord
<1>1. FALSE \in BOOLEAN
  OBVIOUS
<1>2. Fresh \in Record
  BY <1>1 DEF Fresh, Record
<1> QED
  BY <1>2, DeliveryAssumption

\* One step keeps the types, and the row once a call has it.
LEMMA SoundStep == Sound /\ [Next]_vars => Sound'
<1> SUFFICES ASSUME Sound, [Next]_vars PROVE Sound'
  OBVIOUS
<1> USE DeliveryAssumption
<1>0. Fresh \in Record /\ Fresh # NoRecord
  BY FreshTyped
<1>1. ASSUME NEW c \in Calls, Call(c) PROVE Sound'
  BY <1>1 DEF Call, Goto, Sound, Shape, RowIsThere, Recorded
<1>2. ASSUME NEW c \in Calls, Check(c) PROVE Sound'
  <2>1. \/ Goto(c, "delivered")
        \/ Goto(c, "post") /\ Recorded
        \/ Goto(c, "create")
    BY <1>2 DEF Check
  <2> QED
    BY <1>2, <2>1 DEF Check, Goto, Sound, Shape, RowIsThere, Recorded
<1>3. ASSUME NEW c \in Calls, Create(c) PROVE Sound'
  <2>1. record' # NoRecord /\ record' \in Record \cup {NoRecord}
    BY <1>0, <1>3 DEF Create, Sound, Shape, Recorded
  <2>2. \E next \in {"post", "failed"} : Goto(c, next)
    BY <1>3 DEF Create
  <2>3. UNCHANGED <<attempt, posted, loaded, taken, posts, restarts, overlapped>>
    BY <1>3 DEF Create
  <2> QED
    BY <2>1, <2>2, <2>3 DEF Goto, Sound, Shape, RowIsThere, Recorded
<1>4. ASSUME NEW c \in Calls, Post(c) PROVE Sound'
  <2>1. PICK takes \in BOOLEAN, answered \in BOOLEAN :
          /\ taken' = IF takes THEN taken + 1 ELSE taken
          /\ posted' = [posted EXCEPT ![c] = CountsAsDelivered(takes, answered)]
    BY <1>4 DEF Post
  <2>2. CountsAsDelivered(takes, answered) \in BOOLEAN
    BY DEF CountsAsDelivered
  <2>3. taken' \in Nat /\ posts' \in Nat /\ posted' \in [Calls -> BOOLEAN]
    BY <1>4, <2>1, <2>2 DEF Post, Sound, Shape
  <2> QED
    BY <1>4, <2>3 DEF Post, Goto, Sound, Shape, RowIsThere, Recorded
<1>5. ASSUME NEW c \in Calls, LoadRecord(c) PROVE Sound'
  BY <1>5 DEF LoadRecord, Goto, Sound, Shape, RowIsThere, Recorded
<1>6. ASSUME NEW c \in Calls, SaveRecord(c) PROVE Sound'
  <2>1. record' \in Record /\ record' # NoRecord
    BY <1>6, IncrementedTyped DEF SaveRecord
  <2>2. \E next \in {"delivered", "post", "exhausted"} : Goto(c, next)
    BY <1>6 DEF SaveRecord, AfterFailure
  <2>3. attempt' \in [Calls -> 1 .. MaxAttempts]
    BY <1>6 DEF SaveRecord, AfterFailure, Sound, Shape
  <2>4. loaded' \in [Calls -> Record]
    BY <1>0, <1>6 DEF SaveRecord, Sound, Shape
  <2>5. UNCHANGED <<posted, taken, posts, restarts, overlapped>>
    BY <1>6 DEF SaveRecord
  <2> QED
    BY <2>1, <2>2, <2>3, <2>4, <2>5 DEF Goto, Sound, Shape, RowIsThere, Recorded
<1>7. ASSUME Restart PROVE Sound'
  <2>1. restarts' \in 0 .. MaxRestarts
    BY <1>7 DEF Restart, Sound, Shape
  <2>2. \A c \in Calls : pc'[c] = "failed" \/ pc'[c] = pc[c]
    BY <1>7 DEF Restart
  <2>3. pc' \in [Calls -> {"idle", "check", "create", "post", "load", "save", "delivered",
                         "exhausted", "failed"}]
    BY <1>7 DEF Restart, Sound, Shape
  <2>4. loaded' \in [Calls -> Record]
    BY <1>0, <1>7 DEF Restart
  <2>5. UNCHANGED <<record, attempt, posted, taken, posts, overlapped>>
    BY <1>7 DEF Restart
  <2>6. Shape'
    BY <2>1, <2>3, <2>4, <2>5 DEF Sound, Shape
  <2>7. RowIsThere'
    BY <2>2, <2>5 DEF Sound, RowIsThere, Recorded
  <2> QED
    BY <2>6, <2>7 DEF Sound
<1>8. CASE UNCHANGED vars
  BY <1>8 DEF vars, Sound, Shape, RowIsThere, Recorded
<1> QED
  BY <1>1, <1>2, <1>3, <1>4, <1>5, <1>6, <1>7, <1>8 DEF Next, Step

\* Initially nothing has been called.
LEMMA SoundInitially == Init => Sound
<1> SUFFICES ASSUME Init PROVE Sound
  OBVIOUS
<1>1. FALSE \in BOOLEAN
  OBVIOUS
<1>2. posted \in [Calls -> BOOLEAN] /\ overlapped \in BOOLEAN
  BY <1>1 DEF Init
<1>3. loaded \in [Calls -> Record]
  BY FreshTyped DEF Init
<1>4. attempt \in [Calls -> 1 .. MaxAttempts] /\ restarts \in 0 .. MaxRestarts
  BY DeliveryAssumption DEF Init
<1>5. \A c \in Calls : pc[c] = "idle"
  BY DEF Init
<1>6. pc \in [Calls -> {"idle", "check", "create", "post", "load", "save", "delivered",
                       "exhausted", "failed"}]
  BY DEF Init
<1> QED
  BY <1>2, <1>3, <1>4, <1>5, <1>6 DEF Init, Sound, Shape, RowIsThere

\* The row and what the calls know of it, in every reachable state.
LEMMA SoundInvariant == Spec => []Sound
  BY SoundInitially, SoundStep, PTL DEF Spec

-----------------------------------------------------------------------------
(* What a recorded delivery means *)

\* A delivery is only learnt from a POST of one's own or from the row.
LEMMA DeliveriesStep == Sound /\ DeliveriesHold /\ [Next]_vars => DeliveriesHold'
<1> SUFFICES ASSUME Sound, DeliveriesHold, [Next]_vars PROVE DeliveriesHold'
  OBVIOUS
<1>0. taken \in Nat
  BY DEF Sound, Shape
<1>1. ASSUME NEW c \in Calls, Call(c) PROVE DeliveriesHold'
  BY <1>1 DEF Call, Goto, DeliveriesHold, Succeeded, Recorded, Sound, Shape
<1>2. ASSUME NEW c \in Calls, Check(c) PROVE DeliveriesHold'
  <2>1. (Goto(c, "delivered") /\ Succeeded) \/ Goto(c, "post") \/ Goto(c, "create")
    BY <1>2 DEF Check, AlreadyDelivered
  <2> QED
    BY <1>2, <2>1 DEF Check, Goto, DeliveriesHold, Succeeded, Recorded, Sound, Shape
<1>3. ASSUME NEW c \in Calls, Create(c) PROVE DeliveriesHold'
  <2>1. Succeeded' => Succeeded
    <3>1. Fresh.succeeded = FALSE
      BY DEF Fresh
    <3> QED
      BY <1>3, <3>1 DEF Create, Succeeded, Recorded
  <2>2. \E next \in {"post", "failed"} : Goto(c, next)
    BY <1>3 DEF Create
  <2>3. UNCHANGED <<posted, loaded, taken>>
    BY <1>3 DEF Create
  <2> QED
    BY <2>1, <2>2, <2>3 DEF Goto, DeliveriesHold, Sound, Shape
<1>4. ASSUME NEW c \in Calls, Post(c) PROVE DeliveriesHold'
  <2>1. PICK takes \in BOOLEAN, answered \in BOOLEAN :
          /\ taken' = IF takes THEN taken + 1 ELSE taken
          /\ posted' = [posted EXCEPT ![c] = CountsAsDelivered(takes, answered)]
    BY <1>4 DEF Post
  <2>2. taken' >= taken /\ (takes => taken' > 0)
    BY <1>0, <2>1
  <2>3. posted'[c] => takes
    BY <2>1 DEF CountsAsDelivered, Sound, Shape
  <2>4. \A d \in Calls \ {c} : posted'[d] = posted[d]
    BY <2>1 DEF Sound, Shape
  <2>5. \A d \in Calls : posted'[d] => taken' > 0
    BY <1>0, <2>1, <2>2, <2>3, <2>4 DEF DeliveriesHold
  <2>6. \A d \in Calls : pc'[d] = "delivered" => pc[d] = "delivered"
    BY <1>4 DEF Post, Goto, Sound, Shape
  <2> QED
    BY <1>0, <1>4, <2>1, <2>5, <2>6 DEF Post, DeliveriesHold, Succeeded, Recorded
<1>5. ASSUME NEW c \in Calls, LoadRecord(c) PROVE DeliveriesHold'
  <2>1. Recorded
    BY <1>5 DEF LoadRecord, Sound, RowIsThere
  <2>2. UNCHANGED <<record, posted, taken>>
    BY <1>5 DEF LoadRecord
  <2>3. \A d \in Calls : loaded'[d] = record \/ loaded'[d] = loaded[d]
    BY <1>5 DEF LoadRecord, Sound, Shape
  <2>4. \A d \in Calls : pc'[d] = "delivered" => pc[d] = "delivered"
    BY <1>5 DEF LoadRecord, Goto, Sound, Shape
  <2> QED
    BY <2>1, <2>2, <2>3, <2>4 DEF DeliveriesHold, Succeeded, Recorded
<1>6. ASSUME NEW c \in Calls, SaveRecord(c) PROVE DeliveriesHold'
  <2>1. Recorded /\ pc[c] = "save" /\ UNCHANGED <<posted, taken>>
    BY <1>6 DEF SaveRecord, Sound, RowIsThere
  <2>2. record'.succeeded = (IF posted[c] # loaded[c].succeeded THEN posted[c] ELSE record.succeeded)
    BY <1>6, <2>1, IncrementedTyped DEF SaveRecord
  <2>3. record'.succeeded => posted[c] \/ record.succeeded
    BY <2>2
  <2>4. Succeeded' => taken > 0
    BY <2>1, <2>3 DEF DeliveriesHold, Succeeded
  <2>5. \A d \in Calls : loaded'[d] = Fresh \/ loaded'[d] = loaded[d]
    BY <1>6 DEF SaveRecord, Sound, Shape
  <2>6. ~Fresh.succeeded
    BY DEF Fresh
  <2>7. \A d \in Calls : pc'[d] = "delivered" => pc[d] = "delivered" \/ posted[d]
    BY <1>6 DEF SaveRecord, AfterFailure, Goto, Sound, Shape
  <2> QED
    BY <2>1, <2>4, <2>5, <2>6, <2>7 DEF DeliveriesHold
<1>7. ASSUME Restart PROVE DeliveriesHold'
  <2>1. ~Fresh.succeeded
    BY DEF Fresh
  <2>2. \A d \in Calls : loaded'[d] = Fresh /\ (pc'[d] = "delivered" => pc[d] = "delivered")
    BY <1>7 DEF Restart
  <2> QED
    BY <1>7, <2>1, <2>2 DEF Restart, DeliveriesHold, Succeeded, Recorded
<1>8. CASE UNCHANGED vars
  BY <1>8 DEF vars, DeliveriesHold, Succeeded, Recorded
<1> QED
  BY <1>1, <1>2, <1>3, <1>4, <1>5, <1>6, <1>7, <1>8 DEF Next, Step

\* TrueMeansDelivered: neither a call nor the row says that a callback was
\* delivered unless the external system has taken a POST, however calls overlap
\* and restart.
THEOREM DeliveredIsTrue == Spec => []TrueMeansDelivered
<1>1. Init => DeliveriesHold
  BY DEF Init, DeliveriesHold, Succeeded, Recorded, Fresh
<1>2. DeliveriesHold => TrueMeansDelivered
  BY DEF DeliveriesHold, TrueMeansDelivered
<1> QED
  BY <1>1, <1>2, SoundInvariant, DeliveriesStep, PTL DEF Spec

-----------------------------------------------------------------------------
(* Calls that do not overlap *)

\* The pc of a step's call only.
LEMMA OnlyOwn ==
  ASSUME Sound, NEW c \in Calls, Call(c) \/ Step(c)
  PROVE  /\ \A d \in Calls \ {c} : pc'[d] = pc[d] /\ loaded'[d] = loaded[d]
         /\ Step(c) => Active(c) /\ overlapped' = overlapped
         /\ Call(c) => pc[c] = "idle" /\ pc'[c] = "check" /\ UNCHANGED <<record, loaded>>
<1> USE DEF Goto, Sound, Shape, Active, Ended
<1>1. CASE Call(c)
  <2>1. ~Step(c)
    BY <1>1 DEF Call, Step, Check, Create, Post, LoadRecord, SaveRecord
  <2> QED
    BY <1>1, <2>1 DEF Call
<1>2. CASE Check(c)
  BY <1>2 DEF Check, Call
<1>3. CASE Create(c)
  BY <1>3 DEF Create, Call
<1>4. CASE Post(c)
  BY <1>4 DEF Post, Call
<1>5. CASE LoadRecord(c)
  BY <1>5 DEF LoadRecord, Call
<1>6. CASE SaveRecord(c)
  BY <1>6 DEF SaveRecord, Call
<1> QED
  BY <1>1, <1>2, <1>3, <1>4, <1>5, <1>6 DEF Step

\* One step keeps calls apart that do not overlap.
LEMMA AloneStep == Sound /\ Alone /\ [Next]_vars => Alone'
<1> SUFFICES ASSUME Sound, Alone, [Next]_vars, ~overlapped' PROVE Alone'
  BY DEF Alone
<1>a. Sound'
  BY SoundStep
<1>1. ASSUME NEW c \in Calls, Call(c) PROVE Alone'
  <2>1. ~overlapped /\ \A d \in Calls : ~Active(d)
    BY <1>1 DEF Call
  <2>2. /\ \A d \in Calls \ {c} : pc'[d] = pc[d]
        /\ pc'[c] = "check" /\ UNCHANGED <<record, loaded>>
    BY <1>1, OnlyOwn
  <2>3. \A d \in Calls \ {c} : ~Active(d)' /\ pc'[d] \notin {"create", "post", "load", "save"}
    BY <2>1, <2>2 DEF Active, Ended
  <2> QED
    BY <2>2, <2>3 DEF Alone
<1>2. ASSUME NEW c \in Calls, Step(c) PROVE Alone'
  <2>1. ~overlapped /\ Active(c)
    BY <1>2, OnlyOwn
  <2>2. \A d \in Calls \ {c} : ~Active(d) /\ pc'[d] = pc[d]
    BY <1>2, <2>1, OnlyOwn DEF Alone
  <2>3. \A d \in Calls \ {c} : ~Active(d)' /\ pc'[d] \notin {"create", "post", "load", "save"}
    BY <2>2 DEF Active, Ended
  <2>4. pc'[c] = "save" => loaded'[c] = record'
    BY <1>2 DEF Step, Check, Create, Post, LoadRecord, SaveRecord, AfterFailure, Goto, Sound, Shape
  <2>5. pc'[c] \in {"create", "post", "load", "save"} => ~Succeeded'
    <3>1. CASE Check(c)
      <4>1. pc'[c] \in {"create", "post"} => ~Succeeded
        BY <3>1 DEF Check, AlreadyDelivered, Goto, Sound, Shape
      <4>2. pc'[c] \in {"delivered", "create", "post"} /\ UNCHANGED record
        BY <3>1 DEF Check, Goto, Sound, Shape
      <4> QED
        BY <4>1, <4>2 DEF Succeeded, Recorded
    <3>2. CASE Create(c)
      <4>1. ~Succeeded
        BY <2>1, <3>2 DEF Create, Alone
      <4>2. ~Fresh.succeeded
        BY DEF Fresh
      <4> QED
        BY <3>2, <4>1, <4>2 DEF Create, Succeeded, Recorded
    <3>3. CASE Post(c) \/ LoadRecord(c)
      <4>1. pc[c] \in {"post", "load"} /\ UNCHANGED record
        BY <3>3 DEF Post, LoadRecord
      <4>2. ~Succeeded
        BY <2>1, <4>1 DEF Alone
      <4> QED
        BY <4>1, <4>2 DEF Succeeded, Recorded
    <3>4. CASE SaveRecord(c)
      <4>1. pc[c] = "save" /\ Recorded /\ loaded[c] = record /\ ~record.succeeded
        BY <2>1, <3>4 DEF SaveRecord, Alone, Sound, RowIsThere, Succeeded
      <4>2. record'.succeeded = (IF posted[c] # loaded[c].succeeded THEN posted[c] ELSE record.succeeded)
        BY <3>4, <4>1, IncrementedTyped DEF SaveRecord
      <4>3. ~posted[c] => ~record'.succeeded
        BY <4>1, <4>2
      <4>4. posted[c] => pc'[c] = "delivered"
        BY <3>4 DEF SaveRecord, Goto, Sound, Shape
      <4> QED
        BY <4>3, <4>4 DEF Succeeded
    <3> QED
      BY <1>2, <3>1, <3>2, <3>3, <3>4 DEF Step
  <2> QED
    BY <2>3, <2>4, <2>5 DEF Alone
<1>3. ASSUME Restart PROVE Alone'
  <2>1. \A d \in Calls : ~Active(d)' \/ pc'[d] = "failed"
    BY <1>3 DEF Restart, Active, Ended
  <2>2. \A d \in Calls : ~Active(d)' /\ pc'[d] \notin {"create", "post", "load", "save"}
    BY <1>3 DEF Restart, Active, Ended
  <2> QED
    BY <2>2 DEF Alone
<1>4. CASE UNCHANGED vars
  BY <1>4 DEF vars, Alone, Active, Ended, Succeeded, Recorded
<1> QED
  BY <1>1, <1>2, <1>3, <1>4 DEF Next

\* Without overlap at most one call is at work, and the row records every success.
LEMMA AloneInvariant == Spec => [](Sound /\ Alone)
<1>1. Init => Alone
  BY DEF Init, Alone, Active
<1> QED
  BY <1>1, SoundInvariant, AloneStep, PTL DEF Spec

\* SkippedOnceRecorded: calls that have not overlapped POST nothing once a
\* delivery is recorded, across restarts too.
THEOREM RecordedIsSkipped == Spec => SkippedOnceRecorded
<1>1. ASSUME Sound, Alone, [Next]_vars, Succeeded, ~overlapped PROVE posts' = posts
  <2>1. \A c \in Calls : ~Post(c)
    BY <1>1 DEF Alone, Post
  <2> QED
    BY <1>1, <2>1 DEF Next, Step, Call, Check, Create, LoadRecord, SaveRecord, Restart, vars
<1>2. Sound /\ Alone /\ [Next]_vars => [Succeeded /\ ~overlapped => posts' = posts]_vars
  BY <1>1
<1> QED
  BY <1>2, AloneInvariant, PTL DEF Spec, SkippedOnceRecorded

-----------------------------------------------------------------------------
(* The counts *)

\* Sets of calls and of attempts are finite and bounded.
LEMMA SetsAreFinite ==
  /\ \A U \in SUBSET Calls : IsFiniteSet(U) /\ Cardinality(U) \in Nat
  /\ \A T \in SUBSET (Calls \X (1 .. MaxAttempts)) :
       /\ IsFiniteSet(T) /\ Cardinality(T) \in Nat
       /\ Cardinality(T) <= MaxAttempts * Cardinality(Calls)
<1>1. IsFiniteSet(Calls) /\ Cardinality(Calls) \in Nat
  BY DeliveryAssumption, FS_CardinalityType
<1>2. IsFiniteSet(1 .. MaxAttempts) /\ Cardinality(1 .. MaxAttempts) = MaxAttempts
  BY DeliveryAssumption, FS_Interval
<1>3. /\ IsFiniteSet(Calls \X (1 .. MaxAttempts))
      /\ Cardinality(Calls \X (1 .. MaxAttempts)) = Cardinality(Calls) * MaxAttempts
  BY <1>1, <1>2, FS_Product
<1>4. Cardinality(Calls) * MaxAttempts = MaxAttempts * Cardinality(Calls)
  BY <1>1, DeliveryAssumption
<1>5. ASSUME NEW U \in SUBSET Calls PROVE IsFiniteSet(U) /\ Cardinality(U) \in Nat
  <2>1. IsFiniteSet(U)
    BY <1>1, FS_Subset
  <2> QED
    BY <2>1, FS_CardinalityType
<1>6. ASSUME NEW T \in SUBSET (Calls \X (1 .. MaxAttempts))
      PROVE  /\ IsFiniteSet(T) /\ Cardinality(T) \in Nat
             /\ Cardinality(T) <= MaxAttempts * Cardinality(Calls)
  <2>1. IsFiniteSet(T) /\ Cardinality(T) <= Cardinality(Calls) * MaxAttempts
    BY <1>3, FS_Subset
  <2> QED
    BY <1>4, <2>1, FS_CardinalityType
<1> QED
  BY <1>5, <1>6

\* It is so of the two that the counts are about.
LEMMA CountedSets ==
  /\ Unwritten \in SUBSET Calls /\ Tried \in SUBSET (Calls \X (1 .. MaxAttempts))
  /\ Unwritten' \in SUBSET Calls /\ Tried' \in SUBSET (Calls \X (1 .. MaxAttempts))
  BY DEF Unwritten, Tried

\* A step that writes no outcome, one that creates the row, a POST, an UPDATE
\* and a restart: what they do to the counts.
Writes == UNCHANGED <<taken, posts>> /\ Tried \subseteq Tried'

Quiet ==
  /\ Writes /\ Unwritten' = Unwritten /\ UNCHANGED <<record, restarts>>
  /\ \A d \in Calls : loaded'[d] = loaded[d] \/ (Recorded /\ loaded'[d] = record)

Creates == Writes /\ Unwritten' = Unwritten /\ UNCHANGED <<loaded, restarts>> /\ record' = Fresh

Posted(c) ==
  /\ pc[c] = "post" /\ posts' = posts + 1 /\ taken' \in {taken, taken + 1}
  /\ Unwritten' = Unwritten \cup {c} /\ c \notin Unwritten
  /\ Tried \cup {<<c, attempt[c]>>} \subseteq Tried' /\ <<c, attempt[c]>> \notin Tried
  /\ UNCHANGED <<record, loaded, restarts>>

Saved(c) ==
  /\ pc[c] = "save" /\ Writes /\ UNCHANGED restarts
  /\ c \in Unwritten /\ Unwritten' = Unwritten \ {c}
  /\ Recorded' /\ record'.attempts = loaded[c].attempts + 1
  /\ \A d \in Calls : loaded'[d] \in {loaded[d], Fresh}

Restarts ==
  /\ Writes /\ Unwritten' = {} /\ restarts' > 0 /\ UNCHANGED record
  /\ \A d \in Calls : loaded'[d] = Fresh

\* A set of attempts grows if no call falls behind.
LEMMA TriedGrows ==
  ASSUME Sound,
         \A c \in Calls :
           \/ attempt'[c] = attempt[c]
              /\ (pc[c] \notin {"idle", "check", "create", "post"}
                    => pc'[c] \notin {"idle", "check", "create", "post"})
           \/ attempt'[c] = attempt[c] + 1
  PROVE  Tried \subseteq Tried'
<1> SUFFICES ASSUME NEW t \in Tried PROVE t \in Tried'
  OBVIOUS
<1>1. /\ t \in Calls \X (1 .. MaxAttempts) /\ t[1] \in Calls /\ t[2] \in Nat
      /\ t[2] < attempt[t[1]]
           \/ (t[2] = attempt[t[1]] /\ pc[t[1]] \notin {"idle", "check", "create", "post"})
  BY DeliveryAssumption DEF Tried
<1>2. attempt[t[1]] \in Nat
  BY <1>1, DeliveryAssumption DEF Sound, Shape
<1>3. t[2] < attempt'[t[1]]
        \/ (t[2] = attempt'[t[1]] /\ pc'[t[1]] \notin {"idle", "check", "create", "post"})
  BY <1>1, <1>2
<1> QED
  BY <1>1, <1>3 DEF Tried

\* Every step is one of them.
LEMMA CountEffects ==
  ASSUME Sound, [Next]_vars
  PROVE  Quiet \/ (Creates /\ ~Recorded) \/ (\E c \in Calls : Posted(c) \/ Saved(c)) \/ Restarts
<1> USE DEF Sound, Shape, Goto
<1>1. ASSUME NEW c \in Calls, Call(c) PROVE Quiet
  BY <1>1, TriedGrows DEF Call, Quiet, Writes, Unwritten
<1>2. ASSUME NEW c \in Calls, Check(c) PROVE Quiet
  <2>1. pc[c] = "check" /\ pc'[c] \in {"delivered", "post", "create"}
          /\ \A d \in Calls \ {c} : pc'[d] = pc[d]
    BY <1>2 DEF Check
  <2> QED
    BY <1>2, <2>1, TriedGrows DEF Check, Quiet, Writes, Unwritten
<1>3. ASSUME NEW c \in Calls, Create(c) PROVE Quiet \/ (Creates /\ ~Recorded)
  <2>1. pc[c] = "create" /\ pc'[c] \in {"post", "failed"}
          /\ \A d \in Calls \ {c} : pc'[d] = pc[d]
    BY <1>3 DEF Create
  <2>2. Tried \subseteq Tried'
    BY <1>3, <2>1, TriedGrows DEF Create
  <2>3. Unwritten' = Unwritten
    BY <2>1 DEF Unwritten
  <2> QED
    BY <1>3, <2>2, <2>3 DEF Create, Quiet, Creates, Writes
<1>4. ASSUME NEW c \in Calls, Post(c) PROVE Posted(c)
  <2>1. pc[c] = "post" /\ pc'[c] = "load" /\ \A d \in Calls \ {c} : pc'[d] = pc[d]
    BY <1>4 DEF Post
  <2>2. Tried \subseteq Tried'
    BY <1>4, <2>1, TriedGrows DEF Post
  <2>3. Unwritten' = Unwritten \cup {c} /\ c \notin Unwritten
    BY <2>1 DEF Unwritten
  <2>4. attempt[c] \in 1 .. MaxAttempts /\ attempt' = attempt
    BY <1>4 DEF Post
  <2>5. attempt[c] \in Int
    BY <2>4
  <2>6. <<c, attempt[c]>> \notin Tried
    BY <2>1, <2>4, <2>5 DEF Tried
  <2>7. <<c, attempt[c]>> \in Tried'
    BY <2>1, <2>4 DEF Tried
  <2>8. taken' \in {taken, taken + 1} /\ posts' = posts + 1 /\ UNCHANGED <<record, loaded, restarts>>
    BY <1>4 DEF Post
  <2> QED
    BY <2>1, <2>2, <2>3, <2>6, <2>7, <2>8 DEF Posted
<1>5. ASSUME NEW c \in Calls, LoadRecord(c) PROVE Quiet
  <2>1. Recorded
    BY <1>5 DEF LoadRecord, RowIsThere
  <2> QED
    BY <1>5, <2>1, TriedGrows DEF LoadRecord, Quiet, Writes, Unwritten
<1>6. ASSUME NEW c \in Calls, SaveRecord(c) PROVE Saved(c)
  <2>1. pc[c] = "save" /\ pc'[c] \in {"delivered", "post", "exhausted"}
          /\ \A d \in Calls \ {c} : pc'[d] = pc[d]
    BY <1>6 DEF SaveRecord, AfterFailure
  <2>2. \A d \in Calls \ {c} : attempt'[d] = attempt[d]
    BY <1>6 DEF SaveRecord
  <2>3. attempt'[c] = attempt[c] + 1 \/ (attempt'[c] = attempt[c] /\ pc'[c] # "post")
    BY <1>6 DEF SaveRecord, AfterFailure
  <2>4. Tried \subseteq Tried'
    BY <2>1, <2>2, <2>3, TriedGrows
  <2>5. Unwritten' = Unwritten \ {c} /\ c \in Unwritten
    BY <2>1 DEF Unwritten
  <2>6. record' # NoRecord /\ record'.attempts = loaded[c].attempts + 1
    BY <1>6, <2>1, IncrementedTyped, DeliveryAssumption DEF SaveRecord
  <2> QED
    BY <1>6, <2>1, <2>4, <2>5, <2>6 DEF SaveRecord, Saved, Writes, Recorded
<1>7. ASSUME Restart PROVE Restarts
  <2>1. \A d \in Calls : pc'[d] = pc[d] \/ pc'[d] = "failed"
    BY <1>7 DEF Restart
  <2>2. Tried \subseteq Tried'
    BY <1>7, <2>1, TriedGrows DEF Restart
  <2>3. \A d \in Calls : pc'[d] \notin {"load", "save"}
    BY <1>7 DEF Restart, Active, Ended
  <2>4. restarts' > 0
    BY <1>7, DeliveryAssumption DEF Restart
  <2> QED
    BY <1>7, <2>2, <2>3, <2>4 DEF Restart, Restarts, Writes, Unwritten
<1>8. ASSUME UNCHANGED vars PROVE Quiet
  BY <1>8, TriedGrows DEF vars, Quiet, Writes, Unwritten
<1> QED
  BY <1>1, <1>2, <1>3, <1>4, <1>5, <1>6, <1>7, <1>8 DEF Next, Step

\* One step keeps every count behind the outcomes that were written.
LEMMA CountsStep == Sound /\ CountsHold /\ [Next]_vars => CountsHold'
<1> SUFFICES ASSUME Sound, CountsHold, [Next]_vars PROVE CountsHold'
  OBVIOUS
<1> DEFINE u == Cardinality(Unwritten)
           n == Cardinality(Tried)
           u1 == Cardinality(Unwritten')
           n1 == Cardinality(Tried')
<1>1. u \in Nat /\ n \in Nat /\ u1 \in Nat /\ n1 \in Nat
  BY SetsAreFinite, CountedSets
<1>2. Tried \subseteq Tried' => n <= n1
  BY SetsAreFinite, CountedSets, FS_Subset
<1>3. /\ posts \in Nat /\ taken \in Nat /\ \A d \in Calls : loaded[d].attempts \in Nat
      /\ Recorded => record.attempts \in Nat
  BY DEF Sound, Shape, Record, Recorded
<1>4. /\ taken <= posts /\ posts <= n /\ (Recorded => record.attempts <= posts - u)
      /\ u <= posts /\ \A d \in Calls : loaded[d].attempts <= posts - u
  BY DEF CountsHold
<1>5. Fresh.attempts = 0
  BY DEF Fresh
<1>6. CountsHold' <=> /\ taken' <= posts' /\ posts' <= n1
                      /\ (Recorded' => record'.attempts <= posts' - u1)
                      /\ u1 <= posts' /\ \A d \in Calls : loaded'[d].attempts <= posts' - u1
  BY DEF CountsHold
<1>7. Unwritten' = Unwritten => u1 = u
  OBVIOUS
<1>8. ASSUME NEW c \in Calls PROVE /\ c \notin Unwritten /\ Unwritten' = Unwritten \cup {c} => u1 = u + 1
                                   /\ c \in Unwritten /\ Unwritten' = Unwritten \ {c} => u1 = u - 1
  BY SetsAreFinite, CountedSets, FS_AddElement, FS_RemoveElement
<1>9. Unwritten' = {} => u1 = 0
  BY FS_EmptySet
<1>10. ASSUME NEW c \in Calls, Posted(c) PROVE n + 1 <= n1
  <2>1. Cardinality(Tried \cup {<<c, attempt[c]>>}) = n + 1
    BY <1>10, SetsAreFinite, CountedSets, FS_AddElement DEF Posted
  <2> QED
    BY <1>10, <2>1, SetsAreFinite, CountedSets, FS_Subset DEF Posted
<1> HIDE DEF u, n, u1, n1
<1>11. CASE Quiet
  BY <1>1, <1>2, <1>3, <1>4, <1>6, <1>7, <1>11 DEF Quiet, Writes, Recorded
<1>12. CASE Creates
  BY <1>1, <1>2, <1>3, <1>4, <1>5, <1>6, <1>7, <1>12 DEF Creates, Writes
<1>13. ASSUME NEW c \in Calls, Posted(c) PROVE CountsHold'
  BY <1>1, <1>3, <1>4, <1>6, <1>8, <1>10, <1>13 DEF Posted, Recorded
<1>14. ASSUME NEW c \in Calls, Saved(c) PROVE CountsHold'
  <2>1. u1 = u - 1 /\ UNCHANGED <<taken, posts>> /\ n <= n1
    BY <1>2, <1>8, <1>14 DEF Saved, Writes
  <2>2. record'.attempts <= posts' - u1
    BY <1>1, <1>3, <1>4, <1>14, <2>1 DEF Saved
  <2>3. \A d \in Calls : loaded'[d].attempts <= posts' - u1
    BY <1>1, <1>3, <1>4, <1>5, <1>14, <2>1 DEF Saved
  <2> QED
    BY <1>1, <1>3, <1>4, <1>6, <2>1, <2>2, <2>3
<1>15. CASE Restarts
  BY <1>1, <1>2, <1>3, <1>4, <1>5, <1>6, <1>9, <1>15 DEF Restarts, Writes, Recorded
<1> QED
  BY <1>11, <1>12, <1>13, <1>14, <1>15, CountEffects

\* Calls stay overlapped once they are.
LEMMA StayOverlapped == Sound /\ [Next]_vars /\ ~overlapped' => ~overlapped
  BY DEF Next, Call, Step, Check, Create, Post, LoadRecord, SaveRecord, Restart, vars

\* One step keeps the count of calls that do not overlap, and of a row that is
\* not there yet.
LEMMA CountedStep ==
  Sound /\ Alone /\ CountsHold /\ NoneBefore /\ AttemptsCounted /\ [Next]_vars
    => NoneBefore' /\ AttemptsCounted'
<1> SUFFICES ASSUME Sound, Alone, CountsHold, NoneBefore, AttemptsCounted, [Next]_vars
             PROVE  NoneBefore' /\ AttemptsCounted'
  OBVIOUS
<1> DEFINE u == Cardinality(Unwritten)
           u1 == Cardinality(Unwritten')
<1>1. u \in Nat /\ u1 \in Nat
  BY SetsAreFinite, CountedSets
<1>2. /\ posts \in Nat /\ restarts \in Nat /\ \A d \in Calls : loaded[d].attempts \in Nat
      /\ Recorded => record.attempts \in Nat
  BY DeliveryAssumption DEF Sound, Shape, Record, Recorded
<1>3. u <= posts
  BY DEF CountsHold
<1>4. restarts = 0 /\ ~overlapped /\ Recorded => record.attempts = posts - u
  BY DEF AttemptsCounted, Unwritten
<1>5. AttemptsCounted' <=>
        (restarts' = 0 /\ ~overlapped' /\ Recorded' => record'.attempts = posts' - u1)
  BY DEF AttemptsCounted, Unwritten
<1>6. ~overlapped' => ~overlapped
  BY StayOverlapped
<1>7. Unwritten' = Unwritten => u1 = u
  OBVIOUS
<1>8. ASSUME NEW c \in Calls PROVE /\ c \notin Unwritten /\ Unwritten' = Unwritten \cup {c} => u1 = u + 1
                                   /\ c \in Unwritten /\ Unwritten' = Unwritten \ {c} => u1 = u - 1
  BY SetsAreFinite, CountedSets, FS_AddElement, FS_RemoveElement
<1> HIDE DEF u, u1
<1>9. CASE Quiet
  BY <1>4, <1>5, <1>6, <1>7, <1>9 DEF Quiet, Writes, Recorded, NoneBefore
<1>10. ASSUME Creates, ~Recorded PROVE NoneBefore' /\ AttemptsCounted'
  <2>1. posts' = 0 /\ u1 = 0
    BY <1>1, <1>2, <1>3, <1>7, <1>10 DEF NoneBefore, Creates, Writes
  <2>2. record' # NoRecord /\ record'.attempts = 0
    BY <1>10, FreshTyped DEF Creates, Fresh
  <2> QED
    BY <1>5, <2>1, <2>2 DEF NoneBefore, Recorded
<1>11. ASSUME NEW c \in Calls, Posted(c) PROVE NoneBefore' /\ AttemptsCounted'
  <2>1. Recorded /\ UNCHANGED <<record, restarts>> /\ posts' = posts + 1 /\ u1 = u + 1
    BY <1>8, <1>11 DEF Posted, Sound, RowIsThere
  <2> QED
    BY <1>1, <1>2, <1>4, <1>5, <1>6, <2>1 DEF NoneBefore, Recorded
<1>12. ASSUME NEW c \in Calls, Saved(c) PROVE NoneBefore' /\ AttemptsCounted'
  <2>1. Recorded /\ UNCHANGED <<posts, restarts>> /\ u1 = u - 1
    BY <1>8, <1>12 DEF Saved, Writes, Sound, RowIsThere
  <2>2. Recorded' /\ record'.attempts = loaded[c].attempts + 1
    BY <1>12 DEF Saved
  <2>3. ~overlapped => loaded[c] = record
    BY <1>12 DEF Saved, Alone
  <2> QED
    BY <1>1, <1>2, <1>4, <1>5, <1>6, <2>1, <2>2, <2>3 DEF NoneBefore
<1>13. CASE Restarts
  BY <1>5, <1>13 DEF Restarts, Writes, Recorded, NoneBefore
<1> QED
  BY <1>9, <1>10, <1>11, <1>12, <1>13, CountEffects

\* Initially nothing has been POSTed and nothing counted.
LEMMA CountsInitially == Init => CountsHold /\ NoneBefore /\ AttemptsCounted
<1> SUFFICES ASSUME Init PROVE CountsHold /\ NoneBefore /\ AttemptsCounted
  OBVIOUS
<1>1. Unwritten = {} /\ Cardinality(Unwritten) = 0
  BY FS_EmptySet DEF Init, Unwritten
<1>2. Cardinality(Tried) \in Nat
  BY SetsAreFinite, CountedSets
<1>3. taken = 0 /\ posts = 0 /\ ~Recorded /\ \A c \in Calls : loaded[c].attempts = 0
  BY DEF Init, Recorded, Fresh
<1> QED
  BY <1>1, <1>2, <1>3 DEF CountsHold, NoneBefore, AttemptsCounted

\* CallsAreSound: calls and the row keep their types, in which no more POSTs are
\* made, counted or loaded than the calls have attempts; and, as long as no two
\* calls overlap and none is cut short, the row counts every POST but for the one
\* whose outcome is being written.
THEOREM CallsSound == Spec => []CallsAreSound
<1> DEFINE I == Sound /\ Alone /\ CountsHold /\ NoneBefore /\ AttemptsCounted
<1>1. Init => I
  <2>1. Init => Alone
    BY DEF Init, Alone, Active
  <2> QED
    BY <2>1, SoundInitially, CountsInitially
<1>2. I /\ [Next]_vars => I'
  BY SoundStep, AloneStep, CountsStep, CountedStep
<1>3. I => CallsAreSound
  <2> SUFFICES ASSUME I PROVE TypeOK
    BY DEF CallsAreSound
  <2> DEFINE u == Cardinality(Unwritten)
             n == Cardinality(Tried)
             bound == MaxAttempts * Cardinality(Calls)
  <2>1. u \in Nat /\ n \in Nat /\ n <= bound
    BY SetsAreFinite, CountedSets
  <2>2. bound \in Int /\ Posts = 0 .. bound
    <3>1. Cardinality(Calls) \in Nat
      BY DeliveryAssumption, FS_CardinalityType
    <3> QED
      BY <3>1, DeliveryAssumption DEF Posts
  <2>3. /\ taken <= posts /\ posts <= n /\ (Recorded => record.attempts <= posts - u)
        /\ \A c \in Calls : loaded[c].attempts <= posts - u
    BY DEF CountsHold
  <2> HIDE DEF u, n, bound
  <2>4. taken \in Posts /\ posts \in Posts
    BY <2>1, <2>2, <2>3 DEF Sound, Shape
  <2>5. \A c \in Calls : loaded[c] \in Record /\ loaded[c].attempts \in Posts
    BY <2>1, <2>2, <2>3, <2>4 DEF Sound, Shape, Record
  <2>6. loaded \in [Calls -> [attempts: Posts, succeeded: BOOLEAN]]
    BY <2>5 DEF Sound, Shape, Record
  <2>7. record \in [attempts: Posts, succeeded: BOOLEAN] \cup {NoRecord}
    <3> SUFFICES ASSUME Recorded PROVE record \in [attempts: Posts, succeeded: BOOLEAN]
      BY DEF Recorded
    <3>1. record \in Record /\ record.attempts \in Posts
      BY <2>1, <2>2, <2>3, <2>4 DEF Sound, Shape, Record, Recorded
    <3> QED
      BY <3>1 DEF Record
  <2> QED
    BY <2>4, <2>6, <2>7 DEF TypeOK, Sound, Shape
<1> QED
  BY <1>1, <1>2, <1>3, PTL DEF Spec
=============================================================================
