------------------------ MODULE RememberedSignature ------------------------
(***************************************************************************)
(* The signature a signer asks to have remembered: the router calls        *)
(* save_user_signature after sign_region or sign_all_regions has committed *)
(* and before it answers, in a transaction of its own.  The user_signatures *)
(* table has one row per user, whose columns method and signature_data     *)
(* belong together; an UPDATE carries only the columns that differ from    *)
(* the row its SELECT loaded.                                              *)
(***************************************************************************)
EXTENDS SigningWorkflow

CONSTANTS
  Given,    \* the method of each request's signature, if it is to be remembered
  NoMethod, NoSaved

Methods == {"draw", "type", "upload"}

\* signature_data is named by the request that brought it.
Saved == [method: Methods, data: Requests]

ASSUME GivenAssumption ==
  /\ Given \in [Requests -> Methods \cup {NoMethod}]
  /\ NoMethod \notin Methods /\ NoSaved \notin Saved

VARIABLES
  saved,    \* the user_signatures rows
  saving,   \* where each request is in save_user_signature
  found,    \* the row it found
  crossed   \* history: users of whom two saves have overlapped

saves == <<saved, saving, found, crossed>>

RememberInit ==
  /\ Init
  /\ saved = [u \in Users |-> NoSaved]
  /\ saving = [p \in Requests |-> "none"]
  /\ found = [p \in Requests |-> NoSaved]
  /\ crossed = {}

Saving(p) == saving[p] \in {"find", "write"}

\* A signing request that commits with remember_signature set goes on to save.
Remembers(p) ==
  pc[p] = "publish" /\ pc'[p] = "done" /\ op[p].kind \in SignKinds /\ Given[p] # NoMethod

SignaturesGoOn ==
  saving' = [p \in Requests |-> IF Remembers(p) THEN "find" ELSE saving[p]]

\* session.get.
FindSaved(p) ==
  /\ saving[p] = "find"
  /\ saving' = [saving EXCEPT ![p] = "write"]
  /\ found' = [found EXCEPT ![p] = saved[op[p].by]]
  /\ crossed' = crossed \cup {u \in {op[p].by} :
       \E q \in Requests : saving[q] = "write" /\ op[q].by = u}
  /\ UNCHANGED <<vars, saved>>

\* Mutant of Overwritten: the method stays.
OverwrittenData(p, current) == [current EXCEPT !.data = p]

\* The row after p's UPDATE: the payload is new, the method only if it was
\* another one in the row p found.
Overwritten(p, current) ==
  [current EXCEPT !.method = IF Given[p] # found[p].method THEN Given[p] ELSE @, !.data = p]

\* The flush and the commit.  A second INSERT for the user is a duplicate key:
\* 500 for a signature that is on file.
WriteSaved(p) ==
  /\ saving[p] = "write"
  /\ LET u == op[p].by
         put(r) == saved' = [saved EXCEPT ![u] = r] /\ saving' = [saving EXCEPT ![p] = "done"]
     IN  \/ found[p] # NoSaved /\ put(Overwritten(p, saved[u]))
         \/ found[p] = NoSaved /\ saved[u] = NoSaved /\ put([method |-> Given[p], data |-> p])
         \/ /\ found[p] = NoSaved /\ saved[u] # NoSaved
            /\ saving' = [saving EXCEPT ![p] = "duplicate"] /\ UNCHANGED saved
  /\ found' = [found EXCEPT ![p] = NoSaved]
  /\ UNCHANGED <<vars, crossed>>

\* The request dies after its signature was committed.
AbortSave(p) ==
  /\ Saving(p)
  /\ saving' = [saving EXCEPT ![p] = "failed"]
  /\ found' = [found EXCEPT ![p] = NoSaved]
  /\ UNCHANGED <<vars, saved, crossed>>

SaveStep(p) == FindSaved(p) \/ WriteSaved(p)

RememberNext ==
  \/ Next /\ SignaturesGoOn /\ UNCHANGED <<saved, found, crossed>>
  \/ \E p \in Requests : SaveStep(p) \/ AbortSave(p)

RememberSpec ==
  /\ RememberInit /\ [][RememberNext]_<<vars, saves>>
  /\ Fairness /\ \A p \in Requests : WF_saves(SaveStep(p))

-----------------------------------------------------------------------------
(* Properties *)

\* What is remembered of a signer is what one of their own committed signings
\* gave, method and payload together, and remembering only fails (after the
\* signature has been committed) on the row of another save: both can go wrong
\* only for a signer of whom two saves have overlapped (save_user_signature).
RememberedAsGiven ==
  /\ \A u \in Users : saved[u] # NoSaved =>
       /\ op[saved[u].data].by = u /\ saved[u].data \in logged
       /\ u \notin crossed => saved[u].method = Given[saved[u].data]
  /\ \A p \in Requests : saving[p] = "duplicate" => op[p].by \in crossed

\* Every request is answered: waiting for a row never lasts for ever, nor does
\* what a signing request does after its commit.
EveryRequestAnswered == \A p \in Requests : Active(p) ~> Ended(p) /\ ~Saving(p)
=============================================================================
