------------------------- MODULE MCSigningWorkflow -------------------------
(***************************************************************************)
(* Instances of SigningWorkflow for TLC: one admin, two signers, three     *)
(* regions, one annotation.  Each set of operations below is what clients  *)
(* may ask for in one of the runs.                                         *)
(***************************************************************************)
EXTENDS SigningInvariants, TLC

CONSTANTS admin, ann, bob, r1, r2, r3, n1, q1, q2, q3, q4

MCUsers    == {admin, ann, bob}
MCRegions  == {r1, r2, r3}
MCAssignee == (r1 :> ann) @@ (r2 :> ann) @@ (r3 :> bob)
MCNotes    == {n1}

Ask(kind, by, targets) == [kind |-> kind, by |-> by, targets |-> targets, note |-> NoNote]
AskNote(kind, by)      == [kind |-> kind, by |-> by, targets |-> {}, note |-> n1]

SignOps     == {Ask("sign", u, {r}) : u \in {ann, bob}, r \in {r1, r3}}
SignAllOps  == {Ask("signAll", u, {}) : u \in {ann, bob}}
UnsignOps   == {Ask("unsign", u, {r}) : u \in {ann, bob}, r \in {r1, r3}}
DiscardOps  == {Ask("discard", ann, {r1, r2}), Ask("discard", bob, {r1, r3}),
                Ask("discard", bob, {})}
DefineOps   == {Ask("define", admin, {r2}), Ask("define", bob, {r2})}
SubmitOps   == {Ask("submit", u, {}) : u \in {ann, bob}}
NoteOps     == {AskNote("addNote", admin), AskNote("dropNote", admin),
                AskNote("addNote", bob)}

AllOps == SignOps \cup SignAllOps \cup UnsignOps \cup DiscardOps \cup DefineOps
            \cup SubmitOps \cup NoteOps

\* Two tabs of one signer, and another signer beside them.
ContendingOps == {Ask("signAll", ann, {}), Ask("discard", ann, {r1, r2}),
                  Ask("sign", ann, {r2}), Ask("sign", bob, {r3}), Ask("discard", bob, {r1, r3})}

\* Two signers who sign everything they have.
SigningOps == {Ask("signAll", ann, {}), Ask("signAll", bob, {})}

Symmetry == Permutations(Requests)
=============================================================================
