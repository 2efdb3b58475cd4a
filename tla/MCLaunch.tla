------------------------------- MODULE MCLaunch -------------------------------
(***************************************************************************)
(* Instances of Launch for TLC: an admin; a client with its Client row and *)
(* its LoginDetail, of the same email, and a user of its own, who has no   *)
(* email.  The first two ESignRequests are for one file, one with the      *)
(* client's LoginDetail, the other with the user's; the third has no       *)
(* ClientID.  ClientEmail is another email than that of the Client row.    *)
(***************************************************************************)
EXTENDS Launch, TLC

CONSTANTS adm, cli, log, sub, e1, e2, e3, e4, e5, x1, x2, x3

MCEmail == (adm :> e1) @@ (cli :> e2) @@ (log :> e2) @@ (sub :> NoEmail)

MCPlaceholder == [w \in People \cup {NoPerson} |-> IF w = sub THEN e4 ELSE e5]

MCRow ==
  LET row(file, client, login) ==
        [file |-> file, admin |-> adm, client |-> client, login |-> login, contact |-> e5]
  IN  (x1 :> row(x1, cli, log)) @@ (x2 :> row(x1, cli, sub))
        @@ (x3 :> row(x3, NoPerson, log))

MCUsers  == [w \in People |-> IF w = cli THEN {sub} ELSE {}]
MCMapped == [w \in People |-> IF w = adm THEN {cli} ELSE {}]

Ask(kind, as, who, ext) == [kind |-> kind, as |-> as, who |-> who, ext |-> ext]

Admin     == {Ask("launch", "ADMIN", NoPerson, x) : x \in Externals}
ThreeTier == {Ask("launch", "SIGNER", sub, x1)}
TwoTier   == {Ask("launch", "SIGNER", NoPerson, x) : x \in Externals}
Lists     == {Ask("list", "SIGNER", NoPerson, x) : x \in Externals}
Register  == {Ask("register", "SIGNER", adm, x1)}
AllOps    == Admin \cup ThreeTier \cup TwoTier \cup Lists \cup Register
Launches  == Admin \cup ThreeTier \cup TwoTier
=============================================================================
