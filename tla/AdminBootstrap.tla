--------------------------- MODULE AdminBootstrap ---------------------------
(***************************************************************************)
(* The admin bootstrap CLI (prisma/create-admin.ts) beside a running API    *)
(* (AdminRoutes).  A run looks for the e-mail address, signs the account up, *)
(* and promotes it in one transaction; if that fails it deletes the account  *)
(* again.  Between two of its steps the account is an ordinary one that      *)
(* everybody can see, and other runs, sign-ups and administrators go on.     *)
(*                                                                         *)
(* One address matters, the one every run is given; an account has it or     *)
(* another one, and its unique index lets one account have it.               *)
(***************************************************************************)
EXTENDS AdminRoutes

CONSTANT Clis      \* the runs of the CLI

ASSUME BootstrapAssumption == "admin" \in RoleNames

VARIABLES
  cli,       \* cli[c]: [at, user], the account that c has signed up
  holders,   \* the users whose account was made with the address
  creator    \* who made each account: a run, "api", or Nobody for the first ones

vars == <<adminVars, cli, holders, creator>>

AddressTaken == \E u \in holders : Exists(u)

\* Every other step that makes an account may or may not use the address.
ApiStep ==
  /\ AdminNext
  /\ LET made == {u \in Users : role[u] = "unborn" /\ role'[u] # "unborn"}
     IN  /\ creator' = [u \in Users |-> IF u \in made THEN "api" ELSE creator[u]]
         /\ \/ holders' = holders
            \/ made # {} /\ ~AddressTaken /\ holders' = holders \cup made
  /\ UNCHANGED cli

\* POST /auth/sign-up/email by anybody.  Bound: only beside a run.
PublicSignUp(u) ==
  /\ \E c \in Clis : cli[c].at # "refused"
  /\ role[u] = "unborn"
  /\ ~AddressTaken
  /\ role' = [role EXCEPT ![u] = DefaultRole]
  /\ mayRead' = [mayRead EXCEPT ![u].roles = {Stored(DefaultRole)}]
  /\ holders' = holders \cup {u}
  /\ creator' = [creator EXCEPT ![u] = "api"]
  /\ UNCHANGED <<rows, banned, session, request, write, lapses, cli>>

Goes(c, stage, u) == cli' = [cli EXCEPT ![c] = [at |-> stage, user |-> u]]

\* findUnique
LooksForAddress(c) ==
  /\ cli[c].at = "idle"
  /\ Goes(c, IF AddressTaken THEN "refused" ELSE "signing-up", Nobody)
  /\ UNCHANGED <<adminVars, holders, creator>>

\* signUpEmail, of an instance without Redis: its session is a row only.
SignsUp(c, u, s) ==
  /\ cli[c].at = "signing-up"
  /\ ~AddressTaken /\ role[u] = "unborn" /\ session[s] = FreeSession
  /\ role' = [role EXCEPT ![u] = DefaultRole]
  /\ mayRead' = [mayRead EXCEPT ![u].roles = {Stored(DefaultRole)}]
  /\ session' = [session EXCEPT ![s] = Session("open", u, "cli", TRUE, "none")]
  /\ holders' = holders \cup {u}
  /\ creator' = [creator EXCEPT ![u] = c]
  /\ Goes(c, "promoting", u)
  /\ UNCHANGED <<rows, banned, request, write, lapses>>

\* The address was taken since, or the store fails.
SignUpFails(c) ==
  /\ cli[c].at = "signing-up"
  /\ AddressTaken \/ Failures
  /\ Goes(c, "refused", Nobody)
  /\ UNCHANGED <<adminVars, holders, creator>>

\* Variant of Account that looks the account up by its address.
AccountAtAddress(c) ==
  IF AddressTaken THEN CHOOSE u \in holders : Exists(u) ELSE cli[c].user

\* What the transaction updates and the clean-up deletes.
Account(c) == cli[c].user

\* The rows of u's sessions go, not the copies that the API has in Redis.  A
\* copy, or a sign-in under way, is then of the user as it was.
SessionRowsDeleted(u) ==
  session' = [s \in Sessions |->
    IF session[s].user # u THEN session[s]
    ELSE IF session[s].at = "open" /\ session[s].copy = "none" THEN EndedSession
    ELSE [session[s] EXCEPT !.row = FALSE, !.late = TRUE]]

\* The transaction.  Its commit may happen and the answer be lost.  Nothing
\* tells the API: what it has cached of the user stays until it expires.
Promotes(c) ==
  LET u == Account(c) IN
  /\ cli[c].at = "promoting"
  /\ Exists(u)
  /\ RoleWritten(u, "admin")
  /\ SessionRowsDeleted(u)
  /\ unpublished' = unpublished \cup {u}
  /\ \E stage \in {"created"} \cup (IF Failures THEN {"cleaning-up"} ELSE {}) :
       Goes(c, stage, u)
  /\ UNCHANGED <<rows, banned, request, write, unrevoked, holders, creator>>

\* It is rolled back: the account is gone, or the store fails.
PromotionFails(c) ==
  /\ cli[c].at = "promoting"
  /\ Failures \/ ~Exists(Account(c))
  /\ Goes(c, "cleaning-up", cli[c].user)
  /\ UNCHANGED <<adminVars, holders, creator>>

\* Variant of CleansUp that forgets the account.
CleansUpNothing(c) ==
  /\ cli[c].at = "cleaning-up"
  /\ Goes(c, "failed", cli[c].user)
  /\ UNCHANGED <<adminVars, holders, creator>>

CleansUp(c) ==
  LET u == Account(c) IN
  /\ cli[c].at = "cleaning-up"
  /\ IF Exists(u)
     THEN UserDeleted(u) /\ SessionRowsDeleted(u)
     ELSE UNCHANGED <<facts, session>>
  /\ Goes(c, "failed", cli[c].user)
  /\ UNCHANGED <<request, write, lapses, holders, creator>>

\* The error of the delete is swallowed; or the process dies.
Abandons(c) ==
  /\ Failures
  /\ cli[c].at \in {"signing-up", "promoting", "cleaning-up"}
  /\ Goes(c, "abandoned", cli[c].user)
  /\ UNCHANGED <<adminVars, holders, creator>>

CliStep(c) ==
  \/ LooksForAddress(c)
  \/ \E u \in Users, s \in Sessions : SignsUp(c, u, s)
  \/ SignUpFails(c)
  \/ Promotes(c) \/ PromotionFails(c)
  \/ CleansUp(c) \/ Abandons(c)

Next ==
  \/ ApiStep
  \/ \E u \in Users : PublicSignUp(u)
  \/ \E c \in Clis : CliStep(c)

Init ==
  /\ AdminInit
  /\ cli \in [Clis -> {[at |-> x, user |-> Nobody] : x \in {"idle", "refused"}}]
  /\ holders = {}
  /\ creator = [u \in Users |-> Nobody]

Spec == Init /\ [][Next]_vars

-----------------------------------------------------------------------------
\* The types of the routes' variables and of the runs of the CLI.
TypeOK ==
  /\ AdminTypeOK
  /\ cli \in [Clis -> [at : {"idle", "signing-up", "promoting", "cleaning-up",
                             "created", "refused", "failed", "abandoned"},
                       user : Users \cup {Nobody}]]
  /\ holders \subseteq Users
  /\ creator \in [Users -> Clis \cup {"api", Nobody}]

\* "It refuses to promote an existing account": whatever happens between its
\* steps, a run promotes or deletes only the account it has signed up itself.
BootstrapTouchesItsOwn ==
  [][\A c \in Clis, u \in Users :
       cli'[c] # cli[c] /\ role[u] # "unborn" /\ role'[u] # role[u]
         => creator[u] = c]_vars

\* A run that says it created an administrator leaves no session of its sign-up
\* behind, and one that reports an error and has cleaned up leaves no account.
BootstrapLeavesNothingBehind ==
  \A c \in Clis :
    /\ cli[c].at = "created" =>
         \A s \in Sessions : session[s].by = "cli" => session[s].user # cli[c].user
    /\ cli[c].at = "failed" => ~Exists(cli[c].user)
=============================================================================
