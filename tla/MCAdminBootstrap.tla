-------------------------- MODULE MCAdminBootstrap --------------------------
(* Three small casts: two administrators who work on each other and on a new *)
(* account; one of them beside a run of the CLI; two runs of the CLI.        *)
EXTENDS AdminBootstrap

CONSTANTS a, b, n1, n2, s1, s2, s3, r1, r2, c1, c2

MCPermissionKeys ==
  {"user"} \X {"create", "list", "update", "delete", "set-role", "ban", "impersonate",
             "set-password"}
    \cup {<<"session", "revoke">>}

MCRoleGrants == [user |-> {}, admin |-> MCPermissionKeys]

Op(path, u, fields, r) ==
  [path |-> path, user |-> u, fields |-> fields, data |-> {}, role |-> r]

\* The first request may be any; the second is a change of a role,
\* or ends an impersonation.
MCOperations(r) ==
  {Op("set-role", a, {"role"}, "user"), Op("update-user", b, {"role"}, "user"),
   Op("stop-impersonating", Nobody, {}, "user")} \cup
  IF r = r2 THEN {} ELSE
  {Op("set-role", b, {"role"}, "user"), Op("set-role", n1, {"role"}, "user"),
   Op("update-user", a, {"banned"}, "user"),
   Op("create-user", n1, {"role"}, "admin"),
   [Op("create-user", n1, {}, "admin") EXCEPT !.data = {"role", "banned"}],
   Op("set-user-password", b, {}, "user"),
   Op("ban-user", b, {}, "user"), Op("unban-user", a, {}, "user"),
   Op("remove-user", n1, {}, "user"),
   Op("impersonate-user", b, {}, "user"),
   Op("revoke-user-sessions", a, {}, "user"),
   Op("revoke-user-session", b, {}, "user"),
   Op("list-users", Nobody, {}, "user")}

MCOverrideWrites == {[user |-> a, key |-> <<"user", "set-role">>, effect |-> "DENY"]}

Cast(roles, sessions, busy, running) ==
  /\ role = roles
  /\ rows = [u \in Users |-> {}]
  /\ session = sessions
  /\ request = [r \in Requests |->
                 [at |-> IF r \in busy THEN "idle" ELSE "done",
                  op |-> Nobody, session |-> Nobody, barred |-> {}]]
  /\ cli = [c \in Clis |->
             [at |-> IF c \in running THEN "idle" ELSE "refused", user |-> Nobody]]

Roles(ra, rb, r3, r4) ==
  [u \in Users |-> CASE u = a -> ra [] u = b -> rb [] u = n1 -> r3 [] u = n2 -> r4]

Opened(owners) ==
  [s \in Sessions |->
    LET u == owners[s] IN
    IF u = Nobody THEN FreeSession ELSE Session("open", u, Nobody, TRUE, "admin")]

Owners(u1, u2, u3) ==
  [s \in Sessions |-> CASE s = s1 -> u1 [] s = s2 -> u2 [] s = s3 -> u3]

MCInit ==
  /\ \/ Cast(Roles("admin", "admin", "unborn", "gone"),
             Opened(Owners(a, b, Nobody)), {r1, r2}, {})
     \/ Cast(Roles("admin", "gone", "unborn", "unborn"),
             Opened(Owners(a, Nobody, Nobody)), {r1}, {c1})
     \/ Cast(Roles("gone", "gone", "unborn", "unborn"),
             Opened(Owners(Nobody, Nobody, Nobody)), {}, {c1, c2})
  /\ Init
  /\ (\E r \in Requests : request[r].at = "done") => \A w \in OverrideWrites : write[w] = "done"

MCSpec == MCInit /\ [][Next]_vars
=============================================================================
