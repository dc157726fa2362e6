----------------------------- MODULE AdminRoutes -----------------------------
(***************************************************************************)
(* The /auth/admin/* routes (BetterAuthRouteRegistrar): the permission check *)
(* in front of Better Auth's handler, the handler, and after it the refresh  *)
(* of the cached permissions and the end of the sessions that carry an old   *)
(* role.  Each is a step of the request; other requests, sign-ins and        *)
(* override writes run in between.                                          *)
(*                                                                         *)
(* Better Auth keeps a session as a row in PostgreSQL and as a copy in Redis *)
(* with a snapshot of the user's role; the copy is what it reads while there *)
(* is one.  mayRead is what PermissionCache promises (FreshPermissions): a   *)
(* request sees a role and rows at least as recent as the last refresh.      *)
(***************************************************************************)
EXTENDS PolicyRules

CONSTANTS
  Users, Sessions, Requests,
  Nobody,
  Operations(_),    \* bound: the [path, user, fields, data, role] r may ask for
  OverrideWrites,   \* bound: the override writes, [user, key, effect]
  Leaving,          \* bound: the sessions whose browser may sign out, or
                    \*   whose copy in Redis may be evicted
  Failures          \* whether Redis, PostgreSQL or the process may fail

\* A body that names no user is one of a path that asks for none.  op.fields are
\* the fields of the body, for update-user those of body.data; op.data are those
\* of body.data for create-user.  "banned" stands for the three fields of a ban.
ASSUME AdminAssumption ==
  /\ Nobody \notin Users /\ "cli" \notin Users \cup {Nobody}
  /\ {"unborn", "gone", "none"} \cap RoleNames = {}
  /\ \A r \in Requests : \A op \in Operations(r) :
       /\ op \in [path : STRING, user : Users \cup {Nobody},
                 fields : SUBSET {"role", "banned"}, data : SUBSET {"role", "banned"},
                 role : RoleNames]
       /\ op.user \in Users \/ op.path \in {"list-users", "has-permission", "stop-impersonating"}
       /\ op.path = "set-role" => op.fields = {"role"}
       /\ op.data # {} => op.path = "create-user"
  /\ OverrideWrites \subseteq [user : Users, key : PermissionKeys, effect : {"ALLOW", "DENY"}]

VARIABLES
  role,          \* the stored role of each user, "unborn" or "gone"
  rows,          \* the override rows of each user
  banned,        \* the users who may not sign in
  mayRead,       \* what buildForUser may answer: [roles, rows], a set of each
  session,
  request,
  write,         \* the progress of each override write
  unpublished,   \* users with a change whose refresh failed
  unrevoked      \* users with a role change whose revocation did not happen

facts == <<role, rows, banned, mayRead>>
lapses == <<unpublished, unrevoked>>
adminVars == <<facts, session, request, write, lapses>>

Exists(u) == role[u] \in RoleNames

\* Variant of Stored: no row reads as a list without a name in it.
StoredEmpty(r) == {r} \cap RoleNames

\* The role column as the repository reads it: no row reads as no role.
Stored(r) == IF r \in RoleNames THEN {r} ELSE NoRole

OverrideRows == [key : PermissionKeys, effect : {"ALLOW", "DENY"}]

\* The rows of a user as PolicyRules reads them.
Overrides(rs) ==
  [k \in PermissionKeys |->
    IF \E row \in rs : row.key = k THEN (CHOOSE row \in rs : row.key = k).effect
    ELSE "none"]

Committed(u) == [roles |-> {Stored(role[u])}, rows |-> {rows[u]}]

Session(at, u, by, row, copy) ==
  [at |-> at, user |-> u, by |-> by, row |-> row, copy |-> copy, late |-> FALSE]

FreeSession == Session("free", Nobody, Nobody, FALSE, "none")
EndedSession == Session("ended", Nobody, Nobody, FALSE, "none")

\* findSession falls back to PostgreSQL when the key is absent.
Live(s) ==
  /\ session[s].at = "open"
  /\ session[s].row \/ session[s].copy # "none"

SessionRole(s) ==
  IF session[s].copy # "none" THEN session[s].copy ELSE role[session[s].user]

\* The roles of req.user, which AuthGuard fills in from the session.
HydrateUser(s) == Stored(SessionRole(s))

-----------------------------------------------------------------------------
(* Effects shared by the routes and the sign-ins *)

\* A sign-in that has read the user before a write opens its session after it.
Overtaken(u) ==
  [s \in Sessions |->
    IF session[s].at = "opening" /\ session[s].user = u
    THEN [session[s] EXCEPT !.late = TRUE] ELSE session[s]]

\* Better Auth ends the sessions of u, the rows and the copies.
EndSessionsOf(u) ==
  /\ session' = [s \in Sessions |->
                  IF session[s].at = "open" /\ session[s].user = u
                  THEN EndedSession ELSE session[s]]
  /\ unrevoked' = unrevoked \ {u}

RoleWritten(u, r) ==
  /\ role' = [role EXCEPT ![u] = r]
  /\ mayRead' = [mayRead EXCEPT ![u].roles = @ \cup {Stored(r)}]

\* The rows that refer to the user go with it.
UserDeleted(u) ==
  /\ role' = [role EXCEPT ![u] = "gone"]
  /\ rows' = [rows EXCEPT ![u] = {}]
  /\ banned' = banned \ {u}
  /\ mayRead' = [mayRead EXCEPT ![u] = [roles |-> @.roles \cup {NoRole},
                                        rows |-> @.rows \cup {{}}]]

\* refreshForUser
Published(u) ==
  /\ mayRead' = [mayRead EXCEPT ![u] = Committed(u)]
  /\ unpublished' = unpublished \ {u}

-----------------------------------------------------------------------------
(* The permission check *)

AdminPermissionByPath(path) ==
  CASE path = "set-role" -> {<<"user", "set-role">>}
    [] path = "get-user" -> {<<"user", "get">>}
    [] path = "create-user" -> {<<"user", "create">>}
    [] path = "update-user" -> {<<"user", "update">>}
    [] path = "list-users" -> {<<"user", "list">>}
    [] path = "list-user-sessions" -> {<<"session", "list">>}
    [] path \in {"ban-user", "unban-user"} -> {<<"user", "ban">>}
    [] path \in {"impersonate-user", "stop-impersonating"}
         -> {<<"user", "impersonate">>}
    [] path \in {"revoke-user-session", "revoke-user-sessions"}
         -> {<<"session", "revoke">>}
    [] path = "remove-user" -> {<<"user", "delete">>}
    [] path = "set-user-password" -> {<<"user", "set-password">>}
    [] path = "has-permission" -> {<<"user", "manage">>}
    [] OTHER -> {}

\* Variant of RequiredPermissions that looks at the path only.
RequiredByPath(op) == AdminPermissionByPath(op.path)

\* body.data is looked at for update-user only: op.data needs nothing more.
RequiredPermissions(op) ==
  AdminPermissionByPath(op.path) \cup
  {<<"user", "set-role">> : f \in {g \in op.fields \cap {"role"} :
                              op.path \in {"create-user", "update-user"}}} \cup
  {<<"user", "ban">> : f \in {g \in op.fields \cap {"banned"} :
                              op.path = "update-user"}}

AuthorizeAdminRoute(s, op) ==
  /\ AdminPermissionByPath(op.path) # {}
  /\ Live(s)
  /\ \E stored \in mayRead[session[s].user].roles,
        rs \in mayRead[session[s].user].rows :
       Passes(RequiredPermissions(op), "AND", stored, Overrides(rs))

\* What no answer of buildForUser could have granted u.
Barred(u) ==
  {k \in PermissionKeys :
    \A stored \in mayRead[u].roles, rs \in mayRead[u].rows :
      ~Has(k, stored, Overrides(rs))}

\* handle, up to the call of Better Auth.  A refused request changes nothing.
\* No browser holds the token of the session that the CLI's sign-up opens.
Gate(r, s, op) ==
  /\ request[r].at = "idle"
  /\ session[s].by # "cli"
  /\ AuthorizeAdminRoute(s, op)
  /\ request' = [request EXCEPT ![r] =
                  [at |-> "forward", op |-> op, session |-> s,
                   barred |-> Barred(session[s].user)]]
  /\ UNCHANGED <<facts, session, write, lapses>>

-----------------------------------------------------------------------------
(* Better Auth's handler *)

\* Variant of AuthorizationChanging without update-user.
AuthorizationChangingPaths == {"set-role", "ban-user", "unban-user", "remove-user"}

\* AUTHORIZATION_CHANGING, with a userId in the body.
AuthorizationChanging ==
  {"set-role", "update-user", "ban-user", "unban-user", "remove-user"}

\* Variant of ChangesRole that forgets update-user.
ChangesRoleBySetRole(op) == op.path = "set-role"

ChangesRole(op) ==
  op.path = "set-role" \/ (op.path = "update-user" /\ "role" \in op.fields)

ActsAsAdmin(r) ==
  Live(request[r].session) /\ SessionRole(request[r].session) = "admin"

\* Its own check is on the role alone, as the session has it.
Handles(r, paths) ==
  /\ request[r].at = "forward"
  /\ request[r].op.path \in paths
  /\ IF request[r].op.path = "stop-impersonating"
     THEN Live(request[r].session) ELSE ActsAsAdmin(r)
  /\ request' = [request EXCEPT ![r].at =
                  IF request[r].op.path \in AuthorizationChanging
                  THEN "refresh" ELSE "done"]
  /\ UNCHANGED write

\* It answers an error, whatever the reason.
Declines(r) ==
  /\ request[r].at = "forward"
  /\ request' = [request EXCEPT ![r].at = "declined"]
  /\ UNCHANGED <<facts, session, write, lapses>>

ChangesUser(r) ==
  LET op == request[r].op IN
  /\ Handles(r, {"set-role", "update-user"})
  /\ Exists(op.user)
  /\ IF "role" \in op.fields
     THEN RoleWritten(op.user, op.role) /\ session' = Overtaken(op.user)
     ELSE UNCHANGED <<role, mayRead, session>>
  /\ banned' = IF "banned" \in op.fields THEN banned \cup {op.user} ELSE banned
  /\ UNCHANGED <<rows, lapses>>

BansUser(r) ==
  /\ Handles(r, {"ban-user"})
  /\ Exists(request[r].op.user)
  /\ banned' = banned \cup {request[r].op.user}
  /\ EndSessionsOf(request[r].op.user)
  /\ UNCHANGED <<role, rows, mayRead, unpublished>>

UnbansUser(r) ==
  /\ Handles(r, {"unban-user"})
  /\ banned' = banned \ {request[r].op.user}
  /\ UNCHANGED <<role, rows, mayRead, session, lapses>>

RemovesUser(r) ==
  /\ Handles(r, {"remove-user"})
  /\ Exists(request[r].op.user)
  /\ UserDeleted(request[r].op.user)
  /\ EndSessionsOf(request[r].op.user)
  /\ UNCHANGED unpublished

\* body.data is spread over the new user, its role and its ban too.
CreatesUser(r) ==
  LET op == request[r].op IN
  /\ Handles(r, {"create-user"})
  /\ role[op.user] = "unborn"
  /\ role' = [role EXCEPT ![op.user] =
               IF "role" \in op.fields \cup op.data THEN op.role ELSE DefaultRole]
  /\ mayRead' = [mayRead EXCEPT ![op.user].roles = {Stored(role'[op.user])}]
  /\ banned' = IF "banned" \in op.data THEN banned \cup {op.user} ELSE banned
  /\ UNCHANGED <<rows, session, lapses>>

Impersonates(r, s) ==
  LET u == request[r].op.user IN
  /\ Handles(r, {"impersonate-user"})
  /\ Exists(u)
  /\ session[s] = FreeSession
  /\ session' = [session EXCEPT ![s] =
                  Session("open", u, session[request[r].session].user, TRUE, role[u])]
  /\ UNCHANGED <<facts, lapses>>

StopsImpersonating(r) ==
  /\ Handles(r, {"stop-impersonating"})
  /\ session[request[r].session].by # Nobody
  /\ session' = [session EXCEPT ![request[r].session] = EndedSession]
  /\ UNCHANGED <<facts, lapses>>

RevokesSessions(r) ==
  /\ Handles(r, {"revoke-user-sessions"})
  /\ EndSessionsOf(request[r].op.user)
  /\ UNCHANGED <<facts, unpublished>>

RevokesSession(r, s) ==
  /\ Handles(r, {"revoke-user-session"})
  /\ session[s].at = "open" /\ session[s].user = request[r].op.user
  /\ session' = [session EXCEPT ![s] = EndedSession]
  /\ UNCHANGED <<facts, lapses>>

\* The routes that read, and set-user-password.
ChangesNothing(r) ==
  /\ Handles(r, {"get-user", "list-users", "list-user-sessions",
                 "has-permission", "set-user-password"})
  /\ UNCHANGED <<facts, session, lapses>>

-----------------------------------------------------------------------------
(* invalidateAuthorizationAfterMutation *)

AfterRefresh(op) == IF ChangesRole(op) THEN "revoke" ELSE "done"

Refresh(r) ==
  /\ request[r].at = "refresh"
  /\ Published(request[r].op.user)
  /\ request' = [request EXCEPT ![r].at = AfterRefresh(request[r].op)]
  /\ UNCHANGED <<role, rows, banned, session, write, unrevoked>>

\* refreshForUser throws, the answer is AUTH_FAILURE; or the process dies.
RefreshFails(r) ==
  LET op == request[r].op IN
  /\ Failures
  /\ request[r].at = "refresh"
  /\ request' = [request EXCEPT ![r].at = "done"]
  /\ unpublished' = unpublished \cup {op.user}
  /\ unrevoked' = IF ChangesRole(op) THEN unrevoked \cup {op.user} ELSE unrevoked
  /\ UNCHANGED <<facts, session, write>>

\* revokeUserSessions, with the headers of the request.
Revoke(r) ==
  /\ request[r].at = "revoke"
  /\ ActsAsAdmin(r)
  /\ EndSessionsOf(request[r].op.user)
  /\ request' = [request EXCEPT ![r].at = "done"]
  /\ UNCHANGED <<facts, write, unpublished>>

\* It throws: Better Auth does not know the session any more or as an admin's,
\* or a store fails.  The error is logged, the answer stays the one of success.
RevokeFails(r) ==
  /\ request[r].at = "revoke"
  /\ Failures \/ ~ActsAsAdmin(r)
  /\ unrevoked' = unrevoked \cup {request[r].op.user}
  /\ request' = [request EXCEPT ![r].at = "done"]
  /\ UNCHANGED <<facts, session, write, unpublished>>

-----------------------------------------------------------------------------
(* The sessions, and the writes of the authorization controller *)

\* A sign-in reads the user, with the password, ...
SignInReads(s, u) ==
  /\ session[s] = FreeSession
  /\ Exists(u) /\ u \notin banned
  /\ session' = [session EXCEPT ![s] = Session("opening", u, Nobody, FALSE, role[u])]
  /\ UNCHANGED <<facts, request, write, lapses>>

\* ... and then creates the session, if the user's row is still there.
SignInCreates(s) ==
  /\ session[s].at = "opening"
  /\ session' = [session EXCEPT ![s] =
                  IF Exists(@.user) THEN [@ EXCEPT !.at = "open", !.row = TRUE]
                                    ELSE EndedSession]
  /\ UNCHANGED <<facts, request, write, lapses>>

SignsOut(s) ==
  /\ s \in Leaving /\ Live(s) /\ session[s].by # "cli"
  /\ session' = [session EXCEPT ![s] = EndedSession]
  /\ UNCHANGED <<facts, request, write, lapses>>

Evicted(s) ==
  /\ s \in Leaving
  /\ session[s].at = "open" /\ session[s].copy # "none"
  /\ session' = [session EXCEPT ![s].copy = "none"]
  /\ UNCHANGED <<facts, request, write, lapses>>

\* The rolling refresh writes back what was read: the copy stays as it is, and
\* a session that had none gets the user as PostgreSQL has it.
RollsForward(s) ==
  /\ session[s].at = "open" /\ session[s].row /\ session[s].copy = "none"
  /\ session[s].by # "cli"
  /\ session' = [session EXCEPT ![s].copy = role[session[s].user]]
  /\ UNCHANGED <<facts, request, write, lapses>>

OverrideStored(w) ==
  /\ write[w] = "idle"
  /\ Exists(w.user)
  /\ rows' = [rows EXCEPT ![w.user] =
              {row \in @ : row.key # w.key} \cup {[key |-> w.key, effect |-> w.effect]}]
  /\ mayRead' = [mayRead EXCEPT ![w.user].rows = @ \cup {rows'[w.user]}]
  /\ write' = [write EXCEPT ![w] = "refresh"]
  /\ UNCHANGED <<role, banned, session, request, lapses>>

OverrideRefreshed(w) ==
  /\ write[w] = "refresh"
  /\ Published(w.user)
  /\ write' = [write EXCEPT ![w] = "done"]
  /\ UNCHANGED <<role, rows, banned, session, request, unrevoked>>

OverrideRefreshFails(w) ==
  /\ Failures
  /\ write[w] = "refresh"
  /\ unpublished' = unpublished \cup {w.user}
  /\ write' = [write EXCEPT ![w] = "done"]
  /\ UNCHANGED <<facts, session, request, unrevoked>>

-----------------------------------------------------------------------------
RequestStep(r) ==
  \/ \E s \in Sessions, op \in Operations(r) : Gate(r, s, op)
  \/ Declines(r)
  \/ ChangesUser(r)
  \/ BansUser(r)
  \/ UnbansUser(r)
  \/ RemovesUser(r)
  \/ CreatesUser(r)
  \/ \E s \in Sessions : Impersonates(r, s) \/ RevokesSession(r, s)
  \/ StopsImpersonating(r)
  \/ RevokesSessions(r)
  \/ ChangesNothing(r)
  \/ Refresh(r) \/ RefreshFails(r)
  \/ Revoke(r) \/ RevokeFails(r)

SessionStep(s) ==
  \/ \E u \in Users : SignInReads(s, u)
  \/ SignInCreates(s) \/ SignsOut(s) \/ Evicted(s) \/ RollsForward(s)

AdminNext ==
  \/ \E r \in Requests : RequestStep(r)
  \/ \E s \in Sessions : SessionStep(s)
  \/ \E w \in OverrideWrites :
       OverrideStored(w) \/ OverrideRefreshed(w) \/ OverrideRefreshFails(w)

\* Users and sessions as they may be found; all is published.  A slot that is
\* "done" takes no part.
AdminInit ==
  /\ role \in [Users -> RoleNames \cup {"unborn", "gone"}]
  /\ rows \in [Users -> SUBSET OverrideRows]
  /\ banned = {}
  /\ mayRead = [u \in Users |-> Committed(u)]
  /\ session \in [Sessions -> {FreeSession} \cup
                   {Session("open", u, Nobody, TRUE, role[u]) : u \in {v \in Users : Exists(v)}}]
  /\ request \in [Requests ->
       {[at |-> x, op |-> Nobody, session |-> Nobody, barred |-> {}] : x \in {"idle", "done"}}]
  /\ write \in [OverrideWrites -> {"idle", "done"}]
  /\ unpublished = {} /\ unrevoked = {}

-----------------------------------------------------------------------------
RequestRecord ==
  [at : {"idle", "forward", "declined", "refresh", "revoke", "done"},
   op : {Nobody} \cup UNION {Operations(r) : r \in Requests}, session : Sessions \cup {Nobody},
   barred : SUBSET PermissionKeys]

SessionRecord ==
  [at : {"free", "opening", "open", "ended"}, user : Users \cup {Nobody},
   by : Users \cup {Nobody, "cli"}, row : BOOLEAN,
   copy : RoleNames \cup {"none"}, late : BOOLEAN]

\* The types of the routes' variables.
AdminTypeOK ==
  /\ role \in [Users -> RoleNames \cup {"unborn", "gone"}]
  /\ rows \in [Users -> SUBSET OverrideRows]
  /\ banned \subseteq Users
  /\ mayRead \in [Users -> [roles : SUBSET StoredRoles, rows : SUBSET SUBSET OverrideRows]]
  /\ session \in [Sessions -> SessionRecord]
  /\ request \in [Requests -> RequestRecord]
  /\ write \in [OverrideWrites -> {"idle", "refresh", "done"}]
  /\ unpublished \subseteq Users /\ unrevoked \subseteq Users

\* What a handler does for r, as the permissions that it takes.  A ban, a removal
\* and the end of an impersonation include the end of the sessions; of the changes
\* of update-user only those of roles and bans leave a trace in the state.
Taken(r) ==
  {k \in PermissionKeys :
    \/ /\ k = <<"user", "set-role">>
       /\ \E u \in Users : /\ role'[u] \in RoleNames \ {role[u]}
                           /\ role[u] # "unborn" \/ role'[u] # DefaultRole
    \/ k = <<"user", "create">> /\ \E u \in Users : role[u] = "unborn" /\ role'[u] # "unborn"
    \/ k = <<"user", "delete">> /\ \E u \in Users : role[u] # "gone" /\ role'[u] = "gone"
    \/ k = <<"user", "ban">> /\ \E u \in Users : /\ role'[u] # "gone"
                                                 /\ (u \in banned) # (u \in banned')
    \/ /\ k = <<"user", "impersonate">>
       /\ \E s \in Sessions : session'[s].by \in Users \ {session[s].by}
    \/ /\ k = <<"session", "revoke">>
       /\ \E s \in Sessions : session[s].at = "open" /\ session'[s].at = "ended"
       /\ request[r].op.path \notin {"ban-user", "remove-user", "stop-impersonating"}
    \/ k = <<"user", "update">> /\ request[r].op.path = "update-user"
    \/ k = <<"user", "set-password">> /\ request[r].op.path = "set-user-password"}

\* What create-user does of itself with the fields of body.data, which
\* requiredPermissions does not look at.
Ungated(op) ==
  {<<"user", "set-role">> : f \in (op.data \ op.fields) \cap {"role"}} \cup
  {<<"user", "ban">> : f \in op.data \cap {"banned"}}

HandlerActed(r) == request[r].at = "forward" /\ request'[r].at \in {"refresh", "done"}

\* An administrator does through /admin/* nothing that was denied to it when the
\* request came in, by whichever route, path or field of the body: a DENY that
\* is in force is not got round, and a demotion that is in force neither.  The one
\* exception is the role and the ban in the data of create-user.
DenialsAreObeyed ==
  [][\A r \in Requests :
       HandlerActed(r) => request[r].barred \cap Taken(r) \subseteq Ungated(request[r].op)]_adminVars

\* "an effective-permission check in front of /admin/* so per-user DENY overrides
\* stay authoritative" (better-auth.registrar.ts:36): the same without exception.
DenialsStayAuthoritative ==
  [][\A r \in Requests : HandlerActed(r) => request[r].barred \cap Taken(r) = {}]_adminVars

Requesting(u, stages) ==
  \E r \in Requests : request[r].at \in stages /\ request[r].op.user = u

\* Nobody is judged on rights that a write has replaced, unless the request that
\* wrote them has still to refresh or its refresh has failed.
RightsAreInForce ==
  \A u \in Users : Exists(u) /\ mayRead[u] # Committed(u) =>
    \/ u \in unpublished
    \/ Requesting(u, {"refresh"})
    \/ \E w \in OverrideWrites : write[w] = "refresh" /\ w.user = u

\* A session shows other roles than the user's only while the request that
\* changed the role is under way, after its revocation failed, or if its
\* sign-in had read the user before the change.
StaleRolesAreExcused ==
  \A s \in Sessions :
    Live(s) /\ HydrateUser(s) # Stored(role[session[s].user]) =>
      \/ session[s].late
      \/ session[s].user \in unrevoked
      \/ \E r \in Requests : /\ request[r].at \in {"refresh", "revoke"}
                             /\ request[r].op.user = session[s].user
                             /\ ChangesRole(request[r].op)

\* "therefore revokes the affected user's sessions, so the next request
\* re-authenticates against the new role": once the request is answered no
\* session opened before it shows another role (docs/auth-authorization.md).
RoleChangesReachSessions ==
  \A s \in Sessions :
    Live(s) /\ ~session[s].late /\ HydrateUser(s) # Stored(role[session[s].user])
      => Requesting(session[s].user, {"refresh", "revoke"})
=============================================================================
