------------------------ MODULE AdminBootstrapProofs ------------------------
(***************************************************************************)
(* Proofs about the admin routes and the bootstrap CLI, for any users,      *)
(* sessions, requests, override writes and runs of the CLI, with and        *)
(* without failures.                                                        *)
(***************************************************************************)
EXTENDS AdminBootstrap, TLAPS

-----------------------------------------------------------------------------
(* The inductive invariant.                                                *)

\* What a request that has passed the check carries with it.
RequestsInv ==
  \A r \in Requests : request[r].at \in {"forward", "refresh", "revoke"} =>
    /\ request[r].op \in Operations(r) /\ request[r].session \in Sessions
    /\ request[r].barred \cap RequiredPermissions(request[r].op) = {}
    /\ request[r].at # "forward" => request[r].op.path \in AuthorizationChanging
    /\ request[r].at = "revoke" => ChangesRole(request[r].op)

\* A session has a user, a row only while the user's own row is there, and the
\* role that its sign-in read, unless that was overtaken.
SessionsInv ==
  \A s \in Sessions :
    /\ session[s].at \in {"opening", "open"} =>
         session[s].user \in Users /\ role[session[s].user] # "unborn"
    /\ session[s].row => session[s].at = "open" /\ Exists(session[s].user)
    /\ session[s].at = "opening" =>
         /\ session[s].copy \in RoleNames
         /\ session[s].copy = role[session[s].user] \/ ~Exists(session[s].user)
              \/ session[s].late
    /\ session[s].by = "cli" => session[s].at = "open" /\ session[s].copy = "none"

\* Nobody has written overrides of a user there has not been yet.
UnbornInv == \A u \in Users : role[u] = "unborn" => mayRead[u].rows = {rows[u]}

\* How a run of the CLI stands to its account.
RunsInv ==
  \A c \in Clis :
    /\ cli[c].at \in {"promoting", "cleaning-up"} =>
         /\ cli[c].user \in Users /\ role[cli[c].user] # "unborn"
         /\ creator[cli[c].user] = c
    /\ cli[c].at = "created" =>
         /\ cli[c].user \in Users /\ role[cli[c].user] # "unborn"
         /\ \A s \in Sessions : session[s].by = "cli" => session[s].user # cli[c].user
    /\ cli[c].at = "failed" => cli[c].user \in Users /\ role[cli[c].user] = "gone"

RoutesInv ==
  /\ AdminTypeOK /\ RequestsInv /\ SessionsInv /\ UnbornInv
  /\ RightsAreInForce /\ StaleRolesAreExcused

IInv == RoutesInv /\ TypeOK /\ RunsInv

-----------------------------------------------------------------------------
(* Operations and requests                                                  *)

LEMMA OperationFacts ==
  ASSUME NEW r \in Requests, NEW op \in Operations(r)
  PROVE  /\ op.user \in Users \cup {Nobody} /\ op.role \in RoleNames
         /\ op.fields \subseteq {"role", "banned"}
         /\ op.path \notin {"list-users", "has-permission", "stop-impersonating"}
              => op.user \in Users
  BY AdminAssumption

\* A check that passed has found every key it asked for with an answer that
\* buildForUser could give.
LEMMA PassedIsNotBarred ==
  ASSUME NEW s, NEW op, AuthorizeAdminRoute(s, op)
  PROVE  Barred(session[s].user) \cap RequiredPermissions(op) = {}
  BY DEF AuthorizeAdminRoute, Barred, Passes

\* What Better Auth's handler is called with.
LEMMA Handled ==
  ASSUME AdminTypeOK, RequestsInv, NEW r \in Requests, NEW paths, Handles(r, paths)
  PROVE  /\ request[r].at = "forward" /\ request[r].op \in Operations(r)
         /\ request[r].op.path \in paths /\ request[r].session \in Sessions
         /\ write' = write
         /\ \A q \in Requests \ {r} : request'[q] = request[q]
         /\ request'[r] = [request[r] EXCEPT !.at =
              IF request[r].op.path \in AuthorizationChanging THEN "refresh" ELSE "done"]
         /\ request' \in [Requests -> RequestRecord]
         /\ request[r].op.role \in RoleNames
         /\ request[r].op.path \notin {"list-users", "has-permission", "stop-impersonating"}
              => request[r].op.user \in Users
  <1>1. request[r] \in RequestRecord
    BY DEF AdminTypeOK
  <1>2. /\ request[r].at = "forward" /\ request[r].op \in Operations(r)
        /\ request[r].op.path \in paths /\ request[r].session \in Sessions
        /\ write' = write
    BY DEF RequestsInv, Handles
  <1>3. /\ \A q \in Requests \ {r} : request'[q] = request[q]
        /\ request'[r] = [request[r] EXCEPT !.at =
             IF request[r].op.path \in AuthorizationChanging THEN "refresh" ELSE "done"]
        /\ request' \in [Requests -> RequestRecord]
    BY <1>1 DEF AdminTypeOK, Handles, RequestRecord
  <1>4. QED
    BY <1>2, <1>3, OperationFacts

LEMMA RequestTypes ==
  ASSUME AdminTypeOK, RequestsInv, AdminNext
  PROVE  request' \in [Requests -> RequestRecord]
  <1> USE DEF AdminTypeOK
  <1>1. ASSUME NEW r \in Requests, NEW s \in Sessions, NEW op \in Operations(r), Gate(r, s, op)
        PROVE  request' \in [Requests -> RequestRecord]
    BY <1>1 DEF Gate, RequestRecord, Barred
  <1>2. ASSUME NEW r \in Requests, NEW paths, Handles(r, paths)
        PROVE  request' \in [Requests -> RequestRecord]
    BY <1>2, Handled
  <1>3. ASSUME NEW r \in Requests,
               Declines(r) \/ Refresh(r) \/ RefreshFails(r) \/ Revoke(r) \/ RevokeFails(r)
        PROVE  request' \in [Requests -> RequestRecord]
    <2>1. request[r] \in RequestRecord
      OBVIOUS
    <2>2. PICK at \in {"done", "declined", "revoke"} : request' = [request EXCEPT ![r].at = at]
      BY <1>3 DEF Declines, Refresh, AfterRefresh, RefreshFails, Revoke, RevokeFails
    <2>3. QED
      BY <2>1, <2>2 DEF RequestRecord
  <1>4. ASSUME NEW s \in Sessions, SessionStep(s)
        PROVE  request' = request
    BY <1>4 DEF SessionStep, SignInReads, SignInCreates, SignsOut, Evicted, RollsForward
  <1>5. ASSUME NEW w \in OverrideWrites,
               OverrideStored(w) \/ OverrideRefreshed(w) \/ OverrideRefreshFails(w)
        PROVE  request' = request
    BY <1>5 DEF OverrideStored, OverrideRefreshed, OverrideRefreshFails
  <1>6. QED
    BY <1>1, <1>2, <1>3, <1>4, <1>5
       DEF AdminNext, RequestStep, ChangesUser, BansUser, UnbansUser, RemovesUser, CreatesUser,
           Impersonates, RevokesSession, StopsImpersonating, RevokesSessions, ChangesNothing

LEMMA RequestsStep ==
  ASSUME AdminTypeOK, RequestsInv, AdminNext
  PROVE  RequestsInv'
  <1>1. ASSUME NEW r \in Requests, NEW s \in Sessions, NEW op \in Operations(r), Gate(r, s, op)
        PROVE  RequestsInv'
    <2>1. Barred(session[s].user) \cap RequiredPermissions(op) = {}
      BY <1>1, PassedIsNotBarred DEF Gate
    <2>2. QED
      BY <1>1, <2>1 DEF AdminTypeOK, RequestsInv, Gate
  <1>2. ASSUME NEW r \in Requests, NEW paths, Handles(r, paths)
        PROVE  RequestsInv'
    <2>1. request[r] \in RequestRecord
      BY DEF AdminTypeOK
    <2>2. /\ request[r].at = "forward" /\ request[r].op \in Operations(r)
          /\ \A q \in Requests \ {r} : request'[q] = request[q]
          /\ request'[r] = [request[r] EXCEPT !.at =
               IF request[r].op.path \in AuthorizationChanging THEN "refresh" ELSE "done"]
      BY <1>2, Handled
    <2>3. QED
      BY <2>1, <2>2 DEF RequestsInv, RequestRecord
  <1>3. ASSUME NEW r \in Requests,
               Declines(r) \/ Refresh(r) \/ RefreshFails(r) \/ Revoke(r) \/ RevokeFails(r)
        PROVE  RequestsInv'
    <2>1. request[r] \in RequestRecord
      BY DEF AdminTypeOK
    <2>2. CASE request' = [request EXCEPT ![r].at = "done"]
      BY <2>1, <2>2 DEF AdminTypeOK, RequestsInv, RequestRecord
    <2>3. CASE request' = [request EXCEPT ![r].at = "revoke"] /\ Refresh(r) /\ ChangesRole(request[r].op)
      BY <2>1, <2>3 DEF AdminTypeOK, RequestsInv, RequestRecord, Refresh
    <2>4. CASE request' = [request EXCEPT ![r].at = "declined"]
      BY <2>1, <2>4 DEF AdminTypeOK, RequestsInv, RequestRecord
    <2>5. QED
      BY <1>3, <2>2, <2>3, <2>4
         DEF Declines, Refresh, AfterRefresh, RefreshFails, Revoke, RevokeFails
  <1>4. ASSUME NEW s \in Sessions, SessionStep(s)
        PROVE  RequestsInv'
    BY <1>4 DEF RequestsInv, SessionStep, SignInReads, SignInCreates, SignsOut, Evicted, RollsForward
  <1>5. ASSUME NEW w \in OverrideWrites,
               OverrideStored(w) \/ OverrideRefreshed(w) \/ OverrideRefreshFails(w)
        PROVE  RequestsInv'
    BY <1>5 DEF RequestsInv, OverrideStored, OverrideRefreshed, OverrideRefreshFails
  <1>6. QED
    BY <1>1, <1>2, <1>3, <1>4, <1>5
       DEF AdminNext, RequestStep, ChangesUser, BansUser, UnbansUser, RemovesUser, CreatesUser,
           Impersonates, RevokesSession, StopsImpersonating, RevokesSessions, ChangesNothing

-----------------------------------------------------------------------------
(* What the handlers do to users and sessions                               *)

\* The role column always reads as a stored role.
LEMMA StoredTypes ==
  ASSUME NEW r
  PROVE  Stored(r) \in StoredRoles
  <1>1. CASE r \in RoleNames
    <2>1. {r} \in SUBSET (RoleNames \cup UnknownNames) /\ r \in {r}
      BY <1>1
    <2>2. {r} # {}
      BY <2>1
    <2>3. Stored(r) = {r}
      BY <1>1 DEF Stored
    <2>4. \A x : x \in SUBSET (RoleNames \cup UnknownNames) /\ x # {} => x \in StoredRoles
      BY Zenon DEF StoredRoles
    <2>5. QED
      BY <2>1, <2>2, <2>3, <2>4
  <1>2. CASE r \notin RoleNames
    BY <1>2 DEF Stored, StoredRoles
  <1>3. QED
    BY <1>1, <1>2

\* A user that is there is known and has one of the roles.
LEMMA RolesAreNamed ==
  ASSUME AdminTypeOK, NEW u \in Users
  PROVE  /\ Exists(u) <=> role[u] \in RoleNames
         /\ role[u] \notin {"unborn", "gone"} => Exists(u)
         /\ Exists(u) => role[u] \notin {"unborn", "gone", "none"}
  BY AdminAssumption DEF AdminTypeOK, Exists

\* A role that is written is one of the roles.
LEMMA RoleWrittenTypes ==
  ASSUME AdminTypeOK, NEW u \in Users, NEW r \in RoleNames, RoleWritten(u, r)
  PROVE  /\ role' \in [Users -> RoleNames \cup {"unborn", "gone"}]
         /\ mayRead' \in [Users -> [roles : SUBSET StoredRoles, rows : SUBSET SUBSET OverrideRows]]
  <1>1. Stored(r) \in StoredRoles
    BY StoredTypes
  <1>2. QED
    BY <1>1 DEF AdminTypeOK, RoleWritten

\* A new account: it has a role, and its roles are read from now on.
LEMMA NewAccountTypes ==
  ASSUME AdminTypeOK, NEW u \in Users, NEW r \in RoleNames,
         role' = [role EXCEPT ![u] = r],
         mayRead' = [mayRead EXCEPT ![u].roles = {Stored(r)}]
  PROVE  /\ role' \in [Users -> RoleNames \cup {"unborn", "gone"}]
         /\ mayRead' \in [Users -> [roles : SUBSET StoredRoles, rows : SUBSET SUBSET OverrideRows]]
  <1>1. Stored(r) \in StoredRoles
    BY StoredTypes
  <1>2. QED
    BY <1>1 DEF AdminTypeOK

LEMMA DeletedTypes ==
  ASSUME AdminTypeOK, NEW u \in Users, UserDeleted(u)
  PROVE  /\ role' \in [Users -> RoleNames \cup {"unborn", "gone"}]
         /\ rows' \in [Users -> SUBSET OverrideRows]
         /\ banned' \subseteq Users
         /\ mayRead' \in [Users -> [roles : SUBSET StoredRoles, rows : SUBSET SUBSET OverrideRows]]
  BY DEF AdminTypeOK, UserDeleted, StoredRoles

LEMMA PublishedTypes ==
  ASSUME AdminTypeOK, NEW u \in Users, Published(u)
  PROVE  /\ mayRead' \in [Users -> [roles : SUBSET StoredRoles, rows : SUBSET SUBSET OverrideRows]]
         /\ unpublished' \subseteq Users
  <1>1. Stored(role[u]) \in StoredRoles
    BY StoredTypes
  <1>2. QED
    BY <1>1 DEF AdminTypeOK, Published, Committed

\* Sessions that end, and sign-ins that are overtaken, stay sessions.
LEMMA SessionTypes ==
  ASSUME AdminTypeOK, NEW u
  PROVE  /\ EndedSession \in SessionRecord
         /\ Overtaken(u) \in [Sessions -> SessionRecord]
         /\ EndSessionsOf(u) => /\ session' \in [Sessions -> SessionRecord]
                                /\ unrevoked' \subseteq Users
  <1>1. EndedSession \in SessionRecord
    BY DEF SessionRecord, EndedSession, Session
  <1>2. \A s \in Sessions : session[s] \in SessionRecord
    BY DEF AdminTypeOK
  <1>3. Overtaken(u) \in [Sessions -> SessionRecord]
    BY <1>2 DEF SessionRecord, Overtaken
  <1>4. EndSessionsOf(u) => /\ session' \in [Sessions -> SessionRecord]
                            /\ unrevoked' \subseteq Users
    BY <1>1, <1>2 DEF AdminTypeOK, EndSessionsOf
  <1>5. QED
    BY <1>1, <1>3, <1>4

-----------------------------------------------------------------------------
(* Types                                                                    *)

LEMMA AdminTypeStep ==
  ASSUME AdminTypeOK, RequestsInv, SessionsInv, AdminNext
  PROVE  AdminTypeOK'
  <1>0. request' \in [Requests -> RequestRecord]
    BY RequestTypes
  <1>1. ASSUME NEW r \in Requests, NEW s \in Sessions, NEW op \in Operations(r), Gate(r, s, op)
        PROVE  AdminTypeOK'
    BY <1>0, <1>1 DEF AdminTypeOK, Gate, facts, lapses
  <1>2. ASSUME NEW r \in Requests, Declines(r) \/ ChangesNothing(r)
        PROVE  AdminTypeOK'
    BY <1>0, <1>2 DEF AdminTypeOK, Declines, ChangesNothing, Handles, facts, lapses
  <1>3. ASSUME NEW r \in Requests, ChangesUser(r)
        PROVE  AdminTypeOK'
    <2>1. request[r].op \in Operations(r) /\ request[r].op.path \in {"set-role", "update-user"}
          /\ write' = write
      BY <1>3, Handled DEF ChangesUser
    <2>2. request[r].op.user \in Users /\ request[r].op.role \in RoleNames
      BY <2>1, OperationFacts
    <2>3. CASE "role" \in request[r].op.fields
      BY <1>0, <1>3, <2>1, <2>2, <2>3, RoleWrittenTypes, SessionTypes
         DEF AdminTypeOK, ChangesUser, lapses
    <2>4. CASE "role" \notin request[r].op.fields
      BY <1>0, <1>3, <2>1, <2>2, <2>4 DEF AdminTypeOK, ChangesUser, lapses
    <2>5. QED
      BY <2>3, <2>4
  <1>4. ASSUME NEW r \in Requests, BansUser(r)
        PROVE  AdminTypeOK'
    <2>0. Handles(r, {"ban-user"})
      BY <1>4 DEF BansUser
    <2>1. request[r].op.user \in Users /\ write' = write
      <3>1. request[r].op.path = "ban-user"
        BY <2>0 DEF Handles
      <3>2. QED
        BY <2>0, <3>1, Handled
    <2>2. QED
      BY <1>0, <1>4, <2>1, SessionTypes DEF AdminTypeOK, BansUser
  <1>5. ASSUME NEW r \in Requests, UnbansUser(r)
        PROVE  AdminTypeOK'
    BY <1>0, <1>5 DEF AdminTypeOK, UnbansUser, Handles, lapses
  <1>6. ASSUME NEW r \in Requests, RemovesUser(r)
        PROVE  AdminTypeOK'
    <2>0. Handles(r, {"remove-user"})
      BY <1>6 DEF RemovesUser
    <2>1. request[r].op.user \in Users /\ write' = write
      <3>1. request[r].op.path = "remove-user"
        BY <2>0 DEF Handles
      <3>2. QED
        BY <2>0, <3>1, Handled
    <2>2. QED
      BY <1>0, <1>6, <2>1, SessionTypes, DeletedTypes DEF AdminTypeOK, RemovesUser
  <1>7. ASSUME NEW r \in Requests, CreatesUser(r)
        PROVE  AdminTypeOK'
    <2>0. Handles(r, {"create-user"})
      BY <1>7 DEF CreatesUser
    <2>1. request[r].op.user \in Users /\ request[r].op.role \in RoleNames /\ write' = write
      <3>1. request[r].op.path = "create-user"
        BY <2>0 DEF Handles
      <3>2. QED
        BY <2>0, <3>1, Handled
    <2>2. PICK new \in RoleNames : role' = [role EXCEPT ![request[r].op.user] = new]
      BY <1>7, <2>1, CatalogAssumption DEF CreatesUser
    <2>3. mayRead' = [mayRead EXCEPT ![request[r].op.user].roles = {Stored(new)}]
      BY <1>7, <2>1, <2>2 DEF CreatesUser, AdminTypeOK
    <2>4. QED
      BY <1>0, <1>7, <2>1, <2>2, <2>3, NewAccountTypes DEF AdminTypeOK, CreatesUser, lapses
  <1>8. ASSUME NEW r \in Requests, NEW s \in Sessions, Impersonates(r, s)
        PROVE  AdminTypeOK'
    <2>0. Handles(r, {"impersonate-user"})
      BY <1>8 DEF Impersonates
    <2>1. request[r].op.user \in Users /\ request[r].session \in Sessions /\ write' = write
      <3>1. request[r].op.path = "impersonate-user"
        BY <2>0 DEF Handles
      <3>2. QED
        BY <2>0, <3>1, Handled
    <2>2. session[request[r].session].user \in Users \cup {Nobody}
      BY <2>1 DEF AdminTypeOK, SessionRecord
    <2>3. Session("open", request[r].op.user, session[request[r].session].user, TRUE,
                  role[request[r].op.user]) \in SessionRecord
      BY <1>8, <2>1, <2>2 DEF Impersonates, Session, SessionRecord, Exists
    <2>4. QED
      BY <1>0, <1>8, <2>1, <2>3 DEF AdminTypeOK, Impersonates, facts, lapses
  <1>9. ASSUME NEW r \in Requests,
               StopsImpersonating(r) \/ \E s \in Sessions : RevokesSession(r, s)
        PROVE  AdminTypeOK'
    BY <1>0, <1>9, SessionTypes
       DEF AdminTypeOK, StopsImpersonating, RevokesSession, Handles, facts, lapses
  <1>10. ASSUME NEW r \in Requests, RevokesSessions(r) \/ Revoke(r)
         PROVE  AdminTypeOK'
    BY <1>0, <1>10, SessionTypes
       DEF AdminTypeOK, RevokesSessions, Revoke, Handles, facts
  <1>11. ASSUME NEW r \in Requests, Refresh(r)
         PROVE  AdminTypeOK'
    <2>1. request[r].op.user \in Users
      BY <1>11, OperationFacts DEF RequestsInv, Refresh, AuthorizationChanging
    <2>2. QED
      BY <1>0, <1>11, <2>1, PublishedTypes DEF AdminTypeOK, Refresh
  <1>12. ASSUME NEW r \in Requests, RefreshFails(r) \/ RevokeFails(r)
         PROVE  AdminTypeOK'
    <2>1. request[r].op.user \in Users
      BY <1>12, OperationFacts DEF RequestsInv, RefreshFails, RevokeFails, AuthorizationChanging
    <2>2. QED
      BY <1>0, <1>12, <2>1 DEF AdminTypeOK, RefreshFails, RevokeFails, facts
  <1>13. ASSUME NEW s \in Sessions, SessionStep(s)
         PROVE  AdminTypeOK'
    <2>1. session[s] \in SessionRecord
      BY DEF AdminTypeOK
    <2>2. UNCHANGED <<facts, request, write, lapses>>
      BY <1>13 DEF SessionStep, SignInReads, SignInCreates, SignsOut, Evicted, RollsForward
    <2>3. session' \in [Sessions -> SessionRecord]
      <3>1. ASSUME NEW u \in Users, SignInReads(s, u)
            PROVE  session' \in [Sessions -> SessionRecord]
        BY <3>1 DEF AdminTypeOK, SignInReads, Session, SessionRecord, Exists
      <3>2. CASE SignInCreates(s)
        BY <2>1, <3>2, SessionTypes DEF AdminTypeOK, SignInCreates, SessionRecord
      <3>3. CASE SignsOut(s)
        BY <3>3, SessionTypes DEF AdminTypeOK, SignsOut
      <3>4. CASE Evicted(s)
        BY <2>1, <3>4 DEF AdminTypeOK, Evicted, SessionRecord
      <3>5. CASE RollsForward(s)
        <4>1. role[session[s].user] \in RoleNames
          BY <3>5 DEF SessionsInv, RollsForward, Exists
        <4>2. QED
          BY <2>1, <3>5, <4>1 DEF AdminTypeOK, RollsForward, SessionRecord
      <3>6. QED
        BY <1>13, <3>1, <3>2, <3>3, <3>4, <3>5 DEF SessionStep
    <2>4. QED
      BY <2>2, <2>3 DEF AdminTypeOK, facts, lapses
  <1>14. ASSUME NEW w \in OverrideWrites,
                OverrideStored(w) \/ OverrideRefreshed(w) \/ OverrideRefreshFails(w)
         PROVE  AdminTypeOK'
    <2>1. /\ w.user \in Users
          /\ [key |-> w.key, effect |-> w.effect] \in OverrideRows
      BY AdminAssumption DEF OverrideRows
    <2>2. CASE OverrideStored(w)
      BY <1>0, <2>1, <2>2 DEF AdminTypeOK, OverrideStored, lapses
    <2>3. CASE OverrideRefreshed(w)
      BY <1>0, <2>1, <2>3, PublishedTypes DEF AdminTypeOK, OverrideRefreshed
    <2>4. CASE OverrideRefreshFails(w)
      BY <1>0, <2>1, <2>4 DEF AdminTypeOK, OverrideRefreshFails, facts
    <2>5. QED
      BY <1>14, <2>2, <2>3, <2>4
  <1>15. ASSUME NEW r \in Requests, RequestStep(r)
         PROVE  AdminTypeOK'
    <2>1. CASE \E s \in Sessions, op \in Operations(r) : Gate(r, s, op)
      BY <1>1, <2>1
    <2>2. CASE \E s \in Sessions : Impersonates(r, s) \/ RevokesSession(r, s)
      BY <1>8, <1>9, <2>2
    <2>3. CASE Declines(r) \/ ChangesNothing(r) \/ ChangesUser(r) \/ BansUser(r) \/ UnbansUser(r)
      BY <1>2, <1>3, <1>4, <1>5, <2>3
    <2>4. CASE RemovesUser(r) \/ CreatesUser(r) \/ StopsImpersonating(r)
      BY <1>6, <1>7, <1>9, <2>4
    <2>5. CASE RevokesSessions(r) \/ Revoke(r) \/ Refresh(r) \/ RefreshFails(r) \/ RevokeFails(r)
      BY <1>10, <1>11, <1>12, <2>5
    <2>6. QED
      BY <1>15, <2>1, <2>2, <2>3, <2>4, <2>5 DEF RequestStep
  <1>16. QED
    BY <1>13, <1>14, <1>15 DEF AdminNext

-----------------------------------------------------------------------------
(* Users and sessions                                                       *)

\* A step of the routes, by what it does to the role column.
RoleMoves(u) ==
  \/ role' = role
  \/ Exists(u) /\ \E new \in RoleNames : role' = [role EXCEPT ![u] = new]
  \/ Exists(u) /\ role' = [role EXCEPT ![u] = "gone"]
  \/ role[u] = "unborn" /\ \E new \in RoleNames : role' = [role EXCEPT ![u] = new]

\* Roles are written of users that are there, and removed users stay away.
LEMMA RolesMove ==
  ASSUME AdminTypeOK, RequestsInv, AdminNext
  PROVE  role' = role \/ \E u \in Users : RoleMoves(u)
  <1>1. ASSUME NEW r \in Requests, ChangesUser(r)
        PROVE  role' = role \/ \E u \in Users : RoleMoves(u)
    <2>1. request[r].op \in Operations(r) /\ request[r].op.path \in {"set-role", "update-user"}
      BY <1>1, Handled DEF ChangesUser
    <2>2. request[r].op.user \in Users /\ request[r].op.role \in RoleNames
      BY <2>1, OperationFacts
    <2>3. QED
      BY <1>1, <2>2 DEF ChangesUser, RoleWritten, RoleMoves
  <1>2. ASSUME NEW r \in Requests, RemovesUser(r)
        PROVE  \E u \in Users : RoleMoves(u)
    <2>1. Handles(r, {"remove-user"})
      BY <1>2 DEF RemovesUser
    <2>2. request[r].op.path = "remove-user"
      BY <2>1 DEF Handles
    <2>3. request[r].op.user \in Users
      BY <2>1, <2>2, Handled
    <2>4. QED
      BY <1>2, <2>3 DEF RemovesUser, UserDeleted, RoleMoves
  <1>3. ASSUME NEW r \in Requests, CreatesUser(r)
        PROVE  \E u \in Users : RoleMoves(u)
    <2>1. Handles(r, {"create-user"})
      BY <1>3 DEF CreatesUser
    <2>2. request[r].op.path = "create-user"
      BY <2>1 DEF Handles
    <2>3. request[r].op.user \in Users /\ request[r].op.role \in RoleNames
      BY <2>1, <2>2, Handled
    <2>4. QED
      BY <1>3, <2>3, CatalogAssumption DEF CreatesUser, RoleMoves
  <1>4. ASSUME NEW r \in Requests, RequestStep(r),
               ~ChangesUser(r), ~RemovesUser(r), ~CreatesUser(r)
        PROVE  role' = role
    BY <1>4 DEF RequestStep, Gate, Declines, BansUser, UnbansUser, Impersonates, RevokesSession,
      StopsImpersonating, RevokesSessions, ChangesNothing, Refresh, RefreshFails, Revoke,
      RevokeFails, facts
  <1>5. ASSUME NEW s \in Sessions, SessionStep(s)
        PROVE  role' = role
    BY <1>5 DEF SessionStep, SignInReads, SignInCreates, SignsOut, Evicted, RollsForward, facts
  <1>6. ASSUME NEW w \in OverrideWrites,
               OverrideStored(w) \/ OverrideRefreshed(w) \/ OverrideRefreshFails(w)
        PROVE  role' = role
    BY <1>6 DEF OverrideStored, OverrideRefreshed, OverrideRefreshFails, facts
  <1>7. QED
    BY <1>1, <1>2, <1>3, <1>4, <1>5, <1>6 DEF AdminNext

\* Who has been there is not unborn again, and who is gone stays gone.
LEMMA RolesAge ==
  ASSUME AdminTypeOK, RequestsInv, AdminNext, NEW u \in Users
  PROVE  /\ role[u] # "unborn" => role'[u] # "unborn"
         /\ role[u] = "gone" => role'[u] = "gone"
         /\ role[u] # "gone" /\ role'[u] = "gone" => Exists(u)
  <1>1. CASE role' = role
    BY <1>1
  <1>2. CASE \E v \in Users : RoleMoves(v)
    BY <1>2, AdminAssumption DEF AdminTypeOK, RoleMoves, Exists
  <1>3. QED
    BY <1>1, <1>2, RolesMove

LEMMA SessionsStep ==
  ASSUME AdminTypeOK, RequestsInv, SessionsInv, AdminNext
  PROVE  SessionsInv'
  <1>a. \A u \in Users : role[u] # "unborn" => role'[u] # "unborn"
    BY RolesAge
  <1>b. \A s \in Sessions : session[s] \in SessionRecord
    BY DEF AdminTypeOK
  <1>1. ASSUME UNCHANGED <<role, session>>
        PROVE  SessionsInv'
    BY <1>1 DEF SessionsInv, Exists
  <1>2. ASSUME NEW r \in Requests, ChangesUser(r)
        PROVE  SessionsInv'
    <2>1. request[r].op \in Operations(r) /\ request[r].op.path \in {"set-role", "update-user"}
      BY <1>2, Handled DEF ChangesUser
    <2>2. request[r].op.user \in Users /\ request[r].op.role \in RoleNames
      BY <2>1, OperationFacts
    <2>3. CASE "role" \notin request[r].op.fields
      BY <1>1, <1>2, <2>3 DEF ChangesUser
    <2>4. CASE "role" \in request[r].op.fields
      <3>1. /\ session' = Overtaken(request[r].op.user)
            /\ role' = [role EXCEPT ![request[r].op.user] = request[r].op.role]
        BY <1>2, <2>4 DEF ChangesUser, RoleWritten
      <3>2. QED
        BY <1>a, <1>b, <2>2, <3>1 DEF SessionsInv, Overtaken, AdminTypeOK, SessionRecord, Exists
    <2>5. QED
      BY <2>3, <2>4
  <1>3. ASSUME NEW u, EndSessionsOf(u), role' = role
        PROVE  SessionsInv'
    BY <1>3, AdminAssumption DEF SessionsInv, EndSessionsOf, EndedSession, Session, Exists
  <1>4. ASSUME NEW r \in Requests, RemovesUser(r)
        PROVE  SessionsInv'
    <2>1. /\ role' = [role EXCEPT ![request[r].op.user] = "gone"]
          /\ session' = [s \in Sessions |->
               IF session[s].at = "open" /\ session[s].user = request[r].op.user
               THEN EndedSession ELSE session[s]]
      BY <1>4 DEF RemovesUser, UserDeleted, EndSessionsOf
    <2>2. QED
      BY <1>a, <1>b, <2>1, AdminAssumption
         DEF SessionsInv, EndedSession, Session, Exists, AdminTypeOK, SessionRecord
  <1>5. ASSUME NEW r \in Requests, CreatesUser(r)
        PROVE  SessionsInv'
    <2>1. PICK new : role' = [role EXCEPT ![request[r].op.user] = new]
      BY <1>5 DEF CreatesUser
    <2>2. role[request[r].op.user] = "unborn" /\ session' = session
      BY <1>5 DEF CreatesUser
    <2>3. QED
      BY <1>a, <2>1, <2>2, AdminAssumption DEF SessionsInv, Exists, AdminTypeOK
  <1>6. ASSUME NEW r \in Requests, NEW s \in Sessions, Impersonates(r, s)
        PROVE  SessionsInv'
    <2>1. Handles(r, {"impersonate-user"}) /\ request[r].op.path = "impersonate-user"
      BY <1>6 DEF Impersonates, Handles
    <2>2. request[r].op.user \in Users /\ request[r].session \in Sessions
      BY <2>1, Handled
    <2>3. session[request[r].session].user \in Users
      BY <2>1, <2>2 DEF Handles, ActsAsAdmin, Live, SessionsInv
    <2>4. /\ role' = role /\ Exists(request[r].op.user)
          /\ session' = [session EXCEPT ![s] =
               Session("open", request[r].op.user, session[request[r].session].user, TRUE,
                       role[request[r].op.user])]
      BY <1>6 DEF Impersonates, facts
    <2>5. QED
      BY <2>2, <2>3, <2>4, RolesAreNamed, AdminAssumption
         DEF SessionsInv, AdminTypeOK, Session, Exists
  <1>7. ASSUME NEW s \in Sessions, session' = [session EXCEPT ![s] = EndedSession], role' = role
        PROVE  SessionsInv'
    BY <1>7, AdminAssumption DEF SessionsInv, EndedSession, Session, Exists, AdminTypeOK
  <1>8. ASSUME NEW r \in Requests, RequestStep(r)
        PROVE  SessionsInv'
    <2>1. CASE \/ \E s \in Sessions, op \in Operations(r) : Gate(r, s, op)
               \/ Declines(r) \/ UnbansUser(r) \/ ChangesNothing(r)
      BY <1>1, <2>1 DEF Gate, Declines, UnbansUser, ChangesNothing, facts
    <2>2. CASE Refresh(r) \/ RefreshFails(r) \/ RevokeFails(r)
      BY <1>1, <2>2 DEF Refresh, RefreshFails, RevokeFails, facts
    <2>3. CASE BansUser(r) \/ RevokesSessions(r) \/ Revoke(r)
      BY <1>3, <2>3 DEF BansUser, RevokesSessions, Revoke, facts
    <2>4. CASE StopsImpersonating(r)
      <3>1. request[r].session \in Sessions
        BY <2>4, Handled DEF StopsImpersonating
      <3>2. QED
        BY <1>7, <2>4, <3>1 DEF StopsImpersonating, facts
    <2>5. CASE \E s \in Sessions : RevokesSession(r, s)
      BY <1>7, <2>5 DEF RevokesSession, facts
    <2>6. CASE ChangesUser(r) \/ RemovesUser(r) \/ CreatesUser(r)
      BY <1>2, <1>4, <1>5, <2>6
    <2>7. CASE \E s \in Sessions : Impersonates(r, s)
      BY <1>6, <2>7
    <2>8. QED
      BY <1>8, <2>1, <2>2, <2>3, <2>4, <2>5, <2>6, <2>7 DEF RequestStep
  <1>9. ASSUME NEW s \in Sessions, SessionStep(s)
        PROVE  SessionsInv'
    <2>1. role' = role
      BY <1>9 DEF SessionStep, SignInReads, SignInCreates, SignsOut, Evicted, RollsForward, facts
    <2>2. ASSUME NEW u \in Users, SignInReads(s, u)
          PROVE  SessionsInv'
      BY <2>1, <2>2, AdminAssumption DEF SignInReads, SessionsInv, Session, AdminTypeOK, Exists
    <2>3. CASE SignInCreates(s)
      BY <1>b, <2>1, <2>3, AdminAssumption
         DEF SignInCreates, SessionsInv, EndedSession, Session, SessionRecord, AdminTypeOK, Exists
    <2>4. CASE SignsOut(s)
      BY <1>7, <2>1, <2>4 DEF SignsOut
    <2>5. CASE Evicted(s) \/ RollsForward(s)
      <3>1. PICK c : session' = [session EXCEPT ![s].copy = c]
        BY <2>5 DEF Evicted, RollsForward
      <3>2. /\ session'[s].at = "open" /\ session[s].at = "open"
            /\ session'[s].user = session[s].user /\ session'[s].row = session[s].row
            /\ session'[s].by = session[s].by
            /\ \A t \in Sessions \ {s} : session'[t] = session[t]
        BY <1>b, <2>5, <3>1 DEF Evicted, RollsForward, SessionRecord, AdminTypeOK
      <3>3. session[s].by = "cli" => session'[s].copy = "none"
        BY <1>b, <2>5 DEF Evicted, RollsForward, SessionRecord, AdminTypeOK
      <3>4. QED
        BY <2>1, <3>2, <3>3 DEF SessionsInv, Exists
    <2>6. QED
      BY <1>9, <2>2, <2>3, <2>4, <2>5 DEF SessionStep
  <1>10. ASSUME NEW w \in OverrideWrites,
                OverrideStored(w) \/ OverrideRefreshed(w) \/ OverrideRefreshFails(w)
         PROVE  SessionsInv'
    BY <1>1, <1>10 DEF OverrideStored, OverrideRefreshed, OverrideRefreshFails, facts
  <1>11. QED
    BY <1>8, <1>9, <1>10 DEF AdminNext

-----------------------------------------------------------------------------
(* The rights that requests are judged on                                   *)

LEMMA UnbornStep ==
  ASSUME AdminTypeOK, RequestsInv, UnbornInv, AdminNext
  PROVE  UnbornInv'
  <1> SUFFICES ASSUME NEW u \in Users, role'[u] = "unborn"
               PROVE  mayRead'[u].rows = {rows'[u]}
    BY DEF UnbornInv
  <1>1. role[u] = "unborn" /\ ~Exists(u) /\ mayRead[u].rows = {rows[u]}
    BY RolesAge, RolesAreNamed DEF UnbornInv
  <1>2. mayRead[u] \in [roles : SUBSET StoredRoles, rows : SUBSET SUBSET OverrideRows]
    BY DEF AdminTypeOK
  <1>3. ASSUME NEW v, Published(v), rows' = rows
        PROVE  mayRead'[u].rows = {rows'[u]}
    BY <1>1, <1>3 DEF Published, Committed, AdminTypeOK
  <1>4. ASSUME NEW r \in Requests, RequestStep(r)
        PROVE  mayRead'[u].rows = {rows'[u]}
    <2>1. CASE Refresh(r)
      BY <1>3, <2>1 DEF Refresh
    <2>2. CASE ChangesUser(r) \/ CreatesUser(r)
      BY <1>1, <1>2, <2>2 DEF ChangesUser, CreatesUser, RoleWritten, AdminTypeOK
    <2>3. CASE RemovesUser(r)
      BY <1>1, <2>3 DEF RemovesUser, UserDeleted, AdminTypeOK
    <2>4. CASE ~Refresh(r) /\ ~ChangesUser(r) /\ ~CreatesUser(r) /\ ~RemovesUser(r)
      BY <1>1, <1>4, <2>4 DEF RequestStep, Gate, Declines, BansUser, UnbansUser, Impersonates,
        RevokesSession, StopsImpersonating, RevokesSessions, ChangesNothing, RefreshFails,
        Revoke, RevokeFails, facts
    <2>5. QED
      BY <2>1, <2>2, <2>3, <2>4
  <1>5. ASSUME NEW s \in Sessions, SessionStep(s)
        PROVE  mayRead'[u].rows = {rows'[u]}
    BY <1>1, <1>5
       DEF SessionStep, SignInReads, SignInCreates, SignsOut, Evicted, RollsForward, facts
  <1>6. ASSUME NEW w \in OverrideWrites,
               OverrideStored(w) \/ OverrideRefreshed(w) \/ OverrideRefreshFails(w)
        PROVE  mayRead'[u].rows = {rows'[u]}
    <2>1. CASE OverrideStored(w)
      BY <1>1, <2>1 DEF OverrideStored, AdminTypeOK
    <2>2. CASE OverrideRefreshed(w)
      BY <1>3, <2>2 DEF OverrideRefreshed
    <2>3. CASE OverrideRefreshFails(w)
      BY <1>1, <2>3 DEF OverrideRefreshFails, facts
    <2>4. QED
      BY <1>6, <2>1, <2>2, <2>3
  <1>7. QED
    BY <1>4, <1>5, <1>6 DEF AdminNext

\* Why somebody may be judged on rights that were replaced.
Excused(u) ==
  \/ u \in unpublished
  \/ Requesting(u, {"refresh"})
  \/ \E w \in OverrideWrites : write[w] = "refresh" /\ w.user = u

\* While nobody's rights move and no refresh ends, the excuses stay.
LEMMA ExcusesStay ==
  ASSUME AdminTypeOK, NEW u \in Users, Excused(u),
         \A q \in Requests : request[q].at = "refresh" => request'[q] = request[q],
         u \in unpublished => u \in unpublished',
         \A w \in OverrideWrites : write[w] = "refresh" => write'[w] = "refresh"
  PROVE  Excused(u)'
  BY DEF Excused, Requesting

LEMMA RightsStep ==
  ASSUME AdminTypeOK, RequestsInv, UnbornInv, RightsAreInForce, AdminNext
  PROVE  RightsAreInForce'
  <1> SUFFICES ASSUME NEW u \in Users, Exists(u)', mayRead'[u] # Committed(u)'
               PROVE  Excused(u)'
    BY DEF RightsAreInForce, Excused
  <1>a. Exists(u) /\ mayRead[u] # Committed(u) => Excused(u)
    BY DEF RightsAreInForce, Excused
  <1>b. mayRead[u] \in [roles : SUBSET StoredRoles, rows : SUBSET SUBSET OverrideRows]
    BY DEF AdminTypeOK
  <1>1. ASSUME role'[u] = role[u], rows'[u] = rows[u], mayRead'[u] = mayRead[u],
               u \in unpublished => u \in unpublished',
               \A q \in Requests : request[q].at = "refresh" => request'[q] = request[q],
               \A w \in OverrideWrites : write[w] = "refresh" => write'[w] = "refresh"
        PROVE  Excused(u)'
    <2>1. Exists(u) /\ mayRead[u] # Committed(u)
      BY <1>1 DEF Exists, Committed
    <2>2. Excused(u)
      BY <1>a, <2>1
    <2>3. QED
      BY <1>1, <2>2, ExcusesStay
  <1>2. ASSUME NEW r \in Requests, NEW paths, Handles(r, paths)
        PROVE  /\ \A q \in Requests : request[q].at = "refresh" => request'[q] = request[q]
               /\ write' = write
    BY <1>2, Handled
  <1>3. ASSUME NEW r \in Requests, ChangesUser(r)
        PROVE  Excused(u)'
    <2>1. CASE "role" \in request[r].op.fields /\ u = request[r].op.user
      <3>1. Handles(r, {"set-role", "update-user"})
        BY <1>3 DEF ChangesUser
      <3>2. request[r] \in RequestRecord
        BY DEF AdminTypeOK
      <3>3. request[r].op.path \in AuthorizationChanging
        BY <3>1 DEF Handles, AuthorizationChanging
      <3>4. request'[r].at = "refresh" /\ request'[r].op = request[r].op
        BY <3>1, <3>2, <3>3 DEF Handles, RequestRecord, AdminTypeOK
      <3>5. QED
        BY <2>1, <3>4 DEF Excused, Requesting
    <2>2. CASE ~("role" \in request[r].op.fields /\ u = request[r].op.user)
      <3>1. role'[u] = role[u] /\ mayRead'[u] = mayRead[u] /\ UNCHANGED <<rows, unpublished>>
        BY <1>3, <2>2 DEF ChangesUser, RoleWritten, AdminTypeOK, lapses
      <3>2. /\ \A q \in Requests : request[q].at = "refresh" => request'[q] = request[q]
            /\ write' = write
        BY <1>2, <1>3 DEF ChangesUser
      <3>3. QED
        BY <1>1, <3>1, <3>2
    <2>3. QED
      BY <2>1, <2>2
  <1>4. ASSUME NEW r \in Requests, RemovesUser(r)
        PROVE  Excused(u)'
    <2>1. u # request[r].op.user
      BY <1>4, RolesAreNamed, AdminAssumption DEF RemovesUser, UserDeleted, Exists, AdminTypeOK
    <2>2. role'[u] = role[u] /\ rows'[u] = rows[u] /\ mayRead'[u] = mayRead[u]
          /\ unpublished' = unpublished
      BY <1>4, <2>1 DEF RemovesUser, UserDeleted, AdminTypeOK
    <2>3. /\ \A q \in Requests : request[q].at = "refresh" => request'[q] = request[q]
          /\ write' = write
      BY <1>2, <1>4 DEF RemovesUser
    <2>4. QED
      BY <1>1, <2>2, <2>3
  <1>5. ASSUME NEW r \in Requests, CreatesUser(r)
        PROVE  Excused(u)'
    <2>1. CASE u = request[r].op.user
      <3>1. role[u] = "unborn" /\ rows' = rows
            /\ mayRead' = [mayRead EXCEPT ![u].roles = {Stored(role'[u])}]
        BY <1>5, <2>1 DEF CreatesUser
      <3>2. mayRead[u].rows = {rows[u]}
        BY <3>1 DEF UnbornInv
      <3>3. mayRead'[u] = [roles |-> {Stored(role'[u])}, rows |-> {rows'[u]}]
        BY <1>b, <3>1, <3>2 DEF AdminTypeOK
      <3>4. QED
        BY <3>3 DEF Committed, Stored
    <2>2. CASE u # request[r].op.user
      <3>1. role'[u] = role[u] /\ mayRead'[u] = mayRead[u] /\ UNCHANGED <<rows, unpublished>>
        BY <1>5, <2>2 DEF CreatesUser, AdminTypeOK, lapses
      <3>2. /\ \A q \in Requests : request[q].at = "refresh" => request'[q] = request[q]
            /\ write' = write
        BY <1>2, <1>5 DEF CreatesUser
      <3>3. QED
        BY <1>1, <3>1, <3>2
    <2>3. QED
      BY <2>1, <2>2
  <1>6. ASSUME NEW v \in Users, Published(v), UNCHANGED <<role, rows>>,
               \A q \in Requests : request[q].at = "refresh" /\ request[q].op.user # v
                 => request'[q] = request[q],
               \A w \in OverrideWrites : write[w] = "refresh" /\ w.user # v
                 => write'[w] = "refresh"
        PROVE  Excused(u)'
    <2>1. u # v
      BY <1>6 DEF Published, Committed, Stored, AdminTypeOK
    <2>2. mayRead'[u] = mayRead[u] /\ (u \in unpublished => u \in unpublished')
      BY <1>6, <2>1 DEF Published, AdminTypeOK
    <2>3. Excused(u)
      BY <1>a, <1>6, <2>2 DEF Exists, Committed, Stored
    <2>4. QED
      BY <1>6, <2>1, <2>2, <2>3 DEF Excused, Requesting
  <1>7. ASSUME NEW r \in Requests, Refresh(r)
        PROVE  Excused(u)'
    <2>1. request[r].op.user \in Users
      BY <1>7, OperationFacts DEF RequestsInv, Refresh, AuthorizationChanging
    <2>2. QED
      BY <1>6, <1>7, <2>1 DEF Refresh, AdminTypeOK
  <1>8. ASSUME NEW r \in Requests, RefreshFails(r)
        PROVE  Excused(u)'
    <2>1. CASE u = request[r].op.user
      BY <1>8, <2>1 DEF RefreshFails, Excused
    <2>2. CASE u # request[r].op.user
      <3>1. Excused(u)
        BY <1>a, <1>8 DEF RefreshFails, facts, Exists, Committed, Stored
      <3>2. QED
        BY <1>8, <2>2, <3>1 DEF RefreshFails, Excused, Requesting, AdminTypeOK
    <2>3. QED
      BY <2>1, <2>2
  <1>9. ASSUME NEW r \in Requests, RequestStep(r)
        PROVE  Excused(u)'
    <2>1. CASE ChangesUser(r) \/ RemovesUser(r) \/ CreatesUser(r) \/ Refresh(r) \/ RefreshFails(r)
      BY <1>3, <1>4, <1>5, <1>7, <1>8, <2>1
    <2>2. CASE \/ \E s \in Sessions, op \in Operations(r) : Gate(r, s, op)
               \/ Declines(r) \/ Revoke(r) \/ RevokeFails(r)
      <3>1. /\ \A q \in Requests : request[q].at = "refresh" => request'[q] = request[q]
            /\ UNCHANGED <<role, rows, mayRead, unpublished, write>>
        BY <2>2 DEF Gate, Declines, Revoke, RevokeFails, AdminTypeOK, facts, lapses
      <3>2. QED
        BY <1>1, <3>1
    <2>3. CASE \/ BansUser(r) \/ UnbansUser(r) \/ StopsImpersonating(r)
               \/ RevokesSessions(r) \/ ChangesNothing(r)
               \/ \E s \in Sessions : Impersonates(r, s) \/ RevokesSession(r, s)
      <3>1. UNCHANGED <<role, rows, mayRead, unpublished>> /\ \E paths : Handles(r, paths)
        BY <2>3 DEF BansUser, UnbansUser, StopsImpersonating, RevokesSessions, ChangesNothing,
          Impersonates, RevokesSession, facts, lapses
      <3>2. QED
        BY <1>1, <1>2, <3>1
    <2>4. QED
      BY <1>9, <2>1, <2>2, <2>3 DEF RequestStep
  <1>10. ASSUME NEW s \in Sessions, SessionStep(s)
         PROVE  Excused(u)'
    <2>1. UNCHANGED <<role, rows, mayRead, request, write, unpublished>>
      BY <1>10 DEF SessionStep, SignInReads, SignInCreates, SignsOut, Evicted, RollsForward,
        facts, lapses
    <2>2. QED
      BY <1>1, <2>1
  <1>11. ASSUME NEW w \in OverrideWrites,
                OverrideStored(w) \/ OverrideRefreshed(w) \/ OverrideRefreshFails(w)
         PROVE  Excused(u)'
    <2>1. CASE OverrideStored(w) /\ u = w.user
      BY <2>1 DEF OverrideStored, Excused, AdminTypeOK
    <2>2. CASE OverrideStored(w) /\ u # w.user
      <3>1. rows'[u] = rows[u] /\ mayRead'[u] = mayRead[u]
            /\ UNCHANGED <<role, request, unpublished>>
        BY <2>2 DEF OverrideStored, AdminTypeOK, lapses
      <3>2. \A x \in OverrideWrites : write[x] = "refresh" => write'[x] = "refresh"
        BY <2>2 DEF OverrideStored, AdminTypeOK
      <3>3. QED
        BY <1>1, <3>1, <3>2
    <2>3. CASE OverrideRefreshed(w)
      <3>1. w.user \in Users
        BY AdminAssumption
      <3>2. QED
        BY <1>6, <2>3, <3>1 DEF OverrideRefreshed, AdminTypeOK
    <2>4. CASE OverrideRefreshFails(w)
      <3>1. Excused(u)
        BY <1>a, <2>4 DEF OverrideRefreshFails, facts, Exists, Committed, Stored
      <3>2. QED
        BY <2>4, <3>1 DEF OverrideRefreshFails, Excused, Requesting, AdminTypeOK
    <2>5. QED
      BY <1>11, <2>1, <2>2, <2>3, <2>4
  <1>12. QED
    BY <1>9, <1>10, <1>11 DEF AdminNext

-----------------------------------------------------------------------------
(* The roles that sessions show                                             *)

Stale(s) == Live(s) /\ HydrateUser(s) # Stored(role[session[s].user])

\* A request that has changed a role and has not ended the sessions yet.
Changing(r) == request[r].at \in {"refresh", "revoke"} /\ ChangesRole(request[r].op)

Pardoned(s) ==
  \/ session[s].late
  \/ session[s].user \in unrevoked
  \/ \E r \in Requests : Changing(r) /\ request[r].op.user = session[s].user

\* What keeps a session's pardon.
LEMMA PardonsStay ==
  ASSUME NEW s \in Sessions, Stale(s) => Pardoned(s), Stale(s)',
         session'[s] = session[s], role'[session[s].user] = role[session[s].user],
         session[s].user \in unrevoked => session[s].user \in unrevoked',
         \A q \in Requests : Changing(q) /\ request[q].op.user = session[s].user
           => \/ Changing(q)' /\ request'[q].op = request[q].op
              \/ session[s].user \in unrevoked'
  PROVE  Pardoned(s)'
  <1>1. Stale(s)
    BY DEF Stale, Live, HydrateUser, SessionRole
  <1>2. QED
    BY <1>1 DEF Pardoned

LEMMA StaleStep ==
  ASSUME AdminTypeOK, RequestsInv, SessionsInv, StaleRolesAreExcused, AdminNext
  PROVE  StaleRolesAreExcused'
  <1> SUFFICES ASSUME NEW s \in Sessions, Stale(s)' PROVE Pardoned(s)'
    BY DEF StaleRolesAreExcused, Stale, Pardoned, Changing
  <1>a. Stale(s) => Pardoned(s)
    BY DEF StaleRolesAreExcused, Stale, Pardoned, Changing
  <1>b. session'[s].at = "open" /\ session'[s].copy # "none"
        /\ session'[s].copy # role'[session'[s].user]
    BY DEF Stale, Live, HydrateUser, SessionRole
  <1>c. session[s] \in SessionRecord
    BY DEF AdminTypeOK
  <1>d. \A r \in Requests : request[r] \in RequestRecord
    BY DEF AdminTypeOK
  <1>1. ASSUME session'[s] = session[s], role'[session[s].user] = role[session[s].user],
               session[s].user \in unrevoked => session[s].user \in unrevoked',
               \A q \in Requests : request[q].at \in {"refresh", "revoke"}
                 => request'[q] = request[q]
        PROVE  Pardoned(s)'
    BY <1>a, <1>1, PardonsStay DEF Changing
  <1>2. ASSUME NEW r \in Requests, NEW paths, Handles(r, paths)
        PROVE  \A q \in Requests : request[q].at \in {"refresh", "revoke"}
                 => request'[q] = request[q]
    BY <1>2, Handled
  <1>3. ASSUME NEW r \in Requests, ChangesUser(r)
        PROVE  Pardoned(s)'
    <2>1. Handles(r, {"set-role", "update-user"})
      BY <1>3 DEF ChangesUser
    <2>2. CASE "role" \in request[r].op.fields /\ session'[s].user = request[r].op.user
      <3>1. ChangesRole(request[r].op) /\ request[r].op.path \in AuthorizationChanging
        BY <2>1, <2>2 DEF Handles, ChangesRole, AuthorizationChanging
      <3>2. request'[r].at = "refresh" /\ request'[r].op = request[r].op
        BY <1>d, <2>1, <3>1 DEF Handles, RequestRecord, AdminTypeOK
      <3>3. QED
        BY <2>2, <3>1, <3>2 DEF Pardoned, Changing
    <2>3. CASE "role" \in request[r].op.fields /\ session'[s].user # request[r].op.user
      <3>1. /\ session' = Overtaken(request[r].op.user) /\ unrevoked' = unrevoked
            /\ role' = [role EXCEPT ![request[r].op.user] = request[r].op.role]
        BY <1>3, <2>3 DEF ChangesUser, RoleWritten, lapses
      <3>2. session'[s] = session[s]
        BY <1>b, <1>c, <2>3, <3>1 DEF Overtaken, SessionRecord
      <3>3. role'[session[s].user] = role[session[s].user]
        BY <2>3, <3>1, <3>2 DEF AdminTypeOK
      <3>4. QED
        BY <1>1, <1>2, <2>1, <3>1, <3>2, <3>3
    <2>4. CASE "role" \notin request[r].op.fields
      <3>1. UNCHANGED <<role, session, unrevoked>>
        BY <1>3, <2>4 DEF ChangesUser, lapses
      <3>2. QED
        BY <1>1, <1>2, <2>1, <3>1
    <2>5. QED
      BY <2>2, <2>3, <2>4
  <1>4. ASSUME NEW u, EndSessionsOf(u),
               \A q \in Requests : request[q].at \in {"refresh", "revoke"} /\ request[q].op.user # u
                 => request'[q] = request[q],
               \A v \in Users \ {u} : role'[v] = role[v]
        PROVE  Pardoned(s)'
    <2>1. session'[s] = session[s] /\ session[s].user # u
      BY <1>4, <1>b DEF EndSessionsOf, EndedSession, Session
    <2>2. session[s].user \in Users
      BY <1>b, <2>1 DEF SessionsInv
    <2>3. session[s].user \in unrevoked => session[s].user \in unrevoked'
      BY <1>4, <2>1 DEF EndSessionsOf
    <2>4. QED
      BY <1>4, <1>a, <2>1, <2>2, <2>3, PardonsStay DEF Changing
  <1>5. ASSUME NEW r \in Requests, BansUser(r) \/ RevokesSessions(r) \/ RemovesUser(r)
        PROVE  Pardoned(s)'
    <2>1. EndSessionsOf(request[r].op.user) /\ \E paths : Handles(r, paths)
      BY <1>5 DEF BansUser, RevokesSessions, RemovesUser
    <2>2. \A v \in Users \ {request[r].op.user} : role'[v] = role[v]
      BY <1>5 DEF BansUser, RevokesSessions, RemovesUser, UserDeleted, facts, AdminTypeOK
    <2>3. QED
      BY <1>2, <1>4, <2>1, <2>2
  <1>6. ASSUME NEW r \in Requests, Revoke(r)
        PROVE  Pardoned(s)'
    <2>1. \A q \in Requests : q # r => request'[q] = request[q]
      BY <1>6 DEF Revoke, AdminTypeOK
    <2>2. QED
      BY <1>4, <1>6, <2>1 DEF Revoke, facts
  <1>7. ASSUME NEW r \in Requests, CreatesUser(r)
        PROVE  Pardoned(s)'
    <2>1. session' = session /\ unrevoked' = unrevoked
          /\ (\E new : role' = [role EXCEPT ![request[r].op.user] = new])
          /\ role[request[r].op.user] = "unborn" /\ \E paths : Handles(r, paths)
      BY <1>7 DEF CreatesUser, lapses
    <2>2. role[session[s].user] # "unborn" /\ session[s].user \in Users
      BY <1>b, <2>1 DEF SessionsInv
    <2>3. role'[session[s].user] = role[session[s].user]
      BY <2>1, <2>2 DEF AdminTypeOK
    <2>4. QED
      BY <1>1, <1>2, <2>1, <2>3
  <1>8. ASSUME NEW r \in Requests, NEW t \in Sessions, Impersonates(r, t)
        PROVE  Pardoned(s)'
    <2>1. s # t
      BY <1>8, <1>b DEF Impersonates, Session, AdminTypeOK, facts
    <2>2. session'[s] = session[s] /\ UNCHANGED <<role, unrevoked>> /\ \E paths : Handles(r, paths)
      BY <1>8, <2>1 DEF Impersonates, facts, lapses, AdminTypeOK
    <2>3. QED
      BY <1>1, <1>2, <2>2
  <1>9. ASSUME NEW t \in Sessions, session' = [session EXCEPT ![t] = EndedSession],
               UNCHANGED <<role, unrevoked>>,
               \A q \in Requests : request[q].at \in {"refresh", "revoke"}
                 => request'[q] = request[q]
        PROVE  Pardoned(s)'
    <2>1. session'[s] = session[s]
      BY <1>9, <1>b DEF EndedSession, Session, AdminTypeOK
    <2>2. QED
      BY <1>1, <1>9, <2>1
  <1>10. ASSUME NEW r \in Requests, RequestStep(r)
         PROVE  Pardoned(s)'
    <2>1. CASE \/ \E t \in Sessions, op \in Operations(r) : Gate(r, t, op)
               \/ Declines(r)
      <3>1. /\ UNCHANGED <<role, session, unrevoked>>
            /\ \A q \in Requests : request[q].at \in {"refresh", "revoke"}
                 => request'[q] = request[q]
        BY <2>1 DEF Gate, Declines, AdminTypeOK, facts, lapses
      <3>2. QED
        BY <1>1, <3>1
    <2>2. CASE UnbansUser(r) \/ ChangesNothing(r)
      <3>1. UNCHANGED <<role, session, unrevoked>> /\ \E paths : Handles(r, paths)
        BY <2>2 DEF UnbansUser, ChangesNothing, facts, lapses
      <3>2. QED
        BY <1>1, <1>2, <3>1
    <2>3. CASE StopsImpersonating(r) \/ \E t \in Sessions : RevokesSession(r, t)
      <3>1. \E paths : Handles(r, paths)
        BY <2>3 DEF StopsImpersonating, RevokesSession
      <3>2. request[r].session \in Sessions
        BY <3>1, Handled
      <3>3. UNCHANGED <<role, unrevoked>>
            /\ \E t \in Sessions : session' = [session EXCEPT ![t] = EndedSession]
        BY <2>3, <3>2 DEF StopsImpersonating, RevokesSession, facts, lapses
      <3>4. QED
        BY <1>2, <1>9, <3>1, <3>3
    <2>4. CASE Refresh(r)
      <3>1. UNCHANGED <<role, session, unrevoked>>
        BY <2>4 DEF Refresh
      <3>2. \A q \in Requests : Changing(q) => Changing(q)' /\ request'[q].op = request[q].op
        BY <1>d, <2>4 DEF Refresh, AfterRefresh, Changing, RequestRecord, AdminTypeOK
      <3>3. QED
        BY <1>a, <3>1, <3>2, PardonsStay
    <2>5. CASE RefreshFails(r) \/ RevokeFails(r)
      <3>1. /\ UNCHANGED <<role, session>> /\ unrevoked \subseteq unrevoked'
            /\ ChangesRole(request[r].op) => request[r].op.user \in unrevoked'
            /\ \A q \in Requests \ {r} : request'[q] = request[q]
        BY <2>5 DEF RefreshFails, RevokeFails, AdminTypeOK, facts
      <3>2. QED
        BY <1>a, <3>1, PardonsStay DEF Changing
    <2>6. CASE ChangesUser(r) \/ CreatesUser(r) \/ Revoke(r)
      BY <1>3, <1>6, <1>7, <2>6
    <2>7. CASE BansUser(r) \/ RevokesSessions(r) \/ RemovesUser(r)
      BY <1>5, <2>7
    <2>8. CASE \E t \in Sessions : Impersonates(r, t)
      BY <1>8, <2>8
    <2>9. QED
      BY <1>10, <2>1, <2>2, <2>3, <2>4, <2>5, <2>6, <2>7, <2>8 DEF RequestStep
  <1>11. ASSUME NEW t \in Sessions, SessionStep(t)
         PROVE  Pardoned(s)'
    <2>1. UNCHANGED <<role, request, unrevoked>>
          /\ \A x \in Sessions \ {t} : session'[x] = session[x]
      BY <1>11 DEF SessionStep, SignInReads, SignInCreates, SignsOut, Evicted, RollsForward,
        facts, lapses, AdminTypeOK
    <2>2. CASE s # t
      BY <1>1, <2>1, <2>2
    <2>3. CASE s = t
      <3>1. CASE SignInCreates(t)
        <4>1. session[s].at = "opening" /\ Exists(session[s].user)
              /\ session'[s] = [session[s] EXCEPT !.at = "open", !.row = TRUE]
          BY <1>b, <2>3, <3>1 DEF SignInCreates, EndedSession, Session, AdminTypeOK
        <4>2. session'[s].late = session[s].late /\ session'[s].copy = session[s].copy
              /\ session'[s].user = session[s].user
          BY <1>c, <4>1 DEF SessionRecord
        <4>3. session[s].late
          BY <1>b, <2>1, <4>1, <4>2 DEF SessionsInv
        <4>4. QED
          BY <4>2, <4>3 DEF Pardoned
      <3>2. CASE \E u \in Users : SignInReads(t, u)
        BY <1>b, <2>3, <3>2 DEF SignInReads, Session, AdminTypeOK
      <3>3. CASE SignsOut(t)
        BY <1>b, <2>3, <3>3 DEF SignsOut, EndedSession, Session, AdminTypeOK
      <3>4. CASE Evicted(t)
        BY <1>b, <1>c, <2>3, <3>4 DEF Evicted, SessionRecord, AdminTypeOK
      <3>5. CASE RollsForward(t)
        BY <1>b, <1>c, <2>1, <2>3, <3>5 DEF RollsForward, SessionRecord, AdminTypeOK
      <3>6. QED
        BY <1>11, <3>1, <3>2, <3>3, <3>4, <3>5 DEF SessionStep
    <2>4. QED
      BY <2>2, <2>3
  <1>12. ASSUME NEW w \in OverrideWrites,
                OverrideStored(w) \/ OverrideRefreshed(w) \/ OverrideRefreshFails(w)
         PROVE  Pardoned(s)'
    <2>1. UNCHANGED <<role, session, request, unrevoked>>
      BY <1>12 DEF OverrideStored, OverrideRefreshed, OverrideRefreshFails, facts, lapses
    <2>2. QED
      BY <1>1, <2>1
  <1>13. QED
    BY <1>10, <1>11, <1>12 DEF AdminNext

-----------------------------------------------------------------------------
(* Denials                                                                  *)

\* What a handler does is among what its request was checked for.
LEMMA TakenIsRequired ==
  ASSUME AdminTypeOK, RequestsInv, SessionsInv, NEW r \in Requests, RequestStep(r),
         HandlerActed(r)
  PROVE  Taken(r) \subseteq RequiredPermissions(request[r].op) \cup Ungated(request[r].op)
  <1> DEFINE op == request[r].op
             Required == RequiredPermissions(op)
             ByPath == {<<"user", "update">>, <<"user", "set-password">>}
             Revoked == {<<"session", "revoke">>}
  <1>a. request[r].at = "forward" /\ op \in Operations(r)
    BY DEF RequestsInv, HandlerActed
  <1>b. Taken(r) \cap ByPath \subseteq Required
    <2>1. <<"user", "update">> \in Taken(r) => op.path = "update-user"
      BY DEF Taken
    <2>2. <<"user", "set-password">> \in Taken(r) => op.path = "set-user-password"
      BY DEF Taken
    <2>3. QED
      BY <2>1, <2>2 DEF RequiredPermissions, AdminPermissionByPath
  <1>c. ASSUME \/ \A s \in Sessions : ~(session[s].at = "open" /\ session'[s].at = "ended")
               \/ op.path \in {"ban-user", "remove-user", "stop-impersonating"}
        PROVE  Taken(r) \cap Revoked = {}
    BY <1>c DEF Taken
  <1>1. ASSUME role' = role, banned' = banned,
               \A s \in Sessions : session'[s].by \in {session[s].by, Nobody}
        PROVE  Taken(r) \subseteq ByPath \cup Revoked
    BY <1>1, AdminAssumption DEF Taken
  <1>2. CASE UnbansUser(r) \/ BansUser(r) \/ ChangesNothing(r)
    <2>1. role' = role /\ \A s \in Sessions : session'[s].by \in {session[s].by, Nobody}
      BY <1>2 DEF UnbansUser, BansUser, ChangesNothing, EndSessionsOf, EndedSession,
        Session, facts
    <2>2. Taken(r) \cap Revoked = {}
      BY <1>2, <1>c DEF UnbansUser, BansUser, ChangesNothing, Handles
    <2>3. CASE banned' = banned
      BY <1>1, <1>b, <2>1, <2>2, <2>3
    <2>4. CASE banned' # banned
      <3>1. op.path \in {"ban-user", "unban-user"}
        BY <1>2, <2>4 DEF UnbansUser, BansUser, ChangesNothing, Handles, facts
      <3>2. <<"user", "ban">> \in Required
        BY <3>1 DEF RequiredPermissions, AdminPermissionByPath
      <3>3. Taken(r) \subseteq {<<"user", "ban">>} \cup ByPath \cup Revoked
        BY <2>1, AdminAssumption DEF Taken
      <3>4. QED
        BY <1>b, <2>2, <3>2, <3>3
    <2>5. QED
      BY <2>3, <2>4
  <1>3. CASE \/ StopsImpersonating(r) \/ RevokesSessions(r)
             \/ \E s \in Sessions : RevokesSession(r, s)
    <2>1. role' = role /\ banned' = banned
          /\ \A s \in Sessions : session'[s].by \in {session[s].by, Nobody}
      BY <1>3 DEF StopsImpersonating, RevokesSessions, RevokesSession, EndSessionsOf,
        EndedSession, Session, facts, AdminTypeOK
    <2>2. op.path \in {"stop-impersonating", "revoke-user-sessions", "revoke-user-session"}
      BY <1>3 DEF StopsImpersonating, RevokesSessions, RevokesSession, Handles
    <2>3. CASE op.path = "stop-impersonating"
      BY <1>1, <1>b, <1>c, <2>1, <2>3
    <2>4. CASE op.path # "stop-impersonating"
      <3>1. Revoked \subseteq Required
        BY <2>2, <2>4 DEF RequiredPermissions, AdminPermissionByPath
      <3>2. QED
        BY <1>1, <1>b, <2>1, <3>1
    <2>5. QED
      BY <2>3, <2>4
  <1>4. CASE ChangesUser(r)
    <2>1. op.path \in {"set-role", "update-user"}
      BY <1>4 DEF ChangesUser, Handles
    <2>2. op.user \in Users /\ op.role \in RoleNames
      BY <1>a, <2>1, OperationFacts
    <2>3. \A s \in Sessions : session'[s].by = session[s].by /\ session'[s].at = session[s].at
      <3>1. \A s \in Sessions : session[s] \in SessionRecord
        BY DEF AdminTypeOK
      <3>2. session' = session \/ session' = Overtaken(op.user)
        BY <1>4 DEF ChangesUser
      <3>3. QED
        BY <3>1, <3>2 DEF Overtaken, SessionRecord
    <2>4. Exists(op.user)
      BY <1>4 DEF ChangesUser
    <2>5. "role" \in op.fields => <<"user", "set-role">> \in Required
      BY <2>1 DEF RequiredPermissions, AdminPermissionByPath
    <2>6. "banned" \in op.fields => <<"user", "ban">> \in Required
      BY <1>a, <2>1, AdminAssumption DEF RequiredPermissions, AdminPermissionByPath
    <2>7. \/ role' = role /\ "role" \notin op.fields
          \/ /\ role' = [role EXCEPT ![op.user] = op.role]
             /\ "role" \in op.fields
      BY <1>4 DEF ChangesUser, RoleWritten
    <2>8. banned' = banned \/ "banned" \in op.fields
      BY <1>4 DEF ChangesUser
    <2>9. \A u \in Users : role'[u] # role[u] =>
            role[u] \in RoleNames /\ role'[u] \in RoleNames /\ "role" \in op.fields
      BY <2>2, <2>4, <2>7 DEF Exists, AdminTypeOK
    <2>10. Taken(r) \subseteq {<<"user", "set-role">>, <<"user", "ban">>} \cup ByPath
      BY <2>3, <2>9, AdminAssumption DEF Taken
    <2>11. <<"user", "set-role">> \in Taken(r) => "role" \in op.fields
      BY <2>9, AdminAssumption DEF Taken
    <2>12. <<"user", "ban">> \in Taken(r) => "banned" \in op.fields
      BY <2>8 DEF Taken
    <2>13. QED
      BY <1>b, <2>5, <2>6, <2>10, <2>11, <2>12
  <1>5. CASE RemovesUser(r)
    <2>1. op.path = "remove-user"
      BY <1>5 DEF RemovesUser, Handles
    <2>2. op.user \in Users
      BY <1>a, <2>1, OperationFacts
    <2>3. <<"user", "delete">> \in Required
      BY <2>1 DEF RequiredPermissions, AdminPermissionByPath
    <2>4. /\ role' = [role EXCEPT ![op.user] = "gone"]
          /\ role[op.user] \in RoleNames
          /\ banned' = banned \ {op.user}
          /\ \A s \in Sessions : session'[s].by \in {session[s].by, Nobody}
      BY <1>5 DEF RemovesUser, UserDeleted, EndSessionsOf, EndedSession, Session, Exists
    <2>5. Taken(r) \subseteq {<<"user", "delete">>} \cup ByPath \cup Revoked
      BY <2>2, <2>4, AdminAssumption DEF Taken, AdminTypeOK
    <2>6. QED
      BY <1>b, <1>c, <2>1, <2>3, <2>5
  <1>6. CASE CreatesUser(r)
    <2>1. op.path = "create-user"
      BY <1>6 DEF CreatesUser, Handles
    <2>2. op.user \in Users /\ op.role \in RoleNames
      BY <1>a, <2>1, OperationFacts
    <2>3. /\ <<"user", "create">> \in Required
          /\ "role" \in op.fields => <<"user", "set-role">> \in Required
      BY <2>1 DEF RequiredPermissions, AdminPermissionByPath
    <2>4. /\ "role" \in op.data \ op.fields => <<"user", "set-role">> \in Ungated(op)
          /\ "banned" \in op.data => <<"user", "ban">> \in Ungated(op)
      BY DEF Ungated
    <2>5. /\ role[op.user] = "unborn" /\ session' = session
          /\ \/ role' = [role EXCEPT ![op.user] = DefaultRole]
             \/ /\ role' = [role EXCEPT ![op.user] = op.role]
                /\ "role" \in op.fields \cup op.data
          /\ banned' = banned \/ "banned" \in op.data
      BY <1>6 DEF CreatesUser
    <2>6. Taken(r) \subseteq {<<"user", "create">>, <<"user", "set-role">>, <<"user", "ban">>} \cup ByPath
      BY <2>2, <2>5, AdminAssumption, CatalogAssumption DEF Taken, AdminTypeOK
    <2>7. <<"user", "set-role">> \in Taken(r) => "role" \in op.fields \cup op.data
      BY <2>2, <2>5, AdminAssumption, CatalogAssumption DEF Taken, AdminTypeOK
    <2>8. <<"user", "ban">> \in Taken(r) => "banned" \in op.data
      BY <2>5 DEF Taken
    <2>9. QED
      BY <1>b, <2>3, <2>4, <2>6, <2>7, <2>8
  <1>7. CASE \E s \in Sessions : Impersonates(r, s)
    <2>1. op.path = "impersonate-user" /\ role' = role /\ banned' = banned
      BY <1>7 DEF Impersonates, Handles, facts
    <2>2. <<"user", "impersonate">> \in Required
      BY <2>1 DEF RequiredPermissions, AdminPermissionByPath
    <2>3. \A s \in Sessions : session[s].at = "open" => session'[s].at = "open"
      BY <1>7 DEF Impersonates, Session, FreeSession, AdminTypeOK
    <2>4. Taken(r) \subseteq {<<"user", "impersonate">>} \cup ByPath
      BY <2>1, <2>3, AdminAssumption DEF Taken
    <2>5. QED
      BY <1>b, <2>2, <2>4
  <1>8. CASE Declines(r)
    BY <1>a, <1>8 DEF Declines, HandlerActed, AdminTypeOK
  <1>9. QED
    BY <1>a, <1>2, <1>3, <1>4, <1>5, <1>6, <1>7, <1>8
       DEF RequestStep, Gate, Refresh, RefreshFails, Revoke, RevokeFails

LEMMA DenialStep ==
  ASSUME AdminTypeOK, RequestsInv, SessionsInv, AdminNext, NEW r \in Requests,
         HandlerActed(r)
  PROVE  request[r].barred \cap Taken(r) \subseteq Ungated(request[r].op)
  <1>1. ASSUME NEW q \in Requests, RequestStep(q), q # r
        PROVE  request'[r] = request[r]
    BY <1>1 DEF AdminTypeOK, RequestStep, Gate, Declines, ChangesUser, BansUser, UnbansUser,
      RemovesUser, CreatesUser, Impersonates, RevokesSession, StopsImpersonating,
      RevokesSessions, ChangesNothing, Handles, Refresh, RefreshFails, Revoke, RevokeFails
  <1>2. ASSUME NEW s \in Sessions, SessionStep(s)
        PROVE  request' = request
    BY <1>2 DEF SessionStep, SignInReads, SignInCreates, SignsOut, Evicted, RollsForward
  <1>3. ASSUME NEW w \in OverrideWrites,
               OverrideStored(w) \/ OverrideRefreshed(w) \/ OverrideRefreshFails(w)
        PROVE  request' = request
    BY <1>3 DEF OverrideStored, OverrideRefreshed, OverrideRefreshFails
  <1>4. RequestStep(r)
    BY <1>1, <1>2, <1>3 DEF AdminNext, HandlerActed
  <1>5. request[r].barred \cap RequiredPermissions(request[r].op) = {}
    BY DEF RequestsInv, HandlerActed
  <1>6. QED
    BY <1>4, <1>5, TakenIsRequired

-----------------------------------------------------------------------------
(* The runs of the CLI and the sign-ups                                     *)

LEMMA RoutesStep ==
  ASSUME RoutesInv, AdminNext
  PROVE  RoutesInv'
  BY AdminTypeStep, RequestsStep, SessionsStep, UnbornStep, RightsStep, StaleStep DEF RoutesInv

LEMMA RoutesRest ==
  ASSUME RoutesInv, UNCHANGED adminVars
  PROVE  RoutesInv'
  <1> USE DEF adminVars, facts, lapses
  <1>1. AdminTypeOK'
    BY DEF RoutesInv, AdminTypeOK
  <1>2. RequestsInv' /\ SessionsInv' /\ UnbornInv'
    BY DEF RoutesInv, RequestsInv, SessionsInv, UnbornInv, Exists
  <1>3. RightsAreInForce'
    BY DEF RoutesInv, RightsAreInForce, Exists, Committed, Stored, Requesting
  <1>4. StaleRolesAreExcused'
    BY DEF RoutesInv, StaleRolesAreExcused, Live, HydrateUser, SessionRole, Stored
  <1>5. QED
    BY <1>1, <1>2, <1>3, <1>4 DEF RoutesInv

\* A new account by sign-up, with the session it opens, if it opens one.
LEMMA SignUpKeeps ==
  ASSUME RoutesInv, NEW u \in Users, role[u] = "unborn",
         role' = [role EXCEPT ![u] = DefaultRole],
         mayRead' = [mayRead EXCEPT ![u].roles = {Stored(DefaultRole)}],
         \/ session' = session
         \/ \E s \in Sessions :
              session' = [session EXCEPT ![s] = Session("open", u, "cli", TRUE, "none")],
         UNCHANGED <<rows, banned, request, write, lapses>>
  PROVE  RoutesInv'
  <1>0. /\ {"unborn", "gone", "none"} \cap RoleNames = {}
        /\ Nobody \notin Users /\ "cli" \notin Users \cup {Nobody}
    BY AdminAssumption
  <1> USE <1>0, CatalogAssumption
  <1>1. AdminTypeOK /\ SessionsInv
    BY DEF RoutesInv
  <1>2. AdminTypeOK'
    <2>1. Session("open", u, "cli", TRUE, "none") \in SessionRecord
      BY DEF Session, SessionRecord
    <2>2. session' \in [Sessions -> SessionRecord]
      BY <1>1, <2>1 DEF AdminTypeOK
    <2>3. QED
      BY <1>1, <2>2, NewAccountTypes DEF AdminTypeOK, lapses
  <1>3. RequestsInv'
    BY DEF RoutesInv, RequestsInv
  <1>4. DefaultRole \in RoleNames /\ role'[u] = DefaultRole
        /\ \A v \in Users \ {u} : role'[v] = role[v] /\ mayRead'[v] = mayRead[v]
    BY <1>1 DEF AdminTypeOK
  <1>5. SessionsInv'
    BY <1>1, <1>4 DEF SessionsInv, Session, Exists, AdminTypeOK
  <1>6. mayRead'[u] = [roles |-> {Stored(DefaultRole)}, rows |-> {rows[u]}]
    <2>1. mayRead[u].rows = {rows[u]}
      BY DEF RoutesInv, UnbornInv
    <2>2. mayRead[u] \in [roles : SUBSET StoredRoles, rows : SUBSET SUBSET OverrideRows]
      BY <1>1 DEF AdminTypeOK
    <2>3. QED
      BY <1>1, <2>1, <2>2 DEF AdminTypeOK
  <1>7. UnbornInv'
    BY <1>4 DEF RoutesInv, UnbornInv
  <1>8. RightsAreInForce'
    <2>1. SUFFICES ASSUME NEW v \in Users, Exists(v)', mayRead'[v] # Committed(v)'
                   PROVE  Excused(v)'
      BY DEF RightsAreInForce, Excused
    <2>2. v # u
      BY <1>4, <1>6, <2>1 DEF Committed, Stored
    <2>3. Exists(v) /\ mayRead[v] # Committed(v)
      BY <1>4, <2>1, <2>2 DEF Exists, Committed, Stored
    <2>4. QED
      BY <2>3 DEF RoutesInv, RightsAreInForce, Excused, Requesting, lapses
  <1>9. StaleRolesAreExcused'
    <2>1. SUFFICES ASSUME NEW s \in Sessions, Stale(s)' PROVE Pardoned(s)'
      BY DEF StaleRolesAreExcused, Stale, Pardoned, Changing
    <2>2. session'[s].at = "open" /\ session'[s].copy # "none"
      BY <2>1 DEF Stale, Live, HydrateUser, SessionRole
    <2>3. session'[s] = session[s]
      BY <1>1, <2>2 DEF AdminTypeOK, Session
    <2>4. role'[session[s].user] = role[session[s].user]
      BY <1>1, <1>4, <2>2, <2>3 DEF SessionsInv
    <2>5. Stale(s) => Pardoned(s)
      BY DEF RoutesInv, StaleRolesAreExcused, Stale, Pardoned, Changing
    <2>6. QED
      BY <2>1, <2>3, <2>4, <2>5, PardonsStay DEF Changing, lapses
  <1>10. QED
    BY <1>2, <1>3, <1>5, <1>7, <1>8, <1>9 DEF RoutesInv

\* The role of an account is written, or the account deleted, and the rows of
\* its sessions go: what the transaction and the clean-up have in common.
LEMMA AccountMoves ==
  ASSUME RoutesInv, NEW u \in Users, Exists(u), SessionRowsDeleted(u),
         \/ RoleWritten(u, "admin") /\ unpublished' = unpublished \cup {u}
            /\ UNCHANGED <<rows, banned>>
         \/ UserDeleted(u) /\ unpublished' = unpublished,
         UNCHANGED <<request, write, unrevoked>>
  PROVE  RoutesInv'
  <1> USE AdminAssumption, BootstrapAssumption
  <1>1. AdminTypeOK /\ SessionsInv /\ \A s \in Sessions : session[s] \in SessionRecord
    BY DEF RoutesInv, AdminTypeOK
  <1>2. session' \in [Sessions -> SessionRecord]
    <2>1. \A s \in Sessions : [session[s] EXCEPT !.row = FALSE, !.late = TRUE] \in SessionRecord
      BY <1>1 DEF SessionRecord
    <2>2. EndedSession \in SessionRecord
      BY <1>1, SessionTypes
    <2>3. QED
      BY <1>1, <2>1, <2>2 DEF SessionRowsDeleted
  <1>3. AdminTypeOK'
    <2>1. CASE RoleWritten(u, "admin") /\ unpublished' = unpublished \cup {u}
               /\ UNCHANGED <<rows, banned>>
      BY <1>1, <1>2, <2>1, RoleWrittenTypes DEF AdminTypeOK
    <2>2. CASE UserDeleted(u) /\ unpublished' = unpublished
      BY <1>1, <1>2, <2>2, DeletedTypes DEF AdminTypeOK
    <2>3. QED
      BY <2>1, <2>2
  <1>4. RequestsInv'
    BY DEF RoutesInv, RequestsInv
  <1>5. /\ role'[u] \in {"admin", "gone"} /\ role[u] \in RoleNames
        /\ \A v \in Users \ {u} : role'[v] = role[v] /\ rows'[v] = rows[v]
                                  /\ mayRead'[v] = mayRead[v]
        /\ unpublished \subseteq unpublished'
        /\ role'[u] = "admin" => u \in unpublished'
    BY <1>1 DEF RoleWritten, UserDeleted, AdminTypeOK, Exists
  <1>6. \A s \in Sessions :
          \/ session[s].user # u /\ session'[s] = session[s]
          \/ session[s].user = u /\ session'[s] = EndedSession
          \/ /\ session[s].user = u /\ session'[s].user = u
             /\ session'[s].at = session[s].at /\ session'[s].by = session[s].by
             /\ session'[s].copy = session[s].copy
             /\ ~session'[s].row /\ session'[s].late
             /\ ~(session[s].at = "open" /\ session[s].copy = "none")
    BY <1>1 DEF SessionRowsDeleted, SessionRecord
  <1>7. SessionsInv'
    <2>1. \A s \in Sessions : session[s].user = u /\ session[s].by = "cli" => session'[s] = EndedSession
      BY <1>1, <1>6 DEF SessionsInv
    <2>2. QED
      BY <1>1, <1>5, <1>6, <2>1
         DEF SessionsInv, EndedSession, Session, SessionRecord, Exists
  <1>8. UnbornInv'
    BY <1>5 DEF RoutesInv, UnbornInv
  <1>9. RightsAreInForce'
    <2>1. SUFFICES ASSUME NEW v \in Users, Exists(v)', mayRead'[v] # Committed(v)'
                   PROVE  Excused(v)'
      BY DEF RightsAreInForce, Excused
    <2>2. CASE v = u
      BY <1>5, <2>1, <2>2 DEF Exists, Excused
    <2>3. CASE v # u
      <3>1. Exists(v) /\ mayRead[v] # Committed(v)
        BY <1>5, <2>1, <2>3 DEF Exists, Committed, Stored
      <3>2. QED
        BY <1>5, <3>1 DEF RoutesInv, RightsAreInForce, Excused, Requesting
    <2>4. QED
      BY <2>2, <2>3
  <1>10. StaleRolesAreExcused'
    <2>1. SUFFICES ASSUME NEW s \in Sessions, Stale(s)' PROVE Pardoned(s)'
      BY DEF StaleRolesAreExcused, Stale, Pardoned, Changing
    <2>2. session'[s].at = "open"
      BY <2>1 DEF Stale, Live
    <2>3. CASE session[s].user = u
      <3>1. session'[s].late
        BY <1>6, <2>2, <2>3 DEF EndedSession, Session
      <3>2. QED
        BY <3>1 DEF Pardoned
    <2>4. CASE session[s].user # u
      <3>1. session'[s] = session[s] /\ session[s].user \in Users
        BY <1>1, <1>6, <2>2, <2>4 DEF SessionsInv
      <3>2. role'[session[s].user] = role[session[s].user]
        BY <1>5, <2>4, <3>1
      <3>3. Stale(s) => Pardoned(s)
        BY DEF RoutesInv, StaleRolesAreExcused, Stale, Pardoned, Changing
      <3>4. QED
        BY <2>1, <3>1, <3>2, <3>3, PardonsStay DEF Changing
    <2>5. QED
      BY <2>3, <2>4
  <1>11. QED
    BY <1>3, <1>4, <1>7, <1>8, <1>9, <1>10 DEF RoutesInv

\* The steps that leave the routes' variables alone.
Bystander(c) ==
  \/ LooksForAddress(c) \/ SignUpFails(c) \/ PromotionFails(c) \/ Abandons(c)

\* The clean-up, by whether there is an account left to delete.
LEMMA CleanUpMoves ==
  ASSUME NEW c \in Clis, CleansUp(c)
  PROVE  \/ Exists(cli[c].user) /\ UserDeleted(cli[c].user) /\ SessionRowsDeleted(cli[c].user)
         \/ ~Exists(cli[c].user) /\ UNCHANGED <<facts, session>>
  BY DEF CleansUp, Account

LEMMA RoutesKept ==
  ASSUME IInv, [Next]_vars
  PROVE  RoutesInv'
  <1> USE DEF IInv
  <1>1. CASE ApiStep
    BY <1>1, RoutesStep DEF ApiStep
  <1>2. ASSUME NEW u \in Users, PublicSignUp(u)
        PROVE  RoutesInv'
    BY <1>2, SignUpKeeps DEF PublicSignUp
  <1>3. ASSUME NEW c \in Clis, NEW u \in Users, NEW s \in Sessions, SignsUp(c, u, s)
        PROVE  RoutesInv'
    BY <1>3, SignUpKeeps DEF SignsUp
  <1>4. ASSUME NEW c \in Clis, Promotes(c)
        PROVE  RoutesInv'
    <2>1. cli[c].user \in Users
      BY <1>4 DEF Promotes, RunsInv
    <2>2. QED
      BY <1>4, <2>1, AccountMoves DEF Promotes, Account
  <1>5. ASSUME NEW c \in Clis, CleansUp(c)
        PROVE  RoutesInv'
    <2>1. cli[c].user \in Users /\ UNCHANGED <<request, write, lapses>>
      BY <1>5 DEF CleansUp, RunsInv
    <2>2. CASE UNCHANGED <<facts, session>>
      BY <2>1, <2>2, RoutesRest DEF adminVars
    <2>3. CASE Exists(cli[c].user) /\ UserDeleted(cli[c].user) /\ SessionRowsDeleted(cli[c].user)
      BY <2>1, <2>3, AccountMoves DEF lapses
    <2>4. QED
      BY <1>5, <2>2, <2>3, CleanUpMoves
  <1>6. CASE (\E c \in Clis : Bystander(c)) \/ UNCHANGED vars
    BY <1>6, RoutesRest
       DEF Bystander, LooksForAddress, SignUpFails, PromotionFails, Abandons, vars
  <1>7. QED
    BY <1>1, <1>2, <1>3, <1>4, <1>5, <1>6 DEF Next, CliStep, Bystander

\* The types of a run's own variables.
LEMMA RunTypes ==
  ASSUME IInv, [Next]_vars
  PROVE  TypeOK'
  <1> USE DEF IInv, TypeOK, Goes
  <1>1. AdminTypeOK'
    BY RoutesKept DEF RoutesInv
  <1>2. CASE ApiStep
    BY <1>1, <1>2 DEF ApiStep
  <1>3. ASSUME NEW u \in Users, PublicSignUp(u)
        PROVE  TypeOK'
    BY <1>1, <1>3 DEF PublicSignUp
  <1>4. ASSUME NEW c \in Clis, NEW u \in Users, NEW s \in Sessions, SignsUp(c, u, s)
        PROVE  TypeOK'
    BY <1>1, <1>4 DEF SignsUp
  <1>5. ASSUME NEW c \in Clis, Bystander(c) \/ Promotes(c) \/ CleansUp(c)
        PROVE  TypeOK'
    <2>1. cli[c].user \in Users \cup {Nobody}
      OBVIOUS
    <2>2. QED
      BY <1>1, <1>5, <2>1 DEF Bystander, LooksForAddress, SignUpFails, PromotionFails, Abandons,
        Promotes, CleansUp, Account
  <1>6. CASE UNCHANGED vars
    BY <1>1, <1>6 DEF vars
  <1>7. QED
    BY <1>2, <1>3, <1>4, <1>5, <1>6 DEF Next, CliStep, Bystander

\* No request and no sign-in makes a session like that of the CLI's sign-up.
LEMMA RoutesKeepOut ==
  ASSUME RoutesInv, AdminNext, NEW s \in Sessions, session'[s].by = "cli"
  PROVE  session[s].by = "cli" /\ session'[s].user = session[s].user
  <1>1. \A t \in Sessions : session[t] \in SessionRecord
    BY DEF RoutesInv, AdminTypeOK
  <1>2. EndedSession.by = Nobody /\ Nobody # "cli"
    BY AdminAssumption DEF EndedSession, Session
  <1>3. session \in [Sessions -> SessionRecord]
    BY DEF RoutesInv, AdminTypeOK
  <1>4. ASSUME NEW r \in Requests, NEW t \in Sessions, Impersonates(r, t)
        PROVE  session[s].by = "cli" /\ session'[s].user = session[s].user
    <2>1. Handles(r, {"impersonate-user"})
      BY <1>4 DEF Impersonates
    <2>2. request[r].session \in Sessions /\ request[r].op.path = "impersonate-user"
      BY <2>1, Handled DEF RoutesInv, Handles
    <2>3. session[request[r].session].user \in Users
      BY <2>1, <2>2 DEF Handles, ActsAsAdmin, Live, RoutesInv, SessionsInv
    <2>4. s # t
      BY <1>3, <1>4, <2>3, AdminAssumption DEF Impersonates, Session
    <2>5. QED
      BY <1>3, <1>4, <2>4 DEF Impersonates
  <1>5. ASSUME NEW r \in Requests, RequestStep(r)
        PROVE  session[s].by = "cli" /\ session'[s].user = session[s].user
    <2>1. CASE \/ session' = session \/ \E u : EndSessionsOf(u)
               \/ \E t \in Sessions : session' = [session EXCEPT ![t] = EndedSession]
      BY <1>2, <1>3, <2>1 DEF EndSessionsOf
    <2>2. CASE \E u : session' = Overtaken(u)
      BY <1>1, <2>2 DEF Overtaken, SessionRecord
    <2>3. CASE StopsImpersonating(r)
      <3>1. request[r].session \in Sessions
        BY <2>3, Handled DEF StopsImpersonating, RoutesInv
      <3>2. QED
        BY <2>1, <2>3, <3>1 DEF StopsImpersonating
    <2>4. CASE \/ Refresh(r) \/ RefreshFails(r) \/ Revoke(r) \/ RevokeFails(r)
               \/ RevokesSessions(r) \/ (\E t \in Sessions : RevokesSession(r, t))
      BY <2>1, <2>4 DEF Refresh, RefreshFails, Revoke, RevokeFails, RevokesSessions, RevokesSession
    <2>5. CASE \/ Declines(r) \/ BansUser(r) \/ UnbansUser(r) \/ RemovesUser(r) \/ CreatesUser(r)
               \/ ChangesNothing(r) \/ \E t \in Sessions, op \in Operations(r) : Gate(r, t, op)
      BY <2>1, <2>5 DEF Declines, BansUser, UnbansUser, RemovesUser, CreatesUser, ChangesNothing, Gate
    <2>6. CASE ChangesUser(r)
      BY <2>1, <2>2, <2>6 DEF ChangesUser
    <2>7. QED
      BY <1>4, <1>5, <2>3, <2>4, <2>5, <2>6 DEF RequestStep
  <1>6. ASSUME NEW t \in Sessions, SessionStep(t)
        PROVE  session[s].by = "cli" /\ session'[s].user = session[s].user
    <2>1. CASE s # t
      BY <1>3, <1>6, <2>1
         DEF SessionStep, SignInReads, SignInCreates, SignsOut, Evicted, RollsForward
    <2>2. CASE s = t
      <3>1. CASE SignsOut(t) \/ \E u \in Users : SignInReads(t, u)
        BY <1>2, <1>3, <2>2, <3>1, AdminAssumption DEF SignsOut, SignInReads, Session
      <3>2. CASE SignInCreates(t)
        BY <1>1, <1>2, <1>3, <2>2, <3>2 DEF SignInCreates, SessionRecord
      <3>3. CASE Evicted(t) \/ RollsForward(t)
        BY <1>1, <1>3, <2>2, <3>3 DEF Evicted, RollsForward, SessionRecord
      <3>4. QED
        BY <1>6, <3>1, <3>2, <3>3 DEF SessionStep
    <2>3. QED
      BY <2>1, <2>2
  <1>7. ASSUME NEW w \in OverrideWrites,
               OverrideStored(w) \/ OverrideRefreshed(w) \/ OverrideRefreshFails(w)
        PROVE  session[s].by = "cli" /\ session'[s].user = session[s].user
    BY <1>7 DEF OverrideStored, OverrideRefreshed, OverrideRefreshFails
  <1>8. QED
    BY <1>5, <1>6, <1>7 DEF AdminNext

\* What holds of a run as long as it does nothing itself.
LEMMA RunRests ==
  ASSUME IInv, NEW c \in Clis, cli'[c] = cli[c],
         \A u \in Users : /\ role[u] # "unborn" =>
                               role'[u] # "unborn" /\ creator'[u] = creator[u]
                          /\ role[u] = "gone" => role'[u] = "gone",
         \A s \in Sessions : session'[s].by = "cli" =>
           \/ session[s].by = "cli" /\ session'[s].user = session[s].user
           \/ session'[s].user \in Users /\ role[session'[s].user] = "unborn"
  PROVE  RunsInv!(c)'
  BY DEF IInv, RunsInv

LEMMA RunsKept ==
  ASSUME IInv, [Next]_vars
  PROVE  RunsInv'
  <1>a. AdminTypeOK /\ RequestsInv /\ SessionsInv /\ RunsInv /\ cli \in [Clis -> [at : {"idle",
          "signing-up", "promoting", "cleaning-up", "created", "refused", "failed", "abandoned"},
          user : Users \cup {Nobody}]]
        /\ creator \in [Users -> Clis \cup {"api", Nobody}]
    BY DEF IInv, RoutesInv, TypeOK
  <1>1. CASE ApiStep
    <2>1. \A u \in Users : /\ role[u] # "unborn" =>
                                role'[u] # "unborn" /\ creator'[u] = creator[u]
                           /\ role[u] = "gone" => role'[u] = "gone"
      BY <1>1, <1>a, RolesAge DEF ApiStep
    <2>2. \A s \in Sessions : session'[s].by = "cli" =>
            session[s].by = "cli" /\ session'[s].user = session[s].user
      BY <1>1, RoutesKeepOut DEF ApiStep, IInv
    <2>3. cli' = cli
      BY <1>1 DEF ApiStep
    <2>4. QED
      BY <2>1, <2>2, <2>3, RunRests DEF RunsInv
  <1>2. ASSUME NEW u \in Users, PublicSignUp(u)
        PROVE  RunsInv'
    <2>1. \A v \in Users : role[v] # "unborn" =>
            role'[v] = role[v] /\ creator'[v] = creator[v]
      BY <1>2, <1>a DEF PublicSignUp, AdminTypeOK
    <2>2. \A v \in Users : role[v] = "gone" => role'[v] = "gone"
      BY <2>1
    <2>3. session' = session /\ cli' = cli
      BY <1>2 DEF PublicSignUp
    <2>4. QED
      BY <2>1, <2>2, <2>3, RunRests DEF RunsInv
  <1>3. ASSUME NEW c \in Clis, NEW u \in Users, NEW s \in Sessions, SignsUp(c, u, s)
        PROVE  RunsInv'
    <2>1. /\ \A v \in Users : role[v] # "unborn" =>
               role'[v] # "unborn" /\ creator'[v] = creator[v]
          /\ \A v \in Users : role[v] = "gone" => role'[v] = "gone"
      BY <1>3, <1>a DEF SignsUp, AdminTypeOK
    <2>2. \A t \in Sessions : session'[t].by = "cli" =>
            \/ session[t].by = "cli" /\ session'[t].user = session[t].user
            \/ session'[t].user \in Users /\ role[session'[t].user] = "unborn"
      BY <1>3, <1>a DEF SignsUp, Session, AdminTypeOK
    <2>3. \A d \in Clis \ {c} : cli'[d] = cli[d]
      BY <1>3, <1>a DEF SignsUp, Goes
    <2>4. cli'[c] = [at |-> "promoting", user |-> u] /\ creator'[u] = c /\ role'[u] # "unborn"
      BY <1>3, <1>a, CatalogAssumption, AdminAssumption DEF SignsUp, Goes, AdminTypeOK
    <2>5. QED
      BY <2>1, <2>2, <2>3, <2>4, RunRests DEF RunsInv
  <1>4. ASSUME NEW c \in Clis, NEW u \in Users, Exists(u), SessionRowsDeleted(u),
               role'[u] # "unborn", \A v \in Users \ {u} : role'[v] = role[v],
               creator' = creator, NEW stage, Goes(c, stage, u), creator[u] = c,
               \/ stage \in {"created", "cleaning-up"}
               \/ stage = "failed" /\ role'[u] = "gone"
        PROVE  RunsInv'
    <2>1. \A v \in Users : /\ role[v] # "unborn" =>
                                role'[v] # "unborn" /\ creator'[v] = creator[v]
                           /\ role[v] = "gone" => role'[v] = "gone"
      BY <1>4, <1>a, RolesAreNamed
    <2>2. \A s \in Sessions : session'[s].by = "cli" =>
            /\ session[s].by = "cli" /\ session'[s].user = session[s].user
            /\ session'[s].user # u
      <3>1. SUFFICES ASSUME NEW s \in Sessions, session'[s].by = "cli"
                     PROVE  /\ session[s].by = "cli" /\ session'[s].user = session[s].user
                            /\ session'[s].user # u
        OBVIOUS
      <3>2. session[s] \in SessionRecord /\ Nobody # "cli"
        BY <1>a, AdminAssumption DEF AdminTypeOK
      <3>3. session[s].by = "cli" => session[s].at = "open" /\ session[s].copy = "none"
        BY <1>a DEF SessionsInv
      <3>4. QED
        BY <1>4, <3>1, <3>2, <3>3 DEF SessionRowsDeleted, EndedSession, Session, SessionRecord
    <2>3. \A d \in Clis \ {c} : cli'[d] = cli[d]
      BY <1>4, <1>a DEF Goes
    <2>4. cli'[c] = [at |-> stage, user |-> u]
      BY <1>4, <1>a DEF Goes
    <2>5. QED
      BY <1>4, <2>1, <2>2, <2>3, <2>4, RunRests DEF RunsInv
  <1>5. ASSUME NEW c \in Clis, Promotes(c)
        PROVE  RunsInv'
    <2>1. /\ cli[c].user \in Users /\ creator[cli[c].user] = c
          /\ Exists(cli[c].user) /\ SessionRowsDeleted(cli[c].user) /\ creator' = creator
          /\ RoleWritten(cli[c].user, "admin")
      BY <1>5, <1>a DEF Promotes, Account, RunsInv
    <2>2. role'[cli[c].user] # "unborn" /\ \A v \in Users \ {cli[c].user} : role'[v] = role[v]
      BY <2>1, <1>a DEF RoleWritten, AdminTypeOK
    <2>3. \E stage \in {"created", "cleaning-up"} : Goes(c, stage, cli[c].user)
      BY <1>5 DEF Promotes, Account
    <2>4. QED
      BY <1>4, <2>1, <2>2, <2>3
  <1>6. ASSUME NEW c \in Clis, CleansUp(c)
        PROVE  RunsInv'
    <2>1. /\ cli[c].user \in Users /\ creator[cli[c].user] = c /\ creator' = creator
          /\ role[cli[c].user] # "unborn" /\ Goes(c, "failed", cli[c].user)
      BY <1>6, <1>a DEF CleansUp, Account, RunsInv
    <2>2. CASE Exists(cli[c].user) /\ UserDeleted(cli[c].user) /\ SessionRowsDeleted(cli[c].user)
      <3>1. role'[cli[c].user] = "gone" /\ \A v \in Users \ {cli[c].user} : role'[v] = role[v]
        BY <2>1, <2>2, <1>a DEF UserDeleted, AdminTypeOK
      <3>2. QED
        BY <1>4, <2>1, <2>2, <3>1
    <2>3. CASE ~Exists(cli[c].user) /\ UNCHANGED <<facts, session>>
      <3>1. role[cli[c].user] = "gone"
        BY <2>1, <2>3, <1>a, RolesAreNamed
      <3>2. cli'[c] = [at |-> "failed", user |-> cli[c].user]
            /\ \A d \in Clis \ {c} : cli'[d] = cli[d]
        BY <2>1, <1>a DEF Goes
      <3>3. role' = role /\ session' = session
        BY <2>3 DEF facts
      <3>4. QED
        BY <2>1, <3>1, <3>2, <3>3, RunRests DEF RunsInv
    <2>4. QED
      BY <1>6, <2>2, <2>3, CleanUpMoves
  <1>7. ASSUME NEW c \in Clis, Bystander(c)
        PROVE  RunsInv'
    <2>1. UNCHANGED <<role, session, creator>>
      BY <1>7 DEF Bystander, LooksForAddress, SignUpFails, PromotionFails, Abandons, adminVars, facts
    <2>2. \A d \in Clis \ {c} : cli'[d] = cli[d]
      BY <1>7, <1>a
         DEF Bystander, LooksForAddress, SignUpFails, PromotionFails, Abandons, Goes
    <2>3. \/ cli'[c].at \in {"refused", "signing-up", "abandoned"}
          \/ cli'[c] = [at |-> "cleaning-up", user |-> cli[c].user] /\ cli[c].at = "promoting"
      BY <1>7, <1>a
         DEF Bystander, LooksForAddress, SignUpFails, PromotionFails, Abandons, Goes
    <2>4. QED
      BY <1>a, <2>1, <2>2, <2>3, RunRests DEF RunsInv
  <1>8. CASE UNCHANGED vars
    BY <1>8, RunRests DEF vars, RunsInv, adminVars, facts
  <1>9. QED
    BY <1>1, <1>2, <1>3, <1>5, <1>6, <1>7, <1>8 DEF Next, CliStep, Bystander

-----------------------------------------------------------------------------
(* Theorems                                                                 *)

LEMMA InitIInv == Init => IInv
  <1> SUFFICES ASSUME Init PROVE IInv
    OBVIOUS
  <1> USE DEF Init, AdminInit
  <1>1. \A s \in Sessions :
          \/ session[s] = FreeSession
          \/ \E u \in Users : Exists(u) /\ session[s] = Session("open", u, Nobody, TRUE, role[u])
    OBVIOUS
  <1>2. \A u \in Users : mayRead[u] = [roles |-> {Stored(role[u])}, rows |-> {rows[u]}]
    BY DEF Committed
  <1>3. AdminTypeOK
    <2>1. session \in [Sessions -> SessionRecord]
      <3>1. \A s \in Sessions : session[s] \in SessionRecord
        <4>1. FreeSession \in SessionRecord
          BY DEF Session, FreeSession, SessionRecord
        <4>2. \A u \in Users : Exists(u) =>
                Session("open", u, Nobody, TRUE, role[u]) \in SessionRecord
          BY DEF Session, SessionRecord, Exists
        <4>3. QED
          BY <1>1, <4>1, <4>2
      <3>2. QED
        BY <3>1
    <2>2. mayRead \in [Users -> [roles : SUBSET StoredRoles, rows : SUBSET SUBSET OverrideRows]]
      BY <1>2, StoredTypes
    <2>3. request \in [Requests -> RequestRecord]
      BY DEF RequestRecord
    <2>4. QED
      BY <2>1, <2>2, <2>3 DEF AdminTypeOK
  <1>4. RequestsInv
    BY DEF RequestsInv
  <1>5. SessionsInv
    BY <1>1, <1>3, RolesAreNamed, AdminAssumption DEF SessionsInv, Session, FreeSession
  <1>6. UnbornInv
    BY <1>2 DEF UnbornInv
  <1>7. RightsAreInForce
    BY DEF RightsAreInForce
  <1>8. StaleRolesAreExcused
    BY <1>1 DEF StaleRolesAreExcused, Live, HydrateUser, SessionRole, Session, FreeSession
  <1>9. TypeOK
    BY <1>3 DEF TypeOK
  <1>10. RunsInv
    BY DEF RunsInv
  <1>11. QED
    BY <1>3, <1>4, <1>5, <1>6, <1>7, <1>8, <1>9, <1>10 DEF IInv, RoutesInv

\* The invariant that carries the others: how requests, sessions, accounts and
\* runs of the CLI stand to one another at every moment.
THEOREM InductiveInvariant == Spec => []IInv
  <1>1. IInv /\ [Next]_vars => IInv'
    BY RoutesKept, RunTypes, RunsKept DEF IInv
  <1>2. QED
    BY InitIInv, <1>1, PTL DEF Spec

\* The types of the routes' variables and of the runs of the CLI.
THEOREM TypeCorrect == Spec => []TypeOK
  <1>1. IInv => TypeOK
    BY DEF IInv
  <1>2. QED
    BY <1>1, InductiveInvariant, PTL

\* Rights that a write has replaced are out of use once it has refreshed, for
\* every route that changes them (AUTHORIZATION_CHANGING).
THEOREM Rights == Spec => []RightsAreInForce
  <1>1. IInv => RightsAreInForce
    BY DEF IInv, RoutesInv
  <1>2. QED
    BY <1>1, InductiveInvariant, PTL

\* A role that was changed is out of the sessions once they are revoked, for
\* every route that changes it (changesRole) and for the CLI's promotion.
THEOREM StaleRoles == Spec => []StaleRolesAreExcused
  <1>1. IInv => StaleRolesAreExcused
    BY DEF IInv, RoutesInv
  <1>2. QED
    BY <1>1, InductiveInvariant, PTL

\* No path and no field of a body gets round a DENY (requiredPermissions) but the
\* role and the ban in the data of create-user.
THEOREM Denials == Spec => DenialsAreObeyed
  <1>1. IInv /\ [Next]_vars =>
          [\A r \in Requests :
             HandlerActed(r)
               => request[r].barred \cap Taken(r) \subseteq Ungated(request[r].op)]_adminVars
    <2> SUFFICES ASSUME IInv, Next, NEW r \in Requests, HandlerActed(r)
                 PROVE  request[r].barred \cap Taken(r) \subseteq Ungated(request[r].op)
      BY DEF vars, HandlerActed, adminVars
    <2>1. AdminNext
      BY DEF Next, ApiStep, PublicSignUp, CliStep, LooksForAddress, SignsUp, SignUpFails,
        Promotes, PromotionFails, CleansUp, Abandons, adminVars, HandlerActed
    <2>2. QED
      BY <2>1, DenialStep DEF IInv, RoutesInv
  <1>2. QED
    BY <1>1, InductiveInvariant, PTL DEF Spec, DenialsAreObeyed

\* That data is the only way round: where no create-user carries any, what the
\* comment in front of the routes says holds as it stands.
THEOREM DenialsWithoutData ==
  ASSUME \A r \in Requests : \A op \in Operations(r) : op.data = {}
  PROVE  Spec => DenialsStayAuthoritative
  <1>1. IInv /\ [Next]_vars =>
          [\A r \in Requests :
             HandlerActed(r) => request[r].barred \cap Taken(r) = {}]_adminVars
    <2> SUFFICES ASSUME IInv, Next, NEW r \in Requests, HandlerActed(r)
                 PROVE  request[r].barred \cap Taken(r) = {}
      BY DEF vars, HandlerActed, adminVars
    <2>1. AdminNext
      BY DEF Next, ApiStep, PublicSignUp, CliStep, LooksForAddress, SignsUp, SignUpFails,
        Promotes, PromotionFails, CleansUp, Abandons, adminVars, HandlerActed
    <2>2. request[r].barred \cap Taken(r) \subseteq Ungated(request[r].op)
      BY <2>1, DenialStep DEF IInv, RoutesInv
    <2>3. request[r].op.data = {}
      BY DEF IInv, RoutesInv, RequestsInv, HandlerActed
    <2>4. QED
      BY <2>2, <2>3 DEF Ungated
  <1>2. QED
    BY <1>1, InductiveInvariant, PTL DEF Spec, DenialsStayAuthoritative

\* "It refuses to promote an existing account": a run of the CLI changes the
\* role of no account but its own, whatever comes between its steps.
THEOREM Bootstrap == Spec => BootstrapTouchesItsOwn
  <1>1. IInv /\ [Next]_vars =>
          [\A c \in Clis, u \in Users :
             cli'[c] # cli[c] /\ role[u] # "unborn" /\ role'[u] # role[u]
               => creator[u] = c]_vars
    <2> SUFFICES ASSUME IInv, Next, NEW c \in Clis, NEW u \in Users,
                        cli'[c] # cli[c], role[u] # "unborn", role'[u] # role[u]
                 PROVE  creator[u] = c
      OBVIOUS
    <2>1. ASSUME NEW d \in Clis, CliStep(d)
          PROVE  d = c
      BY <2>1 DEF IInv, TypeOK, CliStep, Goes, LooksForAddress, SignsUp, SignUpFails,
        Promotes, PromotionFails, CleansUp, Abandons
    <2>2. CliStep(c)
      BY <2>1 DEF Next, ApiStep, PublicSignUp
    <2>3. CASE Promotes(c) \/ CleansUp(c)
      <3>1. creator[cli[c].user] = c /\ cli[c].user \in Users
        BY <2>3 DEF IInv, RunsInv, Promotes, CleansUp
      <3>2. u = cli[c].user
        BY <2>3, <3>1 DEF IInv, TypeOK, AdminTypeOK, Promotes, CleansUp, Account, RoleWritten,
          UserDeleted, facts
      <3>3. QED
        BY <3>1, <3>2
    <2>4. CASE \E v \in Users, s \in Sessions : SignsUp(c, v, s)
      BY <2>4 DEF IInv, TypeOK, AdminTypeOK, SignsUp
    <2>5. QED
      BY <2>2, <2>3, <2>4
         DEF CliStep, LooksForAddress, SignUpFails, PromotionFails, Abandons, adminVars, facts
  <1>2. QED
    BY <1>1, InductiveInvariant, PTL DEF Spec, BootstrapTouchesItsOwn

\* A run of the CLI leaves nothing behind: not the session of its sign-up when
\* it succeeds, and not the account when it has cleaned up.
THEOREM NothingBehind == Spec => []BootstrapLeavesNothingBehind
  <1>1. IInv => BootstrapLeavesNothingBehind
    BY AdminAssumption DEF IInv, RunsInv, BootstrapLeavesNothingBehind, Exists
  <1>2. QED
    BY <1>1, InductiveInvariant, PTL

-----------------------------------------------------------------------------
(* What the claim of the documentation needs.                               *)

\* The actor of a role change is still an administrator to Better Auth when the
\* registrar asks for the end of the sessions.
RevokersAct == \A r \in Requests : request[r].at = "revoke" => ActsAsAdmin(r)

LEMMA NothingUnrevoked ==
  ASSUME ~Failures, RevokersAct, unrevoked = {}, [Next]_vars
  PROVE  unrevoked' = {}
  <1>1. CASE UNCHANGED vars
    BY <1>1 DEF vars, adminVars, lapses
  <1>2. ASSUME NEW r \in Requests, RequestStep(r) PROVE unrevoked' = {}
    BY <1>2 DEF RequestStep, Gate, Declines, ChangesUser, BansUser, UnbansUser, RemovesUser,
      CreatesUser, Impersonates, RevokesSession, StopsImpersonating, RevokesSessions,
      ChangesNothing, Refresh, RefreshFails, Revoke, RevokeFails, RevokersAct, EndSessionsOf,
      lapses
  <1>3. ASSUME NEW s \in Sessions, SessionStep(s) PROVE unrevoked' = {}
    BY <1>3 DEF SessionStep, SignInReads, SignInCreates, SignsOut, Evicted, RollsForward, lapses
  <1>4. ASSUME NEW w \in OverrideWrites,
               OverrideStored(w) \/ OverrideRefreshed(w) \/ OverrideRefreshFails(w)
        PROVE  unrevoked' = {}
    BY <1>4 DEF OverrideStored, OverrideRefreshed, OverrideRefreshFails, lapses
  <1>5. ASSUME NEW u \in Users, PublicSignUp(u) PROVE unrevoked' = {}
    BY <1>5 DEF PublicSignUp, lapses
  <1>6. ASSUME NEW c \in Clis, CliStep(c) PROVE unrevoked' = {}
    BY <1>6 DEF CliStep, LooksForAddress, SignsUp, SignUpFails, Promotes, PromotionFails,
      CleansUp, Abandons, adminVars, lapses
  <1>7. QED
    BY <1>1, <1>2, <1>3, <1>4, <1>5, <1>6 DEF Next, ApiStep, AdminNext

\* "The next request re-authenticates against the new role" holds as long as no
\* store fails and no actor loses its own session or role before its request has
\* revoked the sessions of the other (invalidateAuthorizationAfterMutation): the
\* swallowed error of revokeUserSessions is the only gap.
THEOREM RoleChangesReach ==
  ASSUME ~Failures
  PROVE  Spec /\ []RevokersAct => []RoleChangesReachSessions
  <1>1. Init => unrevoked = {}
    BY DEF Init, AdminInit
  <1>2. StaleRolesAreExcused /\ unrevoked = {} => RoleChangesReachSessions
    BY DEF StaleRolesAreExcused, RoleChangesReachSessions, Requesting
  <1>3. RevokersAct /\ unrevoked = {} /\ [Next]_vars => (unrevoked = {})'
    BY NothingUnrevoked
  <1>4. QED
    BY <1>1, <1>2, <1>3, StaleRoles, PTL DEF Spec
=============================================================================
