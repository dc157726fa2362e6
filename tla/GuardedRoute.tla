---------------------------- MODULE GuardedRoute ----------------------------
(***************************************************************************)
(* A Nest route with its guards, in the order they run: CsrfGuard (Csrf),    *)
(* AuthGuard, PermissionsGuard with the verdict of PermissionPolicy, and the *)
(* handler.  The browser's user has the stored role and override rows of     *)
(* PermissionPolicy.                                                        *)
(***************************************************************************)
EXTENDS Csrf, PermissionPolicy

CONSTANTS
  Required,        \* @Permissions of the route
  Mode,            \* "AND" or "OR"
  RoutePolicies    \* bound: the role and rows under which the browser acts

VARIABLE alive     \* Better Auth still knows the session

routeVars == <<csrfVars, vars, alive>>

RouteInit ==
  /\ CsrfInit
  /\ Init
  /\ alive = session

BrowserIsNew ==
  /\ ~production /\ ~session
  /\ jar = NoToken
  /\ \A r \in Requests : request[r] = Free

\* Bound: the facts about the user change before the browser acts.  What a
\* change during a request does is the subject of PermissionCache.
PolicyChanges ==
  /\ BrowserIsNew
  /\ Next
  /\ UNCHANGED <<csrfVars, alive>>

BrowserActs ==
  /\ [role |-> role, overrides |-> overrides] \in RoutePolicies
  /\ Browser
  /\ UNCHANGED <<alive, vars>>

SignsIn ==
  /\ [role |-> role, overrides |-> overrides] \in RoutePolicies
  /\ SignIn
  /\ alive' = TRUE
  /\ UNCHANGED vars

SessionRevoked ==
  /\ alive
  /\ alive' = FALSE
  /\ UNCHANGED <<csrfVars, vars>>

\* AuthGuard: a session that Better Auth does not know any more takes its cookie
\* along; applyCookies forwards that to the browser.
AuthGuardRefuses(r) == ~(request[r].auth /\ alive)

Outcome(r) ==
  IF AuthGuardRefuses(r) THEN "session"
  ELSE IF Passes(Required, Mode, role, overrides) THEN "done" ELSE "permission"

\* AuthGuard, PermissionsGuard and the handler.
RouteAnswers(r) ==
  /\ Is(r, "cleared")
  /\ request' = [request EXCEPT ![r].at = "answered", ![r].outcome = Outcome(r),
                   ![r].signsOut = request[r].auth /\ ~alive]
  /\ UNCHANGED <<production, jar, session, alive, vars>>

GuardRuns(r) == CsrfGuard(r) /\ UNCHANGED <<alive, vars>>

RouteNext ==
  \/ PolicyChanges
  \/ BrowserActs
  \/ SignsIn
  \/ SessionRevoked
  \/ \E r \in Requests : GuardRuns(r) \/ RouteAnswers(r)

\* Requests that were sent are answered and the answers arrive; nothing makes
\* the user act.
RouteSpec ==
  /\ RouteInit
  /\ [][RouteNext]_routeVars
  /\ \A r \in Requests :
       WF_routeVars(GuardRuns(r) \/ RouteAnswers(r)
                      \/ (BrowserActs /\ (Dispatch(r) \/ Receive(r))))
=============================================================================
