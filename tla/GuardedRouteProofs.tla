------------------------- MODULE GuardedRouteProofs -------------------------
(***************************************************************************)
(* The guarded route, proved for every catalog of keys, every set of roles,  *)
(* every ROLE_GRANTS and any number of requests of any kind.                *)
(*                                                                         *)
(* The properties of PermissionPolicy come first.  None but the type         *)
(* invariant needs induction: each is a fact about the operators, true of    *)
(* any facts of the right type.  The route carries them along, since its     *)
(* steps write what is stored about the user only as PermissionPolicy does.  *)
(* The properties of the CSRF token come last; they rest on one inductive    *)
(* invariant about what a request holds on its way.                         *)
(***************************************************************************)
EXTENDS GuardedRoute, TLAPS

OverrideRows == [PermissionKeys -> Effects]

\* has(k), from the rows: the key is not denied, and the key itself, or an
\* undenied "manage", is granted by a role or by an ALLOW.
LEMMA HasFromRows ==
  ASSUME NEW k \in PermissionKeys, NEW stored, NEW o \in OverrideRows
  PROVE  Has(k, stored, o) <=>
           LET granted == PermissionsForRoles(ParseStoredRoles(stored))
               m == ManageKey(k)
           IN  /\ o[k] # "DENY"
               /\ \/ k \in granted \/ o[k] = "ALLOW"
                  \/ /\ m \in granted \/ (m \in PermissionKeys /\ o[m] = "ALLOW")
                     /\ ~(m \in PermissionKeys /\ o[m] = "DENY")
  BY DEF Has, CheckPermission, Permissions, ResolvePermissions, With,
         OverrideRows, Effects

\* The type invariant.
THEOREM TypeCorrect == Spec => []TypeOK
<1>1. Init => TypeOK
  BY DEF Init, TypeOK, Effects
<1>2. TypeOK /\ [Next]_vars => TypeOK'
  BY DEF TypeOK, Next, vars, RoleStored, OverrideSet, OverrideRemoved,
         OverridesReplaced, Effects
<1> QED BY <1>1, <1>2, PTL DEF Spec

\* "DENY always wins", for every catalog.
THEOREM Deny == Spec => []DenyWins
<1>1. TypeOK => DenyWins
  <2> SUFFICES ASSUME TypeOK, NEW k \in PermissionKeys, overrides[k] = "DENY"
               PROVE  /\ ~Has(k, role, overrides)
                      /\ \A required \in SUBSET PermissionKeys :
                           k \in required => ~Passes(required, "AND", role, overrides)
    BY DEF DenyWins
  <2>1. ~Has(k, role, overrides)
    BY HasFromRows DEF TypeOK, OverrideRows
  <2> QED BY <2>1 DEF Passes
<1> QED BY <1>1, TypeCorrect, PTL

\* An ALLOW row opens its key by itself.
THEOREM Allow == Spec => []AllowIsEnough
<1>1. TypeOK => AllowIsEnough
  BY HasFromRows DEF TypeOK, AllowIsEnough, OverrideRows
<1> QED BY <1>1, TypeCorrect, PTL

\* The listed permissions are granted.
THEOREM Listed == Spec => []ListedIsGranted
<1>1. TypeOK => ListedIsGranted
  <2> SUFFICES ASSUME TypeOK, NEW k \in Permissions(role, overrides)
               PROVE  k \in Granted(role, overrides)
    BY DEF ListedIsGranted
  <2>1. k \in PermissionKeys
    BY CatalogAssumption
    DEF Permissions, ResolvePermissions, PermissionsForRoles, ParseStoredRoles, With
  <2> QED BY <2>1 DEF Granted, Has, CheckPermission, Permissions, ResolvePermissions
<1> QED BY <1>1, TypeCorrect, PTL

\* What is granted comes from a role the user holds or from an ALLOW row.
THEOREM Source == Spec => []GrantsHaveASource
<1>1. TypeOK => GrantsHaveASource
  <2> SUFFICES ASSUME TypeOK, NEW k \in Granted(role, overrides)
               PROVE  \E source \in {k, ManageKey(k)} :
                        \/ \E r \in RoleNames : Holds(role, r) /\ source \in RoleGrants[r]
                        \/ source \in PermissionKeys /\ overrides[source] = "ALLOW"
    BY DEF GrantsHaveASource
  <2>1. \A source : source \in PermissionsForRoles(ParseStoredRoles(role)) =>
          \E r \in RoleNames : Holds(role, r) /\ source \in RoleGrants[r]
    BY DEF PermissionsForRoles, ParseStoredRoles, Holds
  <2>2. \E source \in {k, ManageKey(k)} : source \in Permissions(role, overrides)
    BY DEF Granted, Has, CheckPermission
  <2> QED BY <2>1, <2>2 DEF Permissions, ResolvePermissions, With
<1> QED BY <1>1, TypeCorrect, PTL

\* The operator-level core of monotonicity.
LEMMA RestrictingNeverOpens ==
  ASSUME NEW stored, NEW o1 \in OverrideRows, NEW o2 \in OverrideRows,
         Restricts(o1, o2)
  PROVE  Granted(stored, o2) \subseteq Granted(stored, o1)
<1> SUFFICES ASSUME NEW k \in PermissionKeys, Has(k, stored, o2)
             PROVE  Has(k, stored, o1)
  BY DEF Granted
<1>1. \A j \in PermissionKeys : /\ o2[j] = "ALLOW" => o1[j] = "ALLOW"
                                /\ o1[j] = "DENY" => o2[j] = "DENY"
  BY DEF Restricts, Rank, OverrideRows, Effects
<1> QED BY <1>1, HasFromRows

\* Overrides act in the direction they read.
THEOREM Monotone == Spec => OverridesAreMonotone
<1> DEFINE Step == role' = role =>
       /\ Restricts(overrides, overrides')
            => Granted(role', overrides') \subseteq Granted(role, overrides)
       /\ Restricts(overrides', overrides)
            => Granted(role, overrides) \subseteq Granted(role', overrides')
<1>1. TypeOK /\ TypeOK' => Step
  BY RestrictingNeverOpens DEF TypeOK, OverrideRows
<1> QED BY <1>1, TypeCorrect, PTL DEF OverridesAreMonotone

-----------------------------------------------------------------------------
(* The policy on the route *)

\* The route takes no liberties with the facts about the user.
THEOREM RouteKeepsPolicy == RouteSpec => Spec
<1>1. RouteInit => Init
  BY DEF RouteInit
<1>2. [RouteNext]_routeVars => [Next]_vars
  BY DEF RouteNext, PolicyChanges, BrowserActs, SignsIn, SessionRevoked, GuardRuns,
         RouteAnswers, routeVars, vars
<1> QED BY <1>1, <1>2, PTL DEF RouteSpec, Spec

\* The verdict that PermissionsGuard takes on the route is the policy's.
THEOREM RoutePolicy ==
  RouteSpec => /\ [](DenyWins /\ AllowIsEnough /\ ListedIsGranted /\ GrantsHaveASource)
               /\ OverridesAreMonotone
BY RouteKeepsPolicy, Deny, Allow, Listed, Source, Monotone, PTL

-----------------------------------------------------------------------------
(* The token *)

Fields == {"kind", "at", "header", "cookie", "auth", "outcome", "set", "signsOut"}

MayFillIn(kind) == kind.page = "own" \/ (kind.proxied /\ ~production)

\* A request on its way: its header is a copy of the cookie made by a page that
\* reads it or by the documentation proxy, which production lacks, and none
\* once the guard is done; a new cookie is only for a request that brought none;
\* and what the guard let through with a session carried a header.
Sound(q) ==
  /\ DOMAIN q = Fields
  /\ q.kind.proxied => ~production
  /\ q.header # NoToken => MayFillIn(q.kind)
  /\ q.at = "prepared" => q.set = NoToken
  /\ q.at = "sent" => q.set = NoToken
  /\ q.set # NoToken => q.cookie = NoToken
  /\ q.at = "cleared" /\ Guarded(q.kind) /\ q.auth => MayFillIn(q.kind)

SoundRequests ==
  /\ DOMAIN request = Requests
  /\ \A r \in Requests : request[r] # Free => Sound(request[r])

LEMMA PreparedIsSound ==
  \A kind : (kind.proxied => ~production) => Sound(Prepared(kind))
  BY DEF Sound, Prepared, Fields, MayFillIn, Guarded

LEMMA SoundStep == SoundRequests /\ [RouteNext]_routeVars => SoundRequests'
<1> SUFFICES ASSUME SoundRequests, [RouteNext]_routeVars PROVE SoundRequests'
  OBVIOUS
<1>0. production' = production
  BY DEF RouteNext, PolicyChanges, BrowserActs, SignsIn, SessionRevoked, GuardRuns,
         Browser, BrowserRestarts, Dispatch, Receive, Prepare, SignIn, CsrfGuard,
         RouteAnswers, routeVars, csrfVars
<1>1. CASE UNCHANGED request
  BY <1>0, <1>1 DEF SoundRequests, Sound, MayFillIn
<1>2. ASSUME NEW r \in Requests, NEW q, Sound(q), request' = [request EXCEPT ![r] = q]
      PROVE  SoundRequests'
  BY <1>0, <1>2 DEF SoundRequests, Sound, MayFillIn
<1>3. CASE BrowserRestarts
  BY <1>0, <1>3 DEF BrowserRestarts, SoundRequests
<1>4. ASSUME NEW r \in Requests, NEW kind \in RequestKinds, Prepare(r, kind)
      PROVE  SoundRequests'
  BY <1>2, <1>4, PreparedIsSound DEF Prepare
<1>5. ASSUME NEW r \in Requests, Dispatch(r) PROVE SoundRequests'
  <2> DEFINE q == [request[r] EXCEPT !.at = "sent", !.cookie = jar, !.auth = session,
                     !.header = IF request[r].kind.proxied /\ jar # NoToken THEN jar ELSE @]
  <2>1. request' = [request EXCEPT ![r] = q]
    BY <1>5 DEF Dispatch, SoundRequests, Is, Sound, Fields
  <2>2. Sound(q)
    BY <1>5 DEF Dispatch, SoundRequests, Is, Sound, Fields, MayFillIn
  <2> QED BY <1>2, <2>1, <2>2
<1>6. ASSUME NEW r \in Requests, Receive(r) PROVE SoundRequests'
  <2> DEFINE newJar == IF request[r].set = NoToken THEN jar ELSE request[r].set
             again == [Prepared(request[r].kind) EXCEPT
                         !.header = IF request[r].kind.page = "own" THEN newJar ELSE NoToken]
  <2>1. Sound(again)
    BY <1>6 DEF Receive, Is, SoundRequests, Sound, Prepared, Fields, MayFillIn, Guarded
  <2>2. CASE TriesAgain(r)
    <3>1. request' = [request EXCEPT ![r] = again]
      BY <1>6, <2>2 DEF Receive
    <3> QED BY <1>2, <2>1, <3>1
  <2>3. CASE ~TriesAgain(r)
    BY <1>0, <1>6, <2>3 DEF Receive, SoundRequests, Sound, MayFillIn
  <2> QED BY <2>2, <2>3
<1>7. ASSUME NEW r \in Requests, CsrfGuard(r) PROVE SoundRequests'
  <2> DEFINE issue == IssueCsrfCookieIfMissing(request[r].cookie)
  <2>1. request[r] # Free /\ Sound(request[r]) /\ request[r].at = "sent"
    BY <1>7 DEF CsrfGuard, Is, SoundRequests
  <2>2. issue # NoToken => request[r].cookie = NoToken
    BY DEF IssueCsrfCookieIfMissing
  <2>3. ASSUME NEW outcome, NEW set \in {NoToken, issue}, Refuse(r, outcome, set)
        PROVE  SoundRequests'
    <3> DEFINE q == [request[r] EXCEPT !.at = "answered", !.outcome = outcome,
                       !.set = set, !.header = NoToken]
    <3>1. request' = [request EXCEPT ![r] = q]
      BY <2>1, <2>3 DEF Refuse, SoundRequests, Sound, Fields
    <3>2. Sound(q)
      BY <2>1, <2>2 DEF Sound, Fields
    <3> QED BY <1>2, <3>1, <3>2
  <2>4. ASSUME NEW set \in {NoToken, issue}, Clear(r, set),
               Guarded(request[r].kind) /\ request[r].auth => TokensMatch(r)
        PROVE  SoundRequests'
    <3> DEFINE q == [request[r] EXCEPT !.at = "cleared", !.set = set, !.header = NoToken]
    <3>1. request' = [request EXCEPT ![r] = q]
      BY <2>1, <2>4 DEF Clear, SoundRequests, Sound, Fields
    <3>2. Sound(q)
      BY <2>1, <2>2, <2>4 DEF Sound, Fields, TokensMatch
    <3> QED BY <1>2, <3>1, <3>2
  <2> DEFINE kind == request[r].kind
  <2>5. CASE ~Guarded(kind)
    <3>1. Clear(r, issue) \/ Clear(r, NoToken)
      BY <1>7, <2>5 DEF CsrfGuard, Guarded
    <3> QED BY <2>4, <2>5, <3>1
  <2>6. CASE Guarded(kind) /\ ~AssertOriginAllowed(kind)
    <3>1. Refuse(r, "origin", NoToken)
      BY <1>7, <2>6 DEF CsrfGuard, Guarded
    <3> QED BY <2>3, <3>1
  <2>7. CASE Guarded(kind) /\ AssertOriginAllowed(kind)
    <3>1. IF ~request[r].auth THEN Clear(r, issue)
          ELSE IF TokensMatch(r) THEN Clear(r, NoToken)
          ELSE Refuse(r, "token", issue)
      BY <1>7, <2>7 DEF CsrfGuard, Guarded
    <3> QED BY <2>3, <2>4, <3>1
  <2> QED BY <2>5, <2>6, <2>7
<1>8. ASSUME NEW r \in Requests, RouteAnswers(r) PROVE SoundRequests'
  <2> DEFINE q == [request[r] EXCEPT !.at = "answered", !.outcome = Outcome(r),
                     !.signsOut = request[r].auth /\ ~alive]
  <2>1. request' = [request EXCEPT ![r] = q]
    BY <1>8 DEF RouteAnswers, SoundRequests, Is, Sound, Fields
  <2>2. Sound(q)
    BY <1>8 DEF RouteAnswers, SoundRequests, Is, Sound, Fields
  <2> QED BY <1>2, <2>1, <2>2
<1>9. CASE RouteNext
  BY <1>1, <1>3, <1>4, <1>5, <1>6, <1>7, <1>8, <1>9
  DEF RouteNext, PolicyChanges, BrowserActs, SignsIn, SessionRevoked, GuardRuns,
      Browser, SignIn, csrfVars
<1> QED BY <1>1, <1>9 DEF routeVars, csrfVars

\* What every request holds on its way, in every state of the route.
THEOREM TokensInOrder == RouteSpec => []SoundRequests
<1>1. RouteInit => SoundRequests
  BY DEF RouteInit, CsrfInit, SoundRequests
<1> QED BY <1>1, SoundStep, PTL DEF RouteSpec

\* In production only a page that can read the browser's cookie gets past the
\* guard with the browser's session, outside it whoever goes through the
\* documentation proxy as well, with any number of requests and tokens under way.
THEOREM OnlyReaders == RouteSpec => []OnlyReadersPass
<1>1. SoundRequests => OnlyReadersPass
  BY DEF SoundRequests, Sound, OnlyReadersPass, Is, MayFillIn
<1> QED BY <1>1, TokensInOrder, PTL

\* The cookie changes only by the answer to a request that was sent without it.
THEOREM TokensStay == RouteSpec => TokenStays
<1> DEFINE Step == jar' \notin {jar, NoToken} =>
       \E r \in Requests : Is(r, "answered") /\ request[r].cookie = NoToken
                             /\ jar' = request[r].set
<1>1. SoundRequests /\ [RouteNext]_routeVars => Step
  <2> SUFFICES ASSUME SoundRequests, [RouteNext]_routeVars, jar' \notin {jar, NoToken}
               PROVE  \E r \in Requests : Is(r, "answered") /\ request[r].cookie = NoToken
                                            /\ jar' = request[r].set
    OBVIOUS
  <2>1. PICK r \in Requests : Receive(r)
    BY DEF RouteNext, PolicyChanges, BrowserActs, SignsIn, SessionRevoked, GuardRuns,
           RouteAnswers, Browser, BrowserRestarts, Prepare, Dispatch, CsrfGuard, SignIn,
           routeVars, csrfVars
  <2>2. Is(r, "answered") /\ request[r].set # NoToken /\ jar' = request[r].set
    BY <2>1 DEF Receive
  <2> QED BY <2>2 DEF SoundRequests, Sound, Is
<1> QED BY <1>1, TokensInOrder, PTL DEF RouteSpec, TokenStays
=============================================================================
