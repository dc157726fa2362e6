-------------------------------- MODULE Csrf --------------------------------
(***************************************************************************)
(* The double-submit token: one browser, its cookies, the requests of its    *)
(* tabs, and CsrfGuard in front of every Nest route.  The guard keeps no     *)
(* state: it hands out a token as a cookie and later compares the cookie     *)
(* with a header that a page able to read the cookie fills in; outside        *)
(* production the documentation proxy fills it in for whoever asks.  A page prepares a request (and its header) before the browser attaches    *)
(* the cookie, and responses arrive in any order, so the two may differ; a    *)
(* page whose request was refused for its token reads the cookie anew and    *)
(* tries again.                                                             *)
(*                                                                         *)
(* What follows the guard is a step of the module that extends this one.     *)
(***************************************************************************)
EXTENDS Naturals

CONSTANTS
  Requests,        \* the requests under way at once
  RequestKinds,    \* [unsafe, exempt, page, proxied, site, origin, referer]
  MaxTokens,       \* bound: tokens told apart
  NoToken,
  Free             \* a request slot that is not in use

KindType ==
  [unsafe : BOOLEAN, exempt : BOOLEAN,
   page : {"own", "docs", "foreign"},           \* who made the request
   proxied : BOOLEAN,                           \* sent to /documentation-proxy
   site : {"same", "cross", "absent"},          \* the header Sec-Fetch-Site
   origin : {"listed", "other", "absent"},      \* against WEB_ALLOWED_ORIGINS
   referer : {"listed", "other", "absent"}]

ASSUME CsrfAssumption ==
  /\ RequestKinds \subseteq KindType
  /\ \A kind \in RequestKinds : kind.page = "docs" => kind.proxied
  /\ MaxTokens \in Nat
  /\ NoToken \notin 1 .. MaxTokens

Tokens == 1 .. MaxTokens

VARIABLES
  production,   \* APP_ENV is production: origins are checked, there are no docs
  jar,          \* the token in the browser's CSRF cookie
  session,      \* the browser holds a session cookie
  request       \* request[r]: Free or [kind, at, header, cookie, auth, outcome,
                \*   set, signsOut]; the last two are what the answer does to
                \*   the browser's cookies

csrfVars == <<production, jar, session, request>>

CsrfInit ==
  /\ production \in BOOLEAN
  /\ jar = NoToken
  /\ session \in BOOLEAN
  /\ request = [r \in Requests |-> Free]

\* makeCsrfToken: 32 random bytes, a token that nobody holds.
Held ==
  {jar} \cup UNION {{request[r].header, request[r].cookie, request[r].set} :
                    r \in {q \in Requests : request[q] # Free}}

MakeCsrfToken == CHOOSE t \in Tokens : t \notin Held

-----------------------------------------------------------------------------
(* The browser *)

Is(r, at) == request[r] # Free /\ request[r].at = at

\* The header is a copy of the cookie for the page that can read it.
Prepared(kind) ==
  [kind |-> kind, at |-> "prepared",
   header |-> IF kind.unsafe /\ kind.page = "own" THEN jar ELSE NoToken,
   cookie |-> NoToken, auth |-> FALSE, outcome |-> "none",
   set |-> NoToken, signsOut |-> FALSE]

Prepare(r, kind) ==
  /\ request[r] = Free
  /\ kind.proxied => ~production
  /\ request' = [request EXCEPT ![r] = Prepared(kind)]
  /\ UNCHANGED <<production, jar, session>>

\* The browser attaches the cookies of now.  The documentation proxy copies the
\* cookie into the header of what passes through it, whichever page sent it.
Dispatch(r) ==
  /\ Is(r, "prepared")
  /\ request' = [request EXCEPT ![r].at = "sent", ![r].cookie = jar, ![r].auth = session,
                   ![r].header = IF request[r].kind.proxied /\ jar # NoToken THEN jar ELSE @]
  /\ UNCHANGED <<production, jar, session>>

\* Better Auth's routes, which the guard does not see.
SignIn == session' = TRUE /\ UNCHANGED <<production, jar, request>>

\* The CSRF cookie ends with the browser; the session cookie does not.
BrowserRestarts ==
  /\ jar # NoToken
  /\ jar' = NoToken
  /\ request' = [r \in Requests |-> Free]
  /\ UNCHANGED <<production, session>>

\* The page of a request refused for its token reads the cookie and tries again.
TriesAgain(r) ==
  request[r].outcome = "token" /\ request[r].kind.page \in {"own", "docs"}

Receive(r) ==
  LET answer == request[r]
      newJar == IF answer.set = NoToken THEN jar ELSE answer.set
  IN
  /\ Is(r, "answered")
  /\ jar' = newJar
  /\ session' = (session /\ ~answer.signsOut)
  /\ request' = [request EXCEPT ![r] =
       IF TriesAgain(r)
       THEN [Prepared(answer.kind) EXCEPT
               !.header = IF answer.kind.page = "own" THEN newJar ELSE NoToken]
       ELSE Free]
  /\ UNCHANGED production

-----------------------------------------------------------------------------
(* The guard *)

\* isAllowedByOriginOrReferer, which is asked in production only: there the
\* configuration is refused when WEB_ALLOWED_ORIGINS is empty (http.config.ts:96),
\* and both allowlists are made of it.
IsAllowedByOriginOrReferer(kind) ==
  \/ kind.origin = "listed"
  \/ kind.origin = "absent" /\ kind.referer = "listed"

AssertOriginAllowed(kind) ==
  production =>
    IF kind.site # "absent" THEN kind.site = "same" ELSE IsAllowedByOriginOrReferer(kind)

\* Variant of IssueCsrfCookieIfMissing: every response brings a new token.
IssueCsrfCookieAlways(cookie) == MakeCsrfToken

\* Variant of IssueCsrfCookieIfMissing: only safe requests would bring one.
IssueCsrfCookieNever(cookie) == NoToken

IssueCsrfCookieIfMissing(cookie) ==
  IF cookie = NoToken THEN MakeCsrfToken ELSE NoToken

\* Variant of TokensMatch: a missing header is taken for a client without pages.
TokensMatchIfSent(r) ==
  request[r].cookie # NoToken /\ request[r].header \in {NoToken, request[r].cookie}

TokensMatch(r) ==
  request[r].cookie # NoToken /\ request[r].header = request[r].cookie

\* The header has done its work.
Clear(r, set) ==
  request' = [request EXCEPT ![r].at = "cleared", ![r].set = set, ![r].header = NoToken]

Refuse(r, outcome, set) ==
  request' = [request EXCEPT ![r].at = "answered", ![r].outcome = outcome,
                   ![r].set = set, ![r].header = NoToken]

\* CsrfGuard.canActivate
CsrfGuard(r) ==
  LET kind == request[r].kind
      issue == IssueCsrfCookieIfMissing(request[r].cookie)
  IN
  /\ Is(r, "sent")
  /\ CASE ~kind.unsafe -> Clear(r, issue)
       [] kind.unsafe /\ kind.exempt -> Clear(r, NoToken)
       [] kind.unsafe /\ ~kind.exempt /\ ~AssertOriginAllowed(kind) ->
            Refuse(r, "origin", NoToken)
       [] OTHER ->
            IF ~request[r].auth THEN Clear(r, issue)
            ELSE IF TokensMatch(r) THEN Clear(r, NoToken)
            ELSE Refuse(r, "token", issue)
  /\ UNCHANGED <<production, jar, session>>

Browser ==
  \/ BrowserRestarts
  \/ \E r \in Requests : Dispatch(r) \/ Receive(r) \/ \E kind \in RequestKinds : Prepare(r, kind)

-----------------------------------------------------------------------------
Guarded(kind) == kind.unsafe /\ ~kind.exempt

\* In production only a page that can read the browser's cookie gets an unsafe
\* request with the browser's session past the guard, however old its token and
\* whatever other tabs, answers and restarts did to the cookie in between.
\* Outside it every page can, but through the documentation proxy alone, which
\* has the header filled in for whoever asks.
OnlyReadersPass ==
  \A r \in Requests :
    Is(r, "cleared") /\ Guarded(request[r].kind) /\ request[r].auth
      => request[r].kind.page = "own" \/ (request[r].kind.proxied /\ ~production)

\* The guard never takes a token out of the hands of a page that uses it: only
\* the answer to a request that was sent without any token changes the cookie.
TokenStays ==
  [][jar' \notin {jar, NoToken} =>
       \E r \in Requests : Is(r, "answered") /\ request[r].cookie = NoToken
                             /\ jar' = request[r].set]_csrfVars

\* A refusal for the token is never the last word: the answers of parallel
\* first requests may replace the cookie under a page, but a page that tries
\* again gets past the guard in the end, or is refused for something else.
RetriesGetThrough ==
  \A r \in Requests :
    Is(r, "prepared") /\ request[r].kind.page \in {"own", "docs"}
      ~> \/ request[r] = Free
         \/ Is(r, "answered") /\ request[r].outcome # "token"
=============================================================================
