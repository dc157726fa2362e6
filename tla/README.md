# TLA+ models of Harbor API Kit

Harbor API Kit is a NestJS (Fastify) API starter: Better Auth for identity and
sessions, PostgreSQL through Prisma as the record, Redis as cache, rate-limit
store and job queue, S3 or local disk for files. This directory holds TLA+
models of the parts whose correctness depends on order, concurrency or failure,
the TLC configurations that check them, and proofs checked by TLAPS.

Paths below are relative to the root of the repository.

## 1. Inventory

A request passes: the Fastify `onRequest` hook that opens the request context
(an `AsyncLocalStorage` store with a memo), `CsrfGuard`, `AuthGuard`,
`PermissionsGuard`, `RateLimitInterceptor`, the handler, `ResponseInterceptor`,
and `GlobalExceptionFilter` on failure. `/auth/*` routes bypass all but the
first: `BetterAuthRouteRegistrar` forwards them to Better Auth, with a
permission check in front of `/admin/*`.

| Component | State it keeps | Operations | Interacts through | What is hard | What makes it correct |
|---|---|---|---|---|---|
| Effective-permission cache (`modules/authorization/effective-permissions.service.ts`, `infrastructure/cache`) | Redis: a version key per user, entries keyed by version; a memo per request | `buildForUser`, `refreshForUser` | called by `PermissionsGuard`, the registrar and `GET users/:id/effective-permissions`; refreshed by `AuthorizationService` and the registrar | lookups that straddle a write, two unsynchronised queries, crash between commit and refresh, eviction | nobody is answered from before a change in force; one answer per request; errors heal |
| Override storage (`persistence/prisma/authorization.prisma.repository.ts`) | rows of `user_permissions`, unique on (user, key) | set, remove, replace, list | `AuthorizationService`; read by the cache | concurrent writers at READ COMMITTED, a two-statement replace | a reader sees only requested changes; outcomes are serial |
| Permission policy (`permissions.catalog.ts`, `resolvePermissions`, `checkPermission`, `PermissionsGuard`) | none of its own | stored role and rows to a verdict | both of the above | four ways to a grant, two to a denial | DENY wins, ALLOW suffices, monotone, nothing from nowhere |
| Rate limiter (`infrastructure/rate-limit`) | Redis: a sorted set per bucket | `consume` for a global, a user and a session budget | interceptor on every Nest route | stamps taken before the command travels, several processes and clocks, three budgets in sequence | the budget holds; refusals are earned; a refused request charges no later budget |
| Admin routes and sessions (`modules/auth/better-auth.registrar.ts`, `auth.guard.ts`) | Better Auth's sessions in Redis and PostgreSQL, with a snapshot of the user | gate, forward, refresh, revoke | permission cache, Better Auth | check then act, swallowed revocation, impersonation | a DENY holds on every path and field; role changes reach open sessions |
| Files (`modules/files`) | `files` rows, bytes in the object store | upload, visibility, links, streams | permission guard, storage drivers | two stores without a transaction, visibility races, signed links, a look into a stream that goes on, a size limit that cuts it | a row has its bytes, and they are those sent; a public row has its token; private files stay private |
| Auth e-mails (`modules/notify`) | BullMQ jobs in Redis | enqueue, process, retry | Better Auth callbacks, Resend | at-least-once delivery, swallowed errors, exhausted attempts, stalled workers | the auth operation never fails for its e-mail; what is queued is delivered or given up, copies come from stalls only |
| Guard chain (`common/csrf.guard.ts`, `modules/auth/auth.guard.ts`, `PermissionsGuard`) | cookies in the browser | issue, verify, refuse | every Nest route | parallel first requests, answers that overtake each other, sessions revoked meanwhile | in production an authenticated unsafe request carries the token; a refusal for the token is never the last word |
| Admin bootstrap CLI (`prisma/create-admin.ts`) | a user row | sign up, promote, undo | Better Auth | crash between the two | never a half-made admin with the address taken |
| Request context, envelope, locale, configuration, logging, Swagger, health | little or none | parsing, formatting, wiring | all | nothing over time | unit tests reach them |

`PROJECT.json` lists the hazards at their lines and, for each, the properties
that would catch it, or why none does.

## 2. Plan

| # | Modules | Models | Runs | Proved |
|---|---|---|---|---|
| 1 | `Revisions`, `FreshPermissions`, `PermissionCache` | the cache and its abstract specification | `cache`, `cache_heals`, `cache_evicted_version` | safety and the refinement (`PermissionCacheProofs`) |
| 2 | `OverrideStore` | concurrent writes to override rows | `overrides_one_replace`, `overrides_two_replaces` | types, `ChangesAreRequested`, `SerialOutcome` (`OverrideStoreProofs`) |
| 3 | `PolicyRules`, `PermissionPolicy` | from stored facts to the verdict | `guards` | all (`GuardedRouteProofs`) |
| 4 | `Csrf`, `GuardedRoute` | browser and chain of guards; composes 3 | `guards` | safety (`GuardedRouteProofs`) |
| 5 | `RateLimiter` | the three budgets | `rate_limiter` | all (`RateLimiterProofs`) |
| 6 | `Files` | upload over object store and rows, visibility, links | `files` | all (`FilesProofs`) |
| 7 | `Uploads` | the validating stream inside an upload; refines 6 | `files`, `files_over_limit` | the refinement and `StoredIsSent` (`UploadsProofs`) |
| 8 | `MailPromise`, `EmailQueue` | enqueue, worker, retries, crashes, and the promise they keep | `email`, `email_provider_errors` | safety and the safety part of the promise (`EmailQueueProofs`) |
| 9 | `AdminRoutes` | sessions, check, forward, refresh, revoke; uses 3 and the promise of 1 | `admin` | all, with 10 |
| 10 | `AdminBootstrap` | the CLI beside the running API; extends 9 | `admin` | all (`AdminBootstrapProofs`) |

`MC...` modules give the constants values. The composition: `GuardedRoute` puts
`Csrf`, the session check and the verdict of `PermissionPolicy` in a row;
`AdminRoutes` asks `PolicyRules` for its verdicts on roles and rows drawn from
`mayRead`, which moves as `FreshPermissions` lets the answers of the cache move;
`AdminBootstrap` adds the CLI to the same accounts and sessions; `Uploads` puts
the stream between two steps of `Files`.

What would come next: the routes of Better Auth's organization plugin, and a
change of the user's rights in the middle of a request behind the guards.

Every module declares its parameters as CONSTANTS with named assumptions, has
one action per operation, and uses no RECURSIVE operator, so that it can be
proved about as well as checked. Variant operators (each marked "Variant of")
stand before the operator they vary: they are the plausible bugs against which
`PROJECT.json` tests every property.

## 3. The permission cache

`buildForUser` reads the version key, then the entry
`authorization:user:<id>:effective:1:<version>`; on a miss it reads role and
overrides with two parallel queries and stores the result under the version it
sampled, for an hour. `refreshForUser` is an `INCR` of the version key, after the
write has committed.

| Model | Code |
|---|---|
| `db`, `WriteCommits`, `WriteRejected` | PostgreSQL and the writes of `AuthorizationService` and Better Auth's admin routes |
| `version`, `RefreshForUser`, `RefreshLost` | the version key; the INCR, and its absence when the process or the call fails |
| `entries`, `EntryStored`, `EntryDropped` | the versioned entries; SET, and TTL or eviction |
| `memo`, `MemoHit`, `AnswerWith` | the request memo of `getOrLoad` |
| `SampleVersion`, `EntryHit`, `EntryMiss`, `RoleRead`, `OverridesRead` | the awaits of `buildForUser`, one action each |
| `published`, `since`, `seen` | observers: what every new request must reflect, what a given request must, what it was told |

What role and overrides contain is abstracted to how many commits they reflect
(`Revisions`): a cache is right or wrong about *which* content it serves.

`published` moves to `db` with every refresh: a refresh covers every commit
before it, its own and others'. `FreshAnswers` says that an answer of a request
reflects at least what was published when the request began.

`FreshPermissions` is the same promise without a cache: one answer per request,
drawn between `since` and `db`. `PermissionCache` implements it
(`ImplementsFreshPermissions`); `MemoHit` and all the fetching stutter.

Runs:

- `PermissionCache.cfg`: three requests, two writers that may die between commit
  and refresh. Three requests let one fetch before a write and store after it,
  one read what it stored, one read after the refresh; two writers let one part
  change between the two queries and let one refresh cover the other's commit.
  Requests are identical, and so are writers: symmetry is sound for these
  invariants and for the refinement's safety.
- `PermissionCache_heals.cfg`: liveness, with two requests, crashed writers and
  lost version keys.
- `PermissionCache_evicted_version.cfg`: a statement of the repository that the
  code does not keep (section 12).

No bound is written in a guard: writers act once each, so `version` and `db` are
bounded by their number. The deadlock check is off because writers finish and
clients may stay away.

Fairness (`FairSpec`): a lookup that has started takes its next step (promises
settle: the Redis and Prisma clients either answer or reject), and an entry
reaches its TTL. No fairness for writers, new requests or eviction. `CacheHeals`
needs the TTL only; it holds because every write is over in the end, as the
writers are finitely many.

Proved for any sets of requests and writers (`PermissionCacheProofs`): the type
invariant; freshness, the settled cache and the refinement, as long as a lost
version key leaves nothing behind; and, whatever Redis loses, one answer per
request and `NeverAhead`. Liveness is only model-checked.

The invariant is needed because `FreshAnswers` says nothing of fetches in flight.
Its idea: what is filed under a version was read after that version began. So
`EntriesInv` bounds the current entry below by `published`; `ReadInv` says the
same of the parts a fetch has read, for as long as its version is current, and
for every lookup that shares its version; `LookupInv` gives a sampled entry to
the request.

The run with `CanLoseVersion` shows that freshness needs a hypothesis on
eviction. The weakest the proof found is an action: `LossIsClean`, when the
version key goes there is no entry left and no lookup that may still file one. A
run that keeps to it may lose the key any number of times, and
`FreshUnlessLeft`, `SettledUnlessLeft` and `RefinesUnlessLeft` hold of it; a
Redis that never loses the key (`~CanLoseVersion`: `Freshness`, `SettledCache`,
`Refinement`) is a special case. Two things do not depend on it. A request has one
answer because of its memo alone (`RequestConsistency`), and whatever is filed,
read or answered is something that PostgreSQL had committed (`NeverAhead`,
invariant `PastInv`): a wrong answer is an old one.

## 4. Override storage

`OverrideStore` models one user's rows and concurrent requests at PostgreSQL's
READ COMMITTED: a DELETE snapshots its victims when it starts and skips those
that are gone; a statement waits for an open transaction that deleted the row
or inserted the key; the upsert is one statement; `replace` is a transaction of
a DELETE and an INSERT, whose rows go in one by one, because the unique index
may make it wait or fail at any of them. The caller may list a key twice
(`ReplaceUserPermissionsSchema` does not forbid it). `Abort` covers lost
connections, crashes, timeouts and deadlock victims.

- `OverrideStore_one_replace.cfg`: one replace of up to two rows, two sets or
  removes, two keys, all stored rows. `ChangesAreRequested` (an action
  property) is the atomicity of `db.run` seen by a reader; `SerialOutcome` is
  serialisability of the successful operations: in some strict order of them the
  last one about each key is the one whose effect is stored.
- `OverrideStore_two_replaces.cfg`: two replaces, and `SerialOutcome` fails.

Two keys are enough for the union of two disjoint replaces and for waiting in
opposite orders; a third writer lets a row vanish and return during a DELETE.
The deletion of the user (cascade) is in `AdminRoutes`; the `note` column is not
modelled.

Proved for any writers, keys and lists (`OverrideStoreProofs`, from
`AsksAssumption`: the operations are those of the three routes): types,
`ChangesAreRequested`, and `SerialOutcome` where replaces do not overlap. The
invariant says what each writer has under way.
`Deleting` ties the victims of a DELETE to its operation. `Inserting` says that
what an INSERT has written is a beginning of its list without a repetition; at
the commit it is the whole list, so what becomes visible is what was asked.
`LockInv` says that no two writers hold one key, so a commit undoes nobody's
open change.

`SerialUnlessOverlapping` is the other side of the run with two replaces: any
sets, removes and replaces are serial in every run in which no two replaces are
under way at once (`NoOverlap`), whatever fails. `SerialWithOneReplacer` is the case
that `OverrideStore_one_replace.cfg` checks. `SerialOutcome` is not inductive: the
order has to be known before a replace commits. `SerialInv` carries an order that
explains the rows, in which whatever the replace under way will leave behind
(`Left`: rows its DELETE did not find) was set by an operation that is the last
about its key. When the replace commits, it takes its place before those sets
and after all else (`ReplaceSucceeds`); a set or a remove takes the last place
(`SingleSucceeds`). The order is not always that of real time: a set that
overlaps a replace may end before it and count as later.

## 5. Permission policy

`PolicyRules` translates the path from stored facts to verdict:
`parseStoredRoles`, `permissionsForRoles`, `resolvePermissions`,
`checkPermission`, and the guard. `PermissionPolicy` makes a machine of it whose
steps are writes to the facts, so that `OverridesAreMonotone` can compare
verdicts before and after. A role string is the set of names in it, or `NoRole`
when NULL or empty.

Run `guards` uses an excerpt of the catalog: two resources, both with `manage`,
the two roles and one unknown name: every stored role with every combination of
rows. `GuardedRouteProofs` proves all five properties for every catalog
(`CatalogAssumption`: grants are sets of keys, the default role is a role,
unknown names are not). They need no invariant beyond the types: the lemma
`HasFromRows` restates `has` in terms of the rows, and each property follows
from it. `RouteKeepsPolicy` shows that the guarded route of the next section is a
behaviour of this machine, so that `RoutePolicy` states them of the specification
the run checks.

## 6. The chain of guards

`Csrf` is the double-submit token as a protocol between one browser and
`CsrfGuard`. The guard has no state; what may go wrong lies in the browser. A
page prepares a request and copies the cookie into the header; the browser
attaches the cookie later; answers arrive in any order and may replace the
cookie under another page.

| Model | Code |
|---|---|
| `jar`, `session` | the browser's CSRF cookie; whether it holds a session cookie |
| `CsrfGuard`, `AssertOriginAllowed`, `TokensMatch`, `IssueCsrfCookieIfMissing` | `canActivate` and its helpers in `csrf.guard.ts` |
| `Dispatch` of a `proxied` request | `/documentation-proxy` in `swagger.ts`, which fills in the header for any page (mounted outside production only) |
| `RouteAnswers`, `Outcome` | `AuthGuard`, `PermissionsGuard`, the handler; the cookies that `applyCookies` forwards |
| `PolicyChanges`, `SignsIn`, `SessionRevoked` | writes to the facts, Better Auth's routes |
| `TriesAgain` | external: a page that is told its token is wrong reads the cookie and repeats |

`GuardedRoute.cfg`: two requests under way at once, in production and outside
it, of eight kinds: a first visit, an unsafe request of the application's page, of
one without `Sec-Fetch-Site`, of the documentation, of another page of the same
site, through the proxy and directly, of another site, and an exempt one. Two are enough for one answer to overtake another; more requests
follow one another in the same slots. `MaxTokens = 7` is more than the tokens
that can be held at once. Bounds: the facts change only while the browser is new
(`BrowserIsNew`; what a change during a request does is the subject of
`PermissionCache`), and the browser acts under one of `RoutePolicies`, the two
plain roles, one that passes the route and one that does not.

Fairness (`RouteSpec`): a request that is under way takes its next step. Nothing
makes the user act. `RetriesGetThrough` needs it, and the guard's habit of
issuing a token only to a request that has none: otherwise two pages could
replace each other's token for ever. `CSRF_ENABLED=false` is left out. `IsAllowedByOriginOrReferer`
has no case for two empty allowlists: the guard asks it in production only, where
`http.config.ts` refuses to start with CSRF on and no `WEB_ALLOWED_ORIGINS`, of
which both lists are made.

`OnlyReadersPass` promises the protection for production. Outside it, with the
documentation on, the proxy copies the cookie into the header of whatever is posted
to it, so that a page which cannot read the cookie passes the guard too. That is
what the README and `docs/auth-authorization.md` ask of the proxy, so it is part of
the property and not a disagreement; no other request passes there either.

`GuardedRouteProofs` proves `OnlyReadersPass` and `TokenStays` for any requests,
kinds and number of tokens. Neither is inductive: the invariant `SoundRequests`
adds what a request holds on its way. A header is a page's copy and is gone once
the guard is done; an answer brings a cookie only if its request had none. The
proof never asks whether a new token differs from the tokens in use, so the
bound on tokens plays no part in it. It does rest on the assumption of the
double-submit pattern: another page can neither read the cookie nor fill in the
header, unless the proxy does it.

## 7. Rate limiter

`RateLimiter` models one route and one signed-in user with several sessions.
`consume` is two actions: `Send` stamps and sends, `Exec` is the MULTI and what
the interceptor does with the count. `ExecFails` is a lost connection: the
request ends with an error, and Redis may or may not have run the MULTI, so an
attempt can count without anybody being told. Per process, commands keep their
order (one connection); across processes they do not, and clocks differ by up to
`Skew`. `MaxDelay` bounds the way to Redis: without a bound no statement about
real time holds. `BudgetHolds` is about intervals of `duration - MaxDelay - Skew`
of real time, `RefusalsAreEarned` about `duration + MaxDelay + Skew`.

`RateLimiter.cfg`: a global budget of 2 in 4 ticks, a session budget of 1 in 3
ticks, three requests over two processes and two sessions, delay, skew and
`Slack` one tick, five ticks (`MaxTime`, one more than the longest window).
Three requests are one more than the larger budget; the user budget differs from
the others by its key only, and its place in `Order` is that of the session's.
Bounds of `MCNext`: either `r1`, and no other request, meets a lost connection, or
Redis drops the set of the global budget at tick `DropsAt = 3`, late enough for
points to have been spent on it and early enough for more to be spent within the
same window. Anonymous clients and the derivation of their IP address are left
out.

Redis may drop a bucket at any time (`Evicted`: `allkeys-lru`, or a restart), and
no limiter built on it can keep what was spent. `BudgetHolds` says what is left:
it speaks of every stretch of time up to the duration in which the bucket was not
dropped (`Dropped`), so the budget holds up to a loss and again after it. Without
that exception the run finds the property violated. `RefusalsAreEarned` has no
exception: a loss never refuses anybody.

Proved for any requests, processes, clocks and rules (`RateLimiterProofs`; from
`RulesAssumption`: positive points and durations; `PlacementAssumption`: clocks
at most `Skew` apart; `SessionAssumption`: the keys of sessions are no other
budget's; `BoundsAssumption`): `BudgetHolds`, `RefusalsAreEarned`,
`BudgetsInOrder`. None is inductive, for they count entries of the log, which
Redis never sees. `HeldInv` says that every member of a sorted set is an attempt
that Redis ran, with a stamp close to that time, and `KeptInv` the converse: an
attempt recent enough for any process to count it is still in its set, and the
key's expiry is far enough away, unless the set was dropped since (`Gone`;
`DropInv` dates the drops). So a count that passes is at least the number of
recent attempts, and one that refuses at most the number within the longer
interval: lemma `Counterparts` carries the comparison from attempts to
cardinalities. `SentInv` bounds stamps by delay and clock; `LogInv`, `OnceInv`
and `PassedInv` follow a request through its budgets.

## 8. Files

`Files` models the rows, the object store and the requests of both controllers.
Every await is a step; between two steps of a request the others move.

| Model | Code |
|---|---|
| `rows`, `bytes` | table `files`; what the bucket or the directory holds per storage key |
| `ReadField`, `ReadFile`, `EndOfForm` | the multipart loops of `upload` and `uploadMultiple`: a field counts for the files after it |
| `UploadStream`, `CreateRow` | `FilesService.upload`: validate and store, then create the row |
| `Drains` | how a stored stream ended: `"whole"`, or `"cut"` at the multipart limit |
| `UploadStreamFails` | the drivers: `Leftovers` says what each keeps of an upload that broke off |
| `FindToServe`, `FindByPublicToken`, `Serve` | look up and check the row, then sign a link or open the bytes |
| `FindToUpdate`, `UpdateRow` | `setVisibility`: checks and draws on what it read, then writes both fields |
| `RemoveUser` | `ON DELETE SET NULL` on the uploader |
| `Fails` | an await rejects, the validator refuses a part, the process dies |
| `after`, `writer`, `shown` | observers: what was over when a change began, who wrote a row last, what was public since a request began to look |

A file stands for its UUID and its storage key, a token for the file and the
request that drew it: draws do not collide. A commit may be followed by a lost
answer (second disjuncts of `CreateRow` and `UpdateRow`), so an upload told to
have failed may have left its row.

A part over `limits.fileSize` does not fail: `@fastify/multipart` ends its stream
normally, marks it as truncated, which nobody reads, and keeps the error for
whoever asks for the next part. `upload` asks for none, so it stores the cut file
and answers with success; `upload/multiple` creates the row and then fails
(`EndOfForm`). Hence `RowsHaveBytes` speaks of a stream that was stored to its end,
`AnsweredIsKept` of whole files for `upload/multiple` only, and `TooLargeIsRefused`,
what the DTO documents, fails (section 12).

`Uploads` looks inside `UploadStream`: the parser pushes bytes into a stream, as
many as the limit lets through (`Reach`), and ends it (`Arrive`, `PartEnds`), `FileSignatureValidator` takes the first eight out of it
(`ReadBytes`, with its three listeners), compares them (`SignatureFits`) and puts
them back (`PutBack`), and the driver drains the stream (`Drain`). Between them
come the stream's own events. A byte is its number in the part, a signature is
whether it matches. `StoredIsSent`: a part that was stored is what was sent up to the
limit, every byte once and in order. The property names its exception, a signed part of fewer
than eight bytes (section 12).

`Files.cfg`: three requests, one stored file and two to upload, an owner, a
stranger and an admin. `p` uploads or publishes, `q` changes visibility, `g` does
that or reads. Two concurrent visibility changes are the race for the link; the
third request reads in between, or is the one that comes after. Two uploaded
files let the second part of a form fail after the first succeeded. Only the
owner may be removed: nobody else owns a row. `MCInit` gives the stored file to
the owner; whether it starts public and with a token is left open. The parts are
of 0, 3, 5, 8, 9 and 10 bytes, on either side of the four of a signature, the
eight of the look and the limit (`Limit = 9`, any number above the look would do);
also a plain one, one of a refused type and one whose
signature does not match. Bounds: `Quiet` (a part with bytes is followed while
the other requests have not begun: its stream is its own request's) and `Related`
(beside an upload the others are about the uploaded files). The local driver's
leftovers include those of S3. The deadlock check is off because requests end.

`LinksStay` speaks of the *last writer* of a row. Two changes at once may replace
each other's token; the property says that this takes a writer the other did
not wait for. A formulation by who drew the token would be wrong with four
requests: an old request may write an old token back, and a request that began
after the drawer had finished may then replace it.

Proved for any users, files, requests and either driver (`FilesProofs`): types
and the six other properties of `Files`. The inductive invariant ties what a
request holds in its locals to the stores: an upload in flight has a file without
a row that no other upload has (`UploadInv`, `DistinctInv`), which makes
`RowsHaveBytes` inductive; a visibility change about to be written belongs to
somebody who may still do so, and holds the token of now unless the row was
written since it began (`UpdateInv`), from which the two action properties
follow; a lookup that has found its file was entitled to it while it ran
(`ServeInv`); and what an upload has made stays its uploader's (`MadeInv`).

`UploadsProofs` proves, for any sizes of parts, look, signature and limit
(`UploadsAssumption`: the look fits within the limit), that `UploadSpec` implements `Spec`, that therefore every
property proved in `FilesProofs` holds of the uploads in detail
(`FilesHoldOfUploads`), and `StoredIsSent`. Its invariant
`PartInv`: what is stored, in the validator's hands and in the stream are
consecutive runs of bytes that together are all that has arrived (`InOrder`), or
the part is one of the exception (`Lost`). Sequences are handled by lemmas about
joining and splitting such runs. `WholeUnderLimit` is the other side of the run
`Files_over_limit.cfg`: where no part is over the limit, `TooLargeIsRefused` holds.

Left out: expiry of signed links; soft deletion (`repository.delete`, `restore`)
and `storage.delete`, which no code of `src/` calls.

## 9. Authentication e-mails

`EmailQueue` follows an e-mail from Better Auth's callback into the queue and to
the provider.

| Model | Code |
|---|---|
| `operation`, `SendAuthEmail`, `SendAuthEmailFails`, `ApiDies` | `AuthEmailService.sendAuthEmail`: add the job, log and swallow what fails |
| `job`, `made`, `stalls`, `lock` | BullMQ (external): state, attempts, how often a job was taken back, who holds it |
| `Take`, `Send`, `SendThrows`, `Completes`, `Fails` | the worker: `EmailProcessor.process`, template, provider, and what BullMQ makes of the end |
| `WorkerDies`, `LockExpires`, `TakenBack`, `BackoffEnds`, `Evicted` | crash, a lock not renewed, the check for stalled jobs, the delay, Redis at its limit |
| `accepted` | observer: the copies the provider took |

The provider may answer an error in its result, and may have taken the e-mail
nevertheless; `ResendEmailProvider` does not look at the result (section 12).

`MailPromise` is what the authentication side may rely on: dropped at once, or
promised; promised, then handed over, abandoned or lost with its key. `EmailQueue`
implements it under fairness (`ImplementsMailPromise`), liveness included.

`EmailQueue.cfg`: two e-mails, two workers, two attempts, one stall. Two workers
let one go on with a job that the other has been given; two attempts and one
stall are the smallest numbers that tell "counted together" from "counted
apart". `DefaultAttempts` differs from `RetryAttempts` so that the two cannot
be confused.

Fairness (`Fairness`): callbacks and workers' steps settle, delays end, the check
for stalled jobs runs, a waiting job is taken by somebody. It does not assume
that an operation is asked for, that an attempt succeeds, or that nothing is
evicted. It is what BullMQ's scheduler and a restarted process provide.

Proved for any e-mails, finitely many workers and any attempts and stalls
(`EmailQueueProofs`, from `QueueAssumption`): types, `CopiesAreStalls`,
`GivenUpAfterAll`, and the safety part of `MailPromise`. `CopiesAreStalls` has two
bounds, one copy more than stalls and never more than `1 + MaxStalled`, and neither
is inductive: `CopyInv` adds to the copies the calls that may still come without
another stall, those of workers that have not sent yet and that of a queued job
(`Pending`), and bounds the sum by the times the job was really given back
(`Returns`: its last stall gives it up). `AttemptInv` says that a job not done with
has an attempt left, which makes the count of attempts in `GivenUpAfterAll` exact.

`ErrorsAreRetried` fails in the run `email_provider_errors`; `RetriedWhereRead`
proves it of every run in which an answer that `send` takes for a success is one
(`AnswersMeanTaken`), with any crashes, stalls and evictions. So the error that
nobody reads is the only reason for its failure, and reading it would mend it.

## 10. Admin routes, sessions and the bootstrap CLI

`AdminRoutes` models `BetterAuthRouteRegistrar` in front of Better Auth: the
permission check (`Gate`), the handler of each path (one action each, external),
`Refresh` and `Revoke` of `invalidateAuthorizationAfterMutation`. Other requests,
sign-ins, sign-outs and override writes run between any two of them. A session
has a row in PostgreSQL and a copy in Redis with the role of its sign-in;
`SignInReads` and `SignInCreates` are two steps, because a change of the role in
between leaves a session with the old one.

`mayRead` holds the roles and the rows that a lookup may answer with: they grow
with each commit and shrink to the present with each refresh. That is what
`FreshPermissions` promises of the cache, so that the routes are checked against
the promise and not against the cache again. Observers: `unpublished`,
`unrevoked` (changes whose second half failed), `barred` in a request (what
every answer denied it when it came in).

`AdminBootstrap` adds runs of `prisma/create-admin.ts`: look for the address, sign
up, promote in a transaction, or delete again; each may fail, lose its answer or
be cut off. The accounts are those of `AdminRoutes`, so that anybody may change,
delete or sign in to one that a run has not finished. `holders` says which
accounts have the address.

`AdminBootstrap.cfg` checks three casts (`MCInit`): two administrators who change
each other's roles, rights and bans and a new account, with an override write
and a sign-in beside them; one administrator beside a run of the CLI and a
sign-up; two runs on one address. Two concurrent requests are what the hazards
need: one that changes the rights of the other's actor. Bounds: `Operations(r)`
(the second request changes a role or ends an impersonation),
`OverrideWrites` (one DENY of `user:set-role`), `Leaving` (the one session that
may sign out or lose its copy), a public sign-up only beside a run. `Failures`
switches failing stores and crashes, which the run has.

`Taken(r)` reads off the state, and for the routes that leave no trace in it off the
path, what a handler has done, as the permissions that it takes.
`DenialsAreObeyed` compares it with what was denied to the actor when the request
came in. It has one exception, `Ungated`: `requiredPermissions` looks for `role` at
the top of the body of create-user, and Better Auth spreads `body.data` over the
new user, its role and its ban included. `DenialsStayAuthoritative` is the same
without the exception, and does not hold. A handler that Better Auth declines changes
nothing, so neither speaks of it.

Proved for any users, sessions, requests, override writes and runs, with and
without failures (`AdminBootstrapProofs`; from `AdminAssumption`: a path that
needs a user names one, and markers are no role names; `BootstrapAssumption`:
there is a role `admin`): types and all five properties of the run. `RequestsInv`
carries the outcome of the check to the handler: nothing a request is about to
take was denied to it, but for the data of create-user. `SessionsInv` says what role a session or a sign-in under
way has read, unless it was overtaken. `RunsInv` says that the account a run has in
hand was made by that run.

`RoleChangesReach` marks the limits of item 5 in section 12:
`RoleChangesReachSessions` holds, for any number of everything, of the runs in
which no store fails (`~Failures`) and whoever changed a role may still act as an
administrator when the registrar revokes the sessions (`RevokersAct`). It follows
from `StaleRolesAreExcused`, whose list of unrevoked users then stays empty.
`DenialsWithoutData` does the same for item 6: where no create-user carries data,
`DenialsStayAuthoritative` holds.

Of the other `/auth/*` routes, which the registrar passes on unchanged, sign-up,
sign-in and sign-out are modelled. Left out: the deletion of one's own account,
the organization plugin, the CLI's prompts and options.

## 11. What is only model-checked, and what is not modelled

Every invariant and every action property of the runs is proved, those that fail
in a run under the hypothesis named in section 12.
Model-checked only: liveness (`CacheHeals`, `RetriesGetThrough`,
`OperationsSucceed` and the liveness of `ImplementsMailPromise`), which is out of
reach of the prover's backends.

Not modelled: formatting of envelopes and errors, locale strings, configuration
parsing, Swagger, logging, health. They keep no state over time. External and
modelled from their use: Redis (atomic commands, TTL, eviction), PostgreSQL (READ
COMMITTED), Better Auth (its writes, which sessions it ends, what it reads of a
session), BullMQ (attempts, locks, stalled jobs), Resend, the multipart parser,
Node's streams, the browser.

Assumed and not guarded by the code: clocks at most `Skew` apart and commands at
most `MaxDelay` on their way (budgets). An error of one
command inside an executed MULTI would read as a count of 0; it needs a key of
another type, and no code writes one.

## 12. Disagreements found

For six of them a theorem says where the claim does hold, for any values of the
constants: that hypothesis is what a change of the code would have to bring
about. Four have a run that finds the counterexample; the other two claims fail
within the run `admin`, whose properties name them as exceptions (`unrevoked` in
`StaleRolesAreExcused`, `Ungated` in `DenialsAreObeyed`).

| # | Counterexample | Holds as long as | Theorem |
|---|---|---|---|
| 1 | `cache_evicted_version` | a lost version key leaves no entry and no lookup (`LossIsClean`) | `FreshUnlessLeft` |
| 2 | `overrides_two_replaces` | no two replaces overlap (`NoOverlap`) | `SerialUnlessOverlapping` |
| 3 | `email_provider_errors` | an answer taken for a success is one (`AnswersMeanTaken`) | `RetriedWhereRead` |
| 4 | `files_over_limit` | no part is over `limits.fileSize` | `WholeUnderLimit` |
| 5 | | no failure, and the actor keeps its session and role (`RevokersAct`) | `RoleChangesReach` |
| 6 | | no create-user carries data | `DenialsWithoutData` |

1. An evicted version key brings old entries back (`FreshAnswers` under
   `CanLoseVersion`, violated), against `docs/auth-authorization.md`, given
   `allkeys-lru` in `docker-compose.prod.yml`. The cache heals within the TTL
   (`CacheHeals`).
2. Two concurrent replaces leave the union of their lists (`SerialOutcome`,
   violated), against what a test says of the operation.
3. An error that the provider returns rather than throws completes the job: nothing
   was sent and nothing is retried (`ErrorsAreRetried`, violated), against the
   comment of `sendAuthEmail` and `docs/auth-authorization.md`.
4. A file over the size limit is cut there, stored and answered with success
   (`TooLargeIsRefused`, violated), against the responses that `files.dto.ts`
   documents. `FilesException.fileTooLarge` has no caller.
5. A change of a role whose actor loses its own session before the revocation
   leaves the other user's sessions with the old role, and reports success
   (`RoleChangesReachSessions` does not hold), against the comment of
   `invalidateAuthorizationAfterMutation` and `docs/auth-authorization.md`.
6. An administrator whose DENY of `user:set-role` or `user:ban` is in force gives a
   role or a ban by the data of create-user (`DenialsStayAuthoritative` does not
   hold), against the comment of `BetterAuthRouteRegistrar`.
7. Also without a run: a signed part of fewer than eight bytes that is
   over before the validator looks can be stored empty. Its last bytes are taken
   out, the stream reports its end, and `unshift` comes too late, against the
   comment "Put data back into stream so it can be uploaded"
   (`file-signature.validator.ts`). No real file of these types is that short;
   `StoredIsSent` names the case.
