-------------------------- MODULE PermissionCache --------------------------
(***************************************************************************)
(* The cache of one user's effective permissions                            *)
(* (EffectivePermissionsService and the writers that call refreshForUser).  *)
(*                                                                         *)
(* A lookup (buildForUser) samples the user's version key, reads the cache  *)
(* entry stored under that version and, on a miss, reads the role and the   *)
(* overrides with two independent queries and stores the result under the   *)
(* version it SAMPLED.  A writer commits to PostgreSQL and then, in a       *)
(* second step nothing ties to the first, increments the version key.       *)
(*                                                                         *)
(* Database content is abstracted to revisions (module Revisions):          *)
(* a snapshot [role, overrides] says how many commits to each part it       *)
(* reflects.  A missing version key reads as '0' and INCR of a missing key  *)
(* yields 1, so the absent key is the value 0.                              *)
(***************************************************************************)
EXTENDS Revisions, FiniteSets

CONSTANTS
  Requests,         \* request slots, each serving requests one after another
  Writers,          \* write requests, one operation on the user each
  CanCrash,         \* may a writer die, or its INCR fail, after the commit?
  CanLoseVersion    \* may Redis evict the version key (allkeys-lru)?

ASSUME SwitchesAssumption == CanCrash \in BOOLEAN /\ CanLoseVersion \in BOOLEAN

VARIABLES
  db,        \* the committed revision of each part, in PostgreSQL
  version,   \* the version key in Redis
  entries,   \* entries[n]: the entry stored under version n, if n \in DOMAIN
  wpc,       \* wpc[w]: progress of writer w
  pc,        \* pc[r]: progress of request r
  sampled,   \* sampled[r]: the version the running lookup of r has read
  todo,      \* todo[r]: the parts its two queries have not returned yet
  got,       \* got[r]: what they returned
  memo,      \* memo[r]: the request-scoped memo, empty or one snapshot
  \* The next three only observe: no step of the system reads them.
  published, \* what the database held when the last refresh ran
  since,     \* since[r]: published when request r began
  seen       \* seen[r]: the answers request r has received

lookupVars == <<pc, sampled, todo, got, memo>>
vars == <<db, version, entries, published, wpc, pc, since, sampled,
                todo, got, memo, seen>>

WriterStates == {"idle", "committed", "done", "lost"}
RequestStates == {"none", "open", "sampled", "missed"}

Init ==
  /\ db = Pristine
  /\ published = Pristine
  /\ since = [r \in Requests |-> Pristine]
  /\ seen = [r \in Requests |-> {}]
  /\ version = 0
  /\ entries = [n \in {} |-> Pristine]
  /\ wpc = [w \in Writers |-> "idle"]
  /\ pc = [r \in Requests |-> "none"]
  /\ sampled = [r \in Requests |-> 0]
  /\ todo = [r \in Requests |-> {}]
  /\ got = [r \in Requests |-> Pristine]
  /\ memo = [r \in Requests |-> {}]

-----------------------------------------------------------------------------
(* Writers: AuthorizationService.setOverride, removeOverride and            *)
(* replaceOverrides change the overrides; the Better Auth admin routes      *)
(* change the role, or nothing the permissions depend on (ban, unban,       *)
(* profile update) but refresh all the same.                                *)

WriteCommits(w) ==
  /\ wpc[w] = "idle"
  /\ \/ db' = WithRole(db, db.role + 1)
     \/ db' = WithOverrides(db, db.overrides + 1)
     \/ db' = db
  /\ wpc' = [wpc EXCEPT ![w] = "committed"]
  /\ UNCHANGED <<version, entries, published, since, seen, lookupVars>>

\* The statement fails or is rolled back, or the override to remove does not
\* exist, or Better Auth refuses: the caller gets an error and no refresh runs.
WriteRejected(w) ==
  /\ wpc[w] = "idle"
  /\ wpc' = [wpc EXCEPT ![w] = "done"]
  /\ UNCHANGED <<db, version, entries, published, since, seen, lookupVars>>

\* Variants of RefreshForUser: the call is forgotten; DECR instead of INCR.
RefreshForgotten(w) ==
  /\ wpc[w] = "committed"
  /\ published' = db
  /\ wpc' = [wpc EXCEPT ![w] = "done"]
  /\ UNCHANGED <<db, version, entries, since, seen, lookupVars>>

RefreshCountsDown(w) ==
  /\ wpc[w] = "committed"
  /\ version' = version - 1
  /\ published' = db
  /\ wpc' = [wpc EXCEPT ![w] = "done"]
  /\ UNCHANGED <<db, entries, since, seen, lookupVars>>

\* refreshForUser: INCR of the version key, then the caller gets its answer.
RefreshForUser(w) ==
  /\ wpc[w] = "committed"
  /\ version' = version + 1
  /\ published' = db
  /\ wpc' = [wpc EXCEPT ![w] = "done"]
  /\ UNCHANGED <<db, entries, since, seen, lookupVars>>

\* The process dies between commit and INCR, or the INCR fails: the change
\* stays in the database and the caller gets an error or no answer.
RefreshLost(w) ==
  /\ CanCrash
  /\ wpc[w] = "committed"
  /\ wpc' = [wpc EXCEPT ![w] = "lost"]
  /\ UNCHANGED <<db, version, entries, published, since, seen, lookupVars>>

-----------------------------------------------------------------------------
(* Redis *)

\* Variant of EntryDropped: the entry was stored without a TTL.
EntryKept(n) ==
  /\ n \in DOMAIN entries
  /\ UNCHANGED vars

\* The entry's hour is over, or Redis evicts it for memory.
EntryDropped(n) ==
  /\ n \in DOMAIN entries
  /\ entries' = [m \in DOMAIN entries \ {n} |-> entries[m]]
  /\ UNCHANGED <<db, version, published, wpc, since, seen, lookupVars>>

VersionEvicted ==
  /\ CanLoseVersion
  /\ version' = 0
  /\ UNCHANGED <<db, entries, published, wpc, since, seen, lookupVars>>

-----------------------------------------------------------------------------
(* Lookups *)

RequestBegins(r) ==
  /\ pc[r] = "none"
  /\ pc' = [pc EXCEPT ![r] = "open"]
  /\ since' = [since EXCEPT ![r] = published]
  /\ UNCHANGED <<db, version, entries, published, wpc, sampled, todo, got, memo, seen>>

\* Variant of RequestCloses that leaks the memo into the slot's next request.
RequestClosesKeepingMemo(r) ==
  /\ pc' = [pc EXCEPT ![r] = "none"]
  /\ since' = [since EXCEPT ![r] = Pristine]
  /\ seen' = [seen EXCEPT ![r] = {}]
  /\ memo' = memo

\* The request context, and the memo with it, goes away with the request.
RequestCloses(r) ==
  /\ pc' = [pc EXCEPT ![r] = "none"]
  /\ since' = [since EXCEPT ![r] = Pristine]
  /\ seen' = [seen EXCEPT ![r] = {}]
  /\ memo' = [memo EXCEPT ![r] = {}]

RequestEnds(r) ==
  /\ pc[r] = "open"
  /\ RequestCloses(r)
  /\ UNCHANGED <<db, version, entries, published, wpc, sampled, todo, got>>

\* getOrLoad finds the key in the request's memo.
MemoHit(r) ==
  /\ pc[r] = "open"
  /\ memo[r] # {}
  /\ seen' = [seen EXCEPT ![r] = @ \cup memo[r]]
  /\ UNCHANGED <<db, version, entries, published, wpc, since, lookupVars>>

SampleVersion(r) ==
  /\ pc[r] = "open"
  /\ memo[r] = {}
  /\ sampled' = [sampled EXCEPT ![r] = version]
  /\ pc' = [pc EXCEPT ![r] = "sampled"]
  /\ UNCHANGED <<db, version, entries, published, wpc, since, seen, todo, got, memo>>

\* Variant of AnswerWith for a getOrLoad that forgets to write the memo.
AnswerWithoutMemo(r, s) ==
  /\ pc' = [pc EXCEPT ![r] = "open"]
  /\ seen' = [seen EXCEPT ![r] = @ \cup {s}]
  /\ memo' = memo
  /\ sampled' = [sampled EXCEPT ![r] = 0]
  /\ got' = [got EXCEPT ![r] = Pristine]

\* The lookup returns s: getOrLoad stores it in the memo before returning, and
\* the lookup's locals go away.
AnswerWith(r, s) ==
  /\ pc' = [pc EXCEPT ![r] = "open"]
  /\ seen' = [seen EXCEPT ![r] = @ \cup {s}]
  /\ memo' = [memo EXCEPT ![r] = {s}]
  /\ sampled' = [sampled EXCEPT ![r] = 0]
  /\ got' = [got EXCEPT ![r] = Pristine]

EntryHit(r) ==
  /\ pc[r] = "sampled"
  /\ sampled[r] \in DOMAIN entries
  /\ AnswerWith(r, entries[sampled[r]])
  /\ UNCHANGED <<db, version, entries, published, wpc, since, todo>>

\* fetchAuthorization starts both queries at once (Promise.all).
EntryMiss(r) ==
  /\ pc[r] = "sampled"
  /\ sampled[r] \notin DOMAIN entries
  /\ todo' = [todo EXCEPT ![r] = Parts]
  /\ pc' = [pc EXCEPT ![r] = "missed"]
  /\ UNCHANGED <<db, version, entries, published, wpc, since, seen, sampled, got, memo>>

\* The two queries are independent and may take effect in either order.
RoleRead(r) ==
  /\ pc[r] = "missed"
  /\ "role" \in todo[r]
  /\ got' = [got EXCEPT ![r] = WithRole(@, db.role)]
  /\ todo' = [todo EXCEPT ![r] = @ \ {"role"}]
  /\ UNCHANGED <<db, version, entries, published, wpc, since, seen, pc, sampled, memo>>

OverridesRead(r) ==
  /\ pc[r] = "missed"
  /\ "overrides" \in todo[r]
  /\ got' = [got EXCEPT ![r] = WithOverrides(@, db.overrides)]
  /\ todo' = [todo EXCEPT ![r] = @ \ {"overrides"}]
  /\ UNCHANGED <<db, version, entries, published, wpc, since, seen, pc, sampled, memo>>

\* Variant of StoreEntry that stores under the version in force now.
StoreEntryUnderCurrentVersion(r) ==
  entries' = [m \in DOMAIN entries \cup {version} |->
                IF m = version THEN got[r] ELSE entries[m]]

StoreEntry(r) ==
  entries' = [m \in DOMAIN entries \cup {sampled[r]} |->
                IF m = sampled[r] THEN got[r] ELSE entries[m]]

\* SET of the entry under the sampled version, then the answer.
EntryStored(r) ==
  /\ pc[r] = "missed"
  /\ todo[r] = {}
  /\ StoreEntry(r)
  /\ AnswerWith(r, got[r])
  /\ UNCHANGED <<db, version, published, wpc, since, todo>>

\* Any Redis call or query rejects: nothing is memoized and the request ends
\* with an error.
LookupFails(r) ==
  /\ pc[r] \in {"sampled", "missed"}
  /\ RequestCloses(r)
  /\ todo' = [todo EXCEPT ![r] = {}]
  /\ sampled' = [sampled EXCEPT ![r] = 0]
  /\ got' = [got EXCEPT ![r] = Pristine]
  /\ UNCHANGED <<db, version, entries, published, wpc>>

-----------------------------------------------------------------------------
Writer(w) ==
  \/ WriteCommits(w)
  \/ WriteRejected(w)
  \/ RefreshForUser(w)
  \/ RefreshLost(w)

Lookup(r) ==
  \/ MemoHit(r)
  \/ SampleVersion(r)
  \/ EntryHit(r)
  \/ EntryMiss(r)
  \/ RoleRead(r)
  \/ OverridesRead(r)
  \/ EntryStored(r)

Request(r) ==
  \/ RequestBegins(r)
  \/ Lookup(r)
  \/ LookupFails(r)
  \/ RequestEnds(r)

Redis ==
  \/ \E n \in DOMAIN entries : EntryDropped(n)
  \/ VersionEvicted

Next ==
  \/ \E w \in Writers : Writer(w)
  \/ \E r \in Requests : Request(r)
  \/ Redis

Spec == Init /\ [][Next]_vars

\* A lookup that has started runs to its end (an awaited promise settles), and
\* an entry reaches its EX 3600 deadline.  Nothing is assumed of writers, of
\* new requests or of evictions.
FairSpec ==
  /\ Spec
  /\ \A r \in Requests : WF_vars(pc[r] \in {"sampled", "missed"} /\ Request(r))
  /\ \A n \in 0 .. Cardinality(Writers) : WF_vars(EntryDropped(n))

-----------------------------------------------------------------------------
\* The types of the database, the shared cache, the requests and the writers.
TypeOK ==
  /\ db \in Snapshot
  /\ published \in Snapshot
  /\ version \in Nat
  /\ DOMAIN entries \subseteq Nat
  /\ \A n \in DOMAIN entries : entries[n] \in Snapshot
  /\ wpc \in [Writers -> WriterStates]
  /\ pc \in [Requests -> RequestStates]
  /\ since \in [Requests -> Snapshot]
  /\ sampled \in [Requests -> Nat]
  /\ todo \in [Requests -> SUBSET Parts]
  /\ got \in [Requests -> Snapshot]
  /\ memo \in [Requests -> SUBSET Snapshot]
  /\ seen \in [Requests -> SUBSET Snapshot]

(* The inductive invariant.  Safety rests on one fact: everything filed     *)
(* under a version was read from the database after that version began.     *)

InFlight(r) == pc[r] \in {"sampled", "missed"}

\* The parts lookup r has read so far reflect every commit s reflects.
ReadSince(r, s) ==
  /\ "role" \notin todo[r] => s.role <= got[r].role
  /\ "overrides" \notin todo[r] => s.overrides <= got[r].overrides

PublishedInv ==
  /\ published \preceq db
  /\ \A r \in Requests : since[r] \preceq published
  /\ (\A w \in Writers : wpc[w] \in {"idle", "done"}) => published = db

EntriesInv ==
  /\ \A n \in DOMAIN entries : n <= version /\ entries[n] \preceq db
  /\ version \in DOMAIN entries => published \preceq entries[version]

LookupInv ==
  \A r \in Requests : InFlight(r) =>
    /\ sampled[r] <= version
    /\ memo[r] = {}
    /\ sampled[r] \in DOMAIN entries => since[r] \preceq entries[sampled[r]]

ReadInv ==
  \A r \in Requests :
    /\ got[r] \preceq db
    /\ pc[r] = "missed" =>
         /\ sampled[r] = version => ReadSince(r, published)
         /\ \A q \in Requests :
              InFlight(q) /\ sampled[q] = sampled[r] => ReadSince(r, since[q])

AnswerInv ==
  \A r \in Requests :
    /\ pc[r] = "none" => memo[r] = {}
    /\ seen[r] \subseteq memo[r]
    /\ \A s \in memo[r] : since[r] \preceq s /\ s \preceq db
    /\ \A s, t \in memo[r] : s = t

IndInv == PublishedInv /\ EntriesInv /\ LookupInv /\ ReadInv /\ AnswerInv

-----------------------------------------------------------------------------
\* A request is never answered from before a change that was in force when the
\* request began: no interleaving of its lookups, of stragglers that fetched
\* before the change and store after it, and of the writers lets the entry of
\* an outdated version, or an outdated entry of the current version, reach it
\* (buildForUser stores under the version it sampled, refreshForUser bumps it
\* after the commit).
FreshAnswers ==
  \A r \in Requests : \A s \in seen[r] : since[r] \preceq s /\ s \preceq db

\* One request acts on one set of permissions: what a guard saw is what the
\* handler sees, whatever commits in between (the request-scoped memo of
\* getOrLoad).
OneAnswerPerRequest ==
  \A r \in Requests : \A s, t \in seen[r] : s = t

CurrentEntryIsDb == version \in DOMAIN entries => entries[version] = db

\* Once every committed write has been refreshed, what the cache serves is what
\* the database holds: no torn pair of reads (an old role with new overrides)
\* and no straggler's entry outlives the writes it raced with.
SettledCacheIsCurrent ==
  (\A w \in Writers : wpc[w] \in {"idle", "done"}) => CurrentEntryIsDb

\* Whatever was lost, a crashed writer's refresh or the version key itself, the
\* TTL repairs: the served entry agrees with the database for good in the end.
CacheHeals == <>[]CurrentEntryIsDb

Fresh ==
  INSTANCE FreshPermissions
    WITH db <- db, published <- published, since <- since, seen <- seen

\* The cached, two-query lookup implements the single-answer one.
ImplementsFreshPermissions == Fresh!Spec

=============================================================================
