----------------------- MODULE PermissionCacheProofs -----------------------
(***************************************************************************)
(* Proofs about PermissionCache, for any number of requests and writers.    *)
(***************************************************************************)
EXTENDS PermissionCache, TLAPS

LEMMA PrecedesTransitive ==
  ASSUME NEW s \in Snapshot, NEW t \in Snapshot, NEW u \in Snapshot,
         s \preceq t, t \preceq u
  PROVE  s \preceq u
  BY DEF Snapshot, \preceq

LEMMA PrecedesAntisymmetric ==
  ASSUME NEW s \in Snapshot, NEW t \in Snapshot, s \preceq t, t \preceq s
  PROVE  s = t
  BY DEF Snapshot, \preceq

LEMMA PristineFirst ==
  Pristine \in Snapshot /\ \A s \in Snapshot : Pristine \preceq s
  BY DEF Snapshot, Pristine, \preceq

-----------------------------------------------------------------------------
(* TypeOK is inductive on its own. *)

LEMMA InitTypeOK == Init => TypeOK
  BY PristineFirst DEF Init, TypeOK, WriterStates, RequestStates, Parts

LEMMA WriterTypeOK ==
  ASSUME TypeOK, NEW w \in Writers, Writer(w)
  PROVE  TypeOK'
  <1>1. CASE WriteCommits(w)
    <2>1. db' \in Snapshot
      BY <1>1 DEF WriteCommits, TypeOK, Snapshot, WithRole, WithOverrides
    <2>2. QED
      BY <1>1, <2>1 DEF WriteCommits, TypeOK, WriterStates, lookupVars
  <1>2. CASE WriteRejected(w)
    BY <1>2 DEF WriteRejected, TypeOK, WriterStates, lookupVars
  <1>3. CASE RefreshForUser(w)
    BY <1>3 DEF RefreshForUser, TypeOK, WriterStates, lookupVars
  <1>4. CASE RefreshLost(w)
    BY <1>4 DEF RefreshLost, TypeOK, WriterStates, lookupVars
  <1>5. QED
    BY <1>1, <1>2, <1>3, <1>4 DEF Writer

LEMMA RedisTypeOK ==
  ASSUME TypeOK, Redis
  PROVE  TypeOK'
  <1>1. ASSUME NEW n \in DOMAIN entries, EntryDropped(n)
        PROVE  TypeOK'
    BY <1>1 DEF EntryDropped, TypeOK, lookupVars
  <1>2. CASE VersionEvicted
    BY <1>2 DEF VersionEvicted, TypeOK, lookupVars
  <1>3. QED
    BY <1>1, <1>2 DEF Redis

LEMMA RequestTypeOK ==
  ASSUME TypeOK, NEW r \in Requests, Request(r)
  PROVE  TypeOK'
  <1> USE DEF TypeOK, RequestStates
  <1>1. CASE RequestBegins(r)
    BY <1>1 DEF RequestBegins
  <1>2. CASE MemoHit(r)
    BY <1>2 DEF MemoHit, lookupVars
  <1>3. CASE SampleVersion(r)
    BY <1>3 DEF SampleVersion
  <1>4. CASE EntryHit(r)
    BY <1>4, PristineFirst DEF EntryHit, AnswerWith
  <1>5. CASE EntryMiss(r)
    BY <1>5 DEF EntryMiss
  <1>6. CASE RoleRead(r)
    <2>1. got' \in [Requests -> Snapshot]
      BY <1>6 DEF RoleRead, Snapshot, WithRole
    <2>2. QED
      BY <1>6, <2>1 DEF RoleRead
  <1>7. CASE OverridesRead(r)
    <2>1. got' \in [Requests -> Snapshot]
      BY <1>7 DEF OverridesRead, Snapshot, WithOverrides
    <2>2. QED
      BY <1>7, <2>1 DEF OverridesRead
  <1>8. CASE EntryStored(r)
    BY <1>8, PristineFirst DEF EntryStored, StoreEntry, AnswerWith
  <1>9. CASE LookupFails(r)
    BY <1>9, PristineFirst DEF LookupFails, RequestCloses
  <1>10. CASE RequestEnds(r)
    BY <1>10, PristineFirst DEF RequestEnds, RequestCloses
  <1>11. QED
    BY <1>1, <1>2, <1>3, <1>4, <1>5, <1>6, <1>7, <1>8, <1>9, <1>10
       DEF Request, Lookup

\* Every variable keeps its type, with crashes and version evictions included.
THEOREM TypeCorrect == Spec => []TypeOK
  <1>1. TypeOK /\ [Next]_vars => TypeOK'
    <2> SUFFICES ASSUME TypeOK, [Next]_vars PROVE TypeOK'
      OBVIOUS
    <2>1. CASE UNCHANGED vars
      BY <2>1 DEF vars, TypeOK
    <2>2. QED
      BY <2>1, WriterTypeOK, RedisTypeOK, RequestTypeOK DEF Next
  <1>2. QED
    BY InitTypeOK, <1>1, PTL DEF Spec

-----------------------------------------------------------------------------
(* IndInv is inductive as long as the version key is never lost.  The       *)
(* version then only grows, and what was filed under an earlier one can only *)
(* reach lookups that sampled that earlier one.                              *)

LEMMA InitIndInv == Init => IndInv
  BY PristineFirst DEF Init, IndInv, PublishedInv, EntriesInv, LookupInv, InFlight,
     ReadInv, AnswerInv, WriterStates

\* A commit moves db forward and touches nothing else an invariant mentions.
LEMMA CommitIndInv ==
  ASSUME TypeOK, IndInv, NEW w \in Writers, WriteCommits(w)
  PROVE  IndInv'
  <1> USE DEF TypeOK, IndInv
  <1>1. db' \in Snapshot /\ db \preceq db'
    BY DEF WriteCommits, Snapshot, WithRole, WithOverrides, \preceq
  <1>2. UNCHANGED <<version, entries, published, since, seen, lookupVars>>
    BY DEF WriteCommits
  <1>3. PublishedInv'
    <2>1. ~ \A v \in Writers : wpc'[v] \in {"idle", "done"}
      BY DEF WriteCommits
    <2>2. published' \preceq db'
      BY <1>1, <1>2, PrecedesTransitive DEF PublishedInv
    <2>3. QED
      BY <1>2, <2>1, <2>2 DEF PublishedInv
  <1>4. EntriesInv'
    BY <1>1, <1>2, PrecedesTransitive DEF EntriesInv
  <1>5. LookupInv'
    BY <1>2 DEF LookupInv, InFlight, lookupVars
  <1>6. ReadInv'
    BY <1>1, <1>2, PrecedesTransitive DEF ReadInv, ReadSince, InFlight, lookupVars
  <1>7. AnswerInv'
    BY <1>1, <1>2, PrecedesTransitive DEF AnswerInv, lookupVars
  <1>8. QED
    BY <1>3, <1>4, <1>5, <1>6, <1>7

\* A refresh opens a version nothing has been filed or sampled under.
LEMMA RefreshIndInv ==
  ASSUME TypeOK, IndInv, NEW w \in Writers, RefreshForUser(w)
  PROVE  IndInv'
  <1> USE DEF TypeOK, IndInv
  <1>1. /\ version' = version + 1
        /\ published' = db
        /\ UNCHANGED <<db, entries, since, seen, lookupVars>>
    BY DEF RefreshForUser
  <1>2. published \preceq db
    BY DEF PublishedInv
  <1>3. PublishedInv'
    <2>1. db \preceq db
      BY DEF Snapshot, \preceq
    <2>2. \A r \in Requests : since'[r] \preceq published'
      BY <1>1, <1>2, PrecedesTransitive DEF PublishedInv
    <2>3. QED
      BY <1>1, <2>1, <2>2 DEF PublishedInv
  <1>4. EntriesInv'
    <2>1. \A n \in DOMAIN entries : n < version'
      BY <1>1 DEF EntriesInv
    <2>2. QED
      BY <1>1, <2>1 DEF EntriesInv
  <1>5. LookupInv'
    BY <1>1 DEF LookupInv, InFlight, lookupVars
  <1>6. ReadInv'
    <2>1. \A r \in Requests : pc[r] = "missed" => sampled[r] < version'
      BY <1>1 DEF LookupInv, InFlight
    <2>2. QED
      BY <1>1, <2>1 DEF ReadInv, ReadSince, InFlight, lookupVars
  <1>7. AnswerInv'
    BY <1>1 DEF AnswerInv, lookupVars
  <1>8. QED
    BY <1>3, <1>4, <1>5, <1>6, <1>7

LEMMA WriterIndInv ==
  ASSUME TypeOK, IndInv, NEW w \in Writers, Writer(w)
  PROVE  IndInv'
  <1>1. CASE WriteRejected(w)
    <2>1. \A v \in Writers : wpc'[v] \in {"idle", "done"} => wpc[v] \in {"idle", "done"}
      BY <1>1 DEF WriteRejected, TypeOK
    <2>2. QED
      BY <1>1, <2>1 DEF WriteRejected, IndInv, PublishedInv, EntriesInv, LookupInv,
         ReadInv, ReadSince, InFlight, AnswerInv, lookupVars
  <1>2. CASE RefreshLost(w)
    <2>1. ~ \A v \in Writers : wpc'[v] \in {"idle", "done"}
      BY <1>2 DEF RefreshLost, TypeOK
    <2>2. QED
      BY <1>2, <2>1 DEF RefreshLost, IndInv, PublishedInv, EntriesInv, LookupInv,
         ReadInv, ReadSince, InFlight, AnswerInv, lookupVars
  <1>3. QED
    BY <1>1, <1>2, CommitIndInv, RefreshIndInv DEF Writer

\* When the version key goes it takes nothing old with it: no entry is left, and
\* no lookup that has sampled a version and may still file one.
LossIsClean ==
  version' < version => DOMAIN entries = {} /\ \A r \in Requests : ~InFlight(r)

LEMMA RedisIndInv ==
  ASSUME TypeOK, IndInv, Redis, [LossIsClean]_vars
  PROVE  IndInv'
  <1>1. ASSUME NEW n \in DOMAIN entries, EntryDropped(n)
        PROVE  IndInv'
    <2>1. /\ DOMAIN entries' \subseteq DOMAIN entries
          /\ \A m \in DOMAIN entries' : entries'[m] = entries[m]
      BY <1>1 DEF EntryDropped
    <2>2. UNCHANGED <<db, version, published, wpc, since, seen, lookupVars>>
      BY <1>1 DEF EntryDropped
    <2>3. QED
      BY <2>1, <2>2 DEF IndInv, PublishedInv, EntriesInv, LookupInv, ReadInv,
         ReadSince, InFlight, AnswerInv, lookupVars
  <1>2. CASE VersionEvicted
    <2>1. version' = 0 /\ version \in Nat
          /\ UNCHANGED <<db, entries, published, wpc, since, seen, lookupVars>>
      BY <1>2 DEF VersionEvicted, TypeOK
    <2>2. CASE version = 0
      BY <2>1, <2>2 DEF IndInv, PublishedInv, EntriesInv, LookupInv, ReadInv,
         ReadSince, InFlight, AnswerInv, lookupVars
    <2>3. CASE version # 0
      <3>1. DOMAIN entries = {} /\ \A r \in Requests : ~InFlight(r)
        BY <2>1, <2>3 DEF LossIsClean, vars
      <3>2. EntriesInv' /\ LookupInv' /\ ReadInv'
        BY <2>1, <3>1 DEF IndInv, EntriesInv, LookupInv, ReadInv, InFlight, lookupVars
      <3>3. PublishedInv' /\ AnswerInv'
        BY <2>1 DEF IndInv, PublishedInv, AnswerInv, lookupVars
      <3>4. QED
        BY <3>2, <3>3 DEF IndInv
    <2>4. QED
      BY <2>2, <2>3
  <1>3. QED
    BY <1>1, <1>2 DEF Redis

-----------------------------------------------------------------------------
(* Steps of a request.  Those that end a lookup (EntryHit, EntryStored) or   *)
(* close the request leave lookups in flight no worse off: fewer of them,    *)
(* with the same sampled versions and the same reads.                       *)

LEMMA RequestBeginsIndInv ==
  ASSUME TypeOK, IndInv, NEW r \in Requests, RequestBegins(r)
  PROVE  IndInv'
  <1> USE DEF TypeOK, IndInv
  <1>1. /\ pc[r] = "none" /\ pc' = [pc EXCEPT ![r] = "open"]
        /\ since' = [since EXCEPT ![r] = published]
        /\ UNCHANGED <<db, version, entries, published, wpc, sampled, todo, got,
                       memo, seen>>
    BY DEF RequestBegins
  <1>2. \A q \in Requests : InFlight(q)' <=> InFlight(q) /\ q # r
    BY <1>1 DEF InFlight
  <1>3. PublishedInv'
    <2>1. published \preceq published
      BY DEF Snapshot, \preceq
    <2>2. QED
      BY <1>1, <2>1 DEF PublishedInv
  <1>4. EntriesInv'
    BY <1>1 DEF EntriesInv
  <1>5. LookupInv'
    BY <1>1, <1>2 DEF LookupInv
  <1>6. ReadInv'
    BY <1>1, <1>2 DEF ReadInv, ReadSince
  <1>7. AnswerInv'
    BY <1>1 DEF AnswerInv
  <1>8. QED
    BY <1>3, <1>4, <1>5, <1>6, <1>7

LEMMA RequestClosesIndInv ==
  ASSUME TypeOK, IndInv, NEW r \in Requests, RequestEnds(r) \/ LookupFails(r)
  PROVE  IndInv'
  <1> USE DEF TypeOK, IndInv
  <1>1. /\ pc' = [pc EXCEPT ![r] = "none"]
        /\ since' = [since EXCEPT ![r] = Pristine]
        /\ seen' = [seen EXCEPT ![r] = {}]
        /\ memo' = [memo EXCEPT ![r] = {}]
        /\ UNCHANGED <<db, version, entries, published, wpc>>
    BY DEF RequestEnds, LookupFails, RequestCloses
  <1>2. \A q \in Requests \ {r} :
          /\ sampled'[q] = sampled[q]
          /\ todo'[q] = todo[q]
          /\ got'[q] = got[q]
    BY DEF RequestEnds, LookupFails
  <1>3. \A q \in Requests : InFlight(q)' <=> InFlight(q) /\ q # r
    BY <1>1 DEF InFlight
  <1>4. PublishedInv'
    BY <1>1, PristineFirst DEF PublishedInv
  <1>5. EntriesInv'
    BY <1>1 DEF EntriesInv
  <1>6. LookupInv'
    BY <1>1, <1>2, <1>3 DEF LookupInv
  <1>7. ReadInv'
    <2>1. \A q \in Requests : got'[q] \preceq db'
      BY <1>1, <1>2, PristineFirst DEF ReadInv, RequestEnds, LookupFails
    <2>2. \A q \in Requests : pc'[q] = "missed" => q # r /\ pc[q] = "missed"
      BY <1>1
    <2>3. QED
      BY <1>1, <1>2, <1>3, <2>1, <2>2 DEF ReadInv, ReadSince
  <1>8. AnswerInv'
    BY <1>1 DEF AnswerInv
  <1>9. QED
    BY <1>4, <1>5, <1>6, <1>7, <1>8

\* Here the sampled version enters the picture: it is the current one, whose
\* entry and readers reflect everything published so far.
LEMMA SampleVersionIndInv ==
  ASSUME TypeOK, IndInv, NEW r \in Requests, SampleVersion(r)
  PROVE  IndInv'
  <1> USE DEF TypeOK, IndInv
  <1>1. /\ pc[r] = "open" /\ memo[r] = {}
        /\ sampled' = [sampled EXCEPT ![r] = version]
        /\ pc' = [pc EXCEPT ![r] = "sampled"]
        /\ UNCHANGED <<db, version, entries, published, wpc, since, seen, todo,
                       got, memo>>
    BY DEF SampleVersion
  <1>2. \A q \in Requests : InFlight(q)' <=> InFlight(q) \/ q = r
    BY <1>1 DEF InFlight
  <1>3. since[r] \preceq published
    BY DEF PublishedInv
  <1>4. PublishedInv' /\ EntriesInv' /\ AnswerInv'
    BY <1>1 DEF PublishedInv, EntriesInv, AnswerInv
  <1>5. LookupInv'
    <2>1. version \in DOMAIN entries => since[r] \preceq entries[version]
      BY <1>3, PrecedesTransitive DEF EntriesInv
    <2>2. QED
      BY <1>1, <1>2, <2>1 DEF LookupInv
  <1>6. ReadInv'
    <2>1. \A q \in Requests : pc'[q] = "missed" => q # r /\ pc[q] = "missed"
      BY <1>1
    <2>2. \A q \in Requests :
            pc[q] = "missed" /\ sampled[q] = version => ReadSince(q, since[r])
      BY <1>3 DEF ReadInv, ReadSince, Snapshot, \preceq
    <2>3. QED
      BY <1>1, <1>2, <2>1, <2>2 DEF ReadInv, ReadSince
  <1>7. QED
    BY <1>4, <1>5, <1>6

LEMMA EntryMissIndInv ==
  ASSUME TypeOK, IndInv, NEW r \in Requests, EntryMiss(r)
  PROVE  IndInv'
  <1> USE DEF TypeOK, IndInv
  <1>1. /\ pc[r] = "sampled"
        /\ todo' = [todo EXCEPT ![r] = Parts]
        /\ pc' = [pc EXCEPT ![r] = "missed"]
        /\ UNCHANGED <<db, version, entries, published, wpc, since, seen, sampled,
                       got, memo>>
    BY DEF EntryMiss
  <1>2. \A q \in Requests : InFlight(q)' <=> InFlight(q)
    BY <1>1 DEF InFlight
  <1>3. PublishedInv' /\ EntriesInv' /\ AnswerInv'
    BY <1>1 DEF PublishedInv, EntriesInv, AnswerInv
  <1>4. LookupInv'
    BY <1>1, <1>2 DEF LookupInv
  <1>5. ReadInv'
    BY <1>1, <1>2 DEF ReadInv, ReadSince, Parts
  <1>6. QED
    BY <1>3, <1>4, <1>5

\* What a query returns now is at least what was published, at any time so far.
LEMMA PartReadIndInv ==
  ASSUME TypeOK, IndInv, NEW r \in Requests, RoleRead(r) \/ OverridesRead(r)
  PROVE  IndInv'
  <1> USE DEF TypeOK, IndInv
  <1>1. /\ pc[r] = "missed"
        /\ UNCHANGED <<db, version, entries, published, wpc, since, seen, pc,
                       sampled, memo>>
    BY DEF RoleRead, OverridesRead
  <1>2. \A q \in Requests \ {r} : todo'[q] = todo[q] /\ got'[q] = got[q]
    BY DEF RoleRead, OverridesRead
  <1>3. PublishedInv' /\ EntriesInv' /\ LookupInv' /\ AnswerInv'
    BY <1>1 DEF PublishedInv, EntriesInv, LookupInv, InFlight, AnswerInv
  <1>4. got'[r] \preceq db
    BY DEF RoleRead, OverridesRead, ReadInv, WithRole, WithOverrides, Snapshot, \preceq
  <1>5. ASSUME NEW s \in Snapshot, s \preceq db, ReadSince(r, s)
        PROVE  ReadSince(r, s)'
    BY <1>5 DEF RoleRead, OverridesRead, ReadSince, WithRole, WithOverrides,
       Snapshot, \preceq
  <1>6. published \preceq db /\ \A q \in Requests : since[q] \preceq db
    BY PrecedesTransitive DEF PublishedInv
  <1>7. ReadInv'
    <2>1. \A q \in Requests : got'[q] \preceq db'
      BY <1>1, <1>2, <1>4 DEF ReadInv
    <2>2. ASSUME NEW q \in Requests, pc'[q] = "missed"
          PROVE  /\ sampled'[q] = version' => ReadSince(q, published)'
                 /\ \A p \in Requests :
                      InFlight(p)' /\ sampled'[p] = sampled'[q] => ReadSince(q, since[p])'
      <3>1. CASE q = r
        BY <1>1, <1>5, <1>6, <3>1 DEF ReadInv, InFlight
      <3>2. CASE q # r
        BY <1>1, <1>2, <2>2, <3>2 DEF ReadInv, InFlight, ReadSince
      <3>3. QED
        BY <3>1, <3>2
    <2>3. QED
      BY <2>1, <2>2 DEF ReadInv
  <1>8. QED
    BY <1>3, <1>7

LEMMA MemoHitIndInv ==
  ASSUME TypeOK, IndInv, NEW r \in Requests, MemoHit(r)
  PROVE  IndInv'
  <1>1. /\ seen' = [seen EXCEPT ![r] = @ \cup memo[r]]
        /\ UNCHANGED <<db, version, entries, published, wpc, since, lookupVars>>
    BY DEF MemoHit
  <1>2. AnswerInv'
    BY <1>1 DEF TypeOK, IndInv, AnswerInv, lookupVars
  <1>3. QED
    BY <1>1, <1>2 DEF IndInv, PublishedInv, EntriesInv, LookupInv, ReadInv,
       ReadSince, InFlight, lookupVars

\* The end of a lookup of r with an answer s that is recent enough, under
\* entries that are recent enough for the lookups still in flight.
LEMMA AnswerIndInv ==
  ASSUME TypeOK, IndInv, NEW r \in Requests, NEW s \in Snapshot,
         InFlight(r), AnswerWith(r, s), since[r] \preceq s, s \preceq db,
         UNCHANGED <<db, version, published, wpc, since, todo>>,
         EntriesInv',
         \A q \in Requests \ {r} : InFlight(q) /\ sampled[q] \in DOMAIN entries' =>
            since[q] \preceq entries'[sampled[q]]
  PROVE  IndInv'
  <1> USE DEF TypeOK, IndInv
  <1>1. /\ pc' = [pc EXCEPT ![r] = "open"]
        /\ seen' = [seen EXCEPT ![r] = @ \cup {s}]
        /\ memo' = [memo EXCEPT ![r] = {s}]
        /\ sampled' = [sampled EXCEPT ![r] = 0]
        /\ got' = [got EXCEPT ![r] = Pristine]
    BY DEF AnswerWith
  <1>2. \A q \in Requests : InFlight(q)' <=> InFlight(q) /\ q # r
    BY <1>1 DEF InFlight
  <1>3. memo[r] = {} /\ seen[r] = {}
    BY DEF LookupInv, AnswerInv
  <1>4. PublishedInv'
    BY DEF PublishedInv
  <1>5. LookupInv'
    BY <1>1, <1>2 DEF LookupInv
  <1>6. ReadInv'
    <2>1. \A q \in Requests : got'[q] \preceq db'
      BY <1>1, PristineFirst DEF ReadInv
    <2>2. \A q \in Requests : pc'[q] = "missed" => q # r /\ pc[q] = "missed"
      BY <1>1
    <2>3. QED
      BY <1>1, <1>2, <2>1, <2>2 DEF ReadInv, ReadSince
  <1>7. AnswerInv'
    BY <1>1, <1>3 DEF AnswerInv
  <1>8. QED
    BY <1>4, <1>5, <1>6, <1>7

LEMMA EntryHitIndInv ==
  ASSUME TypeOK, IndInv, NEW r \in Requests, EntryHit(r)
  PROVE  IndInv'
  <1> DEFINE s == entries[sampled[r]]
  <1>1. /\ InFlight(r)
        /\ sampled[r] \in DOMAIN entries
        /\ AnswerWith(r, s)
        /\ UNCHANGED <<db, version, entries, published, wpc, since, todo>>
    BY DEF EntryHit, InFlight
  <1>2. s \in Snapshot /\ since[r] \preceq s /\ s \preceq db
    BY <1>1 DEF TypeOK, IndInv, LookupInv, EntriesInv
  <1>3. EntriesInv'
    BY <1>1 DEF IndInv, EntriesInv
  <1>4. \A q \in Requests \ {r} : InFlight(q) /\ sampled[q] \in DOMAIN entries' =>
           since[q] \preceq entries'[sampled[q]]
    BY <1>1 DEF IndInv, LookupInv
  <1> HIDE DEF s
  <1>5. QED
    BY <1>1, <1>2, <1>3, <1>4, AnswerIndInv

\* The straggler's step.  It files what it read under the version it sampled:
\* recent enough for everyone who sampled that version, and, if that version
\* is still the current one, for everyone to come.
LEMMA EntryStoredIndInv ==
  ASSUME TypeOK, IndInv, NEW r \in Requests, EntryStored(r)
  PROVE  IndInv'
  <1> USE DEF TypeOK, IndInv
  <1>1. /\ pc[r] = "missed" /\ InFlight(r)
        /\ todo[r] = {}
        /\ AnswerWith(r, got[r])
        /\ UNCHANGED <<db, version, published, wpc, since, todo>>
    BY DEF EntryStored, InFlight
  <1>2. /\ DOMAIN entries' = DOMAIN entries \cup {sampled[r]}
        /\ entries'[sampled[r]] = got[r]
        /\ \A n \in DOMAIN entries \ {sampled[r]} : entries'[n] = entries[n]
    BY DEF EntryStored, StoreEntry
  <1>3. \A s \in Snapshot : ReadSince(r, s) => s \preceq got[r]
    BY <1>1 DEF ReadSince, \preceq
  <1>4. \A q \in Requests :
          InFlight(q) /\ sampled[q] = sampled[r] => since[q] \preceq got[r]
    BY <1>1, <1>3 DEF ReadInv
  <1>5. EntriesInv'
    <2>1. sampled[r] <= version /\ got[r] \preceq db
      BY <1>1 DEF LookupInv, ReadInv
    <2>2. sampled[r] = version => published \preceq got[r]
      BY <1>1, <1>3 DEF ReadInv
    <2>3. QED
      BY <1>1, <1>2, <2>1, <2>2 DEF EntriesInv
  <1>6. \A q \in Requests \ {r} : InFlight(q) /\ sampled[q] \in DOMAIN entries' =>
           since[q] \preceq entries'[sampled[q]]
    BY <1>2, <1>4 DEF LookupInv
  <1>7. got[r] \in Snapshot /\ since[r] \preceq got[r] /\ got[r] \preceq db
    BY <1>1, <1>4 DEF ReadInv
  <1>8. QED
    BY <1>1, <1>5, <1>6, <1>7, AnswerIndInv

LEMMA RequestIndInv ==
  ASSUME TypeOK, IndInv, NEW r \in Requests, Request(r)
  PROVE  IndInv'
  BY RequestBeginsIndInv, RequestClosesIndInv, SampleVersionIndInv, EntryMissIndInv,
     PartReadIndInv, MemoHitIndInv, EntryHitIndInv, EntryStoredIndInv
     DEF Request, Lookup

-----------------------------------------------------------------------------
\* Everything filed under a version was read after that version began, in every
\* run that loses the version key, if at all, together with what was filed under
\* it or may still be: what makes an evicted key harmful is what outlives it.
THEOREM InvariantUnlessLeft ==
  Spec /\ [][LossIsClean]_vars => []IndInv
  <1>1. TypeOK /\ IndInv /\ [Next]_vars /\ [LossIsClean]_vars => IndInv'
    <2> SUFFICES ASSUME TypeOK, IndInv, [Next]_vars, [LossIsClean]_vars PROVE IndInv'
      OBVIOUS
    <2>1. CASE UNCHANGED vars
      BY <2>1 DEF vars, IndInv, PublishedInv, EntriesInv, LookupInv, ReadInv,
         ReadSince, InFlight, AnswerInv
    <2>2. QED
      BY <2>1, WriterIndInv, RedisIndInv, RequestIndInv DEF Next
  <1>2. QED
    BY InitIndInv, TypeCorrect, <1>1, PTL DEF Spec

\* Where Redis never evicts a version key none is lost.
LEMMA NothingLost ==
  ASSUME ~CanLoseVersion
  PROVE  Spec => [][LossIsClean]_vars
  <1>1. TypeOK /\ [Next]_vars => [LossIsClean]_vars
    <2> SUFFICES ASSUME TypeOK, Next PROVE ~(version' < version)
      BY DEF LossIsClean
    <2>0. version \in Nat
      BY DEF TypeOK
    <2>1. CASE Redis
      <3>1. PICK n \in DOMAIN entries : EntryDropped(n)
        BY <2>1 DEF Redis, VersionEvicted
      <3>2. QED
        BY <2>0, <3>1 DEF EntryDropped
    <2>2. ASSUME NEW w \in Writers, Writer(w) PROVE ~(version' < version)
      BY <2>0, <2>2 DEF Writer, WriteCommits, WriteRejected, RefreshForUser, RefreshLost
    <2>3. ASSUME NEW r \in Requests, Request(r) PROVE ~(version' < version)
      BY <2>0, <2>3 DEF Request, Lookup, RequestBegins, RequestEnds, LookupFails, MemoHit,
         SampleVersion, EntryHit, EntryMiss, RoleRead, OverridesRead, EntryStored
    <2>4. QED
      BY <2>1, <2>2, <2>3 DEF Next
  <1>2. QED
    BY <1>1, TypeCorrect, PTL DEF Spec

\* IndInv holds in every reachable state of a system that keeps its version key.
THEOREM InductiveInvariant ==
  ASSUME ~CanLoseVersion
  PROVE  Spec => []IndInv
  BY NothingLost, InvariantUnlessLeft, PTL

\* No request is answered from before a change that was in force when it began,
\* not even after the version key was evicted, unless an entry or a lookup of
\* before the eviction is still there.
THEOREM FreshUnlessLeft == Spec /\ [][LossIsClean]_vars => []FreshAnswers
  <1>1. IndInv => FreshAnswers
    BY DEF IndInv, AnswerInv, FreshAnswers
  <1>2. QED
    BY InvariantUnlessLeft, <1>1, PTL

\* No request is answered from before a change that was in force when it began.
THEOREM Freshness ==
  ASSUME ~CanLoseVersion
  PROVE  Spec => []FreshAnswers
  BY NothingLost, FreshUnlessLeft, PTL

\* When every committed write has been refreshed, the current entry is the
\* database: torn reads and stragglers leave nothing behind.
THEOREM SettledUnlessLeft == Spec /\ [][LossIsClean]_vars => []SettledCacheIsCurrent
  <1>1. TypeOK /\ IndInv => SettledCacheIsCurrent
    <2> SUFFICES ASSUME TypeOK, IndInv,
                        \A w \in Writers : wpc[w] \in {"idle", "done"},
                        version \in DOMAIN entries
                 PROVE  entries[version] = db
      BY DEF SettledCacheIsCurrent, CurrentEntryIsDb
    <2>1. published = db
      BY DEF IndInv, PublishedInv
    <2>2. db \preceq entries[version] /\ entries[version] \preceq db
      BY <2>1 DEF IndInv, EntriesInv
    <2>3. QED
      BY <2>2, PrecedesAntisymmetric DEF TypeOK
  <1>2. QED
    BY TypeCorrect, InvariantUnlessLeft, <1>1, PTL

\* Once all writes are refreshed the served entry is the database, where Redis
\* keeps the version key.
THEOREM SettledCache ==
  ASSUME ~CanLoseVersion
  PROVE  Spec => []SettledCacheIsCurrent
  BY NothingLost, SettledUnlessLeft, PTL

-----------------------------------------------------------------------------
(* What holds whatever Redis loses.                                         *)

\* Nothing that is filed, read or answered is ahead of the database, and the
\* memo of a request is written once.
PastInv ==
  /\ \A n \in DOMAIN entries : entries[n] \preceq db
  /\ \A r \in Requests :
       /\ got[r] \preceq db
       /\ pc[r] # "open" => memo[r] = {}
       /\ seen[r] \subseteq memo[r]
       /\ \A s \in memo[r] : s \preceq db
       /\ \A s, t \in memo[r] : s = t

\* The database only moves on.
LEMMA CommitsGoOn ==
  ASSUME TypeOK, NEW w \in Writers, WriteCommits(w)
  PROVE  \A s \in Snapshot : s \preceq db => s \preceq db'
  BY DEF TypeOK, WriteCommits, WithRole, WithOverrides, Snapshot, \preceq

LEMMA PastRequest ==
  ASSUME TypeOK, PastInv, NEW r \in Requests, Request(r)
  PROVE  PastInv'
  <1> USE DEF TypeOK, PastInv, RequestStates
  <1>0. db' = db /\ Pristine \preceq db
    BY PristineFirst
       DEF Request, Lookup, RequestBegins, RequestEnds, LookupFails, MemoHit,
           SampleVersion, EntryHit, EntryMiss, RoleRead, OverridesRead, EntryStored
  <1>1. CASE RequestBegins(r)
    BY <1>0, <1>1 DEF RequestBegins
  <1>2. CASE MemoHit(r)
    BY <1>0, <1>2 DEF MemoHit, lookupVars
  <1>3. CASE SampleVersion(r) \/ EntryMiss(r)
    BY <1>0, <1>3 DEF SampleVersion, EntryMiss
  <1>4. CASE RoleRead(r) \/ OverridesRead(r)
    <2>1. got'[r] \preceq db
      BY <1>4 DEF RoleRead, OverridesRead, WithRole, WithOverrides, Snapshot, \preceq
    <2>2. /\ \A q \in Requests \ {r} : got'[q] = got[q]
          /\ UNCHANGED <<db, entries, pc, memo, seen>>
      BY <1>4 DEF RoleRead, OverridesRead
    <2>3. QED
      BY <2>1, <2>2
  <1>5. ASSUME NEW s \in Snapshot, s \preceq db, pc[r] # "open", AnswerWith(r, s),
               \A n \in DOMAIN entries' : entries'[n] \preceq db
        PROVE  PastInv'
    BY <1>0, <1>5 DEF AnswerWith
  <1>6. CASE EntryHit(r)
    <2>1. entries[sampled[r]] \in Snapshot /\ entries[sampled[r]] \preceq db
      BY <1>6 DEF EntryHit
    <2>2. AnswerWith(r, entries[sampled[r]]) /\ pc[r] # "open" /\ entries' = entries
      BY <1>6 DEF EntryHit
    <2>3. QED
      BY <1>5, <2>1, <2>2
  <1>7. CASE EntryStored(r)
    <2>1. got[r] \in Snapshot /\ got[r] \preceq db
      OBVIOUS
    <2>2. AnswerWith(r, got[r]) /\ pc[r] # "open"
      BY <1>7 DEF EntryStored
    <2>3. \A n \in DOMAIN entries' : entries'[n] \preceq db
      BY <1>7, <2>1 DEF EntryStored, StoreEntry
    <2>4. QED
      BY <1>5, <2>1, <2>2, <2>3
  <1>8. CASE LookupFails(r) \/ RequestEnds(r)
    BY <1>0, <1>8 DEF LookupFails, RequestEnds, RequestCloses
  <1>9. QED
    BY <1>1, <1>2, <1>3, <1>4, <1>6, <1>7, <1>8 DEF Request, Lookup

LEMMA PastStep ==
  ASSUME TypeOK, PastInv, [Next]_vars
  PROVE  PastInv'
  <1>1. ASSUME NEW w \in Writers, WriteCommits(w)
        PROVE  PastInv'
    <2>1. UNCHANGED <<entries, got, pc, memo, seen>>
      BY <1>1 DEF WriteCommits, lookupVars
    <2>2. QED
      BY <1>1, <2>1, CommitsGoOn DEF TypeOK, PastInv
  <1>2. ASSUME NEW w \in Writers, WriteRejected(w) \/ RefreshForUser(w) \/ RefreshLost(w)
        PROVE  PastInv'
    BY <1>2 DEF WriteRejected, RefreshForUser, RefreshLost, PastInv, lookupVars
  <1>3. CASE Redis
    <2>1. /\ DOMAIN entries' \subseteq DOMAIN entries
          /\ \A m \in DOMAIN entries' : entries'[m] = entries[m]
      BY <1>3 DEF Redis, EntryDropped, VersionEvicted
    <2>2. UNCHANGED <<db, got, pc, memo, seen>>
      BY <1>3 DEF Redis, EntryDropped, VersionEvicted, lookupVars
    <2>3. QED
      BY <2>1, <2>2 DEF PastInv
  <1>4. CASE UNCHANGED vars
    BY <1>4 DEF vars, PastInv
  <1>5. QED
    BY <1>1, <1>2, <1>3, <1>4, PastRequest DEF Next, Writer

\* Whatever Redis loses, the answers to a request are at worst too old: they are
\* contents that PostgreSQL had committed.
THEOREM NeverAhead ==
  Spec => [](PastInv /\ \A r \in Requests : \A s \in seen[r] : s \preceq db)
  <1>1. Init => PastInv
    BY PristineFirst DEF Init, PastInv
  <1>2. PastInv => \A r \in Requests : \A s \in seen[r] : s \preceq db
    BY DEF PastInv
  <1>3. QED
    BY <1>1, <1>2, PastStep, TypeCorrect, PTL DEF Spec

\* A request never sees two different permission sets, whatever Redis loses: it
\* is the request's memo that makes it so, and not the cache.
THEOREM RequestConsistency == Spec => []OneAnswerPerRequest
  <1>1. PastInv => OneAnswerPerRequest
    BY DEF PastInv, OneAnswerPerRequest
  <1>2. QED
    BY NeverAhead, <1>1, PTL

-----------------------------------------------------------------------------
(* The refinement: the observable variables db, published, since and seen    *)
(* change as FreshPermissions allows, whatever the cache does underneath.    *)

LEMMA BetweenIsOrdered ==
  ASSUME NEW s \in Snapshot, NEW t \in Snapshot, NEW u \in Snapshot,
         s \preceq t, t \preceq u
  PROVE  t \in Between(s, u)
  BY DEF Snapshot, \preceq, Between

\* The instance brings its own copies of the operators of Revisions.
LEMMA SameRevisions ==
  /\ Fresh!Pristine = Pristine
  /\ \A s, t : Fresh!Between(s, t) = Between(s, t)
  /\ \A s, n : Fresh!WithRole(s, n) = WithRole(s, n)
  /\ \A s, n : Fresh!WithOverrides(s, n) = WithOverrides(s, n)
  BY DEF Fresh!Pristine, Pristine, Fresh!Between, Between, Fresh!WithRole, WithRole,
     Fresh!WithOverrides, WithOverrides

LEMMA WriterRefines ==
  ASSUME TypeOK, NEW w \in Writers, Writer(w)
  PROVE  [Fresh!Next]_Fresh!vars
  <1>1. CASE WriteCommits(w)
    BY <1>1, SameRevisions DEF WriteCommits, Fresh!Next, Fresh!Commit, Fresh!vars
  <1>2. CASE RefreshForUser(w)
    BY <1>2 DEF RefreshForUser, Fresh!Next, Fresh!Publish
  <1>3. CASE WriteRejected(w) \/ RefreshLost(w)
    BY <1>3 DEF WriteRejected, RefreshLost, Fresh!vars
  <1>4. QED
    BY <1>1, <1>2, <1>3 DEF Writer

\* An answered lookup is the abstract Answer.
LEMMA AnswerRefines ==
  ASSUME TypeOK, IndInv, NEW r \in Requests, NEW s \in Snapshot, memo[r] = {},
         AnswerWith(r, s), since[r] \preceq s, s \preceq db,
         UNCHANGED <<db, published, since>>
  PROVE  Fresh!Answer(r)
  <1>1. seen[r] = {}
    BY DEF IndInv, AnswerInv
  <1>2. seen' = [seen EXCEPT ![r] = {s}]
    BY <1>1 DEF AnswerWith
  <1>3. s \in Between(since[r], db)
    BY BetweenIsOrdered DEF TypeOK
  <1>4. QED
    BY <1>1, <1>2, <1>3, SameRevisions DEF Fresh!Answer

LEMMA RequestRefines ==
  ASSUME TypeOK, IndInv, NEW r \in Requests, Request(r)
  PROVE  [Fresh!Next]_Fresh!vars
  <1> USE DEF TypeOK, IndInv
  <1>1. CASE RequestBegins(r)
    <2>1. seen[r] = {}
      BY <1>1 DEF RequestBegins, AnswerInv
    <2>2. QED
      BY <1>1, <2>1 DEF RequestBegins, Fresh!Next, Fresh!Begin
  <1>2. CASE RequestEnds(r) \/ LookupFails(r)
    BY <1>2, SameRevisions DEF RequestEnds, LookupFails, RequestCloses, Fresh!Next, Fresh!End
  <1>3. CASE EntryHit(r)
    <2>1. InFlight(r)
      BY <1>3 DEF EntryHit, InFlight
    <2>2. /\ memo[r] = {}
          /\ sampled[r] \in DOMAIN entries
          /\ since[r] \preceq entries[sampled[r]]
          /\ entries[sampled[r]] \preceq db
      BY <1>3, <2>1 DEF EntryHit, LookupInv, EntriesInv
    <2>3. Fresh!Answer(r)
      BY <1>3, <2>2, AnswerRefines DEF EntryHit
    <2>4. QED
      BY <2>3 DEF Fresh!Next
  <1>4. CASE EntryStored(r)
    <2>1. InFlight(r) /\ pc[r] = "missed" /\ todo[r] = {}
      BY <1>4 DEF EntryStored, InFlight
    <2>2. memo[r] = {} /\ since[r] \preceq got[r] /\ got[r] \preceq db
      BY <2>1 DEF LookupInv, ReadInv, ReadSince, \preceq
    <2>3. Fresh!Answer(r)
      BY <1>4, <2>2, AnswerRefines DEF EntryStored
    <2>4. QED
      BY <2>3 DEF Fresh!Next
  <1>5. CASE MemoHit(r)
    <2>1. PICK s \in memo[r] : TRUE
      BY <1>5 DEF MemoHit
    <2>2. memo[r] = {s} /\ since[r] \preceq s /\ s \preceq db /\ seen[r] \subseteq {s}
      BY <2>1 DEF AnswerInv
    <2>3. CASE seen[r] = {}
      <3>1. s \in Between(since[r], db)
        BY <2>1, <2>2, BetweenIsOrdered
      <3>2. seen' = [seen EXCEPT ![r] = {s}]
        BY <1>5, <2>2, <2>3 DEF MemoHit
      <3>3. QED
        BY <1>5, <2>3, <3>1, <3>2, SameRevisions DEF MemoHit, Fresh!Next, Fresh!Answer
    <2>4. CASE seen[r] = {s}
      <3>1. seen' = seen
        BY <1>5, <2>2, <2>4 DEF MemoHit
      <3>2. QED
        BY <1>5, <3>1 DEF MemoHit, Fresh!vars
    <2>5. QED
      BY <2>2, <2>3, <2>4
  <1>6. CASE SampleVersion(r) \/ EntryMiss(r) \/ RoleRead(r) \/ OverridesRead(r)
    BY <1>6 DEF SampleVersion, EntryMiss, RoleRead, OverridesRead, Fresh!vars
  <1>7. QED
    BY <1>1, <1>2, <1>3, <1>4, <1>5, <1>6 DEF Request, Lookup

\* The cached lookup implements the single-answer one, as long as no entry or
\* lookup outlives the version key it was filed or began under.
THEOREM RefinesUnlessLeft ==
  Spec /\ [][LossIsClean]_vars => ImplementsFreshPermissions
  <1>1. Init => Fresh!Init
    BY SameRevisions DEF Init, Fresh!Init
  <1>2. TypeOK /\ IndInv /\ [Next]_vars => [Fresh!Next]_Fresh!vars
    <2> SUFFICES ASSUME TypeOK, IndInv, [Next]_vars PROVE [Fresh!Next]_Fresh!vars
      OBVIOUS
    <2>1. CASE UNCHANGED vars
      BY <2>1 DEF vars, Fresh!vars
    <2>2. CASE Redis
      BY <2>2 DEF Redis, EntryDropped, VersionEvicted, Fresh!vars
    <2>3. QED
      BY <2>1, <2>2, WriterRefines, RequestRefines DEF Next
  <1>3. QED
    BY <1>1, <1>2, TypeCorrect, InvariantUnlessLeft, PTL
       DEF Spec, Fresh!Spec, ImplementsFreshPermissions

\* The cached lookup implements the single-answer one.
THEOREM Refinement ==
  ASSUME ~CanLoseVersion
  PROVE  Spec => ImplementsFreshPermissions
  BY NothingLost, RefinesUnlessLeft, PTL

=============================================================================
