--------------------------- MODULE OverrideStore ---------------------------
(***************************************************************************)
(* The override rows of one user and the concurrent writes to them          *)
(* (PrismaAuthorizationRepository under AuthorizationService).              *)
(*                                                                         *)
(* Each write is one HTTP request.  set is one upsert, remove one delete;   *)
(* replace is a transaction of two statements, deleteMany and createMany.   *)
(* The transactions run at PostgreSQL's default level, READ COMMITTED: a    *)
(* statement sees the rows committed when it starts, a row another          *)
(* transaction has touched is waited for, and the unique index on           *)
(* (userId, permissionKey) waits for, then collides with, another's insert. *)
(* A row keeps its identity (who inserted it) when it is updated.           *)
(***************************************************************************)
EXTENDS Naturals, Sequences, FiniteSets

CONSTANTS
  Writers,       \* the write requests
  Keys,          \* permission keys
  Asks(_),       \* Asks(w): the operations writer w may ask for
  Nobody         \* inserter of the rows that were there at the start

ASSUME NobodyIsNoWriter == Nobody \notin Writers

Effects == {"ALLOW", "DENY"}

VARIABLES
  initial,   \* the effects stored at the start
  rows,      \* the committed rows: key -> [effect, by]
  op,        \* op[w]: what writer w asks for
  st,        \* st[w]: its progress
  victims,   \* victims[w]: the rows its DELETE saw, key -> inserter
  deleted,   \* deleted[w]: the keys whose rows its transaction has deleted
  inserted   \* inserted[w]: what its transaction has inserted, key -> effect

vars == <<initial, rows, op, st, victims, deleted, inserted>>

None == [k \in {} |-> "none"]

PartialEffects == UNION {[K -> Effects] : K \in SUBSET Keys}

SetOp(k, e) == [kind |-> "set", key |-> k, effect |-> e]
RemoveOp(k) == [kind |-> "remove", key |-> k]
\* The request schema lets a key occur twice.
ReplaceOp(s) == [kind |-> "replace", overrides |-> s]

Override == [key : Keys, effect : Effects]

ASSUME AsksAssumption ==
  \A w \in Writers : \A o \in Asks(w) :
    \/ \E k \in Keys, e \in Effects : o = SetOp(k, e)
    \/ \E k \in Keys : o = RemoveOp(k)
    \/ o = ReplaceOp(o.overrides) /\ o.overrides \in Seq(Override)

Open(w) == st[w] \in {"deleting", "inserting"}

\* The keys on which another statement must wait for w's transaction to end.
Held(w) == deleted[w] \cup DOMAIN inserted[w]

HeldByOther(w, k) == \E v \in Writers \ {w} : k \in Held(v)

Init ==
  /\ initial \in PartialEffects
  /\ rows = [k \in DOMAIN initial |-> [effect |-> initial[k], by |-> Nobody]]
  /\ op \in [Writers -> UNION {Asks(w) : w \in Writers}]
  /\ \A w \in Writers : op[w] \in Asks(w)
  /\ st = [w \in Writers |-> "idle"]
  /\ victims = [w \in Writers |-> None]
  /\ deleted = [w \in Writers |-> {}]
  /\ inserted = [w \in Writers |-> None]

\* w ends: what it leaves uncommitted is gone and its locks are released.
Finish(w, outcome) ==
  /\ st' = [st EXCEPT ![w] = outcome]
  /\ victims' = [victims EXCEPT ![w] = None]
  /\ deleted' = [deleted EXCEPT ![w] = {}]
  /\ inserted' = [inserted EXCEPT ![w] = None]
  /\ UNCHANGED <<initial, op>>

-----------------------------------------------------------------------------
\* Variant of Upsert that only ever inserts: an existing row is left as it is.
UpsertIgnoring(k, e, w) ==
  rows' = IF k \in DOMAIN rows THEN rows
          ELSE [j \in DOMAIN rows \cup {k} |->
                 IF j \in DOMAIN rows THEN rows[j] ELSE [effect |-> e, by |-> w]]

\* INSERT ... ON CONFLICT DO UPDATE.
Upsert(k, e, w) ==
  rows' = [j \in DOMAIN rows \cup {k} |->
            IF j # k THEN rows[j]
            ELSE [effect |-> e,
                  by |-> IF k \in DOMAIN rows THEN rows[k].by ELSE w]]

SetUserPermissionOverride(w) ==
  /\ st[w] = "idle"
  /\ op[w].kind = "set"
  /\ ~HeldByOther(w, op[w].key)
  /\ Upsert(op[w].key, op[w].effect, w)
  /\ Finish(w, "done")

\* A DELETE takes its snapshot: every row of the user, or the row of one key.
DeleteStarts(w) ==
  /\ st[w] = "idle"
  /\ op[w].kind \in {"remove", "replace"}
  /\ LET targets == IF op[w].kind = "remove" THEN {op[w].key} ELSE Keys
     IN  victims' = [victims EXCEPT ![w] =
                      [k \in targets \cap DOMAIN rows |-> rows[k].by]]
  /\ st' = [st EXCEPT ![w] = "deleting"]
  /\ UNCHANGED <<initial, rows, op, deleted, inserted>>

\* The rows of the snapshot that are still there: a row deleted meanwhile is
\* skipped, one inserted meanwhile under the same key is another row.
Survivors(w) ==
  {k \in DOMAIN victims[w] \cap DOMAIN rows : rows[k].by = victims[w][k]}

\* Variant of DeleteProceeds that waits for nobody.
DeleteProceedsAtOnce(w) == st[w] = "deleting"

\* The DELETE waits for the transactions that hold one of its rows.
DeleteProceeds(w) ==
  /\ st[w] = "deleting"
  /\ \A k \in Survivors(w) : ~HeldByOther(w, k)

\* removeUserPermissionOverride: no row to delete is the caller's error.
RemoveUserPermissionOverride(w) ==
  /\ DeleteProceeds(w)
  /\ op[w].kind = "remove"
  /\ rows' = [k \in DOMAIN rows \ Survivors(w) |-> rows[k]]
  /\ Finish(w, IF Survivors(w) = {} THEN "failed" ELSE "done")

-----------------------------------------------------------------------------
(* replaceUserPermissions *)

\* Variant of DeleteMany outside any transaction: it commits at once.
DeleteManyCommits(w) ==
  /\ DeleteProceeds(w)
  /\ op[w].kind = "replace"
  /\ rows' = [k \in DOMAIN rows \ Survivors(w) |-> rows[k]]
  /\ st' = [st EXCEPT ![w] = "inserting"]
  /\ UNCHANGED <<initial, op, victims, deleted, inserted>>

DeleteMany(w) ==
  /\ DeleteProceeds(w)
  /\ op[w].kind = "replace"
  /\ deleted' = [deleted EXCEPT ![w] = Survivors(w)]
  /\ st' = [st EXCEPT ![w] = "inserting"]
  /\ UNCHANGED <<initial, rows, op, victims, inserted>>

AllInserted(w) == Cardinality(DOMAIN inserted[w]) = Len(op[w].overrides)

\* The next row of createMany's one INSERT.
NextRow(w) == op[w].overrides[Cardinality(DOMAIN inserted[w]) + 1]

Duplicate(w, k) ==
  k \in DOMAIN inserted[w] \/ k \in DOMAIN rows \ deleted[w]

InsertRow(w) ==
  /\ st[w] = "inserting"
  /\ ~AllInserted(w)
  /\ LET row == NextRow(w)
     IN  /\ ~HeldByOther(w, row.key)
         /\ ~Duplicate(w, row.key)
         /\ inserted' = [inserted EXCEPT ![w] =
                          [k \in DOMAIN @ \cup {row.key} |->
                            IF k = row.key THEN row.effect ELSE @[k]]]
  /\ UNCHANGED <<initial, rows, op, st, victims, deleted>>

\* The unique index refuses the row: the transaction rolls back, databaseError.
UniqueViolation(w) ==
  /\ st[w] = "inserting"
  /\ ~AllInserted(w)
  /\ Duplicate(w, NextRow(w).key)
  /\ ~HeldByOther(w, NextRow(w).key)
  /\ UNCHANGED rows
  /\ Finish(w, "failed")

Commit(w) ==
  /\ st[w] = "inserting"
  /\ AllInserted(w)
  /\ rows' = [k \in (DOMAIN rows \ deleted[w]) \cup DOMAIN inserted[w] |->
               IF k \in DOMAIN inserted[w]
               THEN [effect |-> inserted[w][k], by |-> w]
               ELSE rows[k]]
  /\ Finish(w, "done")

\* The connection or the process is lost, Prisma's transaction timeout expires,
\* or PostgreSQL chooses w to break a deadlock.
Abort(w) ==
  /\ st[w] = "idle" \/ Open(w)
  /\ UNCHANGED rows
  /\ Finish(w, "failed")

Next ==
  \E w \in Writers :
    \/ SetUserPermissionOverride(w)
    \/ DeleteStarts(w)
    \/ RemoveUserPermissionOverride(w)
    \/ DeleteMany(w)
    \/ InsertRow(w)
    \/ UniqueViolation(w)
    \/ Commit(w)
    \/ Abort(w)

Spec == Init /\ [][Next]_vars

-----------------------------------------------------------------------------
Row == [effect : Effects, by : Writers \cup {Nobody}]

\* Types, and the locks are real: two transactions never hold the same key, and
\* only an open one holds any.
TypeOK ==
  /\ rows \in UNION {[K -> Row] : K \in SUBSET Keys}
  /\ st \in [Writers -> {"idle", "deleting", "inserting", "done", "failed"}]
  /\ \A w \in Writers :
       /\ inserted[w] \in PartialEffects
       /\ deleted[w] \subseteq DOMAIN rows
       /\ Held(w) # {} => st[w] = "inserting"
       /\ \A k \in Held(w) : ~HeldByOther(w, k)

Lookup(r, k) == IF k \in DOMAIN r THEN r[k].effect ELSE "none"

\* What operation o asks key k to become.
AskedOf(o, k) ==
  CASE o.kind = "set" -> IF k = o.key THEN {o.effect} ELSE {}
    [] o.kind = "remove" -> IF k = o.key THEN {"none"} ELSE {}
    [] o.kind = "replace" ->
         LET wanted == {i \in DOMAIN o.overrides : o.overrides[i].key = k}
         IN  IF wanted = {} THEN {"none"}
             ELSE {o.overrides[i].effect : i \in wanted}

\* A row changes only to what an operation asks of its key, as that succeeds.
Requested ==
  \A k \in Keys : Lookup(rows, k) # Lookup(rows', k) =>
    \E w \in Writers : /\ st[w] # "done"
                       /\ st'[w] = "done"
                       /\ Lookup(rows', k) \in AskedOf(op[w], k)

\* No reader ever finds an override that nobody asked for, nor misses one that
\* nobody removed.  A replace that keeps a DENY shows no instant without it, and
\* one that fails, for a duplicate key, a deadlock or a crash between its two
\* statements, changes nothing (db.run in replaceUserPermissions).
ChangesAreRequested == [][Requested]_vars

Succeeded == {w \in Writers : st[w] = "done"}

StrictOrder(before, S) ==
  /\ \A v \in S : <<v, v>> \notin before
  /\ \A v, w \in S : v # w => <<v, w>> \in before \/ <<w, v>> \in before
  /\ \A u, v, w \in S : <<u, v>> \in before /\ <<v, w>> \in before => <<u, w>> \in before

\* The operations that say what becomes of key k.
About(k) == {w \in Succeeded : AskedOf(op[w], k) # {}}

IsLast(before, w, k) ==
  w \in About(k) /\ \A v \in About(k) \ {w} : <<v, w>> \in before

\* One after the other, the last operation about a key decides what is stored.
Explains(before, k) ==
  IF About(k) = {}
  THEN Lookup(rows, k) = IF k \in DOMAIN initial THEN initial[k] ELSE "none"
  ELSE \E w \in Writers : IsLast(before, w, k) /\ Lookup(rows, k) \in AskedOf(op[w], k)

\* The stored overrides are always those that the operations reported as done
\* give in some one-after-the-other order: a replace replaces every override.
SerialOutcome ==
  \E before \in SUBSET (Succeeded \X Succeeded) :
    StrictOrder(before, Succeeded) /\ \A k \in Keys : Explains(before, k)

=============================================================================
