------------------------ MODULE OverrideStoreProofs ------------------------
(* Proofs about OverrideStore, for any writers, keys and operations.       *)
EXTENDS OverrideStore, FiniteSetTheorems, TLAPS

-----------------------------------------------------------------------------
(* The inductive invariant.                                                *)

Places == {"idle", "deleting", "inserting", "done", "failed"}

\* A DELETE under way belongs to a remove, of its key alone, or to a replace.
Deleting(w) ==
  /\ op[w].kind \in {"remove", "replace"}
  /\ op[w].kind = "remove" => DOMAIN victims[w] \subseteq {op[w].key}

\* What an INSERT has written so far: the first rows of the list, one per key.
Inserting(w) ==
  LET list == op[w].overrides
      n == Cardinality(DOMAIN inserted[w])
  IN  /\ op[w].kind = "replace"
      /\ IsFiniteSet(DOMAIN inserted[w])
      /\ n <= Len(list)
      /\ \A i \in 1 .. n : list[i].key \in DOMAIN inserted[w]
      /\ \A k \in DOMAIN inserted[w] : \E i \in DOMAIN list :
           list[i].key = k /\ list[i].effect = inserted[w][k]

\* All that concerns one writer's own state.
Own(w) ==
  /\ inserted[w] \in PartialEffects
  /\ Held(w) # {} => st[w] = "inserting"
  /\ st[w] = "deleting" => Deleting(w)
  /\ st[w] = "inserting" => Inserting(w)

StoreInv ==
  /\ rows \in UNION {[K -> Row] : K \in SUBSET Keys}
  /\ st \in [Writers -> Places]
  /\ DOMAIN victims = Writers /\ DOMAIN deleted = Writers /\ DOMAIN inserted = Writers
  /\ \A w \in Writers : op[w] \in Asks(w)

LockInv ==
  \A w \in Writers :
    /\ deleted[w] \subseteq DOMAIN rows
    /\ \A k \in Held(w) : ~HeldByOther(w, k)

IInv == StoreInv /\ LockInv /\ \A w \in Writers : Own(w)

-----------------------------------------------------------------------------
(* Lemmas about data.                                                      *)

\* What a table of rows is.
LEMMA Tables ==
  ASSUME NEW r
  PROVE  r \in UNION {[K -> Row] : K \in SUBSET Keys} <=>
           /\ DOMAIN r \subseteq Keys
           /\ r = [k \in DOMAIN r |-> r[k]]
           /\ \A k \in DOMAIN r : r[k] \in Row
<1>1. ASSUME r \in UNION {[K -> Row] : K \in SUBSET Keys}
      PROVE  /\ DOMAIN r \subseteq Keys
             /\ r = [k \in DOMAIN r |-> r[k]]
             /\ \A k \in DOMAIN r : r[k] \in Row
  <2>1. PICK K \in SUBSET Keys : r \in [K -> Row]
    BY <1>1
  <2> QED BY <2>1
<1>2. ASSUME DOMAIN r \subseteq Keys, r = [k \in DOMAIN r |-> r[k]],
             \A k \in DOMAIN r : r[k] \in Row
      PROVE  r \in UNION {[K -> Row] : K \in SUBSET Keys}
  <2>1. r \in [DOMAIN r -> Row]
    BY <1>2
  <2> QED BY <2>1, <1>2
<1> QED BY <1>1, <1>2

\* What the effects of a transaction are.
LEMMA PartialFacts ==
  ASSUME NEW r
  PROVE  r \in PartialEffects <=>
           /\ DOMAIN r \subseteq Keys
           /\ r = [k \in DOMAIN r |-> r[k]]
           /\ \A k \in DOMAIN r : r[k] \in Effects
<1>1. ASSUME r \in PartialEffects
      PROVE  /\ DOMAIN r \subseteq Keys
             /\ r = [k \in DOMAIN r |-> r[k]]
             /\ \A k \in DOMAIN r : r[k] \in Effects
  <2>1. PICK K \in SUBSET Keys : r \in [K -> Effects]
    BY <1>1 DEF PartialEffects
  <2> QED BY <2>1
<1>2. ASSUME DOMAIN r \subseteq Keys, r = [k \in DOMAIN r |-> r[k]],
             \A k \in DOMAIN r : r[k] \in Effects
      PROVE  r \in PartialEffects
  <2>1. r \in [DOMAIN r -> Effects]
    BY <1>2
  <2> QED BY <2>1, <1>2 DEF PartialEffects
<1> QED BY <1>1, <1>2

LEMMA NoneFacts == None \in PartialEffects /\ DOMAIN None = {}
<1>1. DOMAIN None = {}
  BY DEF None
<1>2. None = [k \in DOMAIN None |-> None[k]]
  BY <1>1 DEF None
<1> QED BY <1>1, <1>2, PartialFacts

\* The fields of what a writer may ask for.
LEMMA OpFields ==
  ASSUME StoreInv, NEW w \in Writers
  PROVE  /\ op[w].kind \in {"set", "remove", "replace"}
         /\ op[w].kind = "set" => op[w].key \in Keys /\ op[w].effect \in Effects
         /\ op[w].kind = "remove" => op[w].key \in Keys
         /\ op[w].kind = "replace" => op[w].overrides \in Seq(Override)
<1>1. op[w] \in Asks(w)
  BY DEF StoreInv
<1>2. CASE \E k \in Keys, e \in Effects : op[w] = SetOp(k, e)
  BY <1>2 DEF SetOp
<1>3. CASE \E k \in Keys : op[w] = RemoveOp(k)
  BY <1>3 DEF RemoveOp
<1>4. CASE op[w] = ReplaceOp(op[w].overrides) /\ op[w].overrides \in Seq(Override)
  BY <1>4 DEF ReplaceOp
<1> QED BY <1>1, <1>2, <1>3, <1>4, AsksAssumption

-----------------------------------------------------------------------------
(* The moves all operations are made of.                                   *)

\* The end of w: its locks are gone, nobody else's state has moved.
LEMMA FinishKeeps ==
  ASSUME IInv, NEW w \in Writers, NEW outcome \in {"done", "failed"}, Finish(w, outcome),
         rows' \in UNION {[K -> Row] : K \in SUBSET Keys},
         \A v \in Writers \ {w} : deleted[v] \subseteq DOMAIN rows'
  PROVE  /\ IInv'
         /\ st'[w] = outcome
<1>1. /\ st' \in [Writers -> Places] /\ st'[w] = outcome
      /\ inserted'[w] = None /\ deleted'[w] = {}
      /\ \A v \in Writers \ {w} : /\ st'[v] = st[v] /\ victims'[v] = victims[v]
                                  /\ deleted'[v] = deleted[v] /\ inserted'[v] = inserted[v]
      /\ DOMAIN victims' = Writers /\ DOMAIN deleted' = Writers /\ DOMAIN inserted' = Writers
      /\ op' = op
  BY DEF IInv, StoreInv, Finish, Places
<1>2. Held(w)' = {} /\ \A v \in Writers \ {w} : Held(v)' = Held(v)
  BY <1>1, NoneFacts DEF Held
<1>3. StoreInv'
  BY <1>1 DEF IInv, StoreInv
<1>4. LockInv'
  <2>1. ASSUME NEW v \in Writers PROVE deleted'[v] \subseteq DOMAIN rows'
    BY <1>1
  <2>2. ASSUME NEW v \in Writers, NEW k \in Held(v)' PROVE ~HeldByOther(v, k)'
    <3>1. k \in Held(v) /\ ~HeldByOther(v, k)
      BY <1>2, <2>2 DEF IInv, LockInv
    <3> QED BY <3>1, <1>2 DEF HeldByOther
  <2> QED BY <2>1, <2>2 DEF LockInv
<1>5. Own(w)'
  BY <1>1, <1>2, NoneFacts DEF Own
<1>6. ASSUME NEW v \in Writers \ {w} PROVE Own(v)'
  <2>1. Own(v)
    BY DEF IInv
  <2> QED BY <2>1, <1>1, <1>2 DEF Own, Deleting, Inserting
<1> QED BY <1>1, <1>3, <1>4, <1>5, <1>6 DEF IInv

\* A step that leaves the rows alone asks for nothing to be requested.
LEMMA SameRowsRequested ==
  ASSUME rows' = rows
  PROVE  Requested
BY DEF Requested, Lookup

\* A transaction that moves on keeps everybody else's state as it is.
LEMMA OthersKeep ==
  ASSUME IInv, NEW w \in Writers, rows' = rows, op' = op,
         st' \in [Writers -> Places], Own(w)', deleted'[w] \subseteq DOMAIN rows,
         DOMAIN victims' = Writers, DOMAIN deleted' = Writers, DOMAIN inserted' = Writers,
         \A v \in Writers \ {w} :
           /\ st'[v] = st[v] /\ victims'[v] = victims[v]
           /\ deleted'[v] = deleted[v] /\ inserted'[v] = inserted[v],
         \A k \in Held(w)' : ~HeldByOther(w, k)
  PROVE  IInv'
<1>1. StoreInv'
  BY DEF IInv, StoreInv
<1>2. \A v \in Writers \ {w} : Held(v)' = Held(v)
  BY DEF Held
<1>3. ASSUME NEW v \in Writers, NEW k \in Held(v)' PROVE ~HeldByOther(v, k)'
  <2>1. CASE v = w
    BY <1>2, <1>3, <2>1 DEF HeldByOther
  <2>2. CASE v # w
    <3>1. k \in Held(v) /\ ~HeldByOther(v, k)
      BY <1>2, <1>3, <2>2 DEF IInv, LockInv
    <3>2. k \notin Held(w)'
      BY <2>2, <3>1 DEF HeldByOther
    <3> QED BY <1>2, <3>1, <3>2 DEF HeldByOther
  <2> QED BY <2>1, <2>2
<1>4. \A v \in Writers : deleted'[v] \subseteq DOMAIN rows'
  BY DEF IInv, LockInv
<1>5. ASSUME NEW v \in Writers \ {w} PROVE Own(v)'
  <2>1. Own(v)
    BY DEF IInv
  <2> QED BY <1>2, <2>1 DEF Own, Deleting, Inserting
<1> QED BY <1>1, <1>3, <1>4, <1>5 DEF IInv, LockInv

-----------------------------------------------------------------------------
(* The operations.                                                         *)

LEMMA SetKeeps ==
  ASSUME IInv, NEW w \in Writers, SetUserPermissionOverride(w)
  PROVE  IInv' /\ Requested
<1> DEFINE k == op[w].key
           e == op[w].effect
<1>1. k \in Keys /\ e \in Effects /\ st[w] = "idle"
  BY OpFields DEF IInv, SetUserPermissionOverride
<1>2. /\ DOMAIN rows \subseteq Keys
      /\ \A j \in DOMAIN rows : rows[j] \in Row
  BY Tables DEF IInv, StoreInv
<1>3. /\ DOMAIN rows' = DOMAIN rows \cup {k}
      /\ rows' = [j \in DOMAIN rows' |-> rows'[j]]
      /\ \A j \in DOMAIN rows \ {k} : rows'[j] = rows[j]
      /\ rows'[k].effect = e
      /\ rows'[k] \in Row
  BY <1>1, <1>2 DEF SetUserPermissionOverride, Upsert, Row
<1>4. \A j \in DOMAIN rows' : rows'[j] \in Row
  BY <1>2, <1>3
<1>5. rows' \in UNION {[K -> Row] : K \in SUBSET Keys}
  BY <1>1, <1>2, <1>3, <1>4, Tables
<1>6. \A v \in Writers : deleted[v] \subseteq DOMAIN rows'
  BY <1>3 DEF IInv, LockInv
<1>7. IInv' /\ st'[w] = "done"
  BY <1>5, <1>6, FinishKeeps DEF SetUserPermissionOverride
<1>8. Requested
  <2>1. \A j \in Keys : Lookup(rows, j) # Lookup(rows', j) => j = k /\ Lookup(rows', j) = e
    BY <1>3 DEF Lookup
  <2>2. e \in AskedOf(op[w], k)
    BY DEF AskedOf, SetUserPermissionOverride
  <2> QED BY <1>1, <1>7, <2>1, <2>2 DEF Requested
<1> QED BY <1>7, <1>8

LEMMA DeleteStartsKeeps ==
  ASSUME IInv, NEW w \in Writers, DeleteStarts(w)
  PROVE  IInv' /\ Requested
<1>1. /\ st' \in [Writers -> Places] /\ st'[w] = "deleting"
      /\ rows' = rows /\ op' = op /\ deleted' = deleted /\ inserted' = inserted
      /\ DOMAIN victims' = Writers
      /\ \A v \in Writers \ {w} : st'[v] = st[v] /\ victims'[v] = victims[v]
  BY DEF IInv, StoreInv, DeleteStarts, Places
<1>2. Held(w)' = Held(w) /\ Held(w) = {} /\ inserted[w] \in PartialEffects
  BY <1>1 DEF IInv, Own, Held, DeleteStarts
<1>3. op[w].kind = "remove" => DOMAIN victims'[w] \subseteq {op[w].key}
  BY DEF DeleteStarts, IInv, StoreInv
<1>4. Own(w)'
  BY <1>1, <1>2, <1>3 DEF Own, Deleting, DeleteStarts
<1>5. IInv'
  <2>1. /\ deleted'[w] \subseteq DOMAIN rows
        /\ DOMAIN deleted' = Writers /\ DOMAIN inserted' = Writers
    BY <1>1 DEF IInv, StoreInv, LockInv
  <2> QED BY <1>1, <1>2, <1>4, <2>1, OthersKeep
<1> QED BY <1>1, <1>5, SameRowsRequested

LEMMA RemoveKeeps ==
  ASSUME IInv, NEW w \in Writers, RemoveUserPermissionOverride(w)
  PROVE  IInv' /\ Requested
<1>1. /\ st[w] = "deleting" /\ op[w].kind = "remove"
      /\ \A k \in Survivors(w) : ~HeldByOther(w, k)
      /\ rows' = [k \in DOMAIN rows \ Survivors(w) |-> rows[k]]
  BY DEF RemoveUserPermissionOverride, DeleteProceeds
<1>2. Survivors(w) \subseteq {op[w].key}
  BY <1>1 DEF Survivors, IInv, Own, Deleting
<1>3. /\ DOMAIN rows' = DOMAIN rows \ Survivors(w)
      /\ \A k \in DOMAIN rows' : rows'[k] = rows[k]
      /\ rows' = [k \in DOMAIN rows' |-> rows'[k]]
  BY <1>1
<1>4. rows' \in UNION {[K -> Row] : K \in SUBSET Keys}
  BY <1>3, Tables DEF IInv, StoreInv
<1>5. \A v \in Writers \ {w} : deleted[v] \subseteq DOMAIN rows'
  <2> SUFFICES ASSUME NEW v \in Writers \ {w}, NEW k \in deleted[v], k \in Survivors(w)
               PROVE  FALSE
    BY <1>3 DEF IInv, LockInv
  <2>1. HeldByOther(w, k)
    BY DEF HeldByOther, Held
  <2> QED BY <1>1, <2>1
<1>6. /\ IInv'
      /\ st'[w] = IF Survivors(w) = {} THEN "failed" ELSE "done"
  BY <1>4, <1>5, FinishKeeps DEF RemoveUserPermissionOverride
<1>7. ASSUME NEW k \in Keys, Lookup(rows, k) # Lookup(rows', k)
      PROVE  /\ st[w] # "done" /\ st'[w] = "done"
             /\ Lookup(rows', k) \in AskedOf(op[w], k)
  <2>1. k \in Survivors(w)
    BY <1>3, <1>7 DEF Lookup
  <2>2. k = op[w].key /\ Lookup(rows', k) = "none"
    BY <1>2, <1>3, <2>1 DEF Lookup
  <2> QED BY <1>1, <1>6, <2>1, <2>2 DEF AskedOf
<1> QED BY <1>6, <1>7 DEF Requested

LEMMA DeleteManyKeeps ==
  ASSUME IInv, NEW w \in Writers, DeleteMany(w)
  PROVE  IInv' /\ Requested
<1>1. /\ st' \in [Writers -> Places] /\ st'[w] = "inserting" /\ st[w] = "deleting"
      /\ rows' = rows /\ op' = op /\ victims' = victims /\ inserted' = inserted
      /\ DOMAIN deleted' = Writers /\ deleted'[w] = Survivors(w)
      /\ \A v \in Writers \ {w} : st'[v] = st[v] /\ deleted'[v] = deleted[v]
      /\ op[w].kind = "replace"
      /\ \A k \in Survivors(w) : ~HeldByOther(w, k)
  BY DEF IInv, StoreInv, DeleteMany, DeleteProceeds, Places
<1>2. Held(w) = {} /\ DOMAIN inserted[w] = {} /\ inserted[w] \in PartialEffects
  BY <1>1 DEF IInv, Own, Held
<1>3. Held(w)' = Survivors(w)
  BY <1>1, <1>2 DEF Held
<1>4. Inserting(w)'
  <2>1. IsFiniteSet({}) /\ Cardinality({}) = 0
    BY FS_EmptySet
  <2>2. op[w].overrides \in Seq(Override)
    BY <1>1, OpFields DEF IInv
  <2> QED BY <1>1, <1>2, <2>1, <2>2 DEF Inserting
<1>5. Own(w)'
  BY <1>1, <1>2, <1>4 DEF Own
<1>6. IInv'
  <2>1. /\ deleted'[w] \subseteq DOMAIN rows
        /\ DOMAIN victims' = Writers /\ DOMAIN inserted' = Writers
    BY <1>1 DEF IInv, StoreInv, Survivors
  <2> QED BY <1>1, <1>3, <1>5, <2>1, OthersKeep
<1> QED BY <1>1, <1>6, SameRowsRequested

LEMMA InsertRowKeeps ==
  ASSUME IInv, NEW w \in Writers, InsertRow(w)
  PROVE  IInv' /\ Requested
<1> DEFINE row == NextRow(w)
           n == Cardinality(DOMAIN inserted[w])
           list == op[w].overrides
<1>1. /\ st[w] = "inserting" /\ ~AllInserted(w)
      /\ ~HeldByOther(w, row.key) /\ ~Duplicate(w, row.key)
      /\ rows' = rows /\ op' = op /\ victims' = victims /\ deleted' = deleted /\ st' = st
      /\ DOMAIN inserted' = Writers
      /\ \A v \in Writers \ {w} : inserted'[v] = inserted[v]
      /\ inserted'[w] = [k \in DOMAIN inserted[w] \cup {row.key} |->
                           IF k = row.key THEN row.effect ELSE inserted[w][k]]
  BY DEF InsertRow, IInv, StoreInv
<1>2. Inserting(w) /\ inserted[w] \in PartialEffects
  BY <1>1 DEF IInv, Own
<1>3. list \in Seq(Override)
  BY <1>2, OpFields DEF IInv, Inserting
<1>4. n \in Nat /\ n < Len(list)
  <2>1. n \in Nat
    BY <1>2, FS_CardinalityType DEF Inserting
  <2> QED BY <1>1, <1>2, <1>3, <2>1 DEF Inserting, AllInserted
<1>5. n + 1 \in DOMAIN list /\ row = list[n + 1] /\ row \in Override
  BY <1>3, <1>4 DEF NextRow
<1>6. /\ DOMAIN inserted'[w] = DOMAIN inserted[w] \cup {row.key}
      /\ \A k \in DOMAIN inserted[w] : k # row.key /\ inserted'[w][k] = inserted[w][k]
      /\ inserted'[w][row.key] = row.effect
      /\ row.key \notin DOMAIN inserted[w]
  BY <1>1 DEF Duplicate
<1>7. /\ IsFiniteSet(DOMAIN inserted'[w])
      /\ Cardinality(DOMAIN inserted'[w]) = n + 1
  <2> DEFINE S == DOMAIN inserted[w]
  <2>1. IsFiniteSet(S) /\ row.key \notin S
    BY <1>2, <1>6 DEF Inserting
  <2>2. IsFiniteSet(S \cup {row.key}) /\ Cardinality(S \cup {row.key}) = Cardinality(S) + 1
    <3> HIDE DEF S
    <3> QED BY <2>1, FS_AddElement
  <2>3. DOMAIN inserted'[w] = S \cup {row.key}
    BY <1>6
  <2> QED BY <2>2, <2>3
<1>8. Inserting(w)'
  <2>1. ASSUME NEW i \in 1 .. n + 1 PROVE list[i].key \in DOMAIN inserted'[w]
    <3>1. CASE i = n + 1
      BY <1>5, <1>6, <3>1
    <3>2. CASE i \in 1 .. n
      BY <1>2, <1>6, <3>2 DEF Inserting
    <3> QED BY <1>4, <3>1, <3>2
  <2>2. ASSUME NEW k \in DOMAIN inserted'[w]
        PROVE  \E i \in DOMAIN list : list[i].key = k /\ list[i].effect = inserted'[w][k]
    <3>1. CASE k = row.key
      BY <1>5, <1>6, <3>1
    <3>2. CASE k \in DOMAIN inserted[w]
      BY <1>2, <1>6, <3>2 DEF Inserting
    <3> QED BY <1>6, <3>1, <3>2
  <2>3. op[w].kind = "replace" /\ n + 1 <= Len(list)
    BY <1>2, <1>3, <1>4 DEF Inserting
  <2> QED BY <1>1, <1>7, <2>1, <2>2, <2>3 DEF Inserting
<1>9. inserted'[w] \in PartialEffects
  <2>1. DOMAIN inserted'[w] \subseteq Keys
    BY <1>2, <1>5, <1>6, PartialFacts DEF Override
  <2>2. \A k \in DOMAIN inserted'[w] : inserted'[w][k] \in Effects
    BY <1>2, <1>5, <1>6, PartialFacts DEF Override
  <2>3. inserted'[w] = [k \in DOMAIN inserted'[w] |-> inserted'[w][k]]
    BY <1>1
  <2> QED BY <2>1, <2>2, <2>3, PartialFacts
<1>10. Own(w)'
  BY <1>1, <1>8, <1>9 DEF Own
<1>11. \A k \in Held(w)' : ~HeldByOther(w, k)
  BY <1>1, <1>6 DEF Held, IInv, LockInv
<1>12. IInv'
  <2>1. /\ deleted'[w] \subseteq DOMAIN rows /\ st' \in [Writers -> Places]
        /\ DOMAIN victims' = Writers /\ DOMAIN deleted' = Writers
    BY <1>1 DEF IInv, StoreInv, LockInv
  <2> QED BY <1>1, <1>10, <1>11, <2>1, OthersKeep
<1> QED BY <1>1, <1>12, SameRowsRequested

LEMMA FailureKeeps ==
  ASSUME IInv, NEW w \in Writers, rows' = rows, Finish(w, "failed")
  PROVE  IInv' /\ Requested
<1>1. rows' \in UNION {[K -> Row] : K \in SUBSET Keys}
  BY DEF IInv, StoreInv
<1>2. \A v \in Writers : deleted[v] \subseteq DOMAIN rows'
  BY DEF IInv, LockInv
<1> QED BY <1>1, <1>2, FinishKeeps, SameRowsRequested

\* What a commit leaves of each key: what the list says of it, and of the others
\* what the transaction has not deleted.
LEMMA CommitWrites ==
  ASSUME IInv, NEW w \in Writers, Commit(w), NEW k \in Keys
  PROVE  /\ k \in DOMAIN inserted[w] => Lookup(rows', k) \in AskedOf(op[w], k)
         /\ k \notin DOMAIN inserted[w] =>
              /\ AskedOf(op[w], k) = {"none"}
              /\ Lookup(rows', k) = IF k \in deleted[w] THEN "none" ELSE Lookup(rows, k)
         /\ op[w].kind = "replace" /\ AskedOf(op[w], k) # {}
<1> DEFINE list == op[w].overrides
           n == Cardinality(DOMAIN inserted[w])
           wanted == {i \in DOMAIN list : list[i].key = k}
<1>1. /\ st[w] = "inserting" /\ n = Len(list)
      /\ rows' = [j \in (DOMAIN rows \ deleted[w]) \cup DOMAIN inserted[w] |->
                   IF j \in DOMAIN inserted[w]
                   THEN [effect |-> inserted[w][j], by |-> w]
                   ELSE rows[j]]
  BY DEF Commit, AllInserted
<1>2. Inserting(w) /\ inserted[w] \in PartialEffects
  BY <1>1 DEF IInv, Own
<1>3. list \in Seq(Override) /\ op[w].kind = "replace"
  BY <1>2, OpFields DEF IInv, Inserting
<1>4. AskedOf(op[w], k) = IF wanted = {} THEN {"none"} ELSE {list[i].effect : i \in wanted}
  BY <1>3 DEF AskedOf
<1>5. ASSUME k \in DOMAIN inserted[w] PROVE Lookup(rows', k) \in AskedOf(op[w], k)
  <2>1. PICK i \in DOMAIN list : list[i].key = k /\ list[i].effect = inserted[w][k]
    BY <1>2, <1>5 DEF Inserting
  <2>2. k \in DOMAIN rows' /\ rows'[k] = [effect |-> inserted[w][k], by |-> w]
    BY <1>1, <1>5
  <2>3. Lookup(rows', k) = list[i].effect
    BY <2>1, <2>2 DEF Lookup
  <2> QED BY <1>4, <2>1, <2>3
<1>6. ASSUME k \notin DOMAIN inserted[w] PROVE AskedOf(op[w], k) = {"none"}
  <2>1. wanted = {}
    <3> SUFFICES ASSUME NEW i \in DOMAIN list, list[i].key = k PROVE FALSE
      OBVIOUS
    <3>1. i \in 1 .. n
      BY <1>1, <1>3
    <3> QED BY <1>2, <1>6, <3>1 DEF Inserting
  <2> QED BY <1>4, <2>1
<1>7. ASSUME k \notin DOMAIN inserted[w]
      PROVE  Lookup(rows', k) = IF k \in deleted[w] THEN "none" ELSE Lookup(rows, k)
  BY <1>1, <1>7 DEF Lookup
<1>8. AskedOf(op[w], k) # {}
  BY <1>4
<1> QED BY <1>3, <1>5, <1>6, <1>7, <1>8

LEMMA CommitKeeps ==
  ASSUME IInv, NEW w \in Writers, Commit(w)
  PROVE  IInv' /\ Requested
<1> DEFINE list == op[w].overrides
           n == Cardinality(DOMAIN inserted[w])
<1>1. /\ st[w] = "inserting" /\ n = Len(list)
      /\ rows' = [k \in (DOMAIN rows \ deleted[w]) \cup DOMAIN inserted[w] |->
                   IF k \in DOMAIN inserted[w]
                   THEN [effect |-> inserted[w][k], by |-> w]
                   ELSE rows[k]]
  BY DEF Commit, AllInserted
<1>2. Inserting(w) /\ inserted[w] \in PartialEffects
  BY <1>1 DEF IInv, Own
<1>3. list \in Seq(Override) /\ op[w].kind = "replace"
  BY <1>2, OpFields DEF IInv, Inserting
<1>4. /\ DOMAIN rows' = (DOMAIN rows \ deleted[w]) \cup DOMAIN inserted[w]
      /\ \A k \in DOMAIN inserted[w] : rows'[k] = [effect |-> inserted[w][k], by |-> w]
      /\ \A k \in DOMAIN rows' \ DOMAIN inserted[w] : rows'[k] = rows[k]
      /\ rows' = [k \in DOMAIN rows' |-> rows'[k]]
  BY <1>1
<1>5. rows' \in UNION {[K -> Row] : K \in SUBSET Keys}
  <2>1. DOMAIN rows \subseteq Keys /\ \A k \in DOMAIN rows : rows[k] \in Row
    BY Tables DEF IInv, StoreInv
  <2>2. /\ DOMAIN inserted[w] \subseteq Keys
        /\ \A k \in DOMAIN inserted[w] : inserted[w][k] \in Effects
    BY <1>2, PartialFacts
  <2>3. ASSUME NEW k \in DOMAIN rows' PROVE rows'[k] \in Row
    <3>1. CASE k \in DOMAIN inserted[w]
      <4>1. rows'[k] = [effect |-> inserted[w][k], by |-> w]
        BY <1>4, <3>1
      <4>2. inserted[w][k] \in Effects
        BY <2>2, <3>1
      <4> QED BY <4>1, <4>2 DEF Row
    <3>2. CASE k \notin DOMAIN inserted[w]
      <4>1. rows'[k] = rows[k] /\ k \in DOMAIN rows
        BY <1>4, <2>3, <3>2
      <4> QED BY <2>1, <4>1
    <3> QED BY <3>1, <3>2
  <2> QED BY <1>4, <2>1, <2>2, <2>3, Tables
<1>6. \A v \in Writers \ {w} : deleted[v] \subseteq DOMAIN rows'
  <2> SUFFICES ASSUME NEW v \in Writers \ {w}, NEW k \in deleted[v], k \in deleted[w]
               PROVE  FALSE
    BY <1>4 DEF IInv, LockInv
  <2>1. k \in Held(w) /\ HeldByOther(w, k)
    BY DEF HeldByOther, Held
  <2> QED BY <2>1 DEF IInv, LockInv
<1>7. IInv' /\ st'[w] = "done"
  BY <1>5, <1>6, FinishKeeps DEF Commit
<1>8. ASSUME NEW k \in Keys, Lookup(rows, k) # Lookup(rows', k)
      PROVE  Lookup(rows', k) \in AskedOf(op[w], k)
  <2>1. CASE k \in DOMAIN inserted[w]
    BY <2>1, CommitWrites
  <2>2. CASE k \notin DOMAIN inserted[w]
    <3>1. Lookup(rows', k) = "none"
      BY <1>8, <2>2, CommitWrites
    <3> QED BY <2>2, <3>1, CommitWrites
  <2> QED BY <2>1, <2>2
<1> QED BY <1>1, <1>7, <1>8 DEF Requested

-----------------------------------------------------------------------------
(* The theorems.                                                           *)

LEMMA InitHolds == Init => IInv
<1> SUFFICES ASSUME Init PROVE IInv
  OBVIOUS
<1>1. DOMAIN rows = DOMAIN initial /\ \A k \in DOMAIN rows : rows[k] = [effect |-> initial[k], by |-> Nobody]
  BY DEF Init
<1>2. rows \in UNION {[K -> Row] : K \in SUBSET Keys}
  <2>1. DOMAIN initial \subseteq Keys /\ \A k \in DOMAIN initial : initial[k] \in Effects
    BY PartialFacts DEF Init
  <2>2. rows = [k \in DOMAIN rows |-> rows[k]]
    BY DEF Init
  <2> QED BY <1>1, <2>1, <2>2, Tables DEF Row
<1>3. \A w \in Writers : Held(w) = {} /\ st[w] = "idle" /\ inserted[w] \in PartialEffects
  BY NoneFacts DEF Init, Held
<1>4. StoreInv
  BY <1>2 DEF StoreInv, Init, Places
<1>5. LockInv
  BY <1>3 DEF LockInv, Held
<1>6. \A w \in Writers : Own(w)
  BY <1>3 DEF Own
<1> QED BY <1>4, <1>5, <1>6 DEF IInv

LEMMA StepKeeps == ASSUME IInv, Next PROVE IInv' /\ Requested
<1>1. PICK w \in Writers :
        \/ SetUserPermissionOverride(w)
        \/ DeleteStarts(w)
        \/ RemoveUserPermissionOverride(w)
        \/ DeleteMany(w)
        \/ InsertRow(w)
        \/ UniqueViolation(w)
        \/ Commit(w)
        \/ Abort(w)
  BY DEF Next
<1>2. UniqueViolation(w) \/ Abort(w) => rows' = rows /\ Finish(w, "failed")
  BY DEF UniqueViolation, Abort
<1> QED BY <1>1, <1>2, SetKeeps, DeleteStartsKeeps, RemoveKeeps, DeleteManyKeeps,
           InsertRowKeeps, FailureKeeps, CommitKeeps

LEMMA StutterKeeps == ASSUME IInv, UNCHANGED vars PROVE IInv'
<1>1. /\ rows' = rows /\ st' = st /\ op' = op /\ victims' = victims
      /\ deleted' = deleted /\ inserted' = inserted
  BY DEF vars
<1>2. StoreInv'
  BY <1>1 DEF IInv, StoreInv
<1>3. LockInv'
  BY <1>1 DEF IInv, LockInv, HeldByOther, Held
<1>4. \A w \in Writers : Own(w)'
  BY <1>1 DEF IInv, Own, Held, Deleting, Inserting
<1> QED BY <1>2, <1>3, <1>4 DEF IInv

\* What is behind the others: a DELETE and an INSERT under way hold just the
\* keys they have touched, and the INSERT has written the first rows of its
\* list, one per key (replaceUserPermissions).
THEOREM InductiveInvariant == Spec => []IInv
<1>1. IInv /\ [Next]_vars => IInv'
  BY StepKeeps, StutterKeeps
<1> QED BY <1>1, InitHolds, PTL DEF Spec

\* Types, and the locks are real: no two transactions ever hold the same key,
\* for any writers and any operations.
THEOREM TypeCorrect == Spec => []TypeOK
<1>1. IInv => TypeOK
  BY DEF IInv, StoreInv, LockInv, Own, TypeOK, Places
<1> QED BY <1>1, InductiveInvariant, PTL

\* A committed row changes only to what an operation that succeeds in that step
\* asks of its key, whatever the operations, their overlaps and their failures.
THEOREM Changes == Spec => ChangesAreRequested
<1>1. IInv /\ [Next]_vars => [Requested]_vars
  BY StepKeeps
<1> QED BY <1>1, InductiveInvariant, PTL DEF Spec, ChangesAreRequested

-----------------------------------------------------------------------------
(* Serial outcomes.                                                        *)

Replacing(w) == Open(w) /\ op[w].kind = "replace"

\* No two replaces are under way at once.
NoOverlap == \A v, w \in Writers : Replacing(v) /\ Replacing(w) => v = w

\* What a replace under way will leave of the rows: those its DELETE does not find.
Left(w) == DOMAIN rows \ (IF st[w] = "deleting" THEN Survivors(w) ELSE deleted[w])

IsLastSet(before, v, k) == IsLast(before, v, k) /\ op[v].kind = "set"

\* The order explains what is stored, and what a replace will leave was set since
\* it began: the sets in question can be put after it.
Serial(before) ==
  /\ before \subseteq Succeeded \X Succeeded
  /\ StrictOrder(before, Succeeded)
  /\ \A k \in Keys : Explains(before, k)
  /\ \A w \in Writers : Replacing(w) =>
       \A k \in Left(w) : \E v \in Writers : IsLastSet(before, v, k)

SerialInv == \E before : Serial(before)

\* The last operation about a key is one.
LEMMA LastIsUnique ==
  ASSUME NEW before, StrictOrder(before, Succeeded),
         NEW v, NEW w, NEW k, IsLast(before, v, k), IsLast(before, w, k)
  PROVE  v = w
BY DEF IsLast, About, StrictOrder

\* A step after which no more operations have succeeded than before.
LEMMA NothingSucceeds ==
  ASSUME NEW before, Serial(before), rows' = rows, op' = op, initial' = initial,
         Succeeded' = Succeeded,
         \A w \in Writers : Replacing(w)' => Left(w)' \subseteq (IF Replacing(w) THEN Left(w) ELSE {})
  PROVE  Serial(before)'
<1>1. \A k : About(k)' = About(k)
  BY DEF About
<1>2. \A v, k : IsLast(before, v, k)' <=> IsLast(before, v, k)
  BY <1>1 DEF IsLast
<1>3. \A k : Explains(before, k)' <=> Explains(before, k)
  BY <1>1, <1>2 DEF Explains
<1>4. ASSUME NEW w \in Writers, Replacing(w)', NEW k \in Left(w)'
      PROVE  \E v \in Writers : IsLastSet(before, v, k)'
  <2>1. PICK v \in Writers : IsLastSet(before, v, k)
    BY <1>4 DEF Serial
  <2> QED BY <1>2, <2>1 DEF IsLastSet
<1>5. before \subseteq (Succeeded \X Succeeded)' /\ StrictOrder(before, Succeeded)'
  BY DEF Serial, StrictOrder
<1> QED BY <1>3, <1>4, <1>5 DEF Serial

\* A set or a remove that succeeds comes after all that has succeeded.
LEMMA SingleSucceeds ==
  ASSUME NEW before, Serial(before), NEW w \in Writers, w \notin Succeeded,
         op[w].kind \in {"set", "remove"}, op' = op, initial' = initial,
         Succeeded' = Succeeded \cup {w},
         Lookup(rows', op[w].key) \in AskedOf(op[w], op[w].key),
         \A k \in Keys \ {op[w].key} : Lookup(rows', k) = Lookup(rows, k),
         \A u \in Writers : Replacing(u)' =>
           /\ Replacing(u)
           /\ Left(u)' \subseteq Left(u)
                \cup (IF op[w].kind = "set" THEN {op[w].key} ELSE {})
           /\ op[w].kind = "remove" => op[w].key \notin Left(u)'
  PROVE  SerialInv'
<1> DEFINE key == op[w].key
<1> PICK after : after = before \cup (Succeeded \X {w})
  OBVIOUS
<1>1. \A k : AskedOf(op[w], k) # {} <=> k = key
  BY DEF AskedOf
<1>2. About(key)' = About(key) \cup {w} /\ \A k : k # key => About(k)' = About(k)
  BY <1>1 DEF About, Succeeded
<1>3. before \subseteq Succeeded \X Succeeded /\ StrictOrder(before, Succeeded)
  BY DEF Serial
<1>4. StrictOrder(after, Succeeded')
  BY <1>3 DEF StrictOrder
<1>5. IsLast(after, w, key)'
  BY <1>2 DEF IsLast, About
<1>6. ASSUME NEW v, NEW k, k # key, IsLast(before, v, k) PROVE IsLast(after, v, k)'
  BY <1>2, <1>6 DEF IsLast
<1>7. ASSUME NEW k \in Keys PROVE Explains(after, k)'
  <2>1. CASE k = key
    BY <1>2, <1>5, <2>1 DEF Explains
  <2>2. CASE k # key
    <3>1. Explains(before, k) /\ Lookup(rows', k) = Lookup(rows, k) /\ About(k)' = About(k)
      BY <1>2, <2>2 DEF Serial
    <3> QED BY <1>6, <2>2, <3>1 DEF Explains
  <2> QED BY <2>1, <2>2
<1>8. ASSUME NEW u \in Writers, Replacing(u)', NEW k \in Left(u)'
      PROVE  \E v \in Writers : IsLastSet(after, v, k)'
  <2>1. CASE k = key
    BY <1>5, <1>8, <2>1 DEF IsLastSet
  <2>2. CASE k # key
    <3>1. PICK v \in Writers : IsLastSet(before, v, k)
      BY <1>8, <2>2 DEF Serial
    <3> QED BY <1>6, <2>2, <3>1 DEF IsLastSet
  <2> QED BY <2>1, <2>2
<1>9. after \subseteq Succeeded' \X Succeeded'
  BY <1>3
<1>10. Serial(after)'
  BY <1>4, <1>7, <1>8, <1>9 DEF Serial, StrictOrder
<1> QED BY <1>10 DEF SerialInv

\* A replace that commits takes its place before the sets that it has left.
LEMMA ReplaceSucceeds ==
  ASSUME NEW before, Serial(before), IInv, NoOverlap, NEW w \in Writers, Commit(w)
  PROVE  SerialInv'
<1> DEFINE Late(v) == \E k \in Left(w) \ DOMAIN inserted[w] : IsLastSet(before, v, k)
           Sooner(x, y) ==
             \/ x = w /\ y # w /\ Late(y)
             \/ y = w /\ x # w /\ ~Late(x)
             \/ x # w /\ y # w /\ Late(y) /\ ~Late(x)
             \/ x # w /\ y # w /\ (Late(x) <=> Late(y)) /\ <<x, y>> \in before
<1>1. /\ op' = op /\ initial' = initial /\ st[w] = "inserting"
      /\ st' = [st EXCEPT ![w] = "done"] /\ deleted' = [deleted EXCEPT ![w] = {}]
      /\ DOMAIN st = Writers
  BY DEF Commit, Finish, IInv, StoreInv
<1>2. w \notin Succeeded /\ Succeeded' = Succeeded \cup {w} /\ Replacing(w)
  <2>1. op[w].kind = "replace"
    BY <1>1 DEF IInv, Own, Inserting
  <2> QED BY <1>1, <2>1 DEF Succeeded, Replacing, Open
<1>3. /\ before \subseteq Succeeded \X Succeeded /\ StrictOrder(before, Succeeded)
      /\ \A k \in Keys : Explains(before, k)
      /\ \A k \in Left(w) : \E v \in Writers : IsLastSet(before, v, k)
  BY <1>2 DEF Serial
<1>4. Left(w) = DOMAIN rows \ deleted[w] /\ Left(w) \subseteq Keys
  BY <1>1, Tables DEF Left, IInv, StoreInv
<1>5. \A k : About(k)' = About(k) \cup (IF AskedOf(op[w], k) # {} THEN {w} ELSE {})
  BY <1>1, <1>2 DEF About
<1>6. \A k \in Keys : About(k)' = About(k) \cup {w}
  BY <1>5, CommitWrites
<1>7. \A v, k : v \in About(k) => v \in Succeeded /\ v # w
  BY <1>2 DEF About
\* A late set is about one key, of which it is the last.
<1>8. ASSUME NEW v, Late(v), NEW k, v \in About(k)
      PROVE  IsLast(before, v, k) /\ k \in Left(w) \ DOMAIN inserted[w]
  <2>1. PICK j \in Left(w) \ DOMAIN inserted[w] : IsLastSet(before, v, j)
    BY <1>8
  <2>2. j = op[v].key /\ k = op[v].key
    BY <1>8, <2>1 DEF IsLastSet, IsLast, About, AskedOf
  <2> QED BY <2>1, <2>2 DEF IsLastSet
<1> PICK after : after = {p \in Succeeded' \X Succeeded' : Sooner(p[1], p[2])}
  OBVIOUS
<1> HIDE DEF Late
<1>9. \A x, y \in Succeeded' : <<x, y>> \in after <=> Sooner(x, y)
  OBVIOUS
<1>10. StrictOrder(after, Succeeded')
  <2>1. \A v \in Succeeded' : <<v, v>> \notin after
    BY <1>2, <1>3, <1>9 DEF StrictOrder
  <2>2. \A u, v \in Succeeded' : u # v => <<u, v>> \in after \/ <<v, u>> \in after
    BY <1>2, <1>3, <1>9 DEF StrictOrder
  <2>3. ASSUME NEW x \in Succeeded', NEW y \in Succeeded', NEW z \in Succeeded',
               Sooner(x, y), Sooner(y, z)
        PROVE  Sooner(x, z)
    BY <1>2, <1>3, <2>3 DEF StrictOrder
  <2> QED BY <1>9, <2>1, <2>2, <2>3 DEF StrictOrder
<1>11. ASSUME NEW k \in Keys PROVE Explains(after, k)'
  <2>1. CASE k \in Left(w) \ DOMAIN inserted[w]
    <3>1. PICK v \in Writers : IsLastSet(before, v, k)
      BY <1>3, <2>1
    <3>2. Late(v) /\ IsLast(before, v, k) /\ v \in About(k)
      BY <2>1, <3>1 DEF Late, IsLastSet, IsLast
    <3>3. Lookup(rows, k) \in AskedOf(op[v], k)
      BY <1>3, <3>2, LastIsUnique DEF Explains
    <3>4. ASSUME NEW u \in About(k), u # v PROVE <<u, v>> \in after
      <4>1. ~Late(u)
        BY <1>3, <1>8, <3>2, <3>4, LastIsUnique
      <4> QED BY <1>2, <1>7, <1>9, <3>2, <3>4, <4>1
    <3>5. <<w, v>> \in after
      BY <1>2, <1>7, <1>9, <3>2
    <3>6. IsLast(after, v, k)'
      BY <1>6, <3>2, <3>4, <3>5 DEF IsLast
    <3>7. Lookup(rows', k) = Lookup(rows, k)
      BY <1>4, <2>1, CommitWrites
    <3> QED BY <1>1, <1>6, <3>3, <3>6, <3>7 DEF Explains
  <2>2. CASE k \notin Left(w) \ DOMAIN inserted[w]
    <3>1. ASSUME NEW u \in About(k) PROVE <<u, w>> \in after
      <4>1. ~Late(u)
        BY <1>8, <2>2
      <4> QED BY <1>2, <1>7, <1>9, <4>1
    <3>2. IsLast(after, w, k)'
      BY <1>6, <1>7, <3>1 DEF IsLast
    <3>3. Lookup(rows', k) \in AskedOf(op[w], k)
      <4>1. CASE k \in DOMAIN inserted[w]
        BY <4>1, CommitWrites
      <4>2. CASE k \notin DOMAIN inserted[w]
        <5>1. Lookup(rows', k) = "none"
          BY <1>4, <2>2, <4>2, CommitWrites DEF Lookup
        <5> QED BY <4>2, <5>1, CommitWrites
      <4> QED BY <4>1, <4>2
    <3> QED BY <1>1, <1>6, <3>2, <3>3 DEF Explains
  <2> QED BY <2>1, <2>2
<1>12. \A u \in Writers : ~Replacing(u)'
  BY <1>1, <1>2 DEF Replacing, Open, NoOverlap
<1>13. Serial(after)'
  BY <1>10, <1>11, <1>12 DEF Serial, StrictOrder
<1> QED BY <1>13 DEF SerialInv

LEMMA SerialStep ==
  ASSUME IInv, SerialInv, NoOverlap, Next
  PROVE  SerialInv'
<1>1. PICK before : Serial(before)
  BY DEF SerialInv
<1>2. \A v \in Writers : v \in Succeeded <=> st[v] = "done"
  BY DEF Succeeded
<1>3. DOMAIN st = Writers /\ DOMAIN victims = Writers /\ DOMAIN deleted = Writers
      /\ DOMAIN rows \subseteq Keys
  BY Tables DEF IInv, StoreInv
<1>4. ASSUME NEW w \in Writers, SetUserPermissionOverride(w) PROVE SerialInv'
  <2> DEFINE k == op[w].key
  <2>1. /\ op' = op /\ initial' = initial
        /\ st' = [st EXCEPT ![w] = "done"] /\ st[w] = "idle" /\ op[w].kind = "set"
        /\ \A u \in Writers \ {w} : victims'[u] = victims[u] /\ deleted'[u] = deleted[u]
        /\ DOMAIN rows' = DOMAIN rows \cup {k}
        /\ \A j \in DOMAIN rows : rows'[j].by = rows[j].by
        /\ \A j \in DOMAIN rows \ {k} : rows'[j] = rows[j]
        /\ rows'[k].effect = op[w].effect
    BY <1>3, <1>4 DEF SetUserPermissionOverride, Finish, Upsert
  <2>2. Succeeded' = Succeeded \cup {w} /\ w \notin Succeeded
    BY <1>3, <2>1 DEF Succeeded
  <2>3. /\ Lookup(rows', k) \in AskedOf(op[w], k)
        /\ \A j \in Keys \ {k} : Lookup(rows', j) = Lookup(rows, j)
    BY <2>1 DEF Lookup, AskedOf
  <2>4. ASSUME NEW u \in Writers, Replacing(u)'
        PROVE  Replacing(u) /\ Left(u)' \subseteq Left(u) \cup {k}
    BY <1>3, <2>1, <2>4 DEF Replacing, Open, Left, Survivors
  <2> QED BY <1>1, <2>1, <2>2, <2>3, <2>4, SingleSucceeds
<1>5. ASSUME NEW w \in Writers, DeleteStarts(w) PROVE SerialInv'
  <2>1. /\ op' = op /\ initial' = initial /\ rows' = rows /\ deleted' = deleted
        /\ st' = [st EXCEPT ![w] = "deleting"] /\ st[w] = "idle"
        /\ \A u \in Writers \ {w} : victims'[u] = victims[u]
        /\ op[w].kind = "replace" => victims'[w] = [k \in Keys \cap DOMAIN rows |-> rows[k].by]
    BY <1>3, <1>5 DEF DeleteStarts
  <2>2. Succeeded' = Succeeded
    BY <1>3, <2>1 DEF Succeeded
  <2>3. ASSUME NEW u \in Writers, Replacing(u)'
        PROVE  Left(u)' \subseteq (IF Replacing(u) THEN Left(u) ELSE {})
    <3>1. CASE u = w
      BY <1>3, <2>1, <2>3, <3>1 DEF Replacing, Open, Left, Survivors
    <3>2. CASE u # w
      BY <1>3, <2>1, <2>3, <3>2 DEF Replacing, Open, Left, Survivors
    <3> QED BY <3>1, <3>2
  <2> QED BY <1>1, <2>1, <2>2, <2>3, NothingSucceeds DEF SerialInv
<1>6. ASSUME NEW w \in Writers, RemoveUserPermissionOverride(w) PROVE SerialInv'
  <2> DEFINE k == op[w].key
  <2>1. /\ op' = op /\ initial' = initial /\ op[w].kind = "remove" /\ st[w] = "deleting"
        /\ st' = [st EXCEPT ![w] = IF Survivors(w) = {} THEN "failed" ELSE "done"]
        /\ \A u \in Writers \ {w} : victims'[u] = victims[u] /\ deleted'[u] = deleted[u]
        /\ rows' = [j \in DOMAIN rows \ Survivors(w) |-> rows[j]]
    BY <1>3, <1>6 DEF RemoveUserPermissionOverride, DeleteProceeds, Finish
  <2>2. Survivors(w) \subseteq {k}
    BY <2>1 DEF Survivors, IInv, Own, Deleting
  <2>3. \A u \in Writers : Replacing(u)' => u # w /\ Replacing(u) /\ Left(u)' \subseteq Left(u)
    BY <1>3, <2>1 DEF Replacing, Open, Left, Survivors
  <2>4. CASE Survivors(w) = {}
    <3>1. rows' = rows
      BY <2>1, <2>4, Tables DEF IInv, StoreInv
    <3>2. Succeeded' = Succeeded
      BY <1>3, <2>1, <2>4 DEF Succeeded
    <3> QED BY <1>1, <2>1, <2>3, <3>1, <3>2, NothingSucceeds DEF SerialInv
  <2>5. CASE Survivors(w) # {}
    <3>1. Survivors(w) = {k}
      BY <2>2, <2>5
    <3>2. Succeeded' = Succeeded \cup {w} /\ w \notin Succeeded
      BY <1>3, <2>1, <2>5 DEF Succeeded
    <3>3. /\ Lookup(rows', k) \in AskedOf(op[w], k)
          /\ \A j \in Keys \ {k} : Lookup(rows', j) = Lookup(rows, j)
          /\ \A u \in Writers : k \notin Left(u)'
      BY <2>1, <3>1 DEF Lookup, AskedOf, Left
    <3> QED BY <1>1, <2>1, <2>3, <3>2, <3>3, SingleSucceeds
  <2> QED BY <2>4, <2>5
<1>7. ASSUME NEW w \in Writers, DeleteMany(w) PROVE SerialInv'
  <2>1. /\ op' = op /\ initial' = initial /\ rows' = rows /\ victims' = victims
        /\ st' = [st EXCEPT ![w] = "inserting"] /\ st[w] = "deleting"
        /\ deleted' = [deleted EXCEPT ![w] = Survivors(w)]
    BY <1>7 DEF DeleteMany, DeleteProceeds
  <2>2. Succeeded' = Succeeded
    BY <1>3, <2>1 DEF Succeeded
  <2>3. \A u \in Writers : Replacing(u)' => Replacing(u) /\ Left(u)' = Left(u)
    BY <1>3, <2>1 DEF Replacing, Open, Left, Survivors
  <2> QED BY <1>1, <2>1, <2>2, <2>3, NothingSucceeds DEF SerialInv
<1>8. ASSUME NEW w \in Writers, InsertRow(w) PROVE SerialInv'
  <2>1. /\ op' = op /\ initial' = initial /\ rows' = rows /\ st' = st
        /\ victims' = victims /\ deleted' = deleted
    BY <1>8 DEF InsertRow
  <2>2. /\ Succeeded' = Succeeded
        /\ \A u \in Writers : Replacing(u)' => Replacing(u) /\ Left(u)' = Left(u)
    BY <2>1 DEF Succeeded, Replacing, Open, Left, Survivors
  <2> QED BY <1>1, <2>1, <2>2, NothingSucceeds DEF SerialInv
<1>9. ASSUME NEW w \in Writers, rows' = rows, Finish(w, "failed"), st[w] # "done"
      PROVE  SerialInv'
  <2>1. /\ op' = op /\ initial' = initial /\ st' = [st EXCEPT ![w] = "failed"]
        /\ \A u \in Writers \ {w} : victims'[u] = victims[u] /\ deleted'[u] = deleted[u]
    BY <1>3, <1>9 DEF Finish
  <2>2. Succeeded' = Succeeded
    BY <1>3, <1>9, <2>1 DEF Succeeded
  <2>3. \A u \in Writers : Replacing(u)' => Replacing(u) /\ Left(u)' = Left(u)
    BY <1>3, <1>9, <2>1 DEF Replacing, Open, Left, Survivors
  <2> QED BY <1>1, <1>9, <2>1, <2>2, <2>3, NothingSucceeds DEF SerialInv
<1>10. \A w \in Writers :
        UniqueViolation(w) \/ Abort(w) => rows' = rows /\ Finish(w, "failed") /\ st[w] # "done"
  BY DEF UniqueViolation, Abort, Open
<1> QED BY <1>1, <1>4, <1>5, <1>6, <1>7, <1>8, <1>9, <1>10, ReplaceSucceeds DEF Next

\* In every state of a store whose replaces do not overlap some order of the
\* operations done explains what is stored, and what the replace under way will
\* leave was set since it began.
THEOREM SerialInvariant == Spec /\ []NoOverlap => []SerialInv
<1>1. Init => SerialInv
  <2> SUFFICES ASSUME Init PROVE SerialInv
    OBVIOUS
  <2>1. Succeeded = {} /\ \A k : About(k) = {}
    BY DEF Init, Succeeded, About
  <2>2. \A w \in Writers : ~Replacing(w)
    BY DEF Init, Replacing, Open
  <2>3. \A k \in Keys : Explains({}, k)
    BY <2>1 DEF Init, Explains, Lookup
  <2>4. Serial({})
    BY <2>1, <2>2, <2>3 DEF Serial, StrictOrder
  <2> QED BY <2>4 DEF SerialInv
<1>2. SerialInv /\ UNCHANGED vars => SerialInv'
  <2>1. UNCHANGED vars => /\ rows' = rows /\ op' = op /\ initial' = initial
                          /\ Succeeded' = Succeeded
                          /\ \A w \in Writers : /\ Replacing(w)' <=> Replacing(w)
                                                /\ Left(w)' = Left(w)
    BY DEF Succeeded, Replacing, Open, Left, Survivors, vars
  <2> QED BY <2>1, NothingSucceeds DEF SerialInv
<1>3. IInv /\ SerialInv /\ NoOverlap /\ [Next]_vars => SerialInv'
  BY <1>2, SerialStep
<1> QED BY <1>1, <1>3, InductiveInvariant, PTL DEF Spec

\* Two replaces at once are the only way to an outcome that no order explains
\* (replaceUserPermissions at READ COMMITTED): as long as none overlap, any sets,
\* removes and replaces leave what they leave one after the other, however their
\* statements interleave and whichever of them fail.
THEOREM SerialUnlessOverlapping == Spec /\ []NoOverlap => []SerialOutcome
<1>1. SerialInv => SerialOutcome
  BY DEF SerialInv, Serial, SerialOutcome
<1> QED BY <1>1, SerialInvariant, PTL

\* In particular while one writer alone may replace.
THEOREM SerialWithOneReplacer ==
  ASSUME \A v, w \in Writers :
           (\E o \in Asks(v) : o.kind = "replace") /\ (\E o \in Asks(w) : o.kind = "replace")
             => v = w
  PROVE  Spec => []SerialOutcome
<1>1. IInv => NoOverlap
  BY DEF IInv, StoreInv, NoOverlap, Replacing
<1> QED BY <1>1, InductiveInvariant, SerialUnlessOverlapping, PTL

=============================================================================
