-------------------------- MODULE FreshPermissions --------------------------
(***************************************************************************)
(* What a caller of buildForUser(user) may rely on, with no cache, version  *)
(* key or pair of queries in sight: a request gets one answer, the same for  *)
(* each of its lookups; each part of it is at least as recent as the content *)
(* that was published when the request began, and was in the database.      *)
(***************************************************************************)
EXTENDS Revisions

CONSTANT Requests      \* the request slots of the API

VARIABLES
  db,          \* the committed revision of each part
  published,   \* the content that every request beginning now must reflect
  since,       \* since[r]: published when request r began
  seen         \* seen[r]: the answers request r has received

vars == <<db, published, since, seen>>

Init ==
  /\ db = Pristine
  /\ published = Pristine
  /\ since = [r \in Requests |-> Pristine]
  /\ seen = [r \in Requests |-> {}]

Commit ==
  /\ \/ db' = WithRole(db, db.role + 1)
     \/ db' = WithOverrides(db, db.overrides + 1)
  /\ UNCHANGED <<published, since, seen>>

\* A writer's caller learns that its change is in force, and with it every
\* change committed so far.
Publish ==
  /\ published' = db
  /\ UNCHANGED <<db, since, seen>>

Begin(r) ==
  /\ since' = [since EXCEPT ![r] = published]
  /\ seen[r] = {}
  /\ UNCHANGED <<db, published, seen>>

End(r) ==
  /\ since' = [since EXCEPT ![r] = Pristine]
  /\ seen' = [seen EXCEPT ![r] = {}]
  /\ UNCHANGED <<db, published>>

\* The first lookup of r is answered; the later ones repeat it, a stutter.
Answer(r) ==
  /\ seen[r] = {}
  /\ \E s \in Between(since[r], db) : seen' = [seen EXCEPT ![r] = {s}]
  /\ UNCHANGED <<db, published, since>>

Next ==
  \/ Commit
  \/ Publish
  \/ \E r \in Requests : Begin(r) \/ Answer(r) \/ End(r)

Spec == Init /\ [][Next]_vars

=============================================================================
