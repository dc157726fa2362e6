----------------------------- MODULE Revisions -----------------------------
(***************************************************************************)
(* One user's authorization data has two parts, the role in the user's row  *)
(* and the user's override rows.  What they hold does not matter to a cache, *)
(* only which commits they reflect: each part is abstracted to its revision, *)
(* the number of committed changes to it.                                   *)
(***************************************************************************)
EXTENDS Naturals

Parts == {"role", "overrides"}

Snapshot == [role : Nat, overrides : Nat]

Pristine == [role |-> 0, overrides |-> 0]

WithRole(s, n) == [role |-> n, overrides |-> s.overrides]

WithOverrides(s, n) == [role |-> s.role, overrides |-> n]

\* t reflects every commit s reflects, in both parts.
s \preceq t == /\ s.role <= t.role
               /\ s.overrides <= t.overrides

Between(s, t) == [role : s.role .. t.role, overrides : s.overrides .. t.overrides]

=============================================================================
