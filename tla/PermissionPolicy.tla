-------------------------- MODULE PermissionPolicy --------------------------
(***************************************************************************)
(* What a user may do (PolicyRules) while what is stored about the user      *)
(* changes.  The state is the stored facts and the steps are the writes, so *)
(* that a property can relate what was allowed before a write to what is     *)
(* allowed after it.                                                        *)
(***************************************************************************)
EXTENDS PolicyRules

VARIABLES
  role,        \* the stored role: NoRole or the set of names listed
  overrides    \* overrides[k]: the effect of the row of key k, or "none"

vars == <<role, overrides>>

-----------------------------------------------------------------------------
(* The writes *)

Init ==
  /\ role \in StoredRoles
  /\ overrides = [k \in PermissionKeys |-> "none"]

RoleStored(stored) ==
  /\ role' = stored
  /\ UNCHANGED overrides

OverrideSet(k, effect) ==
  /\ overrides' = [overrides EXCEPT ![k] = effect]
  /\ UNCHANGED role

OverrideRemoved(k) ==
  /\ overrides[k] # "none"
  /\ overrides' = [overrides EXCEPT ![k] = "none"]
  /\ UNCHANGED role

OverridesReplaced(o) ==
  /\ overrides' = o
  /\ UNCHANGED role

Next ==
  \/ \E stored \in StoredRoles : RoleStored(stored)
  \/ \E k \in PermissionKeys, effect \in {"ALLOW", "DENY"} : OverrideSet(k, effect)
  \/ \E k \in PermissionKeys : OverrideRemoved(k)
  \/ \E o \in [PermissionKeys -> Effects] : OverridesReplaced(o)

Spec == Init /\ [][Next]_vars

-----------------------------------------------------------------------------
Granted(stored, o) == {k \in PermissionKeys : Has(k, stored, o)}

\* The types of the stored role and of the override rows.
TypeOK ==
  /\ role \in StoredRoles
  /\ overrides \in [PermissionKeys -> Effects]

\* "DENY always wins": no role, no ALLOW and no "manage" brings a denied key
\* back, and a route that requires it together with others stays closed.
DenyWins ==
  \A k \in PermissionKeys : overrides[k] = "DENY" =>
    /\ ~Has(k, role, overrides)
    /\ \A required \in SUBSET PermissionKeys :
         k \in required => ~Passes(required, "AND", role, overrides)

\* An ALLOW override is enough by itself: it opens its key to any user,
\* whatever the role and even where "manage" of the resource is denied.
AllowIsEnough ==
  \A k \in PermissionKeys : overrides[k] = "ALLOW" => Has(k, role, overrides)

\* The list that GET users/:id/effective-permissions answers shows nothing the
\* guard would refuse.
ListedIsGranted == Permissions(role, overrides) \subseteq Granted(role, overrides)

\* The roles the stored column itself names.
Holds(stored, r) == IF stored = NoRole THEN r = DefaultRole ELSE r \in stored

\* Nothing is allowed out of nowhere: what passes the guard goes back to a role
\* the user holds or to an ALLOW row, of the key or of its resource's "manage";
\* a stored role the catalog does not know gives nothing.
GrantsHaveASource ==
  \A k \in Granted(role, overrides) : \E source \in {k, ManageKey(k)} :
    \/ \E r \in RoleNames : Holds(role, r) /\ source \in RoleGrants[r]
    \/ source \in PermissionKeys /\ overrides[source] = "ALLOW"

Rank(effect) == CASE effect = "DENY" -> 0 [] effect = "none" -> 1 [] OTHER -> 2

\* o2 says of no key anything more permissive than o1 does.
Restricts(o1, o2) == \A k \in PermissionKeys : Rank(o2[k]) <= Rank(o1[k])

\* A write to the overrides acts in the direction it reads: adding a DENY or
\* taking an ALLOW away never opens any key, on no path through "manage", and
\* the opposite never closes one.
OverridesAreMonotone ==
  [][role' = role =>
       /\ Restricts(overrides, overrides')
            => Granted(role', overrides') \subseteq Granted(role, overrides)
       /\ Restricts(overrides', overrides)
            => Granted(role, overrides) \subseteq Granted(role', overrides')]_vars

=============================================================================
