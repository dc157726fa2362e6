---------------------------- MODULE PolicyRules ----------------------------
(***************************************************************************)
(* From what is stored about a user, the role column and the ALLOW and DENY *)
(* override rows, to what the user may do (permissions.catalog.ts,          *)
(* resolvePermissions, checkPermission and the PermissionsGuard).  A        *)
(* permission key is a pair <<resource, action>>; the action "manage"       *)
(* stands in for every action of its resource.  A stored role, a            *)
(* comma-separated list in the code, is the set of the names in it.         *)
(***************************************************************************)
EXTENDS Naturals

CONSTANTS
  PermissionKeys,   \* PERMISSION_KEYS, the catalog
  RoleNames,        \* ROLE_NAMES, the keys of ROLE_GRANTS
  RoleGrants,       \* ROLE_GRANTS: role -> the keys it grants
  DefaultRole,      \* DEFAULT_ROLE
  UnknownNames,     \* names in stored roles that the catalog does not know
  NoRole            \* the role column is NULL or the empty string

ASSUME CatalogAssumption ==
  /\ RoleGrants \in [RoleNames -> SUBSET PermissionKeys]
  /\ DefaultRole \in RoleNames
  /\ UnknownNames \cap RoleNames = {}

Effects == {"ALLOW", "DENY", "none"}

StoredRoles == {NoRole} \cup ((SUBSET (RoleNames \cup UnknownNames)) \ {{}})

\* Variant of ParseStoredRoles: nothing known falls back to the default role.
ParseFallingBack(stored) ==
  IF stored = NoRole \/ stored \cap RoleNames = {}
  THEN {DefaultRole} ELSE stored \cap RoleNames

\* parseStoredRoles: a missing role is the default one, an unknown name is
\* ignored (and logged), which is not the same.
ParseStoredRoles(stored) ==
  (IF stored = NoRole THEN {DefaultRole} ELSE stored) \cap RoleNames

PermissionsForRoles(roles) == UNION {RoleGrants[r] : r \in roles}

With(effect, o) == {k \in PermissionKeys : o[k] = effect}

\* Variant of ResolvePermissions: an ALLOW list replaces what the roles grant.
ResolveReplacing(granted, allow, deny) ==
  (IF allow = {} THEN granted ELSE allow) \ deny

\* Variant of ResolvePermissions that forgets to apply DENY.
ResolveWithoutDeny(granted, allow, deny) == granted \cup allow

ResolvePermissions(granted, allow, deny) == (granted \cup allow) \ deny

\* fetchAuthorization: the permissions and the deny list kept beside them.
Permissions(stored, o) ==
  ResolvePermissions(PermissionsForRoles(ParseStoredRoles(stored)),
                     With("ALLOW", o), With("DENY", o))

ManageKey(k) == <<k[1], "manage">>

\* Variant of CheckPermission: "manage" is looked at before the key's DENY.
CheckManageFirst(k, permissions, deny) ==
  \/ ManageKey(k) \in permissions
  \/ k \notin deny /\ k \in permissions

\* Variant of CheckPermission: a DENY of "manage" beats the key's own ALLOW.
CheckManageDeny(k, permissions, deny) ==
  /\ k \notin deny
  /\ ManageKey(k) \notin deny
  /\ k \in permissions \/ ManageKey(k) \in permissions

CheckPermission(k, permissions, deny) ==
  /\ k \notin deny
  /\ \/ k \in permissions
     \/ ManageKey(k) \notin deny /\ ManageKey(k) \in permissions

\* effective.has(k)
Has(k, stored, o) == CheckPermission(k, Permissions(stored, o), With("DENY", o))

\* PermissionsGuard: what a route requires, of an authenticated user.
Passes(required, mode, stored, o) ==
  IF mode = "AND" THEN \A k \in required : Has(k, stored, o)
                  ELSE \E k \in required : Has(k, stored, o)

=============================================================================
