--------------------------- MODULE MCGuardedRoute ---------------------------
(* An excerpt of the catalog (two resources, both roles), a route that admins *)
(* may use, and the requests that browsers make.                             *)
EXTENDS GuardedRoute

MCPermissionKeys ==
  {"files"} \X {"create", "manage"} \cup {"user"} \X {"list", "manage"}

MCRoleGrants ==
  [user |-> {<<"files", "create">>}, admin |-> MCPermissionKeys]

MCRequired == {<<"user", "list">>}

MCRoutePolicies ==
  {[role |-> {r}, overrides |-> [k \in MCPermissionKeys |-> "none"]] : r \in RoleNames}

Kind(unsafe, exempt, page, proxied, site, origin, referer) ==
  [unsafe |-> unsafe, exempt |-> exempt, page |-> page, proxied |-> proxied,
   site |-> site, origin |-> origin, referer |-> referer]

MCRequestKinds ==
  {Kind(FALSE, FALSE, "own", FALSE, "same", "absent", "listed"),        \* a first visit
   Kind(TRUE, FALSE, "own", FALSE, "same", "listed", "listed"),
   Kind(TRUE, FALSE, "own", FALSE, "absent", "absent", "listed"),       \* an old browser
   Kind(TRUE, FALSE, "docs", TRUE, "same", "other", "other"),
   Kind(TRUE, FALSE, "foreign", TRUE, "same", "other", "other"),   \* a neighbour's page
   Kind(TRUE, FALSE, "foreign", FALSE, "same", "other", "absent"), \* the same, directly
   Kind(TRUE, FALSE, "foreign", FALSE, "cross", "other", "absent"),
   Kind(TRUE, TRUE, "foreign", FALSE, "absent", "absent", "absent")}    \* a webhook
=============================================================================
