SPECIFICATION RouteSpec
CONSTANTS
  PermissionKeys <- MCPermissionKeys
  RoleNames = {"user", "admin"}
  RoleGrants <- MCRoleGrants
  DefaultRole = "user"
  UnknownNames = {"owner"}
  NoRole = NoRole
  Requests = {r1, r2}
  RequestKinds <- MCRequestKinds
  MaxTokens = 7
  NoToken = NoToken
  Free = Free
  Required <- MCRequired
  Mode = "AND"
  RoutePolicies <- MCRoutePolicies
INVARIANTS
  DenyWins
  AllowIsEnough
  ListedIsGranted
  GrantsHaveASource
  OnlyReadersPass
PROPERTIES
  OverridesAreMonotone
  TokenStays
  RetriesGetThrough
CHECK_DEADLOCK FALSE
