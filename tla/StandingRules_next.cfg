CONSTANTS
  egress = egress
  api = api
  cdn = cdn
  local = local
  Effects = {egress}
  RestrictedEffects = {egress}
  Resources = {api, cdn, local}
  External = {api, cdn}
  Granters = {g1}
  Checkers = {c1}
  TTLs = {0, 1, 3}
  DefaultTTL = 2
  MaxTTL = 2
  MaxTime = 2
  Scopes <- MCScopes
  Requests <- MCRequests
SPECIFICATION Spec
INVARIANT GrantSeenByNextRequest
