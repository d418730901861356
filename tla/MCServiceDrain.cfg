CONSTANTS
  Requests = {r1, r2}
  HasHook = TRUE
  Providers = {p1, p2}
  FirstProvider = p1
  NoProvider = NoProvider
  Unbound = Unbound
  Broken = Broken
SPECIFICATION ServiceSpec
INVARIANTS DrainedRequestsExported
CHECK_DEADLOCK FALSE
