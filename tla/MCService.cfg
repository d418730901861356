CONSTANTS
  Requests = {r1, r2}
  HasHook = TRUE
  Providers = {p1, p2}
  FirstProvider = p1
  NoProvider = NoProvider
  Unbound = Unbound
  Broken = Broken
SPECIFICATION FairServiceSpec
INVARIANTS
  ServiceInv CleanCloseMeansDrained
  GaugeNeverNegative ShutdownExportsAll LiveProviderAccounted
PROPERTIES CancelClosesErrCh ServeErrorReported
\* The service has ended once errCh is closed and read, or the process died.
CHECK_DEADLOCK FALSE
