------------------------------ MODULE Service ------------------------------
(***************************************************************************)
(* The program of the README's quick start: observability.Init, a          *)
(* rest.Server whose onShutdown hook calls observability.Shutdown, routes  *)
(* behind middleware.MetricsMonitor, Listen, and main reading errc.        *)
(***************************************************************************)
EXTENDS RestServer

CONSTANTS Providers, FirstProvider, NoProvider, Unbound, Broken

ASSUME ServiceAssumption ==
  /\ HasHook /\ FirstProvider \in Providers
  /\ {NoProvider, Unbound, Broken} \cap Providers = {} /\ Unbound # Broken

VARIABLES singleton, global, bound, phase, recorded, exported, stage, target, result

T == INSTANCE Telemetry
tvars == <<singleton, global, bound, phase, recorded, exported, stage, target, result>>

ServiceInit == Init /\ T!Initialized(FirstProvider)

(* MetricsMonitor around a handler: a measurement before it, and one in    *)
(* the deferred function, which runs even if the handler panics.           *)
HandlerStart(r) == Accept(r) /\ T!Record(<<r, "start">>)
HandlerEnd(r) == Finish(r) /\ T!Record(<<r, "end">>)

(* The hook runs observability.Shutdown to its end and returns.            *)
HookStep ==
  /\ ~crashed /\ outer = "hook"
  /\ T!ShutdownCall \/ T!Flush \/ T!Release
  /\ UNCHANGED vars
HookEnd == stage = "returned" /\ HookReturn /\ UNCHANGED tvars

(* The reader's timer; Init called again after Shutdown.                   *)
Background ==
  /\ ~crashed
  /\ \E p \in Providers : T!Collect(p) \/ (stage = "returned" /\ T!Init(p))
  /\ UNCHANGED vars

(* A step of the server or of its application that records nothing.        *)
Does(A) == A /\ UNCHANGED tvars

ServiceNext ==
  \/ Does(ServeStart) \/ Does(BindOk) \/ Does(BindFail) \/ Does(AcceptFail)
  \/ Does(ServeClosed) \/ Does(ReportServe)
  \/ Does(CtxDone) \/ Does(ShutdownBegin) \/ Does(ShutdownReturn)
  \/ Does(ReportShutdown) \/ Does(CloseErrCh)
  \/ Does(Expire) \/ Does(Cancel) \/ Does(Receive)
  \/ HookStep \/ HookEnd \/ Background
  \/ \E r \in Requests : HandlerStart(r) \/ HandlerEnd(r)

ServiceSpec == ServiceInit /\ [][ServiceNext]_<<vars, tvars>>

(* Goroutines run, timers fire, the hook's two calls return (they take     *)
(* shutdownCtx) and main is blocked on errc.  No handler is assumed to     *)
(* end, no client to connect, nobody to cancel.                            *)
ServiceFairness ==
  /\ WF_<<vars, tvars>>(Does(ServeStart)) /\ WF_<<vars, tvars>>(Does(BindOk \/ BindFail))
  /\ WF_<<vars, tvars>>(Does(ServeClosed)) /\ WF_<<vars, tvars>>(Does(ReportServe))
  /\ WF_<<vars, tvars>>(Does(OuterShutdown)) /\ WF_<<vars, tvars>>(Does(Expire))
  /\ WF_<<vars, tvars>>(HookStep) /\ WF_<<vars, tvars>>(HookEnd)
  /\ WF_<<vars, tvars>>(Does(Receive))

FairServiceSpec == ServiceSpec /\ ServiceFairness

-----------------------------------------------------------------------------
(* Properties *)

(* A request that was accepted has found the instruments built, and its    *)
(* start is recorded where its end will be, if anything still is.          *)
StartsRecorded ==
  \A r \in Requests :
    request[r] # "new" =>
      /\ bound # Unbound
      /\ bound \in Providers /\ phase[bound] = "live" => <<r, "start">> \in recorded[bound]

(* Both components keep their types and their invariants: the server's     *)
(* shutdown and the call of observability.Shutdown each know how far they  *)
(* are, and the instruments of a live provider know every request they     *)
(* will see end (rest Listen, observability Shutdown, monitoring resolve). *)
ServiceInv ==
  /\ ServerInv /\ T!TypeOK
  /\ T!ShutdownState /\ T!BoundToStarted /\ StartsRecorded
  /\ T!GaugeNeverNegative /\ T!ShutdownExportsAll /\ T!LiveProviderAccounted

(* The properties of Telemetry, with measurements made by the handlers and *)
(* Shutdown called by the hook: active_requests stays balanced ...         *)
GaugeNeverNegative == T!GaugeNeverNegative
(* ... a Shutdown that succeeded has exported what was recorded ...        *)
ShutdownExportsAll == T!ShutdownExportsAll
(* ... and no provider is left running that nobody knows of.               *)
LiveProviderAccounted == T!LiveProviderAccounted

(* observability.Shutdown's comment: "Call it during graceful shutdown so  *)
(* the last interval of metrics is exported; it pairs well with            *)
(* rest.WithOnShutdown."  So after a clean shutdown of both, every request *)
(* that was served has been exported.                                      *)
DrainedRequestsExported ==
  closed /\ sent = {} /\ result = "ok" /\ bound # Broken =>
    \A r \in Requests : request[r] = "done" => <<r, "end">> \in exported[FirstProvider]
=============================================================================
