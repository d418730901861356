----------------------------- MODULE Telemetry -----------------------------
(***************************************************************************)
(* HTTP metrics: observability.Init and Shutdown (the MeterProvider        *)
(* singleton), the instruments that package monitoring builds once, on     *)
(* first use, and the two points at which middleware.MetricsMonitor        *)
(* records a request.  The OpenTelemetry SDK is external: what is recorded *)
(* into a live provider is exported by its periodic reader, by ForceFlush  *)
(* or by Shutdown; what is recorded into a released provider is lost.      *)
(***************************************************************************)
CONSTANTS Requests,
          Providers,    \* the MeterProviders that Init may create
          NoProvider,   \* singleton == nil
          Unbound,      \* the instruments have not been built
          Broken        \* building them failed; the failure is cached

VARIABLES
  singleton,   \* the provider Shutdown will release
  global,      \* the provider otel.SetMeterProvider installed last
  bound,       \* the provider the instruments record into
  phase,       \* the life of each provider
  recorded,    \* measurements aggregated in a provider
  exported,    \* measurements of a provider the collector has
  stage,       \* progress of the call of Shutdown made by the hook
  target,      \* mp, the provider that call works on
  result       \* what it returned

(* IncrementActiveRequests; DecrementActiveRequests and IncrementTraffic.  *)
Measurements == Requests \X {"start", "end"}

TypeOK ==
  /\ singleton \in Providers \cup {NoProvider}
  /\ global \in Providers
  /\ bound \in Providers \cup {Unbound, Broken}
  /\ phase \in [Providers -> {"new", "live", "released"}]
  /\ recorded \in [Providers -> SUBSET Measurements]
  /\ exported \in [Providers -> SUBSET Measurements]
  /\ stage \in {"idle", "flush", "release", "returned"}
  /\ target \in Providers \cup {NoProvider}
  /\ result \in {"none", "ok", "error"}

(* main has called Init before it serves.                                  *)
Initialized(p) ==
  /\ singleton = p /\ global = p /\ bound = Unbound
  /\ phase = [q \in Providers |-> IF q = p THEN "live" ELSE "new"]
  /\ recorded = [q \in Providers |-> {}]
  /\ exported = [q \in Providers |-> {}]
  /\ stage = "idle" /\ target = NoProvider /\ result = "none"

(* observability.Init; with a singleton already set it ends the process.   *)
Init(p) ==
  /\ singleton = NoProvider /\ phase[p] = "new"
  /\ singleton' = p /\ global' = p
  /\ phase' = [phase EXCEPT ![p] = "live"]
  /\ UNCHANGED <<bound, recorded, exported, stage, target, result>>

-----------------------------------------------------------------------------

(* resolve: sync.OnceValues builds the instruments on first use, from the  *)
(* provider then installed, and keeps them or the failure for good.        *)
ResolveAlways == {global}
Resolve == IF bound = Unbound THEN {global, Broken} ELSE {bound}

(* One measurement, by MetricsMonitor.                                     *)
Record(m) ==
  /\ bound' \in Resolve
  /\ recorded' = [p \in Providers |->
                    IF p = bound' /\ phase[p] = "live" THEN recorded[p] \cup {m}
                    ELSE recorded[p]]
  /\ UNCHANGED <<singleton, global, phase, exported, stage, target, result>>

(* The periodic reader, until its provider is released.                    *)
Collect(p) ==
  /\ phase[p] = "live"
  /\ exported' = [exported EXCEPT ![p] = recorded[p]]
  /\ UNCHANGED <<singleton, global, bound, phase, recorded, stage, target, result>>

-----------------------------------------------------------------------------
(* observability.Shutdown, called once by the hook.                        *)

ShutdownCall ==
  /\ stage = "idle"
  /\ target' = singleton
  /\ singleton' = NoProvider
  /\ \/ singleton = NoProvider /\ stage' = "returned" /\ result' = "ok"
     \/ singleton # NoProvider /\ stage' = "flush" /\ UNCHANGED result
  /\ UNCHANGED <<global, bound, phase, recorded, exported>>

(* mp.ForceFlush fails, and Shutdown returns without releasing mp, or it   *)
(* exports everything recorded so far.                                     *)
FlushIgnored ==
  /\ stage = "flush"
  /\ stage' = "returned" /\ result' = "ok"
  /\ UNCHANGED <<singleton, global, bound, phase, recorded, exported, target>>
Flush ==
  /\ stage = "flush"
  /\ \/ stage' = "returned" /\ result' = "error" /\ UNCHANGED exported
     \/ /\ stage' = "release" /\ exported' = [exported EXCEPT ![target] = recorded[target]]
        /\ UNCHANGED result
  /\ UNCHANGED <<singleton, global, bound, phase, recorded, target>>

(* mp.Shutdown: a last export, which may fail, and the provider is gone.   *)
ReleaseSkipped ==
  /\ stage = "release"
  /\ stage' = "returned" /\ result' = "ok"
  /\ exported' = [exported EXCEPT ![target] = recorded[target]]
  /\ UNCHANGED <<singleton, global, bound, phase, recorded, target>>
Release ==
  /\ stage = "release"
  /\ stage' = "returned"
  /\ phase' = [phase EXCEPT ![target] = "released"]
  /\ \/ result' = "error" /\ UNCHANGED exported
     \/ result' = "ok" /\ exported' = [exported EXCEPT ![target] = recorded[target]]
  /\ UNCHANGED <<singleton, global, bound, recorded, target>>

-----------------------------------------------------------------------------
(* What one call of Shutdown holds between its steps, and what the         *)
(* instruments may be bound to.                                            *)
ShutdownState ==
  /\ stage = "idle" => target = NoProvider
  /\ stage \in {"flush", "release"} => target \in Providers
  /\ stage # "returned" => result = "none"
BoundToStarted == \A p \in Providers : p \in {global, bound} => phase[p] # "new"

-----------------------------------------------------------------------------
(* Properties *)

(* In no provider does the active_requests gauge go below zero: a request  *)
(* whose end is recorded there had its start recorded there, even when     *)
(* Shutdown and a second Init happen while it is served.                   *)
GaugeNeverNegative ==
  \A p \in Providers, r \in Requests :
    <<r, "end">> \in recorded[p] => <<r, "start">> \in recorded[p]

(* Shutdown reporting success has exported everything recorded into the    *)
(* provider it released.                                                   *)
ShutdownExportsAll ==
  result = "ok" /\ target # NoProvider =>
    phase[target] = "released" /\ recorded[target] = exported[target]

(* A provider that is still running is the singleton, or the one that      *)
(* Shutdown is working on, or Shutdown returned an error for it.           *)
LiveProviderAccounted ==
  \A p \in Providers :
    phase[p] = "live" => p = singleton \/ (p = target /\ (stage # "returned" \/ result = "error"))
=============================================================================
