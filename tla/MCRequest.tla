----------------------------- MODULE MCRequest -----------------------------
(* Two requests through the usual chain (its ContentTypeJson, which only   *)
(* sets a header, is in the next one), and through chains without a        *)
(* logger, or with the logger too late.                                    *)
EXTENDS Request

MCStacks ==
  {<<"ContextCancel", "Logging", "Tracing", "MetricsMonitor", "Cors">>,
   <<"MetricsMonitor", "ContentTypeJson">>,
   <<"ContextCancel", "PropagateTracing", "Logging">>}
=============================================================================
