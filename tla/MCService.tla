----------------------------- MODULE MCService -----------------------------
(* Service with two requests and two generations of MeterProvider.         *)
EXTENDS Service
=============================================================================
