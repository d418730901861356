----------------------------- MODULE MCHttpSend -----------------------------
(* HttpSend with a few retries and rotations.                               *)
EXTENDS HttpSend
=============================================================================
