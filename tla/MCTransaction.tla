--------------------------- MODULE MCTransaction ---------------------------
(* Transaction on a few rows and a shallow stack.                           *)
EXTENDS Transaction
============================================================================
