----------------------------- MODULE Algorithms -----------------------------
(***************************************************************************)
(* Four computations of the code that share nothing, checked together:     *)
(* each behaviour gives an input to one of them and leaves the others      *)
(* idle.                                                                   *)
(***************************************************************************)
EXTENDS Diagnostics, RetryDelay, Lint, BuildTags

algorithmVars == <<diagVars, delayVars, lintVars, tagVars>>

Init ==
  \/ DiagInit /\ DelayIdle /\ LintIdle /\ TagIdle
  \/ DiagIdle /\ DelayInit /\ LintIdle /\ TagIdle
  \/ DiagIdle /\ DelayIdle /\ LintInit /\ TagIdle
  \/ DiagIdle /\ DelayIdle /\ LintIdle /\ TagInit

Next ==
  \/ DiagNext /\ UNCHANGED <<delayVars, lintVars, tagVars>>
  \/ Retry /\ UNCHANGED <<diagVars, lintVars, tagVars>>
  \/ LintNext /\ UNCHANGED <<diagVars, delayVars, tagVars>>
  \/ RunUnitTestTag /\ UNCHANGED <<diagVars, delayVars, lintVars>>

Spec == Init /\ [][Next]_algorithmVars
=============================================================================
