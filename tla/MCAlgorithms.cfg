\* Bodies of up to five bytes around a limit of three; six-bit durations, so
\* that a number of seconds wraps; functions of up to two statements; constraints
\* of up to two clauses of up to three literals.
CONSTANTS
  maxDiagnosticBytes = 3
  maxMediaTypeComponentBytes = 1
  MaxBody = 5
  MaxRaw = 4
  Second = 4
  Width = 6
  Waits = {0, 1, 3, 10, 31}
  MaxRetries = 4
  Funcs <- MCFuncs
  Interfaces <- MCInterfaces
  Platform = {"linux", "windows"}
  Custom = {"integration"}
  ClauseBound = 3
SPECIFICATION Spec
INVARIANTS DiagnosticsExact WaitHonoured LintSound UnitTagExact
\* Each computation ends.
CHECK_DEADLOCK FALSE
