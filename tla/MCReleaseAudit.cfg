\* Versions published at 0 or 2, a cooldown of one, exceptions that expire at
\* 1 or 2: with the clock at 1, 2 or 3 each falls on either side of each test.
CONSTANTS
  Modules = {"m1", "m2"}
  Versions = {"v1", "v2"}
  AnyVersion = AnyVersion
  NoDate = NoDate
  BadDate = BadDate
  Missing = Missing
  GoSums <- MCGoSums
  Allowlists <- MCAllowlists
  PublishTimes = {0, 2}
  MinAge = 1
  Concurrency = {0, 2}
  StartTime = 1
  MaxTime = 3
SPECIFICATION FairSpec
INVARIANTS AuditInv AuditVerdict WarningsMatchExceptions
PROPERTY AuditEnds
