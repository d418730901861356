\* Two concurrent requests; an error is propagated at most once.
CONSTANTS
  Requests = {"r1", "r2"}
  Stacks <- MCStacks
  MaxDepth = 1
SPECIFICATION FairSpec
INVARIANTS RequestInv AnswerIsOwn
PROPERTY RequestsSettle
