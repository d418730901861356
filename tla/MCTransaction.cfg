CONSTANTS
  Keys = {k1, k2, k3}
  MaxDepth = 3
SPECIFICATION FairSpec
INVARIANTS TxInv AtomicOutcome NothingDurableEarly
PROPERTIES CancelEndsTx ImplementsUnitOfWork
