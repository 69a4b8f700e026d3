\* PerCall transactions, two attempts, the failures the catch clauses handle.
CONSTANTS
  Clients <- MCClients
  Keys <- MCKeys
  Lens <- MCLens
  Caps <- MCCaps
  FixedLength = FALSE
  NoRecord = NoRecord
  EmptySlot = EmptySlot
  NoOp = NoOp
  Error = Error
  Fatal = Fatal
  Nobody = Nobody
  Orphan = Orphan
  TransactionMode = "PerCall"
  EnvInitTxn = TRUE
  RetryBudgets = {2}
  Faults <- MCFaultsHandled
  c1 = c1
  c2 = c2
  k1 = k1
SPECIFICATION Spec
SYMMETRY MCSymmetry
INVARIANTS
  HandleResolvedAtMostOnce
  NoOpenTxnWhenIdle
  RetryAccounting
PROPERTIES
  Refinement
