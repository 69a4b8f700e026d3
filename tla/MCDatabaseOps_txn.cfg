\* PerCall transactions on a transactional environment, two retries, every
\* fault, failing commits included.
CONSTANTS
  Clients <- MCClients
  Keys <- MCKeys
  Lens <- MCLens
  Caps <- MCCaps
  FixedLength = FALSE
  NoRecord = NoRecord
  EmptySlot = EmptySlot
  NoOp = NoOp
  Error = Error
  Fatal = Fatal
  Nobody = Nobody
  TransactionMode = "PerCall"
  EnvInitTxn = TRUE
  MaxDeadlockRetries = 2
  Faults <- MCFaultsAll
  c1 = c1
  c2 = c2
  k1 = k1
  k2 = k2
SPECIFICATION Spec
SYMMETRY MCSymmetry
INVARIANTS
  TypeOK
  NoOpenTxnWhenIdle
  RetryAccounting
PROPERTIES
  Refinement
