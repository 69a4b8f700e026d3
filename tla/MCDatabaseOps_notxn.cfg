\* TransactionMode None on a transactional environment, fixed-length store.
CONSTANTS
  Clients <- MCClients
  Keys <- MCKeys
  Lens <- MCLens
  Caps <- MCCaps
  FixedLength = TRUE
  NoRecord = NoRecord
  EmptySlot = EmptySlot
  NoOp = NoOp
  Error = Error
  Fatal = Fatal
  Nobody = Nobody
  TransactionMode = "None"
  EnvInitTxn = TRUE
  MaxDeadlockRetries = 2
  Faults <- MCFaultsNoTxn
  c1 = c1
  c2 = c2
  k1 = k1
  k2 = k2
SPECIFICATION Spec
SYMMETRY MCSymmetry
INVARIANTS
  RetryAccounting
PROPERTIES
  Refinement
