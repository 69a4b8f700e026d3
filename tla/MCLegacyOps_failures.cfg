\* PerCall transactions, two attempts, the failures whose handling goes wrong.
CONSTANTS
  Clients <- MCClients
  Keys <- MCKeys
  Lens <- MCLens
  Caps <- MCCapsSmall
  FixedLength = FALSE
  NoRecord = NoRecord
  EmptySlot = EmptySlot
  NoOp = NoOp
  Error = Error
  Fatal = Fatal
  Nobody = Nobody
  Orphan = Orphan
  TransactionMode = "PerCall"
  EnvInitTxn = TRUE
  RetryBudgets = {2}
  Faults <- MCFaultsUnhandled
  c1 = c1
  c2 = c2
  k1 = k1
SPECIFICATION Spec
SYMMETRY MCSymmetry
INVARIANTS
  TypeOK
PROPERTIES
  Refinement
