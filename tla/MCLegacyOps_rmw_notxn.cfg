\* TransactionMode None with concurrent RMW Puts.
CONSTANTS
  Clients <- MCClients
  Keys <- MCKeys
  Lens <- MCLens
  Caps <- MCCapsSmall
  FixedLength = FALSE
  NoRecord = NoRecord
  EmptySlot = EmptySlot
  NoOp = NoOp
  Error = Error
  Fatal = Fatal
  Nobody = Nobody
  Orphan = Orphan
  TransactionMode = "None"
  EnvInitTxn = TRUE
  RetryBudgets = {0, 2}
  Faults <- MCFaultsNoTxn
  c1 = c1
  c2 = c2
  k1 = k1
SPECIFICATION Spec
SYMMETRY MCSymmetry
PROPERTIES
  Refinement
