\* A throwing RMW delegate under fair scheduling.
CONSTANTS
  Clients <- MCClients
  Keys <- MCKeys
  Lens <- MCLens
  Caps <- MCCaps
  FixedLength = FALSE
  NoRecord = NoRecord
  EmptySlot = EmptySlot
  NoOp = NoOp
  Error = Error
  Fatal = Fatal
  Nobody = Nobody
  Orphan = Orphan
  TransactionMode = "PerCall"
  EnvInitTxn = TRUE
  RetryBudgets = {2}
  Faults <- MCFaultsDelegate
  c1 = c1
  c2 = c2
  k1 = k1
SPECIFICATION FairSpec
PROPERTIES
  Termination
