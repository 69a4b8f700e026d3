\* The Codes of the exceptions thrown after a deadlock of the RMW write or a
\* failed commit.
CONSTANTS
  Clients <- MCClients
  Keys <- MCKeys
  Lens <- MCLens
  Caps <- MCCaps
  FixedLength = FALSE
  NoRecord = NoRecord
  EmptySlot = EmptySlot
  NoOp = NoOp
  Error = Error
  Fatal = Fatal
  Nobody = Nobody
  Orphan = Orphan
  TransactionMode = "PerCall"
  EnvInitTxn = TRUE
  RetryBudgets = {2}
  Faults <- MCFaultsCodes
  c1 = c1
  c2 = c2
  k1 = k1
SPECIFICATION Spec
SYMMETRY MCSymmetry
INVARIANTS
  FailureCarriesEngineCode
