\* One DataBuffer thread and one Dbt-based thread on one key, PerCall
\* transactions, fair threads, failed commits.
CONSTANTS
  OpsClients <- MCOpsClients
  LegacyClients <- MCLegacyClients
  Clients <- MCClients
  Keys <- MCKeys
  Lens <- MCLens
  Caps <- MCCaps
  FixedLength = FALSE
  NoRecord = NoRecord
  EmptySlot = EmptySlot
  NoOp = NoOp
  Error = Error
  Fatal = Fatal
  Nobody = Nobody
  Orphan = Orphan
  TransactionMode = "PerCall"
  EnvInitTxn = TRUE
  MaxDeadlockRetries = 2
  OpsFaults <- MCFaultsLive
  LegacyFaults <- MCFaultsLive
  o1 = o1
  l1 = l1
  l2 = l2
  k1 = k1
SPECIFICATION FairSpec
PROPERTIES
  Termination
  Refinement
