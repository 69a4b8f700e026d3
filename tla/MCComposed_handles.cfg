\* One DataBuffer thread whose commits may fail and one Dbt-based thread
\* that meets deadlocks, failing txn_begins and failing commits, on one key.
CONSTANTS
  OpsClients <- MCOpsClients
  LegacyClients <- MCLegacyClients
  Clients <- MCClients
  Keys <- MCKeys
  Lens <- MCLens
  Caps <- MCCaps
  FixedLength = FALSE
  NoRecord = NoRecord
  EmptySlot = EmptySlot
  NoOp = NoOp
  Error = Error
  Fatal = Fatal
  Nobody = Nobody
  Orphan = Orphan
  TransactionMode = "PerCall"
  EnvInitTxn = TRUE
  MaxDeadlockRetries = 2
  OpsFaults <- MCFaultsLive
  LegacyFaults <- MCFaultsStale
  o1 = o1
  l1 = l1
  l2 = l2
  k1 = k1
SPECIFICATION Spec
INVARIANTS
  HandleResolvedAtMostOnce
