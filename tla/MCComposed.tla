----------------------------- MODULE MCComposed -----------------------------
(* Model values and small sets for checking Composed with TLC.             *)
EXTENDS Composed, TLC

CONSTANTS o1, l1, l2, k1

MCOpsClients == {o1}
MCLegacyClients == {l1}
MCClients == MCOpsClients \cup MCLegacyClients
MCKeys == {k1}
\* Every legacy Get overload pins &valueBuffer[0] of a caller's array, so a
\* buffer holds at least one byte: a record of length 2 does not fit a buffer
\* of 1 and fits one of 2.
MCLens == {2}
MCCaps == {1, 2}
\* Only failures that still end the transaction, so that the run asks
\* whether every lock taken is released (see DatabaseOps and LegacyOps).
MCFaultsLive == {"commitFail"}
\* A deadlock followed by a failing txn_begin (the legacy loops' stale txn),
\* and a failing commit, which the legacy handler aborts again.
MCFaultsStale == {"deadlock", "beginFail", "commitFail"}
====
