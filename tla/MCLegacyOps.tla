---------------------------- MODULE MCLegacyOps ----------------------------
(***************************************************************************)
(* Model-checking instance of LegacyOps: two threads on one Database.      *)
(***************************************************************************)
EXTENDS LegacyOps, TLC

CONSTANTS c1, c2, k1

MCClients == {c1, c2}
MCKeys == {k1}
\* Every legacy Get overload pins &valueBuffer[0] of a caller's array, so a
\* buffer holds at least one byte: a record of length 2 does not fit a buffer
\* of 1 and fits one of 2.
MCLens == {2}
MCCaps == {1, 2}
\* Only the buffer the record does not fit, to keep the run with every
\* failure small.
MCCapsSmall == {1}

\* Failures every loop handles through its catch clauses.
MCFaultsHandled == {"deadlock", "error", "abortFail"}
\* Failures whose handling goes wrong: the begin after a deadlock, the
\* commit, the RMW delegate.
MCFaultsUnhandled == {"deadlock", "beginFail", "commitFail", "delegateThrows"}
MCFaultsDelegate == {"delegateThrows"}
\* Failures after an engine call has returned: a deadlock of the RMW
\* Put's write and a failed commit.
MCFaultsCodes == {"deadlock", "commitFail"}
MCFaultsNoTxn == {"deadlock", "error"}
\* Liveness: only failures that still end the transaction, so that the run
\* asks whether every lock taken is released.
MCFaultsLive == {"commitFail"}

\* Threads are interchangeable.
MCSymmetry == Permutations(MCClients)

=============================================================================
