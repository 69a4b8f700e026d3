--------------------------- MODULE MCDatabaseOps ---------------------------
(***************************************************************************)
(* Model-checking instance of DatabaseOps: two threads on one Database.    *)
(***************************************************************************)
EXTENDS DatabaseOps, TLC

CONSTANTS c1, c2, k1, k2

MCClients == {c1, c2}
MCKeys == {k1}
MCKeys2 == {k1, k2}
MCLens == {1, 2}
MCCaps == {1}

\* Faults a transactional store can raise, except the failed commit the
\* violation run is about.
MCFaultsTxn == {"deadlock", "error", "beginFail", "abortFail"}
MCFaultsAll == MCFaultsTxn \cup {"commitFail"}
\* Faults that end a waiting thread's call without the lock (deadlock,
\* error, beginFail) are left out, so that the run asks whether every lock is
\* released.
MCFaultsLive == {"commitFail"}
MCFaultsNoTxn == {"deadlock", "error"}

\* Threads are interchangeable.
MCSymmetry == Permutations(MCClients)

=============================================================================
