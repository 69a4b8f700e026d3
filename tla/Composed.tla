------------------------------ MODULE Composed ------------------------------
(***************************************************************************)
(* Both method families of one BerkeleyDbWrapper::Database used at once:   *)
(* some threads call the DataBuffer operations (DatabaseOps), others the   *)
(* Dbt-based ones (LegacyOps).  They meet only in the engine: the same     *)
(* committed store and the same key locks.  Each component keeps its own  *)
(* per-thread state; a step of one leaves the other's untouched.           *)
(***************************************************************************)
EXTENDS KVTypes

CONSTANTS
  OpsClients,          \* threads calling the DataBuffer operations
  LegacyClients,       \* threads calling the Dbt-based operations
  Nobody, Orphan, TransactionMode, EnvInitTxn, MaxDeadlockRetries,
  OpsFaults,           \* engine failures met by DataBuffer calls
  LegacyFaults         \* engine failures met by Dbt-based calls

ASSUME OpsClients \cap LegacyClients = {}
ASSUME Clients = OpsClients \cup LegacyClients

VARIABLES
  store, lockOwner,
  opc, oreq, octx, ohstate, ouses, ostaged, oretry, oret, osize, oresp,
  onCommit, onAbort,
  lpc, lreq, ltxn, lhstate, luses, lstaged, lretry, lret, lsize, lresp,
  lnCommit, lnAbort

ovars == <<opc, oreq, octx, ohstate, ouses, ostaged, oretry, oret, osize,
           oresp, onCommit, onAbort>>
lvars == <<lpc, lreq, ltxn, lhstate, luses, lstaged, lretry, lret, lsize,
           lresp, lnCommit, lnAbort>>
vars == <<store, lockOwner, ovars, lvars>>

Ops == INSTANCE DatabaseOps
         WITH Clients <- OpsClients, Faults <- OpsFaults,
              pc <- opc, req <- oreq, ctx <- octx, hstate <- ohstate,
              uses <- ouses, staged <- ostaged, retry <- oretry, ret <- oret,
              size <- osize, resp <- oresp, nCommit <- onCommit,
              nAbort <- onAbort

Legacy == INSTANCE LegacyOps
            WITH Clients <- LegacyClients, Faults <- LegacyFaults,
                 pc <- lpc, req <- lreq, txn <- ltxn, hstate <- lhstate,
                 uses <- luses, staged <- lstaged, retry <- lretry,
                 ret <- lret, size <- lsize, resp <- lresp,
                 nCommit <- lnCommit, nAbort <- lnAbort,
                 RetryBudgets <- {MaxDeadlockRetries},
                 m_maxDeadlockRetries <- MaxDeadlockRetries

Init == Ops!Init /\ Legacy!Init

\* A step of a DataBuffer call or of a Dbt-based call.
OpsStep(c) == (Ops!Call(c) \/ Ops!Finish(c)) /\ UNCHANGED lvars
LegacyStep(c) == Legacy!Step(c) /\ UNCHANGED ovars

Next ==
  \/ \E c \in OpsClients : (Ops!Invoke(c) /\ UNCHANGED lvars) \/ OpsStep(c)
  \/ \E c \in LegacyClients : (Legacy!Invoke(c) /\ UNCHANGED ovars)
                              \/ LegacyStep(c)

Spec == Init /\ [][Next]_vars

\* Each call runs on its caller's thread and blocks only inside the engine,
\* which answers every call, so every step a thread can take is taken (weak
\* fairness on Finish).  A thread blocked on a key lock sits in the engine's
\* lock queue and is granted the lock before later requesters when it is
\* released, whichever family the holder belongs to: strong fairness on the
\* steps that may wait (Call, and every step of a Dbt-based call, as in
\* LegacyOps.FairSpec), since the lock is free only intermittently.
FairSpec ==
  /\ Spec
  /\ \A c \in OpsClients : /\ SF_vars(Ops!Call(c) /\ UNCHANGED lvars)
                           /\ WF_vars(Ops!Finish(c) /\ UNCHANGED lvars)
  /\ \A c \in LegacyClients : SF_vars(LegacyStep(c))

-----------------------------------------------------------------------------
(* Properties.                                                             *)

\* The two families together still behave as one atomic store: a Dbt-based
\* call and a DataBuffer call on the same key never see each other's
\* uncommitted writes, and each returns what the store held when it took
\* effect.
Abs == INSTANCE KVStore
         WITH kv <- store,
              pending <- [c \in Clients |->
                            IF c \in OpsClients THEN Ops!AbsPending(c)
                                                ELSE Legacy!AbsPending[c]],
              resp <- [c \in Clients |->
                         IF c \in OpsClients THEN Ops!AbsResp(c)
                                             ELSE Legacy!AbsResp[c]]

Refinement == Abs!Spec

\* No DbTxn handle of either family is committed or aborted twice (spec
\* 4.3): neither TransactionContext's commit and destructor (DataBuffer
\* calls) nor the legacy loops' handlers after a failed txn_begin or commit
\* end one handle twice.
HandleResolvedAtMostOnce ==
  Ops!HandleResolvedAtMostOnce /\ Legacy!HandleResolvedAtMostOnce

\* Every call of either family returns or throws: a thread waiting for a key
\* locked by a thread of the other family gets it, because every path of
\* both families' calls ends the transaction holding the lock.
Termination ==
  /\ \A c \in OpsClients : opc[c] # "idle" ~> opc[c] = "idle"
  /\ \A c \in LegacyClients : lpc[c] # "idle" ~> lpc[c] = "idle"

=============================================================================
