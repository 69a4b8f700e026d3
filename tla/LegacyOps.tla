----------------------------- MODULE LegacyOps -----------------------------
(***************************************************************************)
(* The older Dbt-based methods of BerkeleyDbWrapper::Database, called by   *)
(* several threads on one handle: the Put of two Dbts (Database.cpp       *)
(* 271-359), the read-modify-write Put with a delegate (366-525), the Get  *)
(* of two Dbts (841-940), the Delete of a Dbt (1397-1481) and Truncate     *)
(* (1952-2033).  Each runs its own loop                                    *)
(* "while (retry_count < m_maxDeadlockRetries)" around                     *)
(* txn = BeginTrans(); engine call; CommitTrans(txn), with catch clauses   *)
(* for DbDeadlockException and DbException that call RollbackTrans(txn).   *)
(* The overloads taking String, int, byte[] and DatabaseEntry keys build   *)
(* the Dbts and call these.                                                *)
(*                                                                         *)
(* The engine is modelled as in DatabaseOps: committed store, exclusive    *)
(* per-key locks held by a transaction until it ends, staged writes.  A    *)
(* lock whose transaction can no longer be ended is owned by Orphan.       *)
(***************************************************************************)
EXTENDS KVTypes

CONSTANTS
  Nobody,              \* owner of an unlocked key
  Orphan,              \* owner of a lock held by a leaked transaction
  TransactionMode,     \* DatabaseConfig.TransactionMode: "None" or "PerCall"
  EnvInitTxn,          \* the Environment was opened with EnvOpenFlags::InitTxn
  RetryBudgets,        \* values DatabaseConfig.MaxDeadlockRetries may have
                       \* (not validated)
  Faults               \* engine and delegate failures that may happen

ASSUME TransactionMode \in {"None", "PerCall"}
ASSUME RetryBudgets \subseteq Int
ASSUME Faults \subseteq {"deadlock", "error", "beginFail", "abortFail",
                         "commitFail", "delegateThrows"}
ASSUME {Nobody, Orphan} \cap Clients = {}

VARIABLES
  store,      \* committed slot of every key (engine)
  lockOwner,  \* client whose transaction holds the lock on a key (engine)
  pc,         \* "idle", "loop" (loop test), "call", "write" (RMW), "commit"
  req,        \* the request of the call in progress
  txn,        \* txn != NULL: the local txn variable points to a handle
  hstate,     \* engine state of the handle txn points to
  uses,       \* commit/abort calls made on that handle
  staged,     \* writes of the thread's transaction not yet committed
  retry,      \* retry_count
  ret,        \* ret
  size,       \* dbtValue size (Get) or the truncated count (Truncate)
  resp,       \* what the last call returned or threw
  nCommit,    \* history: engine commits issued by the current call
  nAbort,     \* history: engine aborts issued by the current call
  m_maxDeadlockRetries  \* the Database's budget, set by its constructor

vars == <<store, lockOwner, pc, req, txn, hstate, uses, staged, retry, ret,
          size, resp, nCommit, nAbort, m_maxDeadlockRetries>>

B2N(b) == IF b THEN 1 ELSE 0

-----------------------------------------------------------------------------
(* Configuration fixed when the Database is constructed.                   *)

m_isTxn == EnvInitTxn

\* The constructor initialises m_maxDeadlockRetries to 1 and copies the
\* configured value only on a transactional environment.
RetryLimit == IF m_isTxn THEN m_maxDeadlockRetries ELSE 1

HistoryCap == IF RetryLimit > 0 THEN RetryLimit + 2 ELSE 2

Count(n, k) == IF n + k > HistoryCap THEN HistoryCap ELSE n + k

BeginTrans == TransactionMode = "PerCall" /\ m_isTxn

-----------------------------------------------------------------------------
(* The loop and its handlers.                                              *)

\* while (retry_count < m_maxDeadlockRetries)
LoopGuard(n) == n < RetryLimit

NextRetryDropped(n) == n

\* retry_count++
NextRetry(n) == n + 1

RetriesExhaustedLate(n) == n > RetryLimit

\* if (retry_count >= m_maxDeadlockRetries) throw
RetriesExhausted(n) == n >= RetryLimit

BeginCalledLazily(c) == ~txn[c]

\* txn = BeginTrans() runs at the top of every iteration.
BeginCalled(c) == TRUE

AbortIssuedNever(c) == FALSE

\* RollbackTrans aborts unless txn is NULL.
AbortIssued(c) == txn[c]

-----------------------------------------------------------------------------
(* Engine view and results.                                                *)

\* Keys the engine call of r locks: Truncate locks the whole database.
LockKeys(r) == IF r.kind = "Truncate" THEN Keys ELSE {r.key}

Free(c, ks) == \A k \in ks : lockOwner[k] \in {Nobody, c}

\* The store as the thread's transaction sees it.
View(c) == [k \in Keys |-> IF staged[c][k] # NoOp THEN staged[c][k] ELSE store[k]]

MissingRet(s) == IF s = EmptySlot THEN "KEYEMPTY" ELSE "NOTFOUND"

RetOf(s) == IF s \in Lens THEN "SUCCESS" ELSE MissingRet(s)

\* The value Dbt is the caller's buffer (DB_DBT_USERMEM), which the record
\* may not fit; Get(String) sets DB_DBT_MALLOC and the engine allocates it.
UserMem(r) == r.kind = "Get"

\* The size of dbtValue before the loop: Dbt(pBuffer, len) for Get.
InitSize(r) == IF r.kind = "Get" THEN r.cap ELSE 0

\* Get(String)'s switch: the string of the record on SUCCESS, nullptr on
\* NOTFOUND and KEYEMPTY.
StringOutcome(rt, sz) == [len |-> IF rt = "SUCCESS" THEN sz ELSE -1]

OutcomeNoMiss(r, rt, sz) ==
  CASE r.kind \in {"Get", "GetString"} -> [len |-> sz]
    [] r.kind = "Put"      -> [len |-> r.len]
    [] r.kind = "Delete"   -> [found |-> rt = "SUCCESS"]
    [] r.kind = "RMW"      -> [done |-> TRUE]
    [] r.kind = "Truncate" -> [count |-> sz]

\* What the caller learns once the method returns normally with ret/size:
\* Get's DbRetVal and record length (the DatabaseEntry overloads set Length
\* only on SUCCESS), Delete's DbRetVal, Truncate's count; Put and RMW Put
\* return void.
Outcome(r, rt, sz) ==
  CASE r.kind = "Get"      -> [len |-> IF rt = "SUCCESS" THEN sz ELSE -1]
    [] r.kind = "GetString" -> StringOutcome(rt, sz)
    [] r.kind = "Put"      -> [len |-> r.len]
    [] r.kind = "Delete"   -> [found |-> rt = "SUCCESS"]
    [] r.kind = "RMW"      -> [done |-> TRUE]
    [] r.kind = "Truncate" -> [count |-> sz]

\* The switch after the loop: RMW Put throws unless ret is SUCCESS.
Returned(r, rt, sz) == IF r.kind = "RMW" /\ rt # "SUCCESS" THEN Error ELSE Outcome(r, rt, sz)

\* The methods when the loop test fails before any attempt: ret is still 0
\* (SUCCESS), so Put, RMW Put and Delete return as if they had written,
\* Get(Dbt) reaches the return the code calls unreachable with dbtValue's
\* initial size, Truncate returns count 0, and Get(String) returns nullptr.
NoAttempt(r) ==
  IF r.kind = "GetString" THEN [len |-> -1] ELSE Returned(r, "SUCCESS", InitSize(r))

-----------------------------------------------------------------------------
(* Engine effects of CommitTrans/RollbackTrans on the handle txn points to. *)

ReleasedKeep(c) == lockOwner

\* The engine frees every lock of the ended transaction.
Released(c) == [k \in Keys |-> IF lockOwner[k] = c THEN Nobody ELSE lockOwner[k]]

NoStage == [k \in Keys |-> NoOp]

\* RollbackTrans(txn): an abort call reaches the handle when txn != NULL;
\* the transaction ends (locks released, writes dropped) if it was active.
RollbackTrans(c) ==
  LET issued == AbortIssued(c)
      live   == issued /\ hstate[c] = "active"
  IN
  /\ uses' = [uses EXCEPT ![c] = @ + B2N(issued)]
  /\ hstate' = [hstate EXCEPT ![c] = IF live THEN "aborted" ELSE @]
  /\ nAbort' = [nAbort EXCEPT ![c] = Count(@, B2N(issued))]
  /\ lockOwner' = IF live THEN Released(c) ELSE lockOwner
  /\ staged' = IF live THEN [staged EXCEPT ![c] = NoStage] ELSE staged

EndCall(c, r) ==
  /\ pc' = [pc EXCEPT ![c] = "idle"]
  /\ resp' = [resp EXCEPT ![c] = r]

-----------------------------------------------------------------------------
Init ==
  /\ store = [k \in Keys |-> NoRecord]
  /\ lockOwner = [k \in Keys |-> Nobody]
  /\ pc = [c \in Clients |-> "idle"]
  /\ req = [c \in Clients |-> NoOp]
  /\ txn = [c \in Clients |-> FALSE]
  /\ hstate = [c \in Clients |-> "none"]
  /\ uses = [c \in Clients |-> 0]
  /\ staged = [c \in Clients |-> NoStage]
  /\ retry = [c \in Clients |-> 0]
  /\ ret = [c \in Clients |-> "SUCCESS"]
  /\ size = [c \in Clients |-> 0]
  /\ resp = [c \in Clients |-> NoOp]
  /\ nCommit = [c \in Clients |-> 0]
  /\ nAbort = [c \in Clients |-> 0]
  /\ m_maxDeadlockRetries \in RetryBudgets

\* A thread enters one of the methods: txn = NULL, retry_count = 0, ret = 0,
\* and the first loop test; when it fails the method returns at once.
Invoke(c) ==
  /\ pc[c] = "idle"
  /\ \E r \in LegacyRequests :
       /\ req' = [req EXCEPT ![c] = r]
       /\ size' = [size EXCEPT ![c] = InitSize(r)]
       /\ IF LoopGuard(0)
            THEN /\ pc' = [pc EXCEPT ![c] = "loop"]
                 /\ UNCHANGED resp
            ELSE EndCall(c, NoAttempt(r))
  /\ txn' = [txn EXCEPT ![c] = FALSE]
  /\ hstate' = [hstate EXCEPT ![c] = "none"]
  /\ uses' = [uses EXCEPT ![c] = 0]
  /\ retry' = [retry EXCEPT ![c] = 0]
  /\ ret' = [ret EXCEPT ![c] = "SUCCESS"]
  /\ nCommit' = [nCommit EXCEPT ![c] = 0]
  /\ nAbort' = [nAbort EXCEPT ![c] = 0]
  /\ UNCHANGED <<store, lockOwner, staged>>

\* txn = BeginTrans() succeeds.
BeginOk(c) ==
  /\ pc[c] = "loop"
  /\ LoopGuard(retry[c])
  /\ txn' = [txn EXCEPT ![c] = IF BeginCalled(c) THEN BeginTrans ELSE @]
  /\ hstate' = [hstate EXCEPT ![c] = IF ~BeginCalled(c) THEN @
                                     ELSE IF BeginTrans THEN "active" ELSE "none"]
  /\ uses' = [uses EXCEPT ![c] = IF BeginCalled(c) THEN 0 ELSE @]
  /\ pc' = [pc EXCEPT ![c] = "call"]
  /\ UNCHANGED <<store, lockOwner, req, staged, retry, ret, size, resp,
                 nCommit, nAbort>>

\* txn_begin throws a DbException: txn keeps its value from the previous
\* iteration and the DbException handler calls RollbackTrans(txn) on it.
BeginFails(c) ==
  /\ pc[c] = "loop"
  /\ LoopGuard(retry[c])
  /\ "beginFail" \in Faults
  /\ BeginTrans /\ BeginCalled(c)
  /\ RollbackTrans(c)
  /\ EndCall(c, Error)
  /\ UNCHANGED <<store, req, txn, retry, ret, size, nCommit>>

\* The engine call (put, get, del, truncate, or RMW's get with DB_RMW)
\* returns.  Inside a transaction it locks and stages; with txn NULL the
\* engine applies it at once.
CallOk(c) ==
  LET r  == req[c]
      v  == View(c)
      s  == IF r.kind = "Truncate" THEN NoRecord ELSE v[r.key]
      nv == IF r.kind = "RMW" THEN v ELSE StoreEffect(r, v)
  IN
  /\ pc[c] = "call"
  /\ Free(c, LockKeys(r))
  /\ ~(UserMem(r) /\ s \in Lens /\ s > r.cap)
  /\ IF txn[c]
     THEN /\ staged' = [staged EXCEPT ![c] =
                          [k \in Keys |-> IF k \in LockKeys(r) THEN nv[k] ELSE @[k]]]
          /\ lockOwner' = [k \in Keys |-> IF k \in LockKeys(r) THEN c ELSE lockOwner[k]]
          /\ UNCHANGED store
     ELSE /\ store' = nv
          /\ UNCHANGED <<staged, lockOwner>>
  /\ ret' = [ret EXCEPT ![c] = IF r.kind \in {"Put", "Truncate"} THEN "SUCCESS" ELSE RetOf(s)]
  /\ size' = [size EXCEPT ![c] =
                CASE r.kind \in {"Get", "GetString"} /\ s \in Lens -> s
                  [] r.kind = "Truncate"          -> Cardinality({k \in Keys : v[k] \in Lens})
                  [] OTHER                        -> @]
  /\ pc' = [pc EXCEPT ![c] = IF r.kind = "RMW" THEN "write" ELSE "commit"]
  /\ UNCHANGED <<req, txn, hstate, uses, retry, resp, nCommit, nAbort>>

\* Get into a USERMEM buffer shorter than the record: DbMemoryException, a
\* DbException with errno DB_BUFFER_SMALL, so RollbackTrans(txn) and then
\* BufferSmallException carrying the record length (or the abort throws).
CallBufferSmall(c) ==
  LET r == req[c]
      s == View(c)[r.key]
  IN
  /\ pc[c] = "call"
  /\ UserMem(r) /\ s \in Lens /\ s > r.cap
  /\ Free(c, {r.key})
  /\ RollbackTrans(c)
  /\ \E out \in {[len |-> s]} \cup
                (IF "abortFail" \in Faults /\ AbortIssued(c) THEN {Error} ELSE {}) :
       EndCall(c, out)
  /\ UNCHANGED <<store, req, txn, retry, ret, size, nCommit>>

\* DbDeadlockException: RollbackTrans(txn), retry_count++, and a throw once
\* the limit is reached.
Deadlock(c) ==
  LET n == NextRetry(retry[c]) IN
  /\ pc[c] \in {"call", "write"}
  /\ "deadlock" \in Faults
  /\ RollbackTrans(c)
  /\ retry' = [retry EXCEPT ![c] = n]
  /\ IF RetriesExhausted(n)
     THEN EndCall(c, Fatal)
     ELSE /\ pc' = [pc EXCEPT ![c] = "loop"]
          /\ UNCHANGED resp
  /\ UNCHANGED <<store, req, txn, ret, size, nCommit>>

\* DbDeadlockException and the abort in its handler throws.
DeadlockAbortFails(c) ==
  /\ pc[c] \in {"call", "write"}
  /\ {"deadlock", "abortFail"} \subseteq Faults
  /\ AbortIssued(c)
  /\ RollbackTrans(c)
  /\ EndCall(c, Error)
  /\ UNCHANGED <<store, req, txn, retry, ret, size, nCommit>>

\* Another DbException: RollbackTrans(txn) and rethrow.
DbError(c) ==
  /\ pc[c] \in {"call", "write"}
  /\ "error" \in Faults
  /\ RollbackTrans(c)
  /\ EndCall(c, Error)
  /\ UNCHANGED <<store, req, txn, retry, ret, size, nCommit>>

\* RMW Put, after its get: the delegate computes the new value from the
\* record read (Length 0 when there was none), then put when it is not empty,
\* del when it is empty and a record was read, and ret = 0 otherwise.
RmwWrite(c) ==
  LET r     == req[c]
      k     == r.key
      v     == View(c)[k]
      found == ret[c] = "SUCCESS"
      len   == IF found THEN r.onFound ELSE r.onMissing
      nv    == IF len > 0 THEN len ELSE IF found /\ v \in Lens THEN Deleted ELSE v
      rt    == IF len = 0 /\ found THEN RetOf(v) ELSE "SUCCESS"
  IN
  /\ pc[c] = "write"
  /\ Free(c, {k})
  /\ IF txn[c]
     THEN /\ staged' = [staged EXCEPT ![c][k] = nv]
          /\ lockOwner' = [lockOwner EXCEPT ![k] = c]
          /\ UNCHANGED store
     ELSE /\ store' = [store EXCEPT ![k] = nv]
          /\ UNCHANGED <<staged, lockOwner>>
  /\ ret' = [ret EXCEPT ![c] = rt]
  /\ pc' = [pc EXCEPT ![c] = "commit"]
  /\ UNCHANGED <<req, txn, hstate, uses, retry, size, resp, nCommit, nAbort>>

\* The managed delegate throws: neither catch clause (both catch DbException
\* types) runs, so txn is neither committed nor aborted and its locks stay.
RmwDelegateThrows(c) ==
  /\ pc[c] = "write"
  /\ "delegateThrows" \in Faults
  /\ lockOwner' = [k \in Keys |-> IF lockOwner[k] = c THEN Orphan ELSE lockOwner[k]]
  /\ staged' = [staged EXCEPT ![c] = NoStage]
  /\ EndCall(c, Error)
  /\ UNCHANGED <<store, req, txn, hstate, uses, retry, ret, size, nCommit, nAbort>>

\* CommitTrans(txn) commits unless txn is NULL; the loop ends and the switch
\* after it returns.
CommitOk(c) ==
  /\ pc[c] = "commit"
  /\ IF txn[c]
     THEN /\ store' = View(c)
          /\ lockOwner' = Released(c)
          /\ staged' = [staged EXCEPT ![c] = NoStage]
          /\ hstate' = [hstate EXCEPT ![c] = "committed"]
          /\ uses' = [uses EXCEPT ![c] = @ + 1]
          /\ nCommit' = [nCommit EXCEPT ![c] = Count(@, 1)]
     ELSE UNCHANGED <<store, lockOwner, staged, hstate, uses, nCommit>>
  /\ EndCall(c, Returned(req[c], ret[c], size[c]))
  /\ UNCHANGED <<req, txn, retry, ret, size, nAbort>>

\* txn->commit throws: the engine has ended the transaction all the same,
\* and the DbException handler then calls RollbackTrans on the ended handle.
CommitFails(c) ==
  /\ pc[c] = "commit"
  /\ "commitFail" \in Faults
  /\ txn[c]
  /\ lockOwner' = Released(c)
  /\ staged' = [staged EXCEPT ![c] = NoStage]
  /\ hstate' = [hstate EXCEPT ![c] = "aborted"]
  /\ uses' = [uses EXCEPT ![c] = @ + 1 + B2N(AbortIssued(c))]
  /\ nCommit' = [nCommit EXCEPT ![c] = Count(@, 1)]
  /\ nAbort' = [nAbort EXCEPT ![c] = Count(@, B2N(AbortIssued(c)))]
  /\ EndCall(c, Error)
  /\ UNCHANGED <<store, req, txn, retry, ret, size>>

\* Every step of thread c inside a method.
Step(c) ==
  \/ BeginOk(c) \/ BeginFails(c)
  \/ CallOk(c) \/ CallBufferSmall(c) \/ Deadlock(c) \/ DeadlockAbortFails(c)
  \/ DbError(c) \/ RmwWrite(c) \/ RmwDelegateThrows(c)
  \/ CommitOk(c) \/ CommitFails(c)

\* The budget is fixed once the Database is constructed.
Next == (\E c \in Clients : Invoke(c) \/ Step(c)) /\ UNCHANGED m_maxDeadlockRetries

Spec == Init /\ [][Next]_vars

\* A thread inside a method is scheduled again; one waiting for a lock gets
\* it when the lock is released often enough (FIFO lock queue of the engine).
FairSpec == Spec /\ \A c \in Clients : SF_vars(Step(c) /\ UNCHANGED m_maxDeadlockRetries)

-----------------------------------------------------------------------------
(* Properties.                                                             *)

TypeOK ==
  /\ store \in [Keys -> Slots]
  /\ lockOwner \in [Keys -> Clients \cup {Nobody, Orphan}]
  /\ pc \in [Clients -> {"idle", "loop", "call", "write", "commit"}]
  /\ req \in [Clients -> LegacyRequests \cup {NoOp}]
  /\ txn \in [Clients -> BOOLEAN]
  /\ hstate \in [Clients -> {"none", "active", "committed", "aborted"}]
  /\ uses \in [Clients -> 0..2]
  /\ staged \in [Clients -> [Keys -> Slots \cup {NoOp}]]
  /\ retry \in [Clients -> 0..RetryLimit]
  /\ m_maxDeadlockRetries \in RetryBudgets
  /\ ret \in [Clients -> {"SUCCESS", "NOTFOUND", "KEYEMPTY"}]
  /\ nCommit \in [Clients -> 0..HistoryCap]
  /\ nAbort \in [Clients -> 0..HistoryCap]

\* The loops never call commit or abort twice on one DbTxn (the engine frees
\* the handle on the first): neither the stale txn aborted when BeginTrans
\* throws nor the handle aborted after a failed commit.
HandleResolvedAtMostOnce == \A c \in Clients : uses[c] <= 1

\* When a legacy method has returned or thrown, the transaction it began has
\* ended: no lock of the engine is left to it or to a leaked handle.
NoOpenTxnWhenIdle ==
  \A c \in Clients : pc[c] = "idle" =>
    /\ hstate[c] # "active"
    /\ staged[c] = NoStage
    /\ \A k \in Keys : lockOwner[k] \notin {c, Orphan}

\* A Get answered with BufferSmallException.
BufferSmallAnswer(c) ==
  req[c].kind = "Get" /\ "len" \in DOMAIN resp[c] /\ resp[c].len > req[c].cap

\* Retries are spent as configured: a method that gave up after deadlocks
\* ran exactly m_maxDeadlockRetries attempts, aborting each and committing
\* none; one that returned normally committed exactly once (when it had a
\* transaction) after aborting every earlier attempt.
RetryAccounting ==
  \A c \in Clients : pc[c] = "idle" /\ req[c] # NoOp =>
    /\ resp[c] = Fatal =>
         /\ retry[c] = RetryLimit
         /\ nCommit[c] = 0
         /\ nAbort[c] = B2N(BeginTrans) * RetryLimit
    /\ resp[c] \notin Failures /\ ~BufferSmallAnswer(c) =>
         /\ nCommit[c] = B2N(BeginTrans)
         /\ nAbort[c] = B2N(BeginTrans) * retry[c]
         /\ retry[c] < RetryLimit

\* Refinement: a call takes effect at CommitTrans (with a transaction), at
\* the engine call (without one), and a BufferSmallException answer at the
\* failed get.
AbsPending ==
  [c \in Clients |-> IF pc[c] = "idle" \/ (pc[c] = "commit" /\ ~txn[c])
                     THEN NoOp ELSE req[c]]

AbsResp ==
  [c \in Clients |-> IF pc[c] = "commit" /\ ~txn[c]
                     THEN Returned(req[c], ret[c], size[c]) ELSE resp[c]]

Abs == INSTANCE KVStore WITH kv <- store, pending <- AbsPending, resp <- AbsResp

\* Every behaviour of the legacy methods is one of the abstract store:
\* calls are atomic, reads see the committed store, failures change nothing.
Refinement == Abs!Spec

\* SetCode (BdbException.cpp): a nonzero return code passed to the
\* constructor wins; only a return code of 0 lets the DbException's errno
\* through.
SetCode(rc, errno) == IF rc # "SUCCESS" THEN rc ELSE errno

\* The Code of the BdbException a method threw.  Every handler passes the
\* local ret, which still holds what the method's last engine call returned
\* (ret is assigned only when the call returns, and is not cleared between
\* iterations).
ThrownCode(c) == SetCode(ret[c], IF resp[c] = Fatal THEN "LOCK_DEADLOCK" ELSE "ERROR")

\* A failure carries the engine code that caused it (spec 4.2, 7): a
\* legacy method that gave up after deadlocks throws a BdbException whose
\* Code is LOCK_DEADLOCK, and any other BdbException it throws has an error
\* Code, never the read status NOTFOUND or KEYEMPTY of an earlier engine
\* call.  (An exception of the RMW delegate is not a BdbException.)
FailureCarriesEngineCode ==
  \A c \in Clients : pc[c] = "idle" =>
    /\ resp[c] = Fatal => ThrownCode(c) = "LOCK_DEADLOCK"
    /\ resp[c] = Error => ThrownCode(c) \notin {"NOTFOUND", "KEYEMPTY"}

\* Every call returns or throws.
Termination == \A c \in Clients : pc[c] # "idle" ~> pc[c] = "idle"

=============================================================================
