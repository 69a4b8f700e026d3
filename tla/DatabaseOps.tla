---------------------------- MODULE DatabaseOps ----------------------------
(***************************************************************************)
(* The DataBuffer operations of BerkeleyDbWrapper::Database (Get,          *)
(* GetLength, Put, Delete, Exists; Database.cpp 942-1196) called by        *)
(* several threads on one Database handle.  Each call builds a             *)
(* TransactionContext (Database.h 169-213), runs the engine call through   *)
(* DeadlockLoop inside TryStd/TryMemStd, and ends in SwitchStd,            *)
(* SwitchMemStd or the Delete/Exists switch, which commit the context.     *)
(*                                                                         *)
(* The storage engine is an external collaborator.  It is modelled by its  *)
(* interface only: a committed store, exclusive per-key locks held by a    *)
(* transaction until it commits or aborts, staged writes that a commit     *)
(* applies and an abort discards, and the failures listed in Faults, which *)
(* the engine may raise on any call.  A value is abstracted to its length. *)
(***************************************************************************)
EXTENDS KVTypes

CONSTANTS
  Nobody,              \* owner of an unlocked key
  TransactionMode,     \* DatabaseConfig.TransactionMode: "None" or "PerCall"
  EnvInitTxn,          \* the Environment was opened with EnvOpenFlags::InitTxn
  MaxDeadlockRetries,  \* DatabaseConfig.MaxDeadlockRetries
  Faults               \* engine failures that may happen in this model

ASSUME TransactionMode \in {"None", "PerCall"}
ASSUME MaxDeadlockRetries \in Nat
ASSUME Faults \subseteq {"deadlock", "error", "beginFail", "abortFail", "commitFail"}
ASSUME Nobody \notin Clients

VARIABLES
  store,      \* committed slot of every key (engine)
  lockOwner,  \* client whose transaction holds the lock on a key (engine)
  pc,         \* "idle", "call" (in DeadlockLoop) or "switch" (after it)
  req,        \* the request of the call in progress
  ctx,        \* the TransactionContext: [begun, txn # NULL]
  hstate,     \* engine state of the client's current DbTxn handle
  uses,       \* commit/abort calls made on that handle
  staged,     \* write of the handle's transaction not yet committed
  retry,      \* DeadlockLoop's retry_count
  ret,        \* value DeadlockLoop/TryMemStd returned
  size,       \* *sizePtr of TryMemStd (the data Dbt size)
  resp,       \* what the last call returned or threw
  nCommit,    \* history: engine commits issued by the current call
  nAbort      \* history: engine aborts issued by the current call

vars == <<store, lockOwner, pc, req, ctx, hstate, uses, staged, retry, ret,
          size, resp, nCommit, nAbort>>



B2N(b) == IF b THEN 1 ELSE 0

-----------------------------------------------------------------------------
(* Configuration fixed when the Database is constructed.                   *)

\* m_isTxn: set by the constructor when the environment is transactional.
m_isTxn == EnvInitTxn

\* m_maxDeadlockRetries: 1 unless the environment is transactional.
RetryLimit == IF m_isTxn THEN MaxDeadlockRetries ELSE 1

\* DeadlockLoop makes at least one attempt, so retry_count ends in 0..RetryBound.
RetryBound == IF RetryLimit > 0 THEN RetryLimit ELSE 1

\* The history counters nCommit/nAbort saturate here: a call of the code
\* makes at most RetryBound + 1 of either, so a larger count is already wrong.
HistoryCap == RetryBound + 2

Count(n, k) == IF n + k > HistoryCap THEN HistoryCap ELSE n + k

\* BeginTrans returns a real DbTxn only in PerCall mode on a txn environment.
BeginTrans == TransactionMode = "PerCall" /\ m_isTxn

-----------------------------------------------------------------------------
(* TransactionContext.  Rollback and Commit return the new context and     *)
(* whether an engine abort/commit was issued (RollbackTrans/CommitTrans    *)
(* return at once for a NULL txn).                                         *)

CtxNone == [begun |-> FALSE, txn |-> FALSE]

Begin(x) == IF x.begun THEN x ELSE [begun |-> TRUE, txn |-> BeginTrans]

RollbackKeepBegun(x) ==
  IF x.begun THEN [ctx |-> x, abort |-> x.txn] ELSE [ctx |-> x, abort |-> FALSE]

Rollback(x) ==
  IF x.begun THEN [ctx |-> CtxNone, abort |-> x.txn] ELSE [ctx |-> x, abort |-> FALSE]

CommitDropped(x) ==
  IF x.begun THEN [ctx |-> CtxNone, commit |-> FALSE] ELSE [ctx |-> x, commit |-> FALSE]

Commit(x) ==
  IF x.begun THEN [ctx |-> CtxNone, commit |-> x.txn] ELSE [ctx |-> x, commit |-> FALSE]

DestructorNoop(x) == [ctx |-> x, abort |-> FALSE]

Destructor(x) == Rollback(x)

-----------------------------------------------------------------------------
(* DeadlockLoop's retry bookkeeping.                                       *)

NextRetryDropped(n) == n

NextRetry(n) == n + 1

RetriesExhaustedLate(n) == n > RetryLimit

RetriesExhausted(n) == n >= RetryLimit

-----------------------------------------------------------------------------
(* The Dbt set up for the value by each method, and what it reports.       *)

\* Size of the value Dbt before the engine call: the caller's buffer for
\* Get, -1 for GetLength, the bytes to write for Put.
DbtSize(r) ==
  CASE r.kind = "Get"       -> r.cap
    [] r.kind = "GetLength" -> -1
    [] r.kind = "Put"       -> r.len
    [] OTHER                -> 0

\* Capacity of the value Dbt (ulen): GetLength passes a USERMEM Dbt of 0.
DbtCapacity(r) == IF r.kind = "Get" THEN r.cap ELSE 0

\* The streaming Get sets DB_DBT_MALLOC on its value Dbt: the engine
\* allocates the whole record, so the read never reports BUFFER_SMALL, and
\* a miss leaves the Dbt's size at 0.
EngineAllocates(r) == r.kind = "GetStream"

MissingRet(s) == IF s = EmptySlot THEN "KEYEMPTY" ELSE "NOTFOUND"

\* One engine call (get_core/put_core/del_core/exists_core) on slot s: the
\* return value (BUFFER_SMALL stands for the DbMemoryException TryMemStd
\* turns into it), the data Dbt size afterwards, and the new slot.
EngineCall(r, s) ==
  CASE r.kind \in {"Get", "GetStream", "GetLength"} ->
         IF s \in Lens
         THEN [ret |-> IF s > DbtCapacity(r) /\ ~EngineAllocates(r)
                       THEN "BUFFER_SMALL" ELSE "SUCCESS",
               size |-> s, slot |-> s]
         ELSE [ret |-> MissingRet(s), size |-> DbtSize(r), slot |-> s]
    [] r.kind = "Put" ->
         [ret |-> "SUCCESS", size |-> r.len, slot |-> r.len]
    [] r.kind = "Delete" ->
         IF s \in Lens
         THEN [ret |-> "SUCCESS", size |-> 0,
               slot |-> IF FixedLength THEN EmptySlot ELSE NoRecord]
         ELSE [ret |-> MissingRet(s), size |-> 0, slot |-> s]
    [] r.kind = "Exists" ->
         [ret |-> IF s \in Lens THEN "SUCCESS" ELSE MissingRet(s), size |-> 0, slot |-> s]

SwitchMemStdNoReset(rt, sz) == sz

\* SwitchMemStd: the size for SUCCESS and BUFFER_SMALL, -1 for a miss.
SwitchMemStd(rt, sz) == IF rt \in {"SUCCESS", "BUFFER_SMALL"} THEN sz ELSE -1

\* The streaming Get: nullptr when SwitchMemStd answers a negative size,
\* otherwise a Stream over the size bytes the engine allocated.
StreamResult(rt, sz) == [len |-> IF SwitchMemStd(rt, sz) < 0 THEN -1 ELSE sz]

\* What each method returns once its switch has accepted ret.
Respond(r, rt, sz) ==
  CASE r.kind \in {"Get", "GetLength"} -> [len |-> SwitchMemStd(rt, sz)]
    [] r.kind = "GetStream"            -> StreamResult(rt, sz)
    [] r.kind = "Put"                  -> [len |-> sz]
    [] r.kind = "Delete"               -> [found |-> rt = "SUCCESS"]
    [] r.kind = "Exists"               -> [code |-> CASE rt = "SUCCESS"  -> "Success"
                                                      [] rt = "NOTFOUND" -> "NotFound"
                                                      [] rt = "KEYEMPTY" -> "KeyEmpty"]

-----------------------------------------------------------------------------
(* Engine-side helpers: the client's handle after `calls` commit/abort      *)
(* calls reached it in this step, and the release of its locks.            *)

SetHandle(c, fresh, calls, final) ==
  /\ hstate' = [hstate EXCEPT ![c] = IF calls > 0 THEN final
                                     ELSE IF fresh THEN "active" ELSE @]
  /\ uses' = [uses EXCEPT ![c] = (IF fresh THEN 0 ELSE @) + calls]

Released(c) == [k \in Keys |-> IF lockOwner[k] = c THEN Nobody ELSE lockOwner[k]]

\* A commit or abort ends the transaction: its locks go, its staged write is
\* dropped (a commit has applied it first).
Resolve(c, ended) ==
  /\ lockOwner' = IF ended THEN Released(c) ELSE lockOwner
  /\ staged' = IF ended THEN [staged EXCEPT ![c] = NoOp] ELSE staged

EndCall(c, r) ==
  /\ pc' = [pc EXCEPT ![c] = "idle"]
  /\ resp' = [resp EXCEPT ![c] = r]

-----------------------------------------------------------------------------
Init ==
  /\ store = [k \in Keys |-> NoRecord]
  /\ lockOwner = [k \in Keys |-> Nobody]
  /\ pc = [c \in Clients |-> "idle"]
  /\ req = [c \in Clients |-> NoOp]
  /\ ctx = [c \in Clients |-> CtxNone]
  /\ hstate = [c \in Clients |-> "none"]
  /\ uses = [c \in Clients |-> 0]
  /\ staged = [c \in Clients |-> NoOp]
  /\ retry = [c \in Clients |-> 0]
  /\ ret = [c \in Clients |-> NoOp]
  /\ size = [c \in Clients |-> 0]
  /\ resp = [c \in Clients |-> NoOp]
  /\ nCommit = [c \in Clients |-> 0]
  /\ nAbort = [c \in Clients |-> 0]

\* A thread enters Get (into a buffer or as a Stream), GetLength, Put,
\* Delete or Exists(DataBuffer ...): a fresh TransactionContext, the Dbts
\* set up, retry_count = 0.
Invoke(c) ==
  /\ pc[c] = "idle"
  /\ \E r \in Requests :
       /\ req' = [req EXCEPT ![c] = r]
       /\ size' = [size EXCEPT ![c] = DbtSize(r)]
  /\ pc' = [pc EXCEPT ![c] = "call"]
  /\ ctx' = [ctx EXCEPT ![c] = CtxNone]
  /\ retry' = [retry EXCEPT ![c] = 0]
  /\ ret' = [ret EXCEPT ![c] = NoOp]
  /\ nCommit' = [nCommit EXCEPT ![c] = 0]
  /\ nAbort' = [nAbort EXCEPT ![c] = 0]
  /\ UNCHANGED <<store, lockOwner, hstate, uses, staged, resp>>

\* One DeadlockLoop iteration whose engine call returns (or throws the
\* DbMemoryException TryMemStd catches): the loop exits with ret.
CallReturns(c) ==
  LET r == req[c]
      k == r.key
      x == Begin(ctx[c])
      e == EngineCall(r, store[k])
  IN
  /\ pc[c] = "call"
  /\ lockOwner[k] \in {Nobody, c}
  /\ ctx' = [ctx EXCEPT ![c] = x]
  /\ IF x.txn
     THEN /\ staged' = [staged EXCEPT ![c] = [key |-> k, slot |-> e.slot]]
          /\ lockOwner' = [lockOwner EXCEPT ![k] = c]
          /\ UNCHANGED store
     ELSE /\ store' = [store EXCEPT ![k] = e.slot]
          /\ UNCHANGED <<staged, lockOwner>>
  /\ SetHandle(c, x.txn /\ ~ctx[c].begun, 0, "active")
  /\ ret' = [ret EXCEPT ![c] = e.ret]
  /\ size' = [size EXCEPT ![c] = e.size]
  /\ pc' = [pc EXCEPT ![c] = "switch"]
  /\ UNCHANGED <<req, retry, resp, nCommit, nAbort>>

\* The engine call deadlocks (DbDeadlockException or DB_LOCK_DEADLOCK): the
\* context is rolled back and the call retried, or, once retry_count reaches
\* the limit, DeadlockLoop throws and the context's destructor runs.
CallDeadlock(c) ==
  LET x  == Begin(ctx[c])
      rb == Rollback(x)
      n  == NextRetry(retry[c])
      d  == Destructor(rb.ctx)
      calls == B2N(rb.abort) + (IF RetriesExhausted(n) THEN B2N(d.abort) ELSE 0)
  IN
  /\ pc[c] = "call"
  /\ "deadlock" \in Faults
  /\ retry' = [retry EXCEPT ![c] = n]
  /\ SetHandle(c, x.txn /\ ~ctx[c].begun, calls, "aborted")
  /\ nAbort' = [nAbort EXCEPT ![c] = Count(@, calls)]
  /\ IF RetriesExhausted(n)
     THEN /\ ctx' = [ctx EXCEPT ![c] = d.ctx]
          /\ EndCall(c, Fatal)
     ELSE /\ ctx' = [ctx EXCEPT ![c] = rb.ctx]
          /\ UNCHANGED <<pc, resp>>
  /\ Resolve(c, calls > 0)
  /\ UNCHANGED <<store, req, ret, size, nCommit>>

\* The engine call deadlocks and the abort in context.rollback() throws
\* before ++retry_count; begun was cleared first, so the destructor does
\* nothing more.
CallDeadlockAbortFails(c) ==
  LET x  == Begin(ctx[c])
      rb == Rollback(x)
  IN
  /\ pc[c] = "call"
  /\ {"deadlock", "abortFail"} \subseteq Faults
  /\ rb.abort
  /\ ctx' = [ctx EXCEPT ![c] = rb.ctx]
  /\ SetHandle(c, x.txn /\ ~ctx[c].begun, 1, "aborted")
  /\ nAbort' = [nAbort EXCEPT ![c] = Count(@, 1)]
  /\ EndCall(c, Error)
  /\ Resolve(c, TRUE)
  /\ UNCHANGED <<store, req, retry, ret, size, nCommit>>

\* The engine call throws another DbException: TryStd/TryMemStd rethrow it
\* as a BdbException and the context's destructor rolls back.
CallError(c) ==
  LET x == Begin(ctx[c])
      d == Destructor(x)
  IN
  /\ pc[c] = "call"
  /\ "error" \in Faults
  /\ ctx' = [ctx EXCEPT ![c] = d.ctx]
  /\ SetHandle(c, x.txn /\ ~ctx[c].begun, B2N(d.abort), "aborted")
  /\ nAbort' = [nAbort EXCEPT ![c] = Count(@, B2N(d.abort))]
  /\ EndCall(c, Error)
  /\ Resolve(c, d.abort)
  /\ UNCHANGED <<store, req, retry, ret, size, nCommit>>

\* txn_begin throws inside context.begin(): nothing was begun.
CallBeginFails(c) ==
  /\ pc[c] = "call"
  /\ "beginFail" \in Faults
  /\ ~ctx[c].begun /\ BeginTrans
  /\ EndCall(c, Error)
  /\ UNCHANGED <<store, lockOwner, req, ctx, hstate, uses, staged, retry, ret,
                 size, nCommit, nAbort>>

Call(c) ==
  \/ CallReturns(c)
  \/ CallDeadlock(c)
  \/ CallDeadlockAbortFails(c)
  \/ CallError(c)
  \/ CallBeginFails(c)

\* The method's switch accepts ret, context.commit() succeeds, the result is
\* returned and the context's destructor runs.
FinishCommit(c) ==
  LET cm == Commit(ctx[c])
      d  == Destructor(cm.ctx)
      st == staged[c]
  IN
  /\ pc[c] = "switch"
  /\ ctx' = [ctx EXCEPT ![c] = d.ctx]
  /\ SetHandle(c, FALSE, B2N(cm.commit) + B2N(d.abort),
               IF cm.commit THEN "committed" ELSE "aborted")
  /\ IF cm.commit /\ st # NoOp
     THEN store' = [store EXCEPT ![st.key] = st.slot]
     ELSE UNCHANGED store
  /\ Resolve(c, cm.commit \/ d.abort)
  /\ nCommit' = [nCommit EXCEPT ![c] = Count(@, B2N(cm.commit))]
  /\ nAbort' = [nAbort EXCEPT ![c] = Count(@, B2N(d.abort))]
  /\ EndCall(c, Respond(req[c], ret[c], size[c]))
  /\ UNCHANGED <<req, retry, ret, size>>

\* DbTxn::commit throws (the engine has ended the transaction): begun is
\* still set, so the context's destructor calls RollbackTrans on the handle.
FinishCommitFails(c) ==
  LET d == Destructor(ctx[c]) IN
  /\ pc[c] = "switch"
  /\ "commitFail" \in Faults
  /\ ctx[c].begun /\ ctx[c].txn
  /\ ctx' = [ctx EXCEPT ![c] = d.ctx]
  /\ SetHandle(c, FALSE, 1 + B2N(d.abort), "aborted")
  /\ nCommit' = [nCommit EXCEPT ![c] = Count(@, 1)]
  /\ nAbort' = [nAbort EXCEPT ![c] = Count(@, B2N(d.abort))]
  /\ Resolve(c, TRUE)
  /\ EndCall(c, Error)
  /\ UNCHANGED <<store, req, retry, ret, size>>

Finish(c) == FinishCommit(c) \/ FinishCommitFails(c)

Next == \E c \in Clients : Invoke(c) \/ Call(c) \/ Finish(c)

Spec == Init /\ [][Next]_vars

-----------------------------------------------------------------------------
(* Properties.                                                             *)

TypeOK ==
  /\ store \in [Keys -> Slots]
  /\ lockOwner \in [Keys -> Clients \cup {Nobody}]
  /\ pc \in [Clients -> {"idle", "call", "switch"}]
  /\ req \in [Clients -> Requests \cup {NoOp}]
  /\ ctx \in [Clients -> [begun : BOOLEAN, txn : BOOLEAN]]
  /\ hstate \in [Clients -> {"none", "active", "committed", "aborted"}]
  /\ uses \in [Clients -> 0..2]
  /\ staged \in [Clients -> [key : Keys, slot : Slots] \cup {NoOp}]
  /\ retry \in [Clients -> 0..RetryBound]
  /\ ret \in [Clients -> {"SUCCESS", "BUFFER_SMALL", "NOTFOUND", "KEYEMPTY", NoOp}]
  /\ size \in [Clients -> Int]
  /\ nCommit \in [Clients -> 0..HistoryCap]
  /\ nAbort \in [Clients -> 0..HistoryCap]

\* A DbTxn handle is ended by exactly one commit or abort and never used
\* after it (spec 4.3): TransactionContext.rollback/commit and its destructor
\* together never call CommitTrans/RollbackTrans twice on one handle, over
\* any sequence of deadlock retries, errors and failed aborts.
HandleResolvedAtMostOnce == \A c \in Clients : uses[c] <= 1

\* When a call has returned or thrown, its TransactionContext is not begun,
\* its transaction is resolved, and it holds no engine lock and no
\* uncommitted write: no path through DeadlockLoop, TryStd/TryMemStd and the
\* switches leaks a transaction.
NoOpenTxnWhenIdle ==
  \A c \in Clients :
    pc[c] = "idle" =>
      /\ ~ctx[c].begun
      /\ hstate[c] # "active"
      /\ staged[c] = NoOp
      /\ \A k \in Keys : lockOwner[k] # c

\* Deadlock-retry accounting (spec 8): a call that deadlocks on every one of
\* the N = m_maxDeadlockRetries attempts throws Fatal after N rollbacks and no
\* commit; a call that succeeds after M < N deadlocks made M rollbacks and
\* one commit (counted on the engine, so only when BeginTrans opens a txn).
RetryAccounting ==
  \A c \in Clients :
    /\ pc[c] = "idle" /\ resp[c] = Fatal =>
         /\ retry[c] = RetryLimit
         /\ nCommit[c] = 0
         /\ nAbort[c] = B2N(BeginTrans) * RetryLimit
    /\ pc[c] = "idle" /\ resp[c] \notin Failures \cup {NoOp} =>
         /\ retry[c] < RetryLimit
         /\ nCommit[c] = B2N(BeginTrans)
         /\ nAbort[c] = B2N(BeginTrans) * retry[c]

\* Refinement mapping: without a transaction the engine call itself is the
\* atomic step; with one, the commit in the switch is.
AbsPending(c) ==
  IF pc[c] = "idle" \/ (pc[c] = "switch" /\ ~ctx[c].txn) THEN NoOp ELSE req[c]

AbsResp(c) ==
  IF pc[c] = "switch" /\ ~ctx[c].txn THEN Respond(req[c], ret[c], size[c]) ELSE resp[c]

Abs == INSTANCE KVStore
         WITH kv <- store,
              pending <- [c \in Clients |-> AbsPending(c)],
              resp <- [c \in Clients |-> AbsResp(c)]

\* Every DataBuffer call, under any interleaving of threads, deadlocks and
\* failures, behaves as one atomic operation of the abstract store returning
\* what spec 4.4/4.5 promise (length, -1, bytes written, found, Exists code),
\* or fails leaving the committed store as it was.
Refinement == Abs!Spec

=============================================================================
