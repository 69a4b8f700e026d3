# TLA+ models of the BerkeleyDb wrapper

The models cover the C++/CLI wrapper in
`src/Infrastructure/BerkeleyDb/BerkeleyDb.Wrapper`. The wrapper puts a
transactional record layer in front of the Berkeley DB storage engine.
`spec.md` calls that layer the "transactional record-access layer". All
source paths below are relative to that directory.

## 1. Inventory

### Components and their state

| Component | Code | State it keeps |
|---|---|---|
| Transaction Bracket | `TransactionContext`, Database.h 169-213; `BeginTrans`/`CommitTrans`/`RollbackTrans`, Database.cpp 2704-2750 | `begun`, and `txn`, the `DbTxn*` or NULL |
| Deadlock-Retry Executor | `DeadlockLoop`, `TryStd`, `TryMemStd`, `SwitchStd`, `SwitchMemStd`, Database.cpp 942-1041 | `retry_count` and `ret` of one call, and the `size` of the value Dbt |
| Table Handle, DataBuffer operations | `Get`, `GetLength`, `Put`, `Delete`, `Exists`, Database.cpp 1063-1196 | none of their own; they use a fresh context per call |
| Table Handle, legacy loops | `Put(Dbt*,Dbt*)`, the RMW `Put`, `Get(Dbt*,Dbt*)`, `Delete(Dbt*)`, `Truncate`, Database.cpp 271-940, 1397-1516, 1952-2033 | `txn` and `retry_count`, local to each call |
| Table handle configuration | constructors, Database.cpp 24-63 | `m_isTxn`, `m_maxDeadlockRetries`, `m_pTrMode`, `disposed` |
| Cursor enumeration | `GetCursor`, `MoveNext`, `GetCurrent`, `Reset`, Database.cpp 2065-2452; `DatabaseRecordEnum`, DatabaseEnum.h/.cpp | the engine cursor position, `_current`, `_cursorp`, `_database` |
| Cursor class | Cursor.h/.cpp | `_cursorp` and `_db` |
| Handle lifecycle | `Dispose` and finalizers of Environment, Database and Cursor | the `disposed` flags and the open engine handles |
| Buffer View | the `DatabaseEntry` to `DataBuffer` conversion, DatabaseEntry.cpp 17-32; `DbtHolder`, DbtHolder.h | none; this is pure arithmetic on start and length |
| Storage engine | Berkeley DB, an external collaborator | records, locks and transactions |

### Operations and interactions

A caller thread invokes a Table Handle operation. Each operation goes
through these steps:

1. It sets up Dbts for the key and value.
2. It builds a `TransactionContext`.
3. It runs `DeadlockLoop`, wrapped in `TryStd` or `TryMemStd`. Each
   iteration calls `context.begin()`, which starts a transaction in PerCall
   mode on a transactional environment. The iteration then makes one engine
   call.
   - On a deadlock the loop rolls back and retries, up to
     `m_maxDeadlockRetries` attempts. After that it throws.
4. A switch maps the return code to the result and commits.

When the call throws, the context's destructor rolls back. Several threads
may use one Database at once (spec.md section 5). The engine isolates them
with record locks that a transaction holds until it commits or aborts.

Cursors and enumerators call into the Database's cursor methods. Disposing a
Database or an Environment closes the engine handles under everything built
on them.

### The hard behaviours

- Interleaving of threads on one key while their transactions are open.
- Deadlock retries with a bounded budget.
- Failures at each step: `txn_begin`, the engine call, `abort` inside a
  rollback, and `commit`.
- BUFFER_SMALL, reported through `DbMemoryException` and carrying the
  record's true length.
- Use of a handle after it has been ended or disposed.
- Cursor positioning across `Reset` and `MoveNext`.

### Properties that make each component correct

- **Transaction Bracket:**
  - each begun transaction handle is ended exactly once;
  - no transaction, lock or uncommitted write survives the call.
- **Deadlock-Retry Executor:**
  - M deadlocks with M < N give M rollbacks and one commit;
  - N deadlocks give N rollbacks, no commit, and Fatal;
  - the loop always terminates.
- **Table Handle:** every call is one atomic operation on the store and
  returns what spec.md sections 4.4, 4.5 and 8 promise, or it fails with the
  store unchanged. Exhausting the retries is never a silent success
  (spec.md section 6).
- **Cursor:**
  - an enumeration visits every record once, in key order;
  - `Reset` followed by a second enumeration yields the same sequence;
  - after disposal, operations are rejected, never executed on closed
    handles.
- **Buffer View:** the window stays inside the buffer for every start and
  length, including at int32 overflow.

## 2. Plan

These are the modules in order. Each later module reuses `KVTypes`.

1. **KVTypes / KVStore** (done). This is the abstract specification of the
   store, with atomic `Apply` or `Fail` per call. It is the target of the
   refinements.
2. **DatabaseOps + MCDatabaseOps** (done). It models the DataBuffer
   operations with the context, the retry loop and the engine's locks. It
   refines KVStore.
3. **LegacyOps + MCLegacyOps** (done). It models the legacy loops
   `Put(Dbt*)`, `Get(Dbt*)`, `Delete(Dbt*)`, the RMW `Put` and `Truncate`,
   against the same engine, and refines KVStore for a positive retry
   budget. It covers:
   - rollback after a failed commit;
   - the leaked transaction when the RMW delegate throws;
   - a budget of 0, where the loops make no attempt.
4. **Handles + MCHandles** (done). These model the handle lifecycle and the
   cursors: Environment and Database open and dispose, `DatabaseRecordEnum`
   (`GetCursor`, `MoveNext`, `GetCurrent`, `Reset`, `ClearAll`) and the
   `Cursor` class. Other threads write around the cursors. Every native
   access through a NULL, closed or freed handle is recorded.
5. **RetryBudget** (not built as its own module). The zero budget of the
   legacy loops is now part of LegacyOps. The rest is not built because no
   run slot is left. The two loop shapes (the `do ... while` of
   `DeadlockLoop` and the `while (retry_count < m_maxDeadlockRetries)` of the
   legacy methods) as recursive operators over a sequence of attempt
   outcomes, checked against the executor of spec.md section 4.4 for every
   budget from -1 up, including `m_maxDeadlockRetries <= 0`, where the legacy
   loops make no attempt and return success.
6. **Composed + MCComposed** (done). Both method families run on one
   Database at once and share its engine. This is where the liveness
   question is asked.
7. **BufferWindow** (not built: no run slot left, see "Not modelled"). It would model the pure clamping of
   `operator DataBuffer` and `DbtHolder::set_for_partial` as operators. These
   would be checked against a reference definition over bounded ints in a
   reduced bit width.

The runs, most important first:

1. `ops_txn` and `ops_notxn` (done);
2. `legacy_txn`, `legacy_failures` and the violation runs `legacy_delegate`,
   `legacy_rmw_notxn` and `legacy_codes` (done);
3. `composed_live` (done). It replaces the liveness runs that each family
   had on its own. `handle_resolution` replaces the two violation runs of
   `HandleResolvedAtMostOnce`, one per family, with one run on `Composed`;
4. `handles`, `handles_iter` and `handles_ub` (done);
5. retry-budget and buffer-window runs. Every one of these would add a
   run, and the project already has as many runs as it can keep. See
   "Not modelled".

## 3. Modules

### KVTypes, KVStore

**KVTypes** holds what the abstract store and its refinements share:

- the requests `Get(cap)`, `GetLength`, `Put(len)`, `Delete` and `Exists`;
- the slots: a length in `Lens`, `NoRecord`, or `EmptySlot` (a deleted
  record in a Queue/Recno store, which reads as KEYEMPTY);
- the results the store promises, `Result`;
- the effect of a request on a slot, `Effect`.

A value is abstracted to its length. The properties only tell apart lengths,
BUFFER_SMALL and absence. Results of different kinds are records with
different fields, so that TLC can compare them.

**KVStore** is the specification of what a Database handle promises. Each
client has at most one call pending. A call either:

- applies atomically: the store changes by `Effect` and returns `Result` as
  of that moment; or
- fails with `Error` or `Fatal` and leaves the store untouched.

### DatabaseOps

DatabaseOps models the DataBuffer operations `Get`, `GetLength`, `Put`,
`Delete` and `Exists`, and the streaming `Get(key, offset, length, flags)`
(request kind "GetStream"). The streaming Get sets DB_DBT_MALLOC on its value
Dbt (`EngineAllocates`), so its read never reports BUFFER_SMALL. It returns
nullptr when `SwitchMemStd` answers a negative size, and otherwise a Stream
over the allocated bytes (`StreamResult`).

**The engine** is modelled by its interface:

- a committed `store`;
- exclusive per-key locks in `lockOwner`, held by a transaction until it
  commits or aborts;
- per-transaction `staged` writes, which commit applies and abort discards;
- the failures in `Faults`.

**Per thread** the module keeps:

- `pc`: idle, then "call" inside `DeadlockLoop`, then "switch" after it;
- the context `ctx`;
- `hstate` and `uses`: the engine state of the thread's current `DbTxn`
  handle, and how many commit/abort calls reached it;
- `retry`, `ret` and `size`, the variables of `DeadlockLoop` and
  `TryMemStd`;
- `resp`;
- the history counters `nCommit` and `nAbort`.

**Actions.** Each DeadlockLoop iteration is one action, named by how it ends:

- `CallReturns`: the engine call returns, or throws the `DbMemoryException`
  that TryMemStd turns into BUFFER_SMALL.
- `CallDeadlock`: rollback, `++retry_count`, then either retry, or the throw
  followed by the destructor.
- `CallDeadlockAbortFails`: abort throws inside `rollback()` during a retry,
  before `++retry_count`, so the retry is not counted.
- `CallError`: another `DbException`; TryStd rethrows it and the destructor
  runs.
- `CallBeginFails`: `txn_begin` throws inside `begin()`.

The switch with its commit is:

- `FinishCommit`, or
- `FinishCommitFails`: `DbTxn::commit` throws, and the destructor runs.

The `default:` branches of the switches are omitted. With exceptions
enabled the engine returns only 0, NOTFOUND or KEYEMPTY from get, put, del
and exists. BUFFER_SMALL reaches `ret` only through TryMemStd.

**Not modelled yet:**

- partial windows (`offset`/`count`);
- the streaming `Get`, which differs from `Get` only in how the result is
  copied.

**Refinement.** Without a transaction the engine call is the atomic step.
With one, the commit in the switch is. `AbsPending` and `AbsResp` map the
thread state to the abstract `pending` and `resp`.

**Properties:**

- `TypeOK`.
- `HandleResolvedAtMostOnce`: a `DbTxn` handle receives at most one
  commit/abort call (spec.md section 4.3).
- `NoOpenTxnWhenIdle`: a finished call has:
  - no begun context;
  - no active transaction;
  - no lock;
  - no staged write.
- `RetryAccounting`: the counts that spec.md section 8 states for M < N and
  for M ≥ N deadlocks.
- `Refinement`: `KVStore!Spec` under the mapping. This catches:
  - lost updates between threads;
  - wrong results;
  - a store that changes on failure.
The liveness of these calls is checked together with LegacyOps in
`Composed`.

### LegacyOps

LegacyOps models the older methods that each contain their own copy of the
loop `while (retry_count < m_maxDeadlockRetries) { txn = BeginTrans(); call;
CommitTrans(txn); } catch (DbDeadlockException) {...} catch (DbException)
{...}`: `Put(Dbt*, Dbt*)`, `Get(Dbt*, Dbt*)`, `Delete(Dbt*)`, the
read-modify-write `Put` with an `RMWDelegate`, and `Truncate`. The String,
int, byte[] and DatabaseEntry overloads only build the Dbts; they are the
requests of `LegacyRequests` (`Invoke`), and their result conversion is
`Outcome` (the DatabaseEntry overloads set `Length` only on SUCCESS).
`Get(String)` has its own copy of the loop with a value Dbt the engine
allocates (DB_DBT_MALLOC), so it never meets BUFFER_SMALL (`UserMem`); its
switch returns the string on SUCCESS and null on NOTFOUND or KEYEMPTY
(`StringOutcome`, request kind "GetString"). The
engine is the one of DatabaseOps; a lock held by a transaction nobody can
end any more belongs to `Orphan`.

**Per thread:** `pc` ("loop" at the loop test, "call" after `BeginTrans`,
"write" between the RMW get and its put/del, "commit"), `txn` (whether the
local `txn` is non-NULL), `hstate`/`uses` of the handle it points to,
`retry`, `ret`, `size`, `resp` and the history counters.

**The budget.** `m_maxDeadlockRetries` is a variable. `Init` chooses it
from `RetryBudgets`, the values `DatabaseConfig.MaxDeadlockRetries` may
have. The constructor sets it once, so no step changes it. `RetryLimit`
is 1 on a non-transactional environment, the constructor's default
(Database.cpp 26, 54).

`Invoke` includes the first loop test. When the test fails, which happens
with a budget of 0, the method returns at once with `NoAttempt`: `ret` is
still 0, that is SUCCESS.

Every run except `legacy_rmw_notxn` uses a budget of 2. `Composed`
substitutes its single `MaxDeadlockRetries` for the variable.

**Actions**, one per way a step of the loop can end: `BeginOk`, `BeginFails` (the handler aborts
the `txn` left from the previous iteration), `CallOk`, `CallBufferSmall`
(Get's `DbException` handler with errno BUFFER_SMALL), `Deadlock`,
`DeadlockAbortFails`, `DbError`, `RmwWrite` (delegate, then put, del or
nothing), `RmwDelegateThrows` (a managed exception passes both native
catch clauses), `CommitOk` (commit and the switch after it) and
`CommitFails` (the commit ends the transaction and throws, and the handler
aborts it).

**Properties:** `TypeOK`, `HandleResolvedAtMostOnce`, `NoOpenTxnWhenIdle`,
`RetryAccounting` (a `Fatal` call made exactly `m_maxDeadlockRetries`
aborted attempts; a call that returned committed once after aborting every
earlier attempt), `Refinement` (to `KVStore`: the atomic step is the commit
with a transaction, the engine call without one; the RMW without a
transaction is split into two engine calls, which is what `legacy_rmw_notxn`
shows) and `Termination`. `FairSpec` gives strong fairness per thread on
its steps, for the engine's FIFO lock queue (see Composed). The legacy
`Termination` is checked only by `legacy_delegate`, where it fails. The
liveness of the correct paths is checked in `Composed`.

`FailureCarriesEngineCode` is about the Code of the `BdbException` a
method throws. `SetCode` translates `BdbException::SetCode`, and
`ThrownCode(c)` applies it to the `ret` the handler passes. The property
needs no extra variable, because no step that throws changes `ret`.
`legacy_codes` finds it violated.

### Handles

`Handles` models the native handles and the objects that own an engine
cursor. It covers:

- the Environment: its constructors and `!Environment`;
- the Database: its constructor with `Open`, and `!Database`;
- `DatabaseRecordEnum`: its constructors, `MoveNext`, `Reset`, `ClearAll`
  and its dispose paths, over `Database::GetCursor`, `MoveNext`,
  `GetCurrent` and `Reset`;
- the `Cursor` class: construction, `~Cursor`/`!Cursor`, and `Get`, `Put`
  and `Delete` through its `DeadlockLoop`. Both `Get`s are covered at every
  position a table without duplicates has (`Target`): First, Last, Next,
  Previous, Current, Set and SetRange. One `Get` reads into a caller buffer
  of `BufferCaps` bytes and returns `Lengths`. The other reads into
  `DB_DBT_MALLOC` Dbts and returns `Streams`. The two value classes of
  Cursor.h are operators of the same names:
  - `Lengths(kl, vl)` holds the key and value lengths, or both set to its
    literal `NotFound` (-1) or `Deleted` (-2). A key length is the key it
    belongs to.
  - `Streams(ks, vs, rc)` holds the key stream, the value stream and a
    return code. A missing stream is `NoKey` or `NullStream`.

  `GetLengths` and `GetStreams` are the `switch`es that build these
  answers.

**State.**

- `envState` and `dbState`: whether `m_pEnv` and `m_pDb` exist, were never
  created, or were deleted.
- `store`: the committed records. Keys are positive integers in the
  engine's order, and a value is abstracted to its length.
- Per object, the wrapper side: `cursorp` (is `_cursorp` non-NULL?) and
  `dbRef` (is `_database` or `_db` non-null?).
- Per object, the engine side: `ecur` (none, open or closed) and `pos`.
- Per enumerator: `current`, and the pass bookkeeping `pass`, `seen` and
  `stable`. `stable` holds the keys present throughout the pass.
- `ub`: the native accesses through a NULL, closed or freed handle that
  happened. The code's behaviour there is undefined, so the model records
  the access and leaves the state as it was.

**Engine behaviour the model keeps.**

- A cursor positioned on a record holds its read lock. `Write` (another
  thread's `Put` or `Delete`) and `CursorPut` wait while another object's
  open cursor holds the key.
- `!Database` closes the engine cursors still open on the Db, but leaves
  the objects' `_cursorp` dangling.
- `DB_NOTFOUND` leaves a cursor where it was.
- `Cursor::Get` never meets a buffer that is too small. Both Dbts are
  `DB_DBT_USERMEM` with `DB_DBT_PARTIAL` and `dlen` equal to the buffer
  size (Cursor.cpp 123/127, DbtHolder.h 28-31). The engine copies what
  fits from the offset, returns SUCCESS and moves the cursor, and
  `Lengths` holds the copied sizes (`PartialSize`). A caller cannot tell a
  truncated value from a whole one, although Cursor.h 156-160 says the
  lengths "can be greater than the lengths of the data read". No run
  checks this divergence: it is a sequential call that a unit test
  reaches, and the project has no run slot left for it.

**Actions.**

- `ClearAll`'s test and its `close()` are separate steps (`Dispose`, then
  `ObjClose`). Likewise `MoveNext`'s `Disposed` check and its `DB_NEXT`
  (`EnumMoveNext`, then `EnumNext`). Between them another thread may
  dispose the Database.
- `GetCurrent` is the buffer logic of Database.cpp 2147-2206. A value
  longer than `_nValueCapacity` is re-read after `Resize` to the
  `RecordLength` of the `BufferSmallException`. A key longer than the key
  buffer either leaves the record empty or throws again (`EnumNextFails`).
- A call that runs out of deadlock retries throws, and is its own action:
  `EnumNextFails`, `EnumResetFails`, `CursorFails`.

**Properties:**

- `ForwardPassComplete`: a first pass that ends at the end of the store
  yielded every stable record in ascending order.
- `IteratorProtocol`: the same for a pass begun by `Reset`, and also
  `MoveNext` after a closed table answers false rather than throwing
  (spec.md 4.6).
- `CurrentIsStored`: after `MoveNext` returns true, `Current` is the whole
  record under the cursor.
- `NoLeakedCursor`: an open engine cursor always has its owner's pointer.
- `NoUseOfClosedHandle`: `ub` stays empty (spec.md sections 3 and 7).

### Composed

`Composed` instantiates `DatabaseOps` for the threads in `OpsClients` and
`LegacyOps` for those in `LegacyClients`. Each instance is given its own
renamed per-thread variables, and both share `store` and `lockOwner`. So
a DataBuffer call and a Dbt-based call on the same key meet in the engine,
as they do in the code: both methods of one `Database` use the same
`m_pDb` and the same environment's lock table. A step of one family leaves
the other's variables unchanged.

`Composed` passes its single `MaxDeadlockRetries` as the legacy family's
`m_maxDeadlockRetries`. Its `HandleResolvedAtMostOnce` is the conjunction
of both families' properties. A single violation run, `handle_resolution`,
therefore shows both double ends of a `DbTxn`.

**Fairness.** `FairSpec` gives:

- weak fairness per DataBuffer thread on `Finish`;
- strong fairness per DataBuffer thread on `Call`;
- strong fairness per Dbt-based thread on each of its steps.

Weak fairness is justified because:

- the layer has no threads of its own (spec.md section 5);
- a call runs on its caller's thread;
- the engine answers every call.

Strong fairness stands for the engine's lock queue. A thread blocked on a
locked key is queued. It is granted the lock when the lock is released,
ahead of threads that ask later, whichever family the holder belongs to.
Under weak fairness alone, two threads could keep taking the lock in turn
and starve a third.

**Properties:**

- `Termination`: every call of either family returns or throws.
- `Refinement`: both families together refine one `KVStore`. The mapping
  merges the two components' `AbsPending` and `AbsResp`.

`composed_live` leaves out the faults that end a waiting call without the
lock (deadlock, error, beginFail), and keeps failed commits. The run
therefore asks one question: does every path of the holder's call release
the lock, including commit, a failed commit and the destructor? The bound
on deadlock retries is a safety question, which `RetryAccounting` answers.

## 4. Runs

| Run | Config | Shows |
|---|---|---|
| `ops_txn` | 2 threads, 1 key, lengths {1,2}, cap {1}, PerCall on a txn environment, `MaxDeadlockRetries` 2, faults deadlock/error/beginFail/abortFail/commitFail, client symmetry | Type, no leaked transaction, retry accounting, refinement, even on a failed commit; about 190k states, 90 s. Handle resolution fails here, which is `handle_resolution` |
| `ops_notxn` | as above with TransactionMode None, a fixed-length store (KEYEMPTY) and faults deadlock/error | Retry accounting and refinement when `BeginTrans` returns NULL and each engine call is autocommitted; about 264k states, 85 s |
| `legacy_txn` | LegacyOps, 2 threads, 1 key, length {2}, buffers {1,2}, PerCall, 2 attempts, faults deadlock/error/abortFail, symmetry | handle resolution, no leaked transaction, retry accounting, refinement; about 480k states, 125 s |
| `legacy_failures` | as `legacy_txn` with buffer {1} and faults deadlock/beginFail/commitFail/delegateThrows | type and refinement: even the mishandled failures never make a partial write visible; about 534k states, 130 s |
| `legacy_codes` | faults deadlock/commitFail | **Violation** of `FailureCarriesEngineCode` |
| `legacy_delegate` | faults {delegateThrows}, `FairSpec` | **Violation** of `Termination` |
| `legacy_rmw_notxn` | TransactionMode None, budgets {0, 2}, buffer {1} | **Violation** of `Refinement` (two findings) |
| `composed_live` | `Composed`: one DataBuffer thread and one Dbt-based thread, 1 key, length {2}, buffers {1,2}, PerCall on a txn environment, 2 attempts, faults {commitFail} in both families, `FairSpec`, no symmetry | `Termination` and `Refinement`; about 60k states, 50 s |
| `handle_resolution` | `Composed`: one DataBuffer thread with failing commits, one Dbt-based thread with deadlocks, failing begins and failing commits, 1 key | **Violation** of `HandleResolvedAtMostOnce` (both families) |
| `handles` | `Handles`: 1 enumerator, 1 Cursor, keys {1,2}, length {2} against a value capacity of 1 (every GetCurrent resizes), every key fits the key buffer, Cursor buffers {1,2} from offset 0 (a part of the value and all of it), 1 write by another thread, thrown cursor calls | `TypeOK`, `ForwardPassComplete`, `CurrentIsStored`, `NoLeakedCursor`; about 885k states, 75 s |
| `handles_iter` | as `handles` | **Violation** of `IteratorProtocol` |
| `handles_ub` | as `handles` | **Violation** of `NoUseOfClosedHandle` |

### Why these bounds are enough

- **Two threads on one key** give:
  - lock contention;
  - a read and a write racing;
  - one thread's deadlock retry interleaved with the other's commit.
- **Lengths {1,2} with capacity 1** give both a fitting read and a
  BUFFER_SMALL read in `DatabaseOps`. The legacy runs and `Composed` use
  length 2 with buffers 1 and 2 for the same pair. Every legacy `Get`
  overload pins `&valueBuffer[0]` (Database.cpp 1315, 1344, 1363, 1384),
  so a legacy buffer holds at least one byte.
- **Two retries** separate the first attempt from the last, so an
  off-by-one in the budget shows.
- **The fault sets** enable every failure path that the code handles
  differently.
- **`composed_live` uses one thread per family.** Contention across the
  families is the new question, and within each family it is already
  covered by the safety runs. A third thread made the liveness check run
  for more than 30 minutes.
- **`handles` uses two keys.** Then `DB_NEXT` has a record to move to and
  one to skip, and a write can delete a record ahead of the cursor or
  behind it.
- **`handles` uses length 2 against a value capacity of 1.** Every
  `GetCurrent` then takes the `Resize` path and reads again (a fitting
  value is the same read without the first attempt). Cursor buffers of 1
  and 2 give `Cursor::Get` both a truncated copy and a whole one. Only
  offset 0 is enumerated: a second offset doubles the run's time.
  Lengths {1,2} reach 2.4M states, too many for the time a run may take.
- **`handles` allows one write by another thread.** That is enough to
  change the store under a positioned cursor. The Cursor object's own
  `Put` and `Delete` add further writes.

## 5. Findings

`handle_resolution` (one run on `Composed` for both families). First,
`TransactionContext::commit` (Database.h 182-190) clears
`begun` only after `CommitTrans` returns. When `DbTxn::commit` throws, the
destructor's `rollback()` calls `DbTxn::abort` on a handle the engine has
already ended. spec.md section 4.3 requires exactly one commit or rollback.
Berkeley DB forbids any use of a `DbTxn` after `commit`, whatever the
outcome.

Second, in the legacy loops, `txn` is assigned only when `BeginTrans` returns
(Database.cpp 289). After a deadlock iteration it still points to the
handle aborted at line 308; when `txn_begin` then throws, the `DbException`
handler aborts that freed handle again (line 332). The same handler also
aborts a handle whose `commit` threw (line 291).

The legacy thread's faults are deadlock, beginFail and commitFail, so the
run can reach both legacy cases. TLC's shortest trace is the DataBuffer
one. With `OpsFaults = {}` and the legacy faults {commitFail}, it gives the
legacy failed-commit trace instead, ending with `luses` = 2.

`legacy_codes`: every legacy handler throws `BdbException(ret, &ex, ...)`.
`SetCode` (BdbException.cpp 7-10) prefers a nonzero `ret` to the errno of
the exception being handled. `ret` still holds what the last engine call
returned, so the exception's Code can come from an earlier call:

- TLC's trace is a `Get` of a missing key whose commit throws. Its Code is
  NOTFOUND (Database.cpp 905).
- With only deadlocks, an RMW `Put` whose read found nothing and whose
  write deadlocked past the budget reports NOTFOUND, not LOCK_DEADLOCK
  (line 480).

A caller that tests `Code` takes a failed commit for a missing record.
spec.md 4.2 says a Failure carries the raw engine code. The DataBuffer
methods get this right: `DeadlockLoop` throws with LOCK_DEADLOCK, and
`TryStd` passes 0 and the exception.

`legacy_delegate`: the RMW `Put` catches only native `DbException`s. A
managed exception from `rmwDelegate` (line 420) leaves the loop with the
transaction neither committed nor aborted; its `DB_RMW` write lock stays,
and every later call on that key waits forever.

`legacy_rmw_notxn`: with TransactionMode None the RMW `Put`'s get (line
409) and its put or del (432, 440) are separate autocommitted engine calls,
so a write by another thread in between is overwritten or deleted. spec.md
section 8 describes the read-modify-write as one transaction.
TLC showed this trace with the budget set to {2}.

The same run also has budget 0, and TLC reports that shorter trace: a
`Get` of an absent key into a 1-byte buffer answered as a record of 1
byte. With 0 on
a transactional environment, the loop test at line 285 fails at once, so
`Get(Dbt*, Dbt*)` reaches the return that line 940 calls "can't get here".
`Put` returns without writing, and `Delete` reports SUCCESS.
`DatabaseConfig.MaxDeadlockRetries` is copied unchecked (line 54). spec.md
4.4 says a call takes effect or fails.

`handles_iter`: when `MoveNext` finds the Database disposed, it calls
`ClearAll`, which sets `_database` to nullptr (DatabaseEnum.h 48-51,
112). The next `MoveNext` or `Reset` then evaluates
`_database->Disposed` on nullptr and throws `NullReferenceException`.
spec.md 4.6 says `moveNext` answers false in that case.

The same property also fails on `Reset`, which TLC showed with a run that
keeps the Database open. `Database::Reset` positions the cursor with
`DB_FIRST` (Database.cpp 2393), and the next `MoveNext` issues `DB_NEXT`.
So a re-enumeration never yields the first record again, where spec.md
line 137 says it yields the same sequence.

`handles_ub`: no operation checks for a closed handle. The shortest
trace is `OpenDatabase` on a disposed Environment. The `Database`
constructor calls `environment->GetOpenFlags()`, which calls
`m_pEnv->get_open_flags` through NULL (Environment.cpp 268). Other traces
of the same kind, also confirmed by TLC:

- `Put` after `Database::Dispose` goes through `m_pDb` = NULL
  (Database.cpp 290);
- `Cursor::Get` after the Database's close uses the closed cursor
  (Cursor.cpp 78);
- the Database is closed after its Environment was freed.

spec.md sections 3 and 7 say a closed handle is rejected.

## 6. Not modelled

- **A failing `Database::Open`** (Database.cpp 218-233). When
  `CommitTrans` of the open's transaction throws, the catch clause aborts
  the ended transaction. This is the double end that `handle_resolution`
  shows for the method loops. `Handles` keeps the open as one successful
  step (`DbOpen`). A failing open would double the `handles` state space,
  which would then no longer fit the run's time.
- **The streaming Get's buffer when the commit fails** (Database.cpp 1103).
  The value is allocated by the engine and handed to a Stream only after
  `SwitchMemStd` returns. When `context.commit()` throws inside
  `SwitchMemStd`, nothing frees it (spec 4.1: freed exactly once).
  `DatabaseOps` has the streaming Get and the failing commit but not the
  ownership of the allocation, since the property would need a violation
  run of its own.
- **Recno and Queue keys of the byte-array `Put` overloads** (Database.cpp
  705). The key size is `sizeof(db_recno_t)` whatever the array length, so
  short keys are read past their end and long keys alias. Keys are
  abstract values in every module.
- **The `DatabaseEntry` window arithmetic and `DbtHolder`**: int32
  overflow of start + length (DatabaseEntry.cpp 28), and `Put(int,
  DatabaseEntry)` passing `Length` bytes from `StartPosition` unclamped
  (Database.cpp 664). This is pure
  arithmetic that no other module uses, and it would need runs of its own.
- **`Cursor::Put` at positions other than KeyFirst, and the offset and
  length windows of the Cursor calls.** Records are whole lengths.

Not modelled, and not planned, because these parts are configuration and
I/O with no concurrency or protocol of their own:

- environment configuration and statistics;
- logs;
- backup;
- verify;
- compact;
- remove;
- panic and message events;
- `CancelPendingTransactions`.

Error message composition in `BdbException` is also left out, because no
property is about wording.
