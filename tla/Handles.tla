------------------------------ MODULE Handles ------------------------------
(***************************************************************************)
(* Handle lifecycle and cursors of the wrapper: the Environment (its       *)
(* constructor and finalizer, Environment.cpp 25-168), the Database        *)
(* handle (constructor, Open, finalizer, Database.cpp 40-268), the         *)
(* enumerator DatabaseRecordEnum returned by Database::GetEnumerator       *)
(* (DatabaseEnum.h, DatabaseEnum.cpp, Database.cpp 2059-2452) and the      *)
(* Cursor class (Cursor.cpp).                                              *)
(*                                                                         *)
(* Every enumerator or Cursor object o owns one engine cursor, opened by   *)
(* Database::GetCursor.  The wrapper side of o is the pointer _cursorp     *)
(* (cursorp) and the back-reference _database or _db (dbRef); the engine   *)
(* side is the state of the cursor (ecur) and its position (pos).  A       *)
(* positioned cursor holds the engine's read lock on its record until it  *)
(* moves or is closed, so another thread's write of that record waits.     *)
(* Closing the Database closes the engine cursors still open on it; the    *)
(* objects' pointers are left dangling.  Native accesses through a NULL,   *)
(* closed or freed handle are undefined behaviour; the model records them  *)
(* in ub.                                                                  *)
(***************************************************************************)
EXTENDS Integers, Sequences, FiniteSets, FiniteSetsExt, SequencesExt

CONSTANTS
  Keys,           \* record keys, positive integers in the engine's order
  Lens,           \* value lengths a record may have
  ValueCapacity,  \* _nValueCapacity of an enumerator (1024 in the code)
  KeyFits,        \* keys that fit the enumerator's key buffer (16 bytes)
  Enums,          \* DatabaseRecordEnum objects
  Curs,           \* Cursor objects
  NoRecord,       \* the slot of an absent key
  MaxWrites,      \* bound on writes by other threads
  CursorFaults,   \* whether cursor calls may throw (deadlock exhaustion)
  BufferCaps,     \* value buffer sizes a caller passes to Cursor::Get
  Offsets         \* value offsets a caller passes to Cursor::Get

ASSUME Keys \subseteq Nat \ {0} /\ Lens \subseteq Nat \ {0}
ASSUME KeyFits \subseteq Keys /\ ValueCapacity \in Nat
ASSUME Enums \cap Curs = {} /\ CursorFaults \in BOOLEAN
ASSUME BufferCaps \subseteq Nat \ {0} /\ Offsets \subseteq Nat

Objs == Enums \cup Curs
Unpositioned == 0
NoKey == 0
\* A record as DatabaseRecordEnum materialises it: key and value Length.
Records == [key : Keys \cup {NoKey}, len : Lens \cup {0}]
None == [key |-> NoKey, len |-> -1]
UBKinds == {"NullEnv", "NullDb", "FreedEnv", "NullCursor", "ClosedCursor", "DoubleClose"}
\* The Lengths value class (Cursor.h): the key and value lengths of an
\* entry, or both set to one of its literals.  A key length is modelled by
\* the key it belongs to, NoKey for a length of 0.
NotFound == -1
Deleted == -2
Lengths(kl, vl) == [kind |-> "Lengths", key |-> kl, len |-> vl]

\* The Streams value class (Cursor.h): the key stream (NoKey for nullptr),
\* the value stream (its length, -1 for nullptr) and the return code, a
\* Lengths literal or 0.
NullStream == -1
Streams(ks, vs, rc) == [kind |-> "Streams", key |-> ks, len |-> vs, rc |-> rc]

\* What a call returned or threw.
Ans(kind) == [kind |-> kind, key |-> NoKey, len |-> -1]
Answers == {Ans(x) : x \in {"none", "true", "false", "end", "void", "NullRef", "Error"}}
           \cup {Lengths(x, x) : x \in {NotFound, Deleted}}
           \cup [kind : {"Lengths"}, key : Keys \cup {NoKey}, len : 0..Max(Lens \cup BufferCaps)]
           \cup {Streams(NoKey, NullStream, x) : x \in {NotFound, Deleted}}
           \cup {Streams(k, v, 0) : k \in Keys \cup {NoKey}, v \in Lens}

VARIABLES
  envState,  \* Environment: "none", "open", or "freed" (m_pEnv deleted)
  dbState,   \* Database: "none", "open", or "disposed" (m_pDb NULL)
  store,     \* the committed records (engine)
  writes,    \* writes by other threads so far
  ecur,      \* engine cursor of an object: "none", "open", "closed"
  pos,       \* its position, Unpositioned or a key
  cursorp,   \* _cursorp != NULL
  dbRef,     \* _database (enumerator) or _db (Cursor) != nullptr
  pc,        \* "idle", "next" (after the Disposed check), "close"
  current,   \* _current of an enumerator
  pass,      \* "fresh" or "reset" (how the pass began), "broken" (a call
             \* threw or the enumerator was disposed), "closed" (MoveNext
             \* found the table closed)
  seen,      \* keys of the records yielded in the pass
  stable,    \* keys present in the store throughout the pass
  resp,      \* what the object's last call returned or threw
  ub         \* undefined behaviours that happened

vars == <<envState, dbState, store, writes, ecur, pos, cursorp, dbRef, pc,
          current, pass, seen, stable, resp, ub>>

Present(s) == {k \in Keys : s[k] # NoRecord}

\* DB_NEXT from position p (DB_FIRST when p is Unpositioned); 0 = DB_NOTFOUND.
NextKey(s, p) ==
  LET after == {k \in Present(s) : k > p}
  IN IF after = {} THEN Unpositioned ELSE Min(after)

\* DB_PREV from position p (DB_LAST when p is Unpositioned).
PrevKey(s, p) ==
  LET before == {k \in Present(s) : p = Unpositioned \/ k < p}
  IN IF before = {} THEN Unpositioned ELSE Max(before)

\* A key some object other than o holds the read lock on.
LockedByOther(o, k) == \E x \in Objs \ {o} : ecur[x] = "open" /\ pos[x] = k

\* The native fault a call through o's engine cursor runs into, or "none".
CursorFault(o) ==
  CASE ~cursorp[o]           -> "NullCursor"
    [] ecur[o] = "closed"    -> "ClosedCursor"
    [] envState = "freed"    -> "FreedEnv"
    [] OTHER                 -> "none"

\* The native fault of a call through the Database's m_pDb, or "none".
DbFault ==
  CASE dbState = "disposed"  -> "NullDb"
    [] envState = "freed"    -> "FreedEnv"
    [] OTHER                 -> "none"

\* A write of the store: the passes of all enumerators lose the keys whose
\* record is gone.
SetStore(s) ==
  /\ store' = s
  /\ stable' = [e \in Enums |-> stable[e] \cap Present(s)]

TypeOK ==
  /\ envState \in {"none", "open", "freed"}
  /\ dbState \in {"none", "open", "disposed"}
  /\ store \in [Keys -> Lens \cup {NoRecord}]
  /\ writes \in 0..MaxWrites
  /\ ecur \in [Objs -> {"none", "open", "closed"}]
  /\ pos \in [Objs -> Keys \cup {Unpositioned}]
  /\ cursorp \in [Objs -> BOOLEAN] /\ dbRef \in [Objs -> BOOLEAN]
  /\ pc \in [Objs -> {"idle", "next", "close"}]
  /\ current \in [Enums -> Records \cup {None}]
  /\ pass \in [Enums -> {"fresh", "reset", "broken", "closed"}]
  /\ seen \in [Enums -> Seq(Keys \cup {NoKey})]
  /\ stable \in [Enums -> SUBSET Keys]
  /\ resp \in [Objs -> Answers]
  /\ ub \subseteq UBKinds

Init ==
  /\ envState = "none" /\ dbState = "none"
  /\ store \in [Keys -> Lens \cup {NoRecord}]
  /\ writes = 0
  /\ ecur = [o \in Objs |-> "none"] /\ pos = [o \in Objs |-> Unpositioned]
  /\ cursorp = [o \in Objs |-> FALSE] /\ dbRef = [o \in Objs |-> FALSE]
  /\ pc = [o \in Objs |-> "idle"]
  /\ current = [e \in Enums |-> None]
  /\ pass = [e \in Enums |-> "broken"]
  /\ seen = [e \in Enums |-> <<>>] /\ stable = [e \in Enums |-> {}]
  /\ resp = [o \in Objs |-> Ans("none")]
  /\ ub = {}

-----------------------------------------------------------------------------
(* Environment and Database handles.                                       *)

\* new Environment(envConfig): DbEnv::open succeeded.  A failed open closes
\* and deletes the DbEnv and throws, leaving no handle.
EnvOpen ==
  /\ envState = "none"
  /\ envState' = "open"
  /\ UNCHANGED <<dbState, store, writes, ecur, pos, cursorp, dbRef, pc,
                 current, pass, seen, stable, resp, ub>>

\* !Environment: m_pEnv->close(0) and delete m_pEnv, whatever is still open
\* in it.  The engine reports the open Database and returns an error, which
\* is passed to errcall; the Database's m_pDb now refers to a freed DbEnv.
EnvDispose ==
  /\ envState = "open"
  /\ envState' = "freed"
  /\ UNCHANGED <<dbState, store, writes, ecur, pos, cursorp, dbRef, pc,
                 current, pass, seen, stable, resp, ub>>

\* Environment::OpenDatabase: the constructor creates the Db in m_pEnv,
\* reads environment->GetOpenFlags() and Open runs db->open inside
\* BeginTrans/CommitTrans.  A failure rolls back, closes and deletes the Db
\* and throws, leaving no handle.  After !Environment, m_pEnv is NULL and
\* GetOpenFlags calls m_pEnv->get_open_flags through it.
DbOpen ==
  /\ envState # "none" /\ dbState = "none"
  /\ IF envState = "freed"
       THEN /\ ub' = ub \cup {"NullEnv"}
            /\ UNCHANGED dbState
       ELSE /\ dbState' = "open"
            /\ UNCHANGED ub
  /\ UNCHANGED <<envState, store, writes, ecur, pos, cursorp, dbRef, pc,
                 current, pass, seen, stable, resp>>

\* !Database: disposed = true, m_pDb->close(0), delete m_pDb, m_pDb = NULL.
\* The engine closes the cursors still open on the Db.  A second call finds
\* m_pDb NULL and does nothing.
DbDispose ==
  /\ dbState = "open"
  /\ dbState' = "disposed"
  /\ ecur' = [o \in Objs |-> IF ecur[o] = "open" THEN "closed" ELSE ecur[o]]
  /\ ub' = ub \cup (IF envState = "freed" THEN {"FreedEnv"} ELSE {})
  /\ UNCHANGED <<envState, store, writes, pos, cursorp, dbRef, pc, current,
                 pass, seen, stable, resp>>

\* Database::Put or Delete by another thread: no operation of Database
\* checks disposed, so after Dispose the call goes through m_pDb = NULL.
\* The write waits while a cursor holds the read lock on the record.
Write(k, v) ==
  /\ dbState # "none" /\ writes < MaxWrites
  /\ writes' = writes + 1
  /\ IF DbFault # "none"
       THEN /\ ub' = ub \cup {DbFault}
            /\ UNCHANGED <<store, stable>>
       ELSE /\ \A o \in Objs : ~(ecur[o] = "open" /\ pos[o] = k)
            /\ SetStore([store EXCEPT ![k] = v])
            /\ UNCHANGED ub
  /\ UNCHANGED <<envState, dbState, ecur, pos, cursorp, dbRef, pc, current,
                 pass, seen, resp>>

-----------------------------------------------------------------------------
(* Creating and closing the objects that own a cursor.                     *)

\* Where Database::GetCursor leaves a new engine cursor: not positioned.
InitialPosFirst(s) == NextKey(s, Unpositioned)
InitialPos(s) == Unpositioned

\* new DatabaseRecordEnum(db) or new Cursor(db): _cursorp = db->GetCursor(),
\* which calls m_pDb->cursor(NULL, &cursor, 0).  A deadlock past the budget
\* throws out of the constructor, leaving no object.
NewObj(o) ==
  /\ dbState # "none" /\ ecur[o] = "none" /\ ~dbRef[o]
  /\ IF DbFault # "none"
       THEN /\ ub' = ub \cup {DbFault}
            /\ UNCHANGED <<ecur, pos, cursorp, dbRef, current, pass, seen,
                           stable, resp>>
       ELSE /\ ecur' = [ecur EXCEPT ![o] = "open"]
            /\ pos' = [pos EXCEPT ![o] = InitialPos(store)]
            /\ cursorp' = [cursorp EXCEPT ![o] = TRUE]
            /\ dbRef' = [dbRef EXCEPT ![o] = TRUE]
            /\ resp' = [resp EXCEPT ![o] = Ans("void")]
            /\ IF o \in Enums
                 THEN /\ current' = [current EXCEPT ![o] = None]
                      /\ pass' = [pass EXCEPT ![o] = "fresh"]
                      /\ seen' = [seen EXCEPT ![o] = <<>>]
                      /\ stable' = [stable EXCEPT ![o] = Present(store)]
                 ELSE UNCHANGED <<current, pass, seen, stable>>
            /\ UNCHANGED ub
  /\ UNCHANGED <<envState, dbState, store, writes, pc>>

\* The test "_cursorp != NULL && _database != nullptr && !_database->Disposed"
\* of ClearAll (and of !Cursor) that decides whether _cursorp->close() runs.
ClearAllClosesNever(o) == FALSE
ClearAllCloses(o) == cursorp[o] /\ dbRef[o] /\ dbState = "open"

\* ~DatabaseRecordEnum, !DatabaseRecordEnum and ~Cursor.  When the test
\* passes the close follows as a separate step (ObjClose); otherwise
\* _cursorp and the back-reference are set to null and the engine cursor, if
\* any, is left to the Database's close.
Dispose(o) ==
  /\ ecur[o] # "none" /\ pc[o] = "idle"
  /\ IF ClearAllCloses(o)
       THEN /\ pc' = [pc EXCEPT ![o] = "close"]
            /\ UNCHANGED <<cursorp, dbRef, current, resp>>
       ELSE /\ cursorp' = [cursorp EXCEPT ![o] = FALSE]
            /\ dbRef' = [dbRef EXCEPT ![o] = FALSE]
            /\ current' = IF o \in Enums THEN [current EXCEPT ![o] = None]
                                         ELSE current
            /\ resp' = [resp EXCEPT ![o] = Ans("void")]
            /\ UNCHANGED pc
  /\ pass' = IF o \in Enums THEN [pass EXCEPT ![o] = "broken"] ELSE pass
  /\ UNCHANGED <<envState, dbState, store, writes, ecur, pos, seen, stable,
                 ub>>

\* _cursorp->close() after the test, then _cursorp = NULL (finally) and
\* _database = nullptr, _current = nullptr (ClearAll) or _db = nullptr
\* (~Cursor).  The Database may have been disposed since the test.
ObjClose(o) ==
  /\ pc[o] = "close"
  /\ pc' = [pc EXCEPT ![o] = "idle"]
  /\ ub' = ub \cup (CASE CursorFault(o) = "ClosedCursor" -> {"DoubleClose"}
                      [] CursorFault(o) = "FreedEnv"     -> {"FreedEnv"}
                      [] OTHER                           -> {})
  /\ ecur' = [ecur EXCEPT ![o] = "closed"]
  /\ cursorp' = [cursorp EXCEPT ![o] = FALSE]
  /\ dbRef' = [dbRef EXCEPT ![o] = FALSE]
  /\ current' = IF o \in Enums THEN [current EXCEPT ![o] = None] ELSE current
  /\ resp' = [resp EXCEPT ![o] = Ans("void")]
  /\ UNCHANGED <<envState, dbState, store, writes, pos, pass, seen, stable>>

-----------------------------------------------------------------------------
(* DatabaseRecordEnum: MoveNext, Reset (DatabaseEnum.h) over               *)
(* Database::MoveNext, GetCurrent and Reset.                               *)

\* RecordLength of the BufferSmallException GetCurrent(Dbc*, Dbt*, Dbt*)
\* throws: dbtValue->get_size(), the length of the stored value.
RecordLengthOfBuffer(k) == ValueCapacity
RecordLength(k) == store[k]

\* GetCurrent(Dbc*, DatabaseRecord^) on the record at key k, with the key
\* buffer of _nKeyCapacity and the value buffer of _nValueCapacity bytes.
\* A value that does not fit makes it Resize the value buffer to
\* RecordLength and read again.  A key that does not fit also ends in
\* BufferSmallException, but the value buffer is not shorter than the
\* RecordLength reported then, so nothing is read and the DatabaseEntry
\* Lengths stay 0.
GetCurrentNoReread(k) == [key |-> k, len |-> Min({store[k], ValueCapacity})]
GetCurrent(k) ==
  IF k \in KeyFits /\ (store[k] <= ValueCapacity \/ ValueCapacity < RecordLength(k))
    THEN [key |-> k, len |-> store[k]]
    ELSE [key |-> NoKey, len |-> 0]

\* MoveNext: "if (_database->Disposed) { ClearAll(); return false; }".
\* When the Database is not disposed the call goes on to the engine in
\* EnumNext; the Database may be disposed in between.
EnumMoveNext(e) ==
  /\ ecur[e] # "none" /\ pc[e] = "idle"
  /\ CASE ~dbRef[e] ->                    \* _database is nullptr
            /\ resp' = [resp EXCEPT ![e] = Ans("NullRef")]
            /\ UNCHANGED <<cursorp, dbRef, pc, current, pass>>
       [] dbState = "disposed" ->
            /\ cursorp' = [cursorp EXCEPT ![e] = FALSE]
            /\ dbRef' = [dbRef EXCEPT ![e] = FALSE]
            /\ current' = [current EXCEPT ![e] = None]
            /\ pass' = [pass EXCEPT ![e] = "closed"]
            /\ resp' = [resp EXCEPT ![e] = Ans("false")]
            /\ UNCHANGED pc
       [] OTHER ->
            /\ pc' = [pc EXCEPT ![e] = "next"]
            /\ UNCHANGED <<cursorp, dbRef, current, pass, resp>>
  /\ UNCHANGED <<envState, dbState, store, writes, ecur, pos, seen, stable, ub>>

\* "if (!_database->MoveNext(_cursorp)) { _current = nullptr; return false; }"
\* then a new DatabaseRecord, GetCurrent(_cursorp, data), _current = data.
\* Database::MoveNext issues DB_NEXT; DB_NOTFOUND leaves the cursor where it
\* is.
EnumNext(e) ==
  /\ pc[e] = "next"
  /\ pc' = [pc EXCEPT ![e] = "idle"]
  /\ LET k == NextKey(store, pos[e]) IN
     IF CursorFault(e) # "none"
       THEN /\ ub' = ub \cup {CursorFault(e)}
            /\ pass' = [pass EXCEPT ![e] = "broken"]
            /\ UNCHANGED <<pos, current, seen, resp>>
       ELSE /\ k # Unpositioned => k \in KeyFits \/ store[k] <= ValueCapacity
            /\ pos' = [pos EXCEPT ![e] = IF k = Unpositioned THEN @ ELSE k]
            /\ current' = [current EXCEPT ![e] =
                             IF k = Unpositioned THEN None ELSE GetCurrent(k)]
            /\ seen' = IF k = Unpositioned THEN seen
                       ELSE [seen EXCEPT ![e] = Append(@, GetCurrent(k).key)]
            /\ resp' = [resp EXCEPT ![e] = IF k = Unpositioned THEN Ans("end")
                                                                ELSE Ans("true")]
            /\ UNCHANGED <<pass, ub>>
  /\ UNCHANGED <<envState, dbState, store, writes, ecur, cursorp, dbRef,
                 stable>>

\* The engine call throws: DB_NEXT itself (deadlock past the budget), or
\* GetCurrent after DB_NEXT moved the cursor, when the record's key does not
\* fit and the value does not fit either (the read after Resize fails
\* again).  _current keeps the record of the previous MoveNext.
EnumNextFails(e) ==
  /\ pc[e] = "next" /\ CursorFault(e) = "none"
  /\ LET k == NextKey(store, pos[e]) IN
     \/ /\ CursorFaults
        /\ UNCHANGED pos
     \/ /\ k # Unpositioned
        /\ CursorFaults \/ (k \notin KeyFits /\ store[k] > ValueCapacity)
        /\ pos' = [pos EXCEPT ![e] = k]
  /\ pc' = [pc EXCEPT ![e] = "idle"]
  /\ pass' = [pass EXCEPT ![e] = "broken"]
  /\ resp' = [resp EXCEPT ![e] = Ans("Error")]
  /\ UNCHANGED <<envState, dbState, store, writes, ecur, cursorp, dbRef,
                 current, seen, stable, ub>>

\* Reset: "if (_database->Disposed) return; _current = nullptr;
\* _database->Reset(_cursorp);" which issues DB_FIRST.  A new pass begins.
EnumReset(e) ==
  /\ ecur[e] # "none" /\ pc[e] = "idle"
  /\ CASE ~dbRef[e] ->
            /\ resp' = [resp EXCEPT ![e] = Ans("NullRef")]
            /\ UNCHANGED <<pos, current, pass, seen, stable, ub>>
       [] dbState = "disposed" ->
            /\ resp' = [resp EXCEPT ![e] = Ans("void")]
            /\ UNCHANGED <<pos, current, pass, seen, stable, ub>>
       [] CursorFault(e) # "none" ->
            /\ ub' = ub \cup {CursorFault(e)}
            /\ UNCHANGED <<pos, current, pass, seen, stable, resp>>
       [] OTHER ->
            /\ pos' = [pos EXCEPT ![e] = IF NextKey(store, Unpositioned) = Unpositioned
                                           THEN @ ELSE NextKey(store, Unpositioned)]
            /\ current' = [current EXCEPT ![e] = None]
            /\ pass' = [pass EXCEPT ![e] = "reset"]
            /\ seen' = [seen EXCEPT ![e] = <<>>]
            /\ stable' = [stable EXCEPT ![e] = Present(store)]
            /\ resp' = [resp EXCEPT ![e] = Ans("void")]
            /\ UNCHANGED ub
  /\ UNCHANGED <<envState, dbState, store, writes, ecur, cursorp, dbRef, pc>>

\* Database::Reset throws (deadlock past the budget) after _current was
\* cleared.
EnumResetFails(e) ==
  /\ ecur[e] # "none" /\ pc[e] = "idle" /\ CursorFaults
  /\ dbRef[e] /\ dbState = "open" /\ CursorFault(e) = "none"
  /\ current' = [current EXCEPT ![e] = None]
  /\ pass' = [pass EXCEPT ![e] = "broken"]
  /\ resp' = [resp EXCEPT ![e] = Ans("Error")]
  /\ UNCHANGED <<envState, dbState, store, writes, ecur, pos, cursorp, dbRef,
                 pc, seen, stable, ub>>

-----------------------------------------------------------------------------
(* Cursor: Get, Put, Delete through Cursor::DeadlockLoop, which calls the  *)
(* engine through _cursorp without checking _cursorp or _db->Disposed.     *)

\* The native fault the DeadlockLoop of Cursor u runs into, recorded in ub.
CursorCallFaults(u) ==
  /\ CursorFault(u) # "none"
  /\ ub' = ub \cup {CursorFault(u)}
  /\ UNCHANGED <<store, stable, pos, resp>>

\* The bytes a DB_DBT_PARTIAL read copies: set_for_partial(offset, size)
\* asks for dlen = the buffer's size from doff = offset, and the engine
\* returns what the record has there, get_size() being the count copied.
PartialSize(len, off, cap) == Min({cap, Max({0, len - off})})

\* The answer of Cursor::Get for the record at key "to" (Unpositioned when
\* the engine found none): NOTFOUND gives Lengths(NotFound), KEYEMPTY
\* Lengths(Deleted); otherwise dbtKey.get_size() (0 for Set) and
\* dbtBuffer.get_size(), the sizes copied.  The key is modelled by the key
\* it belongs to: every key fits the caller's key buffer.  DB_CURRENT on an
\* unpositioned cursor is an engine error, thrown as BdbException.
GetLengths(how, to, off, cap) ==
  CASE to = Unpositioned /\ how = "Current" -> Ans("Error")
    [] to = Unpositioned                    -> Lengths(NotFound, NotFound)
    [] store[to] = NoRecord                 -> Lengths(Deleted, Deleted)
    [] OTHER -> Lengths(IF how = "Set" THEN NoKey ELSE to,
                        PartialSize(store[to], off, cap))

\* The answer of the streaming Cursor::Get: the same cases as Streams.
GetStreams(how, to) ==
  CASE to = Unpositioned /\ how = "Current" -> Ans("Error")
    [] to = Unpositioned                    -> Streams(NoKey, NullStream, NotFound)
    [] store[to] = NoRecord                 -> Streams(NoKey, NullStream, Deleted)
    [] OTHER -> Streams(IF how = "Set" THEN NoKey ELSE to, store[to], 0)

\* The record a get with CursorPosition how (and key k for Set and
\* SetRange) finds from u's position, or Unpositioned (DB_NOTFOUND).  Without
\* duplicates NextDuplicate finds nothing and the NoDuplicate positions are
\* Next and Previous, so these seven are every position of a get.
Target(u, how, k) ==
  CASE how = "First"    -> NextKey(store, Unpositioned)
    [] how = "Last"     -> PrevKey(store, Unpositioned)
    [] how = "Next"     -> NextKey(store, pos[u])
    [] how = "Previous" -> PrevKey(store, pos[u])
    [] how = "Current"  -> pos[u]
    [] how = "Set"      -> IF store[k] # NoRecord THEN k ELSE Unpositioned
    [] how = "SetRange" -> NextKey(store, k - 1)

GetPositions == {"First", "Last", "Next", "Previous", "Current", "Set", "SetRange"}

\* Cursor::Get(key, value, offset, position, flags) into a value buffer of
\* cap bytes.  Both Dbts are DB_DBT_USERMEM with DB_DBT_PARTIAL and dlen =
\* ulen, so the engine never finds a buffer too small (the BUFFER_SMALL case
\* of the switch is not reached): it copies what fits, returns SUCCESS and
\* moves the cursor, and a longer record is answered with the copied size.
CursorGet(u, how, k, off, cap) ==
  /\ ecur[u] # "none" /\ pc[u] = "idle"
  /\ \/ CursorCallFaults(u)
     \/ /\ CursorFault(u) = "none"
        /\ LET to == Target(u, how, k)
           IN /\ pos' = [pos EXCEPT ![u] = IF to = Unpositioned THEN @ ELSE to]
              /\ resp' = [resp EXCEPT ![u] = GetLengths(how, to, off, cap)]
        /\ UNCHANGED <<store, stable, ub>>
  /\ UNCHANGED <<envState, dbState, writes, ecur, cursorp, dbRef, pc, current,
                 pass, seen>>

\* Cursor::Get(key, offset, length, position, flags): key and value are
\* read into DB_DBT_MALLOC Dbts, so no record is too long for them; the switch
\* gives Streams with NotFound or Deleted, or the key stream (none for Set)
\* and the value stream.  DB_CURRENT on an unpositioned cursor throws.
CursorGetStream(u, how, k) ==
  /\ ecur[u] # "none" /\ pc[u] = "idle"
  /\ \/ CursorCallFaults(u)
     \/ /\ CursorFault(u) = "none"
        /\ LET to == Target(u, how, k)
           IN /\ pos' = [pos EXCEPT ![u] = IF to = Unpositioned THEN @ ELSE to]
              /\ resp' = [resp EXCEPT ![u] = GetStreams(how, to)]
        /\ UNCHANGED <<store, stable, ub>>
  /\ UNCHANGED <<envState, dbState, writes, ecur, cursorp, dbRef, pc, current,
                 pass, seen>>

\* Cursor::Put(key, value, ..., KeyFirst, flags): writes the record at k and
\* positions the cursor on it; it waits while another cursor holds the read
\* lock on k.
CursorPut(u, k, v) ==
  /\ ecur[u] # "none" /\ pc[u] = "idle"
  /\ \/ CursorCallFaults(u)
     \/ /\ CursorFault(u) = "none" /\ ~LockedByOther(u, k)
        /\ SetStore([store EXCEPT ![k] = v])
        /\ pos' = [pos EXCEPT ![u] = k]
        /\ resp' = [resp EXCEPT ![u] = Lengths(k, v)]
        /\ UNCHANGED ub
  /\ UNCHANGED <<envState, dbState, writes, ecur, cursorp, dbRef, pc, current,
                 pass, seen>>

\* Cursor::Delete(flags): deletes the record under the cursor; KEYEMPTY
\* (already deleted) returns false.  The cursor stays on the deleted slot.
CursorDelete(u) ==
  /\ ecur[u] # "none" /\ pc[u] = "idle"
  /\ \/ CursorCallFaults(u)
     \/ /\ CursorFault(u) = "none" /\ pos[u] = Unpositioned
        /\ resp' = [resp EXCEPT ![u] = Ans("Error")]
        /\ UNCHANGED <<store, stable, pos, ub>>
     \/ /\ CursorFault(u) = "none" /\ pos[u] # Unpositioned
        /\ ~LockedByOther(u, pos[u])
        /\ IF store[pos[u]] = NoRecord
             THEN /\ resp' = [resp EXCEPT ![u] = Ans("false")]
                  /\ UNCHANGED <<store, stable>>
             ELSE /\ SetStore([store EXCEPT ![pos[u]] = NoRecord])
                  /\ resp' = [resp EXCEPT ![u] = Ans("true")]
        /\ UNCHANGED <<pos, ub>>
  /\ UNCHANGED <<envState, dbState, writes, ecur, cursorp, dbRef, pc, current,
                 pass, seen>>

\* DeadlockLoop throws BdbException: the deadlock retries ran out, or the
\* engine raised another error.  Nothing changed.
CursorFails(u) ==
  /\ ecur[u] # "none" /\ pc[u] = "idle" /\ CursorFaults
  /\ CursorFault(u) = "none"
  /\ resp' = [resp EXCEPT ![u] = Ans("Error")]
  /\ UNCHANGED <<envState, dbState, store, writes, ecur, pos, cursorp, dbRef,
                 pc, current, pass, seen, stable, ub>>

-----------------------------------------------------------------------------

Next ==
  \/ EnvOpen \/ EnvDispose \/ DbOpen \/ DbDispose
  \/ \E k \in Keys, v \in Lens \cup {NoRecord} : Write(k, v)
  \/ \E o \in Objs : NewObj(o) \/ Dispose(o) \/ ObjClose(o)
  \/ \E e \in Enums : \/ EnumMoveNext(e) \/ EnumNext(e) \/ EnumNextFails(e)
                      \/ EnumReset(e) \/ EnumResetFails(e)
  \/ \E u \in Curs :
       \/ \E how \in GetPositions \ {"Set", "SetRange"}, off \in Offsets,
             cap \in BufferCaps : CursorGet(u, how, NoKey, off, cap)
       \/ \E how \in {"Set", "SetRange"}, k \in Keys, off \in Offsets,
             cap \in BufferCaps : CursorGet(u, how, k, off, cap)
       \/ \E how \in GetPositions \ {"Set", "SetRange"} : CursorGetStream(u, how, NoKey)
       \/ \E how \in {"Set", "SetRange"}, k \in Keys : CursorGetStream(u, how, k)
       \/ \E k \in Keys, v \in Lens : CursorPut(u, k, v)
       \/ CursorDelete(u) \/ CursorFails(u)

Spec == Init /\ [][Next]_vars

-----------------------------------------------------------------------------
(* Properties.                                                             *)

\* A pass of an enumerator that began when it was created and ended with
\* MoveNext returning false at the end of the store (no exception, no
\* Dispose in between) yielded, in ascending key order, every record that
\* stayed in the store throughout the pass, however other threads and
\* Cursors wrote around the enumerator's cursor (GetCursor, MoveNext).
ForwardPassComplete ==
  \A e \in Enums :
    pass[e] = "fresh" /\ resp[e] = Ans("end") =>
      /\ stable[e] \subseteq ToSet(seen[e])
      /\ IsSorted(seen[e], <)

\* The iterator protocol (spec 4.6): a pass begun by creation or by Reset
\* that ends normally yields every record that stayed in the store
\* throughout, in key order; and once MoveNext has answered false because
\* the table was closed, MoveNext and Reset go on answering false or
\* returning instead of throwing.
IteratorProtocol ==
  /\ \A e \in Enums :
       pass[e] \in {"fresh", "reset"} /\ resp[e] = Ans("end") =>
         /\ stable[e] \subseteq ToSet(seen[e])
         /\ IsSorted(seen[e], <)
  /\ \A e \in Enums : resp[e] = Ans("NullRef") => pass[e] # "closed"

\* After MoveNext answers true, Current is the record under the cursor with
\* its whole value, however long the value (GetCurrent's Resize and
\* re-read), and it stays so while the cursor holds its lock.
CurrentIsStored ==
  \A e \in Enums :
    resp[e] = Ans("true") /\ ecur[e] = "open" =>
      current[e] = [key |-> pos[e], len |-> store[pos[e]]]

\* No engine cursor stays open once its object has dropped _cursorp: ClearAll
\* and !Cursor close it unless the Database's close already did.
NoLeakedCursor ==
  \A o \in Objs : ecur[o] = "open" => cursorp[o]

\* No call goes through a NULL, closed or freed native handle (spec 3:
\* operations on a Cursor after its table is closed are rejected rather
\* than attempted): Cursor calls after Dispose of the Database, a cursor
\* closed twice, the Database closed after its Environment.
NoUseOfClosedHandle == ub = {}

=============================================================================
