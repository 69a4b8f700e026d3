----------------------------- MODULE KVTypes -----------------------------
(***************************************************************************)
(* Constants shared by the abstract store (KVStore) and the wrapper models *)
(* that refine it: requests, slots and the results the store promises.     *)
(***************************************************************************)
EXTENDS Integers, FiniteSets

CONSTANTS
  Clients,      \* threads calling into the same Database handle
  Keys,         \* keys of the store
  Lens,         \* value lengths; a value is abstracted to its length
  Caps,         \* capacities of caller-supplied read buffers
  FixedLength,  \* TRUE for Queue/Recno stores, which keep a deleted slot
  NoRecord,     \* slot of a key that has no record
  EmptySlot,    \* slot of a deleted record in a fixed-length store
  NoOp,         \* no request outstanding / no response yet
  Error,        \* the call threw a BdbException (StatusCode Error)
  Fatal         \* the call threw after exhausting deadlock retries

Slots == Lens \cup {NoRecord, EmptySlot}

\* Requests of the DataBuffer methods; GetStream is the Get that returns a
\* Stream over a value the engine allocates.
Requests ==
       [kind : {"Get"}, key : Keys, cap : Caps]
  \cup [kind : {"GetStream", "GetLength", "Delete", "Exists"}, key : Keys]
  \cup [kind : {"Put"}, key : Keys, len : Lens]

\* Requests of the older Dbt-based methods: Get/Put/Delete(Dbt*), Get(String)
\* (which lets the engine allocate the value), the read-modify-write Put
\* with a delegate, and Truncate.  The delegate is
\* abstracted to the length it leaves in the DatabaseEntry when the record
\* was found and when it was not (0 asks for a delete).
LegacyRequests ==
       [kind : {"Get"}, key : Keys, cap : Caps]
  \cup [kind : {"GetString", "Delete"}, key : Keys]
  \cup [kind : {"Put"}, key : Keys, len : Lens]
  \cup [kind : {"RMW"}, key : Keys, onFound : {0} \cup Lens, onMissing : {0} \cup Lens]
  \cup [kind : {"Truncate"}]

Failures == {Error, Fatal}

\* The slot a deleted record leaves.
Deleted == IF FixedLength THEN EmptySlot ELSE NoRecord

\* Length the RMW delegate leaves for a record in slot s.
Transformed(r, s) == IF s \in Lens THEN r.onFound ELSE r.onMissing

\* The result the store promises for request r on a key whose slot is s:
\* reads report the record length (also when it exceeds the buffer) or -1,
\* Put reports the bytes written, Delete whether a record existed, Exists
\* the status code.  Results of different kinds carry different fields.
Result(r, s) ==
  CASE r.kind \in {"Get", "GetStream", "GetLength", "GetString"} ->
         [len |-> IF s \in Lens THEN s ELSE -1]
    [] r.kind = "Put"                  -> [len |-> r.len]
    [] r.kind = "Delete"               -> [found |-> s \in Lens]
    [] r.kind = "Exists"               -> [code |-> IF s \in Lens THEN "Success"
                                                   ELSE IF s = EmptySlot THEN "KeyEmpty"
                                                   ELSE "NotFound"]
    [] r.kind = "RMW"                  -> [done |-> TRUE]

\* The slot after request r is applied to slot s.
Effect(r, s) ==
  CASE r.kind = "Put"                  -> r.len
    [] r.kind = "Delete" /\ s \in Lens -> Deleted
    [] r.kind = "RMW"                  -> IF Transformed(r, s) > 0 THEN Transformed(r, s)
                                          ELSE IF s \in Lens THEN Deleted ELSE s
    [] OTHER                           -> s

\* Request r applied to the whole store st: Truncate empties it and reports
\* how many records it removed.
StoreEffect(r, st) ==
  IF r.kind = "Truncate" THEN [k \in Keys |-> NoRecord]
  ELSE [st EXCEPT ![r.key] = Effect(r, st[r.key])]

StoreResult(r, st) ==
  IF r.kind = "Truncate" THEN [count |-> Cardinality({k \in Keys : st[k] \in Lens})]
  ELSE Result(r, st[r.key])

=============================================================================
