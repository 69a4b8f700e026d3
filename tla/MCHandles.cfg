\* One enumerator and one Cursor on a Database of two records, with other
\* threads' writes, thrown cursor calls, and Database and Environment
\* disposal at any point.  Every key fits the enumerator's key buffer; every
\* value (length 2) is longer than its value buffer of 1, so GetCurrent
\* always resizes and reads again, and a caller's buffer of 1 or 2 makes
\* Cursor::Get copy a part of a value or all of it (from offset 0 only:
\* a second offset doubles the run).
CONSTANTS
  Keys = {1, 2}
  Lens = {2}
  ValueCapacity = 1
  KeyFits = {1, 2}
  Enums <- MCEnums
  Curs <- MCCurs
  NoRecord = NoRecord
  MaxWrites = 1
  CursorFaults = TRUE
  BufferCaps = {1, 2}
  Offsets = {0}
  e1 = e1
  u1 = u1
SPECIFICATION Spec
INVARIANTS
  TypeOK
  ForwardPassComplete
  CurrentIsStored
  NoLeakedCursor
