\* Calls through NULL, closed or freed native handles, on the same instance
\* as MCHandles.cfg.
CONSTANTS
  Keys = {1, 2}
  Lens = {1, 2}
  ValueCapacity = 1
  KeyFits = {1, 2}
  Enums <- MCEnums
  Curs <- MCCurs
  NoRecord = NoRecord
  MaxWrites = 1
  CursorFaults = TRUE
  BufferCaps = {1}
  Offsets = {0}
  e1 = e1
  u1 = u1
SPECIFICATION Spec
INVARIANT
  NoUseOfClosedHandle
