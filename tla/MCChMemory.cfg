SPECIFICATION MCSpec
CONSTANTS
  Task = {t1, t2}
  EndMem = 7
  Sizes = {1, 2}
  ObjSize = 2
  WaSize = 2
  MaxRefs = 2
  Programs <- MCPrograms
  ta = ta
  tb = tb
  tc = tc
  Threads = {ta, tb, tc}
  Queues = {q1}
  Lists = {l1}
  Prio <- MCPrio
CHECK_DEADLOCK FALSE
INVARIANTS MemoryInv
PROPERTIES ListsAreSequences
