SPECIFICATION Spec
CONSTANTS
  main = main
  a = a
  b = b
  idle = idle
  Thread = {main, a, b}
  Idle = idle
  Main = main
  BasePrio <- MCPrio
  CH_TIME_QUANTUM = 1
  Sem = {s1, s2}
  Mtx = {m1, m2}
  Cond = {c1}
  Ev = {0, 1}
  MbSize = 2
  QSize = 2
  Programs <- MCPrograms
  Times = {1, 2}
  Listener = {a}
  Prios = {2, 3}
  MaxCount = 1
INVARIANTS KernelInv PriorityRules NothingLost
PROPERTIES ThreadsProgress
