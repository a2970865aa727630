CONSTANTS
  t1 = t1
  t2 = t2
  t3 = t3
  c0 = c0
  c1 = c1
  Threads = {t1, t2}
  CPUs = {c0, c1}
  Queues = {q}
  NUM_PRIORITIES = 2
  InitialQuantum = 1
  NoCpu = NoCpu
  NoQueue = NoQueue
  Main = t1
  Priority <- MCEqual
  Uses = {"timed"}
  UseOf <- MCUseOf
SPECIFICATION Spec
INVARIANTS OnlyTimedWaitsTimeOut
CHECK_DEADLOCK FALSE
