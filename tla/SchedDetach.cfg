CONSTANTS
  t1 = t1
  t2 = t2
  t3 = t3
  c0 = c0
  c1 = c1
  Threads = {t1, t2, t3}
  CPUs = {c0}
  Queues = {}
  NUM_PRIORITIES = 3
  InitialQuantum = 1
  NoCpu = NoCpu
  NoQueue = NoQueue
  Main = t1
  Priority <- MCJoinerLow
  Uses = {"join"}
  UseOf <- MCUseOf
SPECIFICATION Spec
INVARIANTS JoinerFindsThread
CHECK_DEADLOCK FALSE
