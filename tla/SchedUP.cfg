CONSTANTS
  t1 = t1
  t2 = t2
  t3 = t3
  c0 = c0
  c1 = c1
  Threads = {t1, t2}
  CPUs = {c0}
  Queues = {q, r}
  NUM_PRIORITIES = 3
  InitialQuantum = 1
  NoCpu = NoCpu
  NoQueue = NoQueue
  Main = t1
  Priority <- MCEqual
  Uses = {"all"}
  UseOf <- MCUseOf
SPECIFICATION Spec
INVARIANTS QueueNodeExact PreemptTimerExact OnlyTimedWaitsTimeOut JoinSafe
PROPERTIES ImplementsWaitQueue
CHECK_DEADLOCK FALSE
