CONSTANTS
  Threads = {t1, t2, t3}
  MutexQueue = m
  Queues = {m}
  NoQueue = NoQueue
  NoThread = NoThread
  Timeouts = {"zero", "finite", "infinite"}
SPECIFICATION FairSpec
PROPERTY AcquireReturns
CHECK_DEADLOCK FALSE
