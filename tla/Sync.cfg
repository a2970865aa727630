CONSTANTS
  Threads = {t1, t2}
  MutexQueue = m
  SemQueue = s
  EventQueue = e
  Queues = {m, s, e}
  NoQueue = NoQueue
  NoThread = NoThread
  Timeouts = {"zero", "finite", "infinite"}
  MaxValue = 1
  MaxTokens = 2
SPECIFICATION SyncSpec
INVARIANTS SyncTypeOK MutualExclusion CountExact SemCountExact NoSleeperOnSignaled OneReleasePerSignal QueueNodeUnique NoDanglingTimer
PROPERTIES WakeIsFinal TimedWaitEnds UntimedWaitsReturn EventWaitReturns
CHECK_DEADLOCK FALSE
