CONSTANTS
  Timers = {a, b}
  CPUs = {c0}
  TimeBits = 4
  OFF = OFF
  Delays = {0, 3}
  Periods = {2}
  Latency = 1
  TickTime = 1
  SetTime = 1
SPECIFICATION Spec
INVARIANTS SortedQueue NeverEarly NeverLate CancelIsFinal
