# A TLA+ verification project for the LK kernel in this repository

The repository is a boot loader for Exynos phones built on LK ("The LK embedded
kernel. An SMP-aware kernel designed for small systems"). Its own core logic is
the kernel in `src/kernel`: threads, scheduler, wait queues, the synchronisation
objects on top of them, timers and ports. Everything else (console, file systems,
network, fastboot, storage) runs in threads of that kernel and waits through it.
The project starts there and goes on to three parts with hard state of their
own: the block cache under the file systems, TCP, and the slot information that
decides across reboots which system is booted.

## 1. Inventory

| Part | State | Operations | Interacts with | What is hard | What makes it correct |
|---|---|---|---|---|---|
| wait queues (`thread.c`) | list of blocked threads; per thread: return code, timer on the stack | block, wake one, wake all, destroy, unblock on timeout | scheduler (ready threads), timers (timeouts) | a wait is two critical sections; timeout against wake-up | one list per thread, wake-ups final, no timer left behind, timed waits end |
| threads and scheduler (`thread.c`) | thread states, priorities, quanta, run queues and bitmap, current thread per CPU, preemption timer per CPU | create, resume, join, detach, exit, yield, preempt, sleep, set priority, set real time, tick | wait queues, timers, mp | all CPUs share one run queue; the lock is held across the switch and released on another stack | a thread is in one list and on one CPU, nobody starves among equals, joiners never touch a freed thread |
| multiprocessor (`mp.c`) | masks of active, idle, real-time CPUs | send and receive reschedule interrupt | scheduler | a CPU that goes idle while a thread becomes ready | no CPU idles beside work untold |
| mutex, semaphore, event | counters, holder, signaled flag, one wait queue | acquire, release, post, wait, signal, destroy | wait queues | state changed before a wait is repaired after it | exclusion, no unit given twice, no lost or doubled signal |
| timers (`timer.c`) | sorted queue and one-shot hardware timer per CPU | set, cancel, tick | hardware timer, every caller above | wrapping time; callbacks run without the lock and may set and cancel | never early, never forgotten, cancel is final |
| ports (`port.c`) | named write ports, read ports, groups; a ring of packets that moves from writer to reader and back; one wait queue per read port and group | create, open, write, read, close, destroy, group create, add, remove | wait queues | a sleeping reader keeps pointers while others close; wake-ups counted per packet; names checked and inserted in two steps | pointers agree both ways, packets of a unicast port in order and once, no sleeper beside packets |
| block cache (`lib/bcache`) | frames, free list, LRU list; per frame block number, references, dirty mark | read, get, put, mark dirty, zero, flush, destroy | block device (`lib/bio`), file systems | eviction against blocks in use and against changes not yet written; failing transfers | reads return what was written last, blocks in use stay, a flush leaves nothing behind |
| TCP (`lib/minip/tcp.c`, `net_timer.c`) | state, windows, receive ring, transmit buffer, two events, three timers, reference count | listen, accept, read, write, close, input, retransmit, delayed ACK, TIME_WAIT | events, mutexes, network timers, IP | unreliable network; three threads and a callback that is already running; wrapping sequence numbers | streams intact, references exact, nothing waits for a timer nobody set |
| pages and heap (`novm`, `vm`, `lib/heap`) | page maps, free lists, delayed-free list | allocate, free | mutexes, thread exit | failure half way | no overlap, no leak |
| buffers and deferred work (`lib/cbuf`, `lib/dpc`) | ring or list, event | read, write, queue, run | events, interrupts | interrupt writer against reading thread | nothing lost, readers wake |
| A/B slots (`platform/exynos9630/ab_update`, `app/exynos_main`) | per slot: bootable, active, successful, tries left, on flash | update at every boot, set active, switch after a boot loader's failure | fastboot, verified boot, BL1, the operating system | power loss between a write and the medium; resets as the way out of failure | always a slot to boot or fastboot, tries counted, no reset loop |
| lock state (`lib/lock`, `dev/rpmb`) | lock state and write counter in RPMB | lock, unlock | fastboot, storage | power loss between steps | counter and state agree |

`PROJECT.json` lists every part, modelled or not, with the reason, and the
hazards at their source lines.

## 2. Plan

1. **Done.** `WaitQueue` (abstract), then `Mutex`, `Semaphore`, `Event` on it and
   `Sync`, which composes the three; `Sched` (detailed; implements `WaitQueue`);
   `Timer`; `Port` over `WaitQueue`; `BlockStore` (abstract) and `Bcache`
   (implements it); `Tcp`; `Boot`. Theorems for the wait queues, the three
   objects and their composition, the scheduler, the timers, the ports, the block
   cache, TCP and the slots.
2. **Next theorems.** None of the invariants that runs check is left; the liveness
   properties are out of the prover's reach.
3. **Next modules.** `Novm` and the heap's free and delayed-free lists; `Cbuf`
   and `Dpc` over `Event`; then the lock state and the RPMB write counter across
   power loss.

## 3. Modules and the code

Every definition that models code is mapped to its lines in `PROJECT.json` and
keeps the name it has in C. Definitions marked *Mutant* are deliberate mistakes;
no specification uses them. They show for each property a plausible bug it
would catch.

* **`WaitQueue`** - the wait queues as their users see them. Every routine runs
  under `thread_lock`, so each is one step, except `wait_queue_block`, which
  gives the CPU away in the middle: `wait_queue_block` links the thread and
  arms the timer, `wait_queue_return` is the rest, when the thread runs again.
  `frame[t]` is the queue of the call the thread is in; a thread is blocked
  while it is also in that queue's list and woken once it is not. Timeouts are
  of three kinds: zero, finite, infinite; `Timeouts` has those a run allows.
* **`Mutex`, `Semaphore`, `Event`** - `mutex.c`, `semaphore.c`, `event.c`. Each
  extends `WaitQueue` with the object's own fields; an operation that blocks is
  split where `wait_queue_block` is. `Semaphore` carries a history variable
  `tokens` (units initialised and posted less units taken) and `Event` one
  called `budget` (signals accepted less threads let through), which the
  properties compare with the code's counters.
* **`Sync`** - the three objects used by the same threads. A thread has one
  `queue_node`, one return code and one timer, which it takes from object to
  object, so that a mistake in one would show in another. The objects are
  destroyed and initialised again while threads go on.
* **`Sched`** - `thread.c` and `mp.c` in detail. A critical section is one step
  up to `thread_resched`; the lock (`thread_lock`) then stays with the CPU until
  the thread switched to completes its own call (`thread_resched_return`).
  Interrupts on other CPUs go on meanwhile. A timeout is two steps, since
  `timer_tick` takes the timer off its queue before the callback waits for the
  lock. A reschedule request is remembered (`resched`) until the interrupt
  returns. The idle thread of a CPU is the CPU itself. The CPUs start one after the
  other: the boot CPU becomes idle and schedules, and `arch_init` releases the
  secondaries, each in its own time. `thread_become_idle` marks a starting CPU active
  and then idle without `thread_lock`, so it is three steps
  (`mp_set_curr_cpu_active`, and the load and the store of the plain `|=` in
  `mp_set_cpu_idle`), between which other CPUs schedule and change the same mask. What the threads do with
  the scheduler, who is pinned, sleeps, joins, exits or turns real time, is a *use*,
  chosen in the initial state from the constant `Uses`. `MCSched` names threads,
  CPUs, priorities and uses for TLC; its view, for the run on two CPUs, drops what
  no later step and no property reads: the mask of idle CPUs and the return code of a
  wait that is over.
* **`Timer`** - `timer.c` built with `PLATFORM_HAS_DYNAMIC_TIMER` (the generic
  ARM timer of these boards), with the wrapping `lk_time_t`, the comparison
  macros of `sys/types.h` and the hardware one-shot timer. `timer_set` is two
  steps, because it reads the time before it takes the lock; a tick is one step
  per locked stretch. `left` is a history variable: the true, unwrapped time
  until a timer is due.
* **`Port`** - `port.c`. Objects are records at addresses. Freed memory is used
  again, but not while somebody will still look at it, so that the use of a stale
  pointer is seen for what it is. A call is one step, except where the code gives
  up `thread_lock`: `port_create` between looking the name up and inserting the
  port, `port_read` asleep, and closing a group, which reschedules after waking
  its readers. Packets of a unicast port are numbered modulo the ring's size plus
  one, which tells a lost, doubled or swapped packet from the right one. When the
  code follows a pointer to freed memory, walks through a cleared list node or
  returns with `thread_lock` held, `broken` says so and the system stops. `risk`
  names the kind of use that leads there or to a lost wake-up: `remove` (a port
  taken out of its group), `close` (an object closed while a reader that was woken
  has not run) and `crowd` (several packets at once for several sleepers, or a
  port read both directly and through its group). An execution of the model has
  at most one kind: what would start a second one is disabled, so that every
  effect is shown with its cause.
* **`MCPort`** - names for TLC, a symmetry set and a view. Threads, write ports and
  read ports are interchangeable. The view drops what no later step reads: the
  return code and timer of a reader that has been sent away, and the absolute
  packet numbers, which count relative to the next packet due.
* **`BlockStore`, `Bcache`** - `BlockStore` is what a file system may rely on: a
  store that reads back what was last written, over a device that lags behind.
  `Bcache` is `lib/bcache`, a call per step, over a device that may fail every
  transfer. A read that fails puts the frame into the free list while it is still
  linked into the LRU list, already under the number of the block that could not
  be read; the caller gets an error and goes on. From then on (`torn`) the two lists are what
  the `next` and `prev` pointers make of them (`links`), each call changing these as
  `list.h` does and finding what its walk meets; the model ends only at an assertion,
  or where a walk does not come back to its head or a block that is held is no longer
  found. The refinement maps a block to its content in the cache if it is
  there and to the device's otherwise. `user_write` is the caller that writes
  through the pointer it got; `unmarked` holds the blocks so changed and not yet
  passed to `bcache_mark_block_dirty`. `MCBcache` adds the symmetry of the block numbers.
* **`Tcp`** - one accepted connection of `tcp.c` with the timers of `net_timer.c`.
  The socket is a record; the functions of the file are operators from sockets
  to sockets, composed as the code calls them, and what happens under `s->lock` is
  one step. Outside the lock are a caller asleep in `tcp_read`, one in
  `tcp_write`, the network thread between `lookup_socket` and the lock, and a
  timer callback that was taken off the queue; each holds a reference. The
  network loses, delays, duplicates and reorders: what may arrive is any
  segment the peer can have sent up to now, with any acknowledgement it can have
  given (`FromPeer`), and what the peer may get is any segment the socket has
  sent (`peer_receive`). The peer may cut its stream into segments anew when it
  repeats bytes, and may reset the connection.
* **`Boot`** - `ab_update.c` of exynos9630 (exynos3830 has the same file) with the
  paths of `exynos_main.c`, `cmd_boot.c` and `fastboot_cmd.c` through it. One state
  machine runs boot after boot: BL1, the checks that choose between fastboot and
  boot, the update of the slot information, verification, and a kernel, a reset or
  fastboot at the end. `info` is the slot information as the code reads it and
  `medium` the set of contents that a loss of power may leave: a write adds to it,
  and it shrinks to `info` when the storage device has written its buffer, which
  the code waits 500 ms for before a reset and asks for with `scsi_do_ssu` before it
  starts a kernel; the latter may fail. BL1, the operating system's boot control, a person
  at the fastboot prompt, crashes and power cuts are external actions. Whether a
  device is locked changes in fastboot; whether the build has
  `RAMDUMP_MODE_OFF` is a choice in the initial state. `tried` is a history
  variable: starts of a slot's kernel, since the slot was made active, whose try
  was saved.
* **`WaitQueueProofs`, `SyncProofs`, `SchedProofs`, `TimerPortProofs`, `BcacheProofs`,
  `TcpProofs`, `BootProofs`** - the theorems, each about the module it is named after
  (`SyncProofs` has those of `Mutex`, `Semaphore` and `Event` too; `TimerPortProofs` has
  two halves that have nothing to do with each other). **`ListProofs`** has the facts about lists
  they share: what appending, inserting, removing, splitting and moving to the tail do to
  the elements of a list and to its freedom from duplicates, and that a finite set of
  positions can be enumerated.

## 4. Runs

| Run | Instance | Shows |
|---|---|---|
| `sync` | 2 threads, mutex, semaphore and event, all timeouts | exclusion through hand-over; exact counts of mutex and semaphore; no sleeper on a signaled event and one release per signal; unique queue nodes, no dangling timer, final wake-ups; every timed wait ends, untimed waits end without timed ones beside them, event waits end |
| `mutex_lost_wakeup` | `Mutex` alone, 3 threads, expected to fail | with timed waits a thread can wait for ever for a free mutex |
| `sched_up` | 1 CPU, 2 threads, 2 queues, every operation | exact queues, bitmap and preemption timer, joins, timeouts; implements `WaitQueue` |
| `sched_smp` | 2 CPUs; 3 threads that may run anywhere, or 2 with one pinned, which sleep, time out and turn real time | one list or one CPU per thread, exact bitmap, pins obeyed, no CPU idle beside work |
| `sched_round_robin` | 1 CPU, 3 equal threads | every ready thread gets to run |
| `timer` | 1 CPU, 2 timers, 4-bit clock | order across the wrap, never early, never forgotten, cancel final |
| `port` | 2 readers, 1 write port, 2 read ports, 1 group, ring of 2 | pointers agree, unicast packets in order and once, no sleeper beside packets, and what use precedes every fault |
| `bcache` | 2 frames, 3 blocks, 2 values | until a read of the device fails: cache and device agree, blocks in use stay where they are, `BlockStore` is implemented |
| `tcp` | 16 sequence numbers, 4 bytes each way | both streams intact, `rx_win_low` counts what arrived (but for the last byte of a stream whose FIN was accepted), exact references, nothing stranded, only two assertions can fail |
| `boot` | 2 slots, 2 tries, 2 power cuts | slot information always usable, starts paid for with tries, a successful slot is kept, no endless resets |
| `sched_stale_timeout` | 2 CPUs, expected to fail | a late callback ends a wait that has no timeout |
| `sched_detach_race` | 1 CPU, expected to fail | `thread_detach` frees a thread under a woken joiner |

**Bounds.** In `sync` two threads suffice for each object's cases, because whoever
posts, signals, destroys or initialises need not be one of them: one that waits
and one that comes between. Three threads with all three objects are beyond the
time a run should take with liveness; the hand-over with a third thread is in
`mutex_lost_wakeup`, and the safety properties are proved for any number of threads
in `SyncProofs`. The semaphore's
count is bounded by `MaxValue` and `MaxTokens`; its interesting values are around
zero. In `Sched`, two or three priorities, a quantum of 1 (in the code 5) and at
most three threads keep the runs small; each run names the uses it looks at, so
that every action happens in some run without all of them multiplying. In `Timer` the clock has 16 values and
wraps in every behaviour; delays of 0 (taken for 1) and 3 and a period of 2 keep
due times within half the clock, as 32 bits do in the code; latencies of one tick
let time pass at every point where the code can be delayed.

In `port` a ring of 2 packets fills and wraps, writes of 1 and 2 packets overflow
it, and with two read ports a ring is handed over, given back and copied to a
second reader. In `bcache` three blocks compete for two frames, so that eviction
meets clean, dirty and referenced frames; `MaxRefs` bounds the pointers to one
block that are out. In `tcp` both initial sequence numbers lie just below the wrap, the
peer's 4 bytes fill the receive window and the application's 4 exceed the
transmit buffer of 3 and the segment size of 2, so that both sides block, send
partial segments and see the sequence numbers pass zero. `SizesAssumption`
keeps everything in flight within half the sequence space, as 32 bits do, and
`ArgumentsAssumption` leaves out lengths of 0, for which `tcp_read` and `tcp_write`
return at once. In
`boot` a slot has `MaxTries` = 2 tries in place of 7, enough for one that succeeds,
one that is left and none, and power is cut up to `MaxCuts` = 2 times at any
point; crashes, failed verifications, updates and fastboot commands are not
bounded.

**Deadlock** is checked in `timer` and `boot`. The other systems really may stop: everyone
blocked with nobody left to wake them, or the code halted by an assertion.

**Fairness.** A woken thread eventually runs (the scheduler; checked for equal
priorities by `sched_round_robin`) and an armed timer fires. `SyncFairness` adds
that holders release and that posts and signals keep coming: without these,
waiting for ever is right. `Port`, `Bcache` and `Tcp` state safety only; that
nothing is forgotten is said there by invariants (`NoSleeperOnPackets`,
`NothingStranded`): whoever waits has somebody who owes the wake-up. `Boot`
assumes that the boot loader goes on executing, and nothing of the operating
system or the user. `Sched` assumes that CPUs execute
(weak fairness of `thread_resched_return` and of the steps in which a CPU starts) and strong
fairness of the tick and of preemption: they are enabled again and again and not
continuously, because the CPU passes through regions with interrupts off, but a
pending interrupt is kept by the controller until it is taken.

**What the runs expected to fail mean.**

* `mutex_lost_wakeup`: a timed-out waiter is counted in `m->count` until it
  runs. A release in that window sees a waiter, finds the queue empty and wakes
  nobody; a thread that acquires before the count is corrected blocks on a
  mutex without holder. `UntimedWaitsReturn`, in the run `sync`, shows that
  this takes a finite timeout. `semaphore.c:88-92` has the same window, so the
  property is restricted in the same way for both.
* `sched_stale_timeout`: `timer_cancel` does not wait for a callback that has
  begun on another CPU. On one CPU the property holds (`sched_up`).
* `sched_detach_race`: needs a joiner, an exiting thread and a third that
  detaches. With only the joiner and the joined thread involved, in whatever order
  they join, detach and exit, joining is safe (`JoinSafe`).

**What the passing runs make room for.** Three more mistakes of the code are in the
modules, and the properties are stated around them.

* The mask of idle CPUs: `mp.h:77` wants the thread lock for `mp_set_cpu_idle`, and
  `thread.c:898` and `:945` call it without. A wrong bit stays until its CPU next
  switches threads. In this repository only a debug command reads the mask, so nothing
  else in the model depends on it and no property speaks of it; all properties are
  checked and proved with the race in the model.
* A failed read under the block cache: `bcache.c:206` says "free the block, return an
  error", but the frame is never taken off the LRU list, so the next call for the same
  block finds it there and returns its old content. This is why the properties of the
  run `bcache` hold only up to the first failed read; that run goes on behind it too.
* The last byte of a TCP stream: the test at `tcp.c:522` compares with the number of the
  last data byte and not with the FIN's. A segment with one byte and a FIN that meets a
  full receive buffer passes it: `handle_data` has dropped the byte, `rx_win_low++`
  acknowledges it, and `tcp_read` reports the end. `StreamsIntact` shows that this is
  the only byte that can be missing.

## 5. Proofs

Everything in this section holds for every value of the constants that meets the
`ASSUME`s of the modules (which TLC evaluates in the runs): any sets of
threads, queues, CPUs, priorities, frames and blocks, any number of tries.
Threads are finite where a count is a cardinality.

* `WaitQueueProofs`. The inductive invariant `WQInv` is the type invariant with
  `QueueNodeUnique` and `NoDanglingTimer`. It needs no more because every thread
  in a list has its `frame` there, so a thread that blocks, whose `frame` is
  empty, is in no list. Results: `QueueNodesAreUnique`, `TimersDoNotDangle`, and the
  action property `WakeUpsAreFinal`.
* `SyncProofs`, the mutex. Mutual exclusion is not inductive: that a newcomer cannot take
  the mutex while it is being handed over follows from the count, and the count
  is right only because woken threads are of known kinds. `MutexInv` adds to
  `WQInv` and `CountExact` that the holder is in no wait (`HolderOutside`), that
  at most one thread is being handed the mutex and only while there is no holder
  (`OneHandOver`), and why a woken thread was woken (`WokenForAReason`). Results:
  `MutexTypeCorrect`, `MutexExcludes`, `MutexCountIsExact`, and
  `MutexImplementsWaitQueue`: every mutex behaviour is a wait queue behaviour.
* `SyncProofs`, the semaphore. A waiter gives its unit back only for `ERR_TIMED_OUT`, so
  `SemInv` adds to the count that a thread that left the queue of a live semaphore
  was posted to or timed out (`ServedOrTimedOut`). Result: `SemCountIsExact`.
* `SyncProofs`, the event and all three. `EventInv` is `WQInv` with the event's two properties, which are
  inductive together. `SyncInv` is the conjunction of the three objects'
  invariants. A step of one object is a step on its own queue (`WQAt`), and a step on
  one queue leaves every other untouched as far as its object can notice
  (`Untouched`): the same threads wait on it, in the same order, and will be told the
  same. So the three proofs are reused as they are. Results: `SyncImplementsWaitQueue` and, through
  it, `SyncWakeUpsAreFinal` and `SyncQueueNodes`; `SyncTypeCorrect`, `SyncCounts`,
  `SyncNoSleeperOnSignaled`, `SyncOneReleasePerSignal`.
* `SchedProofs`. The parts of `SchedInv` (run queues and bitmap against states and
  priorities, lists of the wait queues against blocked threads, joined threads
  alive, a fired sleep timer's thread asleep, running threads against CPUs) are stated
  for *any* states, priorities and lists: a routine sets up states in which its
  thread has already left the CPU and then calls `thread_resched`. One lemma
  (`SwitchStep`) carries them across the switch, one (`KeepStep`) covers steps
  without one, and each operation only has to show what it sets up.

  One thing can break the lists, and the run `sched_detach_race` shows it: a joiner that
  was woken frees a thread that was freed meanwhile and may exist anew. So
  `SchedInvariance`, `SchedQueueNodes`, `SchedRunning`, `SchedPreemptTimer`, `SchedTimeouts`,
  `SchedWorkConserving` and `SchedImplementsWaitQueue` are about behaviours in which a
  woken joiner finds its thread (`JoinerFindsThread`), whatever else the threads do. For
  systems in which nobody joins (`NoJoiner`), or one thread joins and detaches
  the others while these exit and detach in any order (`OneReaper`), the condition is
  proved and the results hold outright: `SchedOrder`, `SchedJoinSafe`,
  `SchedManyCpus`, `SchedOneCpu`. For this `JoinInv` says who is in a join and what a
  detach in progress relies on, and `CallInv` that a thread which was switched to
  completes its call before it does anything else.

  `PreemptTimerExact` needs one CPU or no real-time threads, since
  `thread_set_real_time` does not reach the timer of another CPU.
  `OnlyTimedWaitsTimeOut` and the refinement of `WaitQueue` need one CPU, as
  `sched_stale_timeout` shows; their invariant `TimedInv` says that an armed timer
  and a callback under way belong to a sleep or a timed wait that still goes on, and
  `FiredOnce` that a timer is not both. `WorkConserving` holds on any number of CPUs:
  `MpInv` says that an idle CPU is never marked real time, so that `mp_reschedule` reaches
  it, and `WorkInv` that between two steps nothing is ready beside an idle CPU that
  has not been told. The mask of idle CPUs appears in no theorem: it can be wrong
  (section 4), and no decision of the scheduler reads it.
* `TimerPortProofs`, the timers. Two hypotheses, which the run's instance meets. One CPU
  (`Uniprocessor`): on two the race of `timer.c:247` makes the properties false. And delays
  and periods that, with the latencies added, stay below half the range of `lk_time_t`
  (`DelaysFit`): beyond that `TIME_LT` takes the future for the past. Everything rests on
  relating wrapped times to the true ones: `TimeOK` says that `scheduled` is the clock plus
  `left`, modulo the clock's range, and `LateOK` bounds `left` on both sides, so that
  `TIME_LT` and `TIME_GT` compare what they mean to (`Compare`). The bound from below, that
  nothing is overdue for long, is itself the property `NeverLate` and needs that the
  hardware timer is armed for the head, or a tick is pending or under way that will look at
  the queue (`ArmedOK`); that in turn needs the queue sorted; and that insertion keeps it
  sorted needs the comparisons. So the properties are proved together, as one invariant
  `TimerInv`. `SettingOK` and `CallbackOK` say what a call between reading the time and
  taking the lock, and a tick inside a callback, may rely on. Results: `TimerTypeCorrect`,
  `TimerSortedQueue`, `TimerNeverEarly`, `TimerNeverLate`, `TimerCancelIsFinal`.
* `TimerPortProofs`, the ports. `LinksExact` becomes inductive with what freed objects look
  like and the lists' freedom from duplicates (`ObjectsOK`). `UnicastExact` needs it, to know
  where the ring is, and a fact on remainders: numbers counted modulo the ring's size plus
  one stay in order when packets are added and taken (`BufWrite`, `BufRead`).
  `NoSleeperOnPackets` is far from inductive. A woken reader takes a packet and goes, and
  the property must then still hold for the packets left; so `CountOK` counts: a port or
  group with a sleeper has no more packets than readers on their way to it. Every step
  adds as many readers as packets or takes no fewer packets than readers (`CountStep`),
  which is where several packets for several sleepers, and a port read both ways
  (`DirectOK`), have to be excluded. `port_write` walks the list of read ports and
  wakes readers as it goes; the model says in closed form who is woken (`Wakers`), so that
  no induction over the list is needed. `FaultHasCause` follows from who may still use an
  object that is closed (`UsersOK`) and from `LinksExact`. Readers and read ports are finite,
  nothing else is bounded. Results: `PortTypeCorrect`, `PortLinksExact`, `PortUnicastExact`,
  `PortNoSleeperOnPackets`, `PortFaultHasCause`.
* `BcacheProofs`. All three results are about the cache until a read of the device
  fails (`torn`), and `BcacheHeldBlocksStay` covers the call in which it does.
  Coherence is not inductive: a frame may be dropped because it is
  clean and unreferenced, so `CacheInv` adds that changes not yet declared are in frames
  still referenced (`UndeclaredIsHeld`), besides that the two lists partition the frames
  and that no two hold a block. Results: `BcacheCoherent`, `BcacheHeldBlocksStay`, and
  `BcacheImplementsBlockStore`, whose steps follow from what each operation does to the
  content the refinement mapping sees.
* `TcpProofs`. The functions of `tcp.c` map a socket to a socket, and each has a
  lemma: what it keeps (`Keeps`), that it neither gains nor loses a reference
  (`Balanced`, over `Spare`, the references that are neither the list's nor a queued
  timer's), and that it leaves the socket sound (`Sound`). A step only has to
  compare `Spare` with those who hold the socket outside the lock. `RefsExact` and the
  rest of `NothingStranded` need more than themselves. The assertion on `acked_len`
  and the retransmit timer rest on `AllSent`: when the lock is free, `tx_buffer` is
  exactly what lies between `tx_win_low` and `tx_highest_seq`, and never more than
  half the sequence space, so that an acknowledgement that passes the two comparisons
  lies within it (`AckWithin`). The assertion on the list rests on `Listed`: who
  may still take the socket off it.

  `StreamsIntact` needs an invariant of its own, `StreamInv`, on top of `TcpInv`. It
  follows every byte from `tcp_write` to the peer and back: `TxFlow` says which byte
  `tx_win_low` numbers and that `tx_buffer` holds the ones from there on; `WireFlow`
  says of every segment that may still arrive, however late, that it carries written
  bytes under their own sequence numbers, or the SYN, or a FIN behind the acknowledged
  bytes; `RxFlow` that `rx_buffer` continues what was read, that `rx_win_low` numbers
  the next byte, and that the window offered never exceeds the room in the ring, which
  is why `cbuf_write` drops nothing; `PeerFlow` the same of the peer. Since
  all bytes of a connection fit half the sequence space (an assumption on the
  constants, `SizesAssumption`; the code relies on it for every comparison it makes), a
  segment's number determines its bytes (`LocalApart`, `SeqOfApart`), so an old segment
  cannot be taken for a new one (`DataInOrder`, `Overlap`). Each function of `tcp.c` has
  a lemma that it preserves `Flow`.

  That `rx_win_low` still counts what arrived once the application has closed, and at
  the end of the stream, is `EndInv`, proved on top of `StreamInv`.
  Before the peer's FIN is accepted `rx_win_low` is exactly the number of bytes that
  arrived; an accepted FIN adds one, and either no byte was missing or only the last
  (`EndFlow`): a FIN's segment cannot be accepted before `rx_win_low` has come to its last
  byte (`FinBehind`, `NotBefore`). Results: `TcpRefsExact`, `TcpAsserts`,
  `TcpNothingStranded`, `TcpStreamsIntact`.
* `BootProofs`. `BootInv` says of every version of the slot information that power loss
  may leave (`medium`) that it is usable and that starts and tries left fit the
  tries given; the start that is under way is paid for but not counted yet
  (`TryCounted`); and BL1 took the active slot's loader if it could (`LoaderOfActive`). Results:
  `BootOneSlotOrNone`, `BootStartsArePaidFor`, and the action property
  `BootSuccessfulSlotStays`.

Only model-checked: all liveness properties (fairness is out of the prover's
reach).

## 6. Not modelled, and limits of what is

* `Sched` on two CPUs: `thread_sleep_handler` sends no reschedule interrupt, and
  a thread that a pinned one displaces is ready while nobody is told, so
  `WorkConserving` speaks of uses without sleepers and pins. `thread_set_real_time`
  on a thread that runs on another CPU leaves that CPU's preemption timer queued
  (`thread.c:251-254`), so `PreemptTimerExact` is checked on one CPU. The mask of
  real-time CPUs is only right at context switches (`mp.c:52-55`). Of the start of a
  secondary CPU, the bootstrap thread that `lk_secondary_cpu_entry` resumes and the pin of
  the boot thread to its CPU are left out.
* `Timer` on two CPUs: between taking a timer off its queue and calling it
  (`timer.c:247-257`) another CPU may cancel it, which clears the callback, or set
  it again. The module models it; the run is on one CPU.
* Timers have one owner, who does not set a timer while another thread sets or
  cancels it. Delays of 2^31 ms and more, which `TIME_LT` takes for the past,
  are left out.
* Memory: a thread that frees itself (`thread.c:423-431`) and a destroyed mutex
  that a late waiter still writes to (`mutex.c:98-103`) are described under
  hazards. Stacks, pages and the heap are not modelled yet; in `novm.c:245` a
  reservation that fails half way keeps what it marked.
* `Port`: what `FaultHasCause` and `NoSleeperOnPackets` exempt is what the code
  really does after those uses. `port_group_remove` leaves the port's pointer to
  the group (and on its error path returns with the lock held); a reader that was
  woken looks again at a port or group that was closed and freed meanwhile; wake-ups
  counted per write call and not per packet leave a second sleeper asleep. A write
  to several readers may fail for one of them after others got the packets
  (`ERR_PARTIAL_WRITE`). A timed read starts its timeout anew each time it finds
  nothing. Two ports of the same name are possible between the two steps of
  `port_create`; the run has one write port.
* `Bcache`: what is promised ends with the first failed read of the device; the model
  goes on, with what the torn lists then do, until an assertion fails (also when no
  frame can be had for a read, `bcache.c:199`) or a walk along the pointers does not end.
  A torn cache is not destroyed; a new one on the same device is an initial state. Reads
  and writes of the device are whole blocks, and users follow the rules of the
  interface (change a block only while they hold it, mark it, put it back once).
* `Tcp`: one connection of one listening socket; the listening socket is not
  closed; resets sent in answer are not modelled, the peer falls silent. `tx_win_high`,
  which nothing but a trace reads, is left out. The model shows, and the
  properties leave room for: a FIN, and data not acknowledged at `tcp_close`, are never
  repeated; a last byte that comes with a FIN into a full window is acknowledged and
  lost (section 4); any ACK in `FIN_WAIT_1` or `LAST_ACK` is taken for that of the FIN; a
  segment that straddles `rx_win_low` fails the assertion behind `tcp.c:633`; a reset
  in `TIME_WAIT` lets the timer's callback fail its assertion; a reset after
  `tcp_close` leaves the socket's last reference with nobody. A second
  `tcp_close`, which keeps the lock, is not made.
* `Boot`: a write of the slot information is on the medium as a whole or not at
  all. `part_write` (`part.c:165-176`) returns nothing and drops the error of the write
  underneath; the model's write always reaches the device. A write that failed would leave
  the old information, so that the boot goes on with a try that was not saved. A start whose SSU command failed is not counted by `StartsArePaidFor`,
  since its try may be lost with power. A slot marked successful has
  no tries to use up: if it stops passing verification, a locked device resets for
  ever, which `BootSettles` exempts; and a power cut in the boot loader
  costs a try that no kernel has had. `SuccessfulSlotStays` speaks of slots whose boot
  loader BL1 can start. Recovery and factory modes, PMIC resets (WTSR, SMPL), the
  `fb_mode_set` check (`CONFIG_CHECK_FASTBOOT_FAIL` is not defined), and missing partitions
  are left out; `flash` is not refused on a locked device, because
  `CONFIG_CHECK_LOCK_STATE` is not defined either. The scheme with slot
  priorities in `lib/ab_update` is not modelled.
* The receive ring of `lib/cbuf` is a bounded sequence in `Tcp`. Its calls from
  interrupts (`cbuf.c:232` signals under a spinlock) are not modelled.
* Statistics, tracing, names, debug dumps and start-up order are left out, as are
  the vendored compiler, `external`, the AVB library and the drivers' register
  protocols. They are most of the repository's lines (compiler headers,
  register maps and debug tables of the chips alone are several hundred
  thousand) and have no behaviour of their own to model; the modules cover the
  part in which state, concurrency and failure meet.

## 7. Running

    tlc -workers 2 -config Sync.cfg Sync
    tlc -workers 2 -config SchedUP.cfg MCSched
    tlc -workers 2 -config Port.cfg MCPort
    tlc -workers 2 -config Bcache.cfg MCBcache
    tlc -workers 2 -config Tcp.cfg Tcp
    tlc -workers 2 -config Boot.cfg Boot
    tlapm SyncProofs.tla      (and the other modules *Proofs; SchedProofs and TimerPortProofs take several minutes)
