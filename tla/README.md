# A TLA+ verification of managarm

managarm is a microkernel operating system. This directory holds TLA+ models of the
concurrent protocols of its kernel, thor, and of the parts of its user space that wait
and wake; the TLC configurations that check them on small instances; and TLAPS proofs of
the most important invariants for every size. `PROJECT.json` lists components, runs,
mutants, hazards and theorems, and maps every definition to the source lines it models.

## The system and its parts

**thor** (`kernel/thor`) is the kernel.

| Part | Source (under `kernel/thor/generic` unless noted) | Module |
|---|---|---|
| Threads: blocking, conditions, interrupts, migration, exit | `thread.cpp`, `thread.hpp`, `traps.hpp`, `ints.cpp` of the architectures | `Thread` |
| Work queues, load balancer | `work-queue.cpp`, `load-balancing.cpp` | their effect on a thread, in `Thread` |
| Scheduler of a CPU | `schedule.cpp`, `schedule.hpp` | `Scheduler` |
| RCU | `rcu.cpp`, `rcu.hpp` | `Rcu`, `LocalRcu` |
| Interrupt lines | `irq.cpp`, `irq.hpp` | `IrqPin` |
| ASIDs, TLB shootdown, page-space retirement | `asid.cpp`, `asid.hpp` | `Shootdown` |
| IPC streams and message exchange | `stream.cpp`, `stream.hpp`, `hel.cpp` | `Stream`, `Flow`; promise: `Rendezvous` |
| IPC queues | `ipc-queue.cpp`, `hel.cpp`, `hel/include/helix/ipc.hpp` | `IpcQueue`, `SubmitQueue`; promise: `Fifo` |
| Futexes | `futex.hpp` | `Futex` |
| Events, timers, cancellation by tag | `event.cpp`, `timer.cpp`, `cancel.cpp` | `CancelTags` |
| Page cache, mappings | `memory-view.cpp`, `address-space.cpp`, `address-space.hpp` | `ManagedSpace` |
| Other system calls, universes, heap, kernel services, architecture and platform code | `hel.cpp`, `universe.cpp`, ... | not modelled |

User space:

| Part | Source | Module |
|---|---|---|
| epoll | `posix/subsystem/src/epoll.cpp` | `Epoll` |
| pipes, eventfds | `posix/subsystem/src/fifo.cpp`, `eventfd.cpp` | `Pipe`, `EventFd` |
| flock() | `protocols/fs/src/file-locks.cpp` | `FileLocks` |
| processes, file systems, mbus, drivers, libraries, boot loader | | not modelled |

How the parts interact: drivers and servers talk over streams, whose results arrive in
IPC queues. Every system call that waits runs `Thread::asyncBlockCurrent()`; completions
arrive from other CPUs as worklets or as `unblockOther()`, and a thread that is unblocked
goes through its CPU's scheduler. Address spaces free page tables and frames through
shootdown, retirement and RCU; the page cache fences mappings with `LocalRcuEngine`
barriers. The POSIX subsystem is a server whose coroutines run on one thread.

## The modules

Each component has a module with its state, actions and properties. The `MC` modules
extend them for TLC, and the `Proofs` modules extend them with theorems. `Rendezvous` and
`Fifo` are abstract: they say what streams and queues promise, without mechanism.

A few conventions hold throughout.

- One action is one stretch of code that other threads cannot see the middle of: a
  critical section, or one atomic access outside of a lock. In the POSIX subsystem, whose
  coroutines run on one thread, it is the code up to the next await.
- Where the code releases a lock before it raises an event, wakes a thread or sends an
  IPI, the second half is an action of its own. In `Shootdown` the delay before the IPI
  is sent is part of the delay before it arrives (`ArriveIpi`).
- Locals that are dead get their initial values back, which only merges equivalent
  states.
- Operators under a comment "Mutant of X" are used by no action. They are faulty variants
  of X that show that a property can fail.
- Memory is sequentially consistent. In `IpcQueue` every access to the shared memory is a
  step, in program order; the orderings that the atomics of the two sides ask for are not
  modelled.
- `async::recurring_event` is modelled from its use: `async_wait_if(cond)` tests `cond`
  atomically with respect to `raise()`, and any `raise()` resumes the waiter without
  testing `cond` again.

### Thread

One thread is a process with program counter `tpc`. *Agents* are everything that acts on
it from elsewhere: completers of async operations, posters of worklets, users of thread
handles, load balancers and supervisors. The configuration says which agents have which
role.

| Code | Actions |
|---|---|
| `asyncBlockCurrent()` | `StartOp`, `LoopDone`, `LoopPending`, `OpDone` |
| `blockCurrent()` | `BlockLatch`, `BlockLock` |
| `runWqs()`, `WorkQueue::run()` | `WqRun`, `WqClear`, `WqCheck`, `Drain` |
| `handleConditions()` and the kernel exit loop | `HandleConditions`, `ExitCheck`, `Migrate` |
| `interruptCurrent()`, `launchCurrent_()` | `InterruptCurrent`, `InterruptWait`, `Restore` |
| `terminateCurrent_()` | `TerminateCurrent` |
| `deferCurrent()`, `migrateCurrent()`, preemption, the scheduler | `DeferCurrent`, `Preempt`, `Invoke` |
| faults, interrupts and ping IPIs | `Trap`, `Irq`, `IrqRaise`, `DeliverPing` |
| `raiseCondition_()` | `BeginRaise`, `Raise`, `Ping` |
| `unblockOther()` | `Latch`, `Unblock` |
| completions and worklets | `Complete`, `PostCompletion`, `PostWork` |
| `resumeOther()`, `observe()`, the load balancer | `ResumeOther`, `ResumeEvent`, `Observe`, `BalanceLoad` |

A blocking operation is abstracted to its state (started, posted, done) and its outcome.
Worklets are abstracted to "some work" and "the completion of the operation".

### Scheduler

The scheduler of one CPU: the current and the scheduled entity, the pending list that
`resume()` fills and the wait queue that `updateQueue()` moves it to, the flag
`_mustCallPreemption`, the preemption deadline and the ping IPI. Threads block, yield,
migrate, raise or lower their priority and end; other CPUs resume threads on this one, in two steps
(list, then ping). A local `resume()` is one step with respect to interrupts of its own
CPU. The unfairness and progress arithmetic is abstracted: among threads of one priority
every choice is possible. `ranked` is a history variable: the priority that the running
thread had when it was last compared with those that wait. `OwnCpuFirst` says whether a
thread's affinity mask may lead it back to the CPU it runs on.

### Rcu and LocalRcu

`Rcu` is the kernel-wide engine with one dispatcher per CPU. A read-side critical section
is a stretch of a CPU with scheduling disabled; the engine runs an item on each CPU's
work queue, which is a quiescent state. `state` is `state_`, `items` stands for
`transitionWg_`, and the program counters follow `runLoop_()` and `barrier()`.
`oldReaders` is a history variable: the CPUs whose section began before a submission.

`LocalRcu` is `LocalRcuEngine`: guards count themselves in one of two cycles and
`barrier()` flips the cycle. The destructor of a guard is two actions, because it drops
its count before it raises `gpEvent_`. `premature` records that `gpEvent_` has resumed a
`barrier()` whose cycle was not empty.

### IrqPin

One interrupt line and its sinks. Every operation holds the mutex of the pin, so
`raise()`, `ackSink()`, `nackSink()`, `kickSink()`, attaching and detaching are one action
each. The private functions of the pin are operators from pin to pin that call each
other as in the code. A sink is an in-kernel handler or an IRQ object whose driver
awaits, handles and answers a raise later, possibly after a kick or a newer raise.
`Strategies` holds the mask strategies that the interrupt controllers return.

### Shootdown

ASID bindings on every CPU, shootdown queues, retirement, and the IPI. Code with
interrupts disabled is a `frame` of its CPU. Its steps interleave with other CPUs at
every mutex, every pointer read of the lock-free queue walk, and the countdown of
`bindingsToShoot_`. The queue is `frg::intrusive_rcu_list`, modelled from its use:
erased nodes keep their pointers. A shoot node stands for the pages it names, and
the TLB may hold every page that was mapped when the binding was loaded, which is the
worst that hardware can do. A space is retired when no thread of it runs.

### Stream, Flow and Rendezvous

`Stream` is `stream.cpp` together with the coroutine of `doSubmitExchangeMsgs()`. A packet
is a submission of items, some of which are the ancillary chain of an offer or accept.
Under the lock of the stream, a submitter queues an item or takes its partner off the
other lane (`Match`); what it does after it has released the lock is a sequence of
operations that `Work` performs one by one, while other submitters, `ShutdownLane` and
`BreakLane` run. The latter leave `jobs` that answer the items they cancelled. `Gather` and
`Free` are the end of the packet's coroutine.

`Flow` refines what `Stream` takes as one step, the transfer of a large buffer: two
coroutines, a ring of buffers that belongs to the sender, acknowledgements, and faults of
either side.

`Rendezvous` is what programs are promised: the i-th items of the two lanes meet, the
answers are a function of the two, and closing concerns only items that met nobody.
`Stream` implements it under the mapping `Abstract` (`ImplementsRendezvous`).

### IpcQueue, SubmitQueue and Fifo

`IpcQueue` composes the kernel's side of a completion queue (`submit()`, `helDriveQueue()`)
with the dispatcher of the `hel` library (`wait()`, chunk supply, references to elements).
Sizes are counted in units and the header of an element is one unit. `SubmitQueue` is the
opposite direction, `pushSq()` against `processSq()`. Both implement `Fifo`
(`ImplementsFifo`, `SubmitsInOrder`).

### Futex and CancelTags

`Futex`: waits, wakes and cancellations on one address. A node lives in the frame of the
wait that queued it; completion events are raised after the mutex is released.

`CancelTags`: timers and waits for events as operations that are registered under a tag,
with cancellers that collect the nodes of the tag under the lock of the registry and
cancel them afterwards. A `OneshotEvent` is a `BitsetEvent` of one bit that is triggered
once. The cancellation event and observer are libasync's and external: `cancel()` marks
the event and then calls the observer in a later step.

### ManagedSpace

The pages of one file or swap space. Every critical section of the space's mutex is an
action: faults (`FaultTouch`, `FaultPeek`, `FaultMap`), revocations by unmapping, ageing
and `msync()` (`Revoke` to `RevokeShootdown`), kernel copies (`CopyLock` to `CopyUnlock`),
the reclaim loop, the drain loop with the swap budget, the driver's jobs, fences,
invalidation and discarding. `unsaved` stands for the contents of a page. `setting` picks,
once and for all, which of the actors take part.

- Barriers of `exposeRcu` and `revokeRcu` are taken to do what they should; that
  `LocalRcuEngine` does is the subject of `LocalRcu`.
- A mapping has one page table entry and one revocation under way at a time.
- `asked` holds the pages of the two lists for the driver in the order in which they were
  listed. A request is for any number of pages from the front of a list: which of them are
  adjacent is left open.
- `relisted` is a history variable: `updateRange()` has listed the page again.
- `LateWrites` says whether a processor may write through a TLB entry whose dirty bit it
  has cached, after `msync()` cleared it; `InvalidateDirty` whether a driver may
  invalidate pages that are not written back. Both are `FALSE` except where stated.

### Epoll, Pipe, EventFd and FileLocks

`Epoll`: items with the bits `stateAlive`, `stateActive`, `statePending` and
`statePolling`, the pending queue, and several waiters that suspend in `pollStatus()`
while the item is modified, deleted or looked at by others. Files of the subsystem answer
at once; they are eventfds, whose `pollWait()` ignores the mask it is given. Files of other
servers answer later and look for the events of the mask only; they are sockets such as
those of `udp4.cpp`. The last descriptor of such a file may be closed: then `pollWait()` and
`pollStatus()` fail, and the item is no longer polled or dropped from the queue. Of the
event masks, an item has `EPOLLIN` or not, with `EPOLLET` on the eventfd and `EPOLLONESHOT`
on the socket.

`Pipe` is one named channel with readers, writers, pollers and openers, `EventFd` one
eventfd whose counter is taken modulo `CounterLimit` in place of 2^64. `FileLocks` has
the threads of a file system server, with the notification after the mutex is released.

## What the runs check

Several runs hold more than one component. Except where this document says that
components are composed, these are independent scenarios: `Init` picks one, and the
variables of the others keep their initial values.

| Run | Instance | Distinct states | What it shows |
|---|---|---|---|
| `thread_blocking` | a thread on two CPUs; one agent that completes, posts, balances and resumes; interrupt handlers that raise | 2,877,664 | no wakeup or worklet is lost; suppressed pings |
| `thread_interrupt` | a thread on one CPU; an agent that completes and resumes, one that raises, an observer; fair scheduling | 313,054 | assertions of the interrupt path; no observer is forgotten; operations return, resumes and termination take effect |
| `pages` | the page cache in six settings | 1,170,460 | no frame is freed under a user, no write is lost, fences flush |
| `kernel` | RCU, local RCU, an interrupt line, futexes, tags; fair scheduling | 204,272 | grace periods, bookkeeping, lifetimes, and that everything ends |
| `shootdown` | four machines of two or three CPUs | 1,121,224 | no stale translation, exact countdown |
| `progress` | a machine of two CPUs; the page cache in five settings; fair scheduling | 222,565 | shootdowns, retirements, faults, copies, fences and writebacks end |
| `stream` | three packets in nine plans; closes and shutdowns | 162,750 | rendezvous is implemented, nodes are alive when used |
| `ipc` | completion queue, submission queue, flow transfer; fair scheduling | 251,489 | both queues are FIFO channels; nothing is reused, lost or slept through |
| `wakeups` | epoll, pipe, eventfd, file locks, scheduler | 1,327,051 | nobody sleeps while what they wait for is there |
| `sched_migrate`, `page_invalidate`, `epoll_rearm` | an instance that shows it | | a disagreement of the code with its comments, assertions or tests, see below |

### Bounds

- `Thread` has no numeric bound: its state is finite for finite sets of agents. The
  agents have the roles in the table: one agent in `thread_blocking`, two in
  `thread_interrupt`. No run has a poster and a raiser at once; all invariants of `Thread`
  are proved for any number of agents in all roles.
- `Rcu` has two callables and two CPUs, so at most two barriers overlap; what is proved
  holds for any number. `LocalRcu` stops at `MaxSeq = 3`, the least number with which a
  delayed raise can end a later grace period and be noticed in the one after it.
- `IrqPin` stops at `MaxIrqSeq = 2` raises; kicks, buffered edges and answers to an old
  raise all happen within it. Each sink attaches once.
- `Futex`: two waiters and two wakers, three waits and three wakes in all, so that a
  waiter returns and waits again while an old wake is under way. `CancelTags`: a timer,
  a wait for an event, two cancellers and two triggers of one bit.
- `Shootdown` requests are made once each. The machines are: two requests that queue up,
  an ASID that is rebound from one space to another, a third CPU that makes a request
  while another gives up the space, and two ASIDs, so that a binding outlives the use of
  its space. CPUs, spaces and requests are interchangeable, and the run that uses
  symmetry checks invariants only. `progress` has the machine with one ASID, one space
  and one request on two CPUs.
- `ManagedSpace`: one or two pages, one mapping, one copier. The settings are a file that
  is mapped and copied from; one with fences and a driver whose jobs overtake each other;
  one that is invalidated; two pages with readahead; a mapped swap space; and a swap
  space whose two pages compete for the budget (it is never more than one for each page).
  `progress` has a mapped file; a file with fences, once with a driver that serves one
  request after the other and once with one that serves several; two pages with readahead;
  and a swap space of one page. Nobody invalidates in it. Two pages with readahead and a
  driver that serves several requests (225,718 states) and the swap space of two pages
  (612,888) were explored once with `PagesProgress`, with the same result; they take too
  long for a run that is repeated.
- `Stream`: the plans of `MCStream` cover requests with ancillary chains that are served,
  dismissed or left alone, nested offers, passing of lanes and credentials, mismatches,
  and flow items. Two closes suffice to close both lanes, or one lane in two ways.
- `IpcQueue`: five elements in three chunks of two units (the second shares a chunk and
  runs over its end, the fifth wraps around), one element held back by the program, one
  alert. A larger instance was explored once (1,695,950 states) with the same result.
  `SubmitQueue`: five elements of size 0 to 2 in two chunks of size 3. `Flow`: five
  transfers through a ring of two.
- `Epoll`: two files, of which one answers later, two waiters, two items, one
  modification or close, two events; waiters are interchangeable, and only invariants are
  checked. `Pipe`: two tasks, three files, room for two bytes. `EventFd`: three tasks,
  counter modulo 4. `FileLocks`: three tasks, three descriptions, five calls.
  `Scheduler`: three threads, two other CPUs, two priorities.

Deadlock is checked in the two runs of `MCThread`. In the others calls and requests are
bounded, so the system may stop, and the configurations say `CHECK_DEADLOCK FALSE`.

### Fairness

- `Thread`: the scheduler keeps running the thread (strong fairness of its steps, as
  preemption disables them again and again, and weak fairness of `Invoke`); agents
  finish what they started; IPIs arrive; an operation that cannot be cancelled completes.
  Strong fairness of `Irq`: the load balancer wakes every CPU periodically (`run_()` in
  `load-balancing.cpp`), so a thread that stays in user mode is interrupted. The run has
  no posters, as a thread to which worklets are posted for ever need not get around to
  terminating. New system calls and raises are never forced.
- `Rcu`: coroutines that can continue do, sections are left, and an item runs on a CPU
  that leaves its sections again and again (strong fairness of `RunItem`, as new
  sections disable it). `LocalRcu`: guards are dropped, and destructors and coroutines
  continue.
- `IrqPin`: drivers await and answer, as `docs/src/impl-notes/drivers/irqs.md` asks of
  them, and the unstall timer fires.
- `Futex`, `CancelTags`, `Stream`, `Flow`, `SubmitQueue`: steps of the kernel that have
  begun go on. No call is forced, no timer has to elapse and no event has to be
  triggered, except that a program that has submitted to a queue waits for the answer.
- `IpcQueue`: also, the dispatcher calls `wait()` again and the program lets go of
  elements at some point, as every user of `helix::Dispatcher` does.
- `Shootdown`: IPIs arrive, are taken once interrupts are enabled, and a CPU finishes
  what it runs with interrupts disabled. Nothing else is forced: in particular no thread
  is ever scheduled again.
- `ManagedSpace`: the loops, faults, copies, revocations and fences go on, the driver
  polls for notifications and finishes its jobs. Evictions need strong fairness: they
  wait for a mapping that is in the middle of a fault or revocation again and again, and
  its lock is fair.
- The remaining components have only invariants. They are stated so that they need no
  fairness: whoever sleeps has somebody awake who will wake them.

## What the properties say

**Thread.** `NoLostWakeup`: a blocked thread with a reason to run is always about to be
unblocked. The latch is tested outside of the mutex and conditions are raised between
the caller's check and the transition to blocked, so this relates the two halves of
`unblockOther()` to three kinds of reasons. `WorkNotStranded`: the condition of a
non-empty work queue is pending, or about to be. `ExitPathNotified`: `raiseCondition_()`
sends only the first ping, yet a thread that passed the exit check with a condition
pending is about to receive one. `InterruptsDoNotNest`: the assertions of the interrupt
path. `NoForgottenObserver`: no observer stays queued on a thread that is interrupted or
gone. `ThreadProgress`: operations return, resumed threads leave the interrupt, and
disposed threads terminate.

**Scheduler.** `PendingNoticed`: whenever the pending list is not empty, a ping, a
deadline or a call of the scheduler is certain to come. Only the first resume of a batch
pings, so one missed ping would silence all later ones. `WaitersGetTurn`: unless a
deadline is armed or a call of the scheduler is due, the CPU does not idle while threads
wait, and each of them has a lower priority than the running one had when they were last
compared. That is not the priority it has: `setPriority()` of the running thread
(`schedule.cpp:116-128`) compares nothing, so a thread that lowers its priority below that
of a waiting one keeps running, with no deadline, until an interrupt or a resume makes the
scheduler look again.

**Rcu and LocalRcu.** `GracePeriod`: a callback runs only when all sections that were open
at its submission are over. `TransitionSound`: transitions, which share a wait group, do
not overlap, the assertions of `barrier()` hold, and nobody sleeps through the sequence
event. `LocalGracePeriod`: the counters are exact, the first grace period is kept, and the
only way in which a later one can be short is an event that was raised late.

**IrqPin.** `LineSound`: the counter of due sinks, the masks and the drivers agree with
the service under way, no assertion fails, and no awaited raise is missed.
`AnswersMatch`: a late answer does not count for a newer raise.

**Futex and CancelTags.** `FutexNodesSound`: a node is in the frame of a wait that has not
returned as long as anybody can reach it, and its event is raised by exactly one party.
`TagsSound`: an operation is posted once, cancellation handlers run only while it waits,
nodes of the registry outlive those who have them, and a wait for an event returns the
bits that were triggered since the sequence number it named. `KernelProgress` is the
progress of all components of its run: callbacks run, barriers return, lines reopen, futex waits
that were woken or cancelled return, and cancelled operations end.

**Shootdown.** `NoStaleTranslation` and `FreedUnreachable`: pages, page tables and nodes are
freed only when no TLB, no CPU and no walk can use them. `CountExact`: the countdown of a
request equals the number of bindings that will still count it down, across rebinding,
unbinding and concurrent walks. `ShootdownProgress`: everybody who waits is answered.

**Stream.** `LiveNodes`: a node is touched only while its packet is alive, and each is
completed once. `LaneAssertions`: the assertions of `stream.cpp` (lines 99, 102, 106, 255
and 293). `ImplementsRendezvous`: see above. `ClosedAnswered`: once all streams
are closed for good, every packet is answered, up to the chains that the code loses (see
below).
`FlowContract`: the data of a transfer arrives intact, neither side touches the other
after it has completed, and they agree about the outcome.

**IPC queues.** `HeldStable`: an element that the program still refers to is not
overwritten. `DispatcherAssertions`: the assertions of the dispatcher on full and retired
chunks. `ImplementsFifo`, `SubmitsInOrder`: elements arrive once and in order.
`EverythingArrives`: no side sleeps while there is something to do.

**ManagedSpace.** `FramesHeld`: no page table, TLB entry, copy or driver's job refers to a
frame that was freed. `NoLostWrite`: a page that differs from its backing store is marked
dirty, or being written back, or its page table entry or a copy under way will mark it.
`PageStates`: lists, locks, uses and transactions agree, which includes the assertions of
the code. `FenceFlushes`: a fence that finds a writeback due or under way returns only after
the data that was marked dirty before it is saved. `PagesProgress`: whoever waits for a
page is woken, listed pages are taken up and discarded ones erased. Two cases are exempt,
because the code does not exclude that they last for ever; TLC finds both when the
exemption is dropped.

- `Unannounced`: `updateRange()` lists a page that was marked dirty during its writeback
  again (`memory-view.cpp:1770-1778`) and does not call `_progressManagement()`. A driver
  that serves requests in detached coroutines (`drivers/libblockfs/src/metadata-cache.cpp:58-69`)
  already waits for the next one. The page, and a fence that waits for its second
  writeback, wait until the driver is told of some other page. With a driver that polls only after
  it has finished, this cannot happen, and nothing is exempt.
- `Overtaken`: writeback is preferred to initialization (1414), so a page that is to be
  initialized, and whoever faults on it, can wait as long as another page is dirtied
  and written back again and again.

**User space.** `ActiveItemsWatched`: an active level-triggered epoll item whose event
is there is pending or becomes so, unless it was modified while its file was asked for
its status, or waited for with the mask it had before: the old mask then stays in use
(`epoll.cpp:316-317`) until the item is taken from the queue again. `PendingItemsQueued`: a pending
item is in exactly one place, and nobody sleeps while the queue has one. `WaitsJustified`:
readers and writers of pipes and eventfds, pollers and openers sleep only if they
could do nothing when awake. `LockExclusion`, `LockWaitsEnd`: an exclusive lock is the
only one, and a sleeping task is excluded by somebody's lock unless a notification is
under way.

## Disagreements found

Three runs show them:

- `sched_migrate`: `helSetAffinity()` with a mask whose first CPU is the caller's own
  (`hel.cpp:3971-3973`) puts the thread on the pending list of the CPU it is about to
  leave (`schedule.cpp:327`). Nothing looks at the list before the flag is cleared, and
  later resumes find the list non-empty and send no ping. `schedule.cpp:155` says that
  resuming on the current CPU never needs an IPI to guarantee progress.
- `page_invalidate`: `invalidateRange()` (`memory-view.cpp:1895`) sends a page that waits
  for the drain loop on to be reclaimed without taking it off the list of dirty pages,
  against the assertions of the drain loop (1120, 1146) and `memory-view.hpp:653`. The
  other runs assume that callers do not do this (`InvalidateDirty = FALSE`).
- `epoll_rearm`: a one-shot item that is re-armed while it is still pending from its last
  report stays inactive (`epoll.cpp:202-203`) and is dropped by the next wait (257), where
  a test expects it to be pending (`testsuites/posix-tests/src/epoll.cpp:43`).

The following were met while modelling. Their properties are in the modules, with a
comment, and TLC violates them on small instances; no run of the project repeats this.

- `UserModeNotified` (`Thread`): a comment in `raiseCondition_()` (`thread.cpp:564`) relies
  on kernel exit paths, but a resumed or launched thread returns through
  `restoreExecutor()` (278) without the check. This is why `ExitPathNotified` speaks of the
  exit check only.
- `OtherCycleEmpty` (`LocalRcu`): `barrier()` waits once for `gpEvent_` and does not test the
  count again (`rcu.cpp:139`). A raise delayed past its own grace period ends a later one
  early, and the barrier after that fails the assertion at line 124.
- `UnmaskableNotStalled` (`IrqPin`): a line that is not maskable is stalled by NACKs
  (`irq.cpp:340`) although `irq.hpp:139-140` says it must not be.
- `Shootdown` with `SelfIpi = FALSE`, as on ARM: the retirement of a space that is still
  bound on the retiring CPU may wait for ever (`asid.cpp:300`, against `asid.hpp:182-183`).
- `ErasesQueued`, `GuardsConsumed` (`CancelTags`): a wait for an event that is cancelled
  after it was triggered is erased from a queue it is no longer in (`event.cpp:73`); early
  returns of two system calls drop a guard that `cancel.hpp:52` wants consumed
  (`hel.cpp:2784`, 3680).
- `InlineFits` (`Stream`): an inline receive may succeed with more data than it has room for
  (`stream.cpp:170`). Chains that a mismatch or a nested cancellation leave behind are
  never answered (224-238, 311-331); `ClosedAnswered` leaves them out.
- `ElementsFit` (`IpcQueue`): an element that does not begin a chunk may run over its end,
  as the test at `ipc-queue.cpp:122` leaves out the header and the length; compare 77 and
  233.
- `BlockedWriterHasReader` (`Pipe`): a writer that waits for room is not woken when the
  last reader goes (`fifo.cpp:130-142`).
- `AddsFit` (`EventFd`): a writer waits once for a read and then adds without testing for
  room again (`eventfd.cpp:76-83`).
- `UpgradeDeadlock` (`FileLocks`): two holders of shared locks that both ask for exclusive
  ones wait for each other (`file-locks.cpp:66-68`).
- `FenceComplete` (`ManagedSpace`): a fence waits for pages in the states `wantWriteback`
  and `writeback` (`memory-view.cpp:1816-1823`) and passes over dirty pages that the
  drain loop has not handed to the driver yet.
- `ManagedSpace` with `LateWrites = TRUE` violates `NoLostWrite`: a write through a stale
  dirty TLB entry is not seen by anybody (`memory-view.hpp:222-224`,
  `address-space.cpp:179-180`).
- `hel.cpp:3067-3068` says something else of flow transfers than 3105-3106 do;
  `processSq()` clears the progress bit at `ipc-queue.cpp:203`, before the places its
  comments (199, 293) speak of; with one chunk, `pushSq()` would wait for itself.

## What is proved

TLAPS proves the following for every set of agents, observers, CPUs, callables, threads,
tasks and descriptions, and whatever the numeric bounds are.

`ThreadProofs` (assumption: there is a CPU, and interrupt handlers raise only
`cpuMigration`, `interrupt` and `terminate`):

- `TypeCorrect`, in three lemmas that follow the conjuncts of `TypeOK`, as Boolean state
  and the other state suit different provers.
- `WakeupCorrect`: `NoLostWakeup` is not inductive. It says that some call is under way,
  but not which half of it, and nothing about a thread on its way into
  `blockCurrent()`. `WakeupInv` adds both: a set latch of a blocked thread has a call that
  is about to unblock it; a done operation has its latch set, or a call about to set it,
  from the moment the thread has found `done` unset until it looks again; and so has an
  awaited condition that is pending on a blocked thread. A blocked thread stands at the
  head of the loop in `asyncBlockCurrent()`.
- `WorkCorrect` and `ObserverCorrect`: the properties are inductive relative to the type
  invariant.
- `InterruptCorrect`: `InterruptInv` follows the thread through `asyncBlockCurrent()`, and
  adds that an operation fails only while it is a wait for a resume and the termination is
  still pending.
- `ExitCorrect`: `ExitInv` adds that a thread that entered user mode through the exit check
  is active, not merely deferred there: conditions of a deferred thread send no ping.

`RcuProofs` (no assumption):

- `OneTransitionCorrect`: inductive relative to the type invariant.
- `BarrierAssertionsCorrect`: states are put in order by `Pos` (the idle state `n` is
  `2n + 1`, the busy one `2n`). `OrderInv` says that `current` is a value that the engine
  has had since `barrier()` loaded `s`, and how far it is past `s` at each program
  counter.
- `GracePeriodCorrect`: `GraceInv` says of a callable whose `barrier()` loaded `s`: while the
  transition to `s + 1` is under way, only CPUs that have not run their work item can
  still be in an old critical section; from `s + 1` on there are none.

`SchedulerProofs`:

- `PendingCorrect`, for `OwnCpuFirst = FALSE` (with `TRUE` it is false: `sched_migrate`).
  `NoticedInv` adds what `commitReschedule()` needs before it clears the flag: if the
  list is not empty then, a ping or a deadline is still to come.
- `TurnCorrect`: `PlacesInv` adds that every thread is at one place only (current, scheduled,
  pending or waiting) and that one is scheduled exactly between the choice and
  `commitReschedule()`. Without it a step could change the priority of a thread that also
  waits, or leave a waiting thread out of the comparison.

`FlowProofs` (assumption: the message has a chunk and the ring a buffer):

- `FlowCorrect`: `FlowInv` numbers the packets. `Counting` says how many have been sent,
  handled and acknowledged, and that no more than a ring of them is outstanding;
  `Contents` says what packet `n` and the buffer it points to hold; `Written`, `Faults` and
  `Outcome` derive from the numbers what the receiver has written, which faults the
  sender knows of, and how each side ends.

`FileLocksProofs`:

- `ExclusionCorrect`: inductive with the types of the tasks.
- `WaitsEndCorrect`: `LockInv` adds `SleepersExcluded`: while no notification is under way,
  each sleeping task conflicts with a lock. A task reads the sequence number under the
  mutex, so a release in between makes its wait return at once.

## What is only model-checked

Liveness under fairness and the refinements of `Rendezvous` and `Fifo` are checked by TLC
only, the former because it is out of reach of the prover. So are the part of
`TransitionSound` about the sequence event (`NoLostSeqEvent`) and all properties of
`LocalRcu`, `IrqPin`, `Futex`, `CancelTags`, `Shootdown`, `Stream`, `IpcQueue`, `SubmitQueue`,
`ManagedSpace`, `Epoll`, `Pipe` and `EventFd`, on the instances above.

## What is not modelled

The repository has 182,877 lines of implementation in 812 files. Most of them are
register-level drivers, on-disk and packet formats, allocators, boot code, request marshalling and
start-up programs, which are sequential or about data; `PROJECT.json` gives the reason
for each part. The modelled share is small for this reason, and covers the
protocols on which the rest relies.

Of the parts that are modelled, the following is left out:

- weak memory, run-time accounting, back-off delays and log messages;
- posts of a thread to its own work queue, the rounds of the load balancer, fibers;
- `AdaptiveMutex`: a critical section of a mutex is one step;
- EPT, NPT and IOMMU page spaces; the mapping tree of an address space;
- `ManagedSpace::resize()`, copy-on-write and the other kinds of memory;
- alarm hardware and deadline arithmetic;
- an epoll file that is itself polled or closed; files of the POSIX subsystem that fail
  polls once they are closed (eventfds do not); anonymous pipes, which differ from
  named ones in how they are opened; cancellation of flock(), for which its callers pass
  no token.

Two concurrent parts would merit a module and have none: enumeration and binding of
entities in mbus, and the signals and wait states of POSIX processes. NVMe and virtio
queues have a device as their other side, which is not in the repository.
