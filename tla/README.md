# The RT-Thread kernel of candy-box: TLA+ models, runs and proofs

candy-box is a board with an i.MX RT1052 and its firmware. The firmware
(`src/code_project/`) is an RT-Thread 4.0.0 board support package: the kernel in
`rt-thread/src/`, the device framework in `rt-thread/components/drivers/`, board
drivers in `drivers/`, demonstrations in `applications/`, and third-party
libraries. What carries the logic is the kernel and the objects drivers wait on,
and that is what this project models.

The build modelled is the one of `src/code_project/rtconfig.h`: one core
(`RT_USING_SMP` off), 32 priorities, a 1000 Hz tick, hard timers only with a
skip list of one level, all IPC objects, memory pools, a memheap as the heap,
signals, and a serial driver without DMA.

File names below without a directory are in `src/code_project/rt-thread/src/`;
`workqueue.c`, `completion.c`, `waitqueue.c`, `dataqueue.c`, `ringbuffer.c` and
`pipe.c` are in `components/drivers/src/`, `serial.c` in
`components/drivers/serial/`, `poll.c` in `components/dfs/src/`.

## 1. Inventory

| Part | State | Operations | What makes it correct |
|---|---|---|---|
| Scheduler (`scheduler.c`) | ready lists by priority, their bitmap, running thread, lock nesting | `rt_schedule`, insert, remove, `rt_enter_critical`, `rt_exit_critical` | table, bitmap and thread states agree; a most urgent ready thread runs |
| Threads (`thread.c`, `idle.c`) | state, priority, error, one list node, one timer per thread; the list of dead threads | startup, suspend, resume, sleep, change of priority, exit, delete, detach, timeout, reaping by tidle | a thread is in one list; released once, not used afterwards, in the end released |
| Tick and timers (`clock.c`, `timer.c`) | tick counter, list of timers sorted by timeout | start, stop, control, detach, check | every timer fires when due, across the wrap of the counter |
| Semaphore (`ipc.c`) | value, wait list | take, release, reset | no token lost or made; nobody waits while there is one |
| Mutex (`ipc.c`) | owner, nesting, recorded priority, wait list | take, release | exclusion; no lost wake-up; bounded inversion; boosts end |
| Event (`ipc.c`) | set of flags, wait list with a request per thread | send, receive, reset, detach | nobody waits for flags that are there; a cleared flag goes to one; a detach leaves nobody behind |
| Signals (`signal.c`) | pending and masked bits, a list of siginfo nodes and two state flags per thread, a pool of nodes | kill, mask, unmask, wait, deliver, handle | a signal that is let through is handled once, by the receiver; what the receiver was waiting for is not mistaken for granted |
| Mailbox (`ipc.c`) | ring, two offsets, two wait lists | send, send and wait, receive, reset | a bounded queue; neither side sleeps over the other |
| Message queue (`ipc.c`) | slots in a free list and a queue, wait list | send, urgent, receive, reset | a bounded queue; no slot lost or in two places |
| Memory pool (`mempool.c`) | free blocks, two counters, wait list | alloc, free, detach | a block has one holder; no lost wake-up |
| Heap (`memheap.c`) | chain of blocks, list of free ones, `available_size`, a semaphore | alloc, realloc, free | the blocks fill the pool without gaps or overlaps; what is free can be allocated |
| Work queue (`workqueue.c`) | works, work in progress, a semaphore, a thread | dowork, critical_work, cancel, cancel and wait | every work brought is done; a canceller waits for the right work |
| Wait queue, serial receive (`waitqueue.c`, `serial.c`) | waiting readers, wake-up flag, ring of received bytes | wait, wake up, receive interrupt, blocking read | no reader sleeps over data; the ring keeps the latest bytes |
| Completion (`completion.c`) | flag, one waiter | wait, done | a completion is neither missed nor consumed twice |
| Ring buffer (`ringbuffer.c`) | bytes, two indices with a mirror bit each | put, put_force, get, each also for one byte, reset | a bounded queue of bytes; forced bytes replace the oldest |
| Pipe (`pipe.c`) | ring buffer, numbers of readers and writers, mutex, two wait queues | open, close, read, write, poll | nobody sleeps over bytes, room or a closed end |
| `poll()` (`poll.c`) | a node per descriptor and queue, `triggered` | add, test, wait, tear down | what becomes ready between test and sleep is noticed |

Interaction. Every blocking object links threads into a wait list through
`rt_thread_suspend` and hands them back through `rt_thread_resume`, which move
them between that list and the ready table. A timed wait also starts the timer
of the thread; at a tick `rt_timer_check` calls `rt_thread_timeout`, which takes
the thread out of the wait list. Drivers use semaphores, completions, wait queues
and work queues from interrupt handlers. Shared state is protected by disabling
interrupts, never by more; what a function does between two such sections can be
interleaved with every other thread (through the tick or a wake-up) and with
interrupt handlers.

What is hard to test here is therefore: a release that meets the timeout of the
waiter it picks; a value read before interrupts are enabled and used after; a
woken thread that competes again for what woke it; priorities that change while
a thread is linked; timeouts across the wrap of the tick; dead threads on their
way through four functions and two threads; indices and counters at their limit.
`PROJECT.json` lists each such place with its line and the properties aimed at it.

## 2. Modules

    Kernel  <- Semaphore  <- Signal
                                    <- SemaphoreProofs          AbstractSemaphore
            <- Mutex      <- MutexProofs
            <- MemPool    <- MemoryProofs
            <- Event      <- EventProofs
            <- Mailbox    <- MailboxProofs                      AbstractChannel
            <- MessageQueue <- MessageQueueProofs               AbstractChannel
            <- Drivers    <- WaitQueue  <- Pipe       <- ServiceProofs
                                        <- Serial     <- ServiceProofs
                          <- Completion, WorkQueue    <- ServiceProofs
                          <- ThreadLife               <- ServiceProofs
            <- KernelProofs, which all of the proof modules extend
    MemHeap, Ring         <- MemoryProofs
    Timer                 <- EventProofs                        AbstractTimer

`Kernel` has no variables. The kernel state is one record `k`, and each operator
is the C function of the same name, from the record before a call to the record
after it. The modules that extend it keep `k` and the fields of one object as
variables. What is one action is decided by the critical sections: everything
between `rt_hw_interrupt_disable` and `rt_hw_interrupt_enable` is one step, and
`pc[t]` says between which two sections thread `t` is. Only `k.cur` takes thread
steps; interrupts (handlers that use the object, `TimerExpire`, `TickYield` at
the end of a time slice) may come between any two steps. So an interleaving of
the model is one the processor can make, priorities included.

`Drivers` adds to the kernel what the drivers and the thread life cycle have in
common: `k`, `pc`, the start of a thread, the tick and the timers of threads.
`WaitQueue` has the queues and the steps of `rt_wqueue_wait` and
`rt_wqueue_wakeup`; `Serial` and `Pipe` are compositions with it. `Signal` is a
composition with `Semaphore`: its receivers take the semaphore while signals are
sent to them.

| Module | Code | State | Actions |
|---|---|---|---|
| `Kernel` | `scheduler.c`, `thread.c`, list functions of `ipc.c` | (operators) | |
| `Semaphore` | `rt_sem_*`, `rt_enter_critical`, `rt_exit_critical` | `value`; history `owned`, `issued` | `TakeAvailable`, `TakeBlock`, `TakeSchedule`, `TakeReturn`, `Release`, `IsrRelease`, `ResetBegin`/`ResetTurn`/`ResetEnd`, `Schedule` |
| `Signal` | `rt_thread_kill`, `_signal_deliver`, `_signal_entry`, `rt_thread_handle_sig`, `rt_signal_mask`, `_unmask`, `_wait`; the call of `rt_thread_handle_sig` in `rt_schedule` | `pending`, `mask`, `si_list`, `flags`, `free`; `frames` (activations of the handler on a stack) | kill in five steps, delivery to a suspended, a ready and the running thread, the loop over the nodes with one step per handler, the wait for a signal |
| `Mutex` | `rt_mutex_take`, `rt_mutex_release`; what a signal does to a take | `mutex` (the struct), `want`, `signalled`; history `claims` | free, recursive and blocking take, failing calls, release with and without waiters, sleeping threads; `Deliver` and `HandleSig` for signals, `TakeAgain` for the retry that succeeds, `TakeUnprotected` for any other |
| `MemPool` | `rt_mp_alloc`, `rt_mp_free`, `rt_mp_detach` | `block_list` and the two counters; history `held`, `doomed` | the retry loop of alloc, free, the loop of detach with interrupts enabled |
| `MemHeap` | `rt_memheap_alloc`, `_realloc`, `_free` behind `rt_malloc`, `rt_realloc`, `rt_free` | `item` (the headers by address), `free_list`, `available_size`, `lock`; history `blocks` | the test outside the lock, first fit with a split, growing into the next block, shrinking in two steps, free with merges on both sides |
| `Event` | `rt_event_send`, `rt_event_recv`, reset, `rt_event_detach` | `set`, `event_set`, `event_info`; history `asked`, `outstanding`, `alive` | receive at once or blocked, send from threads and handlers; detach with the test and the body of `rt_ipc_list_resume_all` apart |
| `Mailbox` | `rt_mb_send_wait`, `rt_mb_recv`, reset | `mb` (the struct), `value`, `got` | the two retry loops, handlers that send |
| `MessageQueue` | `rt_mq_send`, `rt_mq_urgent`, `rt_mq_recv`, reset | `mq` (slots with their `next` fields), `msg`, `arg`, `got` | reserve, copy, link; unlink, copy, give back |
| `Timer` | `timer.c`, `clock.c` | `rt_tick`, `rt_timer_list`, `timer`, `flag_new` (flags read and not yet written back); history `torn` | start and stop in their two sections, control and the end of stop in a read and a write of the flags, detach, tick, firing with a timeout function that starts or stops its timer |
| `ThreadLife` | `thread.c`, `idle.c` | `sysobj`, `target`, `reap`, `reviving`; history `cleaned`, `freed` | startup, sleep, suspend, resume in its test and two sections, exit, delete/detach in four sections, tidle in three |
| `WorkQueue` | `workqueue.c`, `rt_thread_resume` as it calls it | `work_list`, `work_current`, `awaited`, `node`, `next` | clients, handlers and the loop of the work thread; the resume in its test and two sections; each turn of `rt_workqueue_cancel_all_work` in three |
| `WaitQueue` | `waitqueue.c` | `waiting` (thread and events of each node), `wakeup` | wait in five steps, wake-up with a key |
| `Serial` | `serial.c` (receive) | `rx` (the ring), `left`; history `stamp`, `sated` | receive interrupt, byte-wise read, wait |
| `Completion` | `completion.c` | `completed`, `result` | wait with and without a timeout, done from threads and handlers |
| `Pipe` | `pipe.c` (file operations), `poll.c` | `owner`, `readers`, `writers`, `bytes`, `fifo`, `fds`, `rdwr`, `rest`, `wrote`, `triggered`, `denied` | open, close, read, write and poll, with the mutex taken and released around each; a ring or a node of `poll()` that cannot be allocated |
| `Ring` | `ringbuffer.c` | `rb` (the struct); history `content` | every operation |

Abstractions: a timeout is "none", "some ticks" or "for ever", and a running
thread timer may expire at any tick; a payload is a model value; hooks, logging,
names and stack checks are left out. Bytes of the rings are told apart by a
number that wraps behind the size of the ring. Integers whose wrap matters keep
it: `sem->value` is modulo `ValueMod`, ticks are modulo `TickMod`, the ring
offsets and mirror bits are those of the code. Where the code uses the head of an
empty list as an object, or memory that is no node as a node, or links a thread
that is linked already, the model sets `wild` (`late` in `ThreadLife`) and says
nothing of what follows.

`rt_thread_resume` tests the state of the thread with interrupts enabled, and
enables them again before `rt_schedule_insert_thread` (`thread.c:711-731`). The
objects of `ipc.c` and the wait queues call it with interrupts disabled, where it
is one step; `ThreadLife` and `WorkQueue`, where it is called with interrupts
enabled, have the test, the unlinking and the insertion as three.

The heap has no scheduler: its semaphore makes what is done under it one step,
and any client may take the next one. Priorities only take interleavings away.

The abstract specifications say what a user of the object relies on:
`AbstractSemaphore` (tokens are available or held; one given while threads wait
goes to exactly one of them), `AbstractChannel` (a bounded line of messages; the
mailbox and the message queue both implement it) and `AbstractTimer` (timers
count down to 0 and fire then, the most overdue first, before the tick interrupt
returns).

## 3. Runs

Deadlock is checked except where the system may really stop: in `mutex`,
`memory`, `event`, `services`, `signal` and `thread_life` the model ends where it
went `wild` or `late`; in `signal` also when its sender has used up its signals,
and in `services` when an assertion has stopped the user of a pipe without a ring.

| Run | Instance | Shows |
|---|---|---|
| `semaphore` | 3 threads of 2 priorities and tidle, 2 tokens, value modulo 4, lock nesting 1 | `KernelConsistent`: lists, bitmap, states and timers agree; `TokenConservation`; `NoWaiterWithToken`; `NoThreadLost`; `Preemptive`: with the scheduler unlocked, nobody runs its own code while a more urgent thread is ready; `ImplementsSemaphore` |
| `signal` | a receiver and a sender of one priority, 2 signals sent, 2 siginfo nodes, a semaphore with 1 token from an interrupt | `NodesConserved`, `OneEntryContext`, `NobodySleepsOverSignal` |
| `mutex` | 3 threads of 3 priorities, one mutex, nesting 2; the least urgent sends signals to the others | `MutualExclusion`, `NoLostWakeup`, `NoInversion`, `PriorityRestored`; `UrgentTakeReturns`: the most urgent thread gets the mutex although a thread between it and the owner never stops running |
| `memory` | pool: 3 threads, handlers, 2 blocks, stale count up to 3; heap: 200 bytes, headers of 24, 2 clients that ask for 9, 13 and 40 bytes and have 2 blocks each | pool: `BlockConservation`, `NoLostWakeup`, `NobodyLeftBehind`; heap: `HeapConsistent`, `BlocksIntact`, `FailsOnlyWhenFull` |
| `event` | 3 threads, 2 flags, requests AND+CLEAR, OR+CLEAR, OR; a detach at any time | `NobodyWaitsSatisfied`, `GetsWhatItAsked`, `FlagsConserved` |
| `mailbox` | 3 threads (a receiver, a sender, one of both), handlers, 2 mails, ring of 2 | `NoLostWakeup` (receivers over mail, senders over room), `ImplementsChannel` |
| `message_queue` | 3 threads, handlers, a normal and an urgent message, 2 slots | `SlotConservation`, `NoLostWakeup`, `ImplementsChannel` |
| `thread_life` | 4 threads (static and dynamic, with and without cleanup), two of which resume others, tidle | `OneList`, `ReleasedOnce`, `EventuallyReleased` |
| `services` | one of six, see below | serial: `NoSleepOverData`, `HoldsLatest`; completion: `CompletedOnce`; work queue: `AwaitsCurrent`; pipe and poll: `NoPipeSleeper`; ring: `HoldsContent`; timers: `SortedByTimeout`, `ImplementsTimers` |
| `workqueue_lost` | the work queue of `services` | finding 1 |
| `signal_token` | as `signal` | finding 2 |
| `ring_force` | the ring of `services` | finding 3 |

Two runs check several components that share no state: `memory` the pool and the
heap, `services` the serial device, the completion, the work queue, the pipe, the
ring and the timers. A variable (`opened`, `service`) chosen at the start says
which one a behaviour follows; the others stay as they were initialised. Since
no step of one reads or writes a variable of another, a behaviour of them all is
an interleaving of behaviours of each, and every property speaks of one of them:
nothing is lost, and nothing is shown of an interaction that does not exist.
Interaction is modelled where there is some: in `Signal` (with a semaphore),
`Serial` and `Pipe` (with the wait queue, the pipe also with its mutex and
`poll()`), and everywhere with the scheduler and the thread timers.

The instances of `services`: t1 is more urgent than t2 and t3. Serial: readers t1
and t2 ask for 2 bytes, the ring has 4 places, an interrupt brings up to 4 bytes.
Completion: t3 waits, t1 and handlers complete. Work queue: t3 is the work
thread, t1 and t2 bring and cancel 2 works, and handlers bring them too. Pipe: t2
reads, t3 writes, 2 bytes at a time through a ring of 1, blocking or not, with
`poll()` with and without a timeout; t3 may open it `O_RDWR`, and what is
allocated may fail. Ring: 4 bytes, told apart modulo 5. Timers: 2, each with one
client, ticks modulo 9, periods 1 and 2, up to 1 tick lost inside
`rt_timer_start`. The two works are interchangeable, and so are the two timers
with their clients; the run uses both symmetries, which every property of it
respects.

Why the bounds are enough. Three threads are what the races of these objects need:
one that waits, one that wakes it and one that gets in between; two of them share
a priority, so both time slices and preemption occur, except in `mutex`, where
three distinct priorities make inversion possible. Two tokens, blocks, mails or
slots are the least for which "one is left" differs from "empty" and "full", and a
ring of two wraps at every second operation; the ring buffer has four places, so
that a put passes the end from several positions, and 2 bytes through a pipe of 1
make every write meet a full ring and every read an empty one. The receive ring of
the serial device has four places for the same reason and one more: it must hold
more bytes than a reader asks for, because a reader that has taken its fill leaves
the rest to nobody (see the limits below). The heap is large enough for four
blocks, so that a block has free and used neighbours on either side, and its
requests leave remainders that are split off (40) and that are too small for it (9
and 13, which differ by one unit of alignment). `TickMod` is larger than twice the
longest period plus the delay, as 2^32 is; the tick wraps again and again. The
bounds cut environment actions (how often a new token is issued or a signal sent,
how deep a thread nests, how many blocks a client asks for), never a step of a
function already begun. The exceptions are `MaxCount`: a thread does not wait for
a block once the counter that timeouts leave too high has reached it; and
`PoolSize`: with as many siginfo nodes as signals are sent, the allocation in
`rt_thread_kill` does not fail in this instance. The theorems about signals hold
for every `PoolSize`.

Fairness. Safety is checked without any. `UrgentTakeReturns` assumes that the
tick keeps coming (strong fairness of `TickYield`), that a time slice is long
enough for one critical section (strong fairness of the kernel code a thread is
in the middle of) and that an owner that runs releases in the end, however often
it takes the mutex again meanwhile. Nothing is assumed of the thread in the
middle, which may run for ever. Strong fairness is needed because threads of one
priority take turns: an action is enabled only while its thread runs.
`EventuallyReleased` assumes that tidle makes progress when it is the running
thread and that the tick keeps coming, and concludes only as long as no other
thread is ready.

### Findings

1. `workqueue_lost`. The work thread tests its list and suspends itself with
   interrupts enabled in between (`workqueue.c:58`). A work brought in the gap
   finds the thread ready, so its `rt_thread_resume` does nothing, and the work
   waits until the next one is brought.
2. `signal_token`. `_signal_deliver` tests whether the receiver has a signal to
   handle before it disables interrupts (`signal.c:90`) and does not test again.
   The sender is interrupted there; the receiver handles the signal, calls
   `rt_sem_take` without a token and suspends itself; the sender then resumes it.
   No signal is pending any more, so no handler runs that would set `-RT_EINTR`,
   and `rt_sem_take` returns `RT_EOK` without a token.
3. `ring_force`. When the bytes of `rt_ringbuffer_put_force` pass the end of the
   buffer and overwrite old ones, both mirror bits are flipped and both indices
   made equal (`ringbuffer.c:139`). If the mirrors were equal before, the full
   ring then reads as empty. The comment of the function (`ringbuffer.c:96`) says
   "When the buffer is full, it will discard the old data." `HoldsContent` is
   checked up to this point.

### Limits the passing runs state

These orders of events break a property. They are kept out of the passing runs
by the constants or by `wild`, and are listed as hazards.

- `rt_mp_free` trusts `suspend_thread_count` (`mempool.c:421`), which nobody
  lowers when a waiter times out; a later free may use an empty list's head.
- A retry of `rt_mutex_take` after a signal (`ipc.c:755`) runs with interrupts
  enabled and with the error of the signal still there. `Mutex` follows it when the
  mutex is free and nobody comes in between. Otherwise another thread may come
  between its test and its assignments; a thread that waits again will take the
  hand-over for one more interruption; and one that was handed the mutex while the
  signal was handled waits for itself. A thread that a signal resumed although
  nothing was pending any more (finding 2) returns `RT_EOK` without the mutex.
- A resume of a thread that somebody else resumes, that times out or that dies
  between its test and its two sections (`thread.c:711`) links the thread twice or
  takes a dead one from tidle.
- The work thread takes the first work without testing again after it was woken
  (`workqueue.c:67`); a late resume wakes it with an empty list.
- A handler that brings a work while `rt_workqueue_cancel_all_work` is in the middle
  of a `rt_list_remove` (`workqueue.c:229`) finds the links half written.
- `rt_ipc_list_resume_all` tests the list with interrupts enabled when called by
  the detach and delete functions (`ipc.c:162`); when the last waiter times out
  in between, the head of the list is taken for a thread.
- `rt_thread_kill` with a signal that is already pending takes the first siginfo
  node for its list field, which is not its first member (`signal.c:425`), and
  `rt_signal_wait` walks past the end of a list without the node it looks for, or
  mistakes the second node when it takes the first.
- `rt_thread_delete` works in separate critical sections (`thread.c:441`); a
  sleeping thread whose timer expires in between goes back to the ready table.
- `rt_thread_detach` resets the object type (`thread.c:351`) before tidle reads it
  to tell static from dynamic threads (`idle.c:193`): a static thread with a
  cleanup function would be freed. Only the POSIX layer and the light-weight
  processes set that function, and both are switched off.
- Two threads inside `rt_timer_start` for one timer link it twice
  (`timer.c:327`). A one-shot timer that its own timeout function starts again
  runs on with its flag cleared (`timer.c:541`) and cannot be stopped.
- `rt_timer_control` and `rt_timer_stop` read the flags of a timer, change one and
  write all of them back with interrupts enabled (`timer.c:444`, `476`, `480`). The
  tick interrupt may clear `ACTIVATED` in between; the flag then comes back for a
  timer that is not linked (`torn`), until the next start, stop or detach.
- `rt_timer_start` admits an interval of 0 (`timer.c:323`); a periodic timer with
  it would keep `rt_timer_check` in its loop. The constants have none.
- With two mutexes released in the order they were taken, the priority recorded
  for the second may be an inherited one (`ipc.c:696`); inheritance is not
  transitive (`ipc.c:719`).
- `rt_wqueue_wakeup` wakes one thread: of several readers of a pipe, one sees the
  last writer close (`pipe.c:83`).
- An interrupt wakes one reader of a serial device, however many bytes it brings
  (`waitqueue.c:56`). When that reader asks for fewer, the rest stays in the ring
  while others sleep, until the next interrupt or read. `NoSleepOverData` says
  what holds then: nobody sleeps over bytes unless some reader is on its way to
  them or has got all it asked for (`sated`) since the last interrupt.
- `_poll_add` links no node when `rt_malloc` fails (`poll.c:58`), and `poll()` may
  sleep over what comes: `NoPipeSleeper` leaves out a `poll()` in a queue in which
  it was `denied` its node. A ring that could not be created (`pipe.c:33`) stops
  its users in assertions; what `poll()` reads through the null pointer, and what
  comes of the ring that `rt_ringbuffer_create` returns after it has freed it
  (`ringbuffer.c:342`), is not said.
- Nobody clears `pt->triggered` before `poll()` returns (`poll.c:94`): a thread
  that was woken for something another one took tests again and again.

## 4. Proofs

Eight modules hold theorems. `KernelProofs` has only lemmas, the others prove
properties of the runs for every set of threads and assignment of priorities in
which tidle is the least urgent, and for every value of the other constants.

| Theorem (module) | Says |
|---|---|
| `SemaphoreKernelConsistent`, `SemaphoreNoWaiterWithToken`, `SemaphoreNoThreadLost`, `SemaphorePreemptive` (`SemaphoreProofs`) | lists, bitmap, states and timers agree; nobody waits while there is a token; a suspended thread is in the wait list; a most urgent ready thread runs |
| `SemaphoreTokenConservation` | no step loses or makes a token |
| `SemaphoreRefinement` | `Semaphore` implements `AbstractSemaphore` |
| `SignalNodesConserved`, `SignalOneEntryContext`, `SignalNobodySleepsOverSignal` (`SemaphoreProofs`) | no siginfo node is lost or given back twice; a stack holds one context of `_signal_deliver`; an unmarked sleeper over a signal is about to be delivered to |
| `MutexMutualExclusion`, `MutexNoLostWakeup` (`MutexProofs`) | any number of mutexes, taken recursively: each is held by its owner as often as its counter says; nobody waits for a free one (up to a retry after a signal that is disturbed) |
| `MutexPriorityRestored`, `MutexNoInversion` | with one priority-ordered mutex: a thread that owns nothing runs at its own priority, an owner is never less urgent than a waiter |
| `MemPoolBlockConservation`, `MemPoolNoLostWakeup`, `MemPoolNobodyLeftBehind` (`MemoryProofs`) | a block is free or has one holder; as many threads are on their way to the free blocks as there are blocks while others wait; a detach resumes everybody |
| `HeapConsistency`, `HeapBlocksIntact` | splits and merges keep the chain, the list of free blocks and `available_size` together; a block is its client's own and stays as large as it last asked for |
| `HeapFailsOnlyWhenFull` | an allocation fails only if no free block is large enough, or all that is free was asked for, or while a realloc is between its two updates of `available_size` |
| `RingHoldsContent` | the ring buffer holds what was written and not yet read (up to finding 3) |
| `EventFlagsConserved`, `EventGetsWhatItAsked`, `EventNobodyWaitsSatisfied` (`EventProofs`) | a cleared flag goes to one receiver; a receiver returns with what it asked for; nobody stays in the queue of an event whose flags satisfy it |
| `TimersSorted`, `TimersRefinement` | the list stays sorted across the wrap of the tick, and a flagged timer is linked unless it is `torn`; `Timer` implements `AbstractTimer` |
| `MailboxNoLostWakeup`, `MailboxRefinement` (`MailboxProofs`) | neither side sleeps over mail or room; `Mailbox` implements `AbstractChannel` |
| `MessageQueueSlotConservation`, `MessageQueueNoLostWakeup`, `MessageQueueRefinement` (`MessageQueueProofs`) | a slot is free, in the queue or in one thread's hands; no receiver sleeps over a message; `MessageQueue` implements `AbstractChannel` |
| `CompletionConsumedOnce` (`ServiceProofs`) | a completion is not slept over and is consumed once |
| `WorkAwaitsCurrent` | who sleeps in a cancel waits for the work being done (up to `wild`) |
| `SerialHoldsLatest`, `SerialNoSleepOverData` | the receive ring keeps the latest bytes; no reader sleeps over them while nobody is on its way to read them |
| `PipeNobodySleeps` | neither the reader nor the writer of a pipe sleeps, in a read, a write or a `poll()`, over bytes, room or a closed end, unless the other is about to wake it or a `poll()` was denied its node |
| `ThreadsInOneList`, `DeadReleasedOnce` | a thread is linked once, where its state says; a dead one waits for tidle until it is released, once, and is not used after that (up to a resume that is `late`) |

`SemaphoreInvariant`, `SignalInvariant`, `MutexInvariant`, `MutexPriorities`,
`MemPoolInvariant`, `HeapInvariant`, `EventInvariant`, `MailboxInvariant` and
`MessageQueueInvariant` are the inductive invariants behind these.

### Assumptions

Those of the modules, which TLC evaluates in every run: the set of threads is
finite, there is at least one priority, tidle is the least urgent thread; the
counters of the code do not overflow (fewer tokens than `ValueMod`, 2^16 in the
code; a mailbox with at most 2^16 - 1 entries, what `rt_mb_init` can store;
nesting of a mutex below 2^8); the range of the tick is more than twice the
longest interval plus the delay; the memory of the heap has room for two headers
and a least block, and these sizes are aligned. Some theorems state one more: the
timers have one user each (`OneUser`; with two, `timer.c:327` links a timer
twice), the priorities of a mutex are proved for one priority-ordered mutex
(`OnePrioMutex`; with two they are false, see the limits above), a pipe has one
reader and one writer, neither of which opens it `O_RDWR` (`OnePair`; of two
sleepers the last close wakes one, `pipe.c:83`), and nobody deletes a thread that
sleeps or detaches a static one with a cleanup function (`QuietMortals`; with
those the two theorems about the end of threads are false, see the limits at
`thread.c:441` and `thread.c:351`). The constants of the runs satisfy all four,
but for the `O_RDWR` of `services`, which goes beyond `OnePair`.

### Argument

The proofs have two layers. `KernelProofs` proves once for each kernel function
that it keeps `KInv` (no list holds a thread twice, table, bitmap, wait lists,
states and timers agree), and what it changes: first lists (`RemoveAtProperties`,
`InsertAtProperties`, `UnlinkProperties`), then `InsertThread`, `RemoveThread`,
`ScheduleKeeps` for the scheduler, then `SuspendKeeps`, `ResumeKeeps`,
`TimeoutKeeps`, `IpcSuspendKeeps`, `StartTimer`, `ChangePriorityKeeps`,
`ResumeAllKeeps`. None mentions an object. It also has what sums over sets and
loops over lists need: a fold equals the function that computes it one element at
a time (`FoldExists`, `LoopExists`), so that `TotalChange` and `LoopKeeps` follow
from the smallest subset for which they would fail. Each object module then has a
lemma per group of actions, which are combined in the lemma for `Next`.

No property is inductive as it stands. What had to be added, and why:

- Semaphore: `RunsOrBlocks` (tidle is ready; the running thread is ready except
  between its suspension and the `rt_schedule()` that follows, and does not hold
  the scheduler lock there). Without it `rt_schedule` could find nobody to run.
  For the conservation of tokens, the tokens that are granted and not yet
  returned from `rt_sem_take` are counted too.
- Signals: `SigRuns` (a suspended thread is inside `rt_sem_take` or
  `rt_signal_wait`), `FrameRules` (on each stack what the thread began itself is at
  the bottom, the context of `_signal_deliver` on top, under the mark and outside
  of a wait for a signal), `Noticed` (a signal with a node that is let through is
  about to be delivered, or its thread is marked and has yet to look at its list)
  and `SigNodes`, the count of the nodes with those in the hand of a killer
  between allocation and link. `_signal_entry` may return over a signal it did not
  see: `Noticed` then says that a delivery is on its way.
- Mutex: `HoldCounts` (the counter of a mutex is the number of its owner's claims,
  the one just granted included), `Running`, `Waiters` (who is linked in a mutex
  is inside its `rt_mutex_take`, has no error yet and does not own it), `Answers`
  (an error other than `-RT_EINTR` says that the thread was not handed the mutex,
  and `RT_EOK` that it was, unless a signal has resumed it) and `Owners` (a free
  mutex counts nothing, an owned one has recorded a priority, and its owner was
  started). For the priorities: `OwnPriorities` (the recorded original priority is
  the owner's own) and `Inherited` (the waiters are linked in the order of their
  priorities, and the owner is at least as urgent as each).
- Memory pool: `OneHolder`, `Running`, `Waiting` (the suspended threads are the
  waiters, they are inside `rt_mp_alloc` without an error yet, and
  `suspend_thread_count` is not below their number), the finite set `Trying` of
  the threads that will try again, which a free makes grow and an allocation
  shrink by one, and `Doomed` (who waited when the detach began waits still or
  gives up).
- Heap: `HeapInv` keeps the order of the addresses (`Chain`: the headers in a
  circle in both directions, each with room behind it, and none between a header
  and its `next`), which `HeapConsistent` says of neighbours only. `Owned` and
  `ClientOK` say what each client relies on while it has no lock: the block that it
  reallocates is its own, and at "shrink" still as large as when it was measured.
  Between the two updates of `rt_memheap_realloc` one free block is missing from
  list and count (`unlinked`). Linking and unlinking a header (`ChainInsert`,
  `ChainRemove`) and the sum over the free blocks (`SumOut`, `SumSame`) are lemmas
  about any chain; `FreeEffect`, `TakeSplit`, `TakeWhole`, `GrowInto` and
  `ShrinkSplit` put them together, one for each thing that is done under the lock,
  and `OneStep` says why the other clients do not notice. That an allocation fails
  only when no block is large enough needs that a step of one client is not the
  failure of another (`FailureIsOwn`), and that no free block is larger than
  `available_size` when no realloc is under way (`FreeWithin`).
- Event: `Waiting`, `Detaching`, `Served01` and `Conserved`, which count for each
  flag the receivers that were given it and have not returned. A send is a loop
  over the queue, and `SentTo` is its loop invariant.
- Mailbox: `NoLostMail` and `NoLostRoom` (a wake-up is under way for every mail
  or room that waiters could use) and `Waiting`. The refinement also needs
  `Offers` (what each sender has in hand) and `Offsets` (the write offset is the
  read offset plus the number of entries).
- Message queue: `SlotInv`. Its `Lists` says that the `next` fields lead from the
  two heads through two sequences without a common slot; that `from`, which follows
  those fields, returns just these is a lemma (`FromChain`), proved like the sums
  from a function over prefixes. `Shared` puts every slot in a list or in the hands
  of one thread, and `Holds` says which slot a thread holds where, and that the one
  it is about to link has its message and ends the chain. With `Waiting` the
  wake-ups are counted as in the mailbox, and for the refinement `Line` is what is
  written in the queued slots. A reset is a loop (`FreedTo` is its invariant).
- Completion: `CompletionWaits` (only the waiter is ever suspended, in the list
  where `rt_completion_done` finds it, and it leaves it with the flag set or an
  error).
- Work queue: `WorkRuns`, `WorkLists` and `WorkAwaited` (who waits on the
  semaphore of the queue waits for the work in progress; a work is in the list or
  in progress, once). All of them hold with the scheduler unlocked (`WorkOpen`);
  while a `rt_workqueue_cancel_all_work` has it locked only that client and the
  interrupts take steps (`WorkLocked`). A client between the sections of its resume
  leaves the work thread suspended and in no list.
- Timers: `Clients` and `Armed` (which list operations a client is between),
  `InTime` (no running timer is overdue by more than the ticks lost inside one
  call), and the order of the list by the ticks left as plain numbers: `Ordered`
  over these is what subtraction modulo the range of the tick preserves.
- Ring buffer: `Holds` (the write index is the read index plus the length, modulo
  the size; the mirror bits differ when that passed the end). Get, put and both
  forms of a forced put are shown to keep it, the last up to finding 3.
- Serial receive: `HoldsUpTo` (the bytes before the put index are the latest, and
  a full flag means that one place is empty), kept by each turn of the interrupt's
  loop. For the sleep of readers: `SerialRuns` (who waits asked for `Count` bytes
  and got none; only in `rt_wqueue_wait` is anybody suspended), `SerialQueue` (the
  list is that of the suspended threads, each once) and `SerialAwake`, which
  speaks also of the readers that are about to sleep and find the flag of the
  queue clear: these must have somebody awake to rely on too.
- Pipe: `PipeAwake` speaks not only of who sleeps but of whoever will without
  looking again (`Drowse`: between the test and the sleep with the flag of its
  queue clear, or in `poll()` and not triggered), and says that the other thread
  is at a place from which it will wake that queue (`Waker`, which is stronger
  than `AboutToWake`: it asks for the condition under which the code wakes, too).
  `PipeLists` says where a node is linked exactly: that of `rt_wqueue_wait` while
  its thread sleeps there, those of `poll()` from `_poll_add` until they are taken
  out or the thread was triggered. So a wake-up finds the sleeper or there is
  none, and since nobody is about to wake its own queue, a sleeper's waker is
  always the other one. `PipeCounts` adds that who has opened the pipe is counted,
  by which the end of file is seen. `MoveStep`, `QueueStep`, `OwnStep` and
  `WakeMoves` are the kinds of steps: without the lists, with them, with the
  thread's own node, with a wake-up.
- End of threads: a thread between the sections of `rt_thread_delete` has a state
  that no list agrees with, and a dead one is in a list that is no wait list, so
  the kernel is not consistent as it stands. `Live` says that it is when the
  threads being deleted (`doomed`) count as closed and the dead ones as unlinked,
  and one lemma per kernel function and per step of a deletion keeps it
  (`LiveSchedule`, `LiveClosed`, ...). Then `Targets` (each is deleted by one
  thread only), `Objects` (which objects `rt_object_is_systemobject` still takes
  for static) and `Releases`: a dynamic thread is closed, not doomed and not in
  the list of tidle exactly if it has been released or is in the hands of tidle,
  and its cleanup has been called exactly if the same holds.

Two attempts showed that a formula said too much. The sleep property of `Serial`
did not hold for a `Count` smaller than what the ring can hold, which the instance
used until then (a ring of three places, two bytes asked for) could not show; TLC
found the behaviour in the larger one. And the priorities of the mutex needed
`OnePrioMutex`.

### Only model-checked

Liveness (`UrgentTakeReturns`, `EventuallyReleased`), which under fairness is out
of the prover's reach; users of a pipe that open it `O_RDWR`; and the type
invariant of `Semaphore` on its own, which is part of `SemaphoreInvariant`. Every
other property of a passing run is a theorem.

## 5. Not modelled, and why

Of modelled components: `rt_signal_install` and the clean-up of the signals of a
thread that exits (tables that are set up and freed); `rt_memheap_detach`,
`rt_calloc`, further heaps and sizes near 2^32; the device operations of a pipe
(they move bytes under the same mutex and never wait), `mkfifo`, `pipe()` and
`rt_pipe_delete`; `poll()` on several descriptors, which repeats the test; detach
and delete of semaphore, mutex, mailbox and message queue, the same loop as that
of `Event`; `rt_workqueue_destroy`, which deletes the work thread whatever it
does; `rt_wqueue_wait` with a timeout, which neither `serial.c` nor `pipe.c` uses;
soft timers, which are configured out.

Other components: the device layer forwards calls and counts opens. The data
queue is compiled but nothing configured uses it, and nothing uses
`ringblk_buf.c`. The I2C, SPI, SDIO, RTC and pin frameworks take a lock around
one call of a board driver. Board drivers program registers. File systems,
network, shell, POSIX layer, chip libraries and the packages named in
`rtconfig.h` (RW007, littlevgl) are third-party or thin layers over what is
modelled; most of the 2600 files are these. `mem.c` and `slab.c` are not built.

## 6. Plan

Done: the kernel record; semaphore, signals next to it, mutex, pool, heap, event
with detach, mailbox, message queue, timers, work queue, completion, ring buffer,
wait queue and serial receive, pipe and poll, thread life cycle, with their
proofs.

1. Several mutexes: nested in stack order, chains of owners.
2. Timers shared by several clients.
3. Serial open, close and control with the device layer; the data queue.
4. Several readers and writers of a pipe, with what then still holds.
