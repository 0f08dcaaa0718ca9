-------------------------------- MODULE Pipe --------------------------------
(***************************************************************************)
(* The file operations of a pipe (pipe.c): readers and writers share a     *)
(* ring buffer behind a mutex, sleep in two wait queues (WaitQueue), and   *)
(* may poll() the pipe (poll.c) before they read or write.  Of the ring    *)
(* buffer, which Ring models, only the number of its bytes is kept here.   *)
(*                                                                         *)
(* The threads that use the pipe are equally urgent, so that the mutex has *)
(* no priority to pass on, and any of them may run between any two steps.  *)
(* A rt_schedule() that follows a critical section is part of it: the tick *)
(* lets the others run in between and after it just the same.              *)
(*                                                                         *)
(* doing[t] is the operation thread t is in, pc[t] where it is there:      *)
(* "p_lock" before rt_mutex_take, "p_body" once it has the mutex, "p_woke" *)
(* before the rt_wqueue_wakeup of a read, "p_close_r", "p_close_w" and     *)
(* "p_close" in the rest of a close, "p_unlock" before the last            *)
(* rt_mutex_release, "p_unlock_wait" before the one of a thread that will  *)
(* wait, "p_wake_wait" before it wakes the other side, then that of        *)
(* rt_wqueue_wait; "p_wake_end" before the last wake-up of a write.  In    *)
(* poll(): "add_r", "add_w", "p_test", "p_wait", "p_slept", "del_w" and    *)
(* "del_r".                                                                *)
(***************************************************************************)
EXTENDS WaitQueue

CONSTANTS
  PipeUser,      \* the threads that use the pipe
  Side,          \* Side[t]: "read" or "write", how t opens it
  RdWr,          \* the threads that may also open it O_RDWR
  Lock,          \* the wait list of pipe->lock
  reader_queue, writer_queue,
  bufsz,         \* pipe->bufsz
  PipeCount,     \* how many bytes a read or a write is for
  Nobody         \* no thread

ASSUME PipeAssumption ==
  /\ PipeUser \subseteq Thread \ {Idle}
  /\ \A t, u \in PipeUser : InitPrio[t] = InitPrio[u]
  /\ Side \in [PipeUser -> {"read", "write"}] /\ RdWr \subseteq PipeUser
  /\ Lock \in Queue /\ {reader_queue, writer_queue} \subseteq WQ
  /\ reader_queue # writer_queue
  /\ bufsz \in Nat \ {0} /\ PipeCount \in Nat \ {0}
  /\ Nobody \notin Thread

VARIABLES
  owner,         \* pipe->lock.owner
  readers, writers,
  bytes,         \* rt_ringbuffer_data_len(pipe->fifo)
  fifo,          \* pipe->fifo is a ring buffer
  fds,           \* the threads that have the pipe open; as many as
                 \* device->ref_count
  rdwr,          \* those of them that have opened it O_RDWR, or are about to
  doing,
  rest,          \* count - ret in pipe_fops_write
  wrote,         \* the local variable wakeup of pipe_fops_write
  triggered,     \* pt->triggered in the poll() of a thread
  denied         \* the queues in which the poll() of a thread has no node,
                 \* because rt_malloc failed

\* What the opens and the allocations have left.
given == <<fifo, rdwr, denied>>
pipe  == <<owner, readers, writers, bytes, fds, doing, rest, wrote, triggered, given>>

Ops == {"none", "open", "close", "read", "write", "poll"}

PipeTypeOK ==
  /\ owner \in Thread \cup {Nobody}
  /\ readers \in Nat /\ writers \in Nat /\ bytes \in 0 .. bufsz /\ fds \subseteq PipeUser
  /\ doing \in [Thread -> Ops] /\ rest \in [Thread -> 0 .. PipeCount]
  /\ wrote \in [Thread -> BOOLEAN] /\ triggered \in [Thread -> BOOLEAN]
  /\ fifo \in BOOLEAN /\ rdwr \subseteq RdWr /\ denied \in [Thread -> SUBSET WQ]

\* rt_pipe_create
PipeInit ==
  /\ owner = Nobody
  /\ readers = 0 /\ writers = 0 /\ bytes = 0 /\ fds = {}
  /\ doing = [t \in Thread |-> "none"]
  /\ rest = [t \in Thread |-> 0]
  /\ wrote = [t \in Thread |-> FALSE]
  /\ triggered = [t \in Thread |-> FALSE]
  /\ fifo = FALSE /\ rdwr = {} /\ denied = [t \in Thread |-> {}]

\* fd->flags & O_ACCMODE.
reads(t)  == Side[t] = "read" \/ t \in rdwr
writes(t) == Side[t] = "write" \/ t \in rdwr

-----------------------------------------------------------------------------
(* The mutex, as Mutex models it, for threads of one urgency.              *)

\* rt_mutex_take: a thread that waits owns the mutex when it runs again.
TakeLock(t) ==
  /\ At(t, "p_lock")
  /\ IF owner = Nobody
     THEN owner' = t /\ UNCHANGED k
     ELSE k' = rt_schedule(rt_ipc_list_suspend([k EXCEPT !.err[t] = "eok"],
                                               Lock, t, "fifo"))
          /\ UNCHANGED owner
  /\ Go(t, "p_body")
  /\ UNCHANGED <<readers, writers, bytes, fds, doing, rest, wrote, triggered, given,
                 queues>>

\* rt_mutex_release: the first thread that waits becomes the owner.
release ==
  IF k.wait[Lock] = << >>
  THEN owner' = Nobody /\ UNCHANGED k
  ELSE owner' = Head(k.wait[Lock]) /\ k' = rt_schedule(rt_ipc_list_resume(k, Lock))

\* rt_wqueue_wakeup; the wake function of poll() notes that it was called.
wake(q, key) ==
  /\ rt_wqueue_wakeup(q, key)
  /\ triggered' = IF accepting(q, key) = {} \/ "any" \in found(q, key).events
                  THEN triggered
                  ELSE [triggered EXCEPT ![found(q, key).thread] = TRUE]

InBody(t, what) == At(t, "p_body") /\ doing[t] = what

\* The operation is over, and its local variables are gone.
Return(t) ==
  /\ Go(t, "run")
  /\ doing' = [doing EXCEPT ![t] = "none"]
  /\ rest' = [rest EXCEPT ![t] = 0]
  /\ wrote' = [wrote EXCEPT ![t] = FALSE]

-----------------------------------------------------------------------------
(* pipe_fops_open and pipe_fops_close.                                     *)

Call(t, what) ==
  /\ At(t, "run") /\ t \in PipeUser
  /\ doing' = [doing EXCEPT ![t] = what]
  /\ Go(t, "p_lock")
  /\ UNCHANGED <<k, owner, readers, writers, bytes, fds, triggered, fifo, denied,
                 queues>>

CallOpen(t) ==
  /\ t \notin fds /\ Call(t, "open")
  /\ \/ UNCHANGED rdwr
     \/ t \in RdWr /\ rdwr' = rdwr \cup {t}
  /\ UNCHANGED <<rest, wrote>>

\* The first open creates the ring, or fails to, which nobody looks at.  A thread
\* that needs the ring then takes no more step: rt_ringbuffer_get, _put and
\* _destroy stop it in an assertion, the mutex in its hands.  What poll() reads
\* through the pointer, and what comes of a ring that rt_ringbuffer_create has freed
\* before it returned it, is not said.
Open(t) ==
  /\ InBody(t, "open")
  /\ IF fds = {} THEN bytes' = 0 /\ fifo' \in BOOLEAN ELSE UNCHANGED <<bytes, fifo>>
  /\ readers' = IF reads(t) THEN readers + 1 ELSE readers
  /\ writers' = IF writes(t) THEN writers + 1 ELSE writers
  /\ fds' = fds \cup {t}
  /\ Go(t, "p_unlock")
  /\ UNCHANGED <<k, owner, doing, rest, wrote, triggered, queues, rdwr, denied>>

CallClose(t) ==
  /\ t \in fds /\ Call(t, "close")
  /\ UNCHANGED <<rest, wrote, rdwr>>

Close(t) ==
  /\ InBody(t, "close")
  /\ readers' = IF reads(t) THEN readers - 1 ELSE readers
  /\ writers' = IF writes(t) THEN writers - 1 ELSE writers
  /\ Go(t, "p_close_r")
  /\ UNCHANGED <<k, owner, bytes, fds, doing, rest, wrote, triggered, queues, given>>

\* Without writers a reader is woken, without readers a writer.
CloseReaders(t) ==
  /\ At(t, "p_close_r")
  /\ IF writers = 0 THEN wake(reader_queue, {"POLLIN", "POLLERR", "POLLHUP"})
                    ELSE UNCHANGED <<k, queues, triggered>>
  /\ Go(t, "p_close_w")
  /\ UNCHANGED <<owner, readers, writers, bytes, fds, doing, rest, wrote, given>>

CloseWriters(t) ==
  /\ At(t, "p_close_w")
  /\ IF readers = 0 THEN wake(writer_queue, {"POLLOUT", "POLLERR", "POLLHUP"})
                    ELSE UNCHANGED <<k, queues, triggered>>
  /\ Go(t, "p_close")
  /\ UNCHANGED <<owner, readers, writers, bytes, fds, doing, rest, wrote, given>>

\* The last close destroys the ring.
CloseEnd(t) ==
  /\ At(t, "p_close")
  /\ fds' = fds \ {t} /\ rdwr' = rdwr \ {t}
  /\ \/ fds' = {} /\ fifo /\ fifo' = FALSE /\ bytes' = 0
     \/ fds' # {} /\ UNCHANGED <<bytes, fifo>>
  /\ Go(t, "p_unlock")
  /\ UNCHANGED <<k, owner, readers, writers, doing, rest, wrote, triggered,
                 queues, denied>>

-----------------------------------------------------------------------------
(* pipe_fops_read and pipe_fops_write.                                     *)

\* The test of pipe->writers before the mutex is taken: without writers the read
\* is over.
CallRead(t) ==
  /\ t \in fds /\ reads(t) /\ writers > 0
  /\ Call(t, "read")
  /\ UNCHANGED <<rest, wrote, rdwr>>

\* End of file, or what there is to read, or a wait, or -EAGAIN.
ReadBody(t) ==
  /\ InBody(t, "read")
  /\ \/ writers = 0 /\ Go(t, "p_unlock") /\ UNCHANGED bytes
     \/ /\ writers > 0 /\ fifo /\ bytes > 0
        /\ bytes' = bytes - Min({PipeCount, bytes})
        /\ Go(t, "p_woke")
     \/ /\ writers > 0 /\ fifo /\ bytes = 0
        /\ Go(t, "p_unlock") \/ Go(t, "p_unlock_wait")
        /\ UNCHANGED bytes
  /\ UNCHANGED <<k, owner, readers, writers, fds, doing, rest, wrote, triggered, given,
                 queues>>

ReadWake(t) ==
  /\ At(t, "p_woke")
  /\ wake(writer_queue, {"POLLOUT"})
  /\ Go(t, "p_unlock")
  /\ UNCHANGED <<owner, readers, writers, bytes, fds, doing, rest, wrote, given>>

CallWrite(t) ==
  /\ t \in fds /\ writes(t) /\ readers > 0
  /\ Call(t, "write")
  /\ rest' = [rest EXCEPT ![t] = PipeCount]
  /\ wrote' = [wrote EXCEPT ![t] = FALSE]
  /\ UNCHANGED rdwr

\* -EPIPE, or as much as there is room for and, if that is not all, a wait or
\* the end of a write that must not wait.
WriteBody(t) ==
  /\ InBody(t, "write")
  /\ \/ readers = 0 /\ Go(t, "p_unlock") /\ UNCHANGED <<bytes, rest, wrote>>
     \/ LET n == Min({rest[t], bufsz - bytes}) IN
        /\ readers > 0 /\ fifo
        /\ bytes' = bytes + n
        /\ rest' = [rest EXCEPT ![t] = @ - n]
        /\ wrote' = [wrote EXCEPT ![t] = TRUE]
        /\ \/ Go(t, "p_unlock")
           \/ rest[t] > n /\ Go(t, "p_unlock_wait")
  /\ UNCHANGED <<k, owner, readers, writers, fds, doing, triggered, queues, given>>

Unlock(t) ==
  /\ At(t, "p_unlock")
  /\ release
  /\ IF doing[t] = "write" /\ wrote[t]
     THEN Go(t, "p_wake_end") /\ UNCHANGED <<doing, rest, wrote>>
     ELSE Return(t)
  /\ UNCHANGED <<readers, writers, bytes, fds, triggered, queues, given>>

WriteEnd(t) ==
  /\ At(t, "p_wake_end")
  /\ wake(reader_queue, {"POLLIN"})
  /\ Return(t)
  /\ UNCHANGED <<owner, readers, writers, bytes, fds, given>>

UnlockWait(t) ==
  /\ At(t, "p_unlock_wait")
  /\ release
  /\ Go(t, "p_wake_wait")
  /\ UNCHANGED <<readers, writers, bytes, fds, doing, rest, wrote, triggered, given,
                 queues>>

\* The other side is woken before the thread waits for it.
WakeWait(t) ==
  /\ At(t, "p_wake_wait")
  /\ IF doing[t] = "read" THEN wake(writer_queue, {"POLLOUT"})
                          ELSE wake(reader_queue, {"POLLIN"})
  /\ Go(t, "wait")
  /\ UNCHANGED <<owner, readers, writers, bytes, fds, doing, rest, wrote, given>>

\* rt_wqueue_wait, and the mutex again.
Wait(t) ==
  /\ doing[t] \in {"read", "write"}
  /\ WaitStep(t, IF doing[t] = "read" THEN reader_queue ELSE writer_queue, "p_lock")
  /\ UNCHANGED pipe

-----------------------------------------------------------------------------
(* poll() on the pipe, with a timeout or for ever.                         *)

\* req->_key: the thread asks for what it has opened the pipe for.
events(t) ==
  (IF reads(t) THEN {"POLLIN"} ELSE {}) \cup (IF writes(t) THEN {"POLLOUT"} ELSE {})
    \cup {"POLLERR", "POLLHUP"}

\* The two halves of pipe_fops_poll, without the mutex.
readable ==
  (IF bytes # 0 THEN {"POLLIN"} ELSE {}) \cup (IF writers = 0 THEN {"POLLHUP"} ELSE {})
writable ==
  (IF bytes # bufsz THEN {"POLLOUT"} ELSE {})
    \cup (IF readers = 0 THEN {"POLLERR"} ELSE {})

mask(t) ==
  (IF reads(t) THEN readable ELSE {}) \cup (IF writes(t) THEN writable ELSE {})

Poll(t) ==
  /\ At(t, "run") /\ t \in fds
  /\ doing' = [doing EXCEPT ![t] = "poll"]
  /\ triggered' = [triggered EXCEPT ![t] = FALSE]
  /\ Go(t, "add_r")
  /\ UNCHANGED <<k, owner, readers, writers, bytes, fds, rest, wrote, queues, given>>

\* _poll_add links a node in each of the two queues, or none when rt_malloc fails.
PollAdd(t, at, q, next) ==
  /\ At(t, at)
  /\ \/ /\ waiting' = [waiting EXCEPT ![q] = Append(@, Node(t, events(t)))]
        /\ UNCHANGED denied
     \/ denied' = [denied EXCEPT ![t] = @ \cup {q}] /\ UNCHANGED waiting
  /\ Go(t, next)
  /\ UNCHANGED <<k, wakeup, owner, readers, writers, bytes, fds, doing, rest, wrote,
                 triggered, fifo, rdwr>>

PollTest(t) ==
  /\ At(t, "p_test")
  /\ fifo
  /\ Go(t, IF mask(t) # {} THEN "del_w" ELSE "p_wait")
  /\ UNCHANGED <<k, pipe, queues>>

\* Mutant: the thread sleeps although it was triggered.
SleepTriggered(t, timeout) ==
  /\ At(t, "p_wait")
  /\ LET k1 == rt_thread_suspend(k, t)
     IN k' = rt_schedule(IF timeout = "some" THEN rt_timer_start(k1, t) ELSE k1)
  /\ Go(t, "p_slept")
  /\ UNCHANGED <<pipe, queues>>

\* poll_wait_timeout: a thread that was triggered tests again at once.  Nobody
\* clears the flag before poll() returns.
PollWait(t, timeout) ==
  /\ At(t, "p_wait")
  /\ IF triggered[t]
     THEN Go(t, "p_test") /\ UNCHANGED k
     ELSE /\ LET k1 == rt_thread_suspend(k, t)
             IN k' = rt_schedule(IF timeout = "some" THEN rt_timer_start(k1, t) ELSE k1)
          /\ Go(t, "p_slept")
  /\ UNCHANGED <<pipe, queues>>

\* When nobody has triggered the thread the time is over: one more test, whose
\* result ends the call.
PollSlept(t) ==
  /\ At(t, "p_slept")
  /\ Go(t, IF triggered[t] THEN "p_test" ELSE "del_w")
  /\ UNCHANGED <<k, pipe, queues>>

\* poll_teardown, the node that was added last first.
PollRemove(t, at, q) ==
  /\ At(t, at)
  /\ rt_wqueue_remove(q, Node(t, events(t)))
  /\ IF at = "del_r"
     THEN /\ Return(t) /\ triggered' = [triggered EXCEPT ![t] = FALSE]
          /\ denied' = [denied EXCEPT ![t] = {}]
     ELSE Go(t, "del_r") /\ UNCHANGED <<doing, rest, wrote, triggered, denied>>
  /\ UNCHANGED <<k, wakeup, owner, readers, writers, bytes, fds, fifo, rdwr>>

PollStep(t) ==
  \/ Poll(t)
  \/ PollAdd(t, "add_r", reader_queue, "add_w")
  \/ PollAdd(t, "add_w", writer_queue, "p_test")
  \/ PollTest(t)
  \/ \E timeout \in {"some", "forever"} : PollWait(t, timeout)
  \/ PollSlept(t)
  \/ PollRemove(t, "del_w", writer_queue)
  \/ PollRemove(t, "del_r", reader_queue)

PipeStep(t) ==
  \/ CallOpen(t) \/ CallClose(t) \/ CallRead(t) \/ CallWrite(t)
  \/ TakeLock(t)
  \/ Open(t)
  \/ Close(t) \/ CloseReaders(t) \/ CloseWriters(t) \/ CloseEnd(t)
  \/ ReadBody(t) \/ ReadWake(t)
  \/ WriteBody(t) \/ WriteEnd(t)
  \/ Unlock(t) \/ UnlockWait(t)
  \/ WakeWait(t) \/ Wait(t)
  \/ PollStep(t)

PipeNext ==
  \/ \E t \in PipeUser : PipeStep(t)
  \/ ThreadsNext /\ UNCHANGED <<pipe, queues>>

-----------------------------------------------------------------------------
\* A thread that will wake whoever sleeps on the other side.
AboutToWake(q) ==
  \E t \in PipeUser :
    \/ pc[t] = "p_close_r" /\ q = reader_queue
    \/ pc[t] \in {"p_close_r", "p_close_w"} /\ q = writer_queue
    \/ /\ doing[t] = IF q = reader_queue THEN "write" ELSE "read"
       /\ pc[t] \in {"p_woke", "p_unlock", "p_unlock_wait", "p_wake_wait", "p_wake_end"}

\* The queue in which a thread waits, and what it waits for.
queue_of(t) ==
  IF doing[t] = "read" \/ (doing[t] = "poll" /\ reads(t)) THEN reader_queue
                                                          ELSE writer_queue

found_by(t) ==
  CASE doing[t] = "read" -> readable
    [] doing[t] = "write" -> writable
    [] OTHER -> mask(t)

\* Nobody sleeps in a read, a write or a poll() that has something to do: bytes or
\* room have come, or the other side has closed the pipe, since the thread looked,
\* unless the thread that did it is about to wake the sleeper.  This is what the
\* flags of the queues, the nodes that poll() adds before it looks, and the
\* triggered flag are for.  One thread on each side: of two sleepers the end of
\* file, or a read that leaves bytes, wakes one.  A poll() that was denied its node
\* in the queue is left out: _poll_add returns without a word (poll.c:58), and the
\* thread sleeps over what comes.
NoPipeSleeper ==
  /\ PipeTypeOK
  /\ \A t \in PipeUser :
       /\ \/ t \in sleeping /\ doing[t] \in {"read", "write"}
          \/ pc[t] = "p_slept" /\ k.stat[t] = "suspend" /\ queue_of(t) \notin denied[t]
       /\ found_by(t) # {}
       => AboutToWake(queue_of(t))
=============================================================================
