------------------------------ MODULE WorkQueue ------------------------------
(***************************************************************************)
(* The work queue of the device drivers (workqueue.c): clients append      *)
(* works to a list and resume the work thread, which takes them one by one *)
(* and suspends itself when there are none.  A client may cancel a work,   *)
(* and wait for the one that is being done.                                *)
(*                                                                         *)
(* pc[t] is where thread t is.  Clients: "run" in their own code; "resume" *)
(* between the critical section of rt_workqueue_dowork and its             *)
(* rt_thread_resume, "res_unlink" and "res_insert" before the two critical *)
(* sections of that; "cancel_first", "cancel", "cancel_next" and           *)
(* "cancel_unlink" in the loop of rt_workqueue_cancel_all_work, which only *)
(* locks the scheduler; "synced" when rt_workqueue_cancel_work_sync runs   *)
(* again.  Work thread: "test" at the head of its loop, "suspend" and      *)
(* "w_sched" when the list was empty, "take", "work" in work_func, "pause" *)
(* and "paused" when that sleeps, "clear" and "ack".                       *)
(***************************************************************************)
EXTENDS Drivers

CONSTANTS
  Worker,     \* queue->work_thread
  Work,       \* the works
  Sem,        \* the wait list of queue->sem
  Submitter,  \* the clients that bring works
  Canceller,  \* the clients that cancel works that are not being done
  Null        \* RT_NULL

Client == Thread \ {Idle, Worker}

ASSUME WorkQueueAssumption ==
  /\ Sem \in Queue
  /\ Worker \in Thread \ {Idle}
  /\ IsFiniteSet(Work) /\ Null \notin Work
  /\ Submitter \subseteq Client /\ Canceller \subseteq Client

VARIABLES
  work_list,      \* queue->work_list
  work_current,   \* queue->work_current
  awaited,        \* the argument of the rt_workqueue_cancel_work_sync that waits
  node, next,     \* the local variables of rt_workqueue_cancel_all_work; Null
                  \* is the head of the list
  wild            \* the head of an empty list was used as a work, a resume came
                  \* too late, or a handler met a work half unlinked

cancel == <<node, next>>
queue == <<work_list, work_current, awaited, cancel>>
work == <<queue, wild>>

WorkTypeOK ==
  /\ k \in KernelState
  /\ work_list \in Seq(Work) /\ IsInjective(work_list)
  /\ work_current \in Work \cup {Null}
  /\ awaited \in [Thread -> Work \cup {Null}]
  /\ node \in Work \cup {Null} /\ next \in Work \cup {Null}
  /\ wild \in BOOLEAN

\* rt_workqueue_create starts the work thread before it gives the queue away.
WorkInit ==
  /\ k = rt_schedule(rt_thread_startup(
           scheduler_started(InitPrio), Worker, InitPrio[Worker]))
  /\ work_list = << >> /\ work_current = Null
  /\ pc = [t \in Thread |-> IF t = Worker THEN "test" ELSE "run"]
  /\ awaited = [t \in Thread |-> Null]
  /\ node = Null /\ next = Null
  /\ wild = FALSE

-----------------------------------------------------------------------------
(* Clients.                                                                *)

\* The work goes to the end of the list.
enqueue(w) == work_list' = Append(Unlink(work_list, w), w)

\* The critical section of rt_workqueue_dowork or rt_workqueue_critical_work.
\* (For the work that is being done the call returns -RT_EBUSY.)
Dowork(t, w) ==
  /\ At(t, "run") /\ t \in Submitter
  /\ work_current # w
  /\ enqueue(w)
  /\ pc' = [pc EXCEPT ![t] = IF work_current = Null THEN "resume" ELSE "run"]
  /\ UNCHANGED <<k, work_current, awaited, cancel, wild>>

\* rt_thread_resume(queue->work_thread), with interrupts enabled: the state of
\* the work thread is tested, ...
ResumeWorker(t) ==
  /\ At(t, "resume")
  /\ Go(t, IF k.stat[Worker] = "suspend" THEN "res_unlink" ELSE "sched")
  /\ UNCHANGED <<k, work>>

\* ... it is unlinked and its timer stopped, ...
UnlinkWorker(t) ==
  /\ At(t, "res_unlink")
  /\ k.stat[Worker] = "suspend"
  /\ k' = resume_unlink(k, Worker)
  /\ Go(t, "res_insert")
  /\ UNCHANGED work

\* ... and it is inserted.
InsertWorker(t) ==
  /\ At(t, "res_insert")
  /\ Loosened(Worker)
  /\ k' = rt_schedule_insert_thread(k, Worker)
  /\ Go(t, "sched")
  /\ UNCHANGED work

\* Before one of the two sections somebody else, or its timer, woke the work
\* thread: it is linked twice.
ResumeWorkerLate(t) ==
  /\ k.cur = t
  /\ \/ pc[t] = "res_unlink" /\ k.stat[Worker] # "suspend"
     \/ pc[t] = "res_insert" /\ ~Loosened(Worker)
  /\ wild' = TRUE
  /\ UNCHANGED <<threads, queue>>

\* The running thread is in the middle of a rt_list_remove.
unlinking == pc[k.cur] = "cancel_unlink"

\* rt_workqueue_dowork in an interrupt handler; no thread runs in between.
IsrDowork(w) ==
  /\ work_current # w /\ ~unlinking
  /\ enqueue(w)
  /\ k' = IF work_current = Null THEN rt_schedule(rt_thread_resume(k, Worker))
          ELSE k
  /\ UNCHANGED <<work_current, pc, awaited, cancel, wild>>

\* The handler finds the links of the list half written.
IsrMeetsUnlink(w) ==
  /\ work_current # w /\ unlinking
  /\ wild' = TRUE
  /\ UNCHANGED <<threads, queue>>

\* rt_workqueue_cancel_work, or rt_workqueue_cancel_work_sync of a work that is
\* not being done.
Cancel(t, w) ==
  /\ At(t, "run") /\ t \in Canceller
  /\ work_current # w
  /\ work_list' = Unlink(work_list, w)
  /\ UNCHANGED <<threads, work_current, awaited, cancel, wild>>

\* rt_workqueue_cancel_all_work locks the scheduler, ...
CancelAll(t) ==
  /\ At(t, "run") /\ t \in Canceller
  /\ k' = [k EXCEPT !.nest = @ + 1]
  /\ Go(t, "cancel_first")
  /\ UNCHANGED work

\* ... goes to the first work, ...
CancelFirst(t) ==
  /\ At(t, "cancel_first")
  /\ node' = IF work_list = << >> THEN Null ELSE Head(work_list)
  /\ Go(t, "cancel")
  /\ UNCHANGED <<k, work_list, work_current, awaited, next, wild>>

\* The work behind w, or the head of the list.
following(w) ==
  LET at == {i \in 1 .. Len(work_list) - 1 : work_list[i] = w}
  IN IF at = {} THEN Null ELSE work_list[(CHOOSE i \in at : TRUE) + 1]

\* ... reads the next one, which a handler may then move to the end, ...
CancelNext(t) ==
  /\ At(t, "cancel") /\ node # Null
  /\ next' = following(node)
  /\ Go(t, "cancel_next")
  /\ UNCHANGED <<k, work_list, work_current, awaited, node, wild>>

\* ... begins to unlink the work, ...
CancelUnlink(t) ==
  /\ At(t, "cancel_next")
  /\ Go(t, "cancel_unlink")
  /\ UNCHANGED <<k, work>>

\* ... has unlinked it and goes on with the next one, ...
CancelUnlinked(t) ==
  /\ At(t, "cancel_unlink")
  /\ work_list' = Unlink(work_list, node)
  /\ node' = next
  /\ Go(t, "cancel")
  /\ UNCHANGED <<k, work_current, awaited, next, wild>>

\* ... until it comes to the head, when rt_exit_critical unlocks the scheduler
\* and calls rt_schedule().
CancelAllEnd(t) ==
  /\ At(t, "cancel") /\ node = Null
  /\ k' = [k EXCEPT !.nest = @ - 1]
  /\ next' = Null
  /\ Go(t, "sched")
  /\ UNCHANGED <<work_list, work_current, awaited, node, wild>>

\* rt_workqueue_cancel_work_sync of the work being done: rt_sem_take with
\* interrupts disabled, so that the thread is switched from when they go on
\* again.  queue->sem has no token: the work thread keeps it so.
CancelSync(t, w) ==
  /\ At(t, "run") /\ t # Idle
  /\ work_current = w
  /\ k' = rt_schedule(
            rt_ipc_list_suspend([k EXCEPT !.err[t] = "eok"], Sem, t, "fifo"))
  /\ awaited' = [awaited EXCEPT ![t] = w]
  /\ pc' = [pc EXCEPT ![t] = "synced"]
  /\ UNCHANGED <<work_list, work_current, cancel, wild>>

CancelSyncReturn(t) ==
  /\ At(t, "synced")
  /\ awaited' = [awaited EXCEPT ![t] = Null]
  /\ pc' = [pc EXCEPT ![t] = "run"]
  /\ UNCHANGED <<k, work_list, work_current, cancel, wild>>

-----------------------------------------------------------------------------
(* The work thread.                                                        *)

AtWorker(p) == At(Worker, p)
GoWorker(p) == Go(Worker, p)

\* The list is tested with interrupts enabled.
WorkTest ==
  /\ AtWorker("test")
  /\ GoWorker(IF work_list = << >> THEN "suspend" ELSE "take")
  /\ UNCHANGED <<k, work>>

WorkSuspend ==
  /\ AtWorker("suspend")
  /\ k' = rt_thread_suspend(k, Worker)
  /\ GoWorker("w_sched")
  /\ UNCHANGED work

WorkSchedule ==
  /\ AtWorker("w_sched")
  /\ k' = rt_schedule(k)
  /\ GoWorker("take")
  /\ UNCHANGED work

\* "We have work to do with": the list is not tested again.
WorkTake ==
  /\ AtWorker("take")
  /\ IF work_list # << >>
     THEN /\ work_current' = Head(work_list)
          /\ work_list' = Tail(work_list)
          /\ GoWorker("work")
          /\ UNCHANGED wild
     ELSE wild' = TRUE /\ UNCHANGED <<work_list, work_current, pc>>
  /\ UNCHANGED <<k, awaited, cancel>>

\* work_func may sleep, ...
WorkPause ==
  /\ AtWorker("work")
  /\ k' = rt_thread_sleep(k, Worker)
  /\ GoWorker("pause")
  /\ UNCHANGED work

WorkPauseSchedule ==
  /\ AtWorker("pause")
  /\ k' = rt_schedule(k)
  /\ GoWorker("paused")
  /\ UNCHANGED work

\* ... and returns.
WorkReturn ==
  /\ k.cur = Worker /\ pc[Worker] \in {"work", "paused"}
  /\ GoWorker("clear")
  /\ UNCHANGED <<k, work>>

WorkClear ==
  /\ AtWorker("clear")
  /\ work_current' = Null
  /\ GoWorker("ack")
  /\ UNCHANGED <<k, work_list, awaited, cancel, wild>>

\* Mutant: only one of those that wait is told.
AckFirst ==
  /\ AtWorker("ack")
  /\ k' = rt_schedule(IF k.wait[Sem] = << >> THEN k ELSE rt_ipc_list_resume(k, Sem))
  /\ GoWorker("test")
  /\ UNCHANGED work

\* _workqueue_work_completion: with the scheduler locked, tokens are released
\* until one is left over, that is to everybody who waits, and that one is taken
\* back; rt_exit_critical schedules.
WorkAck ==
  /\ AtWorker("ack")
  /\ LET resume(k1, t) == rt_thread_resume(k1, t)
     IN k' = rt_schedule(FoldLeft(resume, k, k.wait[Sem]))
  /\ GoWorker("test")
  /\ UNCHANGED work

ClientStep(t) ==
  \/ \E w \in Work : Dowork(t, w) \/ Cancel(t, w) \/ CancelSync(t, w)
  \/ ResumeWorker(t) \/ UnlinkWorker(t) \/ InsertWorker(t) \/ ResumeWorkerLate(t)
  \/ CancelAll(t) \/ CancelFirst(t) \/ CancelNext(t)
  \/ CancelUnlink(t) \/ CancelUnlinked(t) \/ CancelAllEnd(t)
  \/ CancelSyncReturn(t)

WorkerStep ==
  \/ WorkTest
  \/ WorkSuspend
  \/ WorkSchedule
  \/ WorkTake
  \/ WorkPause
  \/ WorkPauseSchedule
  \/ WorkReturn
  \/ WorkClear
  \/ WorkAck

\* Nothing is said of what the program does once it has gone wild.
WorkNext ==
  /\ ~wild
  /\ \/ \E t \in Client : ClientStep(t)
     \/ WorkerStep
     \/ \E w \in Work : IsrDowork(w) \/ IsrMeetsUnlink(w)
     \/ ThreadsNext /\ UNCHANGED work

-----------------------------------------------------------------------------
\* The work thread sleeps only while there is nothing to do, or while the client
\* that brought the work is about to resume it: no work is left behind.
SuspendsOnlyWithoutWork ==
  k.stat[Worker] = "suspend" /\ work_current = Null /\ work_list # << >> =>
    \E t \in Client : pc[t] \in {"resume", "res_unlink", "res_insert"}

\* Whoever waits for a work waits for the one being done, or the work thread is
\* about to tell him: nobody waits for ever.  The work being done is not in the
\* list at the same time, so that a work that is cancelled for good will not
\* start once more.
AwaitsCurrent ==
  /\ WorkTypeOK /\ KInv(k)
  /\ work_current \notin ToSet(work_list)
  /\ \A t \in ToSet(k.wait[Sem]) :
       awaited[t] = work_current \/ pc[Worker] = "ack"
=============================================================================
