------------------------------ MODULE WaitQueue ------------------------------
(***************************************************************************)
(* The wait queues of waitqueue.c: threads that found nothing to do sleep  *)
(* in one until somebody wakes it.  The flag of a queue remembers a        *)
(* wake-up for the next thread that is about to sleep.                     *)
(*                                                                         *)
(* rt_wqueue_wait is called without a timeout, by serial_fops_read and the *)
(* operations of the pipe: pc[t] is "wait" before its first critical       *)
(* section, "q_sched" before its rt_schedule(), "q_woken" after it,        *)
(* "q_remove" before its last rt_wqueue_remove.                            *)
(***************************************************************************)
EXTENDS Drivers

CONSTANT WQ   \* the wait queues

VARIABLES
  waiting,    \* queue->waiting_list: the thread of each node, and the events
              \* that its wake function lets through, or {"any"}
  wakeup      \* queue->flag = RT_WQ_FLAG_WAKEUP

queues == <<waiting, wakeup>>

QueuesInit ==
  /\ waiting = [q \in WQ |-> << >>]
  /\ wakeup = [q \in WQ |-> FALSE]

Node(t, events) == [thread |-> t, events |-> events]

\* The node n, in the list of queue q or already out of it.
rt_wqueue_remove(q, n) == waiting' = [waiting EXCEPT ![q] = Unlink(@, n)]

\* "already wakeup"
WaitAlready(t, q) ==
  /\ At(t, "wait") /\ wakeup[q]
  /\ wakeup' = [wakeup EXCEPT ![q] = FALSE]
  /\ Go(t, "q_remove")
  /\ UNCHANGED <<k, waiting>>

WaitSuspend(t, q) ==
  /\ At(t, "wait") /\ ~wakeup[q]
  /\ waiting' = [waiting EXCEPT ![q] = Append(@, Node(t, {"any"}))]
  /\ k' = rt_thread_suspend(k, t)
  /\ Go(t, "q_sched")
  /\ UNCHANGED wakeup

WaitSchedule(t) ==
  /\ At(t, "q_sched")
  /\ k' = rt_schedule(k)
  /\ Go(t, "q_woken")
  /\ UNCHANGED queues

WaitClear(t, q) ==
  /\ At(t, "q_woken")
  /\ wakeup' = [wakeup EXCEPT ![q] = FALSE]
  /\ Go(t, "q_remove")
  /\ UNCHANGED <<k, waiting>>

\* rt_wqueue_remove(&__wait); next is where the caller of rt_wqueue_wait goes on.
WaitRemove(t, q, next) ==
  /\ At(t, "q_remove")
  /\ rt_wqueue_remove(q, Node(t, {"any"}))
  /\ Go(t, next)
  /\ UNCHANGED <<k, wakeup>>

WaitStep(t, q, next) ==
  \/ WaitAlready(t, q)
  \/ WaitSuspend(t, q)
  \/ WaitSchedule(t)
  \/ WaitClear(t, q)
  \/ WaitRemove(t, q, next)

\* The positions of the nodes whose wake function accepts the events of key.
accepting(q, key) ==
  {i \in DOMAIN waiting[q] : waiting[q][i].events \cap (key \cup {"any"}) # {}}

\* The node that rt_wqueue_wakeup finds, the first of them.
found(q, key) ==
  waiting[q][CHOOSE i \in accepting(q, key) : \A j \in accepting(q, key) : i <= j]

\* Mutant: the thread that was woken stays in the list.
WakeupKeeps(q, key) ==
  /\ wakeup' = [wakeup EXCEPT ![q] = TRUE]
  /\ k' = IF accepting(q, key) = {} THEN k
          ELSE rt_schedule(rt_thread_resume(k, found(q, key).thread))
  /\ UNCHANGED waiting

\* That thread is woken and taken out of the list.
rt_wqueue_wakeup(q, key) ==
  /\ wakeup' = [wakeup EXCEPT ![q] = TRUE]
  /\ IF accepting(q, key) = {}
     THEN UNCHANGED <<k, waiting>>
     ELSE /\ k' = rt_schedule(rt_thread_resume(k, found(q, key).thread))
          /\ rt_wqueue_remove(q, found(q, key))

\* The threads that sleep in rt_wqueue_wait.
sleeping == {t \in Thread : k.stat[t] = "suspend" /\ pc[t] \in {"q_sched", "q_woken"}}
=============================================================================
