------------------------------- MODULE Kernel -------------------------------
(***************************************************************************)
(* The part of the RT-Thread kernel every blocking object is built on: the *)
(* ready table and its bitmap (scheduler.c), the thread states             *)
(* (thread.c), the wait lists of the IPC objects and the thread timers     *)
(* (ipc.c, timer.c), for the single-core build.                            *)
(*                                                                         *)
(* The kernel state is one record k; every operator below is a C function  *)
(* of the same name, from the record before the call to the record after.  *)
(*                                                                         *)
(*   k.stat[t]   thread->stat & RT_THREAD_STAT_MASK                        *)
(*   k.prio[t]   thread->current_priority (0 is the most urgent); the      *)
(*               number_mask of a thread is always 1 << current_priority,  *)
(*               so a bit of the bitmap is named by its priority           *)
(*   k.err[t]    thread->error                                             *)
(*   k.ready[p]  rt_thread_priority_table[p]                               *)
(*   k.group     rt_thread_ready_priority_group, as the set of its 1 bits  *)
(*   k.wait[q]   the suspend_thread list of the object q, and any other    *)
(*               list a thread may be linked in                            *)
(*   k.timer     the threads whose thread_timer is linked and activated    *)
(*   k.cur       rt_current_thread                                         *)
(*   k.nest      rt_scheduler_lock_nest                                    *)
(*                                                                         *)
(* A thread has one list node (thread->tlist), so unlinking it takes it    *)
(* out of whatever list it is in.  Everything a function does between      *)
(* rt_hw_interrupt_disable and rt_hw_interrupt_enable is one step; the     *)
(* modules that use these operators decide what is one step.               *)
(***************************************************************************)
EXTENDS Naturals, SequencesExt

CONSTANTS
  Thread,     \* the threads
  Idle,       \* tidle, the thread that never blocks
  PrioMax,    \* RT_THREAD_PRIORITY_MAX
  Queue       \* the lists other than the ready table

ASSUME KernelAssumption ==
  /\ IsFiniteSet(Thread)
  /\ PrioMax \in Nat \ {0}
  /\ Idle \in Thread

Prio == 0 .. (PrioMax - 1)
Stat == {"init", "ready", "suspend", "close"}
Err  == {"eok", "etimeout", "error", "eintr"}
Flag == {"fifo", "prio"}

KernelState ==
  [stat  : [Thread -> Stat],
   prio  : [Thread -> Prio],
   err   : [Thread -> Err],
   ready : [Prio -> Seq(Thread)],
   group : SUBSET Prio,
   wait  : [Queue -> Seq(Thread)],
   timer : SUBSET Thread,
   cur   : Thread,
   nest  : Nat]

-----------------------------------------------------------------------------
(* Lists.                                                                  *)

\* The list s without the thread t.
Unlink(s, t) ==
  IF t \in ToSet(s)
  THEN RemoveAt(s, CHOOSE i \in DOMAIN s : s[i] = t)
  ELSE s

\* rt_list_remove(&thread->tlist): out of the list the thread is in, if any.
rt_list_remove(k, t) ==
  [k EXCEPT !.ready = [p \in Prio  |-> Unlink(k.ready[p], t)],
            !.wait  = [q \in Queue |-> Unlink(k.wait[q], t)]]

-----------------------------------------------------------------------------
(* Scheduler.                                                              *)

\* The thread becomes ready; the running thread is not linked in the table.
rt_schedule_insert_thread(k, t) ==
  LET k1 == [k EXCEPT !.stat[t] = "ready"] IN
  IF t = k.cur
  THEN k1
  ELSE [k1 EXCEPT !.ready[k.prio[t]] = Append(@, t),
                  !.group = @ \cup {k.prio[t]}]

\* Unlink, and clear the bit of the thread's priority if its list is empty.
rt_schedule_remove_thread(k, t) ==
  LET k1 == rt_list_remove(k, t) IN
  IF k1.ready[k.prio[t]] = << >>
  THEN [k1 EXCEPT !.group = @ \ {k.prio[t]}]
  ELSE k1

\* __rt_ffs(group) - 1: the number of the lowest bit set.
highest_ready_priority(k) ==
  CHOOSE p \in k.group : \A r \in k.group : p <= r

\* Switch to the head of the most urgent ready list unless the scheduler is
\* locked or the running thread is ready and strictly more urgent.  A ready
\* thread that is switched from goes to the end of its list.
rt_schedule(k) ==
  LET high == highest_ready_priority(k)
      to   == Head(k.ready[high])
      from == k.cur
      k1   == [k EXCEPT !.cur = to]
      k2   == IF k.stat[from] = "ready"
              THEN rt_schedule_insert_thread(k1, from)
              ELSE k1
  IN CASE k.nest # 0 \/ k.group = {} -> k
       [] k.nest = 0 /\ k.group # {} /\ k.stat[from] = "ready"
                     /\ k.prio[from] < high ->
            rt_schedule_remove_thread(k, from)
       [] OTHER -> rt_schedule_remove_thread(k2, to)

-----------------------------------------------------------------------------
(* Threads.                                                                *)

\* rt_timer_stop(&thread->thread_timer)
rt_timer_stop(k, t)  == [k EXCEPT !.timer = @ \ {t}]

\* rt_timer_control(SET_TIME) and rt_timer_start(&thread->thread_timer).  The
\* number of ticks is abstracted: the timer may expire at any later tick.
rt_timer_start(k, t) == [k EXCEPT !.timer = @ \cup {t}]

\* Only a ready thread can be suspended.
rt_thread_suspend(k, t) ==
  IF k.stat[t] # "ready"
  THEN k
  ELSE rt_timer_stop(
         rt_schedule_remove_thread([k EXCEPT !.stat[t] = "suspend"], t), t)

\* Mutant: the timer of the thread keeps running.
ResumeKeepsTimer(k, t) ==
  IF k.stat[t] # "suspend"
  THEN k
  ELSE rt_schedule_insert_thread(rt_list_remove(k, t), t)

\* Only a suspended thread can be resumed.
rt_thread_resume(k, t) ==
  IF k.stat[t] # "suspend"
  THEN k
  ELSE rt_schedule_insert_thread(rt_timer_stop(rt_list_remove(k, t), t), t)

\* The expiry of a thread timer: rt_timer_check unlinks the timer, its
\* callback rt_thread_timeout makes the thread ready and schedules.
rt_thread_timeout(k, t) ==
  LET k1 == [rt_timer_stop(k, t) EXCEPT !.err[t] = "etimeout"] IN
  rt_schedule(rt_schedule_insert_thread(rt_list_remove(k1, t), t))

\* rt_thread_sleep up to its rt_schedule().
rt_thread_sleep(k, t) == rt_timer_start(rt_thread_suspend(k, t), t)

\* rt_thread_control(thread, RT_THREAD_CTRL_CHANGE_PRIORITY, &prio)
rt_thread_change_priority(k, t, p) ==
  IF k.stat[t] = "ready"
  THEN rt_schedule_insert_thread(
         [rt_schedule_remove_thread(k, t) EXCEPT !.prio[t] = p], t)
  ELSE [k EXCEPT !.prio[t] = p]

\* rt_thread_startup(t) up to its rt_schedule(); prio is its init_priority.
rt_thread_startup(k, t, prio) ==
  rt_thread_resume([k EXCEPT !.prio[t] = prio, !.stat[t] = "suspend"], t)

\* The scheduler once started with nothing to run but tidle; every other
\* thread has been initialised and not yet started.
scheduler_started(prio) ==
  [stat  |-> [t \in Thread |-> IF t = Idle THEN "ready" ELSE "init"],
   prio  |-> prio,
   err   |-> [t \in Thread |-> "eok"],
   ready |-> [p \in Prio |-> << >>],
   group |-> {},
   wait  |-> [q \in Queue |-> << >>],
   timer |-> {},
   cur   |-> Idle,
   nest  |-> 0]

-----------------------------------------------------------------------------
(* The wait lists of the IPC objects.                                      *)

\* Mutant: the flag is ignored.
AlwaysLast(k, s, t, flag) == Len(s) + 1

\* Where rt_ipc_list_suspend links the thread: at the end, or in front of the
\* first thread of strictly lower urgency.
wait_position(k, s, t, flag) ==
  LET lower == {i \in DOMAIN s : k.prio[t] < k.prio[s[i]]} IN
  IF flag = "prio" /\ lower # {}
  THEN CHOOSE i \in lower : \A j \in lower : i <= j
  ELSE Len(s) + 1

\* Mutant: the thread is suspended and not linked.
SuspendUnlinked(k, q, t, flag) == rt_thread_suspend(k, t)

rt_ipc_list_suspend(k, q, t, flag) ==
  LET k1 == rt_thread_suspend(k, t) IN
  [k1 EXCEPT !.wait[q] = InsertAt(@, wait_position(k1, @, t, flag), t)]

\* Resume the first waiter; the callers test that there is one.
rt_ipc_list_resume(k, q) == rt_thread_resume(k, Head(k.wait[q]))

\* One turn of the loop of rt_ipc_list_resume_all.
rt_ipc_list_resume_all_turn(k, q) ==
  rt_thread_resume([k EXCEPT !.err[Head(k.wait[q])] = "error"],
                   Head(k.wait[q]))

\* The whole loop, for the callers that run it with interrupts disabled.
rt_ipc_list_resume_all(k, q) ==
  LET turn(k1, t) == rt_ipc_list_resume_all_turn(k1, q)
  IN FoldLeft(turn, k, k.wait[q])

-----------------------------------------------------------------------------
(* What the operators keep true of the kernel state.                       *)

\* No list holds a thread twice.
NoDuplicates(k) ==
  /\ \A p \in Prio  : IsInjective(k.ready[p])
  /\ \A q \in Queue : IsInjective(k.wait[q])

\* The ready table holds exactly the ready threads other than the running
\* one, each in the list of its current priority.
ReadyTable(k) ==
  \A t \in Thread, p \in Prio :
     t \in ToSet(k.ready[p]) <=> k.stat[t] = "ready" /\ k.prio[t] = p
                                   /\ t # k.cur

\* A thread in a wait list is suspended and in no other wait list.
WaitLists(k) ==
  \A t \in Thread, q \in Queue : t \in ToSet(k.wait[q]) =>
     /\ k.stat[t] = "suspend"
     /\ \A r \in Queue \ {q} : t \notin ToSet(k.wait[r])

\* The bitmap has the bit of a priority iff its ready list is not empty.
Bitmap(k) == \A p \in Prio : p \in k.group <=> k.ready[p] # << >>

\* A running thread timer belongs to a suspended thread: the assertion at the
\* head of rt_thread_timeout cannot fail.
TimersOfSuspended(k) == \A t \in k.timer : k.stat[t] = "suspend"

KInv(k) ==
  /\ NoDuplicates(k)
  /\ ReadyTable(k)
  /\ WaitLists(k)
  /\ Bitmap(k)
  /\ TimersOfSuspended(k)

\* The running thread may keep the processor: it is ready and no ready thread
\* is strictly more urgent.
Settled(k) ==
  /\ k.stat[k.cur] = "ready"
  /\ \A t \in Thread : k.stat[t] = "ready" => k.prio[k.cur] <= k.prio[t]
=============================================================================
