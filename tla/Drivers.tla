------------------------------- MODULE Drivers -------------------------------
(***************************************************************************)
(* What the models of the device driver framework (components/drivers/src, *)
(* serial.c, poll.c) and of the end of threads (ThreadLife) have in common: *)
(* threads on the kernel of Kernel.tla, where each of them is in the code, *)
(* the tick and the thread timers.                                         *)
(*                                                                         *)
(* pc[t] is "run" while thread t is in its own code and "sched" before a   *)
(* rt_schedule() after which it is there again; the other values are those *)
(* of the modules that extend this one, which use different ones.          *)
(***************************************************************************)
EXTENDS Kernel, Integers

CONSTANT InitPrio   \* init_priority of every thread

ASSUME DriversAssumption ==
  /\ InitPrio \in [Thread -> Prio]
  /\ \A t \in Thread \ {Idle} : InitPrio[t] < InitPrio[Idle]

VARIABLES k, pc

threads == <<k, pc>>

ThreadsInit ==
  /\ k = scheduler_started(InitPrio)
  /\ pc = [t \in Thread |-> "run"]

At(t, p) == k.cur = t /\ pc[t] = p
Go(t, p) == pc' = [pc EXCEPT ![t] = p]

Startup(t, new) ==
  /\ At(t, "run")
  /\ k.stat[new] = "init"
  /\ k' = rt_thread_startup(k, new, InitPrio[new])
  /\ Go(t, "sched")

Schedule(t) ==
  /\ At(t, "sched")
  /\ k' = rt_schedule(k)
  /\ Go(t, "run")

\* The first critical section of rt_thread_resume; the second one is
\* rt_schedule_insert_thread.
resume_unlink(k1, v) == rt_timer_stop(rt_list_remove(k1, v), v)

\* The thread is as the first section leaves it.
Loosened(v) ==
  /\ k.stat[v] = "suspend" /\ v \notin k.timer
  /\ \A q \in Queue : v \notin ToSet(k.wait[q])

TimerExpire(t) ==
  /\ t \in k.timer
  /\ k' = rt_thread_timeout(k, t)
  /\ UNCHANGED pc

TickYield ==
  /\ k' = rt_schedule(k)
  /\ UNCHANGED pc

ThreadsNext ==
  \/ \E t \in Thread :
       \/ \E new \in Thread : Startup(t, new)
       \/ Schedule(t)
       \/ TimerExpire(t)
  \/ TickYield
=============================================================================
