----------------------------- MODULE Semaphore ------------------------------
(***************************************************************************)
(* The counting semaphore of ipc.c under preemption, interrupts and        *)
(* timeouts.  Threads of several priorities take, release and reset one    *)
(* semaphore; interrupt handlers release it; the tick interrupt expires    *)
(* thread timers and ends time slices between any two critical sections.   *)
(*                                                                         *)
(* pc[t] is where thread t is: "run" in its own code, "take_sched" and     *)
(* "take_ret" before and after the rt_schedule() of rt_sem_take, "reset"   *)
(* in the loop of rt_sem_control with interrupts disabled, "sched" before  *)
(* a final rt_schedule().  Only k.cur takes thread steps.                  *)
(*                                                                         *)
(* owned and issued are history variables: the tokens each thread has      *)
(* taken and not released, and the tokens put into circulation.            *)
(***************************************************************************)
EXTENDS Kernel, Integers

CONSTANTS
  Sem,         \* the semaphore: the name of its wait list
  SemFlag,     \* RT_IPC_FLAG_FIFO or RT_IPC_FLAG_PRIO
  InitPrio,    \* init_priority of every thread
  SemValue,    \* the value given to rt_sem_init
  ValueMod,    \* 2^16: sem->value is an rt_uint16_t
  MaxTokens,   \* bound: tokens in circulation
  MaxNest      \* bound: nesting of rt_enter_critical

ASSUME SemaphoreAssumption ==
  /\ Queue = {Sem}
  /\ SemFlag \in Flag
  /\ InitPrio \in [Thread -> Prio]
  /\ \A t \in Thread \ {Idle} : InitPrio[t] < InitPrio[Idle]
  /\ SemValue \in 0 .. MaxTokens
  /\ MaxTokens \in Nat /\ ValueMod \in Nat /\ MaxTokens < ValueMod
  /\ MaxNest \in Nat

VARIABLES k, value, pc, owned, issued

vars == <<k, value, pc, owned, issued>>

PC == {"run", "take_sched", "take_ret", "reset", "sched"}

TypeOK ==
  /\ k \in KernelState
  /\ value \in 0 .. (ValueMod - 1)
  /\ pc \in [Thread -> PC]
  /\ owned \in [Thread -> Nat]
  /\ issued \in Int

waiters == ToSet(k.wait[Sem])

\* A thread that a release has resumed and that has not yet returned from
\* rt_sem_take: the token is its own.
Granted(t) ==
  /\ pc[t] \in {"take_sched", "take_ret"}
  /\ t \notin waiters
  /\ k.err[t] = "eok"

-----------------------------------------------------------------------------
\* rt_sem_init before any thread that uses the semaphore is started.
Init ==
  /\ k = scheduler_started(InitPrio)
  /\ value = SemValue
  /\ pc = [t \in Thread |-> "run"]
  /\ owned = [t \in Thread |-> 0]
  /\ issued = SemValue

\* rt_thread_startup(new), called by the running thread.
Startup(t, new) ==
  /\ k.cur = t /\ pc[t] = "run"
  /\ k.stat[new] = "init"
  /\ k' = rt_thread_startup(k, new, InitPrio[new])
  /\ pc' = [pc EXCEPT ![t] = "sched"]
  /\ UNCHANGED <<value, owned, issued>>

\* Mutant: the value is not tested.
TakeUntested(t) ==
  /\ k.cur = t /\ pc[t] = "run" /\ t # Idle
  /\ value' = value - 1
  /\ owned' = [owned EXCEPT ![t] = @ + 1]
  /\ UNCHANGED <<k, pc, issued>>

\* rt_sem_take with a token available.
TakeAvailable(t) ==
  /\ k.cur = t /\ pc[t] = "run" /\ t # Idle
  /\ value > 0
  /\ value' = value - 1
  /\ owned' = [owned EXCEPT ![t] = @ + 1]
  /\ UNCHANGED <<k, pc, issued>>

\* rt_sem_take without a token, time # 0: up to the enabling of interrupts.
\* The caller must not hold the scheduler lock.  (With time = 0 the call
\* changes nothing.)
TakeBlock(t, timed) ==
  /\ k.cur = t /\ pc[t] = "run" /\ t # Idle /\ k.nest = 0
  /\ value = 0
  /\ LET k1 == rt_ipc_list_suspend([k EXCEPT !.err[t] = "eok"],
                                   Sem, t, SemFlag)
     IN k' = IF timed THEN rt_timer_start(k1, t) ELSE k1
  /\ pc' = [pc EXCEPT ![t] = "take_sched"]
  /\ UNCHANGED <<value, owned, issued>>

\* The rt_schedule() of rt_sem_take.
TakeSchedule(t) ==
  /\ k.cur = t /\ pc[t] = "take_sched"
  /\ k' = rt_schedule(k)
  /\ pc' = [pc EXCEPT ![t] = "take_ret"]
  /\ UNCHANGED <<value, owned, issued>>

\* Mutant: thread->error is not read.
TakeReturnIgnoresError(t) ==
  /\ k.cur = t /\ pc[t] = "take_ret"
  /\ pc' = [pc EXCEPT ![t] = "run"]
  /\ owned' = [owned EXCEPT ![t] = @ + 1]
  /\ UNCHANGED <<k, value, issued>>

\* The thread runs again, reads thread->error and returns.
TakeReturn(t) ==
  /\ k.cur = t /\ pc[t] = "take_ret"
  /\ pc' = [pc EXCEPT ![t] = "run"]
  /\ owned' = IF k.err[t] = "eok" THEN [owned EXCEPT ![t] = @ + 1] ELSE owned
  /\ UNCHANGED <<k, value, issued>>

\* Mutant: the token is counted although a waiter has it.
ReleaseTwice(resumed) ==
  /\ value' = (value + 1) % ValueMod
  /\ k' = IF waiters # {} THEN resumed ELSE k

\* Mutant: the token is counted and nobody is woken.
ReleaseCounts(resumed) ==
  value' = (value + 1) % ValueMod /\ UNCHANGED k

\* The critical section of rt_sem_release: hand the token to the first waiter,
\* or count it.  resumed is the kernel state once the waiter is resumed.
rt_sem_release(resumed) ==
  IF waiters # {}
  THEN k' = resumed /\ UNCHANGED value
  ELSE value' = (value + 1) % ValueMod /\ UNCHANGED k

\* The token released is one the thread has taken, or a new one.
PutBack(t) ==
  \/ /\ owned[t] > 0
     /\ owned' = [owned EXCEPT ![t] = @ - 1]
     /\ UNCHANGED issued
  \/ /\ issued < MaxTokens
     /\ issued' = issued + 1
     /\ UNCHANGED owned

\* rt_sem_release by a thread; it schedules only if it resumed a waiter.
Release(t) ==
  /\ k.cur = t /\ pc[t] = "run" /\ t # Idle
  /\ PutBack(t)
  /\ rt_sem_release(rt_ipc_list_resume(k, Sem))
  /\ pc' = [pc EXCEPT ![t] = IF waiters # {} THEN "sched" ELSE "run"]

\* rt_sem_control(RT_IPC_CMD_RESET, v): interrupts go off, ...
ResetBegin(t) ==
  /\ k.cur = t /\ pc[t] = "run" /\ t # Idle
  /\ pc' = [pc EXCEPT ![t] = "reset"]
  /\ UNCHANGED <<k, value, owned, issued>>

\* ... rt_ipc_list_resume_all resumes the waiters one by one with an error, ...
ResetTurn(t) ==
  /\ k.cur = t /\ pc[t] = "reset"
  /\ waiters # {}
  /\ k' = rt_ipc_list_resume_all_turn(k, Sem)
  /\ UNCHANGED <<value, pc, owned, issued>>

\* ... the value is set and interrupts go on again.
ResetEnd(t, v) ==
  /\ k.cur = t /\ pc[t] = "reset"
  /\ waiters = {}
  /\ issued + v - value <= MaxTokens
  /\ value' = v % ValueMod
  /\ issued' = issued + v - value
  /\ pc' = [pc EXCEPT ![t] = "sched"]
  /\ UNCHANGED <<k, owned>>

\* The rt_schedule() at the end of rt_sem_release, rt_sem_control,
\* rt_thread_startup and rt_exit_critical.
Schedule(t) ==
  /\ k.cur = t /\ pc[t] = "sched"
  /\ k' = rt_schedule(k)
  /\ pc' = [pc EXCEPT ![t] = "run"]
  /\ UNCHANGED <<value, owned, issued>>

rt_enter_critical(t) ==
  /\ k.cur = t /\ pc[t] = "run" /\ t # Idle
  /\ k.nest < MaxNest
  /\ k' = [k EXCEPT !.nest = @ + 1]
  /\ UNCHANGED <<value, pc, owned, issued>>

\* Mutant: leaving the critical section does not schedule.
ExitWithoutSchedule(t) ==
  /\ k.cur = t /\ pc[t] = "run"
  /\ k.nest > 0
  /\ k' = [k EXCEPT !.nest = @ - 1]
  /\ UNCHANGED <<value, pc, owned, issued>>

rt_exit_critical(t) ==
  /\ k.cur = t /\ pc[t] = "run"
  /\ k.nest > 0
  /\ k' = [k EXCEPT !.nest = @ - 1]
  /\ pc' = [pc EXCEPT ![t] = IF k.nest = 1 THEN "sched" ELSE "run"]
  /\ UNCHANGED <<value, owned, issued>>

-----------------------------------------------------------------------------
\* Interrupts are disabled only inside the reset loop; every other critical
\* section is one step.
InterruptsEnabled == pc[k.cur] # "reset"

\* An interrupt handler calls rt_sem_release.
IsrRelease ==
  /\ InterruptsEnabled
  /\ issued < MaxTokens
  /\ issued' = issued + 1
  /\ rt_sem_release(rt_schedule(rt_ipc_list_resume(k, Sem)))
  /\ UNCHANGED <<pc, owned>>

\* The tick interrupt finds the timer of t expired.
TimerExpire(t) ==
  /\ InterruptsEnabled
  /\ t \in k.timer
  /\ k' = rt_thread_timeout(k, t)
  /\ UNCHANGED <<value, pc, owned, issued>>

\* The tick interrupt ends the time slice of the running thread, which yields.
TickYield ==
  /\ InterruptsEnabled
  /\ k' = rt_schedule(k)
  /\ UNCHANGED <<value, pc, owned, issued>>

ThreadStep(t) ==
  \/ \E new \in Thread : Startup(t, new)
  \/ TakeAvailable(t)
  \/ \E timed \in BOOLEAN : TakeBlock(t, timed)
  \/ TakeSchedule(t)
  \/ TakeReturn(t)
  \/ Release(t)
  \/ ResetBegin(t)
  \/ ResetTurn(t)
  \/ \E v \in 0 .. MaxTokens : ResetEnd(t, v)
  \/ Schedule(t)
  \/ rt_enter_critical(t)
  \/ rt_exit_critical(t)

Interrupt ==
  \/ IsrRelease
  \/ \E t \in Thread : TimerExpire(t)
  \/ TickYield

Next == (\E t \in Thread : ThreadStep(t)) \/ Interrupt

Spec == Init /\ [][Next]_vars

-----------------------------------------------------------------------------
(* Safety.                                                                 *)

\* Lists, bitmap, thread states and thread timers agree with each other after
\* every interleaving of critical sections and interrupts (scheduler.c,
\* thread.c, rt_ipc_list_suspend and rt_ipc_list_resume).
KernelConsistent == KInv(k)

\* No token is lost or made: every token issued is counted in the value, held
\* by a thread, or handed to a waiter that has not returned yet.  A waiter that
\* times out or is reset holds none, even if a release races its timer.
TokenConservation ==
  issued = value + MapThenSumSet(LAMBDA t : owned[t], Thread)
                 + Cardinality({t \in Thread : Granted(t)})

\* No thread waits on the semaphore while a token is available.
NoWaiterWithToken == value > 0 => waiters = {}

\* A suspended thread is in the wait list, where a release can find it.
NoThreadLost ==
  \A t \in Thread : k.stat[t] = "suspend" => t \in waiters

\* Whenever a thread executes its own code with the scheduler unlocked, no
\* ready thread is more urgent: every wake-up is followed by rt_schedule().
Preemptive ==
  k.nest = 0 /\ pc[k.cur] \in {"run", "take_ret"} => Settled(k)

-----------------------------------------------------------------------------
(* The semaphore implements the abstract one.  A token handed to a waiter   *)
(* is held by it from the moment of the release, although the waiter learns *)
(* of it when it next runs.                                                 *)

Abstract == INSTANCE AbstractSemaphore WITH
  Client        <- Thread,
  InitialTokens <- SemValue,
  avail         <- value,
  holds         <- [t \in Thread |-> owned[t] + IF Granted(t) THEN 1 ELSE 0],
  waiting       <- waiters

\* Every step of rt_sem_take, rt_sem_release, rt_sem_control, of the tick and
\* of the scheduler is a step of the abstract semaphore or invisible to it.
ImplementsSemaphore == Abstract!AbsSpec
=============================================================================
