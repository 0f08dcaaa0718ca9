-------------------------------- MODULE Mutex --------------------------------
(***************************************************************************)
(* The recursive mutex of ipc.c with priority inheritance.  Threads take   *)
(* and release mutexes, block with or without a timeout, and are preempted *)
(* by the tick between any two critical sections.  Interrupt handlers may  *)
(* not use a mutex.                                                        *)
(*                                                                         *)
(* pc[t] is where thread t is: "run" in its own code, "take_sched" and     *)
(* "take_ret" before and after the rt_schedule() of rt_mutex_take, "sched" *)
(* before a final rt_schedule(), "sleep" and "sleep_ret" before and after  *)
(* the one of rt_thread_sleep; want[t] is the mutex of its last            *)
(* rt_mutex_take that had to wait.                                         *)
(*                                                                         *)
(* Senders send signals (signal.c) to receivers.  Signal has the detail;   *)
(* what a take sees of it is that a delivery resumes a thread that waits,  *)
(* and that its handlers, if they run, leave it the error -RT_EINTR.  (A   *)
(* delivery to a thread that sleeps ends the sleep as its timer may.)      *)
(*                                                                         *)
(* claims[t] is a history variable: what thread t believes it holds, the   *)
(* takes that returned RT_EOK and were not released yet, oldest first.     *)
(***************************************************************************)
EXTENDS Kernel

CONSTANTS
  MutexFlag,   \* RT_IPC_FLAG_FIFO or RT_IPC_FLAG_PRIO
  Client,      \* the threads that use mutexes
  Sleeper,     \* the threads that sleep from time to time
  Prober,      \* the threads that also make calls that fail at once
  Receiver,    \* the threads signals are sent to
  Sender,      \* the threads that send them
  InitPrio,    \* init_priority of every thread
  Null,        \* RT_NULL
  MaxHold      \* bound: nesting of one thread, below 2^8 (hold is 8 bits)

Mutexes == Queue

ASSUME MutexAssumption ==
  /\ MutexFlag \in Flag
  /\ Client \subseteq Thread \ {Idle} /\ Sleeper \subseteq Thread \ {Idle}
  /\ Prober \subseteq Thread \ {Idle}
  /\ Receiver \subseteq Thread \ {Idle} /\ Sender \subseteq Thread \ {Idle}
  /\ InitPrio \in [Thread -> Prio]
  /\ \A t \in Thread \ {Idle} : InitPrio[t] < InitPrio[Idle]
  /\ Null \notin Thread \cup Queue
  /\ MaxHold \in 1 .. 255

VARIABLES
  k, mutex, pc, want, claims,
  signalled,   \* the threads that a signal has resumed in rt_mutex_take
  wild         \* a take went on without what it relies on

vars == <<k, mutex, pc, want, claims, signalled, wild>>

PC == {"run", "take_sched", "take_ret", "sched", "sleep", "sleep_ret"}

NoPriority == 255   \* original_priority of a free mutex, 0xFF

MutexState ==
  [value : {0, 1}, owner : Thread \cup {Null},
   original_priority : Prio \cup {NoPriority}, hold : 0 .. 255]

TypeOK ==
  /\ k \in KernelState
  /\ mutex \in [Mutexes -> MutexState]
  /\ pc \in [Thread -> PC]
  /\ want \in [Thread -> Mutexes \cup {Null}]
  /\ claims \in [Thread -> Seq(Mutexes)]
  /\ signalled \subseteq Thread
  /\ wild \in BOOLEAN

waiters(m) == ToSet(k.wait[m])

\* A thread that was handed the mutex and has not yet returned from
\* rt_mutex_take, whatever its error says.
Granted(t, m) ==
  pc[t] \in {"take_sched", "take_ret"} /\ want[t] = m /\ mutex[m].owner = t

-----------------------------------------------------------------------------
\* rt_mutex_init before any thread that uses the mutexes is started.
Init ==
  /\ k = scheduler_started(InitPrio)
  /\ mutex = [m \in Mutexes |-> [value |-> 1, owner |-> Null,
                                 original_priority |-> NoPriority,
                                 hold |-> 0]]
  /\ pc = [t \in Thread |-> "run"]
  /\ want = [t \in Thread |-> Null]
  /\ claims = [t \in Thread |-> << >>]
  /\ signalled = {} /\ wild = FALSE

Startup(t, new) ==
  /\ k.cur = t /\ pc[t] = "run"
  /\ k.stat[new] = "init"
  /\ k' = rt_thread_startup(k, new, InitPrio[new])
  /\ pc' = [pc EXCEPT ![t] = "sched"]
  /\ UNCHANGED <<mutex, want, claims, signalled, wild>>

\* rt_mutex_take is called: the error of the thread is reset.
TakeCall(t, m) ==
  /\ k.cur = t /\ pc[t] = "run" /\ t \in Client
  /\ UNCHANGED want

\* rt_mutex_take by the owner, or of a free mutex.
TakeNow(t, m) ==
  /\ TakeCall(t, m)
  /\ Len(claims[t]) < MaxHold
  /\ \/ /\ mutex[m].owner = t
        /\ mutex' = [mutex EXCEPT ![m].hold = @ + 1]
     \/ /\ mutex[m].owner # t /\ mutex[m].value > 0
        /\ mutex' = [mutex EXCEPT
             ![m] = [value |-> @.value - 1, owner |-> t,
                     original_priority |-> k.prio[t], hold |-> @.hold + 1]]
  /\ k' = [k EXCEPT !.err[t] = "eok"]
  /\ claims' = [claims EXCEPT ![t] = Append(@, m)]
  /\ UNCHANGED <<pc, signalled, wild>>

\* rt_mutex_take with time = 0 of a mutex somebody else owns.
TryFails(t, m) ==
  /\ TakeCall(t, m) /\ t \in Prober
  /\ mutex[m].owner # t /\ mutex[m].value = 0
  /\ k' = [k EXCEPT !.err[t] = "etimeout"]
  /\ UNCHANGED <<mutex, pc, claims, signalled, wild>>

\* Mutant: no inheritance.
NoInherit(kk, m, t) == kk

\* The owner inherits the priority of a more urgent thread that will wait.
inherit(kk, m, t) ==
  IF kk.prio[t] < kk.prio[mutex[m].owner]
  THEN rt_thread_change_priority(kk, mutex[m].owner, kk.prio[t])
  ELSE kk

\* rt_mutex_take that has to wait, up to the enabling of interrupts.
TakeBlock(t, m, timed) ==
  /\ k.cur = t /\ pc[t] = "run" /\ t \in Client
  /\ mutex[m].owner # t /\ mutex[m].value = 0
  /\ LET k1 == inherit([k EXCEPT !.err[t] = "eok"], m, t)
         k2 == rt_ipc_list_suspend(k1, m, t, MutexFlag)
     IN k' = IF timed THEN rt_timer_start(k2, t) ELSE k2
  /\ pc' = [pc EXCEPT ![t] = "take_sched"]
  /\ want' = [want EXCEPT ![t] = m]
  /\ UNCHANGED <<mutex, claims, signalled, wild>>

TakeSchedule(t) ==
  /\ k.cur = t /\ pc[t] = "take_sched"
  /\ k' = rt_schedule(k)
  /\ pc' = [pc EXCEPT ![t] = "take_ret"]
  /\ UNCHANGED <<mutex, want, claims, signalled, wild>>

\* A signal has resumed the thread, which neither was handed the mutex nor has
\* run a handler.  It is about to return RT_EOK.
Spurious(t) ==
  t \in signalled /\ k.err[t] = "eok" /\ mutex[want[t]].owner # t

TakeReturn(t) ==
  /\ k.cur = t /\ pc[t] = "take_ret"
  /\ k.err[t] # "eintr" /\ ~Spurious(t)
  /\ claims' = IF k.err[t] = "eok"
               THEN [claims EXCEPT ![t] = Append(@, want[t])] ELSE claims
  /\ pc' = [pc EXCEPT ![t] = "run"]
  /\ signalled' = signalled \ {t}
  /\ UNCHANGED <<k, mutex, want, wild>>

\* "Interrupt by signal, try it again": with interrupts enabled, and with the
\* error still there.  If nobody comes in between, a free mutex is taken; ...
TakeAgain(t) ==
  LET m == want[t] IN
  /\ k.cur = t /\ pc[t] = "take_ret" /\ k.err[t] = "eintr"
  /\ mutex[m].value > 0
  /\ mutex' = [mutex EXCEPT
       ![m] = [value |-> @.value - 1, owner |-> t,
               original_priority |-> k.prio[t], hold |-> @.hold + 1]]
  /\ claims' = [claims EXCEPT ![t] = Append(@, m)]
  /\ pc' = [pc EXCEPT ![t] = "run"]
  /\ signalled' = signalled \ {t}
  /\ UNCHANGED <<k, want, wild>>

\* ... but anybody may, a thread that waits again will not notice that it was
\* handed the mutex, and one that was handed it already waits for itself.
TakeUnprotected(t) ==
  /\ k.cur = t /\ pc[t] = "take_ret"
  /\ k.err[t] = "eintr" \/ Spurious(t)
  /\ wild' = TRUE
  /\ UNCHANGED <<k, mutex, pc, want, claims, signalled>>

\* Mutant: the priority is not restored.
KeepBoost(m) == k

\* The priority of the owner that gives the mutex up.
restore(m) ==
  LET t == mutex[m].owner IN
  IF mutex[m].original_priority # k.prio[t]
  THEN rt_thread_change_priority(k, t, mutex[m].original_priority)
  ELSE k

\* Mutant: the hold of the new owner is not counted.
HandedWithoutHold(m, k1, new) ==
  [mutex[m] EXCEPT !.owner = new, !.original_priority = k1.prio[new],
                   !.hold = @ - 1]

\* The mutex after its last rt_mutex_release, given its first waiter.
handed_to(m, k1, new) ==
  [mutex[m] EXCEPT !.owner = new, !.original_priority = k1.prio[new],
                   !.hold = (@ - 1) + 1]

\* The mutex after its last rt_mutex_release if nobody waits.
freed(m) == [value |-> mutex[m].value + 1, owner |-> Null,
             original_priority |-> NoPriority, hold |-> mutex[m].hold - 1]

\* claims[t] without the last claim of m.
unclaim(t, m) ==
  LET c == claims[t] IN
  RemoveAt(c, CHOOSE i \in DOMAIN c :
                c[i] = m /\ \A j \in DOMAIN c : c[j] = m => j <= i)

\* Mutant: the waiters are forgotten.
ReleaseForgetsWaiters(t, m) ==
  /\ k.cur = t /\ pc[t] = "run"
  /\ mutex[m].owner = t /\ m \in ToSet(claims[t])
  /\ IF mutex[m].hold > 1
     THEN mutex' = [mutex EXCEPT ![m].hold = @ - 1] /\ UNCHANGED k
     ELSE mutex' = [mutex EXCEPT ![m] = freed(m)] /\ k' = restore(m)
  /\ claims' = [claims EXCEPT ![t] = unclaim(t, m)]
  /\ UNCHANGED <<pc, want, signalled, wild>>

\* rt_mutex_release by the owner; it schedules only if it resumed a waiter.
Release(t, m) ==
  /\ k.cur = t /\ pc[t] = "run"
  /\ mutex[m].owner = t /\ m \in ToSet(claims[t])
  /\ IF mutex[m].hold > 1
     THEN /\ mutex' = [mutex EXCEPT ![m].hold = @ - 1]
          /\ UNCHANGED <<k, pc>>
     ELSE IF waiters(m) # {}
     THEN /\ mutex' = [mutex EXCEPT
                         ![m] = handed_to(m, restore(m), Head(k.wait[m]))]
          /\ k' = rt_ipc_list_resume(restore(m), m)
          /\ pc' = [pc EXCEPT ![t] = "sched"]
     ELSE /\ mutex' = [mutex EXCEPT ![m] = freed(m)]
          /\ k' = restore(m)
          /\ UNCHANGED pc
  /\ claims' = [claims EXCEPT ![t] = unclaim(t, m)]
  /\ UNCHANGED <<want, signalled, wild>>

\* rt_mutex_release by a thread that does not own the mutex.
ReleaseNotOwner(t, m) ==
  /\ k.cur = t /\ pc[t] = "run" /\ t \in Prober
  /\ mutex[m].owner # t
  /\ k' = [k EXCEPT !.err[t] = "error"]
  /\ UNCHANGED <<mutex, pc, want, claims, signalled, wild>>

Schedule(t) ==
  /\ k.cur = t /\ pc[t] = "sched"
  /\ k' = rt_schedule(k)
  /\ pc' = [pc EXCEPT ![t] = "run"]
  /\ UNCHANGED <<mutex, want, claims, signalled, wild>>

\* rt_thread_sleep: the thread gives the processor up until its timer expires.
Sleep(t) ==
  /\ k.cur = t /\ pc[t] = "run" /\ t \in Sleeper
  /\ k' = rt_thread_sleep(k, t)
  /\ pc' = [pc EXCEPT ![t] = "sleep"]
  /\ UNCHANGED <<mutex, want, claims, signalled, wild>>

SleepSchedule(t) ==
  /\ k.cur = t /\ pc[t] = "sleep"
  /\ k' = rt_schedule(k)
  /\ pc' = [pc EXCEPT ![t] = "sleep_ret"]
  /\ UNCHANGED <<mutex, want, claims, signalled, wild>>

SleepReturn(t) ==
  /\ k.cur = t /\ pc[t] = "sleep_ret"
  /\ k' = [k EXCEPT !.err[t] = IF @ = "etimeout" THEN "eok" ELSE @]
  /\ pc' = [pc EXCEPT ![t] = "run"]
  /\ UNCHANGED <<mutex, want, claims, signalled, wild>>

\* _signal_deliver to a thread that waits for a mutex.
Deliver(t, r) ==
  /\ k.cur = t /\ pc[t] = "run" /\ t \in Sender
  /\ r \in Receiver /\ k.stat[r] = "suspend"
  /\ pc[r] \in {"take_sched", "take_ret"}
  /\ k' = rt_thread_resume(k, r)
  /\ signalled' = signalled \cup {r}
  /\ pc' = [pc EXCEPT ![t] = "sched"]
  /\ UNCHANGED <<mutex, want, claims, wild>>

\* rt_thread_handle_sig, on the way out of the rt_schedule() of rt_mutex_take or
\* in a context built by _signal_deliver, whenever the signal was sent.  (If it
\* was handled or masked after the delivery had been decided, none runs.)
HandleSig(t) ==
  /\ k.cur = t /\ pc[t] = "take_ret" /\ t \in Receiver
  /\ k' = [k EXCEPT !.err[t] = "eintr"]
  /\ UNCHANGED <<mutex, pc, want, claims, signalled, wild>>

\* The tick interrupt finds the timer of t expired.
TimerExpire(t) ==
  /\ t \in k.timer
  /\ k' = rt_thread_timeout(k, t)
  /\ UNCHANGED <<mutex, pc, want, claims, signalled, wild>>

\* The tick interrupt ends the time slice of the running thread.
TickYield ==
  /\ k' = rt_schedule(k)
  /\ UNCHANGED <<mutex, pc, want, claims, signalled, wild>>

Steps ==
  \/ \E t \in Thread :
       \/ \E new \in Thread : Startup(t, new)
       \/ \E m \in Mutexes : \/ TakeNow(t, m)
                             \/ \E timed \in BOOLEAN : TakeBlock(t, m, timed)
                             \/ Release(t, m)
       \/ TakeSchedule(t)
       \/ TakeReturn(t) \/ TakeAgain(t) \/ TakeUnprotected(t)
       \/ Schedule(t)
       \/ Sleep(t)
       \/ SleepSchedule(t)
       \/ SleepReturn(t)
       \/ \E r \in Thread : Deliver(t, r)
       \/ HandleSig(t)
       \/ TimerExpire(t)
  \/ TickYield

\* Calls that fail at once; they change only thread->error.
Failures ==
  \E t \in Thread, m \in Mutexes : TryFails(t, m) \/ ReleaseNotOwner(t, m)

\* Nothing is said of what the program does once it has gone wild.
Next == ~wild /\ (Steps \/ Failures)

Spec == Init /\ [][Next]_vars

-----------------------------------------------------------------------------
(* Safety.                                                                 *)

\* Whoever returned RT_EOK from rt_mutex_take and did not release is the owner,
\* with as many takes as the mutex counts: no two threads hold a mutex, even
\* if a release races the timeout of the waiter it picks.  The kernel lists agree
\* although priorities change while threads are linked in them.
MutualExclusion ==
  /\ TypeOK /\ KInv(k)
  /\ \A m \in Mutexes, t \in Thread :
       LET mine == Cardinality({i \in DOMAIN claims[t] : claims[t][i] = m})
                     + IF Granted(t, m) THEN 1 ELSE 0
       IN mine = IF mutex[m].owner = t THEN mutex[m].hold ELSE 0

\* Nobody waits for a mutex that is free, and a suspended thread is in the list
\* of the mutex it wants or has a timer that will wake it.
NoLostWakeup ==
  /\ \A m \in Mutexes :
       /\ mutex[m].value = 1 <=> mutex[m].owner = Null
       /\ waiters(m) # {} => mutex[m].owner # Null
  /\ \A t \in Thread : k.stat[t] = "suspend" =>
       IF pc[t] \in {"take_sched", "take_ret"} THEN t \in waiters(want[t])
                                              ELSE t \in k.timer

\* While a thread waits for a mutex whose owner is ready, no less urgent thread
\* runs its own code: the only delay is the owner's, never that of a thread in
\* between.
NoInversion ==
  \A m \in Mutexes : \A t \in waiters(m) :
     /\ k.stat[mutex[m].owner] = "ready"
     /\ pc[k.cur] \in {"run", "take_ret", "sleep_ret"}
     => k.prio[k.cur] <= k.prio[t]

\* A thread that owns no mutex has its own priority back, after any nesting of
\* takes and any waiter it inherited from.  (One mutex: with two, released in the
\* order they were taken, the second original_priority may be an inherited one.)
PriorityRestored ==
  \A t \in Thread : (\A m \in Mutexes : mutex[m].owner # t) =>
     k.prio[t] = InitPrio[t]

-----------------------------------------------------------------------------
(* Liveness.                                                               *)

\* A thread releases a mutex, perhaps for the last time.
ReleaseOne(t)  == \E m \in Mutexes : Release(t, m)
ReleaseLast(t) == \E m \in Mutexes : mutex[m].hold = 1 /\ Release(t, m)

\* The kernel code a thread is in the middle of.
KernelCode(t) ==
  \/ TakeSchedule(t)
  \/ TakeReturn(t) \/ TakeAgain(t) \/ TakeUnprotected(t)
  \/ Schedule(t) \/ SleepSchedule(t) \/ SleepReturn(t)

\* The thread that is more urgent than all others.
MostUrgent(t) == \A u \in Thread \ {t} : InitPrio[t] < InitPrio[u]

\* The tick keeps coming; every time slice is long enough for one critical
\* section; an owner that runs gives the mutex up in the end, however often it
\* takes it again meanwhile.  Nothing is assumed of threads that just run.
Fairness ==
  /\ SF_vars(TickYield)
  /\ \A t \in Client : SF_vars(KernelCode(t))
  /\ \A t \in {u \in Client : ~MostUrgent(u)} :
       SF_vars(ReleaseOne(t)) /\ SF_vars(ReleaseLast(t))

FairSpec == Spec /\ Fairness

\* A thread more urgent than all others that waits for a mutex gets it, or times
\* out, even if threads of middle urgency never stop running.
UrgentTakeReturns ==
  \A t \in Thread :
     MostUrgent(t) => (pc[t] = "take_sched" ~> pc[t] = "run" \/ wild)
=============================================================================
