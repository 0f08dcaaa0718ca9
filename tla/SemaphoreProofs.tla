-------------------------- MODULE SemaphoreProofs ---------------------------
(***************************************************************************)
(* The semaphore, for every set of threads, every assignment of            *)
(* priorities, both kinds of wait list and every bound: lists, bitmap,     *)
(* states and timers stay consistent, no thread waits while a token is     *)
(* available, no suspended thread is lost, the scheduler is preemptive, no *)
(* token is lost or made, and the semaphore implements the abstract one.   *)
(* With signals on top of it (Signal): no siginfo node is lost, a stack    *)
(* holds one context of _signal_deliver, and nobody sleeps over a signal.  *)
(***************************************************************************)
EXTENDS Signal, KernelProofs

\* Who runs: tidle never blocks; the running thread is ready except between
\* its suspension in rt_sem_take and the rt_schedule() that follows, and it
\* does not hold the scheduler lock there.
RunsOrBlocks ==
  /\ k.stat[Idle] = "ready"
  /\ k.stat[k.cur] = "ready" \/ pc[k.cur] = "take_sched"
  /\ pc[k.cur] \in {"take_sched", "take_ret"} => k.nest = 0

\* The inductive invariant.
IInv ==
  /\ TypeOK
  /\ KernelConsistent
  /\ RunsOrBlocks
  /\ NoThreadLost
  /\ NoWaiterWithToken
  /\ Preemptive

\* The initial state satisfies the invariant.
LEMMA InitIInv == Init => IInv
<1> SUFFICES ASSUME Init PROVE IInv
  OBVIOUS
<1> USE KernelAssumption, SemaphoreAssumption
<1>1. /\ k \in KernelState /\ KInv(k) /\ Settled(k)
      /\ k.stat = [t \in Thread |-> IF t = Idle THEN "ready" ELSE "init"]
      /\ \A q \in Queue : ToSet(k.wait[q]) = {}
      /\ k.cur = Idle /\ k.nest = 0
  BY StartedKernel DEF Init
<1>2. TypeOK
  BY <1>1 DEF Init, TypeOK, PC
<1>3. RunsOrBlocks
  BY <1>1 DEF RunsOrBlocks, Init
<1>4. NoThreadLost /\ NoWaiterWithToken
  BY <1>1 DEF NoThreadLost, NoWaiterWithToken, waiters
<1>5. Preemptive
  BY <1>1 DEF Preemptive
<1> QED BY <1>1, <1>2, <1>3, <1>4, <1>5 DEF IInv, KernelConsistent

\* Facts every action proof starts from.
LEMMA IInvFacts ==
  ASSUME IInv
  PROVE  /\ k \in KernelState /\ KInv(k) /\ k.cur \in Thread /\ Sem \in Queue
         /\ k.wait[Sem] \in Seq(Thread) /\ k.nest \in Nat
         /\ k.stat \in [Thread -> Stat] /\ pc \in [Thread -> PC]
         /\ Idle \in Thread /\ k.stat[Idle] = "ready" /\ Queue = {Sem}
BY KernelAssumption, SemaphoreAssumption
   DEF IInv, TypeOK, KernelConsistent, RunsOrBlocks, KernelState

\* The first waiter is a suspended thread.
LEMMA FirstWaiter ==
  ASSUME IInv, waiters # {}
  PROVE  /\ Head(k.wait[Sem]) \in waiters
         /\ Head(k.wait[Sem]) \in Thread
         /\ k.stat[Head(k.wait[Sem])] = "suspend"
<1>1. Head(k.wait[Sem]) \in waiters /\ Head(k.wait[Sem]) \in Thread
  BY IInvFacts, HeadInList DEF waiters
<1> QED BY <1>1, IInvFacts DEF KInv, WaitLists, waiters

\* A step that ends with rt_schedule() in a consistent kernel state m with the
\* threads, the lock and the waiters of which nothing else is changed.
LEMMA ScheduleStep ==
  ASSUME TypeOK', NEW m \in KernelState, KInv(m), m.stat[Idle] = "ready",
         k' = rt_schedule(m),
         m.nest # 0 => m.stat[m.cur] = "ready" /\ pc'[m.cur] \notin {"take_sched", "take_ret"},
         \A t \in Thread : m.stat[t] = "suspend" => t \in ToSet(m.wait[Sem]),
         value' > 0 => ToSet(m.wait[Sem]) = {}
  PROVE  IInv'
<1>1. /\ k' \in KernelState /\ KInv(k') /\ SameThreads(m, k')
      /\ m.nest # 0 => k' = m
      /\ m.nest = 0 => Settled(k')
  BY AfterSchedule
<1>2. KernelConsistent'
  BY <1>1 DEF KernelConsistent
<1>3. RunsOrBlocks'
  <2>1. CASE m.nest = 0
    BY <1>1, <2>1 DEF RunsOrBlocks, SameThreads, Settled
  <2>2. CASE m.nest # 0
    BY <1>1, <2>2 DEF RunsOrBlocks
  <2> QED BY <2>1, <2>2
<1>4. NoThreadLost'
  BY <1>1 DEF NoThreadLost, waiters, SameThreads
<1>5. NoWaiterWithToken'
  BY <1>1 DEF NoWaiterWithToken, waiters, SameThreads
<1>6. Preemptive'
  BY <1>1 DEF Preemptive, SameThreads
<1> QED BY <1>2, <1>3, <1>4, <1>5, <1>6 DEF IInv

\* The same for a step that leaves the running thread where rt_schedule() is
\* still to come, or has nothing to schedule.
LEMMA PlainStep ==
  ASSUME TypeOK', KInv(k'), k'.stat[Idle] = "ready",
         k'.stat[k'.cur] = "ready" \/ pc'[k'.cur] = "take_sched",
         pc'[k'.cur] \in {"take_sched", "take_ret"} => k'.nest = 0,
         \A t \in Thread : k'.stat[t] = "suspend" => t \in ToSet(k'.wait[Sem]),
         value' > 0 => ToSet(k'.wait[Sem]) = {},
         k'.nest = 0 /\ pc'[k'.cur] \in {"run", "take_ret"} => Settled(k')
  PROVE  IInv'
BY DEF IInv, KernelConsistent, RunsOrBlocks, NoThreadLost, NoWaiterWithToken,
       Preemptive, waiters

\* rt_thread_startup of a thread keeps the invariant.
LEMMA StartupStep ==
  ASSUME IInv, NEW t \in Thread, NEW new \in Thread, Startup(t, new)
  PROVE  IInv'
<1> USE IInvFacts
<1>1. InitPrio[new] \in Prio
  BY SemaphoreAssumption
<1>2. k.stat[new] = "init" /\ k' = rt_thread_startup(k, new, InitPrio[new])
      /\ k.cur = t /\ pc[t] = "run" /\ pc' = [pc EXCEPT ![t] = "sched"]
      /\ UNCHANGED <<value, owned, issued>>
  BY DEF Startup
<1>3. k' \in KernelState /\ KInv(k') /\ k'.cur = t /\ k'.nest = k.nest
      /\ k'.stat = [k.stat EXCEPT ![new] = "ready"] /\ k'.wait = k.wait
  <2> DEFINE r == rt_thread_startup(k, new, InitPrio[new])
  <2>1. /\ r \in KernelState /\ KInv(r)
        /\ r.stat = [k.stat EXCEPT ![new] = "ready"]
        /\ r.wait = k.wait /\ r.cur = k.cur /\ r.nest = k.nest
    <3>1. k \in KernelState /\ KInv(k) /\ k.stat[new] = "init"
      BY <1>2
    <3>9. Started(k, new, InitPrio[new], r)
      BY ONLY <1>1, <3>1, StartupStarts, new \in Thread
    <3> QED BY ONLY <3>9 DEF Started
  <2> HIDE DEF r
  <2> QED BY <1>2, <2>1 DEF r
<1>4. TypeOK'
  BY <1>2, <1>3 DEF IInv, TypeOK, PC
<1>5. pc'[t] = "sched" /\ k.stat[t] = "ready"
  BY <1>2 DEF IInv, RunsOrBlocks
<1>6. \A u \in Thread : k'.stat[u] = "suspend" => u \in ToSet(k'.wait[Sem])
  BY <1>3 DEF IInv, NoThreadLost, waiters
<1>7. value' > 0 => ToSet(k'.wait[Sem]) = {}
  BY <1>2, <1>3 DEF IInv, NoWaiterWithToken, waiters
<1> QED BY <1>3, <1>4, <1>5, <1>6, <1>7, PlainStep

\* rt_sem_take that must wait keeps the invariant.
LEMMA TakeBlockStep ==
  ASSUME IInv, NEW t \in Thread, NEW timed \in BOOLEAN, TakeBlock(t, timed)
  PROVE  IInv'
<1> USE IInvFacts
<1> DEFINE k0 == [k EXCEPT !.err[t] = "eok"]
           k1 == rt_ipc_list_suspend(k0, Sem, t, SemFlag)
<1>1. k.cur = t /\ pc[t] = "run" /\ t # Idle /\ k.nest = 0 /\ value = 0
      /\ k' = (IF timed THEN rt_timer_start(k1, t) ELSE k1)
      /\ pc' = [pc EXCEPT ![t] = "take_sched"]
      /\ UNCHANGED <<value, owned, issued>>
  BY DEF TakeBlock
<1>2. k0 \in KernelState /\ KInv(k0) /\ k0.stat = k.stat /\ k0.wait = k.wait
      /\ k0.cur = t /\ k0.nest = 0
  BY <1>1, SetError, ZenonT(30) DEF Err
<1>3. k0.stat[k0.cur] = "ready"
  BY <1>1, <1>2 DEF IInv, RunsOrBlocks
<1> HIDE DEF k0
<1>4. Blocked(k0, Sem, k1)
  BY <1>2, <1>3, IpcSuspendKeeps
<1> HIDE DEF k1
<1>5. /\ k1 \in KernelState /\ KInv(k1) /\ k1.cur = t /\ k1.nest = 0
      /\ k1.stat = [k.stat EXCEPT ![t] = "suspend"]
      /\ ToSet(k1.wait[Sem]) = ToSet(k.wait[Sem]) \cup {t}
  BY <1>2, <1>4 DEF Blocked
<1>6. k1.stat[t] = "suspend"
  BY <1>5
<1>7. /\ k' \in KernelState /\ KInv(k') /\ k'.cur = t /\ k'.nest = 0
      /\ k'.stat = [k.stat EXCEPT ![t] = "suspend"]
      /\ ToSet(k'.wait[Sem]) = ToSet(k.wait[Sem]) \cup {t}
  <2>1. CASE timed
    BY <1>1, <1>5, <1>6, <2>1, StartTimer
  <2>2. CASE ~timed
    BY <1>1, <1>5, <2>2
  <2> QED BY <2>1, <2>2
<1>8. TypeOK'
  BY <1>1, <1>7 DEF IInv, TypeOK, PC
<1>9. pc'[t] = "take_sched"
  BY <1>1
<1>10. \A u \in Thread : k'.stat[u] = "suspend" => u \in ToSet(k'.wait[Sem])
  BY <1>7 DEF IInv, NoThreadLost, waiters
<1> QED BY <1>1, <1>7, <1>8, <1>9, <1>10, PlainStep

\* Resuming the first waiter, with or without an error, wakes it.
LEMMA ResumeFirst ==
  ASSUME IInv, waiters # {}
  PROVE  LET w == Head(k.wait[Sem])
             m == rt_ipc_list_resume(k, Sem)
             n == rt_ipc_list_resume_all_turn(k, Sem)
         IN /\ WokenUp(k, w, m)
            /\ WokenUp([k EXCEPT !.err[w] = "error"], w, n)
            /\ \A r \in {m, n} :
                 /\ r \in KernelState /\ KInv(r) /\ r.stat[Idle] = "ready"
                 /\ r.cur = k.cur /\ r.nest = k.nest
                 /\ r.stat = [k.stat EXCEPT ![w] = "ready"]
                 /\ ToSet(r.wait[Sem]) = waiters \ {w}
                 /\ \A u \in Thread : r.stat[u] = "suspend" =>
                                        u \in ToSet(r.wait[Sem])
<1> USE IInvFacts
<1> DEFINE w  == Head(k.wait[Sem])
           k1 == [k EXCEPT !.err[w] = "error"]
           m  == rt_ipc_list_resume(k, Sem)
           n  == rt_ipc_list_resume_all_turn(k, Sem)
<1>1. w \in waiters /\ w \in Thread /\ k.stat[w] = "suspend"
  BY FirstWaiter
<1>2. k1 \in KernelState /\ KInv(k1) /\ k1.stat = k.stat /\ k1.wait = k.wait
      /\ k1.cur = k.cur /\ k1.nest = k.nest
  BY <1>1, SetError DEF Err
<1>3. m = rt_thread_resume(k, w) /\ n = rt_thread_resume(k1, w)
  BY DEF rt_ipc_list_resume, rt_ipc_list_resume_all_turn
<1> HIDE DEF w, k1, m, n
<1>4. WokenUp(k, w, m)
  BY <1>1, <1>3, ResumeKeeps
<1>5. WokenUp(k1, w, n)
  BY <1>1, <1>2, <1>3, ResumeKeeps
<1>6. ASSUME NEW r \in {m, n}
      PROVE  /\ r \in KernelState /\ KInv(r) /\ r.stat[Idle] = "ready"
             /\ r.cur = k.cur /\ r.nest = k.nest
             /\ r.stat = [k.stat EXCEPT ![w] = "ready"]
             /\ ToSet(r.wait[Sem]) = waiters \ {w}
             /\ \A u \in Thread : r.stat[u] = "suspend" =>
                                    u \in ToSet(r.wait[Sem])
  <2>1. /\ r \in KernelState /\ KInv(r)
        /\ r.cur = k.cur /\ r.nest = k.nest
        /\ r.stat = [k.stat EXCEPT ![w] = "ready"]
        /\ ToSet(r.wait[Sem]) = waiters \ {w}
    BY <1>2, <1>4, <1>5 DEF WokenUp, waiters
  <2>2. r.stat[Idle] = "ready"
    BY <2>1
  <2>3. \A u \in Thread : r.stat[u] = "suspend" => u # w /\ k.stat[u] = "suspend"
    BY <2>1
  <2>4. \A u \in Thread : r.stat[u] = "suspend" => u \in ToSet(r.wait[Sem])
    BY <2>1, <2>3 DEF IInv, NoThreadLost
  <2> QED BY <2>1, <2>2, <2>4
<1> QED BY <1>4, <1>5, <1>6 DEF w, k1, m, n

\* rt_sem_release by a thread keeps the invariant.
LEMMA ReleaseStep ==
  ASSUME IInv, NEW t \in Thread, Release(t)
  PROVE  IInv'
<1> USE IInvFacts
<1>1. k.cur = t /\ pc[t] = "run" /\ t # Idle
      /\ pc' = [pc EXCEPT ![t] = IF waiters # {} THEN "sched" ELSE "run"]
  BY DEF Release
<1>2. owned' \in [Thread -> Nat] /\ issued' \in Int
  <2>1. owned \in [Thread -> Nat] /\ issued \in Int
    BY DEF IInv, TypeOK
  <2>2. CASE owned[t] > 0 /\ owned' = [owned EXCEPT ![t] = owned[t] - 1] /\ issued' = issued
    BY <2>1, <2>2
  <2>3. CASE issued' = issued + 1 /\ owned' = owned
    BY <2>1, <2>3
  <2> QED BY <2>2, <2>3 DEF Release, PutBack
<1>3. k.stat[t] = "ready"
  BY <1>1 DEF IInv, RunsOrBlocks
<1>4. CASE waiters # {}
  <2> DEFINE m == rt_ipc_list_resume(k, Sem)
             w == Head(k.wait[Sem])
  <2>1. k' = m /\ value' = value
    BY <1>4 DEF Release, rt_sem_release
  <2>2. /\ m \in KernelState /\ KInv(m) /\ m.stat[Idle] = "ready"
        /\ m.cur = k.cur /\ m.nest = k.nest
        /\ m.stat = [k.stat EXCEPT ![w] = "ready"]
        /\ ToSet(m.wait[Sem]) = waiters \ {w}
        /\ \A u \in Thread : m.stat[u] = "suspend" => u \in ToSet(m.wait[Sem])
    BY <1>4, ResumeFirst
  <2> HIDE DEF m, w
  <2>3. pc'[t] = "sched" /\ m.stat[t] = "ready"
    BY <1>1, <1>3, <1>4, <2>2
  <2>4. TypeOK'
    BY <1>1, <1>2, <2>1, <2>2 DEF IInv, TypeOK, PC
  <2>5. value' > 0 => ToSet(k'.wait[Sem]) = {}
    BY <1>4, <2>1 DEF IInv, NoWaiterWithToken
  <2> QED BY <1>1, <2>1, <2>2, <2>3, <2>4, <2>5, PlainStep
<1>5. CASE waiters = {}
  <2>1. k' = k /\ value' = (value + 1) % ValueMod
    BY <1>5 DEF Release, rt_sem_release
  <2>2. value' \in 0 .. (ValueMod - 1)
    BY <2>1, SemaphoreAssumption DEF IInv, TypeOK
  <2>3. pc' = pc
    BY <1>1, <1>5
  <2>4. TypeOK'
    BY <1>2, <2>1, <2>2, <2>3 DEF IInv, TypeOK
  <2> QED BY <1>5, <2>1, <2>3, <2>4
          DEF IInv, KernelConsistent, RunsOrBlocks, NoThreadLost, NoWaiterWithToken,
              Preemptive, waiters
<1> QED BY <1>4, <1>5

\* An interrupt handler that calls rt_sem_release keeps the invariant.
LEMMA IsrReleaseStep ==
  ASSUME IInv, IsrRelease
  PROVE  IInv'
<1> USE IInvFacts
<1>1. issued' = issued + 1 /\ UNCHANGED <<pc, owned>>
  BY DEF IsrRelease
<1>2. CASE waiters # {}
  <2> DEFINE m == rt_ipc_list_resume(k, Sem)
             w == Head(k.wait[Sem])
  <2>1. k' = rt_schedule(m) /\ value' = value
    BY <1>2 DEF IsrRelease, rt_sem_release
  <2>2. /\ m \in KernelState /\ KInv(m) /\ m.stat[Idle] = "ready"
        /\ m.cur = k.cur /\ m.nest = k.nest
        /\ m.stat = [k.stat EXCEPT ![w] = "ready"]
        /\ ToSet(m.wait[Sem]) = waiters \ {w}
        /\ \A u \in Thread : m.stat[u] = "suspend" => u \in ToSet(m.wait[Sem])
    BY <1>2, ResumeFirst
  <2> HIDE DEF m, w
  <2>3. rt_schedule(m) \in KernelState
    BY <2>2, AfterSchedule
  <2>4. TypeOK'
    BY <1>1, <2>1, <2>3 DEF IInv, TypeOK
  <2>5. value' > 0 => ToSet(m.wait[Sem]) = {}
    BY <1>2, <2>1 DEF IInv, NoWaiterWithToken
  <2>6. m.nest # 0 => /\ m.stat[m.cur] = "ready"
                      /\ pc'[m.cur] \notin {"take_sched", "take_ret"}
    BY <1>1, <2>2 DEF IInv, RunsOrBlocks
  <2> QED BY <2>1, <2>2, <2>4, <2>5, <2>6, ScheduleStep
<1>3. CASE waiters = {}
  <2>1. k' = k /\ value' = (value + 1) % ValueMod
    BY <1>3 DEF IsrRelease, rt_sem_release
  <2>2. value' \in 0 .. (ValueMod - 1)
    BY <2>1, SemaphoreAssumption DEF IInv, TypeOK
  <2>3. TypeOK'
    BY <1>1, <2>1, <2>2 DEF IInv, TypeOK
  <2> QED BY <1>1, <1>3, <2>1, <2>3
          DEF IInv, KernelConsistent, RunsOrBlocks, NoThreadLost, NoWaiterWithToken,
              Preemptive, waiters
<1> QED BY <1>2, <1>3

\* The steps of rt_sem_control keep the invariant.
LEMMA ResetStep ==
  ASSUME IInv, NEW t \in Thread,
         \/ ResetBegin(t)
         \/ ResetTurn(t)
         \/ \E v \in 0 .. MaxTokens : ResetEnd(t, v)
  PROVE  IInv'
<1> USE IInvFacts
<1>1. k.cur = t /\ k.stat[t] = "ready"
  BY DEF ResetBegin, ResetTurn, ResetEnd, IInv, RunsOrBlocks
<1>2. CASE ResetBegin(t)
  <2>1. pc'[t] = "reset" /\ UNCHANGED <<k, value, owned, issued>>
    BY <1>2 DEF ResetBegin
  <2>2. TypeOK'
    BY <1>2 DEF ResetBegin, IInv, TypeOK, PC
  <2> QED BY <1>1, <2>1, <2>2
          DEF IInv, KernelConsistent, RunsOrBlocks, NoThreadLost, NoWaiterWithToken,
              Preemptive, waiters
<1>3. CASE ResetTurn(t)
  <2> DEFINE m == rt_ipc_list_resume_all_turn(k, Sem)
             w == Head(k.wait[Sem])
  <2>1. /\ waiters # {} /\ k' = m /\ pc[t] = "reset"
        /\ UNCHANGED <<value, pc, owned, issued>>
    BY <1>3 DEF ResetTurn
  <2>2. /\ m \in KernelState /\ KInv(m) /\ m.stat[Idle] = "ready"
        /\ m.cur = k.cur /\ m.nest = k.nest
        /\ m.stat = [k.stat EXCEPT ![w] = "ready"]
        /\ ToSet(m.wait[Sem]) = waiters \ {w}
        /\ \A u \in Thread : m.stat[u] = "suspend" => u \in ToSet(m.wait[Sem])
    BY <2>1, ResumeFirst
  <2> HIDE DEF m, w
  <2>3. m.stat[t] = "ready"
    BY <1>1, <2>2
  <2>4. TypeOK'
    BY <2>1, <2>2 DEF IInv, TypeOK
  <2>5. value' > 0 => ToSet(k'.wait[Sem]) = {}
    BY <2>1 DEF IInv, NoWaiterWithToken
  <2> QED BY <1>1, <2>1, <2>2, <2>3, <2>4, <2>5, PlainStep
<1>4. ASSUME NEW v \in 0 .. MaxTokens, ResetEnd(t, v)
      PROVE  IInv'
  <2>1. /\ waiters = {} /\ value' = v % ValueMod /\ issued' = issued + v - value
        /\ pc' = [pc EXCEPT ![t] = "sched"] /\ UNCHANGED <<k, owned>>
    BY <1>4 DEF ResetEnd
  <2>2. value' \in 0 .. (ValueMod - 1) /\ issued' \in Int
    BY <2>1, SemaphoreAssumption DEF IInv, TypeOK
  <2>3. TypeOK'
    BY <2>1, <2>2 DEF IInv, TypeOK, PC
  <2>4. pc'[t] = "sched"
    BY <2>1
  <2> QED BY <1>1, <2>1, <2>3, <2>4
          DEF IInv, KernelConsistent, RunsOrBlocks, NoThreadLost, NoWaiterWithToken,
              Preemptive, waiters
<1> QED BY <1>2, <1>3, <1>4

\* The pending rt_schedule() calls, the timer expiry and the end of a time
\* slice keep the invariant.
LEMMA SchedulingStep ==
  ASSUME IInv,
         \/ \E t \in Thread : TakeSchedule(t) \/ Schedule(t) \/ TimerExpire(t)
         \/ TickYield
  PROVE  IInv'
<1> USE IInvFacts
<1>1. ASSUME NEW t \in Thread, TakeSchedule(t)
      PROVE  IInv'
  <2>1. k.cur = t /\ pc[t] = "take_sched" /\ k' = rt_schedule(k)
        /\ pc' = [pc EXCEPT ![t] = "take_ret"]
        /\ UNCHANGED <<value, owned, issued>>
    BY <1>1 DEF TakeSchedule
  <2>2. k.nest = 0
    BY <2>1 DEF IInv, RunsOrBlocks
  <2>3. rt_schedule(k) \in KernelState
    BY AfterSchedule
  <2>4. TypeOK'
    BY <2>1, <2>3 DEF IInv, TypeOK, PC
  <2> QED BY <2>1, <2>2, <2>4, ScheduleStep
          DEF IInv, NoThreadLost, NoWaiterWithToken, waiters
<1>2. ASSUME NEW t \in Thread, Schedule(t)
      PROVE  IInv'
  <2>1. k.cur = t /\ pc[t] = "sched" /\ k' = rt_schedule(k)
        /\ pc' = [pc EXCEPT ![t] = "run"]
        /\ UNCHANGED <<value, owned, issued>>
    BY <1>2 DEF Schedule
  <2>2. k.stat[t] = "ready" /\ pc'[t] = "run"
    BY <2>1 DEF IInv, RunsOrBlocks
  <2>3. rt_schedule(k) \in KernelState
    BY AfterSchedule
  <2>4. TypeOK'
    BY <2>1, <2>3 DEF IInv, TypeOK, PC
  <2> QED BY <2>1, <2>2, <2>4, ScheduleStep
          DEF IInv, NoThreadLost, NoWaiterWithToken, waiters
<1>3. ASSUME NEW t \in Thread, TimerExpire(t)
      PROVE  IInv'
  <2> DEFINE k1 == [k EXCEPT !.err[t] = "etimeout"]
             m  == timed_out(k, t)
  <2>1. t \in k.timer /\ k' = rt_thread_timeout(k, t)
        /\ UNCHANGED <<value, pc, owned, issued>>
    BY <1>3 DEF TimerExpire
  <2>2. k.stat[t] = "suspend" /\ k' = rt_schedule(m) /\ WokenUp(k1, t, m)
    BY <2>1, TimeoutKeeps
  <2>3. k1.stat = k.stat /\ k1.wait = k.wait /\ k1.cur = k.cur
        /\ k1.nest = k.nest
    BY SetError DEF Err
  <2> HIDE DEF k1, m
  <2>4. /\ m \in KernelState /\ KInv(m) /\ m.cur = k.cur /\ m.nest = k.nest
        /\ m.stat = [k.stat EXCEPT ![t] = "ready"]
        /\ ToSet(m.wait[Sem]) = waiters \ {t}
    BY <2>2, <2>3 DEF WokenUp, waiters
  <2>5. m.stat[Idle] = "ready"
    BY <2>4
  <2>6. \A u \in Thread : m.stat[u] = "suspend" => u \in ToSet(m.wait[Sem])
    BY <2>4 DEF IInv, NoThreadLost
  <2>7. value' > 0 => ToSet(m.wait[Sem]) = {}
    BY <2>1, <2>4 DEF IInv, NoWaiterWithToken
  <2>8. m.nest # 0 => /\ m.stat[m.cur] = "ready"
                      /\ pc'[m.cur] \notin {"take_sched", "take_ret"}
    BY <2>1, <2>4 DEF IInv, RunsOrBlocks
  <2>9. rt_schedule(m) \in KernelState
    BY <2>4, <2>5, AfterSchedule
  <2>10. TypeOK'
    BY <2>1, <2>2, <2>9 DEF IInv, TypeOK
  <2> QED BY <2>2, <2>4, <2>5, <2>6, <2>7, <2>8, <2>10, ScheduleStep
<1>4. CASE TickYield
  <2>1. k' = rt_schedule(k) /\ UNCHANGED <<value, pc, owned, issued>>
    BY <1>4 DEF TickYield
  <2>2. rt_schedule(k) \in KernelState
    BY AfterSchedule
  <2>3. TypeOK'
    BY <2>1, <2>2 DEF IInv, TypeOK
  <2>4. k.nest # 0 => /\ k.stat[k.cur] = "ready"
                      /\ pc'[k.cur] \notin {"take_sched", "take_ret"}
    BY <2>1 DEF IInv, RunsOrBlocks
  <2> QED BY <2>1, <2>3, <2>4, ScheduleStep
          DEF IInv, NoThreadLost, NoWaiterWithToken, waiters
<1> QED BY <1>1, <1>2, <1>3, <1>4

\* The steps that neither block, wake nor schedule keep the invariant.
LEMMA LocalStep ==
  ASSUME IInv, NEW t \in Thread,
         \/ TakeAvailable(t)
         \/ TakeReturn(t)
         \/ rt_enter_critical(t)
         \/ rt_exit_critical(t)
  PROVE  IInv'
<1> USE IInvFacts
<1>1. CASE TakeAvailable(t)
  <2>1. UNCHANGED <<k, pc>> /\ value > 0 /\ value' = value - 1
    BY <1>1 DEF TakeAvailable
  <2>2. TypeOK'
    <3>1. value' \in 0 .. (ValueMod - 1)
      BY <2>1, SemaphoreAssumption DEF IInv, TypeOK
    <3>2. owned' \in [Thread -> Nat] /\ issued' = issued
      BY <1>1 DEF TakeAvailable, IInv, TypeOK
    <3> QED BY <2>1, <3>1, <3>2 DEF IInv, TypeOK
  <2>3. NoWaiterWithToken'
    BY <2>1 DEF IInv, NoWaiterWithToken, waiters
  <2> QED BY <2>1, <2>2, <2>3
          DEF IInv, KernelConsistent, RunsOrBlocks, NoThreadLost, Preemptive, waiters
<1>2. CASE TakeReturn(t)
  <2>1. k.cur = t /\ pc[t] = "take_ret" /\ pc' = [pc EXCEPT ![t] = "run"]
        /\ UNCHANGED <<k, value, issued>>
    BY <1>2 DEF TakeReturn
  <2>2. TypeOK'
    BY <1>2 DEF TakeReturn, IInv, TypeOK, PC
  <2>3. pc'[t] = "run"
    BY <2>1
  <2> QED BY <2>1, <2>2, <2>3
          DEF IInv, KernelConsistent, RunsOrBlocks, NoThreadLost, NoWaiterWithToken,
              Preemptive, waiters
<1>3. ASSUME NEW n \in Nat, k' = [k EXCEPT !.nest = n], k.cur = t,
             pc[t] = "run", pc' \in [Thread -> PC], pc'[t] \in {"run", "sched"},
             n = 0 => pc'[t] = "sched", UNCHANGED <<value, owned, issued>>
      PROVE  IInv'
  <2>1. /\ k' \in KernelState
        /\ k'.nest = n /\ k'.stat = k.stat /\ k'.prio = k.prio
        /\ k'.ready = k.ready /\ k'.group = k.group /\ k'.wait = k.wait
        /\ k'.timer = k.timer /\ k'.cur = k.cur
    BY <1>3 DEF KernelState
  <2>2. KInv(k')
    BY <2>1 DEF KInv, NoDuplicates, ReadyTable, WaitLists, Bitmap,
                TimersOfSuspended
  <2>3. TypeOK'
    BY <1>3, <2>1 DEF IInv, TypeOK
  <2>4. k.stat[t] = "ready"
    BY <1>3 DEF IInv, RunsOrBlocks
  <2> QED BY <1>3, <2>1, <2>2, <2>3, <2>4, PlainStep
          DEF IInv, NoThreadLost, NoWaiterWithToken, waiters
<1>4. CASE rt_enter_critical(t)
  <2>1. k.nest + 1 \in Nat /\ k.nest + 1 # 0 /\ k' = [k EXCEPT !.nest = k.nest + 1]
    BY <1>4 DEF rt_enter_critical
  <2>2. k.cur = t /\ pc[t] = "run" /\ pc' = pc
        /\ UNCHANGED <<value, owned, issued>>
    BY <1>4 DEF rt_enter_critical
  <2> QED BY <1>3, <2>1, <2>2
<1>5. CASE rt_exit_critical(t)
  <2>1. k.nest - 1 \in Nat /\ k' = [k EXCEPT !.nest = k.nest - 1]
        /\ (k.nest - 1 = 0 => k.nest = 1)
    BY <1>5 DEF rt_exit_critical
  <2>2. k.cur = t /\ pc[t] = "run"
        /\ pc' = [pc EXCEPT ![t] = IF k.nest = 1 THEN "sched" ELSE "run"]
        /\ UNCHANGED <<value, owned, issued>>
    BY <1>5 DEF rt_exit_critical
  <2>3. pc' \in [Thread -> PC] /\ pc'[t] \in {"run", "sched"}
        /\ (k.nest = 1 => pc'[t] = "sched")
    BY <2>2 DEF PC
  <2> QED BY <1>3, <2>1, <2>2, <2>3
<1> QED BY <1>1, <1>2, <1>4, <1>5

\* Every step keeps the invariant.
LEMMA NextIInv == IInv /\ [Next]_vars => IInv'
<1> SUFFICES ASSUME IInv, [Next]_vars PROVE IInv'
  OBVIOUS
<1>1. ASSUME NEW t \in Thread, ThreadStep(t)
      PROVE  IInv'
  <2>1. CASE \E new \in Thread : Startup(t, new)
    BY <2>1, StartupStep
  <2>2. CASE \E timed \in BOOLEAN : TakeBlock(t, timed)
    BY <2>2, TakeBlockStep
  <2>3. CASE Release(t)
    BY <2>3, ReleaseStep
  <2>4. CASE TakeAvailable(t) \/ TakeReturn(t) \/ rt_enter_critical(t)
             \/ rt_exit_critical(t)
    BY <2>4, LocalStep
  <2>5. CASE ResetBegin(t) \/ ResetTurn(t)
             \/ \E v \in 0 .. MaxTokens : ResetEnd(t, v)
    BY <2>5, ResetStep
  <2>6. CASE TakeSchedule(t) \/ Schedule(t)
    BY <2>6, SchedulingStep
  <2> QED BY <1>1, <2>1, <2>2, <2>3, <2>4, <2>5, <2>6 DEF ThreadStep
<1>2. CASE Interrupt
  BY <1>2, IsrReleaseStep, SchedulingStep DEF Interrupt
<1>3. CASE UNCHANGED vars
  BY <1>3 DEF vars, IInv, TypeOK, KernelConsistent, RunsOrBlocks, NoThreadLost,
              NoWaiterWithToken, Preemptive, waiters
<1> QED BY <1>1, <1>2, <1>3 DEF Next

\* The invariant holds in every reachable state.
THEOREM SemaphoreInvariant == Spec => []IInv
  BY InitIInv, NextIInv, PTL DEF Spec

\* Type correctness of the semaphore and of the kernel state under it.
THEOREM SemaphoreTypeOK == Spec => []TypeOK
<1>1. IInv => TypeOK
  BY DEF IInv
<1> QED BY <1>1, SemaphoreInvariant, PTL

\* Ready table, bitmap, wait lists, thread states and thread timers agree after
\* any interleaving of critical sections and interrupts: no thread is linked
\* twice and the assertion of rt_thread_timeout holds.
THEOREM SemaphoreKernelConsistent == Spec => []KernelConsistent
<1>1. IInv => KernelConsistent
  BY DEF IInv
<1> QED BY <1>1, SemaphoreInvariant, PTL

\* No thread waits on the semaphore while a token is available.
THEOREM SemaphoreNoWaiterWithToken == Spec => []NoWaiterWithToken
<1>1. IInv => NoWaiterWithToken
  BY DEF IInv
<1> QED BY <1>1, SemaphoreInvariant, PTL

\* A suspended thread is always where a release can find it.
THEOREM SemaphoreNoThreadLost == Spec => []NoThreadLost
<1>1. IInv => NoThreadLost
  BY DEF IInv
<1> QED BY <1>1, SemaphoreInvariant, PTL

\* A thread that runs its own code with the scheduler unlocked is a most
\* urgent ready thread.
THEOREM SemaphorePreemptive == Spec => []Preemptive
<1>1. IInv => Preemptive
  BY DEF IInv
<1> QED BY <1>1, SemaphoreInvariant, PTL
-----------------------------------------------------------------------------
(* Tokens.  A waiter has been granted nothing yet: it is between the two    *)
(* halves of rt_sem_take and its error is still RT_EOK.  So the release     *)
(* that takes it off the list grants it the token, and whoever else takes   *)
(* it off, the timer or a reset, sets an error and grants nothing.          *)

Pending ==
  \A t \in waiters : pc[t] \in {"take_sched", "take_ret"} /\ k.err[t] = "eok"

granted == {t \in Thread : Granted(t)}

\* What a step can do to the tokens.
Quiet == UNCHANGED <<value, owned, issued, waiters, granted>>

Taken(t) ==
  /\ value > 0 /\ value' = value - 1
  /\ owned' = [owned EXCEPT ![t] = @ + 1]
  /\ UNCHANGED <<issued, waiters, granted>>

Waits(t) ==
  /\ value = 0 /\ waiters' = waiters \cup {t}
  /\ UNCHANGED <<value, owned, issued, granted>>

GivesUp(t) ==
  /\ t \in waiters /\ waiters' = waiters \ {t}
  /\ UNCHANGED <<value, owned, issued, granted>>

Collects(t) ==
  /\ t \in granted /\ granted' = granted \ {t}
  /\ owned' = [owned EXCEPT ![t] = @ + 1]
  /\ UNCHANGED <<value, issued, waiters>>

Counted(t) ==
  /\ PutBack(t)
  /\ waiters = {} /\ value' = (value + 1) % ValueMod
  /\ UNCHANGED <<waiters, granted>>

HandedOver(t, w) ==
  /\ PutBack(t)
  /\ w \in waiters /\ waiters' = waiters \ {w}
  /\ granted' = granted \cup {w}
  /\ UNCHANGED value

ResetTo(v) ==
  /\ waiters = {} /\ issued + v - value <= MaxTokens
  /\ value' = v % ValueMod /\ issued' = issued + v - value
  /\ UNCHANGED <<owned, waiters, granted>>

TokenStep ==
  \/ Quiet
  \/ \E t \in Thread :
       \/ Taken(t) \/ Waits(t) \/ GivesUp(t) \/ Collects(t) \/ Counted(t)
       \/ \E w \in Thread : HandedOver(t, w)
  \/ \E v \in 0 .. MaxTokens : ResetTo(v)

\* A step that leaves the wait list and the errors alone and moves no thread
\* in or out of rt_sem_take, except out of it with an error.
LEMMA QuietThreads ==
  ASSUME IInv, Pending, waiters' = waiters, k'.err = k.err,
         \A u \in Thread :
           \/ pc'[u] = pc[u]
           \/ /\ pc[u] \notin {"take_sched", "take_ret"}
              /\ pc'[u] \notin {"take_sched", "take_ret"}
           \/ /\ pc[u] \in {"take_sched", "take_ret"}
              /\ pc'[u] \in {"take_sched", "take_ret"}
           \/ pc[u] = "take_ret" /\ k.err[u] # "eok"
  PROVE  Pending' /\ granted' = granted
<1>1. waiters \subseteq Thread
  BY IInvFacts, ListElements DEF waiters
<1>2. \A u \in Thread : Granted(u)' <=> Granted(u)
  <2> SUFFICES ASSUME NEW u \in Thread PROVE Granted(u)' <=> Granted(u)
    OBVIOUS
  <2> QED BY DEF Granted
<1>3. Pending'
  BY <1>1 DEF Pending
<1> QED BY <1>2, <1>3 DEF granted
\* rt_schedule() and whatever else keeps waiters, errors and pc is quiet.
LEMMA SameThreadsQuiet ==
  ASSUME IInv, Pending, k'.wait = k.wait, k'.err = k.err,
         UNCHANGED <<value, owned, issued>>,
         \A u \in Thread :
           \/ pc'[u] = pc[u]
           \/ /\ pc[u] \notin {"take_sched", "take_ret"}
              /\ pc'[u] \notin {"take_sched", "take_ret"}
           \/ /\ pc[u] \in {"take_sched", "take_ret"}
              /\ pc'[u] \in {"take_sched", "take_ret"}
           \/ pc[u] = "take_ret" /\ k.err[u] # "eok"
  PROVE  Pending' /\ TokenStep
<1>1. waiters' = waiters
  BY DEF waiters
<1>2. Pending' /\ granted' = granted
  BY <1>1, QuietThreads
<1> QED BY <1>1, <1>2 DEF TokenStep, Quiet

\* The steps of a thread that neither take, put back nor wait.
LEMMA QuietTokens ==
  ASSUME IInv, Pending, NEW t \in Thread,
         \/ \E new \in Thread : Startup(t, new)
         \/ TakeSchedule(t) \/ ResetBegin(t) \/ Schedule(t)
         \/ rt_enter_critical(t) \/ rt_exit_critical(t)
         \/ TickYield
         \/ UNCHANGED vars
  PROVE  Pending' /\ TokenStep
<1> USE IInvFacts
<1>1. CASE \E new \in Thread : Startup(t, new)
  <2>1. PICK new \in Thread : Startup(t, new)
    BY <1>1
  <2>2. /\ k.stat[new] = "init" /\ k' = rt_thread_startup(k, new, InitPrio[new])
        /\ InitPrio[new] \in Prio
        /\ pc[t] = "run" /\ pc' = [pc EXCEPT ![t] = "sched"]
        /\ UNCHANGED <<value, owned, issued>>
    BY <2>1, SemaphoreAssumption DEF Startup
  <2>3. k'.err = k.err /\ k'.wait = k.wait
    <3> DEFINE r == rt_thread_startup(k, new, InitPrio[new])
    <3>1. r.err = k.err /\ r.wait = k.wait
      <4>1. k \in KernelState /\ KInv(k)
        OBVIOUS
      <4>9. Started(k, new, InitPrio[new], r)
        BY ONLY <2>2, <4>1, StartupStarts, new \in Thread
      <4> QED BY ONLY <4>9 DEF Started
    <3> HIDE DEF r
    <3> QED BY <2>2, <3>1 DEF r
  <2> QED BY <2>2, <2>3, SameThreadsQuiet
<1>2. CASE TakeSchedule(t) \/ Schedule(t) \/ TickYield
  <2>1. k' = rt_schedule(k) /\ UNCHANGED <<value, owned, issued>>
    BY <1>2 DEF TakeSchedule, Schedule, TickYield
  <2>2. k'.err = k.err /\ k'.wait = k.wait
    BY <2>1, AfterSchedule DEF SameThreads
  <2>3. \/ pc[t] = "take_sched" /\ pc' = [pc EXCEPT ![t] = "take_ret"]
        \/ pc[t] = "sched" /\ pc' = [pc EXCEPT ![t] = "run"]
        \/ pc' = pc
    BY <1>2 DEF TakeSchedule, Schedule, TickYield
  <2>4. \A u \in Thread :
          \/ pc'[u] = pc[u]
          \/ /\ pc[u] \notin {"take_sched", "take_ret"}
             /\ pc'[u] \notin {"take_sched", "take_ret"}
          \/ /\ pc[u] \in {"take_sched", "take_ret"}
             /\ pc'[u] \in {"take_sched", "take_ret"}
    BY <2>3
  <2> QED BY <2>1, <2>2, <2>4, SameThreadsQuiet
<1>3. CASE ResetBegin(t) \/ rt_enter_critical(t) \/ rt_exit_critical(t)
           \/ UNCHANGED vars
  <2>1. /\ k'.wait = k.wait /\ k'.err = k.err
        /\ UNCHANGED <<value, owned, issued>>
    BY <1>3 DEF ResetBegin, rt_enter_critical, rt_exit_critical, vars,
                KernelState
  <2>2. \/ /\ pc[t] = "run"
           /\ \E p \in {"run", "sched", "reset"} : pc' = [pc EXCEPT ![t] = p]
        \/ pc' = pc
    BY <1>3 DEF ResetBegin, rt_enter_critical, rt_exit_critical, vars
  <2> QED BY <2>1, <2>2, SameThreadsQuiet
<1> QED BY <1>1, <1>2, <1>3

\* rt_sem_take that finds a token.
LEMMA TakeAvailableTokens ==
  ASSUME IInv, Pending, NEW t \in Thread, TakeAvailable(t)
  PROVE  Pending' /\ TokenStep
<1>1. /\ value > 0 /\ value' = value - 1
      /\ owned' = [owned EXCEPT ![t] = @ + 1]
      /\ UNCHANGED <<k, pc, issued>>
  BY DEF TakeAvailable
<1>2. waiters' = waiters
  BY <1>1 DEF waiters
<1>3. Pending' /\ granted' = granted
  BY <1>1, <1>2, QuietThreads
<1> QED BY <1>1, <1>2, <1>3 DEF TokenStep, Taken

\* rt_sem_take that must wait.
LEMMA TakeBlockTokens ==
  ASSUME IInv, Pending, NEW t \in Thread, NEW timed \in BOOLEAN,
         TakeBlock(t, timed)
  PROVE  Pending' /\ TokenStep
<1> USE IInvFacts
<1> DEFINE k0 == [k EXCEPT !.err[t] = "eok"]
           k1 == rt_ipc_list_suspend(k0, Sem, t, SemFlag)
<1>1. k.cur = t /\ pc[t] = "run" /\ t # Idle /\ k.nest = 0 /\ value = 0
      /\ k' = (IF timed THEN rt_timer_start(k1, t) ELSE k1)
      /\ pc' = [pc EXCEPT ![t] = "take_sched"]
      /\ UNCHANGED <<value, owned, issued>>
  BY DEF TakeBlock
<1>2. k0 \in KernelState /\ KInv(k0) /\ k0.stat = k.stat /\ k0.wait = k.wait
      /\ k0.cur = t /\ k0.err = [k.err EXCEPT ![t] = "eok"]
  BY <1>1, SetError, ZenonT(30) DEF Err
<1>3. k0.stat[k0.cur] = "ready"
  BY <1>1, <1>2 DEF IInv, RunsOrBlocks
<1> HIDE DEF k0
<1>4. Blocked(k0, Sem, k1)
  BY <1>2, <1>3, IpcSuspendKeeps
<1> HIDE DEF k1
<1>5. /\ k1 \in KernelState /\ KInv(k1) /\ k1.stat[t] = "suspend"
      /\ k1.err = [k.err EXCEPT ![t] = "eok"]
      /\ ToSet(k1.wait[Sem]) = ToSet(k.wait[Sem]) \cup {t}
  BY <1>2, <1>4 DEF Blocked
<1>6. /\ k'.err = [k.err EXCEPT ![t] = "eok"]
      /\ waiters' = waiters \cup {t}
  <2>1. CASE timed
    BY <1>1, <1>5, <2>1, StartTimer DEF waiters
  <2>2. CASE ~timed
    BY <1>1, <1>5, <2>2 DEF waiters
  <2> QED BY <2>1, <2>2
<1>7. k.err \in [Thread -> Err] /\ waiters \subseteq Thread
  BY ListElements DEF KernelState, waiters
<1>8. \A u \in Thread : Granted(u)' <=> Granted(u)
  <2> SUFFICES ASSUME NEW u \in Thread PROVE Granted(u)' <=> Granted(u)
    OBVIOUS
  <2>1. CASE u = t
    BY <1>1, <1>6, <2>1 DEF Granted
  <2>2. CASE u # t
    BY <1>1, <1>6, <1>7, <2>2 DEF Granted
  <2> QED BY <2>1, <2>2
<1>9. Pending'
  BY <1>1, <1>6, <1>7 DEF Pending
<1> QED BY <1>1, <1>6, <1>8, <1>9 DEF TokenStep, Waits, granted

\* The return of rt_sem_take.
LEMMA TakeReturnTokens ==
  ASSUME IInv, Pending, NEW t \in Thread, TakeReturn(t)
  PROVE  Pending' /\ TokenStep
<1> USE IInvFacts
<1>1. /\ k.cur = t /\ pc[t] = "take_ret" /\ pc' = [pc EXCEPT ![t] = "run"]
      /\ owned' = IF k.err[t] = "eok" THEN [owned EXCEPT ![t] = @ + 1]
                  ELSE owned
      /\ UNCHANGED <<k, value, issued>>
  BY DEF TakeReturn
<1>2. waiters' = waiters /\ t \notin waiters /\ waiters \subseteq Thread
  <2>1. k.stat[t] = "ready"
    BY <1>1 DEF IInv, RunsOrBlocks
  <2>2. t \notin waiters
    BY <2>1 DEF KInv, WaitLists, waiters
  <2> QED BY <1>1, <2>2, ListElements DEF waiters
<1>3. CASE k.err[t] = "eok"
  <2>1. t \in granted
    BY <1>1, <1>2, <1>3 DEF granted, Granted
  <2>2. \A u \in Thread : Granted(u)' <=> Granted(u) /\ u # t
    <3> SUFFICES ASSUME NEW u \in Thread
                 PROVE Granted(u)' <=> Granted(u) /\ u # t
      OBVIOUS
    <3> QED BY <1>1, <1>2 DEF Granted
  <2>3. granted' = granted \ {t}
    BY <2>2 DEF granted
  <2>4. Pending'
    BY <1>1, <1>2 DEF Pending
  <2> QED BY <1>1, <1>2, <1>3, <2>1, <2>3, <2>4 DEF TokenStep, Collects
<1>4. CASE k.err[t] # "eok"
  BY <1>1, <1>4, SameThreadsQuiet
<1> QED BY <1>3, <1>4
\* A release that finds a waiter makes the token that waiter's own.
LEMMA GrantStep ==
  ASSUME IInv, Pending, NEW t \in Thread, waiters # {},
         PutBack(t), UNCHANGED value,
         k'.wait[Sem] = rt_ipc_list_resume(k, Sem).wait[Sem], k'.err = k.err,
         \A u \in Thread :
           \/ pc'[u] = pc[u]
           \/ /\ pc[u] \notin {"take_sched", "take_ret"}
              /\ pc'[u] \notin {"take_sched", "take_ret"}
  PROVE  Pending' /\ TokenStep
<1> USE IInvFacts
<1>1. PICK w : w = Head(k.wait[Sem])
  OBVIOUS
<1>2. w \in waiters /\ w \in Thread
  BY <1>1, FirstWaiter
<1>3. waiters' = waiters \ {w}
  BY <1>1, ResumeFirst DEF waiters
<1>4. pc[w] \in {"take_sched", "take_ret"} /\ k.err[w] = "eok"
  BY <1>2 DEF Pending
<1>5. \A u \in Thread : Granted(u)' <=> Granted(u) \/ u = w
  <2> SUFFICES ASSUME NEW u \in Thread
               PROVE Granted(u)' <=> Granted(u) \/ u = w
    OBVIOUS
  <2> QED BY <1>3, <1>4 DEF Granted
<1>6. granted' = granted \cup {w}
  BY <1>2, <1>5 DEF granted
<1>7. waiters \subseteq Thread
  BY ListElements DEF waiters
<1>8. Pending'
  BY <1>3, <1>7 DEF Pending
<1> QED BY <1>2, <1>3, <1>6, <1>8 DEF TokenStep, HandedOver

\* rt_sem_release, by a thread and by an interrupt handler.
LEMMA ReleaseTokens ==
  ASSUME IInv, Pending, NEW t \in Thread, Release(t) \/ IsrRelease
  PROVE  Pending' /\ TokenStep
<1> USE IInvFacts
<1> DEFINE m == rt_ipc_list_resume(k, Sem)
<1>1. PutBack(t)
  BY DEF Release, IsrRelease, PutBack
<1>2. \/ pc[t] = "run"
         /\ pc' = [pc EXCEPT ![t] = IF waiters # {} THEN "sched" ELSE "run"]
      \/ pc' = pc
  BY DEF Release, IsrRelease
<1>3. \A u \in Thread :
        \/ pc'[u] = pc[u]
        \/ /\ pc[u] \notin {"take_sched", "take_ret"}
           /\ pc'[u] \notin {"take_sched", "take_ret"}
  BY <1>2
<1>4. CASE waiters # {}
  <2>1. (k' = m \/ k' = rt_schedule(m)) /\ value' = value
    BY <1>4 DEF Release, IsrRelease, rt_sem_release
  <2>2. /\ m \in KernelState /\ KInv(m) /\ m.stat[Idle] = "ready"
        /\ m.err = k.err
    BY <1>4, ResumeFirst DEF WokenUp
  <2> HIDE DEF m
  <2>3. k'.wait = m.wait /\ k'.err = m.err
    BY <2>1, <2>2, AfterSchedule DEF SameThreads
  <2>4. k'.wait[Sem] = rt_ipc_list_resume(k, Sem).wait[Sem] /\ k'.err = k.err
    BY <2>2, <2>3 DEF m
  <2> QED BY <1>1, <1>3, <1>4, <2>1, <2>4, GrantStep
<1>5. CASE waiters = {}
  <2>1. k' = k /\ value' = (value + 1) % ValueMod
    BY <1>5 DEF Release, IsrRelease, rt_sem_release
  <2>2. waiters' = waiters
    BY <2>1 DEF waiters
  <2>3. Pending' /\ granted' = granted
    BY <1>3, <2>1, <2>2, QuietThreads
  <2> QED BY <1>1, <1>5, <2>1, <2>2, <2>3 DEF TokenStep, Counted
<1> QED BY <1>4, <1>5

\* A waiter taken off the list with an error gets nothing.
LEMMA ErrorStep ==
  ASSUME IInv, Pending, NEW w \in waiters, NEW e \in Err, e # "eok",
         UNCHANGED <<pc, value, owned, issued>>,
         waiters' = waiters \ {w}, k'.err = [k.err EXCEPT ![w] = e]
  PROVE  Pending' /\ TokenStep
<1> USE IInvFacts
<1>1. waiters \subseteq Thread /\ k.err \in [Thread -> Err]
  BY ListElements DEF waiters, KernelState
<1>2. \A u \in Thread : Granted(u)' <=> Granted(u)
  <2> SUFFICES ASSUME NEW u \in Thread PROVE Granted(u)' <=> Granted(u)
    OBVIOUS
  <2> QED BY <1>1 DEF Granted
<1>3. granted' = granted
  BY <1>2 DEF granted
<1>4. Pending'
  BY <1>1 DEF Pending
<1> QED BY <1>1, <1>3, <1>4 DEF TokenStep, GivesUp

\* rt_sem_control(RT_IPC_CMD_RESET) and the expiry of a thread timer.
LEMMA ErrorTokens ==
  ASSUME IInv, Pending, NEW t \in Thread,
         \/ ResetTurn(t)
         \/ TimerExpire(t)
         \/ \E v \in 0 .. MaxTokens : ResetEnd(t, v)
  PROVE  Pending' /\ TokenStep
<1> USE IInvFacts
<1>1. CASE ResetTurn(t)
  <2>1. PICK w : w = Head(k.wait[Sem])
    OBVIOUS
  <2> DEFINE k1 == [k EXCEPT !.err[w] = "error"]
             n  == rt_ipc_list_resume_all_turn(k, Sem)
  <2>2. /\ waiters # {} /\ k' = n
        /\ UNCHANGED <<value, pc, owned, issued>>
    BY <1>1 DEF ResetTurn
  <2>3. w \in waiters /\ w \in Thread
    BY <2>1, <2>2, FirstWaiter
  <2>4. WokenUp(k1, w, n) /\ ToSet(n.wait[Sem]) = waiters \ {w}
    BY <2>1, <2>2, ResumeFirst
  <2>5. k1.err = [k.err EXCEPT ![w] = "error"]
    BY <2>3, SetError DEF Err
  <2> HIDE DEF k1, n
  <2>6. waiters' = waiters \ {w} /\ k'.err = [k.err EXCEPT ![w] = "error"]
    BY <2>2, <2>4, <2>5 DEF WokenUp, waiters
  <2> QED BY <2>2, <2>3, <2>6, ErrorStep DEF Err
<1>2. CASE TimerExpire(t)
  <2> DEFINE k1 == [k EXCEPT !.err[t] = "etimeout"]
             m  == timed_out(k, t)
  <2>1. t \in k.timer /\ k' = rt_thread_timeout(k, t)
        /\ UNCHANGED <<value, pc, owned, issued>>
    BY <1>2 DEF TimerExpire
  <2>2. k.stat[t] = "suspend" /\ k' = rt_schedule(m) /\ WokenUp(k1, t, m)
    BY <2>1, TimeoutKeeps
  <2>3. k1.stat = k.stat /\ k1.wait = k.wait
        /\ k1.err = [k.err EXCEPT ![t] = "etimeout"]
    BY SetError DEF Err
  <2> HIDE DEF k1, m
  <2>4. /\ m \in KernelState /\ KInv(m) /\ m.stat[Idle] = "ready"
        /\ m.err = [k.err EXCEPT ![t] = "etimeout"]
        /\ ToSet(m.wait[Sem]) = waiters \ {t}
    BY <2>2, <2>3 DEF WokenUp, waiters
  <2>5. waiters' = waiters \ {t} /\ k'.err = [k.err EXCEPT ![t] = "etimeout"]
    BY <2>2, <2>4, AfterSchedule DEF SameThreads, waiters
  <2>6. t \in waiters
    BY <2>2 DEF IInv, NoThreadLost
  <2> QED BY <2>1, <2>5, <2>6, ErrorStep DEF Err
<1>3. ASSUME NEW v \in 0 .. MaxTokens, ResetEnd(t, v)
      PROVE  Pending' /\ TokenStep
  <2>1. /\ waiters = {} /\ issued + v - value <= MaxTokens
        /\ value' = v % ValueMod /\ issued' = issued + v - value
        /\ pc[t] = "reset" /\ pc' = [pc EXCEPT ![t] = "sched"]
        /\ UNCHANGED <<k, owned>>
    BY <1>3 DEF ResetEnd
  <2>2. waiters' = waiters
    BY <2>1 DEF waiters
  <2>3. Pending' /\ granted' = granted
    BY <2>1, <2>2, QuietThreads
  <2> QED BY <2>1, <2>2, <2>3 DEF TokenStep, ResetTo
<1> QED BY <1>1, <1>2, <1>3

\* Every step is one of these.
LEMMA NextTokens ==
  ASSUME IInv, Pending, [Next]_vars
  PROVE  Pending' /\ TokenStep
<1>1. ASSUME NEW t \in Thread, ThreadStep(t)
      PROVE  Pending' /\ TokenStep
  <2>1. CASE \/ \E new \in Thread : Startup(t, new)
             \/ TakeSchedule(t) \/ ResetBegin(t) \/ Schedule(t)
             \/ rt_enter_critical(t) \/ rt_exit_critical(t)
    BY <2>1, QuietTokens
  <2>2. CASE TakeAvailable(t)
    BY <2>2, TakeAvailableTokens
  <2>3. CASE \E timed \in BOOLEAN : TakeBlock(t, timed)
    BY <2>3, TakeBlockTokens
  <2>4. CASE TakeReturn(t)
    BY <2>4, TakeReturnTokens
  <2>5. CASE Release(t)
    BY <2>5, ReleaseTokens
  <2>6. CASE ResetTurn(t) \/ \E v \in 0 .. MaxTokens : ResetEnd(t, v)
    BY <2>6, ErrorTokens
  <2> QED BY <1>1, <2>1, <2>2, <2>3, <2>4, <2>5, <2>6 DEF ThreadStep
<1>2. Idle \in Thread
  BY KernelAssumption
<1>3. CASE Interrupt
  BY <1>2, <1>3, ReleaseTokens, ErrorTokens, QuietTokens DEF Interrupt
<1>4. CASE UNCHANGED vars
  BY <1>2, <1>4, QuietTokens
<1> QED BY <1>1, <1>3, <1>4 DEF Next

-----------------------------------------------------------------------------
(* Conservation.  The bound on the tokens in circulation keeps the 16-bit   *)
(* value from wrapping: a token that is put back was held, so the value     *)
(* before was smaller than the number issued.                               *)

Conserved == issued <= MaxTokens /\ TokenConservation

\* The sum and the number the conservation law speaks of.
LEMMA TokenSumsNow ==
  TokenConservation <=>
    issued = value + Total(owned, Thread) + Cardinality(granted)
BY DEF TokenConservation, Total, granted

LEMMA TokenSums ==
  /\ TokenConservation <=>
       issued = value + Total(owned, Thread) + Cardinality(granted)
  /\ TokenConservation' <=>
       issued' = value' + Total(owned', Thread) + Cardinality(granted')
<1>1. (TokenConservation <=>
         issued = value + Total(owned, Thread) + Cardinality(granted))'
  BY TokenSumsNow, PTL
<1> QED BY <1>1, TokenSumsNow

LEMMA TokenSumTypes ==
  ASSUME TypeOK
  PROVE  /\ Total(owned, Thread) \in Nat
         /\ \A t \in Thread : owned[t] <= Total(owned, Thread)
         /\ granted \subseteq Thread /\ IsFiniteSet(granted)
         /\ Cardinality(granted) \in Nat
         /\ value \in Nat /\ value < ValueMod
         /\ issued \in Int /\ owned \in [Thread -> Nat]
<1>1. IsFiniteSet(Thread) /\ owned \in [Thread -> Nat]
  BY KernelAssumption DEF TypeOK
<1>2. granted \subseteq Thread
  BY DEF granted
<1>3. IsFiniteSet(granted) /\ Cardinality(granted) \in Nat
  BY <1>1, <1>2, FS_Subset, FS_CardinalityType
<1>4. value \in Nat /\ value < ValueMod /\ issued \in Int
  BY SemaphoreAssumption DEF TypeOK
<1>5. Total(owned, Thread) \in Nat /\ \A t \in Thread : owned[t] <= Total(owned, Thread)
  BY <1>1, TotalBounds
<1> QED BY <1>1, <1>2, <1>3, <1>4, <1>5

\* What putting back does to the sums, and why the value can be counted up.
LEMMA PutBackSums ==
  ASSUME TypeOK, TypeOK', Conserved, NEW t \in Thread, PutBack(t)
  PROVE  /\ issued' = issued + Total(owned', Thread) + 1 - Total(owned, Thread)
         /\ issued' <= MaxTokens
         /\ value + 1 <= MaxTokens
<1>1. /\ Total(owned, Thread) \in Nat /\ Cardinality(granted) \in Nat
      /\ value \in Nat /\ issued \in Int /\ owned \in [Thread -> Nat]
      /\ owned[t] <= Total(owned, Thread)
  BY TokenSumTypes
<1>2. /\ issued = value + Total(owned, Thread) + Cardinality(granted)
      /\ issued <= MaxTokens /\ MaxTokens \in Nat
  BY TokenSums, SemaphoreAssumption DEF Conserved
<1>3. CASE owned[t] > 0 /\ owned' = [owned EXCEPT ![t] = @ - 1]
           /\ issued' = issued
  <2>1. owned' \in [Thread -> Nat] /\ IsFiniteSet(Thread)
    BY KernelAssumption DEF TypeOK
  <2>2. owned'[t] = owned[t] - 1 /\ \A u \in Thread : u # t => owned'[u] = owned[u]
    BY <1>1, <1>3
  <2>3. Total(owned', Thread) = Total(owned, Thread) - owned[t] + owned'[t]
    BY <1>1, <2>1, <2>2, TotalChange
  <2>4. owned[t] \in Nat /\ owned[t] > 0 /\ issued' = issued
    BY <1>1, <1>3
  <2> QED BY ONLY <1>1, <1>2, <2>2, <2>3, <2>4
<1>4. CASE issued < MaxTokens /\ issued' = issued + 1 /\ owned' = owned
  <2>1. Total(owned', Thread) = Total(owned, Thread)
    BY <1>4
  <2> QED BY ONLY <1>1, <1>2, <1>4, <2>1
<1> QED BY <1>3, <1>4 DEF PutBack

\* Taking a token, or learning that one was granted.
LEMMA OwnedMore ==
  ASSUME TypeOK, TypeOK', NEW t \in Thread, owned' = [owned EXCEPT ![t] = @ + 1]
  PROVE  Total(owned', Thread) = Total(owned, Thread) + 1
<1>1. owned \in [Thread -> Nat] /\ owned' \in [Thread -> Nat]
      /\ IsFiniteSet(Thread) /\ Total(owned, Thread) \in Nat
  BY KernelAssumption, TokenSumTypes DEF TypeOK
<1>2. owned'[t] = owned[t] + 1 /\ \A u \in Thread : u # t => owned'[u] = owned[u]
  BY <1>1
<1>3. Total(owned', Thread) = Total(owned, Thread) - owned[t] + owned'[t]
  BY ONLY <1>1, <1>2, TotalChange, t \in Thread
<1>4. owned[t] \in Nat
  BY <1>1
<1> QED BY ONLY <1>1, <1>2, <1>3, <1>4

\* No kind of step makes or loses a token.
LEMMA TokensConserved ==
  ASSUME TypeOK, TypeOK', Conserved, TokenStep
  PROVE  Conserved'
<1> DEFINE O == Total(owned, Thread)
           G == Cardinality(granted)
           P == Total(owned', Thread)
           H == Cardinality(granted')
<1>1. /\ O \in Nat /\ G \in Nat /\ value \in Nat /\ value < ValueMod
      /\ issued \in Int /\ IsFiniteSet(granted) /\ granted \subseteq Thread
  BY TokenSumTypes
<1>2. /\ issued = value + O + G /\ issued <= MaxTokens
      /\ MaxTokens \in Nat /\ ValueMod \in Nat /\ MaxTokens < ValueMod
  BY TokenSums, SemaphoreAssumption DEF Conserved
<1>3. SUFFICES issued' = value' + P + H /\ issued' <= MaxTokens
  BY TokenSums, SemaphoreAssumption DEF Conserved
<1>4. granted' = granted => H = G
  OBVIOUS
<1>5. owned' = owned => P = O
  OBVIOUS
<1>6. ASSUME NEW t \in Thread, PutBack(t)
      PROVE  issued' = issued + P + 1 - O /\ issued' <= MaxTokens
             /\ value + 1 <= MaxTokens
  BY <1>6, PutBackSums
<1>7. ASSUME NEW t \in Thread, owned' = [owned EXCEPT ![t] = @ + 1]
      PROVE  P = O + 1
  BY <1>7, OwnedMore
<1>8. P \in Nat /\ issued' \in Int
  BY TokenSumTypes, KernelAssumption, TotalBounds, SemaphoreAssumption DEF TypeOK
<1>9. ASSUME NEW t \in granted
      PROVE  Cardinality(granted \ {t}) = G - 1
  BY <1>1, FS_RemoveElement
<1>10. ASSUME NEW w, w \notin granted
       PROVE  Cardinality(granted \cup {w}) = G + 1
  BY <1>1, <1>10, FS_AddElement
<1> HIDE DEF O, G, P, H
<1>11. CASE Quiet
  BY <1>2, <1>4, <1>5, <1>11 DEF Quiet
<1>12. ASSUME NEW t \in Thread, Taken(t)
       PROVE  issued' = value' + P + H /\ issued' <= MaxTokens
  <2>1. P = O + 1 /\ H = G /\ value' = value - 1 /\ issued' = issued
    BY <1>4, <1>7, <1>12 DEF Taken
  <2> QED BY ONLY <1>1, <1>2, <2>1
<1>13. ASSUME NEW t \in Thread, Waits(t) \/ GivesUp(t)
       PROVE  issued' = value' + P + H /\ issued' <= MaxTokens
  BY <1>2, <1>4, <1>5, <1>13 DEF Waits, GivesUp
<1>14. ASSUME NEW t \in Thread, Collects(t)
       PROVE  issued' = value' + P + H /\ issued' <= MaxTokens
  <2>1. P = O + 1 /\ value' = value /\ issued' = issued
    BY <1>7, <1>14 DEF Collects
  <2>2. H = G - 1
    BY <1>9, <1>14 DEF Collects, H
  <2> QED BY ONLY <1>1, <1>2, <2>1, <2>2
<1>15. ASSUME NEW t \in Thread, Counted(t)
       PROVE  issued' = value' + P + H /\ issued' <= MaxTokens
  <2>1. /\ issued' = issued + P + 1 - O /\ issued' <= MaxTokens
        /\ value + 1 <= MaxTokens
    BY <1>6, <1>15 DEF Counted
  <2>2. value' = (value + 1) % ValueMod /\ H = G
    BY <1>4, <1>15 DEF Counted
  <2>3. value' = value + 1
    <3>1. value + 1 \in Nat /\ value + 1 < ValueMod /\ ValueMod \in Nat
      BY ONLY <1>1, <1>2, <2>1
    <3>2. (value + 1) % ValueMod = value + 1
      BY ONLY <3>1
    <3> QED BY <2>2, <3>2
  <2>4. issued' = P + value + G + 1
    <3>1. issued' = issued + P + 1 - O /\ issued = value + O + G
      BY <1>2, <2>1
    <3>2. /\ O \in Int /\ G \in Int /\ value \in Int /\ P \in Int
          /\ issued \in Int /\ issued' \in Int
      BY <1>1, <1>8
    <3> QED BY ONLY <3>1, <3>2
  <2>5. value' + P + H = P + value + G + 1
    BY ONLY <1>1, <1>8, <2>2, <2>3
  <2> QED BY <2>1, <2>4, <2>5
<1>16. ASSUME NEW t \in Thread, NEW w \in Thread, HandedOver(t, w)
       PROVE  issued' = value' + P + H /\ issued' <= MaxTokens
  <2>1. issued' = issued + P + 1 - O /\ issued' <= MaxTokens
    BY <1>6, <1>16 DEF HandedOver
  <2>2. w \notin granted
    BY <1>16 DEF HandedOver, granted, Granted
  <2>3. H = G + 1 /\ value' = value
    BY <1>10, <1>16, <2>2 DEF HandedOver, H
  <2>4. issued' = P + value + G + 1
    <3>1. issued' = issued + P + 1 - O /\ issued = value + O + G
      BY <1>2, <2>1
    <3>2. /\ O \in Int /\ G \in Int /\ value \in Int /\ P \in Int
          /\ issued \in Int /\ issued' \in Int
      BY <1>1, <1>8
    <3> QED BY ONLY <3>1, <3>2
  <2>5. value' + P + H = P + value + G + 1
    BY ONLY <1>1, <1>8, <2>3
  <2> QED BY <2>1, <2>4, <2>5
<1>17. ASSUME NEW v \in 0 .. MaxTokens, ResetTo(v)
       PROVE  issued' = value' + P + H /\ issued' <= MaxTokens
  <2>1. /\ value' = v % ValueMod /\ issued' = issued + v - value
        /\ issued' <= MaxTokens /\ P = O /\ H = G
    BY <1>4, <1>5, <1>17 DEF ResetTo
  <2>2. v \in Nat /\ v < ValueMod
    BY <1>2
  <2>3. value' = v
    <3>1. v % ValueMod = v
      BY ONLY <1>2, <2>2
    <3> QED BY <2>1, <3>1
  <2> QED BY ONLY <1>1, <1>2, <2>1, <2>2, <2>3
<1> QED BY <1>11, <1>12, <1>13, <1>14, <1>15, <1>16, <1>17 DEF TokenStep

LEMMA InitTokens == Init => Pending /\ Conserved
<1> SUFFICES ASSUME Init PROVE Pending /\ Conserved
  OBVIOUS
<1>1. \A q \in Queue : ToSet(k.wait[q]) = {}
  BY SemaphoreAssumption, StartedKernel DEF Init
<1>2. Pending
  BY <1>1, SemaphoreAssumption DEF Pending, waiters
<1>3. granted = {}
  BY DEF Init, granted, Granted
<1>4. Cardinality(granted) = 0
  BY <1>3, FS_EmptySet
<1>5. Total(owned, Thread) = 0
  <2>1. owned \in [Thread -> Nat] /\ \A t \in Thread : owned[t] = 0
    BY DEF Init
  <2> QED BY <2>1, TotalZero, KernelAssumption
<1>6. issued = value /\ value \in Int /\ issued <= MaxTokens
  BY SemaphoreAssumption DEF Init
<1> QED BY <1>2, <1>4, <1>5, <1>6, TokenSums DEF Conserved

\* The invariant that follows the tokens.
LEMMA SemaphoreTokens == Spec => [](IInv /\ Pending /\ Conserved)
<1>1. Init => IInv /\ Pending /\ Conserved
  BY InitIInv, InitTokens
<1>2. IInv /\ Pending /\ Conserved /\ [Next]_vars
        => (IInv /\ Pending /\ Conserved)'
  <2> SUFFICES ASSUME IInv, Pending, Conserved, [Next]_vars
               PROVE  IInv' /\ Pending' /\ Conserved'
    OBVIOUS
  <2>1. IInv'
    BY NextIInv
  <2>2. Pending' /\ TokenStep
    BY NextTokens
  <2>3. TypeOK /\ TypeOK'
    BY <2>1 DEF IInv
  <2> QED BY <2>1, <2>2, <2>3, TokensConserved
<1> QED BY <1>1, <1>2, PTL DEF Spec

\* No interleaving of takes, releases, resets, interrupts and timeouts loses or
\* makes a token: what was issued is counted, owned or granted (rt_sem_take,
\* rt_sem_release, rt_sem_control, rt_thread_timeout).
THEOREM SemaphoreTokenConservation == Spec => []TokenConservation
<1>1. Conserved => TokenConservation
  BY DEF Conserved
<1> QED BY <1>1, SemaphoreTokens, PTL

-----------------------------------------------------------------------------
(* Refinement.  The token a thread was granted counts as held by it from   *)
(* the release on; every kind of step is then a step of the abstract       *)
(* semaphore, or invisible to it.                                          *)

held == [t \in Thread |-> owned[t] + IF Granted(t) THEN 1 ELSE 0]

\* A token is given when the holdings are h without it.
Given(h) ==
  \/ waiters = {} /\ value' = value + 1 /\ held' = h /\ UNCHANGED waiters
  \/ \E w \in waiters : /\ waiters' = waiters \ {w}
                        /\ held' = [h EXCEPT ![w] = @ + 1] /\ UNCHANGED value

\* The actions of the abstract semaphore, in the state of this one.
LEMMA AbstractActions ==
  /\ \A c : /\ Abstract!Take(c) <=>
                 /\ value > 0 /\ value' = value - 1
                 /\ held' = [held EXCEPT ![c] = @ + 1] /\ UNCHANGED waiters
            /\ Abstract!Wait(c) <=>
                 /\ value = 0 /\ waiters' = waiters \cup {c}
                 /\ UNCHANGED <<value, held>>
            /\ Abstract!GiveUp(c) <=>
                 /\ c \in waiters /\ waiters' = waiters \ {c}
                 /\ UNCHANGED <<value, held>>
            /\ Abstract!GiveBack(c) <=>
                 held[c] > 0 /\ Given([held EXCEPT ![c] = @ - 1])
  /\ Abstract!Give(held) <=> Given(held)
  /\ Abstract!Reset <=>
       waiters = {} /\ value' \in Nat /\ UNCHANGED <<held, waiters>>
  /\ Abstract!AbsNext <=>
       \/ \E c \in Thread : \/ Abstract!Take(c) \/ Abstract!Wait(c)
                            \/ Abstract!GiveUp(c) \/ Abstract!GiveBack(c)
       \/ Abstract!Give(held)
       \/ Abstract!Reset
  /\ UNCHANGED <<value, held, waiters>> => UNCHANGED Abstract!absVars
BY DEF held, Given, Abstract!Take, Abstract!Wait, Abstract!GiveUp, Abstract!GiveBack,
       Abstract!Give, Abstract!Reset, Abstract!AbsNext, Abstract!absVars

\* Elements of held, now and after the step.
LEMMA HeldElements ==
  /\ held = [t \in Thread |-> owned[t] + IF t \in granted THEN 1 ELSE 0]
  /\ held' = [t \in Thread |-> owned'[t] + IF t \in granted' THEN 1 ELSE 0]
BY DEF held, granted

\* Every kind of step is one of the abstract semaphore.
LEMMA AbstractStep ==
  ASSUME TypeOK, TypeOK', Conserved, TokenStep
  PROVE  Abstract!AbsNext \/ UNCHANGED Abstract!absVars
<1>1. /\ owned \in [Thread -> Nat] /\ owned' \in [Thread -> Nat]
      /\ value \in Nat /\ value < ValueMod /\ granted \subseteq Thread
      /\ MaxTokens \in Nat /\ ValueMod \in Nat /\ MaxTokens < ValueMod
  BY TokenSumTypes, SemaphoreAssumption DEF TypeOK
<1>2. /\ \A t \in Thread : held[t] = owned[t] + IF t \in granted THEN 1 ELSE 0
      /\ \A t \in Thread : held'[t] = owned'[t] + IF t \in granted' THEN 1 ELSE 0
      /\ held \in [Thread -> Nat] /\ DOMAIN held' = Thread
  BY <1>1, HeldElements
<1>3. held' = [t \in Thread |-> held'[t]]
  BY HeldElements
<1>4. owned' = owned /\ granted' = granted => held' = held
  BY HeldElements
<1>5. CASE Quiet
  BY <1>4, <1>5, AbstractActions DEF Quiet
<1>6. ASSUME NEW t \in Thread, Taken(t)
      PROVE  Abstract!AbsNext
  <2>1. \A u \in Thread : held'[u] = [held EXCEPT ![t] = @ + 1][u]
    <3> SUFFICES ASSUME NEW u \in Thread
                 PROVE held'[u] = [held EXCEPT ![t] = @ + 1][u]
      OBVIOUS
    <3>1. granted' = granted /\ owned' = [owned EXCEPT ![t] = @ + 1]
      BY <1>6 DEF Taken
    <3> QED BY <1>1, <1>2, <3>1
  <2>2. held' = [held EXCEPT ![t] = @ + 1]
    BY <1>2, <1>3, <2>1
  <2> QED BY <1>6, <2>2, AbstractActions DEF Taken
<1>7. ASSUME NEW t \in Thread, Waits(t) \/ GivesUp(t)
      PROVE  Abstract!AbsNext
  BY <1>4, <1>7, AbstractActions DEF Waits, GivesUp
<1>8. ASSUME NEW t \in Thread, Collects(t)
      PROVE  UNCHANGED Abstract!absVars
  <2>1. \A u \in Thread : held'[u] = held[u]
    <3> SUFFICES ASSUME NEW u \in Thread PROVE held'[u] = held[u]
      OBVIOUS
    <3>1. /\ t \in granted /\ granted' = granted \ {t}
          /\ owned' = [owned EXCEPT ![t] = @ + 1]
      BY <1>8 DEF Collects
    <3> QED BY <1>1, <1>2, <3>1
  <2>2. held' = held
    BY <1>2, <1>3, <2>1
  <2> QED BY <1>8, <2>2, AbstractActions DEF Collects
<1>9. ASSUME NEW t \in Thread, PutBack(t)
      PROVE  \/ owned[t] > 0 /\ held[t] > 0
                /\ owned' = [owned EXCEPT ![t] = @ - 1]
             \/ owned' = owned
  BY <1>1, <1>2, <1>9 DEF PutBack
<1>10. ASSUME NEW t \in Thread, Counted(t)
       PROVE  Abstract!AbsNext
  <2>1. /\ PutBack(t) /\ waiters = {} /\ value' = (value + 1) % ValueMod
        /\ UNCHANGED <<waiters, granted>>
    BY <1>10 DEF Counted
  <2>2. value' = value + 1
    <3>1. value + 1 <= MaxTokens
      BY <2>1, PutBackSums
    <3>2. (value + 1) % ValueMod = value + 1
      BY ONLY <1>1, <3>1
    <3> QED BY <2>1, <3>2
  <2>3. CASE owned[t] > 0 /\ held[t] > 0 /\ owned' = [owned EXCEPT ![t] = @ - 1]
    <3>1. \A u \in Thread : held'[u] = [held EXCEPT ![t] = @ - 1][u]
      <4> SUFFICES ASSUME NEW u \in Thread
                   PROVE held'[u] = [held EXCEPT ![t] = @ - 1][u]
        OBVIOUS
      <4> QED BY <1>1, <1>2, <2>1, <2>3
    <3>2. held' = [held EXCEPT ![t] = @ - 1]
      BY <1>2, <1>3, <3>1
    <3>3. Given([held EXCEPT ![t] = @ - 1])
      BY <2>1, <2>2, <3>2 DEF Given
    <3> QED BY <2>3, <3>3, AbstractActions
  <2>4. CASE owned' = owned
    <3>1. Given(held)
      BY <1>4, <2>1, <2>2, <2>4 DEF Given
    <3> QED BY <3>1, AbstractActions
  <2> QED BY <1>9, <2>1, <2>3, <2>4
<1>11. ASSUME NEW t \in Thread, NEW w \in Thread, HandedOver(t, w)
       PROVE  Abstract!AbsNext
  <2>1. /\ PutBack(t) /\ w \in waiters /\ waiters' = waiters \ {w}
        /\ granted' = granted \cup {w} /\ UNCHANGED value
    BY <1>11 DEF HandedOver
  <2>2. w \notin granted
    BY <2>1 DEF granted, Granted
  <2>3. CASE owned[t] > 0 /\ held[t] > 0 /\ owned' = [owned EXCEPT ![t] = @ - 1]
    <3> DEFINE h == [held EXCEPT ![t] = @ - 1]
    <3>1. \A u \in Thread : held'[u] = [h EXCEPT ![w] = @ + 1][u]
      <4> SUFFICES ASSUME NEW u \in Thread
                   PROVE held'[u] = [h EXCEPT ![w] = @ + 1][u]
        OBVIOUS
      <4>1. h[u] = IF u = t THEN held[u] - 1 ELSE held[u]
        BY <1>2
      <4>2. [h EXCEPT ![w] = @ + 1][u] = IF u = w THEN h[u] + 1 ELSE h[u]
        BY <1>2
      <4> HIDE DEF h
      <4> QED BY <1>1, <1>2, <2>1, <2>2, <2>3, <4>1, <4>2
    <3>2. held' = [h EXCEPT ![w] = @ + 1]
      BY <1>2, <1>3, <3>1
    <3>3. Given([held EXCEPT ![t] = @ - 1])
      BY <2>1, <3>2 DEF Given
    <3> QED BY <2>3, <3>3, AbstractActions
  <2>4. CASE owned' = owned
    <3>1. \A u \in Thread : held'[u] = [held EXCEPT ![w] = @ + 1][u]
      <4> SUFFICES ASSUME NEW u \in Thread
                   PROVE held'[u] = [held EXCEPT ![w] = @ + 1][u]
        OBVIOUS
      <4> QED BY <1>1, <1>2, <2>1, <2>2, <2>4
    <3>2. held' = [held EXCEPT ![w] = @ + 1]
      BY <1>2, <1>3, <3>1
    <3>3. Given(held)
      BY <2>1, <3>2 DEF Given
    <3> QED BY <3>3, AbstractActions
  <2> QED BY <1>9, <2>1, <2>3, <2>4
<1>12. ASSUME NEW v \in 0 .. MaxTokens, ResetTo(v)
       PROVE  Abstract!AbsNext
  <2>1. value' \in Nat
    BY <1>1 , SemaphoreAssumption DEF TypeOK
  <2> QED BY <1>4, <1>12, <2>1, AbstractActions DEF ResetTo
<1> QED BY <1>5, <1>6, <1>7, <1>8, <1>10, <1>11, <1>12 DEF TokenStep

\* The initial state is one of the abstract semaphore.
LEMMA AbstractInit == Init => Abstract!AbsInit
<1> SUFFICES ASSUME Init PROVE Abstract!AbsInit
  OBVIOUS
<1>1. waiters = {}
  BY SemaphoreAssumption, StartedKernel DEF Init, waiters
<1>2. \A t \in Thread : owned[t] = 0 /\ ~Granted(t)
  BY DEF Init, Granted
<1>3. value = SemValue
  BY DEF Init
<1> QED BY <1>1, <1>2, <1>3 DEF Abstract!AbsInit

\* The semaphore of ipc.c implements the abstract one: rt_sem_take hands out a
\* token that is available or the one a release gave to this waiter, a waiter
\* that times out or is reset gets none, and every other step of the kernel is
\* invisible.
THEOREM SemaphoreRefinement == Spec => ImplementsSemaphore
<1>1. Init => Abstract!AbsInit
  BY AbstractInit
<1>2. IInv /\ Pending /\ Conserved /\ [Next]_vars
        /\ (IInv /\ Pending /\ Conserved)'
        => [Abstract!AbsNext]_(Abstract!absVars)
  <2> SUFFICES ASSUME IInv, Pending, Conserved, [Next]_vars, IInv'
               PROVE  Abstract!AbsNext \/ UNCHANGED Abstract!absVars
    OBVIOUS
  <2>1. TokenStep
    BY NextTokens
  <2>2. TypeOK /\ TypeOK'
    BY DEF IInv
  <2> QED BY <2>1, <2>2, AbstractStep
<1> QED BY <1>1, <1>2, SemaphoreTokens, PTL
        DEF Spec, ImplementsSemaphore, Abstract!AbsSpec

-----------------------------------------------------------------------------
(* Signals next to the semaphore.                                          *)

KillPC  == {"kill_walk", "kill_alloc", "kill_link", "kill_test", "kill_deliver"}
SleepPC == {"take_sched", "take_ret", "sw_sched", "sw_woken"}

\* Who runs and who sleeps: a suspended thread is inside rt_sem_take or
\* rt_signal_wait, the running thread is ready except between its suspension
\* and the rt_schedule() that follows.
SigRuns ==
  /\ k \in KernelState /\ KInv(k) /\ k.stat[Idle] = "ready" /\ k.nest = 0
  /\ pc \in [Thread -> SigPC]
  /\ \A t \in Thread : k.stat[t] = "suspend" => pc[t] \in SleepPC
  /\ k.stat[k.cur] = "ready" \/ pc[k.cur] \in {"take_sched", "sw_sched"}

LEMMA SigRunsFacts ==
  ASSUME SigRuns
  PROVE  /\ k.cur \in Thread /\ Idle \in Thread /\ Sem \in Queue
         /\ k.stat \in [Thread -> Stat] /\ k.wait \in [Queue -> Seq(Thread)]
BY KernelAssumption, SemaphoreAssumption DEF SigRuns, KernelState

\* A step that ends with rt_schedule() in a consistent kernel state m.
LEMMA SigSchedules ==
  ASSUME NEW m \in KernelState, KInv(m), m.stat[Idle] = "ready", m.nest = 0,
         k' = rt_schedule(m), pc' \in [Thread -> SigPC],
         \A t \in Thread : m.stat[t] = "suspend" => pc'[t] \in SleepPC
  PROVE  SigRuns'
<1>1. /\ k' \in KernelState /\ KInv(k') /\ SameThreads(m, k') /\ Settled(k')
  BY AfterSchedule
<1> QED BY <1>1 DEF SigRuns, SameThreads, Settled

\* A step that leaves the running thread where it is.
LEMMA SigStays ==
  ASSUME SigRuns, k' \in KernelState, KInv(k'), k'.stat = k.stat, k'.cur = k.cur,
         k'.nest = k.nest, pc' \in [Thread -> SigPC],
         \/ pc' = pc
         \/ \E p : pc' = [pc EXCEPT ![k.cur] = p] /\ pc[k.cur] \notin {"take_sched", "sw_sched"}
  PROVE  SigRuns'
<1>1. CASE pc' = pc
  BY <1>1 DEF SigRuns
<1>2. CASE \E p : pc' = [pc EXCEPT ![k.cur] = p] /\ pc[k.cur] \notin {"take_sched", "sw_sched"}
  <2>1. k.stat[k.cur] = "ready" /\ \A t \in Thread \ {k.cur} : pc'[t] = pc[t]
    BY <1>2, SigRunsFacts DEF SigRuns
  <2> QED BY <2>1 DEF SigRuns
<1> QED BY <1>1, <1>2

\* Interrupt handlers that release the semaphore, and the tick.
LEMMA SigInterruptRuns ==
  ASSUME SigRuns, Interrupt
  PROVE  SigRuns'
<1> USE SigRunsFacts
<1>1. CASE IsrRelease
  <2>1. pc' = pc
    BY <1>1 DEF IsrRelease
  <2>2. CASE waiters # {}
    <3> DEFINE w == Head(k.wait[Sem])
               m == rt_ipc_list_resume(k, Sem)
    <3>1. w \in waiters /\ w \in Thread /\ k.stat[w] = "suspend"
      <4>1. w \in waiters /\ w \in Thread
        BY <2>2, HeadInList DEF waiters
      <4> QED BY <4>1 DEF SigRuns, KInv, WaitLists, waiters
    <3>2. WokenUp(k, w, m)
      BY <3>1, ResumeKeeps DEF rt_ipc_list_resume, SigRuns
    <3> HIDE DEF w, m
    <3>3. /\ m \in KernelState /\ KInv(m) /\ m.stat[Idle] = "ready" /\ m.nest = 0
          /\ m.stat = [k.stat EXCEPT ![w] = "ready"]
      BY <3>1, <3>2 DEF WokenUp, SigRuns
    <3>4. k' = rt_schedule(m)
      BY <1>1, <2>2 DEF IsrRelease, rt_sem_release, m
    <3>5. \A t \in Thread : m.stat[t] = "suspend" => pc'[t] \in SleepPC
      BY <2>1, <3>1, <3>3 DEF SigRuns
    <3> QED BY <2>1, <3>3, <3>4, <3>5, SigSchedules DEF SigRuns
  <2>3. CASE waiters = {}
    <3>1. k' = k
      BY <1>1, <2>3 DEF IsrRelease, rt_sem_release
    <3> QED BY <2>1, <3>1 DEF SigRuns
  <2> QED BY <2>2, <2>3
<1>2. ASSUME NEW t \in Thread, TimerExpire(t)
      PROVE  SigRuns'
  <2> DEFINE m == timed_out(k, t)
             k1 == [k EXCEPT !.err[t] = "etimeout"]
  <2>1. t \in k.timer /\ k' = rt_thread_timeout(k, t) /\ pc' = pc
    BY <1>2 DEF TimerExpire
  <2>2. k' = rt_schedule(m) /\ WokenUp(k1, t, m)
    BY <2>1, TimeoutKeeps DEF SigRuns
  <2>3. k1.stat = k.stat /\ k1.nest = k.nest
    OBVIOUS
  <2> HIDE DEF m, k1
  <2>4. /\ m \in KernelState /\ KInv(m) /\ m.stat[Idle] = "ready" /\ m.nest = 0
        /\ m.stat = [k.stat EXCEPT ![t] = "ready"]
    BY <2>2, <2>3 DEF WokenUp, SigRuns
  <2>5. \A u \in Thread : m.stat[u] = "suspend" => pc'[u] \in SleepPC
    BY <2>1, <2>4 DEF SigRuns
  <2> QED BY <2>1, <2>2, <2>4, <2>5, SigSchedules DEF SigRuns
<1>3. CASE TickYield
  <2>1. k' = rt_schedule(k) /\ pc' = pc
    BY <1>3 DEF TickYield
  <2> QED BY <2>1, SigSchedules DEF SigRuns
<1> QED BY <1>1, <1>2, <1>3 DEF Interrupt

\* A step at the end of which the running thread schedules.
LEMMA SigScheduleRuns ==
  ASSUME SigRuns, NEW t, t = k.cur, k' = rt_schedule(k), NEW p, pc' = [pc EXCEPT ![t] = p],
         \/ pc[t] \in {"sched", "kill_walk"} /\ p \in SigPC
         \/ pc[t] \in SleepPC /\ p \in SleepPC
  PROVE  SigRuns'
<1> USE SigRunsFacts
<1>1. pc' \in [Thread -> SigPC]
  BY DEF SigRuns, SigPC, SleepPC, PC
<1>2. \A u \in Thread : k.stat[u] = "suspend" => pc'[u] \in SleepPC
  BY DEF SigRuns, SleepPC
<1> QED BY <1>1, <1>2, SigSchedules DEF SigRuns

\* What the threads do with the semaphore.
LEMMA SigTakeRuns ==
  ASSUME SigRuns, TakeStep(k.cur)
  PROVE  SigRuns'
<1> DEFINE t == k.cur
<1> USE SigRunsFacts
<1>1. CASE TakeAvailable(t)
  <2>1. k' = k /\ pc' = pc
    BY <1>1 DEF TakeAvailable
  <2> QED BY <2>1 DEF SigRuns
<1>2. CASE TakeBlock(t, TRUE)
  <2> DEFINE k0 == [k EXCEPT !.err[t] = "eok"]
             k1 == rt_ipc_list_suspend(k0, Sem, t, SemFlag)
  <2>1. k' = rt_timer_start(k1, t) /\ pc' = [pc EXCEPT ![t] = "take_sched"]
        /\ t # Idle /\ pc[t] = "run"
    BY <1>2 DEF TakeBlock
  <2>2. k0 \in KernelState /\ KInv(k0) /\ k0.stat = k.stat
        /\ k0.cur = t /\ k0.nest = 0
    BY SetError, ZenonT(30) DEF Err, SigRuns
  <2>3. k0.stat[k0.cur] = "ready"
    BY <2>1, <2>2 DEF SigRuns
  <2> HIDE DEF k0
  <2>4. Blocked(k0, Sem, k1)
    BY <2>2, <2>3, IpcSuspendKeeps
  <2> HIDE DEF k1
  <2>5. /\ k1 \in KernelState /\ KInv(k1) /\ k1.cur = t /\ k1.nest = 0
        /\ k1.stat = [k.stat EXCEPT ![t] = "suspend"] /\ k1.stat[t] = "suspend"
    BY <2>2, <2>4 DEF Blocked
  <2>6. /\ k' \in KernelState /\ KInv(k') /\ k'.cur = t /\ k'.nest = 0
        /\ k'.stat = [k.stat EXCEPT ![t] = "suspend"]
    BY <2>1, <2>5, StartTimer
  <2> QED BY <2>1, <2>6 DEF SigRuns, SigPC, PC, SleepPC
<1>3. CASE TakeReturn(t)
  <2>1. k' = k /\ pc' = [pc EXCEPT ![t] = "run"] /\ pc[t] = "take_ret"
    BY <1>3 DEF TakeReturn
  <2>2. pc' \in [Thread -> SigPC]
    BY <2>1 DEF SigRuns, SigPC, PC
  <2> QED BY <2>1, <2>2, SigStays DEF SigRuns
<1>4. ASSUME NEW new \in Thread, Startup(t, new)
      PROVE  SigRuns'
  <2> DEFINE r == rt_thread_startup(k, new, InitPrio[new])
  <2>1. /\ k.stat[new] = "init" /\ k' = r /\ pc[t] = "run"
        /\ pc' = [pc EXCEPT ![t] = "sched"] /\ InitPrio[new] \in Prio
    BY <1>4, SemaphoreAssumption DEF Startup
  <2>2. /\ r \in KernelState /\ KInv(r) /\ r.cur = t /\ r.nest = k.nest
        /\ r.stat = [k.stat EXCEPT ![new] = "ready"]
    <3>1. k \in KernelState /\ KInv(k) /\ k.stat[new] = "init" /\ InitPrio[new] \in Prio
      BY <2>1 DEF SigRuns
    <3>9. Started(k, new, InitPrio[new], r)
      BY ONLY <3>1, StartupStarts, new \in Thread
    <3> QED BY ONLY <3>9 DEF Started
  <2> HIDE DEF r
  <2>3. k.stat[t] = "ready"
    BY <2>1 DEF SigRuns
  <2> QED BY <2>1, <2>2, <2>3 DEF SigRuns, SigPC, PC, SleepPC
<1>5. CASE TakeSchedule(t)
  <2>1. k' = rt_schedule(k) /\ pc' = [pc EXCEPT ![t] = "take_ret"] /\ pc[t] = "take_sched"
    BY <1>5 DEF TakeSchedule
  <2> HIDE DEF t
  <2>2. t = k.cur
    BY DEF t
  <2> QED BY <2>1, <2>2, SigScheduleRuns DEF SleepPC
<1>6. CASE Schedule(t)
  <2>1. k' = rt_schedule(k) /\ pc' = [pc EXCEPT ![t] = "run"] /\ pc[t] = "sched"
    BY <1>6 DEF Schedule
  <2>2. "run" \in SigPC
    BY DEF SigPC, PC
  <2> HIDE DEF t
  <2>3. t = k.cur
    BY DEF t
  <2> QED BY <2>1, <2>2, <2>3, SigScheduleRuns
<1> QED BY <1>1, <1>2, <1>3, <1>4, <1>5, <1>6 DEF TakeStep

\* What they do with signals.
LEMMA SigStepRuns ==
  ASSUME SigRuns, \A c \in Thread : kill[c].to \in Thread, SigStep(k.cur)
  PROVE  SigRuns'
<1> DEFINE t == k.cur
<1> USE SigRunsFacts
<1>1. CASE HandleBegin(t) \/ EntryReturn(t)
           \/ (\E s \in Sig : Mask(t, s))
           \/ \E ss \in SUBSET Sig \ {{}} : SigWaitNow(t, ss)
  <2>1. k' = k /\ pc' = pc
    BY <1>1 DEF HandleBegin, EntryReturn, Mask, SigWaitNow
  <2> QED BY <2>1 DEF SigRuns
<1>2. CASE HandleEnd(t)
  <2>1. k' = [k EXCEPT !.err[t] = "eintr"] /\ pc' = pc
    BY <1>2 DEF HandleEnd
  <2>2. /\ k' \in KernelState /\ KInv(k') /\ k'.stat = k.stat /\ k'.cur = k.cur
        /\ k'.nest = k.nest
    BY <2>1, SetError, ZenonT(30) DEF Err, SigRuns
  <2> QED BY <2>1, <2>2, SigStays DEF SigRuns
<1>3. CASE \/ \E to \in Receiver, s \in Sig : Kill(t, to, s)
           \/ KillLink(t) \/ DeliverTest(t) \/ DeliverSelf(t) \/ DeliverReady(t)
           \/ \E s \in Sig : Unmask(t, s)
  <2>1. /\ k' = k /\ pc[t] \in {"run", "kill_link", "kill_test", "kill_deliver"}
        /\ \E p \in SigPC : pc' = [pc EXCEPT ![t] = p]
    BY <1>3 DEF Kill, KillLink, DeliverTest, DeliverSelf, DeliverReady, Unmask,
                Delivered, At, Go, SigPC, PC
  <2>2. pc' \in [Thread -> SigPC]
    BY <2>1 DEF SigRuns
  <2> QED BY <2>1, <2>2, SigStays DEF SigRuns
<1>4. CASE KillAlloc(t)
  <2>1. /\ k' = k \/ k' = [k EXCEPT !.err[t] = "etimeout"]
        /\ pc[t] = "kill_alloc"
        /\ \E p \in SigPC : pc' = [pc EXCEPT ![t] = p]
    BY <1>4 DEF KillAlloc, At, Go, SigPC
  <2>2. /\ k' \in KernelState /\ KInv(k') /\ k'.stat = k.stat /\ k'.cur = k.cur
        /\ k'.nest = k.nest
    <3>1. CASE k' = k
      BY <3>1 DEF SigRuns
    <3>2. CASE k' = [k EXCEPT !.err[t] = "etimeout"]
      BY <3>2, SetError, ZenonT(30) DEF Err, SigRuns
    <3> QED BY <2>1, <3>1, <3>2
  <2>3. pc' \in [Thread -> SigPC]
    BY <2>1 DEF SigRuns
  <2> QED BY <2>1, <2>2, <2>3, SigStays DEF SigRuns
<1>5. CASE KillWalk(t)
  <2>1. k' = rt_schedule(k) /\ pc[t] = "kill_walk" /\ pc' = [pc EXCEPT ![t] = "kill_alloc"]
        /\ "kill_alloc" \in SigPC
    BY <1>5 DEF KillWalk, At, Go, SigPC
  <2> HIDE DEF t
  <2>2. t = k.cur
    BY DEF t
  <2> QED BY <2>1, <2>2, SigScheduleRuns
<1>6. CASE SigWaitSchedule(t)
  <2>1. k' = rt_schedule(k) /\ pc[t] = "sw_sched" /\ pc' = [pc EXCEPT ![t] = "sw_woken"]
    BY <1>6 DEF SigWaitSchedule, At, Go
  <2> HIDE DEF t
  <2>2. t = k.cur
    BY DEF t
  <2> QED BY <2>1, <2>2, SigScheduleRuns DEF SleepPC
<1>7. CASE DeliverSuspended(t)
  <2> DEFINE to == kill[t].to
  <2>1. /\ pc[t] = "kill_deliver" /\ k.stat[to] = "suspend"
        /\ k' = rt_thread_resume(k, to) /\ pc' = [pc EXCEPT ![t] = "sched"]
    BY <1>7 DEF DeliverSuspended, Delivered, At, Go
  <2> HIDE DEF to
  <2>2. k.stat[t] = "ready"
    BY <2>1 DEF SigRuns
  <2>3. to \in Thread
    BY DEF to
  <2>4. WokenUp(k, to, k')
    BY <2>1, <2>3, ResumeKeeps DEF SigRuns
  <2> QED BY <2>1, <2>2, <2>3, <2>4 DEF WokenUp, SigRuns, SigPC, PC, SleepPC
<1>8. ASSUME NEW ss \in SUBSET Sig \ {{}}, SigWaitBlock(t, ss)
      PROVE  SigRuns'
  <2> DEFINE k1 == rt_thread_suspend(k, t)
  <2>1. /\ pc[t] = "run" /\ t # Idle /\ k' = rt_timer_start(k1, t)
        /\ pc' = [pc EXCEPT ![t] = "sw_sched"]
    BY <1>8, SignalAssumption DEF SigWaitBlock, At, Go
  <2>2. k.stat[t] = "ready"
    BY <2>1 DEF SigRuns
  <2>3. /\ k1 \in KernelState /\ KInv(k1) /\ k1.cur = t /\ k1.nest = 0
        /\ k1.stat = [k.stat EXCEPT ![t] = "suspend"] /\ k1.stat[t] = "suspend"
    BY <2>2, SuspendKeeps DEF SigRuns
  <2> HIDE DEF k1
  <2>4. /\ k' \in KernelState /\ KInv(k') /\ k'.cur = t /\ k'.nest = 0
        /\ k'.stat = [k.stat EXCEPT ![t] = "suspend"]
    BY <2>1, <2>3, StartTimer
  <2> QED BY <2>1, <2>4 DEF SigRuns, SigPC, PC, SleepPC
<1>9. CASE SigWaitReturn(t)
  <2>1. /\ k' = k \/ k' = [k EXCEPT !.err[t] = "eok"]
        /\ pc[t] = "sw_woken" /\ pc' = [pc EXCEPT ![t] = "run"]
    BY <1>9 DEF SigWaitReturn, At, Go
  <2>2. /\ k' \in KernelState /\ KInv(k') /\ k'.stat = k.stat /\ k'.cur = k.cur
        /\ k'.nest = k.nest
    <3>1. CASE k' = k
      BY <3>1 DEF SigRuns
    <3>2. CASE k' = [k EXCEPT !.err[t] = "eok"]
      BY <3>2, SetError, ZenonT(30) DEF Err, SigRuns
    <3> QED BY <2>1, <3>1, <3>2
  <2>3. pc' \in [Thread -> SigPC]
    BY <2>1 DEF SigRuns, SigPC, PC
  <2> QED BY <2>1, <2>2, <2>3, SigStays DEF SigRuns
<1> QED BY <1>1, <1>2, <1>3, <1>4, <1>5, <1>6, <1>7, <1>8, <1>9 DEF SigStep

-----------------------------------------------------------------------------
(* The activations of rt_thread_handle_sig on one stack.                   *)

\* The activations fs of a thread with the bits fl in its state; sk says whether
\* a delivery met it in a signal state.  What rt_schedule or the thread itself
\* began is at the bottom, the context of _signal_deliver on top.
FrameRules(fs, fl, sk) ==
  \A i \in 1 .. Len(fs) :
    /\ fs[i].clean => i = 1
    /\ ~fs[i].clean => i = Len(fs) /\ "SIGNAL" \in fl
    /\ fs[i].at = "back" => ~fs[i].clean
    /\ ~fs[i].clean /\ ~sk => "SIGNAL_WAIT" \notin fl

NoBack(fs) == \A i \in 1 .. Len(fs) : fs[i].at # "back"

TestFrame(clean) == [clean |-> clean, at |-> "test", node |-> NoSig]

LEMMA TestFrameType ==
  ASSUME NEW clean \in BOOLEAN
  PROVE  TestFrame(clean) \in Frame
BY DEF TestFrame, Frame

LEMMA FrontElements ==
  ASSUME NEW T, NEW s \in Seq(T), s # << >>
  PROVE  /\ Front(s) \in Seq(T) /\ Len(Front(s)) = Len(s) - 1
         /\ \A i \in 1 .. (Len(s) - 1) : Front(s)[i] = s[i]
         /\ Len(s) \in Nat \ {0}
<1>1. Len(s) \in Nat /\ Len(s) # 0
  BY LenProperties, EmptySeq
<1>2. \A i \in 1 .. (Len(s) - 1) : s[i] \in T
  BY <1>1, ElementOfSeq
<1> DEFINE n == Len(s) - 1
           f == SubSeq(s, 1, n)
<1>3. n \in Nat /\ n - 1 + 1 = n /\ \A i \in 1 .. n : 1 + i - 1 = i
  BY <1>1
<1>4. f = Front(s)
  BY DEF Front
<1> HIDE DEF n
<1>5. /\ f \in Seq(T) /\ Len(f) = IF 1 <= n THEN n - 1 + 1 ELSE 0
      /\ \A i \in 1 .. n - 1 + 1 : f[i] = s[1 + i - 1]
  <2>1. 1 \in Int /\ n \in Int /\ \A i \in 1 .. n : s[i] \in T
    BY <1>2, <1>3 DEF n
  <2> QED BY <2>1, SubSeqProperties
<1> HIDE DEF f
<1>6. f \in Seq(T) /\ Len(f) = n /\ \A i \in 1 .. n : f[i] = s[i]
  BY <1>3, <1>5
<1> QED BY <1>1, <1>4, <1>6 DEF n

\* An activation that begins on an empty stack.
LEMMA RulesFirst ==
  ASSUME NEW fl, NEW sk, NEW r, r = Append(<< >>, TestFrame(TRUE))
  PROVE  r \in Seq(Frame) /\ FrameRules(r, fl, sk) /\ NoBack(r)
<1>1. << >> \in Seq(Frame) /\ Len(<< >>) = 0 /\ TestFrame(TRUE) \in Frame
  BY TestFrameType, EmptySeq
<1>2. r \in Seq(Frame) /\ Len(r) = Len(<< >>) + 1 /\ r[Len(<< >>) + 1] = TestFrame(TRUE)
  <2> DEFINE e == << >>
             f == TestFrame(TRUE)
  <2>1. e \in Seq(Frame) /\ f \in Frame /\ r = Append(e, f) /\ e = << >>
    BY <1>1
  <2> HIDE DEF e, f
  <2>2. Append(e, f) \in Seq(Frame) /\ Len(Append(e, f)) = Len(e) + 1
        /\ Append(e, f)[Len(e) + 1] = f
    BY <2>1, AppendProperties
  <2>3. r \in Seq(Frame) /\ Len(r) = Len(e) + 1 /\ r[Len(e) + 1] = f
    BY ONLY <2>1, <2>2
  <2> QED BY <2>1, <2>3 DEF f
<1>3. Len(r) = 1 /\ r[1].clean /\ r[1].at = "test"
  BY <1>1, <1>2 DEF TestFrame
<1>4. \A i \in 1 .. Len(r) : i = 1
  BY <1>3
<1>5. FrameRules(r, fl, sk)
  BY <1>3, <1>4 DEF FrameRules
<1>6. NoBack(r)
  BY <1>3, <1>4 DEF NoBack
<1> QED BY <1>2, <1>5, <1>6

\* A context that _signal_deliver builds over a thread that has none.
LEMMA RulesEntry ==
  ASSUME NEW fs \in Seq(Frame), NEW fl, NEW sk, FrameRules(fs, fl, sk), "SIGNAL" \notin fl,
         NEW r, r = Append(fs, TestFrame(FALSE)), NEW fl2, NEW sk2,
         "SIGNAL" \in fl2, ~sk2 => "SIGNAL_WAIT" \notin fl2
  PROVE  r \in Seq(Frame) /\ FrameRules(r, fl2, sk2) /\ (NoBack(fs) => NoBack(r))
<1> DEFINE f == TestFrame(FALSE)
<1>0. f.clean = FALSE /\ f.at = "test"
  BY DEF TestFrame
<1>1. f \in Frame /\ Len(fs) \in Nat
  BY TestFrameType, LenProperties
<1> HIDE DEF f
<1>2. /\ r \in Seq(Frame) /\ Len(r) = Len(fs) + 1
      /\ \A i \in 1 .. Len(fs) : r[i] = fs[i]
      /\ r[Len(fs) + 1] = f
  <2>1. r = Append(fs, f)
    BY DEF f
  <2>2. /\ Append(fs, f) \in Seq(Frame) /\ Len(Append(fs, f)) = Len(fs) + 1
        /\ \A i \in 1 .. Len(fs) : Append(fs, f)[i] = fs[i]
        /\ Append(fs, f)[Len(fs) + 1] = f
    BY <1>1, AppendProperties
  <2> QED BY ONLY <2>1, <2>2
<1>3. \A i \in 1 .. Len(fs) : fs[i].clean /\ fs[i].at # "back" /\ i = 1
  BY DEF FrameRules
<1>4. r[Len(fs) + 1].clean = FALSE /\ r[Len(fs) + 1].at = "test"
  BY <1>0, <1>2
<1>5. \A i \in 1 .. Len(r) : i \in 1 .. Len(fs) \/ i = Len(fs) + 1
  BY <1>1, <1>2
<1> QED BY <1>1, <1>2, <1>3, <1>4, <1>5 DEF FrameRules, NoBack

\* The last activation returns.
LEMMA RulesPop ==
  ASSUME NEW fs \in Seq(Frame), fs # << >>, NEW fl, NEW sk, FrameRules(fs, fl, sk),
         NEW r, r = Front(fs), NEW fl2, NEW sk2
  PROVE  r \in Seq(Frame) /\ FrameRules(r, fl2, sk2) /\ NoBack(r)
<1>1. /\ r \in Seq(Frame) /\ Len(r) = Len(fs) - 1 /\ Len(fs) \in Nat \ {0}
      /\ \A i \in 1 .. (Len(fs) - 1) : r[i] = fs[i]
  BY FrontElements
<1>2. \A i \in 1 .. Len(r) : fs[i].clean /\ fs[i].at # "back" /\ i = 1 /\ r[i] = fs[i]
  BY <1>1 DEF FrameRules
<1> QED BY <1>1, <1>2 DEF FrameRules, NoBack

\* It goes on.
LEMMA RulesTop ==
  ASSUME NEW fs \in Seq(Frame), fs # << >>, NEW fl, NEW sk, FrameRules(fs, fl, sk),
         NEW f \in Frame, f.clean = fs[Len(fs)].clean, f.at = "back" => ~f.clean,
         NEW r, r = [fs EXCEPT ![Len(fs)] = f]
  PROVE  /\ r \in Seq(Frame) /\ FrameRules(r, fl, sk)
         /\ NoBack(fs) /\ f.at # "back" => NoBack(r)
<1>1. Len(fs) \in Nat \ {0} /\ Len(fs) \in 1 .. Len(fs)
  BY LenProperties, EmptySeq
<1>2. /\ r \in Seq(Frame) /\ Len(r) = Len(fs)
      /\ \A i \in 1 .. Len(fs) : r[i] = IF i = Len(fs) THEN f ELSE fs[i]
  BY <1>1, ExceptSeq
<1>3. ASSUME NEW i \in 1 .. Len(fs)
      PROVE  /\ r[i].clean = fs[i].clean /\ (r[i].at = "back" => ~r[i].clean)
             /\ fs[i].at # "back" /\ f.at # "back" => r[i].at # "back"
  <2>1. CASE i = Len(fs)
    BY <1>2, <2>1
  <2>2. CASE i # Len(fs)
    BY <1>2, <2>2 DEF FrameRules
  <2> QED BY <2>1, <2>2
<1>4. FrameRules(r, fl, sk)
  BY <1>2, <1>3 DEF FrameRules
<1>5. NoBack(fs) /\ f.at # "back" => NoBack(r)
  BY <1>2, <1>3 DEF NoBack
<1> QED BY <1>2, <1>4, <1>5

\* The bits of the state change under activations that stay.
LEMMA RulesFlags ==
  ASSUME NEW fs, NEW fl, NEW sk, FrameRules(fs, fl, sk), NEW fl2, NEW sk2,
         "SIGNAL" \in fl => "SIGNAL" \in fl2,
         ~sk2 => ~sk /\ ("SIGNAL_WAIT" \in fl2 => "SIGNAL_WAIT" \in fl)
  PROVE  FrameRules(fs, fl2, sk2)
BY DEF FrameRules

\* No context is built for a thread without RT_THREAD_STAT_SIGNAL.
LEMMA RulesNoSignal ==
  ASSUME NEW fs, NEW fl, NEW sk, FrameRules(fs, fl, sk), "SIGNAL" \notin fl
  PROVE  NoBack(fs)
BY DEF FrameRules, NoBack

\* What is left of a list without its head.
LEMMA TailElements ==
  ASSUME NEW T, NEW s \in Seq(T), s # << >>
  PROVE  /\ Head(s) \in T /\ Tail(s) \in Seq(T) /\ Len(Tail(s)) = Len(s) - 1
         /\ ToSet(Tail(s)) \subseteq ToSet(s)
<1> DEFINE r == Tail(s)
<1>1. /\ Head(s) \in T /\ r \in Seq(T) /\ Len(r) = Len(s) - 1
      /\ \A i \in 1 .. Len(r) : r[i] = s[i + 1]
      /\ Len(s) \in Nat /\ DOMAIN s = 1 .. Len(s)
  BY HeadTailProperties, LenProperties
<1> HIDE DEF r
<1>2. DOMAIN r = 1 .. Len(r)
  BY <1>1, LenProperties
<1>3. ASSUME NEW x \in ToSet(r)
      PROVE  x \in ToSet(s)
  <2>1. PICK i \in 1 .. Len(r) : x = r[i]
    BY <1>2 DEF ToSet
  <2>2. i + 1 \in DOMAIN s /\ x = s[i + 1]
    BY <1>1, <2>1
  <2> QED BY <2>2 DEF ToSet
<1>4. ToSet(r) \subseteq ToSet(s)
  BY <1>3
<1> QED BY <1>1, <1>4 DEF r

-----------------------------------------------------------------------------
(* The signals of one thread.                                              *)

AnySig == Sig \cup {NoSig}

SigTyped ==
  /\ pending \in [Thread -> SUBSET Sig] /\ mask \in [Thread -> SUBSET Sig]
  /\ si_list \in [Thread -> Seq(AnySig)]
  /\ flags \in [Thread -> SUBSET {"SIGNAL", "SIGNAL_WAIT"}]
  /\ frames \in [Thread -> Seq(Frame)]
  /\ kill \in [Thread -> [to : Thread, sig : AnySig]]
  /\ free \in Nat

\* What a step of rt_thread_handle_sig makes of the list and the frames of its
\* thread: it takes the next node, or it is done with the loop.
Took(t) ==
  /\ si_list[t] # << >> /\ si_list' = [si_list EXCEPT ![t] = Tail(@)]
  /\ SetTop(t, [top(t) EXCEPT !.at = "handler", !.node = Head(si_list[t])])
  /\ flags' = flags

Done(t) ==
  /\ si_list' = si_list
  /\ \/ Deliverable(t)' = {} \/ si_list[t] = << >>
     \/ "SIGNAL_WAIT" \in flags[t] /\ flags' = flags
  /\ \/ /\ top(t).clean /\ Pop(t)
        /\ flags' = flags \/ flags' = [flags EXCEPT ![t] = @ \ {"SIGNAL"}]
     \/ /\ ~top(t).clean /\ flags' = flags
        /\ \E n \in AnySig : SetTop(t, [top(t) EXCEPT !.at = "back", !.node = n])

LEMMA TopFrame ==
  ASSUME SigTyped, NEW t \in Thread, frames[t] # << >>
  PROVE  /\ frames[t] \in Seq(Frame) /\ Len(frames[t]) \in Nat \ {0}
         /\ Len(frames[t]) \in 1 .. Len(frames[t]) /\ top(t) \in Frame
         /\ top(t) = frames[t][Len(frames[t])]
<1>1. frames[t] \in Seq(Frame) /\ Len(frames[t]) \in Nat \ {0}
  BY LenProperties, EmptySeq DEF SigTyped
<1>2. Len(frames[t]) \in 1 .. Len(frames[t])
  BY <1>1
<1> QED BY <1>1, <1>2, ElementOfSeq DEF top

LEMMA HandlerMoves ==
  ASSUME SigTyped, NEW t \in Thread, HandleBegin(t) \/ HandleEnd(t)
  PROVE  /\ frames[t] # << >> /\ (Took(t) \/ Done(t))
         /\ mask' = mask /\ kill' = kill /\ pc' = pc /\ skipped' = skipped
         /\ pending' \in [Thread -> SUBSET Sig] /\ pending'[t] \subseteq pending[t]
         /\ \A u \in Thread \ {t} : pending'[u] = pending[u]
         /\ free' = IF top(t).at = "handler" THEN free + 1 ELSE free
         /\ top(t).at # "back"
<1>1. CASE HandleBegin(t)
  <2>1. frames[t] # << >> /\ top(t).at = "test" /\ pending' = pending /\ mask' = mask
        /\ kill' = kill /\ pc' = pc /\ skipped' = skipped /\ free' = free
    BY <1>1 DEF HandleBegin, Running, history
  <2>2. top(t) \in Frame
    BY <2>1, TopFrame
  <2>3. Deliverable(t)' = Deliverable(t)
    BY <2>1 DEF Deliverable
  <2>4. CASE Deliverable(t) # {} /\ "SIGNAL_WAIT" \notin flags[t]
    <3>1. Loop(t, pending[t])
      BY <1>1, <2>4 DEF HandleBegin
    <3>2. CASE Deliverable(t) # {} /\ si_list[t] # << >>
      <4>1. pending[t] \cap mask[t] # {}
        BY <3>2 DEF Deliverable
      <4>2. /\ si_list' = [si_list EXCEPT ![t] = Tail(@)] /\ flags' = flags
            /\ SetTop(t, [top(t) EXCEPT !.at = "handler", !.node = Head(si_list[t])])
        BY ONLY <3>1, <3>2, <4>1 DEF Loop
      <4>3. Took(t)
        BY <3>2, <4>2, Zenon DEF Took
      <4> QED BY <2>1, <4>3 DEF SigTyped
    <3>3. CASE ~(Deliverable(t) # {} /\ si_list[t] # << >>)
      <4>1. /\ si_list' = si_list
            /\ \/ top(t).clean /\ Pop(t) /\ flags' = [flags EXCEPT ![t] = @ \ {"SIGNAL"}]
               \/ ~top(t).clean /\ flags' = flags
                  /\ SetTop(t, [top(t) EXCEPT !.at = "back", !.node = NoSig])
        BY <3>1, <3>3 DEF Loop, Deliverable
      <4>2. Deliverable(t)' = {} \/ si_list[t] = << >>
        BY <2>3, <3>3
      <4>3. Done(t)
        BY <4>1, <4>2, Zenon DEF Done, AnySig
      <4> QED BY <2>1, <4>3 DEF SigTyped
    <3> QED BY <3>2, <3>3
  <2>5. CASE ~(Deliverable(t) # {} /\ "SIGNAL_WAIT" \notin flags[t])
    <3>1. /\ si_list' = si_list /\ flags' = flags
          /\ \/ top(t).clean /\ Pop(t)
             \/ ~top(t).clean /\ SetTop(t, [top(t) EXCEPT !.at = "back"])
      BY <1>1, <2>5 DEF HandleBegin
    <3>2. /\ [top(t) EXCEPT !.at = "back"] = [top(t) EXCEPT !.at = "back", !.node = top(t).node]
          /\ top(t).node \in AnySig
      BY <2>2 DEF Frame, AnySig
    <3>3. Done(t)
      BY <2>3, <2>5, <3>1, <3>2 DEF Done
    <3> QED BY <2>1, <3>3 DEF SigTyped
  <2> QED BY <2>4, <2>5
<1>2. CASE HandleEnd(t)
  <2>1. /\ frames[t] # << >> /\ top(t).at = "handler" /\ mask' = mask
        /\ pending' = [pending EXCEPT ![t] = @ \ {top(t).node}]
        /\ kill' = kill /\ pc' = pc /\ skipped' = skipped /\ free' = free + 1
        /\ Loop(t, pending'[t])
    BY <1>2 DEF HandleEnd, Running, history
  <2>2. pending' \in [Thread -> SUBSET Sig] /\ pending'[t] \subseteq pending[t]
        /\ \A u \in Thread \ {t} : pending'[u] = pending[u]
    BY <2>1 DEF SigTyped
  <2>3. Deliverable(t)' = pending'[t] \cap mask[t]
    BY <2>1 DEF Deliverable
  <2>4. CASE Deliverable(t)' # {} /\ si_list[t] # << >>
    BY <2>1, <2>2, <2>3, <2>4 DEF Loop, Took
  <2>5. CASE ~(Deliverable(t)' # {} /\ si_list[t] # << >>)
    <3>1. /\ si_list' = si_list
          /\ \/ top(t).clean /\ Pop(t) /\ flags' = [flags EXCEPT ![t] = @ \ {"SIGNAL"}]
             \/ ~top(t).clean /\ flags' = flags
                /\ SetTop(t, [top(t) EXCEPT !.at = "back", !.node = NoSig])
      BY <2>1, <2>3, <2>5 DEF Loop
    <3>2. Done(t)
      BY <2>5, <3>1 DEF Done, AnySig
    <3> QED BY <2>1, <2>2, <3>2
  <2> QED BY <2>4, <2>5
<1> QED BY <1>1, <1>2

\* What they make of the frames.
LEMMA HandlerFrames ==
  ASSUME SigTyped, NEW t \in Thread, frames[t] # << >>, top(t).at # "back",
         FrameRules(frames[t], flags[t], t \in skipped), Took(t) \/ Done(t)
  PROVE  /\ frames' \in [Thread -> Seq(Frame)]
         /\ flags' \in [Thread -> SUBSET {"SIGNAL", "SIGNAL_WAIT"}]
         /\ si_list' \in [Thread -> Seq(AnySig)]
         /\ \A u \in Thread \ {t} :
              frames'[u] = frames[u] /\ flags'[u] = flags[u] /\ si_list'[u] = si_list[u]
         /\ FrameRules(frames'[t], flags'[t], t \in skipped)
         /\ ToSet(si_list'[t]) \subseteq ToSet(si_list[t])
         /\ Took(t) => flags' = flags /\ (NoBack(frames[t]) => NoBack(frames'[t]))
         /\ ~Took(t) /\ t \notin skipped => Deliverable(t)' = {} \/ si_list'[t] = << >> 
              \/ (flags' = flags /\ NoBack(frames'[t]))
<1> DEFINE sk == t \in skipped
<1>0. /\ frames[t] \in Seq(Frame) /\ Len(frames[t]) \in 1 .. Len(frames[t]) /\ top(t) \in Frame
      /\ top(t) = frames[t][Len(frames[t])] /\ si_list[t] \in Seq(AnySig)
  BY TopFrame DEF SigTyped
<1>1. CASE Took(t)
  <2> DEFINE f == [top(t) EXCEPT !.at = "handler", !.node = Head(si_list[t])]
             r == [frames[t] EXCEPT ![Len(frames[t])] = f]
  <2>1. /\ Head(si_list[t]) \in AnySig /\ Tail(si_list[t]) \in Seq(AnySig)
        /\ ToSet(Tail(si_list[t])) \subseteq ToSet(si_list[t])
        /\ si_list' = [si_list EXCEPT ![t] = Tail(@)] /\ flags' = flags
    <3>1. si_list[t] # << >> /\ si_list' = [si_list EXCEPT ![t] = Tail(@)] /\ flags' = flags
      BY <1>1 DEF Took
    <3> DEFINE l == si_list[t]
    <3>2. l \in Seq(AnySig) /\ l # << >>
      BY <1>0, <3>1
    <3> HIDE DEF l
    <3>3. Head(l) \in AnySig /\ Tail(l) \in Seq(AnySig) /\ ToSet(Tail(l)) \subseteq ToSet(l)
      BY <3>2, TailElements
    <3> QED BY <3>1, <3>3 DEF l
  <2>2. f \in Frame /\ f.clean = top(t).clean /\ f.at = "handler"
    BY <1>0, <2>1 DEF Frame, AnySig
  <2>3. frames' = [frames EXCEPT ![t] = r]
    BY <1>1 DEF Took, SetTop
  <2> HIDE DEF f
  <2>4. /\ r \in Seq(Frame) /\ FrameRules(r, flags[t], sk)
        /\ NoBack(frames[t]) => NoBack(r)
    BY <1>0, <2>2, RulesTop
  <2> HIDE DEF r
  <2> QED BY <1>1, <2>1, <2>3, <2>4 DEF SigTyped
<1>2. CASE ~Took(t) /\ Done(t)
  <2>1. CASE top(t).clean
    <3> DEFINE r == Front(frames[t])
    <3>1. frames' = [frames EXCEPT ![t] = r]
      BY <1>2, <2>1 DEF Done, Pop
    <3>2. /\ flags' \in [Thread -> SUBSET {"SIGNAL", "SIGNAL_WAIT"}]
          /\ \A u \in Thread \ {t} : flags'[u] = flags[u]
      BY <1>2, <2>1 DEF Done, SigTyped
    <3>3. r \in Seq(Frame) /\ FrameRules(r, flags'[t], sk) /\ NoBack(r)
      <4> HIDE DEF sk
      <4> QED BY <1>0, RulesPop
    <3> HIDE DEF r
    <3>4. si_list' = si_list
      BY <1>2 DEF Done
    <3>6. \/ Deliverable(t)' = {} \/ si_list'[t] = << >> \/ flags' = flags
      BY <1>2, <3>4 DEF Done
    <3> QED BY <1>2, <3>1, <3>2, <3>3, <3>4, <3>6 DEF SigTyped
  <2>2. CASE ~top(t).clean
    <3>1. PICK n \in AnySig : SetTop(t, [top(t) EXCEPT !.at = "back", !.node = n])
      BY <1>2, <2>2 DEF Done
    <3> DEFINE f == [top(t) EXCEPT !.at = "back", !.node = n]
               r == [frames[t] EXCEPT ![Len(frames[t])] = f]
    <3>2. f \in Frame /\ f.clean = top(t).clean /\ f.at = "back" /\ ~f.clean
      BY <1>0, <2>2 DEF Frame, AnySig
    <3>3. frames' = [frames EXCEPT ![t] = r]
      BY <3>1 DEF SetTop
    <3> HIDE DEF f
    <3>4. r \in Seq(Frame) /\ FrameRules(r, flags[t], sk)
      BY <1>0, <3>2, RulesTop
    <3> HIDE DEF r
    <3>5. flags' = flags /\ si_list' = si_list
      BY <1>2, <2>2 DEF Done
    <3>6. ~sk => "SIGNAL_WAIT" \notin flags[t]
      BY <1>0, <2>2 DEF FrameRules
    <3>7. \/ Deliverable(t)' = {} \/ si_list'[t] = << >> \/ "SIGNAL_WAIT" \in flags[t]
      BY <1>2, <3>5 DEF Done
    <3> QED BY <1>2, <3>3, <3>4, <3>5, <3>6, <3>7 DEF SigTyped
  <2> QED BY <2>1, <2>2
<1> QED BY <1>1, <1>2

\* A removal from a list adds no element.
LEMMA RemoveAtSubset ==
  ASSUME NEW T, NEW s \in Seq(T), NEW i \in 1 .. Len(s)
  PROVE  /\ RemoveAt(s, i) \in Seq(T) /\ Len(RemoveAt(s, i)) = Len(s) - 1
         /\ ToSet(RemoveAt(s, i)) \subseteq ToSet(s)
<1> DEFINE r == RemoveAt(s, i)
<1>1. /\ r \in Seq(T) /\ Len(r) = Len(s) - 1 /\ DOMAIN r = 1 .. (Len(s) - 1)
      /\ \A j \in 1 .. (Len(s) - 1) : r[j] = IF j < i THEN s[j] ELSE s[j + 1]
  BY RemoveAtElements
<1>2. Len(s) \in Nat /\ DOMAIN s = 1 .. Len(s)
  BY LenProperties
<1> HIDE DEF r
<1>3. ASSUME NEW x \in ToSet(r)
      PROVE  x \in ToSet(s)
  <2>1. PICK j \in 1 .. (Len(s) - 1) : x = r[j]
    BY <1>1 DEF ToSet
  <2>2. j \in DOMAIN s /\ j + 1 \in DOMAIN s
    BY <1>2
  <2>3. x = s[j] \/ x = s[j + 1]
    BY <1>1, <2>1
  <2> QED BY <2>2, <2>3 DEF ToSet
<1>4. ToSet(r) \subseteq ToSet(s)
  BY <1>3
<1> QED BY <1>1, <1>4 DEF r

\* What rt_signal_wait takes.
LEMMA ConsumeTakes ==
  ASSUME SigTyped, NEW t \in Thread, NEW ss, Consume(t, ss)
  PROVE  /\ pending' \in [Thread -> SUBSET Sig] /\ si_list' \in [Thread -> Seq(AnySig)]
         /\ free' \in Nat
         /\ pending'[t] \subseteq pending[t] /\ ToSet(si_list'[t]) \subseteq ToSet(si_list[t])
         /\ \A u \in Thread \ {t} : pending'[u] = pending[u] /\ si_list'[u] = si_list[u]
         /\ Len(si_list'[t]) + free' = Len(si_list[t]) + free
<1> DEFINE l == si_list[t]
           hits == {i \in DOMAIN l : l[i] \in ss}
           i == CHOOSE j \in hits : \A h \in hits : j <= h
<1>1. l \in Seq(AnySig) /\ Len(l) \in Nat /\ DOMAIN l = 1 .. Len(l)
  BY LenProperties DEF SigTyped
<1>2. CASE pending' = pending /\ si_list' = si_list /\ free' = free
  BY <1>1, <1>2 DEF SigTyped
<1>3. CASE ~(pending' = pending /\ si_list' = si_list /\ free' = free)
  <2>1. /\ pending' = [pending EXCEPT ![t] = @ \ {l[i]}]
        /\ si_list' = [si_list EXCEPT ![t] = RemoveAt(@, i)]
        /\ free' = free + 1 /\ hits # {}
    <3>1. l # << >> /\ hits # {} /\ ~(i = 1 /\ Len(l) > 1)
      BY <1>3 DEF Consume
    <3> QED BY <3>1 DEF Consume
  <2>2. i \in hits
    <3>1. \A h \in hits : h \in Nat
      BY <1>1
    <3>2. \E j \in hits : \A h \in hits : j <= h
      <4> HIDE DEF hits
      <4> QED BY <2>1, <3>1, LeastNat
    <3> QED BY <3>2
  <2>3. i \in 1 .. Len(l)
    BY <1>1, <2>2
  <2> HIDE DEF l, hits, i
  <2> DEFINE r == RemoveAt(l, i)
  <2>4. r \in Seq(AnySig) /\ Len(r) = Len(l) - 1 /\ ToSet(r) \subseteq ToSet(l)
    BY <1>1, <2>3, RemoveAtSubset
  <2>5. si_list' = [si_list EXCEPT ![t] = r]
    BY <2>1 DEF l
  <2> HIDE DEF r
  <2>6. /\ l = si_list[t] /\ si_list' \in [Thread -> Seq(AnySig)] /\ si_list'[t] = r
        /\ \A u \in Thread \ {t} : si_list'[u] = si_list[u]
    BY <2>4, <2>5 DEF SigTyped, l
  <2>7. /\ pending' \in [Thread -> SUBSET Sig] /\ pending'[t] \subseteq pending[t]
        /\ \A u \in Thread \ {t} : pending'[u] = pending[u]
    BY <2>1 DEF SigTyped
  <2>8. free \in Nat /\ free' = free + 1
    BY <2>1 DEF SigTyped
  <2>9. Len(r) + free' = Len(l) + free
    BY <1>1, <2>4, <2>8
  <2>10. ToSet(si_list'[t]) \subseteq ToSet(si_list[t])
    BY <2>4, <2>6
  <2>11. Len(si_list'[t]) + free' = Len(si_list[t]) + free
    BY <2>6, <2>9
  <2>12. free' \in Nat
    BY <2>8
  <2> QED BY <2>6, <2>7, <2>10, <2>11, <2>12
<1> QED BY <1>2, <1>3

-----------------------------------------------------------------------------
(* Signals that can be delivered are noticed.                              *)

SigFrames == \A t \in Thread : FrameRules(frames[t], flags[t], t \in skipped)

\* Somebody is about to deliver to t: a sender, or t itself after it has unmasked
\* a signal that was pending.
Handled(t) == \E c \in Thread : kill[c].to = t /\ pc[c] \in KillPC

SigKillers == \A c \in Thread : pc[c] \in KillPC => c \in Sender \/ kill[c].to = c

Ripe(t) == Deliverable(t) \cap ToSet(si_list[t]) # {}

\* It is being delivered, or its thread is marked and has yet to look at its list.
Noticed(t) ==
  t \notin skipped /\ Ripe(t) => Handled(t) \/ ("SIGNAL" \in flags[t] /\ NoBack(frames[t]))

SigThreads ==
  SigTyped /\ SigFrames /\ SigKillers /\ \A t \in Receiver : Noticed(t)

\* The program counter and the arguments of thread c change, and it does not
\* leave a delivery to u.
LEMMA HandledKept ==
  ASSUME NEW c \in Thread, NEW u \in Thread,
         \A t \in Thread \ {c} : pc'[t] = pc[t] /\ kill'[t] = kill[t],
         pc[c] \in KillPC /\ kill[c].to = u => pc'[c] \in KillPC /\ kill'[c].to = u
  PROVE  Handled(u) => Handled(u)'
<1> SUFFICES ASSUME Handled(u) PROVE Handled(u)'
  OBVIOUS
<1>1. PICK d \in Thread : kill[d].to = u /\ pc[d] \in KillPC
  BY DEF Handled
<1>2. pc'[d] \in KillPC /\ kill'[d].to = u
  BY <1>1
<1> QED BY <1>2 DEF Handled

\* Nothing is sent to u, and what it does not do is look at a list in vain.
LEMMA NoticedKept ==
  ASSUME NEW u \in Thread, Noticed(u),
         pending'[u] \subseteq pending[u], mask'[u] \subseteq mask[u],
         ToSet(si_list'[u]) \subseteq ToSet(si_list[u]),
         u \in skipped => u \in skipped',
         "SIGNAL" \in flags[u] /\ NoBack(frames[u])
           => "SIGNAL" \in flags'[u] /\ NoBack(frames'[u]),
         Handled(u) => Handled(u)'
  PROVE  Noticed(u)'
<1> SUFFICES ASSUME u \notin skipped', Ripe(u)'
             PROVE  Handled(u)' \/ ("SIGNAL" \in flags'[u] /\ NoBack(frames'[u]))
  BY DEF Noticed
<1>1. Ripe(u)
  BY DEF Ripe, Deliverable
<1> QED BY <1>1 DEF Noticed

\* A thread without activations begins one, or goes on.
LEMMA ReturnFrames ==
  ASSUME SigTyped, NEW t \in Thread, frames[t] = << >>,
         HandleOnReturn(t) \/ Push(t, TRUE) \/ frames' = frames
  PROVE  /\ frames' \in [Thread -> Seq(Frame)]
         /\ \A u \in Thread \ {t} : frames'[u] = frames[u]
         /\ FrameRules(frames'[t], flags'[t], t \in skipped')
         /\ NoBack(frames'[t])
<1>1. CASE frames' = frames
  <2>1. Len(frames'[t]) = 0
    BY <1>1, EmptySeq
  <2>2. FrameRules(frames'[t], flags'[t], t \in skipped') /\ NoBack(frames'[t])
    BY <2>1 DEF FrameRules, NoBack
  <2> QED BY <1>1, <2>2 DEF SigTyped
<1>2. CASE Push(t, TRUE)
  <2> DEFINE r == Append(<< >>, TestFrame(TRUE))
             fl == flags'[t]
             sk == t \in skipped'
  <2>1. frames' = [frames EXCEPT ![t] = r]
    BY <1>2 DEF Push, TestFrame
  <2>2. r \in Seq(Frame) /\ FrameRules(r, fl, sk) /\ NoBack(r)
    <3> HIDE DEF fl, sk
    <3> QED BY RulesFirst
  <2> HIDE DEF r
  <2>3. /\ frames' \in [Thread -> Seq(Frame)] /\ frames'[t] = r
        /\ \A u \in Thread \ {t} : frames'[u] = frames[u]
    BY <2>1, <2>2 DEF SigTyped
  <2>4. FrameRules(frames'[t], fl, sk) /\ NoBack(frames'[t])
    BY <2>2, <2>3
  <2> QED BY <2>3, <2>4
<1> QED BY <1>1, <1>2 DEF HandleOnReturn

\* rt_thread_handle_sig keeps it.
LEMMA HandlerThreads ==
  ASSUME SigThreads, NEW t \in Thread, HandleBegin(t) \/ HandleEnd(t)
  PROVE  SigThreads'
<1>1. /\ frames[t] # << >> /\ (Took(t) \/ Done(t))
      /\ mask' = mask /\ kill' = kill /\ pc' = pc /\ skipped' = skipped
      /\ pending' \in [Thread -> SUBSET Sig] /\ pending'[t] \subseteq pending[t]
      /\ \A u \in Thread \ {t} : pending'[u] = pending[u]
      /\ free' = IF top(t).at = "handler" THEN free + 1 ELSE free
      /\ top(t).at # "back" /\ SigTyped
  BY HandlerMoves DEF SigThreads
<1>2. FrameRules(frames[t], flags[t], t \in skipped)
  BY DEF SigThreads, SigFrames
<1>3. /\ frames' \in [Thread -> Seq(Frame)]
      /\ flags' \in [Thread -> SUBSET {"SIGNAL", "SIGNAL_WAIT"}]
      /\ si_list' \in [Thread -> Seq(AnySig)]
      /\ \A u \in Thread \ {t} :
           frames'[u] = frames[u] /\ flags'[u] = flags[u] /\ si_list'[u] = si_list[u]
      /\ FrameRules(frames'[t], flags'[t], t \in skipped)
      /\ ToSet(si_list'[t]) \subseteq ToSet(si_list[t])
      /\ Took(t) => flags' = flags /\ (NoBack(frames[t]) => NoBack(frames'[t]))
      /\ ~Took(t) /\ t \notin skipped => Deliverable(t)' = {} \/ si_list'[t] = << >> 
           \/ (flags' = flags /\ NoBack(frames'[t]))
  BY <1>1, <1>2, HandlerFrames
<1>4. SigTyped'
  BY <1>1, <1>3 DEF SigTyped
<1>5. SigFrames'
  BY <1>1, <1>3 DEF SigFrames, SigThreads
<1>6. SigKillers'
  BY <1>1 DEF SigKillers, SigThreads
<1>7. ASSUME NEW u \in Thread
      PROVE  Handled(u)' <=> Handled(u)
  BY <1>1 DEF Handled
<1>8. ASSUME NEW u \in Receiver
      PROVE  Noticed(u)'
  <2>0. u \in Thread /\ Noticed(u)
    BY SignalAssumption DEF SigThreads
  <2>1. CASE u # t
    BY <1>1, <1>3, <1>7, <2>0, <2>1, NoticedKept
  <2>2. CASE u = t /\ Took(t)
    <3>1. "SIGNAL" \in flags[u] /\ NoBack(frames[u])
            => "SIGNAL" \in flags'[u] /\ NoBack(frames'[u])
      BY <1>3, <2>2
    <3> QED BY <1>1, <1>3, <1>7, <2>0, <2>2, <3>1, NoticedKept
  <2>3. CASE u = t /\ ~Took(t)
    <3>1. CASE Deliverable(t)' = {} \/ si_list'[t] = << >>
      <4>1. ToSet(<< >>) = {}
        <5>1. << >> \in Seq(AnySig) /\ << >> = << >>
          BY EmptySeq
        <5> QED BY <5>1, EmptyList
      <4>2. ~Ripe(t)'
        BY <3>1, <4>1 DEF Ripe
      <4> QED BY <2>3, <4>2 DEF Noticed
    <3>2. CASE t \in skipped
      BY <1>1, <2>3, <3>2 DEF Noticed
    <3>3. CASE flags' = flags /\ NoBack(frames'[t])
      BY <1>1, <1>3, <1>7, <2>0, <2>3, <3>3, NoticedKept
    <3> QED BY <1>3, <2>3, <3>1, <3>2, <3>3
  <2> QED BY <2>1, <2>2, <2>3
<1> QED BY <1>4, <1>5, <1>6, <1>8 DEF SigThreads

\* _signal_entry returns: whatever it did not see is about to be delivered.
LEMMA EntryThreads ==
  ASSUME SigThreads, NEW t \in Thread, EntryReturn(t)
  PROVE  SigThreads'
<1> DEFINE r == Front(frames[t])
           fl == flags'[t]
           sk == t \in skipped
<1>1. /\ frames[t] # << >> /\ top(t).at = "back" /\ frames' = [frames EXCEPT ![t] = r]
      /\ flags' = [flags EXCEPT ![t] = @ \ {"SIGNAL"}]
      /\ pc' = pc /\ kill' = kill /\ skipped' = skipped
      /\ pending' = pending /\ mask' = mask /\ si_list' = si_list /\ free' = free
  BY DEF EntryReturn, Running, Pop, nodes, history
<1>2. /\ frames[t] \in Seq(Frame) /\ Len(frames[t]) \in 1 .. Len(frames[t])
      /\ top(t) = frames[t][Len(frames[t])]
  BY <1>1, TopFrame DEF SigThreads
<1>3. FrameRules(frames[t], flags[t], sk)
  BY DEF SigThreads, SigFrames
<1>4. r \in Seq(Frame) /\ FrameRules(r, fl, sk) /\ NoBack(r)
  <2> HIDE DEF fl, sk
  <2> QED BY <1>1, <1>2, <1>3, RulesPop
<1> HIDE DEF r
<1>5. SigTyped'
  BY <1>1, <1>4 DEF SigTyped, SigThreads
<1>6. SigFrames'
  BY <1>1, <1>4 DEF SigFrames, SigThreads, SigTyped
<1>7. SigKillers'
  BY <1>1 DEF SigKillers, SigThreads
<1>8. \A u \in Thread : Handled(u)' <=> Handled(u)
  BY <1>1 DEF Handled
<1>9. ASSUME NEW u \in Receiver
      PROVE  Noticed(u)'
  <2>0. u \in Thread /\ Noticed(u)
    BY SignalAssumption DEF SigThreads
  <2>1. CASE u # t
    BY <1>1, <1>8, <2>0, <2>1, NoticedKept DEF SigThreads, SigTyped
  <2>2. CASE u = t
    <3>1. ~NoBack(frames[t])
      BY <1>1, <1>2 DEF NoBack
    <3>2. Ripe(t)' <=> Ripe(t)
      BY <1>1 DEF Ripe, Deliverable
    <3> QED BY <1>1, <1>8, <2>0, <2>2, <3>1, <3>2 DEF Noticed
  <2> QED BY <2>1, <2>2
<1> QED BY <1>5, <1>6, <1>7, <1>9 DEF SigThreads

\* rt_thread_kill begins.
LEMMA KillThreads ==
  ASSUME SigRuns, SigThreads, NEW c \in Thread, NEW t \in Receiver, NEW s \in Sig, Kill(c, t, s)
  PROVE  SigThreads'
<1>0. t \in Thread
  BY SignalAssumption
<1> DEFINE rec == [to |-> t, sig |-> s]
<1>1. /\ pc[c] = "run" /\ c \in Sender /\ kill' = [kill EXCEPT ![c] = rec]
      /\ pending' = [pending EXCEPT ![t] = @ \cup {s}]
      /\ \E p \in {"kill_walk", "kill_alloc"} : pc' = [pc EXCEPT ![c] = p]
      /\ skipped' = skipped /\ mask' = mask /\ si_list' = si_list /\ free' = free
      /\ flags' = flags /\ frames' = frames
  BY DEF Kill, At, Go
<1>2. rec \in [to : Thread, sig : AnySig] /\ rec.to = t
  BY <1>0 DEF AnySig
<1> HIDE DEF rec
<1>3. /\ pc[c] \notin KillPC /\ pc'[c] \in KillPC /\ kill'[c].to = t
      /\ \A d \in Thread \ {c} : pc'[d] = pc[d] /\ kill'[d] = kill[d]
  BY <1>1, <1>2 DEF KillPC, SigRuns, SigThreads, SigTyped
<1>4. SigTyped'
  BY <1>1, <1>2 DEF SigThreads, SigTyped
<1>5. SigFrames'
  BY <1>1 DEF SigThreads, SigFrames
<1>6. SigKillers'
  BY <1>1, <1>3 DEF SigThreads, SigKillers
<1>7. ASSUME NEW u \in Receiver
      PROVE  Noticed(u)'
  <2>1. u \in Thread /\ Noticed(u)
    BY SignalAssumption DEF SigThreads
  <2>2. CASE u = t
    BY <1>3, <2>2 DEF Noticed, Handled
  <2>3. CASE u # t
    <3>1. Handled(u) => Handled(u)'
      BY <1>3, <2>1, HandledKept
    <3>2. pending'[u] = pending[u]
      BY <1>1, <2>1, <2>3 DEF SigThreads, SigTyped
    <3> QED BY <1>1, <2>1, <3>1, <3>2, NoticedKept
  <2> QED BY <2>2, <2>3
<1> QED BY <1>4, <1>5, <1>6, <1>7 DEF SigThreads

\* It goes on: what it links is handled.
LEMMA KillGoesOn ==
  ASSUME SigRuns, SigThreads, NEW c \in Thread, KillWalk(c) \/ KillAlloc(c) \/ KillLink(c)
  PROVE  SigThreads'
<1> DEFINE t == kill[c].to
<1>1. /\ pc[c] \in KillPC /\ kill' = kill /\ pending' = pending /\ mask' = mask
      /\ \E p \in KillPC : pc' = [pc EXCEPT ![c] = p]
      /\ skipped' = skipped /\ flags' = flags /\ frames[c] = << >>
      /\ HandleOnReturn(c) \/ frames' = frames
  BY DEF KillWalk, KillAlloc, KillLink, At, Go, nodes, history, KillPC
<1>2. t \in Thread /\ kill[c].sig \in AnySig
  BY DEF SigThreads, SigTyped
<1>3. /\ free' \in Nat /\ si_list' \in [Thread -> Seq(AnySig)]
      /\ \A u \in Thread \ {t} : si_list'[u] = si_list[u]
  <2>1. CASE KillWalk(c) \/ KillAlloc(c)
    <3>1. si_list' = si_list
      BY <2>1 DEF KillWalk, KillAlloc, nodes
    <3>2. free' = free \/ (free > 0 /\ free' = free - 1)
      BY <2>1 DEF KillWalk, KillAlloc, nodes
    <3> QED BY <3>1, <3>2 DEF SigThreads, SigTyped
  <2>2. CASE KillLink(c)
    <3> DEFINE r == Append(si_list[t], kill[c].sig)
    <3>1. si_list' = [si_list EXCEPT ![t] = r] /\ free' = free
      BY <2>2 DEF KillLink
    <3>2. r \in Seq(AnySig)
      BY <1>2, AppendProperties DEF SigThreads, SigTyped
    <3> HIDE DEF r, t
    <3> QED BY <3>1, <3>2 DEF SigThreads, SigTyped
  <2> QED BY <2>1, <2>2
<1> HIDE DEF t
<1>4. t = kill[c].to
  BY DEF t
<1>5. /\ pc'[c] \in KillPC /\ \A d \in Thread \ {c} : pc'[d] = pc[d]
  BY <1>1 DEF SigRuns
<1>6. /\ frames' \in [Thread -> Seq(Frame)]
      /\ \A u \in Thread \ {c} : frames'[u] = frames[u]
      /\ FrameRules(frames'[c], flags'[c], c \in skipped')
      /\ NoBack(frames'[c])
  BY <1>1, ReturnFrames DEF SigThreads
<1>7. SigTyped'
  BY <1>1, <1>3, <1>6 DEF SigThreads, SigTyped
<1>8. SigFrames'
  BY <1>1, <1>6 DEF SigThreads, SigFrames
<1>9. SigKillers'
  BY <1>1, <1>5 DEF SigThreads, SigKillers
<1>10. ASSUME NEW u \in Receiver
      PROVE  Noticed(u)'
  <2>1. u \in Thread /\ Noticed(u)
    BY SignalAssumption DEF SigThreads
  <2>2. CASE u = t
    BY <1>1, <1>4, <1>5, <2>2 DEF Noticed, Handled
  <2>3. CASE u # t
    <3>1. Handled(u) => Handled(u)'
      BY <1>1, <1>5, <2>1, HandledKept
    <3>2. si_list'[u] = si_list[u] /\ (frames'[u] = frames[u] \/ NoBack(frames'[u]))
      BY <1>3, <1>6, <2>1, <2>3
    <3> QED BY <1>1, <2>1, <3>1, <3>2, NoticedKept
  <2> QED BY <2>2, <2>3
<1> QED BY <1>7, <1>8, <1>9, <1>10 DEF SigThreads

\* The receiver's bits are tested.
LEMMA TestThreads ==
  ASSUME SigRuns, SigThreads, NEW c \in Thread, DeliverTest(c)
  PROVE  SigThreads'
<1> DEFINE t == kill[c].to
<1>1. /\ pc[c] = "kill_test" /\ pending' = pending /\ mask' = mask /\ si_list' = si_list
      /\ free' = free /\ skipped' = skipped /\ flags' = flags /\ frames' = frames
      /\ \/ pc' = [pc EXCEPT ![c] = "kill_deliver"] /\ kill' = kill
         \/ /\ pc' = [pc EXCEPT ![c] = "run"] /\ kill' = [kill EXCEPT ![c] = NoKill]
            /\ Deliverable(t) = {}
  BY DEF DeliverTest, At, Go, nodes, history
<1> HIDE DEF t
<1>2. NoKill \in [to : Thread, sig : AnySig]
  BY KernelAssumption DEF NoKill, AnySig
<1>3. \A d \in Thread \ {c} : pc'[d] = pc[d] /\ kill'[d] = kill[d]
  BY <1>1 DEF SigRuns, SigThreads, SigTyped
<1>4. SigTyped'
  <2>1. kill' = kill \/ kill' = [kill EXCEPT ![c] = NoKill]
    BY <1>1
  <2>2. kill' \in [Thread -> [to : Thread, sig : AnySig]]
    BY <1>2, <2>1 DEF SigThreads, SigTyped
  <2> QED BY <1>1, <2>2 DEF SigThreads, SigTyped
<1>5. SigFrames'
  BY <1>1 DEF SigThreads, SigFrames
<1>6. (pc'[c] = "run" /\ Deliverable(t) = {}) \/ (pc'[c] \in KillPC /\ kill'[c] = kill[c])
  BY <1>1 DEF KillPC, SigRuns
<1>7. pc[c] \in KillPC /\ "run" \notin KillPC
  BY <1>1 DEF KillPC
<1>8. SigKillers'
  BY <1>3, <1>6, <1>7 DEF SigThreads, SigKillers
<1>9. ASSUME NEW u \in Receiver
      PROVE  Noticed(u)'
  <2>1. u \in Thread /\ Noticed(u)
    BY SignalAssumption DEF SigThreads
  <2>2. CASE Deliverable(u) = {}
    <3>1. ~Ripe(u)'
      BY <1>1, <2>2 DEF Ripe, Deliverable
    <3> QED BY <3>1 DEF Noticed
  <2>3. CASE Deliverable(u) # {}
    <3>1. kill[c].to = u => pc'[c] \in KillPC /\ kill'[c].to = u
      BY <1>6, <2>3 DEF t
    <3>2. Handled(u) => Handled(u)'
      BY <1>3, <2>1, <3>1, HandledKept
    <3> QED BY <1>1, <2>1, <3>2, NoticedKept
  <2> QED BY <2>2, <2>3
<1> QED BY <1>4, <1>5, <1>8, <1>9 DEF SigThreads

\* _signal_deliver marks the receiver, and has it look at its list.
LEMMA DeliverThreads ==
  ASSUME SigRuns, SigThreads, NEW c \in Thread,
         DeliverSuspended(c) \/ DeliverSelf(c) \/ DeliverReady(c)
  PROVE  SigThreads'
<1> DEFINE t == kill[c].to
           fl == flags'[t]
           sk == t \in skipped'
<1>1. /\ pc[c] = "kill_deliver" /\ Mark(t) /\ frames[c] = << >>
      /\ \E p \in {"sched", "run"} : pc' = [pc EXCEPT ![c] = p]
      /\ kill' = [kill EXCEPT ![c] = NoKill]
      /\ pending' = pending /\ mask' = mask /\ si_list' = si_list /\ free' = free
      /\ \/ frames' = frames
         \/ t = c /\ Push(c, TRUE)
         \/ "SIGNAL" \notin flags[t] /\ Push(t, FALSE)
  BY DEF DeliverSuspended, DeliverSelf, DeliverReady, Delivered, At, Go, nodes
<1>2. t \in Thread /\ NoKill \in [to : Thread, sig : AnySig]
  BY KernelAssumption DEF NoKill, AnySig, SigThreads, SigTyped
<1> HIDE DEF t
<1>3. /\ \A d \in Thread \ {c} : pc'[d] = pc[d] /\ kill'[d] = kill[d]
      /\ pc'[c] \notin KillPC
  BY <1>1 DEF SigRuns, SigThreads, SigTyped, KillPC
<1>4. /\ flags' = [flags EXCEPT ![t] = @ \cup {"SIGNAL"}]
      /\ skipped' = IF flags[t] # {} THEN skipped \cup {t} ELSE skipped
  BY <1>1 DEF Mark
<1>5. /\ flags' \in [Thread -> SUBSET {"SIGNAL", "SIGNAL_WAIT"}]
      /\ "SIGNAL" \in flags'[t] /\ flags'[t] = flags[t] \cup {"SIGNAL"}
      /\ \A u \in Thread \ {t} : flags'[u] = flags[u] /\ (u \in skipped' <=> u \in skipped)
  BY <1>2, <1>4 DEF SigThreads, SigTyped
<1>6. frames[t] \in Seq(Frame) /\ FrameRules(frames[t], flags[t], t \in skipped)
  BY <1>2 DEF SigThreads, SigTyped, SigFrames
<1>7. t \notin skipped' => t \notin skipped /\ flags[t] = {}
  BY <1>4
<1>8. /\ frames' \in [Thread -> Seq(Frame)]
      /\ \A u \in Thread \ {t} : frames'[u] = frames[u]
      /\ FrameRules(frames'[t], flags'[t], t \in skipped')
      /\ flags[t] = {} => NoBack(frames'[t])
  <2>1. flags[t] = {} => NoBack(frames[t])
    BY <1>6, RulesNoSignal
  <2>2. CASE frames' = frames
    <3>1. /\ "SIGNAL" \in flags[t] => "SIGNAL" \in fl
          /\ ~sk => t \notin skipped /\ ("SIGNAL_WAIT" \in fl => "SIGNAL_WAIT" \in flags[t])
      BY <1>5, <1>7
    <3> DEFINE fs0 == frames[t]
               fl0 == flags[t]
               sk0 == t \in skipped
    <3>2. /\ FrameRules(fs0, fl0, sk0) /\ ("SIGNAL" \in fl0 => "SIGNAL" \in fl)
          /\ ~sk => ~sk0 /\ ("SIGNAL_WAIT" \in fl => "SIGNAL_WAIT" \in fl0)
      BY <1>6, <3>1
    <3> HIDE DEF fs0, fl0, sk0, fl, sk
    <3>3. FrameRules(fs0, fl, sk)
      BY ONLY <3>2, RulesFlags
    <3> QED BY <2>1, <2>2, <3>3 DEF fl, sk, fs0, SigThreads, SigTyped
  <2>3. CASE t = c /\ Push(c, TRUE)
    BY <1>1, <1>2, <2>3, ReturnFrames DEF SigThreads
  <2>4. CASE "SIGNAL" \notin flags[t] /\ Push(t, FALSE)
    <3> DEFINE r == Append(frames[t], TestFrame(FALSE))
    <3>1. frames' = [frames EXCEPT ![t] = r]
      BY <2>4 DEF Push, TestFrame
    <3>2. "SIGNAL" \in fl /\ (~sk => "SIGNAL_WAIT" \notin fl)
      BY <1>5, <1>7
    <3> HIDE DEF fl, sk
    <3>3. r \in Seq(Frame) /\ FrameRules(r, fl, sk) /\ (NoBack(frames[t]) => NoBack(r))
      BY <1>6, <2>4, <3>2, RulesEntry
    <3> HIDE DEF r
    <3>4. /\ frames' \in [Thread -> Seq(Frame)] /\ frames'[t] = r
          /\ \A u \in Thread \ {t} : frames'[u] = frames[u]
      BY <1>2, <3>1, <3>3 DEF SigThreads, SigTyped
    <3> QED BY <2>1, <3>3, <3>4 DEF fl, sk
  <2> QED BY <1>1, <2>2, <2>3, <2>4
<1>9. SigTyped'
  BY <1>1, <1>2, <1>5, <1>8 DEF SigThreads, SigTyped
<1>10. SigFrames'
  <2>1. ASSUME NEW u \in Thread, u # t
        PROVE  FrameRules(frames'[u], flags'[u], u \in skipped')
    <3>1. FrameRules(frames[u], flags[u], u \in skipped)
      BY DEF SigThreads, SigFrames
    <3>2. frames'[u] = frames[u] /\ flags'[u] = flags[u] /\ (u \in skipped' <=> u \in skipped)
      BY <1>5, <1>8, <2>1
    <3> QED BY <3>1, <3>2 DEF FrameRules
  <2> QED BY <1>8, <2>1 DEF SigFrames
<1>11. SigKillers'
  BY <1>3 DEF SigThreads, SigKillers
<1>12. ASSUME NEW u \in Receiver
      PROVE  Noticed(u)'
  <2>1. u \in Thread /\ Noticed(u)
    BY SignalAssumption DEF SigThreads
  <2>2. CASE u = t
    BY <1>5, <1>7, <1>8, <2>2 DEF Noticed
  <2>3. CASE u # t
    <3>1. kill[c].to # u
      BY <2>3 DEF t
    <3>2. Handled(u) => Handled(u)'
      BY <1>3, <2>1, <3>1, HandledKept
    <3> QED BY <1>1, <1>5, <1>8, <2>1, <2>3, <3>2, NoticedKept
  <2> QED BY <2>2, <2>3
<1> QED BY <1>9, <1>10, <1>11, <1>12 DEF SigThreads

\* rt_signal_mask and rt_signal_unmask.
LEMMA MaskThreads ==
  ASSUME SigRuns, SigThreads, NEW t \in Thread, NEW s \in Sig, Mask(t, s) \/ Unmask(t, s)
  PROVE  SigThreads'
<1> DEFINE rec == [to |-> t, sig |-> s]
<1>0. rec \in [to : Thread, sig : AnySig] /\ rec.to = t
  BY DEF AnySig
<1> HIDE DEF rec
<1>1. /\ pc[t] = "run" /\ pending' = pending /\ si_list' = si_list /\ free' = free
      /\ flags' = flags /\ frames' = frames /\ skipped' = skipped
      /\ \/ mask' = [mask EXCEPT ![t] = @ \ {s}] \/ mask' = [mask EXCEPT ![t] = @ \cup {s}]
      /\ \/ kill' = kill /\ (pc' = pc \/ pc' = [pc EXCEPT ![t] = "run"])
         \/ kill' = [kill EXCEPT ![t] = rec] /\ pc' = [pc EXCEPT ![t] = "kill_test"]
  BY DEF Mask, Unmask, At, Go, history, rec
<1>2. \/ mask'[t] \subseteq mask[t] \/ mask'[t] \cap pending[t] = {}
      \/ kill' = [kill EXCEPT ![t] = rec] /\ pc' = [pc EXCEPT ![t] = "kill_test"]
  <2>1. CASE Mask(t, s)
    BY <2>1 DEF Mask, SigThreads, SigTyped
  <2>2. CASE Unmask(t, s)
    BY <2>2 DEF Unmask, Go, rec
  <2> QED BY <2>1, <2>2
<1>3. \A d \in Thread \ {t} : pc'[d] = pc[d] /\ kill'[d] = kill[d] /\ mask'[d] = mask[d]
  BY <1>1 DEF SigRuns, SigThreads, SigTyped
<1>4. pc[t] \notin KillPC /\ (pc'[t] \in KillPC => kill'[t].to = t)
  BY <1>0, <1>1 DEF SigRuns, SigThreads, SigTyped, KillPC
<1>5. SigTyped'
  <2>1. mask' \in [Thread -> SUBSET Sig]
    <3>1. mask[t] \ {s} \in SUBSET Sig /\ mask[t] \cup {s} \in SUBSET Sig
      BY DEF SigThreads, SigTyped
    <3>2. CASE mask' = [mask EXCEPT ![t] = @ \ {s}]
      BY <3>1, <3>2 DEF SigThreads, SigTyped
    <3>3. CASE mask' = [mask EXCEPT ![t] = @ \cup {s}]
      BY <3>1, <3>3 DEF SigThreads, SigTyped
    <3> QED BY <1>1, <3>2, <3>3
  <2>2. kill' \in [Thread -> [to : Thread, sig : AnySig]]
    BY <1>0, <1>1 DEF SigThreads, SigTyped
  <2> QED BY <1>1, <2>1, <2>2 DEF SigThreads, SigTyped
<1>6. SigFrames'
  BY <1>1 DEF SigThreads, SigFrames
<1>7. SigKillers'
  BY <1>3, <1>4 DEF SigThreads, SigKillers
<1>8. ASSUME NEW u \in Receiver
      PROVE  Noticed(u)'
  <2>1. u \in Thread /\ Noticed(u)
    BY SignalAssumption DEF SigThreads
  <2>2. Handled(u) => Handled(u)'
    BY <1>3, <1>4, <2>1, HandledKept
  <2>3. CASE u # t \/ mask'[t] \subseteq mask[t]
    <3>1. mask'[u] \subseteq mask[u]
      BY <1>3, <2>1, <2>3
    <3> QED BY <1>1, <2>1, <2>2, <3>1, NoticedKept
  <2>4. CASE u = t /\ mask'[t] \cap pending[t] = {}
    BY <1>1, <2>4 DEF Noticed, Ripe, Deliverable
  <2>5. CASE u = t /\ kill' = [kill EXCEPT ![t] = rec] /\ pc' = [pc EXCEPT ![t] = "kill_test"]
    <3>1. kill'[t].to = t /\ pc'[t] \in KillPC
      BY <1>0, <2>5 DEF SigRuns, SigThreads, SigTyped, KillPC
    <3> QED BY <2>5, <3>1 DEF Noticed, Handled
  <2> QED BY <1>2, <2>3, <2>4, <2>5
<1> QED BY <1>5, <1>6, <1>7, <1>8 DEF SigThreads

\* What the running thread does outside of deliveries: its program counter stays
\* outside of them, the bits of its state do not lose RT_THREAD_STAT_SIGNAL.
LEMMA SigQuietThreads ==
  ASSUME SigRuns, SigThreads, NEW t \in Thread, frames[t] = << >>,
         kill' = kill, mask' = mask, skipped' = skipped,
         pc[t] \notin KillPC, pc' = pc \/ \E p : p \notin KillPC /\ pc' = [pc EXCEPT ![t] = p],
         HandleOnReturn(t) \/ frames' = frames,
         flags' \in [Thread -> SUBSET {"SIGNAL", "SIGNAL_WAIT"}],
         "SIGNAL" \in flags[t] => "SIGNAL" \in flags'[t],
         \A u \in Thread \ {t} : flags'[u] = flags[u],
         pending' \in [Thread -> SUBSET Sig], si_list' \in [Thread -> Seq(AnySig)],
         free' \in Nat,
         \A u \in Thread : pending'[u] \subseteq pending[u]
                             /\ ToSet(si_list'[u]) \subseteq ToSet(si_list[u])
  PROVE  SigThreads'
<1>1. /\ frames' \in [Thread -> Seq(Frame)]
      /\ \A u \in Thread \ {t} : frames'[u] = frames[u]
      /\ FrameRules(frames'[t], flags'[t], t \in skipped')
      /\ NoBack(frames'[t])
  BY ReturnFrames DEF SigThreads
<1>2. \A d \in Thread \ {t} : pc'[d] = pc[d]
  BY DEF SigRuns
<1>3. pc'[t] \notin KillPC
  BY DEF SigRuns
<1>4. SigTyped'
  BY <1>1 DEF SigThreads, SigTyped
<1>5. SigFrames'
  BY <1>1 DEF SigThreads, SigFrames
<1>6. SigKillers'
  BY <1>2, <1>3 DEF SigThreads, SigKillers
<1>7. ASSUME NEW u \in Receiver
      PROVE  Noticed(u)'
  <2>1. u \in Thread /\ Noticed(u)
    BY SignalAssumption DEF SigThreads
  <2>2. Handled(u) => Handled(u)'
    BY <1>2, <2>1, HandledKept
  <2>3. "SIGNAL" \in flags[u] /\ NoBack(frames[u])
          => "SIGNAL" \in flags'[u] /\ NoBack(frames'[u])
    BY <1>1, <2>1
  <2> QED BY <2>1, <2>2, <2>3, NoticedKept
<1> QED BY <1>4, <1>5, <1>6, <1>7 DEF SigThreads

\* rt_signal_wait.
LEMMA WaitThreads ==
  ASSUME SigRuns, SigThreads, NEW t \in Thread,
         \/ \E ss \in SUBSET Sig \ {{}} : SigWaitNow(t, ss) \/ SigWaitBlock(t, ss)
         \/ SigWaitSchedule(t) \/ SigWaitReturn(t)
  PROVE  SigThreads'
<1> DEFINE Moves ==
             /\ frames[t] = << >> /\ kill' = kill /\ mask' = mask /\ skipped' = skipped
             /\ pc[t] \notin KillPC
             /\ pc' = pc \/ \E p : p \notin KillPC /\ pc' = [pc EXCEPT ![t] = p]
             /\ HandleOnReturn(t) \/ frames' = frames
             /\ \/ flags' = flags \/ flags' = [flags EXCEPT ![t] = @ \cup {"SIGNAL_WAIT"}]
                \/ flags' = [flags EXCEPT ![t] = @ \ {"SIGNAL_WAIT"}]
             /\ \/ pending' = pending /\ si_list' = si_list /\ free' = free
                \/ \E ss : Consume(t, ss)
           Shrinks ==
             /\ pending' \in [Thread -> SUBSET Sig] /\ si_list' \in [Thread -> Seq(AnySig)]
             /\ free' \in Nat
             /\ \A u \in Thread : pending'[u] \subseteq pending[u]
                                    /\ ToSet(si_list'[u]) \subseteq ToSet(si_list[u])
<1>1. Moves
  <2>1. ASSUME NEW ss \in SUBSET Sig \ {{}}, SigWaitNow(t, ss)
        PROVE  Moves
    BY <2>1 DEF SigWaitNow, At, history, KillPC
  <2>2. ASSUME NEW ss \in SUBSET Sig \ {{}}, SigWaitBlock(t, ss)
        PROVE  Moves
    BY <2>2 DEF SigWaitBlock, At, Go, history, nodes, KillPC
  <2>3. CASE SigWaitSchedule(t)
    BY <2>3 DEF SigWaitSchedule, At, Go, history, nodes, KillPC
  <2>4. CASE SigWaitReturn(t)
    BY <2>4 DEF SigWaitReturn, At, Go, history, KillPC
  <2> QED BY <2>1, <2>2, <2>3, <2>4
<1>2. /\ flags' \in [Thread -> SUBSET {"SIGNAL", "SIGNAL_WAIT"}]
      /\ "SIGNAL" \in flags[t] => "SIGNAL" \in flags'[t]
      /\ \A u \in Thread \ {t} : flags'[u] = flags[u]
  <2>0. flags \in [Thread -> SUBSET {"SIGNAL", "SIGNAL_WAIT"}]
    BY DEF SigThreads, SigTyped
  <2>1. CASE flags' = flags
    BY <2>0, <2>1
  <2>2. CASE flags' = [flags EXCEPT ![t] = @ \cup {"SIGNAL_WAIT"}]
    BY <2>0, <2>2
  <2>3. CASE flags' = [flags EXCEPT ![t] = @ \ {"SIGNAL_WAIT"}]
    BY <2>0, <2>3
  <2> QED BY <1>1, <2>1, <2>2, <2>3
<1>3. Shrinks
  <2>1. CASE pending' = pending /\ si_list' = si_list /\ free' = free
    BY <2>1 DEF SigThreads, SigTyped
  <2>2. ASSUME NEW ss, Consume(t, ss)
        PROVE  Shrinks
    BY <2>2, ConsumeTakes DEF SigThreads
  <2> QED BY <1>1, <2>1, <2>2
<1> QED BY <1>1, <1>2, <1>3, SigQuietThreads

\* The semaphore, ...
LEMMA TakeThreads ==
  ASSUME SigRuns, SigThreads, TakeStep(k.cur)
  PROVE  SigThreads'
<1> DEFINE t == k.cur
<1>1. /\ t \in Thread /\ frames[t] = << >> /\ kill' = kill /\ mask' = mask
      /\ skipped' = skipped /\ flags' = flags
      /\ pending' = pending /\ si_list' = si_list /\ free' = free
  BY SigRunsFacts DEF TakeStep, quiet, nodes, history
<1>2. HandleOnReturn(t) \/ frames' = frames
  BY DEF TakeStep
<1> DEFINE Moves == /\ pc[t] \notin KillPC
                    /\ pc' = pc \/ \E p : p \notin KillPC /\ pc' = [pc EXCEPT ![t] = p]
<1>3. Moves
  <2>1. CASE TakeAvailable(t)
    BY <2>1 DEF TakeAvailable, KillPC
  <2>2. CASE TakeBlock(t, TRUE)
    BY <2>2 DEF TakeBlock, KillPC
  <2>3. CASE TakeReturn(t)
    BY <2>3 DEF TakeReturn, KillPC
  <2>4. ASSUME NEW new \in Thread, Startup(t, new)
        PROVE  Moves
    BY <2>4 DEF Startup, KillPC
  <2>5. CASE TakeSchedule(t) \/ Schedule(t)
    BY <2>5 DEF TakeSchedule, Schedule, KillPC
  <2> QED BY <2>1, <2>2, <2>3, <2>4, <2>5 DEF TakeStep
<1> HIDE DEF t
<1>4. /\ flags' \in [Thread -> SUBSET {"SIGNAL", "SIGNAL_WAIT"}]
      /\ pending' \in [Thread -> SUBSET Sig] /\ si_list' \in [Thread -> Seq(AnySig)]
      /\ free' \in Nat
  BY <1>1 DEF SigThreads, SigTyped
<1> QED BY <1>1, <1>2, <1>3, <1>4, SigQuietThreads

\* ... and interrupts that release it.
LEMMA InterruptThreads ==
  ASSUME SigThreads, SigInterrupt
  PROVE  SigThreads'
<1>1. UNCHANGED <<pending, mask, si_list, free, flags, frames, kill, skipped>>
  BY DEF SigInterrupt, quiet, nodes, history
<1>2. pc' = pc
  BY DEF SigInterrupt, Interrupt, IsrRelease, TimerExpire, TickYield
<1>3. \A u \in Thread : Handled(u)' <=> Handled(u)
  BY <1>1, <1>2 DEF Handled
<1>4. \A u \in Receiver : Noticed(u)' <=> Noticed(u)
  BY <1>1, <1>3, SignalAssumption DEF Noticed, Ripe, Deliverable
<1>5. SigTyped' /\ SigFrames' /\ SigKillers'
  BY <1>1, <1>2 DEF SigThreads, SigTyped, SigFrames, SigKillers
<1> QED BY <1>4, <1>5 DEF SigThreads

-----------------------------------------------------------------------------
(* The nodes.                                                              *)

\* How many of the activations fs run a handler.
Handlers(fs) == {i \in DOMAIN fs : fs[i].at = "handler"}
Held(fs)     == Cardinality(Handlers(fs))
OfTop(f)     == IF f.at = "handler" THEN 1 ELSE 0

LEMMA HandlersFinite ==
  ASSUME NEW fs \in Seq(Frame)
  PROVE  IsFiniteSet(Handlers(fs)) /\ Held(fs) \in Nat
<1>1. Len(fs) \in Nat /\ DOMAIN fs = 1 .. Len(fs)
  BY LenProperties
<1>2. IsFiniteSet(1 .. Len(fs))
  BY <1>1, FS_Interval
<1>3. Handlers(fs) \subseteq 1 .. Len(fs)
  BY <1>1 DEF Handlers
<1> QED BY <1>2, <1>3, FS_Subset, FS_CardinalityType DEF Held

\* Two lists of activations that agree below n, the last of each.
LEMMA HeldBelow ==
  ASSUME NEW fs \in Seq(Frame), NEW gs \in Seq(Frame), NEW n \in Nat \ {0},
         \/ Len(gs) = n
         \/ Len(gs) = n - 1,
         Len(fs) = n, \A i \in 1 .. (n - 1) : gs[i] = fs[i]
  PROVE  Held(gs) = Held(fs) - OfTop(fs[n]) + IF Len(gs) = n THEN OfTop(gs[n]) ELSE 0
<1> DEFINE B == Handlers(fs) \ {n}
<1>1. DOMAIN fs = 1 .. n /\ DOMAIN gs = 1 .. Len(gs)
  BY LenProperties
<1>2. /\ \A i : i \in Handlers(fs) <=> i \in 1 .. n /\ fs[i].at = "handler"
      /\ \A i : i \in Handlers(gs) <=> i \in 1 .. Len(gs) /\ gs[i].at = "handler"
  BY <1>1 DEF Handlers
<1>0. \A i : i \in 1 .. n <=> i \in 1 .. (n - 1) \/ i = n
  OBVIOUS
<1>3. IsFiniteSet(Handlers(fs)) /\ IsFiniteSet(B)
  BY HandlersFinite, FS_Subset
<1>4. Cardinality(B) \in Nat /\ n \notin B
  BY <1>3, FS_CardinalityType
<1>b. \A i : i \in B <=> i \in 1 .. (n - 1) /\ fs[i].at = "handler"
  BY <1>0, <1>2
<1> HIDE DEF B
<1>5. Handlers(fs) = IF fs[n].at = "handler" THEN B \cup {n} ELSE B
  BY <1>0, <1>2, <1>b
<1>6. Handlers(gs) = IF Len(gs) = n /\ gs[n].at = "handler" THEN B \cup {n} ELSE B
  <2>1. \A i \in 1 .. (n - 1) : i \in 1 .. Len(gs) /\ gs[i] = fs[i]
    OBVIOUS
  <2>2. CASE Len(gs) = n
    <3>1. \A i : i \in Handlers(gs) <=> i \in B \/ (i = n /\ gs[n].at = "handler")
      BY <1>0, <1>2, <1>b, <2>1, <2>2
    <3> QED BY <2>2, <3>1
  <2>3. CASE Len(gs) = n - 1
    <3>1. \A i : i \in Handlers(gs) <=> i \in B
      BY <1>2, <1>b, <2>1, <2>3
    <3>2. Handlers(gs) = B
      BY <3>1
    <3>3. Len(gs) # n
      BY <2>3
    <3> QED BY <3>2, <3>3
  <2> QED BY <2>2, <2>3
<1>7. Cardinality(B \cup {n}) = Cardinality(B) + 1
  BY <1>3, <1>4, FS_AddElement
<1>8. Held(fs) = Cardinality(B) + OfTop(fs[n])
  BY <1>4, <1>5, <1>7 DEF Held, OfTop
<1>9. Held(gs) = Cardinality(B) + IF Len(gs) = n THEN OfTop(gs[n]) ELSE 0
  BY <1>4, <1>6, <1>7 DEF Held, OfTop
<1> QED BY <1>4, <1>8, <1>9 DEF OfTop

LEMMA HeldFront ==
  ASSUME NEW fs \in Seq(Frame), fs # << >>, NEW r, r = Front(fs)
  PROVE  Held(r) = Held(fs) - OfTop(fs[Len(fs)])
<1>1. /\ r \in Seq(Frame) /\ Len(r) = Len(fs) - 1 /\ Len(fs) \in Nat \ {0}
      /\ \A i \in 1 .. (Len(fs) - 1) : r[i] = fs[i]
  BY FrontElements
<1>2. Held(r) = Held(fs) - OfTop(fs[Len(fs)]) + IF Len(r) = Len(fs) THEN OfTop(r[Len(fs)]) ELSE 0
  BY <1>1, HeldBelow
<1> QED BY <1>1, <1>2, HandlersFinite DEF OfTop

LEMMA HeldTop ==
  ASSUME NEW fs \in Seq(Frame), fs # << >>, NEW f \in Frame,
         NEW r, r = [fs EXCEPT ![Len(fs)] = f]
  PROVE  Held(r) = Held(fs) - OfTop(fs[Len(fs)]) + OfTop(f)
<1>1. Len(fs) \in Nat \ {0} /\ Len(fs) \in 1 .. Len(fs)
  BY LenProperties, EmptySeq
<1>2. /\ r \in Seq(Frame) /\ Len(r) = Len(fs)
      /\ \A i \in 1 .. Len(fs) : r[i] = IF i = Len(fs) THEN f ELSE fs[i]
  BY <1>1, ExceptSeq
<1>3. r[Len(fs)] = f /\ \A i \in 1 .. (Len(fs) - 1) : r[i] = fs[i]
  <2>1. \A i \in 1 .. (Len(fs) - 1) : i \in 1 .. Len(fs) /\ i # Len(fs)
    BY <1>1
  <2> QED BY <1>1, <1>2, <2>1
<1>4. Held(r) = Held(fs) - OfTop(fs[Len(fs)]) + IF Len(r) = Len(fs) THEN OfTop(r[Len(fs)]) ELSE 0
  BY <1>1, <1>2, <1>3, HeldBelow
<1> QED BY <1>2, <1>3, <1>4

LEMMA HeldPush ==
  ASSUME NEW fs \in Seq(Frame), NEW clean \in BOOLEAN,
         NEW r, r = Append(fs, TestFrame(clean))
  PROVE  Held(r) = Held(fs)
<1> DEFINE f == TestFrame(clean)
<1>1. f \in Frame /\ f.at = "test" /\ Len(fs) \in Nat
  BY TestFrameType, LenProperties DEF TestFrame
<1>2. r = Append(fs, f)
  OBVIOUS
<1> HIDE DEF f
<1>3. /\ Append(fs, f) \in Seq(Frame) /\ Len(Append(fs, f)) = Len(fs) + 1
      /\ \A i \in 1 .. Len(fs) : Append(fs, f)[i] = fs[i]
      /\ Append(fs, f)[Len(fs) + 1] = f
  BY <1>1, AppendProperties
<1>4. /\ r \in Seq(Frame) /\ Len(r) = Len(fs) + 1
      /\ \A i \in 1 .. Len(fs) : r[i] = fs[i]
      /\ r[Len(fs) + 1] = f
  BY ONLY <1>2, <1>3
<1>5. DOMAIN fs = 1 .. Len(fs) /\ DOMAIN r = 1 .. (Len(fs) + 1)
  BY <1>4, LenProperties
<1>6. Handlers(r) = Handlers(fs)
  BY <1>1, <1>4, <1>5 DEF Handlers
<1> QED BY <1>6 DEF Held

\* Every siginfo node is free, in the hand of somebody, or in a list.
SigNodes ==
  wild = "no" => PoolSize = free + Total(in_hand, Thread) + Total(listed, Thread)

HeldFacts ==
  /\ in_hand \in [Thread -> Nat] /\ listed \in [Thread -> Nat]
  /\ \A t \in Thread :
       /\ in_hand[t] = Held(frames[t]) + IF pc[t] = "kill_link" THEN 1 ELSE 0
       /\ listed[t] = Len(si_list[t])

LEMMA HeldTypes == SigTyped => HeldFacts
<1> SUFFICES ASSUME SigTyped PROVE HeldFacts
  OBVIOUS
<1>1. \A t \in Thread : /\ frames[t] \in Seq(Frame) /\ Held(frames[t]) \in Nat
                        /\ Len(si_list[t]) \in Nat
  BY HandlersFinite, LenProperties DEF SigTyped
<1>2. \A t \in Thread : in_hand[t] = Held(frames[t]) + IF pc[t] = "kill_link" THEN 1 ELSE 0
  BY DEF in_hand, Held, Handlers
<1>3. DOMAIN in_hand = Thread /\ in_hand = [t \in Thread |-> in_hand[t]]
  BY DEF in_hand
<1>4. \A t \in Thread : in_hand[t] \in Nat
  BY <1>1, <1>2
<1>5. in_hand \in [Thread -> Nat]
  BY <1>3, <1>4
<1> QED BY <1>1, <1>2, <1>5 DEF listed, HeldFacts

\* A step that moves nodes between the pool, the hand of t and the list of v.
LEMMA NodesMove ==
  ASSUME SigTyped, SigTyped', SigNodes, wild' = "no" => wild = "no",
         NEW t \in Thread, NEW v \in Thread,
         \A u \in Thread \ {t} : in_hand'[u] = in_hand[u],
         \A u \in Thread \ {v} : listed'[u] = listed[u],
         free' + in_hand'[t] + listed'[v] = free + in_hand[t] + listed[v]
  PROVE  SigNodes'
<1> DEFINE h1 == in_hand
           h2 == in_hand'
           l1 == listed
           l2 == listed'
<1>1. /\ h1 \in [Thread -> Nat] /\ h2 \in [Thread -> Nat]
      /\ l1 \in [Thread -> Nat] /\ l2 \in [Thread -> Nat]
      /\ free \in Nat /\ free' \in Nat /\ PoolSize \in Nat
  <2>1. HeldFacts /\ HeldFacts'
    BY HeldTypes, PTL
  <2> QED BY <2>1, SignalAssumption DEF SigTyped, HeldFacts
<1>2. \A u \in Thread : u # t => h2[u] = h1[u]
  OBVIOUS
<1>3. \A u \in Thread : u # v => l2[u] = l1[u]
  OBVIOUS
<1>4. free' + h2[t] + l2[v] = free + h1[t] + l1[v]
  OBVIOUS
<1>5. wild = "no" => PoolSize = free + Total(h1, Thread) + Total(l1, Thread)
  BY DEF SigNodes
<1> HIDE DEF h1, h2, l1, l2
<1>6. Total(h2, Thread) = Total(h1, Thread) - h1[t] + h2[t]
  BY <1>1, <1>2, TotalChange, KernelAssumption
<1>7. Total(l2, Thread) = Total(l1, Thread) - l1[v] + l2[v]
  BY <1>1, <1>3, TotalChange, KernelAssumption
<1>8. Total(h1, Thread) \in Nat /\ Total(l1, Thread) \in Nat
  BY <1>1, TotalBounds, KernelAssumption
<1>9. /\ h1[t] \in Nat /\ h2[t] \in Nat /\ l1[v] \in Nat /\ l2[v] \in Nat
  BY <1>1
<1>10. free' + Total(h2, Thread) + Total(l2, Thread) = free + Total(h1, Thread) + Total(l1, Thread)
  <2> DEFINE f1 == free
             f2 == free'
             H1 == Total(h1, Thread)
             H2 == Total(h2, Thread)
             L1 == Total(l1, Thread)
             L2 == Total(l2, Thread)
             a1 == h1[t]
             a2 == h2[t]
             b1 == l1[v]
             b2 == l2[v]
  <2>1. /\ f1 \in Nat /\ f2 \in Nat /\ H1 \in Nat /\ L1 \in Nat
        /\ a1 \in Nat /\ a2 \in Nat /\ b1 \in Nat /\ b2 \in Nat
        /\ f2 + a2 + b2 = f1 + a1 + b1 /\ H2 = H1 - a1 + a2 /\ L2 = L1 - b1 + b2
    BY <1>1, <1>4, <1>6, <1>7, <1>8, <1>9
  <2> HIDE DEF f1, f2, H1, H2, L1, L2, a1, a2, b1, b2
  <2>2. f2 + H2 + L2 = f1 + H1 + L1
    BY ONLY <2>1
  <2> QED BY <2>2 DEF f1, f2, H1, H2, L1, L2
<1>11. wild' = "no" => PoolSize = free' + Total(h2, Thread) + Total(l2, Thread)
  BY <1>5, <1>10
<1> QED BY <1>11 DEF SigNodes, h2, l2

\* A step that leaves every node where it is.
LEMMA NodesStay ==
  ASSUME SigTyped, SigTyped', SigNodes, wild' = "no" => wild = "no",
         free' = free, si_list' = si_list,
         \A u \in Thread : Held(frames'[u]) = Held(frames[u]),
         \A u \in Thread : pc'[u] = "kill_link" <=> pc[u] = "kill_link"
  PROVE  SigNodes'
<1>1. HeldFacts /\ HeldFacts'
  BY HeldTypes, PTL
<1>2. \A u \in Thread : in_hand'[u] = in_hand[u] /\ listed'[u] = listed[u]
  BY <1>1 DEF HeldFacts
<1>3. Idle \in Thread
  BY KernelAssumption
<1> QED BY <1>2, <1>3, NodesMove

\* A new activation holds nothing.
LEMMA PushHolds ==
  ASSUME SigTyped, NEW t \in Thread, NEW clean \in BOOLEAN, Push(t, clean)
  PROVE  \A u \in Thread : Held(frames'[u]) = Held(frames[u])
<1> DEFINE r == Append(frames[t], TestFrame(clean))
<1>1. frames' = [frames EXCEPT ![t] = r] /\ frames[t] \in Seq(Frame)
  BY DEF Push, TestFrame, SigTyped
<1>2. Held(r) = Held(frames[t])
  BY <1>1, HeldPush
<1> HIDE DEF r
<1> QED BY <1>1, <1>2 DEF SigTyped

\* rt_thread_handle_sig gives back the node of the handler that has returned and
\* takes the next one.
LEMMA HandlerNodes ==
  ASSUME SigTyped, SigTyped', SigNodes, wild' = wild,
         NEW t \in Thread, HandleBegin(t) \/ HandleEnd(t)
  PROVE  SigNodes'
<1>1. /\ frames[t] # << >> /\ (Took(t) \/ Done(t)) /\ pc' = pc
      /\ free' = IF top(t).at = "handler" THEN free + 1 ELSE free
  BY HandlerMoves
<1>2. /\ frames[t] \in Seq(Frame) /\ top(t) = frames[t][Len(frames[t])] /\ top(t) \in Frame
      /\ Held(frames[t]) \in Nat /\ free \in Nat
      /\ si_list[t] \in Seq(AnySig) /\ Len(si_list[t]) \in Nat
  BY <1>1, TopFrame, HandlersFinite, LenProperties DEF SigTyped
<1>3. HeldFacts /\ HeldFacts'
  BY HeldTypes, PTL
<1>4. /\ \A u \in Thread \ {t} : frames'[u] = frames[u] /\ si_list'[u] = si_list[u]
      /\ Held(frames'[t]) + Len(si_list'[t])
           = Held(frames[t]) - OfTop(top(t)) + Len(si_list[t])
  <2>1. CASE Took(t)
    <3> DEFINE f == [top(t) EXCEPT !.at = "handler", !.node = Head(si_list[t])]
               r == [frames[t] EXCEPT ![Len(frames[t])] = f]
               l == Tail(si_list[t])
    <3>1. si_list[t] # << >> /\ si_list' = [si_list EXCEPT ![t] = l]
          /\ frames' = [frames EXCEPT ![t] = r]
      BY <2>1 DEF Took, SetTop
    <3>2. Len(l) = Len(si_list[t]) - 1 /\ Head(si_list[t]) \in AnySig
      BY <1>2, <3>1, TailElements
    <3>3. f \in Frame /\ OfTop(f) = 1
      BY <1>2, <3>2 DEF Frame, OfTop, AnySig
    <3> HIDE DEF f, l
    <3>4. Held(r) = Held(frames[t]) - OfTop(top(t)) + OfTop(f)
      BY <1>1, <1>2, <3>3, HeldTop
    <3> HIDE DEF r
    <3>5. /\ \A u \in Thread \ {t} : frames'[u] = frames[u] /\ si_list'[u] = si_list[u]
          /\ frames'[t] = r /\ si_list'[t] = l
      BY <3>1 DEF SigTyped
    <3>6. OfTop(top(t)) \in Int
      BY DEF OfTop
    <3>7. Held(r) + Len(l) = Held(frames[t]) - OfTop(top(t)) + Len(si_list[t])
      <4> DEFINE a == Held(r)
                 b == Len(l)
                 c == Held(frames[t])
                 d == OfTop(top(t))
                 e == Len(si_list[t])
      <4>1. c \in Nat /\ d \in Int /\ e \in Nat /\ a = c - d + 1 /\ b = e - 1
        BY <1>2, <3>2, <3>3, <3>4, <3>6
      <4> HIDE DEF a, b, c, d, e
      <4>2. a + b = c - d + e
        BY ONLY <4>1
      <4> QED BY <4>2 DEF a, b, c, d, e
    <3> QED BY <3>5, <3>7
  <2>2. CASE ~Took(t) /\ top(t).clean
    <3> DEFINE r == Front(frames[t])
    <3>1. frames' = [frames EXCEPT ![t] = r] /\ si_list' = si_list
      BY <1>1, <2>2 DEF Done, Pop
    <3>2. Held(r) = Held(frames[t]) - OfTop(top(t))
      BY <1>1, <1>2, HeldFront
    <3> HIDE DEF r
    <3> QED BY <3>1, <3>2 DEF SigTyped
  <2>3. CASE ~Took(t) /\ ~top(t).clean
    <3>1. PICK n \in AnySig : SetTop(t, [top(t) EXCEPT !.at = "back", !.node = n])
      BY <1>1, <2>3 DEF Done
    <3> DEFINE f == [top(t) EXCEPT !.at = "back", !.node = n]
               r == [frames[t] EXCEPT ![Len(frames[t])] = f]
    <3>2. frames' = [frames EXCEPT ![t] = r] /\ si_list' = si_list
      BY <1>1, <2>3, <3>1 DEF Done, SetTop
    <3>3. f \in Frame /\ OfTop(f) = 0
      BY <1>2 DEF Frame, OfTop, AnySig
    <3> HIDE DEF f
    <3>4. Held(r) = Held(frames[t]) - OfTop(top(t)) + OfTop(f)
      BY <1>1, <1>2, <3>3, HeldTop
    <3> HIDE DEF r
    <3>5. Held(r) = Held(frames[t]) - OfTop(top(t))
      BY <1>2, <3>3, <3>4 DEF OfTop
    <3> QED BY <3>2, <3>5 DEF SigTyped
  <2> QED BY <1>1, <2>1, <2>2, <2>3
<1>5. \A u \in Thread \ {t} : in_hand'[u] = in_hand[u] /\ listed'[u] = listed[u]
  BY <1>1, <1>3, <1>4 DEF HeldFacts
<1>6. free' = free + OfTop(top(t)) /\ OfTop(top(t)) \in {0, 1}
  BY <1>1, <1>2 DEF OfTop
<1>7. free' + in_hand'[t] + listed'[t] = free + in_hand[t] + listed[t]
  <2> DEFINE j == IF pc[t] = "kill_link" THEN 1 ELSE 0
  <2>1. j \in {0, 1} /\ in_hand[t] = Held(frames[t]) + j /\ listed[t] = Len(si_list[t])
        /\ in_hand'[t] = Held(frames'[t]) + j /\ listed'[t] = Len(si_list'[t])
        /\ in_hand'[t] \in Nat /\ listed'[t] \in Nat
    BY <1>1, <1>3 DEF HeldFacts
  <2> HIDE DEF j
  <2>2. Held(frames'[t]) \in Int /\ Len(si_list'[t]) \in Nat
    <3>1. frames'[t] \in Seq(Frame)
      BY DEF SigTyped
    <3> QED BY <2>1, <3>1, HandlersFinite
  <2> DEFINE a1 == Held(frames[t])
             a2 == Held(frames'[t])
             b1 == Len(si_list[t])
             b2 == Len(si_list'[t])
             d  == OfTop(top(t))
             f1 == free
  <2>3. /\ a1 \in Nat /\ a2 \in Int /\ b1 \in Nat /\ b2 \in Nat /\ d \in Int /\ f1 \in Nat
        /\ a2 + b2 = a1 - d + b1 /\ j \in Int
    BY <1>2, <1>4, <1>6, <2>1, <2>2
  <2>4. /\ free' = f1 + d /\ in_hand'[t] = a2 + j /\ listed'[t] = b2
        /\ free = f1 /\ in_hand[t] = a1 + j /\ listed[t] = b1
    BY <1>6, <2>1
  <2> HIDE DEF a1, a2, b1, b2, d, f1
  <2>5. (f1 + d) + (a2 + j) + b2 = f1 + (a1 + j) + b1
    BY ONLY <2>3
  <2> QED BY <2>4, <2>5
<1> QED BY <1>5, <1>7, NodesMove

\* rt_mp_alloc of the sender, and the link into the list of the receiver.
LEMMA SenderNodes ==
  ASSUME SigRuns, SigTyped, SigTyped', SigNodes, wild' = wild,
         NEW c \in Thread, KillAlloc(c) \/ KillLink(c)
  PROVE  SigNodes'
<1> DEFINE t == kill[c].to
<1>0. HeldFacts /\ HeldFacts' /\ t \in Thread /\ pc \in [Thread -> SigPC]
  <2>1. HeldFacts /\ HeldFacts'
    BY HeldTypes, PTL
  <2> QED BY <2>1 DEF SigTyped, SigRuns
<1>1. frames' = frames /\ \A u \in Thread : Held(frames[u]) \in Nat /\ Len(si_list[u]) \in Nat
  BY HandlersFinite, LenProperties DEF KillAlloc, KillLink, SigTyped
<1>2. CASE KillAlloc(c)
  <2>1. /\ pc[c] = "kill_alloc" /\ si_list' = si_list
        /\ \/ free' = free - 1 /\ pc' = [pc EXCEPT ![c] = "kill_link"]
           \/ free' = free /\ pc' = [pc EXCEPT ![c] = "kill_test"]
    BY <1>2 DEF KillAlloc, At, Go
  <2>2. \A u \in Thread \ {c} : pc'[u] = pc[u]
    BY <1>0, <2>1
  <2>3. /\ \A u \in Thread \ {c} : in_hand'[u] = in_hand[u]
        /\ \A u \in Thread : listed'[u] = listed[u]
    BY <1>0, <1>1, <2>1, <2>2 DEF HeldFacts
  <2>4. in_hand[c] = Held(frames[c]) /\ in_hand[c] \in Nat /\ listed[c] \in Nat /\ free \in Nat
    BY <1>0, <1>1, <2>1 DEF HeldFacts, SigTyped
  <2>5. CASE free' = free - 1 /\ pc' = [pc EXCEPT ![c] = "kill_link"]
    <3>1. in_hand'[c] = in_hand[c] + 1
      BY <1>0, <1>1, <2>4, <2>5 DEF HeldFacts
    <3> QED BY <2>3, <2>4, <2>5, <3>1, NodesMove
  <2>6. CASE free' = free /\ pc' = [pc EXCEPT ![c] = "kill_test"]
    <3>1. in_hand'[c] = in_hand[c]
      BY <1>0, <1>1, <2>4, <2>6 DEF HeldFacts
    <3> QED BY <2>3, <2>4, <2>6, <3>1, NodesMove
  <2> QED BY <2>1, <2>5, <2>6
<1>3. CASE KillLink(c)
  <2> DEFINE r == Append(si_list[t], kill[c].sig)
  <2>1. /\ pc[c] = "kill_link" /\ pc' = [pc EXCEPT ![c] = "kill_test"] /\ free' = free
        /\ si_list' = [si_list EXCEPT ![t] = r]
    BY <1>3 DEF KillLink, At, Go
  <2>2. Len(r) = Len(si_list[t]) + 1
    BY <1>0, AppendProperties DEF SigTyped
  <2> HIDE DEF r, t
  <2>3. /\ \A u \in Thread \ {c} : pc'[u] = pc[u]
        /\ pc'[c] = "kill_test"
        /\ \A u \in Thread \ {t} : si_list'[u] = si_list[u]
        /\ Len(si_list'[t]) = Len(si_list[t]) + 1
    BY <1>0, <2>1, <2>2 DEF SigTyped
  <2>4. /\ \A u \in Thread \ {c} : in_hand'[u] = in_hand[u]
        /\ \A u \in Thread \ {t} : listed'[u] = listed[u]
    BY <1>0, <1>1, <2>3 DEF HeldFacts
  <2>5. /\ in_hand[c] = in_hand'[c] + 1 /\ listed'[t] = listed[t] + 1
        /\ in_hand'[c] \in Nat /\ listed[t] \in Nat /\ free \in Nat
    BY <1>0, <1>1, <2>1, <2>3 DEF HeldFacts, SigTyped
  <2>6. free' + in_hand'[c] + listed'[t] = free + in_hand[c] + listed[t]
    BY <2>1, <2>5
  <2> QED BY <1>0, <2>4, <2>6, NodesMove
<1> QED BY <1>2, <1>3

\* rt_signal_wait gives back what it takes out of the list.
LEMMA WaitNodes ==
  ASSUME SigRuns, SigTyped, SigTyped', SigNodes, wild = "no", NEW t \in Thread,
         \/ \E ss \in SUBSET Sig \ {{}} : SigWaitNow(t, ss)
         \/ SigWaitReturn(t)
  PROVE  SigNodes'
<1>0. HeldFacts /\ HeldFacts' /\ pc \in [Thread -> SigPC]
  <2>1. HeldFacts /\ HeldFacts'
    BY HeldTypes, PTL
  <2> QED BY <2>1 DEF SigRuns
<1>1. /\ frames' = frames /\ pc[t] \in {"run", "sw_woken"}
      /\ pc' = pc \/ pc' = [pc EXCEPT ![t] = "run"]
      /\ \/ pending' = pending /\ si_list' = si_list /\ free' = free
         \/ \E ss : Consume(t, ss)
  BY DEF SigWaitNow, SigWaitReturn, At, Go
<1>2. \A u \in Thread : pc'[u] = "kill_link" <=> pc[u] = "kill_link"
  BY <1>0, <1>1
<1>3. \A u \in Thread : in_hand'[u] = in_hand[u]
  BY <1>0, <1>1, <1>2 DEF HeldFacts
<1>4. /\ \A u \in Thread \ {t} : si_list'[u] = si_list[u]
      /\ Len(si_list'[t]) + free' = Len(si_list[t]) + free
  <2>1. CASE pending' = pending /\ si_list' = si_list /\ free' = free
    BY <2>1
  <2>2. ASSUME NEW ss, Consume(t, ss)
        PROVE  /\ \A u \in Thread \ {t} : si_list'[u] = si_list[u]
               /\ Len(si_list'[t]) + free' = Len(si_list[t]) + free
    BY <2>2, ConsumeTakes
  <2> QED BY <1>1, <2>1, <2>2
<1>5. \A u \in Thread \ {t} : listed'[u] = listed[u]
  BY <1>0, <1>4 DEF HeldFacts
<1>6. free' + in_hand'[t] + listed'[t] = free + in_hand[t] + listed[t]
  <2>1. /\ listed'[t] + free' = listed[t] + free /\ in_hand'[t] = in_hand[t]
        /\ in_hand[t] \in Nat /\ listed[t] \in Nat /\ listed'[t] \in Nat
        /\ free \in Nat /\ free' \in Nat
    BY <1>0, <1>3, <1>4 DEF HeldFacts, SigTyped
  <2> QED BY ONLY <2>1
<1> QED BY <1>3, <1>5, <1>6, NodesMove

\* Nothing else moves a node.
LEMMA OtherNodes ==
  ASSUME SigRuns, SigTyped, SigTyped', SigNodes, wild = "no", NEW t \in Thread,
         \/ EntryReturn(t)
         \/ \E to \in Receiver, s \in Sig : Kill(t, to, s)
         \/ KillWalk(t) \/ DeliverTest(t)
         \/ DeliverSuspended(t) \/ DeliverSelf(t) \/ DeliverReady(t)
         \/ \E s \in Sig : Mask(t, s) \/ Unmask(t, s)
         \/ \E ss \in SUBSET Sig \ {{}} : SigWaitBlock(t, ss)
         \/ SigWaitSchedule(t)
         \/ t = k.cur /\ TakeStep(t)
         \/ SigInterrupt
  PROVE  SigNodes'
<1> DEFINE Frees == free' = free /\ si_list' = si_list
           Steps == \/ pc' = pc
                    \/ pc[t] # "kill_link" /\ \E p : p # "kill_link" /\ pc' = [pc EXCEPT ![t] = p]
           Stack == \/ frames' = frames
                    \/ \E u \in Thread, clean \in BOOLEAN : Push(u, clean)
                    \/ frames[t] # << >> /\ top(t).at = "back" /\ Pop(t)
<1>1. Frees /\ Steps /\ Stack
  <2>0. \A c \in Thread : kill[c].to \in Thread
    BY DEF SigTyped
  <2>1. CASE EntryReturn(t)
    BY <2>1 DEF EntryReturn, Running, nodes
  <2>2. ASSUME NEW to \in Receiver, NEW s \in Sig, Kill(t, to, s)
        PROVE  Frees /\ Steps /\ Stack
    BY <2>2 DEF Kill, At, Go
  <2>3. CASE KillWalk(t) \/ SigWaitSchedule(t)
    BY <2>3 DEF KillWalk, SigWaitSchedule, HandleOnReturn, At, Go, nodes
  <2>4. CASE DeliverTest(t)
    BY <2>4 DEF DeliverTest, At, Go, nodes
  <2>5. CASE DeliverSuspended(t) \/ DeliverSelf(t) \/ DeliverReady(t)
    BY <2>0, <2>5 DEF DeliverSuspended, DeliverSelf, DeliverReady, Delivered, At, Go, nodes
  <2>6. ASSUME NEW s \in Sig, Mask(t, s) \/ Unmask(t, s)
        PROVE  Frees /\ Steps /\ Stack
    BY <2>6 DEF Mask, Unmask, At, Go
  <2>7. ASSUME NEW ss \in SUBSET Sig \ {{}}, SigWaitBlock(t, ss)
        PROVE  Frees /\ Steps /\ Stack
    BY <2>7 DEF SigWaitBlock, At, Go, nodes
  <2>8. CASE t = k.cur /\ TakeStep(t)
    <3>1. Frees /\ Stack
      BY <2>8 DEF TakeStep, HandleOnReturn, quiet, nodes
    <3>2. CASE TakeAvailable(t)
      BY <3>1, <3>2 DEF TakeAvailable
    <3>3. CASE TakeBlock(t, TRUE)
      BY <3>1, <3>3 DEF TakeBlock
    <3>4. CASE TakeReturn(t)
      BY <3>1, <3>4 DEF TakeReturn
    <3>5. ASSUME NEW new \in Thread, Startup(t, new)
          PROVE  Frees /\ Steps /\ Stack
      BY <3>1, <3>5 DEF Startup
    <3>6. CASE TakeSchedule(t) \/ Schedule(t)
      BY <3>1, <3>6 DEF TakeSchedule, Schedule
    <3> QED BY <2>8, <3>2, <3>3, <3>4, <3>5, <3>6 DEF TakeStep
  <2>9. CASE SigInterrupt
    <3>1. pc' = pc
      BY <2>9 DEF SigInterrupt, Interrupt, IsrRelease, TimerExpire, TickYield
    <3> QED BY <2>9, <3>1 DEF SigInterrupt, quiet, nodes
  <2> QED BY <2>1, <2>2, <2>3, <2>4, <2>5, <2>6, <2>7, <2>8, <2>9
<1>2. \A u \in Thread : pc'[u] = "kill_link" <=> pc[u] = "kill_link"
  BY <1>1 DEF SigRuns
<1>3. \A u \in Thread : Held(frames'[u]) = Held(frames[u])
  <2>1. CASE frames' = frames
    BY <2>1
  <2>2. ASSUME NEW u \in Thread, NEW clean \in BOOLEAN, Push(u, clean)
        PROVE  \A v \in Thread : Held(frames'[v]) = Held(frames[v])
    BY <2>2, PushHolds
  <2>3. CASE frames[t] # << >> /\ top(t).at = "back" /\ Pop(t)
    <3> DEFINE r == Front(frames[t])
    <3>1. frames[t] \in Seq(Frame) /\ Held(frames[t]) \in Nat /\ top(t) = frames[t][Len(frames[t])]
      BY <2>3, TopFrame, HandlersFinite
    <3>2. frames' = [frames EXCEPT ![t] = r] /\ OfTop(top(t)) = 0
      BY <2>3 DEF Pop, OfTop
    <3>3. Held(r) = Held(frames[t]) - OfTop(top(t))
      BY <2>3, <3>1, HeldFront
    <3> HIDE DEF r
    <3>4. Held(r) = Held(frames[t])
      BY <3>1, <3>2, <3>3
    <3> QED BY <3>2, <3>4 DEF SigTyped
  <2> QED BY <1>1, <2>1, <2>2, <2>3
<1> QED BY <1>1, <1>2, <1>3, NodesStay

-----------------------------------------------------------------------------
(* The theorems about signals.                                             *)

\* The inductive invariant.
SigInv == SigRuns /\ SigThreads /\ SigNodes

\* The initial state satisfies it.
LEMMA SigInitInv == SigInit => SigInv
<1> SUFFICES ASSUME SigInit PROVE SigInv
  OBVIOUS
<1>1. Init /\ pc = [t \in Thread |-> "run"]
  BY DEF SigInit, Init
<1>2. /\ k \in KernelState /\ KInv(k)
      /\ k.stat = [t \in Thread |-> IF t = Idle THEN "ready" ELSE "init"]
      /\ k.cur = Idle /\ k.nest = 0 /\ Idle \in Thread
  BY <1>1, StartedKernel, KernelAssumption, SemaphoreAssumption DEF Init
<1>3. SigRuns
  BY <1>1, <1>2 DEF SigRuns, SigPC, PC
<1>4. << >> \in Seq(AnySig) /\ << >> \in Seq(Frame) /\ Len(<< >>) = 0
  BY EmptySeq
<1>5. /\ pending = [t \in Thread |-> {}] /\ mask = [t \in Thread |-> {}]
      /\ si_list = [t \in Thread |-> << >>] /\ flags = [t \in Thread |-> {}]
      /\ frames = [t \in Thread |-> << >>] /\ kill = [t \in Thread |-> NoKill]
      /\ free = PoolSize
  BY DEF SigInit
<1>6. SigTyped
  <2>1. NoKill \in [to : Thread, sig : AnySig]
    BY <1>2 DEF NoKill, AnySig
  <2> QED BY <1>4, <1>5, <2>1, SignalAssumption DEF SigTyped
<1>7. SigFrames
  <2>1. \A t \in Thread : Len(frames[t]) = 0
    BY <1>4, <1>5
  <2> QED BY <2>1 DEF SigFrames, FrameRules
<1>8. SigKillers
  BY <1>1 DEF SigKillers, KillPC
<1>9. \A t \in Receiver : Noticed(t)
  BY <1>5, SignalAssumption DEF Noticed, Ripe, Deliverable
<1>10. SigNodes
  <2>1. HeldFacts
    BY <1>6, HeldTypes
  <2>2. ASSUME NEW t \in Thread
        PROVE  in_hand[t] = 0 /\ listed[t] = 0
    <3>1. frames[t] = << >> /\ si_list[t] = << >> /\ pc[t] = "run"
      BY <1>1, <1>5
    <3>2. Handlers(frames[t]) = {}
      <4>1. DOMAIN frames[t] = 1 .. Len(frames[t]) /\ Len(frames[t]) = 0
        BY <1>4, <3>1, LenProperties
      <4> QED BY <4>1 DEF Handlers
    <3>3. Held(frames[t]) = 0
      BY <3>2, FS_EmptySet DEF Held
    <3> QED BY <1>4, <2>1, <3>1, <3>3 DEF HeldFacts
  <2> DEFINE h == in_hand
             l == listed
  <2>3. h \in [Thread -> Nat] /\ l \in [Thread -> Nat] /\ \A t \in Thread : h[t] = 0 /\ l[t] = 0
    BY <2>1, <2>2 DEF HeldFacts
  <2> HIDE DEF h, l
  <2>4. Total(h, Thread) = 0 /\ Total(l, Thread) = 0
    BY <2>3, TotalZero, KernelAssumption
  <2> QED BY <1>5, <2>4, SignalAssumption DEF SigNodes, h, l
<1> QED BY <1>3, <1>6, <1>7, <1>8, <1>9, <1>10 DEF SigInv, SigThreads

\* Every step keeps it.
LEMMA SigNextInv ==
  ASSUME SigInv, [SigNext]_sigvars
  PROVE  SigInv'
<1>0. SigRuns /\ SigThreads /\ SigNodes /\ SigTyped /\ k.cur \in Thread
  BY SigRunsFacts DEF SigInv, SigThreads
<1> DEFINE t == k.cur
<1>1. CASE SigNext /\ TakeStep(t)
  <2>1. SigRuns' /\ SigThreads'
    BY <1>0, <1>1, SigTakeRuns, TakeThreads
  <2>2. SigNodes'
    BY <1>0, <1>1, <2>1, OtherNodes DEF SigThreads, SigNext
  <2> QED BY <2>1, <2>2 DEF SigInv
<1>2. CASE SigNext /\ SigStep(t)
  <2>1. SigRuns'
    <3>1. \A c \in Thread : kill[c].to \in Thread
      BY <1>0 DEF SigTyped
    <3> QED BY <1>0, <1>2, <3>1, SigStepRuns
  <2> HIDE DEF t
  <2>w. wild = "no" /\ t \in Thread
    BY <1>0, <1>2 DEF SigNext, t
  <2>2. CASE HandleBegin(t) \/ HandleEnd(t)
    <3>1. SigThreads'
      BY <1>0, <2>w, <2>2, HandlerThreads
    <3>2. wild' = wild
      BY <2>2 DEF HandleBegin, HandleEnd
    <3>3. SigNodes'
      BY <1>0, <2>w, <2>2, <3>1, <3>2, HandlerNodes DEF SigThreads
    <3> QED BY <2>1, <3>1, <3>3 DEF SigInv
  <2>3. CASE EntryReturn(t)
    <3>1. SigThreads'
      BY <1>0, <2>w, <2>3, EntryThreads
    <3>2. SigNodes'
      BY <1>0, <2>w, <2>3, <3>1, OtherNodes DEF SigThreads
    <3> QED BY <2>1, <3>1, <3>2 DEF SigInv
  <2>4. ASSUME NEW to \in Receiver, NEW s \in Sig, Kill(t, to, s)
        PROVE  SigInv'
    <3>1. SigThreads'
      BY <1>0, <2>w, <2>4, KillThreads
    <3>2. SigNodes'
      BY <1>0, <2>w, <2>4, <3>1, OtherNodes DEF SigThreads
    <3> QED BY <2>1, <3>1, <3>2 DEF SigInv
  <2>5. CASE KillWalk(t)
    <3>1. SigThreads'
      BY <1>0, <2>w, <2>5, KillGoesOn
    <3>2. SigNodes'
      BY <1>0, <2>w, <2>5, <3>1, OtherNodes DEF SigThreads
    <3> QED BY <2>1, <3>1, <3>2 DEF SigInv
  <2>6. CASE KillAlloc(t) \/ KillLink(t)
    <3>1. SigThreads'
      BY <1>0, <2>w, <2>6, KillGoesOn
    <3>2. wild' = wild
      BY <2>6 DEF KillAlloc, KillLink
    <3>3. SigNodes'
      BY <1>0, <2>w, <2>6, <3>1, <3>2, SenderNodes DEF SigThreads
    <3> QED BY <2>1, <3>1, <3>3 DEF SigInv
  <2>7. CASE DeliverTest(t)
    <3>1. SigThreads'
      BY <1>0, <2>w, <2>7, TestThreads
    <3>2. SigNodes'
      BY <1>0, <2>w, <2>7, <3>1, OtherNodes DEF SigThreads
    <3> QED BY <2>1, <3>1, <3>2 DEF SigInv
  <2>8. CASE DeliverSuspended(t) \/ DeliverSelf(t) \/ DeliverReady(t)
    <3>1. SigThreads'
      BY <1>0, <2>w, <2>8, DeliverThreads
    <3>2. SigNodes'
      BY <1>0, <2>w, <2>8, <3>1, OtherNodes DEF SigThreads
    <3> QED BY <2>1, <3>1, <3>2 DEF SigInv
  <2>9. ASSUME NEW s \in Sig, Mask(t, s) \/ Unmask(t, s)
        PROVE  SigInv'
    <3>1. SigThreads'
      BY <1>0, <2>w, <2>9, MaskThreads
    <3>2. SigNodes'
      BY <1>0, <2>w, <2>9, <3>1, OtherNodes DEF SigThreads
    <3> QED BY <2>1, <3>1, <3>2 DEF SigInv
  <2>10. CASE (\E ss \in SUBSET Sig \ {{}} : SigWaitNow(t, ss)) \/ SigWaitReturn(t)
    <3>1. SigThreads'
      BY <1>0, <2>w, <2>10, WaitThreads
    <3>2. SigNodes'
      BY <1>0, <2>w, <2>10, <3>1, WaitNodes DEF SigThreads
    <3> QED BY <2>1, <3>1, <3>2 DEF SigInv
  <2>11. CASE (\E ss \in SUBSET Sig \ {{}} : SigWaitBlock(t, ss)) \/ SigWaitSchedule(t)
    <3>1. SigThreads'
      BY <1>0, <2>w, <2>11, WaitThreads
    <3>2. SigNodes'
      BY <1>0, <2>w, <2>11, <3>1, OtherNodes DEF SigThreads
    <3> QED BY <2>1, <3>1, <3>2 DEF SigInv
  <2>12. SigStep(t)
    BY <1>2 DEF t
  <2> QED BY <2>2, <2>3, <2>4, <2>5, <2>6, <2>7, <2>8, <2>9, <2>10, <2>11, <2>12 DEF SigStep
<1>3. CASE SigNext /\ SigInterrupt
  <2>1. SigRuns'
    BY <1>0, <1>3, SigInterruptRuns DEF SigInterrupt
  <2>2. SigThreads'
    BY <1>0, <1>3, InterruptThreads
  <2>3. SigNodes'
    BY <1>0, <1>3, <2>2, OtherNodes DEF SigThreads, SigNext
  <2> QED BY <2>1, <2>2, <2>3 DEF SigInv
<1>4. CASE UNCHANGED sigvars
  <2>1. /\ k' = k /\ pc' = pc /\ pending' = pending /\ mask' = mask /\ si_list' = si_list
        /\ free' = free /\ flags' = flags /\ frames' = frames /\ kill' = kill
        /\ skipped' = skipped /\ wild' = wild
    BY <1>4 DEF sigvars, vars, nodes, history
  <2>2. SigRuns'
    BY <1>0, <2>1 DEF SigRuns
  <2>3. \A u \in Receiver : Noticed(u)'
    BY <1>0, <2>1 DEF SigThreads, Noticed, Ripe, Deliverable, Handled
  <2>4. SigThreads'
    BY <1>0, <2>1, <2>3 DEF SigThreads, SigTyped, SigFrames, SigKillers
  <2>5. SigNodes'
    BY <1>0, <2>1, <2>4, NodesStay DEF SigThreads
  <2> QED BY <2>2, <2>4, <2>5 DEF SigInv
<1> QED BY <1>1, <1>2, <1>3, <1>4 DEF SigNext

\* Types, the rules of the activations on each stack, what is about to be
\* delivered, and the places of the nodes hold in every behaviour.
THEOREM SignalInvariant == SigSpec => []SigInv
BY SigInitInv, SigNextInv, PTL DEF SigSpec

\* No siginfo node leaks or is given back twice, whichever senders, handlers and
\* waits change the lists between critical sections (signal.c: rt_thread_kill,
\* rt_thread_handle_sig, rt_signal_wait), as long as no address that is no node
\* is used as one.
THEOREM SignalNodesConserved == SigSpec => []NodesConserved
<1>1. SigInv => NodesConserved
  <2> SUFFICES ASSUME SigInv PROVE NodesConserved
    OBVIOUS
  <2>1. pc \in [Thread -> SigPC] /\ frames \in [Thread -> Seq(Frame)]
    BY DEF SigInv, SigRuns, SigThreads, SigTyped
  <2>2. SigNodes
    BY DEF SigInv
  <2> QED BY <2>1, <2>2 DEF NodesConserved, SigNodes, Total
<1> QED BY <1>1, SignalInvariant, PTL

\* _signal_deliver builds at most one context on a stack, on top of all else and
\* under the mark RT_THREAD_STAT_SIGNAL: thread->sig_ret is not overwritten.
THEOREM SignalOneEntryContext == SigSpec => []OneEntryContext
<1>1. SigInv => OneEntryContext
  <2> SUFFICES ASSUME SigInv, NEW t \in Thread, NEW i \in DOMAIN frames[t], ~frames[t][i].clean
               PROVE  i = Len(frames[t]) /\ i <= 2 /\ "SIGNAL" \in flags[t]
    BY DEF OneEntryContext
  <2>1. frames[t] \in Seq(Frame) /\ FrameRules(frames[t], flags[t], t \in skipped)
    BY DEF SigInv, SigThreads, SigTyped, SigFrames
  <2>2. DOMAIN frames[t] = 1 .. Len(frames[t]) /\ Len(frames[t]) \in Nat
    BY <2>1, LenProperties
  <2>3. i = Len(frames[t]) /\ "SIGNAL" \in flags[t]
    BY <2>1, <2>2 DEF FrameRules
  <2>4. ~(i > 2)
    <3> SUFFICES ASSUME i > 2 PROVE FALSE
      OBVIOUS
    <3>1. 2 \in 1 .. Len(frames[t]) /\ 2 # Len(frames[t])
      BY <2>2, <2>3
    <3> QED BY <2>1, <3>1 DEF FrameRules
  <2> QED BY <2>2, <2>3, <2>4
<1> QED BY <1>1, SignalInvariant, PTL

\* A thread that sleeps unmarked while a signal it lets through has a node is
\* about to be delivered to by a sender (signal.c: _signal_deliver tests the
\* receiver's state after the node is linked).
THEOREM SignalNobodySleepsOverSignal == SigSpec => []NobodySleepsOverSignal
<1>1. SigInv => NobodySleepsOverSignal
  <2> SUFFICES ASSUME SigInv, NEW t \in Receiver \ skipped,
                      k.stat[t] = "suspend", flags[t] = {},
                      Deliverable(t) \cap ToSet(si_list[t]) # {}
               PROVE  \E c \in Sender : kill[c].to = t
    BY DEF NobodySleepsOverSignal
  <2>1. t \in Thread /\ Noticed(t) /\ Ripe(t)
    BY SignalAssumption DEF SigInv, SigThreads, Ripe
  <2>2. PICK c \in Thread : kill[c].to = t /\ pc[c] \in KillPC
    BY <2>1 DEF Noticed, Handled
  <2>3. pc[t] \in SleepPC
    BY <2>1 DEF SigInv, SigRuns
  <2>4. c # t
    BY <2>2, <2>3 DEF KillPC, SleepPC
  <2>5. c \in Sender
    BY <2>2, <2>4 DEF SigInv, SigThreads, SigKillers
  <2> QED BY <2>2, <2>5
<1> QED BY <1>1, SignalInvariant, PTL
=============================================================================
