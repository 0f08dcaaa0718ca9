----------------------------- MODULE MutexProofs ------------------------------
(***************************************************************************)
(* The mutex, for every set of threads and mutexes, every assignment of    *)
(* priorities and both kinds of wait list: mutual exclusion, no lost       *)
(* wakeup; and, for one mutex with a wait list in the order of priority,   *)
(* that the priorities are restored and no thread in between delays the    *)
(* waiter more than the owner does.                                        *)
(***************************************************************************)
EXTENDS Mutex, KernelProofs

-----------------------------------------------------------------------------
(* The inductive invariant of every configuration.                         *)

\* How often thread t holds m: its claims, and a grant it has not returned with.
Mine(t, m) == Occurrences(claims[t], m) + IF Granted(t, m) THEN 1 ELSE 0

\* What a mutex counts is what its owner holds; nobody else holds anything.
HoldCounts ==
  \A m \in Mutexes, t \in Thread :
     Mine(t, m) = IF mutex[m].owner = t THEN mutex[m].hold ELSE 0

\* Who runs: tidle never blocks, the scheduler is never locked, and the running
\* thread is ready except between its suspension and the rt_schedule() that
\* follows.
Running ==
  /\ k.stat[Idle] = "ready" /\ k.nest = 0
  /\ k.stat[k.cur] = "ready" \/ pc[k.cur] \in {"take_sched", "sleep"}

\* A waiter is inside the rt_mutex_take of the mutex it waits for, has no error
\* yet and is not the owner.
Waiters ==
  /\ \A m \in Mutexes : \A t \in waiters(m) :
        /\ pc[t] \in {"take_sched", "take_ret"} /\ want[t] = m
        /\ k.err[t] = "eok" /\ mutex[m].owner # t
  /\ \A t \in Thread : pc[t] \in {"take_sched", "take_ret"} =>
        want[t] \in Mutexes

\* The error tells a thread inside rt_mutex_take whether it was handed the mutex:
\* always if it is neither RT_EOK nor -RT_EINTR; and if it is RT_EOK, unless a
\* signal has resumed the thread.
Answers ==
  \A t \in Thread : pc[t] \in {"take_sched", "take_ret"} =>
     /\ k.err[t] \notin {"eok", "eintr"} => mutex[want[t]].owner # t
     /\ k.err[t] = "eok" /\ t \notin signalled /\ t \notin waiters(want[t]) =>
          mutex[want[t]].owner = t

\* A free mutex counts nothing; an owned one has recorded a priority and its
\* owner has been started.
Owners ==
  \A m \in Mutexes :
     IF mutex[m].owner = Null
     THEN mutex[m].hold = 0
     ELSE /\ mutex[m].original_priority \in Prio
          /\ k.stat[mutex[m].owner] \in {"ready", "suspend"}

IInv ==
  /\ TypeOK /\ KInv(k)
  /\ HoldCounts
  /\ NoLostWakeup
  /\ Running
  /\ Waiters
  /\ Answers
  /\ Owners

-----------------------------------------------------------------------------
(* The inductive invariant of the priorities, for one mutex.               *)

\* One mutex, with a wait list in the order of priority.
OnePrioMutex == MutexFlag = "prio" /\ \A m, n \in Mutexes : m = n

\* Only the owner has a priority that is not its own, and its own is recorded.
OwnPriorities ==
  /\ PriorityRestored
  /\ \A m \in Mutexes : mutex[m].owner # Null =>
        mutex[m].original_priority = InitPrio[mutex[m].owner]

\* The owner is at least as urgent as every waiter, and the waiters are linked
\* in the order of their priorities.
Inherited ==
  \A m \in Mutexes :
     /\ Ordered(k.prio, k.wait[m])
     /\ \A t \in waiters(m) : k.prio[mutex[m].owner] <= k.prio[t]

PInv == OwnPriorities /\ Inherited /\ NoInversion

-----------------------------------------------------------------------------
(* What the calls do to the kernel state.                                  *)

Taking == {"take_sched", "take_ret"}

\* Facts every action proof starts from.
LEMMA IInvFacts ==
  ASSUME IInv
  PROVE  /\ k \in KernelState /\ KInv(k) /\ k.cur \in Thread /\ k.nest = 0
         /\ k.stat \in [Thread -> Stat] /\ k.prio \in [Thread -> Prio]
         /\ k.err \in [Thread -> Err] /\ k.wait \in [Mutexes -> Seq(Thread)]
         /\ k.timer \subseteq Thread
         /\ mutex \in [Mutexes -> MutexState] /\ pc \in [Thread -> PC]
         /\ want \in [Thread -> Mutexes \cup {Null}]
         /\ claims \in [Thread -> Seq(Mutexes)]
         /\ signalled \subseteq Thread /\ wild \in BOOLEAN
         /\ Idle \in Thread /\ k.stat[Idle] = "ready" /\ Queue = Mutexes
         /\ Null \notin Thread /\ Null \notin Mutexes
         /\ \A m \in Mutexes : waiters(m) \subseteq Thread
<1>1. k.wait \in [Mutexes -> Seq(Thread)]
  BY DEF IInv, TypeOK, KernelState, Mutexes
<1>2. \A m \in Mutexes : waiters(m) \subseteq Thread
  BY <1>1, ListElements DEF waiters
<1> QED BY <1>1, <1>2, KernelAssumption, MutexAssumption
        DEF IInv, TypeOK, Running, KernelState, Mutexes

\* A thread that runs its own code is ready, so it waits for nothing and has
\* no timer.
LEMMA RunningThread ==
  ASSUME IInv, pc[k.cur] \notin {"take_sched", "sleep"}
  PROVE  /\ k.stat[k.cur] = "ready" /\ k.cur \notin k.timer
         /\ \A m \in Mutexes : k.cur \notin waiters(m)
<1>1. k.stat[k.cur] = "ready"
  BY DEF IInv, Running
<1> QED BY <1>1, IInvFacts DEF KInv, WaitLists, TimersOfSuspended, waiters

\* rt_mutex_take that has to wait: the owner may inherit a priority, then the
\* thread is suspended and linked.
LEMMA BlockEffect ==
  ASSUME IInv, NEW t \in Thread, NEW m \in Mutexes,
         \E timed \in BOOLEAN : TakeBlock(t, m, timed)
  PROVE  /\ k' \in KernelState /\ KInv(k') /\ k'.cur = t /\ k'.nest = 0
         /\ k'.stat = [k.stat EXCEPT ![t] = "suspend"]
         /\ k'.err = [k.err EXCEPT ![t] = "eok"]
         /\ mutex[m].owner \in Thread /\ mutex[m].owner # t
         /\ k'.prio = IF k.prio[t] < k.prio[mutex[m].owner]
                      THEN [k.prio EXCEPT ![mutex[m].owner] = k.prio[t]]
                      ELSE k.prio
         /\ k'.timer \subseteq k.timer \cup {t} /\ k.timer \ {t} \subseteq k'.timer
         /\ ToSet(k'.wait[m]) = waiters(m) \cup {t}
         /\ k'.wait[m] = InsertAt(k.wait[m],
                           wait_position(k', k.wait[m], t, MutexFlag), t)
         /\ \A n \in Mutexes \ {m} : k'.wait[n] = k.wait[n]
<1> USE IInvFacts
<1> DEFINE o  == mutex[m].owner
           k0 == [k EXCEPT !.err[t] = "eok"]
           k1 == inherit(k0, m, t)
           k2 == rt_ipc_list_suspend(k1, m, t, MutexFlag)
<1>0. PICK timed \in BOOLEAN : TakeBlock(t, m, timed)
  OBVIOUS
<1>1. /\ k.cur = t /\ pc[t] = "run" /\ o # t /\ mutex[m].value = 0
      /\ k' = IF timed THEN rt_timer_start(k2, t) ELSE k2
  BY <1>0 DEF TakeBlock
<1>2. o \in Thread
  BY <1>1 DEF IInv, NoLostWakeup, MutexState
<1>3. /\ k0 \in KernelState /\ KInv(k0) /\ k0.stat = k.stat /\ k0.wait = k.wait
      /\ k0.prio = k.prio /\ k0.err = [k.err EXCEPT ![t] = "eok"]
      /\ k0.timer = k.timer /\ k0.cur = t /\ k0.nest = 0
  <2>1. k \in KernelState /\ KInv(k) /\ "eok" \in Err
    BY DEF Err
  <2>2. /\ k0 \in KernelState /\ KInv(k0)
        /\ k0.err = [k.err EXCEPT ![t] = "eok"]
        /\ k0.stat = k.stat /\ k0.prio = k.prio /\ k0.wait = k.wait
        /\ k0.timer = k.timer /\ k0.cur = k.cur /\ k0.nest = k.nest
    BY ONLY <2>1, SetError, t \in Thread
  <2> HIDE DEF k0
  <2> QED BY <1>1, <2>2
<1>4. k1 = IF k.prio[t] < k.prio[o]
           THEN rt_thread_change_priority(k0, o, k.prio[t]) ELSE k0
  BY <1>3 DEF inherit
<1> HIDE DEF k0, k1
<1>5. k.prio[t] \in Prio
  BY IInvFacts
<1>6. /\ k1 \in KernelState /\ KInv(k1) /\ k1.stat = k.stat /\ k1.wait = k.wait
      /\ k1.prio = IF k.prio[t] < k.prio[o]
                   THEN [k.prio EXCEPT ![o] = k.prio[t]] ELSE k.prio
      /\ k1.err = [k.err EXCEPT ![t] = "eok"]
      /\ k1.timer = k.timer /\ k1.cur = t /\ k1.nest = 0
  <2>1. CASE k.prio[t] < k.prio[o]
    <3> DEFINE r == rt_thread_change_priority(k0, o, k.prio[t])
    <3>1. /\ r \in KernelState /\ KInv(r)
          /\ r.prio = [k0.prio EXCEPT ![o] = k.prio[t]]
          /\ r.stat = k0.stat /\ r.err = k0.err /\ r.wait = k0.wait
          /\ r.timer = k0.timer /\ r.cur = k0.cur /\ r.nest = k0.nest
      BY ONLY <1>2, <1>3, <1>5, ChangePriorityKeeps
    <3>2. k1 = r
      BY <1>4, <2>1
    <3> HIDE DEF r, o
    <3> QED BY <1>3, <2>1, <3>1, <3>2
  <2>2. CASE ~(k.prio[t] < k.prio[o])
    BY <1>3, <1>4, <2>2
  <2> QED BY <2>1, <2>2
<1>7. k1.stat[k1.cur] = "ready"
  BY <1>1, <1>6, RunningThread
<1>8. /\ Blocked(k1, m, k2)
      /\ k2.wait[m] = InsertAt(k1.wait[m],
                        wait_position(k1, k1.wait[m], t, MutexFlag), t)
  <2>1. k1 \in KernelState /\ KInv(k1) /\ k1.stat[k1.cur] = "ready"
        /\ k1.cur = t /\ m \in Queue
    BY <1>6, <1>7
  <2> QED BY ONLY <2>1, IpcSuspendKeeps
<1> HIDE DEF k2, o
<1>9. /\ k2 \in KernelState /\ KInv(k2) /\ k2.cur = t /\ k2.nest = 0
      /\ k2.stat = [k.stat EXCEPT ![t] = "suspend"]
      /\ k2.err = [k.err EXCEPT ![t] = "eok"] /\ k2.prio = k1.prio
      /\ k2.timer = k.timer \ {t}
      /\ ToSet(k2.wait[m]) = waiters(m) \cup {t}
      /\ k2.wait[m] = InsertAt(k.wait[m],
                        wait_position(k1, k.wait[m], t, MutexFlag), t)
      /\ \A n \in Mutexes \ {m} : k2.wait[n] = k.wait[n]
  BY <1>6, <1>8 DEF Blocked, waiters
<1>10. k2.stat[t] = "suspend"
  BY <1>9
<1>11. /\ k' \in KernelState /\ KInv(k') /\ k'.cur = t /\ k'.nest = 0
       /\ k'.stat = k2.stat /\ k'.err = k2.err /\ k'.prio = k2.prio
       /\ k'.wait = k2.wait
       /\ k'.timer \subseteq k.timer \cup {t} /\ k.timer \ {t} \subseteq k'.timer
  <2>1. CASE timed
    <3> DEFINE r == rt_timer_start(k2, t)
    <3>1. /\ r \in KernelState /\ KInv(r)
          /\ r.timer = k2.timer \cup {t}
          /\ r.stat = k2.stat /\ r.prio = k2.prio /\ r.err = k2.err
          /\ r.wait = k2.wait /\ r.cur = k2.cur /\ r.nest = k2.nest
      <4>1. k2 \in KernelState /\ KInv(k2) /\ k2.stat[t] = "suspend"
        BY <1>9, <1>10
      <4> QED BY ONLY <4>1, StartTimer, t \in Thread
    <3>2. k' = r
      BY <1>1, <2>1
    <3> HIDE DEF r
    <3> QED BY <1>9, <3>1, <3>2
  <2>2. CASE ~timed
    BY <1>1, <1>9, <2>2
  <2> QED BY <2>1, <2>2
<1>12. wait_position(k1, k.wait[m], t, MutexFlag)
         = wait_position(k', k.wait[m], t, MutexFlag)
  BY <1>9, <1>11 DEF wait_position
<1> QED BY <1>1, <1>2, <1>6, <1>9, <1>11, <1>12 DEF o

\* The priority of the owner that gives the mutex up.
LEMMA RestoreEffect ==
  ASSUME IInv, NEW m \in Mutexes, mutex[m].owner # Null
  PROVE  LET r == restore(m)
             t == mutex[m].owner
         IN /\ t \in Thread /\ r \in KernelState /\ KInv(r)
            /\ r.prio = [k.prio EXCEPT ![t] = mutex[m].original_priority]
            /\ r.stat = k.stat /\ r.err = k.err /\ r.wait = k.wait
            /\ r.timer = k.timer /\ r.cur = k.cur /\ r.nest = 0
<1> USE IInvFacts
<1> DEFINE r == restore(m)
           t == mutex[m].owner
           p == mutex[m].original_priority
<1>1. t \in Thread /\ p \in Prio
  BY DEF IInv, Owners, MutexState
<1>2. r = IF p # k.prio[t] THEN rt_thread_change_priority(k, t, p) ELSE k
  BY DEF restore
<1> HIDE DEF r, t, p
<1>3. CASE p # k.prio[t]
  <2> DEFINE s == rt_thread_change_priority(k, t, p)
  <2>1. /\ s \in KernelState /\ KInv(s)
        /\ s.prio = [k.prio EXCEPT ![t] = p]
        /\ s.stat = k.stat /\ s.err = k.err /\ s.wait = k.wait
        /\ s.timer = k.timer /\ s.cur = k.cur /\ s.nest = k.nest
    BY <1>1, ChangePriorityKeeps
  <2>2. r = s
    BY <1>2, <1>3
  <2> HIDE DEF s
  <2> QED BY <1>1, <2>1, <2>2 DEF r, t, p
<1>4. CASE p = k.prio[t]
  <2>1. [k.prio EXCEPT ![t] = p] = k.prio
    BY <1>1, <1>4
  <2> QED BY <1>1, <1>2, <1>4, <2>1 DEF r, t, p
<1> QED BY <1>3, <1>4

\* The last rt_mutex_release with a thread that waits: the first waiter is
\* resumed.
LEMMA HandOverEffect ==
  ASSUME IInv, NEW m \in Mutexes, mutex[m].owner # Null, waiters(m) # {},
         k' = rt_ipc_list_resume(restore(m), m)
  PROVE  LET w == Head(k.wait[m])
             t == mutex[m].owner
         IN /\ w \in waiters(m) /\ w \in Thread /\ k.stat[w] = "suspend"
            /\ k' \in KernelState /\ KInv(k') /\ k'.cur = k.cur /\ k'.nest = 0
            /\ k'.stat = [k.stat EXCEPT ![w] = "ready"]
            /\ k'.prio = [k.prio EXCEPT ![t] = mutex[m].original_priority]
            /\ k'.err = k.err /\ k'.timer = k.timer \ {w}
            /\ \A n \in Mutexes : /\ k'.wait[n] = Unlink(k.wait[n], w)
                                  /\ ToSet(k'.wait[n]) = waiters(n) \ {w}
<1> USE IInvFacts
<1> DEFINE w == Head(k.wait[m])
           t == mutex[m].owner
           r == restore(m)
           s == rt_thread_resume(r, w)
<1>1. /\ t \in Thread /\ r \in KernelState /\ KInv(r)
      /\ r.prio = [k.prio EXCEPT ![t] = mutex[m].original_priority]
      /\ r.stat = k.stat /\ r.err = k.err /\ r.wait = k.wait
      /\ r.timer = k.timer /\ r.cur = k.cur /\ r.nest = 0
  BY RestoreEffect
<1>2. w \in waiters(m) /\ w \in Thread
  BY HeadInList DEF waiters
<1>3. k.stat[w] = "suspend"
  BY <1>2 DEF KInv, WaitLists, waiters
<1>4. k' = s
  BY <1>1 DEF rt_ipc_list_resume
<1> HIDE DEF w, r, t
<1>5. WokenUp(r, w, s)
  BY ONLY <1>1, <1>2, <1>3, ResumeKeeps
<1> HIDE DEF s
<1> QED BY <1>1, <1>2, <1>3, <1>4, <1>5 DEF WokenUp, waiters, w, t

\* A pending rt_schedule(), or the one at the end of a time slice.
LEMMA ScheduleEffect ==
  ASSUME IInv
  PROVE  LET r == rt_schedule(k)
         IN /\ r \in KernelState /\ KInv(r) /\ SameThreads(k, r) /\ Settled(r)
            /\ r.nest = 0
BY IInvFacts, AfterSchedule DEF SameThreads

\* The expiry of a thread timer.
LEMMA TimeoutEffect ==
  ASSUME IInv, NEW t \in k.timer, k' = rt_thread_timeout(k, t)
  PROVE  /\ t \in Thread /\ k.stat[t] = "suspend"
         /\ k' \in KernelState /\ KInv(k') /\ Settled(k') /\ k'.nest = 0
         /\ k'.stat = [k.stat EXCEPT ![t] = "ready"]
         /\ k'.err = [k.err EXCEPT ![t] = "etimeout"]
         /\ k'.prio = k.prio /\ k'.timer = k.timer \ {t}
         /\ \A n \in Mutexes : /\ k'.wait[n] = Unlink(k.wait[n], t)
                               /\ ToSet(k'.wait[n]) = waiters(n) \ {t}
<1> USE IInvFacts
<1> DEFINE k1 == [k EXCEPT !.err[t] = "etimeout"]
           m  == timed_out(k, t)
<1>1. t \in Thread /\ k.stat[t] = "suspend" /\ k' = rt_schedule(m)
      /\ WokenUp(k1, t, m)
  BY TimeoutKeeps
<1>2. /\ k1.err = [k.err EXCEPT ![t] = "etimeout"] /\ k1.timer = k.timer
      /\ k1.stat = k.stat /\ k1.wait = k.wait /\ k1.prio = k.prio
      /\ k1.cur = k.cur /\ k1.nest = k.nest
  BY DEF KernelState
<1> HIDE DEF k1, m
<1>3. /\ m \in KernelState /\ KInv(m) /\ m.nest = 0
      /\ m.stat = [k.stat EXCEPT ![t] = "ready"]
      /\ m.err = [k.err EXCEPT ![t] = "etimeout"]
      /\ m.prio = k.prio /\ m.timer = k.timer \ {t}
      /\ \A n \in Mutexes : /\ m.wait[n] = Unlink(k.wait[n], t)
                            /\ ToSet(m.wait[n]) = waiters(n) \ {t}
  BY <1>1, <1>2 DEF WokenUp, waiters
<1>4. m.stat[Idle] = "ready"
  BY <1>3
<1>5. /\ k' \in KernelState /\ KInv(k') /\ Settled(k') /\ SameThreads(m, k')
  BY <1>1, <1>3, <1>4, AfterSchedule
<1> QED BY <1>1, <1>3, <1>5 DEF SameThreads

-----------------------------------------------------------------------------
(* Every step keeps the invariant.                                         *)

\* The initial state satisfies it.
LEMMA InitIInv == Init => IInv
<1> SUFFICES ASSUME Init PROVE IInv
  OBVIOUS
<1> USE KernelAssumption, MutexAssumption DEF Mutexes
<1>1. /\ k \in KernelState /\ KInv(k)
      /\ k.stat = [t \in Thread |-> IF t = Idle THEN "ready" ELSE "init"]
      /\ \A m \in Queue : ToSet(k.wait[m]) = {}
      /\ k.cur = Idle /\ k.nest = 0
  BY StartedKernel DEF Init
<1>2. /\ pc = [t \in Thread |-> "run"] /\ want = [t \in Thread |-> Null]
      /\ claims = [t \in Thread |-> << >>]
      /\ signalled = {} /\ wild = FALSE
      /\ \A m \in Queue : /\ mutex[m].owner = Null /\ mutex[m].hold = 0
                          /\ mutex[m].value = 1
  BY DEF Init
<1>3. TypeOK
  <2>1. mutex \in [Queue -> MutexState]
    BY DEF Init, MutexState, NoPriority
  <2>2. << >> \in Seq(Queue)
    OBVIOUS
  <2> QED BY <1>1, <1>2, <2>1, <2>2 DEF TypeOK, PC
<1>4. HoldCounts
  <2> SUFFICES ASSUME NEW m \in Queue, NEW t \in Thread
               PROVE  Mine(t, m) = 0
    BY <1>2 DEF HoldCounts
  <2>1. Occurrences(<< >>, m) = 0
    <3>1. << >> \in Seq(Queue) /\ m \notin ToSet(<< >>)
      BY DEF ToSet
    <3> QED BY <3>1, OccurrencesNat
  <2> QED BY <1>2, <2>1 DEF Mine, Granted
<1>5. NoLostWakeup /\ Running /\ Waiters /\ Answers /\ Owners
  BY <1>1, <1>2 DEF NoLostWakeup, Running, Waiters, Answers, Owners, waiters
<1> QED BY <1>1, <1>3, <1>4, <1>5 DEF IInv

\* A step that hands no mutex over, changes no claim and no wait list, and sets
\* no error of a thread inside rt_mutex_take but the -RT_EINTR of a handler.
LEMMA QuietStep ==
  ASSUME IInv, TypeOK', KInv(k'), Running',
         UNCHANGED <<mutex, want, claims, signalled>>,
         \A t \in Thread : pc'[t] \in Taking <=> pc[t] \in Taking,
         \A t \in Thread : pc[t] \in Taking =>
            \/ k'.err[t] = k.err[t]
            \/ k'.err[t] = "eintr" /\ \A m \in Mutexes : t \notin waiters(m),
         \A m \in Mutexes : ToSet(k'.wait[m]) = waiters(m),
         \A t \in Thread : k.stat[t] \in {"ready", "suspend"} =>
                             k'.stat[t] \in {"ready", "suspend"},
         \A t \in Thread : k'.stat[t] = "suspend" =>
            IF pc[t] \in Taking THEN t \in waiters(want[t]) ELSE t \in k'.timer
  PROVE  IInv'
<1> USE IInvFacts DEF Taking
<1>1. HoldCounts'
  <2>1. \A t \in Thread, m \in Mutexes : Granted(t, m)' <=> Granted(t, m)
    BY DEF Granted
  <2>2. \A t \in Thread, m \in Mutexes : Mine(t, m)' = Mine(t, m)
    BY <2>1 DEF Mine
  <2> QED BY <2>2 DEF IInv, HoldCounts
<1>2. NoLostWakeup'
  <2>1. \A t \in Thread : pc[t] \in Taking =>
           (t \in waiters(want[t]) /\ want[t] \in Mutexes => t \in ToSet(k'.wait[want[t]]))
    OBVIOUS
  <2>2. \A t \in Thread : pc[t] \in Taking => want[t] \in Mutexes
    BY DEF IInv, Waiters
  <2> QED BY <2>1, <2>2 DEF IInv, NoLostWakeup, waiters
<1>3. Waiters'
  <2>1. \A m \in Mutexes : waiters(m)' = waiters(m)
    BY DEF waiters
  <2>2. Waiters
    BY DEF IInv
  <2>3. \A m \in Mutexes : \A t \in waiters(m) :
           /\ pc'[t] \in Taking /\ want'[t] = m
           /\ k'.err[t] = "eok" /\ mutex'[m].owner # t
    <3> SUFFICES ASSUME NEW m \in Mutexes, NEW t \in waiters(m)
                 PROVE  /\ pc'[t] \in Taking /\ want'[t] = m
                        /\ k'.err[t] = "eok" /\ mutex'[m].owner # t
      OBVIOUS
    <3>1. /\ t \in Thread /\ pc[t] \in Taking /\ want[t] = m
          /\ k.err[t] = "eok" /\ mutex[m].owner # t
      BY <2>2 DEF Waiters
    <3> QED BY <3>1
  <2>4. \A t \in Thread : pc'[t] \in Taking => want'[t] \in Mutexes
    BY <2>2 DEF Waiters
  <2> QED BY <2>1, <2>3, <2>4 DEF Waiters
<1>4. Owners'
  <2>1. \A m \in Mutexes : mutex[m].owner # Null => mutex[m].owner \in Thread
    BY DEF MutexState
  <2> QED BY <2>1 DEF IInv, Owners
<1>5. Answers'
  <2>1. \A m \in Mutexes : waiters(m)' = waiters(m)
    BY DEF waiters
  <2>2. Answers /\ \A t \in Thread : pc[t] \in Taking => want[t] \in Mutexes
    BY DEF IInv, Waiters
  <2> QED BY <2>1, <2>2 DEF Answers
<1> QED BY <1>1, <1>2, <1>3, <1>4, <1>5 DEF IInv

\* The rt_schedule() calls that are due, and the end of a time slice.
LEMMA SchedulingStep ==
  ASSUME IInv,
         \/ \E t \in Thread : TakeSchedule(t) \/ Schedule(t) \/ SleepSchedule(t)
         \/ TickYield
  PROVE  IInv'
<1> USE IInvFacts DEF Taking
<1> DEFINE r == rt_schedule(k)
<1>1. /\ k' = r /\ UNCHANGED <<mutex, want, claims, signalled, wild>>
      /\ pc' \in [Thread -> PC]
      /\ \A t \in Thread : pc'[t] \in Taking <=> pc[t] \in Taking
  BY DEF TickYield, TakeSchedule, Schedule, SleepSchedule, PC
<1>2. /\ r \in KernelState /\ KInv(r) /\ SameThreads(k, r) /\ Settled(r)
      /\ r.nest = 0
  BY ScheduleEffect
<1> HIDE DEF r
<1>3. TypeOK'
  BY <1>1, <1>2 DEF IInv, TypeOK
<1>4. Running'
  BY <1>1, <1>2 DEF Running, SameThreads, Settled
<1>5. \A t \in Thread : k.stat[t] = "suspend" =>
         IF pc[t] \in Taking THEN t \in waiters(want[t]) ELSE t \in k.timer
  BY DEF IInv, NoLostWakeup
<1>6. \A m \in Mutexes : ToSet(k'.wait[m]) = waiters(m)
  BY <1>1, <1>2 DEF SameThreads, waiters
<1> QED BY <1>1, <1>2, <1>3, <1>4, <1>5, <1>6, QuietStep DEF SameThreads

\* rt_thread_startup of another thread.
LEMMA StartupStep ==
  ASSUME IInv, NEW t \in Thread, NEW new \in Thread, Startup(t, new)
  PROVE  IInv'
<1> USE IInvFacts DEF Taking
<1> DEFINE r == rt_thread_startup(k, new, InitPrio[new])
<1>1. /\ k.cur = t /\ pc[t] = "run" /\ k.stat[new] = "init" /\ k' = r
      /\ pc' = [pc EXCEPT ![t] = "sched"]
      /\ UNCHANGED <<mutex, want, claims, signalled, wild>>
  BY DEF Startup
<1>2. /\ r \in KernelState /\ KInv(r)
      /\ r.stat = [k.stat EXCEPT ![new] = "ready"]
      /\ r.err = k.err /\ r.wait = k.wait /\ r.timer = k.timer
      /\ r.cur = k.cur /\ r.nest = k.nest
  <2>1. /\ k \in KernelState /\ KInv(k) /\ k.stat[new] = "init"
        /\ InitPrio[new] \in Prio
    BY <1>1, MutexAssumption
  <2>9. Started(k, new, InitPrio[new], r)
    BY ONLY <2>1, StartupStarts, new \in Thread
  <2> QED BY ONLY <2>9 DEF Started
<1> HIDE DEF r
<1>3. TypeOK'
  BY <1>1, <1>2 DEF IInv, TypeOK, PC
<1>4. k.stat[t] = "ready"
  BY <1>1, RunningThread
<1>5. Running'
  BY <1>1, <1>2, <1>4 DEF Running
<1>6. \A u \in Thread : k.stat[u] = "suspend" =>
         IF pc[u] \in Taking THEN u \in waiters(want[u]) ELSE u \in k.timer
  BY DEF IInv, NoLostWakeup
<1>7. \A m \in Mutexes : ToSet(k'.wait[m]) = waiters(m)
  BY <1>1, <1>2 DEF waiters
<1>8. \A u \in Thread : pc'[u] \in Taking <=> pc[u] \in Taking
  BY <1>1
<1> QED BY <1>1, <1>2, <1>3, <1>5, <1>6, <1>7, <1>8, QuietStep

\* Calls that fail at once, and the end of rt_thread_sleep: they change only
\* the error of the running thread.
LEMMA ErrorStep ==
  ASSUME IInv, NEW t \in Thread,
         \/ \E m \in Mutexes : TryFails(t, m) \/ ReleaseNotOwner(t, m)
         \/ SleepReturn(t)
  PROVE  IInv'
<1> USE IInvFacts DEF Taking
<1>1. /\ k.cur = t /\ pc[t] \in {"run", "sleep_ret"}
      /\ \E e \in Err : k' = [k EXCEPT !.err[t] = e]
      /\ pc' \in [Thread -> PC]
      /\ UNCHANGED <<mutex, want, claims, signalled, wild>>
      /\ \A u \in Thread : pc'[u] \in Taking <=> pc[u] \in Taking
  <2>1. CASE \E m \in Mutexes : TryFails(t, m) \/ ReleaseNotOwner(t, m)
    <3>1. /\ k.cur = t /\ pc[t] = "run"
          /\ UNCHANGED <<pc, mutex, want, claims, signalled, wild>>
          /\ k' = [k EXCEPT !.err[t] = "etimeout"]
             \/ k' = [k EXCEPT !.err[t] = "error"]
      BY <2>1 DEF TryFails, ReleaseNotOwner, TakeCall
    <3> QED BY <3>1 DEF Err
  <2>2. CASE SleepReturn(t)
    <3> DEFINE e == IF k.err[t] = "etimeout" THEN "eok" ELSE k.err[t]
    <3>1. /\ k.cur = t /\ pc[t] = "sleep_ret"
          /\ UNCHANGED <<mutex, want, claims, signalled, wild>>
          /\ k' = [k EXCEPT !.err[t] = e] /\ pc' = [pc EXCEPT ![t] = "run"]
      BY <2>2 DEF SleepReturn
    <3>2. e \in Err
      BY DEF Err
    <3> QED BY <3>1, <3>2 DEF PC
  <2> QED BY <2>1, <2>2
<1>2. PICK e \in Err : k' = [k EXCEPT !.err[t] = e]
  BY <1>1
<1>3. /\ k' \in KernelState /\ KInv(k') /\ k'.err = [k.err EXCEPT ![t] = e]
      /\ k'.stat = k.stat /\ k'.wait = k.wait /\ k'.timer = k.timer
      /\ k'.cur = k.cur /\ k'.nest = k.nest
  <2> DEFINE r == [k EXCEPT !.err[t] = e]
  <2>1. k \in KernelState /\ KInv(k)
    OBVIOUS
  <2>2. /\ r \in KernelState /\ KInv(r)
        /\ r.err = [k.err EXCEPT ![t] = e]
        /\ r.stat = k.stat /\ r.wait = k.wait /\ r.timer = k.timer
        /\ r.cur = k.cur /\ r.nest = k.nest
    BY ONLY <2>1, SetError, t \in Thread, e \in Err
  <2>3. k' = r
    BY <1>2
  <2> HIDE DEF r
  <2> QED BY <2>2, <2>3
<1>4. TypeOK'
  BY <1>1, <1>3 DEF IInv, TypeOK
<1>5. k.stat[t] = "ready"
  BY <1>1, RunningThread
<1>6. Running'
  BY <1>1, <1>3, <1>5 DEF Running
<1>7. \A u \in Thread : k.stat[u] = "suspend" =>
         IF pc[u] \in Taking THEN u \in waiters(want[u]) ELSE u \in k.timer
  BY DEF IInv, NoLostWakeup
<1>8. \A m \in Mutexes : ToSet(k'.wait[m]) = waiters(m)
  BY <1>3 DEF waiters
<1> QED BY <1>1, <1>3, <1>4, <1>6, <1>7, <1>8, QuietStep

\* rt_thread_sleep up to its rt_schedule().
LEMMA SleepStep ==
  ASSUME IInv, NEW t \in Thread, Sleep(t)
  PROVE  IInv'
<1> USE IInvFacts DEF Taking
<1> DEFINE r == rt_thread_sleep(k, t)
<1>1. /\ k.cur = t /\ pc[t] = "run" /\ t # Idle /\ k' = r
      /\ pc' = [pc EXCEPT ![t] = "sleep"]
      /\ UNCHANGED <<mutex, want, claims, signalled, wild>>
  BY MutexAssumption DEF Sleep
<1>2. k.stat[t] = "ready"
  BY <1>1, RunningThread
<1>3. /\ r \in KernelState /\ KInv(r)
      /\ r.stat = [k.stat EXCEPT ![t] = "suspend"]
      /\ r.timer = k.timer \cup {t} /\ r.err = k.err /\ r.wait = k.wait
      /\ r.cur = t /\ r.nest = 0
  BY <1>1, <1>2, SleepKeeps
<1> HIDE DEF r
<1>4. TypeOK'
  BY <1>1, <1>3 DEF IInv, TypeOK, PC
<1>5. Running'
  BY <1>1, <1>3 DEF Running
<1>6. \A u \in Thread : k'.stat[u] = "suspend" =>
         IF pc[u] \in Taking THEN u \in waiters(want[u]) ELSE u \in k'.timer
  BY <1>1, <1>3 DEF IInv, NoLostWakeup
<1>7. \A m \in Mutexes : ToSet(k'.wait[m]) = waiters(m)
  BY <1>1, <1>3 DEF waiters
<1>8. \A u \in Thread : pc'[u] \in Taking <=> pc[u] \in Taking
  BY <1>1
<1> QED BY <1>1, <1>3, <1>4, <1>5, <1>6, <1>7, <1>8, QuietStep

\* The expiry of a thread timer: a waiter leaves the list with -RT_ETIMEOUT.
LEMMA TimerStep ==
  ASSUME IInv, NEW t \in Thread, TimerExpire(t)
  PROVE  IInv'
<1> USE IInvFacts DEF Taking
<1>1. t \in k.timer /\ k' = rt_thread_timeout(k, t)
      /\ UNCHANGED <<mutex, pc, want, claims, signalled, wild>>
  BY DEF TimerExpire
<1>2. /\ k.stat[t] = "suspend"
      /\ k' \in KernelState /\ KInv(k') /\ Settled(k') /\ k'.nest = 0
      /\ k'.stat = [k.stat EXCEPT ![t] = "ready"]
      /\ k'.err = [k.err EXCEPT ![t] = "etimeout"]
      /\ k'.timer = k.timer \ {t}
      /\ \A n \in Mutexes : ToSet(k'.wait[n]) = waiters(n) \ {t}
  BY <1>1, TimeoutEffect
<1>3. TypeOK' /\ Running'
  BY <1>1, <1>2 DEF IInv, TypeOK, Running, Settled
<1>4. \A n \in Mutexes : waiters(n)' = waiters(n) \ {t}
  BY <1>2 DEF waiters
<1>5. HoldCounts'
  <2>3. \A u \in Thread, n \in Mutexes : Granted(u, n)' <=> Granted(u, n)
    BY <1>1 DEF Granted
  <2>4. \A u \in Thread, n \in Mutexes : Mine(u, n)' = Mine(u, n)
    BY <1>1, <2>3 DEF Mine
  <2> QED BY <1>1, <2>4 DEF IInv, HoldCounts
<1>6. NoLostWakeup'
  <2>1. \A n \in Mutexes : /\ mutex'[n].value = 1 <=> mutex'[n].owner = Null
                           /\ waiters(n)' # {} => mutex'[n].owner # Null
    BY <1>1, <1>4 DEF IInv, NoLostWakeup
  <2>2. \A u \in Thread : k'.stat[u] = "suspend" => u # t /\ k.stat[u] = "suspend"
    BY <1>2
  <2>3. \A u \in Thread : pc[u] \in Taking => want[u] \in Mutexes
    BY DEF IInv, Waiters
  <2>4. \A u \in Thread : k'.stat[u] = "suspend" =>
           IF pc[u] \in Taking THEN u \in waiters(want[u])' ELSE u \in k'.timer
    <3> SUFFICES ASSUME NEW u \in Thread, k'.stat[u] = "suspend"
                 PROVE  IF pc[u] \in Taking THEN u \in waiters(want[u])'
                                            ELSE u \in k'.timer
      OBVIOUS
    <3>1. u # t /\ IF pc[u] \in Taking THEN u \in waiters(want[u])
                                       ELSE u \in k.timer
      BY <2>2 DEF IInv, NoLostWakeup
    <3> QED BY <1>1, <1>2, <1>4, <2>3, <3>1
  <2> QED BY <1>1, <2>1, <2>4 DEF NoLostWakeup
<1>7. Waiters'
  BY <1>1, <1>2, <1>4 DEF IInv, Waiters
<1>8. Owners'
  <2>1. \A n \in Mutexes : mutex[n].owner # Null => mutex[n].owner \in Thread
    BY DEF MutexState
  <2> QED BY <1>1, <1>2, <2>1 DEF IInv, Owners
\* The thread was a waiter, so it is not the owner.
<1>9. Answers'
  <2> SUFFICES ASSUME NEW u \in Thread, pc[u] \in Taking
               PROVE  /\ k'.err[u] \notin {"eok", "eintr"} =>
                           mutex[want[u]].owner # u
                      /\ /\ k'.err[u] = "eok" /\ u \notin signalled
                         /\ u \notin ToSet(k'.wait[want[u]])
                         => mutex[want[u]].owner = u
    BY <1>1 DEF Answers, waiters
  <2>1. want[u] \in Mutexes
    BY DEF IInv, Waiters
  <2>2. CASE u = t
    <3>1. t \in waiters(want[t])
      BY <1>2, <2>2 DEF IInv, NoLostWakeup
    <3>2. mutex[want[t]].owner # t
      BY <2>1, <2>2, <3>1 DEF IInv, Waiters
    <3> QED BY <1>2, <2>2, <3>2
  <2>3. CASE u # t
    BY <1>2, <2>1, <2>3 DEF IInv, Answers
  <2> QED BY <2>2, <2>3
<1> QED BY <1>2, <1>3, <1>5, <1>6, <1>7, <1>8, <1>9 DEF IInv

\* rt_mutex_take returns: a grant becomes a claim.
LEMMA TakeReturnStep ==
  ASSUME IInv, NEW t \in Thread, TakeReturn(t)
  PROVE  IInv'
<1> USE IInvFacts DEF Taking
<1>1. /\ k.cur = t /\ pc[t] = "take_ret" /\ UNCHANGED <<k, mutex, want, wild>>
      /\ k.err[t] # "eintr" /\ ~Spurious(t) /\ signalled' = signalled \ {t}
      /\ claims' = IF k.err[t] = "eok"
                   THEN [claims EXCEPT ![t] = Append(@, want[t])] ELSE claims
      /\ pc' = [pc EXCEPT ![t] = "run"]
  BY DEF TakeReturn
<1>2. want[t] \in Mutexes
  BY <1>1 DEF IInv, Waiters
<1>3. k.stat[t] = "ready" /\ \A m \in Mutexes : t \notin waiters(m)
  BY <1>1, RunningThread
<1>4. TypeOK'
  <2>1. Append(claims[t], want[t]) \in Seq(Mutexes)
    BY <1>2
  <2> QED BY <1>1, <2>1 DEF IInv, TypeOK, PC
<1>5. HoldCounts'
  <2>1. \A u \in Thread, m \in Mutexes : u # t => Mine(u, m)' = Mine(u, m)
    BY <1>1 DEF Mine, Granted
  <2>2. \A m \in Mutexes : Mine(t, m)' = Mine(t, m)
    <3> SUFFICES ASSUME NEW m \in Mutexes
                 PROVE  Mine(t, m)' = Mine(t, m)
      OBVIOUS
    <3>1. ~Granted(t, m)'
      BY <1>1 DEF Granted
    <3>2. Granted(t, m) <=> want[t] = m /\ k.err[t] = "eok"
      <4>1. k.err[t] = "eok" <=> mutex[want[t]].owner = t
        BY <1>1, <1>2, <1>3 DEF IInv, Answers, Spurious
      <4> QED BY <1>1, <4>1 DEF Granted
    <3>3. /\ claims[t] \in Seq(Mutexes)
          /\ Occurrences(claims[t], m) \in Nat
      BY OccurrencesNat
    <3>4. Occurrences(Append(claims[t], want[t]), m)
            = Occurrences(claims[t], m) + IF m = want[t] THEN 1 ELSE 0
      BY <1>2, <3>3, OccurrencesAppend
    <3>5. claims'[t] = IF k.err[t] = "eok" THEN Append(claims[t], want[t])
                                           ELSE claims[t]
      BY <1>1
    <3> QED BY <3>1, <3>2, <3>3, <3>4, <3>5 DEF Mine
  <2> QED BY <1>1, <2>1, <2>2 DEF IInv, HoldCounts
<1>6. NoLostWakeup'
  BY <1>1, <1>3 DEF IInv, NoLostWakeup, waiters
<1>7. Running'
  BY <1>1, <1>3 DEF IInv, Running
<1>8. Waiters'
  BY <1>1, <1>3 DEF IInv, Waiters, waiters
<1>9. Owners'
  BY <1>1 DEF IInv, Owners
<1>10. Answers'
  BY <1>1 DEF IInv, Answers, waiters
<1> QED BY <1>1, <1>4, <1>5, <1>6, <1>7, <1>8, <1>9, <1>10 DEF IInv

\* rt_mutex_take that returns at once.
LEMMA TakeNowStep ==
  ASSUME IInv, NEW t \in Thread, NEW m \in Mutexes, TakeNow(t, m)
  PROVE  IInv'
<1> USE IInvFacts DEF Taking
<1>1. /\ k.cur = t /\ pc[t] = "run"
      /\ UNCHANGED <<pc, want, signalled, wild>>
      /\ Len(claims[t]) < MaxHold
      /\ k' = [k EXCEPT !.err[t] = "eok"]
      /\ claims' = [claims EXCEPT ![t] = Append(@, m)]
  BY DEF TakeNow, TakeCall
<1>2. /\ k' \in KernelState /\ KInv(k') /\ k'.err = [k.err EXCEPT ![t] = "eok"]
      /\ k'.stat = k.stat /\ k'.prio = k.prio /\ k'.wait = k.wait
      /\ k'.timer = k.timer /\ k'.cur = k.cur /\ k'.nest = k.nest
  <2> DEFINE r == [k EXCEPT !.err[t] = "eok"]
  <2>1. k \in KernelState /\ KInv(k) /\ "eok" \in Err
    BY DEF Err
  <2>2. /\ r \in KernelState /\ KInv(r)
        /\ r.err = [k.err EXCEPT ![t] = "eok"]
        /\ r.stat = k.stat /\ r.prio = k.prio /\ r.wait = k.wait
        /\ r.timer = k.timer /\ r.cur = k.cur /\ r.nest = k.nest
    BY ONLY <2>1, SetError, t \in Thread
  <2>3. k' = r
    BY <1>1
  <2> HIDE DEF r
  <2> QED BY <2>2, <2>3
<1>3. k.stat[t] = "ready" /\ \A n \in Mutexes : t \notin waiters(n)
  BY <1>1, RunningThread
<1>4. /\ claims[t] \in Seq(Mutexes) /\ Len(claims[t]) \in Nat
      /\ Append(claims[t], m) \in Seq(Mutexes)
      /\ \A n \in Mutexes :
           /\ Occurrences(claims[t], n) \in Nat
           /\ Occurrences(claims[t], n) <= Len(claims[t])
           /\ Occurrences(Append(claims[t], m), n)
                = Occurrences(claims[t], n) + IF n = m THEN 1 ELSE 0
  <2>1. claims[t] \in Seq(Mutexes)
    OBVIOUS
  <2>2. Len(claims[t]) \in Nat /\ Append(claims[t], m) \in Seq(Mutexes)
    BY ONLY <2>1, m \in Mutexes, LenProperties, AppendProperties
  <2>3. \A n : /\ Occurrences(claims[t], n) \in Nat
               /\ Occurrences(claims[t], n) <= Len(claims[t])
    BY ONLY <2>1, OccurrencesNat
  <2>4. \A n : Occurrences(Append(claims[t], m), n)
                 = Occurrences(claims[t], n) + IF n = m THEN 1 ELSE 0
    BY ONLY <2>1, m \in Mutexes, OccurrencesAppend
  <2> QED BY ONLY <2>1, <2>2, <2>3, <2>4
\* Before the step t holds what the mutex counts, or nothing.
<1>5. \A n \in Mutexes : ~Granted(t, n) /\ ~Granted(t, n)'
  BY <1>1 DEF Granted
<1>6. \A n \in Mutexes : Occurrences(claims[t], n)
         = IF mutex[n].owner = t THEN mutex[n].hold ELSE 0
  BY <1>4, <1>5 DEF IInv, HoldCounts, Mine
<1>7. /\ mutex' = [mutex EXCEPT ![m] = mutex'[m]]
      /\ mutex'[m].owner = t /\ mutex'[m].value = 0
      /\ mutex'[m].hold = mutex[m].hold + 1
      /\ mutex[m].owner \in {t, Null} /\ (mutex[m].owner = Null => waiters(m) = {})
      /\ mutex'[m].original_priority \in Prio
      /\ mutex'[m] \in MutexState
  <2>0. mutex[m] \in MutexState /\ k.prio[t] \in Prio /\ MaxHold \in 1 .. 255
    BY MutexAssumption
  <2>1. CASE mutex[m].owner = t
    <3>1. mutex' = [mutex EXCEPT ![m] = [mutex[m] EXCEPT !.hold = mutex[m].hold + 1]]
      BY <2>1 DEF TakeNow
    <3>2. mutex'[m] = [mutex[m] EXCEPT !.hold = mutex[m].hold + 1]
      BY <3>1
    <3>3. mutex[m].hold + 1 \in 0 .. 255
      <4>1. mutex[m].hold = Occurrences(claims[t], m)
        BY <1>6, <2>1
      <4>2. mutex[m].hold \in Nat /\ mutex[m].hold <= Len(claims[t])
        BY <1>4, <4>1
      <4>3. Len(claims[t]) < MaxHold /\ Len(claims[t]) \in Nat /\ MaxHold \in 1 .. 255
        BY <1>1, <1>4, <2>0
      <4> DEFINE h == mutex[m].hold
                 c == Len(claims[t])
      <4> HIDE DEF h, c
      <4>4. h \in Nat /\ h <= c /\ c \in Nat /\ c < MaxHold /\ MaxHold \in 1 .. 255
        BY <4>2, <4>3 DEF h, c
      <4>5. h + 1 \in 0 .. 255
        BY ONLY <4>4
      <4> QED BY <4>5 DEF h
    <3>4. mutex[m].value = 0
      BY <2>0, <2>1 DEF IInv, NoLostWakeup, MutexState
    <3>5. mutex[m].original_priority \in Prio
      BY <2>1 DEF IInv, Owners
    <3>6. /\ mutex'[m].owner = t /\ mutex'[m].value = mutex[m].value
          /\ mutex'[m].hold = mutex[m].hold + 1
          /\ mutex'[m].original_priority = mutex[m].original_priority
          /\ mutex'[m] \in MutexState
      BY ONLY <2>0, <2>1, <3>2, <3>3 DEF MutexState
    <3> QED BY <2>1, <3>1, <3>2, <3>4, <3>5, <3>6
  <2>2. CASE mutex[m].owner # t
    <3>1. /\ mutex[m].value > 0
          /\ mutex' = [mutex EXCEPT ![m] =
               [value |-> mutex[m].value - 1, owner |-> t,
                original_priority |-> k.prio[t], hold |-> mutex[m].hold + 1]]
      BY <2>2 DEF TakeNow
    <3>2. mutex'[m] = [value |-> mutex[m].value - 1, owner |-> t,
                       original_priority |-> k.prio[t],
                       hold |-> mutex[m].hold + 1]
      BY <3>1
    <3>3. mutex[m].value = 1
      BY <2>0, <3>1 DEF MutexState
    <3>4. mutex[m].owner = Null /\ waiters(m) = {}
      BY <3>3 DEF IInv, NoLostWakeup
    <3>5. mutex[m].hold = 0
      BY <3>4 DEF IInv, Owners
    <3> QED BY <2>0, <3>1, <3>2, <3>3, <3>4, <3>5 DEF MutexState
  <2> QED BY <2>1, <2>2
<1>8. \A n \in Mutexes \ {m} : mutex'[n] = mutex[n]
  BY <1>7
<1>9. TypeOK'
  BY <1>1, <1>2, <1>4, <1>7 DEF IInv, TypeOK
<1>10. HoldCounts'
  <2> SUFFICES ASSUME NEW n \in Mutexes, NEW u \in Thread
               PROVE  Mine(u, n)' = IF mutex'[n].owner = u THEN mutex'[n].hold ELSE 0
    BY DEF HoldCounts
  <2>1. Mine(u, n) = IF mutex[n].owner = u THEN mutex[n].hold ELSE 0
    BY DEF IInv, HoldCounts
  <2>2. CASE u = t
    <3>1. Mine(u, n)' = Occurrences(claims[t], n) + IF n = m THEN 1 ELSE 0
      BY <1>1, <1>4, <1>5, <2>2 DEF Mine
    <3>2. CASE n = m
      <4>1. Occurrences(claims[t], m) = mutex[m].hold
        <5>1. CASE mutex[m].owner = t
          BY <1>6, <5>1
        <5>2. CASE mutex[m].owner = Null
          BY <1>6, <5>2 DEF IInv, Owners
        <5> QED BY <1>7, <5>1, <5>2
      <4> QED BY <1>7, <2>2, <3>1, <3>2, <4>1
    <3>3. CASE n # m
      BY <1>4, <1>6, <1>8, <2>2, <3>1, <3>3
    <3> QED BY <3>2, <3>3
  <2>3. CASE u # t
    <3>1. Mine(u, n)' = Mine(u, n)
      <4>1. mutex'[n].owner = u <=> mutex[n].owner = u
        BY <1>7, <1>8, <2>3
      <4>2. pc'[u] = pc[u] /\ want'[u] = want[u] /\ claims'[u] = claims[u]
        BY <1>1, <2>3
      <4> QED BY ONLY <4>1, <4>2 DEF Mine, Granted
    <3>2. CASE n = m
      <4>1. mutex[m].owner # u /\ mutex'[m].owner # u
        BY <1>7, <2>3
      <4> QED BY <2>1, <3>1, <3>2, <4>1
    <3>3. CASE n # m
      BY <1>8, <2>1, <3>1, <3>3
    <3> QED BY <3>2, <3>3
  <2> QED BY <2>2, <2>3
<1>w. \A n \in Mutexes : waiters(n)' = waiters(n)
  BY <1>2 DEF waiters
<1>11. NoLostWakeup'
  <2>1. \A n \in Mutexes : /\ mutex'[n].value = 1 <=> mutex'[n].owner = Null
                           /\ waiters(n)' # {} => mutex'[n].owner # Null
    <3> SUFFICES ASSUME NEW n \in Mutexes
                 PROVE  /\ mutex'[n].value = 1 <=> mutex'[n].owner = Null
                        /\ waiters(n)' # {} => mutex'[n].owner # Null
      OBVIOUS
    <3>1. CASE n = m
      BY <1>7, <3>1
    <3>2. CASE n # m
      BY <1>8, <1>w, <3>2 DEF IInv, NoLostWakeup
    <3> QED BY <3>1, <3>2
  <2>2. \A u \in Thread : pc[u] \in Taking => want[u] \in Mutexes
    BY DEF IInv, Waiters
  <2> QED BY <1>1, <1>2, <1>w, <2>1, <2>2 DEF IInv, NoLostWakeup
<1>12. Running'
  BY <1>1, <1>2 DEF IInv, Running
<1>13. Waiters'
  <2>1. ASSUME NEW n \in Mutexes, NEW u \in waiters(n)
        PROVE  /\ pc[u] \in Taking /\ want[u] = n
               /\ k'.err[u] = "eok" /\ mutex'[n].owner # u
    <3>1. pc[u] \in Taking /\ want[u] = n /\ k.err[u] = "eok"
          /\ mutex[n].owner # u
      BY <2>1 DEF IInv, Waiters
    <3>2. u # t /\ u \in Thread
      BY <1>3
    <3> QED BY <1>2, <1>7, <1>8, <3>1, <3>2
  <2> QED BY <1>1, <1>w, <2>1 DEF IInv, Waiters
<1>14. Owners'
  <2> SUFFICES ASSUME NEW n \in Mutexes
               PROVE  IF mutex'[n].owner = Null THEN mutex'[n].hold = 0
                      ELSE /\ mutex'[n].original_priority \in Prio
                           /\ k'.stat[mutex'[n].owner] \in {"ready", "suspend"}
    BY DEF Owners
  <2>1. CASE n = m
    BY <1>2, <1>3, <1>7, <2>1
  <2>2. CASE n # m
    BY <1>2, <1>8, <2>2 DEF IInv, Owners
  <2> QED BY <2>1, <2>2
<1>15. Answers'
  <2> SUFFICES ASSUME NEW u \in Thread, pc[u] \in Taking
               PROVE  /\ k'.err[u] \notin {"eok", "eintr"} =>
                           mutex'[want[u]].owner # u
                      /\ /\ k'.err[u] = "eok" /\ u \notin signalled
                         /\ u \notin ToSet(k'.wait[want[u]])
                         => mutex'[want[u]].owner = u
    BY <1>1 DEF Answers, waiters
  <2>1. u # t /\ want[u] \in Mutexes /\ k'.err[u] = k.err[u]
    BY <1>1, <1>2 DEF IInv, Waiters
  <2>2. mutex'[want[u]].owner = u <=> mutex[want[u]].owner = u
    BY <1>7, <1>8, <2>1
  <2>3. ToSet(k'.wait[want[u]]) = waiters(want[u])
    BY <1>w, <2>1 DEF waiters
  <2> QED BY <2>1, <2>2, <2>3 DEF IInv, Answers
<1> QED BY <1>2, <1>9, <1>10, <1>11, <1>12, <1>13, <1>14, <1>15 DEF IInv

\* rt_mutex_take that has to wait.
LEMMA TakeBlockStep ==
  ASSUME IInv, NEW t \in Thread, NEW m \in Mutexes,
         \E timed \in BOOLEAN : TakeBlock(t, m, timed)
  PROVE  IInv'
<1> USE IInvFacts DEF Taking
<1>1. /\ k.cur = t /\ pc[t] = "run" /\ t # Idle
      /\ pc' = [pc EXCEPT ![t] = "take_sched"] /\ want' = [want EXCEPT ![t] = m]
      /\ UNCHANGED <<mutex, claims, signalled, wild>>
  BY MutexAssumption DEF TakeBlock
<1>2. /\ k' \in KernelState /\ KInv(k') /\ k'.cur = t /\ k'.nest = 0
      /\ k'.stat = [k.stat EXCEPT ![t] = "suspend"]
      /\ k'.err = [k.err EXCEPT ![t] = "eok"]
      /\ mutex[m].owner \in Thread /\ mutex[m].owner # t
      /\ k.timer \ {t} \subseteq k'.timer
      /\ ToSet(k'.wait[m]) = waiters(m) \cup {t}
      /\ \A n \in Mutexes \ {m} : k'.wait[n] = k.wait[n]
  <2>1. IInv /\ \E timed \in BOOLEAN : TakeBlock(t, m, timed)
    OBVIOUS
  <2> QED BY ONLY <2>1, t \in Thread, m \in Mutexes, BlockEffect
<1>3. \A n \in Mutexes : ToSet(k'.wait[n])
                           = IF n = m THEN waiters(n) \cup {t} ELSE waiters(n)
  BY <1>2 DEF waiters
<1>p. \A n \in Mutexes : waiters(n)' = ToSet(k'.wait[n])
  BY DEF waiters
<1>4. TypeOK'
  BY <1>1, <1>2 DEF IInv, TypeOK, PC
<1>5. HoldCounts'
  <2>1. \A n \in Mutexes : ~Granted(t, n)
    BY <1>1 DEF Granted
  <2>2. \A n \in Mutexes : ~Granted(t, n)'
    BY <1>1, <1>2 DEF Granted
  <2>3. \A u \in Thread, n \in Mutexes : Granted(u, n)' <=> Granted(u, n)
    <3> SUFFICES ASSUME NEW u \in Thread, NEW n \in Mutexes, u # t
                 PROVE  Granted(u, n)' <=> Granted(u, n)
      BY <2>1, <2>2
    <3> QED BY <1>1 DEF Granted
  <2>4. \A u \in Thread, n \in Mutexes : Mine(u, n)' = Mine(u, n)
    BY <1>1, <2>3 DEF Mine
  <2> QED BY <1>1, <2>4 DEF IInv, HoldCounts
<1>6. NoLostWakeup'
  <2>1. \A n \in Mutexes : /\ mutex'[n].value = 1 <=> mutex'[n].owner = Null
                           /\ waiters(n)' # {} => mutex'[n].owner # Null
    <3> SUFFICES ASSUME NEW n \in Mutexes
                 PROVE  /\ mutex'[n].value = 1 <=> mutex'[n].owner = Null
                        /\ waiters(n)' # {} => mutex'[n].owner # Null
      OBVIOUS
    <3>1. CASE n = m
      BY <1>1, <1>2, <3>1 DEF IInv, NoLostWakeup
    <3>2. CASE n # m
      BY <1>1, <1>3, <1>p, <3>2 DEF IInv, NoLostWakeup
    <3> QED BY <3>1, <3>2
  <2>2. ASSUME NEW u \in Thread, k'.stat[u] = "suspend"
        PROVE  IF pc'[u] \in Taking THEN u \in ToSet(k'.wait[want'[u]])
                                    ELSE u \in k'.timer
    <3>1. CASE u = t
      BY <1>1, <1>3, <3>1
    <3>2. CASE u # t
      <4>1. /\ k.stat[u] = "suspend" /\ pc'[u] = pc[u] /\ want'[u] = want[u]
            /\ pc[u] \in Taking => want[u] \in Mutexes
        BY <1>1, <1>2, <2>2, <3>2 DEF IInv, Waiters
      <4>2. IF pc[u] \in Taking THEN u \in waiters(want[u]) ELSE u \in k.timer
        BY <4>1 DEF IInv, NoLostWakeup
      <4>3. pc[u] \in Taking => u \in ToSet(k'.wait[want[u]])
        BY <1>3, <4>1, <4>2
      <4>4. pc[u] \notin Taking => u \in k'.timer
        BY <1>2, <3>2, <4>2
      <4> QED BY <4>1, <4>3, <4>4
    <3> QED BY <3>1, <3>2
  <2> QED BY <2>1, <2>2 DEF NoLostWakeup, waiters
<1>7. Running'
  BY <1>1, <1>2 DEF Running
<1>8. Waiters'
  <2>1. ASSUME NEW n \in Mutexes, NEW u \in waiters(n)'
        PROVE  /\ pc'[u] \in Taking /\ want'[u] = n
               /\ k'.err[u] = "eok" /\ mutex'[n].owner # u
    <3>1. CASE u = t
      <4>1. t \notin waiters(n)
        BY <1>1, RunningThread
      <4>2. n = m
        BY <1>3, <1>p, <2>1, <3>1, <4>1
      <4> QED BY <1>1, <1>2, <3>1, <4>2
    <3>2. CASE u # t
      <4>1. u \in waiters(n) /\ u \in Thread
        <5>1. u \in ToSet(k'.wait[n])
          BY <2>1 DEF waiters
        <5>2. u \in waiters(n)
          BY <1>3, <3>2, <5>1
        <5> QED BY <5>2
      <4>2. /\ pc[u] \in Taking /\ want[u] = n
            /\ k.err[u] = "eok" /\ mutex[n].owner # u
        BY <4>1 DEF IInv, Waiters
      <4> QED BY <1>1, <1>2, <3>2, <4>1, <4>2
    <3> QED BY <3>1, <3>2
  <2>2. \A u \in Thread : pc'[u] \in Taking => want'[u] \in Mutexes
    BY <1>1 DEF IInv, Waiters
  <2> QED BY <2>1, <2>2 DEF Waiters
<1>9. Owners'
  <2>1. \A n \in Mutexes : mutex[n].owner # Null => mutex[n].owner \in Thread
    BY DEF MutexState
  <2> QED BY <1>1, <1>2, <2>1 DEF IInv, Owners
<1>10. Answers'
  <2> SUFFICES ASSUME NEW u \in Thread, pc'[u] \in Taking
               PROVE  /\ k'.err[u] \notin {"eok", "eintr"} =>
                           mutex[want'[u]].owner # u
                      /\ /\ k'.err[u] = "eok" /\ u \notin signalled
                         /\ u \notin ToSet(k'.wait[want'[u]])
                         => mutex[want'[u]].owner = u
    BY <1>1 DEF Answers, waiters
  <2>1. CASE u = t
    BY <1>1, <1>2, <1>3, <1>p, <2>1
  <2>2. CASE u # t
    <3>1. /\ pc[u] \in Taking /\ want'[u] = want[u] /\ want[u] \in Mutexes
          /\ k'.err[u] = k.err[u]
      BY <1>1, <1>2, <2>2 DEF IInv, Waiters
    <3>2. u \in ToSet(k'.wait[want[u]]) <=> u \in waiters(want[u])
      BY <1>3, <2>2, <3>1
    <3> QED BY <1>1, <3>1, <3>2 DEF IInv, Answers
  <2> QED BY <2>1, <2>2
<1> QED BY <1>2, <1>4, <1>5, <1>6, <1>7, <1>8, <1>9, <1>10 DEF IInv

\* A release takes the last claim of the mutex out of the claims.
LEMMA UnclaimEffect ==
  ASSUME IInv, NEW t \in Thread, NEW m \in ToSet(claims[t])
  PROVE  /\ unclaim(t, m) \in Seq(Mutexes)
         /\ \A n \in Mutexes :
              /\ Occurrences(claims[t], n) \in Nat
              /\ Occurrences(unclaim(t, m), n)
                   = Occurrences(claims[t], n) - IF n = m THEN 1 ELSE 0
<1> DEFINE c == claims[t]
           P == {i \in DOMAIN c : c[i] = m}
           R == {Len(c) - i : i \in P}
           x == CHOOSE i \in DOMAIN c :
                  c[i] = m /\ \A j \in DOMAIN c : c[j] = m => j <= i
<1>1. c \in Seq(Mutexes)
  BY IInvFacts
<1>2. Len(c) \in Nat /\ DOMAIN c = 1 .. Len(c)
  BY <1>1, LenProperties
<1>3. P # {} /\ P \subseteq 1 .. Len(c)
  BY <1>2 DEF ToSet
<1>4. R # {} /\ \A r \in R : r \in Nat
  <2> HIDE DEF P
  <2>1. PICK y \in P : TRUE
    BY <1>3
  <2>2. Len(c) - y \in R
    BY <2>1
  <2>3. \A y1 \in P : Len(c) - y1 \in Nat
    BY <1>2, <1>3
  <2> QED BY <2>2, <2>3
<1>5. PICK r \in R : \A s \in R : r <= s
  <2> HIDE DEF R
  <2> QED BY <1>4, LeastNat
<1>6. PICK i \in P : r = Len(c) - i
  BY <1>5
<1>7. \A j \in P : j <= i
  <2> SUFFICES ASSUME NEW j \in P PROVE j <= i
    OBVIOUS
  <2>1. Len(c) - i <= Len(c) - j
    BY <1>5, <1>6
  <2> QED BY <1>2, <1>3, <2>1
<1>8. x \in DOMAIN c /\ c[x] = m
  <2>1. i \in DOMAIN c /\ c[i] = m /\ \A j \in DOMAIN c : c[j] = m => j <= i
    BY <1>7
  <2> QED BY <2>1
<1>9. unclaim(t, m) = RemoveAt(c, x)
  BY DEF unclaim
<1>10. x \in 1 .. Len(c)
  BY <1>2, <1>8
<1> HIDE DEF x, P, R
<1>11. RemoveAt(c, x) \in Seq(Mutexes)
  BY ONLY <1>1, <1>10, RemoveAtElements
<1>12. \A n \in Mutexes : /\ Occurrences(c, n) \in Nat
                          /\ Occurrences(RemoveAt(c, x), n)
                               = Occurrences(c, n) - IF n = c[x] THEN 1 ELSE 0
  BY ONLY <1>1, <1>10, OccurrencesNat, OccurrencesRemove
<1> QED BY <1>8, <1>9, <1>11, <1>12

\* What a release finds: the owner runs, waits for nothing, and holds the mutex
\* as often as it counts; it holds one claim less afterwards.
LEMMA ReleaseFacts ==
  ASSUME IInv, NEW t \in Thread, NEW m \in Mutexes, Release(t, m)
  PROVE  /\ k.cur = t /\ pc[t] = "run" /\ UNCHANGED <<want, signalled, wild>>
         /\ k.stat[t] = "ready" /\ \A n \in Mutexes : t \notin waiters(n)
         /\ mutex[m].owner = t /\ mutex[m].owner # Null
         /\ mutex[m].value = 0 /\ mutex[m].hold \in 1 .. 255
         /\ claims' = [claims EXCEPT ![t] = unclaim(t, m)]
         /\ claims' \in [Thread -> Seq(Mutexes)]
         /\ \A n \in Mutexes :
              Occurrences(claims'[t], n)
                = Mine(t, n) - IF n = m THEN 1 ELSE 0
<1> USE IInvFacts DEF Taking
<1>1. /\ k.cur = t /\ pc[t] = "run" /\ UNCHANGED <<want, signalled, wild>>
      /\ mutex[m].owner = t /\ m \in ToSet(claims[t])
      /\ claims' = [claims EXCEPT ![t] = unclaim(t, m)]
  BY DEF Release
<1>2. k.stat[t] = "ready" /\ \A n \in Mutexes : t \notin waiters(n)
  BY <1>1, RunningThread
<1>3. /\ unclaim(t, m) \in Seq(Mutexes)
      /\ \A n \in Mutexes :
           /\ Occurrences(claims[t], n) \in Nat
           /\ Occurrences(unclaim(t, m), n)
                = Occurrences(claims[t], n) - IF n = m THEN 1 ELSE 0
  BY <1>1, UnclaimEffect
<1>4. \A n \in Mutexes : ~Granted(t, n)
  BY <1>1 DEF Granted
<1>5. \A n \in Mutexes : Mine(t, n) = Occurrences(claims[t], n)
  BY <1>3, <1>4 DEF Mine
<1>6. mutex[m].value = 0 /\ mutex[m].owner # Null
  BY <1>1 DEF IInv, NoLostWakeup, MutexState
<1>7. mutex[m].hold \in 1 .. 255
  <2>1. mutex[m].hold = Occurrences(claims[t], m)
    BY <1>1, <1>5 DEF IInv, HoldCounts
  <2>2. Occurrences(claims[t], m) # 0
    BY <1>1, OccurrencesNat
  <2>3. mutex[m].hold \in 0 .. 255
    BY DEF MutexState
  <2> QED BY <2>1, <2>2, <2>3
<1>8. claims'[t] = unclaim(t, m)
  BY <1>1
<1>9. claims' \in [Thread -> Seq(Mutexes)]
  BY <1>1, <1>3
<1>10. \A n \in Mutexes : Occurrences(claims'[t], n)
                            = Mine(t, n) - IF n = m THEN 1 ELSE 0
  BY ONLY <1>3, <1>5, <1>8
<1> QED BY ONLY <1>1, <1>2, <1>6, <1>7, <1>9, <1>10

\* rt_mutex_release of a mutex held more than once.
LEMMA ReleaseNestedStep ==
  ASSUME IInv, NEW t \in Thread, NEW m \in Mutexes, Release(t, m),
         mutex[m].hold > 1
  PROVE  IInv'
<1> USE IInvFacts DEF Taking
<1>1. /\ k.cur = t /\ pc[t] = "run" 
      /\ UNCHANGED <<k, pc, want, signalled, wild>>
      /\ mutex[m].owner = t /\ mutex[m].hold \in 1 .. 255
      /\ mutex' = [mutex EXCEPT ![m] =
                     [mutex[m] EXCEPT !.hold = mutex[m].hold - 1]]
      /\ claims' = [claims EXCEPT ![t] = unclaim(t, m)]
      /\ claims' \in [Thread -> Seq(Mutexes)]
      /\ \A n \in Mutexes : Occurrences(claims'[t], n)
                              = Mine(t, n) - IF n = m THEN 1 ELSE 0
  <2>1. /\ k.cur = t /\ pc[t] = "run" /\ UNCHANGED <<want, signalled, wild>>
        /\ mutex[m].owner = t /\ mutex[m].hold \in 1 .. 255
        /\ claims' = [claims EXCEPT ![t] = unclaim(t, m)]
        /\ claims' \in [Thread -> Seq(Mutexes)]
        /\ \A n \in Mutexes : Occurrences(claims'[t], n)
                                = Mine(t, n) - IF n = m THEN 1 ELSE 0
    BY ReleaseFacts
  <2>2. /\ UNCHANGED <<k, pc>>
        /\ mutex' = [mutex EXCEPT ![m] =
                       [mutex[m] EXCEPT !.hold = mutex[m].hold - 1]]
    BY DEF Release
  <2> QED BY ONLY <2>1, <2>2
<1>2. mutex[m] \in MutexState
  OBVIOUS
<1>3. /\ mutex'[m].owner = t /\ mutex'[m].value = mutex[m].value
      /\ mutex'[m].original_priority = mutex[m].original_priority
      /\ mutex'[m].hold = mutex[m].hold - 1 /\ mutex'[m] \in MutexState
      /\ \A n \in Mutexes \ {m} : mutex'[n] = mutex[n]
  <2>1. mutex'[m] = [mutex[m] EXCEPT !.hold = mutex[m].hold - 1]
    BY <1>1
  <2>2. mutex[m].hold - 1 \in 0 .. 255
    BY <1>1
  <2> QED BY <1>1, <1>2, <2>1, <2>2 DEF MutexState
<1>4. TypeOK'
  BY <1>1, <1>3 DEF IInv, TypeOK
<1>s. \A n \in Mutexes :
        /\ mutex'[n].owner = mutex[n].owner /\ mutex'[n].value = mutex[n].value
        /\ mutex'[n].original_priority = mutex[n].original_priority
  BY <1>1, <1>3
<1>5. \A u \in Thread, n \in Mutexes : Granted(u, n)' <=> Granted(u, n)
  BY <1>1, <1>s DEF Granted
<1>6. HoldCounts'
  <2> SUFFICES ASSUME NEW n \in Mutexes, NEW u \in Thread
               PROVE  Mine(u, n)' = IF mutex'[n].owner = u
                                    THEN mutex'[n].hold ELSE 0
    BY DEF HoldCounts
  <2>1. Mine(u, n) = IF mutex[n].owner = u THEN mutex[n].hold ELSE 0
    BY DEF IInv, HoldCounts
  <2>2. CASE u = t
    <3>1. ~Granted(t, n)
      BY <1>1 DEF Granted
    <3>2. Mine(t, n) \in Nat
      <4>0. mutex[n] \in MutexState
        OBVIOUS
      <4>1. mutex[n].hold \in Nat
        BY ONLY <4>0 DEF MutexState
      <4> QED BY <2>1, <2>2, <4>1
    <3>3. Mine(t, n)' = Mine(t, n) - IF n = m THEN 1 ELSE 0
      <4>1. Mine(t, n)' = Occurrences(claims'[t], n) + 0
        BY <1>5, <3>1 DEF Mine
      <4>2. Occurrences(claims'[t], n) = Mine(t, n) - IF n = m THEN 1 ELSE 0
        BY <1>1
      <4> QED BY <3>2, <4>1, <4>2
    <3> QED BY <1>1, <1>3, <2>1, <2>2, <3>2, <3>3
  <2>3. CASE u # t
    <3>1. Mine(u, n)' = Mine(u, n)
      BY <1>1, <1>5, <2>3 DEF Mine
    <3> QED BY <1>1, <1>3, <2>1, <2>3, <3>1
  <2> QED BY <2>2, <2>3
<1>w. \A n \in Mutexes : waiters(n)' = waiters(n)
  BY <1>1 DEF waiters
<1>7. NoLostWakeup'
  <2>1. \A n \in Mutexes : /\ mutex'[n].value = 1 <=> mutex'[n].owner = Null
                           /\ waiters(n)' # {} => mutex'[n].owner # Null
    <3>1. \A n \in Mutexes : /\ mutex[n].value = 1 <=> mutex[n].owner = Null
                             /\ waiters(n) # {} => mutex[n].owner # Null
      BY DEF IInv, NoLostWakeup
    <3> QED BY ONLY <1>s, <1>w, <3>1
  <2>2. NoLostWakeup /\ k' = k /\ pc' = pc /\ want' = want
    BY <1>1 DEF IInv
  <2> QED BY ONLY <2>1, <2>2 DEF NoLostWakeup, waiters
<1>8. Running' /\ Waiters'
  <2>1. Running /\ Waiters /\ k' = k /\ pc' = pc /\ want' = want
    BY <1>1 DEF IInv
  <2>2. Running'
    BY ONLY <2>1 DEF Running
  <2>3. \A n \in Mutexes : \A u \in waiters(n) :
           /\ pc'[u] \in Taking /\ want'[u] = n
           /\ k'.err[u] = "eok" /\ mutex'[n].owner # u
    <3>1. \A n \in Mutexes : \A u \in waiters(n) :
             /\ pc[u] \in Taking /\ want[u] = n
             /\ k.err[u] = "eok" /\ mutex[n].owner # u
      BY <2>1 DEF Waiters
    <3> QED BY ONLY <1>s, <2>1, <3>1
  <2>4. Waiters'
    BY <1>w, <2>1, <2>3 DEF Waiters
  <2> QED BY <2>2, <2>4
<1>9. Owners'
  BY <1>1, <1>3, <1>s DEF IInv, Owners
<1>10. Answers'
  <2> SUFFICES ASSUME NEW u \in Thread, pc'[u] \in Taking
               PROVE  /\ k'.err[u] \notin {"eok", "eintr"} =>
                           mutex'[want[u]].owner # u
                      /\ /\ k'.err[u] = "eok" /\ u \notin signalled
                         /\ u \notin ToSet(k'.wait[want[u]])
                         => mutex'[want[u]].owner = u
    BY <1>1 DEF Answers, waiters
  <2>1. pc[u] \in Taking /\ want[u] \in Mutexes /\ k'.err[u] = k.err[u]
    BY <1>1 DEF IInv, Waiters
  <2>2. mutex'[want[u]].owner = mutex[want[u]].owner
    BY <1>s, <2>1
  <2>3. ToSet(k'.wait[want[u]]) = waiters(want[u])
    BY <1>w, <2>1 DEF waiters
  <2> QED BY <2>1, <2>2, <2>3 DEF IInv, Answers
<1> QED BY <1>1, <1>4, <1>6, <1>7, <1>8, <1>9, <1>10 DEF IInv

\* The last rt_mutex_release of a mutex nobody waits for.
LEMMA ReleaseFreeStep ==
  ASSUME IInv, NEW t \in Thread, NEW m \in Mutexes, Release(t, m),
         ~(mutex[m].hold > 1), waiters(m) = {}
  PROVE  IInv'
<1> USE IInvFacts DEF Taking
<1>1. /\ k.cur = t /\ pc[t] = "run" /\ UNCHANGED <<pc, want, signalled, wild>>
      /\ mutex[m].owner = t /\ mutex[m].owner # Null
      /\ mutex[m].hold = 1 /\ mutex[m].value = 0
      /\ mutex' = [mutex EXCEPT ![m] = freed(m)] /\ k' = restore(m)
      /\ claims' = [claims EXCEPT ![t] = unclaim(t, m)]
      /\ claims' \in [Thread -> Seq(Mutexes)]
      /\ \A n \in Mutexes : Occurrences(claims'[t], n)
                              = Mine(t, n) - IF n = m THEN 1 ELSE 0
  <2>1. /\ k.cur = t /\ pc[t] = "run" /\ UNCHANGED <<want, signalled, wild>>
        /\ mutex[m].owner = t /\ mutex[m].owner # Null
        /\ mutex[m].hold \in 1 .. 255 /\ mutex[m].value = 0
        /\ claims' = [claims EXCEPT ![t] = unclaim(t, m)]
        /\ claims' \in [Thread -> Seq(Mutexes)]
        /\ \A n \in Mutexes : Occurrences(claims'[t], n)
                                = Mine(t, n) - IF n = m THEN 1 ELSE 0
    BY ReleaseFacts
  <2>2. /\ UNCHANGED pc /\ ~(mutex[m].hold > 1)
        /\ mutex' = [mutex EXCEPT ![m] = freed(m)] /\ k' = restore(m)
    BY DEF Release
  <2>3. mutex[m].hold = 1
    <3>1. mutex[m].hold \in 1 .. 255 /\ ~(mutex[m].hold > 1)
      BY <2>1, <2>2
    <3> QED BY ONLY <3>1
  <2> QED BY ONLY <2>1, <2>2, <2>3
<1>2. /\ k' \in KernelState /\ KInv(k')
      /\ k'.stat = k.stat /\ k'.err = k.err /\ k'.wait = k.wait
      /\ k'.timer = k.timer /\ k'.cur = k.cur /\ k'.nest = 0
  BY <1>1, RestoreEffect
<1>3. /\ mutex'[m].owner = Null /\ mutex'[m].value = 1
      /\ mutex'[m].hold = 0 /\ mutex'[m] \in MutexState
      /\ \A n \in Mutexes \ {m} : mutex'[n] = mutex[n]
  BY <1>1 DEF MutexState, freed, NoPriority
<1>4. TypeOK'
  BY <1>1, <1>2, <1>3 DEF IInv, TypeOK
<1>5. \A u \in Thread, n \in Mutexes : Granted(u, n)' <=> Granted(u, n)
  <2> SUFFICES ASSUME NEW u \in Thread, NEW n \in Mutexes
               PROVE  Granted(u, n)' <=> Granted(u, n)
    OBVIOUS
  <2>1. pc[u] \in Taking => (mutex'[n].owner = u <=> mutex[n].owner = u)
    BY <1>1, <1>3
  <2> QED BY <1>1, <2>1 DEF Granted
<1>6. HoldCounts'
  <2> SUFFICES ASSUME NEW n \in Mutexes, NEW u \in Thread
               PROVE  Mine(u, n)' = IF mutex'[n].owner = u
                                    THEN mutex'[n].hold ELSE 0
    BY DEF HoldCounts
  <2>1. Mine(u, n) = IF mutex[n].owner = u THEN mutex[n].hold ELSE 0
    BY DEF IInv, HoldCounts
  <2>2. CASE u = t
    <3>1. ~Granted(t, n)
      BY <1>1 DEF Granted
    <3>2. Mine(t, n) \in Nat
      <4>0. mutex[n] \in MutexState
        OBVIOUS
      <4>1. mutex[n].hold \in Nat
        BY ONLY <4>0 DEF MutexState
      <4> QED BY <2>1, <2>2, <4>1
    <3>3. Mine(t, n)' = Mine(t, n) - IF n = m THEN 1 ELSE 0
      <4>1. Mine(t, n)' = Occurrences(claims'[t], n) + 0
        BY <1>5, <3>1 DEF Mine
      <4>2. Occurrences(claims'[t], n) = Mine(t, n) - IF n = m THEN 1 ELSE 0
        BY <1>1
      <4> QED BY <3>2, <4>1, <4>2
    <3> QED BY <1>1, <1>3, <2>1, <2>2, <3>2, <3>3
  <2>3. CASE u # t
    <3>1. Mine(u, n)' = Mine(u, n)
      BY <1>1, <1>5, <2>3 DEF Mine
    <3> QED BY <1>1, <1>3, <2>1, <2>3, <3>1
  <2> QED BY <2>2, <2>3
<1>w. \A n \in Mutexes : ToSet(k'.wait[n]) = waiters(n)
  BY <1>2 DEF waiters
<1>7. NoLostWakeup'
  <2>1. ASSUME NEW n \in Mutexes
        PROVE  /\ mutex'[n].value = 1 <=> mutex'[n].owner = Null
               /\ ToSet(k'.wait[n]) # {} => mutex'[n].owner # Null
    <3>1. CASE n = m
      BY <1>3, <1>w, <3>1
    <3>2. CASE n # m
      BY <1>3, <1>w, <3>2 DEF IInv, NoLostWakeup
    <3> QED BY <3>1, <3>2
  <2>2. \A u \in Thread : k'.stat[u] = "suspend" =>
           IF pc'[u] \in Taking THEN u \in ToSet(k'.wait[want'[u]])
                                ELSE u \in k'.timer
    BY <1>1, <1>2 DEF IInv, NoLostWakeup, waiters
  <2> QED BY <2>1, <2>2 DEF NoLostWakeup, waiters
<1>8. Running' /\ Waiters'
  <2>1. ASSUME NEW n \in Mutexes, NEW u \in ToSet(k'.wait[n])
        PROVE  /\ pc'[u] \in Taking /\ want'[u] = n
               /\ k'.err[u] = "eok" /\ mutex'[n].owner # u
    <3>1. u \in waiters(n) /\ n # m
      BY <1>1, <1>w
    <3>2. /\ pc[u] \in Taking /\ want[u] = n
          /\ k.err[u] = "eok" /\ mutex[n].owner # u
      BY <3>1 DEF IInv, Waiters
    <3> QED BY <1>1, <1>2, <1>3, <3>1, <3>2
  <2>2. \A u \in Thread : pc'[u] \in Taking => want'[u] \in Mutexes
    BY <1>1 DEF IInv, Waiters
  <2>3. Waiters'
    BY <2>1, <2>2 DEF Waiters, waiters
  <2>4. Running'
    BY <1>1, <1>2 DEF IInv, Running
  <2> QED BY <2>3, <2>4
<1>9. Owners'
  BY <1>1, <1>2, <1>3 DEF IInv, Owners
<1>10. Answers'
  <2> SUFFICES ASSUME NEW u \in Thread, pc'[u] \in Taking
               PROVE  /\ k'.err[u] \notin {"eok", "eintr"} =>
                           mutex'[want[u]].owner # u
                      /\ /\ k'.err[u] = "eok" /\ u \notin signalled
                         /\ u \notin ToSet(k'.wait[want[u]])
                         => mutex'[want[u]].owner = u
    BY <1>1 DEF Answers, waiters
  <2>1. /\ pc[u] \in Taking /\ want[u] \in Mutexes /\ k'.err[u] = k.err[u]
        /\ u # t
    BY <1>1, <1>2 DEF IInv, Waiters
  <2>2. mutex'[want[u]].owner = u <=> mutex[want[u]].owner = u
    BY <1>1, <1>3, <2>1
  <2>3. ToSet(k'.wait[want[u]]) = waiters(want[u])
    BY <1>w, <2>1
  <2> QED BY <2>1, <2>2, <2>3 DEF IInv, Answers
<1> QED BY <1>2, <1>4, <1>6, <1>7, <1>8, <1>9, <1>10 DEF IInv

\* The last rt_mutex_release of a mutex somebody waits for: the first waiter
\* owns it before it runs.
LEMMA ReleaseHandOverStep ==
  ASSUME IInv, NEW t \in Thread, NEW m \in Mutexes, Release(t, m),
         ~(mutex[m].hold > 1), waiters(m) # {}
  PROVE  IInv'
<1> USE IInvFacts DEF Taking
<1>0. PICK w \in Thread : w = Head(k.wait[m])
  <2>1. Head(k.wait[m]) \in Thread
    BY HeadInList DEF waiters
  <2> QED BY <2>1
<1>1. /\ k.cur = t /\ pc[t] = "run" /\ UNCHANGED <<want, signalled, wild>>
      /\ k.stat[t] = "ready" /\ \A n \in Mutexes : t \notin waiters(n)
      /\ mutex[m].owner = t /\ mutex[m].owner # Null
      /\ mutex[m].hold = 1 /\ mutex[m].value = 0
      /\ mutex' = [mutex EXCEPT ![m] = handed_to(m, restore(m), w)]
      /\ k' = rt_ipc_list_resume(restore(m), m)
      /\ pc' = [pc EXCEPT ![t] = "sched"]
      /\ claims' = [claims EXCEPT ![t] = unclaim(t, m)]
      /\ claims' \in [Thread -> Seq(Mutexes)]
      /\ \A n \in Mutexes : Occurrences(claims'[t], n)
                              = Mine(t, n) - IF n = m THEN 1 ELSE 0
  <2>1. /\ k.cur = t /\ pc[t] = "run" /\ UNCHANGED <<want, signalled, wild>>
        /\ k.stat[t] = "ready" /\ \A n \in Mutexes : t \notin waiters(n)
        /\ mutex[m].owner = t /\ mutex[m].owner # Null
        /\ mutex[m].hold \in 1 .. 255 /\ mutex[m].value = 0
        /\ claims' = [claims EXCEPT ![t] = unclaim(t, m)]
        /\ claims' \in [Thread -> Seq(Mutexes)]
        /\ \A n \in Mutexes : Occurrences(claims'[t], n)
                                = Mine(t, n) - IF n = m THEN 1 ELSE 0
    BY ReleaseFacts
  <2>2. /\ mutex' = [mutex EXCEPT ![m] = handed_to(m, restore(m), w)]
        /\ k' = rt_ipc_list_resume(restore(m), m)
        /\ pc' = [pc EXCEPT ![t] = "sched"]
    BY <1>0 DEF Release
  <2>3. mutex[m].hold = 1
    <3>1. mutex[m].hold \in 1 .. 255 /\ ~(mutex[m].hold > 1)
      BY <2>1
    <3> QED BY ONLY <3>1
  <2> QED BY ONLY <2>1, <2>2, <2>3
<1>2. /\ w \in waiters(m) /\ w \in Thread /\ k.stat[w] = "suspend"
      /\ k' \in KernelState /\ KInv(k') /\ k'.cur = k.cur /\ k'.nest = 0
      /\ k'.stat = [k.stat EXCEPT ![w] = "ready"]
      /\ k'.err = k.err /\ k'.timer = k.timer \ {w}
      /\ \A n \in Mutexes : ToSet(k'.wait[n]) = waiters(n) \ {w}
  BY <1>0, <1>1, HandOverEffect
<1>3. restore(m).prio[w] \in Prio
  <2>1. restore(m) \in KernelState
    BY <1>1, RestoreEffect
  <2> QED BY <1>2, <2>1 DEF KernelState
<1>4. /\ mutex'[m].owner = w /\ mutex'[m].value = 0 /\ mutex'[m].hold = 1
      /\ mutex'[m].original_priority \in Prio /\ mutex'[m] \in MutexState
      /\ \A n \in Mutexes \ {m} : mutex'[n] = mutex[n]
  <2>1. mutex[m] \in MutexState /\ mutex'[m] = handed_to(m, restore(m), w)
    BY <1>1
  <2>2. \A n \in Mutexes \ {m} : mutex'[n] = mutex[n]
    BY <1>1
  <2>3. (mutex[m].hold - 1) + 1 = 1 /\ mutex[m].value = 0
    BY <1>1
  <2>4. mutex'[m] = [mutex[m] EXCEPT !.owner = w,
                       !.original_priority = restore(m).prio[w], !.hold = 1]
    BY ONLY <2>1, <2>3 DEF handed_to
  <2>5. w \in Thread /\ restore(m).prio[w] \in Prio
    BY <1>2, <1>3
  <2> DEFINE p == restore(m).prio[w]
  <2> HIDE DEF p
  <2>6. /\ mutex'[m].owner = w /\ mutex'[m].value = 0 /\ mutex'[m].hold = 1
        /\ mutex'[m].original_priority = p /\ mutex'[m] \in MutexState
    <3>1. mutex'[m] = [mutex[m] EXCEPT !.owner = w,
                         !.original_priority = p, !.hold = 1]
          /\ p \in Prio
      BY <2>4, <2>5 DEF p
    <3>2. mutex[m] \in MutexState /\ w \in Thread /\ mutex[m].value = 0
      BY <2>1, <2>3, <2>5
    <3>3. mutex'[m] = [value |-> mutex[m].value, owner |-> w,
                       original_priority |-> p, hold |-> 1]
      BY ONLY <3>1, <3>2 DEF MutexState
    <3> QED BY ONLY <3>1, <3>2, <3>3 DEF MutexState
  <2> QED BY <2>2, <2>5, <2>6 DEF p
\* The waiter that is picked is inside rt_mutex_take, without an error.
<1>5. /\ pc[w] \in Taking /\ want[w] = m /\ k.err[w] = "eok" /\ w # t
      /\ \A n \in Mutexes : ~Granted(w, n)
  <2>1. pc[w] \in Taking /\ want[w] = m /\ k.err[w] = "eok" /\ w # t
    BY <1>1, <1>2 DEF IInv, Waiters
  <2> QED BY <1>1, <2>1 DEF Granted
<1>6. TypeOK'
  <2>1. mutex' \in [Mutexes -> MutexState]
    BY <1>1, <1>4
  <2> QED BY <1>1, <1>2, <2>1 DEF IInv, TypeOK, PC
<1>w. \A n \in Mutexes : waiters(n)' = waiters(n) \ {w}
  BY <1>2 DEF waiters
<1>7. HoldCounts'
  <2> SUFFICES ASSUME NEW n \in Mutexes, NEW u \in Thread
               PROVE  Mine(u, n)' = IF mutex'[n].owner = u
                                    THEN mutex'[n].hold ELSE 0
    BY DEF HoldCounts
  <2>1. Mine(u, n) = IF mutex[n].owner = u THEN mutex[n].hold ELSE 0
    BY DEF IInv, HoldCounts
  <2>2. Occurrences(claims[u], n) \in Nat
    BY OccurrencesNat
  <2>3. CASE u = t
    <3>1. ~Granted(t, n) /\ ~Granted(t, n)'
      BY <1>1 DEF Granted
    <3>2. Mine(t, n) \in Nat
      BY <2>2, <2>3, <3>1 DEF Mine
    <3>3. Mine(t, n)' = Mine(t, n) - IF n = m THEN 1 ELSE 0
      <4>1. Mine(t, n)' = Occurrences(claims'[t], n) + 0
        BY <3>1 DEF Mine
      <4>2. Occurrences(claims'[t], n) = Mine(t, n) - IF n = m THEN 1 ELSE 0
        BY <1>1
      <4> QED BY <3>2, <4>1, <4>2
    <3>4. CASE n = m
      <4>1. Mine(t, n) = 1 /\ mutex'[n].owner # t
        BY <1>1, <1>4, <1>5, <2>1, <2>3, <3>4
      <4> QED BY <2>3, <3>3, <3>4, <4>1
    <3>5. CASE n # m
      <4>1. mutex'[n] = mutex[n] /\ Mine(t, n)' = Mine(t, n)
        BY <1>4, <3>2, <3>3, <3>5
      <4> QED BY <2>1, <2>3, <4>1
    <3> QED BY <3>4, <3>5
  <2>4. CASE u = w
    <3>1. claims'[u] = claims[u]
      BY <1>1, <1>5, <2>4
    <3>2. Mine(u, n) = Occurrences(claims[u], n)
      BY <1>5, <2>2, <2>4 DEF Mine
    <3>3. CASE n = m
      <4>1. Granted(w, m)'
        <5>1. pc'[w] \in Taking /\ want'[w] = m /\ mutex'[m].owner = w
          BY <1>1, <1>4, <1>5
        <5> QED BY ONLY <5>1 DEF Granted, Taking
      <4>2. Occurrences(claims[u], n) = 0
        BY <1>1, <1>5, <2>1, <2>4, <3>2, <3>3
      <4>3. Mine(u, n)' = 1
        <5>1. Occurrences(claims'[w], m) = 0
          BY <2>4, <3>1, <3>3, <4>2
        <5>2. Mine(w, m)' = 1
          BY ONLY <4>1, <5>1 DEF Mine
        <5> QED BY <2>4, <3>3, <5>2
      <4> QED BY <1>4, <2>4, <3>3, <4>3
    <3>4. CASE n # m
      <4>1. ~Granted(u, n)'
        BY <1>1, <1>5, <2>4, <3>4 DEF Granted
      <4>2. Mine(u, n)' = Mine(u, n)
        BY <2>2, <3>1, <3>2, <4>1 DEF Mine
      <4> QED BY <1>4, <2>1, <3>4, <4>2
    <3> QED BY <3>3, <3>4
  <2>5. CASE u # t /\ u # w
    <3>1. Granted(u, n)' <=> Granted(u, n)
      <4>1. /\ pc'[u] = pc[u] /\ want'[u] = want[u]
            /\ mutex'[n].owner = u <=> mutex[n].owner = u
        BY <1>1, <1>4, <2>5
      <4> QED BY ONLY <4>1 DEF Granted
    <3>2. Mine(u, n)' = Mine(u, n)
      BY <1>1, <2>5, <3>1 DEF Mine
    <3>3. CASE n = m
      BY <1>1, <1>4, <2>1, <2>5, <3>2, <3>3
    <3>4. CASE n # m
      BY <1>4, <2>1, <3>2, <3>4
    <3> QED BY <3>3, <3>4
  <2> QED BY <2>3, <2>4, <2>5
<1>8. NoLostWakeup'
  <2>1. ASSUME NEW n \in Mutexes
        PROVE  /\ mutex'[n].value = 1 <=> mutex'[n].owner = Null
               /\ waiters(n)' # {} => mutex'[n].owner # Null
    <3>1. CASE n = m
      BY <1>2, <1>4, <3>1
    <3>2. CASE n # m
      <4>1. /\ mutex[n].value = 1 <=> mutex[n].owner = Null
            /\ waiters(n) # {} => mutex[n].owner # Null
        BY DEF IInv, NoLostWakeup
      <4>2. mutex'[n] = mutex[n] /\ waiters(n)' \subseteq waiters(n)
        BY <1>4, <1>w, <3>2
      <4> QED BY ONLY <4>1, <4>2
    <3> QED BY <3>1, <3>2
  <2>2. ASSUME NEW u \in Thread, k'.stat[u] = "suspend"
        PROVE  IF pc'[u] \in Taking THEN u \in ToSet(k'.wait[want'[u]])
                                    ELSE u \in k'.timer
    <3>1. u # w /\ u # t /\ k.stat[u] = "suspend"
      BY <1>1, <1>2, <1>5, <2>2
    <3>2. /\ pc'[u] = pc[u] /\ want'[u] = want[u]
          /\ pc[u] \in Taking => want[u] \in Mutexes
      BY <1>1, <3>1 DEF IInv, Waiters
    <3>3. IF pc[u] \in Taking THEN u \in waiters(want[u]) ELSE u \in k.timer
      BY <3>1 DEF IInv, NoLostWakeup
    <3>4. pc[u] \in Taking => u \in ToSet(k'.wait[want[u]])
      BY <1>2, <3>1, <3>2, <3>3
    <3>5. pc[u] \notin Taking => u \in k'.timer
      BY <1>2, <3>1, <3>3
    <3> QED BY <3>2, <3>4, <3>5
  <2> QED BY <2>1, <2>2 DEF NoLostWakeup, waiters
<1>9. Running'
  BY <1>1, <1>2 DEF IInv, Running
<1>10. Waiters'
  <2>1. ASSUME NEW n \in Mutexes, NEW u \in waiters(n)'
        PROVE  /\ pc'[u] \in Taking /\ want'[u] = n
               /\ k'.err[u] = "eok" /\ mutex'[n].owner # u
    <3>1. u \in ToSet(k'.wait[n])
      BY <2>1 DEF waiters
    <3>2. u \in waiters(n) /\ u # w /\ u \in Thread /\ u # t
      BY <1>1, <1>2, <3>1
    <3>3. /\ pc[u] \in Taking /\ want[u] = n
          /\ k.err[u] = "eok" /\ mutex[n].owner # u
      BY <3>2 DEF IInv, Waiters
    <3> QED BY <1>1, <1>2, <1>4, <3>2, <3>3
  <2>2. \A u \in Thread : pc'[u] \in Taking => want'[u] \in Mutexes
    BY <1>1 DEF IInv, Waiters
  <2> QED BY <2>1, <2>2 DEF Waiters
<1>11. Owners'
  <2>1. \A n \in Mutexes : mutex[n].owner # Null => mutex[n].owner \in Thread
    BY DEF MutexState
  <2>2. ASSUME NEW n \in Mutexes
        PROVE  IF mutex'[n].owner = Null THEN mutex'[n].hold = 0
               ELSE /\ mutex'[n].original_priority \in Prio
                    /\ k'.stat[mutex'[n].owner] \in {"ready", "suspend"}
    <3>1. CASE n = m
      BY <1>2, <1>4, <3>1
    <3>2. CASE n # m
      <4>1. mutex'[n] = mutex[n]
        BY <1>4, <3>2
      <4>2. IF mutex[n].owner = Null THEN mutex[n].hold = 0
            ELSE /\ mutex[n].original_priority \in Prio
                 /\ k.stat[mutex[n].owner] \in {"ready", "suspend"}
        BY DEF IInv, Owners
      <4> QED BY <1>2, <2>1, <4>1, <4>2
    <3> QED BY <3>1, <3>2
  <2> QED BY <2>2 DEF Owners
<1>12. Answers'
  <2> SUFFICES ASSUME NEW u \in Thread, pc'[u] \in Taking
               PROVE  /\ k'.err[u] \notin {"eok", "eintr"} =>
                           mutex'[want[u]].owner # u
                      /\ /\ k'.err[u] = "eok" /\ u \notin signalled
                         /\ u \notin ToSet(k'.wait[want[u]])
                         => mutex'[want[u]].owner = u
    BY <1>1 DEF Answers, waiters
  <2>1. /\ pc[u] \in Taking /\ want[u] \in Mutexes /\ k'.err[u] = k.err[u]
        /\ u # t
    BY <1>1, <1>2 DEF IInv, Waiters
  <2>2. CASE u = w
    BY <1>2, <1>4, <1>5, <2>2
  <2>3. CASE u # w
    <3>1. mutex'[want[u]].owner = u <=> mutex[want[u]].owner = u
      BY <1>1, <1>4, <2>1, <2>3
    <3>2. u \in ToSet(k'.wait[want[u]]) <=> u \in waiters(want[u])
      BY <1>2, <2>1, <2>3
    <3> QED BY <2>1, <3>1, <3>2 DEF IInv, Answers
  <2> QED BY <2>2, <2>3
<1> QED BY <1>2, <1>6, <1>7, <1>8, <1>9, <1>10, <1>11, <1>12 DEF IInv

\* A handler that runs on the way out of rt_schedule(), and the retry that goes
\* wild.
LEMMA InterruptedStep ==
  ASSUME IInv, NEW t \in Thread, HandleSig(t) \/ TakeUnprotected(t)
  PROVE  IInv'
<1> USE IInvFacts DEF Taking
<1>1. /\ k.cur = t /\ pc[t] = "take_ret"
      /\ UNCHANGED <<mutex, pc, want, claims, signalled>> /\ wild' \in BOOLEAN
      /\ k' = k \/ k' = [k EXCEPT !.err[t] = "eintr"]
  BY DEF HandleSig, TakeUnprotected
<1>2. /\ k' \in KernelState /\ KInv(k')
      /\ k'.err = k.err \/ k'.err = [k.err EXCEPT ![t] = "eintr"]
      /\ k'.stat = k.stat /\ k'.wait = k.wait /\ k'.timer = k.timer
      /\ k'.cur = k.cur /\ k'.nest = k.nest
  <2> DEFINE r == [k EXCEPT !.err[t] = "eintr"]
  <2>1. k \in KernelState /\ KInv(k) /\ "eintr" \in Err
    BY DEF Err
  <2>2. /\ r \in KernelState /\ KInv(r)
        /\ r.err = [k.err EXCEPT ![t] = "eintr"]
        /\ r.stat = k.stat /\ r.wait = k.wait /\ r.timer = k.timer
        /\ r.cur = k.cur /\ r.nest = k.nest
    BY ONLY <2>1, SetError, t \in Thread
  <2>3. k' = k \/ k' = r
    BY <1>1
  <2> HIDE DEF r
  <2> QED BY <2>2, <2>3
<1>3. \A m \in Mutexes : t \notin waiters(m)
  BY <1>1, RunningThread
<1>4. TypeOK'
  BY <1>1, <1>2 DEF IInv, TypeOK
<1>5. Running'
  BY <1>1, <1>2 DEF IInv, Running
<1>6. \A u \in Thread : pc[u] \in Taking =>
         \/ k'.err[u] = k.err[u]
         \/ k'.err[u] = "eintr" /\ \A m \in Mutexes : u \notin waiters(m)
  BY <1>2, <1>3
<1>7. \A u \in Thread : k'.stat[u] = "suspend" =>
         IF pc[u] \in Taking THEN u \in waiters(want[u]) ELSE u \in k'.timer
  BY <1>2 DEF IInv, NoLostWakeup
<1>8. \A m \in Mutexes : ToSet(k'.wait[m]) = waiters(m)
  BY <1>2 DEF waiters
<1> QED BY <1>1, <1>2, <1>4, <1>5, <1>6, <1>7, <1>8, QuietStep

\* What a delivery does to the kernel state.
LEMMA DeliverEffect ==
  ASSUME IInv, NEW t \in Thread, NEW r \in Thread, Deliver(t, r)
  PROVE  /\ k.cur = t /\ pc[t] = "run" /\ t # r /\ k.stat[t] = "ready"
         /\ k.stat[r] = "suspend" /\ pc[r] \in Taking
         /\ pc' = [pc EXCEPT ![t] = "sched"] /\ signalled' = signalled \cup {r}
         /\ UNCHANGED <<mutex, want, claims, wild>>
         /\ k' \in KernelState /\ KInv(k') /\ k'.cur = k.cur /\ k'.nest = 0
         /\ k'.stat = [k.stat EXCEPT ![r] = "ready"]
         /\ k'.err = k.err /\ k'.prio = k.prio /\ k'.timer = k.timer \ {r}
         /\ \A n \in Mutexes : /\ k'.wait[n] = Unlink(k.wait[n], r)
                               /\ ToSet(k'.wait[n]) = waiters(n) \ {r}
<1> USE IInvFacts DEF Taking
<1> DEFINE s == rt_thread_resume(k, r)
<1>1. /\ k.cur = t /\ pc[t] = "run" /\ k.stat[r] = "suspend"
      /\ pc[r] \in Taking /\ k' = s /\ pc' = [pc EXCEPT ![t] = "sched"]
      /\ signalled' = signalled \cup {r} /\ UNCHANGED <<mutex, want, claims, wild>>
  BY DEF Deliver
<1>2. k.stat[t] = "ready" /\ t # r
  BY <1>1, RunningThread
<1>3. k \in KernelState /\ KInv(k)
  OBVIOUS
<1>4. WokenUp(k, r, s)
  BY ONLY <1>1, <1>3, r \in Thread, ResumeKeeps
<1> HIDE DEF s
<1> QED BY <1>1, <1>2, <1>4 DEF WokenUp, waiters

\* A delivery takes a waiter out of the list; it is not the owner, and its error
\* does not tell.
LEMMA DeliverStep ==
  ASSUME IInv, NEW t \in Thread, NEW r \in Thread, Deliver(t, r)
  PROVE  IInv'
<1> USE IInvFacts DEF Taking
<1>1. /\ k.cur = t /\ pc[t] = "run" /\ t # r /\ k.stat[t] = "ready"
      /\ k.stat[r] = "suspend"
      /\ pc' = [pc EXCEPT ![t] = "sched"] /\ signalled' = signalled \cup {r}
      /\ UNCHANGED <<mutex, want, claims, wild>>
      /\ k' \in KernelState /\ KInv(k') /\ k'.cur = k.cur /\ k'.nest = 0
      /\ k'.stat = [k.stat EXCEPT ![r] = "ready"]
      /\ k'.err = k.err /\ k'.timer = k.timer \ {r}
      /\ \A n \in Mutexes : ToSet(k'.wait[n]) = waiters(n) \ {r}
  BY DeliverEffect
<1>2. TypeOK'
  BY <1>1 DEF IInv, TypeOK, PC
<1>3. Running'
  BY <1>1 DEF IInv, Running
<1>4. \A n \in Mutexes : waiters(n)' = waiters(n) \ {r}
  BY <1>1 DEF waiters
<1>5. \A u \in Thread : pc'[u] \in Taking <=> pc[u] \in Taking
  BY <1>1
<1>6. HoldCounts'
  <2>1. \A u \in Thread, n \in Mutexes : Granted(u, n)' <=> Granted(u, n)
    BY <1>1, <1>5 DEF Granted
  <2>2. \A u \in Thread, n \in Mutexes : Mine(u, n)' = Mine(u, n)
    BY <1>1, <2>1 DEF Mine
  <2> QED BY <1>1, <2>2 DEF IInv, HoldCounts
<1>7. NoLostWakeup'
  <2>1. \A n \in Mutexes : /\ mutex'[n].value = 1 <=> mutex'[n].owner = Null
                           /\ waiters(n)' # {} => mutex'[n].owner # Null
    BY <1>1, <1>4 DEF IInv, NoLostWakeup
  <2>2. ASSUME NEW u \in Thread, k'.stat[u] = "suspend"
        PROVE  IF pc'[u] \in Taking THEN u \in ToSet(k'.wait[want'[u]])
                                    ELSE u \in k'.timer
    <3>1. /\ u # r /\ k.stat[u] = "suspend"
          /\ IF pc[u] \in Taking THEN u \in waiters(want[u])
                                 ELSE u \in k.timer
      BY <1>1, <2>2 DEF IInv, NoLostWakeup
    <3>2. pc[u] \in Taking => want[u] \in Mutexes
      BY DEF IInv, Waiters
    <3>3. pc[u] \in Taking => u \in ToSet(k'.wait[want[u]])
      BY <1>1, <3>1, <3>2
    <3>4. want'[u] = want[u]
      BY <1>1
    <3> QED BY <1>1, <1>5, <3>1, <3>3, <3>4
  <2> QED BY <2>1, <2>2 DEF NoLostWakeup, waiters
<1>8. Waiters'
  <2>1. ASSUME NEW n \in Mutexes, NEW u \in waiters(n)'
        PROVE  /\ pc'[u] \in Taking /\ want'[u] = n
               /\ k'.err[u] = "eok" /\ mutex'[n].owner # u
    <3>1. u \in waiters(n) /\ u \in Thread
      BY <1>4, <2>1
    <3>2. /\ pc[u] \in Taking /\ want[u] = n
          /\ k.err[u] = "eok" /\ mutex[n].owner # u
      BY <3>1 DEF IInv, Waiters
    <3> QED BY <1>1, <1>5, <3>1, <3>2
  <2>2. \A u \in Thread : pc'[u] \in Taking => want'[u] \in Mutexes
    BY <1>1, <1>5 DEF IInv, Waiters
  <2> QED BY <2>1, <2>2 DEF Waiters
<1>9. Owners'
  <2>1. \A n \in Mutexes : mutex[n].owner # Null => mutex[n].owner \in Thread
    BY DEF MutexState
  <2> QED BY <1>1, <2>1 DEF IInv, Owners
<1>10. Answers'
  <2> SUFFICES ASSUME NEW u \in Thread, pc'[u] \in Taking
               PROVE  /\ k'.err[u] \notin {"eok", "eintr"} =>
                           mutex[want[u]].owner # u
                      /\ /\ k'.err[u] = "eok" /\ u \notin signalled'
                         /\ u \notin ToSet(k'.wait[want[u]])
                         => mutex[want[u]].owner = u
    BY <1>1 DEF Answers, waiters
  <2>1. pc[u] \in Taking /\ want[u] \in Mutexes /\ k'.err[u] = k.err[u]
    BY <1>1, <1>5 DEF IInv, Waiters
  <2> QED BY <1>1, <2>1 DEF IInv, Answers
<1> QED BY <1>1, <1>2, <1>3, <1>6, <1>7, <1>8, <1>9, <1>10 DEF IInv

\* The retry after -RT_EINTR that finds the mutex free.
LEMMA TakeAgainStep ==
  ASSUME IInv, NEW t \in Thread, TakeAgain(t)
  PROVE  IInv'
<1> USE IInvFacts DEF Taking
<1> DEFINE m == want[t]
<1>1. /\ k.cur = t /\ pc[t] = "take_ret" /\ mutex[m].value > 0
      /\ UNCHANGED <<k, want, wild>> /\ signalled' = signalled \ {t}
      /\ mutex' = [mutex EXCEPT ![m] =
           [value |-> mutex[m].value - 1, owner |-> t,
            original_priority |-> k.prio[t], hold |-> mutex[m].hold + 1]]
      /\ claims' = [claims EXCEPT ![t] = Append(claims[t], m)]
      /\ pc' = [pc EXCEPT ![t] = "run"]
  BY DEF TakeAgain
<1>2. m \in Mutexes
  BY <1>1 DEF IInv, Waiters
<1> HIDE DEF m
<1>3. k.stat[t] = "ready" /\ \A n \in Mutexes : t \notin waiters(n)
  BY <1>1, RunningThread
<1>4. /\ mutex[m].value = 1 /\ mutex[m].owner = Null /\ waiters(m) = {}
      /\ mutex[m].hold = 0
  <2>1. mutex[m].value = 1
    <3>1. mutex[m].value \in {0, 1}
      BY <1>2 DEF MutexState
    <3> QED BY <1>1, <3>1
  <2>2. mutex[m].owner = Null /\ waiters(m) = {}
    BY <1>2, <2>1 DEF IInv, NoLostWakeup
  <2> QED BY <1>2, <2>1, <2>2 DEF IInv, Owners
<1>5. /\ mutex'[m].value = 0 /\ mutex'[m].owner = t /\ mutex'[m].hold = 1
      /\ mutex'[m].original_priority \in Prio
      /\ mutex'[m] \in MutexState
      /\ \A n \in Mutexes \ {m} : mutex'[n] = mutex[n]
  BY <1>1, <1>2, <1>4 DEF MutexState
<1>6. TypeOK'
  <2>1. Append(claims[t], m) \in Seq(Mutexes)
    BY <1>2
  <2>2. mutex' \in [Mutexes -> MutexState]
    BY <1>1, <1>2, <1>5
  <2> QED BY <1>1, <2>1, <2>2 DEF IInv, TypeOK, PC
<1>7. HoldCounts'
  <2> SUFFICES ASSUME NEW n \in Mutexes, NEW u \in Thread
               PROVE  Mine(u, n)' = IF mutex'[n].owner = u THEN mutex'[n].hold ELSE 0
    BY DEF HoldCounts
  <2>1. Mine(u, n) = IF mutex[n].owner = u THEN mutex[n].hold ELSE 0
    BY DEF IInv, HoldCounts
  <2>2. CASE u = t
    <3>1. ~Granted(t, n)' /\ ~Granted(t, n)
      BY <1>1, <1>4 DEF Granted, m
    <3>2. /\ Occurrences(claims[t], n) \in Nat
          /\ Occurrences(Append(claims[t], m), n)
               = Occurrences(claims[t], n) + IF n = m THEN 1 ELSE 0
      <4>1. claims[t] \in Seq(Mutexes)
        OBVIOUS
      <4>2. Occurrences(claims[t], n) \in Nat
        BY ONLY <4>1, OccurrencesNat
      <4>3. \A x : Occurrences(Append(claims[t], m), x)
                     = Occurrences(claims[t], x) + IF x = m THEN 1 ELSE 0
        BY ONLY <1>2, <4>1, OccurrencesAppend
      <4> QED BY ONLY <4>2, <4>3
    <3>3. claims'[t] = Append(claims[t], m)
      BY <1>1
    <3>4. Mine(t, n)' = Mine(t, n) + IF n = m THEN 1 ELSE 0
      <4>1. /\ Mine(t, n) = Occurrences(claims[t], n) + 0
            /\ Mine(t, n)' = Occurrences(claims'[t], n) + 0
        BY <3>1 DEF Mine
      <4> QED BY ONLY <3>2, <3>3, <4>1
    <3>5. CASE n = m
      BY <1>4, <1>5, <2>1, <2>2, <3>4, <3>5
    <3>6. CASE n # m
      <4>1. Mine(t, n) \in Nat
        BY <3>1, <3>2 DEF Mine
      <4> QED BY <1>5, <2>1, <2>2, <3>4, <3>6, <4>1
    <3> QED BY <3>5, <3>6
  <2>3. CASE u # t
    <3>1. mutex'[n].owner = u <=> mutex[n].owner = u
      BY <1>4, <1>5, <2>3
    <3>2. pc'[u] = pc[u] /\ want'[u] = want[u] /\ claims'[u] = claims[u]
      BY <1>1, <2>3
    <3>3. Mine(u, n)' = Mine(u, n)
      BY ONLY <3>1, <3>2 DEF Mine, Granted
    <3> QED BY <1>4, <1>5, <2>1, <2>3, <3>1, <3>3
  <2> QED BY <2>2, <2>3
<1>w. \A n \in Mutexes : waiters(n)' = waiters(n)
  BY <1>1 DEF waiters
<1>8. NoLostWakeup'
  <2>1. ASSUME NEW n \in Mutexes
        PROVE  /\ mutex'[n].value = 1 <=> mutex'[n].owner = Null
               /\ waiters(n)' # {} => mutex'[n].owner # Null
    <3>1. CASE n = m
      BY <1>5, <3>1
    <3>2. CASE n # m
      BY <1>5, <1>w, <3>2 DEF IInv, NoLostWakeup
    <3> QED BY <3>1, <3>2
  <2>2. ASSUME NEW u \in Thread, k.stat[u] = "suspend"
        PROVE  IF pc'[u] \in Taking THEN u \in waiters(want[u]) ELSE u \in k.timer
    <3>1. u # t
      BY <1>3, <2>2
    <3> QED BY <1>1, <2>2, <3>1 DEF IInv, NoLostWakeup
  <2> QED BY <1>1, <2>1, <2>2 DEF NoLostWakeup, waiters
<1>9. Running'
  BY <1>1, <1>3 DEF IInv, Running
<1>10. Waiters'
  <2>1. ASSUME NEW n \in Mutexes, NEW u \in waiters(n)
        PROVE  /\ pc'[u] \in Taking /\ want[u] = n
               /\ k.err[u] = "eok" /\ mutex'[n].owner # u
    <3>1. u # t /\ u \in Thread /\ n # m
      BY <1>3, <1>4, <2>1
    <3> QED BY <1>1, <1>5, <2>1, <3>1 DEF IInv, Waiters
  <2> QED BY <1>1, <1>w, <2>1 DEF IInv, Waiters
<1>11. Owners'
  <2> SUFFICES ASSUME NEW n \in Mutexes
               PROVE  IF mutex'[n].owner = Null THEN mutex'[n].hold = 0
                      ELSE /\ mutex'[n].original_priority \in Prio
                           /\ k.stat[mutex'[n].owner] \in {"ready", "suspend"}
    BY <1>1 DEF Owners
  <2>1. CASE n = m
    BY <1>3, <1>5, <2>1
  <2>2. CASE n # m
    BY <1>5, <2>2 DEF IInv, Owners
  <2> QED BY <2>1, <2>2
<1>12. Answers'
  <2> SUFFICES ASSUME NEW u \in Thread, pc'[u] \in Taking
               PROVE  /\ k.err[u] \notin {"eok", "eintr"} =>
                           mutex'[want[u]].owner # u
                      /\ /\ k.err[u] = "eok" /\ u \notin signalled'
                         /\ u \notin waiters(want[u])
                         => mutex'[want[u]].owner = u
    BY <1>1 DEF Answers, waiters
  <2>1. /\ u # t /\ pc[u] \in Taking /\ want[u] \in Mutexes
        /\ u \in signalled' <=> u \in signalled
    BY <1>1 DEF IInv, Waiters
  <2>2. mutex'[want[u]].owner = u <=> mutex[want[u]].owner = u
    BY <1>4, <1>5, <2>1
  <2> QED BY <2>1, <2>2 DEF IInv, Answers
<1> QED BY <1>1, <1>6, <1>7, <1>8, <1>9, <1>10, <1>11, <1>12 DEF IInv

\* Steps that change no variable.
LEMMA StutterIInv == IInv /\ UNCHANGED vars => IInv'
<1> SUFFICES ASSUME IInv, UNCHANGED vars PROVE IInv'
  OBVIOUS
<1>1. /\ k' = k /\ mutex' = mutex /\ pc' = pc /\ want' = want
      /\ claims' = claims /\ signalled' = signalled /\ wild' = wild
  BY DEF vars
<1>2. TypeOK' /\ Running' /\ KInv(k')
  BY <1>1 DEF IInv, TypeOK, Running
<1>3. \A t \in Thread : k.stat[t] = "suspend" =>
         IF pc[t] \in Taking THEN t \in waiters(want[t]) ELSE t \in k.timer
  BY DEF IInv, NoLostWakeup, Taking
<1> QED BY <1>1, <1>2, <1>3, QuietStep DEF waiters

\* Every step of a thread or of the tick keeps the invariant.
LEMMA NextIInv == IInv /\ [Next]_vars => IInv'
<1> SUFFICES ASSUME IInv, [Next]_vars PROVE IInv'
  OBVIOUS
<1>1. CASE UNCHANGED vars
  BY <1>1, StutterIInv
<1>2. ASSUME NEW t \in Thread, NEW new \in Thread, Startup(t, new)
      PROVE  IInv'
  BY <1>2, StartupStep
<1>3. ASSUME NEW t \in Thread, NEW m \in Mutexes, TakeNow(t, m)
      PROVE  IInv'
  BY <1>3, TakeNowStep
<1>4. ASSUME NEW t \in Thread, NEW m \in Mutexes,
             \E timed \in BOOLEAN : TakeBlock(t, m, timed)
      PROVE  IInv'
  BY <1>4, TakeBlockStep
<1>5. ASSUME NEW t \in Thread, NEW m \in Mutexes, Release(t, m)
      PROVE  IInv'
  BY <1>5, ReleaseNestedStep, ReleaseFreeStep, ReleaseHandOverStep
<1>6. ASSUME NEW t \in Thread,
             TakeSchedule(t) \/ Schedule(t) \/ SleepSchedule(t)
      PROVE  IInv'
  BY <1>6, SchedulingStep
<1>7. CASE TickYield
  BY <1>7, SchedulingStep
<1>8. ASSUME NEW t \in Thread, TakeReturn(t)
      PROVE  IInv'
  BY <1>8, TakeReturnStep
<1>9. ASSUME NEW t \in Thread, Sleep(t)
      PROVE  IInv'
  BY <1>9, SleepStep
<1>10. ASSUME NEW t \in Thread, TimerExpire(t)
       PROVE  IInv'
  BY <1>10, TimerStep
<1>11. ASSUME NEW t \in Thread,
              \/ \E m \in Mutexes : TryFails(t, m) \/ ReleaseNotOwner(t, m)
              \/ SleepReturn(t)
       PROVE  IInv'
  BY <1>11, ErrorStep
<1>12. ASSUME NEW t \in Thread, HandleSig(t) \/ TakeUnprotected(t)
       PROVE  IInv'
  BY <1>12, InterruptedStep
<1>13. ASSUME NEW t \in Thread, NEW r \in Thread, Deliver(t, r)
       PROVE  IInv'
  BY <1>13, DeliverStep
<1>14. ASSUME NEW t \in Thread, TakeAgain(t)
       PROVE  IInv'
  BY <1>14, TakeAgainStep
<1> QED BY <1>1, <1>2, <1>3, <1>4, <1>5, <1>6, <1>7, <1>8, <1>9, <1>10, <1>11,
           <1>12, <1>13, <1>14 DEF Next, Steps, Failures

-----------------------------------------------------------------------------
(* The theorems of every configuration.                                    *)

\* The invariant holds in every state.
THEOREM MutexInvariant == Spec => []IInv
<1>1. Init => IInv
  BY InitIInv
<1>2. IInv /\ [Next]_vars => IInv'
  BY NextIInv
<1> QED BY <1>1, <1>2, PTL DEF Spec

\* Whoever returned RT_EOK from rt_mutex_take and did not release is the owner,
\* with as many takes as the mutex counts, and the kernel lists agree, although
\* priorities change while threads are linked in them.
THEOREM MutexMutualExclusion == Spec => []MutualExclusion
<1>1. IInv => MutualExclusion
  BY DEF IInv, HoldCounts, Mine, Occurrences, MutualExclusion
<1> QED BY <1>1, MutexInvariant, PTL

\* Nobody waits for a free mutex, and a suspended thread is in the list of the
\* mutex it wants or has a timer that will wake it.
THEOREM MutexNoLostWakeup == Spec => []NoLostWakeup
<1>1. IInv => NoLostWakeup
  BY DEF IInv
<1> QED BY <1>1, MutexInvariant, PTL

-----------------------------------------------------------------------------
(* Priorities, for one mutex with a wait list in the order of priority.    *)

\* The order of a list depends on the ranks of its elements only.
LEMMA OrderedAgree ==
  ASSUME NEW T, NEW s \in Seq(T), NEW f, NEW g, Ordered(f, s),
         \A x \in ToSet(s) : g[x] = f[x]
  PROVE  Ordered(g, s)
<1>1. \A i \in DOMAIN s : s[i] \in ToSet(s)
  BY DEF ToSet
<1> QED BY <1>1 DEF Ordered

\* Facts every priority proof starts from.
LEMMA PriorityFacts ==
  ASSUME OnePrioMutex, IInv, PInv
  PROVE  /\ MutexFlag = "prio" /\ \A m, n \in Mutexes : m = n
         /\ InitPrio \in [Thread -> Prio]
         /\ \A t \in Thread : k.prio[t] \in Nat
         /\ \A m \in Mutexes : /\ k.wait[m] \in Seq(Thread)
                               /\ Ordered(k.prio, k.wait[m])
         /\ \A m \in Mutexes : \A t \in waiters(m) :
              /\ t \in Thread /\ mutex[m].owner \in Thread
              /\ mutex[m].owner # t
              /\ k.prio[mutex[m].owner] <= k.prio[t]
         /\ \A m \in Mutexes : mutex[m].owner # Null =>
              mutex[m].original_priority = InitPrio[mutex[m].owner]
         /\ \A t \in Thread, m \in Mutexes : mutex[m].owner # t =>
              k.prio[t] = InitPrio[t]
<1> USE IInvFacts
<1>1. MutexFlag = "prio" /\ \A m, n \in Mutexes : m = n
  BY DEF OnePrioMutex
<1>2. \A t \in Thread : k.prio[t] \in Nat
  BY PrioNat
<1>3. \A m \in Mutexes : \A t \in waiters(m) :
        /\ t \in Thread /\ mutex[m].owner \in Thread /\ mutex[m].owner # t
  <2> SUFFICES ASSUME NEW m \in Mutexes, NEW t \in waiters(m)
               PROVE  /\ t \in Thread /\ mutex[m].owner \in Thread
                      /\ mutex[m].owner # t
    OBVIOUS
  <2>1. mutex[m].owner # Null /\ mutex[m].owner # t
    BY DEF IInv, NoLostWakeup, Waiters
  <2>2. mutex[m] \in MutexState
    OBVIOUS
  <2> QED BY <2>1, <2>2 DEF MutexState
<1>4. \A t \in Thread, m \in Mutexes : mutex[m].owner # t =>
         k.prio[t] = InitPrio[t]
  BY <1>1 DEF PInv, OwnPriorities, PriorityRestored
<1>5. \A m \in Mutexes : mutex[m].owner # Null =>
         mutex[m].original_priority = InitPrio[mutex[m].owner]
  BY DEF PInv, OwnPriorities
<1>6. \A m \in Mutexes : /\ Ordered(k.prio, k.wait[m])
                         /\ \A t \in waiters(m) :
                              k.prio[mutex[m].owner] <= k.prio[t]
  BY DEF PInv, Inherited
<1> QED BY <1>1, <1>2, <1>3, <1>4, <1>5, <1>6, MutexAssumption

\* If the most urgent ready thread runs and the owner is ready, the running
\* thread is at least as urgent as those the owner is at least as urgent as.
LEMMA SettledOrder ==
  ASSUME NEW r \in KernelState, Settled(r), NEW o \in Thread, NEW t \in Thread,
         r.stat[o] = "ready", r.prio[o] <= r.prio[t]
  PROVE  r.prio[r.cur] <= r.prio[t]
<1>1. r.prio[r.cur] <= r.prio[o]
  BY DEF Settled
<1>2. \A u \in Thread : r.prio[u] \in Nat
  BY PrioNat DEF KernelState
<1>3. r.cur \in Thread
  BY DEF KernelState
<1> QED BY <1>1, <1>2, <1>3

\* A step that changes no priority, no owner and no wait list.
LEMMA SamePriorities ==
  ASSUME PInv, k'.prio = k.prio, k'.wait = k.wait, UNCHANGED mutex,
         NoInversion'
  PROVE  PInv'
<1>1. OwnPriorities'
  BY DEF PInv, OwnPriorities, PriorityRestored
<1>2. Inherited'
  BY DEF PInv, Inherited, waiters
<1> QED BY <1>1, <1>2 DEF PInv

\* The initial state satisfies it.
LEMMA InitPInv == Init => PInv
<1> SUFFICES ASSUME Init PROVE PInv
  OBVIOUS
<1> USE KernelAssumption, MutexAssumption DEF Mutexes
<1>1. /\ k.prio = InitPrio /\ \A m \in Queue : k.wait[m] = << >>
      /\ \A m \in Queue : ToSet(k.wait[m]) = {}
  <2> DEFINE r == scheduler_started(InitPrio)
  <2>1. k = r /\ InitPrio \in [Thread -> Prio]
    BY DEF Init
  <2>2. /\ r.prio = InitPrio /\ r.wait = [q \in Queue |-> << >>]
        /\ \A q \in Queue : ToSet(r.wait[q]) = {}
    BY <2>1, StartedKernel
  <2> HIDE DEF r
  <2> QED BY <2>1, <2>2
<1>2. \A m \in Queue : mutex[m].owner = Null
  BY DEF Init
<1>3. \A f : Ordered(f, << >>)
  BY DEF Ordered
<1> QED BY <1>1, <1>2, <1>3 DEF PInv, OwnPriorities, PriorityRestored,
          Inherited, NoInversion, waiters

\* Any rt_schedule(): the most urgent ready thread runs.
LEMMA SchedulingPStep ==
  ASSUME OnePrioMutex, IInv, PInv, IInv',
         \/ \E t \in Thread : TakeSchedule(t) \/ Schedule(t) \/ SleepSchedule(t)
         \/ TickYield
  PROVE  PInv'
<1>1. k' = rt_schedule(k) /\ UNCHANGED mutex
  BY DEF TakeSchedule, Schedule, SleepSchedule, TickYield
<1>2. SameThreads(k, rt_schedule(k)) /\ Settled(rt_schedule(k))
  BY ScheduleEffect
<1>3. k'.prio = k.prio /\ k'.wait = k.wait /\ Settled(k')
  BY <1>1, <1>2 DEF SameThreads
<1>4. Inherited'
  BY <1>1, <1>3 DEF PInv, Inherited, waiters
<1>5. \A m \in Mutexes : \A t \in waiters(m)' :
         t \in Thread /\ mutex'[m].owner \in Thread
  BY <1>1, <1>3, PriorityFacts DEF waiters
<1>6. k' \in KernelState
  BY DEF IInv, TypeOK
<1>7. NoInversion'
  <2> SUFFICES ASSUME NEW m \in Mutexes, NEW t \in waiters(m)',
                      k'.stat[mutex'[m].owner] = "ready"
               PROVE  k'.prio[k'.cur] <= k'.prio[t]
    BY DEF NoInversion
  <2>1. k'.prio[mutex'[m].owner] <= k'.prio[t]
    BY <1>4 DEF Inherited
  <2> QED BY <1>3, <1>5, <1>6, <2>1, SettledOrder
<1> QED BY <1>1, <1>3, <1>7, SamePriorities

\* Steps of the running thread inside or at the end of a call: no priority
\* changes, and the thread that runs is the same.
LEMMA QuietPStep ==
  ASSUME OnePrioMutex, IInv, PInv, NEW t \in Thread,
         \/ \E new \in Thread : Startup(t, new)
         \/ TakeReturn(t) \/ TakeUnprotected(t) \/ HandleSig(t)
         \/ Sleep(t) \/ SleepReturn(t)
         \/ \E m \in Mutexes : TryFails(t, m) \/ ReleaseNotOwner(t, m)
  PROVE  PInv'
<1> USE IInvFacts
<1>1. CASE \E new \in Thread : Startup(t, new)
  <2>1. PICK new \in Thread : Startup(t, new)
    BY <1>1
  <2> DEFINE r == rt_thread_startup(k, new, InitPrio[new])
  <2>2. /\ k.cur = t /\ k.stat[new] = "init" /\ k' = r
        /\ pc' = [pc EXCEPT ![t] = "sched"] /\ UNCHANGED mutex
    BY <2>1 DEF Startup
  <2>3. /\ r.prio = [k.prio EXCEPT ![new] = InitPrio[new]]
        /\ r.wait = k.wait /\ r.cur = k.cur
    <3>1. k \in KernelState /\ KInv(k) /\ k.stat[new] = "init"
          /\ InitPrio[new] \in Prio
      BY <2>2, MutexAssumption
    <3>9. Started(k, new, InitPrio[new], r)
      BY ONLY <3>1, StartupStarts, new \in Thread
    <3> QED BY ONLY <3>9 DEF Started
  <2> HIDE DEF r
  <2>4. \A m \in Mutexes : mutex[m].owner # new
    BY <2>2, KernelAssumption, MutexAssumption DEF IInv, Owners
  <2>5. k.prio[new] = InitPrio[new]
    BY <2>4 DEF PInv, OwnPriorities, PriorityRestored
  <2>6. k'.prio = k.prio /\ k'.wait = k.wait
    <3>1. [k.prio EXCEPT ![new] = InitPrio[new]] = k.prio
      <4>1. k.prio \in [Thread -> Prio]
        OBVIOUS
      <4> QED BY ONLY <2>5, <4>1
    <3> QED BY <2>2, <2>3, <3>1
  <2>7. NoInversion'
    <3>1. pc'[k'.cur] = "sched"
      BY <2>2, <2>3
    <3> QED BY <3>1 DEF NoInversion
  <2> QED BY <2>2, <2>6, <2>7, SamePriorities
<1>2. CASE TakeReturn(t) \/ TakeUnprotected(t)
  <2>1. k.cur = t /\ pc[t] = "take_ret" /\ k' = k /\ mutex' = mutex
    BY <1>2 DEF TakeReturn, TakeUnprotected
  <2>2. NoInversion'
    BY <2>1 DEF PInv, NoInversion, waiters
  <2> QED BY <2>1, <2>2, SamePriorities
<1>3. CASE Sleep(t)
  <2> DEFINE r == rt_thread_sleep(k, t)
  <2>1. /\ k.cur = t /\ pc[t] = "run" /\ k' = r /\ mutex' = mutex
        /\ pc' = [pc EXCEPT ![t] = "sleep"]
    BY <1>3 DEF Sleep
  <2>2. k.stat[t] = "ready"
    BY <2>1, RunningThread
  <2>3. r.prio = k.prio /\ r.wait = k.wait /\ r.cur = t
    BY <2>1, <2>2, SleepKeeps
  <2> HIDE DEF r
  <2>4. NoInversion'
    <3>1. pc'[k'.cur] = "sleep"
      BY <2>1, <2>3
    <3> QED BY <3>1 DEF NoInversion
  <2> QED BY <2>1, <2>3, <2>4, SamePriorities
<1>4. CASE \/ SleepReturn(t) \/ HandleSig(t)
           \/ \E m \in Mutexes : TryFails(t, m) \/ ReleaseNotOwner(t, m)
  <2>1. /\ k.cur = t /\ pc[t] \in {"run", "sleep_ret", "take_ret"} /\ mutex' = mutex
        /\ \E e : k' = [k EXCEPT !.err[t] = e]
    BY <1>4 DEF SleepReturn, HandleSig, TryFails, ReleaseNotOwner, TakeCall
  <2>2. PICK e : k' = [k EXCEPT !.err[t] = e]
    BY <2>1
  <2>3. /\ k'.prio = k.prio /\ k'.wait = k.wait /\ k'.stat = k.stat
        /\ k'.cur = k.cur
    BY <2>2 DEF KernelState
  <2>4. NoInversion'
    BY <2>1, <2>3 DEF PInv, NoInversion, waiters
  <2> QED BY <2>1, <2>3, <2>4, SamePriorities
<1> QED BY <1>1, <1>2, <1>3, <1>4

\* The expiry of a timer: a waiter may leave the list, and rt_schedule() runs.
LEMMA TimerPStep ==
  ASSUME OnePrioMutex, IInv, PInv, NEW t \in Thread, TimerExpire(t)
  PROVE  PInv'
<1> USE IInvFacts
<1>1. t \in k.timer /\ k' = rt_thread_timeout(k, t) /\ UNCHANGED mutex
  BY DEF TimerExpire
<1>2. /\ k' \in KernelState /\ Settled(k') /\ k'.prio = k.prio
      /\ \A n \in Mutexes : /\ k'.wait[n] = Unlink(k.wait[n], t)
                            /\ ToSet(k'.wait[n]) = waiters(n) \ {t}
  BY <1>1, TimeoutEffect
<1>3. OwnPriorities'
  BY <1>1, <1>2 DEF PInv, OwnPriorities, PriorityRestored
<1>4. \A n \in Mutexes : \A u \in ToSet(k'.wait[n]) :
        /\ u \in Thread /\ mutex[n].owner \in Thread
        /\ k.prio[mutex[n].owner] <= k.prio[u]
  <2>1. \A n \in Mutexes : \A u \in waiters(n) :
          /\ u \in Thread /\ mutex[n].owner \in Thread
          /\ k.prio[mutex[n].owner] <= k.prio[u]
    BY PriorityFacts
  <2>2. \A n \in Mutexes : ToSet(k'.wait[n]) \subseteq waiters(n)
    BY <1>2
  <2> QED BY ONLY <2>1, <2>2
<1>5. Inherited'
  <2>1. \A n \in Mutexes : Ordered(k.prio, k'.wait[n])
    BY <1>2, PriorityFacts, OrderedUnlink
  <2> QED BY <1>1, <1>2, <1>4, <2>1 DEF Inherited, waiters
<1>6. NoInversion'
  <2> SUFFICES ASSUME NEW n \in Mutexes, NEW u \in ToSet(k'.wait[n]),
                      k'.stat[mutex'[n].owner] = "ready"
               PROVE  k'.prio[k'.cur] <= k'.prio[u]
    BY DEF NoInversion, waiters
  <2>1. /\ u \in Thread /\ mutex'[n].owner \in Thread
        /\ k'.prio[mutex'[n].owner] <= k'.prio[u]
    BY <1>1, <1>2, <1>4
  <2> QED BY <1>2, <2>1, SettledOrder
<1> QED BY <1>3, <1>5, <1>6 DEF PInv

\* rt_mutex_take that returns at once: the owner records its own priority.
LEMMA TakeNowPStep ==
  ASSUME OnePrioMutex, IInv, PInv, NEW t \in Thread, NEW m \in Mutexes,
         TakeNow(t, m)
  PROVE  PInv'
<1> USE IInvFacts
<1>1. /\ k.cur = t /\ pc[t] = "run" /\ pc' = pc
      /\ k' = [k EXCEPT !.err[t] = "eok"]
  BY DEF TakeNow, TakeCall
<1>2. /\ k'.prio = k.prio /\ k'.wait = k.wait /\ k'.stat = k.stat
      /\ k'.cur = k.cur
  BY <1>1 DEF KernelState
<1>3. \A n \in Mutexes : n = m
  BY PriorityFacts
<1>4. CASE mutex[m].owner = t
  <2>1. mutex' = [mutex EXCEPT ![m] =
                    [mutex[m] EXCEPT !.hold = mutex[m].hold + 1]]
    BY <1>4 DEF TakeNow
  <2>2. /\ mutex'[m].owner = mutex[m].owner
        /\ mutex'[m].original_priority = mutex[m].original_priority
    <3>1. mutex'[m] = [mutex[m] EXCEPT !.hold = mutex[m].hold + 1]
      BY <2>1
    <3>2. mutex[m] \in MutexState
      OBVIOUS
    <3> QED BY ONLY <3>1, <3>2 DEF MutexState
  <2>3. OwnPriorities'
    BY <1>2, <1>3, <2>2 DEF PInv, OwnPriorities, PriorityRestored
  <2>4. Inherited'
    BY <1>2, <1>3, <2>2 DEF PInv, Inherited, waiters
  <2>5. NoInversion'
    BY <1>1, <1>2, <1>3, <2>2 DEF PInv, NoInversion, waiters
  <2> QED BY <2>3, <2>4, <2>5 DEF PInv
<1>5. CASE mutex[m].owner # t
  <2>1. /\ mutex[m].value > 0
        /\ mutex' = [mutex EXCEPT ![m] =
             [value |-> mutex[m].value - 1, owner |-> t,
              original_priority |-> k.prio[t], hold |-> mutex[m].hold + 1]]
    BY <1>5 DEF TakeNow
  <2>2. mutex'[m].owner = t /\ mutex'[m].original_priority = k.prio[t]
    BY <2>1
  <2>3. mutex[m].value = 1
    <3>1. mutex[m] \in MutexState
      OBVIOUS
    <3> QED BY <2>1, <3>1 DEF MutexState
  <2>4. mutex[m].owner = Null /\ waiters(m) = {}
    BY <2>3 DEF IInv, NoLostWakeup
  <2>5. \A u \in Thread : k.prio[u] = InitPrio[u]
    BY <2>4, PriorityFacts
  <2>6. OwnPriorities'
    BY <1>2, <1>3, <2>2, <2>5 DEF OwnPriorities, PriorityRestored
  <2>7. ToSet(k'.wait[m]) = {}
    BY <1>2, <2>4 DEF waiters
  <2>8. Inherited'
    BY <1>2, <1>3, <2>7 DEF PInv, Inherited, waiters
  <2>9. NoInversion'
    BY <1>3, <2>7 DEF NoInversion, waiters
  <2> QED BY <2>6, <2>8, <2>9 DEF PInv
<1> QED BY <1>4, <1>5

\* A delivery takes a waiter out of the list, and its rt_schedule() is due.
LEMMA DeliverPStep ==
  ASSUME OnePrioMutex, IInv, PInv, NEW t \in Thread, NEW r \in Thread,
         Deliver(t, r)
  PROVE  PInv'
<1> USE IInvFacts
<1>1. /\ k.cur = t /\ pc' = [pc EXCEPT ![t] = "sched"] /\ mutex' = mutex
      /\ k'.cur = k.cur /\ k'.prio = k.prio
      /\ \A n \in Mutexes : /\ k'.wait[n] = Unlink(k.wait[n], r)
                            /\ ToSet(k'.wait[n]) = waiters(n) \ {r}
  BY DeliverEffect
<1>2. OwnPriorities'
  BY <1>1 DEF PInv, OwnPriorities, PriorityRestored
<1>3. Inherited'
  <2>1. \A n \in Mutexes : Ordered(k.prio, k'.wait[n])
    BY <1>1, PriorityFacts, OrderedUnlink
  <2>2. \A n \in Mutexes : \A u \in ToSet(k'.wait[n]) :
          k.prio[mutex[n].owner] <= k.prio[u]
    BY <1>1, PriorityFacts
  <2> QED BY <1>1, <2>1, <2>2 DEF Inherited, waiters
<1>4. NoInversion'
  <2>1. pc'[k'.cur] = "sched"
    BY <1>1
  <2> QED BY <2>1 DEF NoInversion
<1> QED BY <1>2, <1>3, <1>4 DEF PInv

\* The retry after -RT_EINTR that finds the mutex free.
LEMMA TakeAgainPStep ==
  ASSUME OnePrioMutex, IInv, PInv, NEW t \in Thread, TakeAgain(t)
  PROVE  PInv'
<1> USE IInvFacts
<1>1. PICK m \in Mutexes : m = want[t]
  BY DEF TakeAgain, IInv, Waiters
<1>2. /\ k' = k /\ mutex[m].value > 0
      /\ mutex' = [mutex EXCEPT ![m] =
           [value |-> mutex[m].value - 1, owner |-> t,
            original_priority |-> k.prio[t], hold |-> mutex[m].hold + 1]]
  BY <1>1 DEF TakeAgain
<1>3. mutex'[m].owner = t /\ mutex'[m].original_priority = k.prio[t]
  BY <1>2
<1>4. mutex[m].value = 1
  <2>1. mutex[m] \in MutexState
    OBVIOUS
  <2> QED BY <1>2, <2>1 DEF MutexState
<1>5. mutex[m].owner = Null /\ waiters(m) = {}
  BY <1>4 DEF IInv, NoLostWakeup
<1>6. (\A n \in Mutexes : n = m) /\ \A u \in Thread : k.prio[u] = InitPrio[u]
  BY <1>5, PriorityFacts
<1>7. OwnPriorities'
  BY <1>2, <1>3, <1>6 DEF OwnPriorities, PriorityRestored
<1>8. ToSet(k'.wait[m]) = {}
  BY <1>2, <1>5 DEF waiters
<1>9. Inherited'
  BY <1>2, <1>6, <1>8 DEF PInv, Inherited, waiters
<1>10. NoInversion'
  BY <1>6, <1>8 DEF NoInversion, waiters
<1> QED BY <1>7, <1>9, <1>10 DEF PInv

\* rt_mutex_take that has to wait: the owner inherits, the waiter is linked in
\* the order of priority.
LEMMA TakeBlockPStep ==
  ASSUME OnePrioMutex, IInv, PInv, NEW t \in Thread, NEW m \in Mutexes,
         \E timed \in BOOLEAN : TakeBlock(t, m, timed)
  PROVE  PInv'
<1> USE IInvFacts
<1>1. k.cur = t /\ pc' = [pc EXCEPT ![t] = "take_sched"] /\ mutex' = mutex
  BY DEF TakeBlock
<1>o. PICK o : o = mutex[m].owner
  OBVIOUS
<1>2. /\ k' \in KernelState /\ k'.cur = t
      /\ o \in Thread /\ o # t
      /\ k'.prio = IF k.prio[t] < k.prio[o]
                   THEN [k.prio EXCEPT ![o] = k.prio[t]] ELSE k.prio
      /\ ToSet(k'.wait[m]) = waiters(m) \cup {t}
      /\ k'.wait[m] = InsertAt(k.wait[m],
                        wait_position(k', k.wait[m], t, MutexFlag), t)
  <2>1. IInv /\ \E timed \in BOOLEAN : TakeBlock(t, m, timed)
    OBVIOUS
  <2> QED BY ONLY <1>o, <2>1, t \in Thread, m \in Mutexes, BlockEffect
<1>3. /\ MutexFlag = "prio" /\ \A n \in Mutexes : n = m
      /\ k.wait[m] \in Seq(Thread) /\ Ordered(k.prio, k.wait[m])
      /\ \A u \in waiters(m) : u \in Thread /\ o # u /\ k.prio[o] <= k.prio[u]
      /\ \A u \in Thread : k.prio[u] \in Nat
  BY <1>o, PriorityFacts
<1>4. \A u \in Thread \ {o} : k'.prio[u] = k.prio[u]
  BY <1>2
<1>5. /\ k'.prio[o] \in Nat /\ k'.prio[o] <= k.prio[o]
      /\ k'.prio[o] <= k.prio[t]
  BY <1>2, <1>3
<1>6. OwnPriorities'
  <2>1. \A u \in Thread : (\A n \in Mutexes : mutex'[n].owner # u) =>
           k'.prio[u] = InitPrio[u]
    BY <1>o, <1>1, <1>4 DEF PInv, OwnPriorities, PriorityRestored
  <2> QED BY <1>1, <2>1 DEF PInv, OwnPriorities, PriorityRestored
<1>7. Ordered(k'.prio, k'.wait[m])
  <2>1. \A u \in ToSet(k.wait[m]) : k'.prio[u] = k.prio[u]
    BY <1>3, <1>4 DEF waiters
  <2>2. Ordered(k'.prio, k.wait[m])
    BY <1>3, <2>1, OrderedAgree
  <2>3. /\ k' \in KernelState /\ k.wait[m] \in Seq(Thread)
        /\ Ordered(k'.prio, k.wait[m])
    BY <1>2, <1>3, <2>2
  <2>4. Ordered(k'.prio, InsertAt(k.wait[m],
                            wait_position(k', k.wait[m], t, "prio"), t))
    BY ONLY <2>3, t \in Thread, OrderedInsert
  <2> QED BY <1>2, <1>3, <2>4
<1>8. \A u \in ToSet(k'.wait[m]) : k'.prio[o] <= k'.prio[u]
  <2> SUFFICES ASSUME NEW u \in ToSet(k'.wait[m])
               PROVE  k'.prio[o] <= k'.prio[u]
    OBVIOUS
  <2>1. CASE u = t
    BY <1>2, <1>4, <1>5, <2>1
  <2>2. CASE u # t
    <3>1. u \in waiters(m)
      BY <1>2, <2>2
    <3>2. k'.prio[u] = k.prio[u] /\ k.prio[u] \in Nat /\ k.prio[o] \in Nat
          /\ k.prio[o] <= k.prio[u]
      BY <1>2, <1>3, <1>4, <3>1
    <3> QED BY <1>5, <3>2
  <2> QED BY <2>1, <2>2
<1>9. Inherited'
  BY <1>o, <1>1, <1>3, <1>7, <1>8 DEF Inherited, waiters
<1>10. NoInversion'
  <2>1. pc'[k'.cur] = "take_sched"
    BY <1>1, <1>2
  <2> QED BY <2>1 DEF NoInversion
<1> QED BY <1>6, <1>9, <1>10 DEF PInv

\* rt_mutex_release: the last one restores the priority of the owner and gives
\* the mutex to the most urgent waiter.
LEMMA ReleasePStep ==
  ASSUME OnePrioMutex, IInv, PInv, NEW t \in Thread, NEW m \in Mutexes,
         Release(t, m)
  PROVE  PInv'
<1> USE IInvFacts
<1>1. /\ k.cur = t /\ pc[t] = "run" /\ mutex[m].owner = t
      /\ mutex[m].owner # Null
  BY ReleaseFacts
<1>2. /\ \A n \in Mutexes : n = m
      /\ mutex[m].original_priority = InitPrio[t] /\ InitPrio[t] \in Prio
      /\ \A u \in Thread : u # t => k.prio[u] = InitPrio[u]
      /\ k.wait[m] \in Seq(Thread) /\ Ordered(k.prio, k.wait[m])
      /\ \A u \in waiters(m) : u \in Thread /\ t # u
      /\ \A u \in Thread : k.prio[u] \in Nat
  BY <1>1, PriorityFacts, MutexAssumption
<1>3. CASE mutex[m].hold > 1
  <2>1. /\ k' = k /\ pc' = pc
        /\ mutex' = [mutex EXCEPT ![m] =
                       [mutex[m] EXCEPT !.hold = mutex[m].hold - 1]]
    BY <1>3 DEF Release
  <2>2. /\ mutex'[m].owner = mutex[m].owner
        /\ mutex'[m].original_priority = mutex[m].original_priority
    <3>1. mutex'[m] = [mutex[m] EXCEPT !.hold = mutex[m].hold - 1]
      BY <2>1
    <3>2. mutex[m] \in MutexState
      OBVIOUS
    <3> QED BY ONLY <3>1, <3>2 DEF MutexState
  <2>3. OwnPriorities'
    BY <1>2, <2>1, <2>2 DEF PInv, OwnPriorities, PriorityRestored
  <2>4. Inherited'
    BY <1>2, <2>1, <2>2 DEF PInv, Inherited, waiters
  <2>5. NoInversion'
    BY <1>2, <2>1, <2>2 DEF PInv, NoInversion, waiters
  <2> QED BY <2>3, <2>4, <2>5 DEF PInv
<1>4. CASE ~(mutex[m].hold > 1) /\ waiters(m) = {}
  <2>1. mutex' = [mutex EXCEPT ![m] = freed(m)] /\ k' = restore(m)
    BY <1>4 DEF Release
  <2>2. /\ k'.prio = [k.prio EXCEPT ![t] = InitPrio[t]] /\ k'.wait = k.wait
    BY <1>1, <1>2, <2>1, RestoreEffect
  <2>3. mutex'[m].owner = Null
    BY <2>1 DEF freed
  <2>4. \A u \in Thread : k'.prio[u] = InitPrio[u]
    BY <1>2, <2>2
  <2>5. OwnPriorities'
    BY <1>2, <2>3, <2>4 DEF OwnPriorities, PriorityRestored
  <2>6. ToSet(k'.wait[m]) = {}
    BY <1>4, <2>2 DEF waiters
  <2>7. Ordered(k'.prio, k'.wait[m])
    <3>1. \A i \in DOMAIN k'.wait[m] : k'.wait[m][i] \in ToSet(k'.wait[m])
      BY DEF ToSet
    <3>2. \A i \in DOMAIN k'.wait[m] : FALSE
      BY <2>6, <3>1
    <3> QED BY <3>2 DEF Ordered
  <2>8. Inherited'
    BY <1>2, <2>6, <2>7 DEF Inherited, waiters
  <2>9. NoInversion'
    BY <1>2, <2>6 DEF NoInversion, waiters
  <2> QED BY <2>5, <2>8, <2>9 DEF PInv
<1>5. CASE ~(mutex[m].hold > 1) /\ waiters(m) # {}
  <2>1. PICK w \in Thread : w = Head(k.wait[m])
    <3>1. Head(k.wait[m]) \in Thread
      BY <1>2, <1>5, HeadInList DEF waiters
    <3> QED BY <3>1
  <2>2. /\ mutex' = [mutex EXCEPT ![m] = handed_to(m, restore(m), w)]
        /\ k' = rt_ipc_list_resume(restore(m), m)
        /\ pc' = [pc EXCEPT ![t] = "sched"]
    BY <1>5, <2>1 DEF Release
  <2>3. /\ w \in waiters(m) /\ k'.cur = k.cur
        /\ k'.prio = [k.prio EXCEPT ![t] = InitPrio[t]]
        /\ k'.wait[m] = Unlink(k.wait[m], w)
        /\ ToSet(k'.wait[m]) = waiters(m) \ {w}
    <3>1. /\ Head(k.wait[m]) \in waiters(m) /\ k'.cur = k.cur
          /\ k'.prio = [k.prio EXCEPT
                          ![mutex[m].owner] = mutex[m].original_priority]
          /\ k'.wait[m] = Unlink(k.wait[m], Head(k.wait[m]))
          /\ ToSet(k'.wait[m]) = waiters(m) \ {Head(k.wait[m])}
      BY <1>1, <1>5, <2>2, HandOverEffect
    <3> QED BY <1>1, <1>2, <2>1, <3>1
  <2>4. w # t /\ restore(m).prio[w] = k.prio[w]
    <3>1. restore(m).prio = [k.prio EXCEPT ![t] = mutex[m].original_priority]
      BY <1>1, RestoreEffect
    <3> QED BY <1>2, <2>3, <3>1
  <2>5. mutex'[m].owner = w /\ mutex'[m].original_priority = k.prio[w]
    <3>1. mutex'[m] = handed_to(m, restore(m), w) /\ mutex[m] \in MutexState
      BY <2>2
    <3>2. /\ mutex'[m].owner = w
          /\ mutex'[m].original_priority = restore(m).prio[w]
      BY ONLY <3>1 DEF handed_to, MutexState
    <3> QED BY <2>4, <3>2
  <2>6. \A u \in Thread : k'.prio[u] = InitPrio[u]
    BY <1>2, <2>3
  <2>7. OwnPriorities'
    BY <1>2, <2>4, <2>5, <2>6 DEF OwnPriorities, PriorityRestored
  <2>8. \A u \in Thread \ {t} : k'.prio[u] = k.prio[u]
    BY <2>3
  <2>9. Ordered(k'.prio, k'.wait[m])
    <3>1. Ordered(k'.prio, k.wait[m])
      <4>1. k.wait[m] \in Seq(Thread) /\ Ordered(k.prio, k.wait[m])
        BY <1>2
      <4>2. \A u \in ToSet(k.wait[m]) : k'.prio[u] = k.prio[u]
        BY <1>2, <2>8 DEF waiters
      <4> QED BY ONLY <4>1, <4>2, OrderedAgree
    <3> QED BY <1>2, <2>3, <3>1, OrderedUnlink
  <2>10. \A u \in ToSet(k'.wait[m]) : k'.prio[w] <= k'.prio[u]
    <3> SUFFICES ASSUME NEW u \in ToSet(k'.wait[m])
                 PROVE  k'.prio[w] <= k'.prio[u]
      OBVIOUS
    <3>1. u \in ToSet(k.wait[m]) /\ u \in Thread \ {t}
      BY <1>2, <2>3 DEF waiters
    <3>2. k.prio \in [Thread -> Nat]
      BY <1>2
    <3>3. k.prio[w] <= k.prio[u]
      BY <1>2, <2>1, <3>1, <3>2, OrderedHead
    <3> QED BY <2>4, <2>8, <3>1, <3>3
  <2>11. Inherited'
    BY <1>2, <2>5, <2>9, <2>10 DEF Inherited, waiters
  <2>12. NoInversion'
    <3>1. pc'[k'.cur] = "sched"
      BY <1>1, <2>2, <2>3
    <3> QED BY <3>1 DEF NoInversion
  <2> QED BY <2>7, <2>11, <2>12 DEF PInv
<1> QED BY <1>3, <1>4, <1>5

\* Every step keeps the invariant of the priorities.
LEMMA NextPInv == OnePrioMutex /\ IInv /\ PInv /\ [Next]_vars => PInv'
<1> SUFFICES ASSUME OnePrioMutex, IInv, PInv, [Next]_vars PROVE PInv'
  OBVIOUS
<1>0. IInv'
  BY NextIInv
<1>1. CASE UNCHANGED vars
  <2>1. k' = k /\ mutex' = mutex /\ pc' = pc
    BY <1>1 DEF vars
  <2>2. NoInversion'
    BY <2>1 DEF PInv, NoInversion, waiters
  <2> QED BY <2>1, <2>2, SamePriorities
<1>2. ASSUME NEW t \in Thread, NEW m \in Mutexes, TakeNow(t, m)
      PROVE  PInv'
  BY <1>2, TakeNowPStep
<1>3. ASSUME NEW t \in Thread, NEW m \in Mutexes,
             \E timed \in BOOLEAN : TakeBlock(t, m, timed)
      PROVE  PInv'
  BY <1>3, TakeBlockPStep
<1>4. ASSUME NEW t \in Thread, NEW m \in Mutexes, Release(t, m)
      PROVE  PInv'
  BY <1>4, ReleasePStep
<1>5. CASE \/ \E t \in Thread : TakeSchedule(t) \/ Schedule(t)
                                  \/ SleepSchedule(t)
           \/ TickYield
  BY <1>0, <1>5, SchedulingPStep
<1>6. ASSUME NEW t \in Thread, TimerExpire(t)
      PROVE  PInv'
  BY <1>6, TimerPStep
<1>7. ASSUME NEW t \in Thread,
             \/ \E new \in Thread : Startup(t, new)
             \/ TakeReturn(t) \/ TakeUnprotected(t) \/ HandleSig(t)
             \/ Sleep(t) \/ SleepReturn(t)
             \/ \E m \in Mutexes : TryFails(t, m) \/ ReleaseNotOwner(t, m)
      PROVE  PInv'
  BY <1>7, QuietPStep
<1>8. ASSUME NEW t \in Thread, NEW r \in Thread, Deliver(t, r)
      PROVE  PInv'
  BY <1>8, DeliverPStep
<1>9. ASSUME NEW t \in Thread, TakeAgain(t)
      PROVE  PInv'
  BY <1>9, TakeAgainPStep
<1> QED BY <1>1, <1>2, <1>3, <1>4, <1>5, <1>6, <1>7, <1>8, <1>9
        DEF Next, Steps, Failures

\* The invariant of the priorities holds in every state of a system with one
\* such mutex.
THEOREM MutexPriorities == ASSUME OnePrioMutex PROVE Spec => []PInv
<1>1. Init => IInv /\ PInv
  BY InitIInv, InitPInv
<1>2. IInv /\ PInv /\ [Next]_vars => (IInv /\ PInv)'
  BY NextIInv, NextPInv
<1> QED BY <1>1, <1>2, PTL DEF Spec

\* A thread that owns no mutex runs with its own priority.
THEOREM MutexPriorityRestored ==
  ASSUME OnePrioMutex PROVE Spec => []PriorityRestored
<1>1. PInv => PriorityRestored
  BY DEF PInv, OwnPriorities
<1>2. Spec => []PInv
  BY MutexPriorities
<1> QED BY <1>1, <1>2, PTL

\* While a thread waits for a mutex whose owner is ready, whoever runs its own
\* code is at its current priority as urgent as the waiter.
THEOREM MutexNoInversion ==
  ASSUME OnePrioMutex PROVE Spec => []NoInversion
<1>1. PInv => NoInversion
  BY DEF PInv
<1>2. Spec => []PInv
  BY MutexPriorities
<1> QED BY <1>1, <1>2, PTL

=============================================================================
