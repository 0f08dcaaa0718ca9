---------------------------- MODULE ServiceProofs -----------------------------
(***************************************************************************)
(* The services of the drivers that MCServices checks side by side and the *)
(* end of threads that MCThreadLife checks, each for every set of threads, *)
(* works or bytes.  A completion is consumed once and is never slept over; *)
(* whoever waits for the cancelled work of a work queue waits for the one  *)
(* that is being done; the receive ring of a serial device holds the       *)
(* latest bytes, and no reader sleeps over them; neither side of a pipe    *)
(* sleeps over what it could do; a thread is in one list at most, and a    *)
(* dead one is released once.                                              *)
(***************************************************************************)
EXTENDS Serial, Pipe, Completion, WorkQueue, ThreadLife, KernelProofs

-----------------------------------------------------------------------------
(* The threads of the device drivers (Drivers.tla).                        *)

\* What the services keep of the kernel, the running thread left aside: the
\* scheduler is never locked and tidle never blocks.
KernelSound ==
  k \in KernelState /\ KInv(k) /\ k.nest = 0 /\ k.stat[Idle] = "ready"

LEMMA KernelSoundFacts ==
  ASSUME KernelSound
  PROVE  /\ k \in KernelState /\ KInv(k) /\ Idle \in Thread /\ k.cur \in Thread
         /\ k.wait \in [Queue -> Seq(Thread)]
         /\ k.stat \in [Thread -> Stat] /\ k.err \in [Thread -> Err]
         /\ \A q \in Queue : ToSet(k.wait[q]) \subseteq Thread
         /\ \A q \in Queue : \A t \in ToSet(k.wait[q]) : k.stat[t] = "suspend"
<1>1. /\ k \in KernelState /\ KInv(k) /\ Idle \in Thread
  BY KernelAssumption DEF KernelSound
<1>2. /\ k.cur \in Thread /\ k.wait \in [Queue -> Seq(Thread)]
      /\ k.stat \in [Thread -> Stat] /\ k.err \in [Thread -> Err]
  BY <1>1 DEF KernelState
<1>3. \A q \in Queue : ToSet(k.wait[q]) \subseteq Thread
  BY <1>2, ListElements
<1>4. \A q \in Queue : \A t \in ToSet(k.wait[q]) : k.stat[t] = "suspend"
  BY <1>1, <1>3 DEF KInv, WaitLists
<1> QED BY <1>1, <1>2, <1>3, <1>4

\* The scheduler once started.
LEMMA ThreadsStarted ==
  ASSUME ThreadsInit
  PROVE  /\ KernelSound
         /\ k.stat = [t \in Thread |-> IF t = Idle THEN "ready" ELSE "init"]
         /\ \A q \in Queue : k.wait[q] = << >> /\ ToSet(k.wait[q]) = {}
         /\ k.err = [t \in Thread |-> "eok"] /\ k.cur = Idle /\ k.timer = {}
         /\ pc = [t \in Thread |-> "run"]
<1>1. InitPrio \in [Thread -> Prio] /\ Idle \in Thread
  BY DriversAssumption, KernelAssumption
<1>2. k = scheduler_started(InitPrio) /\ pc = [t \in Thread |-> "run"]
  BY DEF ThreadsInit
<1>3. /\ k \in KernelState /\ KInv(k)
      /\ k.stat = [t \in Thread |-> IF t = Idle THEN "ready" ELSE "init"]
      /\ k.err = [t \in Thread |-> "eok"]
      /\ k.wait = [q \in Queue |-> << >>]
      /\ \A q \in Queue : ToSet(k.wait[q]) = {}
      /\ k.cur = Idle /\ k.nest = 0 /\ k.timer = {}
  BY ONLY <1>1, <1>2, StartedKernel
<1> QED BY <1>1, <1>2, <1>3 DEF KernelSound

\* rt_thread_startup.
LEMMA StartupMoves ==
  ASSUME KernelSound, NEW t \in Thread, NEW new \in Thread, Startup(t, new)
  PROVE  /\ KernelSound' /\ At(t, "run") /\ Go(t, "sched")
         /\ k.stat[new] = "init" /\ k'.stat = [k.stat EXCEPT ![new] = "ready"]
         /\ k'.err = k.err /\ k'.wait = k.wait /\ k'.cur = k.cur
         /\ k'.timer = k.timer
<1> USE KernelSoundFacts
<1>1. /\ k.stat[new] = "init" /\ k' = rt_thread_startup(k, new, InitPrio[new])
      /\ At(t, "run") /\ Go(t, "sched") /\ InitPrio[new] \in Prio
  BY DriversAssumption DEF Startup
<1> DEFINE r == rt_thread_startup(k, new, InitPrio[new])
<1>2. /\ r \in KernelState /\ KInv(r)
      /\ r.stat = [k.stat EXCEPT ![new] = "ready"]
      /\ r.err = k.err /\ r.wait = k.wait
      /\ r.cur = k.cur /\ r.nest = k.nest /\ r.timer = k.timer
  <2>1. /\ k \in KernelState /\ KInv(k)
        /\ k.stat[new] = "init" /\ InitPrio[new] \in Prio
    BY <1>1
  <2>9. Started(k, new, InitPrio[new], r)
    BY ONLY <2>1, StartupStarts, new \in Thread
  <2> QED BY ONLY <2>9 DEF Started
<1> HIDE DEF r
<1>3. k' = r
  BY <1>1 DEF r
<1> QED BY <1>1, <1>2, <1>3 DEF KernelSound

\* A step that ends with rt_schedule() on the state m.
LEMMA ScheduleMoves ==
  ASSUME NEW m \in KernelState, KInv(m), m.nest = 0, m.stat[Idle] = "ready",
         k' = rt_schedule(m)
  PROVE  /\ KernelSound' /\ k'.stat[k'.cur] = "ready"
         /\ k'.stat = m.stat /\ k'.err = m.err /\ k'.wait = m.wait
         /\ k'.timer = m.timer
<1>1. /\ k' \in KernelState /\ KInv(k') /\ SameThreads(m, k') /\ Settled(k')
  BY AfterSchedule
<1> QED BY <1>1 DEF KernelSound, SameThreads, Settled

\* rt_thread_timeout.
LEMMA ExpireMoves ==
  ASSUME KernelSound, NEW t \in Thread, TimerExpire(t)
  PROVE  /\ KernelSound' /\ pc' = pc /\ k'.stat[k'.cur] = "ready"
         /\ k.stat[t] = "suspend" /\ k'.stat = [k.stat EXCEPT ![t] = "ready"]
         /\ k'.err = [k.err EXCEPT ![t] = "etimeout"]
         /\ \A q \in Queue : ToSet(k'.wait[q]) = ToSet(k.wait[q]) \ {t}
         /\ k'.timer = k.timer \ {t}
<1> USE KernelSoundFacts
<1> DEFINE k1 == [k EXCEPT !.err[t] = "etimeout"]
           m  == timed_out(k, t)
<1>1. t \in k.timer /\ k' = rt_thread_timeout(k, t) /\ pc' = pc
  BY DEF TimerExpire
<1>2. k.stat[t] = "suspend" /\ k' = rt_schedule(m) /\ WokenUp(k1, t, m)
  BY <1>1, TimeoutKeeps
<1>3. /\ k1.stat = k.stat /\ k1.wait = k.wait /\ k1.cur = k.cur
      /\ k1.nest = k.nest /\ k1.err = [k.err EXCEPT ![t] = "etimeout"]
      /\ k1.timer = k.timer
  <2>1. k \in KernelState /\ KInv(k) /\ "etimeout" \in Err
    BY DEF Err
  <2> QED BY ONLY <2>1, SetError, t \in Thread
<1> HIDE DEF k1, m
<1>4. /\ m \in KernelState /\ KInv(m) /\ m.nest = 0
      /\ m.stat = [k.stat EXCEPT ![t] = "ready"]
      /\ m.err = [k.err EXCEPT ![t] = "etimeout"]
      /\ \A q \in Queue : ToSet(m.wait[q]) = ToSet(k.wait[q]) \ {t}
      /\ m.timer = k.timer \ {t}
  BY <1>2, <1>3 DEF WokenUp, KernelSound
<1>5. m.stat[Idle] = "ready"
  BY <1>4 DEF KernelSound
<1>6. /\ KernelSound' /\ k'.stat[k'.cur] = "ready"
      /\ k'.stat = m.stat /\ k'.err = m.err /\ k'.wait = m.wait
      /\ k'.timer = m.timer
  BY ONLY <1>2, <1>4, <1>5, ScheduleMoves
<1> QED BY <1>1, <1>2, <1>4, <1>6

\* The running thread t suspends itself in the list q.
LEMMA Suspended ==
  ASSUME KernelSound, NEW t \in Thread, NEW q \in Queue,
         k.cur = t, k.stat[t] = "ready", t # Idle, NEW m,
         m = rt_ipc_list_suspend([k EXCEPT !.err[t] = "eok"], q, t, "fifo")
  PROVE  /\ m \in KernelState /\ KInv(m) /\ m.nest = 0
         /\ m.stat[Idle] = "ready" /\ m.cur = t
         /\ m.stat = [k.stat EXCEPT ![t] = "suspend"]
         /\ m.err = [k.err EXCEPT ![t] = "eok"]
         /\ ToSet(m.wait[q]) = ToSet(k.wait[q]) \cup {t}
         /\ \A x \in Queue \ {q} : m.wait[x] = k.wait[x]
         /\ m.timer = k.timer \ {t}
<1> USE KernelSoundFacts
<1> DEFINE k0 == [k EXCEPT !.err[t] = "eok"]
<1>1. k0 \in KernelState /\ KInv(k0) /\ k0.stat = k.stat /\ k0.wait = k.wait
      /\ k0.cur = t /\ k0.nest = 0 /\ k0.timer = k.timer
      /\ k0.err = [k.err EXCEPT ![t] = "eok"]
  <2>1. k \in KernelState /\ KInv(k) /\ "eok" \in Err
    BY DEF Err
  <2>2. /\ k0 \in KernelState /\ KInv(k0) /\ k0.stat = k.stat
        /\ k0.wait = k.wait /\ k0.cur = k.cur /\ k0.nest = k.nest
        /\ k0.err = [k.err EXCEPT ![t] = "eok"] /\ k0.timer = k.timer
    BY ONLY <2>1, SetError, t \in Thread
  <2> HIDE DEF k0
  <2> QED BY <2>2 DEF KernelSound
<1>2. m = rt_ipc_list_suspend(k0, q, t, "fifo")
  OBVIOUS
<1> HIDE DEF k0
<1>3. k0.stat[k0.cur] = "ready"
  BY <1>1
<1>4. Blocked(k0, q, m)
  <2>1. m = rt_ipc_list_suspend(k0, q, k0.cur, "fifo")
    BY <1>1, <1>2
  <2> QED BY ONLY <1>1, <1>3, <2>1, IpcSuspendKeeps, q \in Queue
<1>5. /\ m \in KernelState /\ KInv(m) /\ m.cur = t /\ m.nest = 0
      /\ m.stat = [k.stat EXCEPT ![t] = "suspend"]
      /\ m.err = [k.err EXCEPT ![t] = "eok"]
      /\ ToSet(m.wait[q]) = ToSet(k.wait[q]) \cup {t}
      /\ \A x \in Queue \ {q} : m.wait[x] = k.wait[x]
      /\ m.timer = k.timer \ {t}
  BY ONLY <1>1, <1>4 DEF Blocked
<1>6. m.stat[Idle] = "ready"
  <2>1. k.stat[Idle] = "ready" /\ k.stat \in [Thread -> Stat] /\ Idle \in Thread
    BY DEF KernelSound
  <2> QED BY ONLY <1>5, <2>1, t \in Thread, t # Idle
<1> QED BY <1>5, <1>6

\* A thread t blocks in the list q, with or without a timeout.
LEMMA BlockMoves ==
  ASSUME KernelSound, NEW t \in Thread, NEW q \in Queue, NEW timeout,
         k.cur = t, k.stat[t] = "ready", t # Idle,
         LET k1 == rt_ipc_list_suspend([k EXCEPT !.err[t] = "eok"], q, t, "fifo")
         IN k' = IF timeout = "some" THEN rt_timer_start(k1, t) ELSE k1
  PROVE  /\ KernelSound' /\ k'.cur = t
         /\ k'.stat = [k.stat EXCEPT ![t] = "suspend"]
         /\ k'.err = [k.err EXCEPT ![t] = "eok"]
         /\ ToSet(k'.wait[q]) = ToSet(k.wait[q]) \cup {t}
         /\ \A x \in Queue \ {q} : k'.wait[x] = k.wait[x]
<1> USE KernelSoundFacts
<1>1. PICK m : m = rt_ipc_list_suspend([k EXCEPT !.err[t] = "eok"], q, t, "fifo")
  OBVIOUS
<1>2. k' = rt_timer_start(m, t) \/ k' = m
  BY <1>1
<1>3. /\ m \in KernelState /\ KInv(m) /\ m.nest = 0
      /\ m.stat[Idle] = "ready" /\ m.cur = t
      /\ m.stat = [k.stat EXCEPT ![t] = "suspend"]
      /\ m.err = [k.err EXCEPT ![t] = "eok"]
      /\ ToSet(m.wait[q]) = ToSet(k.wait[q]) \cup {t}
      /\ \A x \in Queue \ {q} : m.wait[x] = k.wait[x]
  <2>1. /\ KernelSound /\ t \in Thread /\ q \in Queue
        /\ k.cur = t /\ k.stat[t] = "ready" /\ t # Idle
    OBVIOUS
  <2> QED BY ONLY <1>1, <2>1, Suspended
<1>4. PICK r : r = rt_timer_start(m, t)
  OBVIOUS
<1>5. /\ r \in KernelState /\ KInv(r)
      /\ r.stat = m.stat /\ r.err = m.err /\ r.wait = m.wait
      /\ r.cur = m.cur /\ r.nest = m.nest
  <2>1. m.stat[t] = "suspend"
    BY <1>3
  <2> QED BY <1>3, <1>4, <2>1, StartTimer
<1> QED BY <1>2, <1>3, <1>4, <1>5 DEF KernelSound

\* The first thread of the list q is made ready.
LEMMA ResumeMoves ==
  ASSUME KernelSound, NEW q \in Queue, k.wait[q] # << >>, NEW m,
         m = rt_ipc_list_resume(k, q)
  PROVE  LET w == Head(k.wait[q]) IN
         /\ w \in ToSet(k.wait[q]) /\ m \in KernelState /\ KInv(m)
         /\ m.nest = 0 /\ m.stat[Idle] = "ready" /\ m.cur = k.cur
         /\ m.stat = [k.stat EXCEPT ![w] = "ready"] /\ m.err = k.err
         /\ \A x \in Queue : ToSet(m.wait[x]) = ToSet(k.wait[x]) \ {w}
<1> USE KernelSoundFacts
<1>1. PICK w : w = Head(k.wait[q])
  OBVIOUS
<1>2. w \in ToSet(k.wait[q]) /\ w \in Thread
  <2>1. k.wait[q] \in Seq(Thread) /\ ToSet(k.wait[q]) # {}
    BY EmptyList
  <2> QED BY <1>1, <2>1, HeadInList
<1>3. k.stat[w] = "suspend"
  BY <1>2
<1>4. WokenUp(k, w, m)
  BY <1>1, <1>2, <1>3, ResumeKeeps DEF rt_ipc_list_resume
<1>5. m.stat[Idle] = "ready"
  BY <1>2, <1>4 DEF WokenUp, KernelSound
<1> QED BY <1>1, <1>2, <1>4, <1>5 DEF WokenUp, KernelSound
-----------------------------------------------------------------------------
(* The completion.                                                         *)

CompletionPC == {"run", "sched", "done", "c_sched", "c_woken", "c_clear"}

CompletionSpec ==
  ThreadsInit /\ CompletionInit /\ [][CompletionNext]_<<threads, completion>>

waits == ToSet(k.wait[List])

\* The only thread that is ever suspended is the waiter, in the list where
\* rt_completion_done finds it; it sleeps only while nothing is completed, and
\* when it was taken out of the list without an error then something is.
CompletionWaits ==
  /\ k.stat[k.cur] = "ready" \/ pc[k.cur] = "c_sched"
  /\ \A t \in Thread : k.stat[t] = "suspend" => t \in waits
  /\ waits \subseteq {Waiter}
  /\ Waiter \in waits =>
       /\ pc[Waiter] \in {"c_sched", "c_woken"} /\ k.err[Waiter] = "eok"
       /\ ~completed
  /\ pc[Waiter] \in {"c_sched", "c_woken"} /\ Waiter \notin waits
       /\ k.err[Waiter] = "eok" => completed
  /\ pc[Waiter] = "c_clear" /\ result = "eok" => completed

CompletionIInv ==
  /\ KernelSound
  /\ pc \in [Thread -> CompletionPC] /\ completed \in BOOLEAN
  /\ CompletionWaits

LEMMA CompletionFacts ==
  ASSUME CompletionIInv
  PROVE  /\ KernelSound /\ pc \in [Thread -> CompletionPC]
         /\ k.cur \in Thread /\ k.stat \in [Thread -> Stat]
         /\ k.err \in [Thread -> Err] /\ Idle \in Thread
         /\ Waiter \in Thread /\ Waiter # Idle /\ Waiter \notin Doer
         /\ Doer \subseteq Thread /\ List \in Queue
         /\ \A t \in waits : k.stat[t] = "suspend"
         /\ k.wait[List] = << >> <=> waits = {}
<1>1. k.wait[List] = << >> <=> waits = {}
  BY KernelSoundFacts, CompletionAssumption, EmptyList DEF CompletionIInv, waits
<1> QED BY <1>1, KernelSoundFacts, CompletionAssumption DEF CompletionIInv, waits

LEMMA InitCompletion == ThreadsInit /\ CompletionInit => CompletionIInv
<1> SUFFICES ASSUME ThreadsInit, CompletionInit PROVE CompletionIInv
  OBVIOUS
<1>1. /\ KernelSound
      /\ k.stat = [t \in Thread |-> IF t = Idle THEN "ready" ELSE "init"]
      /\ k.cur = Idle /\ pc = [t \in Thread |-> "run"]
      /\ waits = {}
  BY ThreadsStarted, CompletionAssumption DEF waits
<1>2. Idle \in Thread /\ Waiter \in Thread
  BY KernelAssumption, CompletionAssumption
<1>3. CompletionWaits
  BY <1>1, <1>2 DEF CompletionWaits, CompletionInit
<1> QED BY <1>1, <1>3 DEF CompletionIInv, CompletionPC, CompletionInit

\* A thread that does not wait goes on, without a change of lists, flag or
\* errors; nobody is suspended.
LEMMA CompletionQuiet ==
  ASSUME CompletionIInv, KernelSound', NEW t \in Thread, NEW p \in CompletionPC,
         NEW q \in CompletionPC,
         pc[t] = p, Go(t, q), p \notin {"c_sched", "c_woken", "c_clear"},
         q \notin {"c_sched", "c_woken", "c_clear"},
         k'.wait = k.wait, k'.err = k.err, UNCHANGED completion,
         \A u \in Thread : k'.stat[u] = "suspend" => k.stat[u] = "suspend",
         k'.stat[k'.cur] = "ready"
  PROVE  CompletionIInv'
<1> USE CompletionFacts
<1>1. waits' = waits /\ completed' = completed /\ result' = result
  BY DEF waits, completion
<1>2. pc' = [pc EXCEPT ![t] = q]
  BY DEF Go
<1>3. Waiter \in waits => t # Waiter
  BY DEF CompletionIInv, CompletionWaits
<1>4. pc'[Waiter] \in {"c_sched", "c_woken", "c_clear"} => pc'[Waiter] = pc[Waiter]
  BY <1>2
<1>5. CompletionWaits'
  BY <1>1, <1>2, <1>3, <1>4 DEF CompletionIInv, CompletionWaits
<1> QED BY <1>1, <1>2, <1>5 DEF CompletionIInv

\* The steps of the threads, and of rt_schedule().
LEMMA CompletionThreads ==
  ASSUME CompletionIInv, ThreadsNext, UNCHANGED completion
  PROVE  CompletionIInv'
<1> USE CompletionFacts
<1>1. ASSUME NEW t \in Thread, NEW new \in Thread, Startup(t, new)
      PROVE  CompletionIInv'
  <2>1. /\ KernelSound' /\ k.cur = t /\ pc[t] = "run" /\ Go(t, "sched")
        /\ k'.stat = [k.stat EXCEPT ![new] = "ready"]
        /\ k'.err = k.err /\ k'.wait = k.wait /\ k'.cur = k.cur
    BY <1>1, StartupMoves DEF At
  <2>2. k.stat[t] = "ready"
    BY <2>1 DEF CompletionIInv, CompletionWaits
  <2>3. "run" \in CompletionPC /\ "sched" \in CompletionPC
    BY DEF CompletionPC
  <2>4. k'.stat[k'.cur] = "ready"
    BY <2>1, <2>2
  <2> QED BY <2>1, <2>3, <2>4, CompletionQuiet
<1>2. ASSUME NEW t \in Thread, Schedule(t)
      PROVE  CompletionIInv'
  <2>1. k' = rt_schedule(k) /\ pc[t] = "sched" /\ Go(t, "run")
    BY <1>2 DEF Schedule, At
  <2>2. /\ KernelSound' /\ k'.stat[k'.cur] = "ready"
        /\ k'.stat = k.stat /\ k'.err = k.err /\ k'.wait = k.wait
    BY <2>1, ScheduleMoves DEF KernelSound
  <2>3. "run" \in CompletionPC /\ "sched" \in CompletionPC
    BY DEF CompletionPC
  <2> QED BY <2>1, <2>2, <2>3, CompletionQuiet
<1>3. ASSUME NEW t \in Thread, TimerExpire(t)
      PROVE  CompletionIInv'
  <2>1. /\ KernelSound' /\ pc' = pc /\ k'.stat[k'.cur] = "ready"
        /\ k.stat[t] = "suspend" /\ k'.stat = [k.stat EXCEPT ![t] = "ready"]
        /\ k'.err = [k.err EXCEPT ![t] = "etimeout"]
        /\ waits' = waits \ {t}
    BY <1>3, ExpireMoves DEF waits
  <2>2. t = Waiter /\ waits' = {}
    BY <2>1 DEF CompletionIInv, CompletionWaits
  <2>3. completed' = completed /\ result' = result
    BY DEF completion
  <2>4. \A u \in Thread : k'.stat[u] # "suspend"
    BY <2>1, <2>2 DEF CompletionIInv, CompletionWaits
  <2>5. CompletionWaits'
    BY <2>1, <2>2, <2>3, <2>4 DEF CompletionIInv, CompletionWaits
  <2> QED BY <2>1, <2>3, <2>5 DEF CompletionIInv
<1>4. ASSUME TickYield PROVE CompletionIInv'
  <2>1. k' = rt_schedule(k) /\ pc' = pc
    BY <1>4 DEF TickYield
  <2>2. /\ KernelSound' /\ k'.stat[k'.cur] = "ready"
        /\ k'.stat = k.stat /\ k'.err = k.err /\ k'.wait = k.wait
    BY <2>1, ScheduleMoves DEF KernelSound
  <2>3. waits' = waits /\ completed' = completed /\ result' = result
    BY <2>2 DEF waits, completion
  <2>4. CompletionWaits'
    BY <2>1, <2>2, <2>3 DEF CompletionIInv, CompletionWaits
  <2> QED BY <2>1, <2>2, <2>3, <2>4 DEF CompletionIInv
<1> QED BY <1>1, <1>2, <1>3, <1>4 DEF ThreadsNext

\* rt_completion_wait.
LEMMA CompletionWaiter ==
  ASSUME CompletionIInv,
         \/ CompletionNow \/ CompletionSchedule
         \/ \E timeout \in {"some", "forever"} : CompletionBlock(timeout)
         \/ CompletionResult \/ CompletionClear
  PROVE  CompletionIInv'
<1> USE CompletionFacts
<1>1. CASE CompletionNow \/ CompletionClear
  <2>1. /\ k' = k /\ k.cur = Waiter /\ pc[Waiter] \in {"run", "c_clear"}
        /\ completed' = FALSE /\ pc' = [pc EXCEPT ![Waiter] = "run"]
    BY <1>1 DEF CompletionNow, CompletionClear, At, Go, threads
  <2>2. waits' = waits /\ KernelSound'
    BY <2>1 DEF waits, KernelSound
  <2>3. CompletionWaits'
    BY <2>1, <2>2 DEF CompletionIInv, CompletionWaits
  <2> QED BY <2>1, <2>2, <2>3 DEF CompletionIInv, CompletionPC
<1>2. CASE \E timeout \in {"some", "forever"} : CompletionBlock(timeout)
  <2>1. PICK timeout \in {"some", "forever"} : CompletionBlock(timeout)
    BY <1>2
  <2>2. /\ k.cur = Waiter /\ pc[Waiter] = "run" /\ ~completed
        /\ Go(Waiter, "c_sched") /\ completed' = completed /\ result' = result
    BY <2>1 DEF CompletionBlock, At, completion
  <2>3. k.stat[Waiter] = "ready"
    BY <2>2 DEF CompletionIInv, CompletionWaits
  <2>4. /\ KernelSound' /\ k'.cur = Waiter
        /\ k'.stat = [k.stat EXCEPT ![Waiter] = "suspend"]
        /\ k'.err = [k.err EXCEPT ![Waiter] = "eok"]
        /\ waits' = waits \cup {Waiter}
    <3>1. KernelSound /\ Waiter \in Thread /\ Waiter # Idle /\ List \in Queue
      OBVIOUS
    <3>2. LET k1 == rt_ipc_list_suspend([k EXCEPT !.err[Waiter] = "eok"],
                                        List, Waiter, "fifo")
          IN k' = IF timeout = "some" THEN rt_timer_start(k1, Waiter) ELSE k1
      BY <2>1 DEF CompletionBlock
    <3>3. /\ KernelSound' /\ k'.cur = Waiter
          /\ k'.stat = [k.stat EXCEPT ![Waiter] = "suspend"]
          /\ k'.err = [k.err EXCEPT ![Waiter] = "eok"]
          /\ ToSet(k'.wait[List]) = ToSet(k.wait[List]) \cup {Waiter}
      BY ONLY <2>2, <2>3, <3>1, <3>2, BlockMoves
    <3> QED BY <3>3 DEF waits
  <2>5. pc' = [pc EXCEPT ![Waiter] = "c_sched"]
    BY <2>2 DEF Go
  <2>6. CompletionWaits'
    BY <2>2, <2>4, <2>5 DEF CompletionIInv, CompletionWaits
  <2> QED BY <2>2, <2>4, <2>5, <2>6 DEF CompletionIInv, CompletionPC
<1>3. CASE CompletionSchedule
  <2>1. /\ k' = rt_schedule(k) /\ pc[Waiter] = "c_sched"
        /\ pc' = [pc EXCEPT ![Waiter] = "c_woken"]
        /\ completed' = completed /\ result' = result
    BY <1>3 DEF CompletionSchedule, At, Go, completion
  <2>2. /\ KernelSound' /\ k'.stat[k'.cur] = "ready"
        /\ k'.stat = k.stat /\ k'.err = k.err /\ k'.wait = k.wait
    BY <2>1, ScheduleMoves DEF KernelSound
  <2>3. waits' = waits
    BY <2>2 DEF waits
  <2>4. CompletionWaits'
    BY <2>1, <2>2, <2>3 DEF CompletionIInv, CompletionWaits
  <2> QED BY <2>1, <2>2, <2>4 DEF CompletionIInv, CompletionPC
<1>4. CASE CompletionResult
  <2>1. /\ k' = k /\ k.cur = Waiter /\ pc[Waiter] = "c_woken"
        /\ pc' = [pc EXCEPT ![Waiter] = "c_clear"]
        /\ completed' = completed /\ result' = k.err[Waiter]
    BY <1>4 DEF CompletionResult, At, Go
  <2>2. waits' = waits /\ KernelSound'
    BY <2>1 DEF waits, KernelSound
  <2>3. Waiter \notin waits
    BY <2>1 DEF CompletionIInv, CompletionWaits
  <2>4. CompletionWaits'
    BY <2>1, <2>2, <2>3 DEF CompletionIInv, CompletionWaits
  <2> QED BY <2>1, <2>2, <2>4 DEF CompletionIInv, CompletionPC
<1> QED BY <1>1, <1>2, <1>3, <1>4

\* rt_completion_done.
LEMMA CompletionDone ==
  ASSUME CompletionIInv, (\E t \in Doer : DoneTest(t) \/ DoneSet(t)) \/ IsrDone
  PROVE  CompletionIInv'
<1> USE CompletionFacts
<1>1. ASSUME NEW t \in Doer, DoneTest(t) PROVE CompletionIInv'
  <2>1. /\ k' = k /\ k.cur = t /\ pc[t] = "run" /\ Go(t, "done")
        /\ UNCHANGED completion
    BY <1>1 DEF DoneTest, At
  <2>2. k.stat[k.cur] = "ready"
    BY <2>1 DEF CompletionIInv, CompletionWaits
  <2>3. "run" \in CompletionPC /\ "done" \in CompletionPC /\ KernelSound'
    BY <2>1 DEF CompletionPC, KernelSound
  <2> QED BY <2>1, <2>2, <2>3, CompletionQuiet
<1>2. waits # {} => resumed = rt_ipc_list_resume(k, List)
  BY DEF resumed
<1>3. waits = {} => resumed = k
  BY DEF resumed
<1>4. /\ resumed \in KernelState /\ KInv(resumed) /\ resumed.nest = 0
      /\ resumed.stat[Idle] = "ready" /\ resumed.cur = k.cur
      /\ resumed.err = k.err /\ ToSet(resumed.wait[List]) = {}
      /\ \A u \in Thread : resumed.stat[u] # "suspend"
      /\ k.stat[k.cur] = "ready" => resumed.stat[k.cur] = "ready"
  <2>1. CASE waits = {}
    BY <1>3, <2>1 DEF KernelSound, waits, CompletionIInv, CompletionWaits
  <2>2. CASE waits # {}
    <3>1. PICK w : w = Head(k.wait[List])
      OBVIOUS
    <3>2. k.wait[List] # << >>
      BY <2>2
    <3>3. /\ w \in ToSet(k.wait[List]) /\ resumed \in KernelState
          /\ KInv(resumed) /\ resumed.nest = 0
          /\ resumed.stat[Idle] = "ready" /\ resumed.cur = k.cur
          /\ resumed.stat = [k.stat EXCEPT ![w] = "ready"]
          /\ resumed.err = k.err
          /\ ToSet(resumed.wait[List]) = ToSet(k.wait[List]) \ {w}
      <4>1. KernelSound /\ List \in Queue
        OBVIOUS
      <4>2. PICK m : m = resumed /\ m = rt_ipc_list_resume(k, List)
        BY <1>2, <2>2
      <4>3. /\ Head(k.wait[List]) \in ToSet(k.wait[List]) /\ m \in KernelState
            /\ KInv(m) /\ m.nest = 0 /\ m.stat[Idle] = "ready"
            /\ m.cur = k.cur
            /\ m.stat = [k.stat EXCEPT ![Head(k.wait[List])] = "ready"]
            /\ m.err = k.err
            /\ \A x \in Queue :
                 ToSet(m.wait[x]) = ToSet(k.wait[x]) \ {Head(k.wait[List])}
        BY ONLY <3>2, <4>1, <4>2, ResumeMoves
      <4> QED BY <3>1, <4>1, <4>2, <4>3
    <3>4. w = Waiter /\ waits = {Waiter}
      BY <3>3 DEF waits, CompletionIInv, CompletionWaits
    <3> QED BY <3>3, <3>4 DEF waits, CompletionIInv, CompletionWaits
  <2> QED BY <2>1, <2>2
<1>5. ASSUME NEW t \in Doer, DoneSet(t) PROVE CompletionIInv'
  <2>1. PICK p \in {"sched", "run"} : Go(t, p)
    BY <1>5 DEF DoneSet
  <2>2. /\ k' = resumed /\ k.cur = t /\ pc[t] = "done" /\ completed' = TRUE
        /\ pc' = [pc EXCEPT ![t] = p] /\ t \in Thread /\ t # Waiter
    BY <1>5, <2>1 DEF DoneSet, At, Go
  <2>3. k.stat[t] = "ready" /\ KernelSound'
    BY <1>4, <2>2 DEF CompletionIInv, CompletionWaits, KernelSound
  <2>4. waits' = {} /\ pc'[Waiter] = pc[Waiter]
    BY <1>4, <2>2 DEF waits
  <2>5. CompletionWaits'
    BY <1>4, <2>2, <2>3, <2>4 DEF CompletionIInv, CompletionWaits
  <2> QED BY <2>2, <2>3, <2>5 DEF CompletionIInv, CompletionPC
<1>6. ASSUME IsrDone PROVE CompletionIInv'
  <2>1. /\ completed' = TRUE /\ pc' = pc
        /\ k' = rt_schedule(resumed) \/ (k' = k /\ waits = {})
    BY <1>6 DEF IsrDone
  <2>2. CASE k' = rt_schedule(resumed)
    <3>1. /\ KernelSound' /\ k'.stat[k'.cur] = "ready" /\ k'.stat = resumed.stat
          /\ k'.wait = resumed.wait
      BY <1>4, <2>2, ScheduleMoves
    <3>2. waits' = {}
      BY <1>4, <3>1 DEF waits
    <3>3. CompletionWaits'
      BY <1>4, <2>1, <3>1, <3>2 DEF CompletionWaits
    <3> QED BY <2>1, <3>1, <3>3 DEF CompletionIInv
  <2>3. CASE k' = k /\ waits = {}
    BY <2>1, <2>3 DEF CompletionIInv, CompletionWaits, KernelSound, waits
  <2> QED BY <2>1, <2>2, <2>3
<1> QED BY <1>1, <1>5, <1>6

\* Every step keeps the invariant.
LEMMA CompletionKept ==
  CompletionIInv /\ [CompletionNext]_<<threads, completion>> => CompletionIInv'
<1> SUFFICES ASSUME CompletionIInv, [CompletionNext]_<<threads, completion>>
             PROVE  CompletionIInv'
  OBVIOUS
<1>1. CASE UNCHANGED <<threads, completion>>
  BY <1>1 DEF threads, completion, CompletionIInv, CompletionWaits, KernelSound,
              waits
<1>2. CASE ThreadsNext /\ UNCHANGED completion
  BY <1>2, CompletionThreads
<1>3. CASE \/ CompletionNow \/ CompletionSchedule
           \/ \E timeout \in {"some", "forever"} : CompletionBlock(timeout)
           \/ CompletionResult \/ CompletionClear
  BY <1>3, CompletionWaiter
<1>4. CASE (\E t \in Doer : DoneTest(t) \/ DoneSet(t)) \/ IsrDone
  BY <1>4, CompletionDone
<1> QED BY <1>1, <1>2, <1>3, <1>4 DEF CompletionNext

\* A completion is never slept over and is consumed once: rt_completion_done
\* may test the flag before it disables interrupts, and be interrupted by a
\* handler that completes or by the timer of the waiter.
THEOREM CompletionConsumedOnce == CompletionSpec => []CompletedOnce
<1>1. CompletionIInv => CompletedOnce
  <2> SUFFICES ASSUME CompletionIInv PROVE CompletedOnce
    OBVIOUS
  <2> QED BY CompletionFacts DEF CompletionIInv, CompletionWaits, CompletedOnce
<1> QED BY <1>1, InitCompletion, CompletionKept, PTL DEF CompletionSpec
-----------------------------------------------------------------------------
(* The threads that rt_sem_release resumes one after the other.             *)

\* Each thread of the list s is resumed.
resumed_each(k1, s) ==
  LET resume(k2, t) == rt_thread_resume(k2, t) IN FoldLeft(resume, k1, s)

\* The kernel r after the threads of W were resumed in k1.
ResumedEach(k1, W, r) ==
  /\ r \in KernelState /\ KInv(r)
  /\ r.stat = [t \in Thread |-> IF t \in W /\ k1.stat[t] = "suspend"
                                THEN "ready" ELSE k1.stat[t]]
  /\ \A q \in Queue : ToSet(r.wait[q]) = ToSet(k1.wait[q]) \ W
  /\ r.err = k1.err /\ r.cur = k1.cur /\ r.nest = k1.nest

\* One more thread.  W holds only threads that were suspended.
LEMMA ResumeOneMore ==
  ASSUME NEW k1 \in KernelState, NEW W \in SUBSET Thread, NEW r,
         ResumedEach(k1, W, r), NEW t \in Thread, KInv(k1)
  PROVE  ResumedEach(k1, W \cup {t}, rt_thread_resume(r, t))
<1>1. /\ r \in KernelState /\ KInv(r)
      /\ r.stat = [u \in Thread |-> IF u \in W /\ k1.stat[u] = "suspend"
                                    THEN "ready" ELSE k1.stat[u]]
      /\ \A q \in Queue : ToSet(r.wait[q]) = ToSet(k1.wait[q]) \ W
      /\ r.err = k1.err /\ r.cur = k1.cur /\ r.nest = k1.nest
  BY DEF ResumedEach
<1>2. CASE r.stat[t] = "suspend"
  <2>1. PICK m : m = rt_thread_resume(r, t)
    OBVIOUS
  <2>2. WokenUp(r, t, m)
    BY <1>1, <1>2, <2>1, ResumeKeeps
  <2>3. /\ m \in KernelState /\ KInv(m) /\ m.stat = [r.stat EXCEPT ![t] = "ready"]
        /\ \A q \in Queue : ToSet(m.wait[q]) = ToSet(r.wait[q]) \ {t}
        /\ m.err = r.err /\ m.cur = r.cur /\ m.nest = r.nest
    BY <2>2 DEF WokenUp
  <2>4. k1.stat[t] = "suspend"
    BY <1>1, <1>2
  <2>5. m.stat = [u \in Thread |-> IF u \in W \cup {t} /\ k1.stat[u] = "suspend"
                                   THEN "ready" ELSE k1.stat[u]]
    BY <1>1, <2>3, <2>4
  <2> QED BY <1>1, <2>1, <2>3, <2>5 DEF ResumedEach
<1>3. CASE r.stat[t] # "suspend"
  <2>1. rt_thread_resume(r, t) = r
    BY <1>3 DEF rt_thread_resume
  <2>2. t \in W \/ k1.stat[t] # "suspend"
    BY <1>1, <1>3
  <2>3. \A q \in Queue : t \notin ToSet(r.wait[q])
    BY <1>1, <1>3 DEF KInv, WaitLists
  <2>4. r.stat = [u \in Thread |-> IF u \in W \cup {t} /\ k1.stat[u] = "suspend"
                                   THEN "ready" ELSE k1.stat[u]]
    BY <1>1, <2>2
  <2>5. \A q \in Queue : ToSet(r.wait[q]) = ToSet(k1.wait[q]) \ (W \cup {t})
    BY <1>1, <2>3
  <2> QED BY <1>1, <2>1, <2>4, <2>5 DEF ResumedEach
<1> QED BY <1>2, <1>3

LEMMA ResumeEach ==
  ASSUME NEW k1 \in KernelState, KInv(k1), NEW s \in Seq(Thread)
  PROVE  ResumedEach(k1, ToSet(s), resumed_each(k1, s))
<1> DEFINE n == Len(s)
           D == 1 .. n
           V == {r \in KernelState : KInv(r)}
           g == [p \in D \X V |-> rt_thread_resume(p[2], s[p[1]])]
           of(p) == {s[x] : x \in p}
<1>1. n \in Nat /\ DOMAIN s = D /\ k1 \in V /\ ToSet(s) = of(D)
  BY LenProperties DEF ToSet
<1>2. \A x \in D : s[x] \in Thread
  BY <1>1, ElementOfSeq
<1>3. \A x \in D, r \in V : rt_thread_resume(r, s[x]) \in V
  <2> SUFFICES ASSUME NEW x \in D, NEW r \in V
               PROVE  rt_thread_resume(r, s[x]) \in V
    OBVIOUS
  <2>1. CASE r.stat[s[x]] = "suspend"
    <3>1. WokenUp(r, s[x], rt_thread_resume(r, s[x]))
      BY <1>2, <2>1, ResumeKeeps
    <3> QED BY <3>1 DEF WokenUp
  <2>2. CASE r.stat[s[x]] # "suspend"
    BY <2>2 DEF rt_thread_resume
  <2> QED BY <2>1, <2>2
<1>4. g \in [D \X V -> V]
  BY <1>3
<1>5. \A x \in D, r \in V : g[<<x, r>>] = rt_thread_resume(r, s[x])
  OBVIOUS
<1> HIDE DEF n, V, g
<1>6. PICK h \in [SUBSET D -> V] : LoopOf(h, n, V, k1, g)
  BY ONLY <1>1, <1>4, LoopExists
<1>loop. ASSUME NEW p \in SUBSET D
         PROVE  /\ p = {} => h[p] = k1
                /\ p # {} =>
                     /\ Max(p) \in p /\ p \ {Max(p)} \in SUBSET D
                     /\ h[p \ {Max(p)}] \in V
                     /\ h[p] = rt_thread_resume(h[p \ {Max(p)}], s[Max(p)])
  BY <1>5, <1>6 DEF LoopOf
<1> DEFINE Iter(i) == [p \in SUBSET D |->
                         IF p = {} THEN k1
                         ELSE LET x == Max(p)
                              IN rt_thread_resume(i[p \ {x}], s[x])]
           i == CHOOSE i : i = Iter(i)
<1>7. h = Iter(h)
  BY <1>6, <1>loop
<1>8. i = Iter(i)
  BY <1>7
<1>9. resumed_each(k1, s) = i[D]
  <2>1. resumed_each(k1, s) =
          LET iter[p \in SUBSET DOMAIN s] ==
                IF p = {} THEN k1
                ELSE LET x == Max(p) IN rt_thread_resume(iter[p \ {x}], s[x])
          IN iter[DOMAIN s]
    BY DEF resumed_each, FoldLeft, MapThenFoldSet
  <2> QED BY <1>1, <2>1
<1> HIDE DEF i
<1>10. \A p \in SUBSET D :
         /\ p = {} => i[p] = k1
         /\ p # {} => i[p] = rt_thread_resume(i[p \ {Max(p)}], s[Max(p)])
  BY <1>8
<1>11. i[D] = h[D]
  <2>1. PICK j : j = i
    OBVIOUS
  <2>2. Follows(j, h, n, k1)
    BY <1>10, <1>loop, <2>1 DEF Follows
  <2>3. j[1 .. n] = h[1 .. n]
    <3>1. n \in Nat /\ LoopOf(h, n, V, k1, g) /\ Follows(j, h, n, k1)
      BY <1>1, <1>6, <2>2
    <3> HIDE DEF D
    <3> QED BY ONLY <3>1, LoopUnique
  <2> QED BY <2>1, <2>3
<1>12. \A p \in SUBSET D : ResumedEach(k1, of(p), h[p])
  <2> DEFINE B == {p \in SUBSET D : ~ResumedEach(k1, of(p), h[p])}
  <2> SUFFICES ASSUME B # {} PROVE FALSE
    OBVIOUS
  <2>1. PICK p \in B : \A x \in p : p \ {x} \notin B
    <3>1. B \in SUBSET (SUBSET D) /\ IsFiniteSet(D)
      BY <1>1, FS_Interval DEF D
    <3> HIDE DEF B
    <3> QED BY <3>1, SmallestSubset
  <2>2. CASE p = {}
    <3>1. h[p] = k1 /\ of(p) = {}
      BY <1>loop, <2>2
    <3>2. k1.stat = [t \in Thread |-> k1.stat[t]]
      BY DEF KernelState
    <3> QED BY <2>1, <3>1, <3>2 DEF ResumedEach
  <2>3. CASE p # {}
    <3>1. PICK x : x = Max(p)
      OBVIOUS
    <3>2. /\ x \in p /\ x \in D /\ p \ {x} \in SUBSET D
          /\ h[p] = rt_thread_resume(h[p \ {x}], s[x])
      BY <1>loop, <2>1, <2>3, <3>1
    <3>3. ResumedEach(k1, of(p \ {x}), h[p \ {x}])
      BY <2>1, <3>2
    <3>4. of(p) = of(p \ {x}) \cup {s[x]} /\ of(p \ {x}) \in SUBSET Thread
      BY <1>2, <2>1, <3>2
    <3> HIDE DEF of
    <3>5. ResumedEach(k1, of(p \ {x}) \cup {s[x]}, rt_thread_resume(h[p \ {x}], s[x]))
      BY <1>2, <3>2, <3>3, <3>4, ResumeOneMore
    <3>6. ResumedEach(k1, of(p), h[p])
      BY <3>2, <3>4, <3>5
    <3> QED BY <2>1, <3>6
  <2> QED BY <2>2, <2>3
<1> QED BY <1>1, <1>9, <1>11, <1>12
-----------------------------------------------------------------------------
(* The work queue.                                                         *)

WorkSpec == WorkInit /\ [][WorkNext]_<<threads, work>>

\* Where the work thread and the others are.
WorkPlaces == {"test", "suspend", "w_sched", "take", "work", "pause", "paused",
               "clear", "ack", "run", "sched", "resume", "res_unlink",
               "res_insert", "synced"}

WorkerPlaces == {"test", "suspend", "w_sched", "take", "work", "pause",
                 "paused", "clear", "ack"}

WorkPC ==
  /\ pc \in [Thread -> WorkPlaces]
  /\ pc[Worker] \in WorkerPlaces

\* The running thread is ready; only the work thread suspends itself some steps
\* before it calls rt_schedule().
WorkRuns ==
  k.stat[k.cur] = "ready"
    \/ (k.cur = Worker /\ pc[Worker] \in {"w_sched", "pause"})

\* The list, and the work being done while the work thread is at it.
WorkLists ==
  /\ work_list \in Seq(Work) /\ IsInjective(work_list)
  /\ work_current \in Work \cup {Null}
  /\ awaited \in [Thread -> Work \cup {Null}] /\ wild \in BOOLEAN
  /\ work_current # Null <=> pc[Worker] \in {"work", "pause", "paused", "clear"}
  /\ work_current \notin ToSet(work_list)

\* Those who wait for a work wait for the one being done, until the work thread
\* tells them.
awaiting == ToSet(k.wait[Sem])

WorkAwaited ==
  \A t \in awaiting :
    pc[Worker] = "ack" \/ (work_current # Null /\ awaited[t] = work_current)

\* Nobody is in rt_workqueue_cancel_all_work.
WorkOpen ==
  /\ KernelSound /\ k.stat[Worker] # "init"
  /\ WorkPC /\ WorkRuns /\ WorkLists /\ WorkAwaited

\* The running client is, with the scheduler locked.
Cancelling == {"cancel_first", "cancel", "cancel_next", "cancel_unlink"}

WorkLocked ==
  /\ k \in KernelState /\ KInv(k) /\ k.nest = 1
  /\ k.stat[Idle] = "ready" /\ k.stat[Worker] # "init"
  /\ k.cur \in Client /\ k.stat[k.cur] = "ready"
  /\ pc \in [Thread -> WorkPlaces \cup Cancelling] /\ pc[k.cur] \in Cancelling
  /\ \A t \in Thread \ {k.cur} : pc[t] \in WorkPlaces
  /\ pc[Worker] \in WorkerPlaces
  /\ WorkLists /\ WorkAwaited

\* The local variables of rt_workqueue_cancel_all_work.
CancelTyped == node \in Work \cup {Null} /\ next \in Work \cup {Null}

WorkIInv == (WorkOpen \/ WorkLocked) /\ CancelTyped

LEMMA WorkFacts ==
  ASSUME WorkOpen
  PROVE  /\ k.cur \in Thread /\ k.stat \in [Thread -> Stat]
         /\ k.err \in [Thread -> Err] /\ Idle \in Thread
         /\ Worker \in Thread /\ Worker # Idle /\ Sem \in Queue
         /\ Null \notin Work /\ pc \in [Thread -> WorkPlaces]
         /\ awaiting \subseteq Thread
         /\ \A t \in awaiting : k.stat[t] = "suspend"
         /\ work_list \in Seq(Work) /\ ToSet(work_list) \subseteq Work
<1>1. KernelSound /\ WorkLists /\ WorkPC
  BY DEF WorkOpen
<1>2. work_list \in Seq(Work) /\ ToSet(work_list) \subseteq Work
  BY <1>1, ListElements DEF WorkLists
<1>3. pc \in [Thread -> WorkPlaces]
  BY <1>1 DEF WorkPC
<1> QED BY <1>1, <1>2, <1>3, KernelSoundFacts, WorkQueueAssumption DEF awaiting

LEMMA InitWork == WorkInit => WorkOpen /\ CancelTyped
<1> SUFFICES ASSUME WorkInit PROVE WorkOpen /\ CancelTyped
  OBVIOUS
<1>1. /\ InitPrio \in [Thread -> Prio] /\ Idle \in Thread /\ Worker \in Thread
      /\ Worker # Idle /\ Sem \in Queue /\ InitPrio[Worker] \in Prio
      /\ Null \notin Work
  BY DriversAssumption, KernelAssumption, WorkQueueAssumption
<1>2. PICK k0 : k0 = scheduler_started(InitPrio)
  OBVIOUS
<1>3. /\ k0 \in KernelState /\ KInv(k0) /\ k0.nest = 0
      /\ k0.stat = [t \in Thread |-> IF t = Idle THEN "ready" ELSE "init"]
      /\ k0.wait = [q \in Queue |-> << >>]
  BY ONLY <1>1, <1>2, StartedKernel
<1>prio. PICK p \in Prio : p = InitPrio[Worker]
  BY <1>1
<1>4. PICK k1 : k1 = rt_thread_startup(k0, Worker, p)
  OBVIOUS
<1>5. /\ k0 \in KernelState /\ KInv(k0) /\ Worker \in Thread
      /\ p \in Prio /\ k0.stat[Worker] = "init"
  BY <1>1, <1>3
<1>6. /\ k1 \in KernelState /\ KInv(k1) /\ k1.nest = 0
      /\ k1.stat = [k0.stat EXCEPT ![Worker] = "ready"]
      /\ k1.wait = k0.wait
  <2>1. /\ k1 \in KernelState /\ KInv(k1) /\ k1.nest = k0.nest
        /\ k1.stat = [k0.stat EXCEPT ![Worker] = "ready"]
        /\ k1.wait = k0.wait
    <3>1. Started(k0, Worker, p, k1)
      BY ONLY <1>4, <1>5, StartupStarts
    <3> QED BY ONLY <3>1 DEF Started
  <2> QED BY <1>3, <2>1
<1>7. k1.stat[Idle] = "ready"
  BY <1>1, <1>3, <1>6
<1>8. k = rt_schedule(k1)
  BY <1>2, <1>prio, <1>4 DEF WorkInit
<1>9. /\ k \in KernelState /\ KInv(k) /\ SameThreads(k1, k) /\ Settled(k)
  BY <1>6, <1>7, <1>8, AfterSchedule
<1>10. /\ KernelSound /\ k.stat[k.cur] = "ready" /\ k.stat[Worker] = "ready"
       /\ k.wait[Sem] = << >>
  BY <1>1, <1>3, <1>6, <1>7, <1>9 DEF KernelSound, SameThreads, Settled
<1>11. awaiting = {}
  BY <1>10 DEF awaiting, ToSet
<1>12. /\ << >> \in Seq(Work) /\ IsInjective(<< >>) /\ ToSet(<< >>) = {}
  BY DEF IsInjective, ToSet
<1>13. WorkLists
  BY <1>1, <1>12 DEF WorkLists, WorkInit
<1>14. WorkPC
  BY <1>1 DEF WorkPC, WorkPlaces, WorkerPlaces, WorkInit
<1>15. CancelTyped
  BY DEF CancelTyped, WorkInit
<1> QED BY <1>10, <1>11, <1>13, <1>14, <1>15 DEF WorkOpen, WorkRuns, WorkAwaited

\* The steps of the threads, and of rt_schedule().
LEMMA WorkThreads ==
  ASSUME WorkOpen, ThreadsNext, UNCHANGED work
  PROVE  WorkOpen'
<1> USE WorkFacts
<1>1. /\ work_list' = work_list /\ work_current' = work_current
      /\ awaited' = awaited /\ wild' = wild
  BY DEF work, queue
<1>2. ASSUME KernelSound', k'.stat[Worker] # "init", awaiting' \subseteq awaiting,
             k'.stat[k'.cur] = "ready",
             \/ pc' = pc
             \/ \E t \in Thread, p \in {"run", "sched"} :
                  pc[t] \in {"run", "sched"} /\ pc' = [pc EXCEPT ![t] = p]
      PROVE  WorkOpen'
  <2>1. pc'[Worker] = pc[Worker] /\ WorkPC'
    BY <1>2 DEF WorkOpen, WorkPC, WorkPlaces, WorkerPlaces
  <2>2. WorkLists'
    BY <1>1, <2>1 DEF WorkOpen, WorkLists
  <2>3. WorkAwaited'
    BY <1>1, <1>2, <2>1 DEF WorkOpen, WorkAwaited
  <2> QED BY <1>2, <2>1, <2>2, <2>3 DEF WorkOpen, WorkRuns
<1>3. ASSUME NEW t \in Thread, NEW new \in Thread, Startup(t, new)
      PROVE  WorkOpen'
  <2>1. /\ KernelSound' /\ k.cur = t /\ pc[t] = "run"
        /\ pc' = [pc EXCEPT ![t] = "sched"]
        /\ k'.stat = [k.stat EXCEPT ![new] = "ready"]
        /\ k'.wait = k.wait /\ k'.cur = k.cur
    BY <1>3, StartupMoves DEF WorkOpen, At, Go
  <2>2. t # Worker
    BY <2>1 DEF WorkOpen, WorkPC, WorkerPlaces
  <2>3. awaiting' = awaiting /\ k'.stat[k'.cur] = "ready" /\ k'.stat[Worker] # "init"
    BY <2>1, <2>2 DEF WorkOpen, WorkRuns, awaiting
  <2> QED BY <1>2, <2>1, <2>3
<1>4. ASSUME NEW t \in Thread, Schedule(t)
      PROVE  WorkOpen'
  <2>1. k' = rt_schedule(k) /\ pc[t] = "sched" /\ pc' = [pc EXCEPT ![t] = "run"]
    BY <1>4 DEF Schedule, At, Go
  <2>2. /\ KernelSound' /\ k'.stat[k'.cur] = "ready"
        /\ k'.stat = k.stat /\ k'.wait = k.wait
    BY <2>1, ScheduleMoves DEF WorkOpen, KernelSound
  <2>3. awaiting' = awaiting /\ k'.stat[Worker] # "init"
    BY <2>2 DEF awaiting, WorkOpen
  <2> QED BY <1>2, <2>1, <2>2, <2>3
<1>5. ASSUME NEW t \in Thread, TimerExpire(t)
      PROVE  WorkOpen'
  <2>1. /\ KernelSound' /\ pc' = pc /\ k'.stat[k'.cur] = "ready"
        /\ k'.stat = [k.stat EXCEPT ![t] = "ready"]
        /\ awaiting' = awaiting \ {t}
    BY <1>5, ExpireMoves DEF awaiting, WorkOpen
  <2>2. k'.stat[Worker] # "init"
    BY <2>1 DEF WorkOpen
  <2> QED BY <1>2, <2>1, <2>2
<1>6. ASSUME TickYield PROVE WorkOpen'
  <2>1. k' = rt_schedule(k) /\ pc' = pc
    BY <1>6 DEF TickYield
  <2>2. /\ KernelSound' /\ k'.stat[k'.cur] = "ready"
        /\ k'.stat = k.stat /\ k'.wait = k.wait
    BY <2>1, ScheduleMoves DEF WorkOpen, KernelSound
  <2>3. awaiting' = awaiting /\ k'.stat[Worker] # "init"
    BY <2>2 DEF awaiting, WorkOpen
  <2> QED BY <1>2, <2>1, <2>2, <2>3
<1> QED BY <1>3, <1>4, <1>5, <1>6 DEF ThreadsNext

\* What waking the work thread, or another one that sleeps, leaves alone.
WorkerKept(m) ==
  /\ m \in KernelState /\ KInv(m) /\ m.nest = k.nest /\ m.cur = k.cur
  /\ m.stat[Idle] = "ready" /\ m.stat[Worker] # "init"
  /\ k.cur # Worker => m.stat[k.cur] = k.stat[k.cur]
  /\ k.stat[Worker] = "ready" => m.stat[Worker] = "ready"
  /\ ToSet(m.wait[Sem]) \subseteq awaiting

\* rt_thread_resume of the work thread, whatever it does.
LEMMA WorkerResumed ==
  ASSUME k \in KernelState, KInv(k), k.stat[Idle] = "ready",
         k.stat[Worker] # "init",
         NEW m, m = rt_thread_resume(k, Worker)
  PROVE  WorkerKept(m)
<1>1. /\ Worker \in Thread /\ Sem \in Queue /\ k.stat \in [Thread -> Stat]
      /\ Idle \in Thread
  BY WorkQueueAssumption, KernelAssumption DEF KernelState
<1>2. CASE k.stat[Worker] = "suspend"
  <2>1. WokenUp(k, Worker, m)
    BY <1>1, <1>2, ResumeKeeps
  <2> QED BY <1>1, <1>2, <2>1 DEF WokenUp, awaiting, WorkerKept
<1>3. CASE k.stat[Worker] # "suspend"
  <2>1. m = k
    BY <1>3 DEF rt_thread_resume
  <2> QED BY <1>1, <2>1 DEF awaiting, WorkerKept
<1> QED BY <1>2, <1>3

\* rt_workqueue_dowork puts the work at the end of the list.
LEMMA WorkEnqueued ==
  ASSUME WorkLists, NEW w \in Work, work_current # w, enqueue(w)
  PROVE  /\ work_list' \in Seq(Work) /\ IsInjective(work_list')
         /\ work_current \notin ToSet(work_list')
<1>1. PICK s : s = Unlink(work_list, w)
  OBVIOUS
<1>2. s \in Seq(Work) /\ IsInjective(s) /\ ToSet(s) = ToSet(work_list) \ {w}
  BY <1>1, UnlinkProperties DEF WorkLists
<1>3. w \notin ToSet(s)
  BY <1>2
<1>4. work_list' = Append(s, w)
  BY <1>1 DEF enqueue
<1>5. /\ Append(s, w) \in Seq(Work) /\ IsInjective(Append(s, w))
      /\ ToSet(Append(s, w)) = ToSet(s) \cup {w}
  BY <1>2, <1>3, AppendDistinct
<1> QED BY <1>2, <1>4, <1>5 DEF WorkLists

\* A step that leaves the work thread where it is.
LEMMA WorkClientKeeps ==
  ASSUME WorkOpen, KernelSound', k'.stat[Worker] # "init",
         \/ k'.stat[k'.cur] = "ready"
         \/ k'.cur = k.cur /\ k'.stat[k.cur] = k.stat[k.cur],
         \/ pc' = pc
         \/ \E t \in Thread \ {Worker},
                p \in {"run", "sched", "resume", "res_unlink", "res_insert", "synced"} :
              pc' = [pc EXCEPT ![t] = p],
         work_list' \in Seq(Work), IsInjective(work_list'),
         work_current \notin ToSet(work_list'),
         work_current' = work_current, wild' \in BOOLEAN,
         awaited' \in [Thread -> Work \cup {Null}],
         \A t \in awaiting' : \/ t \in awaiting /\ awaited'[t] = awaited[t]
                              \/ work_current # Null /\ awaited'[t] = work_current
  PROVE  WorkOpen'
<1>p. pc \in [Thread -> WorkPlaces] /\ pc[Worker] \in WorkerPlaces
  BY DEF WorkOpen, WorkPC
<1>1. pc'[Worker] = pc[Worker] /\ WorkPC'
  <2>1. CASE pc' = pc
    BY <1>p, <2>1 DEF WorkPC
  <2>2. ASSUME NEW t \in Thread \ {Worker},
               NEW p \in {"run", "sched", "resume", "res_unlink", "res_insert", "synced"},
               pc' = [pc EXCEPT ![t] = p]
        PROVE  pc'[Worker] = pc[Worker] /\ WorkPC'
    <3>1. p \in WorkPlaces
      BY DEF WorkPlaces
    <3>2. pc' \in [Thread -> WorkPlaces] /\ pc'[Worker] = pc[Worker]
      BY <1>p, <2>2, <3>1
    <3> QED BY <1>p, <3>2 DEF WorkPC
  <2> QED BY <2>1, <2>2
<1> USE WorkFacts
<1>2. WorkLists'
  BY <1>1 DEF WorkOpen, WorkLists
<1>3. WorkAwaited'
  BY <1>1 DEF WorkOpen, WorkAwaited
<1>4. WorkRuns'
  BY <1>1 DEF WorkOpen, WorkRuns
<1> QED BY <1>1, <1>2, <1>3, <1>4 DEF WorkOpen

\* Nothing changes but the note that the links of a list went wrong.
LEMMA WorkGoneWild ==
  ASSUME WorkOpen, UNCHANGED <<threads, queue>>, wild' \in BOOLEAN
  PROVE  WorkOpen'
<1>1. /\ k' = k /\ pc' = pc /\ work_list' = work_list
      /\ work_current' = work_current /\ awaited' = awaited
  BY DEF threads, queue
<1> QED BY <1>1 DEF WorkOpen, KernelSound, WorkPC, WorkRuns, WorkLists,
                    WorkAwaited, awaiting

LEMMA WorkClients ==
  ASSUME WorkOpen, NEW t \in Client, ClientStep(t), ~CancelAll(t)
  PROVE  WorkOpen'
<1> USE WorkFacts
<1>t. t \in Thread /\ t # Worker /\ t # Idle
  BY DEF Client
<1>inv. KernelSound /\ WorkLists /\ WorkRuns /\ k.stat[Worker] # "init"
  BY DEF WorkOpen
<1>1. ASSUME NEW w \in Work, Dowork(t, w)
      PROVE  WorkOpen'
  <2>1. /\ work_current # w /\ enqueue(w) /\ k' = k
        /\ work_current' = work_current /\ awaited' = awaited /\ wild' = wild
        /\ \E p \in {"run", "resume"} : pc' = [pc EXCEPT ![t] = p]
    BY <1>1 DEF Dowork
  <2>2. /\ work_list' \in Seq(Work) /\ IsInjective(work_list')
        /\ work_current \notin ToSet(work_list')
    BY <1>inv, <2>1, WorkEnqueued
  <2>3. KernelSound' /\ awaiting' = awaiting
    BY <1>inv, <2>1 DEF KernelSound, awaiting
  <2> QED BY <1>t, <1>inv, <2>1, <2>2, <2>3, WorkClientKeeps DEF WorkLists
<1>2. ASSUME NEW p \in {"res_unlink", "res_insert", "sched"}, UNCHANGED queue,
             wild' = wild, k.cur = t, pc' = [pc EXCEPT ![t] = p], WorkerKept(k')
      PROVE  WorkOpen'
  <2>1. KernelSound' /\ awaiting' \subseteq awaiting /\ k'.stat[Worker] # "init"
    BY <1>inv, <1>2 DEF KernelSound, awaiting, WorkerKept
  <2>2. k'.cur = k.cur /\ k'.stat[k.cur] = k.stat[k.cur]
    BY <1>t, <1>2 DEF WorkerKept
  <2> QED BY <1>t, <1>inv, <1>2, <2>1, <2>2, WorkClientKeeps DEF queue, WorkLists
<1>7. CASE ResumeWorker(t)
  <2>1. /\ k.cur = t /\ k' = k /\ UNCHANGED queue /\ wild' = wild
        /\ \E p \in {"res_unlink", "sched"} : pc' = [pc EXCEPT ![t] = p]
    BY <1>7 DEF ResumeWorker, At, Go, work
  <2>2. WorkerKept(k')
    BY <1>inv, <2>1 DEF WorkerKept, KernelSound, awaiting
  <2> QED BY <1>2, <2>1, <2>2
<1>8. CASE UnlinkWorker(t)
  <2>1. /\ k.cur = t /\ UNCHANGED queue /\ wild' = wild
        /\ pc' = [pc EXCEPT ![t] = "res_insert"]
        /\ k' = rt_timer_stop(rt_list_remove(k, Worker), Worker)
        /\ k.stat[Worker] = "suspend"
    BY <1>8 DEF UnlinkWorker, At, Go, work, resume_unlink
  <2>2. MadeLoose(k, Worker, k')
    BY <1>inv, <2>1, LoosenKeeps DEF KernelSound
  <2>3. WorkerKept(k')
    BY <1>inv, <2>1, <2>2 DEF WorkerKept, MadeLoose, KernelSound, awaiting
  <2> QED BY <1>2, <2>1, <2>3
<1>9. CASE InsertWorker(t)
  <2>1. /\ k.cur = t /\ UNCHANGED queue /\ wild' = wild
        /\ pc' = [pc EXCEPT ![t] = "sched"]
        /\ k' = rt_schedule_insert_thread(k, Worker)
        /\ k.stat[Worker] = "suspend" /\ Worker \notin k.timer
        /\ Lone(k, Worker)
    BY <1>9 DEF InsertWorker, At, Go, work, Loosened, Lone
  <2>2. WokenUp(k, Worker, k')
    BY <1>inv, <2>1, InsertKeeps DEF KernelSound
  <2>3. WorkerKept(k')
    BY <1>inv, <2>1, <2>2 DEF WorkerKept, WokenUp, KernelSound, awaiting
  <2> QED BY <1>2, <2>1, <2>3
<1>10. CASE ResumeWorkerLate(t)
  BY <1>10, WorkGoneWild DEF ResumeWorkerLate
<1>11. CASE \/ CancelFirst(t) \/ CancelNext(t) \/ CancelUnlink(t)
            \/ CancelUnlinked(t) \/ CancelAllEnd(t)
  <2>1. pc[t] \in Cancelling
    BY <1>11 DEF CancelFirst, CancelNext, CancelUnlink, CancelUnlinked,
                 CancelAllEnd, At, Cancelling
  <2>2. pc[t] \in WorkPlaces
    BY <1>t
  <2> QED BY <2>1, <2>2 DEF Cancelling, WorkPlaces
<1>3. ASSUME NEW w \in Work, Cancel(t, w)
      PROVE  WorkOpen'
  <2>1. /\ work_list' = Unlink(work_list, w) /\ k' = k /\ pc' = pc
        /\ work_current' = work_current /\ awaited' = awaited /\ wild' = wild
    BY <1>3 DEF Cancel, threads
  <2>2. /\ work_list' \in Seq(Work) /\ IsInjective(work_list')
        /\ ToSet(work_list') = ToSet(work_list) \ {w}
    BY <1>inv, <2>1, UnlinkProperties DEF WorkLists
  <2>3. KernelSound' /\ awaiting' = awaiting
    BY <1>inv, <2>1 DEF KernelSound, awaiting
  <2> QED BY <1>inv, <2>1, <2>2, <2>3, WorkClientKeeps DEF WorkLists
<1>5. ASSUME NEW w \in Work, CancelSync(t, w)
      PROVE  WorkOpen'
  <2>1. PICK m : m = rt_ipc_list_suspend([k EXCEPT !.err[t] = "eok"], Sem, t, "fifo")
    OBVIOUS
  <2>2. /\ k.cur = t /\ work_current = w /\ k' = rt_schedule(m)
        /\ awaited' = [awaited EXCEPT ![t] = w]
        /\ pc' = [pc EXCEPT ![t] = "synced"]
        /\ work_list' = work_list /\ work_current' = work_current /\ wild' = wild
    BY <1>5, <2>1 DEF CancelSync, At
  <2>3. k.stat[t] = "ready"
    BY <1>t, <1>inv, <2>2 DEF WorkRuns
  <2>4. /\ m \in KernelState /\ KInv(m) /\ m.nest = 0 /\ m.stat[Idle] = "ready"
        /\ m.stat = [k.stat EXCEPT ![t] = "suspend"]
        /\ ToSet(m.wait[Sem]) = awaiting \cup {t}
    <3>1. /\ KernelSound /\ t \in Thread /\ Sem \in Queue
          /\ k.cur = t /\ k.stat[t] = "ready" /\ t # Idle
      BY <1>t, <1>inv, <2>2, <2>3
    <3>2. /\ m \in KernelState /\ KInv(m) /\ m.nest = 0 /\ m.stat[Idle] = "ready"
          /\ m.stat = [k.stat EXCEPT ![t] = "suspend"]
          /\ ToSet(m.wait[Sem]) = ToSet(k.wait[Sem]) \cup {t}
      <4>1. PICK q \in Queue : q = Sem
        BY <3>1
      <4>2. m = rt_ipc_list_suspend([k EXCEPT !.err[t] = "eok"], q, t, "fifo")
        BY <2>1, <4>1
      <4>3. /\ m \in KernelState /\ KInv(m) /\ m.nest = 0 /\ m.stat[Idle] = "ready"
            /\ m.stat = [k.stat EXCEPT ![t] = "suspend"]
            /\ m.cur = t /\ m.err = [k.err EXCEPT ![t] = "eok"]
            /\ ToSet(m.wait[q]) = ToSet(k.wait[q]) \cup {t}
            /\ \A x \in Queue \ {q} : m.wait[x] = k.wait[x]
        <5>1. /\ KernelSound /\ t \in Thread /\ q \in Queue
              /\ k.cur = t /\ k.stat[t] = "ready" /\ t # Idle
          BY <3>1
        <5> QED BY ONLY <4>2, <5>1, Suspended
      <4> QED BY <4>1, <4>3
    <3> QED BY ONLY <3>2 DEF awaiting
  <2>5. /\ KernelSound' /\ k'.stat[k'.cur] = "ready" /\ k'.stat = m.stat
        /\ k'.wait = m.wait
    BY <2>2, <2>4, ScheduleMoves
  <2>6. awaiting' = awaiting \cup {t} /\ k'.stat[Worker] # "init"
    BY <1>t, <1>inv, <2>4, <2>5 DEF awaiting
  <2>7. /\ awaited' \in [Thread -> Work \cup {Null}]
        /\ \A u \in awaiting' : \/ u \in awaiting /\ awaited'[u] = awaited[u]
                                \/ work_current # Null /\ awaited'[u] = work_current
    BY <1>t, <1>inv, <2>2, <2>6 DEF WorkLists
  <2> QED BY <1>t, <1>inv, <2>2, <2>5, <2>6, <2>7, WorkClientKeeps DEF WorkLists
<1>6. CASE CancelSyncReturn(t)
  <2>1. /\ k.cur = t /\ k' = k /\ awaited' = [awaited EXCEPT ![t] = Null]
        /\ pc' = [pc EXCEPT ![t] = "run"]
        /\ work_list' = work_list /\ work_current' = work_current /\ wild' = wild
    BY <1>6 DEF CancelSyncReturn, At
  <2>2. t \notin awaiting
    BY <1>t, <1>inv, <2>1 DEF WorkRuns
  <2>3. KernelSound' /\ awaiting' = awaiting
    BY <1>inv, <2>1 DEF KernelSound, awaiting
  <2>4. /\ awaited' \in [Thread -> Work \cup {Null}]
        /\ \A u \in awaiting' : u \in awaiting /\ awaited'[u] = awaited[u]
    BY <1>t, <1>inv, <2>1, <2>2, <2>3 DEF WorkLists
  <2> QED BY <1>t, <1>inv, <2>1, <2>3, <2>4, WorkClientKeeps DEF WorkLists
<1> QED BY <1>1, <1>3, <1>5, <1>6, <1>7, <1>8, <1>9, <1>10, <1>11
        DEF ClientStep

LEMMA WorkInterrupts ==
  ASSUME WorkOpen, NEW w \in Work, IsrDowork(w)
  PROVE  WorkOpen'
<1> USE WorkFacts
<1>1. /\ work_current # w /\ enqueue(w) /\ pc' = pc
      /\ work_current' = work_current /\ awaited' = awaited /\ wild' = wild
      /\ k' = k \/ k' = rt_schedule(rt_thread_resume(k, Worker))
  BY DEF IsrDowork
<1>2. /\ work_list' \in Seq(Work) /\ IsInjective(work_list')
      /\ work_current \notin ToSet(work_list')
  BY <1>1, WorkEnqueued DEF WorkOpen
<1>3. CASE k' = k
  <2>1. KernelSound' /\ awaiting' = awaiting /\ k'.stat[Worker] # "init"
    BY <1>3 DEF WorkOpen, KernelSound, awaiting
  <2> QED BY <1>1, <1>2, <1>3, <2>1, WorkClientKeeps DEF WorkOpen, WorkLists
<1>4. CASE k' = rt_schedule(rt_thread_resume(k, Worker))
  <2>1. PICK m : m = rt_thread_resume(k, Worker)
    OBVIOUS
  <2>2. /\ m \in KernelState /\ KInv(m) /\ m.nest = 0
        /\ m.stat[Idle] = "ready" /\ m.stat[Worker] # "init"
        /\ ToSet(m.wait[Sem]) \subseteq awaiting
    BY <2>1, WorkerResumed DEF WorkOpen, KernelSound, WorkerKept
  <2>3. k' = rt_schedule(m)
    BY <1>4, <2>1
  <2>4. /\ KernelSound' /\ k'.stat[k'.cur] = "ready" /\ k'.stat = m.stat
        /\ k'.wait = m.wait
    BY <2>2, <2>3, ScheduleMoves
  <2>5. awaiting' \subseteq awaiting /\ k'.stat[Worker] # "init"
    BY <2>2, <2>4 DEF awaiting
  <2> QED BY <1>1, <1>2, <2>4, <2>5, WorkClientKeeps DEF WorkOpen, WorkLists
<1> QED BY <1>1, <1>3, <1>4

\* A step of the work thread: it stays running, or rt_schedule() chose.
LEMMA WorkerStepKeeps ==
  ASSUME WorkOpen, KernelSound', k'.stat[Worker] # "init",
         NEW p \in {"test", "suspend", "w_sched", "take", "work", "pause",
                    "paused", "clear", "ack"},
         pc' = [pc EXCEPT ![Worker] = p],
         k'.stat[k'.cur] = "ready" \/ (k'.cur = Worker /\ p \in {"w_sched", "pause"}),
         awaiting' \subseteq awaiting, awaited' = awaited, wild' \in BOOLEAN,
         work_list' \in Seq(Work), IsInjective(work_list'),
         work_current' \in Work \cup {Null}, work_current' \notin ToSet(work_list'),
         work_current' # Null <=> p \in {"work", "pause", "paused", "clear"},
         p = "ack" \/ awaiting' = {}
           \/ (work_current # Null /\ work_current' = work_current)
           \/ pc[Worker] \notin {"work", "pause", "paused", "clear", "ack"},
         pc[Worker] = "ack" => awaiting' = {}
  PROVE  WorkOpen'
<1> USE WorkFacts
<1>1. pc'[Worker] = p /\ WorkPC'
  BY DEF WorkOpen, WorkPC, WorkPlaces, WorkerPlaces
<1>2. WorkLists'
  BY <1>1 DEF WorkOpen, WorkLists
<1>3. WorkAwaited'
  BY <1>1 DEF WorkOpen, WorkLists, WorkAwaited
<1>4. WorkRuns'
  BY <1>1 DEF WorkOpen, WorkRuns
<1> QED BY <1>1, <1>2, <1>3, <1>4 DEF WorkOpen
LEMMA WorkerSteps ==
  ASSUME WorkOpen, WorkerStep
  PROVE  WorkOpen'
<1> USE WorkFacts
<1>inv. KernelSound /\ WorkLists /\ WorkRuns /\ k.stat[Worker] # "init"
  BY DEF WorkOpen
<1>kept. k' = k => KernelSound' /\ awaiting' = awaiting /\ k'.stat[Worker] # "init"
  BY <1>inv DEF KernelSound, awaiting
<1>1. CASE WorkTest
  <2>1. PICK p \in {"suspend", "take"} : pc' = [pc EXCEPT ![Worker] = p]
    BY <1>1 DEF WorkTest, GoWorker, Go
  <2>2. k' = k /\ k.cur = Worker /\ pc[Worker] = "test" /\ UNCHANGED work
    BY <1>1 DEF WorkTest, AtWorker, At
  <2> QED BY <1>inv, <1>kept, <2>1, <2>2, WorkerStepKeeps DEF work, queue, WorkLists, WorkRuns
<1>2. CASE WorkSuspend
  <2>1. /\ k' = rt_thread_suspend(k, Worker) /\ k.cur = Worker
        /\ pc[Worker] = "suspend" /\ pc' = [pc EXCEPT ![Worker] = "w_sched"]
        /\ UNCHANGED work
    BY <1>2 DEF WorkSuspend, AtWorker, At, GoWorker, Go
  <2>2. k \in KernelState /\ KInv(k) /\ k.stat[k.cur] = "ready"
        /\ k' = rt_thread_suspend(k, k.cur)
    BY <1>inv, <2>1 DEF KernelSound, WorkRuns
  <2>3. /\ k' \in KernelState /\ KInv(k') /\ k'.stat = [k.stat EXCEPT ![k.cur] = "suspend"]
        /\ k'.wait = k.wait /\ k'.cur = k.cur /\ k'.nest = k.nest
    BY ONLY <2>2, SuspendKeeps
  <2>4. KernelSound' /\ awaiting' = awaiting /\ k'.stat[Worker] # "init"
        /\ k'.cur = Worker
    BY <1>inv, <2>1, <2>3 DEF KernelSound, awaiting
  <2> QED BY <1>inv, <2>1, <2>4, WorkerStepKeeps DEF work, queue, WorkLists
<1>3. CASE WorkSchedule \/ WorkPauseSchedule
  <2>1. /\ k' = rt_schedule(k) /\ UNCHANGED work
        /\ \/ pc[Worker] = "w_sched" /\ pc' = [pc EXCEPT ![Worker] = "take"]
           \/ pc[Worker] = "pause" /\ pc' = [pc EXCEPT ![Worker] = "paused"]
    BY <1>3 DEF WorkSchedule, WorkPauseSchedule, AtWorker, At, GoWorker, Go
  <2>2. /\ KernelSound' /\ k'.stat[k'.cur] = "ready"
        /\ k'.stat = k.stat /\ k'.wait = k.wait
    BY <1>inv, <2>1, ScheduleMoves DEF KernelSound
  <2>3. awaiting' = awaiting /\ k'.stat[Worker] # "init"
    BY <1>inv, <2>2 DEF awaiting
  <2> QED BY <1>inv, <2>1, <2>2, <2>3, WorkerStepKeeps DEF work, queue, WorkLists
<1>4. CASE WorkTake
  <2>1. k' = k /\ awaited' = awaited /\ k.cur = Worker /\ pc[Worker] = "take"
    BY <1>4 DEF WorkTake, AtWorker, At
  <2>2. work_current = Null /\ k.stat[k.cur] = "ready"
    BY <1>inv, <2>1 DEF WorkLists, WorkRuns
  <2>3. CASE work_list # << >>
    <3>1. /\ work_current' = Head(work_list) /\ work_list' = Tail(work_list)
          /\ pc' = [pc EXCEPT ![Worker] = "work"] /\ wild' = wild
      BY <1>4, <2>3 DEF WorkTake, GoWorker, Go
    <3>2. /\ work_list' \in Seq(Work) /\ IsInjective(work_list')
          /\ ToSet(work_list') = ToSet(work_list) \ {Head(work_list)}
      BY <1>inv, <2>3, <3>1, TailDistinct DEF WorkLists
    <3>3. work_current' \in Work
      BY <1>inv, <2>3, <3>1 DEF WorkLists
    <3> QED BY <1>inv, <1>kept, <2>1, <2>2, <3>1, <3>2, <3>3, WorkerStepKeeps
            DEF WorkLists
  <2>4. CASE work_list = << >>
    <3>1. wild' = TRUE /\ work_list' = work_list /\ work_current' = work_current
          /\ pc' = [pc EXCEPT ![Worker] = "take"]
      BY <1>4, <2>1, <2>4 DEF WorkTake
    <3> QED BY <1>inv, <1>kept, <2>1, <2>2, <3>1, WorkerStepKeeps DEF WorkLists
  <2> QED BY <2>3, <2>4
<1>5. CASE WorkPause
  <2>1. /\ k' = rt_thread_sleep(k, Worker) /\ k.cur = Worker
        /\ pc[Worker] = "work" /\ pc' = [pc EXCEPT ![Worker] = "pause"]
        /\ UNCHANGED work
    BY <1>5 DEF WorkPause, AtWorker, At, GoWorker, Go
  <2>2. k \in KernelState /\ KInv(k) /\ k.stat[k.cur] = "ready"
        /\ k' = rt_thread_sleep(k, k.cur)
    BY <1>inv, <2>1 DEF KernelSound, WorkRuns
  <2>3. /\ k' \in KernelState /\ KInv(k') /\ k'.stat = [k.stat EXCEPT ![k.cur] = "suspend"]
        /\ k'.wait = k.wait /\ k'.cur = k.cur /\ k'.nest = k.nest
    BY ONLY <2>2, SleepKeeps
  <2>4. KernelSound' /\ awaiting' = awaiting /\ k'.stat[Worker] # "init"
        /\ k'.cur = Worker
    BY <1>inv, <2>1, <2>3 DEF KernelSound, awaiting
  <2>5. work_current # Null /\ work_current' = work_current
    BY <1>inv, <2>1 DEF work, queue, WorkLists
  <2> QED BY <1>inv, <2>1, <2>4, <2>5, WorkerStepKeeps DEF work, queue, WorkLists
<1>6. CASE WorkReturn
  <2>1. /\ k' = k /\ k.cur = Worker /\ pc[Worker] \in {"work", "paused"}
        /\ pc' = [pc EXCEPT ![Worker] = "clear"] /\ UNCHANGED work
    BY <1>6 DEF WorkReturn, GoWorker, Go
  <2>2. work_current # Null /\ k.stat[k.cur] = "ready"
    BY <1>inv, <2>1 DEF WorkLists, WorkRuns
  <2> QED BY <1>inv, <1>kept, <2>1, <2>2, WorkerStepKeeps DEF work, queue, WorkLists
<1>7. CASE WorkClear
  <2>1. /\ k' = k /\ k.cur = Worker /\ pc[Worker] = "clear"
        /\ pc' = [pc EXCEPT ![Worker] = "ack"] /\ work_current' = Null
        /\ work_list' = work_list /\ awaited' = awaited /\ wild' = wild
    BY <1>7 DEF WorkClear, AtWorker, At, GoWorker, Go
  <2>2. k.stat[k.cur] = "ready" /\ work_current' \notin ToSet(work_list')
    BY <1>inv, <2>1 DEF WorkRuns
  <2> QED BY <1>inv, <1>kept, <2>1, <2>2, WorkerStepKeeps DEF WorkLists
<1>8. CASE WorkAck
  <2>1. PICK s : s = k.wait[Sem]
    OBVIOUS
  <2>2. PICK m : m = resumed_each(k, s)
    OBVIOUS
  <2>3. /\ k' = rt_schedule(m) /\ pc[Worker] = "ack"
        /\ pc' = [pc EXCEPT ![Worker] = "test"] /\ UNCHANGED work
    BY <1>8, <2>1, <2>2, Zenon DEF WorkAck, AtWorker, At, GoWorker, Go, resumed_each
  <2>4. ResumedEach(k, ToSet(s), m)
    <3>1. k \in KernelState /\ KInv(k) /\ s \in Seq(Thread)
      BY <1>inv, <2>1, KernelSoundFacts
    <3>2. ResumedEach(k, ToSet(s), resumed_each(k, s))
      BY ONLY <3>1, ResumeEach
    <3> QED BY <2>2, <3>2
  <2>5. /\ m \in KernelState /\ KInv(m) /\ m.nest = 0 /\ m.stat[Idle] = "ready"
        /\ m.stat[Worker] # "init" /\ ToSet(m.wait[Sem]) = {}
    BY <1>inv, <2>1, <2>4 DEF ResumedEach, KernelSound
  <2>6. /\ KernelSound' /\ k'.stat[k'.cur] = "ready" /\ k'.stat = m.stat
        /\ k'.wait = m.wait
    BY <2>3, <2>5, ScheduleMoves
  <2>7. awaiting' = {} /\ k'.stat[Worker] # "init"
    BY <2>5, <2>6 DEF awaiting
  <2>8. work_current = Null
    BY <1>inv, <2>3 DEF WorkLists
  <2> QED BY <1>inv, <2>3, <2>6, <2>7, <2>8, WorkerStepKeeps DEF work, queue, WorkLists
<1> QED BY <1>1, <1>2, <1>3, <1>4, <1>5, <1>6, <1>7, <1>8 DEF WorkerStep

-----------------------------------------------------------------------------
(* rt_workqueue_cancel_all_work, with the scheduler locked.                *)

LEMMA LockedFacts ==
  ASSUME WorkLocked
  PROVE  /\ k.cur \in Thread /\ k.cur # Worker /\ k.cur # Idle
         /\ k.stat \in [Thread -> Stat] /\ k.timer \subseteq Thread
         /\ Idle \in Thread /\ Worker \in Thread /\ Sem \in Queue
         /\ awaiting \subseteq Thread
<1>1. k.cur \in Thread /\ k.cur # Worker /\ k.cur # Idle
  BY DEF WorkLocked, Client
<1>2. /\ k.stat \in [Thread -> Stat] /\ k.wait \in [Queue -> Seq(Thread)]
      /\ k.timer \subseteq Thread
  BY DEF WorkLocked, KernelState
<1>3. Idle \in Thread /\ Worker \in Thread /\ Sem \in Queue
  BY WorkQueueAssumption, KernelAssumption
<1>4. awaiting \subseteq Thread
  BY <1>2, <1>3, ListElements DEF awaiting
<1> QED BY <1>1, <1>2, <1>3, <1>4

\* The running client stays in the loop.
LEMMA LockedKeeps ==
  ASSUME WorkLocked, WorkerKept(k'),
         \/ pc' = pc
         \/ \E p \in Cancelling : pc' = [pc EXCEPT ![k.cur] = p],
         work_list' \in Seq(Work), IsInjective(work_list'),
         work_current \notin ToSet(work_list'),
         work_current' = work_current, awaited' = awaited, wild' \in BOOLEAN
  PROVE  WorkLocked'
<1> USE LockedFacts
<1>1. /\ k' \in KernelState /\ KInv(k') /\ k'.nest = 1 /\ k'.cur = k.cur
      /\ k'.stat[Idle] = "ready" /\ k'.stat[Worker] # "init"
      /\ k'.stat[k.cur] = "ready" /\ awaiting' \subseteq awaiting
  BY DEF WorkLocked, WorkerKept, awaiting
<1>2. pc \in [Thread -> WorkPlaces \cup Cancelling]
  BY DEF WorkLocked
<1>3. /\ pc' \in [Thread -> WorkPlaces \cup Cancelling]
      /\ \A t \in Thread \ {k.cur} : pc'[t] = pc[t]
      /\ pc'[k.cur] \in Cancelling
  BY <1>2 DEF WorkLocked
<1>4. WorkLists'
  BY <1>3 DEF WorkLocked, WorkLists
<1>5. WorkAwaited'
  BY <1>1, <1>3 DEF WorkLocked, WorkAwaited
<1> QED BY <1>1, <1>3, <1>4, <1>5 DEF WorkLocked

\* The scheduler lock is no part of the lists.
LEMMA NestKeeps ==
  ASSUME NEW k1 \in KernelState, KInv(k1), NEW n \in Nat,
         NEW r, r = [k1 EXCEPT !.nest = n]
  PROVE  /\ r \in KernelState /\ KInv(r) /\ r.nest = n /\ r.cur = k1.cur
         /\ r.stat = k1.stat /\ r.wait = k1.wait
<1>1. /\ r \in KernelState /\ r.nest = n /\ r.cur = k1.cur
      /\ r.stat = k1.stat /\ r.wait = k1.wait /\ r.ready = k1.ready
      /\ r.prio = k1.prio /\ r.group = k1.group /\ r.timer = k1.timer
  BY DEF KernelState
<1>2. KInv(r)
  BY <1>1 DEF KInv, NoDuplicates, ReadyTable, WaitLists, Bitmap,
              TimersOfSuspended
<1> QED BY <1>1, <1>2

\* rt_enter_critical
LEMMA LockBegins ==
  ASSUME WorkOpen, NEW t \in Client, CancelAll(t)
  PROVE  WorkLocked'
<1> USE WorkFacts
<1>1. /\ k.cur = t /\ pc[t] = "run" /\ k' = [k EXCEPT !.nest = @ + 1]
      /\ pc' = [pc EXCEPT ![t] = "cancel_first"]
      /\ work_list' = work_list /\ work_current' = work_current
      /\ awaited' = awaited /\ wild' = wild
  BY DEF CancelAll, At, Go, work, queue
<1>2. t \in Thread /\ t # Worker
  BY DEF Client
<1>3. k.nest = 0 /\ k \in KernelState /\ KInv(k) /\ k.stat[Idle] = "ready"
  BY DEF WorkOpen, KernelSound
<1>4. /\ k' \in KernelState /\ k'.nest = 1 /\ k'.cur = k.cur
      /\ k'.stat = k.stat /\ k'.wait = k.wait /\ KInv(k')
  <2>1. k' = [k EXCEPT !.nest = 1]
    BY <1>1, <1>3
  <2> QED BY ONLY <1>3, <2>1, NestKeeps
<1>6. /\ pc' \in [Thread -> WorkPlaces \cup Cancelling]
      /\ pc'[t] \in Cancelling
      /\ \A u \in Thread \ {t} : pc'[u] = pc[u]
  BY <1>1, <1>2 DEF Cancelling
<1>7. k.stat[t] = "ready"
  BY <1>1, <1>2 DEF WorkOpen, WorkRuns
<1>8. WorkLists' /\ WorkAwaited'
  BY <1>1, <1>2, <1>4, <1>6 DEF WorkOpen, WorkLists, WorkAwaited, awaiting
<1> QED BY <1>1, <1>2, <1>3, <1>4, <1>6, <1>7, <1>8
        DEF WorkOpen, WorkPC, WorkLocked

\* The kernel stays as it is.
LEMMA WorkerAsIs == (WorkOpen \/ WorkLocked) /\ k' = k => WorkerKept(k')
BY DEF WorkOpen, WorkLocked, KernelSound, WorkerKept, awaiting

\* A turn of the loop.
LEMMA LockTurns ==
  ASSUME WorkLocked, NEW t \in Client,
         CancelFirst(t) \/ CancelNext(t) \/ CancelUnlink(t) \/ CancelUnlinked(t)
  PROVE  WorkLocked'
<1>1. /\ k.cur = t /\ k' = k /\ awaited' = awaited /\ wild' = wild
      /\ \E p \in Cancelling : pc' = [pc EXCEPT ![t] = p]
      /\ work_current' = work_current
      /\ work_list' = work_list \/ work_list' = Unlink(work_list, node)
  BY DEF CancelFirst, CancelNext, CancelUnlink, CancelUnlinked, At, Go, work,
         queue, Cancelling
<1>2. /\ work_list \in Seq(Work) /\ IsInjective(work_list)
      /\ work_current \notin ToSet(work_list) /\ wild \in BOOLEAN
  BY DEF WorkLocked, WorkLists
<1>3. /\ work_list' \in Seq(Work) /\ IsInjective(work_list')
      /\ work_current \notin ToSet(work_list')
  BY <1>1, <1>2, UnlinkProperties
<1> QED BY <1>1, <1>2, <1>3, WorkerAsIs, LockedKeeps

\* rt_exit_critical
LEMMA LockEnds ==
  ASSUME WorkLocked, NEW t \in Client, CancelAllEnd(t)
  PROVE  WorkOpen'
<1> USE LockedFacts
<1>1. /\ k.cur = t /\ k' = [k EXCEPT !.nest = @ - 1]
      /\ pc' = [pc EXCEPT ![t] = "sched"]
      /\ work_list' = work_list /\ work_current' = work_current
      /\ awaited' = awaited /\ wild' = wild
  BY DEF CancelAllEnd, At, Go
<1>2. k.nest = 1 /\ k \in KernelState /\ KInv(k) /\ k.stat[Idle] = "ready"
      /\ k.stat[t] = "ready" /\ k.stat[Worker] # "init"
  BY <1>1 DEF WorkLocked
<1>3. /\ k' \in KernelState /\ k'.nest = 0 /\ k'.cur = k.cur
      /\ k'.stat = k.stat /\ k'.wait = k.wait /\ KInv(k')
  <2>1. k' = [k EXCEPT !.nest = 0]
    BY <1>1, <1>2
  <2> QED BY ONLY <1>2, <2>1, NestKeeps
<1>5. pc \in [Thread -> WorkPlaces \cup Cancelling] /\ "sched" \in WorkPlaces
  BY DEF WorkLocked, WorkPlaces
<1>6. /\ pc'[t] \in WorkPlaces
      /\ \A u \in Thread \ {t} : pc'[u] = pc[u] /\ pc'[u] \in WorkPlaces
  BY <1>1, <1>5 DEF WorkLocked
<1>7. pc' \in [Thread -> WorkPlaces]
  BY <1>1, <1>5, <1>6
<1>8. WorkPC'
  BY <1>1, <1>6, <1>7 DEF WorkLocked, WorkPC
<1>9. WorkLists' /\ WorkAwaited'
  BY <1>1, <1>3, <1>6 DEF WorkLocked, WorkLists, WorkAwaited, awaiting
<1> QED BY <1>1, <1>2, <1>3, <1>8, <1>9 DEF WorkOpen, KernelSound, WorkRuns

\* A handler, a timer or the tick come in, and nothing is scheduled.
LEMMA LockedInterrupts ==
  ASSUME WorkLocked, NEW w \in Work, IsrDowork(w)
  PROVE  WorkLocked'
<1>1. /\ work_current # w /\ enqueue(w) /\ pc' = pc
      /\ work_current' = work_current /\ awaited' = awaited /\ wild' = wild
      /\ k' = k \/ k' = rt_schedule(rt_thread_resume(k, Worker))
  BY DEF IsrDowork
<1>2. /\ work_list' \in Seq(Work) /\ IsInjective(work_list')
      /\ work_current \notin ToSet(work_list') /\ wild \in BOOLEAN
  BY <1>1, WorkEnqueued DEF WorkLocked, WorkLists
<1>3. WorkerKept(k')
  <2>1. CASE k' = k
    BY <2>1, WorkerAsIs
  <2>2. CASE k' = rt_schedule(rt_thread_resume(k, Worker))
    <3>1. PICK m : m = rt_thread_resume(k, Worker)
      OBVIOUS
    <3>2. WorkerKept(m)
      BY <3>1, WorkerResumed DEF WorkLocked
    <3>3. m.nest # 0
      BY <3>2 DEF WorkerKept, WorkLocked
    <3>4. k' = m
      BY <2>2, <3>1, <3>3 DEF rt_schedule
    <3> QED BY <3>2, <3>4
  <2> QED BY <1>1, <2>1, <2>2
<1> QED BY <1>1, <1>2, <1>3, LockedKeeps

LEMMA LockedThreads ==
  ASSUME WorkLocked, ThreadsNext, UNCHANGED work
  PROVE  WorkLocked'
<1> USE LockedFacts
<1>1. /\ work_list' = work_list /\ work_current' = work_current
      /\ awaited' = awaited /\ wild' = wild
      /\ work_list \in Seq(Work) /\ IsInjective(work_list)
      /\ work_current \notin ToSet(work_list) /\ wild \in BOOLEAN
  BY DEF work, queue, WorkLocked, WorkLists
<1>2. ASSUME WorkerKept(k'), pc' = pc PROVE WorkLocked'
  BY <1>1, <1>2, LockedKeeps
<1>3. k.nest # 0 /\ pc[k.cur] \notin {"run", "sched"}
  BY DEF WorkLocked, Cancelling
<1>4. ASSUME NEW t \in Thread, (\E new \in Thread : Startup(t, new)) \/ Schedule(t)
      PROVE  FALSE
  BY <1>3, <1>4 DEF Startup, Schedule, At
<1>5. CASE TickYield
  <2>1. k' = k /\ pc' = pc
    BY <1>3, <1>5 DEF TickYield, rt_schedule
  <2> QED BY <1>2, <2>1, WorkerAsIs
<1>6. ASSUME NEW t \in Thread, TimerExpire(t)
      PROVE  WorkLocked'
  <2>1. PICK e : e = [k EXCEPT !.err[t] = "etimeout"]
    OBVIOUS
  <2>2. PICK m : m = timed_out(k, t)
    OBVIOUS
  <2>3. k \in KernelState /\ KInv(k) /\ t \in k.timer
        /\ k' = rt_thread_timeout(k, t) /\ pc' = pc
    BY <1>6 DEF TimerExpire, WorkLocked
  <2>4. k.stat[t] = "suspend" /\ k' = rt_schedule(m) /\ WokenUp(e, t, m)
    BY <2>1, <2>2, <2>3, TimeoutKeeps
  <2>5. /\ e.stat = k.stat /\ e.wait = k.wait /\ e.cur = k.cur
        /\ e.nest = k.nest
    BY <2>1, <2>3 DEF KernelState
  <2>6. WorkerKept(m)
    <3>1. /\ m \in KernelState /\ KInv(m) /\ m.nest = k.nest /\ m.cur = k.cur
          /\ m.stat = [k.stat EXCEPT ![t] = "ready"]
          /\ \A q \in Queue : ToSet(m.wait[q]) = ToSet(k.wait[q]) \ {t}
      BY <2>4, <2>5 DEF WokenUp
    <3> QED BY <2>4, <3>1 DEF WorkerKept, WorkLocked, awaiting
  <2>7. m.nest # 0
    BY <1>3, <2>6 DEF WorkerKept
  <2>8. k' = m
    BY <2>4, <2>7 DEF rt_schedule
  <2> QED BY <1>2, <2>3, <2>6, <2>8
<1> QED BY <1>4, <1>5, <1>6 DEF ThreadsNext

\* No other thread does anything.
LEMMA LockedAlone ==
  ASSUME WorkLocked
  PROVE  /\ ~WorkerStep
         /\ \A t \in Client : ClientStep(t) =>
              \/ CancelFirst(t) \/ CancelNext(t) \/ CancelUnlink(t)
              \/ CancelUnlinked(t) \/ CancelAllEnd(t)
<1> USE LockedFacts
<1>1. k.cur # Worker /\ pc[k.cur] \in Cancelling
  BY DEF WorkLocked
<1>2. ~WorkerStep
  <2>1. ~WorkAck
    BY <1>1, Zenon DEF WorkAck, AtWorker, At
  <2> QED BY <1>1, <2>1 DEF WorkerStep, WorkTest, WorkSuspend, WorkSchedule,
          WorkTake, WorkPause, WorkPauseSchedule, WorkReturn, WorkClear, AtWorker, At
<1>3. pc[k.cur] \notin {"run", "resume", "res_unlink", "res_insert", "synced"}
  BY <1>1 DEF Cancelling
<1> QED BY <1>2, <1>3 DEF ClientStep, Dowork, Cancel, CancelSync, ResumeWorker,
           UnlinkWorker, InsertWorker, ResumeWorkerLate, CancelAll,
           CancelSyncReturn, At

LEMMA CancelKeeps ==
  ASSUME WorkIInv, [WorkNext]_<<threads, work>>
  PROVE  CancelTyped'
<1>1. CancelTyped /\ work_list \in Seq(Work)
  BY DEF WorkIInv, WorkOpen, WorkLocked, WorkLists
<1>2. ASSUME UNCHANGED cancel PROVE CancelTyped'
  BY <1>1, <1>2 DEF cancel, CancelTyped
<1>3. ASSUME UNCHANGED queue PROVE UNCHANGED cancel
  BY <1>3 DEF queue
<1>4. ASSUME UNCHANGED work PROVE UNCHANGED cancel
  BY <1>3, <1>4 DEF work
<1>5. ASSUME NEW t \in Client, ClientStep(t) PROVE CancelTyped'
  <2>1. CASE CancelFirst(t)
    BY <1>1, <2>1 DEF CancelFirst, CancelTyped
  <2>2. CASE CancelNext(t)
    <3>1. following(node) \in Work \cup {Null}
      BY <1>1 DEF following
    <3> QED BY <1>1, <2>2, <3>1 DEF CancelNext, CancelTyped
  <2>3. CASE CancelUnlinked(t)
    BY <1>1, <2>3 DEF CancelUnlinked, CancelTyped
  <2>4. CASE CancelAllEnd(t)
    BY <1>1, <2>4 DEF CancelAllEnd, CancelTyped
  <2>5. CASE \E w \in Work : Dowork(t, w) \/ Cancel(t, w) \/ CancelSync(t, w)
    BY <1>2, <2>5 DEF Dowork, Cancel, CancelSync
  <2>6. CASE ResumeWorker(t) \/ UnlinkWorker(t) \/ InsertWorker(t)
               \/ ResumeWorkerLate(t)
    BY <1>2, <1>3, <1>4, <2>6 DEF ResumeWorker, UnlinkWorker, InsertWorker,
                                  ResumeWorkerLate
  <2>7. CASE CancelAll(t) \/ CancelUnlink(t) \/ CancelSyncReturn(t)
    BY <1>2, <1>4, <2>7 DEF CancelAll, CancelUnlink, CancelSyncReturn
  <2> QED BY <1>5, <2>1, <2>2, <2>3, <2>4, <2>5, <2>6, <2>7 DEF ClientStep
<1>6. CASE WorkerStep
  <2>1. CASE WorkAck
    BY <1>2, <1>4, <2>1, Zenon DEF WorkAck
  <2> QED BY <1>2, <1>4, <1>6, <2>1 DEF WorkerStep, WorkTest, WorkSuspend,
          WorkSchedule, WorkTake, WorkPause, WorkPauseSchedule, WorkReturn, WorkClear
<1>7. ASSUME NEW w \in Work, IsrDowork(w) \/ IsrMeetsUnlink(w) PROVE CancelTyped'
  BY <1>2, <1>3, <1>7 DEF IsrDowork, IsrMeetsUnlink
<1>8. CASE UNCHANGED work
  BY <1>2, <1>4, <1>8
<1> QED BY <1>5, <1>6, <1>7, <1>8 DEF WorkNext

LEMMA WorkKeeps == WorkIInv /\ [WorkNext]_<<threads, work>> => WorkIInv'
<1> SUFFICES ASSUME WorkIInv, [WorkNext]_<<threads, work>> PROVE WorkIInv'
  OBVIOUS
<1>1. CancelTyped'
  BY CancelKeeps
<1>2. CASE UNCHANGED threads /\ UNCHANGED queue /\ wild' \in BOOLEAN
  <2>1. CASE WorkOpen
    BY <1>1, <1>2, <2>1, WorkGoneWild DEF WorkIInv
  <2>2. CASE WorkLocked
    <3>1. /\ k' = k /\ pc' = pc /\ work_list' = work_list
          /\ work_current' = work_current /\ awaited' = awaited
      BY <1>2 DEF threads, queue
    <3> QED BY <1>1, <1>2, <2>2, <3>1, WorkerAsIs, LockedKeeps
            DEF WorkIInv, WorkLocked, WorkLists
  <2> QED BY <2>1, <2>2 DEF WorkIInv
<1>3. CASE UNCHANGED <<threads, work>>
  <2>1. wild \in BOOLEAN
    BY DEF WorkIInv, WorkOpen, WorkLocked, WorkLists
  <2> QED BY <1>2, <1>3, <2>1 DEF work
<1>4. CASE WorkOpen /\ WorkNext
  <2>1. ASSUME NEW t \in Client, ClientStep(t) PROVE WorkIInv'
    BY <1>1, <1>4, <2>1, WorkClients, LockBegins DEF WorkIInv
  <2>2. CASE WorkerStep
    BY <1>1, <1>4, <2>2, WorkerSteps DEF WorkIInv
  <2>3. ASSUME NEW w \in Work, IsrDowork(w) PROVE WorkIInv'
    BY <1>1, <1>4, <2>3, WorkInterrupts DEF WorkIInv
  <2>4. ASSUME NEW w \in Work, IsrMeetsUnlink(w) PROVE WorkIInv'
    BY <1>2, <2>4 DEF IsrMeetsUnlink
  <2>5. CASE ThreadsNext /\ UNCHANGED work
    BY <1>1, <1>4, <2>5, WorkThreads DEF WorkIInv
  <2> QED BY <1>4, <2>1, <2>2, <2>3, <2>4, <2>5 DEF WorkNext
<1>5. CASE WorkLocked /\ WorkNext
  <2>1. ASSUME NEW t \in Client, ClientStep(t) PROVE WorkIInv'
    BY <1>1, <1>5, <2>1, LockedAlone, LockTurns, LockEnds DEF WorkIInv
  <2>2. ~WorkerStep
    BY <1>5, LockedAlone
  <2>3. ASSUME NEW w \in Work, IsrDowork(w) PROVE WorkIInv'
    BY <1>1, <1>5, <2>3, LockedInterrupts DEF WorkIInv
  <2>4. ASSUME NEW w \in Work, IsrMeetsUnlink(w) PROVE WorkIInv'
    BY <1>2, <2>4 DEF IsrMeetsUnlink
  <2>5. CASE ThreadsNext /\ UNCHANGED work
    BY <1>1, <1>5, <2>5, LockedThreads DEF WorkIInv
  <2> QED BY <1>5, <2>1, <2>2, <2>3, <2>4, <2>5 DEF WorkNext
<1> QED BY <1>3, <1>4, <1>5 DEF WorkIInv

\* Whoever sleeps in rt_workqueue_cancel_work_sync waits for the work that is
\* being done, or is about to be told: the tokens that
\* _workqueue_work_completion releases reach everybody, so that nobody is left
\* to wait for a work that was done long ago; and the work being done is never
\* in the list as well.
THEOREM WorkAwaitsCurrent == WorkSpec => []AwaitsCurrent
<1>1. WorkIInv => AwaitsCurrent
  <2> SUFFICES ASSUME WorkIInv PROVE AwaitsCurrent
    OBVIOUS
  <2>1. k \in KernelState /\ KInv(k) /\ WorkLists /\ WorkAwaited /\ CancelTyped
    BY DEF WorkIInv, WorkOpen, WorkLocked, KernelSound
  <2> QED BY <2>1 DEF AwaitsCurrent, WorkTypeOK, WorkLists, WorkAwaited, awaiting,
                      CancelTyped
<1>2. WorkInit => WorkIInv
  BY InitWork DEF WorkIInv
<1> QED BY <1>1, <1>2, WorkKeeps, PTL DEF WorkSpec

-----------------------------------------------------------------------------
(* The receive ring of a serial device.                                    *)

RxRecord ==
  [buffer : [Index -> Stamp], get_index : Index, put_index : Index,
   is_full : BOOLEAN]

\* How many bytes the ring r holds.
Unread(r) == (r.put_index - r.get_index) % Bufsz

\* The bytes in front of the put index are the latest, s is the number of the next.
HoldsUpTo(r, s) ==
  /\ r \in RxRecord /\ s \in Stamp
  /\ r.is_full => Unread(r) = Bufsz - 1
  /\ \A j \in 1 .. Unread(r) :
       r.buffer[(r.put_index - j) % Bufsz] = (s - j) % StampMod

LEMMA SerialNumbers ==
  /\ Bufsz \in Nat \ {0} /\ StampMod \in Nat \ {0} /\ Bufsz >= 2
  /\ StampMod >= Bufsz /\ Count \in Nat /\ Count >= 1
  /\ \A x \in Int : x % StampMod \in Stamp /\ x % Bufsz \in Index
  /\ \A i \in Index : /\ i \in 0 .. (Bufsz - 1) /\ next_index(i) \in Index
                      /\ next_index(i) = (i + 1) % Bufsz
<1>1. /\ Bufsz \in Nat \ {0} /\ StampMod \in Nat \ {0} /\ Bufsz >= 2
      /\ StampMod >= Bufsz /\ Count \in Nat /\ Count >= 1
  BY SerialAssumption
<1>2. ASSUME NEW i \in Index
      PROVE  /\ i \in 0 .. (Bufsz - 1) /\ next_index(i) \in Index
             /\ next_index(i) = (i + 1) % Bufsz
  <2>1. i \in 0 .. (Bufsz - 1) /\ 1 \in 0 .. Bufsz
    BY <1>1 DEF Index
  <2>2. (i + 1) % Bufsz = IF i + 1 < Bufsz THEN i + 1 ELSE i + 1 - Bufsz
    BY ONLY <1>1, <2>1, Around
  <2> QED BY <1>1, <2>1, <2>2 DEF next_index, Index
<1> QED BY <1>1, <1>2 DEF Stamp, Index

\* One byte more: the oldest gives way when the ring is full.
LEMMA Stored ==
  ASSUME NEW r, NEW s, HoldsUpTo(r, s)
  PROVE  HoldsUpTo(store(r, s), (s + 1) % StampMod)
<1> USE SerialNumbers
<1> DEFINE B == Bufsz
           p == r.put_index
           g == r.get_index
           n == Unread(r)
           q == next_index(p)
           h == IF q = g THEN next_index(g) ELSE g
           b == [r.buffer EXCEPT ![p] = s]
           f == (r.is_full \/ q = g)
           x == store(r, s)
<1>1. /\ r \in RxRecord /\ s \in Stamp /\ p \in Index /\ g \in Index
      /\ r.buffer \in [Index -> Stamp] /\ r.is_full \in BOOLEAN
      /\ q \in Index /\ h \in Index /\ b \in [Index -> Stamp] /\ f \in BOOLEAN
      /\ r.is_full => n = B - 1
      /\ \A j \in 1 .. n : r.buffer[(p - j) % B] = (s - j) % StampMod
  BY DEF HoldsUpTo, RxRecord
<1>2. /\ x.buffer = b /\ x.put_index = q /\ x.get_index = h /\ x.is_full = f
      /\ x \in RxRecord
  BY <1>1 DEF store, RxRecord
<1>3. /\ B \in Nat \ {0} /\ B >= 2 /\ StampMod \in Nat \ {0} /\ StampMod >= B
      /\ p \in 0 .. (B - 1) /\ g \in 0 .. (B - 1) /\ q \in 0 .. (B - 1)
      /\ h \in 0 .. (B - 1) /\ s \in 0 .. (StampMod - 1)
  BY <1>1 DEF Stamp
<1>4. n = (p - g) % B /\ Unread(x) = (q - h) % B
  BY <1>2 DEF Unread
<1>5. /\ q = IF p + 1 < B THEN p + 1 ELSE p + 1 - B
      /\ h = IF q = g THEN IF g + 1 < B THEN g + 1 ELSE g + 1 - B ELSE g
  <2>1. /\ q = IF p + 1 >= B THEN 0 ELSE p + 1
        /\ h = IF q = g THEN IF g + 1 >= B THEN 0 ELSE g + 1 ELSE g
    BY DEF next_index
  <2> HIDE DEF B, p, g, q, h
  <2> QED BY ONLY <1>3, <2>1
<1> HIDE DEF B, p, g, n, q, h, b, f, x
<1>6. /\ n = IF p >= g THEN p - g ELSE p - g + B
      /\ Unread(x) = IF q >= h THEN q - h ELSE q - h + B
  <2>1. g \in 0 .. B /\ h \in 0 .. B
    BY <1>3
  <2>2. (p - g) % B = IF p >= g THEN p - g ELSE p - g + B
    BY ONLY <1>3, <2>1, Around
  <2>3. (q - h) % B = IF q >= h THEN q - h ELSE q - h + B
    BY ONLY <1>3, <2>1, Around
  <2> QED BY <1>4, <2>2, <2>3
<1>7. /\ n \in 0 .. (B - 1)
      /\ Unread(x) = IF n = B - 1 THEN B - 1 ELSE n + 1
      /\ q = g <=> n = B - 1
  BY ONLY <1>3, <1>5, <1>6
<1>8. ASSUME NEW j \in 1 .. Unread(x)
      PROVE  b[(q - j) % B] = (((s + 1) % StampMod) - j) % StampMod
  <2>1. j \in 1 .. (B - 1) /\ j - 1 \in 0 .. n /\ j \in 0 .. B /\ j \in 0 .. StampMod
        /\ j - 1 \in 0 .. B /\ j - 1 \in 0 .. StampMod
    BY ONLY <1>3, <1>7, j \in 1 .. Unread(x)
  <2>2. /\ (q - j) % B = IF q >= j THEN q - j ELSE q - j + B
        /\ (p - (j - 1)) % B = IF p >= j - 1 THEN p - (j - 1) ELSE p - (j - 1) + B
    <3>1. (q - j) % B = IF q >= j THEN q - j ELSE q - j + B
      BY ONLY <1>3, <2>1, Around
    <3>2. PICK y \in 0 .. B : y = j - 1
      BY ONLY <2>1
    <3>3. (p - y) % B = IF p >= y THEN p - y ELSE p - y + B
      BY ONLY <1>3, Around
    <3> QED BY ONLY <3>1, <3>2, <3>3
  <2>3. PICK i \in Index : i = (q - j) % B
    <3>1. (q - j) % B \in 0 .. (B - 1)
      BY ONLY <1>3, <2>1, Around
    <3> QED BY <3>1 DEF Index, B
  <2>4. i = (p - (j - 1)) % B
    BY ONLY <1>3, <1>5, <2>1, <2>2, <2>3
  <2>5. (((s + 1) % StampMod) - j) % StampMod = (s - (j - 1)) % StampMod
    <3>1. 1 \in 0 .. StampMod
      BY <1>3
    <3>2. /\ (s + 1) % StampMod \in 0 .. (StampMod - 1)
          /\ (s + 1) % StampMod = IF s + 1 < StampMod THEN s + 1 ELSE s + 1 - StampMod
      BY ONLY <1>3, <3>1, Around
    <3>3. PICK c \in 0 .. (StampMod - 1) : c = (s + 1) % StampMod
      BY <3>2
    <3>4. (c - j) % StampMod = IF c >= j THEN c - j ELSE c - j + StampMod
      BY ONLY <1>3, <2>1, c \in 0 .. (StampMod - 1), Around
    <3>5. (s - (j - 1)) % StampMod =
            IF s >= j - 1 THEN s - (j - 1) ELSE s - (j - 1) + StampMod
      BY ONLY <1>3, <2>1, Around
    <3>6. (c - j) % StampMod = (s - (j - 1)) % StampMod
      BY ONLY <1>3, <2>1, <3>2, <3>3, <3>4, <3>5, c \in 0 .. (StampMod - 1)
    <3> QED BY <3>3, <3>6
  <2>6. CASE j = 1
    <3>1. i = p
      BY ONLY <1>3, <2>2, <2>4, <2>6
    <3>2. (s - (j - 1)) % StampMod = s
      <4>1. (s - (j - 1)) % StampMod =
              IF s >= j - 1 THEN s - (j - 1) ELSE s - (j - 1) + StampMod
        BY ONLY <1>3, <2>1, Around
      <4> QED BY ONLY <1>3, <2>6, <4>1
    <3> QED BY <1>1, <2>3, <2>5, <3>1, <3>2 DEF b
  <2>7. CASE j # 1
    <3>1. i # p /\ j - 1 \in 1 .. n
      BY ONLY <1>3, <2>1, <2>2, <2>4, <2>7
    <3>2. r.buffer[(p - (j - 1)) % B] = (s - (j - 1)) % StampMod
      BY ONLY <1>1, <3>1
    <3>3. b[i] = r.buffer[i]
      BY <1>1, <2>3, <3>1 DEF b
    <3> QED BY <2>3, <2>4, <2>5, <3>2, <3>3
  <2> QED BY <2>6, <2>7
<1>9. f => Unread(x) = B - 1
  BY <1>1, <1>7 DEF f
<1>10. (s + 1) % StampMod \in Stamp
  <2>1. 1 \in 0 .. StampMod
    BY <1>3
  <2>2. (s + 1) % StampMod \in 0 .. (StampMod - 1)
    BY ONLY <1>3, <2>1, Around
  <2> QED BY <2>2 DEF Stamp
<1> QED BY <1>2, <1>8, <1>9, <1>10 DEF HoldsUpTo, B, x

\* One byte less.
LEMMA Fetched ==
  ASSUME NEW r, NEW s, HoldsUpTo(r, s), ~no_data(r)
  PROVE  HoldsUpTo(fetch(r), s)
<1> USE SerialNumbers
<1> DEFINE B == Bufsz
           p == r.put_index
           g == r.get_index
           n == Unread(r)
           h == next_index(g)
           x == fetch(r)
<1>1. /\ r \in RxRecord /\ s \in Stamp /\ p \in Index /\ g \in Index
      /\ r.is_full => n = B - 1
      /\ \A j \in 1 .. n : r.buffer[(p - j) % B] = (s - j) % StampMod
      /\ ~(g = p /\ ~r.is_full) /\ h \in Index
  BY DEF HoldsUpTo, RxRecord, no_data
<1>2. /\ x.buffer = r.buffer /\ x.put_index = p /\ x.get_index = h
      /\ x.is_full = FALSE /\ x \in RxRecord
  BY <1>1 DEF fetch, RxRecord
<1>3. /\ B \in Nat \ {0} /\ B >= 2
      /\ p \in 0 .. (B - 1) /\ g \in 0 .. (B - 1) /\ h \in 0 .. (B - 1)
  BY <1>1
<1>4. n = (p - g) % B /\ Unread(x) = (p - h) % B
  BY <1>2 DEF Unread
<1>5. h = IF g + 1 < B THEN g + 1 ELSE g + 1 - B
  <2>1. h = IF g + 1 >= B THEN 0 ELSE g + 1
    BY DEF next_index
  <2> HIDE DEF B, p, g, h
  <2> QED BY ONLY <1>3, <2>1
<1> HIDE DEF B, p, g, n, h, x
<1>6. /\ n = IF p >= g THEN p - g ELSE p - g + B
      /\ Unread(x) = IF p >= h THEN p - h ELSE p - h + B
  <2>1. g \in 0 .. B /\ h \in 0 .. B
    BY <1>3
  <2>2. (p - g) % B = IF p >= g THEN p - g ELSE p - g + B
    BY ONLY <1>3, <2>1, Around
  <2>3. (p - h) % B = IF p >= h THEN p - h ELSE p - h + B
    BY ONLY <1>3, <2>1, Around
  <2> QED BY <1>4, <2>2, <2>3
<1>7. Unread(x) \in Int /\ n \in Int /\ Unread(x) <= n
  <2>1. g # p
    <3>1. g = p => n = 0
      BY ONLY <1>3, <1>6
    <3> QED BY ONLY <1>1, <1>3, <3>1
  <2> QED BY ONLY <1>3, <1>5, <1>6, <2>1
<1> QED BY <1>1, <1>2, <1>7 DEF HoldsUpTo, B, x

\* A turn of the loop leaves a ring.
LEMMA StoreType ==
  ASSUME NEW r \in RxRecord, NEW s \in Stamp
  PROVE  store(r, s) \in RxRecord
<1>1. /\ r.put_index \in Index /\ r.get_index \in Index
      /\ r.buffer \in [Index -> Stamp] /\ r.is_full \in BOOLEAN
      /\ next_index(r.put_index) \in Index /\ next_index(r.get_index) \in Index
  BY SerialNumbers DEF RxRecord
<1> QED BY <1>1 DEF store, RxRecord

\* The loop of a receive interrupt with n bytes.
LEMMA Received ==
  ASSUME HoldsUpTo(rx, stamp), NEW n \in 1 .. Bufsz
  PROVE  HoldsUpTo(received(n), (stamp + n) % StampMod)
<1> USE SerialNumbers
<1> DEFINE D == 1 .. n
           V == RxRecord
           s(i) == (stamp + i) % StampMod
           g == [p \in D \X V |-> store(p[2], s(p[1] - 1))]
           R == {p \in (SUBSET D) \X V :
                   \A m \in 0 .. n : p[1] = 1 .. m => HoldsUpTo(p[2], s(m))}
<1>1. /\ n \in Nat /\ n <= StampMod /\ stamp \in Stamp /\ rx \in V
      /\ stamp \in 0 .. (StampMod - 1) /\ StampMod \in Nat \ {0} /\ StampMod >= 2
  BY DEF HoldsUpTo, Stamp
<1>2. /\ \A m \in 0 .. n : s(m) \in Stamp
      /\ s(0) = stamp
      /\ \A m \in 1 .. n : (s(m - 1) + 1) % StampMod = s(m)
  <2>1. ASSUME NEW m \in 0 .. n PROVE s(m) \in Stamp
    <3>1. stamp + m \in Int
      BY <1>1
    <3> QED BY <3>1
  <2>2. s(0) = stamp
    <3>1. 0 \in 0 .. StampMod
      BY <1>1
    <3>2. (stamp + 0) % StampMod = IF stamp + 0 < StampMod THEN stamp + 0
                                   ELSE stamp + 0 - StampMod
      BY ONLY <1>1, <3>1, Around
    <3> QED BY ONLY <1>1, <3>2
  <2>3. ASSUME NEW m \in 1 .. n PROVE (s(m - 1) + 1) % StampMod = s(m)
    <3>1. PICK y : y = m - 1
      OBVIOUS
    <3>2. /\ StampMod \in Nat \ {0} /\ stamp \in 0 .. (StampMod - 1)
          /\ y \in 0 .. StampMod /\ 1 \in 0 .. StampMod
      BY ONLY <1>1, <3>1, m \in 1 .. n
    <3>3. y + 1 <= StampMod =>
            (((stamp + y) % StampMod) + 1) % StampMod = (stamp + (y + 1)) % StampMod
      BY ONLY <3>2, AroundTwice
    <3>4. y + 1 = m /\ m <= StampMod
      BY ONLY <1>1, <3>1, m \in 1 .. n
    <3> QED BY <3>1, <3>3, <3>4
  <2> QED BY <2>1, <2>2, <2>3
<1>3. \A i \in D : (stamp + i - 1) % StampMod = s(i - 1)
  <2> SUFFICES ASSUME NEW i \in D PROVE (stamp + i - 1) % StampMod = s(i - 1)
    OBVIOUS
  <2>1. stamp + i - 1 = stamp + (i - 1)
    BY <1>1
  <2> QED BY <2>1
<1> HIDE DEF s
<1>4. g \in [D \X V -> V] /\ \A i \in D, r \in V : g[<<i, r>>] = store(r, s(i - 1))
  <2>1. ASSUME NEW i \in D, NEW r \in V PROVE store(r, s(i - 1)) \in V
    <3>1. i - 1 \in 0 .. n
      BY <1>1
    <3>2. s(i - 1) \in Stamp
      BY <1>2, <3>1
    <3> QED BY <3>2, StoreType
  <2> QED BY <2>1
<1>5. \A p \in SUBSET D : p # {} => Max(p) \in p
  BY <1>1, MaxElement
<1>top. ASSUME NEW m \in Nat \ {0} PROVE Max(1 .. m) = m
  BY DEF Max
<1>6. PICK h \in [SUBSET D -> V] : LoopOf(h, n, V, rx, g)
  <2> HIDE DEF g, V
  <2> QED BY ONLY <1>1, <1>4, LoopExists
<1>loop. ASSUME NEW p \in SUBSET D
         PROVE  /\ p = {} => h[p] = rx
                /\ p # {} => /\ Max(p) \in p /\ Max(p) \in D /\ p \ {Max(p)} \in SUBSET D
                             /\ h[p] = store(h[p \ {Max(p)}], s(Max(p) - 1))
  <2> HIDE DEF V, g
  <2> QED BY <1>4, <1>6 DEF LoopOf
<1> DEFINE l == [c \in D |-> c]
<1>list. DOMAIN l = D /\ \A c \in D : l[c] = c
  OBVIOUS
<1> HIDE DEF l
<1>turn. ASSUME NEW f, NEW p \in SUBSET D, p # {}
         PROVE  receive_turn(f[p \ {Max(p)}], l[Max(p)]) =
                  store(f[p \ {Max(p)}], s(Max(p) - 1))
  <2>1. Max(p) \in D
    BY <1>5, <1>turn
  <2>2. l[Max(p)] = Max(p) /\ (stamp + Max(p) - 1) % StampMod = s(Max(p) - 1)
    BY <1>3, <1>list, <2>1
  <2> QED BY <2>2 DEF receive_turn
<1> DEFINE Iter(i) == [p \in SUBSET D |->
                         IF p = {} THEN rx
                         ELSE LET y == Max(p) IN receive_turn(i[p \ {y}], l[y])]
           i == CHOOSE i : i = Iter(i)
<1>7. h = Iter(h)
  <2>1. \A p \in SUBSET D : h[p] = IF p = {} THEN rx
                    ELSE receive_turn(h[p \ {Max(p)}], l[Max(p)])
    BY <1>loop, <1>turn
  <2> QED BY <1>6, <2>1
<1>8. i = Iter(i)
  BY <1>7
<1>9. received(n) = i[D]
  <2>1. received(n) =
          LET iter[p \in SUBSET DOMAIN l] ==
                IF p = {} THEN rx
                ELSE LET y == Max(p) IN receive_turn(iter[p \ {y}], l[y])
          IN iter[DOMAIN l]
    BY DEF received, FoldLeft, MapThenFoldSet, l
  <2> QED BY <1>list, <2>1
<1> HIDE DEF i
<1>10. PICK j : j = i
  OBVIOUS
<1>11. Turns(j, n, V, rx, g)
  <2>1. j[{}] = rx
    BY <1>8, <1>10
  <2>2. ASSUME NEW p \in SUBSET D, p # {}, j[p \ {Max(p)}] \in V
        PROVE  j[p] = g[<<Max(p), j[p \ {Max(p)}]>>]
    <3>1. j[p] = store(j[p \ {Max(p)}], s(Max(p) - 1))
      BY <1>8, <1>10, <1>turn, <2>2
    <3>2. Max(p) \in D
      BY <1>5, <2>2
    <3> HIDE DEF g
    <3> QED BY <1>4, <2>2, <3>1, <3>2
  <2> QED BY <2>1, <2>2 DEF Turns
<1>12. LoopInvariant(R, n, V, rx, g)
  <2>1. <<{}, rx>> \in R
    <3>1. ASSUME NEW m \in 0 .. n, {} = 1 .. m PROVE HoldsUpTo(rx, s(m))
      <4>1. m = 0
        BY <3>1
      <4> QED BY <1>2, <4>1
    <3> QED BY <1>1, <3>1
  <2>2. ASSUME NEW p \in SUBSET D, NEW r \in V, p # {},
               <<p \ {Max(p)}, r>> \in R
        PROVE  <<p, g[<<Max(p), r>>]>> \in R
    <3>1. PICK y : y = Max(p)
      OBVIOUS
    <3>2. y \in p /\ y \in D /\ g[<<y, r>>] \in V /\ g[<<y, r>>] = store(r, s(y - 1))
      BY <1>4, <1>5, <2>2, <3>1
    <3>3. ASSUME NEW m \in 0 .. n, p = 1 .. m
          PROVE  HoldsUpTo(g[<<y, r>>], s(m))
      <4>1. m \in 1 .. n /\ m - 1 \in 0 .. n
        <5>1. 1 .. 0 = {}
          OBVIOUS
        <5>2. m # 0
          BY <2>2, <3>3, <5>1
        <5> QED BY ONLY <5>2, <1>1, m \in 0 .. n
      <4>2. y = m
        BY <1>top, <3>1, <3>3, <4>1
      <4>3. p \ {y} = 1 .. (m - 1)
        <5>1. m \in Nat \ {0}
          BY ONLY <1>1, <4>1
        <5>2. (1 .. m) \ {m} = 1 .. (m - 1)
          BY ONLY <5>1
        <5> QED BY <3>3, <4>2, <5>2
      <4>4. HoldsUpTo(r, s(m - 1))
        BY <2>2, <3>1, <4>1, <4>3
      <4>5. HoldsUpTo(store(r, s(m - 1)), (s(m - 1) + 1) % StampMod)
        BY <4>4, Stored
      <4> QED BY <1>2, <3>2, <4>1, <4>2, <4>5
    <3> HIDE DEF g
    <3> QED BY <3>1, <3>2, <3>3
  <2> HIDE DEF R, g
  <2> QED BY <2>1, <2>2 DEF LoopInvariant
<1>13. <<D, j[D]>> \in R
  <2>1. R \in SUBSET ((SUBSET D) \X V)
    OBVIOUS
  <2> HIDE DEF R, g, V
  <2> QED BY ONLY <1>1, <1>11, <1>12, <2>1, LoopKeeps
<1>14. HoldsUpTo(received(n), s(n))
  <2>1. <<D, received(n)>> \in R
    BY <1>9, <1>10, <1>13
  <2>2. D = 1 .. n /\ n \in 0 .. n
    BY <1>1
  <2> QED BY ONLY <2>1, <2>2 DEF R
<1> QED BY <1>14 DEF s
SerialSpec ==
  /\ ThreadsInit /\ QueuesInit /\ SerialInit
  /\ [][SerialNext]_<<threads, queues, serial>>

LEMMA LatestHeld == HoldsUpTo(rx, stamp) => HoldsLatest
<1> SUFFICES ASSUME HoldsUpTo(rx, stamp) PROVE HoldsLatest
  OBVIOUS
<1> USE SerialNumbers
<1> DEFINE p == rx.put_index
           g == rx.get_index
<1>1. /\ rx.put_index \in Index /\ rx.get_index \in Index
      /\ rx.is_full => Unread(rx) = Bufsz - 1
      /\ \A j \in 1 .. Unread(rx) :
           rx.buffer[(p - j) % Bufsz] = (stamp - j) % StampMod
      /\ stored = (p - g) % Bufsz /\ stored = Unread(rx) /\ stamp \in Stamp
  BY DEF HoldsUpTo, RxRecord, stored, Unread
<1>2. /\ p \in 0 .. (Bufsz - 1) /\ g \in 0 .. (Bufsz - 1) /\ g \in 0 .. Bufsz
      /\ Bufsz \in Nat \ {0} /\ Bufsz >= 2
  <2>1. p \in Index /\ g \in Index
    BY <1>1
  <2> HIDE DEF p, g
  <2> QED BY <2>1 DEF Index
<1>stamp. stamp \in 0 .. (StampMod - 1) /\ StampMod \in Nat \ {0}
  BY <1>1 DEF Stamp
<1> HIDE DEF p, g
<1>wrap. stored = IF p >= g THEN p - g ELSE p - g + Bufsz
  <2>1. (p - g) % Bufsz = IF p >= g THEN p - g ELSE p - g + Bufsz
    BY ONLY <1>2, Around
  <2> QED BY <1>1, <2>1
<1>3. ASSUME NEW i \in 0 .. (stored - 1)
      PROVE  rx.buffer[(g + i) % Bufsz] = (stamp - stored + i) % StampMod
  <2>1. PICK j : j = stored - i
    OBVIOUS
  <2>2. /\ j \in 1 .. stored /\ j \in 0 .. Bufsz /\ i \in 0 .. Bufsz
        /\ stamp - stored + i = stamp - j
    BY ONLY <1>2, <1>stamp, <1>wrap, <2>1, i \in 0 .. (stored - 1)
  <2>3. (g + i) % Bufsz = IF g + i < Bufsz THEN g + i ELSE g + i - Bufsz
    BY ONLY <1>2, <2>2, Around
  <2>4. (p - j) % Bufsz = IF p >= j THEN p - j ELSE p - j + Bufsz
    BY ONLY <1>2, <2>2, Around
  <2>5. (g + i) % Bufsz = (p - j) % Bufsz
    BY ONLY <1>2, <1>wrap, <2>1, <2>2, <2>3, <2>4
  <2> QED BY <1>1, <2>2, <2>5
<1> QED BY <1>1, <1>3 DEF HoldsLatest, g

LEMMA InitLatest == SerialInit => HoldsUpTo(rx, stamp)
<1> USE SerialNumbers
<1> SUFFICES ASSUME SerialInit PROVE HoldsUpTo(rx, stamp)
  OBVIOUS
<1>1. rx \in RxRecord /\ stamp \in Stamp /\ ~rx.is_full /\ Unread(rx) = 0
  BY DEF SerialInit, RxRecord, Stamp, Index, Unread
<1> QED BY <1>1 DEF HoldsUpTo

LEMMA LatestKept ==
  HoldsUpTo(rx, stamp) /\ [SerialNext]_<<threads, queues, serial>>
    => HoldsUpTo(rx, stamp)'
<1> SUFFICES ASSUME HoldsUpTo(rx, stamp), [SerialNext]_<<threads, queues, serial>>
             PROVE  HoldsUpTo(rx', stamp')
  BY DEF HoldsUpTo, RxRecord, Unread, Stamp, Index
<1>1. ASSUME NEW t \in Reader, ReadByte(t) PROVE HoldsUpTo(rx', stamp')
  BY <1>1, Fetched DEF ReadByte
<1>2. ASSUME NEW n \in 1 .. Bufsz, Receive(n) PROVE HoldsUpTo(rx', stamp')
  BY <1>2, Received DEF Receive
<1>3. ASSUME UNCHANGED <<rx, stamp>> PROVE HoldsUpTo(rx', stamp')
  BY <1>3
<1> QED BY <1>1, <1>2, <1>3 DEF SerialNext, Read, ReadEnd, ReadWait, serial

\* The bytes of the receive ring are the latest that came, in their order: the
\* read index gives way to the interrupt exactly when the ring is full
\* (rt_hw_serial_isr), and _serial_int_rx takes the oldest.
THEOREM SerialHoldsLatest == SerialSpec => []HoldsLatest
BY InitLatest, LatestKept, LatestHeld, PTL DEF SerialSpec

-----------------------------------------------------------------------------
(* The readers of a serial device.                                         *)

WaitPlaces == {"wait", "q_sched", "q_woken", "q_remove"}
SerialPC   == {"run", "sched", "read"} \cup WaitPlaces
Nodes      == {Node(t, {"any"}) : t \in Thread}

asleep == {t \in Thread : k.stat[t] = "suspend"}
queued == {n.thread : n \in ToSet(waiting[Device])}

\* Where the threads are: only readers read and wait, only in rt_wqueue_wait a
\* thread is suspended, and it may still run there before its rt_schedule().
SerialRuns ==
  /\ k.stat[k.cur] = "ready" \/ pc[k.cur] = "q_sched"
  /\ k.timer = {}
  /\ \A t \in Thread :
       /\ pc[t] \notin {"run", "sched"} => t \in Reader
       /\ pc[t] \in WaitPlaces => left[t] = Count
       /\ k.stat[t] = "suspend" => pc[t] \in {"q_sched", "q_woken"}

\* The list of the device is the list of the suspended threads.
SerialQueue ==
  /\ waiting[Device] \in Seq(Nodes) /\ IsInjective(waiting[Device])
  /\ queued = asleep

\* The reader t will read on what is there.
Awake(t) ==
  /\ t \notin asleep
  /\ \/ pc[t] \in {"q_sched", "q_woken", "q_remove"}
     \/ pc[t] = "read" /\ left[t] > 0
     \/ pc[t] = "wait" /\ wakeup[Device]

\* The reader t sleeps, or is about to sleep.
Drowsy(t) == t \in asleep \/ (pc[t] = "wait" /\ ~wakeup[Device])

SerialAwake ==
  ~no_data(rx) /\ ~sated /\ (\E t \in Thread : Drowsy(t)) =>
    \E t \in Thread : Awake(t)

SerialIInv ==
  /\ KernelSound
  /\ pc \in [Thread -> SerialPC] /\ left \in [Thread -> 0 .. Count]
  /\ sated \in BOOLEAN /\ wakeup \in [WQ -> BOOLEAN] /\ waiting = [q \in WQ |-> waiting[q]]
  /\ SerialRuns
  /\ SerialQueue
  /\ SerialAwake

LEMMA SerialFacts ==
  ASSUME SerialIInv
  PROVE  /\ KernelSound /\ k.cur \in Thread /\ k.stat \in [Thread -> Stat]
         /\ Idle \in Thread /\ Device \in WQ
         /\ Reader \subseteq Thread /\ Idle \notin Reader
         /\ Count \in Nat /\ Count > 0
         /\ pc \in [Thread -> SerialPC] /\ left \in [Thread -> 0 .. Count]
         /\ sated \in BOOLEAN /\ wakeup \in [WQ -> BOOLEAN] /\ waiting = [q \in WQ |-> waiting[q]]
         /\ SerialRuns /\ SerialQueue /\ SerialAwake
<1>1. Count \in Nat /\ Count > 0
  BY SerialNumbers
<1> QED BY <1>1, KernelSoundFacts, SerialAssumption DEF SerialIInv

LEMMA InitSerial == ThreadsInit /\ QueuesInit /\ SerialInit => SerialIInv
<1> SUFFICES ASSUME ThreadsInit, QueuesInit, SerialInit PROVE SerialIInv
  OBVIOUS
<1>1. /\ KernelSound
      /\ k.stat = [t \in Thread |-> IF t = Idle THEN "ready" ELSE "init"]
      /\ k.cur = Idle /\ k.timer = {} /\ pc = [t \in Thread |-> "run"]
  BY ThreadsStarted
<1>2. Idle \in Thread /\ Device \in WQ /\ Count \in Nat
  BY KernelAssumption, SerialAssumption
<1>3. /\ waiting[Device] = << >> /\ wakeup \in [WQ -> BOOLEAN] /\ waiting = [q \in WQ |-> waiting[q]]
  BY <1>2 DEF QueuesInit
<1>4. left \in [Thread -> 0 .. Count] /\ sated = FALSE
  BY <1>2 DEF SerialInit
<1>5. asleep = {}
  BY <1>1 DEF asleep
<1>6. SerialQueue
  <2>1. << >> \in Seq(Nodes) /\ IsInjective(<< >>) /\ ToSet(<< >>) = {}
    BY DEF IsInjective, ToSet
  <2> QED BY <1>3, <1>5, <2>1 DEF SerialQueue, queued
<1>7. SerialRuns
  BY <1>1, <1>2 DEF SerialRuns, WaitPlaces
<1>8. SerialAwake
  BY <1>1, <1>5 DEF SerialAwake, Drowsy
<1> QED BY <1>1, <1>3, <1>4, <1>6, <1>7, <1>8 DEF SerialIInv, SerialPC

\* A step of the scheduler, or of a thread that neither reads nor wakes up.
LEMMA SerialQuiet ==
  ASSUME SerialIInv, KernelSound', k'.timer = {}, asleep' = asleep,
         k'.stat[k'.cur] = "ready", UNCHANGED <<serial, queues>>,
         \/ pc' = pc
         \/ \E t \in Thread, p \in {"run", "sched"} :
              pc[t] \in {"run", "sched"} /\ pc' = [pc EXCEPT ![t] = p]
         \/ \E t \in Thread : pc[t] = "q_sched" /\ pc' = [pc EXCEPT ![t] = "q_woken"]
  PROVE  SerialIInv'
<1> USE SerialFacts
<1>1. /\ waiting' = waiting /\ wakeup' = wakeup /\ rx' = rx /\ left' = left
      /\ sated' = sated
  BY DEF serial, queues
<1>2. pc' \in [Thread -> SerialPC]
  BY DEF SerialPC, WaitPlaces
<1>3. \A t \in Thread :
        \/ pc'[t] = pc[t] \/ {pc[t], pc'[t]} \subseteq {"run", "sched"}
        \/ pc[t] = "q_sched" /\ pc'[t] = "q_woken"
  OBVIOUS
<1>4. \A t \in Thread : k'.stat[t] = "suspend" => k.stat[t] = "suspend"
  BY DEF asleep
<1>5. SerialRuns'
  BY <1>1, <1>3, <1>4 DEF SerialRuns, WaitPlaces
<1>6. SerialQueue'
  BY <1>1 DEF SerialQueue, queued
<1>7. \A t \in Thread : (Drowsy(t)' <=> Drowsy(t)) /\ (Awake(t)' <=> Awake(t))
  BY <1>1, <1>3 DEF Drowsy, Awake
<1>8. SerialAwake'
  BY <1>1, <1>7 DEF SerialAwake
<1> QED BY <1>1, <1>2, <1>5, <1>6, <1>8 DEF SerialIInv

LEMMA SerialThreads ==
  ASSUME SerialIInv, ThreadsNext, UNCHANGED <<serial, queues>>
  PROVE  SerialIInv'
<1> USE SerialFacts
<1>1. ASSUME NEW t \in Thread, NEW new \in Thread, Startup(t, new)
      PROVE  SerialIInv'
  <2>1. /\ KernelSound' /\ k.cur = t /\ pc[t] = "run"
        /\ pc' = [pc EXCEPT ![t] = "sched"] /\ k.stat[new] = "init"
        /\ k'.stat = [k.stat EXCEPT ![new] = "ready"]
        /\ k'.timer = k.timer /\ k'.cur = k.cur
    BY <1>1, StartupMoves DEF At, Go
  <2>2. k'.timer = {} /\ k'.stat[k'.cur] = "ready" /\ asleep' = asleep
    BY <2>1 DEF SerialRuns, asleep
  <2> QED BY <2>1, <2>2, SerialQuiet
<1>2. ASSUME NEW t \in Thread, Schedule(t)
      PROVE  SerialIInv'
  <2>1. k' = rt_schedule(k) /\ pc[t] = "sched" /\ pc' = [pc EXCEPT ![t] = "run"]
    BY <1>2 DEF Schedule, At, Go
  <2>2. /\ KernelSound' /\ k'.stat[k'.cur] = "ready"
        /\ k'.stat = k.stat /\ k'.timer = k.timer
    BY <2>1, ScheduleMoves DEF KernelSound
  <2>3. k'.timer = {} /\ asleep' = asleep
    BY <2>2 DEF SerialRuns, asleep
  <2> QED BY <2>1, <2>2, <2>3, SerialQuiet
<1>3. ASSUME NEW t \in Thread, TimerExpire(t)
      PROVE  SerialIInv'
  BY <1>3 DEF TimerExpire, SerialRuns
<1>4. ASSUME TickYield PROVE SerialIInv'
  <2>1. k' = rt_schedule(k) /\ pc' = pc
    BY <1>4 DEF TickYield
  <2>2. /\ KernelSound' /\ k'.stat[k'.cur] = "ready"
        /\ k'.stat = k.stat /\ k'.timer = k.timer
    BY <2>1, ScheduleMoves DEF KernelSound
  <2>3. k'.timer = {} /\ asleep' = asleep
    BY <2>2 DEF SerialRuns, asleep
  <2> QED BY <2>1, <2>2, <2>3, SerialQuiet
<1> QED BY <1>1, <1>2, <1>3, <1>4 DEF ThreadsNext

\* A step of the running reader t that leaves the kernel and the list alone.
LEMMA SerialMoves ==
  ASSUME SerialIInv, NEW t \in Reader, NEW p \in SerialPC, k.cur = t,
         pc[t] # "q_sched", p \notin {"q_sched", "q_woken"},
         k' = k, pc' = [pc EXCEPT ![t] = p], waiting' = waiting,
         wakeup' \in [WQ -> BOOLEAN], sated' \in BOOLEAN,
         left' \in [Thread -> 0 .. Count],
         \A u \in Thread \ {t} : left'[u] = left[u],
         p \in WaitPlaces => left'[t] = Count,
         SerialAwake'
  PROVE  SerialIInv'
<1> USE SerialFacts
<1>1. t \in Thread /\ k.stat[t] = "ready" /\ KernelSound' /\ asleep' = asleep
  BY DEF SerialRuns, asleep, KernelSound
<1>2. pc' \in [Thread -> SerialPC]
  OBVIOUS
<1>3. SerialRuns'
  BY <1>1 DEF SerialRuns
<1>4. SerialQueue'
  BY <1>1 DEF SerialQueue, queued
<1> QED BY <1>1, <1>2, <1>3, <1>4 DEF SerialIInv

\* The file operation of a reader (_serial_int_rx).
LEMMA SerialReads ==
  ASSUME SerialIInv, NEW t \in Reader, Read(t) \/ ReadByte(t) \/ ReadEnd(t)
  PROVE  SerialIInv'
<1> USE SerialFacts
<1>t. t \in Thread
  OBVIOUS
<1>1. k.cur = t => t \notin asleep \/ pc[t] = "q_sched"
  BY DEF asleep, SerialRuns
<1>2. ASSUME Read(t) PROVE SerialIInv'
  <2>1. /\ k' = k /\ waiting' = waiting /\ wakeup' = wakeup /\ sated' = sated
        /\ k.cur = t /\ pc[t] = "run" /\ pc' = [pc EXCEPT ![t] = "read"]
        /\ left' = [left EXCEPT ![t] = Count]
    BY <1>2 DEF Read, At, Go, queues
  <2>2. Awake(t)'
    BY <1>1, <1>t, <2>1 DEF Awake, asleep
  <2>3. SerialAwake'
    BY <1>t, <2>2 DEF SerialAwake
  <2>4. "read" \in SerialPC /\ "read" \notin WaitPlaces
    BY DEF SerialPC, WaitPlaces
  <2>5. /\ left' \in [Thread -> 0 .. Count]
        /\ \A u \in Thread \ {t} : left'[u] = left[u]
    BY <1>t, <2>1
  <2>6. wakeup' \in [WQ -> BOOLEAN] /\ sated' \in BOOLEAN
    BY <2>1
  <2> QED BY <2>1, <2>3, <2>4, <2>5, <2>6, SerialMoves
<1>3. ASSUME ReadByte(t) PROVE SerialIInv'
  <2>1. /\ k' = k /\ pc' = pc /\ waiting' = waiting /\ wakeup' = wakeup
        /\ sated' = (sated \/ left[t] = 1)
        /\ k.cur = t /\ pc[t] = "read" /\ left[t] > 0
        /\ left' = [left EXCEPT ![t] = @ - 1]
    BY <1>3 DEF ReadByte, At, threads, queues
  <2>2. left[t] \in 0 .. Count /\ left'[t] = left[t] - 1
    BY <1>t, <2>1
  <2>3. sated' \/ Awake(t)'
    <3>1. left[t] = 1 \/ left'[t] > 0
      BY <2>1, <2>2
    <3>2. t \notin asleep'
      BY <1>1, <2>1 DEF asleep
    <3> QED BY <2>1, <3>1, <3>2 DEF Awake
  <2>4. SerialAwake'
    BY <1>t, <2>3 DEF SerialAwake
  <2>5. "read" \in SerialPC /\ "read" \notin WaitPlaces
    BY DEF SerialPC, WaitPlaces
  <2>6. /\ pc' = [pc EXCEPT ![t] = "read"] /\ left' \in [Thread -> 0 .. Count]
        /\ \A u \in Thread \ {t} : left'[u] = left[u]
    BY <1>t, <2>1, <2>2
  <2>7. sated' \in BOOLEAN
    BY <2>1
  <2> QED BY <2>1, <2>4, <2>5, <2>6, <2>7, SerialMoves
<1>4. ASSUME ReadEnd(t) PROVE SerialIInv'
  <2>1. /\ k' = k /\ waiting' = waiting /\ wakeup' = wakeup /\ sated' = sated
        /\ rx' = rx /\ k.cur = t /\ pc[t] = "read"
        /\ left[t] = 0 \/ no_data(rx)
    BY <1>4 DEF ReadEnd, At, queues
  <2>2. CASE left[t] = Count
    <3>1. /\ no_data(rx) /\ pc' = [pc EXCEPT ![t] = "wait"] /\ left' = left
      BY <1>4, <2>1, <2>2 DEF ReadEnd, Go
    <3>2. SerialAwake'
      BY <2>1, <3>1 DEF SerialAwake
    <3>3. "wait" \in SerialPC
      BY DEF SerialPC, WaitPlaces
    <3> QED BY <2>1, <2>2, <3>1, <3>2, <3>3, SerialMoves
  <2>3. CASE left[t] # Count
    <3>1. /\ pc' = [pc EXCEPT ![t] = "run"] /\ left' = [left EXCEPT ![t] = 0]
      BY <1>4, <2>3 DEF ReadEnd, Go
    <3>left. /\ left' \in [Thread -> 0 .. Count]
             /\ \A u \in Thread \ {t} : left'[u] = left[u]
      BY <1>t, <3>1
    <3>flags. wakeup' \in [WQ -> BOOLEAN] /\ sated' \in BOOLEAN
      BY <2>1
    <3>2. CASE no_data(rx)
      <4>1. SerialAwake'
        BY <2>1, <3>2 DEF SerialAwake
      <4>2. "run" \in SerialPC /\ "run" \notin WaitPlaces
        BY DEF SerialPC, WaitPlaces
      <4> QED BY <2>1, <3>1, <3>left, <3>flags, <4>1, <4>2, SerialMoves
    <3>3. CASE left[t] = 0
      <4>1. ~Awake(t) /\ asleep' = asleep
        BY <2>1, <3>3 DEF Awake, asleep
      <4>2. \A u \in Thread : /\ Drowsy(u)' => Drowsy(u)
                              /\ u # t /\ Awake(u) => Awake(u)'
        BY <2>1, <3>1, <4>1 DEF Awake, Drowsy
      <4>3. SerialAwake'
        BY <2>1, <4>1, <4>2 DEF SerialAwake
      <4>4. "run" \in SerialPC /\ "run" \notin WaitPlaces
        BY DEF SerialPC, WaitPlaces
      <4> QED BY <2>1, <3>1, <3>left, <3>flags, <4>3, <4>4, SerialMoves
    <3> QED BY <2>1, <3>2, <3>3
  <2> QED BY <2>2, <2>3
<1> QED BY <1>2, <1>3, <1>4

\* rt_wqueue_wait, but for its critical section that suspends.
LEMMA SerialWaits ==
  ASSUME SerialIInv, NEW t \in Reader, UNCHANGED serial,
         \/ WaitAlready(t, Device) \/ WaitSchedule(t) \/ WaitClear(t, Device)
         \/ WaitRemove(t, Device, "read")
  PROVE  SerialIInv'
<1> USE SerialFacts
<1>t. t \in Thread
  OBVIOUS
<1>0. rx' = rx /\ left' = left /\ sated' = sated
  BY DEF serial
<1>1. CASE WaitAlready(t, Device) \/ WaitClear(t, Device)
  <2>1. /\ k' = k /\ waiting' = waiting /\ wakeup' = [wakeup EXCEPT ![Device] = FALSE]
        /\ k.cur = t /\ pc[t] \in {"wait", "q_woken"}
        /\ pc' = [pc EXCEPT ![t] = "q_remove"]
    BY <1>1 DEF WaitAlready, WaitClear, At, Go
  <2>2. left[t] = Count /\ t \notin asleep
    BY <1>t, <2>1 DEF SerialRuns, WaitPlaces, asleep
  <2>3. Awake(t)'
    BY <1>t, <2>1, <2>2 DEF Awake, asleep
  <2>4. SerialAwake'
    BY <1>t, <2>3 DEF SerialAwake
  <2>5. "q_remove" \in SerialPC /\ wakeup' \in [WQ -> BOOLEAN]
    BY <2>1 DEF SerialPC, WaitPlaces
  <2> QED BY <1>0, <1>t, <2>1, <2>2, <2>4, <2>5, SerialMoves
<1>2. CASE WaitSchedule(t)
  <2>1. /\ k' = rt_schedule(k) /\ waiting' = waiting /\ wakeup' = wakeup
        /\ pc[t] = "q_sched" /\ pc' = [pc EXCEPT ![t] = "q_woken"]
    BY <1>2 DEF WaitSchedule, At, Go, queues
  <2>2. /\ KernelSound' /\ k'.stat[k'.cur] = "ready"
        /\ k'.stat = k.stat /\ k'.timer = k.timer
    BY <2>1, ScheduleMoves DEF KernelSound
  <2>3. k'.timer = {} /\ asleep' = asleep
    BY <2>2 DEF SerialRuns, asleep
  <2>4. UNCHANGED <<serial, queues>>
    BY <2>1 DEF queues
  <2> QED BY <1>t, <2>1, <2>2, <2>3, <2>4, SerialQuiet
<1>3. CASE WaitRemove(t, Device, "read")
  <2>1. /\ k' = k /\ wakeup' = wakeup /\ k.cur = t /\ pc[t] = "q_remove"
        /\ pc' = [pc EXCEPT ![t] = "read"]
        /\ waiting' = [waiting EXCEPT ![Device] = Unlink(@, Node(t, {"any"}))]
    BY <1>3 DEF WaitRemove, At, Go, rt_wqueue_remove
  <2>2. left[t] = Count /\ t \notin asleep
    BY <1>t, <2>1 DEF SerialRuns, WaitPlaces, asleep
  <2>3. Node(t, {"any"}) \notin ToSet(waiting[Device])
    <3>1. Node(t, {"any"}).thread = t
      BY DEF Node
    <3> QED BY <2>2, <3>1 DEF SerialQueue, queued
  <2>4. waiting' = waiting
    <3>1. Unlink(waiting[Device], Node(t, {"any"})) = waiting[Device]
      BY <2>3 DEF Unlink
    <3> QED BY <2>1, <3>1
  <2>5. Awake(t)'
    BY <1>0, <1>t, <2>1, <2>2 DEF Awake, asleep
  <2>6. SerialAwake'
    BY <1>t, <2>5 DEF SerialAwake
  <2>7. "read" \in SerialPC /\ "read" \notin WaitPlaces
    BY DEF SerialPC, WaitPlaces
  <2> QED BY <1>0, <1>t, <2>1, <2>2, <2>4, <2>6, <2>7, SerialMoves
<1> QED BY <1>1, <1>2, <1>3

\* The critical section of rt_wqueue_wait that suspends.
LEMMA SerialSuspends ==
  ASSUME SerialIInv, NEW t \in Reader, UNCHANGED serial, WaitSuspend(t, Device)
  PROVE  SerialIInv'
<1> USE SerialFacts
<1>0. t \in Thread /\ t # Idle /\ rx' = rx /\ left' = left /\ sated' = sated
  BY DEF serial
<1>1. /\ k' = rt_thread_suspend(k, t) /\ k.cur = t /\ pc[t] = "wait" /\ ~wakeup[Device]
      /\ pc' = [pc EXCEPT ![t] = "q_sched"] /\ wakeup' = wakeup
      /\ waiting' = [waiting EXCEPT ![Device] = Append(@, Node(t, {"any"}))]
  BY DEF WaitSuspend, At, Go
<1>2. left[t] = Count /\ k.stat[t] = "ready" /\ t \notin asleep
  BY <1>0, <1>1 DEF SerialRuns, WaitPlaces, asleep
<1>3. /\ k' \in KernelState /\ KInv(k') /\ k'.stat = [k.stat EXCEPT ![t] = "suspend"]
      /\ k'.timer = {} /\ k'.cur = t /\ k'.nest = 0
  <2>1. k \in KernelState /\ KInv(k) /\ k.stat[k.cur] = "ready"
    BY <1>1, <1>2 DEF KernelSound
  <2>2. PICK r : r = rt_thread_suspend(k, k.cur)
    OBVIOUS
  <2>3. /\ r \in KernelState /\ KInv(r) /\ r.stat = [k.stat EXCEPT ![k.cur] = "suspend"]
        /\ r.timer = k.timer \ {k.cur} /\ r.cur = k.cur /\ r.nest = k.nest
    BY ONLY <2>1, <2>2, SuspendKeeps
  <2> QED BY <1>1, <2>2, <2>3 DEF KernelSound, SerialRuns
<1>4. KernelSound' /\ asleep' = asleep \cup {t}
  BY <1>0, <1>3 DEF KernelSound, asleep
<1>5. SerialRuns'
  BY <1>0, <1>1, <1>2, <1>3 DEF SerialRuns, WaitPlaces
<1>6. SerialQueue' /\ waiting' = [q \in WQ |-> waiting'[q]]
  <2>1. PICK n : n = Node(t, {"any"})
    OBVIOUS
  <2>2. n \in Nodes /\ n.thread = t /\ n \notin ToSet(waiting[Device])
    <3>1. n \in Nodes /\ n.thread = t
      BY <1>0, <2>1 DEF Nodes, Node
    <3> QED BY <1>2, <3>1 DEF SerialQueue, queued
  <2>3. /\ Append(waiting[Device], n) \in Seq(Nodes)
        /\ IsInjective(Append(waiting[Device], n))
        /\ ToSet(Append(waiting[Device], n)) = ToSet(waiting[Device]) \cup {n}
    <3>1. waiting[Device] \in Seq(Nodes) /\ IsInjective(waiting[Device])
      BY DEF SerialQueue
    <3> QED BY ONLY <2>2, <3>1, AppendDistinct
  <2>4. /\ waiting'[Device] = Append(waiting[Device], n)
        /\ waiting' = [q \in WQ |-> waiting'[q]]
    BY <1>1, <2>1
  <2>5. queued' = queued \cup {t}
    BY <2>2, <2>3, <2>4 DEF queued
  <2> QED BY <1>4, <2>3, <2>4, <2>5 DEF SerialQueue
<1>7. SerialAwake'
  <2>1. Drowsy(t) /\ ~Awake(t)
    BY <1>1, <1>2 DEF Drowsy, Awake
  <2>2. \A u \in Thread : u # t /\ Awake(u) => Awake(u)'
    BY <1>0, <1>1, <1>4 DEF Awake
  <2> QED BY <1>0, <2>1, <2>2 DEF SerialAwake
<1>8. pc' \in [Thread -> SerialPC]
  BY <1>0, <1>1 DEF SerialPC, WaitPlaces
<1> QED BY <1>0, <1>1, <1>4, <1>5, <1>6, <1>7, <1>8 DEF SerialIInv

\* rt_wqueue_wakeup finds one of the nodes when there is any.
LEMMA FoundNode ==
  ASSUME SerialQueue, NEW key, waiting[Device] # << >>
  PROVE  /\ accepting(Device, key) # {}
         /\ found(Device, key) \in ToSet(waiting[Device])
<1> DEFINE s == waiting[Device]
           a == accepting(Device, key)
<1>1. s \in Seq(Nodes) /\ DOMAIN s = 1 .. Len(s) /\ Len(s) \in Nat
      /\ \A i \in 1 .. Len(s) : s[i] \in Nodes
  BY LenProperties, ElementOfSeq DEF SerialQueue
<1>2. a = DOMAIN s
  <2>1. \A i \in DOMAIN s : s[i].events = {"any"}
    BY <1>1 DEF Nodes, Node
  <2> QED BY <2>1 DEF accepting
<1>3. a # {} /\ \A i \in a : i \in Nat
  <2>1. DOMAIN s # {}
    BY <1>1, EmptySeq
  <2> HIDE DEF a, s
  <2> QED BY <1>1, <1>2, <2>1
<1>4. \E b \in a : \A j \in a : b <= j
  <2> HIDE DEF a
  <2> QED BY <1>3, LeastNat
<1>5. PICK c \in a : c = CHOOSE i \in a : \A j \in a : i <= j
  BY <1>4
<1>6. found(Device, key) = s[c]
  BY <1>5 DEF found
<1> QED BY <1>2, <1>3, <1>6 DEF ToSet

\* The receive interrupt.
LEMMA SerialReceives ==
  ASSUME SerialIInv, NEW n, Receive(n)
  PROVE  SerialIInv'
<1> USE SerialFacts
<1>1. /\ wakeup' = [wakeup EXCEPT ![Device] = TRUE] /\ sated' = FALSE
      /\ left' = left /\ pc' = pc
  BY DEF Receive, rt_wqueue_wakeup
<1>2. CASE waiting[Device] = << >>
  <2>1. accepting(Device, {"POLLIN"}) = {}
    BY <1>2 DEF accepting
  <2>2. k' = k /\ waiting' = waiting
    BY <2>1 DEF Receive, rt_wqueue_wakeup
  <2>3. asleep = {} /\ asleep' = asleep
    BY <1>2, <2>2 DEF SerialQueue, queued, ToSet, asleep
  <2>4. SerialRuns' /\ KernelSound'
    BY <1>1, <2>2 DEF SerialRuns, KernelSound
  <2>5. SerialQueue'
    BY <2>2, <2>3 DEF SerialQueue, queued
  <2>6. SerialAwake'
    BY <1>1, <2>3 DEF SerialAwake, Drowsy
  <2> QED BY <1>1, <2>2, <2>4, <2>5, <2>6 DEF SerialIInv
<1>3. CASE waiting[Device] # << >>
  <2>1. PICK m \in ToSet(waiting[Device]) : m = found(Device, {"POLLIN"})
    BY <1>3, FoundNode
  <2>2. PICK w \in Thread : w = m.thread /\ m = Node(w, {"any"}) /\ w \in asleep
    <3>1. ToSet(waiting[Device]) \subseteq Nodes
      BY ListElements DEF SerialQueue
    <3>2. PICK w \in Thread : m = Node(w, {"any"})
      BY <3>1 DEF Nodes
    <3> QED BY <3>2 DEF SerialQueue, queued, Node
  <2>3. /\ k' = rt_schedule(rt_thread_resume(k, w))
        /\ waiting' = [waiting EXCEPT ![Device] = Unlink(@, m)]
    BY <1>3, <2>1, <2>2, FoundNode DEF Receive, rt_wqueue_wakeup, rt_wqueue_remove
  <2>4. PICK r : r = rt_thread_resume(k, w)
    OBVIOUS
  <2>5. /\ r \in KernelState /\ KInv(r) /\ r.nest = 0 /\ r.stat[Idle] = "ready"
        /\ r.stat = [k.stat EXCEPT ![w] = "ready"] /\ r.timer = {}
    <3>1. k \in KernelState /\ KInv(k) /\ k.stat[w] = "suspend"
      BY <2>2 DEF KernelSound, asleep
    <3>2. WokenUp(k, w, r)
      BY ONLY <2>4, <3>1, w \in Thread, ResumeKeeps
    <3> QED BY <3>2 DEF WokenUp, KernelSound, SerialRuns
  <2>6. /\ KernelSound' /\ k'.stat[k'.cur] = "ready"
        /\ k'.stat = r.stat /\ k'.timer = r.timer
    BY <2>3, <2>4, <2>5, ScheduleMoves
  <2>7. asleep' = asleep \ {w} /\ pc[w] \in {"q_sched", "q_woken"}
    <3>1. pc[w] \in {"q_sched", "q_woken"}
      BY <2>2 DEF asleep, SerialRuns
    <3>2. k'.stat = [k.stat EXCEPT ![w] = "ready"]
      BY <2>5, <2>6
    <3> QED BY <3>1, <3>2 DEF asleep
  <2>8. SerialRuns'
    BY <1>1, <2>5, <2>6 DEF SerialRuns
  <2>9. SerialQueue' /\ waiting' = [q \in WQ |-> waiting'[q]]
    <3>1. /\ Unlink(waiting[Device], m) \in Seq(Nodes)
          /\ IsInjective(Unlink(waiting[Device], m))
          /\ ToSet(Unlink(waiting[Device], m)) = ToSet(waiting[Device]) \ {m}
      <4>1. waiting[Device] \in Seq(Nodes) /\ IsInjective(waiting[Device])
        BY DEF SerialQueue
      <4> QED BY ONLY <4>1, UnlinkProperties
    <3>2. /\ waiting'[Device] = Unlink(waiting[Device], m)
          /\ waiting' = [q \in WQ |-> waiting'[q]]
      BY <2>3
    <3>3. queued' = queued \ {w}
      <4>1. \A x \in ToSet(waiting[Device]) : x.thread = w => x = m
        <5>1. ToSet(waiting[Device]) \subseteq Nodes
          BY ListElements DEF SerialQueue
        <5> QED BY <2>2, <5>1 DEF Nodes, Node
      <4> QED BY <2>2, <3>1, <3>2, <4>1 DEF queued
    <3> QED BY <2>7, <3>1, <3>2, <3>3 DEF SerialQueue
  <2>10. SerialAwake'
    <3>1. Awake(w)'
      BY <1>1, <2>7 DEF Awake
    <3> QED BY <3>1 DEF SerialAwake
  <2> QED BY <1>1, <2>6, <2>8, <2>9, <2>10 DEF SerialIInv
<1> QED BY <1>2, <1>3

LEMMA SerialKept ==
  SerialIInv /\ [SerialNext]_<<threads, queues, serial>> => SerialIInv'
<1> SUFFICES ASSUME SerialIInv, [SerialNext]_<<threads, queues, serial>>
             PROVE  SerialIInv'
  OBVIOUS
<1>1. CASE UNCHANGED <<threads, queues, serial>>
  BY <1>1 DEF threads, queues, serial, SerialIInv, SerialRuns, SerialQueue,
              SerialAwake, Awake, Drowsy, KernelSound, asleep, queued
<1>2. CASE ThreadsNext /\ UNCHANGED <<serial, queues>>
  BY <1>2, SerialThreads
<1>3. ASSUME NEW t \in Reader, Read(t) \/ ReadByte(t) \/ ReadEnd(t)
      PROVE  SerialIInv'
  BY <1>3, SerialReads
<1>4. ASSUME NEW t \in Reader, ReadWait(t) PROVE SerialIInv'
  BY <1>4, SerialWaits, SerialSuspends DEF ReadWait, WaitStep
<1>5. ASSUME NEW n \in 1 .. Bufsz, Receive(n) PROVE SerialIInv'
  BY <1>5, SerialReceives
<1> QED BY <1>1, <1>2, <1>3, <1>4, <1>5 DEF SerialNext

\* The list is as long as the set of the threads in it is large.
LEMMA QueuedOnce ==
  ASSUME SerialIInv
  PROVE  Len(waiting[Device]) = Cardinality(asleep)
<1> DEFINE s == waiting[Device]
           n == Len(s)
           of(i) == s[i].thread
           l == [i \in 1 .. n |-> of(i)]
<1>1. /\ s \in Seq(Nodes) /\ IsInjective(s) /\ DOMAIN s = 1 .. n /\ n \in Nat
      /\ \A i \in 1 .. n : s[i] \in Nodes
  BY SerialFacts, LenProperties, ElementOfSeq DEF SerialQueue
<1>2. \A i \in 1 .. n : of(i) \in Thread /\ s[i] = Node(of(i), {"any"})
  <2> SUFFICES ASSUME NEW i \in 1 .. n
               PROVE  of(i) \in Thread /\ s[i] = Node(of(i), {"any"})
    OBVIOUS
  <2>1. PICK t \in Thread : s[i] = Node(t, {"any"})
    BY <1>1 DEF Nodes
  <2> QED BY <2>1 DEF Node
<1>3. ToSet(s) = {s[i] : i \in 1 .. n}
  BY <1>1 DEF ToSet
<1>4. asleep = {of(i) : i \in 1 .. n}
  BY <1>3, SerialFacts DEF SerialQueue, queued
<1>5. l \in Seq(Thread) /\ Len(l) = n /\ DOMAIN l = 1 .. n
  <2> HIDE DEF of, n
  <2> QED BY <1>1, <1>2
<1>6. IsInjective(l)
  <2>1. \A i, j \in 1 .. n : l[i] = l[j] => i = j
    <3>1. \A i, j \in 1 .. n : of(i) = of(j) => s[i] = s[j]
      <4> HIDE DEF of, s, n
      <4> QED BY <1>2
    <3> QED BY <1>1, <3>1 DEF IsInjective
  <2> HIDE DEF l
  <2> QED BY <1>5, <2>1 DEF IsInjective
<1>7. ToSet(l) = asleep
  BY <1>4, <1>5 DEF ToSet
<1> HIDE DEF l, n
<1>8. Cardinality(ToSet(l)) = Len(l)
  BY ONLY <1>5, <1>6, CardinalityOfList
<1> QED BY <1>5, <1>7, <1>8 DEF n

LEMMA NobodySleeps ==
  SerialIInv /\ HoldsUpTo(rx, stamp) => NoSleepOverData
<1> SUFFICES ASSUME SerialIInv, HoldsUpTo(rx, stamp) PROVE NoSleepOverData
  OBVIOUS
<1> USE SerialFacts
<1>1. {t \in sleeping : left[t] > 0} = asleep
  BY DEF sleeping, asleep, SerialRuns, WaitPlaces
<1>2. KInv(k) /\ SerialTypeOK
  BY DEF SerialTypeOK, HoldsUpTo, RxRecord, KernelSound
<1>3. ASSUME asleep # {}, ~no_data(rx), ~sated
      PROVE  \E t \in Reader \ asleep :
               \/ pc[t] \in {"q_sched", "q_woken", "q_remove"}
               \/ pc[t] = "read" /\ left[t] > 0
               \/ pc[t] = "wait" /\ wakeup[Device]
  <2>1. \E t \in Thread : Drowsy(t)
    BY <1>3 DEF Drowsy, asleep
  <2>2. PICK t \in Thread : Awake(t)
    BY <1>3, <2>1 DEF SerialAwake
  <2>3. t \in Reader \ asleep
    BY <2>2 DEF Awake, SerialRuns
  <2> QED BY <2>2, <2>3 DEF Awake
<1>4. {n.thread : n \in ToSet(waiting[Device])} = asleep
  BY DEF SerialQueue, queued
<1> QED BY <1>1, <1>2, <1>3, <1>4, QueuedOnce DEF NoSleepOverData

\* No reader sleeps over bytes that nobody will read: the receive interrupt and
\* rt_wqueue_wait hand a wake-up over by the flag of the queue when it comes
\* between the test of the ring and the sleep, and by the list otherwise.
THEOREM SerialNoSleepOverData == SerialSpec => []NoSleepOverData
<1>1. SerialSpec => []SerialIInv
  BY InitSerial, SerialKept, PTL DEF SerialSpec
<1>2. SerialSpec => []HoldsUpTo(rx, stamp)
  BY InitLatest, LatestKept, PTL DEF SerialSpec
<1> QED BY <1>1, <1>2, NobodySleeps, PTL

-----------------------------------------------------------------------------
(* The end of threads (ThreadLife.tla): a thread is linked into one list   *)
(* at most, and a dead one waits for its release until it is released, or  *)
(* its cleanup is called, once.                                            *)

\* The deletion of a sleeping thread, or the detach of a static one that has a
\* cleanup, is left out, as in the run: with them neither property holds.
QuietMortals ==
  Mortal \cap Sleeper = {} /\ Mortal \cap Cleanup \subseteq Dynamic

\* The living threads have a sound kernel, one of them runs, and only those that
\* sleep have a timer.
LifeKernel ==
  /\ Live(k, doomed) /\ k.nest = 0 /\ k.stat[Idle] = "ready"
  /\ k.cur \notin doomed /\ k.timer \subseteq Sleeper

Deleting == {"del_timer", "del_close", "del_link"}

\* Who deletes whom.
Targets ==
  /\ target \in [Thread -> Mortal \cup {NoThread}]
  /\ \A t \in Thread : target[t] # NoThread <=> pc[t] \in Deleting
  /\ \A t, u \in Thread : target[t] = target[u] /\ target[t] # NoThread => t = u
  /\ \A t \in Thread : pc[t] = "del_link" => k.stat[target[t]] = "close"

\* The threads that wait for their release.
unfreed == ToSet(k.wait[Defunct])

\* The threads that have been released, or are in the hands of tidle.
released == (freed \cup {reap}) \ {NoThread}

Lists ==
  /\ \A q \in Queue \ {Defunct} : k.wait[q] = << >>
  /\ unfreed \subseteq Dynamic \cup Cleanup
  /\ \A t \in unfreed : k.stat[t] = "close" /\ t \notin doomed

Objects ==
  /\ sysobj \subseteq Thread \ Dynamic
  /\ \A t \in Thread \ Dynamic :
       k.stat[t] # "close" \/ t \in Cleanup => t \in sysobj

\* A dead thread that does not wait for its release has been released.
Releases ==
  /\ released \subseteq Dynamic /\ NoThread \notin freed
  /\ reap # NoThread <=> pc[Idle] = "idle_free"
  /\ \A t \in Dynamic : t \in released <=>
       k.stat[t] = "close" /\ t \notin doomed /\ t \notin unfreed
  /\ k.cur \notin released
  /\ cleaned \in [Cleanup -> 0 .. 1]
  /\ \A t \in Cleanup : cleaned[t] = 1 <=>
       k.stat[t] = "close" /\ t \notin doomed /\ t \notin unfreed

Places ==
  /\ pc \in [Thread -> LifePC]
  /\ \A t \in Thread :
       pc[t] \in {"idle_test", "idle_body", "idle_free"} => t = Idle
  /\ k.stat[k.cur] = "ready" \/ pc[k.cur] \in {"sched", "sleep", "exit"}

LifeIInv == LifeKernel /\ Targets /\ Lists /\ Objects /\ Releases /\ Places

LEMMA LifeFacts ==
  ASSUME LifeIInv
  PROVE  /\ k \in KernelState /\ k.cur \in Thread /\ Idle \in Thread
         /\ k.stat \in [Thread -> Stat] /\ k.wait \in [Queue -> Seq(Thread)]
         /\ doomed \subseteq Mortal /\ Mortal \subseteq Thread
         /\ Idle \notin Mortal /\ Idle \notin Sleeper /\ Idle \notin doomed
         /\ Dynamic \subseteq Thread /\ Cleanup \subseteq Thread
         /\ Sleeper \subseteq Thread /\ Defunct \in Queue
         /\ NoThread \notin Thread
         /\ Parked(k)
         /\ \A t \in Thread : k.stat[t] # "close" => Lone(k, t)
         /\ \A t \in Thread : \/ target[t] \in Mortal \cap doomed
                              \/ target[t] = NoThread
<1>1. /\ Idle \in Thread /\ Mortal \subseteq Thread
      /\ Idle \notin Mortal /\ Idle \notin Sleeper
      /\ Dynamic \subseteq Thread /\ Cleanup \subseteq Thread
      /\ Sleeper \subseteq Thread /\ Defunct \in Queue /\ NoThread \notin Thread
  BY ThreadLifeAssumption, KernelAssumption
<1>2. k \in KernelState
  BY LiveFacts DEF LifeIInv, LifeKernel
<1>3. /\ k.cur \in Thread
      /\ k.stat \in [Thread -> Stat] /\ k.wait \in [Queue -> Seq(Thread)]
  BY <1>2 DEF KernelState
<1>4. \A t \in Thread : target[t] \in Mortal \cup {NoThread}
  BY DEF LifeIInv, Targets
<1>5. doomed \subseteq Mortal
  BY <1>4 DEF doomed
<1>6. Parked(k)
  <2>1. \A q \in Queue \ {Defunct} : ToSet(k.wait[q]) = {}
    BY EmptyList, <1>3 DEF LifeIInv, Lists
  <2> QED BY <2>1 DEF LifeIInv, Lists, unfreed, Parked
<1>7. \A t \in Thread : k.stat[t] # "close" => Lone(k, t)
  BY <1>6 DEF Parked, Lone
<1>8. \A t \in Thread : target[t] \in doomed \/ target[t] = NoThread
  BY DEF doomed
<1> QED BY <1>1, <1>2, <1>3, <1>4, <1>5, <1>6, <1>7, <1>8

-----------------------------------------------------------------------------
\* The steps that change neither the lists nor what is being deleted.

Plain == {"run", "sched", "res_unlink", "res_insert", "sleep", "slept", "exit"}

\* The program counter of a thread moves between the plain places.
PlainStep ==
  \/ pc' = pc
  \/ \E t \in Thread, p \in Plain : pc[t] \in Plain /\ Go(t, p)

KernelKept ==
  /\ Live(k', doomed) /\ k'.nest = 0 /\ k'.cur \notin doomed
  /\ k'.timer \subseteq Sleeper /\ k'.wait = k.wait

\* Only living threads change their state, and none of them dies.
StatesKept ==
  /\ k'.stat[Idle] = "ready"
  /\ \A t \in Thread : \/ k'.stat[t] = k.stat[t]
                       \/ /\ t \notin doomed
                          /\ k.stat[t] # "close" /\ k'.stat[t] # "close"

\* The running thread has a reason to be one.
Running ==
  \/ k'.stat[k'.cur] = "ready" /\ k'.cur \in Thread
  \/ k'.cur = k.cur /\ pc'[k'.cur] \in {"sched", "sleep", "exit"}

LEMMA LifeQuiet ==
  ASSUME LifeIInv, UNCHANGED death, KernelKept, StatesKept, PlainStep, Running
  PROVE  LifeIInv'
<1> USE LifeFacts
<1>1. /\ target' = target /\ sysobj' = sysobj /\ reap' = reap
      /\ cleaned' = cleaned /\ freed' = freed
  BY DEF death
<1>2. doomed' = doomed /\ unfreed' = unfreed /\ released' = released
  BY <1>1 DEF doomed, unfreed, released, KernelKept
<1>3. LifeKernel'
  BY <1>2 DEF KernelKept, StatesKept, LifeKernel
<1>4. pc' \in [Thread -> LifePC] /\ pc \in [Thread -> LifePC]
  BY DEF PlainStep, Plain, Go, LifePC, LifeIInv, Places
<1>5. \A t \in Thread : \/ pc'[t] = pc[t]
                        \/ pc'[t] \in Plain /\ pc[t] \in Plain
  <2>1. CASE pc' = pc
    BY <2>1
  <2>2. CASE \E t \in Thread, p \in Plain : pc[t] \in Plain /\ Go(t, p)
    <3>1. PICK t \in Thread, p \in Plain : pc[t] \in Plain /\ Go(t, p)
      BY <2>2
    <3>2. pc' = [pc EXCEPT ![t] = p]
      BY <3>1 DEF Go
    <3> QED BY ONLY <1>4, <3>1, <3>2
  <2> QED BY <2>1, <2>2 DEF PlainStep
<1>6. \A t \in Thread : k.stat[t] = "close" <=> k'.stat[t] = "close"
  BY DEF StatesKept
<1>7. Targets'
  <2>1. \A t \in Thread : pc'[t] \in Deleting <=> pc[t] \in Deleting
    BY <1>5 DEF Plain, Deleting
  <2>2. \A t \in Thread : pc'[t] = "del_link" => pc[t] = "del_link"
    BY <1>5 DEF Plain
  <2>3. \A t \in Thread : pc'[t] = "del_link" => k'.stat[target[t]] = "close"
    <3>1. \A t \in Thread : pc[t] = "del_link" => target[t] \in Thread
      BY DEF LifeIInv, Targets, Deleting
    <3> QED BY <1>6, <2>2, <3>1 DEF LifeIInv, Targets
  <2> QED BY ONLY <1>1, <2>1, <2>3, LifeIInv DEF LifeIInv, Targets
<1>8. Lists'
  <2>1. unfreed \subseteq Thread
    BY DEF LifeIInv, Lists
  <2>2. \A t \in unfreed : k'.stat[t] = "close" /\ t \notin doomed
    BY <1>6, <2>1 DEF LifeIInv, Lists
  <2> QED BY <1>2, <2>2 DEF LifeIInv, Lists, KernelKept
<1>9. Objects'
  BY <1>1, <1>6 DEF LifeIInv, Objects
<1>10. Releases'
  <2>1. pc'[Idle] = "idle_free" <=> pc[Idle] = "idle_free"
    BY <1>5 DEF Plain
  <2>2. k'.cur \notin released
    <3>1. \A t \in released : k'.stat[t] = "close"
      BY <1>6 DEF LifeIInv, Releases
    <3>2. k.cur \notin released
      BY DEF LifeIInv, Releases
    <3> QED BY <3>1, <3>2 DEF Running
  <2>3. \A t \in Dynamic \cup Cleanup :
           k'.stat[t] = "close" <=> k.stat[t] = "close"
    BY <1>6
  <2> QED BY ONLY <1>1, <1>2, <2>1, <2>2, <2>3, LifeIInv DEF LifeIInv, Releases
<1>11. Places'
  <2>1. \A t \in Thread : pc'[t] \in {"idle_test", "idle_body", "idle_free"}
                             => t = Idle
    BY <1>5 DEF Plain, LifeIInv, Places
  <2> QED BY ONLY <1>4, <2>1, Running DEF Places, Running
<1> QED BY ONLY <1>3, <1>7, <1>8, <1>9, <1>10, <1>11 DEF LifeIInv

-----------------------------------------------------------------------------
LEMMA InitLife == LifeInit => LifeIInv
<1> SUFFICES ASSUME LifeInit PROVE LifeIInv
  OBVIOUS
<1>1. /\ Idle \in Thread /\ Mortal \subseteq Thread
      /\ Dynamic \subseteq Thread /\ Cleanup \subseteq Thread
      /\ Idle \notin Dynamic /\ Idle \notin Cleanup
      /\ Defunct \in Queue /\ NoThread \notin Thread
      /\ InitPrio \in [Thread -> Prio]
  BY ThreadLifeAssumption, KernelAssumption, DriversAssumption
<1>2. /\ sysobj = Thread \ Dynamic /\ target = [t \in Thread |-> NoThread]
      /\ reap = NoThread /\ cleaned = [t \in Cleanup |-> 0] /\ freed = {}
      /\ k = scheduler_started(InitPrio) /\ pc = [t \in Thread |-> "run"]
  BY DEF LifeInit, ThreadsInit
<1>3. Live(k, {})
  BY <1>1, <1>2, LiveStarted
<1>4. /\ k.stat = [t \in Thread |-> IF t = Idle THEN "ready" ELSE "init"]
      /\ k.wait = [q \in Queue |-> << >>] /\ k.timer = {}
      /\ \A q \in Queue : ToSet(k.wait[q]) = {}
      /\ k.cur = Idle /\ k.nest = 0
  BY ONLY <1>1, <1>2, StartedKernel
<1>5. doomed = {} /\ released = {} /\ unfreed = {}
  BY <1>1, <1>2, <1>4 DEF doomed, released, unfreed
<1>6. LifeKernel
  BY <1>1, <1>3, <1>4, <1>5 DEF LifeKernel
<1>7. Targets
  BY ONLY <1>1, <1>2 DEF Targets, Deleting
<1>8. Lists
  BY ONLY <1>4, <1>5 DEF Lists
<1>9. Objects
  BY ONLY <1>1, <1>2, <1>4 DEF Objects
<1>10. Releases
  <2>1. \A t \in Thread : k.stat[t] # "close"
    BY <1>4
  <2>2. cleaned \in [Cleanup -> 0 .. 1] /\ \A t \in Cleanup : cleaned[t] # 1
    BY <1>2
  <2> QED BY ONLY <1>1, <1>2, <1>5, <2>1, <2>2 DEF Releases
<1>11. Places
  BY ONLY <1>1, <1>2, <1>4 DEF Places, LifePC
<1> QED BY ONLY <1>6, <1>7, <1>8, <1>9, <1>10, <1>11 DEF LifeIInv

\* A plain step of the running thread.
LEMMA PlainAt ==
  ASSUME NEW t \in Thread, NEW p \in Plain, NEW o \in Plain, At(t, o), Go(t, p)
  PROVE  PlainStep /\ k.cur = t
BY DEF At, PlainStep

\* At a place where it does not wait to be switched from, the thread is ready.
LEMMA RunningReady ==
  ASSUME LifeIInv, NEW t \in Thread, NEW o, At(t, o),
         o \notin {"sched", "sleep", "exit"}
  PROVE  /\ k.cur = t /\ k.stat[t] = "ready" /\ t \notin doomed
         /\ Lone(k, t) /\ t \notin k.timer
<1>1. k.cur = t /\ k.stat[t] = "ready" /\ t \notin doomed
  BY DEF LifeIInv, LifeKernel, Places, At
<1>2. Lone(k, t) /\ t \notin k.timer
  BY <1>1, LifeFacts, LiveFacts DEF LifeIInv, LifeKernel
<1> QED BY <1>1, <1>2

\* rt_schedule() by the running thread.
LEMMA LifeSchedules ==
  ASSUME LifeIInv, UNCHANGED life, k' = rt_schedule(k), PlainStep
  PROVE  LifeIInv'
<1> USE LifeFacts
<1>1. PICK r : r = rt_schedule(k)
  OBVIOUS
<1>2. /\ Live(r, doomed) /\ SameThreads(k, r) /\ r.cur \in Thread
      /\ r.cur \notin doomed /\ r.stat[r.cur] = "ready"
  <2>1. /\ Live(k, doomed) /\ k.nest = 0 /\ k.cur \notin doomed /\ Parked(k)
        /\ k.stat[Idle] = "ready" /\ Idle \notin doomed
    BY DEF LifeIInv, LifeKernel
  <2> QED BY ONLY <1>1, <2>1, LiveSchedule
<1>3. k' = r
  BY <1>1
<1>4. KernelKept /\ StatesKept /\ Running
  BY <1>2, <1>3 DEF KernelKept, StatesKept, Running, SameThreads, LifeIInv,
                    LifeKernel
<1> QED BY <1>4, LifeQuiet DEF life

LEMMA LifeStart ==
  ASSUME LifeIInv, NEW t \in Thread, NEW new \in Thread, Start(t, new)
  PROVE  LifeIInv'
<1> USE LifeFacts
<1>1. /\ new \notin doomed /\ UNCHANGED death /\ At(t, "run") /\ Go(t, "sched")
      /\ k.stat[new] = "init" /\ InitPrio[new] \in Prio
      /\ k' = rt_thread_startup(k, new, InitPrio[new])
  BY DriversAssumption DEF Start, Startup, life
<1>2. PICK r : r = rt_thread_startup(k, new, InitPrio[new])
  OBVIOUS
<1>3. /\ Live(r, doomed) /\ SameWait(k, r)
      /\ r.stat = [k.stat EXCEPT ![new] = "ready"] /\ r.timer = k.timer
  <2>1. /\ Live(k, doomed) /\ new \in Thread /\ new \notin doomed
        /\ Lone(k, new) /\ k.stat[new] = "init" /\ InitPrio[new] \in Prio
    BY <1>1 DEF LifeIInv, LifeKernel
  <2> QED BY ONLY <1>2, <2>1, LiveStartup
<1>4. k' = r
  BY <1>1, <1>2
<1>5. PlainStep /\ k.cur = t /\ pc'[t] = "sched"
  BY <1>1, PlainAt DEF Plain, Go, LifeIInv, Places
<1>6. KernelKept
  BY <1>3, <1>4 DEF KernelKept, SameWait, LifeIInv, LifeKernel
<1>7. StatesKept
  BY <1>1, <1>3, <1>4 DEF StatesKept, LifeIInv, LifeKernel
<1>8. Running
  BY <1>3, <1>4, <1>5 DEF Running, SameWait
<1> QED BY ONLY <1>1, <1>5, <1>6, <1>7, <1>8, LifeQuiet, LifeIInv

\* rt_thread_resume tests the state of the thread.
LEMMA LifeResumeTest ==
  ASSUME LifeIInv, NEW t \in Thread, NEW v \in Thread, ResumeTest(t, v)
  PROVE  LifeIInv'
<1> USE LifeFacts
<1>1. /\ UNCHANGED death /\ At(t, "run") /\ Go(t, "res_unlink") /\ k' = k
  BY DEF ResumeTest
<1>2. k.cur = t /\ k.stat[t] = "ready"
  BY <1>1, RunningReady
<1>3. PlainStep
  BY <1>1, PlainAt DEF Plain
<1>4. KernelKept /\ StatesKept /\ Running
  BY <1>1, <1>2 DEF KernelKept, StatesKept, Running, LifeIInv, LifeKernel
<1> QED BY ONLY <1>1, <1>3, <1>4, LifeQuiet, LifeIInv

\* A living thread that sleeps is in no list, so that only its timer is stopped.
LEMMA LifeResumeUnlink ==
  ASSUME LifeIInv, NEW t \in Thread, NEW v \in Thread, ResumeUnlink(t, v)
  PROVE  LifeIInv'
<1> USE LifeFacts
<1>1. /\ UNCHANGED death /\ At(t, "res_unlink") /\ Go(t, "res_insert")
      /\ k.stat[v] = "suspend" /\ v \notin doomed /\ k' = resume_unlink(k, v)
  BY DEF ResumeUnlink, Asleep, life
<1>2. k.cur = t /\ k.stat[t] = "ready"
  BY <1>1, RunningReady
<1>3. PICK r : r = rt_timer_stop(rt_list_remove(k, v), v)
  OBVIOUS
<1>4. Live(r, doomed) /\ SameWait(k, r) /\ r.stat = k.stat
      /\ r.timer = k.timer \ {v}
  <2>1. /\ Live(k, doomed) /\ v \notin doomed /\ Lone(k, v)
        /\ k.stat[v] = "suspend"
    BY <1>1 DEF LifeIInv, LifeKernel
  <2> QED BY ONLY <1>3, <2>1, v \in Thread, LiveLoosen
<1>5. k' = r
  BY <1>1, <1>3 DEF resume_unlink
<1>6. PlainStep
  BY <1>1, PlainAt DEF Plain
<1>7. KernelKept
  BY <1>4, <1>5 DEF KernelKept, SameWait, LifeIInv, LifeKernel
<1>8. StatesKept
  BY <1>4, <1>5 DEF StatesKept, LifeIInv, LifeKernel
<1>9. Running
  BY <1>2, <1>4, <1>5 DEF Running, SameWait
<1> QED BY ONLY <1>1, <1>6, <1>7, <1>8, <1>9, LifeQuiet, LifeIInv

LEMMA LifeResumeInsert ==
  ASSUME LifeIInv, NEW t \in Thread, NEW v \in Thread, ResumeInsert(t, v)
  PROVE  LifeIInv'
<1> USE LifeFacts
<1>1. /\ v \notin doomed /\ UNCHANGED death
      /\ At(t, "res_insert") /\ Go(t, "sched")
      /\ k.stat[v] = "suspend" /\ v \notin k.timer /\ Lone(k, v)
      /\ k' = rt_schedule_insert_thread(k, v)
  BY DEF ResumeInsert, Loosened, Lone
<1>2. PICK r : r = rt_schedule_insert_thread(k, v)
  OBVIOUS
<1>3. /\ Live(r, doomed) /\ SameWait(k, r)
      /\ r.stat = [k.stat EXCEPT ![v] = "ready"] /\ r.timer = k.timer
  <2>1. /\ Live(k, doomed) /\ v \in Thread /\ v \notin doomed
        /\ Lone(k, v) /\ k.stat[v] = "suspend" /\ v \notin k.timer
    BY <1>1 DEF LifeIInv, LifeKernel
  <2> QED BY ONLY <1>2, <2>1, LiveInsert
<1>4. k' = r
  BY <1>1, <1>2
<1>5. PlainStep /\ k.cur = t /\ pc'[t] = "sched"
  BY <1>1, PlainAt DEF Plain, Go, LifeIInv, Places
<1>6. KernelKept
  BY <1>3, <1>4 DEF KernelKept, SameWait, LifeIInv, LifeKernel
<1>7. StatesKept
  <2>1. \A u \in Thread : k'.stat[u] = IF u = v THEN "ready" ELSE k.stat[u]
    BY <1>3, <1>4
  <2>2. k.stat[Idle] = "ready"
    BY DEF LifeIInv, LifeKernel
  <2> QED BY ONLY <1>1, <2>1, <2>2, LifeFacts, LifeIInv DEF StatesKept
<1>8. Running
  BY <1>3, <1>4, <1>5 DEF Running, SameWait
<1> QED BY ONLY <1>1, <1>5, <1>6, <1>7, <1>8, LifeQuiet, LifeIInv

\* Nothing changes but the note that the resume came too late.
LEMMA LifeResumeLate ==
  ASSUME LifeIInv, UNCHANGED <<threads, death>>
  PROVE  LifeIInv'
<1>1. /\ k' = k /\ pc' = pc /\ target' = target /\ sysobj' = sysobj
      /\ reap' = reap /\ cleaned' = cleaned /\ freed' = freed
  BY DEF death, threads
<1>2. doomed' = doomed /\ unfreed' = unfreed /\ released' = released
  BY <1>1 DEF doomed, unfreed, released
<1> QED BY ONLY <1>1, <1>2, LifeIInv DEF LifeIInv, LifeKernel, Targets, Lists,
           Objects, Releases, Places

\* rt_thread_suspend and rt_thread_sleep of the running thread.
LEMMA LifeBlocks ==
  ASSUME LifeIInv, NEW t \in Thread, Suspend(t) \/ Sleep(t)
  PROVE  LifeIInv'
<1> USE LifeFacts
<1>1. /\ UNCHANGED death /\ At(t, "run") /\ t # Idle
      /\ \/ Go(t, "sched") /\ k' = rt_thread_suspend(k, t)
         \/ Go(t, "sleep") /\ k' = rt_thread_sleep(k, t) /\ t \in Sleeper
  BY DEF Suspend, Sleep, life
<1>2. k.cur = t /\ k.stat[t] = "ready" /\ t \notin doomed /\ Lone(k, t)
  BY <1>1, RunningReady
<1>3. /\ Live(k', doomed) /\ SameWait(k, k')
      /\ k'.stat = [k.stat EXCEPT ![t] = "suspend"]
      /\ k'.timer \subseteq Sleeper
  <2>1. /\ Live(k, doomed) /\ k.cur \notin doomed
        /\ Lone(k, k.cur) /\ k.stat[k.cur] = "ready"
    BY <1>2 DEF LifeIInv, LifeKernel
  <2>2. k.timer \subseteq Sleeper
    BY DEF LifeIInv, LifeKernel
  <2>3. CASE k' = rt_thread_suspend(k, t)
    <3>1. PICK r : r = rt_thread_suspend(k, k.cur)
      OBVIOUS
    <3>2. /\ Live(r, doomed) /\ SameWait(k, r)
          /\ r.stat = [k.stat EXCEPT ![k.cur] = "suspend"]
          /\ r.timer = k.timer \ {k.cur}
      BY ONLY <2>1, <3>1, LiveSuspend
    <3> QED BY <1>2, <2>2, <2>3, <3>1, <3>2
  <2>4. CASE k' = rt_thread_sleep(k, t) /\ t \in Sleeper
    <3>1. PICK r : r = rt_thread_sleep(k, k.cur)
      OBVIOUS
    <3>2. /\ Live(r, doomed) /\ SameWait(k, r)
          /\ r.stat = [k.stat EXCEPT ![k.cur] = "suspend"]
          /\ r.timer = k.timer \cup {k.cur}
      BY ONLY <2>1, <3>1, LiveSleep
    <3> QED BY <1>2, <2>2, <2>4, <3>1, <3>2
  <2> QED BY <1>1, <2>3, <2>4
<1>4. PlainStep /\ pc'[t] \in {"sched", "sleep"}
  BY <1>1, PlainAt DEF Plain, Go, LifeIInv, Places
<1>5. KernelKept
  BY <1>3 DEF KernelKept, SameWait, LifeIInv, LifeKernel
<1>6. StatesKept
  BY <1>1, <1>2, <1>3 DEF StatesKept, LifeIInv, LifeKernel
<1>7. Running
  BY <1>2, <1>3, <1>4 DEF Running, SameWait
<1> QED BY ONLY <1>1, <1>4, <1>5, <1>6, <1>7, LifeQuiet, LifeIInv

LEMMA LifeReturns ==
  ASSUME LifeIInv, NEW t \in Thread, SleepReturn(t)
  PROVE  LifeIInv'
<1> USE LifeFacts
<1>1. /\ UNCHANGED death /\ At(t, "slept") /\ Go(t, "run")
      /\ k' = [k EXCEPT !.err[t] = IF @ = "etimeout" THEN "eok" ELSE @]
  BY DEF SleepReturn, life
<1>2. k.cur = t /\ k.stat[t] = "ready"
  BY <1>1, RunningReady
<1>3. PICK e : e = IF k.err[t] = "etimeout" THEN "eok" ELSE k.err[t]
  OBVIOUS
<1>4. e \in Err
  BY <1>3 DEF KernelState, Err
<1>5. PICK r : r = [k EXCEPT !.err[t] = e]
  OBVIOUS
<1>6. Live(r, doomed) /\ SameWait(k, r) /\ r.stat = k.stat /\ r.timer = k.timer
  <2>1. Live(k, doomed) /\ t \in Thread
    BY DEF LifeIInv, LifeKernel
  <2> QED BY ONLY <1>4, <1>5, <2>1, LiveError
<1>7. k' = r
  BY <1>1, <1>3, <1>5
<1>8. PlainStep
  BY <1>1, PlainAt DEF Plain
<1>9. KernelKept
  BY <1>6, <1>7 DEF KernelKept, SameWait, LifeIInv, LifeKernel
<1>10. StatesKept
  BY <1>6, <1>7 DEF StatesKept, LifeIInv, LifeKernel
<1>11. Running
  BY <1>2, <1>6, <1>7 DEF Running, SameWait
<1> QED BY ONLY <1>1, <1>8, <1>9, <1>10, <1>11, LifeQuiet, LifeIInv

LEMMA LifeExpires ==
  ASSUME LifeIInv, NEW t \in Thread, TimerExpire(t), UNCHANGED life
  PROVE  LifeIInv'
<1> USE LifeFacts
<1>1. t \in k.timer /\ k' = rt_thread_timeout(k, t) /\ pc' = pc
  BY DEF TimerExpire
<1>2. k.stat[t] = "suspend" /\ t \notin doomed
  BY <1>1, LiveFacts DEF LifeIInv, LifeKernel
<1>3. PICK r : r = rt_thread_timeout(k, t)
  OBVIOUS
<1>4. /\ Live(r, doomed) /\ r.wait = k.wait /\ r.nest = 0
      /\ r.stat = [k.stat EXCEPT ![t] = "ready"]
      /\ r.timer = k.timer \ {t}
      /\ r.cur \in Thread /\ r.cur \notin doomed /\ r.stat[r.cur] = "ready"
  <2>1. /\ Live(k, doomed) /\ k.nest = 0 /\ k.cur \notin doomed /\ Parked(k)
        /\ k.stat[Idle] = "ready" /\ Idle \notin doomed
    BY DEF LifeIInv, LifeKernel
  <2> QED BY ONLY <1>1, <1>3, <2>1, LiveTimeout
<1>5. k' = r
  BY <1>1, <1>3
<1>6. KernelKept
  BY <1>4, <1>5 DEF KernelKept, LifeIInv, LifeKernel
<1>7. StatesKept
  BY <1>2, <1>4, <1>5 DEF StatesKept, LifeIInv, LifeKernel
<1>8. Running
  BY <1>4, <1>5 DEF Running
<1>9. PlainStep
  BY <1>1 DEF PlainStep
<1> QED BY ONLY <1>6, <1>7, <1>8, <1>9, LifeQuiet, LifeIInv, UNCHANGED life
         DEF life

-----------------------------------------------------------------------------
(* The steps that kill a thread or release it.                             *)

LEMMA GoFacts ==
  ASSUME LifeIInv, NEW t \in Thread, NEW p \in LifePC, Go(t, p)
  PROVE  /\ pc' \in [Thread -> LifePC] /\ pc'[t] = p
         /\ \A u \in Thread : u # t => pc'[u] = pc[u]
<1>1. pc \in [Thread -> LifePC] /\ pc' = [pc EXCEPT ![t] = p]
  BY DEF Go, LifeIInv, Places
<1> QED BY ONLY <1>1, t \in Thread, p \in LifePC

\* A step of a thread that is not deleting another one.
LEMMA SameTargets ==
  ASSUME LifeIInv, target' = target, NEW t \in Thread, NEW o, NEW p \in LifePC,
         At(t, o), Go(t, p), o \notin Deleting, p \notin Deleting,
         \A u \in Thread : k.stat[u] = "close" => k'.stat[u] = "close"
  PROVE  Targets' /\ doomed' = doomed
<1>1. pc[t] = o /\ pc'[t] = p /\ \A u \in Thread : u # t => pc'[u] = pc[u]
  BY GoFacts DEF At
<1>2. \A u \in Thread : pc'[u] \in Deleting <=> pc[u] \in Deleting
  BY <1>1
<1>3. \A u \in Thread : pc'[u] = "del_link" => pc[u] = "del_link"
  BY <1>1 DEF Deleting
<1>4. \A u \in Thread : pc[u] = "del_link" => target[u] \in Thread
  BY LifeFacts DEF LifeIInv, Targets, Deleting
<1>5. \A u \in Thread : pc'[u] = "del_link" => k'.stat[target[u]] = "close"
  BY <1>3, <1>4 DEF LifeIInv, Targets
<1>6. Targets'
  BY ONLY <1>2, <1>5, LifeIInv, target' = target DEF LifeIInv, Targets
<1>7. doomed' = doomed
  BY DEF doomed
<1> QED BY <1>6, <1>7

LEMMA StepPlaces ==
  ASSUME LifeIInv, NEW t \in Thread, NEW p \in LifePC, Go(t, p),
         p \in {"idle_test", "idle_body", "idle_free"} => t = Idle,
         \/ k'.stat[k'.cur] = "ready"
         \/ k'.cur = t /\ p \in {"sched", "sleep", "exit"}
  PROVE  Places'
<1>1. /\ pc' \in [Thread -> LifePC] /\ pc'[t] = p
      /\ \A u \in Thread : u # t => pc'[u] = pc[u]
  BY GoFacts
<1>2. \A u \in Thread :
         pc'[u] \in {"idle_test", "idle_body", "idle_free"} => u = Idle
  BY <1>1 DEF LifeIInv, Places
<1>3. k'.stat[k'.cur] = "ready" \/ pc'[k'.cur] \in {"sched", "sleep", "exit"}
  BY <1>1
<1> QED BY ONLY <1>1, <1>2, <1>3 DEF Places

\* The thread t is put into the list of the dead threads.
LEMMA DefunctFacts ==
  ASSUME NEW j, NEW D, Live(j, D), NEW t \in Thread, Lone(j, t),
         NEW r, r = defunct(j, t), Defunct \in Queue
  PROVE  /\ Live(r, D) /\ r.stat = j.stat /\ r.timer = j.timer
         /\ r.cur = j.cur /\ r.nest = j.nest
         /\ ToSet(r.wait[Defunct]) = ToSet(j.wait[Defunct]) \cup {t}
         /\ \A x \in Queue \ {Defunct} : r.wait[x] = j.wait[x]
<1>1. /\ Live(j, D) /\ t \in Thread /\ Defunct \in Queue
      /\ t \notin ToSet(j.wait[Defunct])
      /\ LinkedFirst(j, t, Defunct, r)
  BY DEF defunct, Lone, LinkedFirst
<1> QED BY ONLY <1>1, LiveLink

LEMMA LifeExits ==
  ASSUME LifeIInv, NEW t \in Thread, Exit(t)
  PROVE  LifeIInv'
<1> USE LifeFacts
<1>1. /\ At(t, "run") /\ t # Idle /\ Go(t, "exit")
      /\ target' = target /\ reap' = reap /\ cleaned' = cleaned
      /\ freed' = freed /\ "exit" \in LifePC
  BY DEF Exit, LifePC
<1>2. /\ k.cur = t /\ k.stat[t] = "ready" /\ t \notin doomed /\ Lone(k, t)
      /\ t \notin k.timer
  BY <1>1, RunningReady
<1>3. PICK k1 : k1 = rt_schedule_remove_thread(k, t)
  OBVIOUS
<1>4. PICK k2 : k2 = [k1 EXCEPT !.stat[t] = "close"]
  OBVIOUS
<1>5. PICK j : j = rt_timer_stop(k2, t)
  OBVIOUS
<1>6. /\ Live(j, doomed) /\ SameWait(k, j) /\ j.timer = k.timer
      /\ j.stat = [k.stat EXCEPT ![t] = "close"]
  <2>1. /\ Live(k, doomed) /\ t \in Thread /\ t = k.cur /\ t \notin doomed
        /\ Lone(k, t) /\ k.stat[t] = "ready" /\ StateSet(k1, t, "close", k2)
    BY <1>2, <1>4 DEF LifeIInv, LifeKernel, StateSet
  <2> QED BY ONLY <1>3, <1>5, <2>1, LiveExit
<1>7. \/ k' = j /\ t \in sysobj \ Cleanup /\ sysobj' = sysobj \ {t}
      \/ k' = defunct(j, t) /\ t \notin sysobj \ Cleanup /\ sysobj' = sysobj
  BY <1>3, <1>4, <1>5 DEF Exit
<1>8. /\ Live(k', doomed) /\ k'.stat = [k.stat EXCEPT ![t] = "close"]
      /\ k'.timer = k.timer /\ k'.cur = t /\ k'.nest = k.nest
      /\ \A x \in Queue \ {Defunct} : k'.wait[x] = k.wait[x]
      /\ IF t \in sysobj \ Cleanup THEN unfreed' = unfreed
         ELSE unfreed' = unfreed \cup {t}
  <2>1. CASE k' = j /\ t \in sysobj \ Cleanup
    BY <1>2, <1>6, <2>1 DEF SameWait, unfreed
  <2>2. CASE k' = defunct(j, t) /\ t \notin sysobj \ Cleanup
    <3>1. Lone(j, t) /\ Defunct \in Queue
      BY <1>2, <1>6 DEF Lone, SameWait
    <3>2. PICK r : r = defunct(j, t)
      OBVIOUS
    <3>3. /\ Live(r, doomed) /\ r.stat = j.stat /\ r.timer = j.timer
          /\ r.cur = j.cur /\ r.nest = j.nest
          /\ ToSet(r.wait[Defunct]) = ToSet(j.wait[Defunct]) \cup {t}
          /\ \A x \in Queue \ {Defunct} : r.wait[x] = j.wait[x]
      BY ONLY <1>6, <3>1, <3>2, t \in Thread, DefunctFacts
    <3> QED BY <1>2, <1>6, <2>2, <3>2, <3>3 DEF SameWait, unfreed
  <2> QED BY <1>7, <2>1, <2>2
<1>9. \A u \in Thread : k'.stat[u] = IF u = t THEN "close" ELSE k.stat[u]
  BY <1>8
<1>10. Targets' /\ doomed' = doomed
  <2>1. \A u \in Thread : k.stat[u] = "close" => k'.stat[u] = "close"
    BY <1>9
  <2>2. "run" \notin Deleting /\ "exit" \notin Deleting
    BY DEF Deleting
  <2> QED BY ONLY <1>1, <2>1, <2>2, LifeIInv, t \in Thread, SameTargets
<1>11. Places'
  BY <1>1, <1>8, StepPlaces
<1>12. LifeKernel'
  BY <1>1, <1>2, <1>8, <1>9, <1>10 DEF LifeIInv, LifeKernel
<1>13. t \in Dynamic \cup Cleanup \/ t \in sysobj \ Cleanup
  BY <1>2 DEF LifeIInv, Objects
<1>14. Lists'
  <2>1. \A u \in unfreed : u \in Thread /\ k'.stat[u] = "close" /\ u \notin doomed
    BY <1>9 DEF LifeIInv, Lists
  <2>2. unfreed' \subseteq Dynamic \cup Cleanup
    BY <1>8, <1>13 DEF LifeIInv, Lists
  <2>3. \A u \in unfreed' : k'.stat[u] = "close" /\ u \notin doomed
    BY <1>2, <1>8, <1>9, <2>1
  <2>4. \A q \in Queue \ {Defunct} : k'.wait[q] = << >>
    BY <1>8 DEF LifeIInv, Lists
  <2> QED BY <1>10, <2>2, <2>3, <2>4 DEF Lists
<1>15. Objects'
  BY <1>7, <1>9 DEF LifeIInv, Objects
<1>16. Releases'
  <2>1. released' = released
    BY <1>1 DEF released
  <2>2. pc'[Idle] = pc[Idle]
    BY <1>1, GoFacts
  <2>3. t \notin released /\ t \notin unfreed
    BY <1>2 DEF LifeIInv, Releases, Lists
  <2>4. \A u \in Dynamic : u \in released <=>
           k'.stat[u] = "close" /\ u \notin doomed /\ u \notin unfreed'
    <3>1. t \in Dynamic => t \in unfreed'
      BY <1>8 DEF LifeIInv, Objects
    <3>2. \A u \in Dynamic : u # t => (u \in unfreed' <=> u \in unfreed)
      BY <1>8
    <3> QED BY <1>9, <2>3, <3>1, <3>2 DEF LifeIInv, Releases
  <2>5. \A u \in Cleanup : cleaned[u] = 1 <=>
           k'.stat[u] = "close" /\ u \notin doomed /\ u \notin unfreed'
    <3>1. t \in Cleanup => t \in unfreed' /\ cleaned[t] # 1
      BY <1>2, <1>8 DEF LifeIInv, Releases
    <3>2. \A u \in Cleanup : u # t => (u \in unfreed' <=> u \in unfreed)
      BY <1>8
    <3> QED BY <1>9, <3>1, <3>2 DEF LifeIInv, Releases
  <2> QED BY ONLY <1>1, <1>8, <1>10, <2>1, <2>2, <2>3, <2>4, <2>5, LifeIInv
          DEF LifeIInv, Releases
<1> QED BY ONLY <1>10, <1>11, <1>12, <1>14, <1>15, <1>16 DEF LifeIInv

\* tidle enters the loop, or looks for a dead thread.
LEMMA IdleLooks ==
  ASSUME LifeIInv, IdleEnter \/ IdleTest
  PROVE  LifeIInv'
<1> USE LifeFacts
<1>1. PICK o \in {"run", "idle_test"}, p \in {"run", "idle_test", "idle_body"} :
        /\ At(Idle, o) /\ Go(Idle, p) /\ k' = k
        /\ target' = target /\ reap' = reap /\ cleaned' = cleaned
        /\ freed' = freed /\ sysobj' = sysobj
  BY DEF IdleEnter, IdleTest, Go, life, death
<1>2. p \in LifePC /\ p \notin Deleting /\ o \notin Deleting
  BY DEF LifePC, Deleting
<1>3. k.cur = Idle /\ pc[Idle] = o /\ pc'[Idle] = p
  BY <1>1, <1>2, GoFacts DEF At
<1>4. Targets' /\ doomed' = doomed
  BY <1>1, <1>2, SameTargets
<1>5. k'.stat[k'.cur] = "ready"
  BY <1>1, <1>3 DEF LifeIInv, LifeKernel
<1>6. Places'
  BY <1>1, <1>2, <1>5, StepPlaces
<1>7. unfreed' = unfreed /\ released' = released
  BY <1>1 DEF unfreed, released
<1>8. LifeKernel' /\ Lists' /\ Objects'
  BY <1>1, <1>4, <1>7 DEF LifeIInv, LifeKernel, Lists, Objects
<1>9. Releases'
  <2>1. pc'[Idle] = "idle_free" <=> pc[Idle] = "idle_free"
    BY <1>3
  <2> QED BY ONLY <1>1, <1>4, <1>7, <2>1, LifeIInv DEF LifeIInv, Releases
<1> QED BY ONLY <1>4, <1>6, <1>8, <1>9 DEF LifeIInv

LEMMA IdleFrees ==
  ASSUME LifeIInv, IdleFree
  PROVE  LifeIInv'
<1> USE LifeFacts
<1>1. /\ At(Idle, "idle_free") /\ Go(Idle, "idle_test") /\ k' = k
      /\ target' = target /\ cleaned' = cleaned /\ sysobj' = sysobj
      /\ freed' = freed \cup {reap} /\ reap' = NoThread
      /\ "idle_test" \in LifePC /\ "idle_test" \notin Deleting
      /\ "idle_free" \notin Deleting
  BY DEF IdleFree, LifePC, Deleting
<1>2. k.cur = Idle /\ pc[Idle] = "idle_free" /\ pc'[Idle] = "idle_test"
  BY <1>1, GoFacts DEF At
<1>3. Targets' /\ doomed' = doomed
  BY <1>1, SameTargets
<1>4. k'.stat[k'.cur] = "ready"
  BY <1>1, <1>2 DEF LifeIInv, LifeKernel
<1>5. Places'
  BY <1>1, <1>4, StepPlaces
<1>6. unfreed' = unfreed
  BY <1>1 DEF unfreed
<1>7. released' = released
  BY <1>1 DEF released
<1>8. LifeKernel' /\ Lists' /\ Objects'
  BY <1>1, <1>3, <1>6 DEF LifeIInv, LifeKernel, Lists, Objects
<1>9. Releases'
  <2>1. NoThread \notin freed'
    BY <1>1, <1>2 DEF LifeIInv, Releases
  <2> QED BY ONLY <1>1, <1>2, <1>3, <1>6, <1>7, <2>1, LifeIInv
          DEF LifeIInv, Releases
<1> QED BY ONLY <1>3, <1>5, <1>8, <1>9 DEF LifeIInv

-----------------------------------------------------------------------------
(* The four critical sections of rt_thread_delete.                         *)

LEMMA LifeDeletes ==
  ASSUME QuietMortals, LifeIInv, NEW t \in Thread, NEW v \in Thread,
         DeleteRemove(t, v)
  PROVE  LifeIInv'
<1> USE LifeFacts
<1>1. /\ At(t, "run") /\ t # Idle /\ Go(t, "del_timer")
      /\ v \in Mortal /\ v \notin doomed /\ v # t /\ k.stat[v] # "close"
      /\ k' = IF k.stat[v] # "init" THEN rt_schedule_remove_thread(k, v) ELSE k
      /\ target' = [target EXCEPT ![t] = v]
      /\ sysobj' = sysobj /\ reap' = reap /\ cleaned' = cleaned
      /\ freed' = freed /\ "del_timer" \in LifePC
  BY DEF DeleteRemove, LifePC
<1>2. k.cur = t /\ k.stat[t] = "ready" /\ t \notin doomed
  BY <1>1, RunningReady
<1>3. Lone(k, v) /\ v \notin k.timer
  BY <1>1 DEF QuietMortals, LifeIInv, LifeKernel
<1>4. /\ target \in [Thread -> Mortal \cup {NoThread}] /\ target[t] = NoThread
      /\ \A u \in Thread : target[u] # v
  <2>1. pc[t] \notin Deleting
    BY <1>1 DEF At, Deleting
  <2>2. \A u \in Thread : target[u] # v
    BY <1>1 DEF doomed
  <2> QED BY <2>1, <2>2 DEF LifeIInv, Targets
<1>5. \A u \in Thread : target'[u] = IF u = t THEN v ELSE target[u]
  BY <1>1, <1>4
<1>6. WithThread(doomed, v, doomed')
  <2>1. \A x : x \in doomed <=> x # NoThread /\ \E u \in Thread : target[u] = x
    BY DEF doomed
  <2>2. \A x : x \in doomed' <=> x # NoThread /\ \E u \in Thread : target'[u] = x
    BY DEF doomed
  <2>3. \A x : x \in doomed' <=> x \in doomed \/ x = v
    BY ONLY <1>1, <1>4, <1>5, <2>1, <2>2, LifeFacts, LifeIInv,
             t \in Thread, v \in Thread
  <2> QED BY ONLY <2>3 DEF WithThread
<1>7. PICK r : r = IF k.stat[v] # "init" THEN rt_schedule_remove_thread(k, v)
                   ELSE k
  OBVIOUS
<1>8. Live(r, doomed') /\ SameWait(k, r) /\ r.timer = k.timer /\ r.stat = k.stat
  <2>1. Live(k, doomed) /\ v \in Thread /\ v \notin k.timer /\ v \notin doomed
        /\ Lone(k, v)
    BY <1>1, <1>3 DEF LifeIInv, LifeKernel
  <2> QED BY ONLY <1>6, <1>7, <2>1, LiveDelete
<1>9. k' = r
  BY <1>1, <1>7
<1>10. \A x : x \in doomed' <=> x \in doomed \/ x = v
  BY <1>6 DEF WithThread
<1>11. unfreed' = unfreed /\ released' = released /\ k'.cur = t
  BY <1>1, <1>2, <1>8, <1>9 DEF unfreed, released, SameWait
<1>12. v \notin unfreed
  BY <1>1 DEF LifeIInv, Lists
<1>13. /\ pc' \in [Thread -> LifePC] /\ pc'[t] = "del_timer"
       /\ \A u \in Thread : u # t => pc'[u] = pc[u]
  BY <1>1, GoFacts
<1>14. LifeKernel'
  BY <1>1, <1>2, <1>8, <1>9, <1>10 DEF LifeIInv, LifeKernel, SameWait
<1>15. Targets'
  <2>1. target' \in [Thread -> Mortal \cup {NoThread}]
    BY <1>1, <1>4
  <2>2. \A u \in Thread : target'[u] # NoThread <=> pc'[u] \in Deleting
    <3>1. v # NoThread
      OBVIOUS
    <3> QED BY <1>5, <1>13, <3>1 DEF LifeIInv, Targets, Deleting
  <2>3. \A x, u \in Thread : target'[x] = target'[u] /\ target'[x] # NoThread
                                => x = u
    BY <1>4, <1>5 DEF LifeIInv, Targets
  <2>4. \A u \in Thread : pc'[u] = "del_link" => k'.stat[target'[u]] = "close"
    BY <1>5, <1>8, <1>9, <1>13 DEF LifeIInv, Targets
  <2> QED BY ONLY <2>1, <2>2, <2>3, <2>4 DEF Targets
<1>16. Lists'
  <2>1. k'.wait = k.wait
    BY <1>8, <1>9 DEF SameWait
  <2> QED BY <1>8, <1>9, <1>10, <1>11, <1>12, <2>1 DEF LifeIInv, Lists
<1>17. Objects'
  BY <1>1, <1>8, <1>9 DEF LifeIInv, Objects
<1>18. Releases'
  <2>1. pc'[Idle] = pc[Idle]
    BY <1>1, <1>13
  <2>2. t \notin released
    BY <1>2 DEF LifeIInv, Releases
  <2>3. \A u \in Thread : k.stat[u] = "close" =>
           (u \in doomed' <=> u \in doomed)
    BY <1>1, <1>10
  <2> QED BY ONLY <1>1, <1>8, <1>9, <1>11, <2>1, <2>2, <2>3, LifeFacts, LifeIInv
          DEF LifeIInv, Releases
<1>19. Places'
  <2>1. k'.stat[k'.cur] = "ready"
    BY <1>2, <1>8, <1>9, <1>11
  <2> QED BY <1>1, <2>1, StepPlaces
<1> QED BY ONLY <1>14, <1>15, <1>16, <1>17, <1>18, <1>19 DEF LifeIInv

\* What the thread t that deletes v does next, before the last step.
LEMMA DeletingFacts ==
  ASSUME LifeIInv, NEW t \in Thread, NEW o \in Deleting, At(t, o)
  PROVE  /\ k.cur = t /\ k.stat[t] = "ready" /\ t \notin doomed /\ pc[t] = o
         /\ target[t] \in Mortal /\ target[t] \in doomed /\ target[t] # t
         /\ target[t] \in Thread /\ target[t] # Idle
         /\ target[t] \notin k.timer /\ target[t] \notin unfreed
<1> USE LifeFacts
<1>1. k.cur = t /\ k.stat[t] = "ready" /\ t \notin doomed /\ pc[t] = o
  BY RunningReady DEF Deleting, At
<1>2. target[t] # NoThread
  BY <1>1 DEF LifeIInv, Targets
<1>3. target[t] \in Mortal \cap doomed
  BY <1>2
<1>4. target[t] \notin k.timer
  BY <1>3, LiveFacts DEF LifeIInv, LifeKernel
<1>5. target[t] \notin unfreed
  BY <1>3 DEF LifeIInv, Lists
<1> QED BY <1>1, <1>3, <1>4, <1>5

LEMMA DeleteStopsTimer ==
  ASSUME LifeIInv, NEW t \in Thread, DeleteTimer(t)
  PROVE  LifeIInv'
<1> USE LifeFacts
<1>1. /\ At(t, "del_timer") /\ Go(t, "del_close") /\ UNCHANGED life
      /\ k' = rt_timer_stop(k, target[t])
      /\ "del_timer" \in Deleting /\ "del_close" \in LifePC
  BY DEF DeleteTimer, LifePC, Deleting
<1>2. /\ k.cur = t /\ k.stat[t] = "ready" /\ pc[t] = "del_timer"
      /\ target[t] \notin k.timer
  BY <1>1, DeletingFacts
<1>3. k' = k
  <2>1. k.timer \ {target[t]} = k.timer
    BY <1>2
  <2> QED BY <1>1, <2>1 DEF rt_timer_stop, KernelState
<1>4. /\ target' = target /\ sysobj' = sysobj /\ reap' = reap
      /\ cleaned' = cleaned /\ freed' = freed
  BY <1>1 DEF life, death
<1>5. doomed' = doomed /\ unfreed' = unfreed /\ released' = released
  BY <1>3, <1>4 DEF doomed, unfreed, released
<1>6. /\ pc'[t] = "del_close" /\ \A u \in Thread : u # t => pc'[u] = pc[u]
  BY <1>1, GoFacts
<1>7. LifeKernel' /\ Lists' /\ Objects'
  BY <1>3, <1>4, <1>5 DEF LifeIInv, LifeKernel, Lists, Objects
<1>8. Targets'
  <2>1. \A u \in Thread : pc'[u] \in Deleting <=> pc[u] \in Deleting
    BY <1>2, <1>6 DEF Deleting
  <2>2. \A u \in Thread : pc'[u] = "del_link" => pc[u] = "del_link"
    BY <1>6
  <2> QED BY ONLY <1>3, <1>4, <2>1, <2>2, LifeIInv DEF LifeIInv, Targets
<1>9. Releases'
  <2>1. pc'[Idle] = "idle_free" <=> pc[Idle] = "idle_free"
    BY <1>2, <1>6
  <2> QED BY ONLY <1>3, <1>4, <1>5, <2>1, LifeIInv DEF LifeIInv, Releases
<1>10. Places'
  BY <1>1, <1>2, <1>3, StepPlaces
<1> QED BY ONLY <1>7, <1>8, <1>9, <1>10 DEF LifeIInv

LEMMA DeleteCloses ==
  ASSUME QuietMortals, LifeIInv, NEW t \in Thread, DeleteClose(t)
  PROVE  LifeIInv'
<1> USE LifeFacts
<1>1. PICK v : v = target[t]
  OBVIOUS
<1>2. /\ At(t, "del_close") /\ Go(t, "del_link") /\ StateSet(k, v, "close", k')
      /\ sysobj' = sysobj \ {v}
      /\ target' = target /\ reap' = reap /\ cleaned' = cleaned
      /\ freed' = freed
      /\ "del_close" \in Deleting /\ "del_link" \in LifePC
  BY <1>1 DEF DeleteClose, LifePC, Deleting, StateSet
<1>3. /\ k.cur = t /\ k.stat[t] = "ready" /\ pc[t] = "del_close"
      /\ v \in Mortal /\ v \in doomed /\ v # t /\ v \in Thread /\ v # Idle
      /\ v \notin unfreed
  BY <1>1, <1>2, DeletingFacts
<1>4. /\ Live(k', doomed) /\ SameWait(k, k') /\ k'.timer = k.timer
      /\ k'.stat = [k.stat EXCEPT ![v] = "close"]
  <2>1. PICK r : r = k'
    OBVIOUS
  <2>2. /\ Live(k, doomed) /\ v \in Thread /\ v \in doomed
        /\ StateSet(k, v, "close", r)
    BY <1>2, <1>3, <2>1 DEF LifeIInv, LifeKernel
  <2>3. /\ Live(r, doomed) /\ SameWait(k, r) /\ r.timer = k.timer
        /\ r.stat = [k.stat EXCEPT ![v] = "close"]
    BY ONLY <2>2, LiveClosed
  <2> QED BY <2>1, <2>3
<1>5. \A u \in Thread : k'.stat[u] = IF u = v THEN "close" ELSE k.stat[u]
  BY <1>4
<1>6. doomed' = doomed /\ unfreed' = unfreed /\ released' = released
      /\ k'.wait = k.wait /\ k'.cur = t /\ k'.nest = k.nest
  BY <1>2, <1>3, <1>4 DEF doomed, unfreed, released, SameWait
<1>7. /\ pc'[t] = "del_link" /\ \A u \in Thread : u # t => pc'[u] = pc[u]
  BY <1>2, GoFacts
<1>8. LifeKernel'
  BY <1>3, <1>4, <1>5, <1>6 DEF LifeIInv, LifeKernel
<1>9. Targets'
  <2>1. \A u \in Thread : pc'[u] \in Deleting <=> pc[u] \in Deleting
    BY <1>3, <1>7 DEF Deleting
  <2>2. \A u \in Thread : pc'[u] = "del_link" => u = t \/ pc[u] = "del_link"
    BY <1>7
  <2>3. \A u \in Thread : pc[u] = "del_link" => target[u] \in Thread
    BY DEF LifeIInv, Targets, Deleting
  <2>4. \A u \in Thread : pc'[u] = "del_link" => k'.stat[target[u]] = "close"
    BY <1>1, <1>3, <1>5, <2>2, <2>3 DEF LifeIInv, Targets
  <2> QED BY ONLY <1>2, <2>1, <2>4, LifeIInv DEF LifeIInv, Targets
<1>10. Lists'
  <2>1. \A u \in unfreed : u \in Thread /\ u # v
    BY <1>3 DEF LifeIInv, Lists
  <2> QED BY <1>5, <1>6, <2>1 DEF LifeIInv, Lists
<1>11. Objects'
  <2>1. v \in Cleanup => v \in Dynamic
    BY <1>3 DEF QuietMortals
  <2> QED BY <1>2, <1>5, <2>1 DEF LifeIInv, Objects
<1>12. Releases'
  <2>1. pc'[Idle] = "idle_free" <=> pc[Idle] = "idle_free"
    BY <1>3, <1>7
  <2>2. t \notin released
    BY <1>3 DEF LifeIInv, Releases
  <2>3. \A u \in Thread : u \notin doomed => k'.stat[u] = k.stat[u]
    BY <1>3, <1>5
  <2> QED BY ONLY <1>2, <1>6, <2>1, <2>2, <2>3, LifeFacts, LifeIInv
          DEF LifeIInv, Releases
<1>13. Places'
  <2>1. k'.stat[k'.cur] = "ready"
    BY <1>3, <1>5, <1>6
  <2> QED BY <1>2, <2>1, StepPlaces
<1> QED BY ONLY <1>8, <1>9, <1>10, <1>11, <1>12, <1>13 DEF LifeIInv

LEMMA DeleteLinks ==
  ASSUME LifeIInv, NEW t \in Thread, DeleteLink(t)
  PROVE  LifeIInv'
<1> USE LifeFacts
<1>1. PICK v : v = target[t]
  OBVIOUS
<1>2. /\ At(t, "del_link") /\ Go(t, "run")
      /\ k' = IF v \in Dynamic \cup Cleanup THEN defunct(k, v) ELSE k
      /\ target' = [target EXCEPT ![t] = NoThread]
      /\ sysobj' = sysobj /\ reap' = reap /\ cleaned' = cleaned
      /\ freed' = freed
      /\ "del_link" \in Deleting /\ "run" \in LifePC
  BY <1>1 DEF DeleteLink, LifePC, Deleting
<1>3. /\ k.cur = t /\ k.stat[t] = "ready" /\ pc[t] = "del_link"
      /\ v \in Mortal /\ v \in doomed /\ v # t /\ v \in Thread
      /\ v \notin unfreed /\ t \notin doomed
  BY <1>1, <1>2, DeletingFacts
<1>4. k.stat[v] = "close" /\ Lone(k, v)
  <2>1. k.stat[v] = "close"
    BY <1>1, <1>3 DEF LifeIInv, Targets
  <2>2. \A q \in Queue \ {Defunct} : ToSet(k.wait[q]) = {}
    BY EmptyList DEF LifeIInv, Lists
  <2> QED BY <1>3, <2>1, <2>2 DEF Lone, unfreed
<1>5. /\ target \in [Thread -> Mortal \cup {NoThread}]
      /\ \A u \in Thread : u # t => target[u] # v
  BY <1>1, <1>3 DEF LifeIInv, Targets
<1>6. \A u \in Thread : target'[u] = IF u = t THEN NoThread ELSE target[u]
  BY <1>2, <1>5
<1>7. \A x : x \in doomed' <=> x \in doomed /\ x # v
  <2>1. \A x : x \in doomed <=> x # NoThread /\ \E u \in Thread : target[u] = x
    BY DEF doomed
  <2>2. \A x : x \in doomed' <=> x # NoThread /\ \E u \in Thread : target'[u] = x
    BY DEF doomed
  <2> QED BY ONLY <1>1, <1>5, <1>6, <2>1, <2>2
<1>8. WithThread(doomed', v, doomed)
  BY <1>3, <1>7 DEF WithThread
<1>9. Live(k, doomed')
  <2>1. Live(k, doomed) /\ v \in Thread /\ k.stat[v] = "close"
    BY <1>3, <1>4 DEF LifeIInv, LifeKernel
  <2> QED BY ONLY <1>8, <2>1, LiveGone
<1>10. /\ Live(k', doomed') /\ k'.stat = k.stat /\ k'.timer = k.timer
       /\ k'.cur = k.cur /\ k'.nest = k.nest
       /\ \A x \in Queue \ {Defunct} : k'.wait[x] = k.wait[x]
       /\ IF v \in Dynamic \cup Cleanup THEN unfreed' = unfreed \cup {v}
          ELSE unfreed' = unfreed
  <2>1. CASE v \in Dynamic \cup Cleanup
    <3>1. PICK r : r = defunct(k, v)
      OBVIOUS
    <3>2. Defunct \in Queue
      OBVIOUS
    <3>3. /\ Live(r, doomed') /\ r.stat = k.stat /\ r.timer = k.timer
          /\ r.cur = k.cur /\ r.nest = k.nest
          /\ ToSet(r.wait[Defunct]) = ToSet(k.wait[Defunct]) \cup {v}
          /\ \A x \in Queue \ {Defunct} : r.wait[x] = k.wait[x]
      BY ONLY <1>3, <1>4, <1>9, <3>1, <3>2, DefunctFacts
    <3>4. k' = r
      BY <1>2, <2>1, <3>1
    <3> QED BY <2>1, <3>3, <3>4 DEF unfreed
  <2>2. CASE v \notin Dynamic \cup Cleanup
    <3>1. k' = k
      BY <1>2, <2>2
    <3> QED BY <1>9, <2>2, <3>1 DEF unfreed
  <2> QED BY <2>1, <2>2
<1>11. \A u : u \in unfreed' <=> \/ u \in unfreed
                                 \/ u = v /\ v \in Dynamic \cup Cleanup
  BY <1>10
<1>12. released' = released
  BY <1>2 DEF released
<1>13. /\ pc'[t] = "run" /\ \A u \in Thread : u # t => pc'[u] = pc[u]
  BY <1>2, GoFacts
<1>14. LifeKernel'
  BY <1>7, <1>10 DEF LifeIInv, LifeKernel
<1>15. Targets'
  <2>1. target' \in [Thread -> Mortal \cup {NoThread}]
    BY <1>2, <1>5
  <2>2. \A u \in Thread : target'[u] # NoThread <=> pc'[u] \in Deleting
    BY <1>6, <1>13 DEF LifeIInv, Targets, Deleting
  <2>3. \A x, u \in Thread : target'[x] = target'[u] /\ target'[x] # NoThread
                                => x = u
    BY <1>6 DEF LifeIInv, Targets
  <2>4. \A u \in Thread : pc'[u] = "del_link" => k'.stat[target'[u]] = "close"
    BY <1>6, <1>10, <1>13 DEF LifeIInv, Targets
  <2> QED BY ONLY <2>1, <2>2, <2>3, <2>4 DEF Targets
<1>16. Lists'
  <2>1. unfreed' \subseteq Dynamic \cup Cleanup
    BY <1>11 DEF LifeIInv, Lists
  <2>2. \A u \in unfreed' : k'.stat[u] = "close" /\ u \notin doomed'
    BY <1>4, <1>7, <1>10, <1>11 DEF LifeIInv, Lists
  <2> QED BY <1>10, <2>1, <2>2 DEF LifeIInv, Lists
<1>17. Objects'
  BY <1>2, <1>10 DEF LifeIInv, Objects
<1>18. Releases'
  <2>1. pc'[Idle] = "idle_free" <=> pc[Idle] = "idle_free"
    BY <1>3, <1>13
  <2>2. \A u \in Dynamic \cup Cleanup :
           u \notin doomed' /\ u \notin unfreed' <=>
             u \notin doomed /\ u \notin unfreed
    BY <1>3, <1>7, <1>11
  <2> QED BY ONLY <1>2, <1>10, <1>12, <2>1, <2>2, LifeIInv DEF LifeIInv, Releases
<1>19. Places'
  <2>1. k'.stat[k'.cur] = "ready"
    BY <1>3, <1>10
  <2> QED BY <1>2, <2>1, StepPlaces
<1> QED BY ONLY <1>14, <1>15, <1>16, <1>17, <1>18, <1>19 DEF LifeIInv

\* tidle takes a dead thread out of the list.
LEMMA IdleTakes ==
  ASSUME LifeIInv, IdleBody
  PROVE  LifeIInv'
<1> USE LifeFacts
<1>1. PICK t : t = Head(k.wait[Defunct])
  OBVIOUS
<1>2. PICK j : j = rt_list_remove(k, t)
  OBVIOUS
<1>3. PICK p \in {"run", "idle_free"} :
        /\ At(Idle, "idle_body") /\ k.wait[Defunct] # << >>
        /\ cleaned' = IF t \in Cleanup THEN [cleaned EXCEPT ![t] = @ + 1]
                      ELSE cleaned
        /\ IF t \notin sysobj THEN reap' = t /\ p = "idle_free"
           ELSE reap' = reap /\ p = "run"
        /\ Go(Idle, p) /\ k' = rt_schedule(j)
        /\ sysobj' = sysobj /\ target' = target /\ freed' = freed
  BY <1>1, <1>2 DEF IdleBody, cleanup, Go
<1>4. p \in LifePC /\ p \notin Deleting /\ "idle_body" \notin Deleting
  BY DEF LifePC, Deleting
<1>5. k.cur = Idle /\ pc[Idle] = "idle_body" /\ pc'[Idle] = p
  BY <1>3, <1>4, GoFacts DEF At
<1>6. t \in unfreed /\ t \in Thread
  <2>1. k.wait[Defunct] \in Seq(Thread)
    OBVIOUS
  <2>2. ToSet(k.wait[Defunct]) # {}
    BY <1>3, <2>1, EmptyList
  <2> QED BY ONLY <1>1, <2>1, <2>2, HeadInList DEF unfreed
<1>7. k.stat[t] = "close" /\ t \notin doomed /\ t \in Dynamic \cup Cleanup
  BY <1>6 DEF LifeIInv, Lists
<1>8. /\ Live(j, doomed) /\ j.stat = k.stat /\ j.timer = k.timer
      /\ j.cur = k.cur /\ j.nest = k.nest
      /\ \A x \in Queue : ToSet(j.wait[x]) = ToSet(k.wait[x]) \ {t}
      /\ \A x \in Queue : t \notin ToSet(k.wait[x]) => j.wait[x] = k.wait[x]
  <2>1. Live(k, doomed) /\ t \in Thread /\ k.stat[t] = "close"
    BY <1>6, <1>7 DEF LifeIInv, LifeKernel
  <2>2. Live(j, doomed) /\ TakenOut(k, t, j)
    BY ONLY <1>2, <2>1, LiveUnlink
  <2> QED BY ONLY <2>2 DEF TakenOut
<1>9. Parked(j)
  <2>1. \A x \in Queue : ToSet(j.wait[x]) \subseteq ToSet(k.wait[x])
    BY <1>8
  <2> QED BY <1>8, <2>1 DEF Parked
<1>10. /\ Live(k', doomed) /\ SameThreads(j, k') /\ k'.cur \in Thread
       /\ k'.cur \notin doomed /\ k'.stat[k'.cur] = "ready"
  <2>1. PICK r : r = rt_schedule(j)
    OBVIOUS
  <2>2. /\ Live(j, doomed) /\ j.nest = 0 /\ j.cur \notin doomed /\ Parked(j)
        /\ j.stat[Idle] = "ready" /\ Idle \notin doomed
    BY <1>8, <1>9 DEF LifeIInv, LifeKernel
  <2>3. /\ Live(r, doomed) /\ SameThreads(j, r) /\ r.cur \in Thread
        /\ r.cur \notin doomed /\ r.stat[r.cur] = "ready"
    BY ONLY <2>1, <2>2, LiveSchedule
  <2>4. k' = r
    BY <1>3, <2>1
  <2> QED BY ONLY <2>3, <2>4
<1>11. /\ k'.stat = k.stat /\ k'.timer = k.timer /\ k'.nest = k.nest
       /\ k'.wait = j.wait
  BY <1>8, <1>10 DEF SameThreads
<1>12. unfreed' = unfreed \ {t}
  BY <1>8, <1>11 DEF unfreed
<1>13. Targets' /\ doomed' = doomed
  <2>1. \A u \in Thread : k.stat[u] = "close" => k'.stat[u] = "close"
    BY <1>11
  <2> QED BY <1>3, <1>4, <2>1, SameTargets
<1>14. Places'
  BY <1>3, <1>4, <1>10, StepPlaces
<1>15. LifeKernel'
  BY <1>10, <1>11, <1>13 DEF LifeIInv, LifeKernel
<1>16. Lists'
  <2>1. \A q \in Queue \ {Defunct} : k'.wait[q] = << >>
    <3>1. \A q \in Queue \ {Defunct} : k.wait[q] = << >> /\ ToSet(k.wait[q]) = {}
      BY EmptyList DEF LifeIInv, Lists
    <3> QED BY <1>8, <1>11, <3>1
  <2> QED BY <1>11, <1>12, <1>13, <2>1 DEF LifeIInv, Lists
<1>17. Objects'
  BY <1>3, <1>11 DEF LifeIInv, Objects
<1>18. reap = NoThread /\ t # NoThread
  BY <1>5, <1>6 DEF LifeIInv, Releases
<1>19. t \in sysobj => t \notin Dynamic
  BY DEF LifeIInv, Objects
<1>20. t \notin sysobj => t \in Dynamic
  BY <1>6, <1>7 DEF LifeIInv, Objects
<1>21. \A u \in Dynamic : u \in released' <=> u \in released \/ u = t
  <2>1. CASE t \in sysobj
    BY <1>3, <1>19, <2>1 DEF released
  <2>2. CASE t \notin sysobj
    BY <1>3, <1>18, <2>2 DEF released
  <2> QED BY <2>1, <2>2
<1>22. /\ released' \subseteq released \cup {t}
       /\ t \in sysobj => released' = released
  BY <1>3, <1>18 DEF released
<1>23. Releases'
  <2>1. released' \subseteq Dynamic /\ NoThread \notin freed'
    BY <1>3, <1>20, <1>22 DEF LifeIInv, Releases
  <2>2. reap' # NoThread <=> pc'[Idle] = "idle_free"
    BY <1>3, <1>5, <1>18
  <2>3. \A u \in Dynamic : u \in released' <=>
           k'.stat[u] = "close" /\ u \notin doomed' /\ u \notin unfreed'
    BY <1>7, <1>11, <1>12, <1>13, <1>21 DEF LifeIInv, Releases
  <2>4. k'.cur \notin released'
    <3>1. \A u \in released : u \in Dynamic /\ k.stat[u] = "close"
      BY DEF LifeIInv, Releases
    <3> QED BY <1>7, <1>10, <1>11, <1>22, <3>1
  <2>5. cleaned \in [Cleanup -> 0 .. 1] /\ (t \in Cleanup => cleaned[t] = 0)
    <3>1. cleaned \in [Cleanup -> 0 .. 1]
      BY DEF LifeIInv, Releases
    <3>2. t \in Cleanup => cleaned[t] # 1
      BY <1>6 DEF LifeIInv, Releases
    <3> QED BY <3>1, <3>2
  <2>6. /\ cleaned' \in [Cleanup -> 0 .. 1]
        /\ \A u \in Cleanup : cleaned'[u] = IF u = t THEN 1 ELSE cleaned[u]
    BY ONLY <1>3, <2>5
  <2>7. \A u \in Cleanup : cleaned'[u] = 1 <=>
           k'.stat[u] = "close" /\ u \notin doomed' /\ u \notin unfreed'
    BY <1>7, <1>11, <1>12, <1>13, <2>6 DEF LifeIInv, Releases
  <2> QED BY ONLY <2>1, <2>2, <2>3, <2>4, <2>6, <2>7 DEF Releases
<1> QED BY ONLY <1>13, <1>14, <1>15, <1>16, <1>17, <1>23 DEF LifeIInv

\* The arguments of the resumes in progress are threads.
Revivals ==
  reviving \in [Thread -> Thread \cup {NoThread}] /\ late \in BOOLEAN

LEMMA RevivalsKept == Revivals /\ [LifeNext]_lifevars => Revivals'
<1> SUFFICES ASSUME Revivals, [LifeNext]_lifevars PROVE Revivals'
  OBVIOUS
<1>1. CASE UNCHANGED resumes
  BY <1>1 DEF resumes, Revivals
<1>2. CASE \E t, v \in Thread : ResumeTest(t, v) \/ ResumeInsert(t, v)
                                \/ ResumeLate(t, v)
  BY <1>2 DEF ResumeTest, ResumeInsert, ResumeLate, Revivals
<1>3. ASSUME UNCHANGED life PROVE UNCHANGED resumes
  BY <1>3 DEF life
<1>4. CASE UNCHANGED lifevars
  BY <1>1, <1>3, <1>4 DEF lifevars
<1>5. ASSUME NEW t \in Thread, LifeStep(t) PROVE Revivals'
  <2>1. CASE \E v \in Thread : Start(t, v) \/ ResumeUnlink(t, v)
                               \/ DeleteRemove(t, v)
    BY <1>1, <1>3, <2>1 DEF Start, ResumeUnlink, DeleteRemove
  <2>2. CASE Suspend(t) \/ Sleep(t) \/ SleepSchedule(t) \/ SleepReturn(t)
    BY <1>1, <1>3, <2>2 DEF Suspend, Sleep, SleepSchedule, SleepReturn
  <2>3. CASE Exit(t) \/ ExitSchedule(t)
    BY <1>1, <1>3, <2>3 DEF Exit, ExitSchedule
  <2>4. CASE DeleteTimer(t) \/ DeleteClose(t) \/ DeleteLink(t)
    BY <1>1, <1>3, <2>4 DEF DeleteTimer, DeleteClose, DeleteLink
  <2>5. CASE (Schedule(t) \/ TimerExpire(t)) /\ UNCHANGED life
    BY <1>1, <1>3, <2>5
  <2> QED BY <1>2, <1>5, <2>1, <2>2, <2>3, <2>4, <2>5 DEF LifeStep
<1>6. CASE IdleStep
  BY <1>1, <1>3, <1>6 DEF IdleStep, IdleEnter, IdleTest, IdleBody, IdleFree
<1>7. CASE TickYield /\ UNCHANGED life
  BY <1>1, <1>3, <1>7
<1> QED BY <1>4, <1>5, <1>6, <1>7 DEF LifeNext

LEMMA LifeKeeps == QuietMortals /\ LifeIInv /\ [LifeNext]_lifevars => LifeIInv'
<1> SUFFICES ASSUME QuietMortals, LifeIInv, [LifeNext]_lifevars PROVE LifeIInv'
  OBVIOUS
<1>1. CASE UNCHANGED lifevars
  BY <1>1, LifeResumeLate DEF lifevars, life
<1>2. ASSUME NEW t \in Thread, LifeStep(t) PROVE LifeIInv'
  <2>1. CASE \E v \in Thread : Start(t, v) \/ DeleteRemove(t, v)
    BY <2>1, LifeStart, LifeDeletes
  <2>2. CASE Suspend(t) \/ Sleep(t)
    BY <2>2, LifeBlocks
  <2>3. CASE SleepReturn(t)
    BY <2>3, LifeReturns
  <2>4. CASE \/ SleepSchedule(t) \/ ExitSchedule(t)
             \/ Schedule(t) /\ UNCHANGED life
    <3>1. PlainStep
      BY <2>4, PlainAt DEF SleepSchedule, ExitSchedule, Schedule, PlainStep, Plain
    <3>2. k' = rt_schedule(k) /\ UNCHANGED life
      BY <2>4 DEF SleepSchedule, ExitSchedule, Schedule
    <3> QED BY <3>1, <3>2, LifeSchedules
  <2>5. CASE Exit(t)
    BY <2>5, LifeExits
  <2>6. CASE DeleteTimer(t)
    BY <2>6, DeleteStopsTimer
  <2>7. CASE DeleteClose(t)
    BY <2>7, DeleteCloses
  <2>8. CASE DeleteLink(t)
    BY <2>8, DeleteLinks
  <2>9. CASE TimerExpire(t) /\ UNCHANGED life
    BY <2>9, LifeExpires
  <2>10. CASE \E v \in Thread : ResumeTest(t, v) \/ ResumeUnlink(t, v)
                                \/ ResumeInsert(t, v)
    BY <2>10, LifeResumeTest, LifeResumeUnlink, LifeResumeInsert
  <2>11. CASE \E v \in Thread : ResumeLate(t, v)
    BY <2>11, LifeResumeLate DEF ResumeLate
  <2> QED BY <1>2, <2>1, <2>2, <2>3, <2>4, <2>5, <2>6, <2>7, <2>8, <2>9,
             <2>10, <2>11
          DEF LifeStep
<1>3. CASE IdleStep
  BY <1>3, IdleLooks, IdleTakes, IdleFrees DEF IdleStep
<1>4. CASE TickYield /\ UNCHANGED life
  <2>1. k' = rt_schedule(k) /\ PlainStep
    BY <1>4 DEF TickYield, PlainStep
  <2> QED BY <1>4, <2>1, LifeSchedules
<1> QED BY <1>1, <1>2, <1>3, <1>4 DEF LifeNext

\* Where the deletion of sleeping threads and the detach of static ones with a
\* cleanup are left out, every thread is linked in at most one list, and the
\* lists agree with the states.
THEOREM ThreadsInOneList == QuietMortals /\ LifeSpec => []OneList
<1>1. LifeIInv /\ Revivals => OneList
  <2> SUFFICES ASSUME LifeIInv, Revivals PROVE OneList
    OBVIOUS
  <2> USE LifeFacts
  <2>1. /\ k \in KernelState /\ NoDuplicates(k) /\ Bitmap(k)
        /\ \A t \in Thread, p \in Prio :
             t \in ToSet(k.ready[p]) <=>
               k.stat[t] = "ready" /\ t \notin doomed /\ k.prio[t] = p
                 /\ t # k.cur
    BY LiveFacts DEF LifeIInv, LifeKernel
  <2>2. LifeTypeOK
    <3>1. pc \in [Thread -> LifePC] /\ sysobj \subseteq Thread
          /\ cleaned \in [Cleanup -> 0 .. 1]
      BY DEF LifeIInv, Places, Objects, Releases
    <3>2. target \in [Thread -> Thread \cup {NoThread}]
      BY DEF LifeIInv, Targets
    <3>3. reap \in Thread \cup {NoThread} /\ freed \subseteq Thread
      BY DEF LifeIInv, Releases, released
    <3> QED BY <2>1, <3>1, <3>2, <3>3 DEF LifeTypeOK, Revivals
  <2>3. \A t \in ToSet(k.wait[Defunct]) : k.stat[t] = "close"
    BY DEF LifeIInv, Lists, unfreed
  <2> QED BY ONLY <2>1, <2>2, <2>3 DEF OneList
<1>2. QuietMortals /\ LifeInit => QuietMortals /\ LifeIInv /\ Revivals
  BY InitLife DEF LifeInit, Revivals
<1>3. QuietMortals /\ LifeIInv /\ Revivals /\ [LifeNext]_lifevars
        => (QuietMortals /\ LifeIInv /\ Revivals)'
  BY LifeKeeps, RevivalsKept DEF QuietMortals
<1> QED BY <1>1, <1>2, <1>3, PTL DEF LifeSpec

\* Under the same condition a dead thread waits for its release, or has been
\* released once, and is not used after that.
THEOREM DeadReleasedOnce == QuietMortals /\ LifeSpec => []ReleasedOnce
<1>1. LifeIInv => ReleasedOnce
  <2> SUFFICES ASSUME LifeIInv PROVE ReleasedOnce
    OBVIOUS
  <2> USE LifeFacts
  <2>1. \A t \in released : NotUsed(t)
    <3> SUFFICES ASSUME NEW t \in released PROVE NotUsed(t)
      OBVIOUS
    <3>1. /\ t \in Thread /\ k.stat[t] = "close" /\ t \notin doomed
          /\ t \notin unfreed /\ t # k.cur
      BY DEF LifeIInv, Releases
    <3>2. t \notin k.timer /\ \A p \in Prio : t \notin ToSet(k.ready[p])
      BY <3>1, LiveFacts DEF LifeIInv, LifeKernel
    <3> QED BY ONLY <3>1, <3>2 DEF NotUsed, unfreed
  <2>2. \A t \in Dynamic \cup Cleanup :
          k.stat[t] = "close" /\ t \notin doomed =>
            /\ t \in Cleanup => cleaned[t] = IF t \in unfreed THEN 0 ELSE 1
            /\ t \in Dynamic => (t \notin unfreed <=> t \in freed \cup {reap})
    <3>1. \A t \in Cleanup : cleaned[t] \in {0, 1}
      BY DEF LifeIInv, Releases
    <3>2. \A t \in Dynamic : t \in freed \cup {reap} <=> t \in released
      BY DEF released
    <3> QED BY ONLY <3>1, <3>2, LifeIInv DEF LifeIInv, Releases
  <2> QED BY ONLY <2>1, <2>2 DEF ReleasedOnce, released, unfreed
<1>2. QuietMortals /\ LifeInit => QuietMortals /\ LifeIInv
  BY InitLife
<1>3. QuietMortals /\ LifeIInv /\ [LifeNext]_lifevars
        => (QuietMortals /\ LifeIInv)'
  BY LifeKeeps DEF QuietMortals
<1> QED BY <1>1, <1>2, <1>3, PTL DEF LifeSpec

-----------------------------------------------------------------------------
(* The pipe and poll().                                                    *)

\* One thread on each side, neither of which opens the pipe O_RDWR: of two sleepers
\* the end of file wakes one.
OnePair == RdWr = {} /\ \A t, u \in PipeUser : Side[t] = Side[u] => t = u

PipeGiven ==
  /\ OnePair /\ rdwr = {}
  /\ fifo \in BOOLEAN /\ denied \in [Thread -> SUBSET WQ]

PipeSpec ==
  /\ ThreadsInit /\ QueuesInit /\ PipeInit
  /\ [][PipeNext]_<<threads, queues, pipe>>

PipeQueues == {reader_queue, writer_queue}

\* The queue a thread waits in, whether it reads or writes.
Own(t) == IF Side[t] = "read" THEN reader_queue ELSE writer_queue

ClosePC  == {"p_close_r", "p_close_w", "p_close"}
BeforePC == {"p_unlock_wait", "p_wake_wait", "wait"}
AsleepPC == {"q_sched", "q_woken"}
PollPC   == {"add_r", "add_w", "p_test", "p_wait", "p_slept", "del_w", "del_r"}
PipePC   == {"run", "sched", "p_lock", "p_body", "p_unlock", "p_woke", "p_wake_end",
             "q_remove"} \cup ClosePC \cup BeforePC \cup AsleepPC \cup PollPC

\* What a thread at p can be doing when f is open.
PlaceOK(t, p, d, f) ==
  /\ d = "none" <=> p \in {"run", "sched"}
  /\ d = "poll" <=> p \in PollPC
  /\ p \in ClosePC => d = "close"
  /\ p = "p_woke" => d = "read"
  /\ p = "p_wake_end" => d = "write"
  /\ p \in BeforePC \cup AsleepPC \cup {"q_remove"} => d \in {"read", "write"}
  /\ d # "none" => t \in PipeUser
  /\ d \in {"read", "write"} => Side[t] = d
  /\ d \in {"read", "write", "poll"} => t \in f
  /\ d = "close" /\ p # "p_unlock" => t \in f

PipePlaces ==
  /\ pc \in [Thread -> PipePC] /\ doing \in [Thread -> Ops]
  /\ fds \subseteq PipeUser
  /\ \A t \in Thread : PlaceOK(t, pc[t], doing[t], fds)

\* Only a poll() with a timeout is woken by the timer, and who waits for the mutex
\* is in rt_mutex_take.
PipeRuns ==
  /\ k.stat[k.cur] = "ready" \/ pc[k.cur] = "q_sched"
  /\ \A t \in k.timer : pc[t] = "p_slept"
  /\ \A t \in ToSet(k.wait[Lock]) : pc[t] = "p_body"

Opened(t) == t \in fds /\ pc[t] \notin ClosePC

\* The numbers; who has opened the pipe is counted.
PipeCounts ==
  /\ owner \in Thread \cup {Nobody}
  /\ readers \in Nat /\ writers \in Nat /\ bytes \in 0 .. bufsz
  /\ rest \in [Thread -> 0 .. PipeCount]
  /\ wrote \in [Thread -> BOOLEAN] /\ triggered \in [Thread -> BOOLEAN]
  /\ \A t \in PipeUser : Opened(t) =>
       IF Side[t] = "read" THEN readers > 0 ELSE writers > 0

\* What mask and events are for one pair.
seen(t) == IF Side[t] = "read" THEN readable ELSE writable
asks(t) == {IF Side[t] = "read" THEN "POLLIN" ELSE "POLLOUT", "POLLERR", "POLLHUP"}

WaitNode(t) == Node(t, {"any"})
PollNode(t) == Node(t, asks(t))
PipeNodes == {WaitNode(t) : t \in PipeUser} \cup {PollNode(t) : t \in PipeUser}

\* Where in poll() the node of the thread may be in the queue q.
Linked(q) ==
  {"p_test", "p_wait", "p_slept", "del_w"}
    \cup (IF q = reader_queue THEN {"add_w", "del_r"} ELSE {})

\* The nodes of the thread t at p: s, it sleeps; g, it was triggered; dn, the queues
\* in which it was denied one.
NodesOK(t, p, s, g, dn, wt) ==
  /\ \A q \in PipeQueues :
       /\ WaitNode(t) \in ToSet(wt[q]) => q = Own(t) /\ p \in AsleepPC /\ s
       /\ PollNode(t) \in ToSet(wt[q]) => p \in Linked(q)
  /\ p \in AsleepPC /\ s => WaitNode(t) \in ToSet(wt[Own(t)])
  /\ /\ p \in Linked(Own(t)) \ {"del_w", "del_r"} /\ ~g /\ Own(t) \notin dn
     => PollNode(t) \in ToSet(wt[Own(t)])
  /\ p = "p_slept" /\ s => ~g

PipeLists ==
  /\ wakeup \in [WQ -> BOOLEAN] /\ waiting = [q \in WQ |-> waiting[q]]
  /\ \A q \in PipeQueues :
       waiting[q] \in Seq(PipeNodes) /\ IsInjective(waiting[q])
  /\ \A t \in PipeUser :
       NodesOK(t, pc[t], t \in asleep, triggered[t], denied[t], waiting)

\* The thread x will wake whoever it finds in the queue q.
Waker(x, q) ==
  \/ /\ q = reader_queue
     /\ \/ pc[x] = "p_close_r" /\ writers = 0
        \/ doing[x] = "write" /\ pc[x] \in {"p_unlock_wait", "p_wake_wait", "p_wake_end"}
        \/ doing[x] = "write" /\ pc[x] = "p_unlock" /\ wrote[x]
  \/ /\ q = writer_queue
     /\ \/ pc[x] \in {"p_close_r", "p_close_w"} /\ readers = 0
        \/ doing[x] = "read" /\ pc[x] \in {"p_woke", "p_unlock_wait", "p_wake_wait"}

\* The thread t sleeps, or will without looking again.
Drowse(t) ==
  \/ pc[t] \in BeforePC /\ ~wakeup[Own(t)]
  \/ pc[t] \in AsleepPC /\ t \in asleep
  \/ pc[t] = "p_wait" /\ ~triggered[t] /\ Own(t) \notin denied[t]
  \/ pc[t] = "p_slept" /\ t \in asleep /\ Own(t) \notin denied[t]

PipeAwake ==
  \A t \in PipeUser : Drowse(t) /\ seen(t) # {} =>
    \E x \in PipeUser : Waker(x, Own(t))

PipeIInv ==
  /\ KernelSound /\ PipePlaces /\ PipeRuns /\ PipeCounts /\ PipeLists /\ PipeAwake

-----------------------------------------------------------------------------
LEMMA PipeConstants ==
  /\ PipeUser \subseteq Thread /\ Idle \in Thread /\ Idle \notin PipeUser
  /\ Lock \in Queue /\ PipeQueues \subseteq WQ /\ reader_queue # writer_queue
  /\ bufsz \in Nat /\ bufsz > 0 /\ PipeCount \in Nat /\ PipeCount > 0
  /\ \A t \in PipeUser :
       /\ Side[t] = "read" \/ Side[t] = "write"
       /\ Own(t) \in PipeQueues
       /\ Own(t) = reader_queue <=> Side[t] = "read"
  /\ Nobody \notin Thread
BY PipeAssumption, KernelAssumption DEF PipeQueues, Own

LEMMA PipeFacts ==
  ASSUME PipeIInv
  PROVE  /\ KernelSound /\ k.cur \in Thread /\ k.stat \in [Thread -> Stat]
         /\ pc \in [Thread -> PipePC] /\ doing \in [Thread -> Ops]
         /\ wrote \in [Thread -> BOOLEAN] /\ triggered \in [Thread -> BOOLEAN]
         /\ wakeup \in [WQ -> BOOLEAN] /\ waiting = [q \in WQ |-> waiting[q]]
         /\ PipePlaces /\ PipeRuns /\ PipeCounts /\ PipeLists /\ PipeAwake
         /\ \A t \in Thread : PlaceOK(t, pc[t], doing[t], fds)
BY KernelSoundFacts DEF PipeIInv, PipePlaces, PipeCounts, PipeLists

\* For one pair, the side of a thread is what it has opened the pipe for.
LEMMA PairSides ==
  ASSUME PipeGiven, NEW t \in PipeUser
  PROVE  /\ reads(t) <=> Side[t] = "read"
         /\ writes(t) <=> Side[t] = "write"
         /\ Side[t] = "write" <=> Side[t] # "read"
         /\ mask(t) = seen(t) /\ events(t) = asks(t)
<1>1. /\ reads(t) <=> Side[t] = "read"
      /\ writes(t) <=> Side[t] = "write"
      /\ Side[t] = "write" <=> Side[t] # "read"
  BY PipeConstants DEF PipeGiven, reads, writes
<1>2. mask(t) = seen(t)
  BY <1>1 DEF mask, seen
<1>3. events(t) = asks(t)
  BY <1>1 DEF events, asks
<1> QED BY <1>1, <1>2, <1>3

LEMMA GivenKeeps ==
  ASSUME PipeGiven, [PipeNext]_<<threads, queues, pipe>>
  PROVE  PipeGiven'
<1>1. CASE UNCHANGED pipe
  BY <1>1 DEF pipe, given, PipeGiven, OnePair
<1>2. ASSUME NEW x \in PipeUser, PipeStep(x), ~ UNCHANGED pipe PROVE PipeGiven'
  <2>1. ASSUME UNCHANGED given PROVE PipeGiven'
    BY <2>1 DEF given, PipeGiven, OnePair
  <2>2. x \in Thread /\ RdWr = {} /\ PipeQueues \subseteq WQ
    BY PipeConstants DEF PipeGiven, OnePair
  <2>3. CASE CallOpen(x) \/ CallClose(x) \/ CallRead(x) \/ CallWrite(x)
    <3>1. UNCHANGED given
      BY <2>2, <2>3 DEF CallOpen, CallClose, CallRead, CallWrite, Call, given
    <3> QED BY <2>1, <3>1
  <2>4. CASE Open(x) \/ CloseEnd(x)
    <3>1. rdwr' = {} /\ fifo' \in BOOLEAN /\ denied' = denied
      BY <2>4 DEF Open, CloseEnd, PipeGiven
    <3> QED BY <3>1 DEF PipeGiven, OnePair
  <2>5. ASSUME NEW q \in PipeQueues, NEW p, NEW r, PollAdd(x, p, q, r) \/ PollRemove(x, p, q)
        PROVE  PipeGiven'
    <3>1. /\ UNCHANGED <<fifo, rdwr>>
          /\ \/ denied' = denied
             \/ denied' = [denied EXCEPT ![x] = @ \cup {q}]
             \/ denied' = [denied EXCEPT ![x] = {}]
      BY <2>5 DEF PollAdd, PollRemove
    <3>2. q \in WQ /\ denied \in [Thread -> SUBSET WQ]
      BY <2>2 DEF PipeGiven
    <3>3. denied' \in [Thread -> SUBSET WQ]
      BY <2>2, <3>1, <3>2
    <3> QED BY <3>1, <3>3 DEF PipeGiven, OnePair
  <2>6. CASE \/ TakeLock(x) \/ Close(x) \/ CloseReaders(x) \/ CloseWriters(x)
             \/ ReadBody(x) \/ ReadWake(x) \/ WriteBody(x) \/ WriteEnd(x)
             \/ Unlock(x) \/ UnlockWait(x) \/ WakeWait(x) \/ Poll(x)
    <3>1. UNCHANGED given
      BY <2>6 DEF TakeLock, Close, CloseReaders, CloseWriters, ReadBody, ReadWake,
                  WriteBody, WriteEnd, Unlock, UnlockWait, WakeWait, Poll
    <3> QED BY <2>1, <3>1
  <2>7. CASE Wait(x) \/ PollTest(x) \/ PollSlept(x)
    BY <1>2, <2>7 DEF Wait, PollTest, PollSlept
  <2>8. ASSUME NEW timeout, PollWait(x, timeout) PROVE PipeGiven'
    BY <1>2, <2>8 DEF PollWait
  <2>9. reader_queue \in PipeQueues /\ writer_queue \in PipeQueues
    BY DEF PipeQueues
  <2>10. CASE PollStep(x)
    BY <2>5, <2>6, <2>7, <2>8, <2>9, <2>10 DEF PollStep
  <2> QED BY <1>2, <2>3, <2>4, <2>6, <2>7, <2>10 DEF PipeStep
<1> QED BY <1>1, <1>2 DEF PipeNext

\* A thread that runs, but for the moment before its rt_schedule() in
\* rt_wqueue_wait, is ready.
LEMMA PipeRunning ==
  ASSUME PipeIInv, pc[k.cur] # "q_sched"
  PROVE  /\ k.stat[k.cur] = "ready" /\ k.cur \notin asleep
         /\ k.cur \notin k.timer /\ k.cur \notin ToSet(k.wait[Lock])
<1>1. k.stat[k.cur] = "ready"
  BY PipeFacts DEF PipeRuns
<1>2. \A t \in k.timer : k.stat[t] = "suspend"
  BY PipeFacts DEF KernelSound, KInv, TimersOfSuspended
<1>3. \A t \in ToSet(k.wait[Lock]) : k.stat[t] = "suspend"
  BY PipeFacts, PipeConstants, KernelSoundFacts
<1> QED BY <1>1, <1>2, <1>3 DEF asleep

\* The threads of one pair.
LEMMA TheOther ==
  ASSUME PipeGiven, NEW x \in PipeUser, NEW y \in PipeUser, NEW u \in PipeUser,
         x # u, y # u
  PROVE  x = y
BY PipeConstants DEF PipeGiven, OnePair

\* A thread does not wake itself.
LEMMA WakesOther ==
  ASSUME PipeIInv, NEW u \in PipeUser, Drowse(u)
  PROVE  ~Waker(u, Own(u))
<1>1. PlaceOK(u, pc[u], doing[u], fds)
  BY PipeFacts, PipeConstants
<1>2. pc[u] \in BeforePC \cup AsleepPC \cup {"p_wait", "p_slept"}
  BY DEF Drowse
<1>3. pc[u] \notin ClosePC /\ pc[u] \notin {"p_woke", "p_wake_end", "p_unlock"}
  BY <1>2 DEF ClosePC, BeforePC, AsleepPC
<1>4. CASE doing[u] \in {"read", "write"}
  <2>1. Side[u] = doing[u] /\ (Own(u) = reader_queue <=> Side[u] = "read")
    BY <1>1, <1>4, PipeConstants DEF PlaceOK
  <2>2. Own(u) \in PipeQueues
    BY PipeConstants
  <2> QED BY <1>3, <2>1, <2>2, PipeConstants DEF Waker, ClosePC, PipeQueues
<1>5. CASE doing[u] \notin {"read", "write"}
  BY <1>3, <1>5 DEF Waker, ClosePC
<1> QED BY <1>4, <1>5

-----------------------------------------------------------------------------
(* The parts of the invariant after a step of the thread x.                *)

LEMMA PlacesStep ==
  ASSUME PipePlaces, NEW x \in Thread, NEW p \in PipePC, NEW d \in Ops,
         pc' = [pc EXCEPT ![x] = p], doing' = [doing EXCEPT ![x] = d],
         fds' \subseteq PipeUser, fds \ {x} \subseteq fds', PlaceOK(x, p, d, fds')
  PROVE  PipePlaces'
<1>1. pc' \in [Thread -> PipePC] /\ doing' \in [Thread -> Ops]
  BY DEF PipePlaces
<1>2. pc'[x] = p /\ doing'[x] = d
  BY DEF PipePlaces
<1>3. ASSUME NEW t \in Thread, t # x
      PROVE  PlaceOK(t, pc'[t], doing'[t], fds')
  <2>1. pc'[t] = pc[t] /\ doing'[t] = doing[t] /\ (t \in fds => t \in fds')
    BY <1>3 DEF PipePlaces
  <2>2. PlaceOK(t, pc[t], doing[t], fds)
    BY DEF PipePlaces
  <2> QED BY <2>1, <2>2 DEF PlaceOK
<1> QED BY <1>1, <1>2, <1>3 DEF PipePlaces

\* The kernel is left alone.
LEMMA RunsStep ==
  ASSUME PipeIInv, NEW x \in Thread, NEW p, k.cur = x, pc[x] # "q_sched",
         k' = k, pc' = [pc EXCEPT ![x] = p]
  PROVE  KernelSound' /\ PipeRuns' /\ asleep' = asleep
<1>1. k.stat[x] = "ready" /\ x \notin k.timer /\ x \notin ToSet(k.wait[Lock])
  BY PipeRunning
<1>2. \A t \in Thread \ {x} : pc'[t] = pc[t]
  BY PipeFacts
<1>3. k.timer \subseteq Thread /\ ToSet(k.wait[Lock]) \subseteq Thread
  BY PipeFacts, PipeConstants, KernelSoundFacts DEF KernelState
<1> QED BY <1>1, <1>2, <1>3, PipeFacts DEF PipeRuns, KernelSound, asleep

LEMMA ListsStep ==
  ASSUME PipeIInv, NEW x \in PipeUser, NEW p \in PipePC,
         pc' = [pc EXCEPT ![x] = p],
         wakeup' \in [WQ -> BOOLEAN], waiting' = [q \in WQ |-> waiting'[q]],
         \A q \in PipeQueues :
           /\ waiting'[q] \in Seq(PipeNodes) /\ IsInjective(waiting'[q])
           /\ \A u \in PipeUser \ {x} :
                /\ WaitNode(u) \in ToSet(waiting'[q])
                     <=> WaitNode(u) \in ToSet(waiting[q])
                /\ PollNode(u) \in ToSet(waiting'[q])
                     <=> PollNode(u) \in ToSet(waiting[q]),
         \A u \in PipeUser \ {x} :
           /\ triggered'[u] = triggered[u] /\ denied'[u] = denied[u]
           /\ \/ u \in asleep' <=> u \in asleep
              \/ u \notin asleep' /\ pc[u] \notin AsleepPC,
         NodesOK(x, p, x \in asleep', triggered'[x], denied'[x], waiting')
  PROVE  PipeLists'
<1>1. pc'[x] = p /\ \A u \in PipeUser \ {x} : pc'[u] = pc[u]
  BY PipeFacts, PipeConstants
<1>2. ASSUME NEW u \in PipeUser, u # x
      PROVE  NodesOK(u, pc'[u], u \in asleep', triggered'[u], denied'[u], waiting')
  <2>1. NodesOK(u, pc[u], u \in asleep, triggered[u], denied[u], waiting)
    BY PipeFacts DEF PipeLists
  <2>2. Own(u) \in PipeQueues
    BY PipeConstants
  <2>3. pc'[u] = pc[u] /\ triggered'[u] = triggered[u]
    BY <1>1, <1>2
  <2>5. denied'[u] = denied[u]
    BY <1>2
  <2>4. "p_slept" \notin AsleepPC
    BY DEF AsleepPC
  <2> QED BY <1>2, <2>1, <2>2, <2>3, <2>4, <2>5 DEF NodesOK
<1> QED BY <1>1, <1>2 DEF PipeLists

LEMMA AwakeStep ==
  ASSUME PipeGiven, PipeIInv, NEW x \in PipeUser,
         Drowse(x)' /\ seen(x)' # {} => \E y \in PipeUser : Waker(y, Own(x))',
         \A u \in PipeUser \ {x} : Drowse(u)' =>
           /\ Drowse(u)
           /\ seen(u)' # {} => seen(u) # {} \/ Waker(x, Own(u))'
           /\ Waker(x, Own(u)) => Waker(x, Own(u))'
  PROVE  PipeAwake'
<1>1. ASSUME NEW u \in PipeUser, Drowse(u)', seen(u)' # {}
      PROVE  \E y \in PipeUser : Waker(y, Own(u))'
  <2>1. CASE u = x
    BY <1>1, <2>1
  <2>2. CASE u # x
    <3>1. /\ Drowse(u) /\ (Waker(x, Own(u)) => Waker(x, Own(u))')
          /\ seen(u) # {} \/ Waker(x, Own(u))'
      BY <1>1, <2>2
    <3>2. ASSUME seen(u) # {} PROVE Waker(x, Own(u))'
      <4>1. PICK y \in PipeUser : Waker(y, Own(u))
        BY <3>1, <3>2, PipeFacts DEF PipeAwake
      <4>2. y # u
        BY <3>1, <4>1, WakesOther
      <4>3. y = x
        BY <2>2, <4>2, TheOther
      <4> QED BY <3>1, <4>1, <4>3
    <3> QED BY <3>1, <3>2
  <2> QED BY <2>1, <2>2
<1>2. \A u \in PipeUser : Own(u)' = Own(u)
  BY DEF Own
<1> QED BY <1>1, <1>2 DEF PipeAwake

\* A thread that is not in rt_wqueue_wait or in poll() has no node.
LEMMA NoNodes ==
  ASSUME PipeIInv, NEW x \in PipeUser,
         pc[x] \notin AsleepPC \cup {"add_w", "p_test", "p_wait", "p_slept", "del_w", "del_r"}
  PROVE  \A q \in PipeQueues : /\ WaitNode(x) \notin ToSet(waiting[q])
                               /\ PollNode(x) \notin ToSet(waiting[q])
<1>1. NodesOK(x, pc[x], x \in asleep, triggered[x], denied[x], waiting)
  BY PipeFacts DEF PipeLists
<1> QED BY <1>1 DEF NodesOK, Linked

\* A step that leaves the lists of the queues alone; x may go to sleep, and others
\* than those in rt_wqueue_wait may be woken.
Bounded(x) ==
  /\ asleep' \subseteq asleep \cup {x}
  /\ \A u \in asleep \ (asleep' \cup {x}) : pc[u] \notin AsleepPC
  /\ waiting' = waiting /\ wakeup' \in [WQ -> BOOLEAN]
  /\ \A u \in PipeUser \ {x} : wakeup[Own(u)] => wakeup'[Own(u)]
  /\ \A u \in PipeUser \ {x} : triggered'[u] = triggered[u]
  /\ denied' = denied

LEMMA BoundedLists ==
  ASSUME PipeIInv, NEW x \in PipeUser, NEW p \in PipePC, Bounded(x),
         pc' = [pc EXCEPT ![x] = p],
         NodesOK(x, p, x \in asleep', triggered'[x], denied'[x], waiting)
  PROVE  /\ PipeLists'
         /\ \A u \in PipeUser \ {x} : Drowse(u)' => Drowse(u)
<1>1. \A q \in PipeQueues :
        waiting'[q] \in Seq(PipeNodes) /\ IsInjective(waiting'[q])
  BY PipeFacts DEF PipeLists, Bounded
<1>2. /\ wakeup' \in [WQ -> BOOLEAN] /\ waiting' = [q \in WQ |-> waiting'[q]]
  BY PipeFacts DEF Bounded
<1>3. \A u \in PipeUser \ {x} :
        \/ u \in asleep' <=> u \in asleep
        \/ u \notin asleep' /\ pc[u] \notin AsleepPC
  BY DEF Bounded
<1>4. NodesOK(x, p, x \in asleep', triggered'[x], denied'[x], waiting')
  BY DEF Bounded
<1>5. /\ waiting' = waiting
      /\ \A u \in PipeUser \ {x} : triggered'[u] = triggered[u]
      /\ denied' = denied
  BY DEF Bounded
<1>6. PipeLists'
  BY <1>1, <1>2, <1>3, <1>4, <1>5, ListsStep
<1>7. \A u \in PipeUser \ {x} : Drowse(u)' => Drowse(u)
  <2>1. \A u \in PipeUser \ {x} : pc'[u] = pc[u] /\ Own(u)' = Own(u)
    BY PipeFacts, PipeConstants DEF Own
  <2> QED BY <2>1 DEF Drowse, Bounded
<1> QED BY <1>6, <1>7

LEMMA LocalStep ==
  ASSUME PipeGiven, PipeIInv, NEW x \in PipeUser, NEW p \in PipePC, NEW d \in Ops,
         KernelSound', PipeRuns', Bounded(x),
         pc' = [pc EXCEPT ![x] = p], doing' = [doing EXCEPT ![x] = d],
         fds' \subseteq PipeUser, fds \ {x} \subseteq fds', PlaceOK(x, p, d, fds'),
         PipeCounts', NodesOK(x, p, x \in asleep', triggered'[x], denied'[x], waiting),
         Drowse(x)' /\ seen(x)' # {} => \E y \in PipeUser : Waker(y, Own(x))',
         \A u \in PipeUser \ {x} : Drowse(u) =>
           /\ seen(u)' # {} => seen(u) # {} \/ Waker(x, Own(u))'
           /\ Waker(x, Own(u)) => Waker(x, Own(u))'
  PROVE  PipeIInv'
<1>1. x \in Thread
  BY PipeConstants
<1>2. PipePlaces'
  BY <1>1, PipeFacts, PlacesStep
<1>3. PipeLists' /\ \A u \in PipeUser \ {x} : Drowse(u)' => Drowse(u)
  BY BoundedLists
<1>4. PipeAwake'
  BY <1>3, AwakeStep
<1> QED BY <1>2, <1>3, <1>4 DEF PipeIInv

\* A step that neither changes what poll() sees nor makes the thread sleep, after
\* which it still wakes whom it was about to wake if that thread sleeps.
LEMMA QueueStep ==
  ASSUME PipeGiven, PipeIInv, NEW x \in PipeUser, NEW p \in PipePC, NEW d \in Ops,
         KernelSound', PipeRuns', PipeLists',
         pc' = [pc EXCEPT ![x] = p], doing' = [doing EXCEPT ![x] = d],
         UNCHANGED <<readers, writers, bytes, fds>>, PlaceOK(x, p, d, fds),
         owner' \in Thread \cup {Nobody},
         rest' \in [Thread -> 0 .. PipeCount], wrote' \in [Thread -> BOOLEAN],
         triggered' \in [Thread -> BOOLEAN],
         \A u \in PipeUser \ {x} : wrote'[u] = wrote[u],
         Opened(x)' => Opened(x),
         Drowse(x)' => Drowse(x) \/ seen(x) = {},
         \A u \in PipeUser \ {x} : Drowse(u)' =>
           Drowse(u) /\ (Waker(x, Own(u)) => Waker(x, Own(u))')
  PROVE  PipeIInv'
<1>1. \A u \in PipeUser : seen(u)' = seen(u) /\ Own(u)' = Own(u)
  BY DEF seen, readable, writable, Own
<1>2. \A u \in PipeUser \ {x} : pc'[u] = pc[u]
  BY PipeFacts, PipeConstants
<1>3. PipeCounts'
  <2>1. \A u \in PipeUser : Opened(u)' => Opened(u)
    BY <1>2 DEF Opened
  <2> QED BY <2>1, PipeFacts DEF PipeCounts
<1>4. Drowse(x)' /\ seen(x)' # {} => \E y \in PipeUser : Waker(y, Own(x))'
  <2>1. SUFFICES ASSUME Drowse(x), seen(x) # {}
                 PROVE  \E y \in PipeUser : Waker(y, Own(x))'
    BY <1>1
  <2>2. PICK y \in PipeUser : Waker(y, Own(x))
    BY <2>1, PipeFacts DEF PipeAwake
  <2>3. y # x
    BY <2>1, <2>2, WakesOther
  <2>4. pc'[y] = pc[y] /\ doing'[y] = doing[y] /\ wrote'[y] = wrote[y]
    BY <1>2, <2>3, PipeFacts, PipeConstants
  <2> QED BY <2>2, <2>4 DEF Waker, Own
<1>5. PipePlaces'
  <2>1. fds' \subseteq PipeUser /\ fds \ {x} \subseteq fds' /\ PlaceOK(x, p, d, fds')
    BY PipeFacts DEF PipePlaces
  <2> QED BY <2>1, PipeFacts, PipeConstants, PlacesStep
<1>6. PipeAwake'
  BY <1>1, <1>4, AwakeStep
<1> QED BY <1>3, <1>5, <1>6 DEF PipeIInv

\* Such a step that leaves the lists alone.
LEMMA MoveStep ==
  ASSUME PipeGiven, PipeIInv, NEW x \in PipeUser, NEW p \in PipePC, NEW d \in Ops,
         KernelSound', PipeRuns', Bounded(x),
         pc' = [pc EXCEPT ![x] = p], doing' = [doing EXCEPT ![x] = d],
         UNCHANGED <<readers, writers, bytes, fds>>, PlaceOK(x, p, d, fds),
         owner' \in Thread \cup {Nobody},
         rest' \in [Thread -> 0 .. PipeCount], wrote' \in [Thread -> BOOLEAN],
         triggered' \in [Thread -> BOOLEAN],
         \A u \in PipeUser \ {x} : wrote'[u] = wrote[u],
         NodesOK(x, p, x \in asleep', triggered'[x], denied'[x], waiting),
         Opened(x)' => Opened(x),
         Drowse(x)' => Drowse(x) \/ seen(x) = {},
         \A q \in PipeQueues : Waker(x, q) => Waker(x, q)' \/ Own(x) = q
  PROVE  PipeIInv'
<1>1. PipeLists' /\ \A u \in PipeUser \ {x} : Drowse(u)' => Drowse(u)
  BY BoundedLists
<1>2. ASSUME NEW u \in PipeUser \ {x}, Waker(x, Own(u)) PROVE Waker(x, Own(u))'
  <2>1. Own(u) # Own(x) /\ Own(u) \in PipeQueues /\ Own(u)' = Own(u)
    <3>1. Side[u] # Side[x]
      BY DEF PipeGiven, OnePair
    <3> QED BY <3>1, PipeConstants DEF Own
  <2> QED BY <1>2, <2>1
<1> QED BY <1>1, <1>2, QueueStep

\* Where a thread has no node.
BarePC == PipePC \ (AsleepPC \cup {"add_w", "p_test", "p_wait", "p_slept", "del_w", "del_r"})

LEMMA BareNodes ==
  ASSUME PipeIInv, NEW x \in PipeUser, pc[x] \in BarePC,
         NEW p \in BarePC, NEW s, NEW g, NEW dn
  PROVE  NodesOK(x, p, s, g, dn, waiting)
<1>1. \A q \in PipeQueues : /\ WaitNode(x) \notin ToSet(waiting[q])
                            /\ PollNode(x) \notin ToSet(waiting[q])
  BY NoNodes DEF BarePC
<1>2. p \notin AsleepPC /\ p # "p_slept" /\ \A q : p \notin Linked(q)
  BY DEF BarePC, Linked
<1> QED BY <1>1, <1>2 DEF NodesOK

\* The kernel, the lists and the flags are left alone.
LEMMA Alone ==
  ASSUME PipeIInv, NEW x \in PipeUser, NEW p, k.cur = x, pc[x] # "q_sched",
         k' = k, pc' = [pc EXCEPT ![x] = p], UNCHANGED <<queues, denied>>,
         \A u \in PipeUser \ {x} : triggered'[u] = triggered[u]
  PROVE  /\ KernelSound' /\ PipeRuns' /\ Bounded(x) /\ asleep' = asleep
         /\ x \notin asleep
<1>1. KernelSound' /\ PipeRuns' /\ asleep' = asleep
  BY RunsStep, PipeConstants
<1> QED BY <1>1, PipeRunning, PipeFacts DEF Bounded, queues

-----------------------------------------------------------------------------
(* The initial state, and the steps of the scheduler.                      *)

LEMMA InitPipe ==
  ThreadsInit /\ QueuesInit /\ PipeInit => PipeIInv /\ (OnePair => PipeGiven)
<1> SUFFICES ASSUME ThreadsInit, QueuesInit, PipeInit
             PROVE  PipeIInv /\ (OnePair => PipeGiven)
  OBVIOUS
<1>1. /\ KernelSound
      /\ k.stat = [t \in Thread |-> IF t = Idle THEN "ready" ELSE "init"]
      /\ \A q \in Queue : ToSet(k.wait[q]) = {}
      /\ k.cur = Idle /\ k.timer = {} /\ pc = [t \in Thread |-> "run"]
  BY ThreadsStarted
<1>2. /\ doing = [t \in Thread |-> "none"] /\ fds = {} /\ readers = 0
      /\ writers = 0 /\ bytes = 0 /\ rest = [t \in Thread |-> 0] /\ owner = Nobody
      /\ wrote = [t \in Thread |-> FALSE] /\ triggered = [t \in Thread |-> FALSE]
  BY DEF PipeInit
<1>3. PipePlaces
  <2>1. \A t \in Thread : PlaceOK(t, "run", "none", {})
    BY DEF PlaceOK, PollPC, ClosePC, BeforePC, AsleepPC
  <2> QED BY <1>1, <1>2, <2>1 DEF PipePlaces, PipePC, Ops
<1>4. PipeRuns
  BY <1>1, PipeConstants DEF PipeRuns
<1>5. PipeCounts
  <2>1. rest \in [Thread -> 0 .. PipeCount] /\ bytes \in 0 .. bufsz
    BY <1>2, PipeConstants
  <2> QED BY <1>2, <2>1 DEF PipeCounts, Opened
<1>6. PipeLists
  <2>1. \A q \in PipeQueues : waiting[q] = << >> /\ ToSet(waiting[q]) = {}
    BY PipeConstants DEF QueuesInit, ToSet
  <2>2. << >> \in Seq(PipeNodes) /\ IsInjective(<< >>)
    BY DEF IsInjective
  <2>5. wakeup \in [WQ -> BOOLEAN] /\ waiting = [q \in WQ |-> waiting[q]]
    BY DEF QueuesInit
  <2>6. ASSUME NEW t \in PipeUser
        PROVE  NodesOK(t, pc[t], t \in asleep, triggered[t], denied[t], waiting)
    <3>1. pc[t] = "run"
      BY <1>1, PipeConstants
    <3> QED BY <2>1, <3>1 DEF NodesOK, Linked, AsleepPC
  <2> QED BY <2>1, <2>2, <2>5, <2>6 DEF PipeLists
<1>7. PipeAwake
  BY <1>1, PipeConstants DEF PipeAwake, Drowse, BeforePC, AsleepPC
<1>8. OnePair => PipeGiven
  BY DEF PipeInit, PipeGiven
<1> QED BY <1>1, <1>3, <1>4, <1>5, <1>6, <1>7, <1>8 DEF PipeIInv

\* A step that leaves the pipe and the queues alone.
LEMMA PipeQuiet ==
  ASSUME PipeIInv, KernelSound', PipeRuns', UNCHANGED <<pipe, queues>>,
         asleep' \subseteq asleep,
         \A u \in asleep \ asleep' : pc[u] \notin AsleepPC,
         \/ pc' = pc
         \/ \E t \in Thread, p \in {"run", "sched"} :
              pc[t] \in {"run", "sched"} /\ pc' = [pc EXCEPT ![t] = p]
         \/ \E t \in Thread : pc[t] = "q_sched" /\ pc' = [pc EXCEPT ![t] = "q_woken"]
  PROVE  PipeIInv'
<1>1. /\ owner' = owner /\ readers' = readers /\ writers' = writers
      /\ bytes' = bytes /\ fds' = fds /\ doing' = doing /\ rest' = rest
      /\ wrote' = wrote /\ triggered' = triggered
      /\ waiting' = waiting /\ wakeup' = wakeup /\ denied' = denied
  BY DEF pipe, given, queues
<1>2. pc' \in [Thread -> PipePC]
  BY PipeFacts DEF PipePC, AsleepPC
<1>3. \A t \in Thread :
        \/ pc'[t] = pc[t] \/ {pc[t], pc'[t]} \subseteq {"run", "sched"}
        \/ pc[t] = "q_sched" /\ pc'[t] = "q_woken"
  BY PipeFacts
<1>4. PipePlaces'
  <2>1. \A t \in Thread : PlaceOK(t, pc'[t], doing[t], fds)
    BY <1>3, PipeFacts DEF PlaceOK, PollPC, ClosePC, BeforePC, AsleepPC
  <2> QED BY <1>1, <1>2, <2>1, PipeFacts DEF PipePlaces
<1>5. PipeCounts'
  <2>1. \A t \in PipeUser : Opened(t)' => Opened(t)
    BY <1>1, <1>3, PipeConstants DEF Opened, ClosePC
  <2> QED BY <1>1, <2>1, PipeFacts DEF PipeCounts
<1>6. PipeLists'
  <2>1. ASSUME NEW t \in PipeUser
        PROVE  NodesOK(t, pc'[t], t \in asleep', triggered[t], denied[t], waiting)
    <3>1. NodesOK(t, pc[t], t \in asleep, triggered[t], denied[t], waiting)
      BY PipeFacts DEF PipeLists
    <3>2. t \in Thread
      BY PipeConstants
    <3>3. CASE pc'[t] = pc[t]
      BY <3>1, <3>3 DEF NodesOK, AsleepPC
    <3>4. CASE {pc[t], pc'[t]} \subseteq {"run", "sched"}
      BY <3>1, <3>4 DEF NodesOK, AsleepPC, Linked
    <3>5. CASE pc[t] = "q_sched" /\ pc'[t] = "q_woken"
      BY <3>1, <3>5 DEF NodesOK, AsleepPC, Linked
    <3> QED BY <1>3, <3>2, <3>3, <3>4, <3>5
  <2> QED BY <1>1, <2>1, PipeFacts DEF PipeLists
<1>7. PipeAwake'
  <2>1. ASSUME NEW t \in PipeUser, Drowse(t)' PROVE Drowse(t)
    BY <1>1, <1>3, <2>1, PipeConstants DEF Drowse, BeforePC, AsleepPC, Own
  <2>2. ASSUME NEW t \in PipeUser, NEW q, Waker(t, q) PROVE Waker(t, q)'
    BY <1>1, <1>3, <2>2, PipeConstants DEF Waker
  <2>3. \A t \in PipeUser : seen(t)' = seen(t) /\ Own(t)' = Own(t)
    BY <1>1 DEF seen, readable, writable, Own
  <2> QED BY <2>1, <2>2, <2>3, PipeFacts DEF PipeAwake
<1> QED BY <1>4, <1>5, <1>6, <1>7 DEF PipeIInv

LEMMA PipeThreads ==
  ASSUME PipeIInv, ThreadsNext, UNCHANGED <<pipe, queues>>
  PROVE  PipeIInv'
<1> USE PipeFacts
<1>1. ASSUME NEW t \in Thread, NEW new \in Thread, Startup(t, new)
      PROVE  PipeIInv'
  <2>1. /\ KernelSound' /\ k.cur = t /\ pc[t] = "run"
        /\ pc' = [pc EXCEPT ![t] = "sched"] /\ k.stat[new] = "init"
        /\ k'.stat = [k.stat EXCEPT ![new] = "ready"]
        /\ k'.timer = k.timer /\ k'.cur = k.cur /\ k'.wait = k.wait
    BY <1>1, StartupMoves DEF At, Go
  <2>2. asleep' = asleep
    BY <2>1 DEF asleep
  <2>3. PipeRuns'
    BY <2>1 DEF PipeRuns
  <2> QED BY <2>1, <2>2, <2>3, PipeQuiet
<1>2. ASSUME NEW p, k' = rt_schedule(k), pc' = p
      PROVE  /\ KernelSound' /\ k'.stat[k'.cur] = "ready" /\ k'.wait = k.wait
             /\ k'.stat = k.stat /\ k'.timer = k.timer /\ asleep' = asleep
  <2>1. /\ KernelSound' /\ k'.stat[k'.cur] = "ready" /\ k'.wait = k.wait
        /\ k'.stat = k.stat /\ k'.timer = k.timer
    BY <1>2, ScheduleMoves DEF KernelSound
  <2> QED BY <2>1 DEF asleep
<1>3. ASSUME NEW t \in Thread, Schedule(t)
      PROVE  PipeIInv'
  <2>1. k' = rt_schedule(k) /\ pc[t] = "sched" /\ pc' = [pc EXCEPT ![t] = "run"]
    BY <1>3 DEF Schedule, At, Go
  <2>2. PipeRuns'
    BY <1>2, <2>1 DEF PipeRuns
  <2> QED BY <1>2, <2>1, <2>2, PipeQuiet
<1>4. ASSUME NEW t \in Thread, TimerExpire(t)
      PROVE  PipeIInv'
  <2>1. /\ KernelSound' /\ pc' = pc /\ k'.stat[k'.cur] = "ready"
        /\ k'.stat = [k.stat EXCEPT ![t] = "ready"]
        /\ ToSet(k'.wait[Lock]) = ToSet(k.wait[Lock]) \ {t}
        /\ k'.timer = k.timer \ {t}
    BY <1>4, ExpireMoves, PipeConstants
  <2>2. pc[t] = "p_slept"
    BY <1>4 DEF TimerExpire, PipeRuns
  <2>3. asleep' \subseteq asleep /\ \A u \in asleep \ asleep' : u = t
    BY <2>1 DEF asleep
  <2>4. \A u \in asleep \ asleep' : pc[u] \notin AsleepPC
    BY <2>2, <2>3 DEF AsleepPC
  <2>5. PipeRuns'
    BY <2>1 DEF PipeRuns
  <2> QED BY <2>1, <2>3, <2>4, <2>5, PipeQuiet
<1>5. ASSUME TickYield PROVE PipeIInv'
  <2>1. k' = rt_schedule(k) /\ pc' = pc
    BY <1>5 DEF TickYield
  <2>2. PipeRuns'
    BY <1>2, <2>1 DEF PipeRuns
  <2> QED BY <1>2, <2>1, <2>2, PipeQuiet
<1> QED BY <1>1, <1>3, <1>4, <1>5 DEF ThreadsNext

-----------------------------------------------------------------------------
(* Steps that leave the queues alone.                                      *)

\* The begin of an operation.
LEMMA PipeCalls ==
  ASSUME PipeGiven, PipeIInv, NEW x \in PipeUser,
         CallOpen(x) \/ CallClose(x) \/ CallRead(x) \/ CallWrite(x)
  PROVE  PipeIInv'
<1> USE PipeFacts
<1>0. x \in Thread
  BY PipeConstants
<1>1. PICK d \in {"open", "close", "read", "write"} :
        /\ Call(x, d) /\ (d \in {"close", "read", "write"} => x \in fds)
        /\ d \in {"read", "write"} => Side[x] = d
        /\ denied' = denied
        /\ rest' = [rest EXCEPT ![x] = PipeCount] \/ rest' = rest
        /\ wrote' = [wrote EXCEPT ![x] = FALSE] \/ wrote' = wrote
  <2>1. CASE CallOpen(x)
    BY <2>1, PairSides DEF CallOpen, Call
  <2>2. CASE CallClose(x)
    BY <2>2, PairSides DEF CallClose, Call
  <2>3. CASE CallRead(x)
    BY <2>3, PairSides DEF CallRead, Call
  <2>4. CASE CallWrite(x)
    BY <2>4, PairSides DEF CallWrite, Call
  <2> QED BY <2>1, <2>2, <2>3, <2>4
<1>n. /\ rest' \in [Thread -> 0 .. PipeCount] /\ wrote' \in [Thread -> BOOLEAN]
      /\ \A u \in PipeUser \ {x} : wrote'[u] = wrote[u]
  <2>1. rest \in [Thread -> 0 .. PipeCount] /\ PipeCount \in 0 .. PipeCount
    BY PipeConstants DEF PipeCounts
  <2>2. \A u \in PipeUser : u \in Thread
    BY PipeConstants
  <2> QED BY <1>0, <1>1, <2>1, <2>2
<1>2. /\ k.cur = x /\ pc[x] = "run" /\ pc' = [pc EXCEPT ![x] = "p_lock"]
      /\ doing' = [doing EXCEPT ![x] = d] /\ k' = k /\ UNCHANGED queues
      /\ UNCHANGED <<owner, readers, writers, bytes, fds, triggered, denied>>
  BY <1>1 DEF Call, At, Go
<1>3. /\ KernelSound' /\ PipeRuns' /\ Bounded(x) /\ asleep' = asleep
      /\ x \notin asleep
  BY <1>2, Alone
<1>4. "run" \in BarePC /\ "p_lock" \in BarePC /\ "p_lock" \in PipePC /\ d \in Ops
  BY DEF BarePC, PipePC, Ops, AsleepPC
<1>5. NodesOK(x, "p_lock", x \in asleep', triggered'[x], denied'[x], waiting)
  BY <1>2, <1>4, BareNodes
<1>6. PlaceOK(x, "p_lock", d, fds)
  BY <1>1 DEF PlaceOK, ClosePC, PollPC, BeforePC, AsleepPC
<1>7. pc'[x] = "p_lock"
  BY <1>0, <1>2
<1>8. ~Drowse(x)' /\ \A q : ~Waker(x, q)
  BY <1>2, <1>7 DEF Drowse, Waker, BeforePC, AsleepPC
<1>9. Opened(x)' => Opened(x)
  BY <1>2 DEF Opened, ClosePC
<1>10. owner' \in Thread \cup {Nobody} /\ triggered' \in [Thread -> BOOLEAN]
  BY <1>2 DEF PipeCounts
<1> QED BY <1>2, <1>3, <1>4, <1>5, <1>6, <1>8, <1>9, <1>10, <1>n, MoveStep

\* Only the place of the thread, the owner of the mutex and the flags of the
\* thread change.
LEMMA SimpleMove ==
  ASSUME PipeGiven, PipeIInv, NEW x \in PipeUser, NEW p \in PipePC,
         KernelSound', PipeRuns', Bounded(x), pc' = [pc EXCEPT ![x] = p],
         UNCHANGED <<readers, writers, bytes, fds, doing, rest, wrote>>,
         owner' \in Thread \cup {Nobody}, triggered' \in [Thread -> BOOLEAN],
         PlaceOK(x, p, doing[x], fds),
         NodesOK(x, p, x \in asleep', triggered'[x], denied'[x], waiting),
         Opened(x)' => Opened(x),
         Drowse(x)' => Drowse(x) \/ seen(x) = {},
         \A q \in PipeQueues : Waker(x, q) => Waker(x, q)' \/ Own(x) = q
  PROVE  PipeIInv'
<1>1. doing[x] \in Ops /\ doing' = [doing EXCEPT ![x] = doing[x]]
  BY PipeFacts, PipeConstants
<1>2. /\ rest' \in [Thread -> 0 .. PipeCount] /\ wrote' \in [Thread -> BOOLEAN]
      /\ \A u \in PipeUser \ {x} : wrote'[u] = wrote[u]
  BY PipeFacts DEF PipeCounts
<1>3. UNCHANGED <<readers, writers, bytes, fds>>
  OBVIOUS
<1> QED BY <1>1, <1>2, <1>3, MoveStep

\* Such a step of a thread without a node.
LEMMA BareMove ==
  ASSUME PipeGiven, PipeIInv, NEW x \in PipeUser, NEW p \in BarePC,
         k.cur = x, pc[x] \in BarePC, k' = k, UNCHANGED queues,
         pc' = [pc EXCEPT ![x] = p],
         UNCHANGED <<readers, writers, bytes, fds, doing, rest, wrote, triggered>>,
         denied' = denied,
         owner' \in Thread \cup {Nobody}, PlaceOK(x, p, doing[x], fds),
         pc[x] \in ClosePC => p \in ClosePC,
         p \in BeforePC => Drowse(x) \/ seen(x) = {},
         \A q \in PipeQueues : Waker(x, q) => Waker(x, q)' \/ Own(x) = q
  PROVE  PipeIInv'
<1>1. pc[x] # "q_sched" /\ p \in PipePC
  BY DEF BarePC, AsleepPC
<1>2. /\ KernelSound' /\ PipeRuns' /\ Bounded(x)
  BY <1>1, Alone
<1>3. NodesOK(x, p, x \in asleep', triggered'[x], denied'[x], waiting)
  BY BareNodes
<1>4. pc'[x] = p
  BY PipeFacts, PipeConstants
<1>5. Opened(x)' => Opened(x)
  BY <1>4 DEF Opened
<1>6. Drowse(x)' => Drowse(x) \/ seen(x) = {}
  <2>1. p \notin AsleepPC /\ p # "p_wait" /\ p # "p_slept"
    BY DEF BarePC
  <2> QED BY <1>4, <2>1 DEF Drowse
<1>7. triggered' \in [Thread -> BOOLEAN]
  BY PipeFacts
<1> QED BY <1>1, <1>2, <1>3, <1>5, <1>6, <1>7, SimpleMove

\* A step that opens or closes the pipe, or moves bytes.
LEMMA BareChange ==
  ASSUME PipeGiven, PipeIInv, NEW x \in PipeUser, NEW p \in BarePC,
         k.cur = x, pc[x] \in BarePC, k' = k, UNCHANGED <<queues, triggered, doing>>,
         denied' = denied,
         pc' = [pc EXCEPT ![x] = p],
         fds' \subseteq PipeUser, fds \ {x} \subseteq fds',
         PlaceOK(x, p, doing[x], fds'), PipeCounts',
         p \in BeforePC => seen(x)' = {}, \A q : ~Waker(x, q),
         \A u \in PipeUser \ {x} : Drowse(u) /\ seen(u)' # {} =>
           seen(u) # {} \/ Waker(x, Own(u))'
  PROVE  PipeIInv'
<1>1. pc[x] # "q_sched" /\ p \in PipePC
  BY DEF BarePC, AsleepPC
<1>2. UNCHANGED <<queues, denied>> /\ \A u \in PipeUser \ {x} : triggered'[u] = triggered[u]
  OBVIOUS
<1>3. /\ KernelSound' /\ PipeRuns' /\ Bounded(x)
  BY <1>1, <1>2, Alone
<1>4. NodesOK(x, p, x \in asleep', triggered'[x], denied'[x], waiting)
  BY BareNodes
<1>5. doing[x] \in Ops /\ doing' = [doing EXCEPT ![x] = doing[x]]
  BY PipeFacts, PipeConstants
<1>6. Drowse(x)' => seen(x)' = {}
  <2>1. p \notin AsleepPC /\ p # "p_wait" /\ p # "p_slept"
    BY DEF BarePC
  <2>2. pc'[x] = p
    BY PipeFacts, PipeConstants
  <2> QED BY <2>1, <2>2 DEF Drowse
<1> QED BY <1>1, <1>3, <1>4, <1>5, <1>6, LocalStep

\* Where the threads are that run with the mutex or close the pipe.
LEMMA BarePlaces ==
  /\ {"run", "sched", "p_lock", "p_body", "p_unlock", "p_woke", "p_wake_end", "q_remove",
      "p_close_r", "p_close_w", "p_close", "p_unlock_wait", "p_wake_wait", "wait",
      "add_r"} \subseteq BarePC
  /\ BarePC \subseteq PipePC
BY DEF BarePC, PipePC, AsleepPC, ClosePC, BeforePC, PollPC

\* Who sleeps, or will, has the pipe open.
LEMMA DrowseOpen ==
  ASSUME PipeIInv, NEW u \in PipeUser, Drowse(u)
  PROVE  u \in fds
<1>1. PlaceOK(u, pc[u], doing[u], fds)
  BY PipeFacts, PipeConstants
<1> QED BY <1>1 DEF Drowse, PlaceOK, BeforePC, AsleepPC, PollPC

\* rt_mutex_take without a wait, the tests of a close, a read and a write that find
\* nothing to do.
LEMMA PipeBodies ==
  ASSUME PipeGiven, PipeIInv, NEW x \in PipeUser, k' = k, UNCHANGED <<bytes, rest, wrote>>,
         \/ TakeLock(x) /\ owner' = x
         \/ CloseReaders(x) /\ UNCHANGED <<queues, triggered>> /\ writers # 0
         \/ CloseWriters(x) /\ UNCHANGED <<queues, triggered>> /\ readers # 0
         \/ ReadBody(x)
         \/ WriteBody(x) /\ readers = 0 /\ Go(x, "p_unlock")
  PROVE  PipeIInv'
<1> USE PipeFacts, BarePlaces
<1>0. x \in Thread /\ PlaceOK(x, pc[x], doing[x], fds) /\ bytes \in 0 .. bufsz
  BY PipeConstants DEF PipeCounts
<1>1. CASE TakeLock(x) /\ owner' = x
  <2>1. /\ k.cur = x /\ pc[x] = "p_lock" /\ pc' = [pc EXCEPT ![x] = "p_body"]
        /\ UNCHANGED <<readers, writers, bytes, fds, doing, rest, wrote, triggered, queues>>
        /\ denied' = denied
    BY <1>1 DEF TakeLock, At, Go, given
  <2>2. PlaceOK(x, "p_body", doing[x], fds)
    BY <1>0, <2>1 DEF PlaceOK, ClosePC, PollPC, BeforePC, AsleepPC
  <2>3. "p_lock" \notin ClosePC /\ "p_body" \notin BeforePC
    BY DEF ClosePC, BeforePC
  <2>4. \A q \in PipeQueues : ~Waker(x, q)
    BY <2>1 DEF Waker
  <2>5. owner' \in Thread \cup {Nobody}
    BY <1>0, <1>1
  <2> QED BY <2>1, <2>2, <2>3, <2>4, <2>5, BareMove
<1>2. CASE CloseReaders(x) /\ UNCHANGED <<queues, triggered>> /\ writers # 0
  <2>1. /\ k.cur = x /\ pc[x] = "p_close_r" /\ pc' = [pc EXCEPT ![x] = "p_close_w"]
        /\ UNCHANGED <<owner, readers, writers, bytes, fds, doing, rest, wrote, triggered,
                       queues>>
        /\ denied' = denied
    BY <1>2 DEF CloseReaders, At, Go, given
  <2>2. PlaceOK(x, "p_close_w", doing[x], fds)
    BY <1>0, <2>1 DEF PlaceOK, ClosePC, PollPC, BeforePC, AsleepPC
  <2>3. "p_close_w" \in ClosePC /\ "p_close_w" \notin BeforePC
    BY DEF ClosePC, BeforePC
  <2>4. pc'[x] = "p_close_w" /\ doing[x] = "close"
    BY <1>0, <2>1 DEF PlaceOK, ClosePC
  <2>5. \A q \in PipeQueues : Waker(x, q) => Waker(x, q)'
    BY <1>2, <2>1, <2>4 DEF Waker
  <2>6. owner' \in Thread \cup {Nobody}
    BY <2>1 DEF PipeCounts
  <2> QED BY <2>1, <2>2, <2>3, <2>5, <2>6, BareMove
<1>3. CASE CloseWriters(x) /\ UNCHANGED <<queues, triggered>> /\ readers # 0
  <2>1. /\ k.cur = x /\ pc[x] = "p_close_w" /\ pc' = [pc EXCEPT ![x] = "p_close"]
        /\ UNCHANGED <<owner, readers, writers, bytes, fds, doing, rest, wrote, triggered,
                       queues>>
        /\ denied' = denied
    BY <1>3 DEF CloseWriters, At, Go, given
  <2>2. PlaceOK(x, "p_close", doing[x], fds)
    BY <1>0, <2>1 DEF PlaceOK, ClosePC, PollPC, BeforePC, AsleepPC
  <2>3. "p_close" \in ClosePC /\ "p_close" \notin BeforePC
    BY DEF ClosePC, BeforePC
  <2>4. doing[x] = "close"
    BY <1>0, <2>1 DEF PlaceOK, ClosePC
  <2>5. \A q \in PipeQueues : ~Waker(x, q)
    BY <1>3, <2>1, <2>4 DEF Waker
  <2>6. owner' \in Thread \cup {Nobody}
    BY <2>1 DEF PipeCounts
  <2> QED BY <2>1, <2>2, <2>3, <2>5, <2>6, BareMove
<1>4. CASE ReadBody(x) \/ (WriteBody(x) /\ readers = 0 /\ Go(x, "p_unlock"))
  <2>1. PICK p \in {"p_unlock", "p_unlock_wait"} :
          /\ pc' = [pc EXCEPT ![x] = p]
          /\ p = "p_unlock_wait" => doing[x] = "read" /\ writers > 0 /\ bytes = 0
    <3>1. CASE ReadBody(x)
      <4>1. CASE writers = 0
        BY <3>1, <4>1, PipeConstants DEF ReadBody, Go
      <4>2. CASE writers > 0 /\ bytes > 0
        <5>1. bytes - Min({PipeCount, bytes}) # bytes
          <6>1. Min({PipeCount, bytes}) = IF PipeCount <= bytes THEN PipeCount ELSE bytes
            BY <1>0, PipeConstants, MinOfTwo
          <6> QED BY <1>0, <4>2, <6>1, PipeConstants
        <5> QED BY <3>1, <4>2, <5>1 DEF ReadBody
      <4>3. CASE writers > 0 /\ bytes = 0
        BY <3>1, <4>3 DEF ReadBody, Go, InBody
      <4> QED BY <3>1, <4>1, <4>2, <4>3 DEF ReadBody
    <3>2. CASE WriteBody(x) /\ readers = 0 /\ Go(x, "p_unlock")
      BY <3>2 DEF Go
    <3> QED BY <1>4, <3>1, <3>2
  <2>2. /\ k.cur = x /\ pc[x] = "p_body" /\ doing[x] \in {"read", "write"}
        /\ UNCHANGED <<owner, readers, writers, bytes, fds, doing, rest, wrote, triggered,
                       queues>>
        /\ denied' = denied
    BY <1>4 DEF ReadBody, WriteBody, InBody, At, given
  <2>3. PlaceOK(x, p, doing[x], fds)
    BY <1>0, <2>1, <2>2 DEF PlaceOK, ClosePC, PollPC, BeforePC, AsleepPC
  <2>4. "p_body" \notin ClosePC /\ p \in BarePC
    BY <2>1 DEF ClosePC
  <2>5. \A q \in PipeQueues : ~Waker(x, q)
    BY <2>2 DEF Waker
  <2>6. p \in BeforePC => seen(x) = {}
    <3>1. p = "p_unlock_wait" => Side[x] = "read" /\ writers > 0 /\ bytes = 0
      BY <1>0, <2>1, <2>2 DEF PlaceOK
    <3>2. writers \in Nat /\ p \in BeforePC => p = "p_unlock_wait"
      BY <2>1 DEF PipeCounts, BeforePC
    <3> QED BY <3>1, <3>2 DEF seen, readable, writable, PipeCounts
  <2>7. owner' \in Thread \cup {Nobody}
    BY <2>2 DEF PipeCounts
  <2> QED BY <2>2, <2>1, <2>3, <2>4, <2>5, <2>6, <2>7, BareMove
<1> QED BY <1>1, <1>2, <1>3, <1>4

\* The open and the close of the pipe, and the bytes that go through it.
LEMMA PipeOpens ==
  ASSUME PipeGiven, PipeIInv, NEW x \in PipeUser, Open(x)
  PROVE  PipeIInv'
<1> USE PipeFacts, BarePlaces
<1>0. x \in Thread /\ PlaceOK(x, pc[x], doing[x], fds) /\ PipeCounts
  BY PipeConstants
<1>1. /\ k.cur = x /\ pc[x] = "p_body" /\ pc' = [pc EXCEPT ![x] = "p_unlock"]
      /\ doing[x] = "open" /\ k' = k
      /\ UNCHANGED <<owner, doing, rest, wrote, triggered, queues, denied>>
      /\ fds' = fds \cup {x} /\ (fds # {} => bytes' = bytes)
      /\ bytes' = 0 \/ bytes' = bytes
      /\ readers' = IF Side[x] = "read" THEN readers + 1 ELSE readers
      /\ writers' = IF Side[x] = "write" THEN writers + 1 ELSE writers
  BY PairSides DEF Open, InBody, At, Go
<1>2. fds' \subseteq PipeUser /\ fds \ {x} \subseteq fds'
  BY <1>1 DEF PipePlaces
<1>3. PlaceOK(x, "p_unlock", doing[x], fds')
  BY <1>0, <1>1 DEF PlaceOK, ClosePC, PollPC, BeforePC, AsleepPC
<1>4. /\ readers \in Nat /\ writers \in Nat /\ readers' \in Nat /\ writers' \in Nat
      /\ readers' >= readers /\ writers' >= writers
      /\ Side[x] = "read" => readers' > 0
      /\ Side[x] # "read" => writers' > 0
  BY <1>0, <1>1, PipeConstants DEF PipeCounts
<1>5. PipeCounts'
  <2>1. bytes' \in 0 .. bufsz
    BY <1>0, <1>1, PipeConstants DEF PipeCounts
  <2>2. ASSUME NEW t \in PipeUser, Opened(t)'
        PROVE  IF Side[t] = "read" THEN readers' > 0 ELSE writers' > 0
    <3>1. CASE t = x
      BY <1>4, <3>1
    <3>2. CASE t # x
      <4>1. Opened(t)
        BY <1>1, <2>2, <3>2, PipeConstants DEF Opened
      <4> QED BY <1>0, <1>4, <4>1 DEF PipeCounts
    <3> QED BY <3>1, <3>2
  <2> QED BY <1>0, <1>1, <1>4, <2>1, <2>2 DEF PipeCounts
<1>6. ASSUME NEW u \in PipeUser \ {x}, Drowse(u), seen(u)' # {}
      PROVE  seen(u) # {}
  <2>1. bytes' = bytes
    BY <1>1, <1>6, DrowseOpen
  <2>2. (readers' = 0 => readers = 0) /\ (writers' = 0 => writers = 0)
    BY <1>4
  <2> QED BY <1>6, <2>1, <2>2 DEF seen, readable, writable
<1>7. "p_unlock" \notin BeforePC /\ \A q : ~Waker(x, q)
  BY <1>1 DEF Waker, BeforePC
<1>8. UNCHANGED <<queues, triggered, doing>> /\ denied' = denied
  BY <1>1
<1>9. pc[x] \in BarePC /\ "p_unlock" \in BarePC
  BY <1>1
<1> QED BY <1>1, <1>2, <1>3, <1>5, <1>6, <1>7, <1>8, <1>9, BareChange

LEMMA PipeCloses ==
  ASSUME PipeGiven, PipeIInv, NEW x \in PipeUser, Close(x)
  PROVE  PipeIInv'
<1> USE PipeFacts, BarePlaces
<1>0. x \in Thread /\ PlaceOK(x, pc[x], doing[x], fds) /\ PipeCounts
  BY PipeConstants
<1>1. /\ k.cur = x /\ pc[x] = "p_body" /\ pc' = [pc EXCEPT ![x] = "p_close_r"]
      /\ doing[x] = "close" /\ k' = k
      /\ UNCHANGED <<owner, bytes, fds, doing, rest, wrote, triggered, queues, denied>>
      /\ readers' = IF Side[x] = "read" THEN readers - 1 ELSE readers
      /\ writers' = IF Side[x] = "write" THEN writers - 1 ELSE writers
  BY PairSides DEF Close, InBody, At, Go, given
<1>2. fds' \subseteq PipeUser /\ fds \ {x} \subseteq fds'
  BY <1>1 DEF PipePlaces
<1>3. PlaceOK(x, "p_close_r", doing[x], fds') /\ x \in fds
  BY <1>0, <1>1 DEF PlaceOK, ClosePC, PollPC, BeforePC, AsleepPC
<1>4. Opened(x)
  BY <1>1, <1>3 DEF Opened, ClosePC
<1>5. /\ readers' \in Nat /\ writers' \in Nat
  BY <1>0, <1>1, <1>4, PipeConstants DEF PipeCounts
<1>6. PipeCounts'
  <2>1. ASSUME NEW t \in PipeUser, Opened(t)'
        PROVE  IF Side[t] = "read" THEN readers' > 0 ELSE writers' > 0
    <3>1. pc'[x] = "p_close_r" /\ "p_close_r" \in ClosePC
      BY <1>0, <1>1 DEF ClosePC
    <3>2. t # x
      BY <2>1, <3>1 DEF Opened
    <3>3. Opened(t)
      BY <1>1, <2>1, <3>2, PipeConstants DEF Opened
    <3>4. Side[t] # Side[x]
      BY <3>2 DEF PipeGiven, OnePair
    <3> QED BY <1>0, <1>1, <3>3, <3>4, PipeConstants DEF PipeCounts
  <2> QED BY <1>0, <1>1, <1>5, <2>1 DEF PipeCounts
<1>7. ASSUME NEW u \in PipeUser \ {x}, Drowse(u), seen(u)' # {}
      PROVE  seen(u) # {} \/ Waker(x, Own(u))'
  <2>1. Side[u] # Side[x]
    BY DEF PipeGiven, OnePair
  <2>2. pc'[x] = "p_close_r" /\ Own(u)' = Own(u)
    BY <1>0, <1>1 DEF Own
  <2>3. CASE Side[u] = "read"
    <3>1. readers' = readers /\ Own(u) = reader_queue
      BY <1>1, <2>1, <2>3, PipeConstants
    <3>2. CASE writers' = 0
      BY <2>2, <3>1, <3>2 DEF Waker
    <3>3. CASE writers' # 0
      BY <1>1, <1>7, <2>3, <3>3 DEF seen, readable, writable
    <3> QED BY <3>2, <3>3
  <2>4. CASE Side[u] # "read"
    <3>1. Own(u) = writer_queue
      BY <2>4 DEF Own
    <3>2. CASE readers' = 0
      BY <2>2, <3>1, <3>2 DEF Waker
    <3>3. CASE readers' # 0
      BY <1>1, <1>7, <2>4, <3>3 DEF seen, readable, writable
    <3> QED BY <3>2, <3>3
  <2> QED BY <2>3, <2>4
<1>8. "p_close_r" \notin BeforePC /\ \A q : ~Waker(x, q)
  BY <1>1 DEF Waker, BeforePC
<1>9. UNCHANGED <<queues, triggered, doing>> /\ denied' = denied
  BY <1>1
<1>10. pc[x] \in BarePC /\ "p_close_r" \in BarePC
  BY <1>1
<1> QED BY <1>1, <1>2, <1>3, <1>6, <1>7, <1>8, <1>9, <1>10, BareChange

LEMMA PipeCloseEnds ==
  ASSUME PipeGiven, PipeIInv, NEW x \in PipeUser, CloseEnd(x)
  PROVE  PipeIInv'
<1> USE PipeFacts, BarePlaces
<1>0. x \in Thread /\ PlaceOK(x, pc[x], doing[x], fds) /\ PipeCounts
  BY PipeConstants
<1>1. /\ k.cur = x /\ pc[x] = "p_close" /\ pc' = [pc EXCEPT ![x] = "p_unlock"]
      /\ fds' = fds \ {x} /\ (fds' # {} => bytes' = bytes)
      /\ bytes' = 0 \/ bytes' = bytes
      /\ k' = k
      /\ UNCHANGED <<owner, readers, writers, doing, rest, wrote, triggered, queues, denied>>
  BY DEF CloseEnd, At, Go
<1>2. fds' \subseteq PipeUser /\ fds \ {x} \subseteq fds' /\ doing[x] = "close"
  BY <1>0, <1>1 DEF PipePlaces, PlaceOK, ClosePC
<1>3. PlaceOK(x, "p_unlock", doing[x], fds')
  BY <1>2, PipeConstants DEF PlaceOK, ClosePC, PollPC, BeforePC, AsleepPC
<1>4. PipeCounts'
  <2>1. bytes' \in 0 .. bufsz
    BY <1>0, <1>1, PipeConstants DEF PipeCounts
  <2>2. \A t \in PipeUser : Opened(t)' => Opened(t)
    BY <1>1, PipeConstants DEF Opened
  <2> QED BY <1>0, <1>1, <2>1, <2>2 DEF PipeCounts
<1>5. ASSUME NEW u \in PipeUser \ {x}, Drowse(u), seen(u)' # {}
      PROVE  seen(u) # {}
  <2>1. bytes' = bytes
    BY <1>1, <1>5, DrowseOpen
  <2> QED BY <1>1, <1>5, <2>1 DEF seen, readable, writable
<1>6. "p_unlock" \notin BeforePC /\ \A q : ~Waker(x, q)
  BY <1>1, <1>2 DEF Waker, BeforePC
<1>7. UNCHANGED <<queues, triggered, doing>> /\ denied' = denied
  BY <1>1
<1>8. pc[x] \in BarePC /\ "p_unlock" \in BarePC
  BY <1>1
<1> QED BY <1>1, <1>2, <1>3, <1>4, <1>5, <1>6, <1>7, <1>8, BareChange

LEMMA PipeMovesBytes ==
  ASSUME PipeGiven, PipeIInv, NEW x \in PipeUser, ReadBody(x) \/ WriteBody(x)
  PROVE  PipeIInv'
<1> USE PipeFacts, BarePlaces
<1>0. x \in Thread /\ PlaceOK(x, pc[x], doing[x], fds) /\ PipeCounts
  BY PipeConstants
<1>1. CASE (ReadBody(x) /\ UNCHANGED bytes)
             \/ (WriteBody(x) /\ readers = 0 /\ Go(x, "p_unlock") /\ UNCHANGED <<bytes, rest, wrote>>)
  <2>1. k' = k /\ UNCHANGED <<bytes, rest, wrote>>
    BY <1>1 DEF ReadBody, WriteBody
  <2> QED BY <1>1, <2>1, PipeBodies
<1>2. CASE ReadBody(x) /\ writers > 0 /\ bytes > 0 /\ Go(x, "p_woke")
             /\ bytes' = bytes - Min({PipeCount, bytes})
  <2>1. /\ k.cur = x /\ pc[x] = "p_body" /\ doing[x] = "read"
        /\ pc' = [pc EXCEPT ![x] = "p_woke"] /\ k' = k
        /\ UNCHANGED <<owner, readers, writers, fds, doing, rest, wrote, triggered, queues>>
        /\ denied' = denied
    BY <1>2 DEF ReadBody, InBody, At, Go, given
  <2>2. bytes' \in 0 .. bufsz
    <3>1. bytes \in 0 .. bufsz /\ Min({PipeCount, bytes}) \in 0 .. bytes
      <4>1. bytes \in 0 .. bufsz
        BY <1>0 DEF PipeCounts
      <4>2. Min({PipeCount, bytes}) = IF PipeCount <= bytes THEN PipeCount ELSE bytes
        BY <4>1, PipeConstants, MinOfTwo
      <4> QED BY <4>1, <4>2, PipeConstants
    <3> QED BY <1>2, <3>1, PipeConstants
  <2>3. pc'[x] = "p_woke" /\ doing'[x] = "read" /\ Side[x] = "read"
    BY <1>0, <2>1 DEF PlaceOK
  <2>4. PipeCounts'
    <3>1. \A t \in PipeUser : Opened(t)' => Opened(t)
      BY <2>1, PipeConstants DEF Opened, ClosePC
    <3> QED BY <1>0, <2>1, <2>2, <3>1 DEF PipeCounts
  <2>5. PlaceOK(x, "p_woke", doing[x], fds')
    BY <1>0, <2>1 DEF PlaceOK, ClosePC, PollPC, BeforePC, AsleepPC
  <2>6. ASSUME NEW u \in PipeUser \ {x}
        PROVE  Waker(x, Own(u))'
    <3>1. Side[u] # "read"
      BY <2>3 DEF PipeGiven, OnePair
    <3> QED BY <2>3, <3>1 DEF Waker, Own
  <2>7. "p_woke" \notin BeforePC /\ \A q : ~Waker(x, q)
    BY <2>1 DEF Waker, BeforePC
  <2>8. UNCHANGED <<queues, triggered, doing>> /\ denied' = denied
    BY <2>1
  <2>9. pc[x] \in BarePC /\ "p_woke" \in BarePC
    BY <2>1
  <2>10. fds' \subseteq PipeUser /\ fds \ {x} \subseteq fds'
    BY <2>1 DEF PipePlaces
  <2> QED BY <2>1, <2>4, <2>5, <2>6, <2>7, <2>8, <2>9, <2>10, BareChange
<1>3. ASSUME NEW n, n = Min({rest[x], bufsz - bytes}), WriteBody(x), readers > 0,
             bytes' = bytes + n, rest' = [rest EXCEPT ![x] = @ - n],
             wrote' = [wrote EXCEPT ![x] = TRUE],
             NEW p, Go(x, p), p = "p_unlock" \/ (p = "p_unlock_wait" /\ rest[x] > n)
      PROVE  PipeIInv'
  <2>1. /\ k.cur = x /\ pc[x] = "p_body" /\ doing[x] = "write"
        /\ pc' = [pc EXCEPT ![x] = p] /\ k' = k
        /\ UNCHANGED <<owner, readers, writers, fds, doing, triggered, queues>>
        /\ denied' = denied
    BY <1>3 DEF WriteBody, InBody, At, Go, given
  <2>2. /\ rest[x] \in 0 .. PipeCount /\ bytes \in 0 .. bufsz
        /\ n \in 0 .. rest[x] /\ n \in 0 .. (bufsz - bytes)
        /\ rest[x] > n => n = bufsz - bytes
    <3>1. rest[x] \in 0 .. PipeCount /\ bytes \in 0 .. bufsz
      BY <1>0 DEF PipeCounts
    <3>2. bufsz - bytes \in Nat /\ rest[x] \in Nat
      BY <3>1, PipeConstants
    <3>3. n = IF rest[x] <= bufsz - bytes THEN rest[x] ELSE bufsz - bytes
      BY <1>3, <3>2, MinOfTwo
    <3> QED BY ONLY <3>1, <3>2, <3>3
  <2>3. /\ bytes' \in 0 .. bufsz /\ rest' \in [Thread -> 0 .. PipeCount]
        /\ wrote' \in [Thread -> BOOLEAN] /\ wrote'[x] = TRUE
        /\ p = "p_unlock_wait" => bytes' = bufsz
    <3>1. rest \in [Thread -> 0 .. PipeCount] /\ rest[x] - n \in 0 .. PipeCount
      BY <1>0, <2>2, PipeConstants DEF PipeCounts
    <3>2. bytes' \in 0 .. bufsz /\ (p = "p_unlock_wait" => bytes' = bufsz)
      BY <1>3, <2>2, PipeConstants
    <3> QED BY <1>0, <1>3, <3>1, <3>2
  <2>4. pc'[x] = p /\ doing'[x] = "write" /\ Side[x] = "write"
    BY <1>0, <2>1 DEF PlaceOK
  <2>5. PipeCounts'
    <3>1. \A t \in PipeUser : Opened(t)' => Opened(t)
      BY <2>1, PipeConstants DEF Opened, ClosePC
    <3> QED BY <1>0, <2>1, <2>3, <3>1 DEF PipeCounts
  <2>6. PlaceOK(x, p, doing[x], fds')
    BY <1>0, <1>3, <2>1 DEF PlaceOK, ClosePC, PollPC, BeforePC, AsleepPC
  <2>7. ASSUME NEW u \in PipeUser \ {x}
        PROVE  Waker(x, Own(u))'
    <3>1. Side[u] = "read"
      BY <2>4, PipeConstants DEF PipeGiven, OnePair
    <3>2. Own(u)' = reader_queue
      BY <3>1 DEF Own
    <3> QED BY <1>3, <2>3, <2>4, <3>2 DEF Waker
  <2>8. \A q : ~Waker(x, q)
    BY <2>1 DEF Waker
  <2>9. p \in BeforePC => seen(x)' = {}
    <3>1. p \in BeforePC => bytes' = bufsz
      BY <1>3, <2>3 DEF BeforePC
    <3>2. readers' # 0
      BY <1>0, <1>3, <2>1 DEF PipeCounts
    <3> QED BY <2>4, <3>1, <3>2 DEF seen, readable, writable
  <2>10. UNCHANGED <<queues, triggered, doing>> /\ denied' = denied
    BY <2>1
  <2>11. pc[x] \in BarePC /\ p \in BarePC
    BY <1>3, <2>1
  <2>12. fds' \subseteq PipeUser /\ fds \ {x} \subseteq fds'
    BY <2>1 DEF PipePlaces
  <2> QED BY <2>1, <2>5, <2>6, <2>7, <2>8, <2>9, <2>10, <2>11, <2>12, BareChange
<1>4. CASE ReadBody(x)
  BY <1>1, <1>2, <1>4 DEF ReadBody
<1>5. CASE WriteBody(x)
  <2>1. CASE readers = 0 /\ Go(x, "p_unlock") /\ UNCHANGED <<bytes, rest, wrote>>
    BY <1>1, <1>5, <2>1
  <2>2. CASE ~(readers = 0 /\ Go(x, "p_unlock") /\ UNCHANGED <<bytes, rest, wrote>>)
    <3>1. PICK n : /\ n = Min({rest[x], bufsz - bytes}) /\ readers > 0
                   /\ bytes' = bytes + n /\ rest' = [rest EXCEPT ![x] = @ - n]
                   /\ wrote' = [wrote EXCEPT ![x] = TRUE]
                   /\ \/ Go(x, "p_unlock")
                      \/ rest[x] > n /\ Go(x, "p_unlock_wait")
      BY <1>5, <2>2 DEF WriteBody
    <3>2. CASE Go(x, "p_unlock")
      BY <1>3, <1>5, <3>1, <3>2
    <3>3. CASE rest[x] > n /\ Go(x, "p_unlock_wait")
      BY <1>3, <1>5, <3>1, <3>3
    <3> QED BY <3>1, <3>2, <3>3
  <2> QED BY <2>1, <2>2
<1> QED BY <1>4, <1>5

-----------------------------------------------------------------------------
(* The mutex.                                                              *)

\* rt_mutex_release by the running thread.
LEMMA Released ==
  ASSUME PipeIInv, NEW x \in PipeUser, NEW p, k.cur = x, pc[x] # "q_sched", release,
         pc' = [pc EXCEPT ![x] = p], UNCHANGED <<queues, triggered>>, denied' = denied
  PROVE  /\ KernelSound' /\ PipeRuns' /\ Bounded(x) /\ owner' \in Thread \cup {Nobody}
<1> USE PipeFacts
<1>0. /\ x \in Thread /\ x \notin asleep /\ x \notin k.timer
      /\ x \notin ToSet(k.wait[Lock]) /\ k.stat[x] = "ready"
  BY PipeRunning, PipeConstants
<1>1. CASE k.wait[Lock] = << >>
  <2>1. k' = k /\ owner' = Nobody
    BY <1>1 DEF release
  <2>2. UNCHANGED <<queues, denied>> /\ \A u \in PipeUser \ {x} : triggered'[u] = triggered[u]
    OBVIOUS
  <2> QED BY <2>1, <2>2, Alone
<1>2. CASE k.wait[Lock] # << >>
  <2>1. PICK m : m = rt_ipc_list_resume(k, Lock)
    OBVIOUS
  <2>2. PICK w : w = Head(k.wait[Lock])
    OBVIOUS
  <2>3. owner' = w /\ k' = rt_schedule(m)
    BY <1>2, <2>1, <2>2 DEF release
  <2>4. /\ Lock \in Queue /\ k \in KernelState /\ KInv(k)
        /\ k.wait[Lock] \in Seq(Thread) /\ k.nest = 0 /\ k.stat[Idle] = "ready"
        /\ \A t \in ToSet(k.wait[Lock]) : k.stat[t] = "suspend"
    BY KernelSoundFacts, PipeConstants DEF KernelSound
  <2>5. w \in Thread /\ w \in ToSet(k.wait[Lock]) /\ k.stat[w] = "suspend"
    <3>1. ToSet(k.wait[Lock]) # {}
      BY <1>2, <2>4, EmptyList
    <3> QED BY <2>2, <2>4, <3>1, HeadInList
  <2>6. WokenUp(k, w, m)
    <3>1. m = rt_thread_resume(k, w)
      BY <2>1, <2>2 DEF rt_ipc_list_resume
    <3> QED BY ONLY <2>4, <2>5, <3>1, ResumeKeeps
  <2>7. m \in KernelState /\ KInv(m) /\ m.nest = 0 /\ m.stat[Idle] = "ready"
    BY <2>4, <2>5, <2>6 DEF WokenUp
  <2>8. /\ KernelSound' /\ k'.stat[k'.cur] = "ready"
        /\ k'.stat = m.stat /\ k'.wait = m.wait /\ k'.timer = m.timer
    BY <2>3, <2>7, ScheduleMoves
  <2>9. /\ k'.stat = [k.stat EXCEPT ![w] = "ready"] /\ k'.timer = k.timer \ {w}
        /\ ToSet(k'.wait[Lock]) = ToSet(k.wait[Lock]) \ {w}
    BY <2>4, <2>6, <2>8 DEF WokenUp
  <2>10. PipeRuns'
    <3>1. \A t \in Thread \ {x} : pc'[t] = pc[t]
      OBVIOUS
    <3>2. k.timer \subseteq Thread /\ ToSet(k.wait[Lock]) \subseteq Thread
      BY <2>4, ListElements DEF KernelState
    <3> QED BY <1>0, <2>8, <2>9, <3>1, <3>2 DEF PipeRuns
  <2>11. Bounded(x)
    <3>1. pc[w] \notin AsleepPC
      BY <2>5 DEF PipeRuns, AsleepPC
    <3>2. asleep' = asleep \ {w}
      BY <2>5, <2>9 DEF asleep
    <3> QED BY <3>1, <3>2 DEF Bounded, queues
  <2> QED BY <2>3, <2>5, <2>8, <2>10, <2>11
<1> QED BY <1>1, <1>2

LEMMA PipeUnlocks ==
  ASSUME PipeGiven, PipeIInv, NEW x \in PipeUser, Unlock(x)
  PROVE  PipeIInv'
<1> USE PipeFacts, BarePlaces
<1>0. x \in Thread /\ PlaceOK(x, pc[x], doing[x], fds) /\ PipeCounts
  BY PipeConstants
<1>1. PICK p \in {"run", "p_wake_end"}, d \in {"none", "write"} :
        /\ pc' = [pc EXCEPT ![x] = p] /\ doing' = [doing EXCEPT ![x] = d]
        /\ p = "run" => ~(doing[x] = "write" /\ wrote[x]) /\ d = "none"
        /\ p = "p_wake_end" => doing[x] = "write" /\ d = "write"
        /\ rest' = [rest EXCEPT ![x] = 0] \/ rest' = rest
        /\ wrote' = [wrote EXCEPT ![x] = FALSE] \/ wrote' = wrote
  <2>1. CASE doing[x] = "write" /\ wrote[x]
    <3>1. pc' = [pc EXCEPT ![x] = "p_wake_end"] /\ UNCHANGED <<doing, rest, wrote>>
      BY <2>1 DEF Unlock, Go
    <3>2. doing' = [doing EXCEPT ![x] = "write"]
      BY <1>0, <2>1, <3>1
    <3> QED BY <2>1, <3>1, <3>2
  <2>2. CASE ~(doing[x] = "write" /\ wrote[x])
    <3>1. Return(x)
      BY <2>2 DEF Unlock
    <3> QED BY <2>2, <3>1 DEF Return, Go
  <2> QED BY <2>1, <2>2
<1>2. /\ k.cur = x /\ pc[x] = "p_unlock" /\ release
      /\ UNCHANGED <<readers, writers, bytes, fds>> /\ UNCHANGED <<queues, triggered>>
      /\ denied' = denied
  BY DEF Unlock, At, given
<1>3. KernelSound' /\ PipeRuns' /\ Bounded(x) /\ owner' \in Thread \cup {Nobody}
  BY <1>1, <1>2, Released
<1>4. PlaceOK(x, p, d, fds)
  BY <1>0, <1>1, <1>2 DEF PlaceOK, ClosePC, PollPC, BeforePC, AsleepPC
<1>5. /\ rest' \in [Thread -> 0 .. PipeCount] /\ wrote' \in [Thread -> BOOLEAN]
      /\ \A u \in PipeUser \ {x} : wrote'[u] = wrote[u]
  <2>1. 0 \in 0 .. PipeCount /\ \A u \in PipeUser : u \in Thread
    BY PipeConstants
  <2> QED BY <1>0, <1>1, <2>1 DEF PipeCounts
<1>6. NodesOK(x, p, x \in asleep', triggered'[x], denied'[x], waiting)
  BY <1>1, <1>2, BareNodes
<1>7. pc'[x] = p /\ doing'[x] = d
  BY <1>0, <1>1
<1>8. Opened(x)' => Opened(x)
  BY <1>2 DEF Opened, ClosePC
<1>9. ~Drowse(x)'
  BY <1>1, <1>7 DEF Drowse, BeforePC, AsleepPC
<1>10. ASSUME NEW q \in PipeQueues, Waker(x, q) PROVE Waker(x, q)'
  <2>1. doing[x] = "write" /\ wrote[x] /\ q = reader_queue
    BY <1>2, <1>10 DEF Waker
  <2>2. p = "p_wake_end"
    BY <1>1, <2>1
  <2> QED BY <1>1, <1>7, <2>1, <2>2 DEF Waker
<1>11. p \in PipePC /\ d \in Ops /\ triggered' \in [Thread -> BOOLEAN]
  BY <1>1, <1>2 DEF Ops
<1> QED BY <1>1, <1>2, <1>3, <1>4, <1>5, <1>6, <1>8, <1>9, <1>10, <1>11, MoveStep

LEMMA PipeUnlockWaits ==
  ASSUME PipeGiven, PipeIInv, NEW x \in PipeUser, UnlockWait(x)
  PROVE  PipeIInv'
<1> USE PipeFacts, BarePlaces
<1>0. x \in Thread /\ PlaceOK(x, pc[x], doing[x], fds)
  BY PipeConstants
<1>1. /\ k.cur = x /\ pc[x] = "p_unlock_wait" /\ release
      /\ pc' = [pc EXCEPT ![x] = "p_wake_wait"]
      /\ UNCHANGED <<readers, writers, bytes, fds, doing, rest, wrote>>
      /\ UNCHANGED <<queues, triggered>> /\ denied' = denied
  BY DEF UnlockWait, At, Go, given
<1>2. KernelSound' /\ PipeRuns' /\ Bounded(x) /\ owner' \in Thread \cup {Nobody}
  BY <1>1, Released
<1>3. PlaceOK(x, "p_wake_wait", doing[x], fds)
  BY <1>0, <1>1 DEF PlaceOK, ClosePC, PollPC, BeforePC, AsleepPC
<1>4. NodesOK(x, "p_wake_wait", x \in asleep', triggered'[x], denied'[x], waiting)
  BY <1>1, BareNodes
<1>5. pc'[x] = "p_wake_wait"
  BY <1>0, <1>1
<1>6. Opened(x)' => Opened(x)
  BY <1>1 DEF Opened, ClosePC
<1>7. Drowse(x)' => Drowse(x)
  BY <1>1, <1>5 DEF Drowse, BeforePC, AsleepPC, queues, Own
<1>8. \A q \in PipeQueues : Waker(x, q) => Waker(x, q)'
  BY <1>1, <1>5 DEF Waker
<1>9. "p_wake_wait" \in PipePC /\ triggered' \in [Thread -> BOOLEAN]
  BY <1>1
<1> QED BY <1>1, <1>2, <1>3, <1>4, <1>6, <1>7, <1>8, <1>9, SimpleMove

LEMMA PipeLocks ==
  ASSUME PipeGiven, PipeIInv, NEW x \in PipeUser, TakeLock(x)
  PROVE  PipeIInv'
<1> USE PipeFacts, BarePlaces
<1>1. CASE owner = Nobody
  <2>1. k' = k /\ UNCHANGED <<bytes, rest, wrote>> /\ owner' = x
    BY <1>1 DEF TakeLock
  <2> QED BY <2>1, PipeBodies
<1>2. CASE owner # Nobody
  <2>0. x \in Thread /\ x # Idle /\ PlaceOK(x, pc[x], doing[x], fds) /\ PipeCounts
    BY PipeConstants
  <2>1. /\ k.cur = x /\ pc[x] = "p_lock" /\ pc' = [pc EXCEPT ![x] = "p_body"]
        /\ UNCHANGED <<readers, writers, bytes, fds, doing, rest, wrote>>
        /\ UNCHANGED <<owner, triggered, queues>> /\ denied' = denied
    BY <1>2 DEF TakeLock, At, Go, given
  <2>2. PICK m : /\ m = rt_ipc_list_suspend([k EXCEPT !.err[x] = "eok"], Lock, x, "fifo")
                 /\ k' = rt_schedule(m)
    BY <1>2 DEF TakeLock
  <2>3. k.stat[x] = "ready" /\ x \notin asleep /\ x \notin k.timer
    BY <2>1, PipeRunning
  <2>4. /\ m \in KernelState /\ KInv(m) /\ m.nest = 0 /\ m.stat[Idle] = "ready"
        /\ m.stat = [k.stat EXCEPT ![x] = "suspend"]
        /\ ToSet(m.wait[Lock]) = ToSet(k.wait[Lock]) \cup {x}
        /\ m.timer = k.timer \ {x}
    <3>1. /\ KernelSound /\ x \in Thread /\ Lock \in Queue
          /\ k.cur = x /\ k.stat[x] = "ready" /\ x # Idle
      BY <2>0, <2>1, <2>3, PipeConstants
    <3>2. m = rt_ipc_list_suspend([k EXCEPT !.err[x] = "eok"], Lock, x, "fifo")
      BY <2>2
    <3>3. /\ m \in KernelState /\ KInv(m) /\ m.nest = 0
          /\ m.stat[Idle] = "ready" /\ m.cur = x
          /\ m.stat = [k.stat EXCEPT ![x] = "suspend"]
          /\ m.err = [k.err EXCEPT ![x] = "eok"]
          /\ ToSet(m.wait[Lock]) = ToSet(k.wait[Lock]) \cup {x}
          /\ \A q \in Queue \ {Lock} : m.wait[q] = k.wait[q]
          /\ m.timer = k.timer \ {x}
      BY ONLY <3>1, <3>2, Suspended
    <3> QED BY <3>3
  <2>5. /\ KernelSound' /\ k'.stat[k'.cur] = "ready"
        /\ k'.stat = m.stat /\ k'.wait = m.wait /\ k'.timer = m.timer
    BY <2>2, <2>4, ScheduleMoves
  <2>6. PipeRuns'
    <3>1. pc'[x] = "p_body" /\ \A t \in Thread \ {x} : pc'[t] = pc[t]
      BY <2>0, <2>1
    <3>2. k.timer \subseteq Thread /\ ToSet(k.wait[Lock]) \subseteq Thread
      BY PipeConstants, KernelSoundFacts DEF KernelState
    <3> QED BY <2>4, <2>5, <3>1, <3>2 DEF PipeRuns
  <2>7. Bounded(x)
    <3>1. asleep' = asleep \cup {x}
      BY <2>0, <2>4, <2>5 DEF asleep
    <3> QED BY <2>1, <3>1 DEF Bounded, queues
  <2>8. PlaceOK(x, "p_body", doing[x], fds)
    BY <2>0, <2>1 DEF PlaceOK, ClosePC, PollPC, BeforePC, AsleepPC
  <2>9. NodesOK(x, "p_body", x \in asleep', triggered'[x], denied'[x], waiting)
    BY <2>1, BareNodes
  <2>10. pc'[x] = "p_body"
    BY <2>0, <2>1
  <2>11. Opened(x)' => Opened(x)
    BY <2>1 DEF Opened, ClosePC
  <2>12. ~Drowse(x)' /\ \A q : ~Waker(x, q)
    BY <2>1, <2>10 DEF Drowse, Waker, BeforePC, AsleepPC
  <2>13. /\ "p_body" \in PipePC /\ triggered' \in [Thread -> BOOLEAN]
         /\ owner' \in Thread \cup {Nobody}
    BY <2>0, <2>1 DEF PipeCounts
  <2> QED BY <2>1, <2>5, <2>6, <2>7, <2>8, <2>9, <2>11, <2>12, <2>13, SimpleMove
<1> QED BY <1>1, <1>2

-----------------------------------------------------------------------------
(* rt_wqueue_wait, and poll().                                             *)

\* The thread x links its node n in the queue q or takes it out.
LEMMA OwnNode ==
  ASSUME PipeIInv, NEW x \in PipeUser, NEW q \in PipeQueues, NEW l,
         NEW n \in {WaitNode(x), PollNode(x)},
         \/ l = Append(waiting[q], n) /\ n \notin ToSet(waiting[q])
         \/ l = Unlink(waiting[q], n),
         waiting' = [waiting EXCEPT ![q] = l]
  PROVE  /\ waiting' = [r \in WQ |-> waiting'[r]]
         /\ \A r \in PipeQueues :
              /\ waiting'[r] \in Seq(PipeNodes) /\ IsInjective(waiting'[r])
              /\ \A u \in PipeUser \ {x} :
                   /\ WaitNode(u) \in ToSet(waiting'[r])
                        <=> WaitNode(u) \in ToSet(waiting[r])
                   /\ PollNode(u) \in ToSet(waiting'[r])
                        <=> PollNode(u) \in ToSet(waiting[r])
         /\ \A r \in PipeQueues : r # q => waiting'[r] = waiting[r]
         /\ \/ l = Unlink(waiting[q], n) /\ ToSet(waiting'[q]) = ToSet(waiting[q]) \ {n}
            \/ /\ l = Append(waiting[q], n)
               /\ ToSet(waiting'[q]) = ToSet(waiting[q]) \cup {n}
<1>1. /\ waiting = [r \in WQ |-> waiting[r]] /\ q \in WQ
      /\ \A r \in PipeQueues :
           r \in WQ /\ waiting[r] \in Seq(PipeNodes) /\ IsInjective(waiting[r])
  BY PipeFacts, PipeConstants DEF PipeLists
<1>2. /\ waiting' = [r \in WQ |-> waiting'[r]] /\ waiting'[q] = l
      /\ \A r \in PipeQueues : r # q => waiting'[r] = waiting[r]
  BY <1>1
<1>3. n \in PipeNodes
  BY DEF PipeNodes
<1>4. /\ l \in Seq(PipeNodes) /\ IsInjective(l)
      /\ \/ l = Unlink(waiting[q], n) /\ ToSet(l) = ToSet(waiting[q]) \ {n}
         \/ l = Append(waiting[q], n) /\ ToSet(l) = ToSet(waiting[q]) \cup {n}
  <2>1. waiting[q] \in Seq(PipeNodes) /\ IsInjective(waiting[q])
    BY <1>1
  <2>2. CASE l = Append(waiting[q], n) /\ n \notin ToSet(waiting[q])
    BY ONLY <1>3, <2>1, <2>2, AppendDistinct
  <2>3. CASE l = Unlink(waiting[q], n)
    BY ONLY <2>1, <2>3, UnlinkProperties
  <2> QED BY <2>2, <2>3
<1>5. \A u \in PipeUser \ {x} : WaitNode(u) # n /\ PollNode(u) # n
  BY DEF WaitNode, PollNode, Node
<1> QED BY <1>1, <1>2, <1>4, <1>5

\* Such a step of a thread that wakes nobody.
LEMMA OwnStep ==
  ASSUME PipeGiven, PipeIInv, NEW x \in PipeUser, NEW p \in PipePC, NEW d \in Ops,
         NEW q \in PipeQueues, NEW l, NEW n \in {WaitNode(x), PollNode(x)},
         \/ l = Append(waiting[q], n) /\ n \notin ToSet(waiting[q])
         \/ l = Unlink(waiting[q], n),
         waiting' = [waiting EXCEPT ![q] = l], wakeup' = wakeup,
         KernelSound', PipeRuns', asleep' \ {x} = asleep \ {x},
         pc' = [pc EXCEPT ![x] = p], doing' = [doing EXCEPT ![x] = d],
         UNCHANGED <<owner, readers, writers, bytes, fds>>, PlaceOK(x, p, d, fds),
         rest' \in [Thread -> 0 .. PipeCount], wrote' \in [Thread -> BOOLEAN],
         triggered' \in [Thread -> BOOLEAN],
         \A u \in PipeUser \ {x} : wrote'[u] = wrote[u] /\ triggered'[u] = triggered[u],
         \A u \in PipeUser \ {x} : denied'[u] = denied[u],
         NodesOK(x, p, x \in asleep', triggered'[x], denied'[x], waiting'),
         Opened(x)' => Opened(x),
         Drowse(x)' => Drowse(x) \/ seen(x) = {},
         \A r \in PipeQueues : ~Waker(x, r)
  PROVE  PipeIInv'
<1>1. /\ waiting' = [r \in WQ |-> waiting'[r]]
      /\ \A r \in PipeQueues :
           /\ waiting'[r] \in Seq(PipeNodes) /\ IsInjective(waiting'[r])
           /\ \A u \in PipeUser \ {x} :
                /\ WaitNode(u) \in ToSet(waiting'[r])
                     <=> WaitNode(u) \in ToSet(waiting[r])
                /\ PollNode(u) \in ToSet(waiting'[r])
                     <=> PollNode(u) \in ToSet(waiting[r])
  BY OwnNode
<1>2. /\ wakeup' \in [WQ -> BOOLEAN]
      /\ \A u \in PipeUser \ {x} :
           /\ triggered'[u] = triggered[u] /\ denied'[u] = denied[u]
           /\ \/ u \in asleep' <=> u \in asleep
              \/ u \notin asleep' /\ pc[u] \notin AsleepPC
  BY PipeFacts
<1>3. PipeLists'
  BY <1>1, <1>2, ListsStep
<1>4. \A u \in PipeUser \ {x} : Drowse(u)' => Drowse(u)
  <2>1. \A u \in PipeUser \ {x} : pc'[u] = pc[u] /\ Own(u)' = Own(u)
    BY PipeFacts, PipeConstants DEF Own
  <2> QED BY <1>2, <2>1 DEF Drowse
<1>5. \A u \in PipeUser \ {x} : ~Waker(x, Own(u))
  BY PipeConstants
<1>6. owner' \in Thread \cup {Nobody}
  BY PipeFacts DEF PipeCounts
<1>7. UNCHANGED <<readers, writers, bytes, fds>>
  OBVIOUS
<1>8. \A u \in PipeUser \ {x} : wrote'[u] = wrote[u]
  OBVIOUS
<1> QED BY <1>3, <1>4, <1>5, <1>6, <1>7, <1>8, QueueStep

\* The running thread suspends itself.
LEMMA SelfSuspended ==
  ASSUME KernelSound, NEW x \in Thread, k.cur = x, k.stat[x] = "ready", x # Idle,
         NEW m, m = rt_thread_suspend(k, x)
  PROVE  /\ m \in KernelState /\ KInv(m) /\ m.nest = 0 /\ m.stat[Idle] = "ready"
         /\ m.stat = [k.stat EXCEPT ![x] = "suspend"] /\ m.cur = x
         /\ m.timer = k.timer \ {x} /\ m.wait = k.wait
<1>1. k \in KernelState /\ KInv(k) /\ k.stat[k.cur] = "ready"
  BY DEF KernelSound
<1>2. m = rt_thread_suspend(k, k.cur)
  OBVIOUS
<1>3. /\ m \in KernelState /\ KInv(m) /\ m.stat = [k.stat EXCEPT ![k.cur] = "suspend"]
      /\ m.timer = k.timer \ {k.cur} /\ m.wait = k.wait
      /\ m.cur = k.cur /\ m.nest = k.nest
  BY ONLY <1>1, <1>2, SuspendKeeps
<1>4. m.stat[Idle] = "ready"
  BY <1>3, KernelSoundFacts DEF KernelSound
<1> QED BY <1>3, <1>4 DEF KernelSound

\* rt_wqueue_wait.
LEMMA PipeWaits ==
  ASSUME PipeGiven, PipeIInv, NEW x \in PipeUser, Wait(x)
  PROVE  PipeIInv'
<1> USE PipeFacts, BarePlaces
<1>0. /\ x \in Thread /\ x # Idle /\ PlaceOK(x, pc[x], doing[x], fds)
      /\ Own(x) \in PipeQueues /\ Own(x) \in WQ
  BY PipeConstants
<1>1. /\ doing[x] \in {"read", "write"} /\ doing[x] = Side[x]
      /\ WaitStep(x, Own(x), "p_lock") /\ UNCHANGED pipe
  <2>1. doing[x] \in {"read", "write"} /\ Side[x] = doing[x]
    BY <1>0 DEF Wait, PlaceOK
  <2> QED BY <2>1 DEF Wait, Own
<1>2. /\ UNCHANGED <<readers, writers, bytes, fds, doing, rest, wrote>>
      /\ UNCHANGED <<owner, triggered, denied>>
      /\ owner' \in Thread \cup {Nobody} /\ triggered' \in [Thread -> BOOLEAN]
  BY <1>1 DEF pipe, given, PipeCounts
<1>3. ASSUME NEW p \in {"q_sched", "q_woken", "q_remove", "p_lock"}
      PROVE  PlaceOK(x, p, doing[x], fds)
  BY <1>0, <1>1, <1>3 DEF PlaceOK, ClosePC, PollPC, BeforePC, AsleepPC
<1>4. \A q : pc[x] \in {"wait", "q_sched", "q_woken", "q_remove"} => ~Waker(x, q)
  BY DEF Waker
<1>5. NodesOK(x, pc[x], x \in asleep, triggered[x], denied[x], waiting)
  BY DEF PipeLists
<1>6. CASE WaitAlready(x, Own(x)) \/ WaitClear(x, Own(x))
  <2>1. /\ k.cur = x /\ pc[x] \in {"wait", "q_woken"} /\ k' = k /\ waiting' = waiting
        /\ wakeup' = [wakeup EXCEPT ![Own(x)] = FALSE]
        /\ pc' = [pc EXCEPT ![x] = "q_remove"]
    BY <1>6 DEF WaitAlready, WaitClear, At, Go
  <2>2. KernelSound' /\ PipeRuns' /\ asleep' = asleep /\ x \notin asleep
    BY <1>0, <2>1, RunsStep, PipeRunning
  <2>3. Bounded(x)
    <3>1. \A u \in PipeUser \ {x} : Own(u) # Own(x)
      <4>1. \A u \in PipeUser \ {x} : Side[u] # Side[x]
        BY DEF PipeGiven, OnePair
      <4> QED BY <4>1, PipeConstants
    <3>2. wakeup' \in [WQ -> BOOLEAN]
      BY <2>1
    <3>3. \A u \in PipeUser \ {x} : wakeup[Own(u)] => wakeup'[Own(u)]
      BY <2>1, <3>1, PipeConstants
    <3> QED BY <1>2, <2>1, <2>2, <3>2, <3>3 DEF Bounded
  <2>4. NodesOK(x, "q_remove", x \in asleep', triggered'[x], denied'[x], waiting)
    BY <1>2, <1>5, <2>1, <2>2 DEF NodesOK, AsleepPC, Linked
  <2>5. pc'[x] = "q_remove"
    BY <1>0, <2>1
  <2>6. ~Drowse(x)' /\ (Opened(x)' => Opened(x))
    BY <1>2, <2>1, <2>5 DEF Drowse, BeforePC, AsleepPC, Opened, ClosePC
  <2>7. "q_remove" \in PipePC /\ PlaceOK(x, "q_remove", doing[x], fds)
    BY <1>3
  <2>15. \A q \in PipeQueues : ~Waker(x, q)
    BY <1>4, <2>1
  <2> QED BY <1>2, <2>1, <2>2, <2>3, <2>4, <2>6, <2>7, <2>15, SimpleMove
<1>7. CASE WaitRemove(x, Own(x), "p_lock")
  <2>1. /\ k.cur = x /\ pc[x] = "q_remove" /\ k' = k /\ wakeup' = wakeup
        /\ pc' = [pc EXCEPT ![x] = "p_lock"]
        /\ waiting' = [waiting EXCEPT ![Own(x)] = Unlink(@, WaitNode(x))]
    BY <1>7 DEF WaitRemove, At, Go, rt_wqueue_remove, WaitNode
  <2>2. WaitNode(x) \notin ToSet(waiting[Own(x)])
    BY <1>0, <1>5, <2>1 DEF NodesOK, AsleepPC
  <2>3. UNCHANGED queues
    <3>1. Unlink(waiting[Own(x)], WaitNode(x)) = waiting[Own(x)]
      BY <2>2 DEF Unlink
    <3>2. waiting' = waiting
      BY <1>0, <2>1, <3>1
    <3> QED BY <2>1, <3>2 DEF queues
  <2>4. "q_remove" \notin ClosePC /\ "p_lock" \notin BeforePC
    BY DEF ClosePC, BeforePC
  <2>5. PlaceOK(x, "p_lock", doing[x], fds)
    BY <1>3
  <2>6. UNCHANGED <<readers, writers, bytes, fds, doing, rest, wrote, triggered>>
    BY <1>2
  <2>15. \A q \in PipeQueues : ~Waker(x, q)
    BY <1>4, <2>1
  <2>16. pc[x] \in BarePC /\ "p_lock" \in BarePC
    BY <2>1
  <2> QED BY <1>2, <2>1, <2>3, <2>4, <2>5, <2>6, <2>15, <2>16, BareMove
<1>8. CASE WaitSchedule(x)
  <2>1. /\ k.cur = x /\ pc[x] = "q_sched" /\ k' = rt_schedule(k)
        /\ pc' = [pc EXCEPT ![x] = "q_woken"] /\ UNCHANGED queues
    BY <1>8 DEF WaitSchedule, At, Go
  <2>2. /\ KernelSound' /\ k'.stat[k'.cur] = "ready" /\ k'.wait = k.wait
        /\ k'.stat = k.stat /\ k'.timer = k.timer
    BY <2>1, ScheduleMoves DEF KernelSound
  <2>3. asleep' = asleep
    BY <2>2 DEF asleep
  <2>4. PipeRuns'
    <3>1. \A t \in Thread : t # x => pc'[t] = pc[t]
      BY <2>1
    <3>2. k.timer \subseteq Thread /\ ToSet(k.wait[Lock]) \subseteq Thread
      BY PipeConstants, KernelSoundFacts DEF KernelState
    <3> QED BY <2>1, <2>2, <3>1, <3>2 DEF PipeRuns
  <2>5. UNCHANGED <<pipe, queues>>
    BY <1>1, <2>1
  <2> QED BY <1>0, <2>1, <2>2, <2>3, <2>4, <2>5, PipeQuiet
<1>9. CASE WaitSuspend(x, Own(x))
  <2>1. /\ k.cur = x /\ pc[x] = "wait" /\ ~wakeup[Own(x)] /\ k' = rt_thread_suspend(k, x)
        /\ pc' = [pc EXCEPT ![x] = "q_sched"] /\ wakeup' = wakeup
        /\ waiting' = [waiting EXCEPT ![Own(x)] = Append(waiting[Own(x)], WaitNode(x))]
    BY <1>9 DEF WaitSuspend, At, Go, WaitNode
  <2>2. k.stat[x] = "ready" /\ x \notin asleep /\ x \notin k.timer
        /\ x \notin ToSet(k.wait[Lock])
    BY <2>1, PipeRunning
  <2>3. /\ KernelSound' /\ k'.cur = x /\ k'.timer = k.timer \ {x} /\ k'.wait = k.wait
        /\ k'.stat = [k.stat EXCEPT ![x] = "suspend"]
    <3>1. PICK m : m = rt_thread_suspend(k, x)
      OBVIOUS
    <3>2. KernelSound /\ x \in Thread /\ k.cur = x /\ k.stat[x] = "ready" /\ x # Idle
      BY <1>0, <2>1, <2>2
    <3>3. /\ m \in KernelState /\ KInv(m) /\ m.nest = 0 /\ m.stat[Idle] = "ready"
          /\ m.stat = [k.stat EXCEPT ![x] = "suspend"] /\ m.cur = x
          /\ m.timer = k.timer \ {x} /\ m.wait = k.wait
      BY ONLY <3>1, <3>2, SelfSuspended
    <3>4. k' = m
      BY <2>1, <3>1
    <3> QED BY <3>3, <3>4 DEF KernelSound
  <2>4. asleep' = asleep \cup {x}
    BY <1>0, <2>3 DEF asleep
  <2>5. pc'[x] = "q_sched" /\ \A t \in Thread \ {x} : pc'[t] = pc[t]
    BY <1>0, <2>1
  <2>6. PipeRuns'
    <3>1. k.timer \subseteq Thread /\ ToSet(k.wait[Lock]) \subseteq Thread
      BY PipeConstants, KernelSoundFacts DEF KernelState
    <3> QED BY <2>2, <2>3, <2>5, <3>1 DEF PipeRuns
  <2>7. \A q \in PipeQueues : /\ WaitNode(x) \notin ToSet(waiting[q])
                              /\ PollNode(x) \notin ToSet(waiting[q])
    BY <1>5, <2>1 DEF NodesOK, AsleepPC, Linked
  <2>8. PICK l : l = Append(waiting[Own(x)], WaitNode(x))
    OBVIOUS
  <2>9. /\ \A r \in PipeQueues : r # Own(x) => waiting'[r] = waiting[r]
        /\ ToSet(waiting'[Own(x)]) = ToSet(waiting[Own(x)]) \cup {WaitNode(x)}
    <3>1. /\ WaitNode(x) \in {WaitNode(x), PollNode(x)}
          /\ l = Append(waiting[Own(x)], WaitNode(x))
          /\ WaitNode(x) \notin ToSet(waiting[Own(x)])
          /\ waiting' = [waiting EXCEPT ![Own(x)] = l]
      BY <1>0, <2>1, <2>7, <2>8
    <3>2. /\ \A r \in PipeQueues : r # Own(x) => waiting'[r] = waiting[r]
          /\ ToSet(waiting'[Own(x)]) = ToSet(waiting[Own(x)]) \ {WaitNode(x)}
              \/ ToSet(waiting'[Own(x)]) = ToSet(waiting[Own(x)]) \cup {WaitNode(x)}
      BY <1>0, <3>1, OwnNode
    <3>3. ToSet(waiting'[Own(x)]) = ToSet(waiting[Own(x)]) \cup {WaitNode(x)}
      <4>1. waiting[Own(x)] \in Seq(PipeNodes) /\ IsInjective(waiting[Own(x)])
        BY <1>0 DEF PipeLists
      <4>2. WaitNode(x) \in PipeNodes /\ WaitNode(x) \notin ToSet(waiting[Own(x)])
        BY <3>1 DEF PipeNodes
      <4>3. ToSet(l) = ToSet(waiting[Own(x)]) \cup {WaitNode(x)}
        BY ONLY <4>1, <4>2, <2>8, AppendDistinct
      <4>4. waiting'[Own(x)] = l
        BY <1>0, <2>1, <2>8
      <4> QED BY <4>3, <4>4
    <3> QED BY <3>2, <3>3
  <2>10. NodesOK(x, "q_sched", x \in asleep', triggered'[x], denied'[x], waiting')
    <3>1. WaitNode(x) # PollNode(x)
      BY DEF WaitNode, PollNode, Node, asks
    <3> QED BY <1>0, <2>4, <2>7, <2>9, <3>1 DEF NodesOK, AsleepPC, Linked
  <2>11. Drowse(x) /\ (Opened(x)' => Opened(x))
    BY <1>2, <2>1, <2>5 DEF Drowse, BeforePC, Opened, ClosePC
  <2>12. /\ WaitNode(x) \in {WaitNode(x), PollNode(x)} /\ "q_sched" \in PipePC
         /\ l = Append(waiting[Own(x)], WaitNode(x)) /\ WaitNode(x) \notin ToSet(waiting[Own(x)])
         /\ waiting' = [waiting EXCEPT ![Own(x)] = l]
    BY <1>0, <2>1, <2>7, <2>8 DEF PipePC, AsleepPC
  <2>13. /\ doing[x] \in Ops /\ doing' = [doing EXCEPT ![x] = doing[x]]
         /\ rest' \in [Thread -> 0 .. PipeCount] /\ wrote' \in [Thread -> BOOLEAN]
         /\ UNCHANGED <<owner, readers, writers, bytes, fds>>
         /\ \A u \in PipeUser \ {x} : wrote'[u] = wrote[u] /\ triggered'[u] = triggered[u]
         /\ \A u \in PipeUser \ {x} : denied'[u] = denied[u]
    BY <1>0, <1>2 DEF PipeCounts
  <2>14. PlaceOK(x, "q_sched", doing[x], fds) /\ asleep' \ {x} = asleep \ {x}
    BY <1>3, <2>4
  <2>15. \A q \in PipeQueues : ~Waker(x, q)
    BY <1>4, <2>1
  <2>16. PICK n \in {WaitNode(x), PollNode(x)} :
           /\ l = Append(waiting[Own(x)], n) /\ n \notin ToSet(waiting[Own(x)])
           /\ waiting' = [waiting EXCEPT ![Own(x)] = l]
    BY <2>12
  <2>17. /\ pc' = [pc EXCEPT ![x] = "q_sched"] /\ wakeup' = wakeup
         /\ KernelSound' /\ PipeRuns' /\ triggered' \in [Thread -> BOOLEAN]
         /\ (Drowse(x)' => Drowse(x) \/ seen(x) = {}) /\ (Opened(x)' => Opened(x))
    BY <1>2, <2>1, <2>3, <2>6, <2>11
  <2>18. Own(x) \in PipeQueues /\ "q_sched" \in PipePC
    BY <1>0, <2>12
  <2>19. doing[x] \in Ops /\ doing' = [doing EXCEPT ![x] = doing[x]]
    BY <2>13
  <2> QED BY ONLY PipeGiven, PipeIInv, x \in PipeUser, <2>10, <2>13, <2>14,
                  <2>15, <2>16, <2>17, <2>18, <2>19, OwnStep
<1> QED BY <1>1, <1>6, <1>7, <1>8, <1>9 DEF WaitStep

\* poll() before it sleeps and after.
LEMMA PollTests ==
  ASSUME PipeGiven, PipeIInv, NEW x \in PipeUser,
         \/ PollTest(x) \/ PollSlept(x)
         \/ triggered[x] /\ \E timeout \in {"some", "forever"} : PollWait(x, timeout)
  PROVE  PipeIInv'
<1> USE PipeFacts, BarePlaces
<1>0. /\ x \in Thread /\ PlaceOK(x, pc[x], doing[x], fds)
      /\ NodesOK(x, pc[x], x \in asleep, triggered[x], denied[x], waiting)
  BY PipeConstants DEF PipeLists
<1>1. PICK p \in {"p_test", "p_wait", "del_w"} :
        /\ pc' = [pc EXCEPT ![x] = p] /\ k.cur = x /\ k' = k
        /\ pc[x] \in {"p_test", "p_wait", "p_slept"} /\ UNCHANGED <<pipe, queues>>
        /\ p = "p_wait" => seen(x) = {}
  <2>1. CASE PollTest(x)
    BY <2>1, PairSides DEF PollTest, At, Go
  <2>2. CASE PollSlept(x)
    BY <2>2 DEF PollSlept, At, Go
  <2>3. CASE triggered[x] /\ \E timeout \in {"some", "forever"} : PollWait(x, timeout)
    BY <2>3 DEF PollWait, At, Go
  <2> QED BY <2>1, <2>2, <2>3
<1>2. /\ UNCHANGED <<readers, writers, bytes, fds, doing, rest, wrote>>
      /\ owner' \in Thread \cup {Nobody} /\ triggered' = triggered /\ denied' = denied
      /\ triggered' \in [Thread -> BOOLEAN]
  BY <1>1 DEF pipe, given, PipeCounts
<1>3. /\ KernelSound' /\ PipeRuns' /\ Bounded(x) /\ asleep' = asleep /\ x \notin asleep
  BY <1>1, <1>2, Alone
<1>4. NodesOK(x, p, x \in asleep', triggered'[x], denied'[x], waiting)
  BY <1>0, <1>1, <1>2, <1>3 DEF NodesOK, AsleepPC, Linked
<1>5. PlaceOK(x, p, doing[x], fds) /\ doing[x] = "poll"
  BY <1>0, <1>1 DEF PlaceOK, PollPC, ClosePC, BeforePC, AsleepPC
<1>6. pc'[x] = p
  BY <1>0, <1>1
<1>7. /\ Opened(x)' => Opened(x)
      /\ Drowse(x)' => seen(x) = {}
  BY <1>1, <1>2, <1>3, <1>6 DEF Opened, ClosePC, Drowse, BeforePC, AsleepPC
<1>8. \A q \in PipeQueues : ~Waker(x, q)
  BY <1>1, <1>5 DEF Waker
<1>9. p \in PipePC
  BY <1>1 DEF PipePC, PollPC
<1> QED BY <1>1, <1>2, <1>3, <1>4, <1>5, <1>7, <1>8, <1>9, SimpleMove

LEMMA PollBegins ==
  ASSUME PipeGiven, PipeIInv, NEW x \in PipeUser, Poll(x)
  PROVE  PipeIInv'
<1> USE PipeFacts, BarePlaces
<1>0. x \in Thread /\ PlaceOK(x, pc[x], doing[x], fds)
  BY PipeConstants
<1>1. /\ pc' = [pc EXCEPT ![x] = "add_r"] /\ doing' = [doing EXCEPT ![x] = "poll"]
      /\ k.cur = x /\ pc[x] = "run" /\ x \in fds /\ k' = k /\ UNCHANGED queues
      /\ triggered' = [triggered EXCEPT ![x] = FALSE]
      /\ UNCHANGED <<readers, writers, bytes, fds>> /\ UNCHANGED <<owner, rest, wrote>>
      /\ denied' = denied
  BY DEF Poll, At, Go, given
<1>2. /\ rest' \in [Thread -> 0 .. PipeCount] /\ wrote' \in [Thread -> BOOLEAN]
      /\ owner' \in Thread \cup {Nobody} /\ triggered' \in [Thread -> BOOLEAN]
      /\ \A u \in PipeUser \ {x} : wrote'[u] = wrote[u] /\ triggered'[u] = triggered[u]
  BY <1>0, <1>1, PipeConstants DEF PipeCounts
<1>3. /\ KernelSound' /\ PipeRuns' /\ Bounded(x)
  BY <1>1, <1>2, Alone
<1>4. NodesOK(x, "add_r", x \in asleep', triggered'[x], denied'[x], waiting)
  BY <1>1, BareNodes
<1>5. PlaceOK(x, "add_r", "poll", fds)
  BY <1>1 DEF PlaceOK, PollPC, ClosePC, BeforePC, AsleepPC
<1>6. pc'[x] = "add_r"
  BY <1>0, <1>1
<1>7. /\ Opened(x)' => Opened(x)
      /\ ~Drowse(x)'
  BY <1>1, <1>6 DEF Opened, ClosePC, Drowse, BeforePC, AsleepPC
<1>8. \A q \in PipeQueues : ~Waker(x, q)
  <2>1. doing[x] = "none"
    BY <1>0, <1>1 DEF PlaceOK
  <2> QED BY <1>1, <2>1 DEF Waker
<1>9. "add_r" \in PipePC /\ "poll" \in Ops
  BY DEF Ops
<1>10. \A u \in PipeUser \ {x} : wrote'[u] = wrote[u]
  BY <1>2
<1> QED BY <1>1, <1>2, <1>3, <1>4, <1>5, <1>7, <1>8, <1>9, <1>10, MoveStep

\* poll_wait_timeout suspends the thread.
LEMMA PollSleeps ==
  ASSUME PipeGiven, PipeIInv, NEW x \in PipeUser, ~triggered[x],
         NEW timeout \in {"some", "forever"}, PollWait(x, timeout)
  PROVE  PipeIInv'
<1> USE PipeFacts, BarePlaces
<1>0. /\ x \in Thread /\ x # Idle /\ PlaceOK(x, pc[x], doing[x], fds)
      /\ NodesOK(x, pc[x], x \in asleep, triggered[x], denied[x], waiting)
  BY PipeConstants DEF PipeLists
<1>1. /\ pc' = [pc EXCEPT ![x] = "p_slept"] /\ k.cur = x /\ pc[x] = "p_wait"
      /\ UNCHANGED <<pipe, queues>>
  BY DEF PollWait, At, Go
<1>2. PICK m : m = rt_thread_suspend(k, x)
  OBVIOUS
<1>3. PICK r : /\ r = rt_timer_start(m, x) \/ r = m
               /\ k' = rt_schedule(r)
  BY <1>2 DEF PollWait
<1>4. /\ m \in KernelState /\ KInv(m) /\ m.nest = 0 /\ m.stat[Idle] = "ready"
      /\ m.stat = [k.stat EXCEPT ![x] = "suspend"] /\ m.cur = x
      /\ m.timer = k.timer \ {x} /\ m.wait = k.wait
  <2>1. KernelSound /\ x \in Thread /\ k.cur = x /\ k.stat[x] = "ready" /\ x # Idle
    BY <1>0, <1>1, PipeRunning
  <2> QED BY ONLY <1>2, <2>1, SelfSuspended
<1>5. /\ r \in KernelState /\ KInv(r) /\ r.nest = 0 /\ r.stat = m.stat
      /\ r.wait = m.wait /\ r.timer \subseteq m.timer \cup {x}
  <2>1. CASE r = rt_timer_start(m, x)
    <3>1. m.stat[x] = "suspend"
      BY <1>0, <1>4
    <3>2. /\ r \in KernelState /\ KInv(r) /\ r.nest = m.nest /\ r.stat = m.stat
          /\ r.wait = m.wait /\ r.timer = m.timer \cup {x}
      BY <1>0, <1>4, <2>1, <3>1, StartTimer
    <3> QED BY <1>4, <3>2
  <2>2. CASE r = m
    BY <1>4, <2>2
  <2> QED BY <1>3, <2>1, <2>2
<1>6. /\ KernelSound' /\ k'.stat[k'.cur] = "ready"
      /\ k'.stat = r.stat /\ k'.wait = r.wait /\ k'.timer = r.timer
  <2>1. r.stat[Idle] = "ready"
    BY <1>4, <1>5
  <2> QED BY <1>3, <1>5, <2>1, ScheduleMoves
<1>7. pc'[x] = "p_slept" /\ \A t \in Thread \ {x} : pc'[t] = pc[t]
  BY <1>0, <1>1
<1>8. PipeRuns'
  <2>1. k.timer \subseteq Thread /\ ToSet(k.wait[Lock]) \subseteq Thread
    BY PipeConstants, KernelSoundFacts DEF KernelState
  <2>2. x \notin ToSet(k.wait[Lock])
    BY <1>1, PipeRunning
  <2> QED BY <1>4, <1>5, <1>6, <1>7, <2>1, <2>2 DEF PipeRuns
<1>9. asleep' = asleep \cup {x}
  BY <1>0, <1>4, <1>5, <1>6 DEF asleep
<1>10. /\ UNCHANGED <<readers, writers, bytes, fds, doing, rest, wrote>>
       /\ owner' \in Thread \cup {Nobody} /\ triggered' = triggered /\ denied' = denied
       /\ triggered' \in [Thread -> BOOLEAN]
  BY <1>1 DEF pipe, given, PipeCounts
<1>11. Bounded(x)
  BY <1>1, <1>9, <1>10 DEF Bounded, queues
<1>12. NodesOK(x, "p_slept", x \in asleep', triggered'[x], denied'[x], waiting)
  BY <1>0, <1>1, <1>9, <1>10 DEF NodesOK, AsleepPC, Linked
<1>13. PlaceOK(x, "p_slept", doing[x], fds) /\ doing[x] = "poll"
  BY <1>0, <1>1 DEF PlaceOK, PollPC, ClosePC, BeforePC, AsleepPC
<1>14. /\ Opened(x)' => Opened(x)
       /\ Drowse(x)' => Drowse(x)
  BY <1>1, <1>7, <1>10 DEF Opened, ClosePC, Drowse, Own, BeforePC, AsleepPC
<1>15. \A q \in PipeQueues : ~Waker(x, q)
  BY <1>1, <1>13 DEF Waker
<1>16. "p_slept" \in PipePC
  BY DEF PipePC, PollPC
<1> QED BY <1>1, <1>6, <1>8, <1>10, <1>11, <1>12, <1>13, <1>14, <1>15, <1>16, SimpleMove

\* _poll_add and poll_teardown.
LEMMA PollLinks ==
  ASSUME PipeGiven, PipeIInv, NEW x \in PipeUser,
         \/ PollAdd(x, "add_r", reader_queue, "add_w")
         \/ PollAdd(x, "add_w", writer_queue, "p_test")
         \/ PollRemove(x, "del_w", writer_queue)
         \/ PollRemove(x, "del_r", reader_queue)
  PROVE  PipeIInv'
<1> USE PipeFacts, BarePlaces
<1>0. /\ x \in Thread /\ PlaceOK(x, pc[x], doing[x], fds)
      /\ NodesOK(x, pc[x], x \in asleep, triggered[x], denied[x], waiting)
      /\ reader_queue \in PipeQueues /\ writer_queue \in PipeQueues
      /\ reader_queue # writer_queue /\ Own(x) \in PipeQueues
      /\ events(x) = asks(x) /\ denied \in [Thread -> SUBSET WQ]
  BY PipeConstants, PairSides DEF PipeLists, PipeQueues, PipeGiven
<1> DEFINE n == PollNode(x)
           Same == UNCHANGED <<owner, readers, writers, bytes, fds, doing, rest, wrote,
                               triggered>>
           Added(q) ==
             \/ waiting' = [waiting EXCEPT ![q] = Append(@, n)] /\ denied' = denied
             \/ /\ waiting' = waiting /\ q \in denied'[x]
                /\ denied[x] \subseteq denied'[x]
<1>1. PICK p \in {"add_w", "p_test", "del_r", "run"}, d \in {"poll", "none"},
           q \in PipeQueues :
        /\ pc' = [pc EXCEPT ![x] = p] /\ doing' = [doing EXCEPT ![x] = d]
        /\ k.cur = x /\ k' = k /\ wakeup' = wakeup
        /\ UNCHANGED <<owner, readers, writers, bytes, fds>>
        /\ rest' = [rest EXCEPT ![x] = 0] \/ rest' = rest
        /\ wrote' = [wrote EXCEPT ![x] = FALSE] \/ wrote' = wrote
        /\ triggered' = [triggered EXCEPT ![x] = FALSE] \/ triggered' = triggered
        /\ d = "none" <=> p = "run"
        /\ \A u \in PipeUser \ {x} : denied'[u] = denied[u]
        /\ \/ /\ pc[x] = "add_r" /\ p = "add_w" /\ q = reader_queue
              /\ triggered' = triggered /\ Added(q)
           \/ /\ pc[x] = "add_w" /\ p = "p_test" /\ q = writer_queue
              /\ triggered' = triggered /\ Added(q)
           \/ /\ pc[x] = "del_w" /\ p = "del_r" /\ q = writer_queue
              /\ waiting' = [waiting EXCEPT ![q] = Unlink(@, n)]
           \/ /\ pc[x] = "del_r" /\ p = "run" /\ q = reader_queue
              /\ waiting' = [waiting EXCEPT ![q] = Unlink(@, n)]
  <2>1. ASSUME Same, pc[x] \in {"add_r", "add_w"}
        PROVE  /\ doing' = [doing EXCEPT ![x] = "poll"]
               /\ UNCHANGED <<owner, readers, writers, bytes, fds>>
               /\ rest' = rest /\ wrote' = wrote /\ triggered' = triggered
    <3>1. doing[x] = "poll"
      BY <1>0, <2>1 DEF PlaceOK, PollPC
    <3> QED BY <2>1, <3>1
  <2>2. CASE PollAdd(x, "add_r", reader_queue, "add_w")
    <3>1. /\ pc[x] = "add_r" /\ k.cur = x /\ k' = k /\ wakeup' = wakeup
          /\ Same /\ pc' = [pc EXCEPT ![x] = "add_w"]
          /\ \/ /\ waiting' = [waiting EXCEPT ![reader_queue] = Append(@, n)]
                /\ denied' = denied
             \/ /\ waiting' = waiting
                /\ denied' = [denied EXCEPT ![x] = @ \cup {reader_queue}]
      BY <1>0, <2>2 DEF PollAdd, At, Go, PollNode
    <3>2. Added(reader_queue) /\ \A u \in PipeUser \ {x} : denied'[u] = denied[u]
      <4> HIDE DEF n
      <4> QED BY <1>0, <3>1, PipeConstants
    <3> HIDE DEF n, Added
    <3> QED BY <1>0, <2>1, <3>1, <3>2
  <2>3. CASE PollAdd(x, "add_w", writer_queue, "p_test")
    <3>1. /\ pc[x] = "add_w" /\ k.cur = x /\ k' = k /\ wakeup' = wakeup
          /\ Same /\ pc' = [pc EXCEPT ![x] = "p_test"]
          /\ \/ /\ waiting' = [waiting EXCEPT ![writer_queue] = Append(@, n)]
                /\ denied' = denied
             \/ /\ waiting' = waiting
                /\ denied' = [denied EXCEPT ![x] = @ \cup {writer_queue}]
      BY <1>0, <2>3 DEF PollAdd, At, Go, PollNode
    <3>2. Added(writer_queue) /\ \A u \in PipeUser \ {x} : denied'[u] = denied[u]
      <4> HIDE DEF n
      <4> QED BY <1>0, <3>1, PipeConstants
    <3> HIDE DEF n, Added
    <3> QED BY <1>0, <2>1, <3>1, <3>2
  <2>4. CASE PollRemove(x, "del_w", writer_queue)
    <3>1. /\ pc[x] = "del_w" /\ k.cur = x /\ k' = k /\ wakeup' = wakeup
          /\ UNCHANGED <<owner, readers, writers, bytes, fds>>
          /\ UNCHANGED <<doing, rest, wrote, triggered, denied>>
          /\ pc' = [pc EXCEPT ![x] = "del_r"]
          /\ waiting' = [waiting EXCEPT ![writer_queue] = Unlink(@, n)]
      BY <1>0, <2>4 DEF PollRemove, At, Go, PollNode, rt_wqueue_remove
    <3>2. doing' = [doing EXCEPT ![x] = "poll"]
      <4>1. doing[x] = "poll"
        BY <1>0, <3>1 DEF PlaceOK, PollPC
      <4> QED BY <3>1, <4>1
    <3> HIDE DEF n
    <3> QED BY <1>0, <3>1, <3>2
  <2>5. CASE PollRemove(x, "del_r", reader_queue)
    <3>1. /\ pc[x] = "del_r" /\ k.cur = x /\ k' = k /\ wakeup' = wakeup
          /\ UNCHANGED <<owner, readers, writers, bytes, fds>>
          /\ doing' = [doing EXCEPT ![x] = "none"]
          /\ rest' = [rest EXCEPT ![x] = 0] /\ wrote' = [wrote EXCEPT ![x] = FALSE]
          /\ triggered' = [triggered EXCEPT ![x] = FALSE]
          /\ denied' = [denied EXCEPT ![x] = {}]
          /\ pc' = [pc EXCEPT ![x] = "run"]
          /\ waiting' = [waiting EXCEPT ![reader_queue] = Unlink(@, n)]
      BY <1>0, <2>5 DEF PollRemove, At, Go, Return, PollNode, rt_wqueue_remove
    <3>2. \A u \in PipeUser \ {x} : denied'[u] = denied[u]
      BY <1>0, <3>1, PipeConstants
    <3> HIDE DEF n
    <3> QED BY <1>0, <3>1, <3>2
  <2> QED BY <2>2, <2>3, <2>4, <2>5
<1> HIDE DEF n, Same
<1>2. /\ rest' \in [Thread -> 0 .. PipeCount] /\ wrote' \in [Thread -> BOOLEAN]
      /\ triggered' \in [Thread -> BOOLEAN]
      /\ \A u \in PipeUser \ {x} : wrote'[u] = wrote[u] /\ triggered'[u] = triggered[u]
  <2>1. 0 \in 0 .. PipeCount /\ rest \in [Thread -> 0 .. PipeCount]
    BY PipeConstants DEF PipeCounts
  <2>2. \A u \in PipeUser : u \in Thread
    BY PipeConstants
  <2>3. rest' \in [Thread -> 0 .. PipeCount]
    BY <1>0, <1>1, <2>1
  <2>4. /\ wrote' \in [Thread -> BOOLEAN]
        /\ \A u \in PipeUser \ {x} : wrote'[u] = wrote[u]
    BY <1>0, <1>1, <2>2
  <2>5. /\ triggered' \in [Thread -> BOOLEAN]
        /\ \A u \in PipeUser \ {x} : triggered'[u] = triggered[u]
    BY <1>0, <1>1, <2>2
  <2> QED BY <2>3, <2>4, <2>5
<1>3. /\ KernelSound' /\ PipeRuns' /\ asleep' = asleep /\ x \notin asleep
  <2>1. pc[x] # "q_sched"
    BY <1>1
  <2> QED BY <1>0, <1>1, <2>1, RunsStep, PipeRunning
<1>4. PICK l : /\ waiting' = [waiting EXCEPT ![q] = l]
               /\ \/ /\ pc[x] \in {"add_r", "add_w"}
                     /\ l = Append(waiting[q], n) /\ denied' = denied
                  \/ /\ pc[x] \in {"add_r", "add_w"}
                     /\ l = waiting[q] /\ q \in denied'[x]
                     /\ denied[x] \subseteq denied'[x]
                  \/ pc[x] \notin {"add_r", "add_w"} /\ l = Unlink(waiting[q], n)
  <2>1. waiting = [waiting EXCEPT ![q] = waiting[q]]
    OBVIOUS
  <2>2. CASE pc[x] \in {"add_r", "add_w"}
    <3>1. Added(q)
      BY <1>1, <2>2
    <3> QED BY <2>1, <2>2, <3>1
  <2>3. CASE pc[x] \notin {"add_r", "add_w"}
    BY <1>1, <2>3
  <2> QED BY <2>2, <2>3
<1>5. pc[x] \in {"add_r", "add_w"} => n \notin ToSet(waiting[q])
  BY <1>0, <1>1 DEF NodesOK, Linked, n
<1>6. \/ l = Append(waiting[q], n) /\ n \notin ToSet(waiting[q])
      \/ l = Unlink(waiting[q], n)
  BY <1>4, <1>5 DEF Unlink
<1>7. /\ \A r \in PipeQueues : r # q => waiting'[r] = waiting[r]
      /\ \/ pc[x] \in {"add_r", "add_w"} /\ denied' = denied
            /\ ToSet(waiting'[q]) = ToSet(waiting[q]) \cup {n}
         \/ pc[x] \in {"add_r", "add_w"} /\ q \in denied'[x]
            /\ denied[x] \subseteq denied'[x] /\ waiting'[q] = waiting[q]
         \/ pc[x] \notin {"add_r", "add_w"}
            /\ ToSet(waiting'[q]) = ToSet(waiting[q]) \ {n}
  <2>1. n \in PipeNodes
    BY DEF n, PipeNodes
  <2>2. /\ waiting[q] \in Seq(PipeNodes) /\ IsInjective(waiting[q]) /\ q \in WQ
        /\ waiting = [r \in WQ |-> waiting[r]] /\ \A r \in PipeQueues : r \in WQ
    BY PipeConstants DEF PipeLists
  <2>3. waiting'[q] = l /\ \A r \in PipeQueues : r # q => waiting'[r] = waiting[r]
    BY <1>4, <2>2
  <2>4. CASE /\ pc[x] \in {"add_r", "add_w"}
             /\ l = Append(waiting[q], n) /\ denied' = denied
    <3>1. ToSet(l) = ToSet(waiting[q]) \cup {n}
      BY <1>5, <2>1, <2>2, <2>4, AppendDistinct
    <3> QED BY <2>3, <2>4, <3>1
  <2>5. CASE pc[x] \notin {"add_r", "add_w"} /\ l = Unlink(waiting[q], n)
    <3>1. ToSet(l) = ToSet(waiting[q]) \ {n}
      BY <2>2, <2>5, UnlinkProperties
    <3> QED BY <2>3, <2>5, <3>1
  <2> QED BY <1>4, <2>3, <2>4, <2>5
<1>8. NodesOK(x, p, x \in asleep', triggered'[x], denied'[x], waiting')
  <2>1. WaitNode(x) # n
    BY DEF WaitNode, PollNode, Node, asks, n
  <2>2. /\ pc[x] \notin AsleepPC /\ p \notin AsleepPC /\ p # "p_slept"
    BY <1>1 DEF AsleepPC
  <2>3. ASSUME NEW r \in PipeQueues
        PROVE  WaitNode(x) \notin ToSet(waiting'[r])
    BY <1>0, <1>7, <2>1, <2>2, <2>3 DEF NodesOK
  <2>4. ASSUME NEW r \in PipeQueues, n \in ToSet(waiting'[r])
        PROVE  p \in Linked(r)
    <3>1. r # q => n \in ToSet(waiting[r])
      BY <1>7, <2>4
    <3>2. n \in ToSet(waiting[r]) => pc[x] \in Linked(r)
      BY <1>0 DEF NodesOK, n
    <3>3. r = reader_queue \/ r = writer_queue
      BY DEF PipeQueues
    <3>4. r = q => pc[x] \in {"add_r", "add_w"}
      BY <1>7, <2>4
    <3> QED BY <1>0, <1>1, <3>1, <3>2, <3>3, <3>4 DEF Linked
  <2>5. ASSUME p \in Linked(Own(x)) \ {"del_w", "del_r"}, ~triggered'[x],
               Own(x) \notin denied'[x]
        PROVE  n \in ToSet(waiting'[Own(x)])
    <3>1. pc[x] \in {"add_r", "add_w"} /\ triggered' = triggered
      BY <1>1, <2>5 DEF Linked
    <3>2. Own(x) = q => n \in ToSet(waiting'[Own(x)])
      BY <1>7, <2>5, <3>1
    <3>3. Own(x) # q => pc[x] \in Linked(Own(x)) \ {"del_w", "del_r"}
      <4>1. Own(x) = reader_queue \/ Own(x) = writer_queue
        BY <1>0 DEF PipeQueues
      <4> QED BY <1>0, <1>1, <2>5, <3>1, <4>1 DEF Linked
    <3>4. Own(x) # q => n \in ToSet(waiting[Own(x)])
      <4>1. Own(x) \notin denied[x]
        BY <1>7, <2>5, <3>1
      <4> QED BY <1>0, <2>5, <3>1, <3>3, <4>1 DEF NodesOK, n
    <3> QED BY <1>0, <1>7, <3>2, <3>4
  <2> QED BY <2>2, <2>3, <2>4, <2>5 DEF NodesOK, n
<1>9. PlaceOK(x, p, d, fds)
  BY <1>0, <1>1 DEF PlaceOK, PollPC, ClosePC, BeforePC, AsleepPC
<1>10. pc'[x] = p
  BY <1>0, <1>1
<1>11. (Opened(x)' => Opened(x)) /\ ~Drowse(x)'
  BY <1>1, <1>10 DEF Opened, ClosePC, Drowse, BeforePC, AsleepPC
<1>12. \A r \in PipeQueues : ~Waker(x, r)
  <2>1. doing[x] = "poll"
    BY <1>0, <1>1 DEF PlaceOK, PollPC
  <2> QED BY <1>1, <2>1 DEF Waker
<1>13. /\ p \in PipePC /\ d \in Ops /\ n \in {WaitNode(x), PollNode(x)}
  BY <1>1 DEF PipePC, PollPC, Ops, n
<1>14. /\ UNCHANGED <<owner, readers, writers, bytes, fds>> /\ wakeup' = wakeup
       /\ pc' = [pc EXCEPT ![x] = p] /\ doing' = [doing EXCEPT ![x] = d]
       /\ waiting' = [waiting EXCEPT ![q] = l] /\ asleep' \ {x} = asleep \ {x}
       /\ \A u \in PipeUser \ {x} : denied'[u] = denied[u]
  BY <1>1, <1>3, <1>4
<1> QED BY ONLY PipeGiven, PipeIInv, x \in PipeUser, q \in PipeQueues, <1>2, <1>3,
                <1>6, <1>8, <1>9, <1>11, <1>12, <1>13, <1>14, OwnStep

-----------------------------------------------------------------------------
(* The wake-ups.                                                           *)

\* What a reader or a writer waits for.
Wakes(q, key) ==
  /\ q = reader_queue => "POLLIN" \in key
  /\ q = writer_queue => "POLLOUT" \in key

\* The node that rt_wqueue_wakeup finds is in the list, and it finds one when the
\* list holds a node for the key.
LEMMA PipeFound ==
  ASSUME PipeIInv, NEW q \in PipeQueues, NEW key
  PROVE  /\ accepting(q, key) # {} => found(q, key) \in ToSet(waiting[q])
         /\ \A n \in ToSet(waiting[q]) :
              n.events \cap (key \cup {"any"}) # {} => accepting(q, key) # {}
<1> DEFINE s == waiting[q]
           a == accepting(q, key)
<1>1. s \in Seq(PipeNodes) /\ DOMAIN s = 1 .. Len(s) /\ Len(s) \in Nat
  BY PipeFacts, LenProperties DEF PipeLists
<1>2. a \subseteq DOMAIN s /\ \A i \in a : i \in Nat
  <2>1. a \subseteq DOMAIN s
    BY DEF accepting
  <2> HIDE DEF a, s
  <2> QED BY <1>1, <2>1
<1>3. ASSUME a # {} PROVE found(q, key) \in ToSet(s)
  <2>1. \E b \in a : \A j \in a : b <= j
    <3> HIDE DEF a
    <3> QED BY <1>2, <1>3, LeastNat
  <2>2. PICK c \in a : c = CHOOSE i \in a : \A j \in a : i <= j
    BY <2>1
  <2>3. found(q, key) = s[c]
    BY <2>2 DEF found
  <2> QED BY <1>2, <2>3 DEF ToSet
<1>4. ASSUME NEW n \in ToSet(s), n.events \cap (key \cup {"any"}) # {}
      PROVE  a # {}
  <2>1. PICK i \in DOMAIN s : s[i] = n
    BY DEF ToSet
  <2> QED BY <1>4, <2>1 DEF accepting
<1> QED BY <1>3, <1>4

\* What a wake-up of the queue q by x does to the others: who sleeps for the
\* queue or will, does not any more.
Woken(x, q) ==
  /\ KernelSound' /\ PipeRuns' /\ PipeLists'
  /\ triggered' \in [Thread -> BOOLEAN] /\ (wakeup[Own(x)] => wakeup'[Own(x)])
  /\ \A u \in PipeUser \ {x} : Drowse(u)' => Drowse(u) /\ Own(u) # q

\* Nobody was in the queue.
LEMMA WakeNobody ==
  ASSUME PipeGiven, PipeIInv, NEW x \in PipeUser, NEW p \in BarePC,
         k.cur = x, pc[x] \in BarePC, pc' = [pc EXCEPT ![x] = p],
         NEW q \in PipeQueues, NEW key, Wakes(q, key), denied' = denied,
         wake(q, key), accepting(q, key) = {}
  PROVE  Woken(x, q)
<1> USE PipeFacts, BarePlaces
<1>1. /\ wakeup' = [wakeup EXCEPT ![q] = TRUE] /\ k' = k /\ waiting' = waiting
      /\ triggered' = triggered
  BY DEF wake, rt_wqueue_wakeup
<1>2. pc[x] # "q_sched" /\ x \in Thread /\ q \in WQ /\ p \in PipePC
  BY PipeConstants DEF BarePC, AsleepPC
<1>3. KernelSound' /\ PipeRuns' /\ asleep' = asleep
  BY <1>1, <1>2, RunsStep
<1>4. wakeup' \in [WQ -> BOOLEAN] /\ wakeup'[q] /\ \A r \in WQ : wakeup[r] => wakeup'[r]
  BY <1>1, <1>2
<1>5. \A u \in PipeUser : Own(u) \in WQ
  BY PipeConstants
<1>6. Bounded(x)
  BY <1>1, <1>3, <1>4, <1>5 DEF Bounded
<1>7. NodesOK(x, p, x \in asleep', triggered'[x], denied'[x], waiting)
  BY BareNodes
<1>8. /\ PipeLists'
      /\ \A u \in PipeUser \ {x} : Drowse(u)' => Drowse(u)
  BY <1>2, <1>6, <1>7, BoundedLists
<1>9. ASSUME NEW u \in PipeUser \ {x}, Own(u) = q, Drowse(u)'
      PROVE  FALSE
  <2>1. NodesOK(u, pc[u], u \in asleep, triggered[u], denied[u], waiting)
    BY DEF PipeLists
  <2>2. /\ pc'[u] = pc[u] /\ Own(u)' = q
    BY <1>9, PipeConstants DEF Own
  <2>3. WaitNode(u) \in ToSet(waiting[q]) \/ PollNode(u) \in ToSet(waiting[q])
    BY <1>1, <1>3, <1>4, <1>9, <2>1, <2>2 DEF Drowse, NodesOK, Linked
  <2>4. WaitNode(u).events \cap (key \cup {"any"}) # {}
    BY DEF WaitNode, Node
  <2>5. PollNode(u).events \cap (key \cup {"any"}) # {}
    <3>1. Side[u] = "read" => "POLLIN" \in key
      BY <1>9 DEF Own, Wakes
    <3>2. Side[u] # "read" => "POLLOUT" \in key
      BY <1>9 DEF Own, Wakes
    <3> QED BY <3>1, <3>2 DEF PollNode, Node, asks
  <2> QED BY <2>3, <2>4, <2>5, PipeFound
<1> QED BY <1>1, <1>3, <1>4, <1>5, <1>8, <1>9 DEF Woken

\* rt_thread_resume of the thread w of a node, then rt_schedule().
LEMMA WakeThread ==
  ASSUME PipeIInv, NEW x \in PipeUser, NEW p, k.cur = x, pc[x] # "q_sched",
         pc' = [pc EXCEPT ![x] = p], NEW w \in Thread,
         k' = rt_schedule(rt_thread_resume(k, w))
  PROVE  KernelSound' /\ PipeRuns' /\ asleep' = asleep \ {w}
<1> USE PipeFacts
<1>1. PICK m : m = rt_thread_resume(k, w)
  OBVIOUS
<1>2. /\ m \in KernelState /\ KInv(m) /\ m.nest = 0 /\ m.stat[Idle] = "ready"
      /\ m.timer \subseteq k.timer /\ ToSet(m.wait[Lock]) \subseteq ToSet(k.wait[Lock])
      /\ {t \in Thread : m.stat[t] = "suspend"} = asleep \ {w}
  <2>1. CASE k.stat[w] = "suspend"
    <3>1. k \in KernelState /\ KInv(k) /\ k.nest = 0 /\ k.stat[Idle] = "ready"
      BY DEF KernelSound
    <3>2. WokenUp(k, w, m)
      BY ONLY <1>1, <2>1, <3>1, w \in Thread, ResumeKeeps
    <3>3. /\ m \in KernelState /\ KInv(m) /\ m.nest = k.nest
          /\ m.stat = [k.stat EXCEPT ![w] = "ready"] /\ m.timer = k.timer \ {w}
          /\ ToSet(m.wait[Lock]) = ToSet(k.wait[Lock]) \ {w}
      BY <3>2, PipeConstants DEF WokenUp
    <3>4. Idle \in Thread
      BY PipeConstants
    <3> QED BY <3>1, <3>3, <3>4 DEF asleep
  <2>2. CASE k.stat[w] # "suspend"
    <3>1. m = k
      BY <1>1, <2>2 DEF rt_thread_resume
    <3> QED BY <2>2, <3>1 DEF KernelSound, asleep
  <2> QED BY <2>1, <2>2
<1>3. k' = rt_schedule(m)
  BY <1>1
<1>4. /\ KernelSound' /\ k'.stat[k'.cur] = "ready"
      /\ k'.stat = m.stat /\ k'.wait = m.wait /\ k'.timer = m.timer
  BY <1>2, <1>3, ScheduleMoves
<1>5. PipeRuns'
  <2>1. x \notin k.timer /\ x \notin ToSet(k.wait[Lock])
    BY PipeRunning
  <2>2. k.timer \subseteq Thread /\ ToSet(k.wait[Lock]) \subseteq Thread
    BY PipeConstants, KernelSoundFacts DEF KernelState
  <2>3. \A t \in Thread \ {x} : pc'[t] = pc[t]
    OBVIOUS
  <2> QED BY <1>2, <1>4, <2>1, <2>2, <2>3 DEF PipeRuns
<1>6. asleep' = asleep \ {w}
  BY <1>2, <1>4 DEF asleep
<1> QED BY <1>4, <1>5, <1>6

\* The thread w of the node that was found is the other one.
LEMMA WakeSomebody ==
  ASSUME PipeGiven, PipeIInv, NEW x \in PipeUser, NEW p \in BarePC,
         k.cur = x, pc[x] \in BarePC, pc' = [pc EXCEPT ![x] = p],
         NEW q \in PipeQueues, NEW key, wake(q, key), accepting(q, key) # {},
         denied' = denied
  PROVE  Woken(x, q)
<1> USE PipeFacts, BarePlaces
<1>1. PICK n : n = found(q, key) /\ n \in ToSet(waiting[q])
  BY PipeFound
<1>2. PICK w \in PipeUser : n = WaitNode(w) \/ n = PollNode(w)
  <2>1. ToSet(waiting[q]) \subseteq PipeNodes
    BY ListElements DEF PipeLists
  <2> QED BY <1>1, <2>1 DEF PipeNodes
<1>3. /\ n.thread = w /\ (n = WaitNode(w) => "any" \in n.events)
      /\ (n = PollNode(w) => "any" \notin n.events)
  BY <1>2 DEF WaitNode, PollNode, Node, asks
<1>4. /\ wakeup' = [wakeup EXCEPT ![q] = TRUE]
      /\ k' = rt_schedule(rt_thread_resume(k, w))
      /\ waiting' = [waiting EXCEPT ![q] = Unlink(@, n)]
      /\ n = WaitNode(w) => triggered' = triggered
      /\ n = PollNode(w) => triggered' = [triggered EXCEPT ![w] = TRUE]
  BY <1>1, <1>3 DEF wake, rt_wqueue_wakeup, rt_wqueue_remove
<1>5. /\ pc[x] # "q_sched" /\ x \in Thread /\ w \in Thread /\ q \in WQ /\ p \in PipePC
      /\ \A u \in PipeUser : Own(u) \in WQ /\ Own(u) \in PipeQueues
  BY PipeConstants DEF BarePC, AsleepPC
<1>6. \A r \in PipeQueues : /\ WaitNode(x) \notin ToSet(waiting[r])
                            /\ PollNode(x) \notin ToSet(waiting[r])
  BY NoNodes DEF BarePC
<1>7. w # x
  BY <1>1, <1>2, <1>6
<1>8. KernelSound' /\ PipeRuns' /\ asleep' = asleep \ {w}
  BY <1>4, <1>5, WakeThread
<1>9. NodesOK(w, pc[w], w \in asleep, triggered[w], denied[w], waiting)
  BY DEF PipeLists
<1>10. /\ n = WaitNode(w) => pc[w] \in AsleepPC /\ Own(w) = q
       /\ n = PollNode(w) => pc[w] \in Linked(q) /\ triggered'[w]
  BY <1>1, <1>4, <1>5, <1>9 DEF NodesOK
<1>11. AsleepPC \cap Linked(q) = {} /\ BeforePC \cap (AsleepPC \cup Linked(q)) = {}
  BY DEF AsleepPC, Linked, BeforePC
<1>12. /\ waiting' = [r \in WQ |-> waiting'[r]]
       /\ ToSet(waiting'[q]) = ToSet(waiting[q]) \ {n}
       /\ \A r \in PipeQueues :
            /\ waiting'[r] \in Seq(PipeNodes) /\ IsInjective(waiting'[r])
            /\ r # q => waiting'[r] = waiting[r]
  <2>1. /\ \A r \in PipeQueues :
             r \in WQ /\ waiting[r] \in Seq(PipeNodes) /\ IsInjective(waiting[r])
        /\ waiting = [r \in WQ |-> waiting[r]]
    BY PipeConstants DEF PipeLists
  <2>2. PICK l : l = Unlink(waiting[q], n)
    OBVIOUS
  <2>3. /\ l \in Seq(PipeNodes) /\ IsInjective(l) /\ ToSet(l) = ToSet(waiting[q]) \ {n}
    BY <2>1, <2>2, UnlinkProperties
  <2>4. /\ waiting' = [r \in WQ |-> waiting'[r]] /\ waiting'[q] = l
        /\ \A r \in WQ : r # q => waiting'[r] = waiting[r]
    BY <1>4, <1>5, <2>1, <2>2
  <2> QED BY <2>1, <2>3, <2>4
<1>13. \A u \in PipeUser \ {x} : u = w
  BY <1>7, TheOther
<1>14. pc'[x] = p /\ pc'[w] = pc[w]
  BY <1>5, <1>7
<1>15. /\ wakeup' \in [WQ -> BOOLEAN] /\ \A r \in WQ : wakeup[r] => wakeup'[r]
       /\ triggered' \in [Thread -> BOOLEAN]
  BY <1>2, <1>4, <1>5
<1>16. NodesOK(x, p, x \in asleep', triggered'[x], denied'[x], waiting')
  <2>1. \A r \in PipeQueues : /\ WaitNode(x) \notin ToSet(waiting'[r])
                              /\ PollNode(x) \notin ToSet(waiting'[r])
    BY <1>6, <1>12
  <2>2. p \notin AsleepPC /\ p # "p_slept" /\ \A r : p \notin Linked(r)
    BY DEF BarePC, Linked
  <2> QED BY <2>1, <2>2 DEF NodesOK
<1>17. NodesOK(w, pc[w], w \in asleep', triggered'[w], denied'[w], waiting')
  <2>1. ASSUME NEW r \in PipeQueues
        PROVE  /\ WaitNode(w) \notin ToSet(waiting'[r])
               /\ PollNode(w) \in ToSet(waiting'[r]) => pc[w] \in Linked(r)
    <3>1. \A m \in ToSet(waiting'[r]) : m \in ToSet(waiting[r]) /\ (r = q => m # n)
      BY <1>12
    <3>2. PollNode(w) \in ToSet(waiting'[r]) => pc[w] \in Linked(r)
      BY <1>9, <3>1 DEF NodesOK
    <3>3. WaitNode(w) \in ToSet(waiting'[r]) => r = Own(w) /\ pc[w] \in AsleepPC
      BY <1>9, <3>1 DEF NodesOK
    <3>4. WaitNode(w) \notin ToSet(waiting'[r])
      BY <1>2, <1>10, <1>11, <3>1, <3>3
    <3> QED BY <3>2, <3>4
  <2>2. pc[w] \in Linked(Own(w)) \ {"del_w", "del_r"} /\ ~triggered'[w] =>
          PollNode(w) \in ToSet(waiting'[Own(w)])
    <3>1. n = WaitNode(w) => pc[w] \notin Linked(Own(w))
      BY <1>10, <1>11
    <3> QED BY <1>2, <1>10, <3>1
  <2>3. w \notin asleep'
    BY <1>8
  <2> QED BY <2>1, <2>2, <2>3 DEF NodesOK
<1>18. PipeLists'
  <2>1. \A u \in PipeUser :
          NodesOK(u, pc'[u], u \in asleep', triggered'[u], denied'[u], waiting')
    BY <1>13, <1>14, <1>16, <1>17
  <2> QED BY <1>12, <1>15, <2>1 DEF PipeLists
<1>19. ~Drowse(w)'
  <2>1. pc[w] \notin BeforePC
    BY <1>2, <1>10, <1>11
  <2>2. ~(pc[w] = "p_wait" /\ ~triggered'[w])
    BY <1>2, <1>10 DEF AsleepPC
  <2> QED BY <1>8, <1>14, <2>1, <2>2 DEF Drowse
<1> QED BY <1>5, <1>8, <1>13, <1>15, <1>18, <1>19 DEF Woken

LEMMA WakeMoves ==
  ASSUME PipeGiven, PipeIInv, NEW x \in PipeUser, NEW p \in BarePC, NEW d \in Ops,
         k.cur = x, pc[x] \in BarePC, pc' = [pc EXCEPT ![x] = p],
         doing' = [doing EXCEPT ![x] = d], PlaceOK(x, p, d, fds),
         UNCHANGED <<owner, readers, writers, bytes, fds>>,
         rest' = [rest EXCEPT ![x] = 0] \/ rest' = rest,
         wrote' = [wrote EXCEPT ![x] = FALSE] \/ wrote' = wrote,
         NEW q \in PipeQueues, NEW key, Wakes(q, key), wake(q, key), denied' = denied,
         pc[x] \in ClosePC => p \in ClosePC,
         p \in BeforePC => pc[x] \in BeforePC,
         \A r \in PipeQueues : Waker(x, r) => r = q \/ Waker(x, r)'
  PROVE  PipeIInv'
<1> USE PipeFacts, BarePlaces
<1>0. x \in Thread /\ \A u \in PipeUser : u \in Thread /\ Own(u) \in PipeQueues
  BY PipeConstants
<1>1. Woken(x, q)
  <2>1. CASE accepting(q, key) = {}
    BY <2>1, WakeNobody
  <2>2. CASE accepting(q, key) # {}
    BY <2>2, WakeSomebody
  <2> QED BY <2>1, <2>2
<1>2. KernelSound' /\ PipeRuns' /\ PipeLists' /\ triggered' \in [Thread -> BOOLEAN]
  BY <1>1 DEF Woken
<1>3. /\ rest' \in [Thread -> 0 .. PipeCount]
      /\ wrote' \in [Thread -> BOOLEAN]
      /\ \A u \in PipeUser \ {x} : wrote'[u] = wrote[u]
  <2>1. 0 \in 0 .. PipeCount /\ rest \in [Thread -> 0 .. PipeCount]
    BY PipeConstants DEF PipeCounts
  <2>2. rest' \in [Thread -> 0 .. PipeCount]
    BY <1>0, <2>1
  <2>3. wrote' \in [Thread -> BOOLEAN] /\ \A u \in PipeUser \ {x} : wrote'[u] = wrote[u]
    BY <1>0
  <2> QED BY <2>2, <2>3
<1>4. pc'[x] = p /\ p \notin AsleepPC /\ p # "p_wait" /\ p # "p_slept"
  BY <1>0 DEF BarePC
<1>5. Opened(x)' => Opened(x)
  BY <1>4 DEF Opened
<1>6. Drowse(x)' => Drowse(x)
  <2>1. Own(x)' = Own(x)
    BY DEF Own
  <2>2. wakeup[Own(x)] => wakeup'[Own(x)]
    BY <1>1 DEF Woken
  <2> QED BY <1>4, <2>1, <2>2 DEF Drowse
<1>7. \A u \in PipeUser \ {x} : Drowse(u)' =>
        Drowse(u) /\ (Waker(x, Own(u)) => Waker(x, Own(u))')
  <2>1. \A u \in PipeUser \ {x} : Drowse(u)' => Drowse(u) /\ Own(u) # q
    BY <1>1 DEF Woken
  <2>2. ASSUME NEW u \in PipeUser \ {x}, Own(u) # q, Waker(x, Own(u))
        PROVE  Waker(x, Own(u))'
    <3>1. PICK r \in PipeQueues : r = Own(u)
      BY <1>0
    <3>2. Waker(x, r)'
      BY <2>2, <3>1
    <3>3. Own(u)' = r
      BY <3>1 DEF Own
    <3> QED BY <3>2, <3>3
  <2> QED BY <2>1, <2>2
<1>8. UNCHANGED <<readers, writers, bytes, fds>> /\ owner' \in Thread \cup {Nobody}
  BY DEF PipeCounts
<1>9. p \in PipePC /\ doing' = [doing EXCEPT ![x] = d]
  OBVIOUS
<1> QED BY <1>2, <1>3, <1>5, <1>6, <1>7, <1>8, <1>9, QueueStep

LEMMA PipeWakes ==
  ASSUME PipeGiven, PipeIInv, NEW x \in PipeUser,
         \/ ReadWake(x) \/ WriteEnd(x) \/ WakeWait(x)
         \/ CloseReaders(x) \/ CloseWriters(x)
  PROVE  PipeIInv'
<1> USE PipeFacts, BarePlaces
<1>0. /\ x \in Thread /\ PlaceOK(x, pc[x], doing[x], fds)
      /\ reader_queue \in PipeQueues /\ writer_queue \in PipeQueues
      /\ reader_queue # writer_queue
      /\ doing[x] \in Ops /\ doing = [doing EXCEPT ![x] = doing[x]]
  BY PipeConstants DEF PipeQueues
<1>1. CASE ReadWake(x)
  <2>1. /\ k.cur = x /\ pc[x] = "p_woke" /\ pc' = [pc EXCEPT ![x] = "p_unlock"]
        /\ wake(writer_queue, {"POLLOUT"})
        /\ UNCHANGED <<owner, readers, writers, bytes, fds>> /\ denied' = denied
        /\ doing' = doing /\ rest' = rest /\ wrote' = wrote
    BY <1>1 DEF ReadWake, At, Go, given
  <2>2. PlaceOK(x, "p_unlock", doing[x], fds) /\ doing[x] = "read"
    BY <1>0, <2>1 DEF PlaceOK, PollPC, ClosePC, BeforePC, AsleepPC
  <2>3. Wakes(writer_queue, {"POLLOUT"})
    BY <1>0 DEF Wakes
  <2>4. \A r \in PipeQueues : Waker(x, r) => r = writer_queue
    BY <2>1, <2>2 DEF Waker
  <2>5. pc[x] \notin ClosePC /\ "p_unlock" \notin BeforePC
    BY <2>1 DEF ClosePC, BeforePC
  <2>6. doing' = [doing EXCEPT ![x] = doing[x]]
    BY <1>0, <2>1
  <2>7. pc[x] \in BarePC /\ "p_unlock" \in BarePC
    BY <2>1
  <2> QED BY <1>0, <2>1, <2>2, <2>3, <2>4, <2>5, <2>6, <2>7, WakeMoves
<1>2. CASE WriteEnd(x)
  <2>1. /\ k.cur = x /\ pc[x] = "p_wake_end" /\ pc' = [pc EXCEPT ![x] = "run"]
        /\ wake(reader_queue, {"POLLIN"})
        /\ UNCHANGED <<owner, readers, writers, bytes, fds>> /\ denied' = denied
        /\ doing' = [doing EXCEPT ![x] = "none"] /\ rest' = [rest EXCEPT ![x] = 0]
        /\ wrote' = [wrote EXCEPT ![x] = FALSE]
    BY <1>2 DEF WriteEnd, At, Go, Return, given
  <2>2. PlaceOK(x, "run", "none", fds)
    BY DEF PlaceOK, PollPC, ClosePC, BeforePC, AsleepPC
  <2>3. Wakes(reader_queue, {"POLLIN"})
    BY <1>0 DEF Wakes
  <2>4. \A r \in PipeQueues : Waker(x, r) => r = reader_queue
    BY <2>1 DEF Waker
  <2>5. pc[x] \notin ClosePC /\ "run" \notin BeforePC
    BY <2>1 DEF ClosePC, BeforePC
  <2>6. pc[x] \in BarePC /\ "run" \in BarePC /\ "none" \in Ops
    BY <2>1 DEF Ops
  <2> QED BY <1>0, <2>1, <2>2, <2>3, <2>4, <2>5, <2>6, WakeMoves
<1>3. CASE WakeWait(x)
  <2>0. PICK key : key = IF doing[x] = "read" THEN {"POLLOUT"} ELSE {"POLLIN"}
    OBVIOUS
  <2>1. PICK q \in PipeQueues :
          /\ q = IF doing[x] = "read" THEN writer_queue ELSE reader_queue
          /\ key = IF doing[x] = "read" THEN {"POLLOUT"} ELSE {"POLLIN"}
    BY <1>0, <2>0
  <2>2. /\ k.cur = x /\ pc[x] = "p_wake_wait" /\ pc' = [pc EXCEPT ![x] = "wait"]
        /\ wake(q, key) /\ denied' = denied
        /\ UNCHANGED <<owner, readers, writers, bytes, fds>>
        /\ doing' = doing /\ rest' = rest /\ wrote' = wrote
    BY <1>3, <2>1 DEF WakeWait, At, Go, given
  <2>3. PlaceOK(x, "wait", doing[x], fds)
    BY <1>0, <2>2 DEF PlaceOK, PollPC, ClosePC, BeforePC, AsleepPC
  <2>4. Wakes(q, key)
    BY <1>0, <2>1 DEF Wakes
  <2>5. \A r \in PipeQueues : Waker(x, r) => r = q
    BY <2>1, <2>2 DEF Waker
  <2>6. pc[x] \notin ClosePC /\ pc[x] \in BeforePC
    BY <2>2 DEF ClosePC, BeforePC
  <2>7. doing' = [doing EXCEPT ![x] = doing[x]]
    BY <1>0, <2>2
  <2>8. pc[x] \in BarePC /\ "wait" \in BarePC
    BY <2>2
  <2> QED BY <1>0, <2>2, <2>3, <2>4, <2>5, <2>6, <2>7, <2>8, WakeMoves
<1>4. CASE CloseReaders(x)
  <2>1. /\ k.cur = x /\ pc[x] = "p_close_r" /\ pc' = [pc EXCEPT ![x] = "p_close_w"]
        /\ UNCHANGED <<owner, readers, writers, bytes, fds>> /\ denied' = denied
        /\ doing' = doing /\ rest' = rest /\ wrote' = wrote
    BY <1>4 DEF CloseReaders, At, Go, given
  <2>2. CASE writers # 0
    <3>1. k' = k /\ UNCHANGED <<queues, triggered>> /\ UNCHANGED <<bytes, rest, wrote>>
      BY <1>4, <2>1, <2>2 DEF CloseReaders
    <3> QED BY <1>4, <2>2, <3>1, PipeBodies
  <2>3. CASE writers = 0
    <3>1. PICK key : key = {"POLLIN", "POLLERR", "POLLHUP"}
      OBVIOUS
    <3>2. wake(reader_queue, key) /\ Wakes(reader_queue, key)
      BY <1>0, <1>4, <2>3, <3>1 DEF CloseReaders, Wakes
    <3>3. PlaceOK(x, "p_close_w", doing[x], fds) /\ doing[x] = "close"
      BY <1>0, <2>1 DEF PlaceOK, PollPC, ClosePC, BeforePC, AsleepPC
    <3>4. pc'[x] = "p_close_w"
      BY <1>0, <2>1
    <3>5. \A r \in PipeQueues : Waker(x, r) => r = reader_queue \/ Waker(x, r)'
      BY <1>0, <2>1, <3>3, <3>4 DEF Waker
    <3>6. "p_close_w" \in ClosePC /\ "p_close_w" \notin BeforePC
      BY DEF ClosePC, BeforePC
    <3>7. doing' = [doing EXCEPT ![x] = doing[x]]
      BY <1>0, <2>1
    <3>8. pc[x] \in BarePC /\ "p_close_w" \in BarePC
      BY <2>1
    <3> QED BY <1>0, <2>1, <3>2, <3>3, <3>5, <3>6, <3>7, <3>8, WakeMoves
  <2> QED BY <2>2, <2>3
<1>5. CASE CloseWriters(x)
  <2>1. /\ k.cur = x /\ pc[x] = "p_close_w" /\ pc' = [pc EXCEPT ![x] = "p_close"]
        /\ UNCHANGED <<owner, readers, writers, bytes, fds>> /\ denied' = denied
        /\ doing' = doing /\ rest' = rest /\ wrote' = wrote
    BY <1>5 DEF CloseWriters, At, Go, given
  <2>2. CASE readers # 0
    <3>1. k' = k /\ UNCHANGED <<queues, triggered>> /\ UNCHANGED <<bytes, rest, wrote>>
      BY <1>5, <2>1, <2>2 DEF CloseWriters
    <3> QED BY <1>5, <2>2, <3>1, PipeBodies
  <2>3. CASE readers = 0
    <3>1. PICK key : key = {"POLLOUT", "POLLERR", "POLLHUP"}
      OBVIOUS
    <3>2. wake(writer_queue, key) /\ Wakes(writer_queue, key)
      BY <1>0, <1>5, <2>3, <3>1 DEF CloseWriters, Wakes
    <3>3. PlaceOK(x, "p_close", doing[x], fds) /\ doing[x] = "close"
      BY <1>0, <2>1 DEF PlaceOK, PollPC, ClosePC, BeforePC, AsleepPC
    <3>5. \A r \in PipeQueues : Waker(x, r) => r = writer_queue
      BY <2>1, <3>3 DEF Waker
    <3>6. "p_close" \in ClosePC /\ "p_close" \notin BeforePC
      BY DEF ClosePC, BeforePC
    <3>7. doing' = [doing EXCEPT ![x] = doing[x]]
      BY <1>0, <2>1
    <3>8. pc[x] \in BarePC /\ "p_close" \in BarePC
      BY <2>1
    <3> QED BY <1>0, <2>1, <3>2, <3>3, <3>5, <3>6, <3>7, <3>8, WakeMoves
  <2> QED BY <2>2, <2>3
<1> QED BY <1>1, <1>2, <1>3, <1>4, <1>5

-----------------------------------------------------------------------------
LEMMA PipeKeeps ==
  ASSUME PipeGiven, PipeIInv, [PipeNext]_<<threads, queues, pipe>>
  PROVE  PipeIInv'
<1>1. ASSUME NEW x \in PipeUser, PipeStep(x) PROVE PipeIInv'
  <2>1. CASE CallOpen(x) \/ CallClose(x) \/ CallRead(x) \/ CallWrite(x)
    BY <2>1, PipeCalls
  <2>2. CASE TakeLock(x)
    BY <2>2, PipeLocks
  <2>3. CASE Open(x)
    BY <2>3, PipeOpens
  <2>4. CASE Close(x)
    BY <2>4, PipeCloses
  <2>5. CASE CloseEnd(x)
    BY <2>5, PipeCloseEnds
  <2>6. CASE ReadBody(x) \/ WriteBody(x)
    BY <2>6, PipeMovesBytes
  <2>7. CASE ReadWake(x) \/ WriteEnd(x) \/ WakeWait(x) \/ CloseReaders(x) \/ CloseWriters(x)
    BY <2>7, PipeWakes
  <2>8. CASE Unlock(x)
    BY <2>8, PipeUnlocks
  <2>9. CASE UnlockWait(x)
    BY <2>9, PipeUnlockWaits
  <2>10. CASE Wait(x)
    BY <2>10, PipeWaits
  <2>11. CASE PollStep(x)
    <3>1. CASE Poll(x)
      BY <3>1, PollBegins
    <3>2. CASE PollTest(x) \/ PollSlept(x)
      BY <3>2, PollTests
    <3>3. ASSUME NEW timeout \in {"some", "forever"}, PollWait(x, timeout)
          PROVE  PipeIInv'
      <4>1. CASE triggered[x]
        BY <3>3, <4>1, PollTests
      <4>2. CASE ~triggered[x]
        BY <3>3, <4>2, PollSleeps
      <4> QED BY <4>1, <4>2
    <3>4. CASE \/ PollAdd(x, "add_r", reader_queue, "add_w")
               \/ PollAdd(x, "add_w", writer_queue, "p_test")
               \/ PollRemove(x, "del_w", writer_queue)
               \/ PollRemove(x, "del_r", reader_queue)
      BY <3>4, PollLinks
    <3> QED BY <2>11, <3>1, <3>2, <3>3, <3>4 DEF PollStep
  <2> QED BY <1>1, <2>1, <2>2, <2>3, <2>4, <2>5, <2>6, <2>7, <2>8, <2>9, <2>10, <2>11
          DEF PipeStep
<1>2. CASE ThreadsNext /\ UNCHANGED <<pipe, queues>>
  BY <1>2, PipeThreads
<1>3. CASE UNCHANGED <<threads, queues, pipe>>
  <2>1. k' = k /\ pc' = pc /\ UNCHANGED <<pipe, queues>>
    BY <1>3 DEF threads
  <2>2. asleep' = asleep
    BY <2>1 DEF asleep
  <2>3. KernelSound' /\ PipeRuns'
    BY <2>1, PipeFacts DEF KernelSound, PipeRuns
  <2> QED BY <2>1, <2>2, <2>3, PipeQuiet
<1> QED BY <1>1, <1>2, <1>3 DEF PipeNext

LEMMA NoSleeper == PipeGiven /\ PipeIInv => NoPipeSleeper
<1> SUFFICES ASSUME PipeGiven, PipeIInv PROVE NoPipeSleeper
  OBVIOUS
<1> USE PipeFacts
<1>1. PipeTypeOK
  BY DEF PipeTypeOK, PipeCounts, PipePlaces, PipeGiven
<1>2. ASSUME NEW t \in PipeUser, found_by(t) # {},
             \/ t \in sleeping /\ doing[t] \in {"read", "write"}
             \/ /\ pc[t] = "p_slept" /\ k.stat[t] = "suspend"
                /\ queue_of(t) \notin denied[t]
      PROVE  AboutToWake(queue_of(t))
  <2>1. PlaceOK(t, pc[t], doing[t], fds)
    BY PipeConstants
  <2>2. (doing[t] \in {"read", "write"} /\ Side[t] = doing[t]) \/ doing[t] = "poll"
    BY <1>2, <2>1 DEF PlaceOK, PollPC
  <2>3. queue_of(t) = Own(t) /\ seen(t) # {}
    BY <1>2, <2>2, PairSides DEF queue_of, found_by, Own, seen
  <2>4. Drowse(t)
    BY <1>2, <2>3, PipeConstants DEF Drowse, sleeping, asleep, AsleepPC
  <2>5. PICK x \in PipeUser : Waker(x, Own(t))
    BY <2>3, <2>4 DEF PipeAwake
  <2>6. AboutToWake(Own(t))
    BY <2>5, PipeConstants DEF AboutToWake, Waker
  <2> QED BY <2>3, <2>6
<1> QED BY <1>1, <1>2 DEF NoPipeSleeper

\* Of one reader and one writer nobody sleeps over a pipe that has something for
\* him: who changes it will wake him or has woken him, by the node of
\* rt_wqueue_wait or of poll(), or by the flag that is tested before the sleep.
\* Left out is a poll() whose node rt_malloc refused.
THEOREM PipeNobodySleeps == OnePair /\ PipeSpec => []NoPipeSleeper
<1>1. OnePair /\ ThreadsInit /\ QueuesInit /\ PipeInit => PipeGiven /\ PipeIInv
  BY InitPipe
<1>2. PipeGiven /\ PipeIInv /\ [PipeNext]_<<threads, queues, pipe>>
        => (PipeGiven /\ PipeIInv)'
  BY PipeKeeps, GivenKeeps
<1> QED BY <1>1, <1>2, NoSleeper, PTL DEF PipeSpec
=============================================================================
