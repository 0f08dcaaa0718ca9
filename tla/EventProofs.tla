----------------------------- MODULE EventProofs ------------------------------
(***************************************************************************)
(* The event, for every set of threads, every finite set of flags and all  *)
(* requests: nobody waits for flags that are there, whoever is woken gets  *)
(* what it asked for, and no flag that was raised is lost or taken twice.  *)
(*                                                                         *)
(* Then the timers, for every set of them, each used by one client, and    *)
(* every range of the tick: the list is sorted across the wrap of the      *)
(* tick, and the timers implement AbstractTimer.                           *)
(***************************************************************************)
EXTENDS Event, Timer, KernelProofs

-----------------------------------------------------------------------------
(* The inductive invariant.                                                *)

Calling(t) == pc[t] \in {"wait", "woken"}

listed(kk) == ToSet(kk.wait[Event])

Bit01(f, s) == IF f \in s THEN 1 ELSE 0

\* With the kernel kk and the sets es: those whom a send has woken, and who will
\* take the flag f with them when they return.
Takers(kk, es, f) ==
  {t \in Thread : /\ Calling(t) /\ t \notin listed(kk) /\ kk.err[t] = "eok"
                  /\ event_info[t].clear /\ f \in es[t]}

\* x is something that t may return.
Fits(t, x) ==
  IF event_info[t].op = "and" THEN x = asked[t]
  ELSE x # {} /\ x \subseteq asked[t]

EventTypes ==
  /\ set \in SUBSET Bit
  /\ event_set \in [Thread -> SUBSET Bit] /\ event_info \in [Thread -> Option]
  /\ pc \in [Thread -> PC] /\ asked \in [Thread -> SUBSET Bit]
  /\ alive \in BOOLEAN /\ wild \in BOOLEAN

KernelSound ==
  k \in KernelState /\ KInv(k) /\ k.nest = 0 /\ k.stat[Idle] = "ready"

\* While somebody waits for an event that is gone, rt_event_detach goes on.
Detaching ==
  ~alive /\ waiters # {} =>
    \E t \in Thread : pc[t] \in {"detach_test", "detach_body"}

\* The running thread is ready, unless it has linked itself in the wait list and
\* is about to call rt_schedule().
Running == pc[k.cur] # "wait" => k.stat[k.cur] = "ready"

\* The thread t of the wait list is in rt_event_recv with no error, and what it
\* asked for is not there.
WaitsFor(t) ==
  /\ Calling(t) /\ k.err[t] = "eok" /\ event_set[t] = asked[t]
  /\ ~satisfied(set, event_set[t], event_info[t])

Waiting ==
  \A t \in Thread : /\ k.stat[t] = "suspend" => t \in waiters
                    /\ t \in waiters => WaitsFor(t)

Served01 == \A t \in Thread : Served(t) => Fits(t, event_set[t])

\* A flag that was raised is set, or one thread is on its way back with it.
Conserved ==
  \A f \in Bit :
    outstanding[f] = Bit01(f, set) + Cardinality(Takers(k, event_set, f))

IInv ==
  /\ KernelSound /\ EventTypes /\ outstanding \in [Bit -> Int]
  /\ Detaching /\ Running /\ Waiting /\ Served01 /\ Conserved

LEMMA Parameters ==
  /\ Queue = {Event} /\ Event \in Queue /\ Idle \in Thread /\ IsFiniteSet(Thread)
  /\ InitPrio \in [Thread -> Prio]
  /\ \A r \in Request : r.set \in SUBSET Bit /\ r.option \in Option
  /\ NoOption \in Option
BY KernelAssumption, EventAssumption DEF Option, NoOption

\* Facts every step starts from.
LEMMA IInvFacts ==
  ASSUME IInv
  PROVE  /\ k \in KernelState /\ KInv(k) /\ k.nest = 0 /\ k.stat[Idle] = "ready"
         /\ k.cur \in Thread /\ k.wait \in [Queue -> Seq(Thread)]
         /\ k.stat \in [Thread -> Stat] /\ k.err \in [Thread -> Err]
         /\ waiters \subseteq Thread
         /\ \A t \in Thread : t \in waiters <=> k.stat[t] = "suspend"
         /\ set \in SUBSET Bit
         /\ event_set \in [Thread -> SUBSET Bit]
         /\ event_info \in [Thread -> Option]
         /\ pc \in [Thread -> PC] /\ asked \in [Thread -> SUBSET Bit]
         /\ outstanding \in [Bit -> Int]
<1> USE Parameters
<1>1. k \in KernelState /\ KInv(k) /\ k.nest = 0 /\ k.stat[Idle] = "ready"
  BY DEF IInv, KernelSound
<1>2. /\ k.cur \in Thread /\ k.wait \in [Queue -> Seq(Thread)]
      /\ k.stat \in [Thread -> Stat] /\ k.err \in [Thread -> Err]
  BY <1>1 DEF KernelState
<1>3. waiters \subseteq Thread
  BY <1>2, ListElements DEF waiters
<1>4. \A t \in Thread : t \in waiters <=> k.stat[t] = "suspend"
  BY <1>1 DEF IInv, Waiting, KInv, WaitLists, waiters
<1> QED BY <1>1, <1>2, <1>3, <1>4 DEF IInv, EventTypes

LEMMA InitIInv == Init => IInv
<1> SUFFICES ASSUME Init PROVE IInv
  OBVIOUS
<1> USE Parameters
<1>1. InitPrio \in [Thread -> Prio] /\ k = scheduler_started(InitPrio)
  BY DEF Init
<1>2. /\ k \in KernelState /\ KInv(k)
      /\ k.stat = [t \in Thread |-> IF t = Idle THEN "ready" ELSE "init"]
      /\ \A q \in Queue : ToSet(k.wait[q]) = {}
      /\ k.cur = Idle /\ k.nest = 0
  BY ONLY <1>1, StartedKernel
<1>3. KernelSound /\ waiters = {}
  BY <1>2 DEF KernelSound, waiters
<1>4. EventTypes /\ outstanding \in [Bit -> Int]
  <2>1. event_info \in [Thread -> Option] /\ event_set \in [Thread -> SUBSET Bit]
        /\ asked \in [Thread -> SUBSET Bit] /\ outstanding \in [Bit -> Int]
    BY DEF Init
  <2>2. "run" \in PC
    BY DEF PC
  <2> QED BY <2>1, <2>2 DEF Init, EventTypes
<1>5. \A t \in Thread : ~Calling(t)
  BY DEF Init, Calling
<1>6. Conserved
  <2> SUFFICES ASSUME NEW f \in Bit
               PROVE  outstanding[f] =
                        Bit01(f, set) + Cardinality(Takers(k, event_set, f))
    BY DEF Conserved
  <2>1. Takers(k, event_set, f) = {}
    BY <1>5 DEF Takers
  <2>2. outstanding[f] = 0 /\ Bit01(f, set) = 0
    BY DEF Init, Bit01
  <2> QED BY <2>1, <2>2, FS_EmptySet
<1>7. Waiting /\ Served01 /\ Detaching /\ Running
  BY <1>2, <1>3, <1>5 DEF Waiting, Served01, Served, Calling, Detaching, Running
<1> QED BY <1>3, <1>4, <1>6, <1>7 DEF IInv

-----------------------------------------------------------------------------
(* Threads that a step leaves alone.                                       *)

\* Fewer flags satisfy less.
LEMMA FewerFlags ==
  ASSUME NEW s, NEW r, s \subseteq r, NEW wanted, NEW option,
         satisfied(s, wanted, option)
  PROVE  satisfied(r, wanted, option)
BY DEF satisfied

\* Two sets of threads that differ in nothing but d.
LEMMA OneTaker ==
  ASSUME NEW S \in SUBSET Thread, NEW R \in SUBSET Thread, NEW d,
         S \ {d} = R \ {d}
  PROVE  /\ Cardinality(S) \in Nat /\ Cardinality(R) \in Nat
         /\ Cardinality(R) - Bit01(d, R) = Cardinality(S) - Bit01(d, S)
<1>1. ASSUME NEW X \in SUBSET Thread
      PROVE  /\ Cardinality(X) \in Nat
             /\ Cardinality(X \ {d}) = Cardinality(X) - Bit01(d, X)
  <2>1. IsFiniteSet(X) /\ Cardinality(X) \in Nat
    BY Parameters, FS_Subset, FS_CardinalityType
  <2>2. CASE d \in X
    BY <2>1, <2>2, FS_RemoveElement DEF Bit01
  <2>3. CASE d \notin X
    <3>1. X \ {d} = X
      BY <2>3
    <3>2. Cardinality(X \ {d}) = Cardinality(X) /\ Bit01(d, X) = 0
      BY <2>3, <3>1, Zenon DEF Bit01
    <3> QED BY <2>1, <3>2
  <2> QED BY <2>2, <2>3
<1>2. Cardinality(S \ {d}) = Cardinality(R \ {d})
  OBVIOUS
<1> QED BY <1>1, <1>2

\* The thread u is where it was with what it had; when it leaves the wait list,
\* it does so with an error.
Bystander(u) ==
  /\ Calling(u)' <=> Calling(u)
  /\ event_set'[u] = event_set[u] /\ event_info'[u] = event_info[u]
  /\ asked'[u] = asked[u]
  /\ u \in waiters' => u \in waiters
  /\ Calling(u) => IF u \in waiters /\ u \notin waiters' THEN k'.err[u] # "eok"
                   ELSE k'.err[u] = k.err[u]

LEMMA Bystanders ==
  ASSUME IInv, set' \subseteq set, NEW u \in Thread, Bystander(u)
  PROVE  /\ u \in waiters' => WaitsFor(u)'
         /\ Served(u)' => Fits(u, event_set[u])'
         /\ \A f \in Bit : u \in Takers(k, event_set, f)'
                             <=> u \in Takers(k, event_set, f)
<1>1. u \in waiters' => WaitsFor(u)'
  <2> SUFFICES ASSUME u \in waiters' PROVE WaitsFor(u)'
    OBVIOUS
  <2>1. u \in waiters /\ WaitsFor(u)
    BY DEF Bystander, IInv, Waiting
  <2>2. Calling(u)' /\ k'.err[u] = "eok" /\ event_set'[u] = asked'[u]
    BY <2>1 DEF Bystander, WaitsFor
  <2>3. ~satisfied(set', event_set'[u], event_info'[u])
    BY <2>1, FewerFlags DEF Bystander, WaitsFor
  <2> QED BY <2>2, <2>3 DEF WaitsFor
<1>2. Served(u)' <=> Served(u)
  BY DEF Served, Bystander, Calling, IInv, Waiting, WaitsFor
<1>3. Served(u)' => Fits(u, event_set[u])'
  BY <1>2 DEF IInv, Served01, Fits, Bystander
<1>4. ASSUME NEW f \in Bit
      PROVE  u \in Takers(k, event_set, f)' <=> u \in Takers(k, event_set, f)
  <2>1. u \in Takers(k, event_set, f) <=>
          Served(u) /\ event_info[u].clear /\ f \in event_set[u]
    BY DEF Takers, Served, Calling, listed, waiters
  <2>2. u \in Takers(k, event_set, f)' <=>
          Served(u)' /\ event_info'[u].clear /\ f \in event_set'[u]
    BY DEF Takers, Served, Calling, listed, waiters
  <2> QED BY <1>2, <2>1, <2>2 DEF Bystander
<1> QED BY <1>1, <1>3, <1>4

\* A step that leaves everybody alone and keeps the books.
LEMMA NobodyServed ==
  ASSUME IInv, KernelSound', EventTypes', Detaching', Running',
         set' \subseteq set, \A u \in Thread : Bystander(u),
         \A t \in Thread : k'.stat[t] = "suspend" => t \in waiters',
         outstanding' \in [Bit -> Int],
         \A f \in Bit : outstanding'[f] - Bit01(f, set')
                          = outstanding[f] - Bit01(f, set)
  PROVE  IInv'
<1>1. Waiting'
  BY Bystanders DEF Waiting
<1>2. Served01'
  BY Bystanders DEF Served01
<1>3. Conserved'
  <2> SUFFICES ASSUME NEW f \in Bit
               PROVE  outstanding'[f] =
                        Bit01(f, set') + Cardinality(Takers(k, event_set, f)')
    BY DEF Conserved
  <2>1. Takers(k, event_set, f)' = Takers(k, event_set, f)
    BY Bystanders DEF Takers
  <2>2. Cardinality(Takers(k, event_set, f)) \in Nat
    BY OneTaker DEF Takers
  <2>3. outstanding[f] = Bit01(f, set) + Cardinality(Takers(k, event_set, f))
    BY DEF IInv, Conserved
  <2>4. Bit01(f, set) \in Int /\ Bit01(f, set') \in Int /\ outstanding'[f] \in Int
    BY DEF Bit01
  <2>5. outstanding'[f] - Bit01(f, set') = outstanding[f] - Bit01(f, set)
    OBVIOUS
  <2> QED BY ONLY <2>1, <2>2, <2>3, <2>4, <2>5
<1> QED BY <1>1, <1>2, <1>3 DEF IInv

-----------------------------------------------------------------------------
(* The steps but those of a send.                                          *)

\* A step that keeps the lists, the errors and what the threads asked for, and
\* moves nobody into or out of rt_event_recv.
LEMMA OnlyScheduling ==
  ASSUME IInv, KernelSound', Running', k'.wait = k.wait, k'.err = k.err,
         \A u \in Thread : k'.stat[u] = "suspend" => k.stat[u] = "suspend",
         pc' \in [Thread -> PC], \A u \in Thread : Calling(u)' <=> Calling(u),
         alive' \in BOOLEAN, wild' \in BOOLEAN, Detaching',
         UNCHANGED <<set, event_set, event_info, asked, outstanding>>
  PROVE  IInv'
<1> USE IInvFacts
<1>1. waiters' = waiters
  BY DEF waiters
<1>2. \A u \in Thread : Bystander(u)
  BY <1>1 DEF Bystander
<1>3. EventTypes'
  BY DEF EventTypes
<1>4. \A t \in Thread : k'.stat[t] = "suspend" => t \in waiters'
  BY <1>1
<1> QED BY <1>2, <1>3, <1>4, NobodyServed

\* Nobody new waits, and rt_event_detach goes on if it did.
LEMMA DetachGoesOn ==
  ASSUME IInv, alive' = alive, waiters' \subseteq waiters,
         \A u \in Thread : pc[u] \in {"detach_test", "detach_body"} =>
           pc'[u] \in {"detach_test", "detach_body"}
  PROVE  Detaching'
BY DEF IInv, Detaching

LEMMA StartupKeeps1 ==
  ASSUME IInv, NEW t \in Thread, NEW new \in Thread, Startup(t, new)
  PROVE  IInv'
<1> USE IInvFacts
<1>1. /\ k.cur = t /\ pc[t] = "run" /\ k.stat[new] = "init"
      /\ k' = rt_thread_startup(k, new, InitPrio[new])
      /\ pc' = [pc EXCEPT ![t] = "sched"]
      /\ UNCHANGED <<set, event_set, event_info, asked, outstanding, alive, wild>>
  BY DEF Startup, object
<1>2. PICK p \in Prio : p = InitPrio[new]
  BY Parameters
<1>3. /\ k \in KernelState /\ KInv(k) /\ new \in Thread /\ p \in Prio
      /\ k.stat[new] = "init" /\ k' = rt_thread_startup(k, new, p)
  BY <1>1, <1>2
<1>4. /\ k' \in KernelState /\ KInv(k') /\ k'.nest = k.nest
      /\ k'.stat = [k.stat EXCEPT ![new] = "ready"]
      /\ k'.wait = k.wait /\ k'.err = k.err /\ k'.cur = k.cur
  <2>1. Started(k, new, p, k')
    BY ONLY <1>3, StartupStarts
  <2> QED BY ONLY <2>1 DEF Started
<1>5. KernelSound'
  BY <1>4, Parameters DEF KernelSound
<1>6. /\ \A u \in Thread : k'.stat[u] = "suspend" => k.stat[u] = "suspend"
      /\ pc' \in [Thread -> PC] /\ \A u \in Thread : Calling(u)' <=> Calling(u)
  BY <1>1, <1>4 DEF PC, Calling
<1>7. Running'
  BY <1>1, <1>4 DEF Running, IInv
<1>8. alive' \in BOOLEAN /\ wild' \in BOOLEAN
  BY <1>1 DEF IInv, EventTypes
<1>9. Detaching'
  <2>1. waiters' = waiters
    BY <1>4 DEF waiters
  <2> QED BY <1>1, <2>1, DetachGoesOn
<1> QED BY <1>1, <1>4, <1>5, <1>6, <1>7, <1>8, <1>9, OnlyScheduling

\* rt_schedule(), of a thread or of the tick.
LEMMA ScheduleKeeps1 ==
  ASSUME IInv, k' = rt_schedule(k), pc' \in [Thread -> PC],
         \A u \in Thread : Calling(u)' <=> Calling(u),
         \A u \in Thread : pc[u] \in {"detach_test", "detach_body"} =>
           pc'[u] \in {"detach_test", "detach_body"},
         UNCHANGED <<set, event_set, event_info, asked, outstanding, alive, wild>>
  PROVE  IInv'
<1> USE IInvFacts
<1>1. /\ k' \in KernelState /\ KInv(k') /\ SameThreads(k, k') /\ Settled(k')
  BY AfterSchedule
<1>2. KernelSound' /\ Running'
  BY <1>1 DEF KernelSound, Running, SameThreads, Settled
<1>3. k'.stat = k.stat /\ k'.wait = k.wait /\ k'.err = k.err
  BY <1>1 DEF SameThreads
<1>4. alive' \in BOOLEAN /\ wild' \in BOOLEAN
  BY DEF IInv, EventTypes
<1>5. Detaching'
  <2>1. waiters' = waiters
    BY <1>3 DEF waiters
  <2> QED BY <2>1, DetachGoesOn
<1> QED BY <1>2, <1>3, <1>4, <1>5, OnlyScheduling

LEMMA RecvNowKeeps ==
  ASSUME IInv, NEW t \in Thread, NEW r \in Request,
         RecvNow(t, r) \/ RecvFail(t, r)
  PROVE  IInv'
<1> USE IInvFacts, Parameters
<1>1. PICK e \in {"eok", "etimeout"} : k' = [k EXCEPT !.err[t] = e]
  BY DEF RecvNow, RecvFail
<1>2. /\ k.cur = t /\ pc[t] = "run" /\ alive' = alive /\ wild' = wild
      /\ event_set' = event_set /\ event_info' = event_info
      /\ pc' = pc /\ asked' = asked
      /\ \/ set' = set /\ outstanding' = outstanding
         \/ set' = set \ r.set /\ taken(set \cap r.set)
  BY DEF RecvNow, RecvFail, Calls, object
<1>3. /\ k' \in KernelState /\ KInv(k') /\ k'.err = [k.err EXCEPT ![t] = e]
      /\ k'.stat = k.stat /\ k'.wait = k.wait /\ k'.cur = k.cur
      /\ k'.nest = k.nest
  <2>1. k \in KernelState /\ KInv(k) /\ t \in Thread /\ e \in Err
    BY DEF Err
  <2> QED BY ONLY <1>1, <2>1, SetError
<1>4. waiters' = waiters /\ KernelSound'
  BY <1>3 DEF waiters, KernelSound
<1>5. Running'
  BY <1>2, <1>3 DEF Running, IInv
<1>6. \A u \in Thread : Bystander(u)
  BY <1>2, <1>3, <1>4 DEF Bystander, Calling
<1>7. EventTypes' /\ set' \subseteq set
  BY <1>2 DEF EventTypes, IInv
<1>8. outstanding' \in [Bit -> Int]
      /\ \A f \in Bit : outstanding'[f] - Bit01(f, set')
                          = outstanding[f] - Bit01(f, set)
  <2>1. CASE set' = set /\ outstanding' = outstanding
    BY <2>1
  <2>2. CASE set' = set \ r.set /\ taken(set \cap r.set)
    BY <2>2 DEF taken, Bit01
  <2> QED BY <1>2, <2>1, <2>2
<1>9. Detaching'
  BY <1>2, <1>4, DetachGoesOn
<1>10. \A u \in Thread : k'.stat[u] = "suspend" => u \in waiters'
  BY <1>3, <1>4
<1> QED BY <1>4, <1>5, <1>6, <1>7, <1>8, <1>9, <1>10, NobodyServed

LEMMA TimerExpireKeeps ==
  ASSUME IInv, NEW t \in Thread, TimerExpire(t)
  PROVE  IInv'
<1> USE IInvFacts, Parameters
<1>1. /\ t \in k.timer /\ k' = rt_thread_timeout(k, t)
      /\ UNCHANGED <<set, event_set, event_info, pc, asked, outstanding, alive, wild>>
  BY DEF TimerExpire, object
<1>2. PICK k1 : k1 = [k EXCEPT !.err[t] = "etimeout"]
  OBVIOUS
<1>3. /\ k1.err = [k.err EXCEPT ![t] = "etimeout"]
      /\ k1.stat = k.stat /\ k1.wait = k.wait /\ k1.cur = k.cur /\ k1.nest = k.nest
  <2>1. k \in KernelState /\ KInv(k) /\ t \in Thread /\ "etimeout" \in Err
    BY DEF Err
  <2> QED BY ONLY <1>2, <2>1, SetError
<1>4. PICK m : m = timed_out(k, t)
  OBVIOUS
<1>5. k.stat[t] = "suspend" /\ k' = rt_schedule(m) /\ WokenUp(k1, t, m)
  BY <1>1, <1>2, <1>4, TimeoutKeeps
<1>6. /\ m \in KernelState /\ KInv(m) /\ m.nest = 0
      /\ m.stat = [k.stat EXCEPT ![t] = "ready"]
      /\ m.err = [k.err EXCEPT ![t] = "etimeout"]
      /\ ToSet(m.wait[Event]) = ToSet(k.wait[Event]) \ {t}
  BY <1>3, <1>5 DEF WokenUp
<1>7. m.stat[Idle] = "ready"
  BY <1>6
<1>8. /\ k' \in KernelState /\ KInv(k') /\ SameThreads(m, k') /\ Settled(k')
  BY <1>5, <1>6, <1>7, AfterSchedule
<1>9. KernelSound' /\ Running'
  BY <1>6, <1>7, <1>8 DEF KernelSound, Running, SameThreads, Settled
<1>10. /\ k'.stat = [k.stat EXCEPT ![t] = "ready"]
       /\ k'.err = [k.err EXCEPT ![t] = "etimeout"] /\ waiters' = waiters \ {t}
  BY <1>6, <1>8 DEF SameThreads, waiters
<1>11. t \in waiters
  BY <1>5
<1>12. \A u \in Thread : Bystander(u)
  BY <1>1, <1>10, <1>11 DEF Bystander, Calling
<1>13. EventTypes' /\ Detaching'
  BY <1>1, <1>10, DetachGoesOn DEF EventTypes, IInv
<1>14. \A u \in Thread : k'.stat[u] = "suspend" => u \in waiters'
  BY <1>10
<1> QED BY <1>1, <1>9, <1>12, <1>13, <1>14, NobodyServed

\* A step of the thread d, which leaves the others alone.
LEMMA OneServed ==
  ASSUME IInv, KernelSound', EventTypes', Detaching', Running', set' = set,
         NEW d \in Thread, \A u \in Thread \ {d} : Bystander(u),
         \A t \in Thread : k'.stat[t] = "suspend" => t \in waiters',
         d \in waiters' => WaitsFor(d)', ~Served(d)',
         outstanding' \in [Bit -> Int],
         \A f \in Bit : outstanding'[f] = outstanding[f]
                          - IF d \in Takers(k, event_set, f) THEN 1 ELSE 0
  PROVE  IInv'
<1>1. Waiting'
  BY Bystanders DEF Waiting
<1>2. Served01'
  BY Bystanders DEF Served01
<1>3. Conserved'
  <2> SUFFICES ASSUME NEW f \in Bit
               PROVE  outstanding'[f] =
                        Bit01(f, set') + Cardinality(Takers(k, event_set, f)')
    BY DEF Conserved
  <2>1. PICK S, R : S = Takers(k, event_set, f) /\ R = Takers(k, event_set, f)'
    OBVIOUS
  <2>2. S \in SUBSET Thread /\ R \in SUBSET Thread
    BY <2>1 DEF Takers
  <2>3. S \ {d} = R \ {d}
    <3>1. \A u \in Thread \ {d} : u \in R <=> u \in S
      BY <2>1, Bystanders
    <3> QED BY <2>2, <3>1
  <2>4. d \notin R
    BY <2>1 DEF Takers, Served, Calling, listed, waiters
  <2>5. /\ Cardinality(S) \in Nat /\ Cardinality(R) \in Nat
        /\ Cardinality(R) - Bit01(d, R) = Cardinality(S) - Bit01(d, S)
    BY <2>2, <2>3, OneTaker
  <2>6. outstanding[f] = Bit01(f, set) + Cardinality(S)
    BY <2>1 DEF IInv, Conserved
  <2>7. outstanding'[f] = outstanding[f] - Bit01(d, S)
    BY <2>1 DEF Bit01
  <2>8. Bit01(d, R) = 0 /\ Bit01(f, set) \in Int /\ Bit01(d, S) \in Int
    BY <2>4 DEF Bit01
  <2>9. outstanding'[f] = Bit01(f, set) + Cardinality(R)
    BY ONLY <2>5, <2>6, <2>7, <2>8
  <2> QED BY <2>1, <2>9
<1> QED BY <1>1, <1>2, <1>3 DEF IInv

LEMMA RecvBlockKeeps ==
  ASSUME IInv, NEW t \in Thread, NEW r \in Request, NEW timed \in BOOLEAN,
         RecvBlock(t, r, timed)
  PROVE  IInv'
<1> USE IInvFacts, Parameters
<1>1. PICK k0 : k0 = [k EXCEPT !.err[t] = "eok"]
  OBVIOUS
<1>2. PICK k1 : k1 = rt_ipc_list_suspend(k0, Event, t, EventFlag)
  OBVIOUS
<1>3. /\ k.cur = t /\ pc[t] = "run" /\ t # Idle /\ alive
      /\ ~satisfied(set, r.set, r.option)
      /\ event_set' = [event_set EXCEPT ![t] = r.set]
      /\ event_info' = [event_info EXCEPT ![t] = r.option]
      /\ asked' = [asked EXCEPT ![t] = r.set]
      /\ pc' = [pc EXCEPT ![t] = "wait"]
      /\ k' = rt_timer_start(k1, t) \/ k' = k1
      /\ set' = set /\ outstanding' = outstanding /\ alive' = alive /\ wild' = wild
  BY <1>1, <1>2 DEF RecvBlock, Calls, object
<1>4. k.stat[t] = "ready"
  BY <1>3 DEF IInv, Running
<1>5. /\ k0 \in KernelState /\ KInv(k0) /\ k0.err = [k.err EXCEPT ![t] = "eok"]
      /\ k0.stat = k.stat /\ k0.wait = k.wait /\ k0.cur = k.cur
      /\ k0.nest = k.nest
  <2>1. k \in KernelState /\ KInv(k) /\ t \in Thread /\ "eok" \in Err
    BY DEF Err
  <2> QED BY ONLY <1>1, <2>1, SetError
<1>6. Blocked(k0, Event, k1)
  <2>1. /\ k0 \in KernelState /\ KInv(k0) /\ k0.stat[k0.cur] = "ready"
        /\ Event \in Queue /\ k1 = rt_ipc_list_suspend(k0, Event, k0.cur, EventFlag)
    BY <1>2, <1>3, <1>4, <1>5
  <2> QED BY ONLY <2>1, IpcSuspendKeeps
<1>7. /\ k1 \in KernelState /\ KInv(k1) /\ k1.stat = [k.stat EXCEPT ![t] = "suspend"]
      /\ ToSet(k1.wait[Event]) = waiters \cup {t}
      /\ k1.err = [k.err EXCEPT ![t] = "eok"] /\ k1.cur = t /\ k1.nest = 0
  BY <1>3, <1>5, <1>6 DEF Blocked, waiters
<1>8. PICK k2 : k2 = rt_timer_start(k1, t)
  OBVIOUS
<1>9. /\ k2 \in KernelState /\ KInv(k2)
      /\ k2.stat = k1.stat /\ k2.err = k1.err /\ k2.wait = k1.wait
      /\ k2.cur = k1.cur /\ k2.nest = k1.nest
  <2>1. k1.stat[t] = "suspend"
    BY <1>7
  <2> QED BY <1>7, <1>8, <2>1, StartTimer
<1>10. /\ KernelSound' /\ k'.stat = [k.stat EXCEPT ![t] = "suspend"]
       /\ waiters' = waiters \cup {t} /\ k'.err = [k.err EXCEPT ![t] = "eok"]
       /\ k'.cur = t
  <2>1. k' = k1 \/ k' = k2
    BY <1>3, <1>8
  <2> QED BY <1>3, <1>7, <1>9, <2>1 DEF KernelSound, waiters
<1>11. Running'
  BY <1>3, <1>10 DEF Running
<1>12. \A u \in Thread \ {t} : Bystander(u)
  BY <1>3, <1>10 DEF Bystander, Calling
<1>13. EventTypes'
  BY <1>3 DEF IInv, EventTypes, PC
<1>14. Detaching'
  BY <1>3 DEF Detaching
<1>15. WaitsFor(t)' /\ t \in waiters'
  BY <1>3, <1>10 DEF WaitsFor, Calling
<1>16. ~Served(t)'
  BY <1>15 DEF Served
<1>17. \A f \in Bit : t \notin Takers(k, event_set, f)
  BY <1>3 DEF Takers, Calling
<1>18. \A f \in Bit : outstanding'[f] = outstanding[f]
                        - IF t \in Takers(k, event_set, f) THEN 1 ELSE 0
  BY <1>3, <1>17
<1>19. \A u \in Thread : k'.stat[u] = "suspend" => u \in waiters'
  BY <1>10
<1> QED BY <1>3, <1>10, <1>11, <1>12, <1>13, <1>14, <1>15, <1>16, <1>18, <1>19,
           OneServed

LEMMA RecvReturnKeeps ==
  ASSUME IInv, NEW t \in Thread, RecvReturn(t)
  PROVE  IInv'
<1> USE IInvFacts, Parameters
<1>1. /\ k.cur = t /\ pc[t] = "woken" /\ k' = k /\ set' = set
      /\ event_set' = [event_set EXCEPT ![t] = {}]
      /\ event_info' = [event_info EXCEPT ![t] = NoOption]
      /\ asked' = [asked EXCEPT ![t] = {}]
      /\ pc' = [pc EXCEPT ![t] = "run"]
      /\ alive' = alive /\ wild' = wild
      /\ IF k.err[t] = "eok" /\ event_info[t].clear
         THEN taken(event_set[t]) ELSE outstanding' = outstanding
  BY DEF RecvReturn, object
<1>2. k.stat[t] = "ready" /\ t \notin waiters
  BY <1>1 DEF IInv, Running
<1>3. KernelSound' /\ Running' /\ waiters' = waiters
  BY <1>1, <1>2 DEF KernelSound, Running, waiters
<1>4. \A u \in Thread \ {t} : Bystander(u)
  BY <1>1, <1>3 DEF Bystander, Calling
<1>5. EventTypes'
  BY <1>1 DEF IInv, EventTypes, PC
<1>6. Detaching'
  BY <1>1, <1>3, DetachGoesOn
<1>7. t \notin waiters' /\ ~Served(t)'
  BY <1>1, <1>2, <1>3 DEF Served
<1>8. \A f \in Bit : t \in Takers(k, event_set, f) <=>
                       k.err[t] = "eok" /\ event_info[t].clear /\ f \in event_set[t]
  BY <1>1, <1>2 DEF Takers, Calling, listed, waiters
<1>9. outstanding' \in [Bit -> Int]
      /\ \A f \in Bit : outstanding'[f] = outstanding[f]
                          - IF t \in Takers(k, event_set, f) THEN 1 ELSE 0
  <2>1. CASE k.err[t] = "eok" /\ event_info[t].clear
    <3>1. outstanding' = [f \in Bit |-> outstanding[f]
                                          - (IF f \in event_set[t] THEN 1 ELSE 0)]
      BY <1>1, <2>1 DEF taken
    <3>2. \A f \in Bit : t \in Takers(k, event_set, f) <=> f \in event_set[t]
      BY <1>8, <2>1
    <3>3. outstanding \in [Bit -> Int]
      OBVIOUS
    <3> QED BY ONLY <3>1, <3>2, <3>3
  <2>2. CASE ~(k.err[t] = "eok" /\ event_info[t].clear)
    BY <1>1, <1>8, <2>2
  <2> QED BY <2>1, <2>2
<1>10. \A u \in Thread : k'.stat[u] = "suspend" => u \in waiters'
  BY <1>1, <1>3
<1> QED BY <1>1, <1>3, <1>4, <1>5, <1>6, <1>7, <1>9, <1>10, OneServed

LEMMA ResetKeeps ==
  ASSUME IInv, NEW t \in Thread, Reset(t)
  PROVE  IInv'
<1> USE IInvFacts, Parameters
<1>1. /\ k.cur = t /\ pc[t] = "run" /\ k' = rt_ipc_list_resume_all(k, Event)
      /\ set' = {} /\ taken(set) /\ pc' = [pc EXCEPT ![t] = "sched"]
      /\ UNCHANGED <<event_set, event_info, asked, alive, wild>>
  BY DEF Reset, Calls, object
<1>2. /\ k' \in KernelState /\ KInv(k') /\ waiters' = {}
      /\ k'.stat = [u \in Thread |-> IF u \in waiters THEN "ready" ELSE k.stat[u]]
      /\ k'.err = [u \in Thread |-> IF u \in waiters THEN "error" ELSE k.err[u]]
      /\ k'.cur = k.cur /\ k'.nest = k.nest
  <2>1. k \in KernelState /\ KInv(k) /\ Event \in Queue
    OBVIOUS
  <2>2. PICK r : r = rt_ipc_list_resume_all(k, Event)
    OBVIOUS
  <2>3. /\ r \in KernelState /\ KInv(r) /\ ToSet(r.wait[Event]) = {}
        /\ r.stat = [u \in Thread |-> IF u \in ToSet(k.wait[Event])
                                      THEN "ready" ELSE k.stat[u]]
        /\ r.err = [u \in Thread |-> IF u \in ToSet(k.wait[Event])
                                     THEN "error" ELSE k.err[u]]
        /\ r.cur = k.cur /\ r.nest = k.nest
    BY ONLY <2>1, <2>2, ResumeAllKeeps
  <2> QED BY <1>1, <2>2, <2>3 DEF waiters
<1>3. KernelSound'
  BY <1>2 DEF KernelSound
<1>4. Running'
  BY <1>1, <1>2 DEF Running, IInv
<1>5. \A u \in Thread : Bystander(u)
  BY <1>1, <1>2 DEF Bystander, Calling
<1>6. EventTypes' /\ Detaching'
  BY <1>1, <1>2, DetachGoesOn DEF IInv, EventTypes, PC
<1>7. outstanding' \in [Bit -> Int]
      /\ \A f \in Bit : outstanding'[f] - Bit01(f, set')
                          = outstanding[f] - Bit01(f, set)
  BY <1>1 DEF taken, Bit01
<1>8. \A u \in Thread : k'.stat[u] = "suspend" => u \in waiters'
  BY <1>2
<1> QED BY <1>1, <1>3, <1>4, <1>5, <1>6, <1>7, <1>8, NobodyServed

LEMMA DetachKeeps ==
  ASSUME IInv, NEW t \in Thread, Detach(t) \/ DetachTest(t)
  PROVE  IInv'
<1> USE IInvFacts, Parameters
<1>1. /\ k.cur = t /\ k' = k /\ wild' = wild
      /\ UNCHANGED <<set, event_set, event_info, asked, outstanding>>
      /\ \/ pc[t] = "run" /\ pc' = [pc EXCEPT ![t] = "detach_test"] /\ alive' = FALSE
         \/ /\ pc[t] = "detach_test" /\ alive' = alive
            /\ pc' = [pc EXCEPT ![t] = IF waiters = {} THEN "run" ELSE "detach_body"]
  BY DEF Detach, DetachTest, Calls, object
<1>2. KernelSound' /\ waiters' = waiters /\ k'.stat[k'.cur] = "ready"
  BY <1>1 DEF KernelSound, waiters, IInv, Running
<1>3. Running'
  BY <1>2 DEF Running
<1>4. Detaching'
  <2>1. CASE waiters = {}
    BY <1>2, <2>1 DEF Detaching
  <2>2. CASE waiters # {}
    <3>1. pc'[t] \in {"detach_test", "detach_body"}
      BY <1>1, <2>2
    <3> QED BY <3>1 DEF Detaching
  <2> QED BY <2>1, <2>2
<1>5. pc' \in [Thread -> PC] /\ \A u \in Thread : Calling(u)' <=> Calling(u)
  BY <1>1 DEF PC, Calling
<1>6. alive' \in BOOLEAN /\ wild' \in BOOLEAN
  BY <1>1 DEF IInv, EventTypes
<1> QED BY <1>1, <1>2, <1>3, <1>4, <1>5, <1>6, OnlyScheduling

LEMMA DetachBodyKeeps ==
  ASSUME IInv, NEW t \in Thread, DetachBody(t)
  PROVE  IInv'
<1> USE IInvFacts, Parameters
<1>1. /\ k.cur = t /\ pc[t] = "detach_body" /\ alive' = alive
      /\ UNCHANGED <<set, event_set, event_info, asked, outstanding>>
      /\ \/ waiters = {} /\ wild' = TRUE /\ k' = k /\ pc' = pc
         \/ /\ waiters # {} /\ k' = rt_ipc_list_resume_all_turn(k, Event)
            /\ pc' = [pc EXCEPT ![t] = "detach_test"] /\ wild' = wild
  BY DEF DetachBody
<1>2. CASE waiters = {}
  <2>1. KernelSound' /\ Running' /\ waiters' = waiters
    BY <1>1, <1>2 DEF IInv, KernelSound, Running, waiters
  <2>2. Detaching'
    BY <1>2, <2>1 DEF Detaching
  <2>3. alive' \in BOOLEAN /\ wild' \in BOOLEAN
    BY <1>1, <1>2 DEF IInv, EventTypes
  <2>4. \A u \in Thread : Calling(u)' <=> Calling(u)
    BY <1>1, <1>2 DEF Calling
  <2> QED BY <1>1, <1>2, <2>1, <2>2, <2>3, <2>4, OnlyScheduling
<1>3. CASE waiters # {}
  <2>1. PICK w : w = Head(k.wait[Event])
    OBVIOUS
  <2>2. w \in waiters /\ w \in Thread
    <3>1. k.wait[Event] \in Seq(Thread) /\ ToSet(k.wait[Event]) # {}
      BY <1>3 DEF waiters
    <3>2. Head(k.wait[Event]) \in ToSet(k.wait[Event])
      BY ONLY <3>1, HeadInList
    <3> QED BY <2>1, <3>2 DEF waiters
  <2>3. PICK k0 : k0 = [k EXCEPT !.err[w] = "error"]
    OBVIOUS
  <2>4. /\ k0 \in KernelState /\ KInv(k0) /\ k0.err = [k.err EXCEPT ![w] = "error"]
        /\ k0.stat = k.stat /\ k0.wait = k.wait /\ k0.cur = k.cur
        /\ k0.nest = k.nest
    <3>1. k \in KernelState /\ KInv(k) /\ w \in Thread /\ "error" \in Err
      BY <2>2 DEF Err
    <3> QED BY ONLY <2>3, <3>1, SetError
  <2>5. k' = rt_thread_resume(k0, w) /\ k0.stat[w] = "suspend"
    BY <1>1, <1>3, <2>1, <2>2, <2>3, <2>4 DEF rt_ipc_list_resume_all_turn
  <2>6. WokenUp(k0, w, k')
    BY <2>2, <2>4, <2>5, ResumeKeeps
  <2>7. /\ k' \in KernelState /\ KInv(k') /\ k'.nest = 0 /\ k'.cur = t
        /\ k'.stat = [k.stat EXCEPT ![w] = "ready"]
        /\ k'.err = [k.err EXCEPT ![w] = "error"] /\ waiters' = waiters \ {w}
    BY <1>1, <2>4, <2>6 DEF WokenUp, waiters
  <2>8. KernelSound' /\ Running'
    BY <1>1, <1>3, <2>2, <2>7 DEF KernelSound, Running, IInv
  <2>9. \A u \in Thread : Bystander(u)
    BY <1>1, <1>3, <2>2, <2>7 DEF Bystander, Calling
  <2>10. EventTypes'
    BY <1>1, <1>3 DEF IInv, EventTypes, PC
  <2>11. Detaching'
    BY <1>1, <1>3, <2>7, DetachGoesOn
  <2>12. \A u \in Thread : k'.stat[u] = "suspend" => u \in waiters'
    BY <2>2, <2>7
  <2> QED BY <1>1, <2>8, <2>9, <2>10, <2>11, <2>12, NobodyServed
<1> QED BY <1>2, <1>3

-----------------------------------------------------------------------------
(* A send.                                                                 *)

SendState ==
  [k : KernelState, set : SUBSET Bit, event_set : [Thread -> SUBSET Bit]]

\* s is what a send of the flags has made of the event after it has looked at the
\* threads of W: those that left the list are ready, with something that fits
\* what they asked for; those of W that are still there do not get what they
\* want from the flags that are left; and no flag was lost or given twice.
SentTo(flags, W, s) ==
  /\ KInv(s.k) /\ s.k.err = k.err /\ s.k.cur = k.cur /\ s.k.nest = k.nest
  /\ listed(s.k) \subseteq waiters /\ waiters \ W \subseteq listed(s.k)
  /\ s.k.stat = [u \in Thread |-> IF u \in waiters /\ u \notin listed(s.k)
                                  THEN "ready" ELSE k.stat[u]]
  /\ \A u \in Thread :
       /\ u \in listed(s.k) \/ u \notin waiters => s.event_set[u] = event_set[u]
       /\ u \in waiters /\ u \notin listed(s.k) => Fits(u, s.event_set[u])
       /\ u \in W /\ u \in listed(s.k) =>
            ~satisfied(s.set, event_set[u], event_info[u])
  /\ \A f \in Bit :
       Bit01(f, s.set) + Cardinality(Takers(s.k, s.event_set, f))
         = Bit01(f, set \cup flags) + Cardinality(Takers(k, event_set, f))

\* Before the loop.
LEMMA SendBegins ==
  ASSUME IInv, NEW flags \in SUBSET Bit, NEW s,
         s = [k |-> k, set |-> set \cup flags, event_set |-> event_set]
  PROVE  s \in SendState /\ SentTo(flags, {}, s)
<1> USE IInvFacts
<1>1. /\ s.k = k /\ s.set = set \cup flags /\ s.event_set = event_set
      /\ s \in SendState
  BY DEF SendState
<1>2. listed(s.k) = waiters
  BY <1>1 DEF listed, waiters
<1>3. k.stat = [u \in Thread |-> k.stat[u]]
  OBVIOUS
<1> HIDE DEF SendState
<1> QED BY ONLY <1>1, <1>2, <1>3, IInvFacts, IInv DEF SentTo

\* The turn of the thread t.
LEMMA SendTurn ==
  ASSUME IInv, NEW flags \in SUBSET Bit, NEW W \in SUBSET Thread,
         NEW s \in SendState, SentTo(flags, W, s),
         NEW t \in waiters, t \notin W
  PROVE  /\ send_turn(s, t) \in SendState
         /\ SentTo(flags, W \cup {t}, send_turn(s, t))
<1> USE IInvFacts
<1>1. /\ s.k \in KernelState /\ KInv(s.k) /\ s.set \in SUBSET Bit
      /\ s.event_set \in [Thread -> SUBSET Bit]
      /\ s.k.err = k.err /\ s.k.cur = k.cur /\ s.k.nest = k.nest
      /\ t \in Thread /\ t \in listed(s.k)
      /\ listed(s.k) \subseteq waiters /\ waiters \ W \subseteq listed(s.k)
      /\ s.event_set[t] = event_set[t]
  BY DEF SendState, SentTo
<1>2. WaitsFor(t)
  BY DEF IInv, Waiting
<1>3. s.k.stat[t] = "suspend"
  <2>1. s.k.stat = [u \in Thread |-> IF u \in waiters /\ u \notin listed(s.k)
                                     THEN "ready" ELSE k.stat[u]]
    BY DEF SentTo
  <2> QED BY <1>1, <2>1
<1>4. CASE ~satisfied(s.set, s.event_set[t], event_info[t])
  <2>1. send_turn(s, t) = s
    BY <1>4 DEF send_turn
  <2>2. SentTo(flags, W \cup {t}, s)
    BY <1>1, <1>4 DEF SentTo
  <2> QED BY <2>1, <2>2
<1>5. CASE satisfied(s.set, s.event_set[t], event_info[t])
  <2>1. PICK gets : gets = event_set[t] \cap s.set
    OBVIOUS
  <2>2. PICK m : m = rt_thread_resume(s.k, t)
    OBVIOUS
  <2>3. PICK ss : ss = IF event_info[t].clear THEN s.set \ gets ELSE s.set
    OBVIOUS
  <2>4. PICK es : es = [s.event_set EXCEPT ![t] = gets]
    OBVIOUS
  <2>5. PICK r : r = send_turn(s, t)
    OBVIOUS
  <2>6. r = [k |-> m, set |-> ss, event_set |-> es]
    BY <1>1, <1>5, <2>1, <2>2, <2>3, <2>4, <2>5 DEF send_turn
  <2>7. WokenUp(s.k, t, m)
    BY ONLY <1>1, <1>3, <2>2, ResumeKeeps
  <2>8. /\ m \in KernelState /\ KInv(m) /\ m.stat = [s.k.stat EXCEPT ![t] = "ready"]
        /\ listed(m) = listed(s.k) \ {t}
        /\ m.err = k.err /\ m.cur = k.cur /\ m.nest = k.nest
    BY <1>1, <2>7, Parameters DEF WokenUp, listed
  <2>9. gets \in SUBSET Bit /\ ss \in SUBSET Bit /\ ss \subseteq s.set
        /\ es \in [Thread -> SUBSET Bit] /\ es[t] = gets
        /\ \A u \in Thread \ {t} : es[u] = s.event_set[u]
    BY <1>1, <2>1, <2>3, <2>4
  <2>10. /\ r.k = m /\ r.set = ss /\ r.event_set = es /\ r \in SendState
    BY <2>6, <2>8, <2>9 DEF SendState
  <2>11. Fits(t, gets)
    BY <1>1, <1>2, <1>5, <2>1 DEF Fits, WaitsFor, satisfied
  <2>12. m.stat = [u \in Thread |-> IF u \in waiters /\ u \notin listed(m)
                                    THEN "ready" ELSE k.stat[u]]
    <3>1. s.k.stat = [u \in Thread |-> IF u \in waiters /\ u \notin listed(s.k)
                                       THEN "ready" ELSE k.stat[u]]
      BY DEF SentTo
    <3> QED BY ONLY <1>1, <2>8, <3>1, t \in waiters
  <2>13. ASSUME NEW u \in Thread
         PROVE  /\ u \in listed(m) \/ u \notin waiters => es[u] = event_set[u]
                /\ u \in waiters /\ u \notin listed(m) => Fits(u, es[u])
                /\ u \in W \cup {t} /\ u \in listed(m) =>
                     ~satisfied(ss, event_set[u], event_info[u])
    <3>1. CASE u = t
      BY <2>8, <2>9, <2>11, <3>1
    <3>2. CASE u # t
      <4>1. /\ u \in listed(s.k) \/ u \notin waiters => s.event_set[u] = event_set[u]
            /\ u \in waiters /\ u \notin listed(s.k) => Fits(u, s.event_set[u])
            /\ u \in W /\ u \in listed(s.k) =>
                 ~satisfied(s.set, event_set[u], event_info[u])
        BY DEF SentTo
      <4>2. es[u] = s.event_set[u] /\ (u \in listed(m) <=> u \in listed(s.k))
        BY <2>8, <2>9, <3>2
      <4>3. satisfied(ss, event_set[u], event_info[u]) =>
              satisfied(s.set, event_set[u], event_info[u])
        BY <2>9, FewerFlags
      <4> QED BY <3>2, <4>1, <4>2, <4>3
    <3> QED BY <3>1, <3>2
  <2>14. ASSUME NEW f \in Bit
         PROVE  Bit01(f, ss) + Cardinality(Takers(m, es, f))
                  = Bit01(f, s.set) + Cardinality(Takers(s.k, s.event_set, f))
    <3>1. PICK S, R : S = Takers(s.k, s.event_set, f) /\ R = Takers(m, es, f)
      OBVIOUS
    <3>2. S \in SUBSET Thread /\ R \in SUBSET Thread
      BY <3>1 DEF Takers
    <3>3. S \ {t} = R \ {t}
      <4>1. \A u \in Thread \ {t} : u \in R <=> u \in S
        BY <1>1, <2>8, <2>9, <3>1 DEF Takers
      <4> QED BY <3>2, <4>1
    <3>4. t \notin S /\ (t \in R <=> event_info[t].clear /\ f \in gets)
      BY <1>1, <1>2, <2>8, <2>9, <3>1 DEF Takers, WaitsFor
    <3>5. /\ Cardinality(S) \in Nat /\ Cardinality(R) \in Nat
          /\ Cardinality(R) - Bit01(t, R) = Cardinality(S) - Bit01(t, S)
      BY ONLY <3>2, <3>3, OneTaker
    <3>6. /\ Bit01(t, S) = 0 /\ Bit01(t, R) \in Int /\ Bit01(f, s.set) \in Int
          /\ Bit01(f, ss) = Bit01(f, s.set) - Bit01(t, R)
      BY <2>1, <2>3, <3>4 DEF Bit01
    <3>7. Bit01(f, ss) + Cardinality(R) = Bit01(f, s.set) + Cardinality(S)
      BY ONLY <3>5, <3>6
    <3> QED BY <3>1, <3>7
  <2>15. \A f \in Bit :
           Bit01(f, ss) + Cardinality(Takers(m, es, f))
             = Bit01(f, set \cup flags) + Cardinality(Takers(k, event_set, f))
    BY <2>14 DEF SentTo
  <2>16. listed(m) \subseteq waiters /\ waiters \ (W \cup {t}) \subseteq listed(m)
    BY <1>1, <2>8
  <2>17. SentTo(flags, W \cup {t}, r)
    <3>1. /\ KInv(r.k) /\ r.k.err = k.err /\ r.k.cur = k.cur /\ r.k.nest = k.nest
          /\ listed(r.k) \subseteq waiters
          /\ waiters \ (W \cup {t}) \subseteq listed(r.k)
      BY <2>8, <2>10, <2>16
    <3>2. r.k.stat = [u \in Thread |-> IF u \in waiters /\ u \notin listed(r.k)
                                      THEN "ready" ELSE k.stat[u]]
      BY <2>10, <2>12
    <3>3. \A u \in Thread :
            /\ u \in listed(r.k) \/ u \notin waiters =>
                 r.event_set[u] = event_set[u]
            /\ u \in waiters /\ u \notin listed(r.k) => Fits(u, r.event_set[u])
            /\ u \in W \cup {t} /\ u \in listed(r.k) =>
                 ~satisfied(r.set, event_set[u], event_info[u])
      BY <2>10, <2>13
    <3>4. \A f \in Bit :
            Bit01(f, r.set) + Cardinality(Takers(r.k, r.event_set, f))
              = Bit01(f, set \cup flags) + Cardinality(Takers(k, event_set, f))
      BY <2>10, <2>15
    <3> QED BY ONLY <3>1, <3>2, <3>3, <3>4 DEF SentTo
  <2> QED BY <2>5, <2>10, <2>17
<1> QED BY <1>4, <1>5

\* The loop of rt_event_send.
LEMMA SendLoop ==
  ASSUME IInv, NEW flags \in SUBSET Bit
  PROVE  sent(flags) \in SendState /\ SentTo(flags, waiters, sent(flags))
<1> USE IInvFacts
<1> DEFINE n == Len(k.wait[Event])
           D == 1 .. n
           nth(x) == k.wait[Event][x]
           of(p) == {nth(x) : x \in p}
           V == {r \in SendState : KInv(r.k)}
           s0 == [k |-> k, set |-> set \cup flags, event_set |-> event_set]
           g == [p \in D \X V |-> send_turn(p[2], nth(p[1]))]
           R == {p \in (SUBSET D) \X V : SentTo(flags, of(p[1]), p[2])}
<1>1. /\ k.wait[Event] \in Seq(Thread) /\ IsInjective(k.wait[Event])
      /\ n \in Nat /\ DOMAIN k.wait[Event] = D
  <2>1. k.wait[Event] \in Seq(Thread) /\ IsInjective(k.wait[Event])
    BY Parameters DEF KInv, NoDuplicates
  <2> QED BY <2>1, LenProperties
<1>2. /\ waiters = of(D) /\ \A x \in D : nth(x) \in waiters
      /\ \A x, y \in D : nth(x) = nth(y) => x = y
  BY <1>1 DEF waiters, ToSet, IsInjective
<1>3. s0 \in V /\ SentTo(flags, {}, s0)
  <2>1. PICK s : s = s0
    OBVIOUS
  <2>2. s \in SendState /\ SentTo(flags, {}, s)
    BY <2>1, SendBegins
  <2> QED BY <2>1, <2>2 DEF SentTo
<1> HIDE DEF s0
<1>4. ASSUME NEW r \in V, NEW u \in Thread
      PROVE  send_turn(r, u) \in V
  <2>1. r.k \in KernelState /\ KInv(r.k) /\ r.set \in SUBSET Bit
        /\ r.event_set \in [Thread -> SUBSET Bit]
    BY DEF SendState
  <2>2. PICK m : m = rt_thread_resume(r.k, u)
    OBVIOUS
  <2>3. m \in KernelState /\ KInv(m)
    <3>1. CASE r.k.stat[u] = "suspend"
      <4>1. WokenUp(r.k, u, m)
        BY ONLY <2>1, <2>2, <3>1, u \in Thread, ResumeKeeps
      <4> QED BY <4>1 DEF WokenUp
    <3>2. CASE r.k.stat[u] # "suspend"
      BY <2>1, <2>2, <3>2 DEF rt_thread_resume
    <3> QED BY <3>1, <3>2
  <2>4. CASE satisfied(r.set, r.event_set[u], event_info[u])
    <3>1. PICK gets \in SUBSET Bit : gets = r.event_set[u] \cap r.set
      BY <2>1
    <3>2. PICK ss \in SUBSET Bit :
            ss = IF event_info[u].clear THEN r.set \ gets ELSE r.set
      BY <2>1
    <3>3. PICK es \in [Thread -> SUBSET Bit] :
            es = [r.event_set EXCEPT ![u] = gets]
      BY <2>1, <3>1
    <3>4. PICK q : q = send_turn(r, u)
      OBVIOUS
    <3>5. q = [k |-> m, set |-> ss, event_set |-> es]
      BY <2>2, <2>4, <3>1, <3>2, <3>3, <3>4 DEF send_turn
    <3>6. q.k = m /\ q \in SendState
      BY <2>3, <3>5 DEF SendState
    <3> QED BY <2>3, <3>4, <3>6
  <2>5. CASE ~satisfied(r.set, r.event_set[u], event_info[u])
    BY <2>5 DEF send_turn
  <2> QED BY <2>4, <2>5
<1>5. g \in [D \X V -> V] /\ \A x \in D, r \in V : g[<<x, r>>] = send_turn(r, nth(x))
  BY <1>2, <1>4
<1> HIDE DEF n, V, g
<1>6. PICK h \in [SUBSET D -> V] : LoopOf(h, n, V, s0, g)
  BY ONLY <1>1, <1>3, <1>5, LoopExists
<1>loop. ASSUME NEW p \in SUBSET D
         PROVE  /\ p = {} => h[p] = s0
                /\ p # {} => /\ Max(p) \in p /\ Max(p) \in D /\ p \ {Max(p)} \in SUBSET D
                             /\ h[p] = send_turn(h[p \ {Max(p)}], nth(Max(p)))
  BY <1>5, <1>6 DEF LoopOf
<1> DEFINE Iter(i) == [p \in SUBSET D |->
                         IF p = {} THEN s0
                         ELSE LET x == Max(p) IN send_turn(i[p \ {x}], nth(x))]
           i == CHOOSE i : i = Iter(i)
<1>7. h = Iter(h)
  BY <1>6, <1>loop
<1>8. i = Iter(i)
  BY <1>7
<1>9. sent(flags) = i[D]
  <2>1. sent(flags) =
          LET iter[p \in SUBSET DOMAIN k.wait[Event]] ==
                IF p = {} THEN s0
                ELSE LET x == Max(p) IN send_turn(iter[p \ {x}], k.wait[Event][x])
          IN iter[DOMAIN k.wait[Event]]
    BY DEF sent, FoldLeft, MapThenFoldSet, s0
  <2> QED BY <1>1, <2>1
<1> HIDE DEF i
<1>10. PICK j : j = i
  OBVIOUS
<1>11. Turns(j, n, V, s0, g)
  <2>1. j[{}] = s0
    BY <1>8, <1>10
  <2>2. ASSUME NEW p \in SUBSET D, p # {}, j[p \ {Max(p)}] \in V
        PROVE  j[p] = g[<<Max(p), j[p \ {Max(p)}]>>]
    <3>1. j[p] = send_turn(j[p \ {Max(p)}], nth(Max(p)))
      BY <1>8, <1>10, <2>2
    <3> QED BY <1>5, <1>loop, <2>2, <3>1
  <2> QED BY <2>1, <2>2 DEF Turns
<1>12. LoopInvariant(R, n, V, s0, g)
  <2>1. <<{}, s0>> \in R
    <3>1. of({}) = {}
      OBVIOUS
    <3> QED BY <1>3, <3>1
  <2>2. ASSUME NEW p \in SUBSET D, NEW r \in V, p # {},
               <<p \ {Max(p)}, r>> \in R
        PROVE  <<p, g[<<Max(p), r>>]>> \in R
    <3>1. PICK x : x = Max(p)
      OBVIOUS
    <3>2. x \in p /\ x \in D /\ SentTo(flags, of(p \ {x}), r)
          /\ g[<<x, r>>] \in V /\ g[<<x, r>>] = send_turn(r, nth(x))
      BY <1>5, <1>loop, <2>2, <3>1
    <3>3. /\ nth(x) \in waiters /\ nth(x) \notin of(p \ {x})
          /\ of(p) = of(p \ {x}) \cup {nth(x)} /\ of(p \ {x}) \in SUBSET Thread
      BY <1>2, <3>2
    <3>4. r \in SendState
      BY DEF V
    <3> HIDE DEF of, nth
    <3>5. SentTo(flags, of(p \ {x}) \cup {nth(x)}, send_turn(r, nth(x)))
      BY <3>2, <3>3, <3>4, SendTurn
    <3>6. SentTo(flags, of(p), g[<<x, r>>])
      BY <3>2, <3>3, <3>5
    <3> QED BY <3>1, <3>2, <3>6
  <2> HIDE DEF R
  <2> QED BY <2>1, <2>2 DEF LoopInvariant
<1>13. <<D, j[D]>> \in R
  <2>1. R \in SUBSET ((SUBSET D) \X V)
    OBVIOUS
  <2>2. n \in Nat
    BY <1>1
  <2> HIDE DEF R
  <2> QED BY ONLY <1>11, <1>12, <2>1, <2>2, LoopKeeps
<1>14. sent(flags) \in V /\ SentTo(flags, of(D), sent(flags))
  BY <1>9, <1>10, <1>13
<1> QED BY <1>2, <1>14 DEF V

\* What the event is after a send, by a thread or by an interrupt handler.
LEMMA SentKeeps ==
  ASSUME IInv, NEW flags \in SUBSET Bit, NEW s \in SendState,
         SentTo(flags, waiters, s), raised(flags),
         KernelSound', Running', k'.stat = s.k.stat, k'.err = s.k.err,
         k'.wait = s.k.wait, set' = s.set, event_set' = s.event_set,
         event_info' = event_info, asked' = asked, alive' = alive, wild' = wild,
         pc' \in [Thread -> PC], \A u \in Thread : Calling(u)' <=> Calling(u),
         \A u \in Thread : pc[u] \in {"detach_test", "detach_body"} =>
           pc'[u] \in {"detach_test", "detach_body"}
  PROVE  IInv'
<1> USE IInvFacts
<1>1. waiters' = listed(s.k) /\ waiters' \subseteq waiters
      /\ listed(k)' = listed(s.k)
  BY DEF SentTo, waiters, listed
<1>2. EventTypes'
  BY DEF EventTypes, IInv, SendState
<1>3. Detaching'
  BY <1>1, DetachGoesOn
<1>4. Waiting'
  <2> SUFFICES ASSUME NEW u \in Thread
               PROVE  /\ k'.stat[u] = "suspend" => u \in waiters'
                      /\ u \in waiters' => WaitsFor(u)'
    BY DEF Waiting
  <2>1. k'.stat[u] = "suspend" => u \in waiters'
    BY <1>1 DEF SentTo
  <2>2. ASSUME u \in waiters' PROVE WaitsFor(u)'
    <3>1. WaitsFor(u) /\ u \in waiters
      BY <1>1, <2>2 DEF IInv, Waiting
    <3>2. /\ s.event_set[u] = event_set[u] /\ s.k.err = k.err
          /\ ~satisfied(s.set, event_set[u], event_info[u])
      BY <1>1, <2>2, <3>1 DEF SentTo
    <3> QED BY <3>1, <3>2 DEF WaitsFor
  <2> QED BY <2>1, <2>2
<1>5. Served01'
  <2> SUFFICES ASSUME NEW u \in Thread, Served(u)' PROVE Fits(u, event_set[u])'
    BY DEF Served01
  <2>1. /\ Calling(u) /\ u \notin listed(s.k) /\ k.err[u] = "eok"
        /\ s.k.err = k.err
    BY <1>1 DEF Served, Calling, SentTo
  <2>2. Fits(u, s.event_set[u])
    <3>1. CASE u \in waiters
      BY <2>1, <3>1 DEF SentTo
    <3>2. CASE u \notin waiters
      <4>1. Served(u) /\ s.event_set[u] = event_set[u]
        BY <2>1, <3>2 DEF Served, Calling, SentTo
      <4> QED BY <4>1 DEF IInv, Served01
    <3> QED BY <3>1, <3>2
  <2> QED BY <2>2 DEF Fits
<1>6. outstanding' \in [Bit -> Int]
  BY DEF raised
<1>7. Conserved'
  <2> SUFFICES ASSUME NEW f \in Bit
               PROVE  outstanding'[f] =
                        Bit01(f, set') + Cardinality(Takers(k, event_set, f)')
    BY DEF Conserved
  <2>1. Takers(k, event_set, f)' = Takers(s.k, s.event_set, f)
    BY <1>1 DEF Takers, Calling
  <2>2. Bit01(f, s.set) + Cardinality(Takers(s.k, s.event_set, f))
          = Bit01(f, set \cup flags) + Cardinality(Takers(k, event_set, f))
    BY DEF SentTo
  <2>3. outstanding[f] = Bit01(f, set) + Cardinality(Takers(k, event_set, f))
    BY DEF IInv, Conserved
  <2>4. outstanding'[f] = outstanding[f] + (IF f \in flags \ set THEN 1 ELSE 0)
    BY DEF raised
  <2>5. Cardinality(Takers(k, event_set, f)) \in Nat
    BY OneTaker DEF Takers
  <2>6. Bit01(f, set \cup flags) = Bit01(f, set) + (IF f \in flags \ set THEN 1 ELSE 0)
        /\ Bit01(f, set) \in Int
    BY DEF Bit01
  <2>7. outstanding'[f] =
          Bit01(f, s.set) + Cardinality(Takers(s.k, s.event_set, f))
    BY ONLY <2>2, <2>3, <2>4, <2>5, <2>6
  <2> QED BY <2>1, <2>7
<1> QED BY <1>2, <1>3, <1>4, <1>5, <1>6, <1>7 DEF IInv

LEMMA SendKeeps ==
  ASSUME IInv, NEW t \in Thread, NEW flags \in SUBSET Bit, Send(t, flags)
  PROVE  IInv'
<1> USE IInvFacts, Parameters
<1>1. PICK s : s = sent(flags)
  OBVIOUS
<1>2. s \in SendState /\ SentTo(flags, waiters, s)
  BY <1>1, SendLoop
<1>3. PICK p \in {"run", "sched"} : pc' = [pc EXCEPT ![t] = p]
  BY DEF Send
<1>4. /\ k.cur = t /\ pc[t] = "run" /\ raised(flags)
      /\ k' = s.k /\ set' = s.set /\ event_set' = s.event_set
      /\ event_info' = event_info /\ asked' = asked /\ alive' = alive
      /\ wild' = wild
  BY <1>1 DEF Send, Calls, object
<1>5. /\ s.k \in KernelState /\ KInv(s.k) /\ s.k.cur = t /\ s.k.nest = 0
      /\ s.k.stat[Idle] = "ready" /\ s.k.stat[t] = "ready"
  <2>1. k.stat[t] = "ready"
    BY <1>4 DEF IInv, Running
  <2> QED BY <1>2, <1>4, <2>1 DEF SendState, SentTo
<1>6. KernelSound' /\ Running'
  BY <1>4, <1>5 DEF KernelSound, Running
<1>7. /\ pc' \in [Thread -> PC] /\ \A u \in Thread : Calling(u)' <=> Calling(u)
      /\ \A u \in Thread : pc[u] \in {"detach_test", "detach_body"} =>
           pc'[u] \in {"detach_test", "detach_body"}
  BY <1>3, <1>4 DEF PC, Calling
<1> QED BY <1>2, <1>4, <1>6, <1>7, SentKeeps

LEMMA IsrSendKeeps ==
  ASSUME IInv, NEW flags \in SUBSET Bit, IsrSend(flags)
  PROVE  IInv'
<1> USE IInvFacts, Parameters
<1>1. PICK s : s = sent(flags)
  OBVIOUS
<1>2. s \in SendState /\ SentTo(flags, waiters, s)
  BY <1>1, SendLoop
<1>3. /\ raised(flags) /\ k' = (IF s.k # k THEN rt_schedule(s.k) ELSE k)
      /\ set' = s.set /\ event_set' = s.event_set /\ pc' = pc
      /\ event_info' = event_info /\ asked' = asked /\ alive' = alive
      /\ wild' = wild
  BY <1>1 DEF IsrSend, object
<1>4. /\ s.k \in KernelState /\ KInv(s.k) /\ s.k.nest = 0
      /\ s.k.stat[Idle] = "ready"
  BY <1>2 DEF SendState, SentTo
<1>5. /\ KernelSound' /\ Running' /\ k'.stat = s.k.stat /\ k'.err = s.k.err
      /\ k'.wait = s.k.wait
  <2>1. CASE s.k = k
    BY <1>3, <2>1 DEF IInv, KernelSound, Running
  <2>2. CASE s.k # k
    <3>1. PICK m \in KernelState : m = s.k
      BY <1>4
    <3>2. /\ k' \in KernelState /\ KInv(k') /\ SameThreads(m, k') /\ Settled(k')
      BY <1>3, <1>4, <2>2, <3>1, AfterSchedule
    <3> QED BY <1>4, <3>1, <3>2 DEF KernelSound, Running, SameThreads, Settled
  <2> QED BY <2>1, <2>2
<1>6. /\ pc' \in [Thread -> PC] /\ \A u \in Thread : Calling(u)' <=> Calling(u)
      /\ \A u \in Thread : pc[u] \in {"detach_test", "detach_body"} =>
           pc'[u] \in {"detach_test", "detach_body"}
  BY <1>3 DEF Calling
<1> QED BY <1>2, <1>3, <1>5, <1>6, SentKeeps

-----------------------------------------------------------------------------
LEMMA NextKeeps == IInv /\ [Next]_vars => IInv'
<1> SUFFICES ASSUME IInv, [Next]_vars PROVE IInv'
  OBVIOUS
<1> USE IInvFacts
<1>1. CASE UNCHANGED vars
  <2>1. UNCHANGED <<k, set, event_set, event_info, pc, asked, outstanding, alive, wild>>
    BY <1>1 DEF vars
  <2> QED BY <2>1 DEF IInv, KernelSound, EventTypes, Detaching, Running, Waiting,
                      Served01, Conserved, waiters, WaitsFor, Served, Fits, Takers,
                      Calling, listed
<1>2. ASSUME NEW t \in Thread, ThreadStep(t) PROVE IInv'
  <2>1. ASSUME NEW new \in Thread, Startup(t, new) PROVE IInv'
    BY <2>1, StartupKeeps1
  <2>2. ASSUME NEW r \in Request, RecvNow(t, r) \/ RecvFail(t, r) PROVE IInv'
    BY <2>2, RecvNowKeeps
  <2>3. ASSUME NEW r \in Request, NEW timed \in BOOLEAN, RecvBlock(t, r, timed)
        PROVE  IInv'
    BY <2>3, RecvBlockKeeps
  <2>4. CASE RecvSchedule(t) \/ Schedule(t)
    <3>1. /\ k' = rt_schedule(k)
          /\ \/ pc[t] = "wait" /\ pc' = [pc EXCEPT ![t] = "woken"]
             \/ pc[t] = "sched" /\ pc' = [pc EXCEPT ![t] = "run"]
          /\ UNCHANGED <<set, event_set, event_info, asked, outstanding, alive, wild>>
      BY <2>4 DEF RecvSchedule, Schedule, object
    <3>2. /\ pc' \in [Thread -> PC] /\ \A u \in Thread : Calling(u)' <=> Calling(u)
          /\ \A u \in Thread : pc[u] \in {"detach_test", "detach_body"} =>
               pc'[u] \in {"detach_test", "detach_body"}
      BY <3>1 DEF PC, Calling
    <3> QED BY <3>1, <3>2, ScheduleKeeps1
  <2>5. CASE RecvReturn(t)
    BY <2>5, RecvReturnKeeps
  <2>6. ASSUME NEW flags \in SUBSET Bit, Send(t, flags) PROVE IInv'
    BY <2>6, SendKeeps
  <2>7. CASE Reset(t)
    BY <2>7, ResetKeeps
  <2>8. CASE Detach(t) \/ DetachTest(t)
    BY <2>8, DetachKeeps
  <2>9. CASE DetachBody(t)
    BY <2>9, DetachBodyKeeps
  <2> QED BY <1>2, <2>1, <2>2, <2>3, <2>4, <2>5, <2>6, <2>7, <2>8, <2>9 DEF ThreadStep
<1>3. ASSUME NEW t \in Thread, TimerExpire(t) PROVE IInv'
  BY <1>3, TimerExpireKeeps
<1>4. CASE TickYield
  <2>1. /\ k' = rt_schedule(k) /\ pc' = pc
        /\ UNCHANGED <<set, event_set, event_info, asked, outstanding, alive, wild>>
    BY <1>4 DEF TickYield, object
  <2>2. /\ pc' \in [Thread -> PC] /\ \A u \in Thread : Calling(u)' <=> Calling(u)
        /\ \A u \in Thread : pc[u] \in {"detach_test", "detach_body"} =>
             pc'[u] \in {"detach_test", "detach_body"}
    BY <2>1 DEF Calling
  <2> QED BY <2>1, <2>2, ScheduleKeeps1
<1>5. ASSUME NEW flags \in SUBSET Bit, IsrSend(flags) PROVE IInv'
  BY <1>5, IsrSendKeeps
<1> QED BY <1>1, <1>2, <1>3, <1>4, <1>5 DEF Next, Steps

\* The inductive invariant holds in every reachable state.
THEOREM EventInvariant == Spec => []IInv
BY InitIInv, NextKeeps, PTL DEF Spec

\* Every flag that rt_event_send raised is set, or on its way to the one receiver
\* that took it with RT_EVENT_FLAG_CLEAR: rt_event_send, which changes the set
\* while it walks the wait list, neither loses a flag nor gives it twice.
THEOREM EventFlagsConserved == Spec => []FlagsConserved
<1>1. IInv => FlagsConserved
  <2> SUFFICES ASSUME IInv, NEW f \in Bit
               PROVE  outstanding[f] =
                        (IF f \in set THEN 1 ELSE 0)
                        + Cardinality({t \in Thread : Served(t) /\ event_info[t].clear
                                                       /\ f \in event_set[t]})
    BY DEF FlagsConserved
  <2>1. Takers(k, event_set, f) =
          {t \in Thread : Served(t) /\ event_info[t].clear /\ f \in event_set[t]}
    BY DEF Takers, Served, Calling, listed, waiters
  <2> QED BY <2>1 DEF IInv, Conserved, Bit01
<1> QED BY <1>1, EventInvariant, PTL

\* What rt_event_recv returns is all it asked for with RT_EVENT_FLAG_AND, and with
\* RT_EVENT_FLAG_OR a part of it that is not empty.
THEOREM EventGetsWhatItAsked == Spec => []GetsWhatItAsked
<1>1. IInv => GetsWhatItAsked
  BY DEF IInv, Served01, Fits, GetsWhatItAsked
<1> QED BY <1>1, EventInvariant, PTL

\* No thread is left in the wait list while the flags it waits for are there: one
\* walk of rt_event_send over the list is enough, since each waiter it wakes can
\* only take flags away from the others.  And rt_event_detach leaves nobody.
THEOREM EventNobodyWaitsSatisfied == Spec => []NobodyWaitsSatisfied
<1>1. IInv => NobodyWaitsSatisfied
  <2> SUFFICES ASSUME IInv PROVE NobodyWaitsSatisfied
    OBVIOUS
  <2> USE IInvFacts
  <2>1. outstanding \in [Bit -> 0 .. 1 + Cardinality(Thread)]
    <3> SUFFICES ASSUME NEW f \in Bit
                 PROVE  outstanding[f] \in 0 .. 1 + Cardinality(Thread)
      OBVIOUS
    <3>1. PICK S : S = Takers(k, event_set, f)
      OBVIOUS
    <3>2. /\ Cardinality(S) \in Nat /\ Cardinality(Thread) \in Nat
          /\ Cardinality(S) <= Cardinality(Thread)
      <4>1. S \subseteq Thread
        BY <3>1 DEF Takers
      <4> QED BY <4>1, Parameters, FS_Subset, FS_CardinalityType
    <3>3. outstanding[f] = Bit01(f, set) + Cardinality(S)
      BY <3>1 DEF IInv, Conserved
    <3>4. Bit01(f, set) \in 0 .. 1
      BY DEF Bit01
    <3> QED BY ONLY <3>2, <3>3, <3>4
  <2>2. TypeOK
    BY <2>1 DEF TypeOK, IInv, EventTypes
  <2>3. \A t \in waiters : ~satisfied(set, event_set[t], event_info[t])
    BY DEF IInv, Waiting, WaitsFor
  <2> QED BY <2>2, <2>3 DEF NobodyWaitsSatisfied, IInv, Detaching
<1> QED BY <1>1, EventInvariant, PTL

-----------------------------------------------------------------------------
(* Ticks: what a timer has left, as a number and not modulo TickMod.       *)

\* ticks_left of a timer that expires at o, at the tick r.
Left(r, o) ==
  LET past == (r - o) % TickMod
  IN IF past < HalfMax THEN -past ELSE TickMod - past

Tick == 0 .. (TickMod - 1)

LEMMA TickBounds ==
  /\ TickMod \in Nat /\ HalfMax \in Nat /\ MaxInit \in Nat /\ MaxDelay \in Nat
  /\ HalfMax > 0 /\ MaxInit > 0
  /\ 2 * HalfMax <= TickMod - 1
  /\ MaxInit + MaxDelay < HalfMax
<1>1. /\ TickMod \in Nat /\ MaxInit \in Nat \ {0} /\ MaxDelay \in Nat
      /\ MaxInit + MaxDelay < HalfMax
  BY TimerAssumption
<1>2. (TickMod - 1) \div 2 \in Int /\ 2 * ((TickMod - 1) \div 2) <= TickMod - 1
  BY <1>1
<1> QED BY <1>1, <1>2 DEF HalfMax

\* Differences and sums of ticks that wrap around at most once.
LEMMA TickArithmetic ==
  ASSUME NEW a \in Tick, NEW b \in Tick
  PROVE  /\ (a - b) % TickMod = IF a >= b THEN a - b ELSE a - b + TickMod
         /\ (a + b) % TickMod = IF a + b < TickMod THEN a + b ELSE a + b - TickMod
         /\ (a - b) % TickMod \in Tick /\ (a + b) % TickMod \in Tick
<1>1. TickMod \in Nat \ {0} /\ a \in 0 .. TickMod - 1 /\ b \in 0 .. TickMod - 1
  BY TickBounds DEF Tick
<1>2. (a - b) % TickMod = IF a >= b THEN a - b ELSE a - b + TickMod
  <2>1. CASE a >= b
    <3>1. a - b \in 0 .. TickMod - 1
      BY <1>1, <2>1
    <3> QED BY ONLY <1>1, <2>1, <3>1
  <2>2. CASE ~(a >= b)
    <3>1. a - b \in -TickMod .. -1
      BY <1>1, <2>2
    <3> QED BY ONLY <1>1, <2>2, <3>1
  <2> QED BY <2>1, <2>2
<1>3. (a + b) % TickMod = IF a + b < TickMod THEN a + b ELSE a + b - TickMod
  <2>1. CASE a + b \in 0 .. TickMod - 1
    BY ONLY <1>1, <2>1
  <2>2. CASE a + b \in TickMod .. 2 * TickMod - 1
    BY ONLY <1>1, <2>2
  <2> QED BY <1>1, <2>1, <2>2
<1> QED BY <1>1, <1>2, <1>3 DEF Tick

\* A timer has at most half the range left, or has been due for less than that;
\* the test of rt_timer_check sees which.
LEMMA LeftRange ==
  ASSUME NEW r \in Tick, NEW o \in Tick
  PROVE  /\ Left(r, o) \in (1 - HalfMax) .. (TickMod - HalfMax)
         /\ (r - o) % TickMod < HalfMax <=> Left(r, o) <= 0
BY TickBounds, TickArithmetic DEF Left, Tick

\* One tick later there is one tick less left, unless the difference wraps.
LEMMA LeftAfterTick ==
  ASSUME NEW r \in Tick, NEW o \in Tick, Left(r, o) > 1 - HalfMax
  PROVE  /\ (r + 1) % TickMod \in Tick
         /\ Left((r + 1) % TickMod, o) = Left(r, o) - 1
<1> DEFINE n == (r + 1) % TickMod
<1>1. 1 \in Tick
  BY TickBounds DEF Tick
<1>2. n \in Tick /\ n = IF r + 1 < TickMod THEN r + 1 ELSE r + 1 - TickMod
  BY <1>1, TickArithmetic
<1> HIDE DEF n
<1>3. /\ (r - o) % TickMod = IF r >= o THEN r - o ELSE r - o + TickMod
      /\ (n - o) % TickMod = IF n >= o THEN n - o ELSE n - o + TickMod
  BY <1>2, TickArithmetic
<1>4. Left(n, o) = Left(r, o) - 1
  BY <1>2, <1>3, TickBounds DEF Left, Tick
<1> QED BY <1>2, <1>4 DEF n

\* A timer that is started has its whole time left.
LEMMA LeftAfterStart ==
  ASSUME NEW r \in Tick, NEW n \in InitTick
  PROVE  (r + n) % TickMod \in Tick /\ Left(r, (r + n) % TickMod) = n
<1> DEFINE o == (r + n) % TickMod
<1>1. n \in Tick /\ n \in 1 .. (HalfMax - 1)
  BY TickBounds DEF Tick, InitTick
<1>2. o \in Tick /\ o = IF r + n < TickMod THEN r + n ELSE r + n - TickMod
  BY <1>1, TickArithmetic
<1> HIDE DEF o
<1>3. (r - o) % TickMod = IF r >= o THEN r - o ELSE r - o + TickMod
  BY <1>2, TickArithmetic
<1>4. Left(r, o) = n
  BY <1>1, <1>2, <1>3, TickBounds DEF Left, Tick
<1> QED BY <1>2, <1>4 DEF o

\* The comparison of rt_timer_start orders two timers by what they have left if
\* that differs by less than half the range.
LEMMA LeftCompared ==
  ASSUME NEW r \in Tick, NEW o \in Tick, NEW p \in Tick,
         Left(r, o) - Left(r, p) \in (-HalfMax) .. (HalfMax - 1)
  PROVE  (o - p) % TickMod \in 1 .. (HalfMax - 1) <=> Left(r, o) > Left(r, p)
<1>1. /\ (r - o) % TickMod = IF r >= o THEN r - o ELSE r - o + TickMod
      /\ (r - p) % TickMod = IF r >= p THEN r - p ELSE r - p + TickMod
      /\ (o - p) % TickMod = IF o >= p THEN o - p ELSE o - p + TickMod
  BY TickArithmetic
<1> QED BY <1>1, TickBounds DEF Left, Tick
-----------------------------------------------------------------------------
(* The timers.                                                             *)

\* No two threads use the same timer: nothing in timer.c keeps two calls of
\* rt_timer_start for one timer apart.
OneUser == \A x \in Timers : \A c, d \in Users[x] : c = d

\* Where the clients are: a client inside a function is at work on a timer it
\* may use and that exists; the timer it is starting, or has taken out of the
\* list to stop it, is not linked.
Clients ==
  \A c \in Caller :
    /\ step[c] = "run" <=> at[c] = NoTimer
    /\ at[c] # NoTimer => c \in Users[at[c]] /\ at[c] \in exists
    /\ step[c] \in {"start_tick", "start_insert", "stop_clear"} =>
         at[c] \notin linked

\* Nobody is at work on the timer, or its user is about to write flags back
\* that say it is activated.
Unhandled(x) ==
  \A c \in Caller : at[c] = x => step[c] = "flag_write" /\ flag_new[c].activated

\* A timer that is activated, and not because old flags were written back, is
\* linked while it is so.
Armed ==
  \A x \in exists \ torn : Unhandled(x) /\ timer[x].activated => x \in linked

\* How late a timer can be: as late as it may have been linked, and one more
\* tick inside the tick interrupt.
Latest == IF isr = "none" THEN -MaxDelay ELSE -MaxDelay - 1

\* What the linked timers have left, and those that are about to be linked.
InTime ==
  /\ \A x \in linked : ticks_left(x) >= Latest /\ ticks_left(x) <= MaxInit
  /\ \A c \in Caller : step[c] = "start_insert" =>
       ticks_left(at[c]) >= -MaxDelay /\ ticks_left(at[c]) <= MaxInit

LeftTable == [x \in Timers |-> ticks_left(x)]

TimerIInv ==
  /\ TimerTypeOK /\ ~relinked /\ linked \subseteq exists
  /\ Clients /\ Armed /\ InTime
  /\ Ordered(LeftTable, rt_timer_list)

LEMMA TicksLeft ==
  ASSUME TimerTypeOK
  PROVE  /\ rt_tick \in Tick
         /\ \A x \in Timers : timer[x].timeout_tick \in Tick
         /\ \A x \in Timers : ticks_left(x) = Left(rt_tick, timer[x].timeout_tick)
         /\ \A x \in Timers : LeftTable[x] = ticks_left(x) /\ ticks_left(x) \in Int
<1>1. rt_tick \in Tick /\ \A x \in Timers : timer[x].timeout_tick \in Tick
  BY DEF TimerTypeOK, TimerState, Tick
<1>2. \A x \in Timers : ticks_left(x) = Left(rt_tick, timer[x].timeout_tick)
  BY DEF ticks_left, Left, minus
<1>3. \A x \in Timers : ticks_left(x) \in Int
  BY <1>1, <1>2, LeftRange, TickBounds
<1> QED BY <1>1, <1>2, <1>3 DEF LeftTable

LEMMA TimerFacts ==
  ASSUME TimerIInv
  PROVE  /\ TimerTypeOK /\ rt_timer_list \in Seq(Timers) /\ IsInjective(rt_timer_list)
         /\ linked \subseteq Timers /\ exists \subseteq Timers
         /\ rt_tick \in Tick /\ NoTimer \notin Timers
         /\ rt_timer_list = << >> <=> linked = {}
         /\ timer \in [Timers -> TimerState]
         /\ step \in [Caller -> TimerPC] /\ at \in [Caller -> Timers \cup {NoTimer}]
         /\ flag_new \in [Caller -> FlagState] /\ torn \subseteq Timers
         /\ \A x \in Timers : LeftTable[x] = ticks_left(x) /\ ticks_left(x) \in Int
<1>1. TimerTypeOK /\ rt_timer_list \in Seq(Timers) /\ IsInjective(rt_timer_list)
  BY DEF TimerIInv, TimerTypeOK
<1>2. linked \subseteq Timers /\ (rt_timer_list = << >> <=> linked = {})
  BY <1>1, ListElements, EmptyList DEF linked
<1> QED BY <1>1, <1>2, TicksLeft, TimerAssumption DEF TimerTypeOK

\* Unlinking a timer.
LEMMA RemovedList ==
  ASSUME TimerIInv, NEW x
  PROVE  /\ removed(x) \in Seq(Timers) /\ IsInjective(removed(x))
         /\ ToSet(removed(x)) = linked \ {x}
         /\ Ordered(LeftTable, removed(x))
<1>1. removed(x) = Unlink(rt_timer_list, x)
  BY DEF removed, Unlink, linked
<1>2. /\ rt_timer_list \in Seq(Timers) /\ IsInjective(rt_timer_list)
      /\ Ordered(LeftTable, rt_timer_list)
  BY DEF TimerIInv, TimerTypeOK
<1>3. /\ Unlink(rt_timer_list, x) \in Seq(Timers)
      /\ IsInjective(Unlink(rt_timer_list, x))
      /\ ToSet(Unlink(rt_timer_list, x)) = ToSet(rt_timer_list) \ {x}
  BY <1>2, UnlinkProperties
<1>4. Ordered(LeftTable, Unlink(rt_timer_list, x))
  BY <1>2, OrderedUnlink
<1> QED BY <1>1, <1>3, <1>4 DEF linked

\* The order of a list depends only on the ranks of its elements.
LEMMA OrderedSame ==
  ASSUME NEW T, NEW s \in Seq(T), NEW f, NEW g, Ordered(f, s),
         NEW d \in Int, \A x \in ToSet(s) : f[x] \in Int /\ g[x] = f[x] - d
  PROVE  Ordered(g, s)
<1>1. \A i \in DOMAIN s : s[i] \in ToSet(s)
  BY DEF ToSet
<1> SUFFICES ASSUME NEW i \in DOMAIN s, NEW j \in DOMAIN s, i < j
             PROVE  g[s[i]] <= g[s[j]]
  BY DEF Ordered
<1>2. f[s[i]] <= f[s[j]]
  BY DEF Ordered
<1>3. /\ f[s[i]] \in Int /\ g[s[i]] = f[s[i]] - d
      /\ f[s[j]] \in Int /\ g[s[j]] = f[s[j]] - d
  BY <1>1
<1> QED BY ONLY <1>2, <1>3, d \in Int

\* The loop of rt_timer_start finds a place that keeps the order, if all timers
\* of the list have less than half the range between them and the new one.
LEMMA InsertPosition ==
  ASSUME TimerTypeOK, NEW list \in Seq(Timers), NEW tick \in Tick,
         \A y \in ToSet(list) :
           ticks_left(y) - Left(rt_tick, tick) \in (-HalfMax) .. (HalfMax - 1)
  PROVE  LET p == insert_position(list, tick) IN
         /\ p \in 1 .. (Len(list) + 1)
         /\ \A i \in 1 .. Len(list) : i < p =>
              ticks_left(list[i]) <= Left(rt_tick, tick)
         /\ p \in 1 .. Len(list) => Left(rt_tick, tick) <= ticks_left(list[p])
<1> DEFINE n == Len(list)
           l == Left(rt_tick, tick)
           p == insert_position(list, tick)
           later == {i \in DOMAIN list :
                       minus(timer[list[i]].timeout_tick, tick) \in 1 .. (HalfMax - 1)}
<1>1. n \in Nat /\ DOMAIN list = 1 .. n
  BY LenProperties
<1>2. \A i \in 1 .. n : list[i] \in Timers /\ list[i] \in ToSet(list)
  BY <1>1, ElementOfSeq DEF ToSet
<1>3. l \in Int /\ \A i \in 1 .. n : ticks_left(list[i]) \in Int
  BY <1>2, TicksLeft, LeftRange, TickBounds
<1>4. \A i \in 1 .. n : i \in later <=> ticks_left(list[i]) > l
  <2> SUFFICES ASSUME NEW i \in 1 .. n
               PROVE  i \in later <=> ticks_left(list[i]) > l
    OBVIOUS
  <2>1. PICK o : o = timer[list[i]].timeout_tick
    OBVIOUS
  <2>2. o \in Tick /\ ticks_left(list[i]) = Left(rt_tick, o) /\ rt_tick \in Tick
    BY <1>2, <2>1, TicksLeft
  <2>3. Left(rt_tick, o) - l \in (-HalfMax) .. (HalfMax - 1)
    BY <1>2, <2>2
  <2>4. (o - tick) % TickMod \in 1 .. (HalfMax - 1) <=> Left(rt_tick, o) > l
    BY <2>2, <2>3, LeftCompared
  <2>5. i \in later <=> (o - tick) % TickMod \in 1 .. (HalfMax - 1)
    BY <1>1, <2>1 DEF minus
  <2> HIDE DEF later, l
  <2> QED BY <2>2, <2>4, <2>5
<1>5. later \in SUBSET (1 .. n)
  BY <1>1
<1>6. later = {} => p = n + 1
  BY DEF insert_position
<1>7. later # {} => p = CHOOSE i \in later : \A j \in later : i <= j
  BY DEF insert_position
<1> HIDE DEF n, l, p, later
<1>8. later # {} => p \in later /\ \A j \in later : p <= j
  <2> SUFFICES ASSUME later # {} PROVE p \in later /\ \A j \in later : p <= j
    OBVIOUS
  <2>1. \A i \in later : i \in Nat
    BY <1>1, <1>5
  <2>2. \E i \in later : \A j \in later : i <= j
    BY <2>1, LeastNat
  <2> QED BY <1>7, <2>2
<1>9. /\ p \in 1 .. (n + 1)
      /\ p \in 1 .. n => p \in later
      /\ \A i \in 1 .. n : i < p => i \notin later
  BY ONLY <1>1, <1>5, <1>6, <1>8, FirstPosition
<1>10. \A i \in 1 .. n : i < p => ticks_left(list[i]) <= l
  BY <1>3, <1>4, <1>9
<1>11. p \in 1 .. n => l <= ticks_left(list[p])
  BY <1>3, <1>4, <1>9
<1> QED BY <1>9, <1>10, <1>11 DEF n, l, p

\* The timer list with a timer linked by rt_timer_start.
LEMMA InsertedList ==
  ASSUME TimerTypeOK, NEW list \in Seq(Timers), IsInjective(list),
         NEW x \in Timers, x \notin ToSet(list), NEW tick \in Tick,
         \A y \in ToSet(list) :
           ticks_left(y) - Left(rt_tick, tick) \in (-HalfMax) .. (HalfMax - 1),
         NEW f, \A y \in Timers : f[y] \in Int,
         \A y \in ToSet(list) : f[y] = ticks_left(y),
         f[x] = Left(rt_tick, tick), Ordered(f, list)
  PROVE  LET r == InsertAt(list, insert_position(list, tick), x) IN
         /\ r \in Seq(Timers) /\ IsInjective(r)
         /\ ToSet(r) = ToSet(list) \cup {x} /\ Ordered(f, r)
<1>1. PICK p : p = insert_position(list, tick)
  OBVIOUS
<1>2. /\ p \in 1 .. (Len(list) + 1)
      /\ \A i \in 1 .. Len(list) : i < p =>
           ticks_left(list[i]) <= Left(rt_tick, tick)
      /\ p \in 1 .. Len(list) => Left(rt_tick, tick) <= ticks_left(list[p])
  BY <1>1, InsertPosition
<1>3. \A i \in 1 .. Len(list) : list[i] \in ToSet(list)
  BY LenProperties DEF ToSet
<1>4. /\ \A i \in 1 .. Len(list) : i < p => f[list[i]] <= f[x]
      /\ p \in 1 .. Len(list) => f[x] <= f[list[p]]
  BY <1>2, <1>3
<1>5. Ordered(f, InsertAt(list, p, x))
  BY <1>2, <1>4, OrderedAt
<1>6. /\ InsertAt(list, p, x) \in Seq(Timers) /\ IsInjective(InsertAt(list, p, x))
      /\ ToSet(InsertAt(list, p, x)) = ToSet(list) \cup {x}
  BY <1>2, InsertAtProperties
<1> QED BY <1>1, <1>5, <1>6

\* What the abstract timers see of the list.
LeftMap == [x \in Timers |-> IF x \in linked THEN ticks_left(x) ELSE Off]

\* A step that links no timer, at a tick that stays the same.
LEMMA TimerKept ==
  ASSUME TimerIInv, TimerTypeOK', relinked' = relinked, rt_tick' = rt_tick, isr' = isr,
         linked' \subseteq exists', Clients', Armed',
         linked' \subseteq linked, Ordered(LeftTable, rt_timer_list'),
         \A y \in linked' : timer'[y].timeout_tick = timer[y].timeout_tick,
         \A c \in Caller : step'[c] = "start_insert" =>
           ticks_left(at[c])' >= -MaxDelay /\ ticks_left(at[c])' <= MaxInit
  PROVE  /\ TimerIInv'
         /\ \A y \in Timers : LeftMap'[y] = IF y \in linked' THEN LeftMap[y] ELSE Off
<1> USE TimerFacts
<1>1. \A y \in linked' : ticks_left(y)' = ticks_left(y)
  BY DEF ticks_left, minus
<1>2. InTime'
  BY <1>1 DEF TimerIInv, InTime, Latest
<1>3. rt_timer_list' \in Seq(Timers) /\ linked' = ToSet(rt_timer_list')
  BY DEF TimerTypeOK, linked
<1>4. (\A x \in Timers : LeftTable[x] = ticks_left(x) /\ ticks_left(x) \in Int)'
  BY TicksLeft, PTL
<1>5. \A x \in ToSet(rt_timer_list') :
        LeftTable[x] \in Int /\ LeftTable'[x] = LeftTable[x] - 0
  BY <1>1, <1>3, <1>4
<1>6. Ordered(LeftTable, rt_timer_list)'
  <2>1. PICK f, g, s : f = LeftTable /\ g = LeftTable' /\ s = rt_timer_list'
    OBVIOUS
  <2>2. /\ s \in Seq(Timers) /\ Ordered(f, s) /\ 0 \in Int
        /\ \A x \in ToSet(s) : f[x] \in Int /\ g[x] = f[x] - 0
    BY <1>3, <1>5, <2>1
  <2>3. Ordered(g, s)
    BY ONLY <2>2, OrderedSame
  <2> QED BY <2>1, <2>3 DEF Ordered
<1>7. \A y \in Timers : LeftMap'[y] = IF y \in linked' THEN LeftMap[y] ELSE Off
  BY <1>1 DEF LeftMap
<1> QED BY <1>2, <1>6, <1>7 DEF TimerIInv

\* A client at work on a timer is the only one.
LEMMA OneClient ==
  ASSUME TimerIInv, OneUser, NEW c \in Caller
  PROVE  /\ step[c] # "run" => /\ at[c] \in Timers /\ at[c] \in exists
                               /\ c \in Users[at[c]]
                               /\ \A d \in Caller : at[d] = at[c] => d = c
         /\ \A x \in Timers : step[c] = "run" /\ c \in Users[x] =>
                                \A d \in Caller : at[d] # x
BY TimerFacts DEF TimerIInv, Clients, OneUser

\* rt_timer_init, rt_timer_control up to the write of the flags, and the test of
\* rt_timer_stop: no timer is linked or unlinked.
LEMMA TimerCalls ==
  ASSUME TimerIInv, OneUser, NEW c \in Caller, NEW x \in Timers,
         \/ \E n \in InitTick, periodic \in BOOLEAN :
              \/ TimerInit(c, x, n, periodic)
              \/ ControlTime(c, x, n)
              \/ ControlFlag(c, x, periodic)
         \/ StopTest(c, x)
  PROVE  TimerIInv' /\ LeftMap' = LeftMap /\ isr' = isr
<1> USE TimerFacts
<1>1. /\ rt_tick' = rt_tick /\ isr' = isr /\ rt_timer_list' = rt_timer_list
      /\ relinked' = relinked /\ torn' = torn /\ linked' = linked
  BY DEF TimerInit, ControlTime, ControlFlag, StopTest, linked
<1>2. CASE \E n \in InitTick, periodic \in BOOLEAN : TimerInit(c, x, n, periodic)
  <2>1. PICK n \in InitTick, periodic \in BOOLEAN : TimerInit(c, x, n, periodic)
    BY <1>2
  <2>2. /\ x \notin exists /\ exists' = exists \cup {x}
        /\ timer' = [timer EXCEPT ![x] = [activated |-> FALSE, periodic |-> periodic,
                                          init_tick |-> n, timeout_tick |-> 0]]
        /\ step' = step /\ at' = at /\ flag_new' = flag_new
    BY <2>1 DEF TimerInit
  <2>3. [activated |-> FALSE, periodic |-> periodic, init_tick |-> n,
         timeout_tick |-> 0] \in TimerState
    BY TickBounds DEF TimerState
  <2>4. TimerTypeOK'
    BY <1>1, <2>2, <2>3 DEF TimerTypeOK
  <2>5. \A y \in Timers \ {x} : timer'[y] = timer[y]
    BY <2>2
  <2>6. ~timer'[x].activated /\ x \notin linked
    BY <2>2 DEF TimerIInv
  <2>7. Clients'
    BY <1>1, <2>2 DEF TimerIInv, Clients
  <2>8. \A d \in Caller : at[d] # x
    BY <2>2 DEF TimerIInv, Clients
  <2>9. Armed'
    BY <1>1, <2>2, <2>5, <2>6 DEF TimerIInv, Armed, Unhandled
  <2>10. \A d \in Caller : step'[d] = "start_insert" =>
           ticks_left(at[d])' >= -MaxDelay /\ ticks_left(at[d])' <= MaxInit
    <3> SUFFICES ASSUME NEW d \in Caller, step[d] = "start_insert"
                 PROVE ticks_left(at[d])' >= -MaxDelay /\ ticks_left(at[d])' <= MaxInit
      BY <2>2
    <3>1. at[d] \in Timers \ {x}
      BY <2>8 DEF TimerIInv, Clients, TimerPC
    <3>2. ticks_left(at[d])' = ticks_left(at[d])
      BY <1>1, <2>2, <2>5, <3>1 DEF ticks_left, minus
    <3> QED BY <3>2 DEF TimerIInv, InTime
  <2>11. /\ TimerIInv'
         /\ \A y \in Timers : LeftMap'[y] = IF y \in linked' THEN LeftMap[y] ELSE Off
    BY <1>1, <2>2, <2>4, <2>5, <2>6, <2>7, <2>9, <2>10, TimerKept DEF TimerIInv
  <2> QED BY <1>1, <2>11 DEF LeftMap
<1>3. CASE \E n \in InitTick : ControlTime(c, x, n)
  <2>1. PICK n \in InitTick : ControlTime(c, x, n)
    BY <1>3
  <2>2. /\ timer' = [timer EXCEPT ![x].init_tick = n]
        /\ step' = step /\ at' = at /\ exists' = exists /\ flag_new' = flag_new
    BY <2>1 DEF ControlTime
  <2>3. timer[x] \in TimerState
    OBVIOUS
  <2>4. PICK v : /\ timer' = [timer EXCEPT ![x] = v]
                 /\ v = [timer[x] EXCEPT !.init_tick = n]
    BY <2>2
  <2>5. /\ v \in TimerState /\ v.timeout_tick = timer[x].timeout_tick
        /\ v.activated = timer[x].activated
    BY ONLY <2>3, <2>4, n \in InitTick DEF TimerState
  <2>6. TimerTypeOK'
    BY <1>1, <2>2, <2>4, <2>5 DEF TimerTypeOK
  <2>7. \A y \in Timers : /\ timer'[y].timeout_tick = timer[y].timeout_tick
                          /\ timer'[y].activated = timer[y].activated
    BY <2>4, <2>5
  <2>8. Clients'
    BY <1>1, <2>2 DEF TimerIInv, Clients
  <2>9. Armed'
    BY <1>1, <2>2, <2>7 DEF TimerIInv, Armed, Unhandled
  <2>10. \A d \in Caller : step'[d] = "start_insert" =>
          ticks_left(at[d])' >= -MaxDelay /\ ticks_left(at[d])' <= MaxInit
    <3> SUFFICES ASSUME NEW d \in Caller, step[d] = "start_insert"
                 PROVE ticks_left(at[d])' >= -MaxDelay /\ ticks_left(at[d])' <= MaxInit
      BY <2>2
    <3>1. at[d] \in Timers
      BY DEF TimerIInv, Clients, TimerPC
    <3>2. ticks_left(at[d])' = ticks_left(at[d])
      BY <1>1, <2>2, <2>7, <3>1 DEF ticks_left, minus
    <3> QED BY <3>2 DEF TimerIInv, InTime
  <2>11. /\ TimerIInv'
        /\ \A y \in Timers : LeftMap'[y] = IF y \in linked' THEN LeftMap[y] ELSE Off
    BY <1>1, <2>2, <2>6, <2>7, <2>8, <2>9, <2>10, TimerKept DEF TimerIInv
  <2> QED BY <1>1, <2>11 DEF LeftMap
<1>4. ASSUME step[c] = "run", c \in Users[x], x \in exists,
             step' \in {[step EXCEPT ![c] = "stop_remove"],
                       [step EXCEPT ![c] = "flag_write"]},
             at' = [at EXCEPT ![c] = x], timer' = timer, exists' = exists,
             flag_new' \in [Caller -> FlagState],
             \A d \in Caller \ {c} : flag_new'[d] = flag_new[d]
      PROVE  TimerIInv' /\ LeftMap' = LeftMap
  <2>1. TimerTypeOK'
    BY <1>1, <1>4 DEF TimerTypeOK, TimerPC
  <2>2. Clients'
    BY <1>1, <1>4 DEF TimerIInv, Clients
  <2>3. \A d \in Caller : at[d] # x
    BY <1>4, OneClient
  <2>4. Armed'
    <3>1. \A y \in exists : y # x /\ Unhandled(y)' => Unhandled(y)
      BY <1>4 DEF Unhandled, Clients, TimerIInv
    <3>2. Unhandled(x)
      BY <2>3 DEF Unhandled
    <3> QED BY <1>1, <1>4, <3>1, <3>2 DEF TimerIInv, Armed
  <2>5. \A d \in Caller : step'[d] = "start_insert" =>
          ticks_left(at[d])' >= -MaxDelay /\ ticks_left(at[d])' <= MaxInit
    <3> SUFFICES ASSUME NEW d \in Caller, step'[d] = "start_insert"
                 PROVE ticks_left(at[d])' >= -MaxDelay /\ ticks_left(at[d])' <= MaxInit
      OBVIOUS
    <3>1. step[d] = "start_insert" /\ at'[d] = at[d]
      BY <1>4
    <3>2. ticks_left(at[d])' = ticks_left(at[d])
      BY <1>1, <1>4, <3>1 DEF ticks_left, minus
    <3> QED BY <3>1, <3>2 DEF TimerIInv, InTime
  <2>6. /\ TimerIInv'
        /\ \A y \in Timers : LeftMap'[y] = IF y \in linked' THEN LeftMap[y] ELSE Off
    BY <1>1, <1>4, <2>1, <2>2, <2>4, <2>5, TimerKept DEF TimerIInv
  <2> QED BY <1>1, <2>6 DEF LeftMap
<1>5. CASE \E periodic \in BOOLEAN : ControlFlag(c, x, periodic)
  <2>1. PICK periodic \in BOOLEAN : ControlFlag(c, x, periodic)
    BY <1>5
  <2>2. [activated |-> timer[x].activated, periodic |-> periodic] \in FlagState
    BY DEF TimerState, FlagState
  <2> QED BY <1>4, <2>1, <2>2 DEF ControlFlag, CallTimer
<1>6. CASE StopTest(c, x)
  BY <1>4, <1>6 DEF StopTest, CallTimer
<1> QED BY <1>1, <1>2, <1>3, <1>5, <1>6

\* The assignments to the members of a timer.
LEMMA TimerUpdate ==
  ASSUME NEW table \in [Timers -> TimerState], NEW x \in Timers, NEW o \in Tick,
         NEW flag \in BOOLEAN, NEW new,
         \/ new = [table EXCEPT ![x].timeout_tick = o] /\ flag = table[x].activated
         \/ new = [table EXCEPT ![x].activated = flag]
              /\ o = table[x].timeout_tick
         \/ new = [table EXCEPT ![x].activated = flag, ![x].timeout_tick = o]
         \/ new = [table EXCEPT ![x].timeout_tick = o, ![x].activated = flag]
  PROVE  /\ new \in [Timers -> TimerState]
         /\ \A y \in Timers : y # x => new[y] = table[y]
         /\ new[x].activated = flag /\ new[x].timeout_tick = o
<1>1. table[x] \in TimerState
  OBVIOUS
<1>2. PICK r : r = table[x]
  OBVIOUS
<1>3. PICK v : /\ new = [table EXCEPT ![x] = v]
               /\ \/ v = [r EXCEPT !.timeout_tick = o] /\ flag = r.activated
                  \/ v = [r EXCEPT !.activated = flag] /\ o = r.timeout_tick
                  \/ v = [r EXCEPT !.activated = flag, !.timeout_tick = o]
                  \/ v = [r EXCEPT !.timeout_tick = o, !.activated = flag]
  <2>1. CASE new = [table EXCEPT ![x].timeout_tick = o] /\ flag = table[x].activated
    BY ONLY <1>2, <2>1
  <2>2. CASE new = [table EXCEPT ![x].activated = flag] /\ o = table[x].timeout_tick
    BY ONLY <1>2, <2>2
  <2>3. CASE new = [table EXCEPT ![x].activated = flag, ![x].timeout_tick = o]
    BY ONLY <1>2, <2>3, table \in [Timers -> TimerState], x \in Timers
  <2>4. CASE new = [table EXCEPT ![x].timeout_tick = o, ![x].activated = flag]
    BY ONLY <1>2, <2>4, table \in [Timers -> TimerState], x \in Timers
  <2> QED BY <2>1, <2>2, <2>3, <2>4
<1>4. v \in TimerState /\ v.activated = flag /\ v.timeout_tick = o
  BY ONLY <1>1, <1>2, <1>3, o \in Tick, flag \in BOOLEAN DEF TimerState, Tick
<1> QED BY ONLY <1>3, <1>4, table \in [Timers -> TimerState], x \in Timers

\* A timer that waits to be linked keeps what it has left.
LEMMA PendingKept ==
  ASSUME TimerIInv, rt_tick' = rt_tick,
         \A d \in Caller : step'[d] = "start_insert" =>
           /\ step[d] = "start_insert" /\ at'[d] = at[d]
           /\ timer'[at[d]].timeout_tick = timer[at[d]].timeout_tick
  PROVE  \A d \in Caller : step'[d] = "start_insert" =>
           ticks_left(at[d])' >= -MaxDelay /\ ticks_left(at[d])' <= MaxInit
<1> SUFFICES ASSUME NEW d \in Caller, step'[d] = "start_insert"
             PROVE ticks_left(at[d])' >= -MaxDelay /\ ticks_left(at[d])' <= MaxInit
  OBVIOUS
<1>1. ticks_left(at[d])' = ticks_left(at[d])
  BY DEF ticks_left, minus
<1> QED BY <1>1 DEF TimerIInv, InTime

\* Unlinking, in rt_timer_detach, rt_timer_start and rt_timer_stop.
LEMMA TimerRemoved ==
  ASSUME TimerIInv, NEW x \in Timers, rt_timer_list' = removed(x),
         \/ timer' = [timer EXCEPT ![x].timeout_tick = 0]
         \/ timer' = [timer EXCEPT ![x].activated = FALSE, ![x].timeout_tick = 0],
         UNCHANGED <<rt_tick, isr, flag_new, relinked>>,
         torn' \subseteq torn, torn \subseteq torn' \cup {x},
         exists' \subseteq Timers, linked \ {x} \subseteq exists',
         step' \in [Caller -> TimerPC], at' \in [Caller -> Timers \cup {NoTimer}],
         Clients',
         \A y \in exists' : /\ y # x => y \in exists
                            /\ Unhandled(y)' => Unhandled(y) /\ y # x,
         \A d \in Caller : step'[d] = "start_insert" =>
           step[d] = "start_insert" /\ at'[d] = at[d] /\ at[d] \in Timers \ {x}
  PROVE  TimerIInv' /\ LeftMap' = [LeftMap EXCEPT ![x] = Off]
<1> USE TimerFacts
<1>1. 0 \in Tick /\ timer[x].activated \in BOOLEAN
  BY TickBounds DEF Tick, TimerState
<1>2. /\ timer' \in [Timers -> TimerState]
      /\ \A y \in Timers : y # x => timer'[y] = timer[y]
  <2>1. PICK table, new : table = timer /\ new = timer'
    OBVIOUS
  <2>2. PICK f \in BOOLEAN :
          \/ new = [table EXCEPT ![x].timeout_tick = 0] /\ f = table[x].activated
          \/ new = [table EXCEPT ![x].activated = f]
               /\ 0 = table[x].timeout_tick
          \/ new = [table EXCEPT ![x].activated = f, ![x].timeout_tick = 0]
          \/ new = [table EXCEPT ![x].timeout_tick = 0, ![x].activated = f]
    <3>1. CASE timer' = [timer EXCEPT ![x].timeout_tick = 0]
      BY ONLY <1>1, <2>1, <3>1
    <3>2. CASE timer' = [timer EXCEPT ![x].activated = FALSE, ![x].timeout_tick = 0]
      BY ONLY <2>1, <3>2
    <3> QED BY <3>1, <3>2
  <2>3. table \in [Timers -> TimerState]
    BY <2>1
  <2>4. /\ new \in [Timers -> TimerState]
        /\ \A y \in Timers : y # x => new[y] = table[y]
    BY ONLY <1>1, <2>2, <2>3, TimerUpdate, x \in Timers
  <2> QED BY <2>1, <2>4
<1>3. /\ removed(x) \in Seq(Timers) /\ IsInjective(removed(x))
      /\ ToSet(removed(x)) = linked \ {x} /\ Ordered(LeftTable, removed(x))
  BY RemovedList
<1>4. linked' = linked \ {x}
  BY <1>3 DEF linked
<1>5. /\ relinked' = relinked /\ rt_tick' = rt_tick /\ isr' = isr
      /\ Ordered(LeftTable, rt_timer_list')
  BY <1>3
<1>6. TimerTypeOK'
  BY <1>2, <1>3 DEF TimerTypeOK
<1>7. Armed'
  BY <1>2, <1>4 DEF TimerIInv, Armed
<1>8. \A d \in Caller : step'[d] = "start_insert" =>
        ticks_left(at[d])' >= -MaxDelay /\ ticks_left(at[d])' <= MaxInit
  BY <1>2, PendingKept
<1>9. /\ TimerIInv'
      /\ \A y \in Timers : LeftMap'[y] = IF y \in linked' THEN LeftMap[y] ELSE Off
  BY <1>2, <1>4, <1>5, <1>6, <1>7, <1>8, TimerKept
<1>10. \A y \in Timers : y \notin linked => LeftMap[y] = Off
  BY DEF LeftMap
<1>11. \A y \in Timers : LeftMap'[y] = IF y = x THEN Off ELSE LeftMap[y]
  BY <1>4, <1>9, <1>10
<1> QED BY <1>9, <1>11 DEF LeftMap

\* rt_timer_detach, the first critical section of rt_timer_start and that of
\* rt_timer_stop.
LEMMA TimerStops ==
  ASSUME TimerIInv, OneUser, NEW c \in Caller
  PROVE  /\ \A x \in Timers : TimerDetach(c, x) \/ StartRemove(c, x) =>
              /\ TimerIInv' /\ LeftMap' = [LeftMap EXCEPT ![x] = Off]
              /\ isr = "none" /\ isr' = isr
         /\ StopRemove(c) =>
              /\ TimerIInv' /\ LeftMap' = [LeftMap EXCEPT ![at[c]] = Off]
              /\ isr = "none" /\ isr' = isr /\ at[c] \in Timers
<1> USE TimerFacts
<1>1. ASSUME NEW x \in Timers, rt_timer_list' = removed(x)
      PROVE  linked' = linked \ {x}
  BY <1>1, RemovedList DEF linked
<1>2. ASSUME NEW x \in Timers, TimerDetach(c, x)
      PROVE  TimerIInv' /\ LeftMap' = [LeftMap EXCEPT ![x] = Off]
  <2>1. /\ Quiet(x) /\ rt_timer_list' = removed(x)
        /\ timer' = [timer EXCEPT ![x].timeout_tick = 0]
        /\ exists' = exists \ {x} /\ step' = step /\ at' = at
        /\ UNCHANGED <<rt_tick, isr, flag_new, relinked>> /\ torn' = torn \ {x}
    BY <1>2 DEF TimerDetach
  <2>2. linked \ {x} \subseteq exists'
    BY <2>1 DEF TimerIInv
  <2>3. Clients'
    BY <1>1, <2>1 DEF TimerIInv, Clients, Quiet
  <2>4. \A y \in exists' : /\ y # x => y \in exists
                           /\ Unhandled(y)' => Unhandled(y) /\ y # x
    BY <2>1 DEF Unhandled
  <2>5. \A d \in Caller : step'[d] = "start_insert" =>
          step[d] = "start_insert" /\ at'[d] = at[d] /\ at[d] \in Timers \ {x}
    BY <2>1, OneClient DEF Quiet
  <2>6. /\ step' \in [Caller -> TimerPC] /\ at' \in [Caller -> Timers \cup {NoTimer}]
        /\ exists' \subseteq Timers /\ torn' \subseteq torn
        /\ torn \subseteq torn' \cup {x}
    BY <2>1
  <2> QED BY ONLY TimerIInv, x \in Timers, <2>1, <2>2, <2>3, <2>4, <2>5, <2>6,
             TimerRemoved
<1>3. ASSUME NEW x \in Timers, StartRemove(c, x)
      PROVE  TimerIInv' /\ LeftMap' = [LeftMap EXCEPT ![x] = Off]
  <2>1. /\ step[c] = "run" /\ c \in Users[x] /\ x \in exists
        /\ rt_timer_list' = removed(x)
        /\ timer' = [timer EXCEPT ![x].activated = FALSE, ![x].timeout_tick = 0]
        /\ step' = [step EXCEPT ![c] = "start_tick"]
        /\ at' = [at EXCEPT ![c] = x] /\ exists' = exists
        /\ UNCHANGED <<rt_tick, isr, flag_new, relinked>> /\ torn' = torn \ {x}
    BY <1>3 DEF StartRemove, CallTimer
  <2>2. linked \ {x} \subseteq exists' /\ exists' \subseteq Timers
    BY <2>1 DEF TimerIInv
  <2>3. \A d \in Caller : at[d] # x
    BY <2>1, OneClient
  <2>4. Clients'
    BY <1>1, <2>1 DEF TimerIInv, Clients
  <2>5. at[c] = NoTimer
    BY <2>1 DEF TimerIInv, Clients
  <2>6. \A y \in exists' : /\ y # x => y \in exists
                           /\ Unhandled(y)' => Unhandled(y) /\ y # x
    BY <2>1, <2>2, <2>5 DEF Unhandled
  <2>7. \A d \in Caller : step'[d] = "start_insert" =>
          step[d] = "start_insert" /\ at'[d] = at[d] /\ at[d] \in Timers \ {x}
    BY <2>1, <2>3, OneClient
  <2>8. /\ step' \in [Caller -> TimerPC] /\ at' \in [Caller -> Timers \cup {NoTimer}]
    BY <2>1 DEF TimerPC
  <2>9. torn' \subseteq torn /\ torn \subseteq torn' \cup {x}
    BY <2>1
  <2> QED BY ONLY TimerIInv, x \in Timers, <2>1, <2>2, <2>4, <2>6, <2>7, <2>8, <2>9,
             TimerRemoved
<1>4. ASSUME StopRemove(c)
      PROVE  TimerIInv' /\ LeftMap' = [LeftMap EXCEPT ![at[c]] = Off]
  <2>1. PICK x \in Timers : x = at[c]
    BY <1>4, OneClient DEF StopRemove
  <2>2. /\ step[c] = "stop_remove" /\ rt_timer_list' = removed(x)
        /\ timer' = [timer EXCEPT ![x].timeout_tick = 0]
        /\ step' = [step EXCEPT ![c] = "stop_clear"]
        /\ exists' = exists /\ at' = at
        /\ UNCHANGED <<rt_tick, isr, flag_new, relinked, torn>>
    BY <1>4, <2>1 DEF StopRemove
  <2>3. \A d \in Caller : at[d] = x => d = c
    BY <2>1, <2>2, OneClient
  <2>4. linked \ {x} \subseteq exists' /\ exists' \subseteq Timers
    BY <2>2 DEF TimerIInv
  <2>5. Clients'
    BY <1>1, <2>1, <2>2 DEF TimerIInv, Clients
  <2>6. \A y \in exists' : /\ y # x => y \in exists
                           /\ Unhandled(y)' => Unhandled(y) /\ y # x
    BY <2>1, <2>2 DEF Unhandled
  <2>7. \A d \in Caller : step'[d] = "start_insert" =>
          step[d] = "start_insert" /\ at'[d] = at[d] /\ at[d] \in Timers \ {x}
    BY <2>2, <2>3, OneClient
  <2>8. /\ step' \in [Caller -> TimerPC] /\ at' \in [Caller -> Timers \cup {NoTimer}]
    BY <2>2 DEF TimerPC
  <2>9. TimerIInv' /\ LeftMap' = [LeftMap EXCEPT ![x] = Off]
    <3>1. torn' \subseteq torn /\ torn \subseteq torn' \cup {x}
      BY <2>2
    <3> QED BY ONLY TimerIInv, x \in Timers, <2>2, <2>4, <2>5, <2>6, <2>7, <2>8, <3>1,
               TimerRemoved
  <2> QED BY <2>1, <2>9
<1>5. StopRemove(c) => at[c] \in Timers
  BY OneClient DEF StopRemove
<1> QED BY <1>2, <1>3, <1>4, <1>5 DEF TimerDetach, StartRemove, StopRemove, CallTimer

\* rt_timer_start computes the timeout tick, and rt_timer_stop the flags, of a
\* timer that is not linked.
LEMMA TimerUnlinked ==
  ASSUME TimerIInv, OneUser, NEW c \in Caller, StartTick(c) \/ StopClear(c)
  PROVE  TimerIInv' /\ LeftMap' = LeftMap /\ isr' = isr
<1> USE TimerFacts
<1>1. PICK x : x = at[c]
  OBVIOUS
<1>2. /\ step[c] \in {"start_tick", "stop_clear"}
      /\ rt_tick' = rt_tick /\ isr' = isr /\ rt_timer_list' = rt_timer_list
      /\ relinked' = relinked /\ exists' = exists /\ linked' = linked
      /\ torn' = torn
  BY DEF StartTick, StopClear, linked
<1>3. x \in Timers /\ x \notin linked /\ \A d \in Caller : at[d] = x => d = c
  BY <1>1, <1>2, OneClient DEF TimerIInv, Clients
<1>4. PICK table, new : table = timer /\ new = timer'
  OBVIOUS
<1>5. table \in [Timers -> TimerState] /\ table[x] \in TimerState
  BY <1>3, <1>4
<1>6. CASE StartTick(c)
  <2>1. PICK o : o = (rt_tick + timer[x].init_tick) % TickMod
    OBVIOUS
  <2>2. timer[x].init_tick \in InitTick /\ timer[x].activated \in BOOLEAN
    BY <1>4, <1>5 DEF TimerState
  <2>3. o \in Tick /\ Left(rt_tick, o) \in 1 .. MaxInit
    BY <2>1, <2>2, LeftAfterStart DEF InitTick
  <2>4. /\ step[c] = "start_tick" /\ step' = [step EXCEPT ![c] = "start_insert"]
        /\ at' = at /\ new = [table EXCEPT ![x].timeout_tick = o]
        /\ flag_new' = flag_new
    BY <1>1, <1>4, <1>6, <2>1 DEF StartTick
  <2>5. PICK f \in BOOLEAN : f = table[x].activated
    BY <1>4, <2>2
  <2>6. /\ new \in [Timers -> TimerState]
        /\ \A y \in Timers : y # x => new[y] = table[y]
        /\ new[x].activated = f /\ new[x].timeout_tick = o
    <3>1. \/ new = [table EXCEPT ![x].timeout_tick = o] /\ f = table[x].activated
          \/ new = [table EXCEPT ![x].activated = f] /\ o = table[x].timeout_tick
          \/ new = [table EXCEPT ![x].activated = f, ![x].timeout_tick = o]
          \/ new = [table EXCEPT ![x].timeout_tick = o, ![x].activated = f]
      BY <2>4, <2>5
    <3> QED BY ONLY <1>3, <1>5, <2>3, <2>5, <3>1, TimerUpdate
  <2>7. TimerTypeOK'
    BY <1>2, <1>4, <2>4, <2>6 DEF TimerTypeOK, TimerPC
  <2>8. Clients'
    BY <1>1, <1>2, <1>3, <2>4 DEF TimerIInv, Clients
  <2>9. Armed'
    <3>1. \A y \in exists : Unhandled(y)' => Unhandled(y) /\ y # x
      BY <1>1, <2>4 DEF Unhandled
    <3> QED BY <1>2, <1>4, <2>6, <3>1 DEF TimerIInv, Armed
  <2>10. ASSUME NEW d \in Caller, step'[d] = "start_insert"
         PROVE ticks_left(at[d])' >= -MaxDelay /\ ticks_left(at[d])' <= MaxInit
    <3>1. CASE d = c
      <4>1. ticks_left(at[d])' = Left(rt_tick, o)
        BY <1>1, <1>2, <1>4, <2>4, <2>6, <3>1 DEF ticks_left, minus, Left
      <4> QED BY <2>3, <4>1, TickBounds
    <3>2. CASE d # c
      <4>1. step[d] = "start_insert" /\ at[d] \in Timers \ {x} /\ at'[d] = at[d]
        BY <1>3, <2>4, <2>10, <3>2, OneClient
      <4>2. ticks_left(at[d])' = ticks_left(at[d])
        BY <1>2, <1>4, <2>6, <4>1 DEF ticks_left, minus
      <4> QED BY <4>1, <4>2 DEF TimerIInv, InTime
    <3> QED BY <3>1, <3>2
  <2>11. \A y \in linked' : timer'[y].timeout_tick = timer[y].timeout_tick
    BY <1>2, <1>3, <1>4, <2>6
  <2>12. /\ TimerIInv'
         /\ \A y \in Timers : LeftMap'[y] = IF y \in linked' THEN LeftMap[y] ELSE Off
    BY <1>2, <2>7, <2>8, <2>9, <2>10, <2>11, TimerKept DEF TimerIInv
  <2> QED BY <1>2, <2>12 DEF LeftMap
<1>7. CASE StopClear(c)
  <2>1. /\ step[c] = "stop_clear" /\ step' = [step EXCEPT ![c] = "flag_write"]
        /\ at' = at /\ timer' = timer
        /\ flag_new' = [flag_new EXCEPT ![c] = [activated |-> FALSE,
                                                periodic |-> timer[x].periodic]]
    BY <1>1, <1>7 DEF StopClear
  <2>2. [activated |-> FALSE, periodic |-> timer[x].periodic] \in FlagState
    BY <1>4, <1>5 DEF TimerState, FlagState
  <2>3. flag_new' \in [Caller -> FlagState] /\ ~flag_new'[c].activated
    BY <2>1, <2>2
  <2>4. TimerTypeOK'
    BY <1>2, <2>1, <2>3 DEF TimerTypeOK, TimerPC
  <2>5. Clients'
    BY <1>2, <2>1 DEF TimerIInv, Clients
  <2>6. Armed'
    <3>1. \A y \in exists : Unhandled(y)' => Unhandled(y)
      BY <1>1, <2>1, <2>3 DEF Unhandled
    <3> QED BY <1>2, <2>1, <3>1 DEF TimerIInv, Armed
  <2>7. \A d \in Caller : step'[d] = "start_insert" =>
          ticks_left(at[d])' >= -MaxDelay /\ ticks_left(at[d])' <= MaxInit
    <3>1. \A d \in Caller : step'[d] = "start_insert" =>
            /\ step[d] = "start_insert" /\ at'[d] = at[d]
            /\ timer'[at[d]].timeout_tick = timer[at[d]].timeout_tick
      BY <2>1
    <3> QED BY <1>2, <3>1, PendingKept
  <2>8. /\ TimerIInv'
        /\ \A y \in Timers : LeftMap'[y] = IF y \in linked' THEN LeftMap[y] ELSE Off
    BY <1>2, <2>1, <2>4, <2>5, <2>6, <2>7, TimerKept DEF TimerIInv
  <2> QED BY <1>2, <2>8 DEF LeftMap
<1> QED BY <1>6, <1>7

\* The flags are written: if that says the timer is activated, it did so before,
\* or the flag was cleared since they were read.
LEMMA TimerWrites ==
  ASSUME TimerIInv, OneUser, NEW c \in Caller, WriteFlag(c)
  PROVE  TimerIInv' /\ LeftMap' = LeftMap /\ isr' = isr
<1> USE TimerFacts
<1>1. PICK x : x = at[c]
  OBVIOUS
<1>2. PICK f : f = flag_new[c]
  OBVIOUS
<1>3. /\ rt_tick' = rt_tick /\ isr' = isr /\ rt_timer_list' = rt_timer_list
      /\ relinked' = relinked /\ exists' = exists /\ linked' = linked
      /\ step[c] = "flag_write" /\ step' = [step EXCEPT ![c] = "run"]
      /\ at' = [at EXCEPT ![c] = NoTimer]
      /\ flag_new' = [flag_new EXCEPT ![c] = NoFlag]
      /\ timer' = [timer EXCEPT ![x].activated = f.activated,
                                ![x].periodic = f.periodic]
      /\ torn' = IF f.activated
                 THEN torn \cup ({x} \ {y \in Timers : timer[y].activated})
                 ELSE torn \ {x}
  BY <1>1, <1>2 DEF WriteFlag, linked
<1>4. x \in Timers /\ \A d \in Caller : at[d] = x => d = c
  BY <1>1, <1>3, OneClient
<1>5. f \in FlagState /\ f.activated \in BOOLEAN /\ NoFlag \in FlagState
  BY <1>2 DEF FlagState, NoFlag
<1>6. PICK table, new : table = timer /\ new = timer'
  OBVIOUS
<1>7. /\ new \in [Timers -> TimerState]
      /\ \A y \in Timers : y # x => new[y] = table[y]
      /\ new[x].activated = f.activated
      /\ \A y \in Timers : new[y].timeout_tick = table[y].timeout_tick
  <2>1. table \in [Timers -> TimerState] /\ table[x] \in TimerState
    BY <1>4, <1>6
  <2>2. PICK v : /\ new = [table EXCEPT ![x] = v]
                 /\ v = [table[x] EXCEPT !.activated = f.activated,
                                         !.periodic = f.periodic]
    BY ONLY <1>3, <1>6, <2>1, <1>4
  <2>3. /\ v \in TimerState /\ v.activated = f.activated
        /\ v.timeout_tick = table[x].timeout_tick
    BY ONLY <1>5, <2>1, <2>2 DEF TimerState, FlagState
  <2> QED BY ONLY <1>4, <2>1, <2>2, <2>3
<1>8. TimerTypeOK'
  BY <1>3, <1>4, <1>5, <1>6, <1>7 DEF TimerTypeOK, TimerPC
<1>9. Clients'
  BY <1>3 DEF TimerIInv, Clients
<1>10. Armed'
  <2>1. \A y \in exists : y # x /\ Unhandled(y)' => Unhandled(y)
    BY <1>1, <1>3 DEF Unhandled
  <2>2. \A y \in exists : y # x => (y \in torn <=> y \in torn')
    BY <1>3
  <2>3. x \notin torn' /\ f.activated => x \notin torn /\ timer[x].activated
    BY <1>3, <1>4
  <2>4. f.activated => Unhandled(x)
    BY <1>2, <1>3, <1>4 DEF Unhandled
  <2> QED BY <1>3, <1>6, <1>7, <2>1, <2>2, <2>3, <2>4 DEF TimerIInv, Armed
<1>11. \A d \in Caller : step'[d] = "start_insert" =>
         ticks_left(at[d])' >= -MaxDelay /\ ticks_left(at[d])' <= MaxInit
  <2>1. \A d \in Caller : step'[d] = "start_insert" =>
          /\ step[d] = "start_insert" /\ at'[d] = at[d]
          /\ timer'[at[d]].timeout_tick = timer[at[d]].timeout_tick
    <3> SUFFICES ASSUME NEW d \in Caller, step'[d] = "start_insert"
                 PROVE  /\ step[d] = "start_insert" /\ at'[d] = at[d]
                        /\ timer'[at[d]].timeout_tick = timer[at[d]].timeout_tick
      OBVIOUS
    <3>1. step[d] = "start_insert" /\ at'[d] = at[d]
      BY <1>3
    <3>2. at[d] \in Timers
      BY <3>1, OneClient
    <3> QED BY <1>6, <1>7, <3>1, <3>2
  <2> QED BY <1>3, <2>1, PendingKept
<1>12. /\ TimerIInv'
       /\ \A y \in Timers : LeftMap'[y] = IF y \in linked' THEN LeftMap[y] ELSE Off
  BY <1>3, <1>6, <1>7, <1>8, <1>9, <1>10, <1>11, TimerKept DEF TimerIInv
<1> QED BY <1>3, <1>12 DEF LeftMap

\* Linking a timer, in rt_timer_start.
LEMMA TimerLinked ==
  ASSUME TimerIInv, NEW x \in Timers, x \in exists,
         NEW list \in Seq(Timers), IsInjective(list),
         ToSet(list) = linked \ {x}, Ordered(LeftTable, list),
         NEW tick \in Tick,
         Left(rt_tick, tick) >= -MaxDelay, Left(rt_tick, tick) <= MaxInit,
         rt_timer_list' = InsertAt(list, insert_position(list, tick), x),
         UNCHANGED <<rt_tick, isr, relinked, exists, flag_new>>, torn' \subseteq torn,
         timer' \in [Timers -> TimerState], timer'[x].timeout_tick = tick,
         \A y \in Timers : y # x => timer'[y].timeout_tick = timer[y].timeout_tick,
         step' \in [Caller -> TimerPC], at' \in [Caller -> Timers \cup {NoTimer}],
         linked' = linked \cup {x} => Clients' /\ Armed',
         \A d \in Caller : step'[d] = "start_insert" =>
           ticks_left(at[d])' >= -MaxDelay /\ ticks_left(at[d])' <= MaxInit
  PROVE  TimerIInv' /\ LeftMap' = [LeftMap EXCEPT ![x] = Left(rt_tick, tick)]
<1> USE TimerFacts
<1>1. PICK l : l = Left(rt_tick, tick)
  OBVIOUS
<1>2. l \in Int /\ l >= -MaxDelay /\ l <= MaxInit
  BY <1>1, LeftRange, TickBounds
<1>3. \A y \in Timers : ticks_left(y)' = IF y = x THEN l ELSE ticks_left(y)
  BY <1>1 DEF ticks_left, minus, Left
<1>4. PICK f : f = LeftTable'
  OBVIOUS
<1>5. /\ \A y \in Timers : f[y] \in Int
      /\ \A y \in ToSet(list) : f[y] = ticks_left(y)
      /\ f[x] = l
  BY <1>2, <1>3, <1>4 DEF LeftTable
<1>6. Ordered(f, list)
  <2>1. PICK g : g = LeftTable
    OBVIOUS
  <2>2. /\ Ordered(g, list) /\ 0 \in Int
        /\ \A y \in ToSet(list) : g[y] \in Int /\ f[y] = g[y] - 0
    BY <1>5, <2>1
  <2> QED BY ONLY <2>2, list \in Seq(Timers), OrderedSame
<1>7. \A y \in ToSet(list) : ticks_left(y) - l \in (-HalfMax) .. (HalfMax - 1)
  <2> SUFFICES ASSUME NEW y \in ToSet(list)
               PROVE  ticks_left(y) - l \in (-HalfMax) .. (HalfMax - 1)
    OBVIOUS
  <2>1. /\ ticks_left(y) \in Int /\ ticks_left(y) <= MaxInit
        /\ ticks_left(y) >= -MaxDelay - 1
    BY TickBounds DEF TimerIInv, InTime, Latest
  <2> QED BY ONLY <1>2, <2>1, TickBounds
<1>8. /\ rt_timer_list' \in Seq(Timers) /\ IsInjective(rt_timer_list')
      /\ ToSet(rt_timer_list') = ToSet(list) \cup {x}
      /\ Ordered(f, rt_timer_list')
  <2>1. PICK r : r = InsertAt(list, insert_position(list, tick), x)
    OBVIOUS
  <2>2. /\ TimerTypeOK /\ IsInjective(list) /\ x \notin ToSet(list)
        /\ \A y \in ToSet(list) :
             ticks_left(y) - Left(rt_tick, tick) \in (-HalfMax) .. (HalfMax - 1)
        /\ \A y \in Timers : f[y] \in Int
        /\ \A y \in ToSet(list) : f[y] = ticks_left(y)
        /\ f[x] = Left(rt_tick, tick) /\ Ordered(f, list)
    BY <1>1, <1>5, <1>6, <1>7
  <2>3. /\ r \in Seq(Timers) /\ IsInjective(r)
        /\ ToSet(r) = ToSet(list) \cup {x} /\ Ordered(f, r)
    BY ONLY <2>1, <2>2, InsertedList, list \in Seq(Timers), x \in Timers, tick \in Tick
  <2> QED BY <2>1, <2>3
<1>9. linked' = linked \cup {x}
  BY <1>8 DEF linked
<1>10. TimerTypeOK'
  BY <1>8 DEF TimerTypeOK
<1>11. InTime'
  <2>1. l >= Latest
    BY <1>2, TickBounds DEF Latest
  <2>2. Latest' = Latest
    BY DEF Latest
  <2>3. \A y \in linked' : ticks_left(y)' >= Latest' /\ ticks_left(y)' <= MaxInit
    BY <1>2, <1>3, <1>9, <2>1, <2>2 DEF TimerIInv, InTime
  <2> QED BY <2>3 DEF InTime
<1>12. Ordered(LeftTable, rt_timer_list)'
  BY <1>4, <1>8 DEF Ordered
<1>13. TimerIInv'
  BY <1>9, <1>10, <1>11, <1>12 DEF TimerIInv
<1>14. LeftMap' = [LeftMap EXCEPT ![x] = l]
  <2>1. \A y \in Timers : LeftMap'[y] = IF y = x THEN l ELSE LeftMap[y]
    BY <1>3, <1>9 DEF LeftMap
  <2> QED BY <2>1 DEF LeftMap
<1> QED BY <1>1, <1>13, <1>14

\* The second critical section of rt_timer_start: since nobody else uses the
\* timer, it is not linked.
LEMMA TimerStarts ==
  ASSUME TimerIInv, OneUser, NEW c \in Caller, StartInsert(c)
  PROVE  /\ TimerIInv' /\ at[c] \in Timers /\ isr = "none" /\ isr' = isr
         /\ \E l \in Int : LeftMap' = [LeftMap EXCEPT ![at[c]] = l]
<1> USE TimerFacts
<1>1. PICK x, tick : x = at[c] /\ tick = timer[x].timeout_tick
  OBVIOUS
<1>2. step[c] = "start_insert" /\ isr = "none"
  BY DEF StartInsert
<1>3. /\ x \in Timers /\ x \in exists /\ x \notin linked
      /\ \A d \in Caller : at[d] = x => d = c
  BY <1>1, <1>2, OneClient DEF TimerIInv, Clients
<1>4. /\ rt_timer_list' = InsertAt(rt_timer_list,
                                   insert_position(rt_timer_list, tick), x)
      /\ UNCHANGED <<rt_tick, isr, relinked, exists, flag_new, torn>>
      /\ timer' = [timer EXCEPT ![x].activated = TRUE]
      /\ step' = [step EXCEPT ![c] = "run"] /\ at' = [at EXCEPT ![c] = NoTimer]
  BY <1>1, <1>3 DEF StartInsert
<1>5. /\ tick \in Tick /\ ticks_left(x) = Left(rt_tick, tick)
      /\ Left(rt_tick, tick) >= -MaxDelay /\ Left(rt_tick, tick) <= MaxInit
      /\ Left(rt_tick, tick) \in Int
  BY <1>1, <1>2, <1>3, TicksLeft DEF TimerIInv, InTime
<1>6. PICK table, new : table = timer /\ new = timer'
  OBVIOUS
<1>7. /\ new \in [Timers -> TimerState] /\ new[x].timeout_tick = tick
      /\ \A y \in Timers : y # x => new[y] = table[y]
  <2>1. PICK flag \in BOOLEAN : flag = TRUE
    OBVIOUS
  <2>2. table \in [Timers -> TimerState]
    BY <1>6
  <2>3. \/ new = [table EXCEPT ![x].timeout_tick = tick]
             /\ flag = table[x].activated
        \/ new = [table EXCEPT ![x].activated = flag]
             /\ tick = table[x].timeout_tick
        \/ new = [table EXCEPT ![x].activated = flag, ![x].timeout_tick = tick]
        \/ new = [table EXCEPT ![x].timeout_tick = tick, ![x].activated = flag]
    BY <1>1, <1>4, <1>6, <2>1
  <2> QED BY ONLY <1>3, <1>5, <2>2, <2>3, TimerUpdate
<1>8. ToSet(rt_timer_list) = linked \ {x} /\ Ordered(LeftTable, rt_timer_list)
  BY <1>3 DEF linked, TimerIInv
<1>9. linked' = linked \cup {x} => Clients' /\ Armed'
  <2> SUFFICES ASSUME linked' = linked \cup {x} PROVE Clients' /\ Armed'
    OBVIOUS
  <2>1. Clients'
    BY <1>1, <1>3, <1>4 DEF TimerIInv, Clients
  <2>2. \A y \in exists : y # x => (Unhandled(y)' => Unhandled(y))
    BY <1>1, <1>4 DEF Unhandled
  <2>3. Armed'
    BY <1>4, <1>6, <1>7, <2>2 DEF TimerIInv, Armed
  <2> QED BY <2>1, <2>3
<1>10. \A d \in Caller : step'[d] = "start_insert" =>
         ticks_left(at[d])' >= -MaxDelay /\ ticks_left(at[d])' <= MaxInit
  <2>1. \A d \in Caller : step'[d] = "start_insert" =>
          /\ step[d] = "start_insert" /\ at'[d] = at[d]
          /\ timer'[at[d]].timeout_tick = timer[at[d]].timeout_tick
    BY <1>3, <1>4, <1>6, <1>7, OneClient
  <2> QED BY <1>4, <2>1, PendingKept
<1>11. /\ step' \in [Caller -> TimerPC] /\ at' \in [Caller -> Timers \cup {NoTimer}]
  BY <1>4 DEF TimerPC
<1>12. TimerIInv' /\ LeftMap' = [LeftMap EXCEPT ![x] = Left(rt_tick, tick)]
  <2>1. PICK list \in Seq(Timers) : list = rt_timer_list
    OBVIOUS
  <2>2. /\ TimerIInv /\ IsInjective(list) /\ ToSet(list) = linked \ {x}
        /\ Ordered(LeftTable, list)
        /\ rt_timer_list' = InsertAt(list, insert_position(list, tick), x)
    BY <1>4, <1>8, <2>1
  <2>3. /\ timer' \in [Timers -> TimerState] /\ timer'[x].timeout_tick = tick
        /\ \A y \in Timers : y # x =>
             timer'[y].timeout_tick = timer[y].timeout_tick
    BY <1>6, <1>7
  <2>4. /\ x \in Timers /\ x \in exists /\ list \in Seq(Timers) /\ tick \in Tick
        /\ Left(rt_tick, tick) >= -MaxDelay /\ Left(rt_tick, tick) <= MaxInit
        /\ UNCHANGED <<rt_tick, isr, relinked, exists, flag_new>>
        /\ torn' \subseteq torn
        /\ linked' = linked \cup {x} => Clients' /\ Armed'
    BY <1>3, <1>4, <1>5, <1>9
  <2> QED BY ONLY <1>10, <1>11, <2>2, <2>3, <2>4, TimerLinked
<1> QED BY <1>1, <1>2, <1>3, <1>4, <1>5, <1>12

\* A tick: every linked timer has one tick less left.
LEMMA TimerTick ==
  ASSUME TimerIInv, TickIncrease
  PROVE  /\ TimerIInv' /\ isr = "none" /\ isr' = "check"
         /\ linked' = linked
         /\ \A y \in linked : ticks_left(y)' = ticks_left(y) - 1
<1> USE TimerFacts
<1>1. /\ isr = "none" /\ isr' = "check" /\ rt_tick' = (rt_tick + 1) % TickMod
      /\ rt_timer_list' = rt_timer_list /\ timer' = timer /\ exists' = exists
      /\ step' = step /\ at' = at /\ relinked' = relinked /\ linked' = linked
      /\ flag_new' = flag_new /\ torn' = torn
      /\ \A c \in Caller : step[c] = "start_insert" => ticks_left(at[c]) > -MaxDelay
  BY DEF TickIncrease, linked
<1>2. ASSUME NEW y \in Timers, ticks_left(y) >= -MaxDelay
      PROVE  ticks_left(y)' = ticks_left(y) - 1 /\ rt_tick' \in Tick
  <2>1. PICK o : o = timer[y].timeout_tick
    OBVIOUS
  <2>2. o \in Tick /\ ticks_left(y) = Left(rt_tick, o)
    BY <2>1, TicksLeft
  <2>3. Left(rt_tick, o) > 1 - HalfMax
    BY <1>2, <2>2, TickBounds
  <2>4. rt_tick' \in Tick /\ Left(rt_tick', o) = Left(rt_tick, o) - 1
    BY <1>1, <2>2, <2>3, LeftAfterTick
  <2>5. ticks_left(y)' = Left(rt_tick', o)
    BY <1>1, <2>1 DEF ticks_left, minus, Left
  <2> QED BY <2>2, <2>4, <2>5
<1>3. \A y \in linked : ticks_left(y) >= -MaxDelay /\ ticks_left(y) <= MaxInit
  BY <1>1 DEF TimerIInv, InTime, Latest
<1>4. \A y \in linked : ticks_left(y)' = ticks_left(y) - 1
  BY <1>2, <1>3
<1>5. rt_tick' \in Tick
  <2>1. 1 \in Tick
    BY TickBounds DEF Tick
  <2> QED BY <1>1, <2>1, TickArithmetic
<1>6. TimerTypeOK'
  BY <1>1, <1>5 DEF TimerTypeOK, Tick
<1>7. Clients' /\ Armed'
  BY <1>1 DEF TimerIInv, Clients, Armed, Unhandled
<1>8. \A y \in linked' : ticks_left(y)' >= Latest' /\ ticks_left(y)' <= MaxInit
  <2> SUFFICES ASSUME NEW y \in linked
               PROVE  ticks_left(y)' >= Latest' /\ ticks_left(y)' <= MaxInit
    BY <1>1
  <2>1. Latest' = -MaxDelay - 1
    BY <1>1 DEF Latest
  <2>2. y \in Timers /\ ticks_left(y) \in Int
    OBVIOUS
  <2> QED BY <1>3, <1>4, <2>1, <2>2, TickBounds
<1>9. \A c \in Caller : step'[c] = "start_insert" =>
        ticks_left(at[c])' >= -MaxDelay /\ ticks_left(at[c])' <= MaxInit
  <2> SUFFICES ASSUME NEW c \in Caller, step[c] = "start_insert"
               PROVE  ticks_left(at[c])' >= -MaxDelay /\ ticks_left(at[c])' <= MaxInit
    BY <1>1
  <2>1. /\ at[c] \in Timers /\ ticks_left(at[c]) \in Int
        /\ ticks_left(at[c]) > -MaxDelay /\ ticks_left(at[c]) <= MaxInit
    BY <1>1 DEF TimerIInv, Clients, InTime
  <2>2. ticks_left(at[c])' = ticks_left(at[c]) - 1
    <3>1. PICK y \in Timers : y = at[c]
      BY <2>1
    <3>2. ticks_left(y) >= -MaxDelay
      BY <2>1, <3>1, TickBounds
    <3>3. ticks_left(y)' = ticks_left(y) - 1
      BY <1>2, <3>2
    <3>4. ticks_left(at[c])' = ticks_left(y)'
      BY <1>1, <3>1 DEF ticks_left
    <3> QED BY <3>1, <3>3, <3>4
  <2> QED BY <2>1, <2>2, TickBounds
<1>10. Ordered(LeftTable, rt_timer_list)'
  <2>1. PICK f, g, s : f = LeftTable /\ g = LeftTable' /\ s = rt_timer_list
    OBVIOUS
  <2>2. /\ s \in Seq(Timers) /\ Ordered(f, s) /\ 1 \in Int
        /\ \A y \in ToSet(s) : f[y] \in Int /\ g[y] = f[y] - 1
    BY <1>4, <2>1 DEF TimerIInv, linked, LeftTable
  <2>3. Ordered(g, s)
    BY ONLY <2>2, OrderedSame
  <2> QED BY <1>1, <2>1, <2>3 DEF Ordered
<1>11. InTime'
  BY <1>8, <1>9 DEF InTime
<1>12. TimerIInv'
  BY <1>1, <1>6, <1>7, <1>10, <1>11 DEF TimerIInv
<1> QED BY <1>1, <1>4, <1>12

\* The test of the loop of rt_timer_check, on the first timer, decides whether
\* any timer is due.
LEMMA FirstExpired ==
  ASSUME TimerIInv
  PROVE  /\ first_expired => /\ Head(rt_timer_list) \in linked
                             /\ ticks_left(Head(rt_timer_list)) <= 0
                             /\ \A y \in linked : ticks_left(Head(rt_timer_list))
                                                    <= ticks_left(y)
         /\ ~first_expired => \A y \in linked : ticks_left(y) > 0
<1> USE TimerFacts
<1>1. \A y \in Timers : expired(y) <=> ticks_left(y) <= 0
  <2> SUFFICES ASSUME NEW y \in Timers PROVE expired(y) <=> ticks_left(y) <= 0
    OBVIOUS
  <2>1. PICK o : o = timer[y].timeout_tick
    OBVIOUS
  <2>2. o \in Tick /\ ticks_left(y) = Left(rt_tick, o)
    BY <2>1, TicksLeft
  <2>3. expired(y) <=> (rt_tick - o) % TickMod < HalfMax
    BY <2>1 DEF expired, minus
  <2> QED BY <2>2, <2>3, LeftRange
<1>2. ASSUME rt_timer_list # << >>
      PROVE  /\ Head(rt_timer_list) \in linked
             /\ \A y \in linked : ticks_left(Head(rt_timer_list)) <= ticks_left(y)
  <2>1. /\ Len(rt_timer_list) \in Nat \ {0}
        /\ DOMAIN rt_timer_list = 1 .. Len(rt_timer_list)
        /\ Head(rt_timer_list) = rt_timer_list[1]
    BY <1>2, LenProperties, EmptySeq
  <2>2. 1 \in DOMAIN rt_timer_list
    BY <2>1
  <2>3. Head(rt_timer_list) \in linked
    BY <2>1, <2>2 DEF linked, ToSet
  <2>4. ASSUME NEW y \in linked
        PROVE  ticks_left(Head(rt_timer_list)) <= ticks_left(y)
    <3>1. PICK i \in DOMAIN rt_timer_list : rt_timer_list[i] = y
      BY DEF linked, ToSet
    <3>2. CASE i = 1
      BY <2>1, <3>1, <3>2
    <3>3. CASE i # 1
      <4>1. 1 < i
        BY <2>1, <3>3
      <4>2. LeftTable[rt_timer_list[1]] <= LeftTable[rt_timer_list[i]]
        BY <2>2, <4>1 DEF TimerIInv, Ordered
      <4>3. rt_timer_list[1] \in Timers /\ y \in Timers
        BY <2>1, <2>3
      <4> QED BY <2>1, <3>1, <4>2, <4>3
    <3> QED BY <3>2, <3>3
  <2> QED BY <2>3, <2>4
<1>3. CASE first_expired
  BY <1>1, <1>2, <1>3 DEF first_expired
<1>4. CASE ~first_expired
  <2>1. CASE rt_timer_list = << >>
    BY <1>4, <2>1
  <2>2. CASE rt_timer_list # << >>
    <3>1. PICK h : h = Head(rt_timer_list)
      OBVIOUS
    <3>2. h \in Timers /\ ticks_left(h) \in Int /\ ~(ticks_left(h) <= 0)
      BY <1>1, <1>2, <1>4, <2>2, <3>1 DEF first_expired
    <3>3. \A y \in linked : ticks_left(y) \in Int /\ ticks_left(h) <= ticks_left(y)
      BY <1>2, <2>2, <3>1
    <3> QED BY <1>4, <3>2, <3>3
  <2> QED BY <2>1, <2>2
<1> QED BY <1>3, <1>4

\* One turn of the loop of rt_timer_check: the timer that has least left is
\* due; it is unlinked, and linked again with its whole time if it is periodic
\* or if its timeout function starts it.
LEMMA TimerChecks ==
  ASSUME TimerIInv, NEW does \in Callback, CheckOne(does)
  PROVE  /\ TimerIInv' /\ isr = "check" /\ isr' = isr
         /\ \E x \in linked :
              /\ ticks_left(x) <= 0
              /\ \A y \in linked : ticks_left(x) <= ticks_left(y)
              /\ \/ LeftMap' = [LeftMap EXCEPT ![x] = Off]
                 \/ \E l \in Int : l > 0 /\ LeftMap' = [LeftMap EXCEPT ![x] = l]
<1> USE TimerFacts
<1>1. PICK x : x = Head(rt_timer_list)
  OBVIOUS
<1>2. PICK again \in BOOLEAN :
        again = (timer[x].periodic
                   /\ (does = "start" \/ (does = "none" /\ timer[x].activated)))
  OBVIOUS
<1>3. /\ isr = "check" /\ first_expired
      /\ UNCHANGED <<rt_tick, exists, isr, step, at, flag_new, relinked>>
      /\ torn' = torn \ {x}
      /\ \/ start_now(x, again)
         \/ /\ rt_timer_list' = removed(x)
            /\ timer' = [timer EXCEPT ![x].activated = FALSE,
                                      ![x].timeout_tick = 0]
  BY <1>1, <1>2 DEF CheckOne
<1>4. /\ x \in linked /\ x \in Timers /\ x \in exists /\ ticks_left(x) <= 0
      /\ \A y \in linked : ticks_left(x) <= ticks_left(y)
  BY <1>1, <1>3, FirstExpired DEF TimerIInv
<1>5. /\ removed(x) \in Seq(Timers) /\ IsInjective(removed(x))
      /\ ToSet(removed(x)) = linked \ {x} /\ Ordered(LeftTable, removed(x))
  BY RemovedList
<1>6. PICK table, new : table = timer /\ new = timer'
  OBVIOUS
<1>7. table \in [Timers -> TimerState] /\ table[x] \in TimerState
  BY <1>4, <1>6
<1>8. /\ step' \in [Caller -> TimerPC] /\ at' \in [Caller -> Timers \cup {NoTimer}]
  BY <1>3
<1>9. \A d \in Caller : step[d] = "start_insert" => at[d] \in Timers \ {x}
  BY <1>4 DEF TimerIInv, Clients, TimerPC
<1>10. ASSUME \A y \in Timers : y # x => new[y] = table[y]
       PROVE  \A d \in Caller : step'[d] = "start_insert" =>
                ticks_left(at[d])' >= -MaxDelay /\ ticks_left(at[d])' <= MaxInit
  <2>1. \A d \in Caller : step'[d] = "start_insert" =>
          /\ step[d] = "start_insert" /\ at'[d] = at[d]
          /\ timer'[at[d]].timeout_tick = timer[at[d]].timeout_tick
    BY <1>3, <1>6, <1>9, <1>10
  <2> QED BY <1>3, <2>1, PendingKept
<1>11. CASE start_now(x, again)
  <2>1. PICK tick, list :
          /\ tick = (rt_tick + timer[x].init_tick) % TickMod
          /\ list = removed(x)
    OBVIOUS
  <2>2. /\ rt_timer_list' = InsertAt(list, insert_position(list, tick), x)
        /\ timer' = [timer EXCEPT ![x].timeout_tick = tick, ![x].activated = again]
    BY <1>11, <2>1 DEF start_now
  <2>3. tick \in Tick /\ Left(rt_tick, tick) \in 1 .. MaxInit
    <3>1. timer[x].init_tick \in InitTick
      BY <1>6, <1>7 DEF TimerState
    <3> QED BY <2>1, <3>1, LeftAfterStart DEF InitTick
  <2>4. /\ new \in [Timers -> TimerState]
        /\ \A y \in Timers : y # x => new[y] = table[y]
        /\ new[x].activated = again /\ new[x].timeout_tick = tick
    <3>1. \/ new = [table EXCEPT ![x].timeout_tick = tick]
               /\ again = table[x].activated
          \/ new = [table EXCEPT ![x].activated = again]
               /\ tick = table[x].timeout_tick
          \/ new = [table EXCEPT ![x].activated = again, ![x].timeout_tick = tick]
          \/ new = [table EXCEPT ![x].timeout_tick = tick, ![x].activated = again]
      BY <1>6, <2>2
    <3>2. /\ table \in [Timers -> TimerState] /\ x \in Timers
          /\ tick \in Tick /\ again \in BOOLEAN
      BY <1>4, <1>7, <2>3
    <3> QED BY ONLY <3>1, <3>2, TimerUpdate
  <2>5. linked' = linked \cup {x} => Clients' /\ Armed'
    <3> SUFFICES ASSUME linked' = linked \cup {x} PROVE Clients' /\ Armed'
      OBVIOUS
    <3>1. linked' = linked
      BY <1>4
    <3>2. \A y \in exists : Unhandled(y)' = Unhandled(y)
      BY <1>3 DEF Unhandled
    <3> QED BY <1>3, <1>4, <1>6, <2>4, <3>1, <3>2 DEF TimerIInv, Clients, Armed
  <2>6. TimerIInv' /\ LeftMap' = [LeftMap EXCEPT ![x] = Left(rt_tick, tick)]
    <3>1. /\ TimerIInv /\ x \in Timers /\ x \in exists
          /\ list \in Seq(Timers) /\ IsInjective(list)
          /\ ToSet(list) = linked \ {x} /\ Ordered(LeftTable, list)
          /\ tick \in Tick
          /\ Left(rt_tick, tick) >= -MaxDelay /\ Left(rt_tick, tick) <= MaxInit
          /\ rt_timer_list' = InsertAt(list, insert_position(list, tick), x)
          /\ UNCHANGED <<rt_tick, isr, relinked, exists, flag_new>>
          /\ torn' \subseteq torn
          /\ linked' = linked \cup {x} => Clients' /\ Armed'
      BY <1>3, <1>4, <1>5, <2>1, <2>2, <2>3, <2>5, TickBounds
    <3>2. /\ timer' \in [Timers -> TimerState] /\ timer'[x].timeout_tick = tick
          /\ \A y \in Timers : y # x =>
               timer'[y].timeout_tick = timer[y].timeout_tick
      BY <1>6, <2>4
    <3>3. \A d \in Caller : step'[d] = "start_insert" =>
            ticks_left(at[d])' >= -MaxDelay /\ ticks_left(at[d])' <= MaxInit
      BY <1>10, <2>4
    <3> QED BY ONLY <1>8, <3>1, <3>2, <3>3, TimerLinked
  <2>7. Left(rt_tick, tick) \in Int /\ Left(rt_tick, tick) > 0
    BY <2>3, TickBounds
  <2> QED BY <1>3, <1>4, <2>6, <2>7
<1>12. CASE /\ rt_timer_list' = removed(x)
            /\ timer' = [timer EXCEPT ![x].activated = FALSE,
                                      ![x].timeout_tick = 0]
  <2>1. PICK flag \in BOOLEAN : flag = FALSE
    OBVIOUS
  <2>2. 0 \in Tick
    BY TickBounds DEF Tick
  <2>3. /\ new \in [Timers -> TimerState]
        /\ \A y \in Timers : y # x => new[y] = table[y]
        /\ new[x].activated = flag /\ new[x].timeout_tick = 0
    <3>1. \/ new = [table EXCEPT ![x].timeout_tick = 0] /\ flag = table[x].activated
          \/ new = [table EXCEPT ![x].activated = flag] /\ 0 = table[x].timeout_tick
          \/ new = [table EXCEPT ![x].activated = flag, ![x].timeout_tick = 0]
          \/ new = [table EXCEPT ![x].timeout_tick = 0, ![x].activated = flag]
      BY <1>6, <1>12, <2>1
    <3> QED BY ONLY <1>4, <1>7, <2>1, <2>2, <3>1, TimerUpdate
  <2>4. linked' = linked \ {x}
    BY <1>5, <1>12 DEF linked
  <2>5. TimerTypeOK'
    BY <1>3, <1>5, <1>6, <1>12, <2>3 DEF TimerTypeOK
  <2>6. Clients' /\ Armed'
    <3>1. Clients'
      BY <1>3, <2>4 DEF TimerIInv, Clients
    <3>2. Armed'
      <4>1. \A y \in exists : Unhandled(y)' = Unhandled(y)
        BY <1>3 DEF Unhandled
      <4> QED BY <1>3, <1>6, <2>1, <2>3, <2>4, <4>1 DEF TimerIInv, Armed
    <3> QED BY <3>1, <3>2
  <2>7. \A d \in Caller : step'[d] = "start_insert" =>
          ticks_left(at[d])' >= -MaxDelay /\ ticks_left(at[d])' <= MaxInit
    BY <1>10, <2>3
  <2>8. \A y \in linked' : timer'[y].timeout_tick = timer[y].timeout_tick
    BY <1>6, <2>3, <2>4
  <2>9. /\ relinked' = relinked /\ rt_tick' = rt_tick /\ isr' = isr
        /\ linked' \subseteq exists' /\ linked' \subseteq linked
        /\ Ordered(LeftTable, rt_timer_list')
    BY <1>3, <1>5, <1>12, <2>4 DEF TimerIInv
  <2>10. /\ TimerIInv'
         /\ \A y \in Timers : LeftMap'[y] = IF y \in linked' THEN LeftMap[y] ELSE Off
    BY <2>5, <2>6, <2>7, <2>8, <2>9, TimerKept
  <2>11. \A y \in Timers : y \notin linked => LeftMap[y] = Off
    BY DEF LeftMap
  <2>12. \A y \in Timers : LeftMap'[y] = IF y = x THEN Off ELSE LeftMap[y]
    BY <2>4, <2>10, <2>11
  <2>13. LeftMap' = [LeftMap EXCEPT ![x] = Off]
    BY <2>12 DEF LeftMap
  <2> QED BY <1>3, <1>4, <2>10, <2>13
<1> QED BY <1>3, <1>11, <1>12

\* rt_timer_check ends when no timer is due.
LEMMA TimerCheckEnds ==
  ASSUME TimerIInv, CheckEnd
  PROVE  /\ TimerIInv' /\ isr = "check" /\ isr' = "none" /\ LeftMap' = LeftMap
         /\ \A y \in linked : ticks_left(y) > 0
<1> USE TimerFacts
<1>1. /\ isr = "check" /\ isr' = "none" /\ ~first_expired
      /\ UNCHANGED <<rt_tick, rt_timer_list, timer, exists, step, at, flag_new,
                     relinked, torn>>
  BY DEF CheckEnd
<1>2. \A y \in linked : ticks_left(y) > 0
  BY <1>1, FirstExpired
<1>3. \A y \in Timers : ticks_left(y)' = ticks_left(y)
  BY <1>1 DEF ticks_left, minus
<1>4. linked' = linked
  BY <1>1 DEF linked
<1>5. TimerTypeOK' /\ Clients' /\ Armed'
  BY <1>1, <1>4 DEF TimerIInv, TimerTypeOK, Clients, Armed, Unhandled
<1>6. \A y \in linked : ticks_left(y) \in Int /\ ticks_left(y) >= -MaxDelay
  BY <1>2, TickBounds
<1>7. InTime'
  <2>1. Latest' = -MaxDelay
    BY <1>1 DEF Latest
  <2>2. \A y \in linked' : ticks_left(y)' >= Latest' /\ ticks_left(y)' <= MaxInit
    BY <1>3, <1>4, <1>6, <2>1 DEF TimerIInv, InTime
  <2>3. \A d \in Caller : step[d] = "start_insert" => at[d] \in Timers
    BY DEF TimerIInv, Clients, TimerPC
  <2>4. \A d \in Caller : step'[d] = "start_insert" =>
          ticks_left(at[d])' >= -MaxDelay /\ ticks_left(at[d])' <= MaxInit
    <3>1. \A d \in Caller : step'[d] = "start_insert" =>
            /\ step[d] = "start_insert" /\ at'[d] = at[d]
            /\ timer'[at[d]].timeout_tick = timer[at[d]].timeout_tick
      BY <1>1
    <3> QED BY <1>1, <3>1, PendingKept
  <2> QED BY <2>2, <2>4 DEF InTime
<1>8. Ordered(LeftTable, rt_timer_list)'
  <2>1. LeftTable' = LeftTable
    BY <1>3 DEF LeftTable
  <2> QED BY <1>1, <2>1 DEF TimerIInv, Ordered
<1>9. TimerIInv'
  BY <1>1, <1>4, <1>5, <1>7, <1>8 DEF TimerIInv
<1>10. LeftMap' = LeftMap
  BY <1>3, <1>4 DEF LeftMap
<1> QED BY <1>1, <1>2, <1>9, <1>10

\* The steps of the abstract timers, for what the list says they have left.
LEMMA AbstractTimers ==
  /\ LeftMap' = LeftMap /\ isr' = isr => UNCHANGED Abstract!absVars
  /\ \A x \in Timers :
       /\ isr = "none" /\ isr' = isr
       /\ LeftMap' = [LeftMap EXCEPT ![x] = Off]
      => Abstract!AbsNext
  /\ \A x \in Timers, l \in Int :
       /\ isr = "none" /\ isr' = isr
       /\ LeftMap' = [LeftMap EXCEPT ![x] = l]
      => Abstract!AbsNext
  /\ /\ isr = "none" /\ isr' = "check"
     /\ LeftMap' = [x \in Timers |-> IF LeftMap[x] # Off THEN LeftMap[x] - 1 ELSE Off]
    => Abstract!AbsNext
  /\ \A x \in Timers :
       /\ isr = "check" /\ isr' = isr /\ LeftMap[x] # Off /\ LeftMap[x] <= 0
       /\ \A y \in Timers : LeftMap[y] # Off => LeftMap[x] <= LeftMap[y]
       /\ \/ LeftMap' = [LeftMap EXCEPT ![x] = Off]
          \/ \E l \in Int : l > 0 /\ LeftMap' = [LeftMap EXCEPT ![x] = l]
      => Abstract!AbsNext
  /\ /\ isr = "check" /\ isr' = "none" /\ LeftMap' = LeftMap
     /\ \A x \in Timers : LeftMap[x] # Off => LeftMap[x] > 0
    => Abstract!AbsNext
<1> DEFINE m == LeftMap
<1>1. m' = m /\ isr' = isr => UNCHANGED Abstract!absVars
  BY DEF Abstract!absVars, LeftMap
<1>2. ASSUME NEW x \in Timers, isr = "none", isr' = isr, m' = [m EXCEPT ![x] = Off]
      PROVE  Abstract!AbsNext
  <2>1. Abstract!Stop(x)
    BY <1>2 DEF Abstract!Stop, LeftMap
  <2> QED BY <2>1 DEF Abstract!AbsNext
<1>3. ASSUME NEW x \in Timers, NEW l \in Int, isr = "none", isr' = isr,
             m' = [m EXCEPT ![x] = l]
      PROVE  Abstract!AbsNext
  <2>1. m'[x] = l
    BY <1>3 DEF LeftMap
  <2>2. Abstract!Start(x)
    BY <1>3, <2>1 DEF Abstract!Start, LeftMap
  <2> QED BY <2>2 DEF Abstract!AbsNext
<1>4. ASSUME isr = "none", isr' = "check",
             m' = [x \in Timers |-> IF m[x] # Off THEN m[x] - 1 ELSE Off]
      PROVE  Abstract!AbsNext
  <2>1. Abstract!Tick
    BY <1>4 DEF Abstract!Tick, Abstract!Running, LeftMap
  <2> QED BY <2>1 DEF Abstract!AbsNext
<1>5. ASSUME NEW x \in Timers, isr = "check", isr' = isr, m[x] # Off, m[x] <= 0,
             \A y \in Timers : m[y] # Off => m[x] <= m[y],
             \/ m' = [m EXCEPT ![x] = Off]
             \/ \E l \in Int : l > 0 /\ m' = [m EXCEPT ![x] = l]
      PROVE  Abstract!AbsNext
  <2>1. \/ m' = [m EXCEPT ![x] = Off]
        \/ /\ m'[x] \in Int /\ m'[x] > 0
           /\ m' = [m EXCEPT ![x] = m'[x]]
    BY <1>5 DEF LeftMap
  <2>2. Abstract!Fire(x)
    BY <1>5, <2>1 DEF Abstract!Fire, Abstract!Running, LeftMap
  <2> QED BY <2>2 DEF Abstract!AbsNext
<1>6. ASSUME isr = "check", isr' = "none", m' = m,
             \A x \in Timers : m[x] # Off => m[x] > 0
      PROVE  Abstract!AbsNext
  <2>1. Abstract!EndCheck
    BY <1>6 DEF Abstract!EndCheck, Abstract!Running, LeftMap
  <2> QED BY <2>1 DEF Abstract!AbsNext
<1> QED BY <1>1, <1>2, <1>3, <1>4, <1>5, <1>6

LEMMA InitTimers == TimersInit => TimerIInv /\ Abstract!AbsInit
<1> SUFFICES ASSUME TimersInit PROVE TimerIInv /\ Abstract!AbsInit
  OBVIOUS
<1>1. /\ linked = {} /\ << >> \in Seq(Timers) /\ IsInjective(<< >>)
      /\ DOMAIN rt_timer_list = {}
  <2>1. rt_timer_list = << >>
    BY DEF TimersInit
  <2>2. linked = {}
    BY <2>1 DEF linked, ToSet
  <2>3. << >> \in Seq(Timers) /\ DOMAIN << >> = {}
    OBVIOUS
  <2>4. IsInjective(<< >>)
    BY <2>3 DEF IsInjective
  <2> QED BY <2>1, <2>2, <2>3, <2>4
<1>2. [activated |-> FALSE, periodic |-> FALSE, init_tick |-> 1,
       timeout_tick |-> 0] \in TimerState
  BY TickBounds DEF TimerState, InitTick
<1>3. TimerTypeOK
  <2>1. timer \in [Timers -> TimerState]
    BY <1>2 DEF TimersInit
  <2>2. 0 \in 0 .. (TickMod - 1)
    BY TickBounds
  <2>3. flag_new \in [Caller -> FlagState]
    BY DEF TimersInit, FlagState, NoFlag
  <2> QED BY <1>1, <2>1, <2>2, <2>3 DEF TimerTypeOK, TimersInit, TimerPC
<1>4. Clients /\ Armed /\ InTime
  BY <1>1, TimerAssumption DEF TimersInit, Clients, Armed, InTime
<1>5. Ordered(LeftTable, rt_timer_list)
  BY <1>1 DEF Ordered
<1>6. TimerIInv
  BY <1>1, <1>3, <1>4, <1>5 DEF TimerIInv, TimersInit
<1>7. Abstract!AbsInit
  BY <1>1 DEF Abstract!AbsInit, TimersInit
<1> QED BY <1>6, <1>7

\* Every step keeps the invariant, and is a step of the abstract timers or none.
LEMMA TimerKeeps ==
  ASSUME TimerIInv, OneUser, [TimerNext]_timervars
  PROVE  TimerIInv' /\ [Abstract!AbsNext]_(Abstract!absVars)
<1> USE TimerFacts
<1>1. CASE UNCHANGED timervars
  <2>1. /\ UNCHANGED <<rt_tick, rt_timer_list, timer, exists, isr, step, at>>
        /\ UNCHANGED <<flag_new, relinked, torn>> /\ linked' = linked
    BY <1>1 DEF timervars, linked
  <2>2. \A y \in Timers : ticks_left(y)' = ticks_left(y)
    BY <2>1 DEF ticks_left, minus
  <2>3. LeftMap' = LeftMap /\ LeftTable' = LeftTable
    BY <2>1, <2>2 DEF LeftMap, LeftTable
  <2>4. TimerTypeOK' /\ Clients' /\ Armed'
    BY <2>1 DEF TimerIInv, TimerTypeOK, Clients, Armed, Unhandled
  <2>5. \A d \in Caller : step'[d] = "start_insert" =>
          ticks_left(at[d])' >= -MaxDelay /\ ticks_left(at[d])' <= MaxInit
    BY <2>1, PendingKept
  <2>6. InTime'
    <3>1. Latest' = Latest
      BY <2>1 DEF Latest
    <3> QED BY <2>1, <2>2, <2>5, <3>1 DEF TimerIInv, InTime
  <2>7. Ordered(LeftTable, rt_timer_list)'
    BY <2>1, <2>3 DEF TimerIInv, Ordered
  <2> QED BY <2>1, <2>3, <2>4, <2>6, <2>7, AbstractTimers DEF TimerIInv
<1>2. ASSUME NEW c \in Caller, NEW x \in Timers,
             \/ \E n \in InitTick, periodic \in BOOLEAN :
                  \/ TimerInit(c, x, n, periodic)
                  \/ ControlTime(c, x, n)
                  \/ ControlFlag(c, x, periodic)
             \/ StopTest(c, x)
      PROVE  TimerIInv' /\ [Abstract!AbsNext]_(Abstract!absVars)
  <2>1. TimerIInv' /\ LeftMap' = LeftMap /\ isr' = isr
    BY <1>2, TimerCalls
  <2> QED BY <2>1, AbstractTimers
<1>3. ASSUME NEW c \in Caller, NEW x \in Timers, TimerDetach(c, x) \/ StartRemove(c, x)
      PROVE  TimerIInv' /\ [Abstract!AbsNext]_(Abstract!absVars)
  <2>1. /\ TimerIInv' /\ LeftMap' = [LeftMap EXCEPT ![x] = Off]
        /\ isr = "none" /\ isr' = isr
    BY <1>3, TimerStops
  <2> QED BY <2>1, AbstractTimers
<1>4. ASSUME NEW c \in Caller,
             \/ StartTick(c) \/ StartInsert(c)
             \/ StopRemove(c) \/ StopClear(c) \/ WriteFlag(c)
      PROVE  TimerIInv' /\ [Abstract!AbsNext]_(Abstract!absVars)
  <2>1. CASE StartTick(c) \/ StopClear(c)
    <3>1. TimerIInv' /\ LeftMap' = LeftMap /\ isr' = isr
      BY <2>1, TimerUnlinked
    <3> QED BY <3>1, AbstractTimers
  <2>2. CASE StartInsert(c)
    <3>1. /\ TimerIInv' /\ at[c] \in Timers /\ isr = "none" /\ isr' = isr
          /\ \E l \in Int : LeftMap' = [LeftMap EXCEPT ![at[c]] = l]
      BY <2>2, TimerStarts
    <3> QED BY <3>1, AbstractTimers
  <2>3. CASE StopRemove(c)
    <3>1. /\ TimerIInv' /\ LeftMap' = [LeftMap EXCEPT ![at[c]] = Off]
          /\ isr = "none" /\ isr' = isr /\ at[c] \in Timers
      BY <2>3, TimerStops
    <3> QED BY <3>1, AbstractTimers
  <2>4. CASE WriteFlag(c)
    <3>1. TimerIInv' /\ LeftMap' = LeftMap /\ isr' = isr
      BY <2>4, TimerWrites
    <3> QED BY <3>1, AbstractTimers
  <2> QED BY <1>4, <2>1, <2>2, <2>3, <2>4
<1>5. ASSUME TickIncrease
      PROVE  TimerIInv' /\ [Abstract!AbsNext]_(Abstract!absVars)
  <2>1. /\ TimerIInv' /\ isr = "none" /\ isr' = "check" /\ linked' = linked
        /\ \A y \in linked : ticks_left(y)' = ticks_left(y) - 1
    BY <1>5, TimerTick
  <2>2. Off \notin Int
    BY TimerAssumption
  <2>3. LeftMap' =
          [x \in Timers |-> IF LeftMap[x] # Off THEN LeftMap[x] - 1 ELSE Off]
    BY <2>1, <2>2 DEF LeftMap
  <2> QED BY <2>1, <2>3, AbstractTimers
<1>6. ASSUME NEW does \in Callback, CheckOne(does)
      PROVE  TimerIInv' /\ [Abstract!AbsNext]_(Abstract!absVars)
  <2>1. TimerIInv' /\ isr = "check" /\ isr' = isr
    BY <1>6, TimerChecks
  <2>2. PICK x \in linked :
          /\ ticks_left(x) <= 0
          /\ \A y \in linked : ticks_left(x) <= ticks_left(y)
          /\ \/ LeftMap' = [LeftMap EXCEPT ![x] = Off]
             \/ \E l \in Int : l > 0 /\ LeftMap' = [LeftMap EXCEPT ![x] = l]
    BY <1>6, TimerChecks
  <2>3. /\ x \in Timers /\ LeftMap[x] # Off /\ LeftMap[x] <= 0
        /\ \A y \in Timers : LeftMap[y] # Off => LeftMap[x] <= LeftMap[y]
    BY <2>2, TimerAssumption DEF LeftMap
  <2> QED BY <2>1, <2>2, <2>3, AbstractTimers
<1>7. ASSUME CheckEnd
      PROVE  TimerIInv' /\ [Abstract!AbsNext]_(Abstract!absVars)
  <2>1. /\ TimerIInv' /\ isr = "check" /\ isr' = "none" /\ LeftMap' = LeftMap
        /\ \A y \in linked : ticks_left(y) > 0
    BY <1>7, TimerCheckEnds
  <2>2. \A x \in Timers : LeftMap[x] # Off => LeftMap[x] > 0
    BY <2>1 DEF LeftMap
  <2> QED BY <2>1, <2>2, AbstractTimers
<1> QED BY <1>1, <1>2, <1>3, <1>4, <1>5, <1>6, <1>7 DEF TimerNext, TimerSteps

\* The timer list is sorted by what is left and holds every timer that is
\* activated, unless rt_timer_control brought back a flag that had been cleared
\* since it read it, and no timer is linked twice, whatever the clients of rt_timer_start
\* and rt_timer_stop and the tick interrupt do between each other's critical
\* sections, as long as no two clients use the same timer.
THEOREM TimersSorted == OneUser /\ TimerSpec => []SortedByTimeout
<1>1. OneUser /\ TimerIInv => SortedByTimeout
  <2> SUFFICES ASSUME TimerIInv PROVE SortedByTimeout
    OBVIOUS
  <2>1. \A i \in DOMAIN rt_timer_list :
          LeftTable[rt_timer_list[i]] = ticks_left(rt_timer_list[i])
    <3>1. \A i \in DOMAIN rt_timer_list : rt_timer_list[i] \in linked
      BY DEF linked, ToSet
    <3> QED BY <3>1, TimerFacts
  <2>2. \A x \in exists : Quiet(x) => Unhandled(x)
    BY DEF Quiet, Unhandled
  <2> QED BY <2>1, <2>2 DEF SortedByTimeout, TimerIInv, Ordered, Armed
<1>2. OneUser /\ TimersInit => OneUser /\ TimerIInv
  BY InitTimers
<1>3. OneUser /\ TimerIInv /\ [TimerNext]_timervars => (OneUser /\ TimerIInv)'
  BY TimerKeeps DEF OneUser
<1> QED BY <1>1, <1>2, <1>3, PTL DEF TimerSpec

\* The timers fire when they are due, the most overdue first, although the tick
\* wraps around: under the same condition timer.c implements AbstractTimer.
THEOREM TimersRefinement == OneUser /\ TimerSpec => ImplementsTimers
<1>1. OneUser /\ TimersInit => OneUser /\ TimerIInv /\ Abstract!AbsInit
  BY InitTimers
<1>2. OneUser /\ TimerIInv /\ [TimerNext]_timervars
        => (OneUser /\ TimerIInv)' /\ [Abstract!AbsNext]_(Abstract!absVars)
  BY TimerKeeps DEF OneUser
<1> QED BY <1>1, <1>2, PTL DEF TimerSpec, ImplementsTimers, Abstract!AbsSpec
=============================================================================
