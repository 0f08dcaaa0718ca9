---------------------------- MODULE MemoryProofs ------------------------------
(***************************************************************************)
(* The memory pool, for every finite set of blocks and every set of        *)
(* threads, with or without timeouts, interrupt handlers and a detach:     *)
(* every block is free or has one holder, no wake-up is lost, and a detach *)
(* leaves none of those behind who waited when it began.                   *)
(*                                                                         *)
(* Then the heap, for every size of the pool, every set of clients and all *)
(* their requests: splits and merges keep the chain, the free list and the *)
(* count of what is free together, a block stays its client's own, and an  *)
(* allocation fails only when no free block is large enough.               *)
(*                                                                         *)
(* Last the ring buffer, for every size: it holds what was written and not *)
(* yet read.                                                               *)
(***************************************************************************)
EXTENDS MemPool, MemHeap, Ring, KernelProofs

-----------------------------------------------------------------------------
(* The inductive invariant.                                                *)

\* The counter is the length of the free list, and every block is free or has
\* exactly one holder.
OneHolder ==
  /\ block_free_count = Len(block_list)
  /\ IsInjective(block_list)
  /\ \A b \in Block :
       IF b \in ToSet(block_list)
       THEN \A h \in Holder : b \notin held[h]
       ELSE \E h \in Holder : /\ b \in held[h]
                              /\ \A g \in Holder : b \in held[g] => g = h

\* Who runs: tidle never blocks, the scheduler is never locked, and the running
\* thread is ready except between its suspension and the rt_schedule() that
\* follows.
Running ==
  /\ k.stat[Idle] = "ready" /\ k.nest = 0
  /\ k.stat[k.cur] = "ready" \/ pc[k.cur] = "wait"

\* The suspended threads are the waiters; a waiter is inside rt_mp_alloc and has
\* no error yet; and suspend_thread_count, which timeouts never lower, is not
\* below the number of waiters.
Waiting ==
  /\ \A t \in Thread : k.stat[t] = "suspend" => t \in waiters
  /\ \A t \in waiters : pc[t] \in {"wait", "woken"} /\ k.err[t] = "eok"
  /\ Len(k.wait[Pool]) <= suspend_thread_count

\* The threads on their way to the free blocks, which NoLostWakeup counts.
Trying == {t \in Thread : TriesAgain(t)}

\* A thread that will not wait for this pool again.
GivesUp(t) ==
  pc[t] # "retry" /\ (pc[t] \in {"wait", "woken"} => k.err[t] # "eok")

\* Whoever waited when the detach began waits still or gives up, and once the
\* detach has returned nobody of them waits.
Doomed ==
  ~alive =>
    /\ \A t \in doomed : t \in waiters \/ GivesUp(t)
    /\ (\A t \in Thread : pc[t] \notin {"detach_test", "detach_body"}) =>
         doomed \cap waiters = {}

IInv ==
  /\ TypeOK /\ KInv(k)
  /\ OneHolder
  /\ Running
  /\ Waiting
  /\ IsFiniteSet(Trying) /\ NoLostWakeup
  /\ Doomed
\* Facts every step starts from.
LEMMA IInvFacts ==
  ASSUME IInv
  PROVE  /\ k \in KernelState /\ KInv(k) /\ Idle \in Thread /\ Queue = {Pool}
         /\ Pool \in Queue /\ k.cur \in Thread /\ k.nest = 0
         /\ k.wait[Pool] \in Seq(Thread) /\ IsInjective(k.wait[Pool])
         /\ waiters \subseteq Thread
         /\ k.stat \in [Thread -> Stat] /\ k.err \in [Thread -> Err]
         /\ pc \in [Thread -> PC] /\ doomed \subseteq Thread
         /\ \A t \in Thread : t \in waiters <=> k.stat[t] = "suspend"
<1>1. /\ k \in KernelState /\ KInv(k) /\ Idle \in Thread /\ Queue = {Pool}
      /\ k.nest = 0 /\ pc \in [Thread -> PC] /\ doomed \subseteq Thread
  BY KernelAssumption, MemPoolAssumption DEF IInv, TypeOK, Running
<1>2. /\ k.cur \in Thread /\ k.wait[Pool] \in Seq(Thread)
      /\ k.stat \in [Thread -> Stat] /\ k.err \in [Thread -> Err]
  BY <1>1 DEF KernelState
<1>3. IsInjective(k.wait[Pool])
  BY <1>1 DEF KInv, NoDuplicates
<1>4. waiters \subseteq Thread
  BY <1>2, ListElements DEF waiters
<1>5. \A t \in Thread : t \in waiters <=> k.stat[t] = "suspend"
  BY <1>1 DEF IInv, Waiting, KInv, WaitLists, waiters
<1> QED BY <1>1, <1>2, <1>3, <1>4, <1>5

-----------------------------------------------------------------------------
(* Blocks.                                                                 *)

\* Taking the first free block: whoever takes it is its only holder.
LEMMA TakeConserves ==
  ASSUME IInv, NEW h \in Holder, take_block(h)
  PROVE  /\ OneHolder'
         /\ block_list' \in Seq(Block)
         /\ block_free_count' \in 0 .. Cardinality(Block)
         /\ held' \in [Holder -> SUBSET Block]
         /\ block_free_count' = block_free_count - 1
         /\ suspend_thread_count' = suspend_thread_count
<1> DEFINE c == Head(block_list)
<1>1. /\ block_list \in Seq(Block) /\ IsInjective(block_list)
      /\ block_free_count = Len(block_list) /\ Len(block_list) \in Nat
      /\ block_free_count \in 0 .. Cardinality(Block)
      /\ held \in [Holder -> SUBSET Block]
      /\ Cardinality(Block) \in Nat
  BY MemPoolAssumption, FS_CardinalityType DEF IInv, OneHolder, TypeOK
<1>2. /\ block_free_count > 0
      /\ block_free_count' = block_free_count - 1
      /\ held' = [held EXCEPT ![h] = held[h] \cup {c}]
      /\ block_list' = Tail(block_list)
      /\ suspend_thread_count' = suspend_thread_count
  BY DEF take_block
<1>3. block_list # << >>
  BY <1>1, <1>2
<1>4. /\ block_list' \in Seq(Block)
      /\ Len(block_list') = Len(block_list) - 1
      /\ IsInjective(block_list')
      /\ ToSet(block_list') = ToSet(block_list) \ {c}
  BY <1>1, <1>2, <1>3, TailDistinct
<1>5. c \in ToSet(block_list) /\ c \in Block
  <2>1. ToSet(block_list) # {}
    BY <1>1, <1>3, EmptyList
  <2> QED BY <1>1, <2>1, HeadInList
<1> HIDE DEF c
<1>6. \A g \in Holder : held'[g] = IF g = h THEN held[g] \cup {c} ELSE held[g]
  BY <1>1, <1>2
<1>7. ASSUME NEW b \in Block
      PROVE  IF b \in ToSet(block_list')
             THEN \A g \in Holder : b \notin held'[g]
             ELSE \E g \in Holder :
                    /\ b \in held'[g]
                    /\ \A f \in Holder : b \in held'[f] => f = g
  <2>1. IF b \in ToSet(block_list)
        THEN \A g \in Holder : b \notin held[g]
        ELSE \E g \in Holder : /\ b \in held[g]
                               /\ \A f \in Holder : b \in held[f] => f = g
    BY DEF IInv, OneHolder
  <2>2. CASE b = c
    BY <1>4, <1>5, <1>6, <2>1, <2>2
  <2>3. CASE b # c
    <3>1. b \in ToSet(block_list') <=> b \in ToSet(block_list)
      BY <1>4, <2>3
    <3>2. \A g \in Holder : b \in held'[g] <=> b \in held[g]
      BY <1>6, <2>3
    <3> QED BY ONLY <2>1, <3>1, <3>2
  <2> QED BY <2>2, <2>3
<1>8. OneHolder'
  BY <1>1, <1>2, <1>4, <1>7 DEF OneHolder
<1>9. block_free_count' \in 0 .. Cardinality(Block)
  BY <1>1, <1>2
<1>10. held' \in [Holder -> SUBSET Block]
  BY <1>1, <1>2, <1>5
<1> QED BY <1>2, <1>4, <1>8, <1>9, <1>10

\* Giving a block back: nobody holds it any more, and it is free.
LEMMA FreeConserves ==
  ASSUME IInv, NEW h \in Holder, NEW b \in Block, b \in held[h],
         block_free_count' = block_free_count + 1,
         block_list' = <<b>> \o block_list,
         held' = [held EXCEPT ![h] = @ \ {b}]
  PROVE  /\ OneHolder'
         /\ block_list' \in Seq(Block)
         /\ block_free_count' \in 0 .. Cardinality(Block)
         /\ held' \in [Holder -> SUBSET Block]
<1>1. /\ block_list \in Seq(Block) /\ IsInjective(block_list)
      /\ block_free_count = Len(block_list) /\ Len(block_list) \in Nat
      /\ held \in [Holder -> SUBSET Block]
      /\ IsFiniteSet(Block) /\ Cardinality(Block) \in Nat
  BY MemPoolAssumption, FS_CardinalityType DEF IInv, OneHolder, TypeOK
<1>2. \A c \in Block :
        IF c \in ToSet(block_list)
        THEN \A g \in Holder : c \notin held[g]
        ELSE \E g \in Holder : /\ c \in held[g]
                               /\ \A f \in Holder : c \in held[f] => f = g
  BY DEF IInv, OneHolder
<1>3. b \notin ToSet(block_list) /\ \A f \in Holder : b \in held[f] => f = h
  BY <1>2
<1>4. /\ block_list' \in Seq(Block)
      /\ Len(block_list') = Len(block_list) + 1
      /\ IsInjective(block_list')
      /\ ToSet(block_list') = ToSet(block_list) \cup {b}
  BY <1>1, <1>3, PrependDistinct
<1>5. \A g \in Holder : held'[g] = IF g = h THEN held[g] \ {b} ELSE held[g]
  BY <1>1
<1>6. ASSUME NEW c \in Block
      PROVE  IF c \in ToSet(block_list')
             THEN \A g \in Holder : c \notin held'[g]
             ELSE \E g \in Holder :
                    /\ c \in held'[g]
                    /\ \A f \in Holder : c \in held'[f] => f = g
  <2>1. CASE c = b
    <3>1. ASSUME NEW g \in Holder PROVE b \notin held'[g]
      <4>1. held'[g] = IF g = h THEN held[g] \ {b} ELSE held[g]
        BY <1>5
      <4>2. b \in held[g] => g = h
        BY <1>3
      <4> QED BY ONLY <4>1, <4>2
    <3> QED BY <1>4, <2>1, <3>1
  <2>2. CASE c # b
    BY <1>2, <1>4, <1>5, <2>2
  <2> QED BY <2>1, <2>2
<1>7. OneHolder'
  BY <1>1, <1>4, <1>6 DEF OneHolder
<1>8. block_free_count' \in 0 .. Cardinality(Block)
  <2>1. Cardinality(ToSet(block_list')) = Len(block_list')
    BY <1>4, CardinalityOfList
  <2>2. ToSet(block_list') \subseteq Block
    BY <1>4, ListElements
  <2>3. Cardinality(ToSet(block_list')) <= Cardinality(Block)
    BY <1>1, <2>2, FS_Subset
  <2> QED BY <1>1, <1>4, <2>1, <2>3
<1>9. held' \in [Holder -> SUBSET Block]
  BY <1>1
<1> QED BY <1>4, <1>7, <1>8, <1>9

-----------------------------------------------------------------------------
(* Wake-ups.                                                               *)

\* What a step owes to the wake-ups: only the thread t begins or stops trying;
\* and if threads wait after the step then no block is free, or as many blocks
\* were taken as threads stopped trying, or the step that freed one block made t
\* try.
LEMMA WakeupsKept ==
  ASSUME IInv, NEW t \in Thread,
         \A u \in Thread \ {t} : TriesAgain(u)' <=> TriesAgain(u),
         block_free_count' \in Nat,
         alive' /\ ~wild' /\ waiters' # {} =>
           \/ block_free_count' = 0
           \/ /\ alive /\ ~wild /\ waiters # {}
              /\ \/ block_free_count' = block_free_count - 1
                 \/ /\ block_free_count' = block_free_count
                    /\ TriesAgain(t) => TriesAgain(t)'
                 \/ /\ block_free_count' = block_free_count + 1
                    /\ ~TriesAgain(t) /\ TriesAgain(t)'
  PROVE  IsFiniteSet(Trying)' /\ NoLostWakeup'
<1> DEFINE S == Trying
           R == Trying'
<1>1. IsFiniteSet(S) /\ block_free_count \in Nat
  BY MemPoolAssumption, FS_CardinalityType DEF IInv, TypeOK
<1>2. /\ S = {u \in Thread : TriesAgain(u)}
      /\ R = {u \in Thread : TriesAgain(u)'}
  BY DEF Trying
<1>3. /\ R \ {t} = S \ {t}
      /\ t \in S <=> TriesAgain(t)
      /\ t \in R <=> TriesAgain(t)'
  BY <1>2
<1>4. alive /\ ~wild /\ waiters # {} => block_free_count <= Cardinality(S)
  BY DEF IInv, NoLostWakeup, Trying
<1> HIDE DEF S, R
<1>5. /\ IsFiniteSet(R)
      /\ Cardinality(S) \in Nat /\ Cardinality(R) \in Nat
      /\ Cardinality(R) + 1 >= Cardinality(S)
      /\ (t \in S => t \in R) => Cardinality(R) >= Cardinality(S)
      /\ t \notin S /\ t \in R => Cardinality(R) = Cardinality(S) + 1
  BY <1>1, <1>3, OneElement
<1>6. alive' /\ ~wild' /\ waiters' # {} => block_free_count' <= Cardinality(R)
  BY <1>1, <1>3, <1>4, <1>5
<1> QED BY <1>2, <1>5, <1>6 DEF NoLostWakeup, R, Trying

\* What a step owes to those who waited when the detach began: only t changes
\* its place, its error or its list.
LEMMA DoomedKept ==
  ASSUME IInv, doomed' = doomed, alive' = alive, NEW t \in Thread,
         \A u \in Thread \ {t} : /\ pc'[u] = pc[u] /\ k'.err[u] = k.err[u]
                                 /\ u \in waiters' <=> u \in waiters,
         ~alive /\ t \in doomed => t \in waiters' \/ GivesUp(t)',
         ~alive /\ t \in doomed /\ t \in waiters' => t \in waiters,
         pc[t] \in {"detach_test", "detach_body"} =>
           pc'[t] \in {"detach_test", "detach_body"} \/ waiters' = {}
  PROVE  Doomed'
<1> SUFFICES ASSUME ~alive
             PROVE  /\ \A u \in doomed : u \in waiters' \/ GivesUp(u)'
                    /\ (\A u \in Thread :
                          pc'[u] \notin {"detach_test", "detach_body"}) =>
                         doomed \cap waiters' = {}
  BY DEF Doomed
<1>1. doomed \subseteq Thread
  BY IInvFacts
<1>2. /\ \A u \in doomed : u \in waiters \/ GivesUp(u)
      /\ (\A u \in Thread : pc[u] \notin {"detach_test", "detach_body"}) =>
           doomed \cap waiters = {}
  BY DEF IInv, Doomed
<1>3. \A u \in doomed : u \in waiters' \/ GivesUp(u)'
  BY <1>1, <1>2 DEF GivesUp
<1>4. ASSUME \A u \in Thread : pc'[u] \notin {"detach_test", "detach_body"},
             waiters' # {}
      PROVE  doomed \cap waiters' = {}
  <2>1. \A u \in Thread : pc[u] \notin {"detach_test", "detach_body"}
    BY <1>4
  <2> QED BY <1>1, <1>2, <2>1
<1> QED BY <1>3, <1>4
-----------------------------------------------------------------------------
(* Steps.                                                                  *)

\* The initial state.
LEMMA InitIInv == Init => IInv
<1> SUFFICES ASSUME Init PROVE IInv
  OBVIOUS
<1> USE KernelAssumption, MemPoolAssumption
<1>1. /\ k \in KernelState /\ KInv(k)
      /\ k.stat = [t \in Thread |-> IF t = Idle THEN "ready" ELSE "init"]
      /\ k.wait = [q \in Queue |-> << >>]
      /\ ToSet(k.wait[Pool]) = {}
      /\ k.cur = Idle /\ k.nest = 0
  BY StartedKernel DEF Init
<1>2. /\ block_list = SetToSeq(Block) /\ block_free_count = Cardinality(Block)
      /\ suspend_thread_count = 0
      /\ pc = [t \in Thread |-> "run"] /\ time = [t \in Thread |-> "zero"]
      /\ held = [h \in Holder |-> {}]
      /\ alive = TRUE /\ doomed = {} /\ wild = FALSE
  BY DEF Init
<1>3. /\ block_list \in Seq(Block) /\ IsInjective(block_list)
      /\ ToSet(block_list) = Block /\ Len(block_list) = Cardinality(Block)
      /\ Cardinality(Block) \in Nat
  BY <1>2, SetToSeqProperties, FS_CardinalityType
<1>4. TypeOK
  <2>1. block_free_count \in 0 .. Cardinality(Block)
    BY <1>2, <1>3
  <2> QED BY <1>1, <1>2, <1>3, <2>1 DEF TypeOK, PC
<1>5. OneHolder
  BY <1>2, <1>3 DEF OneHolder
<1>6. Running
  BY <1>1 DEF Running
<1>7. waiters = {} /\ Len(k.wait[Pool]) = 0
  BY <1>1 DEF waiters
<1>8. Waiting
  BY <1>1, <1>2, <1>7 DEF Waiting
<1>9. IsFiniteSet(Trying) /\ NoLostWakeup
  <2>1. Trying = {}
    BY <1>2 DEF Trying, TriesAgain
  <2> QED BY <1>7, <2>1, FS_EmptySet DEF NoLostWakeup
<1>10. Doomed
  BY <1>2 DEF Doomed
<1> QED BY <1>1, <1>4, <1>5, <1>6, <1>8, <1>9, <1>10 DEF IInv

\* A step that changes at most which thread runs, the place of t, the free list
\* and who holds what.
LEMMA QuietStep ==
  ASSUME IInv, ~wild, wild' = wild, alive' = alive, doomed' = doomed,
         TypeOK', KInv(k'), SameThreads(k, k'), Running', OneHolder',
         suspend_thread_count' = suspend_thread_count,
         NEW t \in Thread, \A u \in Thread \ {t} : pc'[u] = pc[u],
         t \in waiters => pc'[t] \in {"wait", "woken"},
         \/ block_free_count' = 0
         \/ block_free_count' = block_free_count - 1
         \/ /\ block_free_count' = block_free_count
            /\ TriesAgain(t) => TriesAgain(t)',
         ~alive /\ GivesUp(t) => GivesUp(t)',
         pc[t] \in {"detach_test", "detach_body"} =>
           pc'[t] \in {"detach_test", "detach_body"} \/ waiters' = {}
  PROVE  IInv'
<1> USE IInvFacts
<1>1. /\ k'.stat = k.stat /\ k'.err = k.err /\ k'.wait = k.wait
      /\ waiters' = waiters
  BY DEF SameThreads, waiters
<1>2. Waiting'
  BY <1>1 DEF IInv, Waiting
<1>3. \A u \in Thread \ {t} : TriesAgain(u)' <=> TriesAgain(u)
  BY <1>1 DEF TriesAgain
<1>4. block_free_count' \in Nat
  BY MemPoolAssumption, FS_CardinalityType DEF TypeOK
<1>5. IsFiniteSet(Trying)' /\ NoLostWakeup'
  BY <1>1, <1>3, <1>4, WakeupsKept
<1>6. Doomed'
  <2>1. ~alive /\ t \in doomed => t \in waiters' \/ GivesUp(t)'
    BY <1>1 DEF IInv, Doomed
  <2>2. \A u \in Thread \ {t} : /\ pc'[u] = pc[u] /\ k'.err[u] = k.err[u]
                                /\ u \in waiters' <=> u \in waiters
    BY <1>1
  <2> QED BY <1>1, <2>1, <2>2, DoomedKept
<1> QED BY <1>2, <1>5, <1>6 DEF IInv

\* The running thread is no waiter once it has called rt_schedule().
LEMMA RunningThread ==
  ASSUME IInv, pc[k.cur] # "wait"
  PROVE  k.stat[k.cur] = "ready" /\ k.cur \notin waiters
<1>1. k.stat[k.cur] = "ready"
  BY DEF IInv, Running
<1> QED BY <1>1, IInvFacts

\* rt_mp_alloc with a block, by a thread or an interrupt handler, and without.
LEMMA TakeStep ==
  ASSUME IInv, ~wild,
         \/ \E t \in Thread : AllocTake(t) \/ AllocFail(t)
         \/ IsrAlloc
  PROVE  IInv'
<1> USE IInvFacts
<1>1. CASE IsrAlloc
  <2>1. take_block(Isr) /\ Isr \in Holder /\ UNCHANGED <<k, pc, time, alive, doomed, wild>>
    BY <1>1 DEF IsrAlloc, Holder
  <2>2. /\ OneHolder'
        /\ block_list' \in Seq(Block)
        /\ block_free_count' \in 0 .. Cardinality(Block)
        /\ held' \in [Holder -> SUBSET Block]
        /\ block_free_count' = block_free_count - 1
        /\ suspend_thread_count' = suspend_thread_count
    BY <2>1, TakeConserves
  <2>3. TypeOK'
    BY <2>1, <2>2 DEF IInv, TypeOK
  <2>4. KInv(k') /\ SameThreads(k, k') /\ Running'
    BY <2>1 DEF SameThreads, IInv, Running
  <2>5. Idle \notin waiters /\ (GivesUp(Idle) => GivesUp(Idle)')
        /\ pc'[Idle] = pc[Idle]
    BY <2>1 DEF GivesUp, IInv, Running
  <2> QED BY <2>1, <2>2, <2>3, <2>4, <2>5, QuietStep
<1>2. ASSUME NEW t \in Thread, AllocTake(t)
      PROVE  IInv'
  <2>1. /\ take_block(t) /\ t \in Holder /\ k.cur = t /\ pc[t] \in {"run", "retry"}
        /\ pc' = [pc EXCEPT ![t] = "run"] /\ time' = [time EXCEPT ![t] = "zero"]
        /\ UNCHANGED <<k, alive, doomed, wild>>
    BY <1>2 DEF AllocTake, InLoop, Holder
  <2>2. /\ OneHolder'
        /\ block_list' \in Seq(Block)
        /\ block_free_count' \in 0 .. Cardinality(Block)
        /\ held' \in [Holder -> SUBSET Block]
        /\ block_free_count' = block_free_count - 1
        /\ suspend_thread_count' = suspend_thread_count
    BY <2>1, TakeConserves
  <2>3. TypeOK'
    BY <2>1, <2>2 DEF IInv, TypeOK, PC
  <2>4. k.stat[t] = "ready" /\ t \notin waiters
    BY <2>1, RunningThread
  <2>5. KInv(k') /\ SameThreads(k, k') /\ Running'
    BY <2>1, <2>4 DEF SameThreads, IInv, Running
  <2>6. GivesUp(t)'
    BY <2>1 DEF GivesUp
  <2> QED BY <2>1, <2>2, <2>3, <2>4, <2>5, <2>6, QuietStep
<1>3. ASSUME NEW t \in Thread, AllocFail(t)
      PROVE  IInv'
  <2>1. /\ k.cur = t /\ pc[t] = "retry" /\ block_free_count = 0
        /\ pc' = [pc EXCEPT ![t] = "run"]
        /\ UNCHANGED <<k, pool, time, held, alive, doomed, wild>>
    BY <1>3 DEF AllocFail
  <2>2. TypeOK' /\ OneHolder'
    BY <2>1 DEF IInv, TypeOK, PC, OneHolder, pool
  <2>3. k.stat[t] = "ready" /\ t \notin waiters
    BY <2>1, RunningThread
  <2>4. KInv(k') /\ SameThreads(k, k') /\ Running'
    BY <2>1, <2>3 DEF SameThreads, IInv, Running
  <2>5. GivesUp(t)' /\ block_free_count' = 0
        /\ suspend_thread_count' = suspend_thread_count
    BY <2>1 DEF GivesUp, pool
  <2> QED BY <2>1, <2>2, <2>3, <2>4, <2>5, QuietStep
<1> QED BY <1>1, <1>2, <1>3

\* The rt_schedule() of a thread and of the tick interrupt.
LEMMA SchedulingStep ==
  ASSUME IInv, ~wild,
         \/ \E t \in Thread : AllocSchedule(t) \/ Schedule(t)
         \/ TickYield
  PROVE  IInv'
<1> USE IInvFacts
<1>1. k' = rt_schedule(k)
      /\ UNCHANGED <<pool, time, held, alive, doomed, wild>>
  BY DEF AllocSchedule, Schedule, TickYield
<1>2. k' \in KernelState /\ KInv(k') /\ SameThreads(k, k') /\ Settled(k')
  BY <1>1, AfterSchedule DEF IInv, Running
<1>3. Running'
  BY <1>2 DEF IInv, Running, SameThreads, Settled
<1>4. OneHolder' /\ block_free_count' = block_free_count
      /\ suspend_thread_count' = suspend_thread_count
  BY <1>1 DEF IInv, OneHolder, pool
<1>5. PICK t \in Thread :
        /\ pc' \in [Thread -> PC]
        /\ \A u \in Thread \ {t} : pc'[u] = pc[u]
        /\ \/ pc[t] = "wait" /\ pc'[t] = "woken"
           \/ pc[t] = "sched" /\ pc'[t] = "run"
           \/ pc'[t] = pc[t]
  BY DEF AllocSchedule, Schedule, TickYield, PC
<1>6. TypeOK'
  BY <1>1, <1>2, <1>5 DEF IInv, TypeOK, pool
<1>7. waiters' = waiters /\ k'.err = k.err
  BY <1>2 DEF SameThreads, waiters
<1>8. t \in waiters => pc'[t] \in {"wait", "woken"}
  BY <1>5 DEF IInv, Waiting
<1>9. (TriesAgain(t) => TriesAgain(t)') /\ (GivesUp(t) => GivesUp(t)')
  BY <1>5, <1>7 DEF TriesAgain, GivesUp
<1>10. pc[t] \in {"detach_test", "detach_body"} =>
         pc'[t] \in {"detach_test", "detach_body"}
  BY <1>5
<1> QED BY <1>1, <1>2, <1>3, <1>4, <1>5, <1>6, <1>8, <1>9, <1>10, QuietStep
\* Back from rt_schedule(): the thread gives up, or tries again as it did since
\* it was woken.
LEMMA WokenStep ==
  ASSUME IInv, ~wild, NEW t \in Thread,
         \E left \in {"zero", "some", "forever"} : AllocWoken(t, left)
  PROVE  IInv'
<1> USE IInvFacts
<1>1. /\ k.cur = t /\ pc[t] = "woken"
      /\ UNCHANGED <<k, pool, held, alive, doomed, wild>>
      /\ time' \in [Thread -> {"zero", "some", "forever"}]
      /\ \/ k.err[t] # "eok" /\ pc' = [pc EXCEPT ![t] = "run"]
         \/ k.err[t] = "eok" /\ pc' = [pc EXCEPT ![t] = "retry"]
  BY DEF AllocWoken, IInv, TypeOK
<1>2. TypeOK' /\ OneHolder'
  BY <1>1 DEF IInv, TypeOK, PC, OneHolder, pool
<1>3. k.stat[t] = "ready" /\ t \notin waiters
  BY <1>1, RunningThread
<1>4. KInv(k') /\ SameThreads(k, k') /\ Running'
  BY <1>1, <1>3 DEF SameThreads, IInv, Running
<1>5. waiters' = waiters
  BY <1>1 DEF waiters
<1>6. (TriesAgain(t) => TriesAgain(t)') /\ (GivesUp(t) => GivesUp(t)')
  BY <1>1, <1>3, <1>5 DEF TriesAgain, GivesUp
<1>7. block_free_count' = block_free_count
      /\ suspend_thread_count' = suspend_thread_count
      /\ \A u \in Thread \ {t} : pc'[u] = pc[u]
  BY <1>1 DEF pool
<1> QED BY <1>1, <1>2, <1>3, <1>4, <1>6, <1>7, QuietStep

\* rt_thread_startup of another thread.
LEMMA StartupStep ==
  ASSUME IInv, ~wild, NEW t \in Thread, NEW new \in Thread, Startup(t, new)
  PROVE  IInv'
<1> USE IInvFacts
<1>1. /\ k.cur = t /\ pc[t] = "run" /\ k.stat[new] = "init"
      /\ k' = rt_thread_startup(k, new, InitPrio[new])
      /\ pc' = [pc EXCEPT ![t] = "sched"]
      /\ UNCHANGED <<pool, time, held, alive, doomed, wild>>
  BY DEF Startup
<1>2. /\ k' \in KernelState /\ KInv(k')
      /\ k'.stat = [k.stat EXCEPT ![new] = "ready"]
      /\ k'.err = k.err /\ k'.wait = k.wait
      /\ k'.cur = k.cur /\ k'.nest = k.nest
  <2>1. k \in KernelState /\ KInv(k) /\ k.stat[new] = "init"
        /\ new \in Thread /\ InitPrio[new] \in Prio
    BY <1>1, MemPoolAssumption
  <2> DEFINE r == rt_thread_startup(k, new, InitPrio[new])
  <2>2. /\ r \in KernelState /\ KInv(r)
        /\ r.stat = [k.stat EXCEPT ![new] = "ready"]
        /\ r.err = k.err /\ r.wait = k.wait
        /\ r.cur = k.cur /\ r.nest = k.nest
    <3>1. Started(k, new, InitPrio[new], r)
      BY ONLY <2>1, StartupStarts
    <3> QED BY ONLY <3>1 DEF Started
  <2> HIDE DEF r
  <2> QED BY <1>1, <2>2 DEF r
<1>3. k.stat[t] = "ready" /\ t \notin waiters /\ waiters' = waiters
  BY <1>1, <1>2, RunningThread DEF waiters
<1>4. TypeOK' /\ OneHolder'
  BY <1>1, <1>2 DEF IInv, TypeOK, PC, OneHolder, pool
<1>5. Running'
  BY <1>1, <1>2, <1>3 DEF IInv, Running
<1>6. Waiting'
  BY <1>1, <1>2, <1>3 DEF IInv, Waiting, pool
<1>7. TriesAgain(t) => TriesAgain(t)'
  BY <1>1 DEF TriesAgain
<1>8. \A u \in Thread \ {t} : TriesAgain(u)' <=> TriesAgain(u)
  BY <1>1, <1>2, <1>3 DEF TriesAgain
<1>9. block_free_count' = block_free_count /\ block_free_count' \in Nat
  BY <1>1, MemPoolAssumption, FS_CardinalityType DEF pool, IInv, TypeOK
<1>10. IsFiniteSet(Trying)' /\ NoLostWakeup'
  <2>1. waiters' # {} => waiters # {}
    BY <1>3
  <2> QED BY <1>1, <1>7, <1>8, <1>9, <2>1, WakeupsKept
<1>11. Doomed'
  <2>1. \A u \in Thread \ {t} : /\ pc'[u] = pc[u] /\ k'.err[u] = k.err[u]
                                /\ u \in waiters' <=> u \in waiters
    BY <1>1, <1>2, <1>3
  <2>2. GivesUp(t)'
    BY <1>1 DEF GivesUp
  <2> QED BY <1>1, <1>3, <2>1, <2>2, DoomedKept
<1> QED BY <1>2, <1>4, <1>5, <1>6, <1>10, <1>11 DEF IInv

\* The kernel once the running thread t has linked itself in front of the
\* waiters, with or without a timer.
LEMMA BlockEffect ==
  ASSUME IInv, NEW t \in Thread, k.cur = t, pc[t] # "wait",
         NEW limit,
         LET k1 == rt_thread_suspend([k EXCEPT !.err[t] = "eok"], t)
             k2 == [k1 EXCEPT !.wait[Pool] = <<t>> \o @]
         IN k' = IF limit = "some" THEN rt_timer_start(k2, t) ELSE k2
  PROVE  /\ k' \in KernelState /\ KInv(k')
         /\ k'.stat = [k.stat EXCEPT ![t] = "suspend"]
         /\ k'.err = [k.err EXCEPT ![t] = "eok"]
         /\ waiters' = waiters \cup {t}
         /\ Len(k'.wait[Pool]) = Len(k.wait[Pool]) + 1
         /\ k'.cur = t /\ k'.nest = 0
<1> USE IInvFacts
<1> DEFINE k0 == [k EXCEPT !.err[t] = "eok"]
           k1 == rt_thread_suspend(k0, t)
           s  == <<t>> \o k.wait[Pool]
           k2 == [k1 EXCEPT !.wait[Pool] = s]
<1>1. k.stat[t] = "ready" /\ t \notin waiters
  BY RunningThread
<1>2. /\ k0 \in KernelState /\ KInv(k0)
      /\ k0.err = [k.err EXCEPT ![t] = "eok"]
      /\ k0.stat = k.stat /\ k0.wait = k.wait
      /\ k0.cur = t /\ k0.nest = 0
  <2>1. k \in KernelState /\ KInv(k) /\ "eok" \in Err
    BY DEF Err
  <2>2. /\ k0 \in KernelState /\ KInv(k0)
        /\ k0.err = [k.err EXCEPT ![t] = "eok"]
        /\ k0.stat = k.stat /\ k0.wait = k.wait
        /\ k0.cur = k.cur /\ k0.nest = k.nest
    BY ONLY <2>1, SetError, t \in Thread
  <2> HIDE DEF k0
  <2> QED BY <2>2
<1> HIDE DEF k0
<1>3. /\ k1 \in KernelState /\ KInv(k1)
      /\ k1.stat = [k.stat EXCEPT ![t] = "suspend"]
      /\ k1.wait = k.wait /\ k1.err = k0.err /\ k1.cur = t /\ k1.nest = 0
  BY <1>1, <1>2, SuspendKeeps
<1> HIDE DEF k1
<1>4. /\ s \in Seq(Thread) /\ Len(s) = Len(k.wait[Pool]) + 1
      /\ IsInjective(s) /\ ToSet(s) = waiters \cup {t}
  <2>1. t \notin ToSet(k.wait[Pool])
    BY <1>1 DEF waiters
  <2> QED BY <2>1, PrependDistinct DEF waiters
<1> HIDE DEF s
<1>5. /\ k2 \in KernelState /\ KInv(k2)
      /\ k2.wait = [k.wait EXCEPT ![Pool] = s]
      /\ k2.stat = k1.stat /\ k2.err = k1.err /\ k2.cur = t /\ k2.nest = 0
  <2>1. /\ k1.stat[t] = "suspend"
        /\ \A x \in Queue : t \notin ToSet(k1.wait[x])
        /\ ToSet(s) = ToSet(k1.wait[Pool]) \cup {t}
    BY <1>1, <1>3, <1>4 DEF waiters
  <2>2. k1 \in KernelState /\ KInv(k1) /\ s \in Seq(Thread) /\ IsInjective(s)
        /\ Pool \in Queue
    BY <1>3, <1>4
  <2> DEFINE r == [k1 EXCEPT !.wait[Pool] = s]
  <2>3. /\ r \in KernelState /\ KInv(r)
        /\ r.wait = [k1.wait EXCEPT ![Pool] = s]
        /\ r.stat = k1.stat /\ r.err = k1.err /\ r.cur = k1.cur
        /\ r.nest = k1.nest
    BY ONLY <2>1, <2>2, LinkKeeps, t \in Thread
  <2> HIDE DEF r
  <2> QED BY <1>3, <2>3 DEF r
<1>6. k2.wait[Pool] = s /\ k2.stat[t] = "suspend"
  <2>1. k.wait \in [Queue -> Seq(Thread)]
    BY DEF KernelState
  <2> QED BY <1>3, <1>5, <2>1
<1>7. k' = IF limit = "some" THEN rt_timer_start(k2, t) ELSE k2
  BY <1>3 DEF k0, k1, s
<1> HIDE DEF k2
<1>8. /\ k' \in KernelState /\ KInv(k')
      /\ k'.stat = k2.stat /\ k'.err = k2.err /\ k'.wait = k2.wait
      /\ k'.cur = k2.cur /\ k'.nest = k2.nest
  <2>1. CASE limit = "some"
    BY <1>5, <1>6, <1>7, <2>1, StartTimer
  <2>2. CASE limit # "some"
    BY <1>5, <1>7, <2>2
  <2> QED BY <2>1, <2>2
<1> QED BY <1>2, <1>3, <1>4, <1>5, <1>6, <1>8 DEF waiters

\* rt_mp_alloc that must wait.
LEMMA BlockStep ==
  ASSUME IInv, ~wild, NEW t \in Thread,
         \E limit \in {"some", "forever"} : AllocBlock(t, limit)
  PROVE  IInv'
<1> USE IInvFacts
<1>0. PICK limit \in {"some", "forever"} : AllocBlock(t, limit)
  OBVIOUS
<1>1. /\ k.cur = t /\ t # Idle /\ pc[t] \in {"run", "retry"}
      /\ pc[t] = "run" => alive
      /\ block_free_count = 0
      /\ suspend_thread_count' = suspend_thread_count + 1
      /\ time' = [time EXCEPT ![t] = limit]
      /\ pc' = [pc EXCEPT ![t] = "wait"]
      /\ UNCHANGED <<block_list, block_free_count, held, alive, doomed, wild>>
  BY <1>0 DEF AllocBlock, InLoop
<1>2. /\ k' \in KernelState /\ KInv(k')
      /\ k'.stat = [k.stat EXCEPT ![t] = "suspend"]
      /\ k'.err = [k.err EXCEPT ![t] = "eok"]
      /\ waiters' = waiters \cup {t}
      /\ Len(k'.wait[Pool]) = Len(k.wait[Pool]) + 1
      /\ k'.cur = t /\ k'.nest = 0
  <2>1. LET k1 == rt_thread_suspend([k EXCEPT !.err[t] = "eok"], t)
            k2 == [k1 EXCEPT !.wait[Pool] = <<t>> \o @]
        IN k' = IF limit = "some" THEN rt_timer_start(k2, t) ELSE k2
    BY <1>0 DEF AllocBlock
  <2>2. k.cur = t /\ pc[t] # "wait"
    BY <1>1
  <2> HIDE IInvFacts
  <2> QED BY ONLY IInv, t \in Thread, <2>1, <2>2, BlockEffect
<1>3. TypeOK' /\ OneHolder'
  <2>1. suspend_thread_count' \in Nat /\ pc' \in [Thread -> PC]
        /\ time' \in [Thread -> {"zero", "some", "forever"}]
    BY <1>1 DEF IInv, TypeOK, PC
  <2>2. TypeOK'
    BY <1>1, <1>2, <2>1 DEF IInv, TypeOK
  <2> QED BY <1>1, <2>2 DEF IInv, OneHolder
<1>4. Running'
  BY <1>1, <1>2 DEF IInv, Running
<1>5. Waiting'
  <2>1. /\ \A u \in Thread : k.stat[u] = "suspend" => u \in waiters
        /\ \A u \in waiters : pc[u] \in {"wait", "woken"} /\ k.err[u] = "eok"
        /\ Len(k.wait[Pool]) <= suspend_thread_count
        /\ Len(k.wait[Pool]) \in Nat /\ suspend_thread_count \in Nat
    BY DEF IInv, Waiting, TypeOK
  <2>2. \A u \in Thread : k'.stat[u] = "suspend" => u \in waiters'
    BY <1>2, <2>1
  <2>3. \A u \in waiters' : pc'[u] \in {"wait", "woken"} /\ k'.err[u] = "eok"
    BY <1>1, <1>2, <2>1
  <2>4. Len(k'.wait[Pool]) <= suspend_thread_count'
    BY <1>1, <1>2, <2>1
  <2> QED BY <2>2, <2>3, <2>4 DEF Waiting
<1>6. \A u \in Thread \ {t} : /\ pc'[u] = pc[u] /\ k'.err[u] = k.err[u]
                              /\ u \in waiters' <=> u \in waiters
  BY <1>1, <1>2
<1>7. IsFiniteSet(Trying)' /\ NoLostWakeup'
  <2>1. \A u \in Thread \ {t} : TriesAgain(u)' <=> TriesAgain(u)
    BY <1>6 DEF TriesAgain
  <2>2. block_free_count' = 0
    BY <1>1
  <2> QED BY <2>1, <2>2, WakeupsKept
<1>8. Doomed'
  <2>1. t \notin waiters
    BY <1>1, RunningThread
  <2>2. ~alive => t \notin doomed
    BY <1>1, <2>1 DEF IInv, Doomed, GivesUp
  <2> QED BY <1>1, <1>6, <2>2, DoomedKept
<1> QED BY <1>2, <1>3, <1>4, <1>5, <1>7, <1>8 DEF IInv
\* Resuming the first waiter with its error set to e.
LEMMA WakeFirst ==
  ASSUME IInv, waiters # {}, NEW e \in Err, NEW w, w = Head(k.wait[Pool])
  PROVE  LET r == rt_thread_resume([k EXCEPT !.err[w] = e], w) IN
         /\ w \in waiters /\ w \in Thread
         /\ r \in KernelState /\ KInv(r)
         /\ r.stat = [k.stat EXCEPT ![w] = "ready"]
         /\ r.err = [k.err EXCEPT ![w] = e]
         /\ ToSet(r.wait[Pool]) = waiters \ {w}
         /\ Len(r.wait[Pool]) = Len(k.wait[Pool]) - 1
         /\ r.cur = k.cur /\ r.nest = 0
<1> DEFINE k0 == [k EXCEPT !.err[w] = e]
           r  == rt_thread_resume(k0, w)
<1>1. /\ k \in KernelState /\ KInv(k) /\ k.wait[Pool] \in Seq(Thread)
      /\ k.nest = 0 /\ Pool \in Queue
  BY IInvFacts
<1>2. w \in waiters /\ w \in Thread
  BY <1>1, HeadInList DEF waiters
<1>3. k.stat[w] = "suspend"
  BY <1>2, IInvFacts
<1>4. /\ k0 \in KernelState /\ KInv(k0)
      /\ k0.err = [k.err EXCEPT ![w] = e]
      /\ k0.stat = k.stat /\ k0.wait = k.wait
      /\ k0.cur = k.cur /\ k0.nest = k.nest
  BY ONLY <1>1, <1>2, SetError, e \in Err
<1> HIDE DEF k0
<1>5. WokenUp(k0, w, r)
  BY <1>2, <1>3, <1>4, ResumeKeeps
<1> HIDE DEF r
<1>6. Len(r.wait[Pool]) = Len(k.wait[Pool]) - 1
  <2>1. r.wait[Pool] = Unlink(k.wait[Pool], w)
    BY <1>1, <1>4, <1>5 DEF WokenUp
  <2>2. w \in ToSet(k.wait[Pool])
    BY <1>2 DEF waiters
  <2>3. Len(Unlink(k.wait[Pool], w)) = Len(k.wait[Pool]) - 1
    BY <1>1, <2>2, UnlinkLength
  <2> QED BY <2>1, <2>3
<1> QED BY <1>1, <1>2, <1>4, <1>5, <1>6 DEF WokenUp, waiters, r, k0

\* The critical section of rt_mp_free and, in an interrupt handler, the
\* rt_schedule() that follows.
LEMMA FreeStep ==
  ASSUME IInv, ~wild, alive, NEW h \in Holder, NEW b \in Block, b \in held[h],
         NEW resumed, resumed \in {resume_first, rt_schedule(resume_first)},
         rt_mp_free(h, b, resumed),
         \/ pc' = pc
         \/ pc[k.cur] = "run" /\ pc' = [pc EXCEPT ![k.cur] = "sched"],
         resumed = resume_first \/ waiters = {} \/ pc' = pc,
         UNCHANGED <<time, alive, doomed>>
  PROVE  IInv'
<1> USE IInvFacts
<1>1. /\ block_free_count' = block_free_count + 1
      /\ block_list' = <<b>> \o block_list
      /\ held' = [held EXCEPT ![h] = @ \ {b}]
  BY DEF rt_mp_free
<1>2. /\ OneHolder'
      /\ block_list' \in Seq(Block)
      /\ block_free_count' \in 0 .. Cardinality(Block)
      /\ held' \in [Holder -> SUBSET Block]
  BY <1>1, FreeConserves
<1>3. Doomed'
  BY DEF Doomed
<1>4. pc' \in [Thread -> PC]
  BY DEF PC
<1>5. /\ Len(k.wait[Pool]) <= suspend_thread_count
      /\ Len(k.wait[Pool]) \in Nat /\ suspend_thread_count \in Nat
      /\ waiters = {} <=> Len(k.wait[Pool]) = 0
  BY EmptyList DEF IInv, Waiting, TypeOK, waiters
<1>6. \A u \in Thread : k.stat[u] = "ready" => u \notin waiters
  BY DEF IInv, Running
<1>7. \A u \in waiters : pc'[u] = pc[u]
  BY DEF IInv, Waiting
<1>8. \A u \in Thread : /\ pc'[u] = "retry" <=> pc[u] = "retry"
                        /\ pc'[u] \in {"wait", "woken"} <=> pc[u] \in {"wait", "woken"}
  BY <1>4
<1>9. block_free_count' \in Nat
  BY <1>2, MemPoolAssumption, FS_CardinalityType
<1>10. CASE waiters = {}
  <2>1. k' = k /\ suspend_thread_count' \in Nat /\ wild' \in BOOLEAN
    <3>1. CASE suspend_thread_count = 0
      BY <1>5, <3>1 DEF rt_mp_free, IInv, TypeOK
    <3>2. CASE suspend_thread_count # 0
      <4>1. /\ k' = IF waiters # {} THEN resumed ELSE k
            /\ suspend_thread_count' = suspend_thread_count - 1
            /\ wild' \in BOOLEAN
        BY <3>2 DEF rt_mp_free
      <4> QED BY <1>5, <1>10, <3>2, <4>1
    <3> QED BY <3>1, <3>2
  <2>2. TypeOK'
    BY <1>2, <1>4, <2>1 DEF IInv, TypeOK
  <2>3. Running'
    BY <2>1 DEF IInv, Running
  <2>4. waiters' = {} /\ Len(k'.wait[Pool]) = 0
    BY <1>5, <1>10, <2>1 DEF waiters
  <2>5. Waiting'
    BY <1>10, <2>1, <2>4 DEF IInv, Waiting
  <2>6. \A u \in Thread : TriesAgain(u)' <=> TriesAgain(u)
    BY <1>8, <1>10, <2>1, <2>4 DEF TriesAgain
  <2>7. IsFiniteSet(Trying)' /\ NoLostWakeup'
    BY <1>9, <2>4, <2>6, WakeupsKept
  <2> QED BY <1>2, <1>3, <2>1, <2>2, <2>3, <2>5, <2>7 DEF IInv
<1>11. CASE waiters # {}
  <2>1. PICK w : w = Head(k.wait[Pool])
    OBVIOUS
  <2> DEFINE m == resume_first
  <2>2. /\ w \in waiters /\ w \in Thread
        /\ m \in KernelState /\ KInv(m)
        /\ m.stat = [k.stat EXCEPT ![w] = "ready"]
        /\ m.err = [k.err EXCEPT ![w] = "eok"]
        /\ ToSet(m.wait[Pool]) = waiters \ {w}
        /\ Len(m.wait[Pool]) = Len(k.wait[Pool]) - 1
        /\ m.cur = k.cur /\ m.nest = 0
    <3> DEFINE r == rt_thread_resume([k EXCEPT !.err[w] = "eok"], w)
    <3>1. m = r
      BY <2>1 DEF resume_first
    <3>2. "eok" \in Err
      BY DEF Err
    <3>3. /\ w \in waiters /\ w \in Thread
          /\ r \in KernelState /\ KInv(r)
          /\ r.stat = [k.stat EXCEPT ![w] = "ready"]
          /\ r.err = [k.err EXCEPT ![w] = "eok"]
          /\ ToSet(r.wait[Pool]) = waiters \ {w}
          /\ Len(r.wait[Pool]) = Len(k.wait[Pool]) - 1
          /\ r.cur = k.cur /\ r.nest = 0
      BY ONLY IInv, <1>11, <2>1, <3>2, WakeFirst
    <3> HIDE DEF r, m
    <3> QED BY <3>1, <3>3
  <2>3. /\ k' = resumed /\ wild' = FALSE
        /\ suspend_thread_count' = suspend_thread_count - 1
    <3>1. suspend_thread_count # 0
      BY <1>5, <1>11
    <3>2. /\ k' = IF waiters # {} THEN resumed ELSE k
          /\ suspend_thread_count' = suspend_thread_count - 1
          /\ wild' <=> waiters = {}
          /\ wild' \in BOOLEAN
      BY <3>1 DEF rt_mp_free
    <3> QED BY <1>11, <3>2
  <2>4. k' = m \/ k' = rt_schedule(m)
    BY <2>3
  <2>5. k' = m \/ pc' = pc
    BY <1>11, <2>3
  <2> HIDE DEF m
  <2>6. m.stat[Idle] = "ready"
    BY <2>2 DEF IInv, Running
  <2>7. /\ k' \in KernelState /\ KInv(k') /\ SameThreads(m, k')
        /\ k' = m \/ Settled(k')
    <3>1. rt_schedule(m) \in KernelState /\ KInv(rt_schedule(m))
          /\ SameThreads(m, rt_schedule(m)) /\ Settled(rt_schedule(m))
      BY <2>2, <2>6, AfterSchedule
    <3>2. SameThreads(m, m)
      BY DEF SameThreads
    <3> QED BY <2>2, <2>4, <3>1, <3>2
  <2>8. /\ k'.stat = [k.stat EXCEPT ![w] = "ready"]
        /\ k'.err = [k.err EXCEPT ![w] = "eok"]
        /\ waiters' = waiters \ {w}
        /\ Len(k'.wait[Pool]) = Len(k.wait[Pool]) - 1
        /\ k'.nest = 0
    BY <2>2, <2>7 DEF SameThreads, waiters
  <2>9. TypeOK'
    <3>1. suspend_thread_count' \in Nat
      BY <1>5, <1>11, <2>3
    <3> QED BY <1>2, <1>4, <2>3, <2>7, <3>1 DEF IInv, TypeOK
  <2>10. Running'
    <3>1. k'.stat[Idle] = "ready" /\ k'.nest = 0
      BY <2>6, <2>7, <2>8 DEF SameThreads
    <3>2. CASE Settled(k')
      BY <3>1, <3>2 DEF Running, Settled
    <3>3. CASE k' = m
      <4>1. k'.cur = k.cur
        BY <2>2, <3>3
      <4>2. k.stat[k.cur] = "ready" \/ pc[k.cur] = "wait"
        BY DEF IInv, Running
      <4>3. k.stat[k.cur] = "ready" => k'.stat[k.cur] = "ready"
        BY <2>8
      <4>4. pc[k.cur] = "wait" => pc'[k.cur] = "wait"
        OBVIOUS
      <4> QED BY <3>1, <4>1, <4>2, <4>3, <4>4 DEF Running
    <3> QED BY <2>7, <3>2, <3>3
  <2>11. Waiting'
    <3>1. \A u \in Thread : k'.stat[u] = "suspend" => u \in waiters'
      BY <2>2, <2>8
    <3>2. \A u \in waiters' : pc'[u] \in {"wait", "woken"} /\ k'.err[u] = "eok"
      <4>1. \A u \in waiters : pc[u] \in {"wait", "woken"} /\ k.err[u] = "eok"
        BY DEF IInv, Waiting
      <4> QED BY <1>7, <2>8, <4>1
    <3>3. Len(k'.wait[Pool]) <= suspend_thread_count'
      BY <1>5, <2>3, <2>8
    <3> QED BY <3>1, <3>2, <3>3 DEF Waiting
  <2>12. /\ \A u \in Thread \ {w} : TriesAgain(u)' <=> TriesAgain(u)
         /\ ~TriesAgain(w) /\ TriesAgain(w)'
    <3>1. pc[w] \in {"wait", "woken"}
      BY <2>2 DEF IInv, Waiting
    <3>2. \A u \in Thread \ {w} : /\ k'.err[u] = k.err[u]
                                  /\ u \in waiters' <=> u \in waiters
      BY <2>2, <2>8
    <3>3. w \notin waiters' /\ k'.err[w] = "eok" /\ pc'[w] \in {"wait", "woken"}
      BY <1>8, <2>2, <2>8, <3>1
    <3>4. ~TriesAgain(w) /\ TriesAgain(w)'
      BY <2>2, <3>1, <3>3 DEF TriesAgain
    <3> QED BY <1>8, <3>2, <3>4 DEF TriesAgain
  <2>13. IsFiniteSet(Trying)' /\ NoLostWakeup'
    BY <1>1, <1>9, <1>11, <2>2, <2>12, WakeupsKept
  <2> QED BY <1>2, <1>3, <2>7, <2>9, <2>10, <2>11, <2>13 DEF IInv
<1> QED BY <1>10, <1>11
\* rt_mp_free by a thread and by an interrupt handler.
LEMMA FreeByStep ==
  ASSUME IInv, ~wild, NEW b \in Block,
         (\E t \in Thread : Free(t, b)) \/ IsrFree(b)
  PROVE  IInv'
<1>1. ASSUME NEW t \in Thread, Free(t, b)
      PROVE  IInv'
  <2>1. /\ k.cur = t /\ pc[t] = "run" /\ alive /\ b \in held[t] /\ t \in Holder
        /\ rt_mp_free(t, b, resume_first)
        /\ pc' = [pc EXCEPT ![t] = IF suspend_thread_count > 0
                                   THEN "sched" ELSE "run"]
        /\ UNCHANGED <<time, alive, doomed>>
    BY <1>1 DEF Free, Holder
  <2>2. \/ pc' = pc
        \/ pc[k.cur] = "run" /\ pc' = [pc EXCEPT ![k.cur] = "sched"]
    BY <2>1, IInvFacts
  <2>3. resume_first \in {resume_first, rt_schedule(resume_first)}
    OBVIOUS
  <2> QED BY <2>1, <2>2, <2>3, FreeStep
<1>2. CASE IsrFree(b)
  <2>1. /\ alive /\ b \in held[Isr] /\ Isr \in Holder
        /\ rt_mp_free(Isr, b, rt_schedule(resume_first))
        /\ UNCHANGED <<pc, time, alive, doomed>>
    BY <1>2 DEF IsrFree, Holder
  <2>2. rt_schedule(resume_first) \in {resume_first, rt_schedule(resume_first)}
    OBVIOUS
  <2> QED BY <2>1, <2>2, FreeStep
<1> QED BY <1>1, <1>2

\* A step after which t, and t alone, is off the list without a chance to try
\* again: the error it was woken with is not RT_EOK.
LEMMA GoneStep ==
  ASSUME IInv, ~wild, NEW w \in waiters, NEW e \in Err, e # "eok",
         NEW t \in Thread, pc[t] = "detach_body" \/ pc' = pc,
         k'.stat = [k.stat EXCEPT ![w] = "ready"],
         k'.err = [k.err EXCEPT ![w] = e],
         waiters' = waiters \ {w},
         TypeOK', KInv(k'), Running',
         Len(k'.wait[Pool]) <= suspend_thread_count',
         pc' = pc \/ pc' = [pc EXCEPT ![t] = "detach_test"],
         UNCHANGED <<block_list, block_free_count, held, alive, doomed, wild>>
  PROVE  IInv'
<1> USE IInvFacts
<1>1. w \in Thread /\ pc[w] \in {"wait", "woken"} /\ pc'[w] = pc[w]
  BY DEF IInv, Waiting
<1>2. OneHolder'
  BY DEF IInv, OneHolder
<1>3. \A u \in Thread \ {w} : k'.err[u] = k.err[u] /\ (u \in waiters' <=> u \in waiters)
  OBVIOUS
<1>4. \A u \in Thread : /\ pc'[u] = "retry" <=> pc[u] = "retry"
                        /\ pc'[u] \in {"wait", "woken"} <=> pc[u] \in {"wait", "woken"}
  OBVIOUS
<1>5. k'.err[w] # "eok" /\ w \notin waiters'
  BY <1>1
<1>6. Waiting'
  <2>1. \A u \in Thread : k'.stat[u] = "suspend" => u \in waiters'
    BY <1>1
  <2>2. \A u \in waiters' : pc'[u] \in {"wait", "woken"} /\ k'.err[u] = "eok"
    BY <1>3, <1>4 DEF IInv, Waiting
  <2> QED BY <2>1, <2>2 DEF Waiting
<1>7. \A u \in Thread : TriesAgain(u)' <=> TriesAgain(u)
  <2>1. ~TriesAgain(w) /\ ~TriesAgain(w)'
    BY <1>1, <1>5 DEF TriesAgain
  <2>2. \A u \in Thread \ {w} : TriesAgain(u)' <=> TriesAgain(u)
    BY <1>3, <1>4 DEF TriesAgain
  <2> QED BY <2>1, <2>2
<1>8. IsFiniteSet(Trying)' /\ NoLostWakeup'
  <2>1. block_free_count' = block_free_count /\ block_free_count' \in Nat
    BY MemPoolAssumption, FS_CardinalityType DEF IInv, TypeOK
  <2>2. waiters' # {} => waiters # {}
    OBVIOUS
  <2> QED BY <1>1, <1>7, <2>1, <2>2, WakeupsKept
<1>9. Doomed'
  <2> SUFFICES ASSUME ~alive
               PROVE  /\ \A u \in doomed : u \in waiters' \/ GivesUp(u)'
                      /\ (\A u \in Thread :
                            pc'[u] \notin {"detach_test", "detach_body"}) =>
                           doomed \cap waiters' = {}
    BY DEF Doomed
  <2>1. /\ \A u \in doomed : u \in waiters \/ GivesUp(u)
        /\ (\A u \in Thread : pc[u] \notin {"detach_test", "detach_body"}) =>
             doomed \cap waiters = {}
    BY DEF IInv, Doomed
  <2>2. GivesUp(w)'
    BY <1>1, <1>5 DEF GivesUp
  <2>3. \A u \in Thread \ {w} : GivesUp(u) => GivesUp(u)'
    BY <1>3, <1>4 DEF GivesUp
  <2>4. \A u \in doomed : u \in waiters' \/ GivesUp(u)'
    BY <1>3, <2>1, <2>2, <2>3
  <2>5. (\A u \in Thread : pc'[u] \notin {"detach_test", "detach_body"}) =>
          \A u \in Thread : pc[u] \notin {"detach_test", "detach_body"}
    OBVIOUS
  <2> QED BY <2>1, <2>4, <2>5
<1> QED BY <1>2, <1>6, <1>8, <1>9 DEF IInv

\* A timeout, and the rt_schedule() it ends with.
LEMMA TimerStep ==
  ASSUME IInv, ~wild, NEW t \in Thread, TimerExpire(t)
  PROVE  IInv'
<1> USE IInvFacts
<1>1. /\ t \in k.timer /\ k' = rt_thread_timeout(k, t)
      /\ UNCHANGED <<pool, pc, time, held, alive, doomed, wild>>
  BY DEF TimerExpire
<1> DEFINE k0 == [k EXCEPT !.err[t] = "etimeout"]
           m  == timed_out(k, t)
<1>2. k.stat[t] = "suspend" /\ k' = rt_schedule(m) /\ WokenUp(k0, t, m)
  BY <1>1, TimeoutKeeps
<1>3. /\ k0 \in KernelState /\ KInv(k0) /\ "etimeout" \in Err
      /\ k0.err = [k.err EXCEPT ![t] = "etimeout"]
      /\ k0.stat = k.stat /\ k0.wait = k.wait /\ k0.cur = k.cur
      /\ k0.nest = k.nest
  <2>1. k \in KernelState /\ KInv(k) /\ "etimeout" \in Err
    BY DEF Err
  <2> QED BY ONLY <2>1, SetError, t \in Thread
<1> HIDE DEF k0, m
<1>4. /\ m \in KernelState /\ KInv(m) /\ m.stat[Idle] = "ready" /\ m.nest = 0
      /\ m.stat = [k.stat EXCEPT ![t] = "ready"] /\ m.err = k0.err
      /\ ToSet(m.wait[Pool]) = waiters \ {t}
      /\ m.wait[Pool] = Unlink(k.wait[Pool], t)
  BY <1>2, <1>3 DEF WokenUp, waiters, IInv, Running
<1>5. /\ k' \in KernelState /\ KInv(k') /\ SameThreads(m, k') /\ Settled(k')
  BY <1>2, <1>4, AfterSchedule
<1>6. t \in waiters
  BY <1>2
<1>7. TypeOK'
  BY <1>1, <1>5 DEF IInv, TypeOK, pool
<1>8. Running'
  BY <1>4, <1>5 DEF Running, SameThreads, Settled
<1>9. Len(k'.wait[Pool]) <= suspend_thread_count'
  <2>1. Len(k'.wait[Pool]) = Len(k.wait[Pool]) - 1
    BY <1>4, <1>5, <1>6, UnlinkLength DEF SameThreads, waiters
  <2>2. /\ Len(k.wait[Pool]) <= suspend_thread_count
        /\ Len(k.wait[Pool]) \in Nat /\ suspend_thread_count \in Nat
        /\ suspend_thread_count' = suspend_thread_count
    BY <1>1 DEF IInv, Waiting, TypeOK, pool
  <2> QED BY <2>1, <2>2
<1>10. /\ k'.stat = [k.stat EXCEPT ![t] = "ready"]
       /\ k'.err = [k.err EXCEPT ![t] = "etimeout"]
       /\ waiters' = waiters \ {t}
  BY <1>3, <1>4, <1>5 DEF SameThreads, waiters
<1>11. UNCHANGED <<block_list, block_free_count, held, alive, doomed, wild, pc>>
  BY <1>1 DEF pool
<1> QED BY <1>3, <1>5, <1>6, <1>7, <1>8, <1>9, <1>10, <1>11, GoneStep

\* The steps of rt_mp_detach.
LEMMA DetachStep ==
  ASSUME IInv, ~wild, NEW t \in Thread,
         DetachCall(t) \/ DetachTest(t) \/ DetachBody(t)
  PROVE  IInv'
<1> USE IInvFacts
<1>1. CASE DetachCall(t)
  <2>1. /\ k.cur = t /\ pc[t] = "run" /\ alive
        /\ alive' = FALSE /\ doomed' = waiters
        /\ pc' = [pc EXCEPT ![t] = "detach_test"]
        /\ UNCHANGED <<k, pool, time, held, wild>>
    BY <1>1 DEF DetachCall
  <2>2. waiters' = waiters /\ t \notin waiters /\ k.stat[t] = "ready"
    BY <2>1, RunningThread DEF waiters
  <2>3. TypeOK' /\ OneHolder'
    BY <2>1 DEF IInv, TypeOK, PC, OneHolder, pool
  <2>4. KInv(k') /\ Running' /\ Waiting'
    BY <2>1, <2>2 DEF IInv, Running, Waiting, pool
  <2>5. \A u \in Thread : TriesAgain(u)' <=> TriesAgain(u)
    BY <2>1, <2>2 DEF TriesAgain
  <2>6. IsFiniteSet(Trying)' /\ NoLostWakeup'
    <3>1. block_free_count' \in Nat
      BY <2>3, MemPoolAssumption, FS_CardinalityType DEF TypeOK
    <3> QED BY <2>1, <2>5, <3>1, WakeupsKept
  <2>7. Doomed'
    <3>1. pc'[t] = "detach_test"
      BY <2>1
    <3> QED BY <2>1, <2>2, <3>1 DEF Doomed
  <2> QED BY <2>3, <2>4, <2>6, <2>7 DEF IInv
<1>2. CASE DetachTest(t)
  <2>1. /\ k.cur = t /\ pc[t] = "detach_test"
        /\ pc' = [pc EXCEPT ![t] = IF waiters = {} THEN "run" ELSE "detach_body"]
        /\ UNCHANGED <<k, pool, time, held, alive, doomed, wild>>
    BY <1>2 DEF DetachTest
  <2>2. waiters' = waiters /\ t \notin waiters /\ k.stat[t] = "ready"
    BY <2>1, RunningThread DEF waiters
  <2>3. TypeOK' /\ OneHolder'
    BY <2>1 DEF IInv, TypeOK, PC, OneHolder, pool
  <2>4. KInv(k') /\ SameThreads(k, k') /\ Running'
    BY <2>1, <2>2 DEF IInv, Running, SameThreads
  <2>5. ~TriesAgain(t) /\ GivesUp(t)'
    BY <2>1 DEF TriesAgain, GivesUp
  <2>6. block_free_count' = block_free_count
        /\ suspend_thread_count' = suspend_thread_count
    BY <2>1 DEF pool
  <2>7. pc'[t] \in {"detach_test", "detach_body"} \/ waiters' = {}
    BY <2>1, <2>2
  <2> QED BY <2>1, <2>2, <2>3, <2>4, <2>5, <2>6, <2>7, QuietStep
<1>3. CASE DetachBody(t) /\ waiters = {}
  <2>1. /\ wild' = TRUE /\ UNCHANGED <<k, suspend_thread_count, pc>>
        /\ UNCHANGED <<block_list, block_free_count, time, held, alive, doomed>>
    BY <1>3 DEF DetachBody
  <2>2. TypeOK' /\ OneHolder' /\ KInv(k') /\ Running' /\ waiters' = waiters
    BY <2>1 DEF IInv, TypeOK, OneHolder, Running, waiters
  <2>3. Waiting'
    BY <2>1, <2>2 DEF IInv, Waiting
  <2>4. \A u \in Thread : TriesAgain(u)' <=> TriesAgain(u)
    BY <2>1, <2>2 DEF TriesAgain
  <2>5. IsFiniteSet(Trying)' /\ NoLostWakeup'
    <3>1. block_free_count' \in Nat
      BY <2>2, MemPoolAssumption, FS_CardinalityType DEF TypeOK
    <3> QED BY <2>1, <2>4, <3>1, WakeupsKept
  <2>6. Doomed'
    BY <2>1, <2>2 DEF IInv, Doomed, GivesUp
  <2> QED BY <2>2, <2>3, <2>5, <2>6 DEF IInv
<1>4. CASE DetachBody(t) /\ waiters # {}
  <2>1. /\ k.cur = t /\ pc[t] = "detach_body"
        /\ k' = rt_ipc_list_resume_all_turn(k, Pool)
        /\ suspend_thread_count' = suspend_thread_count - 1
        /\ pc' = [pc EXCEPT ![t] = "detach_test"]
        /\ UNCHANGED <<block_list, block_free_count, time, held, alive, doomed, wild>>
    BY <1>4 DEF DetachBody
  <2>2. PICK w : w = Head(k.wait[Pool])
    OBVIOUS
  <2>3. k' = rt_thread_resume([k EXCEPT !.err[w] = "error"], w)
    BY <2>1, <2>2 DEF rt_ipc_list_resume_all_turn
  <2> DEFINE r == rt_thread_resume([k EXCEPT !.err[w] = "error"], w)
  <2>4. "error" \in Err
    BY DEF Err
  <2>5. /\ w \in waiters /\ w \in Thread
        /\ r \in KernelState /\ KInv(r)
        /\ r.stat = [k.stat EXCEPT ![w] = "ready"]
        /\ r.err = [k.err EXCEPT ![w] = "error"]
        /\ ToSet(r.wait[Pool]) = waiters \ {w}
        /\ Len(r.wait[Pool]) = Len(k.wait[Pool]) - 1
        /\ r.cur = k.cur /\ r.nest = 0
    BY ONLY IInv, <1>4, <2>2, <2>4, WakeFirst
  <2> HIDE DEF r
  <2>6. /\ w \in waiters /\ w \in Thread
        /\ k' \in KernelState /\ KInv(k')
        /\ k'.stat = [k.stat EXCEPT ![w] = "ready"]
        /\ k'.err = [k.err EXCEPT ![w] = "error"]
        /\ waiters' = waiters \ {w}
        /\ Len(k'.wait[Pool]) = Len(k.wait[Pool]) - 1
        /\ k'.cur = t /\ k'.nest = 0
    BY <2>1, <2>3, <2>5 DEF r, waiters
  <2>7. /\ suspend_thread_count' \in Nat
        /\ Len(k'.wait[Pool]) <= suspend_thread_count'
    <3>1. /\ Len(k.wait[Pool]) <= suspend_thread_count
          /\ Len(k.wait[Pool]) \in Nat /\ suspend_thread_count \in Nat
      BY DEF IInv, Waiting, TypeOK
    <3>2. Len(k'.wait[Pool]) \in Nat
      <4>1. k'.wait[Pool] \in Seq(Thread)
        BY <2>6 DEF KernelState
      <4> QED BY <4>1
    <3> QED BY <2>1, <2>6, <3>1, <3>2
  <2>8. TypeOK'
    BY <2>1, <2>6, <2>7 DEF IInv, TypeOK, PC
  <2>9. Running'
    <3>1. k.stat[t] = "ready" /\ k.stat[Idle] = "ready"
      BY <2>1 DEF IInv, Running
    <3> QED BY <2>6, <3>1 DEF Running
  <2>10. /\ "error" # "eok"
         /\ UNCHANGED <<block_list, block_free_count, held, alive, doomed, wild>>
         /\ pc[t] = "detach_body" \/ pc' = pc
         /\ pc' = pc \/ pc' = [pc EXCEPT ![t] = "detach_test"]
    BY <2>1
  <2>11. KInv(k') /\ w \in waiters
    BY <2>6
  <2>12. /\ k'.stat = [k.stat EXCEPT ![w] = "ready"]
         /\ k'.err = [k.err EXCEPT ![w] = "error"]
         /\ waiters' = waiters \ {w}
    BY <2>6
  <2> QED BY ONLY IInv, ~wild, t \in Thread, <2>4, <2>7, <2>8, <2>9, <2>10,
                  <2>11, <2>12, GoneStep
<1> QED BY <1>1, <1>2, <1>3, <1>4

\* Nothing happens.
LEMMA StutterIInv == IInv /\ UNCHANGED vars => IInv'
BY DEF vars, pool, IInv, TypeOK, OneHolder, Running, Waiting, Trying, Doomed,
       NoLostWakeup, TriesAgain, GivesUp, waiters

\* Every step keeps the invariant.
LEMMA NextIInv == IInv /\ [Next]_vars => IInv'
<1> SUFFICES ASSUME IInv, [Next]_vars PROVE IInv'
  OBVIOUS
<1>0. CASE UNCHANGED vars
  BY <1>0, StutterIInv
<1>1. CASE ~wild /\ TickYield
  BY <1>1, SchedulingStep
<1>2. CASE ~wild /\ IsrAlloc
  BY <1>2, TakeStep
<1>3. ASSUME ~wild, NEW b \in Block, IsrFree(b)
      PROVE  IInv'
  BY <1>3, FreeByStep
<1>4. ASSUME ~wild, NEW t \in Thread, TimerExpire(t)
      PROVE  IInv'
  BY <1>4, TimerStep
<1>5. ASSUME ~wild, NEW t \in Thread, ThreadStep(t)
      PROVE  IInv'
  <2>1. ASSUME NEW new \in Thread, Startup(t, new)
        PROVE  IInv'
    BY <1>5, <2>1, StartupStep
  <2>2. CASE AllocTake(t) \/ AllocFail(t)
    BY <1>5, <2>2, TakeStep
  <2>3. CASE \E limit \in {"some", "forever"} : AllocBlock(t, limit)
    BY <1>5, <2>3, BlockStep
  <2>4. CASE AllocSchedule(t) \/ Schedule(t)
    BY <1>5, <2>4, SchedulingStep
  <2>5. CASE \E left \in {"zero", "some", "forever"} : AllocWoken(t, left)
    BY <1>5, <2>5, WokenStep
  <2>6. ASSUME NEW b \in Block, Free(t, b)
        PROVE  IInv'
    BY <1>5, <2>6, FreeByStep
  <2>7. CASE DetachCall(t) \/ DetachTest(t) \/ DetachBody(t)
    BY <1>5, <2>7, DetachStep
  <2> QED BY <1>5, <2>1, <2>2, <2>3, <2>4, <2>5, <2>6, <2>7 DEF ThreadStep
<1> QED BY <1>0, <1>1, <1>2, <1>3, <1>4, <1>5 DEF Next, Steps

-----------------------------------------------------------------------------
(* The properties.                                                         *)

\* The inductive invariant holds in every reachable state, for every set of
\* threads and blocks.
THEOREM MemPoolInvariant == Spec => []IInv
BY InitIInv, NextIInv, PTL DEF Spec

\* Every block is free or has exactly one holder, however rt_mp_alloc,
\* rt_mp_free, timeouts and a detach interleave.
THEOREM MemPoolBlockConservation == Spec => []BlockConservation
<1>1. IInv => BlockConservation
  <2> SUFFICES ASSUME IInv, NEW b \in Block
               PROVE  Cardinality({h \in Holder : b \in held[h]})
                        = IF b \in ToSet(block_list) THEN 0 ELSE 1
    BY DEF BlockConservation, IInv, OneHolder
  <2>1. CASE b \in ToSet(block_list)
    <3>1. {h \in Holder : b \in held[h]} = {}
      BY <2>1 DEF IInv, OneHolder
    <3> QED BY <2>1, <3>1, FS_EmptySet
  <2>2. CASE b \notin ToSet(block_list)
    <3>1. PICK h \in Holder : /\ b \in held[h]
                              /\ \A g \in Holder : b \in held[g] => g = h
      BY <2>2 DEF IInv, OneHolder
    <3>2. {g \in Holder : b \in held[g]} = {h}
      BY <3>1
    <3> QED BY <2>2, <3>2, FS_Singleton
  <2> QED BY <2>1, <2>2
<1>2. Spec => []IInv
  BY MemPoolInvariant
<1> QED BY <1>1, <1>2, PTL

\* While threads wait, as many others are on their way to the free blocks as
\* there are free blocks.
THEOREM MemPoolNoLostWakeup == Spec => []NoLostWakeup
<1>1. IInv => NoLostWakeup
  BY DEF IInv
<1>2. Spec => []IInv
  BY MemPoolInvariant
<1> QED BY <1>1, <1>2, PTL

\* Nobody who waited when rt_mp_detach was called is suspended when it returns.
THEOREM MemPoolNobodyLeftBehind == Spec => []NobodyLeftBehind
<1>1. IInv => NobodyLeftBehind
  <2> SUFFICES ASSUME IInv, ~alive,
                      \A t \in Thread : pc[t] \notin {"detach_test", "detach_body"},
                      NEW t \in doomed
               PROVE  k.stat[t] # "suspend"
    BY DEF NobodyLeftBehind
  <2>1. t \notin waiters /\ t \in Thread
    BY IInvFacts DEF IInv, Doomed
  <2> QED BY <2>1, IInvFacts
<1>2. Spec => []IInv
  BY MemPoolInvariant
<1> QED BY <1>1, <1>2, PTL

-----------------------------------------------------------------------------
(* The chain of blocks.                                                    *)

\* Headers from address 0 to the tail, linked in both directions in the order of
\* their addresses, and in a circle; all but the tail have room for a block of
\* the least size.
Chain(it) ==
  /\ DOMAIN it \subseteq 0 .. tail /\ 0 \in DOMAIN it /\ tail \in DOMAIN it
  /\ it \in [DOMAIN it -> [next : DOMAIN it, prev : DOMAIN it, used : BOOLEAN]]
  /\ \A i \in DOMAIN it : it[it[i].next].prev = i /\ it[it[i].prev].next = i
  /\ it[tail].next = 0 /\ it[tail].used
  /\ \A i \in DOMAIN it :
       i # tail => it[i].next >= i + RT_MEMHEAP_SIZE + RT_MEMHEAP_MINIALLOC
  /\ \A i, j \in DOMAIN it : i # tail /\ i < j => it[i].next <= j

\* What two chains have in common: where the blocks of A end, which are used.
SameNext(it, r, A) == \A i \in A : r[i].next = it[i].next
SameUse(it, r, A)  == \A i \in A : r[i].used = it[i].used

\* The block i is marked; the header new is put behind h; the header i goes.
Marks(it, i, v, r) ==
  /\ DOMAIN r = DOMAIN it /\ r[i].used = v /\ r[i].prev = it[i].prev
  /\ SameNext(it, r, DOMAIN it) /\ SameUse(it, r, DOMAIN it \ {i})

Links(it, h, new, r) ==
  /\ new \notin DOMAIN it /\ DOMAIN r = DOMAIN it \cup {new}
  /\ r[new].next = it[h].next /\ r[new].prev = h /\ r[new].used = FALSE
  /\ r[h].next = new
  /\ SameNext(it, r, DOMAIN it \ {h}) /\ SameUse(it, r, DOMAIN it)

Unlinks(it, i, r) ==
  /\ DOMAIN r = DOMAIN it \ {i}
  /\ it[i].prev # tail /\ it[i].prev # i /\ it[i].prev \in DOMAIN r
  /\ it[i].next # i /\ it[i].next \in DOMAIN r
  /\ r[it[i].prev].next = it[i].next
  /\ SameNext(it, r, DOMAIN it \ {i, it[i].prev})
  /\ SameUse(it, r, DOMAIN it \ {i})

FreeIn(it) == {i \in DOMAIN it : ~it[i].used}

\* No two free blocks are neighbours.
Apart(it) == \A i \in DOMAIN it : ~it[i].used => it[it[i].next].used

LEMMA HeapConstants ==
  /\ RT_MEMHEAP_SIZE \in Nat /\ RT_MEMHEAP_SIZE > 0
  /\ RT_MEMHEAP_MINIALLOC \in Nat /\ RT_MEMHEAP_MINIALLOC > 0
  /\ tail \in Nat /\ tail > RT_MEMHEAP_SIZE + RT_MEMHEAP_MINIALLOC
<1>1. /\ RT_MEMHEAP_SIZE \in Nat \ {0} /\ RT_MEMHEAP_MINIALLOC \in Nat \ {0}
      /\ pool_size \in Nat \ {0}
      /\ pool_size > 2 * RT_MEMHEAP_SIZE + RT_MEMHEAP_MINIALLOC
  BY MemHeapAssumption
<1> QED BY ONLY <1>1 DEF tail

\* An allocation is of at least the least size.
LEMMA AllocSize ==
  ASSUME NEW n \in Request
  PROVE  alloc_size(n) \in Nat /\ alloc_size(n) >= RT_MEMHEAP_MINIALLOC
<1>1. n \in Int /\ RT_ALIGN_SIZE \in Int /\ RT_ALIGN_SIZE > 0
  BY MemHeapAssumption
<1>2. (n + RT_ALIGN_SIZE - 1) \div RT_ALIGN_SIZE \in Int
  BY ONLY <1>1
<1>3. RT_ALIGN(n) \in Int
  BY ONLY <1>1, <1>2 DEF RT_ALIGN
<1> QED BY ONLY <1>3, HeapConstants DEF alloc_size

\* What a chain says of one header: its fields, and who its neighbours are.
LEMMA ChainFacts ==
  ASSUME NEW it, Chain(it), NEW i \in DOMAIN it
  PROVE  /\ i \in Nat /\ i <= tail
         /\ it[i].next \in DOMAIN it /\ it[i].prev \in DOMAIN it
         /\ it[i].used \in BOOLEAN
         /\ it[i].next \in Nat /\ it[i].prev \in Nat
         /\ it[i] = [next |-> it[i].next, prev |-> it[i].prev, used |-> it[i].used]
         /\ it[it[i].next].prev = i /\ it[it[i].prev].next = i
         /\ i # tail => /\ i < it[i].next
                        /\ it[i].next >= i + RT_MEMHEAP_SIZE + RT_MEMHEAP_MINIALLOC
                        /\ MEMITEM_SIZE(it, i) \in Nat
                        /\ MEMITEM_SIZE(it, i) >= RT_MEMHEAP_MINIALLOC
         /\ ~it[i].used => i # tail
<1>1. \A j \in DOMAIN it : j \in Nat /\ j <= tail
  BY HeapConstants DEF Chain
<1>2. it[i] \in [next : DOMAIN it, prev : DOMAIN it, used : BOOLEAN]
  BY DEF Chain
<1>3. /\ it[i].next \in DOMAIN it /\ it[i].prev \in DOMAIN it
      /\ it[i].used \in BOOLEAN
      /\ it[i] = [next |-> it[i].next, prev |-> it[i].prev, used |-> it[i].used]
  BY <1>2
<1>4. it[it[i].next].prev = i /\ it[it[i].prev].next = i
  BY DEF Chain
<1>5. ASSUME i # tail
      PROVE  /\ i < it[i].next
             /\ it[i].next >= i + RT_MEMHEAP_SIZE + RT_MEMHEAP_MINIALLOC
             /\ MEMITEM_SIZE(it, i) \in Nat
             /\ MEMITEM_SIZE(it, i) >= RT_MEMHEAP_MINIALLOC
  <2>1. it[i].next >= i + RT_MEMHEAP_SIZE + RT_MEMHEAP_MINIALLOC
    BY <1>5 DEF Chain
  <2>2. i \in Nat /\ it[i].next \in Nat
    BY <1>1, <1>3
  <2> QED BY ONLY <2>1, <2>2, HeapConstants DEF MEMITEM_SIZE
<1>6. ~it[i].used => i # tail
  BY DEF Chain
<1> QED BY <1>1, <1>3, <1>4, <1>5, <1>6

\* Marking a block used or free leaves the chain as it is.
LEMMA ChainMark ==
  ASSUME NEW it, Chain(it), NEW i \in DOMAIN it, i # tail, NEW v \in BOOLEAN,
         NEW r, r = [it EXCEPT ![i].used = v]
  PROVE  Chain(r) /\ Marks(it, i, v, r)
<1>1. DOMAIN r = DOMAIN it
  OBVIOUS
<1>2. ASSUME NEW j \in DOMAIN it
      PROVE  /\ r[j].next = it[j].next /\ r[j].prev = it[j].prev
             /\ r[j].used = IF j = i THEN v ELSE it[j].used
             /\ r[j] = [next |-> it[j].next, prev |-> it[j].prev,
                        used |-> IF j = i THEN v ELSE it[j].used]
  BY ChainFacts
<1>3. Chain(r)
  <2>1. r \in [DOMAIN r -> [next : DOMAIN r, prev : DOMAIN r, used : BOOLEAN]]
    <3>1. \A j \in DOMAIN it :
            r[j] \in [next : DOMAIN it, prev : DOMAIN it, used : BOOLEAN]
      BY <1>2, ChainFacts
    <3>2. r = [j \in DOMAIN it |-> r[j]]
      OBVIOUS
    <3> QED BY <1>1, <3>1, <3>2
  <2>2. ASSUME NEW j \in DOMAIN it
        PROVE  r[r[j].next].prev = j /\ r[r[j].prev].next = j
    <3>1. /\ it[j].next \in DOMAIN it /\ it[j].prev \in DOMAIN it
          /\ it[it[j].next].prev = j /\ it[it[j].prev].next = j
      BY ChainFacts
    <3>2. r[j].next = it[j].next /\ r[j].prev = it[j].prev
      BY <1>2
    <3>3. r[it[j].next].prev = it[it[j].next].prev
      BY <1>2, <3>1
    <3>4. r[it[j].prev].next = it[it[j].prev].next
      BY <1>2, <3>1
    <3> QED BY <3>1, <3>2, <3>3, <3>4
  <2>3. r[tail].next = 0 /\ r[tail].used
    <3>1. tail \in DOMAIN it /\ it[tail].next = 0 /\ it[tail].used
      BY DEF Chain
    <3> QED BY <1>2, <3>1
  <2>4. \A j \in DOMAIN it : r[j].next = it[j].next
    BY <1>2
  <2>5. \A j \in DOMAIN r :
          j # tail => r[j].next >= j + RT_MEMHEAP_SIZE + RT_MEMHEAP_MINIALLOC
    BY ONLY <1>1, <2>4, Chain(it) DEF Chain
  <2>6. \A a, b \in DOMAIN r : a # tail /\ a < b => r[a].next <= b
    BY ONLY <1>1, <2>4, Chain(it) DEF Chain
  <2>7. DOMAIN r \subseteq 0 .. tail /\ 0 \in DOMAIN r /\ tail \in DOMAIN r
    BY ONLY <1>1, Chain(it) DEF Chain
  <2> QED BY ONLY <1>1, <2>1, <2>2, <2>3, <2>5, <2>6, <2>7 DEF Chain
<1>4. /\ r[i].used = v
      /\ SameNext(it, r, DOMAIN it) /\ SameUse(it, r, DOMAIN it \ {i})
      /\ r[i].prev = it[i].prev
  BY <1>2 DEF SameNext, SameUse
<1> QED BY <1>1, <1>3, <1>4 DEF Marks

\* A new header behind h, in the middle of h's block.
LEMMA ChainInsert ==
  ASSUME NEW it, Chain(it), NEW h \in DOMAIN it, h # tail,
         NEW new \in Nat,
         new >= h + RT_MEMHEAP_SIZE + RT_MEMHEAP_MINIALLOC,
         it[h].next >= new + RT_MEMHEAP_SIZE + RT_MEMHEAP_MINIALLOC,
         NEW r, r = chain_insert(it, h, new)
  PROVE  Chain(r) /\ Links(it, h, new, r)
<1> DEFINE n == it[h].next
           linked == [it EXCEPT ![h].next = new, ![n].prev = new]
           D == DOMAIN it
<1>1. /\ h \in Nat /\ n \in D /\ n \in Nat /\ h < n /\ it[n].prev = h
  BY ChainFacts
<1>2. \A j \in D : j \in Nat /\ j <= tail
  BY ChainFacts
<1>3. \A i, j \in D : i # tail /\ i < j => it[i].next <= j
  BY DEF Chain
<1>4. new \notin D
  BY <1>1, <1>3, HeapConstants
<1>5. DOMAIN linked = D /\ DOMAIN r = D \cup {new}
  BY DEF chain_insert
<1>6. r[new] = [next |-> n, prev |-> h, used |-> FALSE]
  BY DEF chain_insert
<1>7. ASSUME NEW j \in D
      PROVE  r[j] = [next |-> IF j = h THEN new ELSE it[j].next,
                     prev |-> IF j = n THEN new ELSE it[j].prev,
                     used |-> it[j].used]
  <2>1. r[j] = linked[j]
    BY <1>4 DEF chain_insert
  <2>2. it[j] = [next |-> it[j].next, prev |-> it[j].prev, used |-> it[j].used]
    BY ChainFacts
  <2>3. h # n
    BY <1>1
  <2> HIDE DEF n
  <2> QED BY <1>1, <2>1, <2>2, <2>3
<1> HIDE DEF n, linked
<1>8. ASSUME NEW j \in D
      PROVE  /\ r[j].next = IF j = h THEN new ELSE it[j].next
             /\ r[j].prev = IF j = n THEN new ELSE it[j].prev
             /\ r[j].used = it[j].used
  <2>1. r[j] = [next |-> IF j = h THEN new ELSE it[j].next,
                prev |-> IF j = n THEN new ELSE it[j].prev,
                used |-> it[j].used]
    BY <1>7
  <2> QED BY ONLY <2>1
<1>9. r[new].next = n /\ r[new].prev = h /\ r[new].used = FALSE
  BY <1>6
<1>10. Chain(r)
  <2>1. DOMAIN r \subseteq 0 .. tail /\ 0 \in DOMAIN r /\ tail \in DOMAIN r
    <3>1. new <= tail
      BY <1>1, <1>2, HeapConstants DEF n
    <3>2. D \subseteq 0 .. tail /\ 0 \in D /\ tail \in D
      BY DEF Chain
    <3>3. new \in 0 .. tail
      BY <3>1, HeapConstants
    <3> QED BY <1>5, <3>2, <3>3
  <2>2. r \in [DOMAIN r -> [next : DOMAIN r, prev : DOMAIN r, used : BOOLEAN]]
    <3>1. \A j \in D : r[j] \in [next : DOMAIN r, prev : DOMAIN r, used : BOOLEAN]
      BY <1>5, <1>7, ChainFacts
    <3>2. r[new] \in [next : DOMAIN r, prev : DOMAIN r, used : BOOLEAN]
      BY <1>1, <1>5, <1>6
    <3>3. r = [j \in DOMAIN r |-> r[j]]
      BY DEF chain_insert
    <3> QED BY <1>5, <3>1, <3>2, <3>3
  <2>3. ASSUME NEW j \in DOMAIN r
        PROVE  r[r[j].next].prev = j /\ r[r[j].prev].next = j
    <3>1. CASE j = new
      BY <1>1, <1>8, <1>9, <3>1
    <3>2. CASE j \in D /\ j = h
      <4>1. it[it[j].prev].next = j /\ it[j].prev \in D
        BY <3>2, ChainFacts
      <4>2. it[j].prev # h /\ h # n
        BY <1>1, <3>2, <4>1 DEF n
      <4> QED BY <1>8, <1>9, <3>2, <4>1, <4>2
    <3>3. CASE j \in D /\ j = n
      <4>1. it[it[j].next].prev = j /\ it[j].next \in D
        BY <3>3, ChainFacts
      <4>2. it[j].next # n /\ h # n
        BY <1>1, <3>3, <4>1
      <4> QED BY <1>8, <1>9, <3>3, <4>1, <4>2
    <3>4. CASE j \in D /\ j # h /\ j # n
      <4>1. /\ it[it[j].next].prev = j /\ it[j].next \in D
            /\ it[it[j].prev].next = j /\ it[j].prev \in D
        BY <3>4, ChainFacts
      <4>2. it[j].next # n /\ it[j].prev # h
        BY <1>1, <3>4, <4>1 DEF n
      <4> QED BY <1>8, <3>4, <4>1, <4>2
    <3> QED BY <1>5, <3>1, <3>2, <3>3, <3>4
  <2>4. r[tail].next = 0 /\ r[tail].used
    BY <1>8 DEF Chain
  <2>5. \A i \in DOMAIN r :
          i # tail => r[i].next >= i + RT_MEMHEAP_SIZE + RT_MEMHEAP_MINIALLOC
    <3>1. \A i \in D :
            i # tail => it[i].next >= i + RT_MEMHEAP_SIZE + RT_MEMHEAP_MINIALLOC
      BY DEF Chain
    <3> QED BY <1>5, <1>8, <1>9, <3>1 DEF n
  <2>6. ASSUME NEW i \in DOMAIN r, NEW j \in DOMAIN r, i # tail, i < j
        PROVE  r[i].next <= j
    <3>0. /\ new > h /\ new < n /\ h \in Nat /\ n \in Nat /\ new \in Nat
      BY <1>1, HeapConstants DEF n
    <3>1. CASE i = new
      <4>1. j \in D /\ h < j /\ j \in Nat
        BY <1>2, <1>5, <2>6, <3>0, <3>1
      <4> QED BY <1>3, <1>9, <3>1, <4>1 DEF n
    <3>2. CASE i \in D /\ j = new
      <4>1. i = h => r[i].next <= j
        BY <1>8, <3>0, <3>2
      <4>2. i # h => i < h
        <5>1. h < i => n <= i
          BY <1>3, <3>2 DEF n
        <5>2. i \in Nat
          BY <1>2, <3>2
        <5> QED BY <2>6, <3>0, <3>2, <5>1, <5>2
      <4>3. i # h => it[i].next <= h /\ it[i].next \in Nat
        BY <1>3, <2>6, <3>2, <4>2, ChainFacts
      <4>4. i # h => r[i].next <= j
        BY <1>8, <3>0, <3>2, <4>3
      <4> QED BY <4>1, <4>4
    <3>3. CASE i \in D /\ j \in D
      <4>1. it[i].next <= j /\ j \in Nat
        BY <1>2, <1>3, <2>6, <3>3
      <4>2. i = h => n <= j
        BY <4>1 DEF n
      <4>3. i = h => new <= j
        BY ONLY <3>0, <4>1, <4>2
      <4> QED BY <1>8, <3>3, <4>1, <4>3
    <3> QED BY <1>5, <3>1, <3>2, <3>3
  <2> QED BY <2>1, <2>2, <2>3, <2>4, <2>5, <2>6 DEF Chain
<1>11. SameNext(it, r, D \ {h}) /\ SameUse(it, r, D) /\ r[h].next = new
  BY <1>8 DEF SameNext, SameUse
<1> QED BY <1>4, <1>5, <1>9, <1>10, <1>11 DEF n, Links

\* The header i goes.
LEMMA ChainRemove ==
  ASSUME NEW it, Chain(it), NEW i \in DOMAIN it, i # tail, i # 0,
         NEW r, r = chain_remove(it, i)
  PROVE  Chain(r) /\ Unlinks(it, i, r)
<1> DEFINE p == it[i].prev
           n == it[i].next
           D == DOMAIN it
           cut == [it EXCEPT ![p].next = n, ![n].prev = p]
<1>1. /\ i \in Nat /\ p \in D /\ n \in D /\ p \in Nat /\ n \in Nat
      /\ it[p].next = i /\ it[n].prev = i /\ i < n
  BY ChainFacts
<1>2. p # tail /\ p < i
  <2>1. p # tail
    BY <1>1 DEF Chain
  <2> HIDE DEF p
  <2> QED BY <1>1, <2>1, ChainFacts
<1>3. p # n /\ p # i /\ n # i
  BY <1>1, <1>2
<1>4. DOMAIN r = D \ {i}
  BY DEF chain_remove, Restrict
<1>5. ASSUME NEW j \in D \ {i}
      PROVE  r[j] = [next |-> IF j = p THEN n ELSE it[j].next,
                     prev |-> IF j = n THEN p ELSE it[j].prev,
                     used |-> it[j].used]
  <2>1. r[j] = cut[j]
    BY DEF chain_remove, Restrict
  <2>2. it[j] = [next |-> it[j].next, prev |-> it[j].prev, used |-> it[j].used]
    BY ChainFacts
  <2> HIDE DEF p, n
  <2> QED BY <1>1, <1>3, <2>1, <2>2
<1> HIDE DEF p, n, cut
<1>6. ASSUME NEW j \in D \ {i}
      PROVE  /\ r[j].next = IF j = p THEN n ELSE it[j].next
             /\ r[j].prev = IF j = n THEN p ELSE it[j].prev
             /\ r[j].used = it[j].used
  <2>1. r[j] = [next |-> IF j = p THEN n ELSE it[j].next,
                prev |-> IF j = n THEN p ELSE it[j].prev,
                used |-> it[j].used]
    BY <1>5
  <2> QED BY ONLY <2>1
<1>7. \A a, b \in D : a # tail /\ a < b => it[a].next <= b
  BY DEF Chain
<1>8. \A j \in D : j \in Nat
  BY ChainFacts
<1>9. ASSUME NEW j \in D \ {i}
      PROVE  /\ j # p => it[j].next \in D \ {i} /\ it[j].next # n
             /\ j # n => it[j].prev \in D \ {i} /\ it[j].prev # p
  <2>1. /\ it[j].next \in D /\ it[j].prev \in D
        /\ it[it[j].next].prev = j /\ it[it[j].prev].next = j
    BY ChainFacts
  <2> QED BY <1>1, <2>1 DEF p, n
<1>10. Chain(r)
  <2>1. DOMAIN r \subseteq 0 .. tail /\ 0 \in DOMAIN r /\ tail \in DOMAIN r
    BY <1>4 DEF Chain
  <2>2. r \in [DOMAIN r -> [next : DOMAIN r, prev : DOMAIN r, used : BOOLEAN]]
    <3>1. ASSUME NEW j \in D \ {i}
          PROVE  r[j] \in [next : D \ {i}, prev : D \ {i}, used : BOOLEAN]
      <4>1. p \in D \ {i} /\ n \in D \ {i} /\ it[j].used \in BOOLEAN
        BY <1>1, <1>3, ChainFacts
      <4>2. (IF j = p THEN n ELSE it[j].next) \in D \ {i}
        BY <1>9, <4>1
      <4>3. (IF j = n THEN p ELSE it[j].prev) \in D \ {i}
        BY <1>9, <4>1
      <4>4. r[j] = [next |-> IF j = p THEN n ELSE it[j].next,
                    prev |-> IF j = n THEN p ELSE it[j].prev,
                    used |-> it[j].used]
        BY <1>5
      <4> QED BY ONLY <4>1, <4>2, <4>3, <4>4
    <3>2. r = [j \in DOMAIN r |-> r[j]]
      BY DEF chain_remove, Restrict
    <3> QED BY <1>4, <3>1, <3>2
  <2>3. ASSUME NEW j \in DOMAIN r
        PROVE  r[r[j].next].prev = j /\ r[r[j].prev].next = j
    <3>0. j \in D \ {i} /\ p \in D \ {i} /\ n \in D \ {i}
      BY <1>1, <1>3, <1>4
    <3>1. r[r[j].next].prev = j
      <4>1. CASE j = p
        BY <1>6, <3>0, <4>1
      <4>2. CASE j # p
        <5>1. it[j].next \in D \ {i} /\ it[j].next # n /\ it[it[j].next].prev = j
          BY <1>9, <3>0, <4>2, ChainFacts
        <5> QED BY <1>6, <3>0, <4>2, <5>1
      <4> QED BY <4>1, <4>2
    <3>2. r[r[j].prev].next = j
      <4>1. CASE j = n
        BY <1>6, <3>0, <4>1
      <4>2. CASE j # n
        <5>1. it[j].prev \in D \ {i} /\ it[j].prev # p /\ it[it[j].prev].next = j
          BY <1>9, <3>0, <4>2, ChainFacts
        <5> QED BY <1>6, <3>0, <4>2, <5>1
      <4> QED BY <4>1, <4>2
    <3> QED BY <3>1, <3>2
  <2>4. r[tail].next = 0 /\ r[tail].used
    <3>1. tail \in D \ {i} /\ it[tail].next = 0 /\ it[tail].used
      BY DEF Chain
    <3> QED BY <1>2, <1>6, <3>1
  <2>5. \A j \in DOMAIN r :
          j # tail => r[j].next >= j + RT_MEMHEAP_SIZE + RT_MEMHEAP_MINIALLOC
    <3>1. \A j \in D :
            j # tail => it[j].next >= j + RT_MEMHEAP_SIZE + RT_MEMHEAP_MINIALLOC
      BY DEF Chain
    <3>2. n >= p + RT_MEMHEAP_SIZE + RT_MEMHEAP_MINIALLOC
      <4>1. i >= p + RT_MEMHEAP_SIZE + RT_MEMHEAP_MINIALLOC
        BY <1>1, <1>2, <3>1
      <4> QED BY ONLY <1>1, <4>1, HeapConstants
    <3> QED BY <1>4, <1>6, <3>1, <3>2
  <2>6. ASSUME NEW a \in DOMAIN r, NEW b \in DOMAIN r, a # tail, a < b
        PROVE  r[a].next <= b
    <3>0. a \in D \ {i} /\ b \in D \ {i} /\ a \in Nat /\ b \in Nat
      BY <1>4, <1>8
    <3>1. it[a].next <= b
      BY <1>7, <2>6, <3>0
    <3>2. CASE a = p
      <4>1. i <= b /\ i # b
        BY <1>1, <3>0, <3>1, <3>2
      <4>2. i < b
        BY <1>1, <3>0, <4>1
      <4>3. n <= b
        BY <1>7, <3>0, <4>2 DEF n
      <4> QED BY <1>6, <3>0, <3>2, <4>3
    <3>3. CASE a # p
      BY <1>6, <3>0, <3>1, <3>3
    <3> QED BY <3>2, <3>3
  <2> QED BY <2>1, <2>2, <2>3, <2>4, <2>5, <2>6 DEF Chain
<1>11. p \in D \ {i} /\ n \in D \ {i}
  BY <1>1, <1>3
<1>12. /\ SameNext(it, r, D \ {i, p}) /\ SameUse(it, r, D \ {i})
       /\ r[p].next = n
  BY <1>6, <1>11 DEF SameNext, SameUse
<1> QED BY <1>2, <1>3, <1>4, <1>10, <1>11, <1>12 DEF p, n, Unlinks

-----------------------------------------------------------------------------
(* What the free blocks hold.                                              *)

\* A is a set of blocks: the tail is none.
Blocks(it, A) == A \subseteq DOMAIN it \ {tail}

Sizes(it) == [i \in DOMAIN it |-> MEMITEM_SIZE(it, i)]

\* What the blocks in A hold.
Sum(it, A) == Total(Sizes(it), A)

\* The bytes in some blocks are those of one of them and those of the others.
LEMMA SumOut ==
  ASSUME NEW it, Chain(it), NEW A, Blocks(it, A), NEW i, i \in A
  PROVE  /\ Sum(it, A) \in Nat /\ Sum(it, A \ {i}) \in Nat
         /\ MEMITEM_SIZE(it, i) \in Nat
         /\ Sum(it, A) = MEMITEM_SIZE(it, i) + Sum(it, A \ {i})
<1>1. IsFiniteSet(A)
  <2>1. IsFiniteSet(0 .. tail)
    BY HeapConstants, FS_Interval
  <2>2. A \subseteq 0 .. tail
    BY DEF Chain, Blocks
  <2> QED BY <2>1, <2>2, FS_Subset
<1>2. \A j \in A : Sizes(it)[j] = MEMITEM_SIZE(it, j)
  BY DEF Sizes, Blocks
<1>3. \A j \in A : Sizes(it)[j] \in Nat
  BY <1>2, ChainFacts DEF Blocks
<1>4. /\ Total(Sizes(it), A) \in Nat /\ Total(Sizes(it), A \ {i}) \in Nat
      /\ Total(Sizes(it), A) = Sizes(it)[i] + Total(Sizes(it), A \ {i})
  BY ONLY <1>1, <1>3, i \in A, TotalWithout
<1> QED BY <1>2, <1>3, <1>4 DEF Sum

\* It depends on where those blocks end and on nothing else.
LEMMA SumSame ==
  ASSUME NEW it, Chain(it), NEW r, Chain(r),
         NEW A, Blocks(it, A), Blocks(r, A), SameNext(it, r, A)
  PROVE  Sum(it, A) \in Nat /\ Sum(r, A) = Sum(it, A)
<1>1. IsFiniteSet(A)
  <2>1. IsFiniteSet(0 .. tail)
    BY HeapConstants, FS_Interval
  <2>2. A \subseteq 0 .. tail
    BY DEF Chain, Blocks
  <2> QED BY <2>1, <2>2, FS_Subset
<1>2. ASSUME NEW j \in A
      PROVE  Sizes(it)[j] \in Nat /\ Sizes(r)[j] = Sizes(it)[j]
  <2>1. /\ Sizes(it)[j] = MEMITEM_SIZE(it, j) /\ Sizes(r)[j] = MEMITEM_SIZE(r, j)
    BY DEF Sizes, Blocks
  <2>2. MEMITEM_SIZE(it, j) = MEMITEM_SIZE(r, j)
    BY DEF MEMITEM_SIZE, SameNext
  <2>3. MEMITEM_SIZE(it, j) \in Nat
    BY ChainFacts DEF Blocks
  <2> QED BY <2>1, <2>2, <2>3
<1>3. Total(Sizes(it), A) \in Nat /\ Total(Sizes(r), A) = Total(Sizes(it), A)
  BY ONLY <1>1, <1>2, TotalSame
<1> QED BY <1>3 DEF Sum

\* The free blocks are blocks, and the first is not behind a free one.
LEMMA FreeFacts ==
  ASSUME NEW it, Chain(it)
  PROVE  /\ Blocks(it, FreeIn(it)) /\ FreeIn(it) \subseteq DOMAIN it \ {tail}
         /\ it[0].prev = tail /\ tail \in DOMAIN it /\ 0 \in DOMAIN it
         /\ \A i \in DOMAIN it : ~it[it[i].prev].used => i # 0
<1>1. it[0].prev = tail /\ it[tail].used /\ tail \in DOMAIN it /\ 0 \in DOMAIN it
  BY DEF Chain
<1> QED BY <1>1 DEF FreeIn, Blocks

\* A used block becomes free.
LEMMA MarkFree ==
  ASSUME NEW it, Chain(it), NEW i \in DOMAIN it, i # tail, it[i].used,
         NEW r, r = [it EXCEPT ![i].used = FALSE]
  PROVE  /\ FreeIn(r) = FreeIn(it) \cup {i}
         /\ Sum(it, FreeIn(it)) \in Nat
         /\ Sum(r, FreeIn(r)) = Sum(it, FreeIn(it)) + MEMITEM_SIZE(it, i)
<1>0. Chain(r) /\ Marks(it, i, FALSE, r)
  BY ChainMark
<1>1. /\ Chain(r) /\ DOMAIN r = DOMAIN it /\ r[i].used = FALSE
      /\ SameNext(it, r, DOMAIN it) /\ SameUse(it, r, DOMAIN it \ {i})
  BY <1>0 DEF Marks
<1>2. FreeIn(r) = FreeIn(it) \cup {i} /\ i \notin FreeIn(it)
  BY <1>1 DEF FreeIn, SameUse
<1>3. FreeIn(r) \ {i} = FreeIn(it) /\ i \in FreeIn(r)
  BY <1>2
<1>4. /\ Blocks(it, FreeIn(it)) /\ FreeIn(it) \subseteq DOMAIN it \ {tail}
      /\ Blocks(r, FreeIn(r)) /\ FreeIn(r) \subseteq DOMAIN r \ {tail}
  BY <1>1, FreeFacts
<1>5. Sum(it, FreeIn(it)) \in Nat /\ Sum(r, FreeIn(it)) = Sum(it, FreeIn(it))
  <2>1. SameNext(it, r, FreeIn(it)) /\ Blocks(r, FreeIn(it))
    BY <1>1, <1>4 DEF SameNext, Blocks
  <2> QED BY <1>1, <1>4, <2>1, SumSame
<1>6. /\ Sum(r, FreeIn(r)) = MEMITEM_SIZE(r, i) + Sum(r, FreeIn(r) \ {i})
      /\ MEMITEM_SIZE(r, i) \in Nat
  BY ONLY <1>1, <1>3, <1>4, SumOut
<1>7. MEMITEM_SIZE(r, i) = MEMITEM_SIZE(it, i)
  BY <1>1 DEF MEMITEM_SIZE, SameNext
<1>8. Sum(r, FreeIn(r)) = Sum(it, FreeIn(it)) + MEMITEM_SIZE(it, i)
  <2>1. Sum(r, FreeIn(r) \ {i}) = Sum(it, FreeIn(it))
    BY <1>3, <1>5
  <2> QED BY ONLY <1>5, <1>6, <1>7, <2>1
<1> QED BY <1>2, <1>5, <1>8

\* A free block becomes used.
LEMMA MarkUsed ==
  ASSUME NEW it, Chain(it), NEW i \in DOMAIN it, ~it[i].used,
         NEW r, r = [it EXCEPT ![i].used = TRUE]
  PROVE  /\ FreeIn(r) = FreeIn(it) \ {i}
         /\ Sum(r, FreeIn(r)) = Sum(it, FreeIn(it)) - MEMITEM_SIZE(it, i)
<1>0. i # tail
  BY ChainFacts
<1>1. /\ Chain(r) /\ DOMAIN r = DOMAIN it /\ r[i].used = TRUE
      /\ SameNext(it, r, DOMAIN it) /\ SameUse(it, r, DOMAIN it \ {i})
  <2>1. Chain(r) /\ Marks(it, i, TRUE, r)
    BY <1>0, ChainMark
  <2> QED BY <2>1 DEF Marks
<1>2. FreeIn(r) = FreeIn(it) \ {i} /\ i \in FreeIn(it)
  BY <1>1 DEF FreeIn, SameUse
<1>3. Blocks(it, FreeIn(it)) /\ FreeIn(it) \subseteq DOMAIN it \ {tail}
  BY FreeFacts
<1>4. Sum(r, FreeIn(r)) = Sum(it, FreeIn(r))
  <2>1. Blocks(it, FreeIn(r)) /\ Blocks(r, FreeIn(r)) /\ SameNext(it, r, FreeIn(r))
    BY <1>1, <1>2, <1>3, FreeFacts DEF SameNext, Blocks
  <2> QED BY <1>1, <2>1, SumSame
<1>5. /\ Sum(it, FreeIn(it)) = MEMITEM_SIZE(it, i) + Sum(it, FreeIn(it) \ {i})
      /\ MEMITEM_SIZE(it, i) \in Nat /\ Sum(it, FreeIn(it) \ {i}) \in Nat
  BY <1>2, <1>3, SumOut
<1>6. Sum(r, FreeIn(r)) = Sum(it, FreeIn(it)) - MEMITEM_SIZE(it, i)
  BY ONLY <1>2, <1>4, <1>5
<1> QED BY <1>2, <1>6

\* A free block with a free one before it is merged with it: its header is free
\* memory too.
LEMMA Merge ==
  ASSUME NEW it, Chain(it), NEW i \in DOMAIN it, ~it[i].used, ~it[it[i].prev].used,
         NEW r, r = chain_remove(it, i)
  PROVE  /\ i # 0 /\ i # tail
         /\ FreeIn(r) = FreeIn(it) \ {i}
         /\ Sum(it, FreeIn(it)) \in Nat
         /\ Sum(r, FreeIn(r)) = Sum(it, FreeIn(it)) + RT_MEMHEAP_SIZE
<1> DEFINE p == it[i].prev
           n == it[i].next
           A == FreeIn(it)
<1>0. i # tail /\ i # 0
  BY ChainFacts, FreeFacts
<1>1. /\ Chain(r) /\ DOMAIN r = DOMAIN it \ {i}
      /\ p # i /\ p \in DOMAIN r
      /\ r[p].next = n
      /\ SameNext(it, r, DOMAIN it \ {i, p}) /\ SameUse(it, r, DOMAIN it \ {i})
  <2>1. Chain(r) /\ Unlinks(it, i, r)
    BY <1>0, ChainRemove
  <2> QED BY <2>1 DEF Unlinks
<1>2. p \in DOMAIN it /\ it[p].next = i /\ i \in Nat /\ p \in Nat /\ n \in Nat
  BY ChainFacts
<1>3. ~it[p].used
  OBVIOUS
<1> HIDE DEF p, n
<1>4. FreeIn(r) = A \ {i} /\ i \in A /\ p \in A \ {i}
  BY <1>1, <1>2, <1>3 DEF FreeIn, SameUse
<1>5. /\ Blocks(it, A) /\ A \subseteq DOMAIN it \ {tail}
      /\ Blocks(r, FreeIn(r)) /\ FreeIn(r) \subseteq DOMAIN r \ {tail}
  BY <1>1, FreeFacts
<1> HIDE DEF A
<1>6. /\ Sum(it, A) = MEMITEM_SIZE(it, i) + Sum(it, A \ {i}) /\ Sum(it, A) \in Nat
      /\ MEMITEM_SIZE(it, i) \in Nat
  BY <1>4, <1>5, SumOut
<1>7. /\ Sum(it, A \ {i}) = MEMITEM_SIZE(it, p) + Sum(it, (A \ {i}) \ {p})
      /\ MEMITEM_SIZE(it, p) \in Nat /\ Sum(it, (A \ {i}) \ {p}) \in Nat
  <2>1. Blocks(it, A \ {i})
    BY <1>5 DEF Blocks
  <2> QED BY <1>4, <2>1, SumOut
<1>8. Sum(r, A \ {i}) = MEMITEM_SIZE(r, p) + Sum(r, (A \ {i}) \ {p})
  BY <1>1, <1>4, <1>5, SumOut
<1>9. Sum(r, (A \ {i}) \ {p}) = Sum(it, (A \ {i}) \ {p})
  <2>1. /\ Blocks(it, (A \ {i}) \ {p}) /\ Blocks(r, (A \ {i}) \ {p})
        /\ SameNext(it, r, (A \ {i}) \ {p})
    BY <1>1, <1>4, <1>5 DEF SameNext, Blocks
  <2> QED BY <1>1, <2>1, SumSame
<1>10. MEMITEM_SIZE(r, p) = MEMITEM_SIZE(it, i) + MEMITEM_SIZE(it, p) + RT_MEMHEAP_SIZE
  <2>1. MEMITEM_SIZE(r, p) = n - p - RT_MEMHEAP_SIZE
    BY <1>1 DEF MEMITEM_SIZE
  <2>2. MEMITEM_SIZE(it, p) = i - p - RT_MEMHEAP_SIZE
    BY <1>2 DEF MEMITEM_SIZE
  <2>3. MEMITEM_SIZE(it, i) = n - i - RT_MEMHEAP_SIZE
    BY DEF MEMITEM_SIZE, n
  <2> QED BY ONLY <1>2, <2>1, <2>2, <2>3, HeapConstants
<1> DEFINE a == Sum(it, A)
           b == Sum(it, A \ {i})
           c == Sum(it, (A \ {i}) \ {p})
           d == Sum(r, A \ {i})
           e == MEMITEM_SIZE(it, i)
           f == MEMITEM_SIZE(it, p)
           g == MEMITEM_SIZE(r, p)
<1>11. /\ a = e + b /\ b = f + c /\ d = g + c /\ g = e + f + RT_MEMHEAP_SIZE
       /\ c \in Nat /\ e \in Nat /\ f \in Nat
  BY <1>6, <1>7, <1>8, <1>9, <1>10
<1>12. d = a + RT_MEMHEAP_SIZE
  <2> HIDE DEF a, b, c, d, e, f, g
  <2> QED BY ONLY <1>11, HeapConstants
<1> QED BY <1>0, <1>4, <1>6, <1>12 DEF A

\* A free header is put behind a used one.
LEMMA InsertFree ==
  ASSUME NEW it, Chain(it), NEW h \in DOMAIN it, h # tail, it[h].used,
         NEW new \in Nat,
         new >= h + RT_MEMHEAP_SIZE + RT_MEMHEAP_MINIALLOC,
         it[h].next >= new + RT_MEMHEAP_SIZE + RT_MEMHEAP_MINIALLOC,
         NEW r, r = chain_insert(it, h, new)
  PROVE  /\ FreeIn(r) = FreeIn(it) \cup {new} /\ new \notin FreeIn(it)
         /\ Sum(it, FreeIn(it)) \in Nat
         /\ Sum(r, FreeIn(it)) = Sum(it, FreeIn(it))
         /\ MEMITEM_SIZE(r, new) = it[h].next - new - RT_MEMHEAP_SIZE
         /\ MEMITEM_SIZE(r, new) \in Nat
         /\ Sum(r, FreeIn(r)) = Sum(it, FreeIn(it)) + MEMITEM_SIZE(r, new)
<1>0. Chain(r) /\ Links(it, h, new, r)
  BY ChainInsert
<1>1. /\ Chain(r) /\ new \notin DOMAIN it /\ DOMAIN r = DOMAIN it \cup {new}
      /\ SameNext(it, r, DOMAIN it \ {h}) /\ SameUse(it, r, DOMAIN it)
  BY <1>0 DEF Links
<1>2. r[new].next = it[h].next /\ r[new].used = FALSE
  BY <1>0 DEF Links
<1>3. /\ FreeIn(r) = FreeIn(it) \cup {new} /\ new \notin FreeIn(it)
      /\ h \notin FreeIn(it)
  BY <1>1, <1>2 DEF FreeIn, SameUse
<1>4. /\ Blocks(it, FreeIn(it)) /\ FreeIn(it) \subseteq DOMAIN it \ {tail}
      /\ Blocks(r, FreeIn(r)) /\ FreeIn(r) \subseteq DOMAIN r \ {tail}
  BY <1>1, FreeFacts
<1>5. Sum(it, FreeIn(it)) \in Nat /\ Sum(r, FreeIn(it)) = Sum(it, FreeIn(it))
  <2>1. SameNext(it, r, FreeIn(it)) /\ Blocks(r, FreeIn(it))
    BY <1>1, <1>3, <1>4 DEF SameNext, Blocks
  <2> QED BY <1>1, <1>4, <2>1, SumSame
<1>6. FreeIn(r) \ {new} = FreeIn(it) /\ new \in FreeIn(r)
  BY <1>3
<1>7. /\ Sum(r, FreeIn(r)) = MEMITEM_SIZE(r, new) + Sum(r, FreeIn(r) \ {new})
      /\ MEMITEM_SIZE(r, new) \in Nat
  BY <1>1, <1>4, <1>6, SumOut
<1>8. MEMITEM_SIZE(r, new) = it[h].next - new - RT_MEMHEAP_SIZE
  BY <1>2 DEF MEMITEM_SIZE
<1> QED BY <1>3, <1>5, <1>6, <1>7, <1>8

\* A free header behind a used one goes.
LEMMA RemoveFree ==
  ASSUME NEW it, Chain(it), NEW i \in DOMAIN it, ~it[i].used, it[it[i].prev].used, i # 0,
         NEW r, r = chain_remove(it, i)
  PROVE  /\ FreeIn(r) = FreeIn(it) \ {i}
         /\ Sum(r, FreeIn(r)) = Sum(it, FreeIn(it)) - MEMITEM_SIZE(it, i)
<1> DEFINE p == it[i].prev
<1>0. i # tail /\ p \in DOMAIN it
  BY ChainFacts
<1>1. /\ Chain(r) /\ DOMAIN r = DOMAIN it \ {i}
      /\ SameNext(it, r, DOMAIN it \ {i, p}) /\ SameUse(it, r, DOMAIN it \ {i})
  <2>1. Chain(r) /\ Unlinks(it, i, r)
    BY <1>0, ChainRemove
  <2> QED BY <2>1 DEF Unlinks
<1>2. FreeIn(r) = FreeIn(it) \ {i} /\ i \in FreeIn(it) /\ p \notin FreeIn(it)
  BY <1>1 DEF FreeIn, SameUse
<1>3. Blocks(it, FreeIn(it)) /\ FreeIn(it) \subseteq DOMAIN it \ {tail}
  BY FreeFacts
<1>4. Sum(r, FreeIn(r)) = Sum(it, FreeIn(r))
  <2>1. Blocks(it, FreeIn(r)) /\ Blocks(r, FreeIn(r)) /\ SameNext(it, r, FreeIn(r))
    BY <1>1, <1>2, <1>3, FreeFacts DEF SameNext, Blocks
  <2> HIDE DEF p
  <2> QED BY <1>1, <1>2, <2>1, SumSame
<1>5. /\ Sum(it, FreeIn(it)) = MEMITEM_SIZE(it, i) + Sum(it, FreeIn(it) \ {i})
      /\ MEMITEM_SIZE(it, i) \in Nat /\ Sum(it, FreeIn(it) \ {i}) \in Nat
  BY <1>2, <1>3, SumOut
<1> QED BY <1>2, <1>4, <1>5

-----------------------------------------------------------------------------
(* The free list.                                                          *)

\* fl lists the blocks of A, once each.
List(fl, A) == fl \in Seq(Nat) /\ IsInjective(fl) /\ ToSet(fl) = A

\* What free_remove makes of the list.
Out(fl, i) == RemoveAt(fl, CHOOSE j \in DOMAIN fl : fl[j] = i)

LEMMA ListWithout ==
  ASSUME NEW fl, NEW A, List(fl, A), NEW i \in A,
         NEW r, r = Out(fl, i)
  PROVE  List(r, A \ {i})
<1> DEFINE j == CHOOSE j \in DOMAIN fl : fl[j] = i
<1>1. j \in DOMAIN fl /\ fl[j] = i
  BY DEF List, ToSet
<1>2. r = RemoveAt(fl, j)
  BY DEF Out
<1> HIDE DEF j
<1> QED BY <1>1, <1>2, RemoveAtProperties DEF List

LEMMA ListPrepend ==
  ASSUME NEW fl, NEW A, List(fl, A), NEW i \in Nat, i \notin A,
         NEW r, r = <<i>> \o fl
  PROVE  List(r, A \cup {i})
BY PrependDistinct DEF List

-----------------------------------------------------------------------------
(* What the operations of the heap do to the chain.                        *)

\* The used blocks of it but those in X stay, where they are and as large; the
\* used blocks of r but those in X were used before.
KeptUsed(it, r, X) ==
  \A j \in DOMAIN it :
    it[j].used /\ j \notin X => j \in DOMAIN r /\ r[j].used /\ r[j].next = it[j].next
UsedFrom(it, r, X) ==
  \A j \in DOMAIN r : r[j].used /\ j \notin X => j \in DOMAIN it /\ it[j].used

\* No two neighbours are free, but perhaps i and the block behind it.
ApartBut(it, i) == \A j \in DOMAIN it : ~it[j].used /\ j # i => it[it[j].next].used

\* The block i of it became free and is part of the block first of r, which ends
\* where i ended.
Freed(it, i, r, first) ==
  /\ first \in FreeIn(r) /\ r[first].next = it[i].next
  /\ ApartBut(r, first)
  /\ it[i].next \in DOMAIN r /\ it[i].next \in DOMAIN it /\ it[i].next # i
  /\ r[it[i].next].used = it[it[i].next].used
  /\ KeptUsed(it, r, {i}) /\ UsedFrom(it, r, {})
  /\ i \in DOMAIN r => ~r[i].used

\* Without a free block on the left the block that becomes free is its own.
LEMMA FreeAlone ==
  ASSUME NEW it, Chain(it), Apart(it), NEW i \in DOMAIN it, i # tail, it[i].used,
         it[it[i].prev].used,
         NEW r, r = [it EXCEPT ![i].used = FALSE]
  PROVE  /\ Chain(r) /\ Freed(it, i, r, i)
         /\ FreeIn(r) = FreeIn(it) \cup {i}
         /\ Sum(it, FreeIn(it)) \in Nat
         /\ Sum(r, FreeIn(r)) = Sum(it, FreeIn(it)) + MEMITEM_SIZE(it, i)
<1>1. /\ FreeIn(r) = FreeIn(it) \cup {i}
      /\ Sum(it, FreeIn(it)) \in Nat
      /\ Sum(r, FreeIn(r)) = Sum(it, FreeIn(it)) + MEMITEM_SIZE(it, i)
  BY MarkFree
<1>2. Chain(r) /\ Marks(it, i, FALSE, r)
  BY ChainMark
<1>3. /\ DOMAIN r = DOMAIN it /\ r[i].used = FALSE
      /\ \A j \in DOMAIN it : r[j].next = it[j].next
      /\ \A j \in DOMAIN it : j # i => r[j].used = it[j].used
  BY <1>2 DEF Marks, SameNext, SameUse
<1>4. it[i].next \in DOMAIN it /\ it[i].next # i
  BY ChainFacts
<1>5. ASSUME NEW j \in DOMAIN it, ~it[j].used
      PROVE  it[j].next \in DOMAIN it /\ it[j].next # i /\ it[it[j].next].used
  <2>1. it[j].next \in DOMAIN it /\ it[it[j].next].prev = j
    BY ChainFacts
  <2> QED BY <1>5, <2>1 DEF Apart
<1>6. ApartBut(r, i)
  <2> SUFFICES ASSUME NEW j \in DOMAIN it, ~r[j].used, j # i
               PROVE  r[r[j].next].used
    BY <1>3 DEF ApartBut
  <2>1. ~it[j].used
    BY <1>3
  <2> QED BY <1>3, <1>5, <2>1
<1>7. KeptUsed(it, r, {i}) /\ UsedFrom(it, r, {})
  <2>1. ASSUME NEW j \in DOMAIN it, it[j].used, j # i
        PROVE  j \in DOMAIN r /\ r[j].used /\ r[j].next = it[j].next
    BY <1>3, <2>1
  <2>2. ASSUME NEW j \in DOMAIN r, r[j].used
        PROVE  j \in DOMAIN it /\ it[j].used
    BY <1>3, <2>2
  <2> QED BY <2>1, <2>2 DEF KeptUsed, UsedFrom
<1>8. i \in FreeIn(r)
  BY <1>1
<1> QED BY <1>1, <1>2, <1>3, <1>4, <1>6, <1>7, <1>8 DEF Freed

\* With one it becomes part of that one.
LEMMA FreeLeft ==
  ASSUME NEW it, Chain(it), Apart(it), NEW i \in DOMAIN it, i # tail, it[i].used,
         ~it[it[i].prev].used,
         NEW r, r = chain_remove([it EXCEPT ![i].used = FALSE], i)
  PROVE  /\ Chain(r) /\ Freed(it, i, r, it[i].prev)
         /\ FreeIn(r) = FreeIn(it)
         /\ Sum(it, FreeIn(it)) \in Nat
         /\ Sum(r, FreeIn(r))
              = Sum(it, FreeIn(it)) + MEMITEM_SIZE(it, i) + RT_MEMHEAP_SIZE
<1>0. PICK f : f = [it EXCEPT ![i].used = FALSE]
  OBVIOUS
<1>1. r = chain_remove(f, i)
  BY <1>0
<1>2. /\ FreeIn(f) = FreeIn(it) \cup {i}
      /\ Sum(it, FreeIn(it)) \in Nat
      /\ Sum(f, FreeIn(f)) = Sum(it, FreeIn(it)) + MEMITEM_SIZE(it, i)
  BY <1>0, MarkFree
<1>3. Chain(f) /\ Marks(it, i, FALSE, f)
  BY <1>0, ChainMark
<1>4. /\ DOMAIN f = DOMAIN it /\ f[i].used = FALSE /\ f[i].prev = it[i].prev
      /\ \A j \in DOMAIN it : f[j].next = it[j].next
      /\ \A j \in DOMAIN it : j # i => f[j].used = it[j].used
  BY <1>3 DEF Marks, SameNext, SameUse
<1> DEFINE p == it[i].prev
           n == it[i].next
<1>5. /\ p \in DOMAIN it /\ n \in DOMAIN it /\ p # i /\ n # i
      /\ \A j \in DOMAIN it : it[j].next = i => j = p
  BY ChainFacts
<1>6. ~f[f[i].prev].used
  BY <1>4, <1>5
<1>7. /\ i # 0 /\ FreeIn(r) = FreeIn(f) \ {i}
      /\ Sum(r, FreeIn(r)) = Sum(f, FreeIn(f)) + RT_MEMHEAP_SIZE
  <2>1. i \in DOMAIN f /\ ~f[i].used
    BY <1>4
  <2> QED BY <1>1, <1>3, <1>6, <2>1, Merge
<1>8. Chain(r) /\ Unlinks(f, i, r)
  BY <1>1, <1>3, <1>4, <1>7, ChainRemove
<1>9. /\ DOMAIN r = DOMAIN it \ {i}
      /\ r[p].next = n
      /\ \A j \in DOMAIN r : j # p => r[j].next = it[j].next
      /\ \A j \in DOMAIN r : r[j].used = it[j].used
  <2>1. /\ DOMAIN r = DOMAIN f \ {i}
        /\ r[f[i].prev].next = f[i].next
        /\ \A j \in DOMAIN f \ {i, f[i].prev} : r[j].next = f[j].next
        /\ \A j \in DOMAIN f \ {i} : r[j].used = f[j].used
    BY <1>8 DEF Unlinks, SameNext, SameUse
  <2>2. DOMAIN r = DOMAIN it \ {i} /\ r[p].next = n
    BY <1>4, <2>1
  <2>3. ASSUME NEW j \in DOMAIN it \ {i}
        PROVE  (j # p => r[j].next = it[j].next) /\ r[j].used = it[j].used
    BY <1>4, <2>1
  <2> QED BY <2>2, <2>3
<1>10. ~it[p].used
  OBVIOUS
<1> HIDE DEF p, n
<1>11. FreeIn(r) = FreeIn(it)
  <2>1. i \notin FreeIn(it)
    BY DEF FreeIn
  <2> QED BY <1>2, <1>7, <2>1
<1>12. ApartBut(r, p)
  <2> SUFFICES ASSUME NEW j \in DOMAIN r, ~r[j].used, j # p
               PROVE  r[r[j].next].used
    BY DEF ApartBut
  <2>1. j \in DOMAIN it /\ ~it[j].used /\ it[j].next \in DOMAIN it
    BY <1>9, ChainFacts
  <2>2. it[it[j].next].used /\ it[j].next # i
    BY <1>5, <2>1 DEF Apart
  <2>3. it[j].next \in DOMAIN r /\ r[j].next = it[j].next
    BY <1>9, <2>1, <2>2
  <2> QED BY <1>9, <2>2, <2>3
<1>13. KeptUsed(it, r, {i}) /\ UsedFrom(it, r, {})
  <2>1. ASSUME NEW j \in DOMAIN it, it[j].used, j # i
        PROVE  j \in DOMAIN r /\ r[j].used /\ r[j].next = it[j].next
    BY <1>9, <1>10, <2>1
  <2>2. ASSUME NEW j \in DOMAIN r, r[j].used
        PROVE  j \in DOMAIN it /\ it[j].used
    BY <1>9, <2>2
  <2> QED BY <2>1, <2>2 DEF KeptUsed, UsedFrom
<1>14. /\ p \in FreeIn(r) /\ n \in DOMAIN r /\ r[n].used = it[n].used
       /\ i \notin DOMAIN r
  <2>1. p \in FreeIn(it)
    BY <1>5, <1>10 DEF FreeIn
  <2> QED BY <1>5, <1>9, <1>11, <2>1
<1>15. Freed(it, i, r, p)
  BY <1>5, <1>9, <1>12, <1>13, <1>14 DEF Freed, n
<1>16. Sum(r, FreeIn(r))
         = Sum(it, FreeIn(it)) + MEMITEM_SIZE(it, i) + RT_MEMHEAP_SIZE
  BY ONLY <1>2, <1>7
<1> QED BY <1>2, <1>8, <1>11, <1>15, <1>16 DEF p

\* A free block is merged with the free one behind it, if there is one.
LEMMA FreeRight ==
  ASSUME NEW it, Chain(it), NEW i \in FreeIn(it), ApartBut(it, i),
         NEW n, n = it[i].next, ~it[n].used,
         NEW r, r = chain_remove(it, n)
  PROVE  /\ Chain(r) /\ Apart(r) /\ n \in FreeIn(it) /\ n # i
         /\ FreeIn(r) = FreeIn(it) \ {n}
         /\ Sum(it, FreeIn(it)) \in Nat
         /\ Sum(r, FreeIn(r)) = Sum(it, FreeIn(it)) + RT_MEMHEAP_SIZE
         /\ KeptUsed(it, r, {}) /\ UsedFrom(it, r, {})
<1>1. i \in DOMAIN it /\ ~it[i].used /\ n \in DOMAIN it /\ n # i /\ it[n].prev = i
  BY ChainFacts DEF FreeIn
<1>2. /\ n # 0 /\ n # tail /\ FreeIn(r) = FreeIn(it) \ {n}
      /\ Sum(it, FreeIn(it)) \in Nat
      /\ Sum(r, FreeIn(r)) = Sum(it, FreeIn(it)) + RT_MEMHEAP_SIZE
  <2>1. ~it[it[n].prev].used
    BY <1>1
  <2> QED BY <1>1, <2>1, Merge
<1>3. Chain(r) /\ Unlinks(it, n, r)
  BY <1>1, <1>2, ChainRemove
<1> DEFINE m == it[n].next
<1>4. /\ DOMAIN r = DOMAIN it \ {n} /\ r[i].next = m /\ m \in DOMAIN r
      /\ \A j \in DOMAIN it \ {n, i} : r[j].next = it[j].next
      /\ \A j \in DOMAIN it \ {n} : r[j].used = it[j].used
  BY <1>1, <1>3 DEF Unlinks, SameNext, SameUse
<1>5. it[m].used
  BY <1>1 DEF ApartBut
<1> HIDE DEF m
<1>6. Apart(r)
  <2> SUFFICES ASSUME NEW j \in DOMAIN r, ~r[j].used
               PROVE  r[r[j].next].used
    BY DEF Apart
  <2>1. CASE j = i
    BY <1>4, <1>5, <2>1
  <2>2. CASE j # i
    <3>1. j \in DOMAIN it /\ ~it[j].used /\ it[j].next \in DOMAIN it
      BY <1>4, ChainFacts
    <3>2. it[it[j].next].used
      BY <2>2, <3>1 DEF ApartBut
    <3>3. it[j].next \in DOMAIN r /\ r[j].next = it[j].next
      BY <1>4, <2>2, <3>1, <3>2
    <3> QED BY <1>4, <3>2, <3>3
  <2> QED BY <2>1, <2>2
<1>7. KeptUsed(it, r, {}) /\ UsedFrom(it, r, {})
  <2>1. ASSUME NEW j \in DOMAIN it, it[j].used
        PROVE  j \in DOMAIN r /\ r[j].used /\ r[j].next = it[j].next
    BY <1>1, <1>4, <2>1
  <2>2. ASSUME NEW j \in DOMAIN r, r[j].used
        PROVE  j \in DOMAIN it /\ it[j].used
    BY <1>4, <2>2
  <2> QED BY <2>1, <2>2 DEF KeptUsed, UsedFrom
<1>8. n \in FreeIn(it)
  BY <1>1 DEF FreeIn
<1> QED BY <1>1, <1>2, <1>3, <1>6, <1>7, <1>8

\* The heap between two operations: A are the blocks in the free list.
HeapOK(it, fl, av, A) ==
  /\ Chain(it) /\ Apart(it)
  /\ List(fl, A) /\ av = Sum(it, A)

\* rt_memheap_free, whichever neighbours are free.
LEMMA FreeEffect ==
  ASSUME HeapOK(item, free_list, available_size, FreeIn(item)),
         NEW i \in DOMAIN item, i # tail, item[i].used,
         rt_memheap_free(i)
  PROVE  /\ HeapOK(item', free_list', available_size', FreeIn(item'))
         /\ KeptUsed(item, item', {i}) /\ UsedFrom(item, item', {})
         /\ i \in DOMAIN item' => ~item'[i].used
<1> DEFINE F     == FreeIn(item)
           n     == item[i].next
           left  == ~item[item[i].prev].used
           right == ~item[n].used
           first == IF left THEN item[i].prev ELSE i
           freed == [item EXCEPT ![i].used = FALSE]
           alone == IF left THEN chain_remove(freed, i) ELSE freed
           more  == IF left THEN RT_MEMHEAP_SIZE ELSE 0
<1>0. /\ Chain(item) /\ Apart(item) /\ List(free_list, F)
      /\ available_size = Sum(item, F)
  BY DEF HeapOK
<1>1. /\ item' = IF right THEN chain_remove(alone, n) ELSE alone
      /\ available_size' = available_size + MEMITEM_SIZE(item, i) + more
                             + (IF right THEN RT_MEMHEAP_SIZE ELSE 0)
      /\ free_list' = (IF left THEN << >> ELSE <<first>>)
           \o (IF right
               THEN Out(free_list, n)
               ELSE free_list)
  BY DEF rt_memheap_free, free_remove, Out
<1>2. /\ Chain(alone) /\ Freed(item, i, alone, first)
      /\ FreeIn(alone) = IF left THEN F ELSE F \cup {i}
      /\ Sum(item, F) \in Nat
      /\ Sum(alone, FreeIn(alone)) = Sum(item, F) + MEMITEM_SIZE(item, i) + more
  <2>1. CASE left
    <3>1. alone = chain_remove(freed, i) /\ first = item[i].prev
          /\ more = RT_MEMHEAP_SIZE
      BY <2>1
    <3> HIDE DEF alone, first, more
    <3> QED BY <1>0, <2>1, <3>1, FreeLeft
  <2>2. CASE ~left
    <3>1. alone = freed /\ first = i /\ more = 0
      BY <2>2
    <3> HIDE DEF alone, first, more
    <3>2. item[item[i].prev].used
      BY <2>2
    <3>3. /\ Chain(alone) /\ Freed(item, i, alone, i)
          /\ FreeIn(alone) = F \cup {i}
          /\ Sum(item, F) \in Nat
          /\ Sum(alone, FreeIn(alone)) = Sum(item, F) + MEMITEM_SIZE(item, i)
      BY <1>0, <3>1, <3>2, FreeAlone
    <3>4. MEMITEM_SIZE(item, i) \in Nat
      BY <1>0, ChainFacts
    <3>5. Sum(alone, FreeIn(alone)) = Sum(item, F) + MEMITEM_SIZE(item, i) + more
      BY ONLY <3>1, <3>3, <3>4
    <3> QED BY <2>2, <3>1, <3>3, <3>5
  <2> QED BY <2>1, <2>2
<1> HIDE DEF alone, freed
<1>3. MEMITEM_SIZE(item, i) \in Nat /\ more \in Nat /\ i \in Nat
  BY <1>0, ChainFacts, HeapConstants
<1>4. /\ first \in FreeIn(alone) /\ alone[first].next = n
      /\ ApartBut(alone, first)
      /\ n \in DOMAIN alone /\ n \in DOMAIN item /\ n # i
      /\ alone[n].used = item[n].used
      /\ KeptUsed(item, alone, {i}) /\ UsedFrom(item, alone, {})
      /\ i \in DOMAIN alone => ~alone[i].used
  BY <1>2 DEF Freed
<1>5. i \notin F /\ (right => n \in F)
  BY <1>4 DEF FreeIn
<1> HIDE DEF first, more, F
<1>6. /\ Chain(item') /\ Apart(item')
      /\ FreeIn(item') = IF right THEN FreeIn(alone) \ {n} ELSE FreeIn(alone)
      /\ Sum(item', FreeIn(item'))
           = Sum(alone, FreeIn(alone)) + (IF right THEN RT_MEMHEAP_SIZE ELSE 0)
      /\ KeptUsed(alone, item', {}) /\ UsedFrom(alone, item', {})
  <2>1. CASE right
    <3>1. item' = chain_remove(alone, n) /\ n = alone[first].next /\ ~alone[n].used
      BY <1>1, <1>4, <2>1
    <3> HIDE DEF n
    <3>2. /\ Chain(item') /\ Apart(item')
          /\ FreeIn(item') = FreeIn(alone) \ {n}
          /\ Sum(item', FreeIn(item')) = Sum(alone, FreeIn(alone)) + RT_MEMHEAP_SIZE
          /\ KeptUsed(alone, item', {}) /\ UsedFrom(alone, item', {})
      <4>1. /\ Chain(alone) /\ first \in FreeIn(alone) /\ ApartBut(alone, first)
            /\ n = alone[first].next /\ ~alone[n].used
            /\ item' = chain_remove(alone, n)
        BY <1>2, <1>4, <3>1
      <4> QED BY ONLY <4>1, FreeRight
    <3> HIDE DEF right
    <3> QED BY <2>1, <3>2
  <2>2. CASE ~right
    <3>1. item' = alone /\ alone[n].used
      BY <1>1, <1>4, <2>2
    <3>2. Apart(alone)
      BY <1>4, <3>1 DEF ApartBut, Apart
    <3>3. Sum(alone, FreeIn(alone)) + 0 = Sum(alone, FreeIn(alone))
      BY ONLY <1>2, <1>3
    <3>4. KeptUsed(alone, item', {}) /\ UsedFrom(alone, item', {})
      BY <3>1 DEF KeptUsed, UsedFrom
    <3> HIDE DEF right
    <3> QED BY <1>2, <2>2, <3>1, <3>2, <3>3, <3>4
  <2> QED BY <2>1, <2>2
<1>7. List(free_list', FreeIn(item'))
  <2> DEFINE rest == IF right
                     THEN Out(free_list, n)
                     ELSE free_list
             R == IF right THEN F \ {n} ELSE F
  <2>1. List(rest, R)
    <3>1. CASE right
      <4>1. rest = Out(free_list, n)
            /\ R = F \ {n} /\ n \in F
        BY <1>5, <3>1
      <4> HIDE DEF rest, R, n
      <4> QED BY <1>0, <4>1, ListWithout
    <3>2. CASE ~right
      BY <1>0, <3>2
    <3> QED BY <3>1, <3>2
  <2>2. free_list' = (IF left THEN << >> ELSE <<first>>) \o rest
    BY <1>1
  <2> HIDE DEF rest
  <2>3. CASE left
    <3>1. free_list' = << >> \o rest
      BY <2>2, <2>3
    <3>2. free_list' = rest
      BY <2>1, <3>1, ConcatEmptySeq DEF List
    <3>3. FreeIn(item') = R
      BY <1>2, <1>6, <2>3
    <3> QED BY <2>1, <3>2, <3>3
  <2>4. CASE ~left
    <3>1. free_list' = <<i>> \o rest
      BY <2>2, <2>4 DEF first
    <3>2. i \notin R
      BY <1>5
    <3>3. FreeIn(item') = R \cup {i}
      BY <1>2, <1>4, <1>6, <2>4
    <3> HIDE DEF R
    <3>4. List(free_list', R \cup {i})
      BY <1>3, <2>1, <3>1, <3>2, ListPrepend
    <3> QED BY <3>3, <3>4
  <2> QED BY <2>3, <2>4
<1>8. available_size' = Sum(item', FreeIn(item'))
  <2> DEFINE a == Sum(item, F)
             b == MEMITEM_SIZE(item, i)
             d == IF right THEN RT_MEMHEAP_SIZE ELSE 0
             e == Sum(alone, FreeIn(alone))
             g == Sum(item', FreeIn(item'))
  <2>1. /\ a \in Nat /\ b \in Nat /\ more \in Nat /\ d \in Nat
        /\ e = a + b + more /\ g = e + d /\ available_size' = a + b + more + d
    BY <1>0, <1>1, <1>2, <1>3, <1>6, HeapConstants
  <2>2. available_size' = g
    <3> HIDE DEF a, b, d, e, g
    <3> QED BY ONLY <2>1
  <2> QED BY <2>2
<1>9. /\ KeptUsed(item, item', {i}) /\ UsedFrom(item, item', {})
      /\ i \in DOMAIN item' => ~item'[i].used
  <2>1. ASSUME NEW j \in DOMAIN item, item[j].used, j # i
        PROVE  j \in DOMAIN item' /\ item'[j].used /\ item'[j].next = item[j].next
    <3>1. j \in DOMAIN alone /\ alone[j].used /\ alone[j].next = item[j].next
      BY <1>4, <2>1 DEF KeptUsed
    <3> QED BY <1>6, <3>1 DEF KeptUsed
  <2>2. ASSUME NEW j \in DOMAIN item', item'[j].used
        PROVE  j \in DOMAIN item /\ item[j].used /\ j # i
    <3>1. j \in DOMAIN alone /\ alone[j].used
      BY <1>6, <2>2 DEF UsedFrom
    <3>2. j # i
      BY <1>4, <3>1
    <3> QED BY <1>4, <3>1, <3>2 DEF UsedFrom
  <2>3. KeptUsed(item, item', {i}) /\ UsedFrom(item, item', {})
    BY <2>1, <2>2 DEF KeptUsed, UsedFrom
  <2> QED BY <2>2, <2>3
<1> QED BY <1>6, <1>7, <1>8, <1>9 DEF HeapOK

Taken(it, i) == [it EXCEPT ![i].used = TRUE]

\* The free block i of it is used in r, where it ends at end.
Used(it, i, end, r) ==
  /\ KeptUsed(it, r, {}) /\ UsedFrom(it, r, {i})
  /\ i \in DOMAIN r /\ r[i].used /\ r[i].next = end

\* The used block i of it ends at end in r.
Moved(it, i, end, r) ==
  /\ KeptUsed(it, r, {i}) /\ UsedFrom(it, r, {})
  /\ i \in DOMAIN r /\ r[i].used /\ r[i].next = end

\* A free block becomes used as a whole.
LEMMA TakeWhole ==
  ASSUME NEW it, NEW fl, NEW av, HeapOK(it, fl, av, FreeIn(it)),
         NEW i \in FreeIn(it),
         NEW r, r = Taken(it, i),
         NEW fl2, fl2 = Out(fl, i),
         NEW av2, av2 = av - MEMITEM_SIZE(it, i)
  PROVE  HeapOK(r, fl2, av2, FreeIn(r)) /\ Used(it, i, it[i].next, r)
<1>0. /\ Chain(it) /\ Apart(it) /\ List(fl, FreeIn(it)) /\ av = Sum(it, FreeIn(it))
      /\ i \in DOMAIN it /\ ~it[i].used /\ r = [it EXCEPT ![i].used = TRUE]
  BY DEF HeapOK, FreeIn, Taken
<1>1. /\ FreeIn(r) = FreeIn(it) \ {i}
      /\ Sum(r, FreeIn(r)) = Sum(it, FreeIn(it)) - MEMITEM_SIZE(it, i)
  BY <1>0, MarkUsed
<1>2. Chain(r) /\ Marks(it, i, TRUE, r)
  <2>1. i # tail
    BY <1>0, ChainFacts
  <2> QED BY <1>0, <2>1, ChainMark
<1>3. /\ DOMAIN r = DOMAIN it /\ r[i].used = TRUE
      /\ \A j \in DOMAIN it : r[j].next = it[j].next
      /\ \A j \in DOMAIN it : j # i => r[j].used = it[j].used
  BY <1>2 DEF Marks, SameNext, SameUse
<1>4. Apart(r)
  <2> SUFFICES ASSUME NEW j \in DOMAIN it, ~r[j].used
               PROVE  r[r[j].next].used
    BY <1>3 DEF Apart
  <2>1. ~it[j].used /\ it[j].next \in DOMAIN it
    BY <1>0, <1>3, ChainFacts
  <2>2. it[it[j].next].used
    BY <1>0, <2>1 DEF Apart
  <2> QED BY <1>0, <1>3, <2>1, <2>2
<1>5. List(fl2, FreeIn(r))
  <2>1. List(fl2, FreeIn(it) \ {i})
    BY <1>0, ListWithout
  <2> QED BY <1>1, <2>1
<1>6. KeptUsed(it, r, {}) /\ UsedFrom(it, r, {i})
  <2>1. ASSUME NEW j \in DOMAIN it, it[j].used
        PROVE  j \in DOMAIN r /\ r[j].used /\ r[j].next = it[j].next
    BY <1>0, <1>3, <2>1
  <2>2. ASSUME NEW j \in DOMAIN r, r[j].used, j # i
        PROVE  j \in DOMAIN it /\ it[j].used
    BY <1>3, <2>2
  <2> QED BY <2>1, <2>2 DEF KeptUsed, UsedFrom
<1>7. av2 = Sum(r, FreeIn(r))
  BY <1>0, <1>1
<1> QED BY <1>0, <1>2, <1>3, <1>4, <1>5, <1>6, <1>7 DEF HeapOK, Used

\* The first n bytes of the block i are allocated, and the rest is split off.
SplitOff(it, fl, av, i, n, new, r, fl2, av2) ==
  /\ n \in Nat /\ n >= RT_MEMHEAP_MINIALLOC
  /\ MEMITEM_SIZE(it, i) >= n + RT_MEMHEAP_SIZE + RT_MEMHEAP_MINIALLOC
  /\ new = i + n + RT_MEMHEAP_SIZE
  /\ r = Taken(chain_insert(it, i, new), i)
  /\ fl2 = <<new>> \o Out(fl, i)
  /\ av2 = av - n - RT_MEMHEAP_SIZE

\* The header that is split off a free block, which becomes used.
LEMMA TakeSplit ==
  ASSUME NEW it, NEW fl, NEW av, HeapOK(it, fl, av, FreeIn(it)),
         NEW i \in FreeIn(it), NEW n, NEW new, NEW r, NEW fl2, NEW av2,
         SplitOff(it, fl, av, i, n, new, r, fl2, av2)
  PROVE  HeapOK(r, fl2, av2, FreeIn(r)) /\ Used(it, i, new, r)
<1>0. /\ Chain(it) /\ Apart(it) /\ List(fl, FreeIn(it)) /\ av = Sum(it, FreeIn(it))
      /\ i \in DOMAIN it /\ ~it[i].used /\ i # tail /\ i \in Nat
  BY ChainFacts DEF HeapOK, FreeIn
<1>split. /\ n \in Nat /\ n >= RT_MEMHEAP_MINIALLOC
          /\ MEMITEM_SIZE(it, i) >= n + RT_MEMHEAP_SIZE + RT_MEMHEAP_MINIALLOC
          /\ new = i + n + RT_MEMHEAP_SIZE
          /\ r = Taken(chain_insert(it, i, new), i)
          /\ fl2 = <<new>> \o Out(fl, i)
          /\ av2 = av - n - RT_MEMHEAP_SIZE
  BY DEF SplitOff
<1> USE <1>split
<1> DEFINE m == it[i].next
<1>1. m \in DOMAIN it /\ m \in Nat /\ m # i
  BY <1>0, ChainFacts
<1>2. /\ new \in Nat /\ new >= i + RT_MEMHEAP_SIZE + RT_MEMHEAP_MINIALLOC
      /\ m >= new + RT_MEMHEAP_SIZE + RT_MEMHEAP_MINIALLOC
  <2>1. m - i - RT_MEMHEAP_SIZE >= n + RT_MEMHEAP_SIZE + RT_MEMHEAP_MINIALLOC
    BY DEF MEMITEM_SIZE
  <2>2. new = i + n + RT_MEMHEAP_SIZE /\ n \in Nat /\ n >= RT_MEMHEAP_MINIALLOC
    OBVIOUS
  <2> HIDE DEF m
  <2> QED BY ONLY <1>0, <1>1, <2>1, <2>2, HeapConstants
<1>3. PICK s : s = chain_insert(it, i, new)
  OBVIOUS
<1>4. Chain(s) /\ Links(it, i, new, s)
  BY <1>0, <1>2, <1>3, ChainInsert
<1>5. r = [s EXCEPT ![i].used = TRUE]
  BY <1>3 DEF Taken
<1>6. /\ new \notin DOMAIN it /\ DOMAIN s = DOMAIN it \cup {new}
      /\ s[new].next = m /\ s[new].used = FALSE /\ s[i].next = new
      /\ \A j \in DOMAIN it : j # i => s[j].next = it[j].next
      /\ \A j \in DOMAIN it : s[j].used = it[j].used
  BY <1>4 DEF Links, SameNext, SameUse
<1>7. Chain(r) /\ Marks(s, i, TRUE, r)
  <2>1. i \in DOMAIN s
    BY <1>0, <1>6
  <2> QED BY <1>0, <1>4, <1>5, <2>1, ChainMark
<1>8. /\ DOMAIN r = DOMAIN it \cup {new} /\ r[i].used = TRUE
      /\ \A j \in DOMAIN s : r[j].next = s[j].next
      /\ \A j \in DOMAIN s : j # i => r[j].used = s[j].used
  BY <1>6, <1>7 DEF Marks, SameNext, SameUse
<1>9. /\ r[new].next = m /\ r[new].used = FALSE /\ r[i].next = new /\ new # i
      /\ \A j \in DOMAIN it : j # i => r[j].next = it[j].next
      /\ \A j \in DOMAIN it : j # i => r[j].used = it[j].used
  <2>1. new \in DOMAIN s /\ i \in DOMAIN s /\ new # i
    BY <1>0, <1>6
  <2>2. r[new].next = m /\ r[new].used = FALSE /\ r[i].next = new
    BY <1>6, <1>8, <2>1
  <2>3. ASSUME NEW j \in DOMAIN it, j # i
        PROVE  r[j].next = it[j].next /\ r[j].used = it[j].used
    <3>1. j \in DOMAIN s
      BY <1>6
    <3> QED BY <1>6, <1>8, <2>3, <3>1
  <2> QED BY <2>1, <2>2, <2>3
<1>10. it[m].used
  BY <1>0 DEF Apart
<1>20. MEMITEM_SIZE(it, i) = m - i - RT_MEMHEAP_SIZE
  BY DEF MEMITEM_SIZE
<1> HIDE DEF m
<1>11. Apart(r)
  <2> SUFFICES ASSUME NEW j \in DOMAIN r, ~r[j].used
               PROVE  r[r[j].next].used
    BY DEF Apart
  <2>1. CASE j = new
    BY <1>1, <1>9, <1>10, <2>1
  <2>2. CASE j # new
    <3>1. j \in DOMAIN it /\ j # i
      BY <1>8, <2>2
    <3>2. ~it[j].used /\ it[j].next \in DOMAIN it
      BY <1>0, <1>9, <3>1, ChainFacts
    <3>3. it[it[j].next].used /\ it[j].next # i
      BY <1>0, <3>1, <3>2 DEF Apart
    <3> QED BY <1>9, <3>1, <3>2, <3>3
  <2> QED BY <2>1, <2>2
<1>12. FreeIn(r) = (FreeIn(it) \ {i}) \cup {new} /\ new \notin FreeIn(it) \ {i}
  <2>1. ASSUME NEW j
        PROVE  j \in FreeIn(r) <=> j \in (FreeIn(it) \ {i}) \cup {new}
    <3>1. CASE j = new
      BY <1>8, <1>9, <3>1 DEF FreeIn
    <3>2. CASE j = i
      BY <1>8, <1>9, <3>2 DEF FreeIn
    <3>3. CASE j # new /\ j # i
      BY <1>8, <1>9, <3>3 DEF FreeIn
    <3> QED BY <3>1, <3>2, <3>3
  <2>2. new \notin FreeIn(it) \ {i}
    BY <1>6 DEF FreeIn
  <2> QED BY <2>1, <2>2
<1>13. List(fl2, FreeIn(r))
  <2> DEFINE rest == Out(fl, i)
  <2>1. List(rest, FreeIn(it) \ {i})
    BY <1>0, ListWithout
  <2>2. fl2 = <<new>> \o rest
    OBVIOUS
  <2> HIDE DEF rest
  <2>3. List(fl2, (FreeIn(it) \ {i}) \cup {new})
    BY <1>2, <1>12, <2>1, <2>2, ListPrepend
  <2> QED BY <1>12, <2>3
<1>14. av2 = Sum(r, FreeIn(r))
  <2> DEFINE A == FreeIn(it) \ {i}
  <2>1. /\ Blocks(it, FreeIn(it)) /\ Blocks(r, FreeIn(r))
        /\ FreeIn(it) \subseteq DOMAIN it \ {tail} /\ FreeIn(r) \subseteq DOMAIN r \ {tail}
    BY <1>0, <1>7, FreeFacts
  <2>2. /\ Sum(it, FreeIn(it)) = MEMITEM_SIZE(it, i) + Sum(it, A)
        /\ Sum(it, A) \in Nat
    BY <1>0, <2>1, SumOut
  <2>3. FreeIn(r) \ {new} = A /\ new \in FreeIn(r)
    BY <1>12
  <2>4. Sum(r, FreeIn(r)) = MEMITEM_SIZE(r, new) + Sum(r, FreeIn(r) \ {new})
    BY ONLY <1>7, <2>1, <2>3, SumOut
  <2>5. Sum(r, A) = Sum(it, A)
    <3>1. SameNext(it, r, A)
      BY <1>9 DEF SameNext, FreeIn
    <3>2. Blocks(it, A) /\ Blocks(r, A)
      BY <2>1, <2>3 DEF Blocks
    <3> HIDE DEF A
    <3> QED BY <1>0, <1>7, <3>1, <3>2, SumSame
  <2>6. MEMITEM_SIZE(r, new) = m - new - RT_MEMHEAP_SIZE
    BY <1>9 DEF MEMITEM_SIZE
  <2> DEFINE a == Sum(it, FreeIn(it))
             b == Sum(it, A)
             d == Sum(r, FreeIn(r))
  <2>7. /\ a = (m - i - RT_MEMHEAP_SIZE) + b
        /\ d = (m - new - RT_MEMHEAP_SIZE) + b
        /\ av2 = a - n - RT_MEMHEAP_SIZE /\ new = i + n + RT_MEMHEAP_SIZE
        /\ b \in Nat /\ n \in Nat
    BY <1>0, <1>20, <2>2, <2>3, <2>4, <2>5, <2>6
  <2>8. av2 = d
    <3> HIDE DEF a, b, d
    <3> QED BY ONLY <1>0, <1>1, <2>7, HeapConstants
  <2> QED BY <2>8
<1>15. KeptUsed(it, r, {}) /\ UsedFrom(it, r, {i})
  <2>1. ASSUME NEW j \in DOMAIN it, it[j].used
        PROVE  j \in DOMAIN r /\ r[j].used /\ r[j].next = it[j].next
    BY <1>0, <1>8, <1>9, <2>1
  <2>2. ASSUME NEW j \in DOMAIN r, r[j].used, j # i
        PROVE  j \in DOMAIN it /\ it[j].used
    BY <1>8, <1>9, <2>2
  <2> QED BY <2>1, <2>2 DEF KeptUsed, UsedFrom
<1> QED BY <1>0, <1>7, <1>8, <1>9, <1>11, <1>13, <1>14, <1>15 DEF HeapOK, Used

\* The block i grows to n bytes into the free block behind it, the rest of which
\* is split off.
GrowsInto(it, av, fl, i, n, right, new, r, av2, fl2) ==
  /\ right = it[i].next /\ ~it[right].used
  /\ n \in Nat /\ n >= RT_MEMHEAP_MINIALLOC
  /\ MEMITEM_SIZE(it, right) + MEMITEM_SIZE(it, i) > n + RT_MEMHEAP_MINIALLOC
  /\ new = i + RT_MEMHEAP_SIZE + n
  /\ r = chain_insert(chain_remove(it, right), i, new)
  /\ fl2 = <<new>> \o Out(fl, right)
  /\ av2 = av - (n - MEMITEM_SIZE(it, i))

\* A used block that grows into the free one behind it.
LEMMA GrowInto ==
  ASSUME NEW it, NEW fl, NEW av, HeapOK(it, fl, av, FreeIn(it)),
         NEW i \in DOMAIN it, i # tail, it[i].used,
         NEW n, NEW right, NEW new, NEW r, NEW av2, NEW fl2,
         GrowsInto(it, av, fl, i, n, right, new, r, av2, fl2)
  PROVE  HeapOK(r, fl2, av2, FreeIn(r)) /\ Moved(it, i, new, r)
<1>grow. /\ right = it[i].next /\ ~it[right].used
         /\ n \in Nat /\ n >= RT_MEMHEAP_MINIALLOC
         /\ MEMITEM_SIZE(it, right) + MEMITEM_SIZE(it, i) > n + RT_MEMHEAP_MINIALLOC
         /\ new = i + RT_MEMHEAP_SIZE + n
         /\ r = chain_insert(chain_remove(it, right), i, new)
         /\ fl2 = <<new>> \o Out(fl, right)
         /\ av2 = av - (n - MEMITEM_SIZE(it, i))
  BY DEF GrowsInto
<1> USE <1>grow
<1>0. /\ Chain(it) /\ Apart(it) /\ List(fl, FreeIn(it)) /\ av = Sum(it, FreeIn(it))
      /\ i \in Nat
  BY ChainFacts DEF HeapOK
<1>1. /\ right \in DOMAIN it /\ right \in Nat /\ right # i /\ it[right].prev = i
      /\ right # tail /\ right # 0
  <2>1. right \in DOMAIN it /\ right \in Nat /\ right # i /\ it[right].prev = i /\ i < right
    BY <1>0, ChainFacts
  <2>2. right # tail
    BY <1>0, <2>1, ChainFacts
  <2> QED BY <1>0, <2>1, <2>2
<1> DEFINE m == it[right].next
<1>2. m \in DOMAIN it /\ m \in Nat /\ m # right /\ right < m
  <2>1. m \in DOMAIN it /\ m \in Nat /\ right < m
    BY ONLY <1>0, <1>1, ChainFacts
  <2> QED BY ONLY <1>1, <2>1
<1>3. it[m].used
  BY <1>0, <1>1 DEF Apart
<1>4. /\ MEMITEM_SIZE(it, right) = m - right - RT_MEMHEAP_SIZE
      /\ MEMITEM_SIZE(it, i) = right - i - RT_MEMHEAP_SIZE
  BY DEF MEMITEM_SIZE
<1> HIDE DEF m
<1>5. PICK a : a = chain_remove(it, right)
  OBVIOUS
<1>6. Chain(a) /\ Unlinks(it, right, a)
  BY <1>0, <1>1, <1>5, ChainRemove
<1>7. /\ DOMAIN a = DOMAIN it \ {right} /\ a[i].next = m
      /\ \A j \in DOMAIN it \ {right, i} : a[j].next = it[j].next
      /\ \A j \in DOMAIN it \ {right} : a[j].used = it[j].used
  BY <1>1, <1>6 DEF Unlinks, SameNext, SameUse, m
<1>8. /\ FreeIn(a) = FreeIn(it) \ {right}
      /\ Sum(a, FreeIn(a)) = Sum(it, FreeIn(it)) - MEMITEM_SIZE(it, right)
  <2>1. it[it[right].prev].used
    BY <1>1
  <2> QED BY <1>0, <1>1, <1>5, <2>1, RemoveFree
<1>9. /\ new \in Nat /\ new >= i + RT_MEMHEAP_SIZE + RT_MEMHEAP_MINIALLOC
      /\ m >= new + RT_MEMHEAP_SIZE + RT_MEMHEAP_MINIALLOC
  BY ONLY <1>0, <1>1, <1>2, <1>4, HeapConstants, n \in Nat, n >= RT_MEMHEAP_MINIALLOC,
     MEMITEM_SIZE(it, right) + MEMITEM_SIZE(it, i) > n + RT_MEMHEAP_MINIALLOC,
     new = i + RT_MEMHEAP_SIZE + n
<1>10. r = chain_insert(a, i, new) /\ i \in DOMAIN a /\ a[i].used
  BY <1>1, <1>5, <1>7
<1>11. Chain(r) /\ Links(a, i, new, r)
  BY <1>6, <1>7, <1>9, <1>10, ChainInsert
<1>12. /\ new \notin DOMAIN a /\ DOMAIN r = DOMAIN a \cup {new}
       /\ r[new].next = m /\ r[new].used = FALSE /\ r[i].next = new
       /\ \A j \in DOMAIN a \ {i} : r[j].next = a[j].next
       /\ \A j \in DOMAIN a : r[j].used = a[j].used
  BY <1>7, <1>11 DEF Links, SameNext, SameUse
<1>13. /\ FreeIn(r) = FreeIn(a) \cup {new} /\ new \notin FreeIn(a)
       /\ MEMITEM_SIZE(r, new) = m - new - RT_MEMHEAP_SIZE
       /\ Sum(a, FreeIn(a)) \in Nat
       /\ Sum(r, FreeIn(r)) = Sum(a, FreeIn(a)) + MEMITEM_SIZE(r, new)
  <2>1. a[i].next >= new + RT_MEMHEAP_SIZE + RT_MEMHEAP_MINIALLOC
    BY <1>7, <1>9
  <2>2. MEMITEM_SIZE(r, new) = a[i].next - new - RT_MEMHEAP_SIZE
        /\ FreeIn(r) = FreeIn(a) \cup {new} /\ new \notin FreeIn(a)
        /\ Sum(a, FreeIn(a)) \in Nat
        /\ Sum(r, FreeIn(r)) = Sum(a, FreeIn(a)) + MEMITEM_SIZE(r, new)
    BY <1>6, <1>9, <1>10, <2>1, InsertFree
  <2> QED BY <1>7, <2>2
<1>14. Apart(r)
  <2> SUFFICES ASSUME NEW j \in DOMAIN r, ~r[j].used
               PROVE  r[r[j].next].used
    BY DEF Apart
  <2>1. CASE j = new
    BY <1>2, <1>3, <1>7, <1>12, <2>1
  <2>2. CASE j # new
    <3>1. j \in DOMAIN a /\ j \in DOMAIN it /\ j # right
      BY <1>7, <1>12, <2>2
    <3>2. ~it[j].used /\ j # i /\ it[j].next \in DOMAIN it
      <4>1. ~it[j].used
        BY <1>7, <1>12, <3>1
      <4>2. it[j].next \in DOMAIN it
        BY <1>0, <3>1, ChainFacts
      <4> QED BY <4>1, <4>2
    <3>3. it[it[j].next].used /\ it[j].next # right
      BY <1>0, <3>1, <3>2 DEF Apart
    <3>4. r[j].next = it[j].next
      BY <1>7, <1>12, <3>1, <3>2
    <3>5. it[j].next \in DOMAIN a /\ a[it[j].next].used
      BY <1>7, <3>2, <3>3
    <3> QED BY <1>12, <3>4, <3>5
  <2> QED BY <2>1, <2>2
<1>15. List(fl2, FreeIn(r))
  <2> DEFINE rest == Out(fl, right)
  <2>1. List(rest, FreeIn(it) \ {right})
    <3>1. right \in FreeIn(it)
      BY <1>1 DEF FreeIn
    <3> QED BY <1>0, <3>1, ListWithout
  <2>2. fl2 = <<new>> \o rest
    OBVIOUS
  <2> HIDE DEF rest
  <2>3. List(fl2, FreeIn(a) \cup {new})
    BY <1>8, <1>9, <1>13, <2>1, <2>2, ListPrepend
  <2> QED BY <1>13, <2>3
<1>16. av2 = Sum(r, FreeIn(r))
  <2> DEFINE b == Sum(it, FreeIn(it))
             d == Sum(a, FreeIn(a))
             e == Sum(r, FreeIn(r))
  <2>1. /\ d = b - (m - right - RT_MEMHEAP_SIZE)
        /\ e = d + (m - new - RT_MEMHEAP_SIZE)
        /\ av2 = b - (n - (right - i - RT_MEMHEAP_SIZE))
        /\ new = i + RT_MEMHEAP_SIZE + n
        /\ d \in Nat /\ n \in Nat
    BY <1>0, <1>4, <1>8, <1>13
  <2>2. b \in Nat
    BY <1>0, MarkFree
  <2>3. av2 = e
    <3> HIDE DEF b, d, e
    <3> QED BY ONLY <1>0, <1>1, <1>2, <2>1, <2>2, HeapConstants
  <2> QED BY <2>3
<1>17. KeptUsed(it, r, {i}) /\ UsedFrom(it, r, {})
  <2>1. ASSUME NEW j \in DOMAIN it, it[j].used, j # i
        PROVE  j \in DOMAIN r /\ r[j].used /\ r[j].next = it[j].next
    <3>1. j # right
      BY <2>1
    <3> QED BY <1>7, <1>12, <2>1, <3>1
  <2>2. ASSUME NEW j \in DOMAIN r, r[j].used
        PROVE  j \in DOMAIN it /\ it[j].used
    <3>1. j # new
      BY <1>12, <2>2
    <3> QED BY <1>7, <1>12, <2>2, <3>1
  <2> QED BY <2>1, <2>2 DEF KeptUsed, UsedFrom
<1> QED BY <1>10, <1>11, <1>12, <1>14, <1>15, <1>16, <1>17 DEF HeapOK, Moved

\* The heap with a free block that is not in the free list.
HeapBut(it, fl, av, new) == HeapOK(it, fl, av, FreeIn(it) \ {new})

\* The block i of it ends at new in r, where a free block starts.
Shrunk(it, i, new, r) == Moved(it, i, new, r) /\ new \in DOMAIN r /\ ~r[new].used

\* The block i shrinks to n bytes; what is left of it is a block of its own,
\* together with the one behind it if that is free.
SplitsRest(it, fl, av, i, n, new, right, s, r, fl2, av2) ==
  /\ n \in Nat /\ n >= RT_MEMHEAP_MINIALLOC
  /\ n + RT_MEMHEAP_SIZE + RT_MEMHEAP_MINIALLOC <= MEMITEM_SIZE(it, i)
  /\ new = i + n + RT_MEMHEAP_SIZE
  /\ right = it[i].next
  /\ s = chain_insert(it, i, new)
  /\ IF it[right].used
     THEN r = s /\ fl2 = fl /\ av2 = av
     ELSE /\ r = chain_remove(s, right)
          /\ fl2 = Out(fl, right)
          /\ av2 = av - MEMITEM_SIZE(it, right)

\* A used block that is split; the part that becomes free is merged with a free
\* block behind it, which leaves the free list, and is not in the list itself yet.
LEMMA ShrinkSplit ==
  ASSUME NEW it, NEW fl, NEW av, HeapOK(it, fl, av, FreeIn(it)),
         NEW i \in DOMAIN it, i # tail, it[i].used,
         NEW n, NEW new, NEW right, NEW s, NEW r, NEW fl2, NEW av2,
         SplitsRest(it, fl, av, i, n, new, right, s, r, fl2, av2)
  PROVE  HeapBut(r, fl2, av2, new) /\ Shrunk(it, i, new, r)
<1>split. /\ n \in Nat /\ n >= RT_MEMHEAP_MINIALLOC
          /\ n + RT_MEMHEAP_SIZE + RT_MEMHEAP_MINIALLOC <= MEMITEM_SIZE(it, i)
          /\ new = i + n + RT_MEMHEAP_SIZE
          /\ right = it[i].next
          /\ s = chain_insert(it, i, new)
          /\ IF it[right].used
             THEN r = s /\ fl2 = fl /\ av2 = av
             ELSE /\ r = chain_remove(s, right)
                  /\ fl2 = Out(fl, right)
                  /\ av2 = av - MEMITEM_SIZE(it, right)
  BY DEF SplitsRest
<1> USE <1>split
<1>0. /\ Chain(it) /\ Apart(it) /\ List(fl, FreeIn(it)) /\ av = Sum(it, FreeIn(it))
      /\ i \in Nat
  BY ChainFacts DEF HeapOK, HeapBut, Shrunk, Moved
<1>1. right \in DOMAIN it /\ right \in Nat /\ right # i /\ it[right].prev = i
      /\ i < right
  BY <1>0, ChainFacts
<1>2. /\ new \in Nat /\ new >= i + RT_MEMHEAP_SIZE + RT_MEMHEAP_MINIALLOC
      /\ right >= new + RT_MEMHEAP_SIZE + RT_MEMHEAP_MINIALLOC
  <2>1. MEMITEM_SIZE(it, i) = right - i - RT_MEMHEAP_SIZE
    BY DEF MEMITEM_SIZE
  <2> QED BY ONLY <1>0, <1>1, <2>1, HeapConstants, n \in Nat,
             n >= RT_MEMHEAP_MINIALLOC, new = i + n + RT_MEMHEAP_SIZE,
             n + RT_MEMHEAP_SIZE + RT_MEMHEAP_MINIALLOC <= MEMITEM_SIZE(it, i)
<1>3. Chain(s) /\ Links(it, i, new, s)
  BY <1>0, <1>2, ChainInsert
<1>4. /\ new \notin DOMAIN it /\ DOMAIN s = DOMAIN it \cup {new}
      /\ s[new].next = right /\ s[new].used = FALSE /\ s[i].next = new
      /\ \A j \in DOMAIN it \ {i} : s[j].next = it[j].next
      /\ \A j \in DOMAIN it : s[j].used = it[j].used
  BY <1>3 DEF Links, SameNext, SameUse
<1>5. /\ FreeIn(s) = FreeIn(it) \cup {new} /\ new \notin FreeIn(it)
      /\ Sum(it, FreeIn(it)) \in Nat /\ Sum(s, FreeIn(it)) = Sum(it, FreeIn(it))
  BY <1>0, <1>2, InsertFree
<1>6. ASSUME NEW j \in DOMAIN it, ~it[j].used
      PROVE  /\ it[j].next \in DOMAIN it /\ it[it[j].next].used
             /\ s[j].next = it[j].next /\ j # i
  BY <1>0, <1>4, <1>6, ChainFacts DEF Apart
<1>7. CASE it[right].used
  <2>1. r = s /\ fl2 = fl /\ av2 = av
    BY <1>7
  <2>2. Apart(s)
    <3> SUFFICES ASSUME NEW j \in DOMAIN s, ~s[j].used
                 PROVE  s[s[j].next].used
      BY DEF Apart
    <3>1. CASE j = new
      BY <1>1, <1>4, <1>7, <3>1
    <3>2. CASE j # new
      <4>1. j \in DOMAIN it /\ ~it[j].used
        BY <1>4, <3>2
      <4> QED BY <1>4, <1>6, <4>1
    <3> QED BY <3>1, <3>2
  <2>3. FreeIn(s) \ {new} = FreeIn(it)
    BY <1>5
  <2>4. KeptUsed(it, s, {i}) /\ UsedFrom(it, s, {})
    <3>1. ASSUME NEW j \in DOMAIN it, it[j].used, j # i
          PROVE  j \in DOMAIN s /\ s[j].used /\ s[j].next = it[j].next
      BY <1>4, <3>1
    <3>2. ASSUME NEW j \in DOMAIN s, s[j].used
          PROVE  j \in DOMAIN it /\ it[j].used
      BY <1>4, <3>2
    <3> QED BY <3>1, <3>2 DEF KeptUsed, UsedFrom
  <2> QED BY <1>0, <1>3, <1>4, <1>5, <2>1, <2>2, <2>3, <2>4 DEF HeapOK, HeapBut, Shrunk, Moved
<1>8. CASE ~it[right].used
  <2>1. /\ r = chain_remove(s, right)
        /\ fl2 = Out(fl, right)
        /\ av2 = av - MEMITEM_SIZE(it, right)
    BY <1>8
  <2>2. right \in FreeIn(it) /\ right # tail /\ right # 0 /\ right # new
    BY <1>0, <1>1, <1>4, <1>8, ChainFacts DEF FreeIn
  <2> DEFINE m == it[right].next
  <2>3. m \in DOMAIN it /\ it[m].used /\ s[right].next = m /\ m # right
    BY <1>1, <1>6, <1>8
  <2>4. s[right].prev = new /\ right \in DOMAIN s /\ ~s[right].used
    <3>1. new \in DOMAIN s /\ right \in DOMAIN s
      BY <1>1, <1>4
    <3>2. s[s[new].next].prev = new
      BY <1>3, <3>1, ChainFacts
    <3> QED BY <1>1, <1>4, <1>8, <3>1, <3>2
  <2> HIDE DEF m
  <2>5. Chain(r) /\ Unlinks(s, right, r)
    BY <1>3, <2>1, <2>2, <2>4, ChainRemove
  <2>6. /\ DOMAIN r = DOMAIN s \ {right} /\ r[new].next = m
        /\ \A j \in DOMAIN s \ {right, new} : r[j].next = s[j].next
        /\ \A j \in DOMAIN s \ {right} : r[j].used = s[j].used
    BY <2>3, <2>4, <2>5 DEF Unlinks, SameNext, SameUse
  <2>7. /\ new \in DOMAIN r /\ r[new].used = FALSE
        /\ i \in DOMAIN r /\ r[i].next = new /\ r[i].used
        /\ \A j \in DOMAIN it \ {right, i} : j \in DOMAIN r /\ r[j].next = it[j].next
        /\ \A j \in DOMAIN it \ {right} : j \in DOMAIN r /\ r[j].used = it[j].used
    <3>1. new \in DOMAIN s \ {right} /\ i \in DOMAIN s \ {right, new}
      BY <1>1, <1>4, <2>2
    <3>2. ASSUME NEW j \in DOMAIN it \ {right}
          PROVE  /\ j \in DOMAIN r /\ r[j].used = it[j].used
                 /\ j # i => r[j].next = it[j].next
      <4>1. j \in DOMAIN s \ {right, new}
        BY <1>4
      <4> QED BY <1>4, <2>6, <4>1
    <3> QED BY <1>1, <1>4, <2>6, <3>1, <3>2
  <2>8. Apart(r)
    <3> SUFFICES ASSUME NEW j \in DOMAIN r, ~r[j].used
                 PROVE  r[r[j].next].used
      BY DEF Apart
    <3>1. CASE j = new
      BY <2>3, <2>6, <2>7, <3>1
    <3>2. CASE j # new
      <4>1. j \in DOMAIN it /\ j # right
        BY <1>4, <2>6, <3>2
      <4>2. ~it[j].used
        BY <2>7, <4>1
      <4>3. /\ it[j].next \in DOMAIN it /\ it[it[j].next].used /\ j # i
            /\ it[j].next # right
        BY <1>6, <1>8, <4>1, <4>2
      <4> QED BY <2>7, <4>1, <4>3
    <3> QED BY <3>1, <3>2
  <2>9. FreeIn(r) \ {new} = FreeIn(it) \ {right}
    <3>1. ASSUME NEW j
          PROVE  j \in FreeIn(r) \ {new} <=> j \in FreeIn(it) \ {right}
      <4>1. CASE j \in DOMAIN it \ {right}
        BY <1>4, <2>7, <4>1 DEF FreeIn
      <4>2. CASE j \notin DOMAIN it \ {right}
        BY <1>4, <2>6, <4>2 DEF FreeIn
      <4> QED BY <4>1, <4>2
    <3> QED BY <3>1
  <2>10. List(fl2, FreeIn(r) \ {new})
    <3>1. List(fl2, FreeIn(it) \ {right})
      BY <1>0, <2>1, <2>2, ListWithout
    <3> QED BY <2>9, <3>1
  <2>11. av2 = Sum(r, FreeIn(r) \ {new})
    <3> DEFINE A == FreeIn(it) \ {right}
    <3>1. /\ Blocks(it, FreeIn(it)) /\ FreeIn(it) \subseteq DOMAIN it \ {tail}
          /\ FreeIn(r) \subseteq DOMAIN r \ {tail}
      BY <1>0, <2>5, FreeFacts
    <3>2. /\ Sum(it, FreeIn(it)) = MEMITEM_SIZE(it, right) + Sum(it, A)
          /\ Sum(it, A) \in Nat /\ MEMITEM_SIZE(it, right) \in Nat
      <4>1. Chain(it) /\ Blocks(it, FreeIn(it)) /\ right \in FreeIn(it)
        BY <1>0, <2>2, <3>1 DEF FreeIn
      <4> QED BY ONLY <4>1, SumOut
    <3>3. SameNext(it, r, A) /\ Blocks(it, A) /\ Blocks(r, A)
      <4>1. A \subseteq DOMAIN it \ {right, i}
        BY DEF FreeIn
      <4>2. SameNext(it, r, A)
        BY <2>7, <4>1 DEF SameNext
      <4> QED BY <2>9, <3>1, <4>2 DEF Blocks
    <3> HIDE DEF A
    <3>4. Sum(r, A) = Sum(it, A)
      BY <1>0, <2>5, <3>3, SumSame
    <3>5. av2 = Sum(it, FreeIn(it)) - MEMITEM_SIZE(it, right)
      BY <1>0, <2>1
    <3>6. av2 = Sum(r, A)
      BY ONLY <3>2, <3>4, <3>5
    <3> QED BY <2>9, <3>6 DEF A
  <2>12. KeptUsed(it, r, {i}) /\ UsedFrom(it, r, {})
    <3>1. ASSUME NEW j \in DOMAIN it, it[j].used, j # i
          PROVE  j \in DOMAIN r /\ r[j].used /\ r[j].next = it[j].next
      BY <1>8, <2>7, <3>1
    <3>2. ASSUME NEW j \in DOMAIN r, r[j].used
          PROVE  j \in DOMAIN it /\ it[j].used
      <4>1. j # new
        BY <2>7, <3>2
      <4>2. j \in DOMAIN it \ {right}
        BY <1>4, <2>6, <4>1
      <4> QED BY <2>7, <3>2, <4>2
    <3> QED BY <3>1, <3>2 DEF KeptUsed, UsedFrom
  <2> QED BY <2>5, <2>7, <2>8, <2>10, <2>11, <2>12 DEF HeapOK, HeapBut, Shrunk, Moved
<1> QED BY <1>7, <1>8

-----------------------------------------------------------------------------
(* The inductive invariant of the heap.                                    *)

OpType == [at    : {"run", "alloc", "search", "grow", "shrink", "shrunk", "free"},
           old   : Nat \cup {NoBlock},
           size  : Nat,
           again : BOOLEAN]

\* What holds of a client with the blocks b that does o: its blocks are used and
\* large enough; the block it reallocates is its own, and large enough to be split
\* where it is about to; and once it is split, a free block is behind it.
ClientOK(it, b, o) ==
  /\ \A i \in DOMAIN b :
       /\ i \in DOMAIN it /\ i # tail /\ it[i].used
       /\ b[i] \in Nat /\ b[i] <= MEMITEM_SIZE(it, i)
  /\ o \in OpType
  /\ o.old # NoBlock => o.old \in DOMAIN b
  /\ o.at = "run" => o.old = NoBlock
  /\ o.at \in {"grow", "shrink", "shrunk", "free"} => o.old # NoBlock
  /\ o.at # "run" => o.size >= RT_MEMHEAP_MINIALLOC
  /\ o.at = "shrink" =>
       /\ o.size + RT_MEMHEAP_SIZE + RT_MEMHEAP_MINIALLOC <= MEMITEM_SIZE(it, o.old)
       /\ b[o.old] <= o.size
  /\ o.at = "shrunk" => ~it[it[o.old].next].used

\* Every used block but the tail has one owner.
Owned(it, b) ==
  /\ \A i \in DOMAIN it : it[i].used /\ i # tail => \E c \in Client : i \in DOMAIN b[c]
  /\ \A c, d \in Client : \A i \in DOMAIN b[c] : i \in DOMAIN b[d] => c = d

\* The free block that is not in the free list: the one that the client with the
\* lock has split off.
unlinked == IF lock = NoBlock THEN {} ELSE {item[op[lock].old].next}

HeapInv ==
  /\ HeapOK(item, free_list, available_size, FreeIn(item) \ unlinked)
  /\ lock \in Client \cup {NoBlock}
  /\ DOMAIN op = Client /\ DOMAIN blocks = Client
  /\ \A c \in Client : ClientOK(item, blocks[c], op[c])
  /\ \A c \in Client : lock = c <=> op[c].at = "shrunk"
  /\ Owned(item, blocks)

\* f changes at c only.
OnlyAt(f, f2, c, v) ==
  DOMAIN f2 = DOMAIN f /\ f2[c] = v /\ \A d \in DOMAIN f : d # c => f2[d] = f[d]

\* A step that leaves the heap alone.
LEMMA QuietHeap ==
  ASSUME HeapInv, NEW c \in Client, NEW b, NEW o,
         UNCHANGED <<item, free_list, available_size, lock>>,
         OnlyAt(blocks, blocks', c, b), OnlyAt(op, op', c, o),
         DOMAIN b = DOMAIN blocks[c],
         op[c].at # "shrunk", o.at # "shrunk",
         ClientOK(item, b, o)
  PROVE  HeapInv'
<1>1. /\ DOMAIN op' = Client /\ DOMAIN blocks' = Client
      /\ op'[c] = o /\ blocks'[c] = b
      /\ \A d \in Client : d # c => op'[d] = op[d] /\ blocks'[d] = blocks[d]
      /\ \A d \in Client : DOMAIN blocks'[d] = DOMAIN blocks[d]
  BY DEF HeapInv, OnlyAt
<1>2. \A d \in Client : ClientOK(item, blocks'[d], op'[d])
  BY <1>1 DEF HeapInv
<1>3. \A d \in Client : lock = d <=> op'[d].at = "shrunk"
  BY <1>1 DEF HeapInv
<1>4. Owned(item, blocks')
  BY <1>1 DEF HeapInv, Owned
<1>5. lock # c
  BY DEF HeapInv
<1>6. unlinked' = unlinked
  BY <1>1, <1>5 DEF HeapInv, unlinked
<1> QED BY <1>1, <1>2, <1>3, <1>4, <1>6 DEF HeapInv

\* A step of one client, which has the lock if anybody has it, that changes the
\* blocks in X and gives it those in Y.
LEMMA OneStep ==
  ASSUME HeapInv, NEW c \in Client, NEW b, NEW o, NEW X, NEW Y,
         lock \in {NoBlock, c}, lock' \in {NoBlock, c},
         lock' = c <=> o.at = "shrunk",
         HeapOK(item', free_list', available_size',
                FreeIn(item') \ (IF lock' = NoBlock THEN {} ELSE {item'[o.old].next})),
         OnlyAt(blocks, blocks', c, b), OnlyAt(op, op', c, o),
         KeptUsed(item, item', X), X \subseteq DOMAIN blocks[c],
         UsedFrom(item, item', Y), Y \subseteq DOMAIN b,
         \A i \in DOMAIN blocks[c] :
           i \in DOMAIN b \/ i \notin DOMAIN item' \/ ~item'[i].used,
         \A i \in DOMAIN b :
           i \in DOMAIN blocks[c] \/ i \notin DOMAIN item \/ ~item[i].used,
         ClientOK(item', b, o)
  PROVE  HeapInv'
<1>0. NoBlock \notin Client
  BY MemHeapAssumption
<1>1. /\ DOMAIN op' = Client /\ DOMAIN blocks' = Client
      /\ op'[c] = o /\ blocks'[c] = b
      /\ \A d \in Client : d # c => op'[d] = op[d] /\ blocks'[d] = blocks[d]
  BY DEF HeapInv, OnlyAt
<1>2. ASSUME NEW d \in Client, d # c, NEW i \in DOMAIN blocks[d]
      PROVE  /\ i \in DOMAIN item /\ item[i].used /\ i \notin DOMAIN blocks[c]
             /\ i \in DOMAIN item' /\ item'[i].used /\ item'[i].next = item[i].next
  <2>1. i \in DOMAIN item /\ item[i].used
    BY <1>2 DEF HeapInv, ClientOK
  <2>2. i \notin DOMAIN blocks[c]
    BY <1>2 DEF HeapInv, Owned
  <2>3. i \notin X
    BY <2>2
  <2> QED BY <2>1, <2>2, <2>3 DEF KeptUsed
<1>3. ASSUME NEW d \in Client
      PROVE  ClientOK(item', blocks'[d], op'[d]) /\ (lock' = d <=> op'[d].at = "shrunk")
  <2>1. CASE d = c
    BY <1>1, <2>1
  <2>2. CASE d # c
    <3>1. ClientOK(item, blocks[d], op[d]) /\ op[d].at # "shrunk"
      BY <1>0, <2>2 DEF HeapInv
    <3>2. \A i \in DOMAIN blocks[d] : MEMITEM_SIZE(item', i) = MEMITEM_SIZE(item, i)
      BY <1>2, <2>2 DEF MEMITEM_SIZE
    <3>3. \A i \in DOMAIN blocks[d] :
            /\ i \in DOMAIN item' /\ i # tail /\ item'[i].used
            /\ blocks[d][i] \in Nat /\ blocks[d][i] <= MEMITEM_SIZE(item', i)
      BY <1>2, <2>2, <3>1, <3>2 DEF ClientOK
    <3>4. op[d].at = "shrink" =>
            /\ op[d].size + RT_MEMHEAP_SIZE + RT_MEMHEAP_MINIALLOC
                 <= MEMITEM_SIZE(item', op[d].old)
            /\ blocks[d][op[d].old] <= op[d].size
      BY <3>1, <3>2 DEF ClientOK
    <3>5. ClientOK(item', blocks[d], op[d])
      BY <3>1, <3>3, <3>4 DEF ClientOK
    <3>6. lock' # d
      BY <1>0, <2>2
    <3> QED BY <1>1, <2>2, <3>1, <3>5, <3>6
  <2> QED BY <2>1, <2>2
<1>4. ASSUME NEW i \in DOMAIN item', item'[i].used, i # tail
      PROVE  \E d \in Client : i \in DOMAIN blocks'[d]
  <2>1. CASE i \in Y
    BY <1>1, <2>1
  <2>2. CASE i \notin Y
    <3>1. i \in DOMAIN item /\ item[i].used
      BY <1>4, <2>2 DEF UsedFrom
    <3>2. PICK d \in Client : i \in DOMAIN blocks[d]
      BY <1>4, <3>1 DEF HeapInv, Owned
    <3> QED BY <1>1, <1>4, <3>2
  <2> QED BY <2>1, <2>2
<1>5. ASSUME NEW d \in Client, NEW e \in Client, NEW i \in DOMAIN blocks'[d],
             i \in DOMAIN blocks'[e]
      PROVE  d = e
  <2>1. CASE d # c /\ e # c
    <3>1. i \in DOMAIN blocks[d] /\ i \in DOMAIN blocks[e]
      BY <1>1, <1>5, <2>1
    <3> QED BY <3>1 DEF HeapInv, Owned
  <2>2. CASE d = c /\ e # c
    BY <1>1, <1>2, <1>5, <2>2
  <2>3. CASE d # c /\ e = c
    BY <1>1, <1>2, <1>5, <2>3
  <2> QED BY <2>1, <2>2, <2>3
<1>6. Owned(item', blocks')
  BY <1>4, <1>5 DEF Owned
<1>7. unlinked' = IF lock' = NoBlock THEN {} ELSE {item'[o.old].next}
  BY <1>0, <1>1 DEF unlinked
<1> QED BY <1>1, <1>3, <1>6, <1>7 DEF HeapInv

-----------------------------------------------------------------------------
(* The steps of the heap.                                                  *)

LEMMA InitHeapInv == HeapInit => HeapInv
<1> SUFFICES ASSUME HeapInit PROVE HeapInv
  OBVIOUS
<1>1. /\ item = [i \in {0, tail} |->
                   [next |-> tail - i, prev |-> tail - i, used |-> i = tail]]
      /\ free_list = <<0>> /\ available_size = pool_size - 2 * RT_MEMHEAP_SIZE
      /\ lock = NoBlock
      /\ op = [c \in Client |-> Idling] /\ blocks = [c \in Client |-> << >>]
  BY DEF HeapInit
<1>2. tail # 0 /\ 0 \in 0 .. tail /\ tail \in 0 .. tail /\ tail - 0 = tail
      /\ tail - tail = 0
  BY HeapConstants
<1>3. /\ DOMAIN item = {0, tail}
      /\ item[0] = [next |-> tail, prev |-> tail, used |-> FALSE]
      /\ item[tail] = [next |-> 0, prev |-> 0, used |-> TRUE]
  BY <1>1, <1>2
<1>4. /\ item[0].next = tail /\ item[0].prev = tail /\ item[0].used = FALSE
      /\ item[tail].next = 0 /\ item[tail].prev = 0 /\ item[tail].used = TRUE
  BY <1>3
<1>5. Chain(item)
  <2>1. item \in [DOMAIN item -> [next : DOMAIN item, prev : DOMAIN item,
                                  used : BOOLEAN]]
    BY <1>1, <1>3
  <2>2. tail >= 0 + RT_MEMHEAP_SIZE + RT_MEMHEAP_MINIALLOC
    BY HeapConstants
  <2>3. \A i, j \in DOMAIN item : i # tail /\ i < j => item[i].next <= j
    <3> SUFFICES ASSUME NEW i \in DOMAIN item, NEW j \in DOMAIN item, i # tail, i < j
                 PROVE  item[i].next <= j
      OBVIOUS
    <3>1. i = 0 /\ j = tail
      BY <1>2, <1>3
    <3> QED BY <1>4, <3>1, HeapConstants
  <2> QED BY <1>2, <1>3, <1>4, <2>1, <2>2, <2>3 DEF Chain
<1>6. FreeIn(item) = {0} /\ Apart(item)
  BY <1>2, <1>3, <1>4 DEF FreeIn, Apart
<1>7. List(free_list, {0})
  <2>1. free_list \in Seq(Nat) /\ DOMAIN free_list = {1} /\ free_list[1] = 0
    BY <1>1
  <2> QED BY <2>1 DEF List, IsInjective, ToSet
<1>8. available_size = Sum(item, {0})
  <2>1. Blocks(item, {0}) /\ Blocks(item, {})
    BY <1>2, <1>3 DEF Blocks
  <2>2. Sum(item, {0}) = MEMITEM_SIZE(item, 0) + Sum(item, {0} \ {0})
    BY <1>5, <2>1, SumOut
  <2>3. {0} \ {0} = {}
    OBVIOUS
  <2>4. Sum(item, {}) = 0
    <3>1. PICK h : SumTable(h, Sizes(item), {}) /\ h[{}] = Total(Sizes(item), {})
      BY FS_EmptySet, TotalTable
    <3> QED BY <3>1 DEF SumTable, Sum
  <2>5. MEMITEM_SIZE(item, 0) = tail - RT_MEMHEAP_SIZE
    BY <1>4, HeapConstants DEF MEMITEM_SIZE
  <2>6. available_size = tail - RT_MEMHEAP_SIZE
    <3>1. pool_size \in Nat /\ tail = pool_size - RT_MEMHEAP_SIZE
      BY MemHeapAssumption DEF tail
    <3> QED BY ONLY <1>1, <3>1, HeapConstants
  <2> QED BY ONLY <2>2, <2>3, <2>4, <2>5, <2>6, HeapConstants
<1>9. unlinked = {}
  BY <1>1 DEF unlinked
<1>10. ASSUME NEW c \in Client
       PROVE  ClientOK(item, blocks[c], op[c]) /\ op[c].at # "shrunk"
  <2>1. blocks[c] = << >> /\ op[c] = Idling /\ DOMAIN blocks[c] = {}
    BY <1>1
  <2>2. op[c] \in OpType /\ op[c].at = "run" /\ op[c].old = NoBlock
    BY <2>1 DEF Idling, OpType
  <2> QED BY <2>1, <2>2 DEF ClientOK
<1>11. Owned(item, blocks)
  <2>1. \A i \in DOMAIN item : item[i].used => i = tail
    BY <1>3, <1>4
  <2>2. \A c \in Client : DOMAIN blocks[c] = {}
    BY <1>1
  <2> QED BY <2>1, <2>2 DEF Owned
<1>12. FreeIn(item) \ unlinked = {0}
  BY <1>6, <1>9
<1>13. NoBlock \notin Client
  BY MemHeapAssumption
<1> QED BY <1>1, <1>5, <1>6, <1>7, <1>8, <1>10, <1>11, <1>12, <1>13 DEF HeapInv, HeapOK

\* What a client starts a step from.
LEMMA ClientFacts ==
  ASSUME HeapInv, NEW c \in Client
  PROVE  /\ ClientOK(item, blocks[c], op[c]) /\ op[c] \in OpType
         /\ c \in DOMAIN op /\ c \in DOMAIN blocks
         /\ lock = c <=> op[c].at = "shrunk"
         /\ OnlyAt(op, op, c, op[c]) /\ OnlyAt(blocks, blocks, c, blocks[c])
         /\ Chain(item)
BY DEF HeapInv, ClientOK, OnlyAt, HeapOK

\* A client that does nothing more.
LEMMA ClientIdles ==
  ASSUME NEW it, NEW b, NEW o, ClientOK(it, b, o)
  PROVE  ClientOK(it, b, Idling) /\ Idling.at = "run"
<1>1. Idling \in OpType /\ Idling.at = "run" /\ Idling.old = NoBlock
  BY DEF Idling, OpType
<1> QED BY <1>1 DEF ClientOK

\* A client that goes on with an allocation, or with the release of the old block.
LEMMA ClientGoesOn ==
  ASSUME NEW it, NEW b, NEW o, ClientOK(it, b, o), o.at # "run",
         NEW p, p \in OpType, p.old = o.old, p.size = o.size,
         p.at \in {"alloc", "search", "free"}, p.at = "free" => p.old # NoBlock
  PROVE  ClientOK(it, b, p) /\ p.at # "shrunk"
BY DEF ClientOK

\* How op changes.
LEMMA OpGoes ==
  ASSUME HeapInv, NEW c \in Client,
         NEW at \in {"alloc", "search", "shrunk", "free"}, Go_(c, at),
         NEW p, p = [op[c] EXCEPT !.at = at]
  PROVE  /\ OnlyAt(op, op', c, p) /\ p \in OpType
         /\ p.at = at /\ p.old = op[c].old /\ p.size = op[c].size
<1>1. op[c] \in OpType /\ c \in DOMAIN op
  BY ClientFacts
<1>2. op' = [op EXCEPT ![c] = p]
  BY DEF Go_
<1>3. OnlyAt(op, op', c, p)
  BY <1>1, <1>2 DEF OnlyAt
<1>4. p \in OpType /\ p.at = at /\ p.old = op[c].old /\ p.size = op[c].size
  BY <1>1 DEF OpType
<1> QED BY <1>3, <1>4

LEMMA OpDone ==
  ASSUME HeapInv, NEW c \in Client, Done(c)
  PROVE  OnlyAt(op, op', c, Idling)
BY ClientFacts DEF Done, OnlyAt

\* An allocation fails.
LEMMA FailsStep ==
  ASSUME HeapInv, NEW c \in Client, op[c].at \in {"alloc", "search"}, AllocFails(c),
         UNCHANGED <<item, free_list, available_size, lock, blocks>>
  PROVE  HeapInv'
<1>0. /\ ClientOK(item, blocks[c], op[c]) /\ op[c] \in OpType
      /\ c \in DOMAIN op
      /\ OnlyAt(blocks, blocks', c, blocks[c])
  BY ClientFacts
<1>1. CASE op[c].old # NoBlock /\ ~op[c].again
  <2>1. PICK p : p = [op[c] EXCEPT !.at = "alloc", !.again = TRUE]
    OBVIOUS
  <2>2. /\ p \in OpType /\ p.old = op[c].old /\ p.size = op[c].size /\ p.at = "alloc"
    BY <1>0, <2>1 DEF OpType
  <2>3. op' = [op EXCEPT ![c] = p]
    BY <1>1, <2>1 DEF AllocFails
  <2>4. OnlyAt(op, op', c, p)
    BY <1>0, <2>3 DEF OnlyAt
  <2>5. ClientOK(item, blocks[c], p)
    BY <1>0, <2>2, ClientGoesOn
  <2> QED BY <1>0, <2>2, <2>4, <2>5, QuietHeap
<1>2. CASE ~(op[c].old # NoBlock /\ ~op[c].again)
  <2>1. OnlyAt(op, op', c, Idling)
    BY <1>0, <1>2 DEF AllocFails, OnlyAt
  <2>2. ClientOK(item, blocks[c], Idling) /\ Idling.at = "run"
    BY <1>0, ClientIdles
  <2> QED BY <1>0, <2>1, <2>2, QuietHeap
<1> QED BY <1>1, <1>2

LEMMA MallocStep ==
  ASSUME HeapInv, NEW c \in Client, NEW n \in Request, Malloc(c, n)
  PROVE  HeapInv'
<1>0. /\ ClientOK(item, blocks[c], op[c]) /\ op[c] \in OpType
      /\ c \in DOMAIN op /\ op[c].at = "run"
      /\ UNCHANGED <<item, free_list, available_size, lock, blocks>>
      /\ OnlyAt(blocks, blocks', c, blocks[c])
  BY ClientFacts DEF Malloc, Doing
<1>1. alloc_size(n) \in Nat /\ alloc_size(n) >= RT_MEMHEAP_MINIALLOC
  BY AllocSize
<1>2. PICK p : p = [op[c] EXCEPT !.at = "alloc", !.size = alloc_size(n)]
  OBVIOUS
<1>3. p \in OpType /\ p.at = "alloc" /\ p.size = alloc_size(n) /\ p.old = op[c].old
  BY <1>0, <1>1, <1>2 DEF OpType
<1>4. OnlyAt(op, op', c, p)
  <2>1. op' = [op EXCEPT ![c] = p]
    BY <1>2 DEF Malloc
  <2> QED BY <1>0, <2>1 DEF OnlyAt
<1>5. ClientOK(item, blocks[c], p)
  BY <1>0, <1>1, <1>3 DEF ClientOK
<1> QED BY <1>0, <1>3, <1>4, <1>5, QuietHeap

LEMMA AllocTestStep ==
  ASSUME HeapInv, NEW c \in Client, AllocTest(c)
  PROVE  HeapInv'
<1>0. /\ ClientOK(item, blocks[c], op[c]) /\ op[c].at = "alloc"
      /\ UNCHANGED <<item, free_list, available_size, lock, blocks>>
      /\ OnlyAt(blocks, blocks', c, blocks[c])
  BY ClientFacts DEF AllocTest, Doing
<1>1. CASE op[c].size < available_size
  <2>1. Go_(c, "search")
    BY <1>1 DEF AllocTest
  <2>2. PICK p : p = [op[c] EXCEPT !.at = "search"]
    OBVIOUS
  <2>3. /\ OnlyAt(op, op', c, p) /\ p \in OpType
        /\ p.at = "search" /\ p.old = op[c].old /\ p.size = op[c].size
    BY <2>1, <2>2, OpGoes
  <2>4. ClientOK(item, blocks[c], p)
    BY <1>0, <2>3, ClientGoesOn
  <2> QED BY <1>0, <2>3, <2>4, QuietHeap
<1>2. CASE ~(op[c].size < available_size)
  <2>1. AllocFails(c)
    BY <1>2 DEF AllocTest
  <2> QED BY <1>0, <2>1, FailsStep
<1> QED BY <1>1, <1>2

\* A block of the client is known to be of size n, which it is at least.
LEMMA OwnFacts ==
  ASSUME HeapInv, NEW c \in Client, NEW i \in DOMAIN blocks[c], NEW n, Own(c, i, n),
         NEW b, b = [blocks[c] EXCEPT ![i] = n]
  PROVE  /\ OnlyAt(blocks, blocks', c, b) /\ DOMAIN b = DOMAIN blocks[c]
         /\ \A j \in DOMAIN blocks[c] : b[j] = IF j = i THEN n ELSE blocks[c][j]
<1>1. blocks' = [blocks EXCEPT ![c] = b] /\ c \in DOMAIN blocks
  BY ClientFacts DEF Own
<1>2. OnlyAt(blocks, blocks', c, b)
  BY <1>1 DEF OnlyAt
<1> QED BY <1>2

LEMMA ReallocStep ==
  ASSUME HeapInv, NEW c \in Client, NEW i \in DOMAIN blocks[c], NEW n \in Request,
         Realloc(c, i, n)
  PROVE  HeapInv'
<1> DEFINE new == alloc_size(n)
           old == MEMITEM_SIZE(item, i)
<1>0. /\ ClientOK(item, blocks[c], op[c]) /\ op[c] \in OpType
      /\ c \in DOMAIN op /\ op[c].at = "run"
      /\ UNCHANGED <<item, free_list, available_size, lock>>
      /\ OnlyAt(blocks, blocks, c, blocks[c]) /\ OnlyAt(op, op, c, op[c])
      /\ Chain(item)
  BY ClientFacts DEF Realloc, Doing
<1>1. new \in Nat /\ new >= RT_MEMHEAP_MINIALLOC
  BY AllocSize
<1>2. i \in DOMAIN item /\ i # tail /\ old \in Nat /\ i \in Nat /\ i # NoBlock
  <2>1. i \in DOMAIN item /\ i # tail
    BY <1>0 DEF ClientOK
  <2>2. old \in Nat /\ i \in Nat
    BY <1>0, <2>1, ChainFacts
  <2> QED BY <2>1, <2>2, MemHeapAssumption
<1>3. /\ op' = IF new <= old /\ new + RT_MEMHEAP_SIZE + RT_MEMHEAP_MINIALLOC >= old
               THEN op
               ELSE [op EXCEPT ![c] = [at    |-> IF new > old THEN "grow" ELSE "shrink",
                                       old   |-> i,
                                       size  |-> new,
                                       again |-> FALSE]]
      /\ IF new <= old THEN Own(c, i, new) ELSE UNCHANGED blocks
  BY DEF Realloc
<1> HIDE DEF new
<1>4. CASE new > old
  <2>1. ~(new <= old) /\ blocks' = blocks
    BY <1>1, <1>2, <1>3, <1>4
  <2>2. PICK p : p = [at |-> "grow", old |-> i, size |-> new, again |-> FALSE]
    OBVIOUS
  <2>3. p \in OpType /\ p.at = "grow" /\ p.old = i /\ p.size = new
    BY <1>1, <1>2, <2>2 DEF OpType
  <2>4. op' = [op EXCEPT ![c] = p]
    BY <1>3, <1>4, <2>1, <2>2
  <2>5. OnlyAt(op, op', c, p)
    BY <1>0, <2>4 DEF OnlyAt
  <2>6. ClientOK(item, blocks[c], p)
    BY <1>0, <1>1, <1>2, <2>3 DEF ClientOK
  <2>7. OnlyAt(blocks, blocks', c, blocks[c])
    BY <1>0, <2>1
  <2> QED BY <1>0, <2>3, <2>5, <2>6, <2>7, QuietHeap
<1>5. CASE new <= old
  <2>1. Own(c, i, new)
    BY <1>3, <1>5
  <2>2. PICK b : b = [blocks[c] EXCEPT ![i] = new]
    OBVIOUS
  <2>3. /\ OnlyAt(blocks, blocks', c, b) /\ DOMAIN b = DOMAIN blocks[c]
        /\ \A j \in DOMAIN blocks[c] : b[j] = IF j = i THEN new ELSE blocks[c][j]
    BY <2>1, <2>2, OwnFacts
  <2>4. \A j \in DOMAIN b :
          /\ j \in DOMAIN item /\ j # tail /\ item[j].used
          /\ b[j] \in Nat /\ b[j] <= MEMITEM_SIZE(item, j)
    BY <1>0, <1>1, <1>5, <2>3 DEF ClientOK
  <2>5. CASE new + RT_MEMHEAP_SIZE + RT_MEMHEAP_MINIALLOC >= old
    <3>1. op' = op
      BY <1>3, <1>5, <2>5
    <3>2. ClientOK(item, b, op[c])
      BY <1>0, <2>3, <2>4 DEF ClientOK
    <3>3. OnlyAt(op, op', c, op[c])
      BY <1>0, <3>1
    <3> QED BY <1>0, <2>3, <3>2, <3>3, QuietHeap
  <2>6. CASE ~(new + RT_MEMHEAP_SIZE + RT_MEMHEAP_MINIALLOC >= old)
    <3>1. PICK p : p = [at |-> "shrink", old |-> i, size |-> new, again |-> FALSE]
      OBVIOUS
    <3>2. p \in OpType /\ p.at = "shrink" /\ p.old = i /\ p.size = new
      BY <1>1, <1>2, <3>1 DEF OpType
    <3>3. ~(new > old)
      BY <1>1, <1>2, <1>5
    <3>4. op' = [op EXCEPT ![c] = p]
      BY <1>3, <2>6, <3>1, <3>3
    <3>5. OnlyAt(op, op', c, p)
      BY <1>0, <3>4 DEF OnlyAt
    <3>6. /\ new + RT_MEMHEAP_SIZE + RT_MEMHEAP_MINIALLOC <= old
          /\ b[i] <= new
      BY <1>1, <1>2, <2>3, <2>6, HeapConstants
    <3>7. ClientOK(item, b, p)
      BY <1>1, <1>2, <2>3, <2>4, <3>2, <3>6 DEF ClientOK
    <3> QED BY <1>0, <2>3, <3>2, <3>5, <3>7, QuietHeap
  <2> QED BY <2>5, <2>6
<1> QED BY <1>1, <1>2, <1>4, <1>5

\* What a step that needs the lock starts from.
LEMMA LockedFacts ==
  ASSUME HeapInv, NEW c \in Client, Locked(c), op[c].at # "shrunk"
  PROVE  /\ lock = NoBlock /\ lock # c
         /\ HeapOK(item, free_list, available_size, FreeIn(item))
<1>1. lock = NoBlock /\ lock # c
  BY MemHeapAssumption DEF HeapInv, Locked
<1>2. FreeIn(item) \ unlinked = FreeIn(item)
  BY <1>1 DEF unlinked
<1> QED BY <1>1, <1>2 DEF HeapInv

\* A block that is not the tail and was used still is.
LEMMA BlockFacts ==
  ASSUME HeapInv, NEW c \in Client, NEW i \in DOMAIN blocks[c]
  PROVE  /\ i \in DOMAIN item /\ i # tail /\ item[i].used
         /\ blocks[c][i] \in Nat /\ blocks[c][i] <= MEMITEM_SIZE(item, i)
BY ClientFacts DEF ClientOK

\* The blocks of the client that stay as they are stay large enough.
LEMMA KeptBlocks ==
  ASSUME HeapInv, NEW c \in Client, NEW X, KeptUsed(item, item', X),
         NEW j \in DOMAIN blocks[c], j \notin X
  PROVE  /\ j \in DOMAIN item' /\ j # tail /\ item'[j].used
         /\ blocks[c][j] \in Nat /\ blocks[c][j] <= MEMITEM_SIZE(item', j)
<1>1. /\ j \in DOMAIN item /\ j # tail /\ item[j].used
      /\ blocks[c][j] \in Nat /\ blocks[c][j] <= MEMITEM_SIZE(item, j)
  BY BlockFacts
<1>2. j \in DOMAIN item' /\ item'[j].used /\ item'[j].next = item[j].next
  BY <1>1 DEF KeptUsed
<1>3. MEMITEM_SIZE(item', j) = MEMITEM_SIZE(item, j)
  BY <1>2 DEF MEMITEM_SIZE
<1> QED BY <1>1, <1>2, <1>3

\* The heap of a step that leaves nobody with the lock.
LEMMA NobodyLocks ==
  ASSUME NEW c \in Client, lock' = NoBlock, NEW o,
         HeapOK(item', free_list', available_size', FreeIn(item'))
  PROVE  /\ HeapOK(item', free_list', available_size',
                   FreeIn(item') \ (IF lock' = NoBlock THEN {} ELSE {item'[o.old].next}))
         /\ lock' # c
<1>1. FreeIn(item') \ (IF lock' = NoBlock THEN {} ELSE {item'[o.old].next})
        = FreeIn(item')
  OBVIOUS
<1> QED BY <1>1, MemHeapAssumption

\* The block that was found is the first of the free list that is large enough.
LEMMA FoundFacts ==
  ASSUME HeapInv, NEW n, fitting(n) # {},
         HeapOK(item, free_list, available_size, FreeIn(item)),
         NEW i,
         i = free_list[CHOOSE j \in fitting(n) : \A h \in fitting(n) : j <= h]
  PROVE  i \in FreeIn(item) /\ MEMITEM_SIZE(item, i) >= n
<1> DEFINE P == fitting(n)
<1>1. /\ free_list \in Seq(Nat) /\ DOMAIN free_list = 1 .. Len(free_list)
      /\ ToSet(free_list) = FreeIn(item)
  BY LenProperties DEF HeapOK, List
<1>2. \A j \in P : j \in Nat /\ j \in DOMAIN free_list
                   /\ MEMITEM_SIZE(item, free_list[j]) >= n
  BY <1>1 DEF fitting
<1> HIDE DEF P
<1>3. PICK m \in P : \A h \in P : m <= h
  BY <1>2, LeastNat DEF P
<1>4. (CHOOSE j \in P : \A h \in P : j <= h) \in P
  BY <1>3
<1>5. i = free_list[CHOOSE j \in P : \A h \in P : j <= h]
  BY DEF P
<1> QED BY <1>1, <1>2, <1>4, <1>5 DEF ToSet

\* The client is given a block that was free.
LEMMA GivenStep ==
  ASSUME HeapInv, NEW c \in Client, op[c].at = "search", Locked(c), UNCHANGED lock,
         NEW i \in FreeIn(item), Given(c, i),
         HeapOK(item', free_list', available_size', FreeIn(item')),
         KeptUsed(item, item', {}), UsedFrom(item, item', {i}),
         i \in DOMAIN item', item'[i].used, MEMITEM_SIZE(item', i) >= op[c].size
  PROVE  HeapInv'
<1>0. /\ ClientOK(item, blocks[c], op[c]) /\ op[c] \in OpType
      /\ c \in DOMAIN op /\ c \in DOMAIN blocks
      /\ lock = NoBlock /\ lock' = NoBlock
  BY ClientFacts, LockedFacts
<1>1. i \in DOMAIN item /\ ~item[i].used /\ i # tail
  BY ClientFacts, ChainFacts DEF FreeIn
<1>2. PICK b : b = [j \in DOMAIN blocks[c] \cup {i} |->
                      IF j = i THEN op[c].size ELSE blocks[c][j]]
  OBVIOUS
<1>3. /\ DOMAIN b = DOMAIN blocks[c] \cup {i} /\ b[i] = op[c].size
      /\ \A j \in DOMAIN blocks[c] : j # i => b[j] = blocks[c][j]
  BY <1>2
<1>4. OnlyAt(blocks, blocks', c, b)
  <2>1. blocks' = [blocks EXCEPT ![c] = b]
    BY <1>2 DEF Given
  <2> QED BY <1>0, <2>1 DEF OnlyAt
<1>5. ASSUME NEW j \in DOMAIN b
      PROVE  /\ j \in DOMAIN item' /\ j # tail /\ item'[j].used
             /\ b[j] \in Nat /\ b[j] <= MEMITEM_SIZE(item', j)
  <2>1. CASE j = i
    <3>1. op[c].size \in Nat
      BY <1>0 DEF OpType
    <3>2. MEMITEM_SIZE(item', i) \in Int
      <4>1. Chain(item')
        BY DEF HeapOK
      <4> QED BY <1>1, <4>1, ChainFacts
    <3> QED BY <1>1, <1>3, <2>1, <3>1, <3>2
  <2>2. CASE j # i
    <3>1. j \in DOMAIN blocks[c] /\ b[j] = blocks[c][j]
      BY <1>3, <2>2
    <3> QED BY <3>1, KeptBlocks
  <2> QED BY <2>1, <2>2
<1>6. \E o : OnlyAt(op, op', c, o) /\ o.at # "shrunk" /\ ClientOK(item', b, o)
  <2>1. CASE op[c].old = NoBlock
    <3>1. OnlyAt(op, op', c, Idling)
      BY <2>1, OpDone DEF Given
    <3>2. Idling \in OpType /\ Idling.at = "run" /\ Idling.old = NoBlock
      BY DEF Idling, OpType
    <3>3. ClientOK(item', b, Idling)
      BY <1>5, <3>2 DEF ClientOK
    <3> QED BY <3>1, <3>2, <3>3
  <2>2. CASE op[c].old # NoBlock
    <3>1. Go_(c, "free")
      BY <2>2 DEF Given
    <3>2. PICK p : p = [op[c] EXCEPT !.at = "free"]
      OBVIOUS
    <3>3. /\ OnlyAt(op, op', c, p) /\ p \in OpType
          /\ p.at = "free" /\ p.old = op[c].old /\ p.size = op[c].size
      BY <3>1, <3>2, OpGoes
    <3>4. op[c].old \in DOMAIN b /\ op[c].size >= RT_MEMHEAP_MINIALLOC
      BY <1>0, <1>3, <2>2 DEF ClientOK
    <3>5. ClientOK(item', b, p)
      BY <1>5, <2>2, <3>3, <3>4 DEF ClientOK
    <3> QED BY <3>3, <3>5
  <2> QED BY <2>1, <2>2
<1>7. PICK o : OnlyAt(op, op', c, o) /\ o.at # "shrunk" /\ ClientOK(item', b, o)
  BY <1>6
<1>8. /\ HeapOK(item', free_list', available_size',
                FreeIn(item') \ (IF lock' = NoBlock THEN {} ELSE {item'[o.old].next}))
      /\ lock' # c
  BY <1>0, NobodyLocks
<1>9. {} \subseteq DOMAIN blocks[c] /\ {i} \subseteq DOMAIN b
  BY <1>3
<1>10. /\ \A j \in DOMAIN blocks[c] :
            j \in DOMAIN b \/ j \notin DOMAIN item' \/ ~item'[j].used
       /\ \A j \in DOMAIN b :
            j \in DOMAIN blocks[c] \/ j \notin DOMAIN item \/ ~item[j].used
  BY <1>1, <1>3
<1>11. lock \in {NoBlock, c} /\ lock' \in {NoBlock, c} /\ (lock' = c <=> o.at = "shrunk")
  BY <1>0, <1>7, <1>8
<1> QED BY ONLY HeapInv, c \in Client, KeptUsed(item, item', {}),
           UsedFrom(item, item', {i}),
           <1>4, <1>7, <1>8, <1>9, <1>10, <1>11, OneStep

LEMMA AllocSearchStep ==
  ASSUME HeapInv, NEW c \in Client, AllocSearch(c)
  PROVE  HeapInv'
<1> DEFINE n == op[c].size
<1>0. /\ op[c].at = "search" /\ Locked(c) /\ UNCHANGED lock
      /\ op[c] \in OpType /\ ClientOK(item, blocks[c], op[c])
      /\ HeapOK(item, free_list, available_size, FreeIn(item))
  BY ClientFacts, LockedFacts DEF AllocSearch, Doing
<1>1. n \in Nat /\ n >= RT_MEMHEAP_MINIALLOC
  BY <1>0 DEF OpType, ClientOK
<1>2. CASE fitting(n) = {}
  <2>1. AllocFails(c) /\ UNCHANGED <<item, free_list, available_size, lock, blocks>>
    BY <1>2 DEF AllocSearch
  <2> QED BY <1>0, <2>1, FailsStep
<1>3. CASE fitting(n) # {}
  <2>1. PICK i : i = free_list[CHOOSE j \in fitting(n) : \A h \in fitting(n) : j <= h]
    OBVIOUS
  <2>2. i \in FreeIn(item) /\ MEMITEM_SIZE(item, i) >= n
    BY <1>0, <1>3, <2>1, FoundFacts
  <2>3. i \in DOMAIN item /\ i \in Nat
    BY <2>2, ClientFacts, ChainFacts DEF FreeIn
  <2> DEFINE new == i + n + RT_MEMHEAP_SIZE
             rest == Out(free_list, i)
  <2>4. /\ IF MEMITEM_SIZE(item, i) >= n + RT_MEMHEAP_SIZE + RT_MEMHEAP_MINIALLOC
           THEN /\ item' = Taken(chain_insert(item, i, new), i)
                /\ free_list' = <<new>> \o rest
                /\ available_size' = available_size - n - RT_MEMHEAP_SIZE
           ELSE /\ item' = Taken(item, i)
                /\ free_list' = rest
                /\ available_size' = available_size - MEMITEM_SIZE(item, i)
        /\ Given(c, i)
    BY <1>3, <2>1 DEF AllocSearch, free_remove, Out, Taken
  <2>5. CASE MEMITEM_SIZE(item, i) >= n + RT_MEMHEAP_SIZE + RT_MEMHEAP_MINIALLOC
    <3>1. /\ item' = Taken(chain_insert(item, i, new), i)
          /\ free_list' = <<new>> \o rest
          /\ available_size' = available_size - n - RT_MEMHEAP_SIZE
      BY <2>4, <2>5
    <3>5. new = i + n + RT_MEMHEAP_SIZE
          /\ free_list' = <<new>> \o Out(free_list, i)
      BY <3>1
    <3> HIDE DEF n, new, rest
    <3>2. /\ HeapOK(item', free_list', available_size', FreeIn(item'))
          /\ KeptUsed(item, item', {}) /\ UsedFrom(item, item', {i})
          /\ i \in DOMAIN item' /\ item'[i].used /\ item'[i].next = new
      <4>1. /\ HeapOK(item, free_list, available_size, FreeIn(item))
            /\ i \in FreeIn(item) /\ n \in Nat /\ n >= RT_MEMHEAP_MINIALLOC
            /\ MEMITEM_SIZE(item, i) >= n + RT_MEMHEAP_SIZE + RT_MEMHEAP_MINIALLOC
            /\ new = i + n + RT_MEMHEAP_SIZE
            /\ item' = Taken(chain_insert(item, i, new), i)
            /\ free_list' = <<new>> \o Out(free_list, i)
            /\ available_size' = available_size - n - RT_MEMHEAP_SIZE
        BY <1>0, <1>1, <2>2, <2>5, <3>1, <3>5
      <4>2. SplitOff(item, free_list, available_size, i, n, new,
                     item', free_list', available_size')
        BY <4>1 DEF SplitOff
      <4>3. /\ HeapOK(item', free_list', available_size', FreeIn(item'))
            /\ Used(item, i, new, item')
        BY ONLY <4>1, <4>2, TakeSplit
      <4> QED BY <4>3 DEF Used
    <3>3. MEMITEM_SIZE(item', i) >= n
      <4>1. MEMITEM_SIZE(item', i) = (i + n + RT_MEMHEAP_SIZE) - i - RT_MEMHEAP_SIZE
        BY <3>2, <3>5 DEF MEMITEM_SIZE
      <4> QED BY ONLY <1>1, <2>3, <4>1, HeapConstants
    <3> QED BY <1>0, <2>2, <2>4, <3>2, <3>3, GivenStep DEF n
  <2>6. CASE ~(MEMITEM_SIZE(item, i) >= n + RT_MEMHEAP_SIZE + RT_MEMHEAP_MINIALLOC)
    <3>1. /\ item' = Taken(item, i)
          /\ free_list' = rest
          /\ available_size' = available_size - MEMITEM_SIZE(item, i)
      BY <2>4, <2>6
    <3> HIDE DEF n
    <3>2. /\ HeapOK(item', free_list', available_size', FreeIn(item'))
          /\ KeptUsed(item, item', {}) /\ UsedFrom(item, item', {i})
          /\ i \in DOMAIN item' /\ item'[i].used /\ item'[i].next = item[i].next
      <4>1. /\ HeapOK(item, free_list, available_size, FreeIn(item))
            /\ i \in FreeIn(item)
            /\ item' = Taken(item, i)
            /\ free_list' = Out(free_list, i)
            /\ available_size' = available_size - MEMITEM_SIZE(item, i)
        BY <1>0, <2>2, <3>1
      <4>2. /\ HeapOK(item', free_list', available_size', FreeIn(item'))
            /\ Used(item, i, item[i].next, item')
        BY ONLY <4>1, TakeWhole
      <4> QED BY <4>2 DEF Used
    <3>3. MEMITEM_SIZE(item', i) >= n
      BY <2>2, <3>2 DEF MEMITEM_SIZE
    <3> QED BY <1>0, <2>2, <2>4, <3>2, <3>3, GivenStep DEF n
  <2> QED BY <2>5, <2>6
<1> QED BY <1>2, <1>3


\* The client gives a block back, and is idle.
LEMMA FreedStep ==
  ASSUME HeapInv, NEW c \in Client, op[c].at # "shrunk", Locked(c), UNCHANGED lock,
         NEW i \in DOMAIN blocks[c], rt_memheap_free(i), Disown(c, i),
         NEW o, OnlyAt(op, op', c, o), o \in OpType, o.at = "run", o.old = NoBlock
  PROVE  HeapInv'
<1>0. /\ c \in DOMAIN blocks /\ lock = NoBlock /\ lock' = NoBlock
      /\ HeapOK(item, free_list, available_size, FreeIn(item))
      /\ i \in DOMAIN item /\ i # tail /\ item[i].used
  BY ClientFacts, LockedFacts, BlockFacts
<1>1. /\ HeapOK(item', free_list', available_size', FreeIn(item'))
      /\ KeptUsed(item, item', {i}) /\ UsedFrom(item, item', {})
      /\ i \in DOMAIN item' => ~item'[i].used
  BY <1>0, FreeEffect
<1>2. PICK b : b = Restrict(blocks[c], DOMAIN blocks[c] \ {i})
  OBVIOUS
<1>3. /\ DOMAIN b = DOMAIN blocks[c] \ {i}
      /\ \A j \in DOMAIN b : b[j] = blocks[c][j]
  BY <1>2 DEF Restrict
<1>4. OnlyAt(blocks, blocks', c, b)
  <2>1. blocks' = [blocks EXCEPT ![c] = b]
    BY <1>2 DEF Disown
  <2> QED BY <1>0, <2>1 DEF OnlyAt
<1>5. ASSUME NEW j \in DOMAIN b
      PROVE  /\ j \in DOMAIN item' /\ j # tail /\ item'[j].used
             /\ b[j] \in Nat /\ b[j] <= MEMITEM_SIZE(item', j)
  <2>1. j \in DOMAIN blocks[c] /\ j \notin {i} /\ b[j] = blocks[c][j]
    BY <1>3
  <2> QED BY <1>1, <2>1, KeptBlocks
<1>6. ClientOK(item', b, o)
  BY <1>5 DEF ClientOK
<1>7. /\ HeapOK(item', free_list', available_size',
                FreeIn(item') \ (IF lock' = NoBlock THEN {} ELSE {item'[o.old].next}))
      /\ lock' # c
  BY <1>0, <1>1, NobodyLocks
<1>8. {i} \subseteq DOMAIN blocks[c] /\ {} \subseteq DOMAIN b
  OBVIOUS
<1>9. /\ \A j \in DOMAIN blocks[c] :
            j \in DOMAIN b \/ j \notin DOMAIN item' \/ ~item'[j].used
      /\ \A j \in DOMAIN b :
            j \in DOMAIN blocks[c] \/ j \notin DOMAIN item \/ ~item[j].used
  BY <1>1, <1>3
<1>10. lock \in {NoBlock, c} /\ lock' \in {NoBlock, c} /\ (lock' = c <=> o.at = "shrunk")
  BY <1>0, <1>7
<1>11. OnlyAt(op, op', c, o)
  OBVIOUS
<1> QED BY ONLY HeapInv, c \in Client,
           <1>1, <1>4, <1>6, <1>7, <1>8, <1>9, <1>10, <1>11, OneStep

LEMMA FreeBlockStep ==
  ASSUME HeapInv, NEW c \in Client, NEW i \in DOMAIN blocks[c], Free_(c, i)
  PROVE  HeapInv'
<1>1. /\ op[c].at = "run" /\ Locked(c) /\ rt_memheap_free(i) /\ Disown(c, i)
      /\ UNCHANGED <<lock, op>>
  BY DEF Free_, Doing
<1>2. ClientOK(item, blocks[c], op[c]) /\ op[c] \in OpType /\ OnlyAt(op, op', c, op[c])
  BY <1>1, ClientFacts
<1>3. op[c].old = NoBlock
  BY <1>1, <1>2 DEF ClientOK
<1> QED BY <1>1, <1>2, <1>3, FreedStep

LEMMA FreeOldStep ==
  ASSUME HeapInv, NEW c \in Client, FreeOld(c)
  PROVE  HeapInv'
<1>1. /\ op[c].at = "free" /\ Locked(c) /\ rt_memheap_free(op[c].old)
      /\ Disown(c, op[c].old) /\ Done(c) /\ UNCHANGED lock
  BY DEF FreeOld, Doing
<1>2. op[c].old \in DOMAIN blocks[c]
  BY <1>1, ClientFacts DEF ClientOK
<1>3. OnlyAt(op, op', c, Idling)
  BY <1>1, OpDone
<1>4. Idling \in OpType /\ Idling.at = "run" /\ Idling.old = NoBlock
  BY DEF Idling, OpType
<1> QED BY <1>1, <1>2, <1>3, <1>4, FreedStep

\* The block grows into the free one behind it.
LEMMA GrownStep ==
  ASSUME HeapInv, NEW c \in Client, op[c].at = "grow", Locked(c), UNCHANGED lock,
         Own(c, op[c].old, op[c].size), Done(c),
         HeapOK(item', free_list', available_size', FreeIn(item')),
         KeptUsed(item, item', {op[c].old}), UsedFrom(item, item', {}),
         op[c].old \in DOMAIN item', item'[op[c].old].used,
         MEMITEM_SIZE(item', op[c].old) = op[c].size
  PROVE  HeapInv'
<1>0. /\ ClientOK(item, blocks[c], op[c]) /\ op[c] \in OpType
      /\ lock = NoBlock /\ lock' = NoBlock
  BY ClientFacts, LockedFacts
<1>1. PICK i : i = op[c].old
  OBVIOUS
<1>2. /\ i \in DOMAIN blocks[c] /\ i # tail /\ op[c].size \in Nat
      /\ i \in DOMAIN item' /\ item'[i].used
      /\ KeptUsed(item, item', {i})
      /\ Own(c, i, op[c].size)
      /\ MEMITEM_SIZE(item', i) = op[c].size
  BY <1>0, <1>1 DEF ClientOK, OpType
<1>3. PICK b : b = [blocks[c] EXCEPT ![i] = op[c].size]
  OBVIOUS
<1>4. /\ OnlyAt(blocks, blocks', c, b) /\ DOMAIN b = DOMAIN blocks[c]
      /\ \A j \in DOMAIN blocks[c] : b[j] = IF j = i THEN op[c].size ELSE blocks[c][j]
  BY <1>2, <1>3, OwnFacts
<1>5. ASSUME NEW j \in DOMAIN b
      PROVE  /\ j \in DOMAIN item' /\ j # tail /\ item'[j].used
             /\ b[j] \in Nat /\ b[j] <= MEMITEM_SIZE(item', j)
  <2>1. CASE j = i
    BY <1>2, <1>4, <2>1
  <2>2. CASE j # i
    <3>1. j \in DOMAIN blocks[c] /\ j \notin {i} /\ b[j] = blocks[c][j]
      BY <1>4, <2>2
    <3> QED BY <1>2, <3>1, KeptBlocks
  <2> QED BY <2>1, <2>2
<1>6. OnlyAt(op, op', c, Idling)
  BY OpDone
<1>7. Idling \in OpType /\ Idling.at = "run" /\ Idling.old = NoBlock
  BY DEF Idling, OpType
<1>8. ClientOK(item', b, Idling)
  BY <1>5, <1>7 DEF ClientOK
<1>9. /\ HeapOK(item', free_list', available_size',
                FreeIn(item') \ (IF lock' = NoBlock THEN {}
                                 ELSE {item'[Idling.old].next}))
      /\ lock' # c
  BY <1>0, NobodyLocks
<1>10. {i} \subseteq DOMAIN blocks[c] /\ {} \subseteq DOMAIN b
  BY <1>2
<1>11. /\ \A j \in DOMAIN blocks[c] :
             j \in DOMAIN b \/ j \notin DOMAIN item' \/ ~item'[j].used
       /\ \A j \in DOMAIN b :
             j \in DOMAIN blocks[c] \/ j \notin DOMAIN item \/ ~item[j].used
  BY <1>4
<1>12. /\ lock \in {NoBlock, c} /\ lock' \in {NoBlock, c}
       /\ lock' = c <=> Idling.at = "shrunk"
  BY <1>0, <1>7, <1>9
<1>13. KeptUsed(item, item', {i}) /\ UsedFrom(item, item', {})
  BY <1>2
<1> QED BY ONLY HeapInv, c \in Client,
           <1>4, <1>6, <1>8, <1>9, <1>10, <1>11, <1>12, <1>13, OneStep

LEMMA GrowStep ==
  ASSUME HeapInv, NEW c \in Client, Grow(c)
  PROVE  HeapInv'
<1>1. PICK i, n, right, new :
        i = op[c].old /\ n = op[c].size /\ right = item[i].next
          /\ new = i + RT_MEMHEAP_SIZE + n
  OBVIOUS
<1>2. /\ op[c].at = "grow" /\ Locked(c) /\ UNCHANGED lock
      /\ IF /\ ~item[right].used
            /\ MEMITEM_SIZE(item, right) + MEMITEM_SIZE(item, i)
                 > n + RT_MEMHEAP_MINIALLOC
         THEN /\ available_size' = available_size - (n - MEMITEM_SIZE(item, i))
              /\ item' = chain_insert(chain_remove(item, right), i, new)
              /\ free_list' = <<new>> \o Out(free_list, right)
              /\ Own(c, i, n) /\ Done(c)
         ELSE Go_(c, "alloc") /\ UNCHANGED <<item, free_list, available_size, blocks>>
  BY <1>1 DEF Grow, Doing, free_remove, Out
<1>3. /\ ClientOK(item, blocks[c], op[c]) /\ op[c] \in OpType
      /\ HeapOK(item, free_list, available_size, FreeIn(item)) /\ Chain(item)
  BY <1>2, ClientFacts, LockedFacts
<1>4. /\ i \in DOMAIN item /\ i # tail /\ item[i].used
      /\ n \in Nat /\ n >= RT_MEMHEAP_MINIALLOC
  BY <1>1, <1>2, <1>3 DEF ClientOK, OpType
<1>5. CASE /\ ~item[right].used
           /\ MEMITEM_SIZE(item, right) + MEMITEM_SIZE(item, i)
                > n + RT_MEMHEAP_MINIALLOC
  <2>1. GrowsInto(item, available_size, free_list, i, n, right, new,
                  item', available_size', free_list')
    BY <1>1, <1>2, <1>4, <1>5 DEF GrowsInto
  <2>2. /\ HeapOK(item', free_list', available_size', FreeIn(item'))
        /\ KeptUsed(item, item', {i}) /\ UsedFrom(item, item', {})
        /\ i \in DOMAIN item' /\ item'[i].used /\ item'[i].next = new
    <3>1. /\ HeapOK(item, free_list, available_size, FreeIn(item))
          /\ i \in DOMAIN item /\ i # tail /\ item[i].used
      BY <1>3, <1>4
    <3>2. /\ HeapOK(item', free_list', available_size', FreeIn(item'))
          /\ Moved(item, i, new, item')
      BY ONLY <2>1, <3>1, GrowInto
    <3> QED BY <3>2 DEF Moved
  <2>3. MEMITEM_SIZE(item', i) = n
    <3>1. MEMITEM_SIZE(item', i) = new - i - RT_MEMHEAP_SIZE
      BY <2>2 DEF MEMITEM_SIZE
    <3>2. i \in Nat
      BY <1>3, <1>4, ChainFacts
    <3> QED BY ONLY <1>1, <1>4, <3>1, <3>2, HeapConstants
  <2> QED BY <1>1, <1>2, <1>5, <2>2, <2>3, GrownStep
<1>6. CASE ~(/\ ~item[right].used
             /\ MEMITEM_SIZE(item, right) + MEMITEM_SIZE(item, i)
                  > n + RT_MEMHEAP_MINIALLOC)
  <2>1. Go_(c, "alloc") /\ UNCHANGED <<item, free_list, available_size, lock, blocks>>
    BY <1>2, <1>6
  <2>2. PICK p : p = [op[c] EXCEPT !.at = "alloc"]
    OBVIOUS
  <2>3. /\ OnlyAt(op, op', c, p) /\ p \in OpType
        /\ p.at = "alloc" /\ p.old = op[c].old /\ p.size = op[c].size
    BY <2>1, <2>2, OpGoes
  <2>4. ClientOK(item, blocks[c], p)
    BY <1>2, <1>3, <2>3, ClientGoesOn
  <2>5. OnlyAt(blocks, blocks', c, blocks[c])
    BY <2>1, ClientFacts
  <2> QED BY <1>2, <2>1, <2>3, <2>4, <2>5, QuietHeap
<1> QED BY <1>5, <1>6


\* The client splits its block, and keeps the lock.
LEMMA ShrunkStep ==
  ASSUME HeapInv, NEW c \in Client, op[c].at = "shrink", Locked(c), lock' = c,
         Go_(c, "shrunk"), UNCHANGED blocks,
         NEW i, i = op[c].old,
         NEW new, HeapOK(item', free_list', available_size', FreeIn(item') \ {new}),
         KeptUsed(item, item', {i}), UsedFrom(item, item', {}),
         i \in DOMAIN item', item'[i].used, item'[i].next = new, ~item'[new].used,
         MEMITEM_SIZE(item', i) = op[c].size
  PROVE  HeapInv'
<1>0. /\ ClientOK(item, blocks[c], op[c]) /\ op[c] \in OpType
      /\ lock = NoBlock /\ OnlyAt(blocks, blocks', c, blocks[c])
      /\ c # NoBlock
  BY ClientFacts, LockedFacts
<1>1. PICK o : o = [op[c] EXCEPT !.at = "shrunk"]
  OBVIOUS
<1>2. /\ OnlyAt(op, op', c, o) /\ o \in OpType
      /\ o.at = "shrunk" /\ o.old = i /\ o.size = op[c].size
  BY <1>1, OpGoes
<1>3. i \in DOMAIN blocks[c] /\ i # tail /\ i # NoBlock
      /\ blocks[c][i] \in Nat /\ blocks[c][i] <= op[c].size
      /\ op[c].size >= RT_MEMHEAP_MINIALLOC
  BY <1>0 DEF ClientOK
<1>4. ASSUME NEW j \in DOMAIN blocks[c]
      PROVE  /\ j \in DOMAIN item' /\ j # tail /\ item'[j].used
             /\ blocks[c][j] \in Nat /\ blocks[c][j] <= MEMITEM_SIZE(item', j)
  <2>1. CASE j = i
    BY <1>3, <2>1
  <2>2. CASE j # i
    <3>1. j \notin {i}
      BY <2>2
    <3> QED BY <3>1, KeptBlocks
  <2> QED BY <2>1, <2>2
<1>5. ClientOK(item', blocks[c], o)
  BY <1>2, <1>3, <1>4 DEF ClientOK
<1>6. HeapOK(item', free_list', available_size',
             FreeIn(item') \ (IF lock' = NoBlock THEN {} ELSE {item'[o.old].next}))
  BY <1>0, <1>2
<1>7. {i} \subseteq DOMAIN blocks[c] /\ {} \subseteq DOMAIN blocks[c]
  BY <1>3
<1>8. /\ lock \in {NoBlock, c} /\ lock' \in {NoBlock, c}
      /\ lock' = c <=> o.at = "shrunk"
  BY <1>0, <1>2
<1>9. /\ KeptUsed(item, item', {i}) /\ UsedFrom(item, item', {})
      /\ \A j \in DOMAIN blocks[c] :
           j \in DOMAIN blocks[c] \/ j \notin DOMAIN item' \/ ~item'[j].used
      /\ \A j \in DOMAIN blocks[c] :
           j \in DOMAIN blocks[c] \/ j \notin DOMAIN item \/ ~item[j].used
  OBVIOUS
<1> QED BY ONLY HeapInv, c \in Client,
           <1>0, <1>2, <1>5, <1>6, <1>7, <1>8, <1>9, OneStep

LEMMA ShrinkStep ==
  ASSUME HeapInv, NEW c \in Client, Shrink(c)
  PROVE  HeapInv'
<1>1. PICK i, n, new, right, s :
        /\ i = op[c].old /\ n = op[c].size /\ new = i + n + RT_MEMHEAP_SIZE
        /\ right = item[i].next /\ s = chain_insert(item, i, new)
  OBVIOUS
<1>2. /\ op[c].at = "shrink" /\ Locked(c) /\ lock' = c /\ Go_(c, "shrunk")
      /\ UNCHANGED blocks
      /\ IF item[right].used
         THEN item' = s /\ UNCHANGED <<free_list, available_size>>
         ELSE /\ item' = chain_remove(s, right)
              /\ free_list' = Out(free_list, right)
              /\ available_size' = available_size - MEMITEM_SIZE(item, right)
  BY <1>1 DEF Shrink, Doing, free_remove, Out
<1>3. /\ ClientOK(item, blocks[c], op[c]) /\ op[c] \in OpType
      /\ HeapOK(item, free_list, available_size, FreeIn(item)) /\ Chain(item)
  BY <1>2, ClientFacts, LockedFacts
<1>4. /\ i \in DOMAIN item /\ i # tail /\ item[i].used
      /\ n \in Nat /\ n >= RT_MEMHEAP_MINIALLOC
      /\ n + RT_MEMHEAP_SIZE + RT_MEMHEAP_MINIALLOC <= MEMITEM_SIZE(item, i)
  BY <1>1, <1>2, <1>3 DEF ClientOK, OpType
<1>5. SplitsRest(item, free_list, available_size, i, n, new, right, s,
                 item', free_list', available_size')
  BY <1>1, <1>2, <1>4 DEF SplitsRest
<1>6. /\ HeapBut(item', free_list', available_size', new)
      /\ KeptUsed(item, item', {i}) /\ UsedFrom(item, item', {})
      /\ i \in DOMAIN item' /\ item'[i].used /\ item'[i].next = new
      /\ new \in DOMAIN item' /\ ~item'[new].used
  <2>1. /\ HeapOK(item, free_list, available_size, FreeIn(item))
        /\ i \in DOMAIN item /\ i # tail /\ item[i].used
    BY <1>3, <1>4
  <2>2. HeapBut(item', free_list', available_size', new) /\ Shrunk(item, i, new, item')
    BY ONLY <1>5, <2>1, ShrinkSplit
  <2> QED BY <2>2 DEF Shrunk, Moved
<1>7. MEMITEM_SIZE(item', i) = op[c].size
  <2>1. MEMITEM_SIZE(item', i) = new - i - RT_MEMHEAP_SIZE
    BY <1>6 DEF MEMITEM_SIZE
  <2>2. i \in Nat
    BY <1>3, <1>4, ChainFacts
  <2> QED BY ONLY <1>1, <1>4, <2>1, <2>2, HeapConstants
<1> QED BY <1>1, <1>2, <1>6, <1>7, ShrunkStep DEF HeapBut

LEMMA ShrinkEndStep ==
  ASSUME HeapInv, NEW c \in Client, ShrinkEnd(c)
  PROVE  HeapInv'
<1>1. PICK new : new = item[op[c].old].next
  OBVIOUS
<1>2. /\ op[c].at = "shrunk" /\ lock' = NoBlock /\ Done(c)
      /\ UNCHANGED <<item, blocks>>
      /\ free_list' = <<new>> \o free_list
      /\ available_size' = available_size + MEMITEM_SIZE(item, new)
  BY <1>1 DEF ShrinkEnd, Doing
<1>3. /\ ClientOK(item, blocks[c], op[c]) /\ lock = c /\ c # NoBlock
      /\ OnlyAt(blocks, blocks', c, blocks[c]) /\ OnlyAt(op, op', c, Idling)
      /\ Chain(item)
  BY <1>2, ClientFacts, OpDone, MemHeapAssumption
<1>4. HeapOK(item, free_list, available_size, FreeIn(item) \ {new})
  BY <1>1, <1>3 DEF HeapInv, unlinked
<1>5. new \in FreeIn(item) /\ new \in Nat
  <2>1. op[c].old \in DOMAIN item
    BY <1>2, <1>3 DEF ClientOK
  <2>2. new \in DOMAIN item /\ new \in Nat
    BY <1>1, <1>3, <2>1, ChainFacts
  <2>3. ~item[new].used
    BY <1>1, <1>2, <1>3 DEF ClientOK
  <2> QED BY <2>2, <2>3 DEF FreeIn
<1>6. List(free_list', FreeIn(item))
  <2>1. List(free_list, FreeIn(item) \ {new}) /\ new \notin FreeIn(item) \ {new}
    BY <1>4 DEF HeapOK
  <2>2. List(free_list', (FreeIn(item) \ {new}) \cup {new})
    BY ONLY <1>2, <1>5, <2>1, ListPrepend
  <2>3. (FreeIn(item) \ {new}) \cup {new} = FreeIn(item)
    BY <1>5
  <2> QED BY <2>2, <2>3
<1>7. available_size' = Sum(item, FreeIn(item))
  <2>1. Blocks(item, FreeIn(item))
    BY <1>3, FreeFacts
  <2>2. /\ Sum(item, FreeIn(item) \ {new}) \in Nat /\ MEMITEM_SIZE(item, new) \in Nat
        /\ Sum(item, FreeIn(item))
             = MEMITEM_SIZE(item, new) + Sum(item, FreeIn(item) \ {new})
    BY ONLY <1>3, <1>5, <2>1, SumOut
  <2>3. available_size = Sum(item, FreeIn(item) \ {new})
    BY <1>4 DEF HeapOK
  <2> QED BY ONLY <1>2, <2>2, <2>3
<1>8. HeapOK(item', free_list', available_size', FreeIn(item'))
  <2>1. Chain(item) /\ Apart(item)
    BY <1>4 DEF HeapOK
  <2>2. HeapOK(item, free_list', available_size', FreeIn(item))
    BY <1>6, <1>7, <2>1 DEF HeapOK
  <2> QED BY <1>2, <2>2
<1>9. ClientOK(item', blocks[c], Idling) /\ Idling.at = "run"
  BY <1>2, <1>3, ClientIdles
<1>10. HeapOK(item', free_list', available_size',
              FreeIn(item') \ (IF lock' = NoBlock THEN {}
                               ELSE {item'[Idling.old].next}))
  BY <1>2, <1>8, NobodyLocks
<1>11. /\ KeptUsed(item, item', {}) /\ UsedFrom(item, item', {})
       /\ {} \subseteq DOMAIN blocks[c]
       /\ \A j \in DOMAIN blocks[c] :
            j \in DOMAIN blocks[c] \/ j \notin DOMAIN item' \/ ~item'[j].used
       /\ \A j \in DOMAIN blocks[c] :
            j \in DOMAIN blocks[c] \/ j \notin DOMAIN item \/ ~item[j].used
  BY <1>2 DEF KeptUsed, UsedFrom
<1>12. /\ lock \in {NoBlock, c} /\ lock' \in {NoBlock, c}
       /\ lock' = c <=> Idling.at = "shrunk"
  BY <1>2, <1>3, <1>9
<1> QED BY ONLY HeapInv, c \in Client, <1>3, <1>9, <1>10, <1>11, <1>12, OneStep

LEMMA NextHeapInv == HeapInv /\ [HeapNext]_heapvars => HeapInv'
<1> SUFFICES ASSUME HeapInv, [HeapNext]_heapvars PROVE HeapInv'
  OBVIOUS
<1>1. ASSUME NEW c \in Client, ClientStep(c)
      PROVE  HeapInv'
  <2>1. CASE \E n \in Request : Malloc(c, n)
    BY <2>1, MallocStep
  <2>2. CASE AllocTest(c)
    BY <2>2, AllocTestStep
  <2>3. CASE AllocSearch(c)
    BY <2>3, AllocSearchStep
  <2>4. CASE \E i \in DOMAIN blocks[c] : Free_(c, i)
    BY <2>4, FreeBlockStep
  <2>5. CASE FreeOld(c)
    BY <2>5, FreeOldStep
  <2>6. CASE \E i \in DOMAIN blocks[c], n \in Request : Realloc(c, i, n)
    BY <2>6, ReallocStep
  <2>7. CASE Grow(c)
    BY <2>7, GrowStep
  <2>8. CASE Shrink(c)
    BY <2>8, ShrinkStep
  <2>9. CASE ShrinkEnd(c)
    BY <2>9, ShrinkEndStep
  <2> QED BY <1>1, <2>1, <2>2, <2>3, <2>4, <2>5, <2>6, <2>7, <2>8, <2>9
       DEF ClientStep
<1>2. CASE UNCHANGED heapvars
  <2>1. UNCHANGED <<item, free_list, available_size, lock, op, blocks>>
    BY <1>2 DEF heapvars
  <2> QED BY <2>1 DEF HeapInv, unlinked
<1> QED BY <1>1, <1>2 DEF HeapNext

-----------------------------------------------------------------------------
(* What holds of the heap.                                                 *)

\* In every state the blocks are a chain through the pool, the free list holds the
\* free ones (but for the one that a client in rt_memheap_realloc has split off and not
\* linked yet), and every used block is one client's own.
THEOREM HeapInvariant == HeapSpec => []HeapInv
<1> QED BY InitHeapInv, NextHeapInv, PTL DEF HeapSpec

LEMMA HeapInvConsistent == HeapInv => HeapConsistent
<1> SUFFICES ASSUME HeapInv PROVE HeapConsistent
  OBVIOUS
<1>1. /\ Chain(item) /\ Apart(item)
      /\ List(free_list, FreeIn(item) \ unlinked)
      /\ available_size = Sum(item, FreeIn(item) \ unlinked)
  BY DEF HeapInv, HeapOK
<1>2. {0, tail} \subseteq DOMAIN item /\ item[tail].used
  BY <1>1 DEF Chain
<1>3. ASSUME NEW i \in DOMAIN item
      PROVE  /\ item[item[i].next].prev = i /\ item[item[i].prev].next = i
             /\ i # tail => MEMITEM_SIZE(item, i) >= RT_MEMHEAP_MINIALLOC
             /\ ~item[i].used => item[item[i].next].used
  BY <1>1, ChainFacts DEF Apart
<1>4. ASSUME NEW i \in DOMAIN item, NEW j \in DOMAIN item, i < j, j < item[i].next
      PROVE  FALSE
  <2>1. j \in Nat /\ item[i].next \in Nat /\ item[tail].next = 0
    BY <1>1, ChainFacts DEF Chain
  <2>2. CASE i = tail
    BY <1>4, <2>1, <2>2
  <2>3. CASE i # tail
    <3>1. item[i].next <= j
      BY <1>1, <1>4, <2>3 DEF Chain
    <3> QED BY ONLY <1>4, <2>1, <3>1
  <2> QED BY <2>2, <2>3
<1>5. IsInjective(free_list)
  BY <1>1 DEF List
<1>6. ASSUME lock = NoBlock
      PROVE  /\ ToSet(free_list) = {i \in DOMAIN item : isfree(i)}
             /\ available_size = MapThenSumSet(LAMBDA i : Sizes(item)[i],
                                               ToSet(free_list))
  <2>1. FreeIn(item) \ unlinked = FreeIn(item)
    BY <1>6 DEF unlinked
  <2>2. ToSet(free_list) = FreeIn(item)
    BY <1>1, <2>1 DEF List
  <2>3. available_size = Total(Sizes(item), ToSet(free_list))
    BY <1>1, <2>1, <2>2 DEF Sum
  <2> QED BY <2>2, <2>3 DEF FreeIn, isfree, Total
<1> QED BY <1>2, <1>3, <1>4, <1>5, <1>6 DEF HeapConsistent, isfree, Sizes

\* rt_memheap_alloc, rt_memheap_free and rt_memheap_realloc keep the chain without
\* gaps and in both directions, the free list to the free blocks, no two of which are
\* neighbours, and available_size to what they hold.
THEOREM HeapConsistency == HeapSpec => []HeapConsistent
<1> QED BY HeapInvariant, HeapInvConsistent, PTL

LEMMA HeapInvIntact == HeapInv => BlocksIntact
<1> SUFFICES ASSUME HeapInv PROVE BlocksIntact
  OBVIOUS
<1>1. \A c \in Client : ClientOK(item, blocks[c], op[c])
  BY DEF HeapInv
<1>2. ASSUME NEW i \in DOMAIN item \ {tail}
      PROVE  Cardinality({c \in Client : i \in DOMAIN blocks[c]})
               = IF isfree(i) THEN 0 ELSE 1
  <2>1. CASE isfree(i)
    <3>1. {c \in Client : i \in DOMAIN blocks[c]} = {}
      BY <1>1, <2>1 DEF ClientOK, isfree
    <3> QED BY <2>1, <3>1, FS_EmptySet
  <2>2. CASE ~isfree(i)
    <3>1. PICK c \in Client : i \in DOMAIN blocks[c]
      BY <1>2, <2>2 DEF HeapInv, Owned, isfree
    <3>2. {d \in Client : i \in DOMAIN blocks[d]} = {c}
      BY <3>1 DEF HeapInv, Owned
    <3> QED BY <2>2, <3>2, FS_Singleton
  <2> QED BY <2>1, <2>2
<1>3. \A c \in Client : \A i \in DOMAIN blocks[c] :
        i \in DOMAIN item /\ blocks[c][i] <= MEMITEM_SIZE(item, i)
  BY <1>1 DEF ClientOK
<1> QED BY <1>2, <1>3 DEF BlocksIntact

\* A block is its client's own and as large as it last asked for, until the client frees
\* it, whatever the other clients allocate, free, split and merge between the steps
\* of its rt_realloc.
THEOREM HeapBlocksIntact == HeapSpec => []BlocksIntact
<1> QED BY HeapInvariant, HeapInvIntact, PTL

-----------------------------------------------------------------------------
(* When an allocation fails.                                               *)

\* A step of one client leaves what the others are doing alone.
LEMMA OthersGoOn ==
  ASSUME HeapInv, NEW d \in Client, ClientStep(d), NEW c \in Client, c # d
  PROVE  op'[c] = op[c]
<1>0. DOMAIN op = Client
  BY DEF HeapInv
<1>1. ASSUME NEW at, Go_(d, at) PROVE op'[c] = op[c]
  BY <1>0, <1>1 DEF Go_
<1>2. Done(d) => op'[c] = op[c]
  BY <1>0 DEF Done
<1>3. AllocFails(d) => op'[c] = op[c]
  BY <1>0 DEF AllocFails
<1>4. ASSUME NEW n \in Request, Malloc(d, n) PROVE op'[c] = op[c]
  BY <1>0, <1>4 DEF Malloc
<1>5. AllocTest(d) => op'[c] = op[c]
  BY <1>1, <1>3 DEF AllocTest
<1>6. AllocSearch(d) => op'[c] = op[c]
  BY <1>1, <1>2, <1>3 DEF AllocSearch, Given
<1>7. ASSUME NEW i, Free_(d, i) PROVE op'[c] = op[c]
  BY <1>7 DEF Free_
<1>8. FreeOld(d) => op'[c] = op[c]
  BY <1>2 DEF FreeOld
<1>9. ASSUME NEW i, NEW n \in Request, Realloc(d, i, n) PROVE op'[c] = op[c]
  BY <1>0, <1>9 DEF Realloc
<1>10. Grow(d) => op'[c] = op[c]
  BY <1>1, <1>2 DEF Grow
<1>11. Shrink(d) => op'[c] = op[c]
  BY <1>1 DEF Shrink
<1>12. ShrinkEnd(d) => op'[c] = op[c]
  BY <1>2 DEF ShrinkEnd
<1> QED BY <1>4, <1>5, <1>6, <1>7, <1>8, <1>9, <1>10, <1>11, <1>12 DEF ClientStep

\* With the lock free, a free block is not larger than available_size.
LEMMA FreeWithin ==
  ASSUME HeapInv, lock = NoBlock, NEW i \in ToSet(free_list)
  PROVE  /\ i \in DOMAIN item /\ ~item[i].used
         /\ MEMITEM_SIZE(item, i) \in Nat /\ available_size \in Nat
         /\ MEMITEM_SIZE(item, i) <= available_size
<1>1. /\ Chain(item) /\ List(free_list, FreeIn(item) \ unlinked)
      /\ available_size = Sum(item, FreeIn(item) \ unlinked)
  BY DEF HeapInv, HeapOK
<1>2. FreeIn(item) \ unlinked = FreeIn(item)
  BY DEF unlinked
<1>3. i \in FreeIn(item)
  BY <1>1, <1>2 DEF List
<1>4. Blocks(item, FreeIn(item))
  BY <1>1, FreeFacts
<1>5. /\ Sum(item, FreeIn(item) \ {i}) \in Nat /\ MEMITEM_SIZE(item, i) \in Nat
      /\ Sum(item, FreeIn(item))
           = MEMITEM_SIZE(item, i) + Sum(item, FreeIn(item) \ {i})
  BY ONLY <1>1, <1>3, <1>4, SumOut
<1>6. available_size = Sum(item, FreeIn(item))
  BY <1>1, <1>2
<1>7. /\ MEMITEM_SIZE(item, i) \in Nat /\ available_size \in Nat
      /\ MEMITEM_SIZE(item, i) <= available_size
  BY ONLY <1>5, <1>6
<1> QED BY <1>3, <1>7 DEF FreeIn

\* The client whose allocation fails is the one that takes the step.
LEMMA FailureIsOwn ==
  ASSUME HeapInv, NEW d \in Client, ClientStep(d), NEW c \in Client,
         op[c].at \in {"alloc", "search"}, AllocFails(c)
  PROVE  d = c
<1>1. SUFFICES ASSUME d # c PROVE FALSE
  OBVIOUS
<1>2. op'[c] = op[c]
  BY <1>1, OthersGoOn
<1>3. op[c] \in OpType /\ DOMAIN op = Client
  BY DEF HeapInv, ClientOK
<1>4. CASE op[c].old # NoBlock /\ ~op[c].again
  <2>1. op' = [op EXCEPT ![c].at = "alloc", ![c].again = TRUE]
    BY <1>4 DEF AllocFails
  <2>2. op'[c].again = TRUE
    BY <1>3, <2>1 DEF OpType
  <2> QED BY <1>2, <1>4, <2>2
<1>5. CASE ~(op[c].old # NoBlock /\ ~op[c].again)
  <2>1. op' = [op EXCEPT ![c] = Idling]
    BY <1>5 DEF AllocFails
  <2>2. op'[c].at = "run"
    BY <1>3, <2>1 DEF Idling
  <2> QED BY <1>2, <2>2
<1> QED BY <1>4, <1>5

\* An allocation that fails while nobody has the lock either asked for as much as
\* available_size says, or found no block.
LEMMA FailsFull ==
  ASSUME HeapInv, HeapNext, NEW c \in Client, op[c].at \in {"alloc", "search"},
         AllocFails(c), UNCHANGED blocks, lock = NoBlock,
         NEW i \in ToSet(free_list)
  PROVE  MEMITEM_SIZE(item, i) < op[c].size \/ available_size = op[c].size
<1>1. ClientStep(c)
  BY FailureIsOwn DEF HeapNext
<1>2. /\ op[c] \in OpType /\ DOMAIN op = Client /\ op[c].size \in Nat
      /\ ClientOK(item, blocks[c], op[c]) /\ DOMAIN blocks = Client
  BY DEF HeapInv, ClientOK, OpType
<1>3. /\ ~item[i].used /\ MEMITEM_SIZE(item, i) \in Nat /\ available_size \in Nat
      /\ MEMITEM_SIZE(item, i) <= available_size
  BY FreeWithin
<1>4. AllocTest(c) \/ AllocSearch(c)
  BY <1>1 DEF ClientStep, Doing, Malloc, Free_, FreeOld, Realloc, Grow, Shrink,
              ShrinkEnd
<1>5. CASE AllocTest(c)
  <2>1. ~(op[c].size < available_size)
    <3>1. SUFFICES ASSUME op[c].size < available_size PROVE FALSE
      OBVIOUS
    <3>2. op' = [op EXCEPT ![c].at = "search"]
      BY <1>5, <3>1 DEF AllocTest, Go_
    <3>3. op'[c].at = "search"
      BY <1>2, <3>2 DEF OpType
    <3>4. op'[c].at \in {"alloc", "run"}
      BY <1>2 DEF AllocFails, OpType, Idling
    <3> QED BY <3>3, <3>4
  <2> QED BY <1>2, <1>3, <2>1
<1>6. CASE AllocSearch(c)
  <2>1. PICK j \in DOMAIN free_list : free_list[j] = i
    BY DEF ToSet
  <2>2. CASE fitting(op[c].size) = {}
    <3>1. ~(MEMITEM_SIZE(item, i) >= op[c].size)
      BY <2>1, <2>2 DEF fitting
    <3> QED BY <1>2, <1>3, <3>1
  <2>3. CASE fitting(op[c].size) # {}
    <3>1. PICK b : b = free_list[CHOOSE h \in fitting(op[c].size) :
                                   \A g \in fitting(op[c].size) : h <= g]
      OBVIOUS
    <3>2. Given(c, b)
      BY <1>6, <2>3, <3>1 DEF AllocSearch
    <3>3. HeapOK(item, free_list, available_size, FreeIn(item))
      BY <1>6, LockedFacts DEF AllocSearch
    <3>4. b \in FreeIn(item)
      BY ONLY HeapInv, <2>3, <3>1, <3>3, FoundFacts
    <3>5. b \in DOMAIN blocks'[c]
      BY <1>2, <3>2 DEF Given
    <3> QED BY <1>2, <3>4, <3>5 DEF ClientOK, FreeIn
  <2> QED BY <2>2, <2>3
<1> QED BY <1>4, <1>5, <1>6

\* rt_memheap_alloc fails only if every free block is too small, or when it is asked for
\* all that is free, or while a rt_memheap_realloc is between its two updates of
\* available_size, which is read without the lock.
THEOREM HeapFailsOnlyWhenFull == HeapSpec => FailsOnlyWhenFull
<1>1. ASSUME HeapInv, [HeapNext]_heapvars
      PROVE  [\A c \in Client :
                op[c].at \in {"alloc", "search"} /\ AllocFails(c)
                  /\ UNCHANGED blocks =>
                  \/ lock # NoBlock
                  \/ \A i \in ToSet(free_list) :
                       MEMITEM_SIZE(item, i) < op[c].size
                         \/ available_size = op[c].size]_heapvars
  <2>1. CASE HeapNext
    BY <1>1, <2>1, FailsFull
  <2>2. CASE UNCHANGED heapvars
    BY <2>2
  <2> QED BY <1>1, <2>1, <2>2
<1> QED BY <1>1, HeapInvariant, PTL DEF HeapSpec, FailsOnlyWhenFull

-----------------------------------------------------------------------------
(* The ring buffer.                                                        *)

RingRecord ==
  [buffer : [0 .. (buffer_size - 1) -> Byte],
   read_mirror : BOOLEAN, read_index : 0 .. (buffer_size - 1),
   write_mirror : BOOLEAN, write_index : 0 .. (buffer_size - 1)]

\* The bytes of s lie behind the read index, the write index is after the last of
\* them, and the mirror bits differ when it has passed the end of the buffer.
Holds(r, s) ==
  /\ r \in RingRecord
  /\ s \in Seq(Byte) /\ Len(s) <= buffer_size
  /\ r.write_index = (r.read_index + Len(s)) % buffer_size
  /\ r.write_mirror = r.read_mirror <=> r.read_index + Len(s) < buffer_size
  /\ \A i \in 1 .. Len(s) : s[i] = r.buffer[(r.read_index + i - 1) % buffer_size]

RingIInv ==
  /\ rb \in RingRecord /\ number \in Byte
  /\ spoilt \in BOOLEAN
  /\ ~spoilt => Holds(rb, content)

LEMMA RingNumbers ==
  /\ buffer_size \in Nat \ {0} /\ ByteMod \in Nat \ {0}
  /\ \A x \in Int : x % ByteMod \in Byte
<1>1. /\ buffer_size \in Nat \ {0} /\ ByteMod \in Nat \ {0}
  BY RingAssumption
<1> QED BY <1>1 DEF Byte

\* What the indices and mirror bits say of a ring that holds s.
LEMMA HoldsLength ==
  ASSUME NEW r, NEW s, Holds(r, s)
  PROVE  /\ data_len(r) = Len(s) /\ space_len(r) = buffer_size - Len(s)
         /\ Len(s) \in 0 .. buffer_size /\ Len(s) \in Nat
         /\ space_len(r) \in 0 .. buffer_size /\ space_len(r) \in Nat
         /\ status(r) = "FULL" <=> Len(s) = buffer_size
<1>1. /\ buffer_size \in Nat \ {0} /\ Len(s) \in 0 .. buffer_size
      /\ r.read_index \in 0 .. (buffer_size - 1)
      /\ r.write_index \in 0 .. (buffer_size - 1)
      /\ r.write_mirror = r.read_mirror <=> r.read_index + Len(s) < buffer_size
  BY RingNumbers DEF Holds, RingRecord
<1>2. r.write_index = IF r.read_index + Len(s) < buffer_size
                      THEN r.read_index + Len(s)
                      ELSE r.read_index + Len(s) - buffer_size
  <2>1. r.write_index = (r.read_index + Len(s)) % buffer_size
    BY DEF Holds
  <2> QED BY ONLY <1>1, <2>1, Around
<1>3. CASE r.read_index # r.write_index
  <2>1. /\ status(r) = "HALFFULL" /\ status(r) # "FULL" /\ status(r) # "EMPTY"
        /\ Len(s) # buffer_size
    BY <1>1, <1>2, <1>3 DEF status
  <2>2. data_len(r) = IF r.write_index > r.read_index
                      THEN r.write_index - r.read_index
                      ELSE buffer_size - (r.read_index - r.write_index)
    BY <2>1 DEF data_len
  <2>3. data_len(r) = Len(s)
    BY ONLY <1>1, <1>2, <1>3, <2>2
  <2> QED BY <1>1, <2>1, <2>3 DEF space_len
<1>4. CASE r.read_index = r.write_index /\ r.write_mirror = r.read_mirror
  BY <1>1, <1>2, <1>4 DEF data_len, space_len, status
<1>5. CASE r.read_index = r.write_index /\ r.write_mirror # r.read_mirror
  BY <1>1, <1>2, <1>5 DEF data_len, space_len, status
<1> QED BY <1>3, <1>4, <1>5

\* rt_ringbuffer_get copies the first bytes.
LEMMA GetFirst ==
  ASSUME NEW r, NEW s, Holds(r, s), NEW n \in Nat
  PROVE  /\ get(r, n) = SubSeq(s, 1, IF n <= Len(s) THEN n ELSE Len(s))
         /\ Len(get(r, n)) = IF n <= Len(s) THEN n ELSE Len(s)
<1>1. PICK l \in Nat : l = IF n <= Len(s) THEN n ELSE Len(s)
  BY HoldsLength
<1>2. get(r, n) = [i \in 1 .. l |-> r.buffer[(r.read_index + i - 1) % buffer_size]]
  <2>1. data_len(r) = Len(s) /\ Len(s) \in Nat
    BY HoldsLength
  <2>2. Min({n, data_len(r)}) = l
    BY <1>1, <2>1, MinOfTwo
  <2> QED BY <2>2 DEF get
<1>3. /\ s \in Seq(Byte) /\ l <= Len(s)
      /\ \A i \in 1 .. Len(s) :
           s[i] = r.buffer[(r.read_index + i - 1) % buffer_size]
  BY <1>1, HoldsLength DEF Holds
<1>4. get(r, n) = [i \in 1 .. l |-> s[i]]
  BY ONLY <1>1, <1>2, <1>3
<1>5. SubSeq(s, 1, l) = [i \in 1 .. l |-> s[i]]
  BY ONLY <1>1, <1>3
<1>6. Len([i \in 1 .. l |-> s[i]]) = l
  BY ONLY <1>1
<1> QED BY <1>1, <1>4, <1>5, <1>6
\* Two mirror bits that differ from a third agree.
LEMMA Bits ==
  ASSUME NEW x \in BOOLEAN, NEW y \in BOOLEAN, NEW z \in BOOLEAN
  PROVE  (x = z) <=> ((x = y) <=> (y = z))
<1>1. (x = TRUE \/ x = FALSE) /\ (y = TRUE \/ y = FALSE) /\ (z = TRUE \/ z = FALSE)
  OBVIOUS
<1> QED BY <1>1

\* The bytes of u are copied behind the write index, which moves by as many.
LEMMA Written ==
  ASSUME NEW r \in RingRecord, NEW u \in Seq(Byte), Len(u) <= buffer_size,
         NEW w, w = written([r EXCEPT !.buffer = copied(r, u)], Len(u))
  PROVE  /\ w \in RingRecord
         /\ w.read_index = r.read_index /\ w.read_mirror = r.read_mirror
         /\ w.write_index = (r.write_index + Len(u)) % buffer_size
         /\ w.write_mirror = r.write_mirror <=> r.write_index + Len(u) < buffer_size
         /\ \A n \in 0 .. (buffer_size - 1) :
              w.buffer[(r.write_index + n) % buffer_size] =
                IF n < Len(u) THEN u[n + 1]
                ELSE r.buffer[(r.write_index + n) % buffer_size]
<1>1. /\ buffer_size \in Nat \ {0} /\ Len(u) \in 0 .. buffer_size /\ Len(u) \in Nat
      /\ r.write_index \in 0 .. (buffer_size - 1)
      /\ r.read_index \in 0 .. (buffer_size - 1)
      /\ r.read_mirror \in BOOLEAN /\ r.write_mirror \in BOOLEAN
      /\ r.buffer \in [0 .. (buffer_size - 1) -> Byte]
  BY RingNumbers DEF RingRecord
<1>2. copied(r, u) \in [0 .. (buffer_size - 1) -> Byte]
  <2>1. ASSUME NEW i \in 0 .. (buffer_size - 1),
               (i - r.write_index) % buffer_size < Len(u)
        PROVE  u[((i - r.write_index) % buffer_size) + 1] \in Byte
    <3>1. r.write_index \in 0 .. buffer_size
      BY <1>1
    <3>2. (i - r.write_index) % buffer_size \in 0 .. (buffer_size - 1)
      BY ONLY <1>1, <3>1, Around
    <3>3. ((i - r.write_index) % buffer_size) + 1 \in 1 .. Len(u)
      BY <1>1, <2>1, <3>2
    <3> QED BY <3>3
  <2> QED BY <1>1, <2>1 DEF copied
<1>3. PICK v \in [0 .. (buffer_size - 1) -> Byte] : v = copied(r, u)
  BY <1>2
<1>4. (r.write_index + Len(u)) % buffer_size \in 0 .. (buffer_size - 1)
  BY ONLY <1>1, Around
<1>5. PICK p \in 0 .. (buffer_size - 1) : p = (r.write_index + Len(u)) % buffer_size
  BY <1>4
<1>6. PICK m \in BOOLEAN :
        m = IF r.write_index + Len(u) >= buffer_size THEN ~r.write_mirror
            ELSE r.write_mirror
  BY <1>1
<1>7. w = [buffer |-> v, read_mirror |-> r.read_mirror, read_index |-> r.read_index,
           write_mirror |-> m, write_index |-> p]
  BY <1>3, <1>5, <1>6 DEF written, RingRecord
<1>8. w.write_mirror = r.write_mirror <=> r.write_index + Len(u) < buffer_size
  <2>1. CASE r.write_index + Len(u) >= buffer_size
    <3>1. w.write_mirror = ~r.write_mirror /\ ~(r.write_index + Len(u) < buffer_size)
      BY <1>1, <1>6, <1>7, <2>1
    <3>2. w.write_mirror # r.write_mirror
      BY <3>1, <1>1, Zenon
    <3> QED BY <3>1, <3>2
  <2>2. CASE ~(r.write_index + Len(u) >= buffer_size)
    BY <1>1, <1>6, <1>7, <2>2
  <2> QED BY <2>1, <2>2
<1>9. ASSUME NEW n \in 0 .. (buffer_size - 1)
      PROVE  v[(r.write_index + n) % buffer_size] =
               IF n < Len(u) THEN u[n + 1]
               ELSE r.buffer[(r.write_index + n) % buffer_size]
  <2>1. n \in 0 .. buffer_size /\ r.write_index \in 0 .. buffer_size
    BY <1>1
  <2>2. /\ (r.write_index + n) % buffer_size \in 0 .. (buffer_size - 1)
        /\ (r.write_index + n) % buffer_size =
             IF r.write_index + n < buffer_size THEN r.write_index + n
             ELSE r.write_index + n - buffer_size
    BY ONLY <1>1, <2>1, Around
  <2>3. PICK i \in 0 .. (buffer_size - 1) : i = (r.write_index + n) % buffer_size
    BY <2>2
  <2>4. (i - r.write_index) % buffer_size =
          IF i >= r.write_index THEN i - r.write_index
          ELSE i - r.write_index + buffer_size
    BY ONLY <1>1, <2>1, <2>3, Around
  <2>5. i = IF r.write_index + n < buffer_size THEN r.write_index + n
            ELSE r.write_index + n - buffer_size
    BY <2>2, <2>3
  <2>6. (i - r.write_index) % buffer_size = n
    <3>1. PICK e : e = (i - r.write_index) % buffer_size
      OBVIOUS
    <3>2. PICK f : f = r.write_index
      OBVIOUS
    <3>3. f \in 0 .. (buffer_size - 1) /\ buffer_size \in Nat
      BY <1>1, <3>2
    <3>4. e = IF i >= f THEN i - f ELSE i - f + buffer_size
      BY <2>4, <3>1, <3>2
    <3>5. i = IF f + n < buffer_size THEN f + n ELSE f + n - buffer_size
      BY <2>5, <3>2
    <3>6. e = n
      BY ONLY <3>3, <3>4, <3>5, n \in 0 .. (buffer_size - 1)
    <3> QED BY <3>1, <3>6
  <2>7. v[i] = LET j == (i - r.write_index) % buffer_size
               IN IF j < Len(u) THEN u[j + 1] ELSE r.buffer[i]
    BY <1>3, <2>3 DEF copied
  <2> QED BY <2>3, <2>6, <2>7
<1> QED
  <2>1. /\ w.buffer = v /\ w.read_mirror = r.read_mirror
        /\ w.read_index = r.read_index /\ w.write_mirror = m /\ w.write_index = p
    BY ONLY <1>7
  <2>2. w \in RingRecord
    BY ONLY <1>1, <1>7, v \in [0 .. (buffer_size - 1) -> Byte], m \in BOOLEAN,
            p \in 0 .. (buffer_size - 1) DEF RingRecord
  <2> QED BY ONLY <1>5, <1>8, <1>9, <2>1, <2>2

\* The read index moves by n, and the mirror bit flips at the end of the buffer.
LEMMA ReadOn ==
  ASSUME NEW r \in RingRecord, NEW n \in 0 .. buffer_size, NEW w, w = read(r, n)
  PROVE  /\ w \in RingRecord
         /\ w.write_index = r.write_index /\ w.write_mirror = r.write_mirror
         /\ w.buffer = r.buffer
         /\ w.read_index = (r.read_index + n) % buffer_size
         /\ w.read_mirror = r.read_mirror <=> r.read_index + n < buffer_size
<1>1. /\ buffer_size \in Nat \ {0}
      /\ r.read_index \in 0 .. (buffer_size - 1)
      /\ r.read_mirror \in BOOLEAN
  BY RingNumbers DEF RingRecord
<1>2. (r.read_index + n) % buffer_size \in 0 .. (buffer_size - 1)
  BY ONLY <1>1, n \in 0 .. buffer_size, Around
<1>3. PICK p \in 0 .. (buffer_size - 1) : p = (r.read_index + n) % buffer_size
  BY <1>2
<1>4. PICK m \in BOOLEAN :
        m = IF r.read_index + n >= buffer_size THEN ~r.read_mirror ELSE r.read_mirror
  BY <1>1
<1>5. w = [r EXCEPT !.read_index = p, !.read_mirror = m]
  BY <1>3, <1>4 DEF read
<1>6. m = r.read_mirror <=> r.read_index + n < buffer_size
  <2>1. CASE r.read_index + n >= buffer_size
    <3>1. m = ~r.read_mirror /\ ~(r.read_index + n < buffer_size)
      BY <1>1, <1>4, <2>1
    <3>2. m # r.read_mirror
      BY <3>1, <1>1, Zenon
    <3> QED BY <3>1, <3>2
  <2>2. CASE ~(r.read_index + n >= buffer_size)
    BY <1>1, <1>4, <2>2
  <2> QED BY <2>1, <2>2
<1> QED BY <1>3, <1>5, <1>6 DEF RingRecord

\* What fits is added at the end.
LEMMA HoldsMore ==
  ASSUME NEW r, NEW s, Holds(r, s), NEW u \in Seq(Byte),
         Len(s) + Len(u) <= buffer_size
  PROVE  Holds(written([r EXCEPT !.buffer = copied(r, u)], Len(u)), s \o u)
<1> DEFINE l == Len(s)
           n == Len(u)
           B == buffer_size
           x == r.read_index
           y == r.write_index
<1>0. /\ B \in Nat \ {0} /\ l \in 0 .. B /\ n \in Nat /\ l + n <= B
  BY RingNumbers, HoldsLength
<1>1. /\ B \in Nat \ {0} /\ l \in 0 .. B /\ n \in 0 .. B /\ l \in Nat /\ n \in Nat
      /\ l + n <= B
      /\ r \in RingRecord /\ s \in Seq(Byte)
      /\ x \in 0 .. (B - 1) /\ y \in 0 .. (B - 1)
      /\ y = (x + l) % B
      /\ r.write_mirror = r.read_mirror <=> x + l < B
      /\ \A i \in 1 .. l : s[i] = r.buffer[(x + i - 1) % B]
      /\ r.read_mirror \in BOOLEAN /\ r.write_mirror \in BOOLEAN
  BY <1>0 DEF Holds, RingRecord
<1>2. PICK w : w = written([r EXCEPT !.buffer = copied(r, u)], n)
  OBVIOUS
<1>3. r \in RingRecord /\ u \in Seq(Byte) /\ Len(u) <= buffer_size
  BY <1>1
<1>4. /\ w \in RingRecord
      /\ w.read_index = x /\ w.read_mirror = r.read_mirror
      /\ w.write_index = (y + n) % B
      /\ w.write_mirror = r.write_mirror <=> y + n < B
      /\ \A j \in 0 .. (B - 1) :
           w.buffer[(y + j) % B] =
             IF j < n THEN u[j + 1] ELSE r.buffer[(y + j) % B]
  BY ONLY <1>2, <1>3, Written
<1>5. w.read_mirror \in BOOLEAN /\ w.write_mirror \in BOOLEAN
  BY <1>4 DEF RingRecord
<1>6. /\ s \o u \in Seq(Byte) /\ Len(s \o u) = l + n
      /\ \A i \in 1 .. (l + n) :
           (s \o u)[i] = IF i <= l THEN s[i] ELSE u[i - l]
  BY <1>1
<1> HIDE DEF l, n, B, x, y
<1>7. \A z \in 0 .. B :
        /\ (y + z) % B = (x + (IF l + z < B THEN l + z ELSE l + z - B)) % B
        /\ l + z <= B => (y + z) % B = (x + (l + z)) % B
  BY ONLY <1>1, AroundTwice
<1>8. w.write_index = (x + (l + n)) % B
  BY ONLY <1>1, <1>4, <1>7
<1>9. w.write_mirror = w.read_mirror <=> x + (l + n) < B
  <2>1. y = IF x + l < B THEN x + l ELSE x + l - B
    BY ONLY <1>1, Around
  <2>2. w.write_mirror = w.read_mirror <=>
          (w.write_mirror = r.write_mirror <=> r.write_mirror = w.read_mirror)
    BY ONLY <1>1, <1>5, Bits
  <2>3. x + (l + n) < B <=> (y + n < B <=> x + l < B)
    BY ONLY <1>1, <2>1
  <2> QED BY ONLY <1>1, <1>4, <2>2, <2>3
<1>10. ASSUME NEW i \in 1 .. (l + n)
       PROVE  (s \o u)[i] = w.buffer[(x + i - 1) % B]
  <2>1. CASE i <= l
    <3>1. PICK j \in 0 .. (B - 1) : j = i - 1 + (B - l)
      BY ONLY <1>1, <2>1, i \in 1 .. (l + n)
    <3>2. j \in 0 .. B /\ ~(j < n)
      BY ONLY <1>1, <2>1, <3>1, i \in 1 .. (l + n)
    <3>3. (y + j) % B = (x + (i - 1)) % B
      <4>1. (IF l + j < B THEN l + j ELSE l + j - B) = i - 1
        BY ONLY <1>1, <2>1, <3>1, i \in 1 .. (l + n)
      <4> QED BY ONLY <1>7, <3>2, <4>1
    <3>4. w.buffer[(y + j) % B] = r.buffer[(y + j) % B]
      BY ONLY <1>4, <3>1, <3>2
    <3>5. s[i] = r.buffer[(x + i - 1) % B] /\ x + i - 1 = x + (i - 1)
      BY ONLY <1>1, <2>1, i \in 1 .. (l + n)
    <3> QED BY ONLY <1>6, <2>1, <3>3, <3>4, <3>5, i \in 1 .. (l + n)
  <2>2. CASE ~(i <= l)
    <3>1. PICK j \in 0 .. (B - 1) : j = i - 1 - l
      BY ONLY <1>1, <2>2, i \in 1 .. (l + n)
    <3>2. j \in 0 .. B /\ j < n /\ l + j <= B /\ l + j = i - 1 /\ j + 1 = i - l
      BY ONLY <1>1, <2>2, <3>1, i \in 1 .. (l + n)
    <3>3. (y + j) % B = (x + (i - 1)) % B
      BY <1>7, <3>2
    <3>4. w.buffer[(y + j) % B] = u[i - l]
      BY <1>4, <3>1, <3>2
    <3>5. x + (i - 1) = x + i - 1
      BY <1>1
    <3> QED BY <1>6, <2>2, <3>3, <3>4, <3>5
  <2> QED BY <2>1, <2>2
<1>11. Holds(w, s \o u)
  BY <1>1, <1>4, <1>6, <1>8, <1>9, <1>10 DEF Holds, l, n, B, x, y
<1> QED BY <1>2, <1>11 DEF n
\* The bytes that are read are gone, and no others.
LEMMA HoldsRest ==
  ASSUME NEW r, NEW s, Holds(r, s), NEW n \in 0 .. Len(s)
  PROVE  Holds(read(r, n), SubSeq(s, n + 1, Len(s)))
<1> DEFINE l == Len(s)
           B == buffer_size
           x == r.read_index
           y == r.write_index
<1>0. B \in Nat \ {0} /\ l \in 0 .. B /\ l \in Nat /\ n \in 0 .. l
  BY RingNumbers, HoldsLength
<1>1. /\ B \in Nat \ {0} /\ l \in 0 .. B /\ n \in 0 .. B /\ l \in Nat /\ n \in Nat
      /\ n <= l
      /\ r \in RingRecord /\ s \in Seq(Byte)
      /\ x \in 0 .. (B - 1) /\ y \in 0 .. (B - 1)
      /\ y = (x + l) % B
      /\ r.write_mirror = r.read_mirror <=> x + l < B
      /\ \A i \in 1 .. l : s[i] = r.buffer[(x + i - 1) % B]
      /\ r.read_mirror \in BOOLEAN /\ r.write_mirror \in BOOLEAN
  BY <1>0 DEF Holds, RingRecord
<1>2. PICK w : w = read(r, n)
  OBVIOUS
<1>3. r \in RingRecord /\ n \in 0 .. buffer_size
  BY <1>1
<1>4. /\ w \in RingRecord
      /\ w.write_index = y /\ w.write_mirror = r.write_mirror
      /\ w.buffer = r.buffer
      /\ w.read_index = (x + n) % B
      /\ w.read_mirror = r.read_mirror <=> x + n < B
  BY ONLY <1>2, <1>3, ReadOn
<1>5. w.read_mirror \in BOOLEAN /\ w.write_mirror \in BOOLEAN
  BY <1>4 DEF RingRecord
<1>6. /\ SubSeq(s, n + 1, l) \in Seq(Byte)
      /\ Len(SubSeq(s, n + 1, l)) = l - n
      /\ \A i \in 1 .. (l - n) : SubSeq(s, n + 1, l)[i] = s[n + i]
  BY <1>1
<1> HIDE DEF l, B, x, y
<1>7. \A z \in 0 .. B : n + z <= B => (w.read_index + z) % B = (x + (n + z)) % B
  <2> SUFFICES ASSUME NEW z \in 0 .. B, n + z <= B
               PROVE  (w.read_index + z) % B = (x + (n + z)) % B
    OBVIOUS
  <2>1. B \in Nat \ {0} /\ x \in 0 .. (B - 1) /\ n \in 0 .. B /\ z \in 0 .. B
    BY <1>1
  <2>2. n + z <= B => (((x + n) % B) + z) % B = (x + (n + z)) % B
    BY ONLY <2>1, AroundTwice
  <2> QED BY <1>4, <2>2
<1>8. w.write_index = (w.read_index + (l - n)) % B
  <2>1. l - n \in 0 .. B /\ n + (l - n) = l /\ l <= B
    BY ONLY <1>1
  <2> QED BY ONLY <1>1, <1>4, <1>7, <2>1
<1>9. w.write_mirror = w.read_mirror <=> w.read_index + (l - n) < B
  <2>1. w.read_index = IF x + n < B THEN x + n ELSE x + n - B
    BY ONLY <1>1, <1>4, Around
  <2>2. w.write_mirror = w.read_mirror <=>
          (w.write_mirror = r.read_mirror <=> r.read_mirror = w.read_mirror)
    BY ONLY <1>1, <1>5, Bits
  <2>3. w.read_index + (l - n) < B <=> (x + n < B <=> x + l < B)
    BY ONLY <1>1, <2>1
  <2> QED BY ONLY <1>1, <1>4, <2>2, <2>3
<1>10. ASSUME NEW i \in 1 .. (l - n)
       PROVE  SubSeq(s, n + 1, l)[i] = w.buffer[(w.read_index + i - 1) % B]
  <2>1. PICK p \in 0 .. (B - 1) : p = w.read_index
    BY <1>4 DEF RingRecord, B
  <2>2. /\ i - 1 \in 0 .. B /\ n + (i - 1) <= B /\ n + i \in 1 .. l
        /\ n + (i - 1) = n + i - 1
        /\ x + (n + i - 1) = x + (n + i) - 1
        /\ p + (i - 1) = p + i - 1
    BY ONLY <1>1, <2>1, i \in 1 .. (l - n)
  <2>3. (p + i - 1) % B = (x + (n + i) - 1) % B
    BY ONLY <1>7, <2>1, <2>2
  <2>4. s[n + i] = r.buffer[(x + (n + i) - 1) % B]
    BY ONLY <1>1, <2>2
  <2> QED BY ONLY <1>4, <1>6, <2>1, <2>3, <2>4, i \in 1 .. (l - n)
<1>11. Holds(w, SubSeq(s, n + 1, l))
  <2>1. l - n <= B
    BY ONLY <1>1
  <2> QED BY <1>4, <1>6, <1>8, <1>9, <1>10, <2>1 DEF Holds, B
<1> QED BY <1>2, <1>11 DEF l

\* The bytes of u behind the write index, and the read index moved up to it.
Pushed(r, u) ==
  LET w == written([r EXCEPT !.buffer = copied(r, u)], Len(u))
  IN [w EXCEPT !.read_index = w.write_index,
               !.read_mirror = IF r.write_index + Len(u) >= buffer_size
                               THEN ~@ ELSE @]

\* q is the end of s \o u, as long as the buffer.
Newest(q, s, u) ==
  /\ q \in Seq(Byte) /\ Len(q) = buffer_size
  /\ \A i \in 1 .. buffer_size :
       q[i] = IF Len(s) + Len(u) - buffer_size + i <= Len(s)
              THEN s[Len(s) + Len(u) - buffer_size + i]
              ELSE u[Len(u) - buffer_size + i]

\* More than fits takes the place of the oldest bytes, if the write index has
\* passed the end of the buffer once more than the read index; otherwise the ring
\* is empty.
LEMMA Overwritten ==
  ASSUME NEW r, NEW s, Holds(r, s), NEW u \in Seq(Byte),
         Len(u) <= buffer_size, Len(s) + Len(u) > buffer_size,
         NEW v, v = Pushed(r, u),
         NEW q, Newest(q, s, u)
  PROVE  /\ v \in RingRecord
         /\ \/ status(v) = "EMPTY" /\ r.read_mirror = r.write_mirror
            \/ Holds(v, q)
<1> DEFINE l == Len(s)
           n == Len(u)
           B == buffer_size
           y == r.write_index
           x == r.read_index
           d == Len(s) + Len(u) - buffer_size
<1>0. B \in Nat \ {0} /\ l \in 0 .. B /\ l \in Nat /\ n \in Nat /\ l + n > B /\ n <= B
  BY RingNumbers, HoldsLength
<1>1. /\ B \in Nat \ {0} /\ l \in 0 .. B /\ n \in 0 .. B /\ l \in Nat /\ n \in Nat
      /\ n > 0 /\ l + n > B
      /\ d = l + n - B /\ d \in 0 .. l
      /\ r \in RingRecord /\ s \in Seq(Byte)
      /\ x \in 0 .. (B - 1) /\ y \in 0 .. (B - 1)
      /\ y = (x + l) % B
      /\ \A i \in 1 .. l : s[i] = r.buffer[(x + i - 1) % B]
      /\ r.read_mirror \in BOOLEAN /\ r.write_mirror \in BOOLEAN
      /\ q \in Seq(Byte) /\ Len(q) = B
      /\ \A i \in 1 .. B : q[i] = IF d + i <= l THEN s[d + i] ELSE u[n - B + i]
  BY <1>0 DEF Holds, RingRecord, Newest
<1>2. r \in RingRecord /\ u \in Seq(Byte) /\ Len(u) <= buffer_size
  BY <1>1
<1>w. PICK w : w = written([r EXCEPT !.buffer = copied(r, u)], Len(u))
  OBVIOUS
<1>3. /\ w \in RingRecord
      /\ w.read_mirror = r.read_mirror
      /\ w.write_index = (y + n) % B
      /\ w.write_mirror = r.write_mirror <=> y + n < B
      /\ \A j \in 0 .. (B - 1) :
           w.buffer[(y + j) % B] =
             IF j < n THEN u[j + 1] ELSE r.buffer[(y + j) % B]
  BY ONLY <1>2, <1>w, Written
<1>4. PICK m \in BOOLEAN : m = IF y + n >= B THEN ~r.read_mirror ELSE r.read_mirror
  BY <1>1
<1>5. /\ v = [w EXCEPT !.read_index = w.write_index, !.read_mirror = m]
      /\ w.write_index \in 0 .. (B - 1) /\ w.write_mirror \in BOOLEAN
  BY <1>3, <1>4, <1>w DEF RingRecord, Pushed
<1>6. m = r.read_mirror <=> y + n < B
  <2>1. CASE y + n >= B
    <3>1. m = ~r.read_mirror /\ ~(y + n < B)
      BY <1>1, <1>4, <2>1
    <3>2. m # r.read_mirror
      BY <3>1, <1>1, Zenon
    <3> QED BY <3>1, <3>2
  <2>2. CASE ~(y + n >= B)
    BY <1>1, <1>4, <2>2
  <2> QED BY <2>1, <2>2
<1>7. /\ v \in RingRecord
      /\ v.read_index = w.write_index /\ v.write_index = w.write_index
      /\ v.read_mirror = m /\ v.write_mirror = w.write_mirror
      /\ v.buffer = w.buffer
  BY ONLY <1>3, <1>5, m \in BOOLEAN DEF RingRecord, B
<1>8. CASE r.read_mirror = r.write_mirror
  <2>1. m = w.write_mirror <=> (m = r.read_mirror <=> r.read_mirror = w.write_mirror)
    BY ONLY <1>1, <1>5, m \in BOOLEAN, Bits
  <2>2. status(v) = "EMPTY"
    BY <1>3, <1>6, <1>7, <1>8, <2>1 DEF status
  <2> QED BY <1>7, <1>8, <2>2
<1>9. CASE r.read_mirror # r.write_mirror
  <2>1. w.write_mirror # m
    <3>1. m = w.write_mirror <=> (m = r.read_mirror <=> r.read_mirror = w.write_mirror)
      BY ONLY <1>1, <1>5, m \in BOOLEAN, Bits
    <3>2. r.read_mirror = w.write_mirror <=>
            (r.read_mirror = r.write_mirror <=> r.write_mirror = w.write_mirror)
      BY ONLY <1>1, <1>5, Bits
    <3> QED BY <1>3, <1>6, <1>9, <3>1, <3>2
  <2> HIDE DEF B, x, y, d
  <2> HIDE DEF l, n
  <2>0. /\ B \in Nat /\ l \in Nat /\ n \in Nat /\ d \in Nat /\ B > 0 /\ l <= B /\ n <= B
        /\ n > 0 /\ l + n > B /\ d = l + n - B /\ d <= l
    BY ONLY <1>1
  <2>6. v.write_index = (v.read_index + B) % B
    <3>1. PICK p \in 0 .. (B - 1) : p = w.write_index
      BY <1>5
    <3>2. B \in 0 .. B
      BY <1>1
    <3>3. (p + B) % B = IF p + B < B THEN p + B ELSE p + B - B
      <4>1. B \in Nat \ {0} /\ p \in 0 .. (B - 1)
        BY <1>1
      <4> QED BY ONLY <3>2, <4>1, Around
    <3>4. (p + B) % B = p
      <4>1. B \in Int /\ p \in Int /\ ~(p + B < B) /\ p + B - B = p
        BY <1>1, p \in 0 .. (B - 1)
      <4> HIDE DEF B
      <4> QED BY ONLY <3>3, <4>1
    <3> QED BY ONLY <1>7, <3>1, <3>4
  <2>7. ASSUME NEW i \in 1 .. B
        PROVE  q[i] = v.buffer[(v.read_index + i - 1) % B]
    <3>1. PICK j \in 0 .. (B - 1) : j = IF n + (i - 1) < B THEN n + (i - 1)
                                        ELSE n + (i - 1) - B
      <4>1. (IF n + (i - 1) < B THEN n + (i - 1) ELSE n + (i - 1) - B) \in 0 .. (B - 1)
        BY ONLY <1>1, i \in 1 .. B
      <4> QED BY ONLY <4>1
    <3>2. i - 1 \in 0 .. B /\ j \in 0 .. B
      BY ONLY <1>1, <3>1, i \in 1 .. B
    <3>3. (v.read_index + (i - 1)) % B = (y + j) % B
      <4>1. B \in Nat \ {0} /\ y \in 0 .. (B - 1) /\ n \in 0 .. B /\ i - 1 \in 0 .. B
        BY ONLY <1>1, <3>2
      <4>2. (((y + n) % B) + (i - 1)) % B =
              (y + (IF n + (i - 1) < B THEN n + (i - 1) ELSE n + (i - 1) - B)) % B
        BY ONLY <4>1, AroundTwice
      <4> QED BY ONLY <1>3, <1>7, <3>1, <4>2
    <3>4. v.buffer[(y + j) % B] = IF j < n THEN u[j + 1] ELSE r.buffer[(y + j) % B]
      BY ONLY <1>3, <1>7, <3>1
    <3>5. v.read_index + (i - 1) = v.read_index + i - 1
      BY <1>1, <1>5, <1>7
    <3>6. CASE n + (i - 1) < B
      <4>1. d + i \in 1 .. l /\ d + i \in 1 .. (l + n) /\ ~(j < n)
        BY ONLY <2>0, <3>1, <3>6, i \in 1 .. B
      <4>2. (y + j) % B = (x + (d + i - 1)) % B
        <5>1. (IF l + j < B THEN l + j ELSE l + j - B) = d + i - 1
          BY ONLY <2>0, <3>1, <3>6, i \in 1 .. B
        <5>2. (y + j) % B = (x + (IF l + j < B THEN l + j ELSE l + j - B)) % B
          <6>1. /\ B \in Nat \ {0} /\ x \in 0 .. (B - 1) /\ l \in 0 .. B
                /\ j \in 0 .. B
            BY ONLY <1>1, <3>2
          <6>2. (((x + l) % B) + j) % B =
                  (x + (IF l + j < B THEN l + j ELSE l + j - B)) % B
            BY ONLY <6>1, AroundTwice
          <6> QED BY ONLY <1>1, <6>2
        <5> QED BY ONLY <5>1, <5>2
      <4>3. x + (d + i - 1) = x + (d + i) - 1
        BY ONLY <1>1, i \in 1 .. B
      <4>4. s[d + i] = r.buffer[(x + (d + i) - 1) % B]
        BY ONLY <1>1, <4>1
      <4> QED BY ONLY <1>1, <3>3, <3>4, <3>5, <4>1, <4>2, <4>3, <4>4, i \in 1 .. B
    <3>7. CASE ~(n + (i - 1) < B)
      <4>1. d + i \in 1 .. (l + n) /\ ~(d + i <= l) /\ j < n /\ n - B + i = j + 1
        BY ONLY <2>0, <3>1, <3>7, i \in 1 .. B
      <4>2. q[i] = u[j + 1]
        BY ONLY <1>1, <4>1, i \in 1 .. B
      <4> QED BY ONLY <1>1, <4>2, <3>3, <3>4, <3>5, <4>1, i \in 1 .. B
    <3> QED BY <3>6, <3>7
  <2>8. ~(v.read_index + B < B)
    BY <1>1, <1>5, <1>7
  <2>9. Holds(v, q)
    <3>1. Len(q) <= B /\ q \in Seq(Byte)
      BY ONLY <1>1, <2>0
    <3>2. v.write_mirror = v.read_mirror <=> v.read_index + B < B
      BY <1>7, <2>1, <2>8
    <3> QED BY ONLY <1>1, <1>7, <2>6, <2>7, <3>1, <3>2 DEF Holds, B
  <2> QED BY <1>7, <2>9
<1> QED BY <1>8, <1>9
\* The last bytes of a list, as many as the ring takes.
LEMMA LatestBytes ==
  ASSUME NEW t \in Seq(Byte), NEW n,
         n = IF Len(t) <= buffer_size THEN Len(t) ELSE buffer_size
  PROVE  /\ latest(t) \in Seq(Byte) /\ Len(latest(t)) = n /\ n \in 0 .. buffer_size
         /\ \A i \in 1 .. n : latest(t)[i] = t[Len(t) - n + i]
<1>0. buffer_size \in Nat /\ Len(t) \in Nat
  BY RingNumbers
<1>1. buffer_size \in Nat /\ Len(t) \in Nat /\ n \in 0 .. buffer_size /\ n <= Len(t)
  BY <1>0
<1>2. latest(t) = SubSeq(t, Len(t) - n + 1, Len(t))
  <2>1. Min({Len(t), buffer_size}) = n
    BY <1>1, MinOfTwo
  <2> QED BY <2>1 DEF latest
<1>3. Len(t) - n \in 0 .. Len(t) /\ Len(t) - (Len(t) - n) = n
  BY ONLY <1>1
<1>4. PICK d \in 0 .. Len(t) : d = Len(t) - n
  BY <1>3
<1>5. /\ SubSeq(t, d + 1, Len(t)) \in Seq(Byte)
      /\ Len(SubSeq(t, d + 1, Len(t))) = Len(t) - d
      /\ \A i \in 1 .. (Len(t) - d) : SubSeq(t, d + 1, Len(t))[i] = t[d + i]
  <2>1. t \in Seq(Byte) /\ d \in 0 .. Len(t)
    BY <1>4
  <2> QED BY ONLY <2>1, ListRest
<1>6. latest(t) = SubSeq(t, d + 1, Len(t)) /\ Len(t) - d = n
  BY ONLY <1>2, <1>3, <1>4
<1> QED BY ONLY <1>1, <1>4, <1>5, <1>6

\* rt_ringbuffer_put: what does not fit is dropped.
LEMMA PutHolds ==
  ASSUME NEW r, NEW s, Holds(r, s), NEW u \in Seq(Byte), NEW n,
         n = Min({Len(u), space_len(r)})
  PROVE  /\ n \in 0 .. Len(u) /\ n \in Nat
         /\ Holds(put(r, u), s \o SubSeq(u, 1, n))
<1>1. /\ buffer_size \in Nat /\ Len(s) \in Nat /\ Len(u) \in Nat
      /\ space_len(r) \in Nat /\ space_len(r) = buffer_size - Len(s)
  BY RingNumbers, HoldsLength
<1>2. n = IF Len(u) <= space_len(r) THEN Len(u) ELSE space_len(r)
  BY <1>1, MinOfTwo
<1>3. n \in 0 .. Len(u) /\ n \in Nat /\ Len(s) + n <= buffer_size
  BY ONLY <1>1, <1>2
<1>4. SubSeq(u, 1, n) \in Seq(Byte) /\ Len(SubSeq(u, 1, n)) = n
  BY <1>3, ListFirst
<1>5. PICK v \in Seq(Byte) : v = SubSeq(u, 1, n)
  BY <1>4
<1>6. Len(v) = n /\ Len(s) + Len(v) <= buffer_size
  BY ONLY <1>3, <1>4, <1>5
<1>7. Holds(written([r EXCEPT !.buffer = copied(r, v)], Len(v)), s \o v)
  BY <1>6, HoldsMore
<1>8. put(r, u) = written([r EXCEPT !.buffer = copied(r, v)], Len(v))
  BY <1>5, <1>6 DEF put
<1> QED BY <1>3, <1>5, <1>7, <1>8

\* rt_ringbuffer_put_force: the latest bytes are kept, or the ring is empty
\* although more was written than there was room for.
LEMMA ForceHolds ==
  ASSUME NEW r, NEW s, Holds(r, s), NEW u \in Seq(Byte)
  PROVE  /\ put_force(r, u) \in RingRecord
         /\ \/ /\ Len(u) > space_len(r) /\ status(put_force(r, u)) = "EMPTY"
               /\ r.read_mirror = r.write_mirror
            \/ Holds(put_force(r, u), latest(s \o u))
<1>l. PICK l : l = Len(s)
  OBVIOUS
<1>B. PICK B : B = buffer_size
  OBVIOUS
<1>e. PICK e : e = Len(u)
  OBVIOUS
<1>1. PICK f : f = Min({Len(u), buffer_size})
  OBVIOUS
<1>2. /\ B \in Nat /\ B > 0 /\ l \in Nat /\ l <= B /\ e \in Nat
      /\ space_len(r) = B - l /\ space_len(r) \in Nat
      /\ f = (IF e <= B THEN e ELSE B) /\ f \in Nat /\ f <= B /\ f <= e
  <2>1. /\ B \in Nat /\ B > 0 /\ l \in Nat /\ l <= B /\ e \in Nat
        /\ space_len(r) = B - l /\ space_len(r) \in Nat
    BY <1>l, <1>B, <1>e, RingNumbers, HoldsLength
  <2>2. f = IF e <= B THEN e ELSE B
    BY <1>1, <1>B, <1>e, <2>1, MinOfTwo
  <2> QED BY <2>1, <2>2
<1>3. PICK v \in Seq(Byte) :
        /\ v = SubSeq(u, Len(u) - f + 1, Len(u)) /\ Len(v) = f
        /\ \A i \in 1 .. f : v[i] = u[e - f + i]
  <2>1. PICK d \in 0 .. Len(u) : d = Len(u) - f /\ Len(u) - d = f
    <3>1. Len(u) - f \in 0 .. Len(u) /\ Len(u) - (Len(u) - f) = f
      BY ONLY <1>2, <1>e
    <3> QED BY <3>1
  <2>2. /\ SubSeq(u, d + 1, Len(u)) \in Seq(Byte)
        /\ Len(SubSeq(u, d + 1, Len(u))) = Len(u) - d
        /\ \A i \in 1 .. (Len(u) - d) : SubSeq(u, d + 1, Len(u))[i] = u[d + i]
    BY ListRest
  <2> QED BY ONLY <1>e, <2>1, <2>2
<1>4. PICK t \in Seq(Byte) :
        /\ t = s \o u /\ Len(t) = l + e
        /\ \A i \in 1 .. (l + e) : t[i] = IF i <= l THEN s[i] ELSE u[i - l]
  <2>1. s \in Seq(Byte) /\ u \in Seq(Byte)
    BY DEF Holds
  <2>2. /\ s \o u \in Seq(Byte) /\ Len(s \o u) = Len(s) + Len(u)
        /\ \A i \in 1 .. (Len(s) + Len(u)) :
             (s \o u)[i] = IF i <= Len(s) THEN s[i] ELSE u[i - Len(s)]
    BY ONLY <2>1, ListJoin
  <2> QED BY ONLY <1>l, <1>e, <2>2
<1>t. Len(t) = l + e
  BY <1>4
<1>5. PICK n : n = IF Len(t) <= buffer_size THEN Len(t) ELSE buffer_size
  OBVIOUS
<1>6. /\ latest(t) \in Seq(Byte) /\ Len(latest(t)) = n /\ n \in 0 .. buffer_size
      /\ \A i \in 1 .. n : latest(t)[i] = t[Len(t) - n + i]
  BY <1>5, LatestBytes
<1>7. PICK q \in Seq(Byte) : q = latest(t)
  BY <1>6
<1>8. PICK w : w = written([r EXCEPT !.buffer = copied(r, v)], Len(v))
  OBVIOUS
<1>9. CASE ~(f > space_len(r))
  <2>1. put_force(r, u) = w
    BY <1>1, <1>3, <1>8, <1>9 DEF put_force
  <2>2. Holds(w, s \o v)
    <3>1. Len(s) + Len(v) <= buffer_size
      BY <1>2, <1>3, <1>9, <1>l, <1>B
    <3> QED BY <1>8, <3>1, HoldsMore
  <2>3. q = s \o v
    <3>1. PICK z \in Seq(Byte) :
            /\ z = s \o v /\ Len(z) = l + f
            /\ \A i \in 1 .. (l + f) : z[i] = IF i <= l THEN s[i] ELSE v[i - l]
      <4>1. /\ s \o v \in Seq(Byte) /\ Len(s \o v) = l + f
            /\ \A i \in 1 .. (l + f) :
                 (s \o v)[i] = IF i <= l THEN s[i] ELSE v[i - l]
        <5>1. s \in Seq(Byte) /\ v \in Seq(Byte)
          BY DEF Holds
        <5>2. /\ s \o v \in Seq(Byte) /\ Len(s \o v) = Len(s) + Len(v)
              /\ \A i \in 1 .. (Len(s) + Len(v)) :
                   (s \o v)[i] = IF i <= Len(s) THEN s[i] ELSE v[i - Len(s)]
          BY ONLY <5>1, ListJoin
        <5> QED BY ONLY <1>3, <1>l, <5>2
      <4> QED BY ONLY <4>1
    <3>2. n = l + f /\ (e = f \/ l = 0)
      BY ONLY <1>2, <1>4, <1>5, <1>9, <1>B
    <3>3. Len(q) = l + f
      BY <1>6, <1>7, <3>2
    <3>4. ASSUME NEW i \in 1 .. (l + f)
          PROVE  q[i] = z[i]
      <4>1. PICK j : j = l + e - n + i
        OBVIOUS
      <4>2. i \in 1 .. n /\ j = Len(t) - n + i /\ j \in 1 .. (l + e)
        BY ONLY <1>2, <1>t, <3>2, <4>1, i \in 1 .. (l + f)
      <4>3. q[i] = t[j]
        BY ONLY <1>6, <1>7, <4>2
      <4>4. t[j] = IF j <= l THEN s[j] ELSE u[j - l]
        BY ONLY <1>4, <4>2
      <4>5. CASE e = f
        <5>1. j = i
          BY ONLY <1>2, <3>2, <4>1, <4>5, i \in 1 .. (l + f)
        <5>2. PICK x : x = i - l
          OBVIOUS
        <5>3. ~(i <= l) => x \in 1 .. f /\ e - f + x = x
          BY ONLY <1>2, <4>5, <5>2, i \in 1 .. (l + f)
        <5>4. ~(i <= l) => v[x] = u[x]
          BY ONLY <1>3, <5>3
        <5> QED BY ONLY <3>1, <4>3, <4>4, <5>1, <5>2, <5>4, i \in 1 .. (l + f)
      <4>6. CASE l = 0
        <5>1. ~(j <= l) /\ j - l = e - f + i /\ i - l = i /\ i \in 1 .. f /\ ~(i <= l)
          BY ONLY <1>2, <3>2, <4>1, <4>2, <4>6, i \in 1 .. (l + f)
        <5>2. v[i] = u[e - f + i]
          BY ONLY <1>3, <5>1
        <5> QED BY ONLY <3>1, <4>3, <4>4, <5>1, <5>2, i \in 1 .. (l + f)
      <4> QED BY <3>2, <4>5, <4>6
    <3> QED BY <3>1, <3>3, <3>4, SeqEqual
  <2>4. w \in RingRecord
    BY <2>2 DEF Holds
  <2> QED BY <1>4, <1>7, <2>1, <2>2, <2>3, <2>4
<1>10. CASE f > space_len(r)
  <2>1. PICK x : x = Pushed(r, v)
    OBVIOUS
  <2>2. put_force(r, u) = x
    BY <1>1, <1>3, <1>10, <2>1 DEF put_force, Pushed
  <2>3. Len(v) <= buffer_size /\ Len(s) + Len(v) > buffer_size
    <3>1. Len(v) = f /\ Len(s) = l /\ buffer_size = B
      BY ONLY <1>3, <1>l, <1>B
    <3>2. f <= B /\ l + f > B
      BY ONLY <1>2, <1>10
    <3> QED BY ONLY <3>1, <3>2
  <2>4. n = B /\ Len(q) = buffer_size
    BY <1>2, <1>4, <1>5, <1>6, <1>7, <1>10, <1>B
  <2>5. ASSUME NEW i \in 1 .. buffer_size
        PROVE  q[i] = IF Len(s) + Len(v) - buffer_size + i <= Len(s)
                      THEN s[Len(s) + Len(v) - buffer_size + i]
                      ELSE v[Len(v) - buffer_size + i]
    <3>1. PICK j : j = l + e - B + i
      OBVIOUS
    <3>2. i \in 1 .. B /\ i \in 1 .. n /\ j \in 1 .. (l + e) /\ j = Len(t) - n + i
      BY ONLY <1>2, <1>t, <1>B, <1>10, <2>4, <3>1, i \in 1 .. buffer_size
    <3>3. q[i] = t[j]
      BY ONLY <1>6, <1>7, <3>2
    <3>4. t[j] = IF j <= l THEN s[j] ELSE u[j - l]
      BY ONLY <1>4, <3>2
    <3>5. PICK p, y : p = l + f - B + i /\ y = f - B + i
      OBVIOUS
    <3>6. q[i] = IF p <= l THEN s[p] ELSE v[y]
      <4>1. ~(p <= l) => y \in 1 .. f /\ e - f + y = j - l
        BY ONLY <1>2, <3>1, <3>2, <3>5
      <4>2. ~(p <= l) => v[y] = u[j - l]
        BY ONLY <1>3, <4>1
      <4>3. p <= l => j = p
        BY ONLY <1>2, <3>1, <3>2, <3>5
      <4>4. ~(p <= l) => ~(j <= l)
        BY ONLY <1>2, <3>1, <3>2, <3>5
      <4> QED BY ONLY <3>3, <3>4, <4>2, <4>3, <4>4
    <3> QED BY ONLY <1>3, <1>l, <1>B, <3>5, <3>6
  <2>6. /\ x \in RingRecord
        /\ \/ status(x) = "EMPTY" /\ r.read_mirror = r.write_mirror
           \/ Holds(x, q)
    <3>1. /\ Holds(r, s) /\ v \in Seq(Byte)
          /\ Len(v) <= buffer_size /\ Len(s) + Len(v) > buffer_size
      BY <2>3
    <3>2. Newest(q, s, v)
      BY <2>4, <2>5 DEF Newest
    <3> QED BY ONLY <2>1, <3>1, <3>2, Overwritten
  <2>7. Len(u) > space_len(r)
    BY <1>2, <1>10, <1>e
  <2> QED BY <1>4, <1>7, <2>2, <2>6, <2>7
<1> QED BY <1>9, <1>10
\* rt_ringbuffer_putchar_force does what rt_ringbuffer_put_force does with one byte.
LEMMA PutcharIsPut ==
  ASSUME NEW r, NEW s, Holds(r, s), NEW ch \in Byte
  PROVE  putchar_force(r, ch) = put_force(r, <<ch>>)
<1>1. /\ buffer_size \in Nat \ {0} /\ r \in RingRecord
      /\ r.buffer \in [0 .. (buffer_size - 1) -> Byte]
      /\ r.write_index \in 0 .. (buffer_size - 1)
      /\ Len(s) \in Nat /\ space_len(r) = buffer_size - Len(s)
      /\ Len(s) <= buffer_size
      /\ status(r) = "FULL" <=> Len(s) = buffer_size
  BY RingNumbers, HoldsLength DEF Holds, RingRecord
<1>2. PICK u \in Seq(Byte) : u = <<ch>> /\ Len(u) = 1 /\ u[1] = ch
  <2>1. <<ch>> \in Seq(Byte)
    OBVIOUS
  <2>2. Len(<<ch>>) = 1 /\ <<ch>>[1] = ch
    OBVIOUS
  <2> QED BY ONLY <2>1, <2>2
<1>3. Min({Len(u), buffer_size}) = 1
  BY <1>1, <1>2, MinOfTwo
<1>4. SubSeq(u, Len(u) - 1 + 1, Len(u)) = u
  <2>1. PICK d \in 0 .. Len(u) : d = 0 /\ Len(u) - d = Len(u)
    BY <1>2
  <2>2. /\ SubSeq(u, d + 1, Len(u)) \in Seq(Byte)
        /\ Len(SubSeq(u, d + 1, Len(u))) = Len(u) - d
        /\ \A i \in 1 .. (Len(u) - d) : SubSeq(u, d + 1, Len(u))[i] = u[d + i]
    BY ListRest
  <2>3. PICK v \in Seq(Byte) : v = SubSeq(u, d + 1, Len(u))
    BY <2>2
  <2>4. Len(v) = Len(u) /\ \A i \in 1 .. Len(v) : v[i] = u[i]
    BY <1>2, <2>1, <2>2, <2>3
  <2>5. v = u
    BY <2>4, SeqEqual
  <2>6. d + 1 = Len(u) - 1 + 1
    BY <1>2, <2>1
  <2> QED BY <2>3, <2>5, <2>6
<1>5. copied(r, u) = [r.buffer EXCEPT ![r.write_index] = ch]
  <2>1. ASSUME NEW i \in 0 .. (buffer_size - 1)
        PROVE  copied(r, u)[i] = IF i = r.write_index THEN ch ELSE r.buffer[i]
    <3>1. r.write_index \in 0 .. buffer_size
      BY <1>1
    <3>2. (i - r.write_index) % buffer_size =
            IF i >= r.write_index THEN i - r.write_index
            ELSE i - r.write_index + buffer_size
      BY ONLY <1>1, <3>1, i \in 0 .. (buffer_size - 1), Around
    <3>3. PICK j \in Int : j = (i - r.write_index) % buffer_size
      BY <1>1, <3>2
    <3>4. (j < 1 <=> i = r.write_index) /\ (j < 1 => j = 0)
      <4>1. r.write_index \in Int /\ i \in Int /\ i <= buffer_size - 1
        BY <1>1
      <4>2. /\ r.write_index <= buffer_size - 1 /\ i >= 0
            /\ buffer_size \in Nat
        BY <1>1
      <4>3. j = IF i >= r.write_index THEN i - r.write_index
                ELSE i - r.write_index + buffer_size
        BY ONLY <3>2, <3>3
      <4> QED BY ONLY <4>1, <4>2, <4>3
    <3>5. copied(r, u)[i] = IF j < Len(u) THEN u[j + 1] ELSE r.buffer[i]
      BY <3>3 DEF copied
    <3> QED BY <1>2, <3>4, <3>5
  <2>2. copied(r, u) = [i \in 0 .. (buffer_size - 1) |-> copied(r, u)[i]]
    BY DEF copied
  <2> QED BY <1>1, <2>1, <2>2
<1>6. (1 > space_len(r)) <=> status(r) = "FULL"
  BY <1>1
<1>7. PICK w : w = written([r EXCEPT !.buffer[r.write_index] = ch], 1)
  OBVIOUS
<1>8. [r EXCEPT !.buffer[r.write_index] = ch] = [r EXCEPT !.buffer = copied(r, u)]
  BY <1>1, <1>5 DEF RingRecord
<1>9. w.write_index = (r.write_index + 1) % buffer_size
  BY <1>1, <1>7 DEF written, RingRecord
<1>10. w.write_index = 0 <=> r.write_index + 1 >= buffer_size
  <2>1. 1 \in 0 .. buffer_size
    BY <1>1
  <2>2. (r.write_index + 1) % buffer_size =
          IF r.write_index + 1 < buffer_size THEN r.write_index + 1
          ELSE r.write_index + 1 - buffer_size
    BY ONLY <1>1, <2>1, Around
  <2> QED BY ONLY <1>1, <1>9, <2>2
<1>11. put_force(r, u) =
         IF 1 > space_len(r)
         THEN [w EXCEPT !.read_index = w.write_index,
                        !.read_mirror = IF r.write_index + 1 >= buffer_size
                                        THEN ~@ ELSE @]
         ELSE w
  BY <1>3, <1>4, <1>7, <1>8 DEF put_force
<1>12. putchar_force(r, ch) =
         IF status(r) = "FULL"
         THEN [w EXCEPT !.read_index = w.write_index,
                        !.read_mirror = IF w.write_index = 0 THEN ~@ ELSE @]
         ELSE w
  BY <1>7 DEF putchar_force
<1> QED BY <1>2, <1>6, <1>10, <1>11, <1>12

\* The numbered bytes of a call.
LEMMA Messages ==
  ASSUME number \in Byte, NEW n \in Nat
  PROVE  /\ message(n) \in Seq(Byte) /\ Len(message(n)) = n
         /\ \A i \in 0 .. n : SubSeq(message(n), 1, i) = message(i)
<1>1. number \in Int
  BY RingAssumption DEF Byte
<1>2. \A i \in Nat : message(i) \in Seq(Byte) /\ Len(message(i)) = i
  <2> SUFFICES ASSUME NEW i \in Nat
               PROVE  message(i) \in Seq(Byte) /\ Len(message(i)) = i
    OBVIOUS
  <2>1. \A j \in 1 .. i : (number + j - 1) % ByteMod \in Byte
    BY <1>1, RingNumbers
  <2>2. message(i) \in [1 .. i -> Byte]
    BY <2>1 DEF message
  <2> QED BY <2>2
<1>3. ASSUME NEW i \in 0 .. n
      PROVE  SubSeq(message(n), 1, i) = message(i)
  BY <1>2 DEF message
<1> QED BY <1>2, <1>3

LEMMA InitRing == RingInit => RingIInv
<1> SUFFICES ASSUME RingInit PROVE RingIInv
  OBVIOUS
<1>1. buffer_size \in Nat \ {0} /\ 0 \in Byte /\ 0 \in 0 .. (buffer_size - 1)
  BY RingAssumption DEF Byte
<1>2. empty_ring \in RingRecord
  BY <1>1 DEF empty_ring, RingRecord
<1>3. Holds(empty_ring, << >>)
  <2>1. 0 \in 0 .. buffer_size
    BY <1>1
  <2>2. (0 + 0) % buffer_size = IF 0 + 0 < buffer_size THEN 0 + 0
                                ELSE 0 + 0 - buffer_size
    BY ONLY <1>1, <2>1, Around
  <2> QED BY <1>1, <1>2, <2>2 DEF Holds, empty_ring
<1> QED BY <1>1, <1>2, <1>3 DEF RingInit, RingIInv
\* rt_ringbuffer_put and rt_ringbuffer_get.
LEMMA RingPutGet ==
  ASSUME RingIInv, ~spoilt, NEW n \in Nat, Put(n) \/ Get(n)
  PROVE  RingIInv'
<1>1. Holds(rb, content) /\ number \in Byte /\ content \in Seq(Byte)
  BY DEF RingIInv, Holds
<1>2. CASE Put(n)
  <2>1. PICK f : f = Min({n, space_len(rb)})
    OBVIOUS
  <2>2. /\ message(n) \in Seq(Byte) /\ Len(message(n)) = n
        /\ \A i \in 0 .. n : SubSeq(message(n), 1, i) = message(i)
    BY <1>1, Messages
  <2>3. PICK u \in Seq(Byte) : u = message(n)
    BY <2>2
  <2>4. f = Min({Len(u), space_len(rb)})
    BY <2>1, <2>2, <2>3
  <2>5. /\ f \in 0 .. Len(u) /\ f \in Nat
        /\ Holds(put(rb, u), content \o SubSeq(u, 1, f))
    BY <1>1, <2>4, PutHolds
  <2>6. Holds(put(rb, u), content \o message(f))
    BY <2>2, <2>3, <2>5
  <2>7. /\ rb' = put(rb, u) /\ content' = content \o message(f)
        /\ number' = (number + f) % ByteMod /\ spoilt' = spoilt
    BY <1>2, <2>1, <2>3 DEF Put, Numbered
  <2>8. number' \in Byte
    <3>1. number + f \in Int
      BY <1>1, <2>5 DEF Byte
    <3> QED BY <2>7, <3>1, RingNumbers
  <2>9. Holds(rb', content')
    BY <2>6, <2>7
  <2> QED BY <2>7, <2>8, <2>9 DEF RingIInv, Holds
<1>3. CASE Get(n)
  <2>1. PICK f : f = Len(get(rb, n))
    OBVIOUS
  <2>2. Len(content) \in Nat
    BY <1>1
  <2>3. f = IF n <= Len(content) THEN n ELSE Len(content)
    BY <1>1, <2>1, GetFirst
  <2>4. f \in 0 .. Len(content)
    BY ONLY <2>2, <2>3, n \in Nat
  <2>5. Holds(read(rb, f), SubSeq(content, f + 1, Len(content)))
    BY <1>1, <2>4, HoldsRest
  <2>6. /\ rb' = read(rb, f) /\ content' = SubSeq(content, f + 1, Len(content))
        /\ number' = number /\ spoilt' = spoilt
    BY <1>3, <2>1 DEF Get
  <2>7. Holds(rb', content')
    BY <2>5, <2>6
  <2> QED BY <1>1, <2>6, <2>7 DEF RingIInv, Holds
<1> QED BY <1>2, <1>3

\* The calls that overwrite, and rt_ringbuffer_reset.
LEMMA RingForce ==
  ASSUME RingIInv, ~spoilt, NEW n \in Nat, PutForce(n) \/ PutcharForce \/ Reset
  PROVE  RingIInv'
<1>1. Holds(rb, content) /\ number \in Byte /\ content \in Seq(Byte)
  BY DEF RingIInv, Holds
<1>2. number \in Int /\ \A i \in Nat : (number + i) % ByteMod \in Byte
  <2>1. number \in Int
    BY <1>1, RingNumbers DEF Byte
  <2> QED BY <2>1, RingNumbers
<1>3. CASE PutForce(n)
  <2>1. message(n) \in Seq(Byte) /\ Len(message(n)) = n
    BY <1>1, Messages
  <2>2. PICK u \in Seq(Byte) : u = message(n)
    BY <2>1
  <2>3. /\ put_force(rb, u) \in RingRecord
        /\ \/ /\ Len(u) > space_len(rb) /\ status(put_force(rb, u)) = "EMPTY"
              /\ rb.read_mirror = rb.write_mirror
           \/ Holds(put_force(rb, u), latest(content \o u))
    BY <1>1, ForceHolds
  <2>4. /\ rb' = put_force(rb, u) /\ content' = latest(content \o u)
        /\ number' = (number + n) % ByteMod
        /\ spoilt' = (n > space_len(rb) /\ status(rb') = "EMPTY")
    BY <1>3, <2>2 DEF PutForce, Numbered
  <2>5. rb' \in RingRecord /\ (~spoilt' => Holds(rb', content'))
    BY <2>1, <2>2, <2>3, <2>4
  <2>6. spoilt' \in BOOLEAN
    BY <2>4
  <2> QED BY <1>2, <2>4, <2>5, <2>6 DEF RingIInv
<1>4. CASE PutcharForce
  <2>1. message(1) \in Seq(Byte) /\ Len(message(1)) = 1
    BY <1>1, Messages
  <2>2. PICK ch \in Byte : ch = Head(message(1)) /\ message(1) = <<ch>>
    <3>1. message(1)[1] \in Byte
      BY <2>1
    <3>2. Head(message(1)) = message(1)[1]
      BY <2>1
    <3>3. message(1) = <<message(1)[1]>>
      BY <2>1
    <3> QED BY ONLY <3>1, <3>2, <3>3
  <2>3. PICK u \in Seq(Byte) : u = <<ch>> /\ Len(u) = 1
    BY <2>1, <2>2
  <2>4. putchar_force(rb, ch) = put_force(rb, u)
    BY <1>1, <2>3, PutcharIsPut
  <2>5. /\ put_force(rb, u) \in RingRecord
        /\ \/ /\ Len(u) > space_len(rb) /\ status(put_force(rb, u)) = "EMPTY"
              /\ rb.read_mirror = rb.write_mirror
           \/ Holds(put_force(rb, u), latest(content \o u))
    BY <1>1, ForceHolds
  <2>6. ~(Len(u) > space_len(rb) /\ rb.read_mirror = rb.write_mirror)
    <3>1. /\ buffer_size \in Nat \ {0} /\ Len(content) \in 0 .. buffer_size
          /\ space_len(rb) = buffer_size - Len(content)
      BY <1>1, RingNumbers, HoldsLength
    <3>2. /\ rb.read_index \in 0 .. (buffer_size - 1)
          /\ rb.write_mirror = rb.read_mirror <=>
               rb.read_index + Len(content) < buffer_size
      BY <1>1 DEF Holds, RingRecord
    <3> QED BY <2>3, <3>1, <3>2
  <2>7. /\ rb' = put_force(rb, u) /\ content' = latest(content \o u)
        /\ number' = (number + 1) % ByteMod /\ spoilt' = spoilt
    BY <1>4, <2>2, <2>3, <2>4 DEF PutcharForce, Numbered
  <2>8. rb' \in RingRecord /\ Holds(rb', content')
    BY <2>5, <2>6, <2>7
  <2> QED BY <1>2, <2>7, <2>8 DEF RingIInv
<1>5. CASE Reset
  <2>1. PICK v : v = [empty_ring EXCEPT !.buffer = rb.buffer]
    OBVIOUS
  <2>2. /\ buffer_size \in Nat \ {0} /\ 0 \in 0 .. (buffer_size - 1)
        /\ rb.buffer \in [0 .. (buffer_size - 1) -> Byte] /\ 0 \in 0 .. buffer_size
    BY <1>1, RingNumbers DEF Holds, RingRecord
  <2>3. /\ v \in RingRecord /\ v.read_index = 0 /\ v.write_index = 0
        /\ v.read_mirror = v.write_mirror
    BY <2>1, <2>2 DEF RingRecord, empty_ring
  <2>4. Holds(v, << >>)
    <3>1. (0 + 0) % buffer_size = IF 0 + 0 < buffer_size THEN 0 + 0
                                  ELSE 0 + 0 - buffer_size
      BY ONLY <2>2, Around
    <3> QED BY <2>2, <2>3, <3>1 DEF Holds
  <2>5. rb' = v /\ content' = << >> /\ number' = number /\ spoilt' = spoilt
    BY <1>5, <2>1 DEF Reset
  <2> QED BY <1>1, <2>3, <2>4, <2>5 DEF RingIInv
<1> QED BY <1>3, <1>4, <1>5

LEMMA RingKeeps == RingIInv /\ [RingNext]_ring => RingIInv'
<1> SUFFICES ASSUME RingIInv, [RingNext]_ring
             PROVE  RingIInv'
  OBVIOUS
<1>1. CASE RingNext
  <2>1. ~spoilt /\ 0 \in Nat
    BY <1>1 DEF RingNext
  <2>2. ASSUME NEW n \in 0 .. (buffer_size + 1), Put(n) \/ Get(n)
        PROVE  RingIInv'
    <3>1. n \in Nat
      OBVIOUS
    <3> QED BY <2>1, <2>2, <3>1, RingPutGet
  <2>3. ASSUME NEW n \in 0 .. (buffer_size + 1), PutForce(n)
        PROVE  RingIInv'
    <3>1. n \in Nat
      OBVIOUS
    <3> QED BY <2>1, <2>3, <3>1, RingForce
  <2>4. ASSUME PutcharForce \/ Reset
        PROVE  RingIInv'
    BY <2>1, <2>4, RingForce
  <2> QED BY <1>1, <2>2, <2>3, <2>4 DEF RingNext
<1>2. CASE UNCHANGED ring
  BY <1>2 DEF ring, RingIInv
<1> QED BY <1>1, <1>2

\* The ring buffer holds what was put in and not taken out, in its order, for
\* every size of the buffer: the indices and mirror bits tell empty from full
\* after any number of rounds.
THEOREM RingHoldsContent == RingSpec => []HoldsContent
<1>1. RingIInv => HoldsContent
  <2> SUFFICES ASSUME RingIInv PROVE HoldsContent
    OBVIOUS
  <2>1. rb.buffer \in [0 .. (buffer_size - 1) -> Byte]
    BY DEF RingIInv, RingRecord
  <2>2. ASSUME ~spoilt PROVE get(rb, buffer_size) = content
    <3>1. Holds(rb, content) /\ buffer_size \in Nat
      BY <2>2, RingNumbers DEF RingIInv
    <3>2. get(rb, buffer_size) =
            SubSeq(content, 1, IF buffer_size <= Len(content) THEN buffer_size
                               ELSE Len(content))
      BY ONLY <3>1, GetFirst
    <3>3. content \in Seq(Byte) /\ Len(content) <= buffer_size /\ Len(content) \in Nat
      BY <3>1 DEF Holds
    <3>4. (IF buffer_size <= Len(content) THEN buffer_size ELSE Len(content))
            = Len(content)
      BY ONLY <3>1, <3>3
    <3>5. SubSeq(content, 1, Len(content)) = content
      BY ONLY <3>3
    <3> QED BY ONLY <3>2, <3>4, <3>5
  <2> QED BY <2>1, <2>2 DEF HoldsContent
<1> QED BY <1>1, InitRing, RingKeeps, PTL DEF RingSpec
=============================================================================
