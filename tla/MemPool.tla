------------------------------- MODULE MemPool -------------------------------
(***************************************************************************)
(* The pool of fixed-size blocks of mempool.c.  A thread that finds no     *)
(* block waits, with or without a timeout; a free wakes one waiter, which  *)
(* tries again and may find that somebody else took the block.  Interrupt  *)
(* handlers allocate without waiting, and free.                            *)
(*                                                                         *)
(* pc[t] is where thread t is: "run" in its own code; in rt_mp_alloc       *)
(* "wait" before its rt_schedule(), "woken" after it and "retry" at the    *)
(* head of the loop; in rt_mp_free "sched" before its rt_schedule(); in    *)
(* rt_mp_detach "detach_test" and "detach_body".                           *)
(***************************************************************************)
EXTENDS Kernel

CONSTANTS
  Pool,       \* the pool: the name of its wait list
  Block,      \* its blocks
  InitPrio,   \* init_priority of every thread
  Isr,        \* the interrupt handlers, as a holder of blocks
  MaxCount    \* bound: suspend_thread_count, which timeouts never lower

ASSUME MemPoolAssumption ==
  /\ Queue = {Pool}
  /\ InitPrio \in [Thread -> Prio]
  /\ \A t \in Thread \ {Idle} : InitPrio[t] < InitPrio[Idle]
  /\ IsFiniteSet(Block)
  /\ Isr \notin Thread
  /\ MaxCount \in Nat

VARIABLES
  k,
  block_list,             \* the free blocks, first to be taken first
  block_free_count,
  suspend_thread_count,
  pc,
  time,                   \* the time argument of rt_mp_alloc, by its kind;
                          \* "zero" outside rt_mp_alloc
  held,                   \* history: the blocks each holder has
  alive,                  \* nobody has begun to detach the pool
  doomed,                 \* history: who waited when the detach began
  wild                    \* the head of an empty list was used as a thread

pool == <<block_list, block_free_count, suspend_thread_count>>
vars == <<k, pool, pc, time, held, alive, doomed, wild>>

PC == {"run", "wait", "woken", "retry", "sched", "detach_test", "detach_body"}
Holder == Thread \cup {Isr}

TypeOK ==
  /\ k \in KernelState
  /\ block_list \in Seq(Block)
  /\ block_free_count \in 0 .. Cardinality(Block)
  /\ suspend_thread_count \in Nat
  /\ pc \in [Thread -> PC]
  /\ time \in [Thread -> {"zero", "some", "forever"}]
  /\ held \in [Holder -> SUBSET Block]
  /\ alive \in BOOLEAN /\ doomed \subseteq Thread /\ wild \in BOOLEAN

waiters == ToSet(k.wait[Pool])

-----------------------------------------------------------------------------
Init ==
  /\ k = scheduler_started(InitPrio)
  /\ block_list = SetToSeq(Block)
  /\ block_free_count = Cardinality(Block)
  /\ suspend_thread_count = 0
  /\ pc = [t \in Thread |-> "run"]
  /\ time = [t \in Thread |-> "zero"]
  /\ held = [h \in Holder |-> {}]
  /\ alive = TRUE /\ doomed = {} /\ wild = FALSE

Startup(t, new) ==
  /\ k.cur = t /\ pc[t] = "run"
  /\ k.stat[new] = "init"
  /\ k' = rt_thread_startup(k, new, InitPrio[new])
  /\ pc' = [pc EXCEPT ![t] = "sched"]
  /\ UNCHANGED <<pool, time, held, alive, doomed, wild>>

\* Take the first free block.
take_block(h) ==
  /\ block_free_count > 0
  /\ block_free_count' = block_free_count - 1
  /\ held' = [held EXCEPT ![h] = @ \cup {Head(block_list)}]
  /\ block_list' = Tail(block_list)
  /\ UNCHANGED suspend_thread_count

\* Where rt_mp_alloc tests block_free_count: on entry and after each wake-up.
InLoop(t) ==
  k.cur = t /\ t # Idle /\ (pc[t] = "retry" \/ (pc[t] = "run" /\ alive))

AllocTake(t) ==
  /\ InLoop(t)
  /\ take_block(t)
  /\ pc' = [pc EXCEPT ![t] = "run"]
  /\ time' = [time EXCEPT ![t] = "zero"]
  /\ UNCHANGED <<k, alive, doomed, wild>>

\* No block and no time left: RT_NULL.
AllocFail(t) ==
  /\ k.cur = t /\ pc[t] = "retry" /\ time[t] = "zero"
  /\ block_free_count = 0
  /\ pc' = [pc EXCEPT ![t] = "run"]
  /\ UNCHANGED <<k, pool, time, held, alive, doomed, wild>>

\* Mutant: the thread that waits is not counted.
BlockUncounted(t, limit) ==
  /\ InLoop(t) /\ block_free_count = 0
  /\ pc[t] = "retry" => limit = time[t]
  /\ limit # "zero" /\ suspend_thread_count < MaxCount
  /\ LET k1 == rt_thread_suspend([k EXCEPT !.err[t] = "eok"], t)
         k2 == [k1 EXCEPT !.wait[Pool] = <<t>> \o @]
     IN k' = IF limit = "some" THEN rt_timer_start(k2, t) ELSE k2
  /\ time' = [time EXCEPT ![t] = limit]
  /\ pc' = [pc EXCEPT ![t] = "wait"]
  /\ UNCHANGED <<pool, held, alive, doomed, wild>>

\* No block: wait in front of those that wait already.
AllocBlock(t, limit) ==
  /\ InLoop(t) /\ block_free_count = 0
  /\ pc[t] = "retry" => limit = time[t]
  /\ limit # "zero" /\ suspend_thread_count < MaxCount
  /\ LET k1 == rt_thread_suspend([k EXCEPT !.err[t] = "eok"], t)
         k2 == [k1 EXCEPT !.wait[Pool] = <<t>> \o @]
     IN k' = IF limit = "some" THEN rt_timer_start(k2, t) ELSE k2
  /\ suspend_thread_count' = suspend_thread_count + 1
  /\ time' = [time EXCEPT ![t] = limit]
  /\ pc' = [pc EXCEPT ![t] = "wait"]
  /\ UNCHANGED <<block_list, block_free_count, held, alive, doomed, wild>>

AllocSchedule(t) ==
  /\ k.cur = t /\ pc[t] = "wait"
  /\ k' = rt_schedule(k)
  /\ pc' = [pc EXCEPT ![t] = "woken"]
  /\ UNCHANGED <<pool, time, held, alive, doomed, wild>>

\* The thread runs again: it gives up on an error, or computes what is left of
\* its time and tries again.
AllocWoken(t, left) ==
  /\ k.cur = t /\ pc[t] = "woken"
  /\ IF k.err[t] # "eok"
     THEN /\ pc' = [pc EXCEPT ![t] = "run"]
          /\ time' = [time EXCEPT ![t] = "zero"]
     ELSE /\ pc' = [pc EXCEPT ![t] = "retry"]
          /\ left \in IF time[t] = "some" THEN {"some", "zero"} ELSE {time[t]}
          /\ time' = [time EXCEPT ![t] = left]
  /\ UNCHANGED <<k, pool, held, alive, doomed, wild>>

\* Mutant: the block is linked and the counter is left alone.
FreeUncounted(h, b, resumed) ==
  /\ block_list' = <<b>> \o block_list
  /\ held' = [held EXCEPT ![h] = @ \ {b}]
  /\ UNCHANGED <<block_free_count, suspend_thread_count, k, wild>>

\* The critical section of rt_mp_free: the block goes to the head of the free
\* list and, by the count, one waiter is resumed.  resumed is the kernel state
\* once the first waiter is resumed.
rt_mp_free(h, b, resumed) ==
  /\ block_free_count' = block_free_count + 1
  /\ block_list' = <<b>> \o block_list
  /\ held' = [held EXCEPT ![h] = @ \ {b}]
  /\ IF suspend_thread_count = 0
     THEN UNCHANGED <<suspend_thread_count, k, wild>>
     ELSE /\ suspend_thread_count' = suspend_thread_count - 1
          /\ k' = IF waiters # {} THEN resumed ELSE k
          /\ wild' = (waiters = {})

\* The first waiter with its error reset, resumed.
resume_first ==
  rt_thread_resume([k EXCEPT !.err[Head(k.wait[Pool])] = "eok"],
                   Head(k.wait[Pool]))

Free(t, b) ==
  /\ k.cur = t /\ pc[t] = "run" /\ alive
  /\ b \in held[t]
  /\ rt_mp_free(t, b, resume_first)
  /\ pc' = [pc EXCEPT ![t] = IF suspend_thread_count > 0 THEN "sched" ELSE "run"]
  /\ UNCHANGED <<time, alive, doomed>>

Schedule(t) ==
  /\ k.cur = t /\ pc[t] = "sched"
  /\ k' = rt_schedule(k)
  /\ pc' = [pc EXCEPT ![t] = "run"]
  /\ UNCHANGED <<pool, time, held, alive, doomed, wild>>

\* An interrupt handler allocates with time = 0, or frees what it has.
IsrAlloc ==
  /\ alive
  /\ take_block(Isr)
  /\ UNCHANGED <<k, pc, time, alive, doomed, wild>>

IsrFree(b) ==
  /\ alive
  /\ b \in held[Isr]
  /\ rt_mp_free(Isr, b, rt_schedule(resume_first))
  /\ UNCHANGED <<pc, time, alive, doomed>>

-----------------------------------------------------------------------------
\* rt_mp_detach: no thread or handler uses the pool any more.
DetachCall(t) ==
  /\ k.cur = t /\ pc[t] = "run" /\ t # Idle
  /\ alive
  /\ alive' = FALSE /\ doomed' = waiters
  /\ pc' = [pc EXCEPT ![t] = "detach_test"]
  /\ UNCHANGED <<k, pool, time, held, wild>>

\* while (!rt_list_isempty(...)), with interrupts enabled.
DetachTest(t) ==
  /\ k.cur = t /\ pc[t] = "detach_test"
  /\ pc' = [pc EXCEPT ![t] = IF waiters = {} THEN "run" ELSE "detach_body"]
  /\ UNCHANGED <<k, pool, time, held, alive, doomed, wild>>

\* Mutant: the waiter is resumed without an error, so that it tries again.
DetachWithoutError(t) ==
  /\ k.cur = t /\ pc[t] = "detach_body" /\ waiters # {}
  /\ k' = resume_first
  /\ suspend_thread_count' = suspend_thread_count - 1
  /\ pc' = [pc EXCEPT ![t] = "detach_test"]
  /\ UNCHANGED <<block_list, block_free_count, time, held, alive, doomed, wild>>

DetachBody(t) ==
  /\ k.cur = t /\ pc[t] = "detach_body"
  /\ IF waiters # {}
     THEN /\ k' = rt_ipc_list_resume_all_turn(k, Pool)
          /\ suspend_thread_count' = suspend_thread_count - 1
          /\ pc' = [pc EXCEPT ![t] = "detach_test"]
          /\ UNCHANGED wild
     ELSE wild' = TRUE /\ UNCHANGED <<k, suspend_thread_count, pc>>
  /\ UNCHANGED <<block_list, block_free_count, time, held, alive, doomed>>

TimerExpire(t) ==
  /\ t \in k.timer
  /\ k' = rt_thread_timeout(k, t)
  /\ UNCHANGED <<pool, pc, time, held, alive, doomed, wild>>

TickYield ==
  /\ k' = rt_schedule(k)
  /\ UNCHANGED <<pool, pc, time, held, alive, doomed, wild>>

ThreadStep(t) ==
  \/ \E new \in Thread : Startup(t, new)
  \/ AllocTake(t)
  \/ AllocFail(t)
  \/ \E limit \in {"some", "forever"} : AllocBlock(t, limit)
  \/ AllocSchedule(t)
  \/ \E left \in {"zero", "some", "forever"} : AllocWoken(t, left)
  \/ \E b \in Block : Free(t, b)
  \/ Schedule(t)
  \/ DetachCall(t)
  \/ DetachTest(t)
  \/ DetachBody(t)

Steps ==
  \/ \E t \in Thread : ThreadStep(t) \/ TimerExpire(t)
  \/ TickYield
  \/ IsrAlloc
  \/ \E b \in Block : IsrFree(b)

\* Nothing is said of what the program does once it has gone wild.
Next == ~wild /\ Steps

Spec == Init /\ [][Next]_vars

-----------------------------------------------------------------------------
\* Every block is free or has exactly one holder, and the counter is the length
\* of the free list: the assertion block_ptr != RT_NULL cannot fail.  The lists
\* of the kernel stay consistent although rt_mp_alloc and rt_mp_free link and
\* resume threads themselves, without the functions of ipc.c.
BlockConservation ==
  /\ TypeOK /\ KInv(k)
  /\ block_free_count = Len(block_list)
  /\ IsInjective(block_list)
  /\ \A b \in Block :
       Cardinality({h \in Holder : b \in held[h]})
         = IF b \in ToSet(block_list) THEN 0 ELSE 1

\* A thread that was woken by a free and will look for a block again.
TriesAgain(t) ==
  \/ pc[t] = "retry"
  \/ pc[t] \in {"wait", "woken"} /\ t \notin waiters /\ k.err[t] = "eok"

\* While threads wait, at least as many others are on their way to the free
\* blocks as there are free blocks: no wake-up is lost, whoever takes a block
\* first and whoever times out.
NoLostWakeup ==
  alive /\ ~wild /\ waiters # {} =>
    block_free_count <= Cardinality({t \in Thread : TriesAgain(t)})

\* Nobody who waited when rt_mp_detach was called is still suspended when it has
\* returned.  (A thread a free had woken just before may come back to the list.)
NobodyLeftBehind ==
  ~alive /\ (\A t \in Thread : pc[t] \notin {"detach_test", "detach_body"}) =>
     \A t \in doomed : k.stat[t] # "suspend"
=============================================================================
