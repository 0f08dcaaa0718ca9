-------------------------------- MODULE Event --------------------------------
(***************************************************************************)
(* The event object of ipc.c: a set of flags.  A thread waits for all or   *)
(* for some of the flags it asks for, and may take those it gets away from *)
(* the others (RT_EVENT_FLAG_CLEAR).  A send adds flags and then walks the *)
(* whole wait list: each waiter it wakes may change what is left for the   *)
(* next ones.                                                              *)
(*                                                                         *)
(* pc[t] is where thread t is: "run" in its own code; in rt_event_recv     *)
(* "wait" before its rt_schedule() and "woken" after it; "sched" before    *)
(* the rt_schedule() at the end of another call; "detach_test" and         *)
(* "detach_body" in rt_event_detach.                                       *)
(***************************************************************************)
EXTENDS Kernel

CONSTANTS
  Event,      \* the event: the name of its wait list
  EventFlag,  \* RT_IPC_FLAG_FIFO or RT_IPC_FLAG_PRIO
  Bit,        \* the flags
  Request,    \* what threads ask for
  InitPrio    \* init_priority of every thread

Option == [op : {"and", "or"}, clear : BOOLEAN]
NoOption == [op |-> "or", clear |-> FALSE]

ASSUME EventAssumption ==
  /\ Queue = {Event} /\ EventFlag \in Flag
  /\ InitPrio \in [Thread -> Prio]
  /\ \A t \in Thread \ {Idle} : InitPrio[t] < InitPrio[Idle]
  /\ IsFiniteSet(Bit)
  /\ Request \subseteq [set : SUBSET Bit \ {{}}, option : Option]
  /\ Request # {}

VARIABLES
  k,
  set,          \* event->set
  event_set,    \* thread->event_set
  event_info,   \* thread->event_info
  pc,
  asked,        \* history: the set argument of the rt_event_recv in progress
  outstanding,  \* history: for each flag, how often it was raised and has
                \* been neither taken by a returned receiver nor reset
  alive,        \* rt_event_detach has not been called
  wild          \* the head of the wait list was taken for a thread

vars == <<k, set, event_set, event_info, pc, asked, outstanding, alive, wild>>
object == <<alive, wild>>

PC == {"run", "wait", "woken", "sched", "detach_test", "detach_body"}

TypeOK ==
  /\ k \in KernelState
  /\ set \subseteq Bit
  /\ event_set \in [Thread -> SUBSET Bit]
  /\ event_info \in [Thread -> Option]
  /\ pc \in [Thread -> PC]
  /\ asked \in [Thread -> SUBSET Bit]
  /\ outstanding \in [Bit -> 0 .. 1 + Cardinality(Thread)]
  /\ alive \in BOOLEAN /\ wild \in BOOLEAN

waiters == ToSet(k.wait[Event])

\* The flags wanted are there, as the option says.
satisfied(present, wanted, option) ==
  IF option.op = "and" THEN wanted \subseteq present
  ELSE wanted \cap present # {}

-----------------------------------------------------------------------------
Init ==
  /\ k = scheduler_started(InitPrio)
  /\ set = {}
  /\ event_set = [t \in Thread |-> {}]
  /\ event_info = [t \in Thread |-> NoOption]
  /\ pc = [t \in Thread |-> "run"]
  /\ asked = [t \in Thread |-> {}]
  /\ outstanding = [b \in Bit |-> 0]
  /\ alive = TRUE /\ wild = FALSE

\* Thread t calls a function of the event.
Calls(t) == k.cur = t /\ pc[t] = "run" /\ t # Idle /\ alive

Startup(t, new) ==
  /\ k.cur = t /\ pc[t] = "run"
  /\ k.stat[new] = "init"
  /\ k' = rt_thread_startup(k, new, InitPrio[new])
  /\ pc' = [pc EXCEPT ![t] = "sched"]
  /\ UNCHANGED <<set, event_set, event_info, asked, outstanding, object>>

\* The flags taken leave the history.
taken(flags) ==
  outstanding' = [b \in Bit |-> outstanding[b] - (IF b \in flags THEN 1 ELSE 0)]

\* The flags are there: they are received, and cleared on request.
RecvNow(t, r) ==
  /\ Calls(t)
  /\ satisfied(set, r.set, r.option)
  /\ k' = [k EXCEPT !.err[t] = "eok"]
  /\ IF r.option.clear
     THEN set' = set \ r.set /\ taken(set \cap r.set)
     ELSE UNCHANGED <<set, outstanding>>
  /\ UNCHANGED <<event_set, event_info, pc, asked, object>>

\* They are not, and timeout = 0.
RecvFail(t, r) ==
  /\ Calls(t)
  /\ ~satisfied(set, r.set, r.option)
  /\ k' = [k EXCEPT !.err[t] = "etimeout"]
  /\ UNCHANGED <<set, event_set, event_info, pc, asked, outstanding, object>>

RecvBlock(t, r, timed) ==
  /\ Calls(t)
  /\ ~satisfied(set, r.set, r.option)
  /\ event_set' = [event_set EXCEPT ![t] = r.set]
  /\ event_info' = [event_info EXCEPT ![t] = r.option]
  /\ LET k1 == rt_ipc_list_suspend([k EXCEPT !.err[t] = "eok"],
                                   Event, t, EventFlag)
     IN k' = IF timed THEN rt_timer_start(k1, t) ELSE k1
  /\ asked' = [asked EXCEPT ![t] = r.set]
  /\ pc' = [pc EXCEPT ![t] = "wait"]
  /\ UNCHANGED <<set, outstanding, object>>

RecvSchedule(t) ==
  /\ k.cur = t /\ pc[t] = "wait"
  /\ k' = rt_schedule(k)
  /\ pc' = [pc EXCEPT ![t] = "woken"]
  /\ UNCHANGED <<set, event_set, event_info, asked, outstanding, object>>

\* The thread runs again and returns thread->error or thread->event_set.  What
\* is left in event_set and event_info is never read again, so it is forgotten.
RecvReturn(t) ==
  /\ k.cur = t /\ pc[t] = "woken"
  /\ IF k.err[t] = "eok" /\ event_info[t].clear
     THEN taken(event_set[t])
     ELSE UNCHANGED outstanding
  /\ event_set' = [event_set EXCEPT ![t] = {}]
  /\ event_info' = [event_info EXCEPT ![t] = NoOption]
  /\ asked' = [asked EXCEPT ![t] = {}]
  /\ pc' = [pc EXCEPT ![t] = "run"]
  /\ UNCHANGED <<k, set, object>>

-----------------------------------------------------------------------------
\* Mutant: what an "or" waiter gets is not recorded.
SendTurnUnrecorded(s, t) ==
  IF satisfied(s.set, s.event_set[t], event_info[t])
  THEN [k |-> rt_thread_resume(s.k, t),
        set |-> IF event_info[t].clear THEN s.set \ s.event_set[t] ELSE s.set,
        event_set |-> s.event_set]
  ELSE s

\* Mutant: the option is ignored, any flag is enough.
SendTurnAnyBit(s, t) ==
  IF s.event_set[t] \cap s.set # {}
  THEN LET gets == s.event_set[t] \cap s.set
       IN [k |-> rt_thread_resume(s.k, t),
           set |-> IF event_info[t].clear THEN s.set \ gets ELSE s.set,
           event_set |-> [s.event_set EXCEPT ![t] = gets]]
  ELSE s

\* One turn of the loop of rt_event_send: the waiter t, if it has what it wants,
\* is resumed with the flags it gets.
send_turn(s, t) ==
  IF satisfied(s.set, s.event_set[t], event_info[t])
  THEN LET gets == s.event_set[t] \cap s.set
       IN [k |-> rt_thread_resume(s.k, t),
           set |-> IF event_info[t].clear THEN s.set \ gets ELSE s.set,
           event_set |-> [s.event_set EXCEPT ![t] = gets]]
  ELSE s

\* Mutant: the loop ends with the first waiter.
SendToFirst(flags) ==
  LET s == [k |-> k, set |-> set \cup flags, event_set |-> event_set]
  IN IF waiters = {} THEN s ELSE send_turn(s, Head(k.wait[Event]))

\* The critical section of rt_event_send.
sent(flags) ==
  FoldLeft(send_turn,
           [k |-> k, set |-> set \cup flags, event_set |-> event_set],
           k.wait[Event])

raised(flags) ==
  outstanding' = [b \in Bit |->
                    outstanding[b] + (IF b \in flags \ set THEN 1 ELSE 0)]

\* rt_event_send by a thread; it schedules only if it resumed somebody.
Send(t, flags) ==
  /\ Calls(t)
  /\ flags # {}
  /\ LET s == sent(flags)
     IN /\ k' = s.k /\ set' = s.set /\ event_set' = s.event_set
        /\ pc' = [pc EXCEPT ![t] = IF s.k # k THEN "sched" ELSE "run"]
  /\ raised(flags)
  /\ UNCHANGED <<event_info, asked, object>>

\* rt_event_send by an interrupt handler.
IsrSend(flags) ==
  /\ flags # {} /\ alive
  /\ LET s == sent(flags)
     IN /\ k' = IF s.k # k THEN rt_schedule(s.k) ELSE k
        /\ set' = s.set /\ event_set' = s.event_set
  /\ raised(flags)
  /\ UNCHANGED <<event_info, pc, asked, object>>

\* rt_event_control(RT_IPC_CMD_RESET).
Reset(t) ==
  /\ Calls(t)
  /\ k' = rt_ipc_list_resume_all(k, Event)
  /\ set' = {}
  /\ taken(set)
  /\ pc' = [pc EXCEPT ![t] = "sched"]
  /\ UNCHANGED <<event_set, event_info, asked, object>>

\* rt_event_detach, once nobody calls the functions of the event any more.
Detach(t) ==
  /\ Calls(t)
  /\ alive' = FALSE
  /\ pc' = [pc EXCEPT ![t] = "detach_test"]
  /\ UNCHANGED <<k, set, event_set, event_info, asked, outstanding, wild>>

\* rt_ipc_list_resume_all tests the list with interrupts enabled, ...
DetachTest(t) ==
  /\ k.cur = t /\ pc[t] = "detach_test"
  /\ pc' = [pc EXCEPT ![t] = IF waiters = {} THEN "run" ELSE "detach_body"]
  /\ UNCHANGED <<k, set, event_set, event_info, asked, outstanding, object>>

\* ... and takes its first thread with interrupts disabled: when the last waiter
\* has timed out since, the list head itself.
DetachBody(t) ==
  /\ k.cur = t /\ pc[t] = "detach_body"
  /\ IF waiters # {}
     THEN /\ k' = rt_ipc_list_resume_all_turn(k, Event)
          /\ pc' = [pc EXCEPT ![t] = "detach_test"]
          /\ UNCHANGED wild
     ELSE wild' = TRUE /\ UNCHANGED <<k, pc>>
  /\ UNCHANGED <<set, event_set, event_info, asked, outstanding, alive>>

Schedule(t) ==
  /\ k.cur = t /\ pc[t] = "sched"
  /\ k' = rt_schedule(k)
  /\ pc' = [pc EXCEPT ![t] = "run"]
  /\ UNCHANGED <<set, event_set, event_info, asked, outstanding, object>>

TimerExpire(t) ==
  /\ t \in k.timer
  /\ k' = rt_thread_timeout(k, t)
  /\ UNCHANGED <<set, event_set, event_info, pc, asked, outstanding, object>>

TickYield ==
  /\ k' = rt_schedule(k)
  /\ UNCHANGED <<set, event_set, event_info, pc, asked, outstanding, object>>

ThreadStep(t) ==
  \/ \E new \in Thread : Startup(t, new)
  \/ \E r \in Request : \/ RecvNow(t, r)
                        \/ RecvFail(t, r)
                        \/ \E timed \in BOOLEAN : RecvBlock(t, r, timed)
  \/ RecvSchedule(t)
  \/ RecvReturn(t)
  \/ \E flags \in SUBSET Bit : Send(t, flags)
  \/ Reset(t)
  \/ Detach(t) \/ DetachTest(t) \/ DetachBody(t)
  \/ Schedule(t)

Steps ==
  \/ \E t \in Thread : ThreadStep(t) \/ TimerExpire(t)
  \/ TickYield
  \/ \E flags \in SUBSET Bit : IsrSend(flags)

\* Nothing is said of what the program does once it has gone wild.
Next == ~wild /\ Steps

Spec == Init /\ [][Next]_vars

-----------------------------------------------------------------------------
\* No thread waits for flags that are there: a send wakes everybody it can, and
\* nothing that happens between two sends makes another waiter satisfiable.  The
\* kernel lists agree, although a send takes threads out of their middle.  When
\* rt_event_detach returns nobody is left waiting for an event that is gone.
NobodyWaitsSatisfied ==
  /\ TypeOK /\ KInv(k)
  /\ ~alive /\ waiters # {} =>
       \E t \in Thread : pc[t] \in {"detach_test", "detach_body"}
  /\ \A t \in waiters : ~satisfied(set, event_set[t], event_info[t])

\* The thread was woken by a send and has not yet returned.
Served(t) == pc[t] \in {"wait", "woken"} /\ t \notin waiters /\ k.err[t] = "eok"

\* What a receiver returns is what it asked for: all of it, or a part of it that
\* is not empty.
GetsWhatItAsked ==
  \A t \in Thread : Served(t) =>
     IF event_info[t].op = "and" THEN event_set[t] = asked[t]
     ELSE event_set[t] # {} /\ event_set[t] \subseteq asked[t]

\* Every time a flag is raised, at most one receiver that clears takes it, and
\* none is lost: a raised flag is still set or on its way to exactly one.
FlagsConserved ==
  \A b \in Bit :
    outstanding[b] =
      (IF b \in set THEN 1 ELSE 0)
      + Cardinality({t \in Thread : Served(t) /\ event_info[t].clear
                                    /\ b \in event_set[t]})
=============================================================================
