-------------------------------- MODULE Timer --------------------------------
(***************************************************************************)
(* The hard timers of timer.c (one list, RT_TIMER_SKIP_LIST_LEVEL = 1) and *)
(* the tick of clock.c, whose 32-bit counter wraps around.  Clients are    *)
(* threads that call the timer functions and preempt each other anywhere   *)
(* but in critical sections; the tick interrupt runs the timer check and   *)
(* the timeout functions of the timers that are due.                       *)
(*                                                                         *)
(* step[c] is the next step of client c inside a timer function, at[c] the   *)
(* timer it was called for.                                                *)
(***************************************************************************)
EXTENDS Integers, SequencesExt

CONSTANTS
  Timers,
  Caller,      \* the threads that use timers
  Users,       \* the clients that may use each timer
  Callback,    \* what a timeout function may do with its own timer
  TickMod,     \* 2^32: rt_tick_t is an rt_uint32_t
  MaxInit,     \* bound: init_tick
  MaxDelay,    \* bound: ticks a client may lose inside rt_timer_start
  NoTimer,
  Off          \* what a timer that does not run has left

\* RT_TICK_MAX / 2
HalfMax == (TickMod - 1) \div 2

ASSUME TimerAssumption ==
  /\ Users \in [Timers -> SUBSET Caller]
  /\ Callback \subseteq {"none", "start", "stop"}
  /\ TickMod \in Nat /\ MaxInit \in Nat \ {0} /\ MaxDelay \in Nat
  /\ MaxInit + MaxDelay < HalfMax
  /\ NoTimer \notin Timers /\ Off \notin Int

VARIABLES
  rt_tick,
  rt_timer_list,   \* the linked timers, the first to expire first
  timer,           \* the timer objects; the timeout_tick of a timer that is
                   \* unlinked, which nobody reads, is 0
  exists,          \* the timers that are initialised and not detached
  isr,             \* "check" inside rt_timer_check, or "none"
  step, at,
  flag_new,        \* the flags a client has computed and is about to write
  relinked,        \* a timer was linked while it was linked already
  torn             \* the timers whose ACTIVATED flag a client has set again by
                   \* writing back flags it had read before they changed

timervars ==
  <<rt_tick, rt_timer_list, timer, exists, isr, step, at, flag_new, relinked, torn>>

InitTick == 1 .. MaxInit

TimerState ==
  [activated : BOOLEAN, periodic : BOOLEAN,
   init_tick : InitTick, timeout_tick : 0 .. (TickMod - 1)]

TimerPC == {"run", "start_tick", "start_insert", "stop_remove", "stop_clear",
            "flag_write"}

FlagState == [activated : BOOLEAN, periodic : BOOLEAN]

NoFlag == [activated |-> FALSE, periodic |-> FALSE]

TimerTypeOK ==
  /\ rt_tick \in 0 .. (TickMod - 1)
  /\ rt_timer_list \in Seq(Timers) /\ IsInjective(rt_timer_list)
  /\ timer \in [Timers -> TimerState]
  /\ exists \subseteq Timers
  /\ isr \in {"none", "check"}
  /\ step \in [Caller -> TimerPC]
  /\ at \in [Caller -> Timers \cup {NoTimer}]
  /\ flag_new \in [Caller -> FlagState]
  /\ relinked \in BOOLEAN
  /\ torn \subseteq Timers

linked == ToSet(rt_timer_list)

-----------------------------------------------------------------------------
(* Ticks.                                                                  *)

\* Unsigned subtraction.
minus(a, b) == (a - b) % TickMod

\* Mutant: ticks are compared as if they never wrapped.
ExpiredPlain(x) == rt_tick >= timer[x].timeout_tick

\* (current_tick - t->timeout_tick) < RT_TICK_MAX / 2
expired(x) == minus(rt_tick, timer[x].timeout_tick) < HalfMax

\* The test of the loop of rt_timer_check.
first_expired == rt_timer_list # << >> /\ expired(Head(rt_timer_list))

\* The ticks a linked timer has left, as the comparisons above see it.
ticks_left(x) ==
  LET past == minus(rt_tick, timer[x].timeout_tick)
  IN IF past < HalfMax THEN -past ELSE TickMod - past

\* _rt_timer_remove: out of the list, if it is in it.
removed(x) ==
  IF x \in linked
  THEN RemoveAt(rt_timer_list, CHOOSE i \in DOMAIN rt_timer_list :
                                 rt_timer_list[i] = x)
  ELSE rt_timer_list

\* Mutant: ticks are compared as if they never wrapped.
PositionPlain(list, tick) ==
  LET later == {i \in DOMAIN list : timer[list[i]].timeout_tick > tick}
  IN IF later = {} THEN Len(list) + 1
     ELSE CHOOSE i \in later : \A j \in later : i <= j

\* The loop of rt_timer_start: in front of the first timer that expires later
\* than tick.
insert_position(list, tick) ==
  LET later == {i \in DOMAIN list :
                  minus(timer[list[i]].timeout_tick, tick) \in 1 .. (HalfMax - 1)}
  IN IF later = {} THEN Len(list) + 1
     ELSE CHOOSE i \in later : \A j \in later : i <= j

-----------------------------------------------------------------------------
TimersInit ==
  /\ rt_tick = 0
  /\ rt_timer_list = << >>
  /\ timer = [x \in Timers |-> [activated |-> FALSE, periodic |-> FALSE,
                                init_tick |-> 1, timeout_tick |-> 0]]
  /\ exists = {}
  /\ isr = "none"
  /\ step = [c \in Caller |-> "run"]
  /\ at = [c \in Caller |-> NoTimer]
  /\ flag_new = [c \in Caller |-> NoFlag]
  /\ relinked = FALSE
  /\ torn = {}

\* A client calls a function of timer x.
CallTimer(c, x) ==
  isr = "none" /\ step[c] = "run" /\ c \in Users[x]

Quiet(x) == \A c \in Caller : at[c] # x

\* rt_timer_init, rt_timer_create
TimerInit(c, x, n, periodic) ==
  /\ CallTimer(c, x) /\ x \notin exists
  /\ exists' = exists \cup {x}
  /\ timer' = [timer EXCEPT ![x] = [activated |-> FALSE, periodic |-> periodic,
                                    init_tick |-> n, timeout_tick |-> 0]]
  /\ UNCHANGED <<rt_tick, rt_timer_list, isr, step, at, flag_new, relinked, torn>>

\* rt_timer_detach, rt_timer_delete, when no other client is inside a function
\* of the timer.  The flags are left alone.
TimerDetach(c, x) ==
  /\ CallTimer(c, x) /\ x \in exists /\ Quiet(x)
  /\ rt_timer_list' = removed(x)
  /\ timer' = [timer EXCEPT ![x].timeout_tick = 0]
  /\ exists' = exists \ {x} /\ torn' = torn \ {x}
  /\ UNCHANGED <<rt_tick, isr, step, at, flag_new, relinked>>

\* rt_timer_control with SET_TIME, ...
ControlTime(c, x, n) ==
  /\ CallTimer(c, x) /\ x \in exists
  /\ timer' = [timer EXCEPT ![x].init_tick = n]
  /\ UNCHANGED <<rt_tick, rt_timer_list, exists, isr, step, at, flag_new, relinked,
                 torn>>

\* ... and with SET_ONESHOT or SET_PERIODIC: with interrupts enabled, the flags
\* are read, ...
ControlFlag(c, x, periodic) ==
  /\ CallTimer(c, x) /\ x \in exists
  /\ flag_new' = [flag_new EXCEPT ![c] = [activated |-> timer[x].activated,
                                          periodic |-> periodic]]
  /\ step' = [step EXCEPT ![c] = "flag_write"]
  /\ at' = [at EXCEPT ![c] = x]
  /\ UNCHANGED <<rt_tick, rt_timer_list, timer, exists, isr, relinked, torn>>

\* ... and all of them are written back.
WriteFlag(c) ==
  LET x == at[c] IN
  /\ isr = "none" /\ step[c] = "flag_write"
  /\ timer' = [timer EXCEPT ![x].activated = flag_new[c].activated,
                            ![x].periodic = flag_new[c].periodic]
  /\ torn' = IF flag_new[c].activated
             THEN torn \cup ({x} \ {y \in Timers : timer[y].activated})
             ELSE torn \ {x}
  /\ flag_new' = [flag_new EXCEPT ![c] = NoFlag]
  /\ step' = [step EXCEPT ![c] = "run"]
  /\ at' = [at EXCEPT ![c] = NoTimer]
  /\ UNCHANGED <<rt_tick, rt_timer_list, exists, isr, relinked>>

\* rt_timer_start: the timer is stopped in a critical section, ...
StartRemove(c, x) ==
  /\ CallTimer(c, x) /\ x \in exists
  /\ rt_timer_list' = removed(x)
  /\ timer' = [timer EXCEPT ![x].activated = FALSE, ![x].timeout_tick = 0]
  /\ step' = [step EXCEPT ![c] = "start_tick"]
  /\ at' = [at EXCEPT ![c] = x]
  /\ torn' = torn \ {x}
  /\ UNCHANGED <<rt_tick, exists, isr, flag_new, relinked>>

\* ... its timeout tick is computed, ...
StartTick(c) ==
  /\ isr = "none" /\ step[c] = "start_tick"
  /\ timer' = [timer EXCEPT ![at[c]].timeout_tick =
                 (rt_tick + timer[at[c]].init_tick) % TickMod]
  /\ step' = [step EXCEPT ![c] = "start_insert"]
  /\ UNCHANGED <<rt_tick, rt_timer_list, exists, isr, at, flag_new, relinked, torn>>

\* ... and it is linked in another critical section.
StartInsert(c) ==
  LET x   == at[c]
      pos == insert_position(rt_timer_list, timer[x].timeout_tick)
  IN
  /\ isr = "none" /\ step[c] = "start_insert"
  /\ IF x \in linked
     THEN relinked' = TRUE /\ UNCHANGED rt_timer_list
     ELSE rt_timer_list' = InsertAt(rt_timer_list, pos, x) /\ UNCHANGED relinked
  /\ timer' = [timer EXCEPT ![x].activated = TRUE]
  /\ step' = [step EXCEPT ![c] = "run"]
  /\ at' = [at EXCEPT ![c] = NoTimer]
  /\ UNCHANGED <<rt_tick, exists, isr, flag_new, torn>>

\* rt_timer_stop: the flag is tested, ...
StopTest(c, x) ==
  /\ CallTimer(c, x) /\ x \in exists
  /\ timer[x].activated
  /\ step' = [step EXCEPT ![c] = "stop_remove"]
  /\ at' = [at EXCEPT ![c] = x]
  /\ UNCHANGED <<rt_tick, rt_timer_list, timer, exists, isr, flag_new, relinked, torn>>

\* ... the timer is unlinked in a critical section, ...
StopRemove(c) ==
  /\ isr = "none" /\ step[c] = "stop_remove"
  /\ rt_timer_list' = removed(at[c])
  /\ timer' = [timer EXCEPT ![at[c]].timeout_tick = 0]
  /\ step' = [step EXCEPT ![c] = "stop_clear"]
  /\ UNCHANGED <<rt_tick, exists, isr, at, flag_new, relinked, torn>>

\* ... and one flag is cleared after it: they are read and, in WriteFlag,
\* written.
StopClear(c) ==
  /\ isr = "none" /\ step[c] = "stop_clear"
  /\ flag_new' = [flag_new EXCEPT ![c] = [activated |-> FALSE,
                                          periodic |-> timer[at[c]].periodic]]
  /\ step' = [step EXCEPT ![c] = "flag_write"]
  /\ UNCHANGED <<rt_tick, rt_timer_list, timer, exists, isr, at, relinked, torn>>

-----------------------------------------------------------------------------
(* The tick interrupt.                                                     *)

\* rt_tick_increase: the tick, then rt_timer_check.  No client has been kept
\* from linking its timer for more than MaxDelay ticks.
TickIncrease ==
  /\ isr = "none"
  /\ \A c \in Caller : step[c] = "start_insert" => ticks_left(at[c]) > -MaxDelay
  /\ rt_tick' = (rt_tick + 1) % TickMod
  /\ isr' = "check"
  /\ UNCHANGED <<rt_timer_list, timer, exists, step, at, flag_new, relinked, torn>>

\* rt_timer_start(x) with interrupts disabled throughout.
start_now(x, activated) ==
  LET tick == (rt_tick + timer[x].init_tick) % TickMod
      list == removed(x)
  IN /\ rt_timer_list' = InsertAt(list, insert_position(list, tick), x)
     /\ timer' = [timer EXCEPT ![x].timeout_tick = tick,
                               ![x].activated = activated]

\* One turn of the loop of rt_timer_check: unlink, call the timeout function,
\* and start again or stop.  A periodic timer is started again if the timeout
\* function left it activated; of any other the flag is cleared, even if the
\* timeout function has started it.
CheckOne(does) ==
  LET x     == Head(rt_timer_list)
      again == timer[x].periodic
                 /\ (does = "start" \/ (does = "none" /\ timer[x].activated))
  IN
  /\ isr = "check"
  /\ first_expired
  /\ IF again \/ does = "start"
     THEN start_now(x, again)
     ELSE /\ rt_timer_list' = removed(x)
          /\ timer' = [timer EXCEPT ![x].activated = FALSE,
                                    ![x].timeout_tick = 0]
  /\ torn' = torn \ {x}
  /\ UNCHANGED <<rt_tick, exists, isr, step, at, flag_new, relinked>>

CheckEnd ==
  /\ isr = "check"
  /\ ~first_expired
  /\ isr' = "none"
  /\ UNCHANGED <<rt_tick, rt_timer_list, timer, exists, step, at, flag_new, relinked,
                 torn>>

TimerSteps ==
  \/ \E c \in Caller, x \in Timers :
       \/ \E n \in InitTick, periodic \in BOOLEAN :
            \/ TimerInit(c, x, n, periodic)
            \/ ControlTime(c, x, n)
            \/ ControlFlag(c, x, periodic)
       \/ TimerDetach(c, x)
       \/ StartRemove(c, x)
       \/ StopTest(c, x)
  \/ \E c \in Caller :
       \/ StartTick(c)
       \/ StartInsert(c)
       \/ StopRemove(c)
       \/ StopClear(c)
       \/ WriteFlag(c)
  \/ TickIncrease
  \/ \E does \in Callback : CheckOne(does)
  \/ CheckEnd

\* Nothing is said of what the program does once it has gone relinked.
TimerNext == ~relinked /\ TimerSteps

TimerSpec == TimersInit /\ [][TimerNext]_timervars

-----------------------------------------------------------------------------
Abstract == INSTANCE AbstractTimer WITH
  left     <- [x \in Timers |-> IF x \in linked THEN ticks_left(x) ELSE Off],
  checking <- (isr = "check")

\* Timers fire exactly when they are due, the most overdue first, whatever the
\* clients do meanwhile and although the tick wraps around: rt_timer_start,
\* rt_timer_stop and rt_timer_check implement the abstract timers.
ImplementsTimers == Abstract!AbsSpec

\* The list is sorted by what is left, so that the first timer decides whether
\* any is due; no timer is linked a second time by the rt_timer_start whose two
\* critical sections the tick interrupt comes between; and a timer that is flagged
\* activated while no function is at work on it is linked and will fire, unless
\* rt_timer_control wrote back an ACTIVATED flag that the tick interrupt had
\* cleared meanwhile; the next start or stop sets that right.  (The converse
\* fails: the flag of a one-shot timer that its own timeout function has started
\* is cleared by rt_timer_check.)
SortedByTimeout ==
  /\ TimerTypeOK /\ ~relinked
  /\ \A i, j \in DOMAIN rt_timer_list :
       i < j => ticks_left(rt_timer_list[i]) <= ticks_left(rt_timer_list[j])
  /\ isr = "none" =>
       \A x \in exists \ torn : Quiet(x) /\ timer[x].activated => x \in linked
=============================================================================
