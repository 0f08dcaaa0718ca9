---------------------------- MODULE AbstractTimer ----------------------------
(***************************************************************************)
(* What the timers promise, without lists, flags and wrapping ticks: a     *)
(* running timer has a number of ticks left; at every tick exactly the     *)
(* timers that have none left fire, the most overdue first, and all of     *)
(* them before the tick interrupt returns.                                 *)
(***************************************************************************)
EXTENDS Integers

CONSTANTS Timers, Off

VARIABLES
  left,       \* ticks left, or Off; negative if the timer was started late
  checking    \* inside the tick interrupt

absVars == <<left, checking>>

Running == {x \in Timers : left[x] # Off}

AbsInit == left = [x \in Timers |-> Off] /\ checking = FALSE

Start(x) ==
  /\ ~checking
  /\ left'[x] \in Int
  /\ left' = [left EXCEPT ![x] = left'[x]]
  /\ UNCHANGED checking

Stop(x) ==
  /\ ~checking
  /\ left' = [left EXCEPT ![x] = Off]
  /\ UNCHANGED checking

Tick ==
  /\ ~checking
  /\ left' = [x \in Timers |-> IF x \in Running THEN left[x] - 1 ELSE Off]
  /\ checking' = TRUE

\* A due timer fires; it may be started again, never for the same tick.
Fire(x) ==
  /\ checking
  /\ x \in Running /\ left[x] <= 0
  /\ \A y \in Running : left[x] <= left[y]
  /\ \/ left' = [left EXCEPT ![x] = Off]
     \/ /\ left'[x] \in Int /\ left'[x] > 0
        /\ left' = [left EXCEPT ![x] = left'[x]]
  /\ UNCHANGED checking

EndCheck ==
  /\ checking
  /\ \A x \in Running : left[x] > 0
  /\ checking' = FALSE
  /\ UNCHANGED left

AbsNext ==
  \/ \E x \in Timers : Start(x) \/ Stop(x) \/ Fire(x)
  \/ Tick
  \/ EndCheck

AbsSpec == AbsInit /\ [][AbsNext]_absVars
=============================================================================
