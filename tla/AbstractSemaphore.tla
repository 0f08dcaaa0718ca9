-------------------------- MODULE AbstractSemaphore --------------------------
(***************************************************************************)
(* What a semaphore promises, without scheduler, lists, interrupts or      *)
(* timers: tokens are available or held, a thread waits only when none is  *)
(* available, and a token given while threads wait goes to exactly one of  *)
(* them.                                                                   *)
(***************************************************************************)
EXTENDS Integers

CONSTANTS Client, InitialTokens

VARIABLES
  avail,     \* tokens anybody may take
  holds,     \* tokens each thread has been given
  waiting    \* the threads that wait for one

absVars == <<avail, holds, waiting>>

AbsInit ==
  /\ avail = InitialTokens
  /\ holds = [c \in Client |-> 0]
  /\ waiting = {}

Take(c) ==
  /\ avail > 0
  /\ avail' = avail - 1
  /\ holds' = [holds EXCEPT ![c] = @ + 1]
  /\ UNCHANGED waiting

Wait(c) ==
  /\ avail = 0
  /\ waiting' = waiting \cup {c}
  /\ UNCHANGED <<avail, holds>>

\* A thread stops waiting without a token: it timed out, or a reset woke it.
GiveUp(c) ==
  /\ c \in waiting
  /\ waiting' = waiting \ {c}
  /\ UNCHANGED <<avail, holds>>

\* A token comes back from the holdings h, or from outside when h = holds.
Give(h) ==
  \/ /\ waiting = {}
     /\ avail' = avail + 1
     /\ holds' = h
     /\ UNCHANGED waiting
  \/ \E w \in waiting :
       /\ waiting' = waiting \ {w}
       /\ holds' = [h EXCEPT ![w] = @ + 1]
       /\ UNCHANGED avail

GiveBack(c) == holds[c] > 0 /\ Give([holds EXCEPT ![c] = @ - 1])

\* The available tokens are replaced once nobody waits.
Reset ==
  /\ waiting = {}
  /\ avail' \in Nat
  /\ UNCHANGED <<holds, waiting>>

AbsNext ==
  \/ \E c \in Client : Take(c) \/ Wait(c) \/ GiveUp(c) \/ GiveBack(c)
  \/ Give(holds)
  \/ Reset

AbsSpec == AbsInit /\ [][AbsNext]_absVars
=============================================================================
