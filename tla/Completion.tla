----------------------------- MODULE Completion -----------------------------
(***************************************************************************)
(* The completion of completion.c: one thread waits, with or without a     *)
(* timeout, for what other threads and interrupt handlers signal.          *)
(*                                                                         *)
(* pc[t] in rt_completion_wait: "c_sched" before its rt_schedule(),        *)
(* "c_woken" after it, "c_clear" when thread->error has been read; in      *)
(* rt_completion_done: "done" between the test of the flag and the         *)
(* critical section.                                                       *)
(***************************************************************************)
EXTENDS Drivers

CONSTANTS
  Waiter,     \* the only thread that waits for the completion
  Doer,       \* the threads that call rt_completion_done
  List        \* completion->suspended_list

ASSUME CompletionAssumption ==
  /\ List \in Queue
  /\ Doer \subseteq Thread \ {Idle}
  /\ Waiter \in Thread \ ({Idle} \cup Doer)

VARIABLES
  completed,  \* completion->flag = RT_COMPLETED
  result      \* the local variable of rt_completion_wait

completion == <<completed, result>>

\* rt_completion_init
CompletionInit == completed = FALSE /\ result = "eok"

-----------------------------------------------------------------------------
(* rt_completion_wait.                                                     *)

\* The flag is set already.  (With timeout = 0 and the flag clear the call
\* changes nothing.)
CompletionNow ==
  /\ At(Waiter, "run") /\ completed
  /\ completed' = FALSE
  /\ UNCHANGED <<threads, result>>

CompletionBlock(timeout) ==
  /\ At(Waiter, "run") /\ ~completed
  /\ LET k1 == rt_ipc_list_suspend([k EXCEPT !.err[Waiter] = "eok"],
                                   List, Waiter, "fifo")
     IN k' = IF timeout = "some" THEN rt_timer_start(k1, Waiter) ELSE k1
  /\ Go(Waiter, "c_sched")
  /\ UNCHANGED completion

CompletionSchedule ==
  /\ At(Waiter, "c_sched")
  /\ k' = rt_schedule(k)
  /\ Go(Waiter, "c_woken")
  /\ UNCHANGED completion

\* thread->error is read before interrupts are disabled again, ...
CompletionResult ==
  /\ At(Waiter, "c_woken")
  /\ result' = k.err[Waiter]
  /\ Go(Waiter, "c_clear")
  /\ UNCHANGED <<k, completed>>

\* ... and the flag is cleared whatever the error was.
CompletionClear ==
  /\ At(Waiter, "c_clear")
  /\ completed' = FALSE
  /\ Go(Waiter, "run")
  /\ UNCHANGED <<k, result>>

-----------------------------------------------------------------------------
(* rt_completion_done.                                                     *)

\* The flag is tested with interrupts enabled; when it is set there is nothing
\* to do.
DoneTest(t) ==
  /\ At(t, "run") /\ t \in Doer
  /\ ~completed
  /\ Go(t, "done")
  /\ UNCHANGED <<k, completion>>

\* The waiting thread, if there is one, is made ready.
resumed == IF k.wait[List] # << >> THEN rt_ipc_list_resume(k, List) ELSE k

\* Mutant: the flag is set only if nobody waits.
DoneResume(t) ==
  /\ At(t, "done")
  /\ completed' = (k.wait[List] = << >>)
  /\ k' = resumed
  /\ Go(t, IF k.wait[List] # << >> THEN "sched" ELSE "run")
  /\ UNCHANGED result

DoneSet(t) ==
  /\ At(t, "done")
  /\ completed' = TRUE
  /\ k' = resumed
  /\ Go(t, IF k.wait[List] # << >> THEN "sched" ELSE "run")
  /\ UNCHANGED result

\* An interrupt handler calls it; no thread runs in between.
IsrDone ==
  /\ ~completed
  /\ completed' = TRUE
  /\ k' = IF k.wait[List] # << >> THEN rt_schedule(resumed) ELSE k
  /\ UNCHANGED <<result, pc>>

CompletionNext ==
  \/ CompletionNow
  \/ \E timeout \in {"some", "forever"} : CompletionBlock(timeout)
  \/ CompletionSchedule
  \/ CompletionResult
  \/ CompletionClear
  \/ \E t \in Doer : DoneTest(t) \/ DoneSet(t)
  \/ IsrDone
  \/ ThreadsNext /\ UNCHANGED completion

-----------------------------------------------------------------------------
\* The thread never waits for a completion that is there already, although
\* rt_completion_done tests the flag before it disables interrupts; and a wait
\* that returns RT_EOK consumes a completion, which nobody else has consumed
\* before: the flag is still set when the thread runs again.
CompletedOnce ==
  /\ completed => k.wait[List] = << >>
  /\ pc[Waiter] = "c_clear" /\ result = "eok" => completed
  /\ pc[Waiter] = "c_woken" /\ k.wait[List] = << >> /\ k.err[Waiter] = "eok"
       => completed
=============================================================================
