----------------------------- MODULE ThreadLife -----------------------------
(***************************************************************************)
(* The life of a thread: thread.c from rt_thread_startup to rt_thread_exit,*)
(* rt_thread_delete and rt_thread_detach, and the end of it in idle.c,     *)
(* where tidle releases the dead threads of the list rt_thread_defunct.    *)
(*                                                                         *)
(* A dynamic thread (rt_thread_create) dies by rt_thread_delete or         *)
(* rt_thread_exit and its memory is freed; a static one (rt_thread_init)   *)
(* dies by rt_thread_detach or rt_thread_exit and visits tidle only if it  *)
(* has a cleanup function.                                                 *)
(*                                                                         *)
(* pc[t] is where thread t is: "run" in its own code; "sched" before a     *)
(* last rt_schedule(); "res_unlink" and "res_insert" before the two        *)
(* critical sections of rt_thread_resume; "sleep" and "slept" around the   *)
(* rt_schedule() of rt_thread_sleep; "exit" at the one of rt_thread_exit;  *)
(* "del_timer", "del_close" and "del_link" between the critical sections   *)
(* of rt_thread_delete and rt_thread_detach; tidle in                      *)
(* rt_thread_idle_excute is at "idle_test", "idle_body" or "idle_free".    *)
(*                                                                         *)
(* rt_thread_resume tests the state of the thread with interrupts enabled, *)
(* and enables them again between its two critical sections.  When the     *)
(* thread no longer sleeps at one of them, the resume comes too late: it   *)
(* links a thread that is linked already, or brings a dead one back.       *)
(***************************************************************************)
EXTENDS Drivers

CONSTANTS
  Defunct,    \* rt_thread_defunct
  Dynamic,    \* the threads made by rt_thread_create
  Cleanup,    \* the threads with a cleanup function
  Mortal,     \* the threads others may delete or detach
  Sleeper,    \* the threads that call rt_thread_sleep
  Reviver,    \* the threads that call rt_thread_resume
  NoThread    \* RT_NULL

ASSUME ThreadLifeAssumption ==
  /\ Defunct \in Queue
  /\ Dynamic \cup Cleanup \cup Mortal \cup Sleeper \cup Reviver
       \subseteq Thread \ {Idle}
  /\ NoThread \notin Thread

VARIABLES
  sysobj,     \* the threads that rt_object_is_systemobject takes for static
  target,     \* the argument of the delete or detach in progress
  reap,       \* the local variable thread of rt_thread_idle_excute
  cleaned,    \* history: how often each cleanup function was called
  freed,      \* history: the threads whose stack and object are released
  reviving,   \* the argument of the rt_thread_resume in progress
  late        \* a resume came too late

death == <<sysobj, target, reap, cleaned, freed>>
resumes == <<reviving, late>>
life == <<death, resumes>>

lifevars == <<threads, life>>

LifePC == {"run", "sched", "res_unlink", "res_insert", "sleep", "slept",
       "exit", "del_timer", "del_close", "del_link",
       "idle_test", "idle_body", "idle_free"}

LifeTypeOK ==
  /\ k \in KernelState
  /\ pc \in [Thread -> LifePC]
  /\ sysobj \subseteq Thread
  /\ target \in [Thread -> Thread \cup {NoThread}]
  /\ reap \in Thread \cup {NoThread}
  /\ cleaned \in [Cleanup -> 0 .. 1]
  /\ freed \subseteq Thread
  /\ reviving \in [Thread -> Thread \cup {NoThread}]
  /\ late \in BOOLEAN

\* A delete or detach of the thread has begun.
doomed == {target[t] : t \in Thread} \ {NoThread}

-----------------------------------------------------------------------------
LifeInit ==
  /\ ThreadsInit
  /\ sysobj = Thread \ Dynamic
  /\ target = [t \in Thread |-> NoThread]
  /\ reap = NoThread
  /\ cleaned = [t \in Cleanup |-> 0]
  /\ freed = {}
  /\ reviving = [t \in Thread |-> NoThread]
  /\ late = FALSE

\* A thread that nobody has begun to delete is started.
Start(t, new) ==
  /\ new \notin doomed
  /\ Startup(t, new)
  /\ UNCHANGED life

\* rt_thread_suspend(rt_thread_self()), the caller then schedules.
Suspend(t) ==
  /\ At(t, "run") /\ t # Idle
  /\ k' = rt_thread_suspend(k, t)
  /\ Go(t, "sched")
  /\ UNCHANGED life

\* A thread that sleeps, and that nobody has begun to delete.
Asleep(v) == k.stat[v] = "suspend" /\ v \notin doomed

\* rt_thread_resume by somebody who knows that the thread lives: its state is
\* tested with interrupts enabled, ...
ResumeTest(t, v) ==
  /\ At(t, "run") /\ t \in Reviver
  /\ Asleep(v)
  /\ reviving' = [reviving EXCEPT ![t] = v]
  /\ Go(t, "res_unlink")
  /\ UNCHANGED <<k, death, late>>

\* ... the thread is unlinked and its timer stopped in a critical section, ...
ResumeUnlink(t, v) ==
  /\ At(t, "res_unlink") /\ reviving[t] = v
  /\ Asleep(v)
  /\ k' = resume_unlink(k, v)
  /\ Go(t, "res_insert")
  /\ UNCHANGED life

\* ... and it is inserted in another one.
ResumeInsert(t, v) ==
  /\ At(t, "res_insert") /\ reviving[t] = v
  /\ Loosened(v) /\ v \notin doomed
  /\ k' = rt_schedule_insert_thread(k, v)
  /\ reviving' = [reviving EXCEPT ![t] = NoThread]
  /\ Go(t, "sched")
  /\ UNCHANGED <<death, late>>

\* Before one of the two critical sections the thread was resumed by somebody
\* else, timed out, died, or sleeps again with a timer that nobody will stop.
ResumeLate(t, v) ==
  /\ k.cur = t /\ reviving[t] = v
  /\ \/ pc[t] = "res_unlink" /\ ~Asleep(v)
     \/ pc[t] = "res_insert" /\ ~(Loosened(v) /\ v \notin doomed)
  /\ late' = TRUE
  /\ UNCHANGED <<threads, death, reviving>>

Sleep(t) ==
  /\ At(t, "run") /\ t \in Sleeper
  /\ k' = rt_thread_sleep(k, t)
  /\ Go(t, "sleep")
  /\ UNCHANGED life

\* The error of the time-out is no error of rt_thread_sleep.
SleepReturn(t) ==
  /\ At(t, "slept")
  /\ k' = [k EXCEPT !.err[t] = IF @ = "etimeout" THEN "eok" ELSE @]
  /\ Go(t, "run")
  /\ UNCHANGED life

\* The rt_schedule() of rt_thread_sleep and of rt_thread_exit; a thread that exits
\* stays there.
SleepSchedule(t) ==
  /\ At(t, "sleep")
  /\ k' = rt_schedule(k)
  /\ Go(t, "slept")
  /\ UNCHANGED life

ExitSchedule(t) ==
  /\ At(t, "exit")
  /\ k' = rt_schedule(k)
  /\ UNCHANGED pc
  /\ UNCHANGED life

-----------------------------------------------------------------------------
\* rt_list_insert_after(&rt_thread_defunct, &thread->tlist)
defunct(k1, t) == [k1 EXCEPT !.wait[Defunct] = <<t>> \o @]

\* The critical section of rt_thread_exit.
Exit(t) ==
  /\ At(t, "run") /\ t # Idle
  /\ LET k1 == [rt_schedule_remove_thread(k, t) EXCEPT !.stat[t] = "close"]
         k2 == rt_timer_stop(k1, t)
     IN IF t \in sysobj \ Cleanup
        THEN k' = k2 /\ sysobj' = sysobj \ {t}
        ELSE k' = defunct(k2, t) /\ UNCHANGED sysobj
  /\ Go(t, "exit")
  /\ UNCHANGED <<target, reap, cleaned, freed, resumes>>

\* Mutant: the thread keeps its place in the ready table.
DeleteKeepsLink(t, v) ==
  /\ At(t, "run") /\ t # Idle
  /\ v \in Mortal \ (doomed \cup {t}) /\ k.stat[v] # "close"
  /\ target' = [target EXCEPT ![t] = v]
  /\ Go(t, "del_timer")
  /\ UNCHANGED <<k, sysobj, reap, cleaned, freed, resumes>>

\* rt_thread_delete or rt_thread_detach of another thread that is alive: four
\* critical sections, with interrupts enabled between them.
DeleteRemove(t, v) ==
  /\ At(t, "run") /\ t # Idle
  /\ v \in Mortal \ (doomed \cup {t}) /\ k.stat[v] # "close"
  /\ k' = IF k.stat[v] # "init" THEN rt_schedule_remove_thread(k, v) ELSE k
  /\ target' = [target EXCEPT ![t] = v]
  /\ Go(t, "del_timer")
  /\ UNCHANGED <<sysobj, reap, cleaned, freed, resumes>>

DeleteTimer(t) ==
  /\ At(t, "del_timer")
  /\ k' = rt_timer_stop(k, target[t])
  /\ Go(t, "del_close")
  /\ UNCHANGED life

\* rt_thread_detach also detaches the object, which resets its type.
DeleteClose(t) ==
  /\ At(t, "del_close")
  /\ k' = [k EXCEPT !.stat[target[t]] = "close"]
  /\ sysobj' = sysobj \ {target[t]}
  /\ Go(t, "del_link")
  /\ UNCHANGED <<target, reap, cleaned, freed, resumes>>

DeleteLink(t) ==
  /\ At(t, "del_link")
  /\ k' = IF target[t] \in Dynamic \cup Cleanup
          THEN defunct(k, target[t]) ELSE k
  /\ target' = [target EXCEPT ![t] = NoThread]
  /\ Go(t, "run")
  /\ UNCHANGED <<sysobj, reap, cleaned, freed, resumes>>

-----------------------------------------------------------------------------
\* tidle calls rt_thread_idle_excute, ...
IdleEnter ==
  /\ At(Idle, "run")
  /\ Go(Idle, "idle_test")
  /\ UNCHANGED <<k, life>>

\* Mutant: a single dead thread is not noticed.
IdleTestTwo ==
  /\ At(Idle, "idle_test")
  /\ pc' = [pc EXCEPT ![Idle] = IF Len(k.wait[Defunct]) <= 1 THEN "run"
                                ELSE "idle_body"]
  /\ UNCHANGED <<k, life>>

\* ... looks for a dead thread with interrupts enabled, ...
IdleTest ==
  /\ At(Idle, "idle_test")
  /\ pc' = [pc EXCEPT ![Idle] = IF k.wait[Defunct] = << >> THEN "run"
                                ELSE "idle_body"]
  /\ UNCHANGED <<k, life>>

cleanup(t) ==
  cleaned' = IF t \in Cleanup THEN [cleaned EXCEPT ![t] = @ + 1] ELSE cleaned

\* Mutant: the thread stays in the list.
IdleBodyKeeps ==
  /\ At(Idle, "idle_body")
  /\ LET t == Head(k.wait[Defunct])
     IN /\ cleanup(t)
        /\ IF t \notin sysobj
           THEN reap' = t /\ Go(Idle, "idle_free")
           ELSE Go(Idle, "run") /\ UNCHANGED reap
        /\ k' = rt_schedule(k)
  /\ UNCHANGED <<sysobj, target, freed, resumes>>

\* ... unlinks it and calls its cleanup with interrupts disabled; nobody else
\* removes threads from the list, so the second test of the code cannot fail.
\* rt_exit_critical schedules.  After a system object the function returns, ...
IdleBody ==
  /\ At(Idle, "idle_body")
  /\ k.wait[Defunct] # << >>
  /\ LET t == Head(k.wait[Defunct])
     IN /\ cleanup(t)
        /\ IF t \notin sysobj
           THEN reap' = t /\ Go(Idle, "idle_free")
           ELSE Go(Idle, "run") /\ UNCHANGED reap
        /\ k' = rt_schedule(rt_list_remove(k, t))
  /\ UNCHANGED <<sysobj, target, freed, resumes>>

\* ... any other is freed, with interrupts enabled, and the loop goes on.
IdleFree ==
  /\ At(Idle, "idle_free")
  /\ freed' = freed \cup {reap}
  /\ reap' = NoThread
  /\ Go(Idle, "idle_test")
  /\ UNCHANGED <<k, sysobj, target, cleaned, resumes>>

LifeStep(t) ==
  \/ \E v \in Thread :
       \/ Start(t, v)
       \/ ResumeTest(t, v) \/ ResumeUnlink(t, v) \/ ResumeInsert(t, v)
       \/ ResumeLate(t, v)
       \/ DeleteRemove(t, v)
  \/ Suspend(t)
  \/ Sleep(t) \/ SleepSchedule(t) \/ SleepReturn(t)
  \/ Exit(t) \/ ExitSchedule(t)
  \/ DeleteTimer(t)
  \/ DeleteClose(t)
  \/ DeleteLink(t)
  \/ (Schedule(t) \/ TimerExpire(t)) /\ UNCHANGED life

IdleStep == IdleEnter \/ IdleTest \/ IdleBody \/ IdleFree

\* Nothing is said of what the program does after a resume that came too late.
LifeNext ==
  /\ ~late
  /\ \/ \E t \in Thread : LifeStep(t)
     \/ IdleStep
     \/ TickYield /\ UNCHANGED life

LifeSpec == LifeInit /\ [][LifeNext]_lifevars

\* tidle runs whenever it is the running thread.
FairLifeSpec ==
  /\ LifeSpec
  /\ WF_lifevars(~late /\ IdleStep)
  /\ WF_lifevars(~late /\ Schedule(Idle) /\ UNCHANGED life)
  /\ WF_lifevars(~late /\ TickYield /\ UNCHANGED life)

-----------------------------------------------------------------------------
\* A thread is linked in at most one list, and the lists agree with the states:
\* ready threads in the ready table, dead ones in rt_thread_defunct.
OneList ==
  /\ LifeTypeOK
  /\ NoDuplicates(k) /\ Bitmap(k)
  /\ \A t \in Thread, p \in Prio :
       t \in ToSet(k.ready[p]) <=> k.stat[t] = "ready" /\ k.prio[t] = p
                                    /\ t # k.cur /\ t \notin doomed
  /\ \A t \in ToSet(k.wait[Defunct]) : k.stat[t] = "close"

\* A thread whose memory was freed does not run, is in no list, has no timer and
\* is not in the hands of a delete.
NotUsed(t) ==
  /\ t # k.cur /\ t \notin k.timer /\ t \notin doomed
  /\ \A p \in Prio : t \notin ToSet(k.ready[p])
  /\ t \notin ToSet(k.wait[Defunct])

\* A dead thread is on exactly one side of the release: waiting in the list, or
\* in the hands of tidle, or released, its cleanup called exactly once by then;
\* and it is not used after that.
ReleasedOnce ==
  /\ \A t \in (freed \cup {reap}) \ {NoThread} : NotUsed(t)
  /\ \A t \in Dynamic \cup Cleanup :
       k.stat[t] = "close" /\ t \notin doomed =>
         LET waits == t \in ToSet(k.wait[Defunct])
         IN /\ t \in Cleanup => cleaned[t] = IF waits THEN 0 ELSE 1
            /\ t \in Dynamic => (~waits <=> t \in freed \cup {reap})

\* tidle gets to every dead thread, unless other threads keep it from running
\* or a resume comes too late.
EventuallyReleased ==
  \A t \in Thread :
    t \in ToSet(k.wait[Defunct]) ~>
      \/ t \notin ToSet(k.wait[Defunct])
      \/ \E u \in Thread \ {Idle} : k.stat[u] = "ready"
      \/ late
=============================================================================
