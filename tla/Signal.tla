------------------------------- MODULE Signal -------------------------------
(***************************************************************************)
(* The signals of signal.c, on top of threads that take a semaphore which  *)
(* interrupts release (Semaphore).  A killer sets the pending bit of the   *)
(* receiver, allocates a siginfo node, links it and delivers: it resumes a *)
(* suspended receiver, or makes a ready one run its handlers before        *)
(* anything else.                                                          *)
(* Interrupt handlers send no signals; handlers of signals call nothing of *)
(* the kernel; every receiver has called rt_signal_install.                *)
(*                                                                         *)
(* pc[t] of a sender: "kill_walk" after the empty list was walked,         *)
(* "kill_alloc", "kill_link", and "kill_test" and "kill_deliver" in        *)
(* _signal_deliver.  In rt_signal_wait: "sw_sched" and "sw_woken".         *)
(*                                                                         *)
(* frames[t] are the activations of rt_thread_handle_sig on the stack of   *)
(* thread t, the last one running.  clean is its parameter: TRUE when      *)
(* rt_schedule or _signal_deliver calls it, FALSE in the context that      *)
(* _signal_deliver builds for a ready thread (_signal_entry).  A frame is  *)
(* at "test" before the loop, at "handler" while the handler of the node   *)
(* it has unlinked runs, at "back" before _signal_entry returns.           *)
(***************************************************************************)
EXTENDS Semaphore

CONSTANTS
  Receiver,  \* the threads signals are sent to
  Sender,    \* the threads that call rt_thread_kill
  Sig,       \* the signals
  NoSig,     \* no signal
  PoolSize,  \* RT_SIG_INFO_MAX
  MaxKills   \* bound: how often rt_thread_kill is called

ASSUME SignalAssumption ==
  /\ Receiver \subseteq Thread \ {Idle} /\ Sender \subseteq Thread \ {Idle}
  /\ NoSig \notin Sig
  /\ PoolSize \in Nat /\ MaxKills \in Nat

VARIABLES
  pending,   \* thread->sig_pending
  mask,      \* thread->sig_mask: the signals a thread lets through
  si_list,   \* thread->si_list, by the signals of its nodes
  flags,     \* thread->stat & RT_THREAD_STAT_SIGNAL_MASK
  frames,    \* see above
  kill,      \* the arguments of the rt_thread_kill or _signal_deliver a thread
             \* is in
  set,       \* the argument of the rt_signal_wait a thread is in
  free,      \* free nodes of _rt_siginfo_pool
  sent,      \* history: how often rt_thread_kill was called
  skipped,   \* history: whom a delivery found in a signal state already
  wild       \* why a pointer that is no node is used as one, or "no"

semaphore == <<value, owned, issued>>
nodes     == <<pending, mask, si_list, free>>
history   == <<sent, skipped>>
sigvars   == <<vars, nodes, flags, frames, kill, set, history, wild>>

SigPC == PC \cup {"kill_walk", "kill_alloc", "kill_link", "kill_test",
                  "kill_deliver", "sw_sched", "sw_woken"}
Frame == [clean : BOOLEAN, at : {"test", "handler", "back"},
          node : Sig \cup {NoSig}]

NoKill == [to |-> Idle, sig |-> NoSig]

SigInit ==
  /\ Init
  /\ pending = [t \in Thread |-> {}] /\ mask = [t \in Thread |-> {}]
  /\ si_list = [t \in Thread |-> << >>] /\ flags = [t \in Thread |-> {}]
  /\ frames = [t \in Thread |-> << >>]
  /\ kill = [t \in Thread |-> NoKill]
  /\ set = [t \in Thread |-> {}]
  /\ free = PoolSize /\ sent = 0
  /\ skipped = {} /\ wild = "no"

-----------------------------------------------------------------------------
At(t, p) == k.cur = t /\ pc[t] = p /\ frames[t] = << >>
Go(t, p) == pc' = [pc EXCEPT ![t] = p]

Deliverable(t) == pending[t] \cap mask[t]

Push(t, clean) ==
  frames' = [frames EXCEPT
    ![t] = Append(@, [clean |-> clean, at |-> "test", node |-> NoSig])]

\* After the rt_schedule() of thread t: if it was switched from, it calls
\* rt_thread_handle_sig(RT_TRUE) as soon as it runs again.
HandleOnReturn(t) == IF k'.cur # t THEN Push(t, TRUE) ELSE UNCHANGED frames

-----------------------------------------------------------------------------
(* rt_thread_handle_sig.                                                   *)

top(t)       == frames[t][Len(frames[t])]
Running(t)   == k.cur = t /\ frames[t] # << >>
SetTop(t, f) == frames' = [frames EXCEPT ![t][Len(frames[t])] = f]
Pop(t)       == frames' = [frames EXCEPT ![t] = Front(@)]

\* The head of the loop, with interrupts disabled, when the pending signals are
\* p: the first node is taken out of the list, whichever signal it is of.
Loop(t, p) ==
  IF p \cap mask[t] # {} /\ si_list[t] # << >>
  THEN /\ si_list' = [si_list EXCEPT ![t] = Tail(@)]
       /\ SetTop(t, [top(t) EXCEPT !.at = "handler", !.node = Head(si_list[t])])
       /\ UNCHANGED flags
  ELSE /\ IF top(t).clean
          THEN flags' = [flags EXCEPT ![t] = @ \ {"SIGNAL"}] /\ Pop(t)
          ELSE SetTop(t, [top(t) EXCEPT !.at = "back", !.node = NoSig])
               /\ UNCHANGED flags
       /\ UNCHANGED si_list

HandleBegin(t) ==
  /\ Running(t) /\ top(t).at = "test"
  /\ IF Deliverable(t) # {} /\ "SIGNAL_WAIT" \notin flags[t]
     THEN Loop(t, pending[t])
     ELSE /\ IF top(t).clean THEN Pop(t)
             ELSE SetTop(t, [top(t) EXCEPT !.at = "back"])
          /\ UNCHANGED <<si_list, flags>>
  /\ UNCHANGED <<k, pc, semaphore, pending, mask, free, kill, set, history, wild>>

\* Mutant: the bit is cleared and the node forgotten.
HandleForgets(t) ==
  /\ Running(t) /\ top(t).at = "handler"
  /\ pending' = [pending EXCEPT ![t] = @ \ {top(t).node}]
  /\ k' = [k EXCEPT !.err[t] = "eintr"]
  /\ Loop(t, pending'[t])
  /\ UNCHANGED <<pc, semaphore, mask, free, kill, set, history, wild>>

\* The handler returns; the bit is cleared, the node given back, and whatever
\* the thread was waiting for ends with -RT_EINTR.
HandleEnd(t) ==
  /\ Running(t) /\ top(t).at = "handler"
  /\ pending' = [pending EXCEPT ![t] = @ \ {top(t).node}]
  /\ free' = free + 1
  /\ k' = [k EXCEPT !.err[t] = "eintr"]
  /\ Loop(t, pending'[t])
  /\ UNCHANGED <<pc, semaphore, mask, kill, set, history, wild>>

\* _signal_entry returns to what the thread was doing.
EntryReturn(t) ==
  /\ Running(t) /\ top(t).at = "back"
  /\ flags' = [flags EXCEPT ![t] = @ \ {"SIGNAL"}]
  /\ Pop(t)
  /\ UNCHANGED <<k, pc, semaphore, nodes, kill, set, history, wild>>

-----------------------------------------------------------------------------
(* rt_thread_kill and _signal_deliver.                                     *)

\* The signal is new, or pending without a node.  If it is pending and there
\* are nodes, the address of the first node is taken for the address of its
\* list field and memory around it is read, and written, as nodes.
Kill(c, t, s) ==
  /\ At(c, "run") /\ c \in Sender
  /\ k.stat[t] # "init"
  /\ sent < MaxKills /\ sent' = sent + 1
  /\ kill' = [kill EXCEPT ![c] = [to |-> t, sig |-> s]]
  /\ pending' = [pending EXCEPT ![t] = @ \cup {s}]
  /\ wild' = IF s \in pending[t] /\ si_list[t] # << >> THEN "resend" ELSE wild
  /\ Go(c, IF s \in pending[t] THEN "kill_walk" ELSE "kill_alloc")
  /\ UNCHANGED <<k, semaphore, mask, si_list, free, flags, frames, set,
                 skipped>>

\* The rt_exit_critical() after the walk.
KillWalk(c) ==
  /\ At(c, "kill_walk")
  /\ k' = rt_schedule(k)
  /\ HandleOnReturn(c)
  /\ Go(c, "kill_alloc")
  /\ UNCHANGED <<semaphore, nodes, flags, kill, set, history, wild>>

\* rt_mp_alloc with time 0; when it fails it sets the errno of the caller.
KillAlloc(c) ==
  /\ At(c, "kill_alloc")
  /\ IF free > 0
     THEN free' = free - 1 /\ Go(c, "kill_link") /\ UNCHANGED k
     ELSE k' = [k EXCEPT !.err[c] = "etimeout"] /\ Go(c, "kill_test")
          /\ UNCHANGED free
  /\ UNCHANGED <<semaphore, pending, mask, si_list, flags, frames, kill, set,
                 history, wild>>

KillLink(c) ==
  /\ At(c, "kill_link")
  /\ si_list' = [si_list EXCEPT ![kill[c].to] = Append(@, kill[c].sig)]
  /\ Go(c, "kill_test")
  /\ UNCHANGED <<k, semaphore, pending, mask, free, flags, frames, kill, set,
                 history, wild>>

\* The receiver's bits are tested with interrupts enabled, ...
DeliverTest(c) ==
  /\ At(c, "kill_test")
  /\ IF Deliverable(kill[c].to) # {}
     THEN Go(c, "kill_deliver") /\ UNCHANGED kill
     ELSE Go(c, "run") /\ kill' = [kill EXCEPT ![c] = NoKill]
  /\ UNCHANGED <<k, semaphore, nodes, flags, frames, set, history, wild>>

\* RT_THREAD_STAT_SIGNAL is set.
Mark(t) ==
  /\ flags' = [flags EXCEPT ![t] = @ \cup {"SIGNAL"}]
  /\ skipped' = IF flags[t] # {} THEN skipped \cup {t} ELSE skipped

Delivered(c, p) ==
  /\ Go(c, p)
  /\ kill' = [kill EXCEPT ![c] = NoKill]
  /\ UNCHANGED <<semaphore, nodes, set, sent, wild>>

\* ... and a suspended receiver is resumed, whatever it waits for; ...
DeliverSuspended(c) ==
  LET t == kill[c].to IN
  /\ At(c, "kill_deliver") /\ k.stat[t] = "suspend"
  /\ k' = rt_thread_resume(k, t)
  /\ Mark(t)
  /\ Delivered(c, "sched")
  /\ UNCHANGED frames

\* ... the sender itself handles its signal at once; ...
DeliverSelf(c) ==
  /\ At(c, "kill_deliver") /\ kill[c].to = c
  /\ Mark(c)
  /\ Push(c, TRUE)
  /\ Delivered(c, "run")
  /\ UNCHANGED k

\* Mutant: RT_THREAD_STAT_SIGNAL is not looked at.
DeliverReadyAlways(c) ==
  LET t == kill[c].to IN
  /\ At(c, "kill_deliver") /\ k.stat[t] # "suspend" /\ t # c
  /\ Mark(t)
  /\ Push(t, FALSE) /\ Delivered(c, "sched")
  /\ UNCHANGED k

\* ... and another ready thread gets a context that runs _signal_entry, unless
\* RT_THREAD_STAT_SIGNAL says that it has one.
DeliverReady(c) ==
  LET t == kill[c].to IN
  /\ At(c, "kill_deliver") /\ k.stat[t] # "suspend" /\ t # c
  /\ Mark(t)
  /\ IF "SIGNAL" \in flags[t]
     THEN Delivered(c, "run") /\ UNCHANGED frames
     ELSE Push(t, FALSE) /\ Delivered(c, "sched")
  /\ UNCHANGED k

-----------------------------------------------------------------------------
(* rt_signal_mask, rt_signal_unmask and rt_signal_wait.                    *)

Mask(t, s) ==
  /\ At(t, "run") /\ t \in Receiver
  /\ mask' = [mask EXCEPT ![t] = @ \ {s}]
  /\ UNCHANGED <<k, pc, semaphore, pending, si_list, free, flags, frames, kill,
                 set, history, wild>>

\* Mutant: what is pending stays pending.
UnmaskOnly(t, s) ==
  /\ At(t, "run") /\ t \in Receiver
  /\ mask' = [mask EXCEPT ![t] = @ \cup {s}]
  /\ UNCHANGED <<k, pc, semaphore, pending, si_list, free, flags, frames, kill,
                 set, history, wild>>

Unmask(t, s) ==
  /\ At(t, "run") /\ t \in Receiver
  /\ mask' = [mask EXCEPT ![t] = @ \cup {s}]
  /\ IF mask'[t] \cap pending[t] = {}
     THEN Go(t, "run") /\ UNCHANGED kill
     ELSE Go(t, "kill_test") /\ kill' = [kill EXCEPT ![t] = [to |-> t, sig |-> s]]
  /\ UNCHANGED <<k, semaphore, pending, si_list, free, flags, frames, set,
                 history, wild>>

\* The first node of a signal of ss is taken out of the list.  A node at the
\* head is replaced by the address of the list field of the next one, and a
\* walk that finds nothing goes on behind the last node.
Consume(t, ss) ==
  LET hits == {i \in DOMAIN si_list[t] : si_list[t][i] \in ss}
      i    == CHOOSE j \in hits : \A h \in hits : j <= h
  IN CASE si_list[t] = << >> -> UNCHANGED <<pending, si_list, free, wild>>
       [] si_list[t] # << >> /\ (hits = {} \/ (i = 1 /\ Len(si_list[t]) > 1)) ->
            wild' = "sigwait" /\ UNCHANGED <<pending, si_list, free>>
       [] OTHER ->
            /\ pending' = [pending EXCEPT ![t] = @ \ {si_list[t][i]}]
            /\ si_list' = [si_list EXCEPT ![t] = RemoveAt(@, i)]
            /\ free' = free + 1
            /\ UNCHANGED wild

\* A signal is pending already.  (With timeout = 0 and none pending the call
\* changes nothing.)
SigWaitNow(t, ss) ==
  /\ At(t, "run") /\ t \in Receiver
  /\ pending[t] \cap ss # {}
  /\ Consume(t, ss)
  /\ UNCHANGED <<k, pc, semaphore, mask, flags, frames, kill, set, history>>

SigWaitBlock(t, ss) ==
  /\ At(t, "run") /\ t \in Receiver /\ k.nest = 0
  /\ pending[t] \cap ss = {}
  /\ k' = rt_timer_start(rt_thread_suspend(k, t), t)
  /\ flags' = [flags EXCEPT ![t] = @ \cup {"SIGNAL_WAIT"}]
  /\ set' = [set EXCEPT ![t] = ss]
  /\ Go(t, "sw_sched")
  /\ UNCHANGED <<semaphore, nodes, frames, kill, history, wild>>

SigWaitSchedule(t) ==
  /\ At(t, "sw_sched")
  /\ k' = rt_schedule(k)
  /\ HandleOnReturn(t)
  /\ Go(t, "sw_woken")
  /\ UNCHANGED <<semaphore, nodes, flags, kill, set, history, wild>>

\* thread->error may still be the one of an earlier call.
SigWaitReturn(t) ==
  /\ At(t, "sw_woken")
  /\ flags' = [flags EXCEPT ![t] = @ \ {"SIGNAL_WAIT"}]
  /\ IF k.err[t] = "etimeout"
     THEN k' = [k EXCEPT !.err[t] = "eok"] /\ UNCHANGED <<pending, si_list, free, wild>>
     ELSE Consume(t, set[t]) /\ UNCHANGED k
  /\ set' = [set EXCEPT ![t] = {}]
  /\ Go(t, "run")
  /\ UNCHANGED <<semaphore, mask, frames, kill, history>>

-----------------------------------------------------------------------------
(* The semaphore, and interrupts.                                          *)

quiet == <<nodes, flags, kill, set, history, wild>>

\* The receivers take the semaphore, interrupts release it.  Every wait is
\* timed: one whose timer never expires is a wait for ever.
TakeStep(t) ==
  /\ k.cur = t /\ frames[t] = << >>
  /\ \/ /\ \/ t \in Receiver /\ TakeAvailable(t)
           \/ t \in Receiver /\ TakeBlock(t, TRUE)
           \/ TakeReturn(t)
           \/ \E new \in Thread : Startup(t, new)
        /\ UNCHANGED frames
     \/ /\ TakeSchedule(t) \/ Schedule(t)
        /\ HandleOnReturn(t)
  /\ UNCHANGED quiet

\* No handler of a signal runs in an interrupt: rt_schedule does not call
\* rt_thread_handle_sig there.
SigInterrupt == Interrupt /\ UNCHANGED <<quiet, frames>>

SigStep(t) ==
  \/ HandleBegin(t)
  \/ HandleEnd(t)
  \/ EntryReturn(t)
  \/ \E to \in Receiver, s \in Sig : Kill(t, to, s)
  \/ KillWalk(t)
  \/ KillAlloc(t)
  \/ KillLink(t)
  \/ DeliverTest(t)
  \/ DeliverSuspended(t)
  \/ DeliverSelf(t)
  \/ DeliverReady(t)
  \/ \E s \in Sig : Mask(t, s) \/ Unmask(t, s)
  \/ \E ss \in SUBSET Sig \ {{}} : SigWaitNow(t, ss) \/ SigWaitBlock(t, ss)
  \/ SigWaitSchedule(t)
  \/ SigWaitReturn(t)

\* Nothing is said of what the program does once it has gone wild.
SigNext ==
  /\ wild = "no"
  /\ \/ TakeStep(k.cur) \/ SigStep(k.cur)
     \/ SigInterrupt

SigSpec == SigInit /\ [][SigNext]_sigvars

-----------------------------------------------------------------------------
\* The nodes that activations of rt_thread_handle_sig of a thread, or the thread
\* as a killer, have in hand, and those in its list.
in_hand ==
  [t \in Thread |->
     Cardinality({i \in DOMAIN frames[t] : frames[t][i].at = "handler"})
       + IF pc[t] = "kill_link" THEN 1 ELSE 0]

listed == [t \in Thread |-> Len(si_list[t])]

\* Every siginfo node is in the pool, in the list of one thread, or in the hand
\* of one sender or handler: none leaks or is given back twice, although lists
\* are changed by senders, handlers and rt_signal_wait between critical sections.
NodesConserved ==
  /\ pc \in [Thread -> SigPC] /\ frames \in [Thread -> Seq(Frame)]
  /\ wild = "no" =>
       PoolSize = free + MapThenSumSet(LAMBDA t : in_hand[t], Thread)
                       + MapThenSumSet(LAMBDA t : listed[t], Thread)

\* A thread has at most one context built by _signal_deliver: a second one would
\* overwrite thread->sig_ret, and the first would not find back.  One activation
\* of rt_thread_handle_sig can be below it and none above.
OneEntryContext ==
  \A t \in Thread : \A i \in DOMAIN frames[t] :
    ~frames[t][i].clean => i = Len(frames[t]) /\ i <= 2 /\ "SIGNAL" \in flags[t]

\* Nobody sleeps over a signal that is let through and has a node: a sender is
\* about to deliver it, unless a delivery met a receiver that had not done with
\* an earlier one, or with a rt_signal_wait.
NobodySleepsOverSignal ==
  \A t \in Receiver \ skipped :
    /\ k.stat[t] = "suspend" /\ flags[t] = {}
    /\ Deliverable(t) \cap ToSet(si_list[t]) # {}
    => \E c \in Sender : kill[c].to = t

\* A sleeper is resumed "to handle signal": rt_sem_take then returns -RT_EINTR,
\* and RT_EOK only to a thread that has been given a token.
TokensNotMade ==
  issued >= value + MapThenSumSet(LAMBDA t : owned[t], Thread)
=============================================================================
