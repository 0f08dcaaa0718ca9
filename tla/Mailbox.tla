------------------------------- MODULE Mailbox -------------------------------
(***************************************************************************)
(* The mailbox of ipc.c: a ring of mails with two wait lists, one for the  *)
(* receivers that find it empty and one for the senders that find it full. *)
(* Each side wakes one thread of the other side, which tests the ring      *)
(* again and may find that somebody else was faster.                       *)
(*                                                                         *)
(* pc[t] is where thread t is: "run" in its own code; in rt_mb_send_wait   *)
(* (s_) and rt_mb_recv (r_), "wait" before the rt_schedule() of the loop,  *)
(* "woken" after it and "retry" at the head of the loop; "sched" before a  *)
(* last rt_schedule().                                                     *)
(***************************************************************************)
EXTENDS Kernel

CONSTANTS
  MB,         \* mb->parent.suspend_thread, where receivers wait
  MBSender,   \* mb->suspend_sender_thread
  MBFlag,     \* RT_IPC_FLAG_FIFO or RT_IPC_FLAG_PRIO
  Size,       \* mb->size
  Mail,       \* what can be sent
  Sends,      \* what each thread sends
  IsrSends,   \* what interrupt handlers send
  Receiver,   \* the threads that receive
  Null,       \* no mail
  Blank,      \* what a buffer holds that was never written
  InitPrio    \* init_priority of every thread

ASSUME MailboxAssumption ==
  /\ MB # MBSender /\ Queue = {MB, MBSender} /\ MBFlag \in Flag
  /\ InitPrio \in [Thread -> Prio]
  /\ \A t \in Thread \ {Idle} : InitPrio[t] < InitPrio[Idle]
  /\ Size \in 1 .. (2^16 - 1)
  /\ Null \notin Mail /\ Blank \in Mail \cup {Null}
  /\ Sends \in [Thread -> SUBSET Mail] /\ Sends[Idle] = {}
  /\ IsrSends \subseteq Mail /\ Receiver \subseteq Thread \ {Idle}

VARIABLES
  k,
  mb,         \* struct rt_mailbox and its msg_pool
  pc,
  time,       \* the timeout argument of the call in progress, by its kind
  value,      \* the mail a blocked sender wants to send
  got         \* the mail of the last rt_mb_recv of each thread

vars == <<k, mb, pc, time, value, got>>

PC == {"run", "s_wait", "s_woken", "s_retry", "r_wait", "r_woken", "r_retry",
       "sched"}
MailOrNull == Mail \cup {Null}
Limit == {"zero", "some", "forever"}

TypeOK ==
  /\ k \in KernelState
  /\ mb \in [msg_pool : [0 .. Size - 1 -> MailOrNull], entry : 0 .. Size,
             in_offset : 0 .. Size - 1, out_offset : 0 .. Size - 1]
  /\ pc \in [Thread -> PC]
  /\ time \in [Thread -> Limit]
  /\ value \in [Thread -> MailOrNull]
  /\ got \in [Thread -> MailOrNull]

receivers == ToSet(k.wait[MB])
senders   == ToSet(k.wait[MBSender])

next_offset(offset) == IF offset + 1 >= Size THEN 0 ELSE offset + 1

\* Mutant: the offset is increased before the mail is stored.
StoreAfterIncrease(v) ==
  [mb EXCEPT !.msg_pool[next_offset(mb.in_offset)] = v,
             !.in_offset = next_offset(@),
             !.entry = @ + 1]

put_mail(v) ==
  [mb EXCEPT !.msg_pool[mb.in_offset] = v,
             !.in_offset = next_offset(@),
             !.entry = @ + 1]

get_mail == [mb EXCEPT !.out_offset = next_offset(@), !.entry = @ - 1]

\* rt_mb_init, and what a reset does to the offsets.
emptied(m) == [m EXCEPT !.entry = 0, !.in_offset = 0, !.out_offset = 0]

-----------------------------------------------------------------------------
Init ==
  /\ k = scheduler_started(InitPrio)
  /\ mb = [msg_pool |-> [i \in 0 .. Size - 1 |-> Blank],
           entry |-> 0, in_offset |-> 0, out_offset |-> 0]
  /\ pc = [t \in Thread |-> "run"]
  /\ time = [t \in Thread |-> "zero"]
  /\ value = [t \in Thread |-> Null]
  /\ got = [t \in Thread |-> Blank]

Startup(t, new) ==
  /\ k.cur = t /\ pc[t] = "run"
  /\ k.stat[new] = "init"
  /\ k' = rt_thread_startup(k, new, InitPrio[new])
  /\ pc' = [pc EXCEPT ![t] = "sched"]
  /\ UNCHANGED <<mb, time, value, got>>

\* Resume the first thread of a wait list; whether the caller schedules.
wake_first(q) == IF k.wait[q] # << >> THEN rt_ipc_list_resume(k, q) ELSE k
then_schedule(q) == IF k.wait[q] # << >> THEN "sched" ELSE "run"

\* Where the calls test the ring: on entry and after each wake-up.
InSend(t) == k.cur = t /\ pc[t] \in {"run", "s_retry"}
InRecv(t) == k.cur = t /\ t \in Receiver /\ pc[t] \in {"run", "r_retry"}

SendPut(t, v) ==
  /\ InSend(t)
  /\ pc[t] = "s_retry" => v = value[t]
  /\ mb.entry < Size
  /\ mb' = put_mail(v)
  /\ k' = wake_first(MB)
  /\ pc' = [pc EXCEPT ![t] = then_schedule(MB)]
  /\ time' = [time EXCEPT ![t] = "zero"]
  /\ value' = [value EXCEPT ![t] = Null]
  /\ UNCHANGED got

\* Still full, and no time left: -RT_EFULL.
SendFail(t) ==
  /\ k.cur = t /\ pc[t] = "s_retry" /\ time[t] = "zero"
  /\ mb.entry = Size
  /\ k' = [k EXCEPT !.err[t] = "eok"]
  /\ pc' = [pc EXCEPT ![t] = "run"]
  /\ value' = [value EXCEPT ![t] = Null]
  /\ UNCHANGED <<mb, time, got>>

\* The thread t waits in q for at most limit.
blocked(t, q, limit) ==
  LET k1 == rt_ipc_list_suspend([k EXCEPT !.err[t] = "eok"], q, t, MBFlag)
  IN IF limit = "some" THEN rt_timer_start(k1, t) ELSE k1

SendBlock(t, v, limit) ==
  /\ InSend(t) /\ mb.entry = Size
  /\ pc[t] = "s_retry" => limit = time[t] /\ v = value[t]
  /\ limit # "zero"
  /\ k' = blocked(t, MBSender, limit)
  /\ time' = [time EXCEPT ![t] = limit]
  /\ value' = [value EXCEPT ![t] = v]
  /\ pc' = [pc EXCEPT ![t] = "s_wait"]
  /\ UNCHANGED <<mb, got>>

RecvTake(t) ==
  /\ InRecv(t)
  /\ mb.entry > 0
  /\ got' = [got EXCEPT ![t] = mb.msg_pool[mb.out_offset]]
  /\ mb' = get_mail
  /\ k' = wake_first(MBSender)
  /\ pc' = [pc EXCEPT ![t] = then_schedule(MBSender)]
  /\ time' = [time EXCEPT ![t] = "zero"]
  /\ UNCHANGED value

\* Still empty, and no time left: -RT_ETIMEOUT.
RecvFail(t) ==
  /\ k.cur = t /\ pc[t] = "r_retry" /\ time[t] = "zero"
  /\ mb.entry = 0
  /\ k' = [k EXCEPT !.err[t] = "etimeout"]
  /\ pc' = [pc EXCEPT ![t] = "run"]
  /\ UNCHANGED <<mb, time, value, got>>

RecvBlock(t, limit) ==
  /\ InRecv(t) /\ mb.entry = 0
  /\ pc[t] = "r_retry" => limit = time[t]
  /\ limit # "zero"
  /\ k' = blocked(t, MB, limit)
  /\ time' = [time EXCEPT ![t] = limit]
  /\ pc' = [pc EXCEPT ![t] = "r_wait"]
  /\ UNCHANGED <<mb, value, got>>

\* The rt_schedule() of either loop.
WaitSchedule(t) ==
  /\ k.cur = t /\ pc[t] \in {"s_wait", "r_wait"}
  /\ k' = rt_schedule(k)
  /\ pc' = [pc EXCEPT ![t] = IF @ = "s_wait" THEN "s_woken" ELSE "r_woken"]
  /\ UNCHANGED <<mb, time, value, got>>

\* The thread runs again: it gives up on an error, or computes what is left of
\* its time and tests the ring again.
Woken(t, left) ==
  /\ k.cur = t /\ pc[t] \in {"s_woken", "r_woken"}
  /\ IF k.err[t] # "eok"
     THEN /\ left = "zero"
          /\ pc' = [pc EXCEPT ![t] = "run"]
          /\ value' = [value EXCEPT ![t] = Null]
     ELSE /\ left \in IF time[t] = "some" THEN {"some", "zero"} ELSE {time[t]}
          /\ pc' = [pc EXCEPT ![t] = IF @ = "s_woken" THEN "s_retry" ELSE "r_retry"]
          /\ UNCHANGED value
  /\ time' = [time EXCEPT ![t] = left]
  /\ UNCHANGED <<k, mb, got>>

\* An interrupt handler calls rt_mb_send.
IsrSend(v) ==
  /\ mb.entry < Size
  /\ mb' = put_mail(v)
  /\ k' = IF receivers # {} THEN rt_schedule(rt_ipc_list_resume(k, MB)) ELSE k
  /\ UNCHANGED <<pc, time, value, got>>

\* Mutant: the reset leaves the waiting senders where they are.
ResetReceivers(t) ==
  /\ k.cur = t /\ pc[t] = "run" /\ t # Idle
  /\ k' = rt_ipc_list_resume_all(k, MB)
  /\ mb' = emptied(mb)
  /\ pc' = [pc EXCEPT ![t] = "sched"]
  /\ UNCHANGED <<time, value, got>>

\* rt_mb_control(RT_IPC_CMD_RESET).
Reset(t) ==
  /\ k.cur = t /\ pc[t] = "run" /\ t # Idle
  /\ k' = rt_ipc_list_resume_all(rt_ipc_list_resume_all(k, MB), MBSender)
  /\ mb' = emptied(mb)
  /\ pc' = [pc EXCEPT ![t] = "sched"]
  /\ UNCHANGED <<time, value, got>>

Schedule(t) ==
  /\ k.cur = t /\ pc[t] = "sched"
  /\ k' = rt_schedule(k)
  /\ pc' = [pc EXCEPT ![t] = "run"]
  /\ UNCHANGED <<mb, time, value, got>>

TimerExpire(t) ==
  /\ t \in k.timer
  /\ k' = rt_thread_timeout(k, t)
  /\ UNCHANGED <<mb, pc, time, value, got>>

TickYield ==
  /\ k' = rt_schedule(k)
  /\ UNCHANGED <<mb, pc, time, value, got>>

ThreadStep(t) ==
  \/ \E new \in Thread : Startup(t, new)
  \/ \E v \in Sends[t] : SendPut(t, v)
  \/ SendFail(t)
  \/ \E v \in Sends[t], limit \in Limit : SendBlock(t, v, limit)
  \/ RecvTake(t)
  \/ RecvFail(t)
  \/ \E limit \in Limit : RecvBlock(t, limit)
  \/ WaitSchedule(t)
  \/ \E left \in Limit : Woken(t, left)
  \/ Reset(t)
  \/ Schedule(t)

Next ==
  \/ \E t \in Thread : ThreadStep(t) \/ TimerExpire(t)
  \/ TickYield
  \/ \E v \in IsrSends : IsrSend(v)

Spec == Init /\ [][Next]_vars

-----------------------------------------------------------------------------
\* A thread of one side ("s" or "r") that was woken and will test the ring again.
TriesAgain(t, list, wait, woken, retry) ==
  \/ pc[t] = retry
  \/ pc[t] \in {wait, woken} /\ t \notin list /\ k.err[t] = "eok"

\* While receivers wait, at least as many others are on their way to the ring as
\* it holds mails: no wake-up is lost, whoever takes a mail first.  The lists of
\* the kernel agree with each other.
NoLostMail ==
  /\ TypeOK /\ KInv(k)
  /\ receivers # {} =>
       mb.entry <= Cardinality(
         {t \in Thread : TriesAgain(t, receivers, "r_wait", "r_woken", "r_retry")})

\* While senders wait, at least as many others are on their way to the ring as
\* it has free places.
NoLostRoom ==
  senders # {} =>
    Size - mb.entry <= Cardinality(
      {t \in Thread : TriesAgain(t, senders, "s_wait", "s_woken", "s_retry")})

\* No wake-up is lost on either side: senders and receivers never wait for each
\* other with nobody left to run.
NoLostWakeup == NoLostMail /\ NoLostRoom

\* rt_mb_send_wait, rt_mb_recv and the reset implement a bounded line of mails,
\* across the wrap-around of both offsets.
Channel == INSTANCE AbstractChannel WITH
  Party    <- Thread,
  Message  <- Mail,
  Capacity <- Size,
  Urgent   <- {},
  Nothing  <- Null,
  sending  <- value,
  line     <- [i \in 1 .. mb.entry |->
                 mb.msg_pool[(mb.out_offset + i - 1) % Size]]

ImplementsChannel == Channel!AbsSpec
=============================================================================
