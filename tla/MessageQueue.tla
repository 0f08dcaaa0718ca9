---------------------------- MODULE MessageQueue ----------------------------
(***************************************************************************)
(* The message queue of ipc.c.  Its buffer is a fixed set of slots linked  *)
(* through their next fields into a free list and a queue.  A sender takes *)
(* a slot, copies its message into it with interrupts enabled, and links   *)
(* it; a receiver unlinks a slot, copies the message out with interrupts   *)
(* enabled, and gives the slot back.                                       *)
(*                                                                         *)
(* pc[t] is where thread t is: "run" in its own code; in rt_mq_send and    *)
(* rt_mq_urgent "copy_in" and "link"; in rt_mq_recv "wait" before its      *)
(* rt_schedule(), "woken" after it, "retry" at the head of the loop, and   *)
(* "copy_out" and "give_back"; "sched" before a last rt_schedule().        *)
(***************************************************************************)
EXTENDS Kernel

CONSTANTS
  MQ,         \* the queue: the name of its wait list
  MQFlag,     \* RT_IPC_FLAG_FIFO or RT_IPC_FLAG_PRIO
  Slot,       \* the slots of its pool
  Message,    \* what can be sent
  Urgent,     \* the messages that are sent with rt_mq_urgent
  Sends,      \* what each thread sends
  IsrSends,   \* what interrupt handlers send
  Receiver,   \* the threads that receive
  Null,       \* RT_NULL, and no message
  Blank,      \* what a buffer holds that was never written
  InitPrio    \* init_priority of every thread

ASSUME MessageQueueAssumption ==
  /\ Queue = {MQ} /\ MQFlag \in Flag
  /\ InitPrio \in [Thread -> Prio]
  /\ \A t \in Thread \ {Idle} : InitPrio[t] < InitPrio[Idle]
  /\ IsFiniteSet(Slot) /\ Slot # {} /\ Null \notin Slot
  /\ Urgent \subseteq Message /\ Null \notin Message
  /\ Blank \in Message \cup {Null}
  /\ Sends \in [Thread -> SUBSET Message] /\ Sends[Idle] = {}
  /\ IsrSends \subseteq Message /\ Receiver \subseteq Thread \ {Idle}

VARIABLES
  k,
  mq,         \* struct rt_messagequeue and the slots of its pool
  pc,
  time,       \* the timeout argument of rt_mq_recv, by its kind
  msg,        \* the local variable msg of rt_mq_send and rt_mq_recv
  arg,        \* the message the thread is sending
  got         \* the buffer of the last rt_mq_recv of each thread

vars == <<k, mq, pc, time, msg, arg, got>>

PC == {"run", "copy_in", "link", "wait", "woken", "retry", "copy_out",
       "give_back", "sched"}
MessageOrNull == Message \cup {Null}
Link == Slot \cup {Null}

TypeOK ==
  /\ k \in KernelState
  /\ mq \in [next : [Slot -> Link], data : [Slot -> MessageOrNull],
             msg_queue_head : Link, msg_queue_tail : Link,
             msg_queue_free : Link, entry : 0 .. Cardinality(Slot)]
  /\ pc \in [Thread -> PC]
  /\ time \in [Thread -> {"zero", "some", "forever"}]
  /\ msg \in [Thread -> Link]
  /\ arg \in [Thread -> MessageOrNull]
  /\ got \in [Thread -> MessageOrNull]

waiters == ToSet(k.wait[MQ])

-----------------------------------------------------------------------------
(* The queue and its slots.                                                *)

\* rt_mq_init: every slot is in the free list.
rt_mq_init ==
  LET s == SetToSeq(Slot)
      linked(i) == IF i = 1 THEN Null ELSE s[i - 1]
  IN [next |-> [x \in Slot |-> linked(CHOOSE i \in DOMAIN s : s[i] = x)],
      data |-> [x \in Slot |-> Blank],
      msg_queue_head |-> Null, msg_queue_tail |-> Null,
      msg_queue_free |-> s[Len(s)], entry |-> 0]

\* The first free slot leaves the free list.
get_free(q) == [q EXCEPT !.msg_queue_free = q.next[@]]

\* The message is copied into the slot; an urgent one is not made the tail.
copy_in(q, s, a) ==
  [q EXCEPT !.data[s] = a,
            !.next[s] = IF a \in Urgent THEN @ ELSE Null]

link_last(q, s) ==
  [q EXCEPT !.next = IF q.msg_queue_tail # Null
                     THEN [@ EXCEPT ![q.msg_queue_tail] = s] ELSE @,
            !.msg_queue_tail = s,
            !.msg_queue_head = IF @ = Null THEN s ELSE @,
            !.entry = @ + 1]

\* Mutant: an urgent message goes behind the first one.
LinkSecond(q, s) ==
  IF q.msg_queue_head = Null THEN link_last([q EXCEPT !.next[s] = Null], s)
  ELSE [q EXCEPT !.next = [@ EXCEPT ![s] = q.next[q.msg_queue_head],
                                    ![q.msg_queue_head] = s],
                 !.msg_queue_tail = IF @ = q.msg_queue_head THEN s ELSE @,
                 !.entry = @ + 1]

link_first(q, s) ==
  [q EXCEPT !.next[s] = q.msg_queue_head,
            !.msg_queue_head = s,
            !.msg_queue_tail = IF @ = Null THEN s ELSE @,
            !.entry = @ + 1]

link(q, s, a) == IF a \in Urgent THEN link_first(q, s) ELSE link_last(q, s)

\* Mutant: the tail keeps pointing at the slot that left.
UnlinkKeepsTail(q) ==
  [q EXCEPT !.msg_queue_head = q.next[@], !.entry = @ - 1]

\* The first message leaves the queue.
unlink_first(q) ==
  [q EXCEPT !.msg_queue_head = q.next[@],
            !.msg_queue_tail = IF @ = q.msg_queue_head THEN Null ELSE @,
            !.entry = @ - 1]

put_free(q, s) ==
  [q EXCEPT !.next[s] = q.msg_queue_free, !.msg_queue_free = s]

\* One slot further along the next fields, from the slots c that begin with s.
walk_on(q, s, c) ==
  LET x == IF c = << >> THEN s ELSE q.next[Last(c)]
  IN IF x = Null THEN c ELSE Append(c, x)

\* The slots from s on.
from(q, s) ==
  LET slots[n \in 0 .. Cardinality(Slot)] ==
        IF n = 0 THEN << >> ELSE walk_on(q, s, slots[n - 1])
  IN slots[Cardinality(Slot)]

\* One turn of the loop of rt_mq_control(RT_IPC_CMD_RESET): the first message goes
\* to the free list.
free_first(q) ==
  IF q.msg_queue_head = Null THEN q
  ELSE put_free(unlink_first(q), q.msg_queue_head)

\* The loop goes on until the queue is empty.
free_all(q) ==
  LET turns[n \in 0 .. Cardinality(Slot)] ==
        IF n = 0 THEN q ELSE free_first(turns[n - 1])
  IN [turns[Cardinality(Slot)] EXCEPT !.entry = 0]

-----------------------------------------------------------------------------
Init ==
  /\ k = scheduler_started(InitPrio)
  /\ mq = rt_mq_init
  /\ pc = [t \in Thread |-> "run"]
  /\ time = [t \in Thread |-> "zero"]
  /\ msg = [t \in Thread |-> Null]
  /\ arg = [t \in Thread |-> Null]
  /\ got = [t \in Thread |-> Blank]

Startup(t, new) ==
  /\ k.cur = t /\ pc[t] = "run"
  /\ k.stat[new] = "init"
  /\ k' = rt_thread_startup(k, new, InitPrio[new])
  /\ pc' = [pc EXCEPT ![t] = "sched"]
  /\ UNCHANGED <<mq, time, msg, arg, got>>

\* rt_mq_send or rt_mq_urgent: take a free slot.  (Without one the call returns
\* -RT_EFULL and changes nothing.)
SendReserve(t, a) ==
  /\ k.cur = t /\ pc[t] = "run" /\ a \in Sends[t]
  /\ mq.msg_queue_free # Null
  /\ msg' = [msg EXCEPT ![t] = mq.msg_queue_free]
  /\ mq' = get_free(mq)
  /\ arg' = [arg EXCEPT ![t] = a]
  /\ pc' = [pc EXCEPT ![t] = "copy_in"]
  /\ UNCHANGED <<k, time, got>>

\* With interrupts enabled.
SendCopy(t) ==
  /\ k.cur = t /\ pc[t] = "copy_in"
  /\ mq' = copy_in(mq, msg[t], arg[t])
  /\ pc' = [pc EXCEPT ![t] = "link"]
  /\ UNCHANGED <<k, time, msg, arg, got>>

\* Mutant: rt_mq_urgent links its message and wakes nobody.
LinkUrgentWakesNobody(t) ==
  /\ k.cur = t /\ pc[t] = "link"
  /\ mq' = link(mq, msg[t], arg[t])
  /\ LET wakes == waiters # {} /\ arg[t] \notin Urgent IN
     /\ k' = IF wakes THEN rt_ipc_list_resume(k, MQ) ELSE k
     /\ pc' = [pc EXCEPT ![t] = IF wakes THEN "sched" ELSE "run"]
  /\ msg' = [msg EXCEPT ![t] = Null]
  /\ arg' = [arg EXCEPT ![t] = Null]
  /\ UNCHANGED <<time, got>>

\* Link the slot and resume the first waiter, if there is one.
SendLink(t) ==
  /\ k.cur = t /\ pc[t] = "link"
  /\ mq' = link(mq, msg[t], arg[t])
  /\ k' = IF waiters # {} THEN rt_ipc_list_resume(k, MQ) ELSE k
  /\ pc' = [pc EXCEPT ![t] = IF waiters # {} THEN "sched" ELSE "run"]
  /\ msg' = [msg EXCEPT ![t] = Null]
  /\ arg' = [arg EXCEPT ![t] = Null]
  /\ UNCHANGED <<time, got>>

\* An interrupt handler sends; no thread runs in between.
IsrSend(a) ==
  /\ mq.msg_queue_free # Null
  /\ LET s == mq.msg_queue_free
     IN mq' = link(copy_in(get_free(mq), s, a), s, a)
  /\ k' = IF waiters # {} THEN rt_schedule(rt_ipc_list_resume(k, MQ)) ELSE k
  /\ UNCHANGED <<pc, time, msg, arg, got>>

-----------------------------------------------------------------------------
\* Where rt_mq_recv tests mq->entry: on entry and after each wake-up.
InLoop(t) == k.cur = t /\ t \in Receiver /\ pc[t] \in {"run", "retry"}

RecvTake(t) ==
  /\ InLoop(t)
  /\ mq.entry > 0
  /\ msg' = [msg EXCEPT ![t] = mq.msg_queue_head]
  /\ mq' = unlink_first(mq)
  /\ time' = [time EXCEPT ![t] = "zero"]
  /\ pc' = [pc EXCEPT ![t] = "copy_out"]
  /\ UNCHANGED <<k, arg, got>>

\* Empty, and no time left: -RT_ETIMEOUT.
RecvFail(t) ==
  /\ k.cur = t /\ pc[t] = "retry" /\ time[t] = "zero"
  /\ mq.entry = 0
  /\ k' = [k EXCEPT !.err[t] = "etimeout"]
  /\ pc' = [pc EXCEPT ![t] = "run"]
  /\ UNCHANGED <<mq, time, msg, arg, got>>

RecvBlock(t, limit) ==
  /\ InLoop(t) /\ mq.entry = 0
  /\ pc[t] = "retry" => limit = time[t]
  /\ limit # "zero"
  /\ LET k1 == rt_ipc_list_suspend([k EXCEPT !.err[t] = "eok"], MQ, t, MQFlag)
     IN k' = IF limit = "some" THEN rt_timer_start(k1, t) ELSE k1
  /\ time' = [time EXCEPT ![t] = limit]
  /\ pc' = [pc EXCEPT ![t] = "wait"]
  /\ UNCHANGED <<mq, msg, arg, got>>

RecvSchedule(t) ==
  /\ k.cur = t /\ pc[t] = "wait"
  /\ k' = rt_schedule(k)
  /\ pc' = [pc EXCEPT ![t] = "woken"]
  /\ UNCHANGED <<mq, time, msg, arg, got>>

\* The thread runs again: it gives up on an error, or computes what is left of
\* its time and tests the queue again.
RecvWoken(t, left) ==
  /\ k.cur = t /\ pc[t] = "woken"
  /\ IF k.err[t] # "eok"
     THEN /\ pc' = [pc EXCEPT ![t] = "run"]
          /\ left = "zero"
     ELSE /\ pc' = [pc EXCEPT ![t] = "retry"]
          /\ left \in IF time[t] = "some" THEN {"some", "zero"} ELSE {time[t]}
  /\ time' = [time EXCEPT ![t] = left]
  /\ UNCHANGED <<k, mq, msg, arg, got>>

\* With interrupts enabled.
RecvCopy(t) ==
  /\ k.cur = t /\ pc[t] = "copy_out"
  /\ got' = [got EXCEPT ![t] = mq.data[msg[t]]]
  /\ pc' = [pc EXCEPT ![t] = "give_back"]
  /\ UNCHANGED <<k, mq, time, msg, arg>>

RecvGiveBack(t) ==
  /\ k.cur = t /\ pc[t] = "give_back"
  /\ mq' = put_free(mq, msg[t])
  /\ msg' = [msg EXCEPT ![t] = Null]
  /\ pc' = [pc EXCEPT ![t] = "run"]
  /\ UNCHANGED <<k, time, arg, got>>

-----------------------------------------------------------------------------
\* rt_mq_control(RT_IPC_CMD_RESET).
Reset(t) ==
  /\ k.cur = t /\ pc[t] = "run" /\ t # Idle
  /\ k' = rt_ipc_list_resume_all(k, MQ)
  /\ mq' = free_all(mq)
  /\ pc' = [pc EXCEPT ![t] = "sched"]
  /\ UNCHANGED <<time, msg, arg, got>>

Schedule(t) ==
  /\ k.cur = t /\ pc[t] = "sched"
  /\ k' = rt_schedule(k)
  /\ pc' = [pc EXCEPT ![t] = "run"]
  /\ UNCHANGED <<mq, time, msg, arg, got>>

TimerExpire(t) ==
  /\ t \in k.timer
  /\ k' = rt_thread_timeout(k, t)
  /\ UNCHANGED <<mq, pc, time, msg, arg, got>>

TickYield ==
  /\ k' = rt_schedule(k)
  /\ UNCHANGED <<mq, pc, time, msg, arg, got>>

ThreadStep(t) ==
  \/ \E new \in Thread : Startup(t, new)
  \/ \E a \in Message : SendReserve(t, a)
  \/ SendCopy(t)
  \/ SendLink(t)
  \/ RecvTake(t)
  \/ RecvFail(t)
  \/ \E limit \in {"some", "forever"} : RecvBlock(t, limit)
  \/ RecvSchedule(t)
  \/ \E left \in {"zero", "some", "forever"} : RecvWoken(t, left)
  \/ RecvCopy(t)
  \/ RecvGiveBack(t)
  \/ Reset(t)
  \/ Schedule(t)

Next ==
  \/ \E t \in Thread : ThreadStep(t) \/ TimerExpire(t)
  \/ TickYield
  \/ \E a \in IsrSends : IsrSend(a)

Spec == Init /\ [][Next]_vars

-----------------------------------------------------------------------------
\* Every slot is in the queue, in the free list or in the hands of one thread,
\* once; the counter is the length of the queue and the tail its last slot.
\* The lists of the kernel agree with each other.
SlotConservation ==
  LET queued == from(mq, mq.msg_queue_head)
      free   == from(mq, mq.msg_queue_free)
      places(s) == Cardinality({i \in DOMAIN queued : queued[i] = s})
                   + Cardinality({i \in DOMAIN free : free[i] = s})
                   + Cardinality({t \in Thread : msg[t] = s})
  IN /\ TypeOK /\ KInv(k)
     /\ \A s \in Slot : places(s) = 1
     /\ mq.entry = Len(queued)
     /\ mq.msg_queue_tail = IF queued = << >> THEN Null ELSE Last(queued)

\* A thread that a send has woken and that will test the queue again.
TriesAgain(t) ==
  \/ pc[t] = "retry"
  \/ pc[t] \in {"wait", "woken"} /\ t \notin waiters /\ k.err[t] = "eok"

\* While threads wait, at least as many others are on their way to the queue as
\* it holds messages: no wake-up is lost, whoever takes a message first and
\* whoever times out.
NoLostWakeup ==
  waiters # {} => mq.entry <= Cardinality({t \in Thread : TriesAgain(t)})

\* What a thread has received, once it has copied it.
Received ==
  [t \in Thread |-> IF pc[t] = "copy_out" THEN mq.data[msg[t]] ELSE got[t]]

\* rt_mq_send, rt_mq_urgent, rt_mq_recv and the reset implement a bounded line
\* of messages: a message copied out with interrupts enabled is the one that
\* was first when its slot was unlinked.
Channel == INSTANCE AbstractChannel WITH
  Party    <- Thread,
  Capacity <- Cardinality(Slot),
  Nothing  <- Null,
  sending  <- arg,
  line     <- LET s == from(mq, mq.msg_queue_head)
              IN [i \in DOMAIN s |-> mq.data[s[i]]],
  got      <- Received

ImplementsChannel == Channel!AbsSpec
=============================================================================
