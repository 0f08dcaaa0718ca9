---------------------------- MODULE MailboxProofs -----------------------------
(***************************************************************************)
(* The mailbox, for every set of threads, every size and every choice of   *)
(* who sends what: no wake-up is lost on either side, and the ring is a    *)
(* bounded line of mails, given out in the order they were put.            *)
(***************************************************************************)
EXTENDS Mailbox, KernelProofs

-----------------------------------------------------------------------------
(* The inductive invariant.                                                *)

RecvTries(t) == TriesAgain(t, receivers, "r_wait", "r_woken", "r_retry")
SendTries(t) == TriesAgain(t, senders, "s_wait", "s_woken", "s_retry")

\* Who runs: tidle never blocks, the scheduler is never locked, and the running
\* thread is ready except between its suspension and the rt_schedule() that
\* follows.
Running ==
  /\ k.stat[Idle] = "ready" /\ k.nest = 0
  /\ k.stat[k.cur] = "ready" \/ pc[k.cur] \in {"s_wait", "r_wait"}

\* The suspended threads are those of the two lists; each is inside the call
\* whose list it is in and has no error yet.
Waiting ==
  /\ \A t \in Thread : k.stat[t] = "suspend" => t \in receivers \cup senders
  /\ \A t \in receivers : pc[t] \in {"r_wait", "r_woken"} /\ k.err[t] = "eok"
  /\ \A t \in senders : pc[t] \in {"s_wait", "s_woken"} /\ k.err[t] = "eok"

IInv ==
  /\ TypeOK /\ KInv(k)
  /\ Running
  /\ Waiting
  /\ NoLostWakeup

\* The parameters, without what threads and handlers send.
LEMMA Parameters ==
  /\ MB # MBSender /\ Queue = {MB, MBSender}
  /\ InitPrio \in [Thread -> Prio]
  /\ Size \in 1 .. (2^16 - 1)
  /\ Blank \in Mail \cup {Null}
BY MailboxAssumption, Zenon

\* Facts every step starts from.
LEMMA IInvFacts ==
  ASSUME IInv
  PROVE  /\ k \in KernelState /\ KInv(k) /\ Idle \in Thread
         /\ IsFiniteSet(Thread)
         /\ MB \in Queue /\ MBSender \in Queue /\ MB # MBSender
         /\ Queue = {MB, MBSender}
         /\ k.cur \in Thread /\ k.nest = 0 /\ k.stat[Idle] = "ready"
         /\ k.wait \in [Queue -> Seq(Thread)]
         /\ receivers \subseteq Thread /\ senders \subseteq Thread
         /\ receivers \cap senders = {}
         /\ k.stat \in [Thread -> Stat] /\ k.err \in [Thread -> Err]
         /\ pc \in [Thread -> PC]
         /\ \A t \in Thread : t \in receivers \cup senders <=>
                                k.stat[t] = "suspend"
         /\ Size \in Nat /\ Size > 0
         /\ mb.entry \in Nat /\ mb.entry <= Size
<1>1. /\ k \in KernelState /\ KInv(k) /\ Idle \in Thread /\ IsFiniteSet(Thread)
      /\ MB \in Queue /\ MBSender \in Queue /\ MB # MBSender
      /\ Queue = {MB, MBSender} /\ k.nest = 0 /\ k.stat[Idle] = "ready"
      /\ pc \in [Thread -> PC] /\ Size \in Nat /\ Size > 0
  BY KernelAssumption, Parameters DEF IInv, TypeOK, Running
<1>2. /\ k.cur \in Thread /\ k.wait \in [Queue -> Seq(Thread)]
      /\ k.stat \in [Thread -> Stat] /\ k.err \in [Thread -> Err]
  BY <1>1 DEF KernelState
<1>3. mb.entry \in 0 .. Size
  BY DEF IInv, TypeOK
<1>4. receivers \subseteq Thread /\ senders \subseteq Thread
  BY <1>1, <1>2, ListElements DEF receivers, senders
<1>5. \A t \in Thread : t \in receivers => t \notin senders
  BY <1>1 DEF KInv, WaitLists, receivers, senders
<1>6. \A t \in Thread : t \in receivers \cup senders <=> k.stat[t] = "suspend"
  BY <1>1 DEF IInv, Waiting, KInv, WaitLists, receivers, senders
<1> QED BY <1>1, <1>2, <1>3, <1>4, <1>5, <1>6

\* The running thread is in no list once it has called rt_schedule().
LEMMA RunningThread ==
  ASSUME IInv, pc[k.cur] \notin {"s_wait", "r_wait"}
  PROVE  /\ k.stat[k.cur] = "ready"
         /\ k.cur \notin receivers /\ k.cur \notin senders
<1>1. k.stat[k.cur] = "ready"
  BY DEF IInv, Running
<1> QED BY <1>1, IInvFacts

\* The initial state.
LEMMA InitIInv == Init => IInv
<1> SUFFICES ASSUME Init PROVE IInv
  OBVIOUS
<1> USE KernelAssumption, Parameters
<1>1. /\ k \in KernelState /\ KInv(k)
      /\ k.stat = [t \in Thread |-> IF t = Idle THEN "ready" ELSE "init"]
      /\ \A q \in Queue : ToSet(k.wait[q]) = {}
      /\ k.cur = Idle /\ k.nest = 0
  BY StartedKernel DEF Init
<1>2. mb \in [msg_pool : [0 .. Size - 1 -> MailOrNull], entry : 0 .. Size,
              in_offset : 0 .. Size - 1, out_offset : 0 .. Size - 1]
  BY DEF Init, MailOrNull
<1>3. TypeOK
  BY <1>1, <1>2 DEF Init, TypeOK, PC, Limit, MailOrNull
<1>4. receivers = {} /\ senders = {}
  BY <1>1 DEF receivers, senders
<1>5. Running
  BY <1>1 DEF Running
<1>6. Waiting
  BY <1>1, <1>4 DEF Waiting
<1>7. NoLostWakeup
  BY <1>1, <1>3, <1>4 DEF NoLostWakeup, NoLostMail, NoLostRoom
<1> QED BY <1>1, <1>3, <1>5, <1>6, <1>7 DEF IInv

-----------------------------------------------------------------------------
(* Wake-ups.                                                               *)

\* What a step owes to the receivers: only the thread t begins or stops trying;
\* and if receivers wait after the step then there is no mail, or as many mails
\* were taken as threads stopped trying, or the step that put a mail made t try.
LEMMA MailKept ==
  ASSUME IInv, TypeOK', KInv(k'), NEW t \in Thread,
         \A u \in Thread \ {t} : RecvTries(u)' <=> RecvTries(u),
         receivers' # {} =>
           \/ mb'.entry = 0
           \/ /\ receivers # {}
              /\ \/ mb'.entry = mb.entry - 1
                 \/ mb'.entry = mb.entry /\ (RecvTries(t) => RecvTries(t)')
                 \/ /\ mb'.entry = mb.entry + 1
                    /\ ~RecvTries(t) /\ RecvTries(t)'
  PROVE  NoLostMail'
<1> DEFINE S == {u \in Thread : RecvTries(u)}
           R == {u \in Thread : RecvTries(u)'}
<1>1. /\ IsFiniteSet(S) /\ R \ {t} = S \ {t}
      /\ t \in S <=> RecvTries(t)
      /\ t \in R <=> RecvTries(t)'
  BY IInvFacts, FS_Subset
<1>2. mb.entry \in Nat /\ mb'.entry \in Nat
  BY IInvFacts, Parameters DEF TypeOK
<1>3. receivers # {} => mb.entry <= Cardinality(S)
  BY DEF IInv, NoLostWakeup, NoLostMail, RecvTries
<1>4. IsFiniteSet(R) /\ Cardinality(R) \in Nat
  BY IInvFacts, FS_Subset, FS_CardinalityType
<1> HIDE DEF S, R
<1>5. receivers' # {} => mb'.entry <= Cardinality(R)
  <2>1. CASE mb'.entry = 0
    BY <1>4, <2>1
  <2>2. CASE receivers' # {} /\ mb'.entry # 0
    <3> DEFINE b == mb'.entry
               a == mb.entry
    <3>1. /\ a \in Nat /\ b \in Nat /\ a <= Cardinality(S)
          /\ \/ b = a - 1
             \/ b = a /\ (t \in S => t \in R)
             \/ b = a + 1 /\ t \notin S /\ t \in R
      BY <1>1, <1>2, <1>3, <2>2
    <3> HIDE DEF a, b
    <3>2. b <= Cardinality(R)
      BY ONLY <1>1, <3>1, CountKept
    <3> QED BY <3>2 DEF b
  <2> QED BY <2>1, <2>2
<1>6. R = {u \in Thread : TriesAgain(u, receivers, "r_wait", "r_woken", "r_retry")'}
  BY DEF R, RecvTries
<1> QED BY <1>5, <1>6 DEF NoLostMail

\* The same for the senders and the free places.
LEMMA RoomKept ==
  ASSUME IInv, TypeOK', NEW t \in Thread,
         \A u \in Thread \ {t} : SendTries(u)' <=> SendTries(u),
         senders' # {} =>
           \/ mb'.entry = Size
           \/ /\ senders # {}
              /\ \/ mb'.entry = mb.entry + 1
                 \/ mb'.entry = mb.entry /\ (SendTries(t) => SendTries(t)')
                 \/ /\ mb'.entry = mb.entry - 1
                    /\ ~SendTries(t) /\ SendTries(t)'
  PROVE  NoLostRoom'
<1> DEFINE S == {u \in Thread : SendTries(u)}
           R == {u \in Thread : SendTries(u)'}
<1>1. /\ IsFiniteSet(S) /\ R \ {t} = S \ {t}
      /\ t \in S <=> SendTries(t)
      /\ t \in R <=> SendTries(t)'
  BY IInvFacts, FS_Subset
<1>2. /\ mb.entry \in Nat /\ mb'.entry \in Nat /\ Size \in Nat
      /\ mb.entry <= Size /\ mb'.entry <= Size
  BY IInvFacts, Parameters DEF TypeOK
<1>3. senders # {} => Size - mb.entry <= Cardinality(S)
  BY DEF IInv, NoLostWakeup, NoLostRoom, SendTries
<1>4. IsFiniteSet(R) /\ Cardinality(R) \in Nat
  BY IInvFacts, FS_Subset, FS_CardinalityType
<1> HIDE DEF S, R
<1>5. senders' # {} => Size - mb'.entry <= Cardinality(R)
  <2>1. CASE mb'.entry = Size
    BY <1>2, <1>4, <2>1
  <2>2. CASE senders' # {} /\ mb'.entry # Size
    <3> DEFINE b == Size - mb'.entry
               a == Size - mb.entry
    <3>1. /\ a \in Nat /\ b \in Nat /\ a <= Cardinality(S)
          /\ \/ b = a - 1
             \/ b = a /\ (t \in S => t \in R)
             \/ b = a + 1 /\ t \notin S /\ t \in R
      BY <1>1, <1>2, <1>3, <2>2
    <3> HIDE DEF a, b
    <3>2. b <= Cardinality(R)
      BY ONLY <1>1, <3>1, CountKept
    <3> QED BY <3>2 DEF b
  <2> QED BY <2>1, <2>2
<1>6. R = {u \in Thread : TriesAgain(u, senders, "s_wait", "s_woken", "s_retry")'}
  BY DEF R, SendTries
<1> QED BY <1>5, <1>6 DEF NoLostRoom
-----------------------------------------------------------------------------
(* Steps.                                                                  *)

\* What is sent is mail.
LEMMA SentMail ==
  /\ \A t \in Thread : Sends[t] \subseteq Mail
  /\ IsrSends \subseteq Mail
  /\ Sends[Idle] = {} /\ Idle \notin Receiver
BY MailboxAssumption

\* The mailbox keeps its type.
LEMMA MailboxTypes ==
  ASSUME TypeOK
  PROVE  /\ \A v \in MailOrNull : mb.entry < Size =>
              put_mail(v) \in [msg_pool : [0 .. Size - 1 -> MailOrNull],
                               entry : 0 .. Size, in_offset : 0 .. Size - 1,
                               out_offset : 0 .. Size - 1]
         /\ mb.entry > 0 =>
              get_mail \in [msg_pool : [0 .. Size - 1 -> MailOrNull],
                            entry : 0 .. Size, in_offset : 0 .. Size - 1,
                            out_offset : 0 .. Size - 1]
         /\ emptied(mb) \in [msg_pool : [0 .. Size - 1 -> MailOrNull],
                             entry : 0 .. Size, in_offset : 0 .. Size - 1,
                             out_offset : 0 .. Size - 1]
         /\ mb.msg_pool[mb.out_offset] \in MailOrNull
<1>1. Size \in Nat /\ Size > 0
  BY Parameters
<1>2. mb \in [msg_pool : [0 .. Size - 1 -> MailOrNull], entry : 0 .. Size,
              in_offset : 0 .. Size - 1, out_offset : 0 .. Size - 1]
  BY DEF TypeOK
<1>3. \A o \in 0 .. Size - 1 : next_offset(o) \in 0 .. Size - 1
  BY <1>1 DEF next_offset
<1>4. mb.entry < Size => mb.entry + 1 \in 0 .. Size
  BY <1>1, <1>2
<1>5. mb.entry > 0 => mb.entry - 1 \in 0 .. Size
  BY <1>1, <1>2
<1>6. 0 \in 0 .. Size /\ 0 \in 0 .. Size - 1
  BY <1>1
<1>7. ASSUME NEW v \in MailOrNull, mb.entry < Size
      PROVE  put_mail(v) \in [msg_pool : [0 .. Size - 1 -> MailOrNull],
                              entry : 0 .. Size, in_offset : 0 .. Size - 1,
                              out_offset : 0 .. Size - 1]
  BY <1>2, <1>3, <1>4, <1>7 DEF put_mail
<1>8. ASSUME mb.entry > 0
      PROVE  get_mail \in [msg_pool : [0 .. Size - 1 -> MailOrNull],
                           entry : 0 .. Size, in_offset : 0 .. Size - 1,
                           out_offset : 0 .. Size - 1]
  BY <1>2, <1>3, <1>5, <1>8 DEF get_mail
<1>9. emptied(mb) \in [msg_pool : [0 .. Size - 1 -> MailOrNull],
                       entry : 0 .. Size, in_offset : 0 .. Size - 1,
                       out_offset : 0 .. Size - 1]
  BY <1>2, <1>6 DEF emptied
<1>10. mb.msg_pool[mb.out_offset] \in MailOrNull
  BY <1>2
<1> QED BY <1>7, <1>8, <1>9, <1>10

\* What is in the mailbox after each of them.
LEMMA MailboxEntry ==
  ASSUME TypeOK
  PROVE  /\ \A v : put_mail(v).entry = mb.entry + 1
         /\ get_mail.entry = mb.entry - 1
         /\ emptied(mb).entry = 0
BY DEF TypeOK, put_mail, get_mail, emptied

\* The kernel invariants of a step together.
LEMMA Assembled ==
  ASSUME TypeOK', KInv(k'), Running', Waiting', NoLostMail', NoLostRoom'
  PROVE  IInv'
BY DEF IInv, NoLostWakeup

\* A step that ends with rt_schedule().
LEMMA Scheduled ==
  ASSUME NEW m \in KernelState, KInv(m), m.stat[Idle] = "ready", m.nest = 0,
         k' = rt_schedule(m)
  PROVE  k' \in KernelState /\ KInv(k') /\ SameThreads(m, k') /\ Running'
<1>1. /\ k' \in KernelState /\ KInv(k') /\ SameThreads(m, k') /\ Settled(k')
  BY AfterSchedule
<1>2. Running'
  BY <1>1 DEF Running, SameThreads, Settled
<1> QED BY <1>1, <1>2

\* A step that leaves the ring, the lists and who is suspended alone.
LEMMA QuietStep ==
  ASSUME IInv, TypeOK', KInv(k'), Running', NEW t \in Thread,
         mb' = mb, k'.wait = k.wait,
         \A u \in Thread : k'.stat[u] = "suspend" => k.stat[u] = "suspend",
         \A u \in Thread \ {t} : pc'[u] = pc[u] /\ k'.err[u] = k.err[u],
         \/ pc'[t] = pc[t] /\ k'.err[t] = k.err[t]
         \/ pc[t] = "s_wait" /\ pc'[t] = "s_woken" /\ k'.err[t] = k.err[t]
         \/ pc[t] = "r_wait" /\ pc'[t] = "r_woken" /\ k'.err[t] = k.err[t]
         \/ /\ t \notin receivers /\ t \notin senders
            /\ RecvTries(t) => pc'[t] = "r_retry" \/ mb.entry = 0
            /\ SendTries(t) => pc'[t] = "s_retry" \/ mb.entry = Size
  PROVE  IInv'
<1> USE IInvFacts
<1>1. receivers' = receivers /\ senders' = senders
  BY DEF receivers, senders
<1>2. Waiting'
  BY <1>1 DEF IInv, Waiting
<1>3. \A u \in Thread \ {t} : /\ RecvTries(u)' <=> RecvTries(u)
                              /\ SendTries(u)' <=> SendTries(u)
  BY <1>1 DEF RecvTries, SendTries, TriesAgain
<1>4. RecvTries(t) => RecvTries(t)' \/ mb.entry = 0
  BY <1>1 DEF RecvTries, TriesAgain
<1>5. SendTries(t) => SendTries(t)' \/ mb.entry = Size
  BY <1>1 DEF SendTries, TriesAgain
<1>6. NoLostMail'
  BY <1>1, <1>3, <1>4, MailKept
<1>7. NoLostRoom'
  BY <1>1, <1>3, <1>5, RoomKept
<1> QED BY <1>2, <1>6, <1>7, Assembled
\* rt_thread_startup, the rt_schedule() calls and the end of a time slice.
LEMMA ScheduleSteps ==
  ASSUME IInv, NEW t \in Thread,
         \/ \E new \in Thread : Startup(t, new)
         \/ WaitSchedule(t) \/ Schedule(t) \/ TickYield \/ UNCHANGED vars
  PROVE  IInv'
<1> USE IInvFacts
<1>1. CASE \E new \in Thread : Startup(t, new)
  <2>1. PICK new \in Thread : Startup(t, new)
    BY <1>1
  <2>2. /\ k.stat[new] = "init" /\ InitPrio[new] \in Prio
        /\ k' = rt_thread_startup(k, new, InitPrio[new])
        /\ k.cur = t /\ pc[t] = "run" /\ pc' = [pc EXCEPT ![t] = "sched"]
        /\ UNCHANGED <<mb, time, value, got>>
    BY <2>1, Parameters DEF Startup
  <2>3. /\ k' \in KernelState /\ KInv(k')
        /\ k'.stat = [k.stat EXCEPT ![new] = "ready"]
        /\ k'.err = k.err /\ k'.wait = k.wait
        /\ k'.cur = k.cur /\ k'.nest = k.nest
    <3> DEFINE r == rt_thread_startup(k, new, InitPrio[new])
    <3>1. /\ r \in KernelState /\ KInv(r)
          /\ r.stat = [k.stat EXCEPT ![new] = "ready"]
          /\ r.err = k.err /\ r.wait = k.wait
          /\ r.cur = k.cur /\ r.nest = k.nest
      <4>1. /\ k \in KernelState /\ KInv(k)
            /\ k.stat[new] = "init" /\ InitPrio[new] \in Prio
        BY <2>2
      <4>9. Started(k, new, InitPrio[new], r)
        BY ONLY <4>1, StartupStarts, new \in Thread
      <4> QED BY ONLY <4>9 DEF Started
    <3> HIDE DEF r
    <3> QED BY <2>2, <3>1 DEF r
  <2>4. k.stat[t] = "ready" /\ t \notin receivers /\ t \notin senders
    BY <2>2, RunningThread
  <2>5. TypeOK'
    BY <2>2, <2>3 DEF IInv, TypeOK, PC
  <2>6. Running'
    BY <2>2, <2>3, <2>4 DEF Running
  <2>7. ~RecvTries(t) /\ ~SendTries(t)
    BY <2>2 DEF RecvTries, SendTries, TriesAgain
  <2> QED BY <2>2, <2>3, <2>4, <2>5, <2>6, <2>7, QuietStep
<1>2. CASE WaitSchedule(t) \/ Schedule(t) \/ TickYield
  <2>1. k' = rt_schedule(k) /\ UNCHANGED <<mb, time, value, got>>
    BY <1>2 DEF WaitSchedule, Schedule, TickYield
  <2>2. k' \in KernelState /\ KInv(k') /\ SameThreads(k, k') /\ Running'
    BY <2>1, Scheduled
  <2>3. \/ /\ pc[t] \in {"s_wait", "r_wait"}
           /\ pc' = [pc EXCEPT ![t] = IF pc[t] = "s_wait" THEN "s_woken"
                                      ELSE "r_woken"]
        \/ k.cur = t /\ pc[t] = "sched" /\ pc' = [pc EXCEPT ![t] = "run"]
        \/ pc' = pc
    BY <1>2 DEF WaitSchedule, Schedule, TickYield
  <2>4. TypeOK'
    BY <2>1, <2>2, <2>3 DEF IInv, TypeOK, PC
  <2>5. pc[t] = "sched" => ~RecvTries(t) /\ ~SendTries(t)
    BY DEF RecvTries, SendTries, TriesAgain
  <2>6. k.cur = t /\ pc[t] = "sched" => t \notin receivers /\ t \notin senders
    BY RunningThread
  <2> QED BY <2>1, <2>2, <2>3, <2>4, <2>5, <2>6, QuietStep DEF SameThreads
<1>3. CASE UNCHANGED vars
  <2>1. TypeOK' /\ KInv(k') /\ Running' /\ Waiting'
    BY <1>3 DEF vars, IInv, TypeOK, Running, Waiting, receivers, senders
  <2>2. NoLostMail' /\ NoLostRoom'
    BY <1>3, <2>1 DEF vars, IInv, NoLostWakeup, NoLostMail, NoLostRoom,
                      receivers, senders, TriesAgain
  <2> QED BY <2>1, <2>2, Assembled
<1> QED BY <1>1, <1>2, <1>3

\* A call that fails, and a thread that wakes up.
LEMMA LocalSteps ==
  ASSUME IInv, NEW t \in Thread,
         SendFail(t) \/ RecvFail(t) \/ \E left \in Limit : Woken(t, left)
  PROVE  IInv'
<1> USE IInvFacts
<1>1. /\ k.cur = t /\ pc[t] \notin {"s_wait", "r_wait"} /\ mb' = mb
      /\ k.stat[t] = "ready" /\ t \notin receivers /\ t \notin senders
  BY RunningThread DEF SendFail, RecvFail, Woken
<1>2. CASE SendFail(t) \/ RecvFail(t)
  <2>1. PICK e \in Err : k' = [k EXCEPT !.err[t] = e]
    BY <1>2 DEF SendFail, RecvFail, Err
  <2>2. /\ k' \in KernelState /\ KInv(k') /\ k'.stat = k.stat
        /\ k'.wait = k.wait /\ k'.cur = k.cur /\ k'.nest = k.nest
        /\ k'.err = [k.err EXCEPT ![t] = e]
    <3> DEFINE r == [k EXCEPT !.err[t] = e]
    <3>1. /\ r \in KernelState /\ KInv(r) /\ r.stat = k.stat
          /\ r.wait = k.wait /\ r.cur = k.cur /\ r.nest = k.nest
          /\ r.err = [k.err EXCEPT ![t] = e]
      <4>1. k \in KernelState /\ KInv(k) /\ e \in Err
        OBVIOUS
      <4> QED BY ONLY <4>1, SetError, t \in Thread
    <3> HIDE DEF r
    <3> QED BY <2>1, <3>1 DEF r
  <2>3. /\ pc' = [pc EXCEPT ![t] = "run"]
        /\ \/ pc[t] = "s_retry" /\ mb.entry = Size
           \/ pc[t] = "r_retry" /\ mb.entry = 0
        /\ time' = time /\ got' = got
        /\ value' \in {value, [value EXCEPT ![t] = Null]}
    BY <1>2 DEF SendFail, RecvFail
  <2>4. TypeOK'
    BY <1>1, <2>2, <2>3 DEF IInv, TypeOK, PC, MailOrNull
  <2>5. Running'
    BY <1>1, <2>2 DEF Running
  <2>6. /\ RecvTries(t) => mb.entry = 0
        /\ SendTries(t) => mb.entry = Size
    BY <2>3 DEF RecvTries, SendTries, TriesAgain
  <2>7. \A u \in Thread \ {t} : pc'[u] = pc[u] /\ k'.err[u] = k.err[u]
    BY <2>2, <2>3
  <2> QED BY <1>1, <2>2, <2>4, <2>5, <2>6, <2>7, QuietStep
<1>3. ASSUME NEW left \in Limit, Woken(t, left)
      PROVE  IInv'
  <2>1. /\ k' = k /\ mb' = mb /\ got' = got
        /\ pc[t] \in {"s_woken", "r_woken"}
        /\ time' = [time EXCEPT ![t] = left]
        /\ value' \in {value, [value EXCEPT ![t] = Null]}
    BY <1>3 DEF Woken
  <2>2. \/ k.err[t] # "eok" /\ pc' = [pc EXCEPT ![t] = "run"]
        \/ pc' = [pc EXCEPT ![t] = IF pc[t] = "s_woken" THEN "s_retry"
                                   ELSE "r_retry"]
    BY <1>3 DEF Woken
  <2>3. TypeOK'
    BY <2>1, <2>2 DEF IInv, TypeOK, PC, MailOrNull
  <2>4. Running'
    BY <1>1, <2>1 DEF IInv, Running
  <2>5. /\ RecvTries(t) => pc'[t] = "r_retry"
        /\ SendTries(t) => pc'[t] = "s_retry"
    BY <2>1, <2>2 DEF RecvTries, SendTries, TriesAgain
  <2>6. \A u \in Thread \ {t} : pc'[u] = pc[u] /\ k'.err[u] = k.err[u]
    BY <2>1, <2>2
  <2> QED BY <1>1, <2>1, <2>3, <2>4, <2>5, <2>6, QuietStep
<1> QED BY <1>2, <1>3

\* r is the kernel after the running thread t was suspended in the list q.
BlocksIn(t, q, r) ==
  /\ r \in KernelState /\ KInv(r)
  /\ r.stat = [k.stat EXCEPT ![t] = "suspend"]
  /\ r.err = [k.err EXCEPT ![t] = "eok"]
  /\ ToSet(r.wait[q]) = ToSet(k.wait[q]) \cup {t}
  /\ \A x \in Queue \ {q} : r.wait[x] = k.wait[x]
  /\ r.cur = t /\ r.nest = 0

\* A step that blocks the running thread t in the list q, by itself.
LEMMA BlockFacts ==
  ASSUME IInv, NEW t \in Thread, NEW q \in Queue, NEW limit, k.cur = t,
         k.stat[t] = "ready"
  PROVE  BlocksIn(t, q, blocked(t, q, limit))
<1> USE IInvFacts
<1> DEFINE k0 == [k EXCEPT !.err[t] = "eok"]
           k1 == rt_ipc_list_suspend(k0, q, t, MBFlag)
           k2 == rt_timer_start(k1, t)
           r  == blocked(t, q, limit)
<1>1. k0 \in KernelState /\ KInv(k0) /\ k0.stat = k.stat /\ k0.wait = k.wait
      /\ k0.cur = t /\ k0.nest = 0 /\ k0.err = [k.err EXCEPT ![t] = "eok"]
  <2>1. k \in KernelState /\ KInv(k) /\ "eok" \in Err
    BY DEF Err
  <2>2. /\ k0 \in KernelState /\ KInv(k0) /\ k0.stat = k.stat
        /\ k0.wait = k.wait /\ k0.cur = k.cur /\ k0.nest = k.nest
        /\ k0.err = [k.err EXCEPT ![t] = "eok"]
    BY ONLY <2>1, SetError, t \in Thread
  <2> HIDE DEF k0
  <2> QED BY <2>2
<1>2. k0.stat[k0.cur] = "ready"
  BY <1>1
<1>3. r = IF limit = "some" THEN k2 ELSE k1
  BY DEF blocked
<1> HIDE DEF k0, r
<1>4. Blocked(k0, q, k1)
  BY <1>1, <1>2, IpcSuspendKeeps
<1> HIDE DEF k1
<1>5. /\ k1 \in KernelState /\ KInv(k1)
      /\ k1.stat = [k.stat EXCEPT ![t] = "suspend"]
      /\ k1.err = [k.err EXCEPT ![t] = "eok"]
      /\ ToSet(k1.wait[q]) = ToSet(k.wait[q]) \cup {t}
      /\ \A x \in Queue \ {q} : k1.wait[x] = k.wait[x]
      /\ k1.cur = t /\ k1.nest = 0
  BY <1>1, <1>4 DEF Blocked
<1>6. k1.stat[t] = "suspend"
  BY <1>5
<1>7. /\ k2 \in KernelState /\ KInv(k2)
      /\ k2.stat = k1.stat /\ k2.err = k1.err /\ k2.wait = k1.wait
      /\ k2.cur = k1.cur /\ k2.nest = k1.nest
  BY <1>5, <1>6, StartTimer
<1> HIDE DEF k2
<1>8. /\ r \in KernelState /\ KInv(r)
      /\ r.stat = [k.stat EXCEPT ![t] = "suspend"]
      /\ r.err = [k.err EXCEPT ![t] = "eok"]
      /\ ToSet(r.wait[q]) = ToSet(k.wait[q]) \cup {t}
      /\ \A x \in Queue \ {q} : r.wait[x] = k.wait[x]
      /\ r.cur = t /\ r.nest = 0
  <2>1. CASE limit = "some"
    <3>1. r = k2
      BY <1>3, <2>1
    <3> QED BY <1>5, <1>7, <3>1
  <2>2. CASE limit # "some"
    <3>1. r = k1
      BY <1>3, <2>2
    <3> QED BY <1>5, <3>1
  <2> QED BY <2>1, <2>2
<1>9. BlocksIn(t, q, r)
  BY ONLY <1>8 DEF BlocksIn
<1> QED BY <1>9 DEF r

\* rt_mb_send_wait on a full ring and rt_mb_recv on an empty one.
LEMMA BlockSteps ==
  ASSUME IInv, NEW t \in Thread,
         \/ \E v \in Sends[t], limit \in Limit : SendBlock(t, v, limit)
         \/ \E limit \in Limit : RecvBlock(t, limit)
  PROVE  IInv'
<1> USE IInvFacts
<1>1. PICK limit \in Limit, q \in Queue :
        /\ k' = blocked(t, q, limit) /\ k.cur = t
        /\ pc[t] \in {"run", "s_retry", "r_retry"} /\ t # Idle
        /\ mb' = mb /\ got' = got
        /\ time' = [time EXCEPT ![t] = limit]
        /\ \/ /\ q = MBSender /\ mb.entry = Size
              /\ pc[t] # "r_retry" /\ pc' = [pc EXCEPT ![t] = "s_wait"]
              /\ \E v \in MailOrNull : value' = [value EXCEPT ![t] = v]
           \/ /\ q = MB /\ mb.entry = 0
              /\ pc[t] # "s_retry" /\ pc' = [pc EXCEPT ![t] = "r_wait"]
              /\ value' = value
  <2>1. CASE \E v \in Sends[t], limit \in Limit : SendBlock(t, v, limit)
    <3>1. PICK v \in Sends[t], limit \in Limit : SendBlock(t, v, limit)
      BY <2>1
    <3>2. v \in MailOrNull /\ t # Idle
      BY <3>1, SentMail DEF MailOrNull
    <3> QED BY <3>1, <3>2 DEF SendBlock, InSend
  <2>2. CASE \E limit \in Limit : RecvBlock(t, limit)
    BY <2>2, SentMail DEF RecvBlock, InRecv
  <2> QED BY <2>1, <2>2
<1>2. k.stat[t] = "ready" /\ t \notin receivers /\ t \notin senders
  BY <1>1, RunningThread
<1>3. /\ k' \in KernelState /\ KInv(k')
      /\ k'.stat = [k.stat EXCEPT ![t] = "suspend"]
      /\ k'.err = [k.err EXCEPT ![t] = "eok"]
      /\ ToSet(k'.wait[q]) = ToSet(k.wait[q]) \cup {t}
      /\ \A x \in Queue \ {q} : k'.wait[x] = k.wait[x]
      /\ k'.cur = t /\ k'.nest = 0
  <2>1. IInv /\ k.stat[t] = "ready" /\ k.cur = t /\ t \in Thread /\ q \in Queue
    BY <1>1, <1>2
  <2>2. BlocksIn(t, q, blocked(t, q, limit))
    BY ONLY <2>1, BlockFacts
  <2>3. k' = blocked(t, q, limit)
    BY <1>1
  <2>4. BlocksIn(t, q, k')
    BY ONLY <2>2, <2>3
  <2> QED BY ONLY <2>4 DEF BlocksIn
<1>4. TypeOK'
  <2>1. pc' \in [Thread -> PC]
    BY <1>1 DEF PC
  <2>2. value' \in [Thread -> MailOrNull] /\ time' \in [Thread -> Limit]
    BY <1>1 DEF IInv, TypeOK
  <2> QED BY <1>1, <1>3, <2>1, <2>2 DEF IInv, TypeOK
<1>5. pc'[t] \in {"s_wait", "r_wait"}
  BY <1>1
<1>6. Running'
  <2>1. t # Idle
    BY <1>1
  <2> QED BY <1>3, <1>5, <2>1 DEF Running
<1>7. CASE q = MB
  <2>1. /\ receivers' = receivers \cup {t} /\ senders' = senders
        /\ mb.entry = 0 /\ pc' = [pc EXCEPT ![t] = "r_wait"]
        /\ pc[t] # "s_retry"
    BY <1>1, <1>3, <1>7 DEF receivers, senders
  <2>2. Waiting'
    <3>1. \A u \in Thread : k'.stat[u] = "suspend" =>
                              u \in receivers' \cup senders'
      BY <1>3, <2>1
    <3>2. \A u \in Thread \ {t} : pc'[u] = pc[u] /\ k'.err[u] = k.err[u]
      BY <1>3, <2>1
    <3>3. pc'[t] = "r_wait" /\ k'.err[t] = "eok"
      BY <1>3, <2>1
    <3> QED BY <1>2, <2>1, <3>1, <3>2, <3>3 DEF IInv, Waiting
  <2>3. \A u \in Thread \ {t} : RecvTries(u)' <=> RecvTries(u)
    BY <1>3, <2>1 DEF RecvTries, TriesAgain
  <2>4. \A u \in Thread : SendTries(u)' <=> SendTries(u)
    BY <1>1, <1>3, <2>1 DEF SendTries, TriesAgain
  <2>5. NoLostMail'
    BY <1>1, <1>3, <1>4, <2>1, <2>3, MailKept
  <2>6. NoLostRoom'
    BY <1>1, <1>4, <2>1, <2>4, RoomKept
  <2> QED BY <1>3, <1>4, <1>6, <2>2, <2>5, <2>6, Assembled
<1>8. CASE q = MBSender
  <2>1. /\ senders' = senders \cup {t} /\ receivers' = receivers
        /\ mb.entry = Size /\ pc' = [pc EXCEPT ![t] = "s_wait"]
        /\ pc[t] # "r_retry"
    BY <1>1, <1>3, <1>8 DEF receivers, senders
  <2>2. Waiting'
    <3>1. \A u \in Thread : k'.stat[u] = "suspend" =>
                              u \in receivers' \cup senders'
      BY <1>3, <2>1
    <3>2. \A u \in Thread \ {t} : pc'[u] = pc[u] /\ k'.err[u] = k.err[u]
      BY <1>3, <2>1
    <3>3. pc'[t] = "s_wait" /\ k'.err[t] = "eok"
      BY <1>3, <2>1
    <3> QED BY <1>2, <2>1, <3>1, <3>2, <3>3 DEF IInv, Waiting
  <2>3. \A u \in Thread \ {t} : SendTries(u)' <=> SendTries(u)
    BY <1>3, <2>1 DEF SendTries, TriesAgain
  <2>4. \A u \in Thread : RecvTries(u)' <=> RecvTries(u)
    BY <1>1, <1>3, <2>1 DEF RecvTries, TriesAgain
  <2>5. NoLostMail'
    BY <1>1, <1>3, <1>4, <2>1, <2>4, MailKept
  <2>6. NoLostRoom'
    BY <1>1, <1>4, <2>1, <2>3, RoomKept
  <2> QED BY <1>3, <1>4, <1>6, <2>2, <2>5, <2>6, Assembled
<1> QED BY <1>7, <1>8

\* Resuming the first thread of a list, if there is one.
LEMMA WakeFacts ==
  ASSUME IInv, NEW q \in Queue
  PROVE  LET m == wake_first(q) IN
         /\ m \in KernelState /\ KInv(m) /\ m.stat[Idle] = "ready"
         /\ m.nest = 0 /\ m.cur = k.cur /\ m.err = k.err
         /\ ToSet(k.wait[q]) = {} => m = k
         /\ ToSet(k.wait[q]) # {} =>
              \E w \in Thread :
                /\ w \in ToSet(k.wait[q])
                /\ m.stat = [k.stat EXCEPT ![w] = "ready"]
                /\ ToSet(m.wait[q]) = ToSet(k.wait[q]) \ {w}
                /\ \A x \in Queue \ {q} : ToSet(m.wait[x]) = ToSet(k.wait[x])
<1> USE IInvFacts
<1> DEFINE m == wake_first(q)
<1>1. k.wait[q] \in Seq(Thread)
  OBVIOUS
<1>2. k.wait[q] = << >> <=> ToSet(k.wait[q]) = {}
  BY <1>1, EmptyList
<1>3. CASE ToSet(k.wait[q]) = {}
  <2>1. m = k
    BY <1>2, <1>3 DEF wake_first
  <2> QED BY <1>3, <2>1 DEF Running
<1>4. CASE ToSet(k.wait[q]) # {}
  <2>1. PICK w : w = Head(k.wait[q])
    OBVIOUS
  <2>2. w \in ToSet(k.wait[q]) /\ w \in Thread
    BY <1>1, <1>4, <2>1, HeadInList
  <2>3. k.stat[w] = "suspend"
    BY <2>2 DEF KInv, WaitLists
  <2>4. m = rt_thread_resume(k, w)
    BY <1>2, <1>4, <2>1 DEF wake_first, rt_ipc_list_resume
  <2> HIDE DEF m
  <2>5. WokenUp(k, w, m)
    <3>1. k \in KernelState /\ KInv(k)
      OBVIOUS
    <3>2. WokenUp(k, w, rt_thread_resume(k, w))
      BY ONLY <2>2, <2>3, <3>1, ResumeKeeps
    <3> QED BY <2>4, <3>2
  <2>6. /\ m \in KernelState /\ KInv(m) /\ m.nest = 0 /\ m.cur = k.cur
        /\ m.err = k.err /\ m.stat = [k.stat EXCEPT ![w] = "ready"]
        /\ \A x \in Queue : ToSet(m.wait[x]) = ToSet(k.wait[x]) \ {w}
    BY <2>5 DEF WokenUp
  <2>7. ASSUME NEW x \in Queue \ {q}
        PROVE  ToSet(m.wait[x]) = ToSet(k.wait[x])
    <3>1. w \notin ToSet(k.wait[x])
      BY <2>2 DEF KInv, WaitLists
    <3>2. ToSet(m.wait[x]) = ToSet(k.wait[x]) \ {w}
      BY <2>6
    <3> QED BY ONLY <3>1, <3>2
  <2>8. m.stat[Idle] = "ready"
    BY <2>6
  <2> QED BY <1>4, <2>2, <2>6, <2>7, <2>8 DEF m
<1> QED BY <1>3, <1>4
\* A mail is put and the first receiver, if there is one, is resumed: by a
\* thread t that is about to return, or by an interrupt handler.
LEMMA PutKeeps ==
  ASSUME IInv, NEW t \in Thread, NEW v \in MailOrNull, mb.entry < Size,
         mb' = put_mail(v), TypeOK', KInv(k'), Running',
         k'.stat = wake_first(MB).stat, k'.err = wake_first(MB).err,
         k'.wait = wake_first(MB).wait,
         \A u \in Thread \ {t} : pc'[u] = pc[u],
         \/ pc'[t] = pc[t]
         \/ /\ pc[t] \in {"run", "s_retry"} /\ pc'[t] \in {"run", "sched"}
            /\ t \notin receivers /\ t \notin senders
  PROVE  IInv'
<1> USE IInvFacts
<1>1. mb'.entry = mb.entry + 1
  BY MailboxEntry DEF IInv
<1>2. CASE receivers = {}
  <2>1. k'.stat = k.stat /\ k'.err = k.err /\ k'.wait = k.wait
    BY <1>2, WakeFacts DEF receivers
  <2>2. receivers' = {} /\ senders' = senders
    BY <1>2, <2>1 DEF receivers, senders
  <2>3. Waiting'
    BY <1>2, <2>1, <2>2 DEF IInv, Waiting
  <2>4. \A u \in Thread \ {t} : SendTries(u)' <=> SendTries(u)
    BY <2>1, <2>2 DEF SendTries, TriesAgain
  <2>5. \A u \in Thread \ {t} : RecvTries(u)' <=> RecvTries(u)
    BY <1>2, <2>1, <2>2 DEF RecvTries, TriesAgain
  <2>6. NoLostMail'
    BY <2>2, <2>5, MailKept
  <2>7. NoLostRoom'
    BY <1>1, <2>2, <2>4, RoomKept
  <2> QED BY <2>3, <2>6, <2>7, Assembled
<1>3. CASE receivers # {}
  <2>1. PICK w \in Thread :
          /\ w \in receivers
          /\ k'.stat = [k.stat EXCEPT ![w] = "ready"]
          /\ k'.err = k.err
          /\ receivers' = receivers \ {w} /\ senders' = senders
    <3> DEFINE m == wake_first(MB)
    <3>1. /\ m.err = k.err
          /\ \E w \in Thread :
                /\ w \in ToSet(k.wait[MB])
                /\ m.stat = [k.stat EXCEPT ![w] = "ready"]
                /\ ToSet(m.wait[MB]) = ToSet(k.wait[MB]) \ {w}
                /\ \A x \in Queue \ {MB} : ToSet(m.wait[x]) = ToSet(k.wait[x])
      BY <1>3, WakeFacts DEF receivers
    <3> HIDE DEF m
    <3>2. k'.stat = m.stat /\ k'.err = m.err /\ k'.wait = m.wait
      BY DEF m
    <3>3. MBSender \in Queue \ {MB}
      OBVIOUS
    <3> QED BY ONLY <3>1, <3>2, <3>3 DEF receivers, senders
  <2>2. pc[w] \in {"r_wait", "r_woken"} /\ k.err[w] = "eok" /\ pc'[w] = pc[w]
    BY <2>1 DEF IInv, Waiting
  <2>3. Waiting'
    <3>1. \A u \in Thread : k'.stat[u] = "suspend" =>
                              u # w /\ k.stat[u] = "suspend"
      BY <2>1
    <3>2. \A u \in Thread : k'.stat[u] = "suspend" =>
                              u \in receivers' \cup senders'
      BY <2>1, <3>1
    <3>3. \A u \in receivers \cup senders : pc'[u] = pc[u] /\ k'.err[u] = k.err[u]
      BY <2>1
    <3> QED BY <2>1, <3>2, <3>3 DEF IInv, Waiting
  <2>4. ~RecvTries(w) /\ RecvTries(w)'
    BY <2>1, <2>2 DEF RecvTries, TriesAgain
  <2>5. \A u \in Thread \ {w} : RecvTries(u)' <=> RecvTries(u)
    BY <2>1 DEF RecvTries, TriesAgain
  <2>6. \A u \in Thread \ {t} : SendTries(u)' <=> SendTries(u)
    BY <2>1 DEF SendTries, TriesAgain
  <2>7. NoLostMail'
    BY <1>1, <1>3, <2>4, <2>5, MailKept
  <2>8. NoLostRoom'
    BY <1>1, <2>1, <2>6, RoomKept
  <2> QED BY <2>3, <2>7, <2>8, Assembled
<1> QED BY <1>2, <1>3

\* rt_mb_send and rt_mb_send_wait with room in the ring.
LEMMA PutSteps ==
  ASSUME IInv, NEW t \in Thread,
         \/ \E v \in Sends[t] : SendPut(t, v)
         \/ \E v \in IsrSends : IsrSend(v)
  PROVE  IInv'
<1> USE IInvFacts
<1> DEFINE m == wake_first(MB)
<1>1. /\ m \in KernelState /\ KInv(m) /\ m.stat[Idle] = "ready"
      /\ m.nest = 0 /\ m.cur = k.cur
      /\ m.stat[k.cur] = k.stat[k.cur] \/ m.stat[k.cur] = "ready"
      /\ receivers = {} => m = k
  BY WakeFacts DEF receivers
<1> HIDE DEF m
<1>2. ASSUME NEW v \in Sends[t], SendPut(t, v)
      PROVE  IInv'
  <2>1. /\ k.cur = t /\ pc[t] \in {"run", "s_retry"} /\ mb.entry < Size
        /\ mb' = put_mail(v) /\ k' = m
        /\ \E p \in {"run", "sched"} : pc' = [pc EXCEPT ![t] = p]
        /\ time' = [time EXCEPT ![t] = "zero"]
        /\ value' = [value EXCEPT ![t] = Null] /\ got' = got
    BY <1>2 DEF SendPut, InSend, then_schedule, m
  <2>2. v \in MailOrNull /\ Null \in MailOrNull /\ "zero" \in Limit
    BY SentMail DEF MailOrNull, Limit
  <2>3. k.stat[t] = "ready" /\ t \notin receivers /\ t \notin senders
    BY <2>1, RunningThread
  <2>4. TypeOK'
    <3>1. mb' \in [msg_pool : [0 .. Size - 1 -> MailOrNull],
                   entry : 0 .. Size, in_offset : 0 .. Size - 1,
                   out_offset : 0 .. Size - 1]
      BY <2>1, <2>2, MailboxTypes DEF IInv
    <3>2. pc' \in [Thread -> PC]
      BY <2>1 DEF PC
    <3>3. value' \in [Thread -> MailOrNull] /\ time' \in [Thread -> Limit]
      BY <2>1, <2>2 DEF IInv, TypeOK
    <3> QED BY <1>1, <2>1, <3>1, <3>2, <3>3 DEF IInv, TypeOK
  <2>5. Running' /\ KInv(k')
    BY <1>1, <2>1, <2>3 DEF Running
  <2> QED BY <2>1, <2>2, <2>3, <2>4, <2>5, PutKeeps DEF m
<1>3. ASSUME NEW v \in IsrSends, IsrSend(v)
      PROVE  IInv'
  <2>1. /\ mb.entry < Size /\ mb' = put_mail(v)
        /\ UNCHANGED <<pc, time, value, got>>
        /\ \/ k' = rt_schedule(m)
           \/ k' = k /\ m = k
    <3>1. CASE receivers # {}
      <4>1. k.wait[MB] # << >>
        BY <3>1, EmptyList DEF receivers
      <4> QED BY <1>3, <3>1, <4>1 DEF IsrSend, m, wake_first
    <3>2. CASE receivers = {}
      BY <1>1, <1>3, <3>2 DEF IsrSend
    <3> QED BY <3>1, <3>2
  <2>2. v \in MailOrNull
    BY SentMail DEF MailOrNull
  <2>3. /\ k' \in KernelState /\ KInv(k') /\ Running'
        /\ k'.stat = m.stat /\ k'.err = m.err /\ k'.wait = m.wait
    <3>1. CASE k' = rt_schedule(m)
      BY <1>1, <3>1, Scheduled DEF SameThreads
    <3>2. CASE k' = k /\ m = k
      BY <2>1, <3>2 DEF IInv, Running
    <3> QED BY <2>1, <3>1, <3>2
  <2>4. TypeOK'
    <3>1. mb' \in [msg_pool : [0 .. Size - 1 -> MailOrNull],
                   entry : 0 .. Size, in_offset : 0 .. Size - 1,
                   out_offset : 0 .. Size - 1]
      BY <2>1, <2>2, MailboxTypes DEF IInv
    <3> QED BY <2>1, <2>3, <3>1 DEF IInv, TypeOK
  <2> QED BY <2>1, <2>2, <2>3, <2>4, PutKeeps DEF m
<1> QED BY <1>2, <1>3
\* rt_mb_recv with a mail in the ring: the first sender, if there is one, is
\* resumed.
LEMMA TakeSteps ==
  ASSUME IInv, NEW t \in Thread, RecvTake(t)
  PROVE  IInv'
<1> USE IInvFacts
<1> DEFINE m == wake_first(MBSender)
<1>1. /\ m \in KernelState /\ KInv(m) /\ m.stat[Idle] = "ready"
      /\ m.nest = 0 /\ m.cur = k.cur /\ m.err = k.err
      /\ m.stat[k.cur] = k.stat[k.cur] \/ m.stat[k.cur] = "ready"
      /\ senders = {} => m = k
      /\ senders # {} =>
           \E w \in Thread :
             /\ w \in senders
             /\ m.stat = [k.stat EXCEPT ![w] = "ready"]
             /\ ToSet(m.wait[MBSender]) = senders \ {w}
             /\ \A x \in Queue \ {MBSender} : ToSet(m.wait[x]) = ToSet(k.wait[x])
  BY WakeFacts DEF senders
<1> HIDE DEF m
<1>2. /\ k.cur = t /\ pc[t] \in {"run", "r_retry"} /\ mb.entry > 0
      /\ mb' = get_mail /\ k' = m
      /\ \E p \in {"run", "sched"} : pc' = [pc EXCEPT ![t] = p]
      /\ time' = [time EXCEPT ![t] = "zero"] /\ value' = value
      /\ got' = [got EXCEPT ![t] = mb.msg_pool[mb.out_offset]]
  BY DEF RecvTake, InRecv, then_schedule, m
<1>3. k.stat[t] = "ready" /\ t \notin receivers /\ t \notin senders
  BY <1>2, RunningThread
<1>4. TypeOK'
  <2>1. /\ mb' \in [msg_pool : [0 .. Size - 1 -> MailOrNull],
                    entry : 0 .. Size, in_offset : 0 .. Size - 1,
                    out_offset : 0 .. Size - 1]
        /\ mb.msg_pool[mb.out_offset] \in MailOrNull
    BY <1>2, MailboxTypes DEF IInv
  <2>2. pc' \in [Thread -> PC] /\ "zero" \in Limit
    BY <1>2 DEF PC, Limit
  <2>3. got' \in [Thread -> MailOrNull] /\ time' \in [Thread -> Limit]
    BY <1>2, <2>1, <2>2 DEF IInv, TypeOK
  <2> QED BY <1>1, <1>2, <2>1, <2>2, <2>3 DEF IInv, TypeOK
<1>5. Running' /\ KInv(k')
  BY <1>1, <1>2, <1>3 DEF Running
<1>6. mb'.entry = mb.entry - 1
  BY <1>2, MailboxEntry DEF IInv
<1>7. \A u \in Thread \ {t} : pc'[u] = pc[u]
  BY <1>2
<1>8. CASE senders = {}
  <2>1. receivers' = receivers /\ senders' = {} /\ k' = k
    BY <1>1, <1>2, <1>8 DEF receivers, senders
  <2>2. Waiting'
    BY <1>3, <1>7, <1>8, <2>1 DEF IInv, Waiting
  <2>3. \A u \in Thread \ {t} : /\ RecvTries(u)' <=> RecvTries(u)
                                /\ SendTries(u)' <=> SendTries(u)
    BY <1>7, <1>8, <2>1 DEF RecvTries, SendTries, TriesAgain
  <2>4. NoLostMail'
    BY <1>4, <1>5, <1>6, <2>1, <2>3, MailKept
  <2>5. NoLostRoom'
    BY <1>4, <2>1, <2>3, RoomKept
  <2> QED BY <1>4, <1>5, <2>2, <2>4, <2>5, Assembled
<1>9. CASE senders # {}
  <2>1. PICK w \in Thread :
          /\ w \in senders
          /\ k'.stat = [k.stat EXCEPT ![w] = "ready"]
          /\ k'.err = k.err
          /\ senders' = senders \ {w} /\ receivers' = receivers
    <3>1. MB \in Queue \ {MBSender}
      OBVIOUS
    <3> QED BY ONLY <1>1, <1>2, <1>9, <3>1 DEF receivers, senders
  <2>2. pc[w] \in {"s_wait", "s_woken"} /\ k.err[w] = "eok" /\ pc'[w] = pc[w]
    BY <1>3, <1>7, <2>1 DEF IInv, Waiting
  <2>3. Waiting'
    <3>1. \A u \in Thread : k'.stat[u] = "suspend" =>
                              u # w /\ k.stat[u] = "suspend"
      BY <2>1
    <3>2. \A u \in Thread : k'.stat[u] = "suspend" =>
                              u \in receivers' \cup senders'
      BY <2>1, <3>1
    <3>3. \A u \in receivers \cup senders : pc'[u] = pc[u] /\ k'.err[u] = k.err[u]
      BY <1>3, <1>7, <2>1
    <3> QED BY <2>1, <3>2, <3>3 DEF IInv, Waiting
  <2>4. ~SendTries(w) /\ SendTries(w)'
    BY <2>1, <2>2 DEF SendTries, TriesAgain
  <2>5. \A u \in Thread \ {w} : SendTries(u)' <=> SendTries(u)
    <3> SUFFICES ASSUME NEW u \in Thread \ {w}
                 PROVE SendTries(u)' <=> SendTries(u)
      OBVIOUS
    <3>1. CASE u = t
      <4>1. pc'[t] \in {"run", "sched"} /\ pc[t] \in {"run", "r_retry"}
        BY <1>2
      <4> QED BY <3>1, <4>1 DEF SendTries, TriesAgain
    <3>2. CASE u # t
      BY <1>7, <2>1, <3>2 DEF SendTries, TriesAgain
    <3> QED BY <3>1, <3>2
  <2>6. \A u \in Thread \ {t} : RecvTries(u)' <=> RecvTries(u)
    BY <1>7, <2>1 DEF RecvTries, TriesAgain
  <2>7. NoLostMail'
    BY <1>4, <1>5, <1>6, <2>1, <2>6, MailKept
  <2>8. NoLostRoom'
    BY <1>4, <1>6, <1>9, <2>4, <2>5, RoomKept
  <2> QED BY <1>4, <1>5, <2>3, <2>7, <2>8, Assembled
<1> QED BY <1>8, <1>9

\* rt_mb_control(RT_IPC_CMD_RESET) leaves both lists empty.
LEMMA ResetStep ==
  ASSUME IInv, NEW t \in Thread, Reset(t)
  PROVE  IInv'
<1> USE IInvFacts
<1> DEFINE r == rt_ipc_list_resume_all(k, MB)
           s == rt_ipc_list_resume_all(r, MBSender)
<1>1. /\ k.cur = t /\ pc[t] = "run" /\ t # Idle /\ k' = s
      /\ mb' = emptied(mb) /\ pc' = [pc EXCEPT ![t] = "sched"]
      /\ UNCHANGED <<time, value, got>>
  BY DEF Reset
<1>2. k.stat[t] = "ready" /\ t \notin receivers /\ t \notin senders
  BY <1>1, RunningThread
<1>3. /\ r \in KernelState /\ KInv(r) /\ ToSet(r.wait[MB]) = {}
      /\ ToSet(r.wait[MBSender]) = senders
      /\ r.stat = [u \in Thread |-> IF u \in receivers THEN "ready" ELSE k.stat[u]]
      /\ r.cur = k.cur /\ r.nest = k.nest
  <2>1. k \in KernelState /\ KInv(k) /\ MB \in Queue /\ MBSender \in Queue \ {MB}
    OBVIOUS
  <2>2. /\ r \in KernelState /\ KInv(r) /\ ToSet(r.wait[MB]) = {}
        /\ \A x \in Queue \ {MB} : ToSet(r.wait[x]) = ToSet(k.wait[x])
        /\ r.stat = [u \in Thread |-> IF u \in ToSet(k.wait[MB]) THEN "ready"
                                      ELSE k.stat[u]]
        /\ r.cur = k.cur /\ r.nest = k.nest
    BY ONLY <2>1, ResumeAllKeeps
  <2> QED BY <2>1, <2>2 DEF receivers, senders
<1> HIDE DEF r
<1>4. /\ s \in KernelState /\ KInv(s)
      /\ ToSet(s.wait[MBSender]) = {} /\ ToSet(s.wait[MB]) = {}
      /\ s.stat = [u \in Thread |-> IF u \in senders THEN "ready" ELSE r.stat[u]]
      /\ s.cur = r.cur /\ s.nest = r.nest
  <2>1. r \in KernelState /\ KInv(r) /\ MBSender \in Queue /\ MB \in Queue \ {MBSender}
    BY <1>3
  <2>2. /\ s \in KernelState /\ KInv(s) /\ ToSet(s.wait[MBSender]) = {}
        /\ \A x \in Queue \ {MBSender} : ToSet(s.wait[x]) = ToSet(r.wait[x])
        /\ s.stat = [u \in Thread |-> IF u \in ToSet(r.wait[MBSender]) THEN "ready"
                                      ELSE r.stat[u]]
        /\ s.cur = r.cur /\ s.nest = r.nest
    BY ONLY <2>1, ResumeAllKeeps
  <2> QED BY <1>3, <2>1, <2>2
<1> HIDE DEF s
<1>5. receivers' = {} /\ senders' = {}
  BY <1>1, <1>4 DEF receivers, senders
<1>6. TypeOK'
  <2>1. mb' \in [msg_pool : [0 .. Size - 1 -> MailOrNull],
                 entry : 0 .. Size, in_offset : 0 .. Size - 1,
                 out_offset : 0 .. Size - 1]
    BY <1>1, MailboxTypes DEF IInv
  <2>2. pc' \in [Thread -> PC]
    BY <1>1 DEF PC
  <2> QED BY <1>1, <1>4, <2>1, <2>2 DEF IInv, TypeOK
<1>7. Running' /\ KInv(k')
  BY <1>1, <1>2, <1>3, <1>4 DEF Running
<1>8. Waiting'
  <2>1. \A u \in Thread : k'.stat[u] # "suspend"
    BY <1>1, <1>3, <1>4
  <2> QED BY <1>5, <2>1 DEF Waiting
<1>9. NoLostMail' /\ NoLostRoom'
  BY <1>5, <1>6, <1>7 DEF NoLostMail, NoLostRoom
<1> QED BY <1>6, <1>7, <1>8, <1>9, Assembled

\* A thread timer expires in the tick.
LEMMA TimerStep ==
  ASSUME IInv, NEW t \in Thread, TimerExpire(t)
  PROVE  IInv'
<1> USE IInvFacts
<1> DEFINE k1 == [k EXCEPT !.err[t] = "etimeout"]
           m  == timed_out(k, t)
<1>1. t \in k.timer /\ k' = rt_thread_timeout(k, t)
      /\ UNCHANGED <<mb, pc, time, value, got>>
  BY DEF TimerExpire
<1>2. k.stat[t] = "suspend" /\ k' = rt_schedule(m) /\ WokenUp(k1, t, m)
  BY <1>1, TimeoutKeeps
<1>3. /\ k1.stat = k.stat /\ k1.wait = k.wait /\ k1.cur = k.cur
      /\ k1.nest = k.nest /\ k1.err = [k.err EXCEPT ![t] = "etimeout"]
  <2>1. k \in KernelState /\ KInv(k) /\ "etimeout" \in Err
    BY DEF Err
  <2> QED BY ONLY <2>1, SetError, t \in Thread
<1> HIDE DEF k1, m
<1>4. /\ m \in KernelState /\ KInv(m) /\ m.cur = k.cur /\ m.nest = 0
      /\ m.stat = [k.stat EXCEPT ![t] = "ready"]
      /\ m.err = [k.err EXCEPT ![t] = "etimeout"]
      /\ \A q \in Queue : ToSet(m.wait[q]) = ToSet(k.wait[q]) \ {t}
  BY <1>2, <1>3 DEF WokenUp
<1>5. m.stat[Idle] = "ready"
  BY <1>4
<1>6. k' \in KernelState /\ KInv(k') /\ SameThreads(m, k') /\ Running'
  BY <1>2, <1>4, <1>5, Scheduled
<1>7. /\ receivers' = receivers \ {t} /\ senders' = senders \ {t}
      /\ k'.err = [k.err EXCEPT ![t] = "etimeout"]
      /\ k'.stat = [k.stat EXCEPT ![t] = "ready"]
  BY <1>4, <1>6 DEF SameThreads, receivers, senders
<1>8. TypeOK'
  BY <1>1, <1>6 DEF IInv, TypeOK
<1>9. Waiting'
  <2>1. \A u \in Thread : k'.stat[u] = "suspend" => u # t /\ k.stat[u] = "suspend"
    BY <1>7
  <2> QED BY <1>1, <1>7, <2>1 DEF IInv, Waiting
<1>10. \A u \in Thread \ {t} : /\ RecvTries(u)' <=> RecvTries(u)
                               /\ SendTries(u)' <=> SendTries(u)
  BY <1>1, <1>7 DEF RecvTries, SendTries, TriesAgain
<1>11. t \in receivers \/ t \in senders
  BY <1>2
<1>12. ~RecvTries(t) /\ ~SendTries(t)
  BY <1>11 DEF IInv, Waiting, RecvTries, SendTries, TriesAgain
<1>13. NoLostMail'
  <2>1. receivers' # {} => receivers # {}
    BY <1>7
  <2>2. mb'.entry = mb.entry /\ (RecvTries(t) => RecvTries(t)')
    BY <1>1, <1>12
  <2>3. receivers' # {} =>
          \/ mb'.entry = 0
          \/ /\ receivers # {}
             /\ \/ mb'.entry = mb.entry - 1
                \/ mb'.entry = mb.entry /\ (RecvTries(t) => RecvTries(t)')
                \/ /\ mb'.entry = mb.entry + 1
                   /\ ~RecvTries(t) /\ RecvTries(t)'
    BY <2>1, <2>2
  <2> QED BY <1>6, <1>8, <1>10, <2>3, MailKept
<1>14. NoLostRoom'
  BY <1>1, <1>7, <1>8, <1>10, <1>12, RoomKept
<1> QED BY <1>6, <1>8, <1>9, <1>13, <1>14, Assembled

\* Every step keeps the invariant.
LEMMA NextIInv == IInv /\ [Next]_vars => IInv'
<1> SUFFICES ASSUME IInv, [Next]_vars PROVE IInv'
  OBVIOUS
<1>1. ASSUME NEW t \in Thread, ThreadStep(t) \/ TimerExpire(t)
      PROVE  IInv'
  <2>1. CASE \/ \E new \in Thread : Startup(t, new)
             \/ WaitSchedule(t) \/ Schedule(t)
    BY <2>1, ScheduleSteps
  <2>2. CASE SendFail(t) \/ RecvFail(t) \/ \E left \in Limit : Woken(t, left)
    BY <2>2, LocalSteps
  <2>3. CASE \/ \E v \in Sends[t], limit \in Limit : SendBlock(t, v, limit)
             \/ \E limit \in Limit : RecvBlock(t, limit)
    BY <2>3, BlockSteps
  <2>4. CASE \E v \in Sends[t] : SendPut(t, v)
    BY <2>4, PutSteps
  <2>5. CASE RecvTake(t)
    BY <2>5, TakeSteps
  <2>6. CASE Reset(t)
    BY <2>6, ResetStep
  <2>7. CASE TimerExpire(t)
    BY <2>7, TimerStep
  <2> QED BY <1>1, <2>1, <2>2, <2>3, <2>4, <2>5, <2>6, <2>7 DEF ThreadStep
<1>2. Idle \in Thread
  BY KernelAssumption
<1>3. CASE TickYield \/ UNCHANGED vars
  BY <1>2, <1>3, ScheduleSteps
<1>4. CASE \E v \in IsrSends : IsrSend(v)
  BY <1>2, <1>4, PutSteps
<1> QED BY <1>1, <1>3, <1>4 DEF Next

\* The invariant holds in every reachable state.
THEOREM MailboxInvariant == Spec => []IInv
  BY InitIInv, NextIInv, PTL DEF Spec

\* No wake-up is lost on either side: while a receiver waits there are no more
\* mails than threads on their way to take one, and while a sender waits no more
\* free places (rt_mb_send_wait, rt_mb_recv, resets, timeouts, handlers).
THEOREM MailboxNoLostWakeup == Spec => []NoLostWakeup
<1>1. IInv => NoLostWakeup
  BY DEF IInv
<1> QED BY <1>1, MailboxInvariant, PTL
-----------------------------------------------------------------------------
(* The bounded line of mails.                                              *)

\* A mail that is being sent belongs to a call that has not returned.
Offers ==
  \A t \in Thread : value[t] # Null => pc[t] \in {"s_wait", "s_woken", "s_retry"}

\* The two offsets are as far apart as there are mails, around the ring.
Offsets == mb.in_offset = (mb.out_offset + mb.entry) % Size

\* The mails of the ring, next one first.
Line == [i \in 1 .. mb.entry |-> mb.msg_pool[(mb.out_offset + i - 1) % Size]]

LEMMA SentMails ==
  /\ \A t \in Thread : Sends[t] \subseteq Mail
  /\ IsrSends \subseteq Mail
  /\ Null \notin Mail
BY MailboxAssumption, Zenon

\* An offset that wrapped around at most once.
LEMMA WrapAround ==
  ASSUME NEW a \in 0 .. Size - 1, NEW b \in 0 .. Size
  PROVE  /\ (a + b) % Size = IF a + b < Size THEN a + b ELSE a + b - Size
         /\ (a + b) % Size \in 0 .. Size - 1
<1>1. Size \in Nat \ {0} /\ a + b \in 0 .. 2 * Size - 1
  BY Parameters
<1>2. CASE a + b \in 0 .. Size - 1
  BY ONLY <1>1, <1>2
<1>3. CASE a + b \in Size .. 2 * Size - 1
  BY ONLY <1>1, <1>3
<1> QED BY <1>1, <1>2, <1>3

\* The line is a sequence of mails.
LEMMA LineType ==
  TypeOK =>
         /\ Line \in Seq(MailOrNull) /\ Len(Line) = mb.entry
         /\ mb.entry \in 0 .. Size /\ Size \in Nat \ {0}
         /\ mb.out_offset \in 0 .. Size - 1 /\ mb.in_offset \in 0 .. Size - 1
         /\ mb.msg_pool \in [0 .. Size - 1 -> MailOrNull]
         /\ \A i \in 1 .. mb.entry :
              Line[i] = mb.msg_pool[(mb.out_offset + i - 1) % Size]
<1> SUFFICES ASSUME TypeOK
             PROVE  /\ Line \in Seq(MailOrNull) /\ Len(Line) = mb.entry
                    /\ mb.entry \in 0 .. Size /\ Size \in Nat \ {0}
                    /\ mb.out_offset \in 0 .. Size - 1
                    /\ mb.in_offset \in 0 .. Size - 1
                    /\ mb.msg_pool \in [0 .. Size - 1 -> MailOrNull]
                    /\ \A i \in 1 .. mb.entry :
                         Line[i] = mb.msg_pool[(mb.out_offset + i - 1) % Size]
  OBVIOUS
<1>1. /\ mb.entry \in 0 .. Size /\ Size \in Nat \ {0}
      /\ mb.out_offset \in 0 .. Size - 1 /\ mb.in_offset \in 0 .. Size - 1
      /\ mb.msg_pool \in [0 .. Size - 1 -> MailOrNull]
  BY Parameters DEF TypeOK
<1>2. \A i \in 1 .. mb.entry : (mb.out_offset + i - 1) % Size \in 0 .. Size - 1
  <2> SUFFICES ASSUME NEW i \in 1 .. mb.entry
               PROVE (mb.out_offset + i - 1) % Size \in 0 .. Size - 1
    OBVIOUS
  <2>1. i - 1 \in 0 .. Size /\ mb.out_offset + i - 1 = mb.out_offset + (i - 1)
    BY <1>1
  <2> QED BY <1>1, <2>1, WrapAround
<1>3. Line \in [1 .. mb.entry -> MailOrNull]
  BY <1>1, <1>2 DEF Line
<1>4. mb.entry \in Nat
  BY <1>1
<1>5. Line \in Seq(MailOrNull) /\ Len(Line) = mb.entry
  BY ONLY <1>3, <1>4
<1> QED BY <1>1, <1>5 DEF Line

\* put_mail puts a mail at the end of the line.
LEMMA PutAppends ==
  ASSUME TypeOK, TypeOK', Offsets, NEW v \in MailOrNull,
         mb.entry < Size, mb' = put_mail(v)
  PROVE  Line' = Append(Line, v) /\ Offsets'
<1> DEFINE e == mb.entry
           o == mb.out_offset
           n == mb.in_offset
<1>1. /\ Line \in Seq(MailOrNull) /\ Len(Line) = e
      /\ e \in 0 .. Size - 1 /\ Size \in Nat \ {0}
      /\ o \in 0 .. Size - 1 /\ n \in 0 .. Size - 1
      /\ mb.msg_pool \in [0 .. Size - 1 -> MailOrNull]
      /\ \A i \in 1 .. e : Line[i] = mb.msg_pool[(o + i - 1) % Size]
  BY LineType
<1>2. /\ mb'.entry = e + 1 /\ mb'.out_offset = o
      /\ mb'.in_offset = next_offset(n)
      /\ mb'.msg_pool = [mb.msg_pool EXCEPT ![n] = v]
  BY DEF put_mail, TypeOK
<1>3. /\ Line' \in Seq(MailOrNull) /\ Len(Line') = e + 1
      /\ \A i \in 1 .. (e + 1) : Line'[i] = mb'.msg_pool[(o + i - 1) % Size]
  <2>1. (/\ Line \in Seq(MailOrNull) /\ Len(Line) = mb.entry
         /\ \A i \in 1 .. mb.entry :
              Line[i] = mb.msg_pool[(mb.out_offset + i - 1) % Size])'
    BY LineType, PTL
  <2> QED BY <1>2, <2>1
<1>4. n = (o + e) % Size
  BY DEF Offsets
<1> HIDE DEF e, o, n
<1>5. n = IF o + e < Size THEN o + e ELSE o + e - Size
  BY <1>1, <1>4, WrapAround
<1>6. ASSUME NEW i \in 1 .. (e + 1)
      PROVE  Line'[i] = Append(Line, v)[i]
  <2>1. /\ i - 1 \in 0 .. Size /\ o + i - 1 = o + (i - 1)
        /\ (o + (i - 1)) % Size =
             IF o + (i - 1) < Size THEN o + (i - 1) ELSE o + (i - 1) - Size
    <3>1. i - 1 \in 0 .. Size /\ o + i - 1 = o + (i - 1) /\ o \in 0 .. Size - 1
      BY <1>1
    <3> QED BY ONLY <3>1, WrapAround
  <2>2. (o + i - 1) % Size \in 0 .. Size - 1 /\ ((o + i - 1) % Size = n <=> i = e + 1)
    BY <1>1, <1>5, <2>1
  <2>3. Line'[i] = IF i = e + 1 THEN v ELSE mb.msg_pool[(o + i - 1) % Size]
    BY <1>1, <1>2, <1>3, <2>2
  <2>4. Append(Line, v)[i] = IF i = e + 1 THEN v ELSE Line[i]
    BY <1>1
  <2> QED BY <1>1, <2>3, <2>4
<1>7. Append(Line, v) \in Seq(MailOrNull) /\ Len(Append(Line, v)) = e + 1
  BY <1>1
<1>8. Line' = Append(Line, v)
  BY <1>3, <1>6, <1>7, SeqEqual
<1>9. next_offset(n) = (o + (e + 1)) % Size
  <2>1. e + 1 \in 0 .. Size
    BY <1>1
  <2>2. (o + (e + 1)) % Size =
          IF o + (e + 1) < Size THEN o + (e + 1) ELSE o + (e + 1) - Size
    BY <1>1, <2>1, WrapAround
  <2> QED BY <1>1, <1>5, <2>2 DEF next_offset
<1> QED BY <1>2, <1>8, <1>9 DEF Offsets, e, o, n

\* get_mail takes the first mail of the line.
LEMMA GetTakesFirst ==
  ASSUME TypeOK, TypeOK', Offsets, mb.entry > 0, mb' = get_mail
  PROVE  /\ Line # << >> /\ Line' = Tail(Line)
         /\ Head(Line) = mb.msg_pool[mb.out_offset] /\ Offsets'
<1> DEFINE e == mb.entry
           o == mb.out_offset
<1>1. /\ Line \in Seq(MailOrNull) /\ Len(Line) = e
      /\ e \in 1 .. Size /\ Size \in Nat \ {0}
      /\ o \in 0 .. Size - 1
      /\ \A i \in 1 .. e : Line[i] = mb.msg_pool[(o + i - 1) % Size]
  BY LineType
<1>2. /\ mb'.entry = e - 1 /\ mb'.out_offset = next_offset(o)
      /\ mb'.in_offset = mb.in_offset /\ mb'.msg_pool = mb.msg_pool
  BY DEF get_mail, TypeOK
<1>3. /\ Line' \in Seq(MailOrNull) /\ Len(Line') = e - 1
      /\ \A i \in 1 .. (e - 1) :
           Line'[i] = mb.msg_pool[(next_offset(o) + i - 1) % Size]
  <2>1. (/\ Line \in Seq(MailOrNull) /\ Len(Line) = mb.entry
         /\ \A i \in 1 .. mb.entry :
              Line[i] = mb.msg_pool[(mb.out_offset + i - 1) % Size])'
    BY LineType, PTL
  <2> QED BY <1>2, <2>1
<1>4. mb.in_offset = (o + e) % Size
  BY DEF Offsets
<1> HIDE DEF e, o
<1>5. Line # << >>
  BY <1>1
<1>6. /\ Tail(Line) \in Seq(MailOrNull) /\ Len(Tail(Line)) = e - 1
      /\ \A i \in 1 .. (e - 1) : Tail(Line)[i] = Line[i + 1]
      /\ Head(Line) = Line[1]
  BY <1>1, <1>5, HeadTailProperties
<1>7. \A i \in 0 .. Size - 1 : (next_offset(o) + i) % Size = (o + (i + 1)) % Size
  <2> SUFFICES ASSUME NEW i \in 0 .. Size - 1
               PROVE (next_offset(o) + i) % Size = (o + (i + 1)) % Size
    OBVIOUS
  <2>1. next_offset(o) \in 0 .. Size - 1 /\ i \in 0 .. Size /\ i + 1 \in 0 .. Size
    BY <1>1 DEF next_offset
  <2>2. /\ (next_offset(o) + i) % Size = IF next_offset(o) + i < Size
                                         THEN next_offset(o) + i
                                         ELSE next_offset(o) + i - Size
        /\ (o + (i + 1)) % Size = IF o + (i + 1) < Size THEN o + (i + 1)
                                  ELSE o + (i + 1) - Size
    BY <1>1, <2>1, WrapAround
  <2> QED BY <1>1, <2>2 DEF next_offset
<1>8. ASSUME NEW i \in 1 .. (e - 1)
      PROVE  Line'[i] = Tail(Line)[i]
  <2>1. next_offset(o) \in Nat
    BY <1>1 DEF next_offset
  <2>2. /\ i - 1 \in 0 .. Size - 1 /\ next_offset(o) + i - 1 = next_offset(o) + (i - 1)
        /\ o + ((i - 1) + 1) = o + (i + 1) - 1 /\ i + 1 \in 1 .. e
    BY <1>1, <2>1
  <2>3. (next_offset(o) + i - 1) % Size = (o + (i + 1) - 1) % Size
    BY <1>7, <2>2
  <2> QED BY <1>1, <1>3, <1>6, <2>2, <2>3
<1>9. Line' = Tail(Line)
  BY <1>3, <1>6, <1>8, SeqEqual
<1>10. Head(Line) = mb.msg_pool[o]
  <2>1. o + 1 - 1 = o /\ o % Size = o
    <3>1. 0 \in 0 .. Size /\ o + 0 = o
      BY <1>1
    <3>2. o \in 0 .. Size - 1 /\ o < Size
      BY <1>1
    <3>3. (o + 0) % Size = IF o + 0 < Size THEN o + 0 ELSE o + 0 - Size
      BY ONLY <3>1, <3>2, WrapAround
    <3> QED BY ONLY <3>1, <3>2, <3>3
  <2>2. 1 \in 1 .. e
    BY <1>1
  <2> QED BY <1>1, <1>6, <2>1, <2>2
<1>11. mb.in_offset = (next_offset(o) + (e - 1)) % Size
  <2>1. e - 1 \in 0 .. Size - 1 /\ o + ((e - 1) + 1) = o + e
    BY <1>1
  <2> QED BY <1>4, <1>7, <2>1
<1> QED BY <1>2, <1>5, <1>9, <1>10, <1>11 DEF Offsets, o
\* The steps of the abstract channel, for this line of mails.
LEMMA ChannelActions ==
  /\ Line' = Line /\ value' = value /\ got' = got => UNCHANGED Channel!absVars
  /\ \A t \in Thread :
       value' = [value EXCEPT ![t] = Null] /\ Line' = Line /\ got' = got
      => Channel!AbsNext
  /\ \A t \in Thread, v \in Mail :
       /\ value[t] = Null /\ value' = [value EXCEPT ![t] = v]
       /\ Line' = Line /\ got' = got
      => Channel!AbsNext
  /\ \A t \in Thread, v \in Mail :
       /\ value[t] \in {v, Null} /\ value' = [value EXCEPT ![t] = Null]
       /\ Len(Line) < Size /\ Line' = Append(Line, v) /\ got' = got
      => Channel!AbsNext
  /\ \A v \in Mail :
       /\ Len(Line) < Size /\ Line' = Append(Line, v) /\ value' = value /\ got' = got
      => Channel!AbsNext
  /\ \A t \in Thread :
       /\ Line # << >> /\ Line' = Tail(Line)
       /\ got' = [got EXCEPT ![t] = Head(Line)] /\ value' = value
      => Channel!AbsNext
  /\ Line' = << >> /\ value' = value /\ got' = got => Channel!AbsNext
<1>1. Line' = Line /\ value' = value /\ got' = got => UNCHANGED Channel!absVars
  BY DEF Channel!absVars, Line
<1>2. \A t \in Thread :
         value' = [value EXCEPT ![t] = Null] /\ Line' = Line /\ got' = got
        => Channel!AbsNext
  <2> SUFFICES ASSUME NEW t \in Thread, value' = [value EXCEPT ![t] = Null],
                  Line' = Line /\ got' = got
               PROVE  Channel!AbsNext
    OBVIOUS
  <2>1. Channel!Withdraw(t)
    BY DEF Channel!Withdraw, Line
  <2> QED BY <2>1 DEF Channel!AbsNext
<1>3. \A t \in Thread, v \in Mail :
         /\ value[t] = Null /\ value' = [value EXCEPT ![t] = v]
         /\ Line' = Line /\ got' = got
        => Channel!AbsNext
  <2> SUFFICES ASSUME NEW t \in Thread, NEW v \in Mail, value[t] = Null,
                  value' = [value EXCEPT ![t] = v], Line' = Line /\ got' = got
               PROVE  Channel!AbsNext
    OBVIOUS
  <2>1. Channel!Offer(t, v)
    BY DEF Channel!Offer, Line
  <2> QED BY <2>1 DEF Channel!AbsNext
<1>4. \A t \in Thread, v \in Mail :
         /\ value[t] \in {v, Null} /\ value' = [value EXCEPT ![t] = Null]
         /\ Len(Line) < Size /\ Line' = Append(Line, v) /\ got' = got
        => Channel!AbsNext
  <2> SUFFICES ASSUME NEW t \in Thread, NEW v \in Mail, value[t] \in {v, Null},
                  value' = [value EXCEPT ![t] = Null], Len(Line) < Size,
                  Line' = Append(Line, v), got' = got
               PROVE  Channel!AbsNext
    OBVIOUS
  <2>1. Channel!Put(t, v)
    BY DEF Channel!Put, Channel!Extended, Line
  <2> QED BY <2>1 DEF Channel!AbsNext
<1>5. \A v \in Mail :
         /\ Len(Line) < Size /\ Line' = Append(Line, v) /\ value' = value /\ got' = got
        => Channel!AbsNext
  <2> SUFFICES ASSUME NEW v \in Mail, Len(Line) < Size, Line' = Append(Line, v),
                  value' = value /\ got' = got
               PROVE  Channel!AbsNext
    OBVIOUS
  <2>1. Channel!PutFromOutside(v)
    BY DEF Channel!PutFromOutside, Channel!Extended, Line
  <2> QED BY <2>1 DEF Channel!AbsNext
<1>6. \A t \in Thread :
         /\ Line # << >> /\ Line' = Tail(Line)
         /\ got' = [got EXCEPT ![t] = Head(Line)] /\ value' = value
        => Channel!AbsNext
  <2> SUFFICES ASSUME NEW t \in Thread, Line # << >>, Line' = Tail(Line),
                  got' = [got EXCEPT ![t] = Head(Line)], value' = value
               PROVE  Channel!AbsNext
    OBVIOUS
  <2>1. Channel!Get(t)
    BY DEF Channel!Get, Line
  <2> QED BY <2>1 DEF Channel!AbsNext
<1>7. Line' = << >> /\ value' = value /\ got' = got => Channel!AbsNext
  <2> SUFFICES ASSUME Line' = << >>, value' = value /\ got' = got
               PROVE  Channel!AbsNext
    OBVIOUS
  <2>1. Channel!Forget
    BY DEF Channel!Forget, Line
  <2> QED BY <2>1 DEF Channel!AbsNext
<1> QED BY <1>1, <1>2, <1>3, <1>4, <1>5, <1>6, <1>7

\* Every step keeps the offers and the offsets, and is a step of the channel or
\* one it does not see.
LEMMA ChannelStep ==
  ASSUME IInv, TypeOK', Offers, Offsets, [Next]_vars
  PROVE  /\ Offers' /\ Offsets'
         /\ Channel!AbsNext \/ UNCHANGED Channel!absVars
<1> USE IInvFacts
<1>1. /\ TypeOK /\ value \in [Thread -> MailOrNull]
      /\ Len(Line) = mb.entry /\ Null \notin Mail
      /\ \A t \in Thread : Sends[t] \subseteq Mail
  BY LineType, SentMails DEF IInv, TypeOK
<1>2. mb' = mb => Line' = Line /\ Offsets'
  BY DEF Line, Offsets
<1>3. ASSUME value' = value, got' = got, mb' = mb,
             NEW t \in Thread, pc[t] \notin {"s_wait", "s_woken", "s_retry"},
             NEW c, pc' = [pc EXCEPT ![t] = c]
      PROVE  /\ Offers' /\ Offsets' /\ UNCHANGED Channel!absVars
  BY <1>2, <1>3, ChannelActions DEF Offers
<1>4. ASSUME NEW t \in Thread, \E new \in Thread : Startup(t, new)
      PROVE  /\ Offers' /\ Offsets' /\ UNCHANGED Channel!absVars
  BY <1>3, <1>4 DEF Startup
<1>5. ASSUME NEW t \in Thread, NEW v \in Sends[t], SendPut(t, v)
      PROVE  Offers' /\ Offsets' /\ Channel!AbsNext
  <2>1. /\ v \in Mail /\ value[t] \in {v, Null} /\ mb.entry < Size
        /\ mb' = put_mail(v) /\ value' = [value EXCEPT ![t] = Null]
        /\ got' = got /\ pc' = [pc EXCEPT ![t] = then_schedule(MB)]
    BY <1>1, <1>5 DEF SendPut, InSend, Offers
  <2>2. Line' = Append(Line, v) /\ Offsets'
    BY <1>1, <2>1, PutAppends DEF MailOrNull
  <2>3. Offers'
    BY <1>1, <2>1 DEF Offers
  <2> QED BY <1>1, <2>1, <2>2, <2>3, ChannelActions
<1>6. ASSUME NEW t \in Thread, mb' = mb, got' = got,
             value' = [value EXCEPT ![t] = Null], pc' = [pc EXCEPT ![t] = "run"]
      PROVE  Offers' /\ Offsets' /\ Channel!AbsNext
  BY <1>1, <1>2, <1>6, ChannelActions DEF Offers
<1>7. ASSUME NEW t \in Thread, SendFail(t)
      PROVE  Offers' /\ Offsets' /\ Channel!AbsNext
  BY <1>6, <1>7 DEF SendFail
<1>8. ASSUME NEW t \in Thread, NEW v \in Sends[t],
             \E limit \in Limit : SendBlock(t, v, limit)
      PROVE  /\ Offers' /\ Offsets'
             /\ Channel!AbsNext \/ UNCHANGED Channel!absVars
  <2>1. /\ v \in Mail /\ value[t] \in {v, Null} /\ mb' = mb /\ got' = got
        /\ value' = [value EXCEPT ![t] = v] /\ pc' = [pc EXCEPT ![t] = "s_wait"]
    BY <1>1, <1>8 DEF SendBlock, InSend, Offers
  <2>2. Offers'
    BY <1>1, <2>1 DEF Offers
  <2>3. CASE value[t] = Null
    BY <1>2, <2>1, <2>2, <2>3, ChannelActions
  <2>4. CASE value[t] = v
    <3>1. value' = value
      BY <1>1, <2>1, <2>4
    <3> QED BY <1>2, <2>1, <2>2, <3>1, ChannelActions
  <2> QED BY <2>1, <2>3, <2>4
<1>9. ASSUME NEW t \in Thread, RecvTake(t)
      PROVE  Offers' /\ Offsets' /\ Channel!AbsNext
  <2>1. /\ mb.entry > 0 /\ mb' = get_mail /\ value' = value
        /\ got' = [got EXCEPT ![t] = mb.msg_pool[mb.out_offset]]
        /\ pc[t] \in {"run", "r_retry"}
        /\ pc' = [pc EXCEPT ![t] = then_schedule(MBSender)]
    BY <1>9 DEF RecvTake, InRecv
  <2>2. /\ Line # << >> /\ Line' = Tail(Line) /\ Offsets'
        /\ Head(Line) = mb.msg_pool[mb.out_offset]
    BY <1>1, <2>1, GetTakesFirst
  <2>3. Offers'
    BY <2>1 DEF Offers
  <2> QED BY <2>1, <2>2, <2>3, ChannelActions
<1>10. ASSUME NEW t \in Thread, RecvFail(t) \/ \E limit \in Limit : RecvBlock(t, limit)
       PROVE  Offers' /\ Offsets' /\ UNCHANGED Channel!absVars
  BY <1>3, <1>10 DEF RecvFail, RecvBlock, InRecv
<1>11. ASSUME NEW t \in Thread, WaitSchedule(t)
       PROVE  Offers' /\ Offsets' /\ UNCHANGED Channel!absVars
  <2>1. /\ mb' = mb /\ value' = value /\ got' = got
        /\ pc[t] \in {"s_wait", "r_wait"}
        /\ pc' = [pc EXCEPT ![t] = IF @ = "s_wait" THEN "s_woken" ELSE "r_woken"]
    BY <1>11 DEF WaitSchedule
  <2>2. Offers'
    BY <2>1 DEF Offers
  <2> QED BY <1>2, <2>1, <2>2, ChannelActions
<1>12. ASSUME NEW t \in Thread, \E left \in Limit : Woken(t, left)
       PROVE  /\ Offers' /\ Offsets'
              /\ Channel!AbsNext \/ UNCHANGED Channel!absVars
  <2>1. mb' = mb /\ got' = got /\ pc[t] \in {"s_woken", "r_woken"}
    BY <1>12 DEF Woken
  <2>2. CASE k.err[t] # "eok"
    BY <1>6, <1>12, <2>2 DEF Woken
  <2>3. CASE k.err[t] = "eok"
    <3>1. /\ value' = value
          /\ pc' = [pc EXCEPT ![t] = IF @ = "s_woken" THEN "s_retry" ELSE "r_retry"]
      BY <1>12, <2>3 DEF Woken
    <3>2. Offers'
      BY <2>1, <3>1 DEF Offers
    <3> QED BY <1>2, <2>1, <3>1, <3>2, ChannelActions
  <2> QED BY <2>2, <2>3
<1>13. ASSUME NEW t \in Thread, Reset(t)
       PROVE  Offers' /\ Offsets' /\ Channel!AbsNext
  <2>1. /\ mb' = emptied(mb) /\ value' = value /\ got' = got
        /\ pc[t] = "run" /\ pc' = [pc EXCEPT ![t] = "sched"]
    BY <1>13 DEF Reset
  <2>2. /\ mb'.entry = 0 /\ mb'.in_offset = 0 /\ mb'.out_offset = 0
    BY <1>1, <2>1 DEF emptied, TypeOK
  <2>3. Line' = << >>
    <3>1. (Line \in Seq(MailOrNull) /\ Len(Line) = mb.entry)'
      BY LineType, PTL
    <3> QED BY <2>2, <3>1, EmptySeq
  <2>4. Offsets'
    <3>1. 0 \in 0 .. Size - 1 /\ 0 \in 0 .. Size /\ 0 < Size
      OBVIOUS
    <3>2. (0 + 0) % Size = IF 0 + 0 < Size THEN 0 + 0 ELSE 0 + 0 - Size
      BY ONLY <3>1, WrapAround
    <3> QED BY <2>2, <3>1, <3>2 DEF Offsets
  <2>5. Offers'
    BY <2>1 DEF Offers
  <2> QED BY <2>1, <2>3, <2>4, <2>5, ChannelActions
<1>14. ASSUME NEW t \in Thread, Schedule(t)
       PROVE  Offers' /\ Offsets' /\ UNCHANGED Channel!absVars
  BY <1>3, <1>14 DEF Schedule
<1>15. CASE (\E t \in Thread : TimerExpire(t)) \/ TickYield \/ UNCHANGED vars
  <2>1. mb' = mb /\ value' = value /\ got' = got /\ pc' = pc
    BY <1>15 DEF TimerExpire, TickYield, vars
  <2> QED BY <1>2, <2>1, ChannelActions DEF Offers
<1>16. ASSUME NEW v \in IsrSends, IsrSend(v)
       PROVE  Offers' /\ Offsets' /\ Channel!AbsNext
  <2>1. /\ v \in Mail /\ mb.entry < Size /\ mb' = put_mail(v)
        /\ value' = value /\ got' = got /\ pc' = pc
    BY <1>16, SentMails DEF IsrSend
  <2>2. Line' = Append(Line, v) /\ Offsets'
    BY <1>1, <2>1, PutAppends DEF MailOrNull
  <2> QED BY <1>1, <2>1, <2>2, ChannelActions DEF Offers
<1> HIDE IInvFacts
<1> QED BY <1>4, <1>5, <1>7, <1>8, <1>9, <1>10, <1>11, <1>12, <1>13, <1>14,
           <1>15, <1>16 DEF Next, ThreadStep

\* The mailbox of ipc.c implements a bounded line of mails: rt_mb_send_wait puts
\* a mail last or not at all, rt_mb_recv gives the first one to one receiver,
\* across the wrap-around of both offsets, and a reset forgets the line.
THEOREM MailboxRefinement == Spec => ImplementsChannel
<1>1. Init => Offers /\ Offsets /\ Channel!AbsInit
  <2> SUFFICES ASSUME Init PROVE Offers /\ Offsets /\ Channel!AbsInit
    OBVIOUS
  <2>1. TypeOK
    BY InitIInv DEF IInv
  <2>2. Line = << >>
    <3>1. Line \in Seq(MailOrNull) /\ Len(Line) = 0
      BY <2>1, LineType DEF Init
    <3> QED BY <3>1, EmptySeq
  <2>3. Offsets
    <3>1. 0 \in 0 .. Size - 1 /\ 0 \in 0 .. Size /\ 0 < Size
      BY Parameters
    <3>2. (0 + 0) % Size = IF 0 + 0 < Size THEN 0 + 0 ELSE 0 + 0 - Size
      BY ONLY <3>1, WrapAround
    <3> QED BY <3>1, <3>2 DEF Offsets, Init
  <2>4. Offers
    BY DEF Offers, Init
  <2>5. Channel!AbsInit
    BY <2>2, Parameters DEF Channel!AbsInit, Init, Line
  <2> QED BY <2>3, <2>4, <2>5
<1>2. IInv /\ Offers /\ Offsets /\ [Next]_vars
        => IInv' /\ Offers' /\ Offsets' /\ [Channel!AbsNext]_(Channel!absVars)
  <2> SUFFICES ASSUME IInv, Offers, Offsets, [Next]_vars
               PROVE  /\ IInv' /\ Offers' /\ Offsets'
                      /\ [Channel!AbsNext]_(Channel!absVars)
    OBVIOUS
  <2>1. IInv' /\ TypeOK'
    BY NextIInv DEF IInv
  <2> QED BY <2>1, ChannelStep
<1> QED BY <1>1, <1>2, InitIInv, PTL DEF Spec, ImplementsChannel, Channel!AbsSpec

=============================================================================
