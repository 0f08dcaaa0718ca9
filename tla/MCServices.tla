------------------------------ MODULE MCServices -----------------------------
(***************************************************************************)
(* Model values for the driver framework (a thread more urgent than the    *)
(* other two, and tidle) and for the timers (two, each used by one         *)
(* client).  The serial device, the completion, the work queue, the pipe,  *)
(* the ring buffer on its own and the timers share no state, so that a     *)
(* behaviour of all of them is one of each: service says which of them a   *)
(* behaviour follows, and the others stay as they were initialised.        *)
(***************************************************************************)
EXTENDS Serial, Completion, WorkQueue, Pipe, Ring, Timer

CONSTANTS t1, t2, t3, idle, a, b, waitlist, sem, lock, dev, rq, wq,
          x1, x2, c1, c2

MCThread   == {t1, t2, t3, idle}
MCInitPrio == (t1 :> 0) @@ (t2 :> 1) @@ (t3 :> 1) @@ (idle :> 2)
MCQueue    == {waitlist, sem, lock}
MCWQ       == {dev, rq, wq}
MCClients  == {t1, t2}
MCDoer     == {t1}
MCWork     == {a, b}
MCPipeUser == {t2, t3}
MCSide     == (t2 :> "read") @@ (t3 :> "write")
MCRdWr     == {t3}
MCTimers   == {x1, x2}
MCCallers  == {c1, c2}
MCOwn      == (x1 :> {c1}) @@ (x2 :> {c2})
MCAny      == {"none", "start", "stop"}

\* The works are alike; so are the timers, each with its client.
MCSymmetry ==
  Permutations(MCWork) \cup {(x1 :> x2) @@ (x2 :> x1) @@ (c1 :> c2) @@ (c2 :> c1)}

VARIABLE service

MCInit ==
  /\ service \in {"serial", "completion", "work", "pipe", "ring", "timer"}
  /\ IF service = "work" THEN WorkInit
     ELSE /\ ThreadsInit
          /\ work_list = << >> /\ work_current = Null /\ wild = FALSE
          /\ node = Null /\ next = Null
          /\ awaited = [t \in Thread |-> Null]
  /\ QueuesInit /\ SerialInit /\ CompletionInit /\ PipeInit /\ RingInit /\ TimersInit

SerialStep ==
  /\ service = "serial" /\ SerialNext
  /\ UNCHANGED <<completion, work, pipe, ring, timervars>>
CompletionStep ==
  /\ service = "completion" /\ CompletionNext
  /\ UNCHANGED <<queues, serial, work, pipe, ring, timervars>>
WorkStep ==
  /\ service = "work" /\ WorkNext
  /\ UNCHANGED <<queues, serial, completion, pipe, ring, timervars>>
PipeStepped ==
  /\ service = "pipe" /\ PipeNext
  /\ UNCHANGED <<serial, completion, work, ring, timervars>>
RingStep ==
  /\ service = "ring" /\ RingNext
  /\ UNCHANGED <<threads, queues, serial, completion, work, pipe, timervars>>
TimerStep ==
  /\ service = "timer" /\ TimerNext
  /\ UNCHANGED <<threads, queues, serial, completion, work, pipe, ring>>

MCNext ==
  /\ \/ SerialStep \/ CompletionStep \/ WorkStep \/ PipeStepped \/ RingStep
     \/ TimerStep
  /\ UNCHANGED service

all ==
  <<threads, queues, serial, completion, work, pipe, ring, timervars, service>>

MCSpec == MCInit /\ [][MCNext]_all

\* The work queue, and the ring buffer, alone.
OnlyWork == MCInit /\ service = "work" /\ [][MCNext]_all
OnlyRing == MCInit /\ service = "ring" /\ [][MCNext]_all
=============================================================================
