------------------------------- MODULE Serial -------------------------------
(***************************************************************************)
(* A serial device that is read through its file operations (serial.c):    *)
(* the receive interrupt stores bytes in a ring and wakes a reader; a      *)
(* reader that finds no byte waits in the wait queue of the device and     *)
(* reads again.                                                            *)
(*                                                                         *)
(* pc[t] of a reader: "read" in the loop of _serial_int_rx, then that of   *)
(* rt_wqueue_wait (WaitQueue).                                             *)
(***************************************************************************)
EXTENDS WaitQueue

CONSTANTS
  Device,     \* the wait queue of the device
  Reader,     \* the threads that read the device
  Bufsz,      \* serial->config.bufsz
  Count,      \* how many bytes a reader asks for
  StampMod    \* bytes are told apart by their number, modulo StampMod

ASSUME SerialAssumption ==
  /\ Device \in WQ
  /\ Reader \subseteq Thread \ {Idle}
  /\ Bufsz \in Nat \ {0, 1} /\ Count \in Nat \ {0}
  /\ StampMod \in Nat /\ StampMod >= Bufsz

VARIABLES
  rx,         \* struct rt_serial_rx_fifo
  stamp,      \* history: the number of the next byte
  left,       \* length, the local variable of _serial_int_rx
  sated       \* history: since the last interrupt a reader got all it asked for

serial == <<rx, stamp, left, sated>>

Index == 0 .. (Bufsz - 1)
Stamp == 0 .. (StampMod - 1)

SerialTypeOK ==
  /\ k \in KernelState
  /\ rx \in [buffer : [Index -> Stamp], get_index : Index, put_index : Index,
             is_full : BOOLEAN]
  /\ stamp \in Stamp
  /\ left \in [Thread -> 0 .. Count]
  /\ sated \in BOOLEAN

\* rt_serial_open
SerialInit ==
  /\ rx = [buffer |-> [i \in Index |-> 0], get_index |-> 0, put_index |-> 0,
           is_full |-> FALSE]
  /\ stamp = 0 /\ left = [t \in Thread |-> 0] /\ sated = FALSE

-----------------------------------------------------------------------------
(* The receive ring.                                                       *)

next_index(i) == IF i + 1 >= Bufsz THEN 0 ELSE i + 1

no_data(r) == r.get_index = r.put_index /\ ~r.is_full

\* Mutant: the read index stays where it is when the ring is full.
StoreOver(r, ch) ==
  [r EXCEPT !.buffer[r.put_index] = ch,
            !.put_index = next_index(@),
            !.is_full = @ \/ next_index(r.put_index) = r.get_index]

\* One turn of the loop of rt_hw_serial_isr; the oldest byte gives way.
store(r, ch) ==
  LET put   == next_index(r.put_index)
      meets == put = r.get_index
  IN [r EXCEPT !.buffer[r.put_index] = ch,
               !.put_index = put,
               !.get_index = IF meets THEN next_index(@) ELSE @,
               !.is_full = @ \/ meets]

\* One turn of the loop of _serial_int_rx.
fetch(r) == [r EXCEPT !.get_index = next_index(@), !.is_full = FALSE]

\* How many bytes there are to read.
stored == (rx.put_index - rx.get_index) % Bufsz
-----------------------------------------------------------------------------
Read(t) ==
  /\ At(t, "run") /\ t \in Reader
  /\ left' = [left EXCEPT ![t] = Count]
  /\ Go(t, "read")
  /\ UNCHANGED <<k, rx, stamp, sated, queues>>

\* A byte is fetched in a critical section.
ReadByte(t) ==
  /\ At(t, "read") /\ left[t] > 0
  /\ ~no_data(rx)
  /\ rx' = fetch(rx)
  /\ left' = [left EXCEPT ![t] = @ - 1]
  /\ sated' = (sated \/ left[t] = 1)
  /\ UNCHANGED <<threads, stamp, queues>>

\* No byte is left, or none is asked for; a reader that got nothing will wait.
ReadEnd(t) ==
  /\ At(t, "read") /\ (left[t] = 0 \/ no_data(rx))
  /\ IF left[t] = Count
     THEN Go(t, "wait") /\ UNCHANGED left
     ELSE Go(t, "run") /\ left' = [left EXCEPT ![t] = 0]
  /\ UNCHANGED <<k, rx, stamp, sated, queues>>

\* Nothing was read: rt_wqueue_wait, and the file operation reads again.
ReadWait(t) == WaitStep(t, Device, "read") /\ UNCHANGED serial

\* The loop of rt_hw_serial_isr with n bytes in the hardware.
receive_turn(r, i) == store(r, (stamp + i - 1) % StampMod)
received(n) == FoldLeft(receive_turn, rx, [i \in 1 .. n |-> i])

\* The receive interrupt with n bytes in the hardware, and serial_fops_rx_ind.
Receive(n) ==
  /\ rx' = received(n)
  /\ stamp' = (stamp + n) % StampMod
  /\ sated' = FALSE
  /\ rt_wqueue_wakeup(Device, {"POLLIN"})
  /\ UNCHANGED <<left, pc>>

SerialNext ==
  \/ \E t \in Reader : Read(t) \/ ReadByte(t) \/ ReadEnd(t) \/ ReadWait(t)
  \/ \E n \in 1 .. Bufsz : Receive(n)
  \/ ThreadsNext /\ UNCHANGED <<serial, queues>>

-----------------------------------------------------------------------------
\* No reader sleeps while there are bytes to read, unless another one is on its
\* way to read them (it was woken, is reading, or will find the flag set by the
\* wake-up that came between its read and its rt_wqueue_wait) or has got all it
\* asked for and left the rest: an interrupt wakes one reader, however many bytes
\* it brings.  The wait queue holds exactly the readers that sleep: a wake-up is
\* never spent on one that is awake already, and no sleeping reader is out of its
\* reach.
NoSleepOverData ==
  LET asleep == {t \in sleeping : left[t] > 0} IN
  /\ KInv(k) /\ SerialTypeOK
  /\ Len(waiting[Device]) = Cardinality(asleep)
  /\ {n.thread : n \in ToSet(waiting[Device])} = asleep
  /\ asleep # {} /\ ~no_data(rx) /\ ~sated =>
       \E t \in Reader \ asleep :
         \/ pc[t] \in {"q_sched", "q_woken", "q_remove"}
         \/ pc[t] = "read" /\ left[t] > 0
         \/ pc[t] = "wait" /\ wakeup[Device]

\* The ring holds the latest bytes in the order they came: when it is full the
\* oldest gives way, and get_index = put_index never hides bytes.
HoldsLatest ==
  /\ rx.is_full => stored = Bufsz - 1
  /\ \A i \in 0 .. (stored - 1) :
       rx.buffer[(rx.get_index + i) % Bufsz] = (stamp - stored + i) % StampMod
=============================================================================
