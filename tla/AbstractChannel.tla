--------------------------- MODULE AbstractChannel ---------------------------
(***************************************************************************)
(* What a mailbox and a message queue promise: a bounded line of messages. *)
(* A message somebody sends is put last, or first when it is urgent; the   *)
(* first message is given to exactly one receiver; a reset forgets all of  *)
(* them.  There are no buffers, wait lists, copies or interrupts here.     *)
(***************************************************************************)
EXTENDS Naturals, Sequences

CONSTANTS
  Party, Message, Capacity,
  Urgent,      \* the messages that are sent as urgent
  Nothing      \* no message

VARIABLES
  line,      \* the messages that can be received, next one first
  sending,   \* the message each party is trying to send
  got        \* the last message each party received

absVars == <<line, sending, got>>

AbsInit ==
  /\ line = << >>
  /\ sending = [c \in Party |-> Nothing]
  /\ got \in [Party -> Message \cup {Nothing}]

Offer(c, msg) ==
  /\ sending[c] = Nothing
  /\ sending' = [sending EXCEPT ![c] = msg]
  /\ UNCHANGED <<line, got>>

\* The sender gives up: it timed out, or a reset woke it.
Withdraw(c) ==
  /\ sending' = [sending EXCEPT ![c] = Nothing]
  /\ UNCHANGED <<line, got>>

Extended(msg) == IF msg \in Urgent THEN <<msg>> \o line ELSE Append(line, msg)

Put(c, msg) ==
  /\ sending[c] \in {msg, Nothing}
  /\ Len(line) < Capacity
  /\ line' = Extended(msg)
  /\ sending' = [sending EXCEPT ![c] = Nothing]
  /\ UNCHANGED got

\* Somebody who is not one of the parties sends.
PutFromOutside(msg) ==
  /\ Len(line) < Capacity
  /\ line' = Extended(msg)
  /\ UNCHANGED <<sending, got>>

Get(c) ==
  /\ line # << >>
  /\ line' = Tail(line)
  /\ got' = [got EXCEPT ![c] = Head(line)]
  /\ UNCHANGED sending

Forget == line' = << >> /\ UNCHANGED <<sending, got>>

AbsNext ==
  \/ \E c \in Party : Withdraw(c) \/ Get(c)
  \/ \E c \in Party, msg \in Message : Offer(c, msg) \/ Put(c, msg)
  \/ \E msg \in Message : PutFromOutside(msg)
  \/ Forget

AbsSpec == AbsInit /\ [][AbsNext]_absVars
=============================================================================
