--------------------------- MODULE MCMessageQueue ---------------------------
(***************************************************************************)
(* Model values for MessageQueue: three threads of two priorities, two     *)
(* slots, a normal message m1 and an urgent one m2.                        *)
(***************************************************************************)
EXTENDS MessageQueue

CONSTANTS t1, t2, t3, idle, s1, s2, m1, m2, q1

MCThread   == {t1, t2, t3, idle}
MCInitPrio == (t1 :> 0) @@ (t2 :> 1) @@ (t3 :> 1) @@ (idle :> 2)
MCQueue    == {q1}
MCSlot     == {s1, s2}
MCMessage  == {m1, m2}
MCUrgent   == {m2}
MCSends    == (t1 :> {}) @@ (t2 :> {m1}) @@ (t3 :> {m1, m2}) @@ (idle :> {})
MCIsrSends == {m2}
MCReceiver == {t1, t2}
=============================================================================
