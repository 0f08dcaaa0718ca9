------------------------------ MODULE MCMailbox ------------------------------
(***************************************************************************)
(* Model values for Mailbox: three threads of two priorities, two mails,   *)
(* room for two.                                                           *)
(***************************************************************************)
EXTENDS Mailbox

CONSTANTS t1, t2, t3, idle, m1, m2, mbr, mbs

MCThread   == {t1, t2, t3, idle}
MCInitPrio == (t1 :> 0) @@ (t2 :> 1) @@ (t3 :> 1) @@ (idle :> 2)
MCQueue    == {mbr, mbs}
MCMail     == {m1, m2}
MCSends    == (t1 :> {}) @@ (t2 :> {m1}) @@ (t3 :> {m2}) @@ (idle :> {})
MCIsrSends == {m1}
MCReceiver == {t1, t2}
=============================================================================
