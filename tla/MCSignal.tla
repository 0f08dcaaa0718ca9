------------------------------ MODULE MCSignal ------------------------------
(***************************************************************************)
(* Model values for Signal: a receiver and a sender of the same urgency,   *)
(* so that each may run between any two steps of the other.                *)
(***************************************************************************)
EXTENDS Signal

CONSTANTS t1, t2, idle, sem, s1, s2

MCThread   == {t1, t2, idle}
MCQueue    == {sem}
MCInitPrio == (t1 :> 0) @@ (t2 :> 0) @@ (idle :> 1)
MCReceiver == {t1}
MCSender   == {t2}
MCSig      == {s1, s2}
Symmetry   == Permutations(MCSig)
=============================================================================
