------------------------------ MODULE MCMutex -------------------------------
(***************************************************************************)
(* Model values for Mutex: three threads of three priorities and tidle,    *)
(* with one mutex.                                                         *)
(***************************************************************************)
EXTENDS Mutex

CONSTANTS t1, t2, t3, idle, m1

MCThread   == {t1, t2, t3, idle}
MCClient   == {t1, t2, t3}
MCTop      == {t1}
MCLow      == {t3}
MCReceiver == {t1, t2}
MCQueue    == {m1}
MCInitPrio == (t1 :> 0) @@ (t2 :> 1) @@ (t3 :> 2) @@ (idle :> 3)
=============================================================================
