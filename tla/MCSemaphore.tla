---------------------------- MODULE MCSemaphore -----------------------------
(***************************************************************************)
(* Model values for Semaphore: three threads of two priorities and tidle.  *)
(***************************************************************************)
EXTENDS Semaphore

CONSTANTS t1, t2, t3, idle, sem

MCThread   == {t1, t2, t3, idle}
MCQueue    == {sem}
MCInitPrio == (t1 :> 0) @@ (t2 :> 1) @@ (t3 :> 1) @@ (idle :> 2)
=============================================================================
