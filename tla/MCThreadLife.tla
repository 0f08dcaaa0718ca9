---------------------------- MODULE MCThreadLife ----------------------------
(***************************************************************************)
(* Model values for ThreadLife: dynamic threads without (t1) and with (t2) *)
(* a cleanup, static ones with (t3) and without (t4), and tidle.           *)
(***************************************************************************)
EXTENDS ThreadLife, TLC

CONSTANTS t1, t2, t3, t4, idle, dead

MCThread   == {t1, t2, t3, t4, idle}
MCQueue    == {dead}
MCInitPrio == (t1 :> 0) @@ (t2 :> 1) @@ (t3 :> 1) @@ (t4 :> 1) @@ (idle :> 2)
MCDynamic  == {t1, t2}
MCCleanup  == {t2, t3}

\* Those that may be deleted do not sleep, or if static have no cleanup.
MCMortal   == {t2, t4}
MCSleeper  == {t1}

\* One may overtake the other, or be deleted while it resumes somebody.
MCReviver  == {t1, t4}
=============================================================================
