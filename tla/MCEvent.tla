------------------------------- MODULE MCEvent -------------------------------
(***************************************************************************)
(* Model values for Event: three threads, tidle, two flags.                *)
(***************************************************************************)
EXTENDS Event, TLC

CONSTANTS t1, t2, t3, idle, a, b, ev

MCThread   == {t1, t2, t3, idle}
MCQueue    == {ev}
MCInitPrio == (t1 :> 0) @@ (t2 :> 1) @@ (t3 :> 1) @@ (idle :> 2)
MCBit      == {a, b}

\* t2 and t3 differ in nothing but their name.
MCSymmetry == Permutations({t2, t3})

ask(flags, o, c) == [set |-> flags, option |-> [op |-> o, clear |-> c]]

\* Requests that compete for the same flags, with and without clearing.
MCRequest == {ask({a, b}, "and", TRUE), ask({a, b}, "or", TRUE),
              ask({a}, "or", FALSE)}
=============================================================================
