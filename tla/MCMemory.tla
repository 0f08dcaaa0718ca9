------------------------------ MODULE MCMemory ------------------------------
(***************************************************************************)
(* Model values for MemPool (three threads, tidle, two blocks) and for     *)
(* MemHeap (two threads; 24 bytes of header, as on the board; room for at  *)
(* most four blocks).  The two share nothing, so that a behaviour of both  *)
(* is one of each: opened says which of them a behaviour follows, and the  *)
(* other stays as it was initialised.                                      *)
(***************************************************************************)
EXTENDS MemPool, MemHeap

CONSTANTS t1, t2, t3, idle, b1, b2, mp, c1, c2

MCThread   == {t1, t2, t3, idle}
MCQueue    == {mp}
MCInitPrio == (t1 :> 0) @@ (t2 :> 1) @@ (t3 :> 1) @@ (idle :> 2)
MCBlock    == {b1, b2}
MCClient   == {c1, c2}
MCRequest  == {9, 13, 40}

\* Clients, blocks, and the threads t2 and t3 differ in nothing but their names.
Symmetry ==
  Permutations(MCClient) \cup Permutations(MCBlock) \cup Permutations({t2, t3})

VARIABLE opened

MCInit == Init /\ HeapInit /\ opened \in {"pool", "heap"}

PoolStep == opened = "pool" /\ Next /\ UNCHANGED heapvars
HeapStep == opened = "heap" /\ HeapNext /\ UNCHANGED vars
MCNext   == (PoolStep \/ HeapStep) /\ UNCHANGED opened

MCSpec == MCInit /\ [][MCNext]_<<vars, heapvars, opened>>
=============================================================================
