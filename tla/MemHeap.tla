------------------------------- MODULE MemHeap -------------------------------
(***************************************************************************)
(* The heap of memheap.c, which serves rt_malloc, rt_free and rt_realloc   *)
(* in this build.  The memory is a chain of blocks, each behind a header   *)
(* (struct rt_memheap_item) at the address that names it; an address is an *)
(* offset in bytes from start_addr.  The free ones are linked in a second  *)
(* list.  A semaphore makes what is done to the two lists one step; what   *)
(* rt_memheap_alloc and rt_memheap_realloc read before they take it, and   *)
(* the steps of rt_realloc, are steps of their own.  Any thread may run    *)
(* between any two steps: priorities only take interleavings away.         *)
(*                                                                         *)
(* op[c].at is where client c is: "run" in its own code; "alloc" before    *)
(* rt_memheap_alloc looks at available_size and "search" before it has the *)
(* lock; in rt_memheap_realloc "grow" and "shrink" before it has the lock, *)
(* "shrunk" between the two updates of available_size, "free" before the   *)
(* rt_memheap_free of the old block.                                       *)
(***************************************************************************)
EXTENDS Integers, SequencesExt

CONSTANTS
  Client,              \* the threads that use the heap
  RT_MEMHEAP_SIZE,     \* the size of a header
  RT_MEMHEAP_MINIALLOC,
  RT_ALIGN_SIZE,
  pool_size,
  Request,             \* the sizes clients ask for
  MaxBlocks,           \* bound: how many blocks a client has
  NoBlock              \* RT_NULL

RT_ALIGN(size) == ((size + RT_ALIGN_SIZE - 1) \div RT_ALIGN_SIZE) * RT_ALIGN_SIZE

ASSUME MemHeapAssumption ==
  /\ {RT_MEMHEAP_SIZE, RT_MEMHEAP_MINIALLOC, RT_ALIGN_SIZE, pool_size}
       \subseteq Nat \ {0}
  /\ \A n \in {pool_size, RT_MEMHEAP_SIZE, RT_MEMHEAP_MINIALLOC} : RT_ALIGN(n) = n
  /\ pool_size > 2 * RT_MEMHEAP_SIZE + RT_MEMHEAP_MINIALLOC
  /\ Request \subseteq Nat \ {0}
  /\ NoBlock \notin Nat \cup Client

VARIABLES
  item,            \* the headers in the chain, by address
  free_list,       \* the addresses of the free blocks, first to be tried first
  available_size,
  lock,            \* who holds the semaphore between two steps, or NoBlock
  op,              \* what each client is doing
  blocks           \* history: the size each client asked for, by its blocks

heapvars == <<item, free_list, available_size, lock, op, blocks>>

tail == pool_size - RT_MEMHEAP_SIZE

Idling == [at |-> "run", old |-> NoBlock, size |-> 0, again |-> FALSE]

\* The size an allocation of n bytes is rounded up to.
alloc_size(n) ==
  IF RT_ALIGN(n) < RT_MEMHEAP_MINIALLOC THEN RT_MEMHEAP_MINIALLOC ELSE RT_ALIGN(n)

HeapInit ==
  /\ item = [i \in {0, tail} |->
               [next |-> tail - i, prev |-> tail - i, used |-> i = tail]]
  /\ free_list = <<0>>
  /\ available_size = pool_size - 2 * RT_MEMHEAP_SIZE
  /\ lock = NoBlock
  /\ op = [c \in Client |-> Idling]
  /\ blocks = [c \in Client |-> << >>]

-----------------------------------------------------------------------------
(* The two lists.                                                          *)

MEMITEM_SIZE(it, i) == it[i].next - i - RT_MEMHEAP_SIZE

\* The header new is linked behind h, as that of a free block.
chain_insert(it, h, new) ==
  LET linked == [it EXCEPT ![h].next = new, ![it[h].next].prev = new]
  IN [i \in DOMAIN it \cup {new} |->
        IF i = new
        THEN [next |-> it[h].next, prev |-> h, used |-> FALSE]
        ELSE linked[i]]

\* The header i goes: its block is part of the one before it.
chain_remove(it, i) ==
  Restrict([it EXCEPT ![it[i].prev].next = it[i].next,
                      ![it[i].next].prev = it[i].prev], DOMAIN it \ {i})

\* The free list without the block i, which is in it.
free_remove(i) ==
  RemoveAt(free_list, CHOOSE j \in DOMAIN free_list : free_list[j] = i)

Doing(c, at) == op[c].at = at
Go_(c, at)   == op' = [op EXCEPT ![c].at = at]
Done(c)      == op' = [op EXCEPT ![c] = Idling]
Locked(c)    == lock \in {NoBlock, c}

\* The block i of client c is known to be of size n.
Own(c, i, n) == blocks' = [blocks EXCEPT ![c] = [@ EXCEPT ![i] = n]]

-----------------------------------------------------------------------------
(* rt_memheap_alloc.                                                       *)

Malloc(c, n) ==
  /\ Doing(c, "run") /\ Cardinality(DOMAIN blocks[c]) < MaxBlocks
  /\ op' = [op EXCEPT ![c].at = "alloc", ![c].size = alloc_size(n)]
  /\ UNCHANGED <<item, free_list, available_size, lock, blocks>>

\* The allocation fails; rt_realloc then tries once more, with rt_malloc.
AllocFails(c) ==
  op' = IF op[c].old # NoBlock /\ ~op[c].again
        THEN [op EXCEPT ![c].at = "alloc", ![c].again = TRUE]
        ELSE [op EXCEPT ![c] = Idling]

\* available_size is looked at before the lock is taken.
AllocTest(c) ==
  /\ Doing(c, "alloc")
  /\ IF op[c].size < available_size THEN Go_(c, "search") ELSE AllocFails(c)
  /\ UNCHANGED <<item, free_list, available_size, lock, blocks>>

\* The positions in the free list of the blocks that are large enough.
fitting(n) == {j \in DOMAIN free_list : MEMITEM_SIZE(item, free_list[j]) >= n}

\* Client c is given the block i; in rt_realloc the old one has still to go.
Given(c, i) ==
  /\ blocks' = [blocks EXCEPT ![c] = [j \in DOMAIN @ \cup {i} |->
                                        IF j = i THEN op[c].size ELSE @[j]]]
  /\ IF op[c].old = NoBlock THEN Done(c) ELSE Go_(c, "free")

\* Mutant: only the first free block is looked at.
AllocFirst(c) ==
  /\ Doing(c, "search") /\ Locked(c)
  /\ IF 1 \in fitting(op[c].size)
     THEN /\ item' = [item EXCEPT ![free_list[1]].used = TRUE]
          /\ free_list' = Tail(free_list)
          /\ available_size' = available_size - MEMITEM_SIZE(item, free_list[1])
          /\ Given(c, free_list[1])
     ELSE AllocFails(c) /\ UNCHANGED <<item, free_list, available_size, blocks>>
  /\ UNCHANGED lock

\* First fit; what is left of the block is split off if a header and the least
\* block fit in it.
AllocSearch(c) ==
  /\ Doing(c, "search") /\ Locked(c)
  /\ LET n   == op[c].size
         i   == free_list[CHOOSE j \in fitting(n) : \A h \in fitting(n) : j <= h]
         new == i + n + RT_MEMHEAP_SIZE
     IN IF fitting(n) = {}
        THEN AllocFails(c) /\ UNCHANGED <<item, free_list, available_size, blocks>>
        ELSE /\ IF MEMITEM_SIZE(item, i) >= n + RT_MEMHEAP_SIZE + RT_MEMHEAP_MINIALLOC
                THEN /\ item' = [chain_insert(item, i, new) EXCEPT ![i].used = TRUE]
                     /\ free_list' = <<new>> \o free_remove(i)
                     /\ available_size' = available_size - n - RT_MEMHEAP_SIZE
                ELSE /\ item' = [item EXCEPT ![i].used = TRUE]
                     /\ free_list' = free_remove(i)
                     /\ available_size' = available_size - MEMITEM_SIZE(item, i)
             /\ Given(c, i)
  /\ UNCHANGED lock

-----------------------------------------------------------------------------
(* rt_memheap_free.                                                        *)

\* Mutant: a free neighbour on the right is only looked for without one on the
\* left.
free_one_side(i) ==
  LET left  == ~item[item[i].prev].used
      right == ~left /\ ~item[item[i].next].used
      freed == [item EXCEPT ![i].used = FALSE]
  IN /\ item' = CASE left -> chain_remove(freed, i)
                   [] right -> chain_remove(freed, item[i].next)
                   [] OTHER -> freed
     /\ available_size' = available_size + MEMITEM_SIZE(item, i)
          + (IF left \/ right THEN RT_MEMHEAP_SIZE ELSE 0)
     /\ free_list' = CASE left -> free_list
                        [] right -> <<i>> \o free_remove(item[i].next)
                        [] OTHER -> <<i>> \o free_list

\* The block i becomes free and is merged with a free one before it and a free
\* one after it.
rt_memheap_free(i) ==
  LET left  == ~item[item[i].prev].used
      right == ~item[item[i].next].used
      first == IF left THEN item[i].prev ELSE i
      freed == [item EXCEPT ![i].used = FALSE]
      alone == IF left THEN chain_remove(freed, i) ELSE freed
  IN /\ item' = IF right THEN chain_remove(alone, item[i].next) ELSE alone
     /\ available_size' = available_size + MEMITEM_SIZE(item, i)
          + (IF left THEN RT_MEMHEAP_SIZE ELSE 0)
          + (IF right THEN RT_MEMHEAP_SIZE ELSE 0)
     /\ free_list' = (IF left THEN << >> ELSE <<first>>)
          \o (IF right THEN free_remove(item[i].next) ELSE free_list)

Disown(c, i) == blocks' = [blocks EXCEPT ![c] = Restrict(@, DOMAIN @ \ {i})]

Free_(c, i) ==
  /\ Doing(c, "run") /\ i \in DOMAIN blocks[c] /\ Locked(c)
  /\ rt_memheap_free(i)
  /\ Disown(c, i)
  /\ UNCHANGED <<lock, op>>

\* The old block of rt_realloc, once its contents have been copied.
FreeOld(c) ==
  /\ Doing(c, "free") /\ Locked(c)
  /\ rt_memheap_free(op[c].old)
  /\ Disown(c, op[c].old)
  /\ Done(c)
  /\ UNCHANGED lock

-----------------------------------------------------------------------------
(* rt_memheap_realloc.                                                     *)

\* The size of the block is that of its header: only its owner changes it.  A
\* smaller block stays as it is if what would be left is too little.
Realloc(c, i, n) ==
  LET new == alloc_size(n)
      old == MEMITEM_SIZE(item, i)
  IN /\ Doing(c, "run") /\ i \in DOMAIN blocks[c]
     /\ op' = IF new <= old /\ new + RT_MEMHEAP_SIZE + RT_MEMHEAP_MINIALLOC >= old
              THEN op
              ELSE [op EXCEPT ![c] = [at    |-> IF new > old THEN "grow" ELSE "shrink",
                                      old   |-> i,
                                      size  |-> new,
                                      again |-> FALSE]]
     /\ IF new <= old THEN Own(c, i, new) ELSE UNCHANGED blocks
     /\ UNCHANGED <<item, free_list, available_size, lock>>

\* The block grows into a free one behind it, the rest of which stays a block,
\* or is allocated anew.
Grow(c) ==
  LET i     == op[c].old
      n     == op[c].size
      right == item[i].next
      new   == i + RT_MEMHEAP_SIZE + n
  IN /\ Doing(c, "grow") /\ Locked(c)
     /\ IF /\ ~item[right].used
           /\ MEMITEM_SIZE(item, right) + MEMITEM_SIZE(item, i)
                > n + RT_MEMHEAP_MINIALLOC
        THEN /\ available_size' = available_size - (n - MEMITEM_SIZE(item, i))
             /\ item' = chain_insert(chain_remove(item, right), i, new)
             /\ free_list' = <<new>> \o free_remove(right)
             /\ Own(c, i, n) /\ Done(c)
        ELSE Go_(c, "alloc") /\ UNCHANGED <<item, free_list, available_size, blocks>>
     /\ UNCHANGED lock

\* Mutant: the header of the new block is not counted.
ShrinkOver(c) ==
  LET i   == op[c].old
      new == i + op[c].size
  IN /\ Doing(c, "shrink") /\ Locked(c)
     /\ item[item[i].next].used
     /\ item' = chain_insert(item, i, new)
     /\ lock' = c
     /\ Go_(c, "shrunk")
     /\ UNCHANGED <<free_list, available_size, blocks>>

\* The block is split, and the new one merged with a free one behind it: then
\* available_size lacks that one, for readers without the lock, until it is
\* linked in the free list.
Shrink(c) ==
  LET i     == op[c].old
      new   == i + op[c].size + RT_MEMHEAP_SIZE
      split == chain_insert(item, i, new)
      right == item[i].next
  IN /\ Doing(c, "shrink") /\ Locked(c)
     /\ IF item[right].used
        THEN item' = split /\ UNCHANGED <<free_list, available_size>>
        ELSE /\ item' = chain_remove(split, right)
             /\ free_list' = free_remove(right)
             /\ available_size' = available_size - MEMITEM_SIZE(item, right)
     /\ lock' = c
     /\ Go_(c, "shrunk")
     /\ UNCHANGED blocks

ShrinkEnd(c) ==
  LET new == item[op[c].old].next IN
  /\ Doing(c, "shrunk")
  /\ free_list' = <<new>> \o free_list
  /\ available_size' = available_size + MEMITEM_SIZE(item, new)
  /\ lock' = NoBlock
  /\ Done(c)
  /\ UNCHANGED <<item, blocks>>

ClientStep(c) ==
  \/ \E n \in Request : Malloc(c, n)
  \/ AllocTest(c)
  \/ AllocSearch(c)
  \/ \E i \in DOMAIN blocks[c] : Free_(c, i)
  \/ FreeOld(c)
  \/ \E i \in DOMAIN blocks[c], n \in Request : Realloc(c, i, n)
  \/ Grow(c)
  \/ Shrink(c)
  \/ ShrinkEnd(c)

HeapNext == \E c \in Client : ClientStep(c)

HeapSpec == HeapInit /\ [][HeapNext]_heapvars

-----------------------------------------------------------------------------
isfree(i) == ~item[i].used

\* The blocks are a chain without gaps through the whole pool, in both
\* directions; the free list holds the free ones, no two of which are neighbours;
\* available_size is what they hold.  Splits and merges keep it so.
HeapConsistent ==
  /\ {0, tail} \subseteq DOMAIN item /\ item[tail].used
  /\ \A i \in DOMAIN item :
       /\ item[item[i].next].prev = i /\ item[item[i].prev].next = i
       /\ i # tail => MEMITEM_SIZE(item, i) >= RT_MEMHEAP_MINIALLOC
       /\ ~\E j \in DOMAIN item : i < j /\ j < item[i].next
       /\ lock = NoBlock /\ isfree(i) => ~isfree(item[i].next)
  /\ IsInjective(free_list)
  /\ lock = NoBlock =>
       /\ ToSet(free_list) = {i \in DOMAIN item : isfree(i)}
       /\ LET size == [i \in DOMAIN item |-> MEMITEM_SIZE(item, i)]
          IN available_size = MapThenSumSet(LAMBDA i : size[i], ToSet(free_list))

\* A block that a client was given stays its own, and as large as it last asked
\* for, until it frees it, whatever the others do meanwhile; and the memory nobody has
\* is free.
BlocksIntact ==
  /\ \A i \in DOMAIN item \ {tail} :
       Cardinality({c \in Client : i \in DOMAIN blocks[c]})
         = IF isfree(i) THEN 0 ELSE 1
  /\ \A c \in Client : \A i \in DOMAIN blocks[c] :
       /\ i \in DOMAIN item
       /\ blocks[c][i] <= MEMITEM_SIZE(item, i)

\* An allocation fails only if no free block is large enough, or one is that all
\* the free memory consists of, or while a rt_memheap_realloc is between its two
\* updates of available_size.
FailsOnlyWhenFull ==
  [][\A c \in Client :
       op[c].at \in {"alloc", "search"} /\ AllocFails(c) /\ UNCHANGED blocks =>
         \/ lock # NoBlock
         \/ \A i \in ToSet(free_list) :
              MEMITEM_SIZE(item, i) < op[c].size
                \/ available_size = op[c].size]_heapvars
=============================================================================
