-------------------------- MODULE MessageQueueProofs --------------------------
(***************************************************************************)
(* The message queue, for every set of threads, every pool of slots and    *)
(* every choice of who sends what: no slot is lost or in two places, no    *)
(* wake-up is lost, and the linked slots are a bounded line of messages.   *)
(***************************************************************************)
EXTENDS MessageQueue, KernelProofs

-----------------------------------------------------------------------------
(* Counting up to a bound.                                                 *)

\* A set with 0 that has every number after one of its own has all of them.
LEMMA UpTo ==
  ASSUME NEW N \in Nat, NEW R, 0 \in R,
         \A n \in 1 .. N : n - 1 \in R => n \in R
  PROVE  \A n \in 0 .. N : n \in R
<1> DEFINE B == {n \in 0 .. N : n \notin R}
<1> SUFFICES ASSUME B # {} PROVE FALSE
  OBVIOUS
<1>1. \A n \in B : n \in Nat
  OBVIOUS
<1> HIDE DEF B
<1>2. PICK n \in B : \A m \in B : n <= m
  BY <1>1, LeastNat
<1>3. n \in 1 .. N /\ n \notin R
  BY <1>2 DEF B
<1>4. n - 1 \in 0 .. N /\ n - 1 \notin B
  BY <1>2, <1>3
<1> QED BY <1>3, <1>4 DEF B

\* N turns of g, beginning with base.
Repeats(f, N, base, g) ==
  f[0] = base /\ \A n \in 1 .. N : f[n] = g[f[n - 1]]

\* There is a function that gives the result after every number of turns.
LEMMA RepeatsExist ==
  ASSUME NEW N \in Nat, NEW V, NEW base \in V, NEW g \in [V -> V]
  PROVE  \E f \in [0 .. N -> V] : Repeats(f, N, base, g)
<1> DEFINE g2 == [p \in (1 .. N) \X V |-> g[p[2]]]
<1>1. g2 \in [(1 .. N) \X V -> V]
  OBVIOUS
<1>2. \A n \in 1 .. N, v \in V : g2[<<n, v>>] = g[v]
  OBVIOUS
<1> HIDE DEF g2
<1>3. PICK h \in [SUBSET (1 .. N) -> V] : LoopOf(h, N, V, base, g2)
  BY <1>1, LoopExists
<1> DEFINE f == [n \in 0 .. N |-> h[1 .. n]]
<1>4. \A n \in 0 .. N : (1 .. n) \in SUBSET (1 .. N)
  OBVIOUS
<1>5. f \in [0 .. N -> V]
  BY <1>3, <1>4
<1>6. f[0] = base
  <2>1. f[0] = h[1 .. 0] /\ (1 .. 0) = {}
    OBVIOUS
  <2> QED BY <1>3, <2>1 DEF LoopOf
<1>7. ASSUME NEW n \in 1 .. N
      PROVE  f[n] = g[f[n - 1]]
  <2> DEFINE s == 1 .. n
  <2>1. s \in SUBSET (1 .. N) /\ s # {} /\ n \in s
    OBVIOUS
  <2>2. /\ Max(s) \in s /\ h[s \ {Max(s)}] \in V
        /\ h[s] = g2[<<Max(s), h[s \ {Max(s)}]>>]
    BY <1>3, <2>1 DEF LoopOf
  <2>3. Max(s) = n
    <3>1. n \in s /\ \A x \in s : n >= x /\ x \in Int
      OBVIOUS
    <3> HIDE DEF s
    <3>2. Max(s) >= n
      BY <3>1 DEF Max
    <3>3. n >= Max(s) /\ Max(s) \in Int /\ n \in Int
      BY <2>2, <3>1
    <3> QED BY ONLY <3>2, <3>3
  <2>4. s \ {n} = 1 .. (n - 1)
    OBVIOUS
  <2>5. h[s] = g[h[1 .. (n - 1)]]
    BY <1>2, <2>2, <2>3, <2>4
  <2>6. f[n] = h[s] /\ f[n - 1] = h[1 .. (n - 1)]
    OBVIOUS
  <2> QED BY <2>5, <2>6
<1> HIDE DEF f
<1>8. Repeats(f, N, base, g)
  BY <1>6, <1>7 DEF Repeats
<1> QED BY <1>5, <1>8

-----------------------------------------------------------------------------
(* Chains of slots.                                                        *)

\* The i-th slot of the list c, Null after the last one.
At(c, i) == IF i <= Len(c) THEN c[i] ELSE Null

\* The next fields lead from x through the slots of c to Null.
Chain(next, x, c) ==
  /\ c \in Seq(Slot) /\ IsInjective(c)
  /\ x = At(c, 1)
  /\ \A i \in 1 .. Len(c) : next[c[i]] = At(c, i + 1)

\* The lists of slots, by how many there are.
LEMMA SlotLists ==
  /\ Cardinality(Slot) \in Nat
  /\ \A c \in Seq(Slot) : IsInjective(c) => Len(c) <= Cardinality(Slot)
<1>1. IsFiniteSet(Slot)
  BY MessageQueueAssumption
<1>2. Cardinality(Slot) \in Nat
  BY <1>1, FS_CardinalityType
<1>3. ASSUME NEW c \in Seq(Slot), IsInjective(c)
      PROVE  Len(c) <= Cardinality(Slot)
  <2>1. ToSet(c) \subseteq Slot
    BY ListElements
  <2>2. Cardinality(ToSet(c)) = Len(c)
    BY <1>3, CardinalityOfList
  <2> QED BY <1>1, <2>1, <2>2, FS_Subset
<1> QED BY <1>2, <1>3

\* What from computes is the chain that begins there.
LEMMA FromChain ==
  ASSUME NEW q, q.next \in [Slot -> Link], NEW x, NEW c, Chain(q.next, x, c)
  PROVE  from(q, x) = c
<1> DEFINE N == Cardinality(Slot)
           D == 0 .. N
           V == Seq(Slot)
           Step(f) == [n \in D |-> IF n = 0 THEN << >> ELSE walk_on(q, x, f[n - 1])]
           g == [v \in V |-> walk_on(q, x, v)]
<1>1. N \in Nat /\ Len(c) \in Nat /\ Len(c) <= N /\ c \in Seq(Slot)
  BY SlotLists DEF Chain
<1>2. x \in Link /\ Null \notin Slot
  BY <1>1, MessageQueueAssumption DEF Chain, At, Link
<1>3. g \in [V -> V]
  <2>1. ASSUME NEW v \in V
        PROVE  walk_on(q, x, v) \in V
    <3> DEFINE y == IF v = << >> THEN x ELSE q.next[Last(v)]
    <3>1. y \in Link
      <4>1. v # << >> => Last(v) \in Slot
        BY DEF Last
      <4> QED BY <1>2, <4>1
    <3> HIDE DEF y
    <3>2. walk_on(q, x, v) = IF y = Null THEN v ELSE Append(v, y)
      BY DEF walk_on, y
    <3> QED BY <3>1, <3>2 DEF Link
  <2> QED BY <2>1
<1> HIDE DEF N
<1>4. PICK h \in [D -> V] : Repeats(h, N, << >>, g)
  <2>1. << >> \in V
    OBVIOUS
  <2> HIDE DEF V, g
  <2> QED BY <1>1, <1>3, <2>1, RepeatsExist
<1>5. h = Step(h)
  <2>1. ASSUME NEW n \in D
        PROVE  h[n] = IF n = 0 THEN << >> ELSE walk_on(q, x, h[n - 1])
    <3>1. CASE n = 0
      BY <1>4, <3>1 DEF Repeats
    <3>2. CASE n # 0
      <4>1. n \in 1 .. N /\ n - 1 \in D
        BY <1>1, <3>2
      <4>2. h[n] = g[h[n - 1]] /\ h[n - 1] \in V
        BY <1>4, <4>1 DEF Repeats
      <4> QED BY <3>2, <4>2
    <3> QED BY <3>1, <3>2
  <2> HIDE DEF V
  <2> QED BY <1>4, <2>1
<1> DEFINE s == CHOOSE s : s = Step(s)
<1>6. s = Step(s)
  <2> HIDE DEF Step
  <2> QED BY <1>5
<1>7. from(q, x) = s[N]
  BY DEF from, N
<1> HIDE DEF s, V, g
<1>8. s[0] = << >> /\ \A n \in 1 .. N : s[n] = walk_on(q, x, s[n - 1])
  <2>1. 0 \in D /\ \A n \in 1 .. N : n \in D /\ n # 0
    BY <1>1
  <2> QED BY <1>6, <2>1
<1> HIDE DEF Step
<1> DEFINE first(n) == SubSeq(c, 1, IF n <= Len(c) THEN n ELSE Len(c))
           R == {n \in D : s[n] = first(n)}
<1>9. 0 \in R
  <2>1. first(0) = << >> /\ 0 \in D
    BY <1>1
  <2> QED BY <1>8, <2>1
<1>10. ASSUME NEW n \in 1 .. N, n - 1 \in R
       PROVE  n \in R
  <2> DEFINE m == n - 1
             y == IF first(m) = << >> THEN x ELSE q.next[Last(first(m))]
  <2>1. m \in Nat /\ n = m + 1 /\ s[m] = first(m)
    BY <1>1, <1>10
  <2>2. s[n] = IF y = Null THEN first(m) ELSE Append(first(m), y)
    BY <1>8, <2>1 DEF walk_on
  <2> HIDE DEF m
  <2>3. CASE m < Len(c)
    <3>1. Len(first(m)) = m /\ first(m) \in Seq(Slot)
          /\ \A i \in 1 .. m : first(m)[i] = c[i]
      BY <1>1, <2>1, <2>3
    <3>2. y = c[m + 1]
      <4>1. CASE m = 0
        <5>1. first(m) = << >> /\ 1 <= Len(c) /\ m + 1 = 1
          BY <1>1, <2>1, <2>3, <4>1
        <5> QED BY <1>1, <5>1 DEF Chain, At
      <4>2. CASE m # 0
        <5>1. m \in 1 .. Len(c) /\ m + 1 <= Len(c) /\ first(m) # << >>
          BY <1>1, <2>1, <2>3, <3>1, <4>2
        <5>2. Last(first(m)) = c[m]
          BY <2>1, <3>1, <4>2 DEF Last
        <5> QED BY <5>1, <5>2 DEF Chain, At
      <4> QED BY <4>1, <4>2
    <3>3. y # Null
      BY <1>1, <1>2, <2>1, <2>3, <3>2
    <3>4. Append(first(m), c[m + 1]) = first(n)
      BY <1>1, <2>1, <2>3
    <3>5. s[n] = first(n)
      BY <2>2, <3>2, <3>3, <3>4
    <3> QED BY <1>1, <3>5
  <2>4. CASE ~(m < Len(c))
    <3>1. first(m) = c /\ first(n) = c
      BY <1>1, <2>1, <2>4
    <3>2. y = Null
      <4>1. CASE c = << >>
        BY <3>1, <4>1 DEF Chain, At
      <4>2. CASE c # << >>
        <5>1. Len(c) \in 1 .. Len(c) /\ ~(Len(c) + 1 <= Len(c))
          BY <1>1, <4>2
        <5>2. q.next[c[Len(c)]] = Null
          BY <5>1 DEF Chain, At
        <5>3. y = q.next[Last(c)]
          <6> HIDE DEF first
          <6> QED BY <3>1, <4>2
        <5> QED BY <5>2, <5>3 DEF Last
      <4> QED BY <4>1, <4>2
    <3>3. s[n] = first(n)
      BY <2>2, <3>1, <3>2
    <3> QED BY <1>1, <3>3
  <2> QED BY <2>1, <2>3, <2>4
<1> HIDE DEF R
<1>11. N \in R
  <2>1. \A n \in D : n \in R
    BY ONLY <1>1, <1>9, <1>10, UpTo
  <2> QED BY <1>1, <2>1
<1>12. s[N] = first(N)
  BY <1>11 DEF R
<1>13. first(N) = c
  BY <1>1
<1> QED BY <1>7, <1>12, <1>13

\* A chain does not depend on the next fields of other slots.
LEMMA ChainElsewhere ==
  ASSUME NEW next \in [Slot -> Link], NEW x, NEW c, Chain(next, x, c),
         NEW s, s \notin ToSet(c), NEW v
  PROVE  Chain([next EXCEPT ![s] = v], x, c)
<1>1. \A i \in 1 .. Len(c) : c[i] \in Slot /\ c[i] # s
  <2>1. c \in Seq(Slot) /\ DOMAIN c = 1 .. Len(c)
    BY LenProperties DEF Chain
  <2> QED BY <2>1 DEF ToSet
<1> QED BY <1>1 DEF Chain

\* The first slot of a chain, and the rest.
LEMMA ChainFirst ==
  ASSUME NEW next \in [Slot -> Link], NEW x, NEW c, Chain(next, x, c)
  PROVE  /\ x \in Link /\ (x = Null <=> c = << >>)
         /\ x # Null => /\ x \in Slot /\ x = Head(c) /\ x \in ToSet(c)
                        /\ Chain(next, next[x], Tail(c))
                        /\ ToSet(Tail(c)) = ToSet(c) \ {x}
                        /\ Len(Tail(c)) = Len(c) - 1
<1>1. c \in Seq(Slot) /\ IsInjective(c) /\ Len(c) \in Nat /\ Null \notin Slot
  BY LenProperties, MessageQueueAssumption DEF Chain
<1>2. CASE c = << >>
  <2>1. x = Null
    BY <1>2 DEF Chain, At
  <2> QED BY <1>2, <2>1 DEF Link
<1>3. CASE c # << >>
  <2>1. Len(c) >= 1 /\ 1 \in 1 .. Len(c)
    BY <1>1, <1>3
  <2>2. x = c[1] /\ c[1] \in Slot /\ next[c[1]] = At(c, 2) /\ Head(c) = c[1]
    BY <1>1, <1>3, <2>1, HeadTailProperties DEF Chain, At
  <2>3. /\ Tail(c) \in Seq(Slot) /\ Len(Tail(c)) = Len(c) - 1
        /\ IsInjective(Tail(c)) /\ ToSet(Tail(c)) = ToSet(c) \ {x}
    BY <1>1, <1>3, <2>2, TailDistinct
  <2>4. \A i \in 1 .. Len(c) : At(Tail(c), i) = At(c, i + 1)
    BY <1>1, <1>3, <2>1, <2>3 DEF At
  <2>5. \A i \in 1 .. Len(Tail(c)) : next[Tail(c)[i]] = At(Tail(c), i + 1)
    <3> SUFFICES ASSUME NEW i \in 1 .. Len(Tail(c))
                 PROVE  next[Tail(c)[i]] = At(Tail(c), i + 1)
      OBVIOUS
    <3>1. i \in 1 .. Len(c) /\ i + 1 \in 1 .. Len(c)
      BY <1>1, <2>3
    <3>2. Tail(c)[i] = c[i + 1]
      BY <2>3, <2>4, <3>1 DEF At
    <3>3. next[c[i + 1]] = At(c, (i + 1) + 1)
      BY <3>1 DEF Chain
    <3> QED BY <2>4, <3>1, <3>2, <3>3
  <2>6. At(Tail(c), 1) = At(c, 2)
    BY <2>1, <2>4
  <2>7. Chain(next, next[x], Tail(c))
    BY <2>2, <2>3, <2>5, <2>6 DEF Chain
  <2>8. x \in ToSet(c)
    <3>1. ToSet(c) # {}
      BY <1>1, <1>3, EmptyList
    <3> QED BY <1>1, <2>2, <3>1, HeadInList
  <2> QED BY <1>1, <1>3, <2>2, <2>3, <2>7, <2>8 DEF Link
<1> QED BY <1>2, <1>3

\* A slot in front of a chain.
LEMMA ChainBefore ==
  ASSUME NEW next \in [Slot -> Link], NEW x, NEW c, Chain(next, x, c),
         NEW s \in Slot, s \notin ToSet(c), next[s] = x
  PROVE  /\ Chain(next, s, <<s>> \o c)
         /\ ToSet(<<s>> \o c) = ToSet(c) \cup {s}
         /\ Len(<<s>> \o c) = Len(c) + 1
<1> DEFINE d == <<s>> \o c
<1>1. c \in Seq(Slot) /\ IsInjective(c) /\ Len(c) \in Nat
  BY LenProperties DEF Chain
<1>2. /\ d \in Seq(Slot) /\ Len(d) = Len(c) + 1
      /\ IsInjective(d) /\ ToSet(d) = ToSet(c) \cup {s}
  BY <1>1, PrependDistinct
<1>3. d[1] = s /\ \A i \in 1 .. Len(c) : d[i + 1] = c[i]
  BY <1>1
<1> HIDE DEF d
<1>4. At(d, 1) = s /\ \A i \in 1 .. (Len(c) + 1) : At(d, i + 1) = At(c, i)
  BY <1>1, <1>2, <1>3 DEF At
<1>5. \A i \in 1 .. Len(d) : next[d[i]] = At(d, i + 1)
  <2> SUFFICES ASSUME NEW i \in 1 .. Len(d) PROVE next[d[i]] = At(d, i + 1)
    OBVIOUS
  <2>1. CASE i = 1
    BY <1>1, <1>3, <1>4, <2>1 DEF Chain
  <2>2. CASE i # 1
    <3>1. i - 1 \in 1 .. Len(c) /\ (i - 1) + 1 = i /\ i \in 1 .. (Len(c) + 1)
      BY <1>1, <1>2, <2>2
    <3>2. d[i] = c[i - 1] /\ next[c[i - 1]] = At(c, i)
      BY <1>3, <3>1 DEF Chain
    <3> QED BY <1>4, <3>1, <3>2
  <2> QED BY <2>1, <2>2
<1>6. Chain(next, s, d)
  BY <1>2, <1>4, <1>5 DEF Chain
<1> QED BY <1>2, <1>6 DEF d

\* A slot behind a chain.
LEMMA ChainBehind ==
  ASSUME NEW next \in [Slot -> Link], NEW x, NEW c, Chain(next, x, c),
         NEW s \in Slot, s \notin ToSet(c), next[s] = Null
  PROVE  /\ c = << >> => Chain(next, s, Append(c, s))
         /\ c # << >> => /\ c[Len(c)] \in Slot
                        /\ Chain([next EXCEPT ![c[Len(c)]] = s], x, Append(c, s))
         /\ ToSet(Append(c, s)) = ToSet(c) \cup {s}
         /\ Len(Append(c, s)) = Len(c) + 1
<1> DEFINE d == Append(c, s)
           n == Len(c)
<1>1. c \in Seq(Slot) /\ IsInjective(c) /\ n \in Nat
      /\ DOMAIN c = 1 .. n
  BY LenProperties DEF Chain
<1>2. /\ d \in Seq(Slot) /\ Len(d) = n + 1 /\ d[n + 1] = s
      /\ IsInjective(d) /\ ToSet(d) = ToSet(c) \cup {s}
      /\ \A i \in 1 .. n : d[i] = c[i]
  BY <1>1, AppendDistinct, AppendProperties
<1> HIDE DEF d
<1>3. At(d, n + 2) = Null /\ \A i \in 1 .. n : At(d, i) = At(c, i)
  BY <1>1, <1>2 DEF At
<1>4. At(d, n + 1) = s
  BY <1>1, <1>2 DEF At
<1>5. \A i \in 1 .. n : c[i] \in Slot /\ c[i] # s
  BY <1>1 DEF ToSet
<1>6. CASE c = << >>
  <2>1. n = 0 /\ d[1] = s /\ At(d, 1) = s /\ At(d, 2) = Null /\ Len(d) = 1
    BY <1>1, <1>2, <1>3, <1>4, <1>6
  <2> HIDE DEF n
  <2>2. \A i \in 1 .. Len(d) : next[d[i]] = At(d, i + 1)
    <3>1. \A i \in 1 .. 1 : i = 1
      OBVIOUS
    <3> QED BY <2>1, <3>1
  <2>3. Chain(next, s, d)
    BY <1>2, <2>1, <2>2 DEF Chain
  <2> QED BY <1>2, <1>6, <2>3 DEF n, d
<1>7. CASE c # << >>
  <2> DEFINE l == c[n]
             new == [next EXCEPT ![l] = s]
  <2>1. n \in 1 .. n /\ 1 \in 1 .. n
    BY <1>1, <1>7
  <2>2. l \in Slot /\ l # s
    BY <1>5, <2>1
  <2>3. \A i, j \in 1 .. n : c[i] = c[j] => i = j
    BY <1>1 DEF IsInjective
  <2>4. new[s] = Null /\ new[l] = s
    BY <2>2
  <2>5. \A i \in 1 .. n : i # n => new[c[i]] = At(c, i + 1)
    BY <1>5, <2>1, <2>2, <2>3 DEF Chain
  <2> HIDE DEF new
  <2>6. ASSUME NEW i \in 1 .. Len(d)
        PROVE  new[d[i]] = At(d, i + 1)
    <3>1. CASE i = n + 1
      BY <1>1, <1>2, <1>3, <2>4, <3>1
    <3>2. CASE i = n
      BY <1>2, <1>4, <2>1, <2>4, <3>2
    <3>3. CASE i # n /\ i # n + 1
      <4>1. i \in 1 .. n /\ i + 1 \in 1 .. n
        <5>1. i \in 1 .. (n + 1) /\ n \in Nat
          BY <1>1, <1>2
        <5> QED BY ONLY <3>3, <5>1
      <4> QED BY <1>2, <1>3, <2>5, <3>3, <4>1
    <3> QED BY <3>1, <3>2, <3>3
  <2>7. x = At(d, 1)
    BY <1>3, <2>1 DEF Chain
  <2>8. Chain(new, x, d)
    BY <1>2, <2>6, <2>7 DEF Chain
  <2> QED BY <1>2, <1>7, <2>2, <2>8 DEF new, d
<1> QED BY <1>6, <1>7

-----------------------------------------------------------------------------
(* The two lists of the queue.                                             *)

\* The queue as a record, whatever its counter.
QueueRecord ==
  [next : [Slot -> Link], data : [Slot -> MessageOrNull],
   msg_queue_head : Link, msg_queue_tail : Link, msg_queue_free : Link,
   entry : Int]

\* The queued slots Q and the free slots F of q.
Lists(q, Q, F) ==
  /\ Chain(q.next, q.msg_queue_head, Q)
  /\ Chain(q.next, q.msg_queue_free, F)
  /\ ToSet(Q) \cap ToSet(F) = {}
  /\ q.entry = Len(Q)
  /\ q.msg_queue_tail = IF Q = << >> THEN Null ELSE Q[Len(Q)]

LEMMA ListFacts ==
  ASSUME NEW q \in QueueRecord, NEW Q, NEW F, Lists(q, Q, F)
  PROVE  /\ from(q, q.msg_queue_head) = Q /\ from(q, q.msg_queue_free) = F
         /\ Q \in Seq(Slot) /\ F \in Seq(Slot)
         /\ IsInjective(Q) /\ IsInjective(F)
         /\ q.next \in [Slot -> Link] /\ q.entry \in Nat
         /\ q.msg_queue_head = Null <=> Q = << >>
         /\ q.entry = 0 <=> Q = << >>
         /\ q.msg_queue_free = Null <=> F = << >>
<1>1. q.next \in [Slot -> Link]
  BY DEF QueueRecord
<1>2. from(q, q.msg_queue_head) = Q /\ from(q, q.msg_queue_free) = F
  BY <1>1, FromChain DEF Lists
<1>3. Q \in Seq(Slot) /\ F \in Seq(Slot) /\ IsInjective(Q) /\ IsInjective(F)
  BY DEF Lists, Chain
<1>4. q.msg_queue_head = Null <=> Q = << >>
  BY <1>1, ChainFirst DEF Lists
<1>5. q.msg_queue_free = Null <=> F = << >>
  BY <1>1, ChainFirst DEF Lists
<1>6. q.entry = Len(Q) /\ Len(Q) \in Nat /\ (Len(Q) = 0 <=> Q = << >>)
  BY <1>3, LenProperties, EmptySeq DEF Lists
<1> QED BY <1>1, <1>2, <1>3, <1>4, <1>5, <1>6

\* What the operations leave of a record.
LEMMA GetFreeKeeps ==
  ASSUME NEW q \in QueueRecord, NEW Q, NEW F, Lists(q, Q, F),
         q.msg_queue_free # Null
  PROVE  LET s == q.msg_queue_free
             r == get_free(q)
         IN /\ s \in Slot /\ s \in ToSet(F)
            /\ r \in QueueRecord /\ Lists(r, Q, Tail(F))
            /\ ToSet(Tail(F)) = ToSet(F) \ {s}
            /\ r.next = q.next /\ r.data = q.data
<1> DEFINE s == q.msg_queue_free
           r == get_free(q)
<1>1. q.next \in [Slot -> Link] /\ Chain(q.next, s, F)
  BY DEF QueueRecord, Lists
<1>2. /\ s \in Slot /\ s \in ToSet(F) /\ Chain(q.next, q.next[s], Tail(F))
      /\ ToSet(Tail(F)) = ToSet(F) \ {s}
  BY <1>1, ChainFirst
<1>3. /\ r.next = q.next /\ r.data = q.data /\ r.entry = q.entry
      /\ r.msg_queue_head = q.msg_queue_head
      /\ r.msg_queue_tail = q.msg_queue_tail
      /\ r.msg_queue_free = q.next[s]
      /\ r \in QueueRecord
  BY <1>1, <1>2 DEF get_free, QueueRecord
<1> HIDE DEF r
<1>4. Lists(r, Q, Tail(F))
  BY <1>2, <1>3 DEF Lists
<1> QED BY <1>2, <1>3, <1>4 DEF r

LEMMA CopyInKeeps ==
  ASSUME NEW q \in QueueRecord, NEW Q, NEW F, Lists(q, Q, F),
         NEW s \in Slot, s \notin ToSet(Q), s \notin ToSet(F), NEW a \in Message
  PROVE  LET r == copy_in(q, s, a)
         IN /\ r \in QueueRecord /\ Lists(r, Q, F)
            /\ r.data = [q.data EXCEPT ![s] = a]
            /\ a \notin Urgent => r.next[s] = Null
            /\ \A x \in Slot \ {s} : r.next[x] = q.next[x]
<1> DEFINE r == copy_in(q, s, a)
           v == IF a \in Urgent THEN q.next[s] ELSE Null
<1>1. q.next \in [Slot -> Link] /\ q.data \in [Slot -> MessageOrNull]
      /\ v \in Link /\ a \in MessageOrNull
  BY DEF QueueRecord, Link, MessageOrNull
<1>2. /\ r.next = [q.next EXCEPT ![s] = v]
      /\ r.data = [q.data EXCEPT ![s] = a] /\ r.entry = q.entry
      /\ r.msg_queue_head = q.msg_queue_head
      /\ r.msg_queue_tail = q.msg_queue_tail
      /\ r.msg_queue_free = q.msg_queue_free
  BY DEF copy_in, QueueRecord
<1>3. r \in QueueRecord
  BY <1>1 DEF copy_in, QueueRecord
<1>4. a \notin Urgent => r.next[s] = Null
  BY <1>1, <1>2
<1>5. \A x \in Slot \ {s} : r.next[x] = q.next[x]
  BY <1>1, <1>2
<1> HIDE DEF r, v
<1>6. /\ Chain(r.next, r.msg_queue_head, Q)
      /\ Chain(r.next, r.msg_queue_free, F)
  <2>1. /\ Chain(q.next, q.msg_queue_head, Q)
        /\ Chain(q.next, q.msg_queue_free, F)
    BY DEF Lists
  <2>2. /\ Chain([q.next EXCEPT ![s] = v], q.msg_queue_head, Q)
        /\ Chain([q.next EXCEPT ![s] = v], q.msg_queue_free, F)
    BY <1>1, <2>1, ChainElsewhere
  <2> QED BY <1>2, <2>2
<1>7. Lists(r, Q, F)
  BY <1>2, <1>6 DEF Lists
<1> QED BY <1>2, <1>3, <1>4, <1>5, <1>7 DEF r

LEMMA LinkLastKeeps ==
  ASSUME NEW q \in QueueRecord, NEW Q, NEW F, Lists(q, Q, F),
         NEW s \in Slot, s \notin ToSet(Q), s \notin ToSet(F), q.next[s] = Null
  PROVE  LET r == link_last(q, s)
         IN /\ r \in QueueRecord /\ Lists(r, Append(Q, s), F)
            /\ ToSet(Append(Q, s)) = ToSet(Q) \cup {s}
            /\ r.data = q.data /\ r.entry = q.entry + 1
            /\ \A x \in Slot \ ToSet(Q) : r.next[x] = q.next[x]
<1> DEFINE r == link_last(q, s)
           l == q.msg_queue_tail
           R == Append(Q, s)
<1>1. /\ q.next \in [Slot -> Link] /\ Q \in Seq(Slot) /\ q.entry \in Nat
      /\ q.msg_queue_head = Null <=> Q = << >>
      /\ q.entry = Len(Q) /\ Null \notin Slot
      /\ q.msg_queue_head \in Link /\ q.msg_queue_free \in Link
      /\ q.data \in [Slot -> MessageOrNull]
      /\ Chain(q.next, q.msg_queue_head, Q) /\ Chain(q.next, q.msg_queue_free, F)
  BY ListFacts, MessageQueueAssumption DEF Lists, QueueRecord
<1>2. /\ Q = << >> => Chain(q.next, s, R)
      /\ Q # << >> => /\ Q[Len(Q)] \in Slot
                     /\ Chain([q.next EXCEPT ![Q[Len(Q)]] = s], q.msg_queue_head, R)
      /\ ToSet(R) = ToSet(Q) \cup {s} /\ Len(R) = Len(Q) + 1
  <2> DEFINE h == q.msg_queue_head
             f == q.next
  <2>1. f \in [Slot -> Link] /\ Chain(f, h, Q) /\ f[s] = Null
    BY <1>1
  <2> HIDE DEF f, h
  <2>2. /\ Q = << >> => Chain(f, s, R)
        /\ Q # << >> => /\ Q[Len(Q)] \in Slot
                       /\ Chain([f EXCEPT ![Q[Len(Q)]] = s], h, R)
        /\ ToSet(R) = ToSet(Q) \cup {s} /\ Len(R) = Len(Q) + 1
    BY <2>1, ChainBehind
  <2> QED BY <2>2 DEF f, h
<1>3. R \in Seq(Slot) /\ R[Len(R)] = s /\ R # << >>
  BY <1>1, AppendProperties
<1>4. /\ r.next = IF l # Null THEN [q.next EXCEPT ![l] = s] ELSE q.next
      /\ r.data = q.data /\ r.entry = q.entry + 1
      /\ r.msg_queue_head = IF q.msg_queue_head = Null THEN s ELSE q.msg_queue_head
      /\ r.msg_queue_tail = s /\ r.msg_queue_free = q.msg_queue_free
  BY DEF link_last, QueueRecord
<1>5. l = IF Q = << >> THEN Null ELSE Q[Len(Q)]
  BY DEF Lists
<1>6. r \in QueueRecord
  <2>1. l \in Link /\ s \in Link /\ (l # Null => l \in Slot)
    BY DEF QueueRecord, Link
  <2>2. [q.next EXCEPT ![l] = s] \in [Slot -> Link] /\ q.entry + 1 \in Int
    <3>1. q.entry + 1 \in Int
      BY <1>1
    <3>2. l \notin Slot => [q.next EXCEPT ![l] = s] = q.next
      BY <1>1
    <3> QED BY <1>1, <2>1, <3>1, <3>2
  <2> QED BY <1>1, <2>1, <2>2 DEF link_last, QueueRecord
<1> HIDE DEF r, R, l
<1>7. s \notin ToSet(F) /\ ToSet(R) \cap ToSet(F) = {}
  BY <1>2 DEF Lists
<1>8. CASE Q = << >>
  <2>1. r.next = q.next /\ r.msg_queue_head = s
    BY <1>1, <1>4, <1>5, <1>8
  <2>2. Lists(r, R, F)
    BY <1>1, <1>2, <1>3, <1>4, <1>7, <1>8, <2>1 DEF Lists
  <2> QED BY <1>2, <1>4, <1>6, <2>1, <2>2 DEF r, R
<1>9. CASE Q # << >>
  <2>1. /\ l \in Slot /\ l # Null /\ l \in ToSet(Q)
        /\ r.next = [q.next EXCEPT ![l] = s]
        /\ r.msg_queue_head = q.msg_queue_head
    <3>1. Len(Q) \in DOMAIN Q
      BY <1>1, <1>9
    <3> QED BY <1>1, <1>2, <1>4, <1>5, <1>9, <3>1 DEF ToSet
  <2>2. Chain(r.next, r.msg_queue_head, R)
    BY <1>2, <1>5, <1>9, <2>1
  <2>3. Chain(r.next, r.msg_queue_free, F)
    <3>1. l \notin ToSet(F)
      BY <2>1 DEF Lists
    <3>2. Chain([q.next EXCEPT ![l] = s], q.msg_queue_free, F)
      BY <1>1, <3>1, ChainElsewhere
    <3> QED BY <1>4, <2>1, <3>2
  <2>4. Lists(r, R, F)
    BY <1>1, <1>2, <1>3, <1>4, <1>7, <2>2, <2>3 DEF Lists
  <2>5. \A x \in Slot \ ToSet(Q) : r.next[x] = q.next[x]
    BY <1>1, <2>1
  <2> QED BY <1>2, <1>4, <1>6, <2>4, <2>5 DEF r, R
<1> QED BY <1>8, <1>9

LEMMA LinkFirstKeeps ==
  ASSUME NEW q \in QueueRecord, NEW Q, NEW F, Lists(q, Q, F),
         NEW s \in Slot, s \notin ToSet(Q), s \notin ToSet(F)
  PROVE  LET r == link_first(q, s)
         IN /\ r \in QueueRecord /\ Lists(r, <<s>> \o Q, F)
            /\ ToSet(<<s>> \o Q) = ToSet(Q) \cup {s}
            /\ r.data = q.data /\ r.entry = q.entry + 1
            /\ \A x \in Slot \ {s} : r.next[x] = q.next[x]
<1> DEFINE r == link_first(q, s)
           R == <<s>> \o Q
           h == q.msg_queue_head
           f == [q.next EXCEPT ![s] = h]
<1>1. /\ q.next \in [Slot -> Link] /\ Q \in Seq(Slot) /\ q.entry \in Nat
      /\ q.entry = Len(Q) /\ Null \notin Slot
      /\ h \in Link /\ q.msg_queue_free \in Link /\ q.msg_queue_tail \in Link
      /\ Chain(q.next, h, Q) /\ Chain(q.next, q.msg_queue_free, F)
  BY ListFacts, MessageQueueAssumption DEF Lists, QueueRecord
<1>2. f \in [Slot -> Link] /\ f[s] = h /\ \A x \in Slot \ {s} : f[x] = q.next[x]
  BY <1>1
<1>3. Chain(f, h, Q) /\ Chain(f, q.msg_queue_free, F)
  BY <1>1, ChainElsewhere
<1>4. /\ r.next = f /\ r.data = q.data /\ r.entry = q.entry + 1
      /\ r.msg_queue_head = s /\ r.msg_queue_free = q.msg_queue_free
      /\ r.msg_queue_tail = IF q.msg_queue_tail = Null THEN s ELSE q.msg_queue_tail
  BY DEF link_first, QueueRecord
<1>5. r \in QueueRecord
  <2>1. s \in Link /\ q.entry + 1 \in Int
    BY <1>1 DEF Link
  <2>2. (IF q.msg_queue_tail = Null THEN s ELSE q.msg_queue_tail) \in Link
    BY <1>1, <2>1
  <2> QED BY <1>2, <2>1, <2>2 DEF link_first, QueueRecord
<1> HIDE DEF r, f, h
<1>6. /\ Chain(f, s, R) /\ ToSet(R) = ToSet(Q) \cup {s} /\ Len(R) = Len(Q) + 1
  BY <1>2, <1>3, ChainBefore
<1>7. R # << >> /\ R[Len(R)] = IF Q = << >> THEN s ELSE Q[Len(Q)]
  BY <1>1
<1>8. Q # << >> => Q[Len(Q)] \in Slot
  BY <1>1
<1>9. q.msg_queue_tail = IF Q = << >> THEN Null ELSE Q[Len(Q)]
  BY DEF Lists
<1> HIDE DEF R
<1>10. r.msg_queue_tail = R[Len(R)]
  BY <1>1, <1>4, <1>7, <1>8, <1>9
<1>11. ToSet(R) \cap ToSet(F) = {}
  BY <1>6 DEF Lists
<1>12. Lists(r, R, F)
  BY <1>1, <1>3, <1>4, <1>6, <1>7, <1>10, <1>11 DEF Lists
<1> QED BY <1>2, <1>4, <1>5, <1>6, <1>12 DEF r, R

\* Where a message that is linked comes to stand.
Linked(Q, s, a) == IF a \in Urgent THEN <<s>> \o Q ELSE Append(Q, s)

LEMMA LinkKeepsLists ==
  ASSUME NEW q \in QueueRecord, NEW Q, NEW F, Lists(q, Q, F), NEW a,
         NEW s \in Slot, s \notin ToSet(Q), s \notin ToSet(F),
         a \notin Urgent => q.next[s] = Null
  PROVE  LET r == link(q, s, a)
         IN /\ r \in QueueRecord /\ Lists(r, Linked(Q, s, a), F)
            /\ ToSet(Linked(Q, s, a)) = ToSet(Q) \cup {s}
            /\ r.data = q.data /\ r.entry = q.entry + 1
            /\ \A x \in Slot : x # s /\ x \notin ToSet(Q) => r.next[x] = q.next[x]
<1>1. CASE a \in Urgent
  <2>1. link(q, s, a) = link_first(q, s) /\ Linked(Q, s, a) = <<s>> \o Q
    BY <1>1 DEF link, Linked
  <2> QED BY <2>1, LinkFirstKeeps
<1>2. CASE a \notin Urgent
  <2>1. link(q, s, a) = link_last(q, s) /\ Linked(Q, s, a) = Append(Q, s)
    BY <1>2 DEF link, Linked
  <2> QED BY <1>2, <2>1, LinkLastKeeps
<1> QED BY <1>1, <1>2

LEMMA UnlinkFirstKeeps ==
  ASSUME NEW q \in QueueRecord, NEW Q, NEW F, Lists(q, Q, F),
         q.msg_queue_head # Null
  PROVE  LET s == q.msg_queue_head
             r == unlink_first(q)
         IN /\ s \in Slot /\ s \in ToSet(Q) /\ s = Head(Q)
            /\ r \in QueueRecord /\ Lists(r, Tail(Q), F)
            /\ ToSet(Tail(Q)) = ToSet(Q) \ {s}
            /\ r.next = q.next /\ r.data = q.data /\ r.entry = q.entry - 1
            /\ r.msg_queue_free = q.msg_queue_free
<1> DEFINE s == q.msg_queue_head
           r == unlink_first(q)
           R == Tail(Q)
<1>1. /\ q.next \in [Slot -> Link] /\ Chain(q.next, s, Q)
      /\ q.entry = Len(Q) /\ Q \in Seq(Slot) /\ IsInjective(Q) /\ Q # << >>
      /\ q.entry \in Int
  BY ListFacts DEF QueueRecord, Lists
<1>2. /\ s \in Slot /\ s \in ToSet(Q) /\ s = Head(Q)
      /\ Chain(q.next, q.next[s], R)
      /\ ToSet(R) = ToSet(Q) \ {s} /\ Len(R) = Len(Q) - 1
  BY <1>1, ChainFirst
<1>3. /\ r.next = q.next /\ r.data = q.data /\ r.entry = q.entry - 1
      /\ r.msg_queue_head = q.next[s]
      /\ r.msg_queue_tail = IF q.msg_queue_tail = s THEN Null ELSE q.msg_queue_tail
      /\ r.msg_queue_free = q.msg_queue_free
  BY DEF unlink_first, QueueRecord
<1>4. r \in QueueRecord
  <2>1. q.next[s] \in Link /\ q.entry - 1 \in Int /\ Null \in Link
    BY <1>1, <1>2 DEF Link
  <2> QED BY <2>1 DEF unlink_first, QueueRecord
<1>5. r.msg_queue_tail = IF R = << >> THEN Null ELSE R[Len(R)]
  <2> DEFINE n == Len(Q)
  <2>0. R \in Seq(Slot) /\ Len(R) = n - 1
    BY <1>1, HeadTailProperties
  <2>1. n \in Nat /\ n >= 1 /\ 1 \in DOMAIN Q /\ n \in DOMAIN Q
        /\ q.msg_queue_tail = Q[n] /\ s = Q[1]
    BY <1>1, <1>2 DEF Lists
  <2>2. Q[n] = s <=> n = 1
    BY <1>1, <2>1 DEF IsInjective
  <2>3. CASE n = 1
    <3>1. R = << >>
      <4> HIDE DEF R, n
      <4>1. Len(R) = 0
        BY <2>0, <2>3
      <4> QED BY <2>0, <4>1, EmptySeq
    <3> QED BY <1>3, <2>1, <2>2, <2>3, <3>1
  <2>4. CASE n # 1
    <3>1. R # << >> /\ R[Len(R)] = Q[n]
      <4>1. Len(R) = n - 1 /\ n - 1 \in 1 .. (n - 1) /\ (n - 1) + 1 = n
        BY <2>0, <2>1, <2>4
      <4>2. R[n - 1] = Q[n]
        BY <1>1, <4>1, HeadTailProperties
      <4> HIDE DEF R, n
      <4>3. Len(R) # 0 /\ R[Len(R)] = Q[n]
        BY <2>1, <4>1, <4>2
      <4> QED BY <4>3, EmptySeq
    <3> QED BY <1>3, <2>1, <2>2, <2>4, <3>1
  <2> QED BY <2>3, <2>4
<1> HIDE DEF r, R
<1>6. Lists(r, R, F)
  BY <1>1, <1>2, <1>3, <1>5 DEF Lists
<1> QED BY <1>2, <1>3, <1>4, <1>6 DEF r, R

LEMMA PutFreeKeeps ==
  ASSUME NEW q \in QueueRecord, NEW Q, NEW F, Lists(q, Q, F),
         NEW s \in Slot, s \notin ToSet(Q), s \notin ToSet(F)
  PROVE  LET r == put_free(q, s)
         IN /\ r \in QueueRecord /\ Lists(r, Q, <<s>> \o F)
            /\ ToSet(<<s>> \o F) = ToSet(F) \cup {s}
            /\ r.data = q.data /\ r.entry = q.entry
            /\ r.msg_queue_head = q.msg_queue_head
            /\ \A x \in Slot \ {s} : r.next[x] = q.next[x]
<1> DEFINE r == put_free(q, s)
           R == <<s>> \o F
           h == q.msg_queue_free
           f == [q.next EXCEPT ![s] = h]
<1>1. /\ q.next \in [Slot -> Link] /\ h \in Link
      /\ Chain(q.next, q.msg_queue_head, Q) /\ Chain(q.next, h, F)
  BY DEF Lists, QueueRecord
<1>2. f \in [Slot -> Link] /\ f[s] = h /\ \A x \in Slot \ {s} : f[x] = q.next[x]
  BY <1>1
<1>3. Chain(f, q.msg_queue_head, Q) /\ Chain(f, h, F)
  BY <1>1, ChainElsewhere
<1>4. /\ r.next = f /\ r.data = q.data /\ r.entry = q.entry
      /\ r.msg_queue_head = q.msg_queue_head /\ r.msg_queue_free = s
      /\ r.msg_queue_tail = q.msg_queue_tail
  BY DEF put_free, QueueRecord
<1>5. r \in QueueRecord
  BY <1>1, <1>2 DEF put_free, QueueRecord, Link
<1> HIDE DEF r, f, h
<1>6. Chain(f, s, R) /\ ToSet(R) = ToSet(F) \cup {s}
  BY <1>2, <1>3, ChainBefore
<1> HIDE DEF R
<1>7. Lists(r, Q, R)
  BY <1>3, <1>4, <1>6 DEF Lists
<1> QED BY <1>2, <1>4, <1>5, <1>6, <1>7 DEF r, R

\* One turn of the loop of a reset.
LEMMA FreeFirstKeeps ==
  ASSUME NEW q \in QueueRecord, NEW Q, NEW F, Lists(q, Q, F), Q # << >>
  PROVE  LET r == free_first(q)
             R == <<Head(Q)>> \o F
         IN /\ r \in QueueRecord /\ Lists(r, Tail(Q), R)
            /\ ToSet(Tail(Q)) \cup ToSet(R) = ToSet(Q) \cup ToSet(F)
            /\ r.data = q.data
            /\ \A x \in Slot : x \notin ToSet(Q) => r.next[x] = q.next[x]
<1> DEFINE s == q.msg_queue_head
           u == unlink_first(q)
           r == free_first(q)
<1>1. s # Null
  BY ListFacts
<1>2. r = put_free(u, s)
  BY <1>1 DEF free_first
<1>3. /\ s \in Slot /\ s \in ToSet(Q) /\ s = Head(Q)
      /\ u \in QueueRecord /\ Lists(u, Tail(Q), F)
      /\ ToSet(Tail(Q)) = ToSet(Q) \ {s} /\ u.next = q.next /\ u.data = q.data
  BY <1>1, UnlinkFirstKeeps
<1>4. s \notin ToSet(Tail(Q)) /\ s \notin ToSet(F)
  BY <1>3 DEF Lists
<1> HIDE DEF s, u, r
<1>5. /\ r \in QueueRecord /\ Lists(r, Tail(Q), <<s>> \o F)
      /\ ToSet(<<s>> \o F) = ToSet(F) \cup {s}
      /\ r.data = u.data /\ \A x \in Slot \ {s} : r.next[x] = u.next[x]
  BY <1>2, <1>3, <1>4, PutFreeKeeps
<1>6. ToSet(Tail(Q)) \cup ToSet(<<s>> \o F) = ToSet(Q) \cup ToSet(F)
  BY <1>3, <1>5
<1>7. \A x \in Slot : x \notin ToSet(Q) => r.next[x] = q.next[x]
  BY <1>3, <1>5
<1> QED BY <1>3, <1>5, <1>6, <1>7 DEF r

\* The record r after some turns of the loop on q, with n messages left at most.
FreedTo(q, Q, F, n, r) ==
  \E R, G : /\ Lists(r, R, G)
            /\ ToSet(R) \subseteq ToSet(Q) /\ Len(R) <= n
            /\ ToSet(R) \cup ToSet(G) = ToSet(Q) \cup ToSet(F)
            /\ r.data = q.data
            /\ \A x \in Slot : x \notin ToSet(Q) => r.next[x] = q.next[x]

\* The reset moves all queued slots to the free list.
LEMMA FreeAllKeeps ==
  ASSUME NEW q \in QueueRecord, NEW Q, NEW F, Lists(q, Q, F)
  PROVE  LET r == free_all(q)
         IN /\ r \in QueueRecord
            /\ \E G : Lists(r, << >>, G) /\ ToSet(G) = ToSet(Q) \cup ToSet(F)
            /\ r.data = q.data
            /\ \A x \in Slot : x \notin ToSet(Q) => r.next[x] = q.next[x]
<1> DEFINE N == Cardinality(Slot)
           D == 0 .. N
           V == QueueRecord
           Step(f) == [n \in D |-> IF n = 0 THEN q ELSE free_first(f[n - 1])]
           g == [v \in V |-> free_first(v)]
<1>1. N \in Nat /\ Q \in Seq(Slot) /\ Len(Q) \in Nat /\ Len(Q) <= N
  BY ListFacts, SlotLists
<1>2. g \in [V -> V]
  <2>1. ASSUME NEW v \in V
        PROVE  free_first(v) \in V
    <3> DEFINE s == v.msg_queue_head
               u == unlink_first(v)
    <3>1. CASE s = Null
      BY <3>1 DEF free_first
    <3>2. CASE s # Null
      <4>1. s \in Slot /\ v.next[s] \in Link /\ v.entry - 1 \in Int
        BY <3>2 DEF QueueRecord, Link
      <4>2. u \in QueueRecord
        BY <4>1 DEF unlink_first, QueueRecord, Link
      <4>3. free_first(v) = put_free(u, s)
        BY <3>2 DEF free_first
      <4> HIDE DEF s, u
      <4>4. [u.next EXCEPT ![s] = u.msg_queue_free] \in [Slot -> Link] /\ s \in Link
        BY <4>1, <4>2 DEF QueueRecord, Link
      <4>5. put_free(u, s) \in QueueRecord
        BY <4>2, <4>4 DEF put_free, QueueRecord
      <4> QED BY <4>3, <4>5
    <3> QED BY <3>1, <3>2
  <2> QED BY <2>1
<1> HIDE DEF N
<1>3. PICK h \in [D -> V] : Repeats(h, N, q, g)
  <2> HIDE DEF V, g
  <2> QED BY <1>1, <1>2, RepeatsExist DEF V
<1>4. h = Step(h)
  <2>1. ASSUME NEW n \in D
        PROVE  h[n] = IF n = 0 THEN q ELSE free_first(h[n - 1])
    <3>1. CASE n = 0
      BY <1>3, <3>1 DEF Repeats
    <3>2. CASE n # 0
      <4>1. n \in 1 .. N /\ n - 1 \in D
        BY <1>1, <3>2
      <4>2. h[n] = g[h[n - 1]] /\ h[n - 1] \in V
        BY <1>3, <4>1 DEF Repeats
      <4> HIDE DEF V
      <4> QED BY <3>2, <4>2
    <3> QED BY <3>1, <3>2
  <2> HIDE DEF V
  <2> QED BY <1>3, <2>1
<1> DEFINE t == CHOOSE t : t = Step(t)
<1>5. t = Step(t)
  <2> HIDE DEF Step
  <2> QED BY <1>4
<1>6. free_all(q) = [t[N] EXCEPT !.entry = 0]
  BY DEF free_all, N
<1> HIDE DEF t, V, g
<1>7. t[0] = q /\ \A n \in 1 .. N : t[n] = free_first(t[n - 1])
  <2>1. 0 \in D /\ \A n \in 1 .. N : n \in D /\ n # 0
    BY <1>1
  <2> QED BY <1>5, <2>1
<1> HIDE DEF Step
<1> DEFINE P == {n \in D : t[n] \in QueueRecord /\ FreedTo(q, Q, F, N - n, t[n])}
<1>8. 0 \in P
  <2>1. FreedTo(q, Q, F, N - 0, q)
    BY <1>1 DEF FreedTo
  <2> QED BY <1>1, <1>7, <2>1
<1>9. ASSUME NEW n \in 1 .. N, n - 1 \in P
      PROVE  n \in P
  <2> DEFINE m == N - n
  <2>1. n \in D /\ m \in Nat /\ N - (n - 1) = m + 1
    BY <1>1
  <2>2. t[n - 1] \in QueueRecord /\ FreedTo(q, Q, F, m + 1, t[n - 1])
    BY <1>9, <2>1
  <2> DEFINE r == t[n - 1]
  <2>3. PICK R, G : /\ Lists(r, R, G)
                    /\ ToSet(R) \subseteq ToSet(Q) /\ Len(R) <= m + 1
                    /\ ToSet(R) \cup ToSet(G) = ToSet(Q) \cup ToSet(F)
                    /\ r.data = q.data
                    /\ \A x \in Slot : x \notin ToSet(Q) => r.next[x] = q.next[x]
    BY <2>2 DEF FreedTo
  <2>4. t[n] = free_first(r) /\ r \in QueueRecord
    BY <1>7, <2>2
  <2> HIDE DEF r, m
  <2>5. R \in Seq(Slot)
    BY <2>3, <2>4, ListFacts
  <2>6. CASE R = << >>
    <3>1. r.msg_queue_head = Null
      BY <2>3, <2>4, <2>6, ListFacts
    <3>2. t[n] = r
      BY <2>4, <3>1 DEF free_first
    <3>3. Len(R) <= m
      BY <2>1, <2>6
    <3>4. FreedTo(q, Q, F, m, t[n])
      BY <2>3, <3>2, <3>3 DEF FreedTo
    <3> QED BY <2>1, <2>4, <3>2, <3>4 DEF m
  <2>7. CASE R # << >>
    <3> DEFINE T == Tail(R)
               H == <<Head(R)>> \o G
    <3>1. /\ t[n] \in QueueRecord /\ Lists(t[n], T, H)
          /\ ToSet(T) \cup ToSet(H) = ToSet(R) \cup ToSet(G)
          /\ t[n].data = r.data
          /\ \A x \in Slot : x \notin ToSet(R) => t[n].next[x] = r.next[x]
      BY <2>3, <2>4, <2>7, FreeFirstKeeps
    <3>2. Len(T) = Len(R) - 1 /\ Len(R) \in Nat /\ ToSet(T) \subseteq ToSet(R)
      <4>1. IsInjective(R)
        BY <2>3 DEF Lists, Chain
      <4> QED BY <2>5, <2>7, <4>1, TailDistinct
    <3>3. Len(T) <= m
      BY <2>1, <2>3, <3>2
    <3> HIDE DEF T, H
    <3>4. FreedTo(q, Q, F, m, t[n])
      BY <2>3, <3>1, <3>2, <3>3 DEF FreedTo
    <3> QED BY <2>1, <3>1, <3>4 DEF m
  <2> QED BY <2>6, <2>7
<1> HIDE DEF P
<1>10. N \in P
  <2>1. \A n \in D : n \in P
    BY ONLY <1>1, <1>8, <1>9, UpTo
  <2> QED BY <1>1, <2>1
<1> DEFINE r == t[N]
           e == free_all(q)
<1>11. r \in QueueRecord /\ FreedTo(q, Q, F, 0, r)
  <2>1. N - N = 0
    BY <1>1
  <2> QED BY <1>10, <2>1 DEF P
<1> HIDE DEF r
<1>12. PICK R, G : /\ Lists(r, R, G) /\ Len(R) <= 0
                   /\ ToSet(R) \cup ToSet(G) = ToSet(Q) \cup ToSet(F)
                   /\ r.data = q.data
                   /\ \A x \in Slot : x \notin ToSet(Q) => r.next[x] = q.next[x]
  BY <1>11 DEF FreedTo
<1>13. R = << >> /\ ToSet(R) = {} /\ r.entry = 0
  <2>1. R \in Seq(Slot) /\ r.entry = Len(R)
    BY <1>11, <1>12, ListFacts DEF Lists
  <2>2. Len(R) = 0
    BY <1>12, <2>1, LenProperties
  <2> QED BY <2>1, <2>2, EmptySeq, EmptyList
<1>14. e = r
  BY <1>6, <1>11, <1>13 DEF QueueRecord, r
<1> QED BY <1>11, <1>12, <1>13, <1>14

-----------------------------------------------------------------------------
(* The invariant of the slots.                                             *)

queue == from(mq, mq.msg_queue_head)
free  == from(mq, mq.msg_queue_free)

\* Every slot is in a list or in the hands of one thread.
Shared(Q, F, hands) ==
  /\ \A t \in Thread : hands[t] # Null => hands[t] \notin ToSet(Q) \cup ToSet(F)
  /\ \A t, u \in Thread : hands[t] # Null /\ hands[t] = hands[u] => t = u
  /\ \A s \in Slot : s \in ToSet(Q) \cup ToSet(F) \/ \E t \in Thread : hands[t] = s

SlotsKept == Lists(mq, queue, free) /\ Shared(queue, free, msg)

\* Where a thread has a slot in its hands, and where a message to send.  A slot
\* that is about to be linked has its message, and ends the chain unless it will
\* begin it.
Holds(t) ==
  /\ pc[t] \in {"copy_in", "link", "copy_out", "give_back"} <=> msg[t] # Null
  /\ pc[t] \in {"copy_in", "link"} <=> arg[t] # Null
  /\ pc[t] = "link" => /\ mq.data[msg[t]] = arg[t]
                       /\ arg[t] \notin Urgent => mq.next[msg[t]] = Null

SlotInv ==
  /\ mq \in QueueRecord
  /\ pc \in [Thread -> PC] /\ msg \in [Thread -> Link]
  /\ arg \in [Thread -> MessageOrNull] /\ got \in [Thread -> MessageOrNull]
  /\ SlotsKept
  /\ \A t \in Thread : Holds(t)

LEMMA Parameters ==
  /\ Queue = {MQ} /\ MQ \in Queue /\ InitPrio \in [Thread -> Prio]
  /\ Null \notin Slot /\ Null \notin Message /\ Blank \in Message \cup {Null}
  /\ \A t \in Thread : Sends[t] \subseteq Message
  /\ Sends[Idle] = {} /\ IsrSends \subseteq Message /\ Idle \notin Receiver
BY MessageQueueAssumption

\* The lists after a step.
LEMMA SlotsAfter ==
  ASSUME mq' \in QueueRecord, NEW Q, NEW F, Lists(mq', Q, F), Shared(Q, F, msg')
  PROVE  SlotsKept' /\ queue' = Q /\ free' = F
<1>1. queue' = Q /\ free' = F
  BY ListFacts DEF queue, free
<1> QED BY <1>1 DEF SlotsKept

\* The other threads keep what they hold.
LEMMA OthersHold ==
  ASSUME SlotInv, NEW t \in Thread,
         \A u \in Thread \ {t} :
           /\ pc'[u] = pc[u] /\ msg'[u] = msg[u] /\ arg'[u] = arg[u]
           /\ pc[u] = "link" => /\ mq'.next[msg[u]] = mq.next[msg[u]]
                                /\ mq'.data[msg[u]] = mq.data[msg[u]],
         Holds(t)'
  PROVE  \A u \in Thread : Holds(u)'
<1>1. ASSUME NEW u \in Thread \ {t}
      PROVE  Holds(u)'
  BY <1>1 DEF SlotInv, Holds
<1> QED BY <1>1

\* What the invariant says of the thread that takes a step.
LEMMA HandFacts ==
  ASSUME SlotInv, NEW t \in Thread
  PROVE  /\ Lists(mq, queue, free) /\ Shared(queue, free, msg)
         /\ mq \in QueueRecord
         /\ msg[t] # Null => /\ msg[t] \in Slot
                            /\ msg[t] \notin ToSet(queue) /\ msg[t] \notin ToSet(free)
         /\ \A u \in Thread \ {t} :
              pc[u] = "link" => /\ msg[u] # msg[t] /\ msg[u] \in Slot
                                /\ msg[u] \notin ToSet(queue)
                                /\ msg[u] \notin ToSet(free)
         /\ arg[t] # Null => arg[t] \in Message
<1>1. /\ Lists(mq, queue, free) /\ Shared(queue, free, msg) /\ mq \in QueueRecord
      /\ msg \in [Thread -> Link] /\ arg \in [Thread -> MessageOrNull]
  BY DEF SlotInv, SlotsKept
<1>2. \A u \in Thread : msg[u] # Null =>
        /\ msg[u] \in Slot
        /\ msg[u] \notin ToSet(queue) /\ msg[u] \notin ToSet(free)
  BY <1>1 DEF Shared, Link
<1>3. \A u \in Thread : pc[u] = "link" => msg[u] # Null
  BY DEF SlotInv, Holds
<1>4. \A u \in Thread : msg[u] # Null /\ msg[u] = msg[t] => u = t
  BY <1>1 DEF Shared
<1>5. arg[t] # Null => arg[t] \in Message
  BY <1>1 DEF MessageOrNull
<1> QED BY <1>1, <1>2, <1>3, <1>4, <1>5

\* Taking a free slot.
LEMMA ReserveSlots ==
  ASSUME SlotInv, NEW t \in Thread, NEW a \in Message, SendReserve(t, a)
  PROVE  /\ SlotInv' /\ queue' = queue /\ mq'.data = mq.data
         /\ mq'.entry = mq.entry /\ arg[t] = Null
<1> DEFINE s == mq.msg_queue_free
<1>1. /\ pc[t] = "run" /\ s # Null
      /\ msg' = [msg EXCEPT ![t] = s] /\ mq' = get_free(mq)
      /\ arg' = [arg EXCEPT ![t] = a] /\ pc' = [pc EXCEPT ![t] = "copy_in"]
      /\ got' = got
  BY DEF SendReserve
<1>2. /\ Lists(mq, queue, free) /\ Shared(queue, free, msg) /\ mq \in QueueRecord
      /\ msg[t] = Null /\ arg[t] = Null
  BY <1>1 DEF SlotInv, SlotsKept, Holds
<1>3. /\ s \in Slot /\ s \in ToSet(free)
      /\ mq' \in QueueRecord /\ Lists(mq', queue, Tail(free))
      /\ ToSet(Tail(free)) = ToSet(free) \ {s}
      /\ mq'.next = mq.next /\ mq'.data = mq.data
  BY <1>1, <1>2, GetFreeKeeps
<1> HIDE DEF s
<1>4. msg \in [Thread -> Link] /\ msg' \in [Thread -> Link]
      /\ pc' \in [Thread -> PC] /\ arg' \in [Thread -> MessageOrNull]
      /\ got' \in [Thread -> MessageOrNull] /\ pc \in [Thread -> PC]
      /\ arg \in [Thread -> MessageOrNull]
  BY <1>1, <1>3 DEF SlotInv, Link, PC, MessageOrNull
<1>5. Shared(queue, Tail(free), msg')
  <2>1. s \notin ToSet(queue)
    BY <1>2, <1>3 DEF Lists
  <2>2. \A u \in Thread : msg[u] # s
    BY <1>2, <1>3, Parameters DEF Shared
  <2>3. \A u \in Thread : msg'[u] = IF u = t THEN s ELSE msg[u]
    BY <1>1, <1>4
  <2> HIDE DEF queue, free
  <2>4. \A x \in Slot : \/ x \in ToSet(queue) \cup ToSet(Tail(free))
                         \/ \E u \in Thread : msg'[u] = x
    BY <1>2, <1>3, <2>3, Parameters DEF Shared
  <2> QED BY <1>2, <1>3, <2>1, <2>2, <2>3, <2>4 DEF Shared
<1>6. SlotsKept' /\ queue' = queue
  <2> HIDE DEF queue
  <2> QED BY <1>3, <1>5, SlotsAfter
<1>7. Holds(t)'
  BY <1>1, <1>3, <1>4, Parameters DEF Holds
<1>8. \A u \in Thread : Holds(u)'
  BY <1>1, <1>3, <1>4, <1>7, OthersHold
<1>9. mq'.entry = mq.entry
  BY <1>2, <1>3 DEF Lists
<1> QED BY <1>2, <1>3, <1>4, <1>6, <1>8, <1>9 DEF SlotInv

\* Copying the message into the slot.
LEMMA CopySlots ==
  ASSUME SlotInv, NEW t \in Thread, SendCopy(t)
  PROVE  /\ SlotInv' /\ queue' = queue /\ mq'.entry = mq.entry
         /\ mq'.data = [mq.data EXCEPT ![msg[t]] = arg[t]]
         /\ msg[t] # Null /\ msg[t] \notin ToSet(queue)
<1> DEFINE s == msg[t]
<1>1. /\ pc[t] = "copy_in" /\ mq' = copy_in(mq, s, arg[t])
      /\ pc' = [pc EXCEPT ![t] = "link"] /\ UNCHANGED <<msg, arg, got>>
  BY DEF SendCopy
<1>2. s # Null /\ arg[t] # Null
  BY <1>1 DEF SlotInv, Holds
<1>3. /\ Lists(mq, queue, free) /\ Shared(queue, free, msg) /\ mq \in QueueRecord
      /\ s \in Slot /\ s \notin ToSet(queue) /\ s \notin ToSet(free)
      /\ \A u \in Thread \ {t} : pc[u] = "link" => msg[u] # s /\ msg[u] \in Slot
      /\ arg[t] \in Message
  BY <1>2, HandFacts
<1>4. /\ mq' \in QueueRecord /\ Lists(mq', queue, free)
      /\ mq'.data = [mq.data EXCEPT ![s] = arg[t]]
      /\ arg[t] \notin Urgent => mq'.next[s] = Null
      /\ \A x \in Slot \ {s} : mq'.next[x] = mq.next[x]
  BY <1>1, <1>3, CopyInKeeps
<1>5. SlotsKept' /\ queue' = queue
  BY <1>1, <1>3, <1>4, SlotsAfter
<1>6. mq.data \in [Slot -> MessageOrNull] /\ pc \in [Thread -> PC]
  BY <1>3 DEF QueueRecord, SlotInv
<1>7. Holds(t)'
  BY <1>1, <1>2, <1>3, <1>4, <1>6 DEF Holds
<1>8. \A u \in Thread : Holds(u)'
  <2>1. \A u \in Thread \ {t} : pc[u] = "link" =>
          mq'.next[msg[u]] = mq.next[msg[u]] /\ mq'.data[msg[u]] = mq.data[msg[u]]
    BY <1>3, <1>4, <1>6
  <2> QED BY <1>1, <1>6, <1>7, <2>1, OthersHold
<1>9. mq'.entry = mq.entry
  BY <1>3, <1>4 DEF Lists
<1>10. pc' \in [Thread -> PC]
  BY <1>1, <1>6 DEF PC
<1> QED BY <1>1, <1>2, <1>3, <1>4, <1>5, <1>8, <1>9, <1>10 DEF SlotInv

\* Linking the slot.
LEMMA LinkSlots ==
  ASSUME SlotInv, NEW t \in Thread, SendLink(t)
  PROVE  /\ SlotInv' /\ queue' = Linked(queue, msg[t], arg[t])
         /\ mq'.data = mq.data /\ mq'.entry = mq.entry + 1
         /\ mq.data[msg[t]] = arg[t] /\ arg[t] \in Message
         /\ msg[t] \in Slot /\ msg[t] \notin ToSet(queue)
<1> DEFINE s == msg[t]
           R == Linked(queue, s, arg[t])
<1>1. /\ pc[t] = "link" /\ mq' = link(mq, s, arg[t])
      /\ \E p \in {"sched", "run"} : pc' = [pc EXCEPT ![t] = p]
      /\ msg' = [msg EXCEPT ![t] = Null] /\ arg' = [arg EXCEPT ![t] = Null]
      /\ got' = got
  BY DEF SendLink
<1>2. /\ s # Null /\ arg[t] # Null /\ mq.data[s] = arg[t]
      /\ arg[t] \notin Urgent => mq.next[s] = Null
  BY <1>1 DEF SlotInv, Holds
<1>3. /\ Lists(mq, queue, free) /\ Shared(queue, free, msg) /\ mq \in QueueRecord
      /\ s \in Slot /\ s \notin ToSet(queue) /\ s \notin ToSet(free)
      /\ \A u \in Thread \ {t} : pc[u] = "link" =>
           msg[u] # s /\ msg[u] \in Slot /\ msg[u] \notin ToSet(queue)
      /\ arg[t] \in Message
  BY <1>2, HandFacts
<1>4. /\ mq' \in QueueRecord /\ Lists(mq', R, free)
      /\ ToSet(R) = ToSet(queue) \cup {s}
      /\ mq'.data = mq.data /\ mq'.entry = mq.entry + 1
      /\ \A x \in Slot : x # s /\ x \notin ToSet(queue) => mq'.next[x] = mq.next[x]
  BY <1>1, <1>2, <1>3, LinkKeepsLists
<1>5. /\ msg \in [Thread -> Link] /\ msg' \in [Thread -> Link]
      /\ pc \in [Thread -> PC] /\ pc' \in [Thread -> PC]
      /\ arg \in [Thread -> MessageOrNull] /\ arg' \in [Thread -> MessageOrNull]
      /\ got' \in [Thread -> MessageOrNull]
  BY <1>1 DEF SlotInv, Link, PC, MessageOrNull
<1> HIDE DEF R, s
<1>6. Shared(R, free, msg')
  <2>1. \A u \in Thread : msg'[u] = IF u = t THEN Null ELSE msg[u]
    BY <1>1, <1>5
  <2>2. \A u \in Thread \ {t} : msg[u] # s
    BY <1>2, <1>3 DEF Shared, s
  <2>3. \A x \in Slot : \/ x \in ToSet(R) \cup ToSet(free)
                         \/ \E u \in Thread : msg'[u] = x
    BY <1>3, <1>4, <2>1 DEF Shared, s
  <2> HIDE DEF queue, free
  <2>4. \A u \in Thread : msg'[u] # Null => msg'[u] \notin ToSet(R) \cup ToSet(free)
    BY <1>3, <1>4, <2>1, <2>2 DEF Shared
  <2> QED BY <1>3, <2>1, <2>3, <2>4 DEF Shared
<1>7. SlotsKept' /\ queue' = R
  BY <1>4, <1>6, SlotsAfter
<1>8. Holds(t)'
  BY <1>1, <1>5 DEF Holds
<1>9. \A u \in Thread : Holds(u)'
  <2>1. \A u \in Thread \ {t} : pc[u] = "link" =>
          mq'.next[msg[u]] = mq.next[msg[u]] /\ mq'.data[msg[u]] = mq.data[msg[u]]
    BY <1>3, <1>4
  <2> QED BY <1>1, <1>5, <1>8, <2>1, OthersHold
<1> QED BY <1>2, <1>3, <1>4, <1>5, <1>7, <1>9 DEF SlotInv, R, s

\* An interrupt handler sends: it takes a free slot, fills and links it.
LEMMA IsrSlots ==
  ASSUME SlotInv, NEW a \in Message, IsrSend(a)
  PROVE  LET s == mq.msg_queue_free
         IN /\ SlotInv' /\ queue' = Linked(queue, s, a)
            /\ mq'.data = [mq.data EXCEPT ![s] = a]
            /\ mq'.entry = mq.entry + 1
            /\ s \in Slot /\ s \notin ToSet(queue)
            /\ \A u \in Thread : msg[u] # s
<1> DEFINE s == mq.msg_queue_free
           q1 == get_free(mq)
           q2 == copy_in(q1, s, a)
           R == Linked(queue, s, a)
           F == Tail(free)
<1>1. s # Null /\ mq' = link(q2, s, a) /\ UNCHANGED <<pc, msg, arg, got>>
  BY DEF IsrSend
<1>2. Lists(mq, queue, free) /\ Shared(queue, free, msg) /\ mq \in QueueRecord
  BY DEF SlotInv, SlotsKept
<1>3. /\ s \in Slot /\ s \in ToSet(free)
      /\ q1 \in QueueRecord /\ Lists(q1, queue, F)
      /\ ToSet(F) = ToSet(free) \ {s} /\ q1.next = mq.next /\ q1.data = mq.data
  BY <1>1, <1>2, GetFreeKeeps
<1>4. s \notin ToSet(queue) /\ s \notin ToSet(F)
  BY <1>2, <1>3 DEF Lists
<1> HIDE DEF s, q1, F
<1>5. /\ q2 \in QueueRecord /\ Lists(q2, queue, F)
      /\ q2.data = [q1.data EXCEPT ![s] = a]
      /\ a \notin Urgent => q2.next[s] = Null
      /\ \A x \in Slot \ {s} : q2.next[x] = q1.next[x]
  BY <1>3, <1>4, CopyInKeeps
<1> HIDE DEF q2
<1>6. /\ mq' \in QueueRecord /\ Lists(mq', R, F)
      /\ ToSet(R) = ToSet(queue) \cup {s}
      /\ mq'.data = q2.data /\ mq'.entry = q2.entry + 1
      /\ \A x \in Slot : x # s /\ x \notin ToSet(queue) => mq'.next[x] = q2.next[x]
  BY <1>1, <1>3, <1>4, <1>5, LinkKeepsLists
<1> HIDE DEF R
<1>7. \A u \in Thread : msg[u] # s
  BY <1>2, <1>3, Parameters DEF Shared
<1>8. Shared(R, F, msg')
  <2>1. ToSet(R) \cup ToSet(F) = ToSet(queue) \cup ToSet(free)
    BY <1>3, <1>6
  <2> HIDE DEF queue, free
  <2> QED BY <1>1, <1>2, <2>1 DEF Shared
<1>9. SlotsKept' /\ queue' = R
  BY <1>6, <1>8, SlotsAfter
<1>10. \A u \in Thread : pc[u] = "link" =>
         /\ mq'.next[msg[u]] = mq.next[msg[u]]
         /\ mq'.data[msg[u]] = mq.data[msg[u]]
  <2>1. ASSUME NEW u \in Thread, pc[u] = "link"
        PROVE  /\ msg[u] \in Slot /\ msg[u] \notin ToSet(queue) /\ msg[u] # s
    <3>1. msg[u] # Null
      BY <2>1 DEF SlotInv, Holds
    <3> QED BY <1>7, <3>1, HandFacts
  <2>2. mq.data \in [Slot -> MessageOrNull]
    BY <1>2 DEF QueueRecord
  <2> QED BY <1>3, <1>5, <1>6, <2>1, <2>2
<1>11. \A u \in Thread : Holds(u)'
  BY <1>1, <1>10 DEF SlotInv, Holds
<1>12. mq'.entry = mq.entry + 1
  BY <1>2, <1>5, <1>6 DEF Lists
<1>13. SlotInv'
  BY <1>1, <1>6, <1>9, <1>11 DEF SlotInv
<1> QED BY <1>3, <1>4, <1>5, <1>6, <1>7, <1>9, <1>12, <1>13 DEF R, s

\* A receiver takes the first slot out of the queue.
LEMMA TakeSlots ==
  ASSUME SlotInv, NEW t \in Thread, RecvTake(t)
  PROVE  /\ SlotInv' /\ queue # << >> /\ queue' = Tail(queue)
         /\ msg'[t] = Head(queue)
         /\ mq'.data = mq.data /\ mq'.entry = mq.entry - 1
<1> DEFINE s == mq.msg_queue_head
           R == Tail(queue)
<1>1. /\ pc[t] \in {"run", "retry"} /\ mq.entry > 0
      /\ msg' = [msg EXCEPT ![t] = s] /\ mq' = unlink_first(mq)
      /\ pc' = [pc EXCEPT ![t] = "copy_out"] /\ UNCHANGED <<arg, got>>
  BY DEF RecvTake, InLoop
<1>2. /\ Lists(mq, queue, free) /\ Shared(queue, free, msg) /\ mq \in QueueRecord
      /\ msg[t] = Null /\ arg[t] = Null
  BY <1>1 DEF SlotInv, SlotsKept, Holds
<1>3. queue # << >> /\ s # Null
  <2>1. mq.entry # 0
    BY <1>1
  <2> QED BY <1>2, <2>1, ListFacts
<1>4. /\ s \in Slot /\ s \in ToSet(queue) /\ s = Head(queue)
      /\ mq' \in QueueRecord /\ Lists(mq', R, free)
      /\ ToSet(R) = ToSet(queue) \ {s}
      /\ mq'.next = mq.next /\ mq'.data = mq.data /\ mq'.entry = mq.entry - 1
  BY <1>1, <1>2, <1>3, UnlinkFirstKeeps
<1> HIDE DEF s, R
<1>5. /\ msg \in [Thread -> Link] /\ msg' \in [Thread -> Link]
      /\ pc \in [Thread -> PC] /\ pc' \in [Thread -> PC]
  BY <1>1, <1>4 DEF SlotInv, Link, PC
<1>6. Shared(R, free, msg')
  <2>1. s \notin ToSet(free)
    BY <1>2, <1>4 DEF Lists
  <2>2. \A u \in Thread : msg[u] # s
    BY <1>2, <1>4, Parameters DEF Shared
  <2>3. \A u \in Thread : msg'[u] = IF u = t THEN s ELSE msg[u]
    BY <1>1, <1>5
  <2> HIDE DEF queue, free
  <2>4. \A x \in Slot : \/ x \in ToSet(R) \cup ToSet(free)
                         \/ \E u \in Thread : msg'[u] = x
    BY <1>2, <1>4, <2>3, Parameters DEF Shared
  <2> QED BY <1>2, <1>4, <2>1, <2>2, <2>3, <2>4 DEF Shared
<1>7. SlotsKept' /\ queue' = R
  BY <1>4, <1>6, SlotsAfter
<1>8. Holds(t)'
  BY <1>1, <1>2, <1>4, <1>5, Parameters DEF Holds
<1>9. \A u \in Thread : Holds(u)'
  BY <1>1, <1>4, <1>5, <1>8, OthersHold
<1>10. msg'[t] = Head(queue)
  BY <1>1, <1>4, <1>5
<1> QED BY <1>1, <1>3, <1>4, <1>5, <1>7, <1>9, <1>10 DEF SlotInv, R

\* A receiver gives its slot back.
LEMMA GiveBackSlots ==
  ASSUME SlotInv, NEW t \in Thread, RecvGiveBack(t)
  PROVE  SlotInv' /\ queue' = queue /\ mq'.data = mq.data /\ mq'.entry = mq.entry
<1> DEFINE s == msg[t]
           G == <<s>> \o free
<1>1. /\ pc[t] = "give_back" /\ mq' = put_free(mq, s)
      /\ msg' = [msg EXCEPT ![t] = Null] /\ pc' = [pc EXCEPT ![t] = "run"]
      /\ UNCHANGED <<arg, got>>
  BY DEF RecvGiveBack
<1>2. s # Null /\ arg[t] = Null
  BY <1>1 DEF SlotInv, Holds
<1>3. /\ Lists(mq, queue, free) /\ Shared(queue, free, msg) /\ mq \in QueueRecord
      /\ s \in Slot /\ s \notin ToSet(queue) /\ s \notin ToSet(free)
      /\ \A u \in Thread \ {t} : pc[u] = "link" => msg[u] # s /\ msg[u] \in Slot
  BY <1>2, HandFacts
<1>4. /\ mq' \in QueueRecord /\ Lists(mq', queue, G)
      /\ ToSet(G) = ToSet(free) \cup {s}
      /\ mq'.data = mq.data /\ mq'.entry = mq.entry
      /\ \A x \in Slot \ {s} : mq'.next[x] = mq.next[x]
  BY <1>1, <1>3, PutFreeKeeps
<1>5. /\ msg \in [Thread -> Link] /\ msg' \in [Thread -> Link]
      /\ pc \in [Thread -> PC] /\ pc' \in [Thread -> PC]
  BY <1>1 DEF SlotInv, Link, PC
<1> HIDE DEF G, s
<1>6. Shared(queue, G, msg')
  <2>1. \A u \in Thread : msg'[u] = IF u = t THEN Null ELSE msg[u]
    BY <1>1, <1>5
  <2>2. \A u \in Thread \ {t} : msg[u] # s
    BY <1>2, <1>3 DEF Shared, s
  <2>3. \A x \in Slot : \/ x \in ToSet(queue) \cup ToSet(G)
                         \/ \E u \in Thread : msg'[u] = x
    BY <1>3, <1>4, <2>1 DEF Shared, s
  <2> HIDE DEF queue, free
  <2>4. \A u \in Thread : msg'[u] # Null => msg'[u] \notin ToSet(queue) \cup ToSet(G)
    BY <1>3, <1>4, <2>1, <2>2 DEF Shared
  <2> QED BY <1>3, <2>1, <2>3, <2>4 DEF Shared
<1>7. SlotsKept' /\ queue' = queue
  <2> HIDE DEF queue
  <2> QED BY <1>4, <1>6, SlotsAfter
<1>8. Holds(t)'
  BY <1>1, <1>2, <1>5 DEF Holds
<1>9. \A u \in Thread : Holds(u)'
  <2>1. \A u \in Thread \ {t} : pc[u] = "link" => mq'.next[msg[u]] = mq.next[msg[u]]
    BY <1>3, <1>4
  <2> QED BY <1>1, <1>4, <1>5, <1>8, <2>1, OthersHold
<1> QED BY <1>1, <1>4, <1>5, <1>7, <1>9 DEF SlotInv

\* A reset frees the queued slots, and no other.
LEMMA ResetSlots ==
  ASSUME SlotInv, NEW t \in Thread, Reset(t)
  PROVE  SlotInv' /\ queue' = << >> /\ mq'.data = mq.data /\ mq'.entry = 0
<1>1. /\ pc[t] = "run" /\ mq' = free_all(mq)
      /\ pc' = [pc EXCEPT ![t] = "sched"] /\ UNCHANGED <<msg, arg, got>>
  BY DEF Reset
<1>2. Lists(mq, queue, free) /\ Shared(queue, free, msg) /\ mq \in QueueRecord
  BY DEF SlotInv, SlotsKept
<1>3. /\ mq' \in QueueRecord /\ mq'.data = mq.data
      /\ \E G : Lists(mq', << >>, G) /\ ToSet(G) = ToSet(queue) \cup ToSet(free)
      /\ \A x \in Slot : x \notin ToSet(queue) => mq'.next[x] = mq.next[x]
  BY <1>1, <1>2, FreeAllKeeps
<1>4. PICK G : Lists(mq', << >>, G) /\ ToSet(G) = ToSet(queue) \cup ToSet(free)
  BY <1>3
<1>5. Shared(<< >>, G, msg')
  <2>1. ToSet(<< >>) = {}
    BY DEF ToSet
  <2> HIDE DEF queue, free
  <2> QED BY <1>1, <1>2, <1>4, <2>1 DEF Shared
<1>6. SlotsKept' /\ queue' = << >>
  BY <1>3, <1>4, <1>5, SlotsAfter
<1>7. pc \in [Thread -> PC] /\ pc' \in [Thread -> PC]
  BY <1>1 DEF SlotInv, PC
<1>8. Holds(t)'
  BY <1>1, <1>7 DEF SlotInv, Holds
<1>9. \A u \in Thread : Holds(u)'
  <2>1. ASSUME NEW u \in Thread \ {t}, pc[u] = "link"
        PROVE  mq'.next[msg[u]] = mq.next[msg[u]]
    BY <1>3, <2>1, HandFacts
  <2> QED BY <1>1, <1>3, <1>7, <1>8, <2>1, OthersHold
<1>10. mq'.entry = 0
  BY <1>4 DEF Lists
<1> QED BY <1>1, <1>3, <1>6, <1>7, <1>9, <1>10 DEF SlotInv

\* A step that leaves the slots alone.
LEMMA QuietSlots ==
  ASSUME SlotInv, mq' = mq, msg' = msg, arg' = arg,
         pc' \in [Thread -> PC], got' \in [Thread -> MessageOrNull],
         \A u \in Thread :
           \/ pc'[u] = pc[u]
           \/ {pc[u], pc'[u]} \subseteq {"run", "wait", "woken", "retry", "sched"}
           \/ pc[u] = "copy_out" /\ pc'[u] = "give_back"
  PROVE  SlotInv' /\ queue' = queue
<1>1. queue' = queue /\ free' = free
  BY DEF queue, free
<1>2. SlotsKept'
  BY <1>1 DEF SlotInv, SlotsKept
<1>3. ASSUME NEW u \in Thread
      PROVE  Holds(u)'
  <2>1. Holds(u)
    BY DEF SlotInv
  <2> QED BY <1>3, <2>1 DEF Holds
<1> QED BY <1>1, <1>2, <1>3 DEF SlotInv

\* rt_mq_init links all slots into the free list.
LEMMA InitSlots == Init => SlotInv /\ queue = << >> /\ mq.entry = 0
<1> SUFFICES ASSUME Init PROVE SlotInv /\ queue = << >> /\ mq.entry = 0
  OBVIOUS
<1> DEFINE s == SetToSeq(Slot)
           n == Len(s)
           F == [i \in 1 .. n |-> s[n + 1 - i]]
           linked(i) == IF i = 1 THEN Null ELSE s[i - 1]
           f == [x \in Slot |-> linked(CHOOSE i \in DOMAIN s : s[i] = x)]
<1>1. /\ s \in Seq(Slot) /\ IsInjective(s) /\ ToSet(s) = Slot
      /\ n \in Nat /\ DOMAIN s = 1 .. n /\ n # 0
  <2>1. IsFiniteSet(Slot) /\ Slot # {}
    BY MessageQueueAssumption
  <2>2. s \in Seq(Slot) /\ IsInjective(s) /\ ToSet(s) = Slot
    BY <2>1, SetToSeqProperties
  <2> HIDE DEF s
  <2>3. s # << >>
    BY <2>1, <2>2, EmptyList
  <2> QED BY <2>2, <2>3, LenProperties, EmptySeq
<1>2. /\ mq.next = f /\ mq.data = [x \in Slot |-> Blank] /\ mq.entry = 0
      /\ mq.msg_queue_head = Null /\ mq.msg_queue_tail = Null
      /\ mq.msg_queue_free = s[n]
      /\ mq = [next |-> f, data |-> [x \in Slot |-> Blank],
               msg_queue_head |-> Null, msg_queue_tail |-> Null,
               msg_queue_free |-> s[n], entry |-> 0]
  BY DEF Init, rt_mq_init
<1>3. /\ pc = [t \in Thread |-> "run"] /\ msg = [t \in Thread |-> Null]
      /\ arg = [t \in Thread |-> Null] /\ got = [t \in Thread |-> Blank]
  BY DEF Init
<1> HIDE DEF s
<1>4. \A i \in 1 .. n : s[i] \in Slot /\ f[s[i]] = linked(i)
  <2> SUFFICES ASSUME NEW i \in 1 .. n PROVE s[i] \in Slot /\ f[s[i]] = linked(i)
    OBVIOUS
  <2>1. s[i] \in Slot
    BY <1>1
  <2>2. (CHOOSE j \in DOMAIN s : s[j] = s[i]) = i
    BY <1>1 DEF IsInjective
  <2>3. f[s[i]] = linked(CHOOSE j \in DOMAIN s : s[j] = s[i])
    BY <2>1
  <2> HIDE DEF f
  <2> QED BY <2>1, <2>2, <2>3
<1>5. f \in [Slot -> Link]
  <2> SUFFICES ASSUME NEW x \in Slot PROVE f[x] \in Link
    OBVIOUS
  <2>1. PICK i \in 1 .. n : s[i] = x
    BY <1>1 DEF ToSet
  <2> HIDE DEF f
  <2>2. f[x] = linked(i) /\ (i # 1 => i - 1 \in 1 .. n)
    BY <1>1, <1>4, <2>1
  <2> QED BY <1>4, <2>2 DEF Link
<1>6. mq \in QueueRecord
  <2>1. [x \in Slot |-> Blank] \in [Slot -> MessageOrNull]
    BY Parameters DEF MessageOrNull
  <2>2. s[n] \in Link /\ Null \in Link
    <3>1. n \in 1 .. n
      BY <1>1
    <3> QED BY <1>4, <3>1 DEF Link
  <2> HIDE DEF f
  <2> QED BY <1>2, <1>5, <2>1, <2>2 DEF QueueRecord
<1>7. F \in Seq(Slot) /\ Len(F) = n /\ \A i \in 1 .. n : F[i] = s[n + 1 - i]
  <2>1. \A i \in 1 .. n : n + 1 - i \in 1 .. n
    BY <1>1
  <2>2. F \in [1 .. n -> Slot]
    BY <1>4, <2>1
  <2> QED BY <1>1, <2>2
<1>8. IsInjective(F) /\ ToSet(F) = Slot
  <2>1. \A i \in 1 .. n : n + 1 - i \in 1 .. n
    BY <1>1
  <2>2. DOMAIN F = 1 .. n
    OBVIOUS
  <2>3. \A i, j \in 1 .. n : F[i] = F[j] => i = j
    <3> SUFFICES ASSUME NEW i \in 1 .. n, NEW j \in 1 .. n, F[i] = F[j] PROVE i = j
      OBVIOUS
    <3>1. s[n + 1 - i] = s[n + 1 - j]
      BY <1>7
    <3>2. n + 1 - i = n + 1 - j
      BY <1>1, <2>1, <3>1 DEF IsInjective
    <3> QED BY <1>1, <3>2
  <2>4. ASSUME NEW x \in Slot
        PROVE  \E i \in 1 .. n : F[i] = x
    <3>1. PICK i \in 1 .. n : s[i] = x
      BY <1>1, <2>4 DEF ToSet
    <3>2. n + 1 - i \in 1 .. n /\ n + 1 - (n + 1 - i) = i
      BY <1>1
    <3> QED BY <1>7, <3>1, <3>2
  <2>5. ToSet(F) \subseteq Slot
    BY <1>7, ListElements
  <2> HIDE DEF F
  <2> QED BY <2>2, <2>3, <2>4, <2>5 DEF IsInjective, ToSet
<1> HIDE DEF F
<1>9. Chain(mq.next, mq.msg_queue_free, F)
  <2>1. mq.msg_queue_free = At(F, 1)
    <3>1. 1 \in 1 .. n /\ n + 1 - 1 = n /\ 1 <= n
      BY <1>1
    <3> QED BY <1>2, <1>7, <3>1 DEF At
  <2>2. ASSUME NEW i \in 1 .. n
        PROVE  f[F[i]] = At(F, i + 1)
    <3>1. n + 1 - i \in 1 .. n /\ F[i] = s[n + 1 - i]
      BY <1>1, <1>7
    <3>2. f[F[i]] = linked(n + 1 - i)
      BY <1>4, <3>1
    <3> HIDE DEF f, n
    <3>3. CASE i = n
      BY <1>1, <1>7, <3>2, <3>3 DEF At
    <3>4. CASE i # n
      <4>1. /\ i + 1 \in 1 .. n /\ i + 1 <= n /\ n + 1 - i # 1
            /\ (n + 1 - i) - 1 = n + 1 - (i + 1)
        BY <1>1, <3>4
      <4> QED BY <1>7, <3>2, <4>1 DEF At
    <3> QED BY <3>3, <3>4
  <2> HIDE DEF f
  <2> QED BY <1>2, <1>7, <1>8, <2>1, <2>2 DEF Chain
<1>10. Chain(mq.next, mq.msg_queue_head, << >>)
  BY <1>2 DEF Chain, At, IsInjective
<1>11. ToSet(<< >>) = {}
  BY DEF ToSet
<1>12. Lists(mq, << >>, F)
  BY <1>2, <1>9, <1>10, <1>11 DEF Lists
<1>13. queue = << >> /\ free = F
  BY <1>6, <1>12, ListFacts DEF queue, free
<1>14. SlotsKept
  BY <1>3, <1>8, <1>12, <1>13 DEF SlotsKept, Shared
<1>15. \A t \in Thread : Holds(t)
  BY <1>3 DEF Holds
<1>16. SlotInv
  <2>1. /\ pc \in [Thread -> PC] /\ msg \in [Thread -> Link]
        /\ arg \in [Thread -> MessageOrNull] /\ got \in [Thread -> MessageOrNull]
    BY <1>3, Parameters DEF PC, Link, MessageOrNull
  <2> QED BY <1>6, <1>14, <1>15, <2>1 DEF SlotInv
<1> QED BY <1>2, <1>13, <1>16

-----------------------------------------------------------------------------
(* The inductive invariant.                                                *)

\* Who runs: tidle never blocks, the scheduler is never locked, and the running
\* thread is ready except between its suspension and the rt_schedule() that
\* follows.
Running ==
  /\ k.stat[Idle] = "ready" /\ k.nest = 0
  /\ k.stat[k.cur] = "ready" \/ pc[k.cur] = "wait"

\* The suspended threads are those of the list; each is inside rt_mq_recv and
\* has no error yet.
Waiting ==
  /\ \A t \in Thread : k.stat[t] = "suspend" => t \in waiters
  /\ \A t \in waiters : pc[t] \in {"wait", "woken"} /\ k.err[t] = "eok"

Time == {"zero", "some", "forever"}

IInv ==
  /\ k \in KernelState /\ KInv(k)
  /\ time \in [Thread -> Time]
  /\ SlotInv
  /\ Running
  /\ Waiting
  /\ NoLostWakeup

\* Facts every step starts from.
LEMMA IInvFacts ==
  ASSUME IInv
  PROVE  /\ k \in KernelState /\ KInv(k) /\ Idle \in Thread
         /\ IsFiniteSet(Thread) /\ MQ \in Queue /\ Queue = {MQ}
         /\ k.cur \in Thread /\ k.nest = 0 /\ k.stat[Idle] = "ready"
         /\ k.wait \in [Queue -> Seq(Thread)] /\ waiters \subseteq Thread
         /\ k.stat \in [Thread -> Stat] /\ k.err \in [Thread -> Err]
         /\ SlotInv /\ pc \in [Thread -> PC] /\ time \in [Thread -> Time]
         /\ got \in [Thread -> MessageOrNull]
         /\ \A t \in Thread : t \in waiters <=> k.stat[t] = "suspend"
         /\ mq.entry \in Nat
<1>1. /\ k \in KernelState /\ KInv(k) /\ Idle \in Thread /\ IsFiniteSet(Thread)
      /\ MQ \in Queue /\ Queue = {MQ} /\ k.nest = 0 /\ k.stat[Idle] = "ready"
      /\ SlotInv /\ pc \in [Thread -> PC] /\ time \in [Thread -> Time]
      /\ got \in [Thread -> MessageOrNull]
  BY KernelAssumption, Parameters DEF IInv, SlotInv, Running
<1>2. /\ k.cur \in Thread /\ k.wait \in [Queue -> Seq(Thread)]
      /\ k.stat \in [Thread -> Stat] /\ k.err \in [Thread -> Err]
  BY <1>1 DEF KernelState
<1>3. waiters \subseteq Thread
  BY <1>1, <1>2, ListElements DEF waiters
<1>4. \A t \in Thread : t \in waiters <=> k.stat[t] = "suspend"
  BY <1>1 DEF IInv, Waiting, KInv, WaitLists, waiters
<1>5. mq.entry \in Nat
  BY <1>1, ListFacts DEF SlotInv, SlotsKept
<1> QED BY <1>1, <1>2, <1>3, <1>4, <1>5

\* The running thread is not in the list once it has called rt_schedule().
LEMMA RunningThread ==
  ASSUME IInv, pc[k.cur] # "wait"
  PROVE  k.stat[k.cur] = "ready" /\ k.cur \notin waiters
<1>1. k.stat[k.cur] = "ready"
  BY DEF IInv, Running
<1> QED BY <1>1, IInvFacts

\* The initial state.
LEMMA InitIInv == Init => IInv
<1> SUFFICES ASSUME Init PROVE IInv
  OBVIOUS
<1> USE KernelAssumption, Parameters
<1>1. /\ k \in KernelState /\ KInv(k)
      /\ k.stat = [t \in Thread |-> IF t = Idle THEN "ready" ELSE "init"]
      /\ \A q \in Queue : ToSet(k.wait[q]) = {}
      /\ k.cur = Idle /\ k.nest = 0
  BY StartedKernel DEF Init
<1>2. waiters = {}
  BY <1>1 DEF waiters
<1>3. time \in [Thread -> Time]
  BY DEF Init, Time
<1>4. Running
  BY <1>1 DEF Running
<1>5. Waiting
  BY <1>1, <1>2 DEF Waiting
<1>6. NoLostWakeup
  BY <1>2 DEF NoLostWakeup
<1> QED BY <1>1, <1>3, <1>4, <1>5, <1>6, InitSlots DEF IInv

-----------------------------------------------------------------------------
(* Wake-ups.                                                               *)

\* Only the thread t begins or stops trying; and if threads wait after the step
\* then there is no message, or as many messages were taken as threads stopped
\* trying, or the step that put a message made t try.
LEMMA WakeupKept ==
  ASSUME IInv, SlotInv', NEW t \in Thread,
         \A u \in Thread \ {t} : TriesAgain(u)' <=> TriesAgain(u),
         waiters' # {} =>
           \/ mq'.entry = 0
           \/ /\ waiters # {}
              /\ \/ mq'.entry = mq.entry - 1
                 \/ mq'.entry = mq.entry /\ (TriesAgain(t) => TriesAgain(t)')
                 \/ /\ mq'.entry = mq.entry + 1
                    /\ ~TriesAgain(t) /\ TriesAgain(t)'
  PROVE  NoLostWakeup'
<1> DEFINE S == {u \in Thread : TriesAgain(u)}
           R == {u \in Thread : TriesAgain(u)'}
<1>1. /\ IsFiniteSet(S) /\ R \ {t} = S \ {t}
      /\ t \in S <=> TriesAgain(t)
      /\ t \in R <=> TriesAgain(t)'
  BY IInvFacts, FS_Subset
<1>2. mq.entry \in Nat /\ mq'.entry \in Nat
  <2>1. mq' \in QueueRecord /\ Lists(mq', queue', free')
    BY DEF SlotInv, SlotsKept
  <2> QED BY <2>1, IInvFacts, ListFacts
<1>3. waiters # {} => mq.entry <= Cardinality(S)
  BY DEF IInv, NoLostWakeup
<1>4. IsFiniteSet(R) /\ Cardinality(R) \in Nat
  BY IInvFacts, FS_Subset, FS_CardinalityType
<1> HIDE DEF S, R
<1>5. waiters' # {} => mq'.entry <= Cardinality(R)
  <2>1. CASE mq'.entry = 0
    BY <1>4, <2>1
  <2>2. CASE waiters' # {} /\ mq'.entry # 0
    <3> DEFINE b == mq'.entry
               a == mq.entry
    <3>1. /\ a \in Nat /\ b \in Nat /\ a <= Cardinality(S)
          /\ \/ b = a - 1
             \/ b = a /\ (t \in S => t \in R)
             \/ b = a + 1 /\ t \notin S /\ t \in R
      BY <1>1, <1>2, <1>3, <2>2
    <3> HIDE DEF a, b
    <3>2. b <= Cardinality(R)
      BY ONLY <1>1, <3>1, CountKept
    <3> QED BY <3>2 DEF b
  <2> QED BY <2>1, <2>2
<1> QED BY <1>5 DEF NoLostWakeup, R

\* A step that ends with rt_schedule().
LEMMA Scheduled ==
  ASSUME NEW m \in KernelState, KInv(m), m.stat[Idle] = "ready", m.nest = 0,
         k' = rt_schedule(m)
  PROVE  k' \in KernelState /\ KInv(k') /\ SameThreads(m, k') /\ Running'
<1>1. /\ k' \in KernelState /\ KInv(k') /\ SameThreads(m, k') /\ Settled(k')
  BY AfterSchedule
<1>2. Running'
  BY <1>1 DEF Running, SameThreads, Settled
<1> QED BY <1>1, <1>2

\* A step that leaves the wait list, who is suspended and how many messages
\* there are alone.
LEMMA QuietStep ==
  ASSUME IInv, SlotInv', k' \in KernelState, KInv(k'), time' \in [Thread -> Time],
         Running', NEW t \in Thread,
         mq'.entry = mq.entry, k'.wait = k.wait,
         \A u \in Thread : k'.stat[u] = "suspend" => k.stat[u] = "suspend",
         \A u \in Thread \ {t} : pc'[u] = pc[u] /\ k'.err[u] = k.err[u],
         \/ pc'[t] = pc[t] /\ k'.err[t] = k.err[t]
         \/ pc[t] = "wait" /\ pc'[t] = "woken" /\ k'.err[t] = k.err[t]
         \/ t \notin waiters /\ (TriesAgain(t) => pc'[t] = "retry" \/ mq.entry = 0)
  PROVE  IInv'
<1> USE IInvFacts
<1>1. waiters' = waiters
  BY DEF waiters
<1>2. Waiting'
  BY <1>1 DEF IInv, Waiting
<1>3. \A u \in Thread \ {t} : TriesAgain(u)' <=> TriesAgain(u)
  BY <1>1 DEF TriesAgain
<1>4. TriesAgain(t) => TriesAgain(t)' \/ mq.entry = 0
  BY <1>1 DEF TriesAgain
<1>5. NoLostWakeup'
  BY <1>1, <1>3, <1>4, WakeupKept
<1> QED BY <1>2, <1>5 DEF IInv

-----------------------------------------------------------------------------
(* Steps.                                                                  *)

\* rt_thread_startup, the rt_schedule() calls and the end of a time slice.
LEMMA ScheduleSteps ==
  ASSUME IInv, NEW t \in Thread,
         \/ \E new \in Thread : Startup(t, new)
         \/ RecvSchedule(t) \/ Schedule(t) \/ TickYield \/ UNCHANGED vars
  PROVE  IInv'
<1> USE IInvFacts
<1>1. CASE \E new \in Thread : Startup(t, new)
  <2>1. PICK new \in Thread : Startup(t, new)
    BY <1>1
  <2>2. /\ k.stat[new] = "init" /\ InitPrio[new] \in Prio
        /\ k' = rt_thread_startup(k, new, InitPrio[new])
        /\ k.cur = t /\ pc[t] = "run" /\ pc' = [pc EXCEPT ![t] = "sched"]
        /\ UNCHANGED <<mq, time, msg, arg, got>>
    BY <2>1, Parameters DEF Startup
  <2>3. /\ k' \in KernelState /\ KInv(k')
        /\ k'.stat = [k.stat EXCEPT ![new] = "ready"]
        /\ k'.err = k.err /\ k'.wait = k.wait
        /\ k'.cur = k.cur /\ k'.nest = k.nest
    <3> DEFINE r == rt_thread_startup(k, new, InitPrio[new])
    <3>1. /\ r \in KernelState /\ KInv(r)
          /\ r.stat = [k.stat EXCEPT ![new] = "ready"]
          /\ r.err = k.err /\ r.wait = k.wait
          /\ r.cur = k.cur /\ r.nest = k.nest
      <4>1. /\ k \in KernelState /\ KInv(k)
            /\ k.stat[new] = "init" /\ InitPrio[new] \in Prio
        BY <2>2
      <4>9. Started(k, new, InitPrio[new], r)
        BY ONLY <4>1, StartupStarts, new \in Thread
      <4> QED BY ONLY <4>9 DEF Started
    <3> HIDE DEF r
    <3> QED BY <2>2, <3>1 DEF r
  <2>4. k.stat[t] = "ready" /\ t \notin waiters
    BY <2>2, RunningThread
  <2>5. pc' \in [Thread -> PC] /\ pc'[t] = "sched"
    BY <2>2 DEF PC
  <2>6. SlotInv'
    BY <2>2, <2>5, QuietSlots
  <2>7. Running'
    BY <2>2, <2>3, <2>4 DEF Running
  <2>8. ~TriesAgain(t)
    BY <2>2 DEF TriesAgain
  <2> QED BY <2>2, <2>3, <2>4, <2>6, <2>7, <2>8, QuietStep
<1>2. CASE RecvSchedule(t) \/ Schedule(t) \/ TickYield
  <2>1. k' = rt_schedule(k) /\ UNCHANGED <<mq, time, msg, arg, got>>
    BY <1>2 DEF RecvSchedule, Schedule, TickYield
  <2>2. k' \in KernelState /\ KInv(k') /\ SameThreads(k, k') /\ Running'
    BY <2>1, Scheduled
  <2>3. \/ pc[t] = "wait" /\ pc' = [pc EXCEPT ![t] = "woken"]
        \/ k.cur = t /\ pc[t] = "sched" /\ pc' = [pc EXCEPT ![t] = "run"]
        \/ pc' = pc
    BY <1>2 DEF RecvSchedule, Schedule, TickYield
  <2>4. pc' \in [Thread -> PC] /\ \A u \in Thread \ {t} : pc'[u] = pc[u]
    BY <2>3 DEF PC
  <2>5. SlotInv'
    BY <2>1, <2>3, <2>4, QuietSlots
  <2>6. pc[t] = "sched" => ~TriesAgain(t)
    BY DEF TriesAgain
  <2>7. k.cur = t /\ pc[t] = "sched" => t \notin waiters
    BY RunningThread
  <2> QED BY <2>1, <2>2, <2>3, <2>4, <2>5, <2>6, <2>7, QuietStep DEF SameThreads
<1>3. CASE UNCHANGED vars
  <2>1. SlotInv'
    BY <1>3, QuietSlots DEF vars
  <2>2. Running'
    BY <1>3 DEF vars, IInv, Running
  <2> QED BY <1>3, <2>1, <2>2, QuietStep DEF vars
<1> QED BY <1>1, <1>2, <1>3

\* A call that fails, and a thread that wakes up.
LEMMA LocalSteps ==
  ASSUME IInv, NEW t \in Thread, RecvFail(t) \/ \E left \in Time : RecvWoken(t, left)
  PROVE  IInv'
<1> USE IInvFacts
<1>1. /\ k.cur = t /\ pc[t] \in {"retry", "woken"}
      /\ UNCHANGED <<mq, msg, arg, got>>
  BY DEF RecvFail, RecvWoken
<1>2. k.stat[t] = "ready" /\ t \notin waiters
  BY <1>1, RunningThread
<1>3. CASE RecvFail(t)
  <2>1. /\ k' = [k EXCEPT !.err[t] = "etimeout"] /\ mq.entry = 0
        /\ pc' = [pc EXCEPT ![t] = "run"] /\ time' = time
    BY <1>3 DEF RecvFail
  <2>2. /\ k' \in KernelState /\ KInv(k') /\ k'.stat = k.stat
        /\ k'.wait = k.wait /\ k'.cur = k.cur /\ k'.nest = k.nest
        /\ k'.err = [k.err EXCEPT ![t] = "etimeout"]
    <3> DEFINE r == [k EXCEPT !.err[t] = "etimeout"]
    <3>1. /\ r \in KernelState /\ KInv(r) /\ r.stat = k.stat
          /\ r.wait = k.wait /\ r.cur = k.cur /\ r.nest = k.nest
          /\ r.err = [k.err EXCEPT ![t] = "etimeout"]
      <4>1. k \in KernelState /\ KInv(k) /\ "etimeout" \in Err
        BY DEF Err
      <4> QED BY ONLY <4>1, SetError, t \in Thread
    <3> HIDE DEF r
    <3> QED BY <2>1, <3>1 DEF r
  <2>3. pc' \in [Thread -> PC] /\ pc'[t] = "run"
    BY <2>1 DEF PC
  <2>4. SlotInv'
    BY <1>1, <2>1, <2>3, QuietSlots
  <2>5. Running'
    BY <1>1, <1>2, <2>2 DEF Running
  <2>6. \A u \in Thread \ {t} : pc'[u] = pc[u] /\ k'.err[u] = k.err[u]
    BY <2>1, <2>2
  <2> QED BY <1>1, <1>2, <2>1, <2>2, <2>4, <2>5, <2>6, QuietStep
<1>4. ASSUME NEW left \in Time, RecvWoken(t, left)
      PROVE  IInv'
  <2>1. /\ k' = k /\ pc[t] = "woken" /\ time' = [time EXCEPT ![t] = left]
        /\ \/ k.err[t] # "eok" /\ pc' = [pc EXCEPT ![t] = "run"]
           \/ pc' = [pc EXCEPT ![t] = "retry"]
    BY <1>4 DEF RecvWoken
  <2>2. /\ pc' \in [Thread -> PC] /\ pc'[t] \in {"run", "retry"}
        /\ time' \in [Thread -> Time]
    BY <2>1 DEF PC
  <2>3. SlotInv'
    BY <1>1, <2>1, <2>2, QuietSlots
  <2>4. Running'
    BY <1>1, <1>2, <2>1 DEF IInv, Running
  <2>5. TriesAgain(t) => pc'[t] = "retry"
    BY <2>1 DEF TriesAgain
  <2>6. \A u \in Thread \ {t} : pc'[u] = pc[u] /\ k'.err[u] = k.err[u]
    BY <2>1
  <2> QED BY <1>1, <1>2, <2>1, <2>2, <2>3, <2>4, <2>5, <2>6, QuietStep
<1> QED BY <1>3, <1>4

\* The steps of a call that touch the slots and neither the counter nor the
\* kernel.
LEMMA SlotSteps ==
  ASSUME IInv, NEW t \in Thread,
         \/ \E a \in Message : SendReserve(t, a)
         \/ SendCopy(t) \/ RecvCopy(t) \/ RecvGiveBack(t)
  PROVE  IInv'
<1> USE IInvFacts
<1>1. /\ k.cur = t /\ pc[t] \in {"run", "copy_in", "copy_out", "give_back"}
      /\ k' = k /\ time' = time
      /\ \E p \in {"run", "copy_in", "link", "give_back"} :
           pc' = [pc EXCEPT ![t] = p]
  BY DEF SendReserve, SendCopy, RecvCopy, RecvGiveBack
<1>2. SlotInv' /\ mq'.entry = mq.entry
  <2>1. CASE \E a \in Message : SendReserve(t, a)
    BY <2>1, ReserveSlots
  <2>2. CASE SendCopy(t)
    BY <2>2, CopySlots
  <2>3. CASE RecvCopy(t)
    <3>1. /\ pc[t] = "copy_out" /\ pc' = [pc EXCEPT ![t] = "give_back"]
          /\ got' = [got EXCEPT ![t] = mq.data[msg[t]]]
          /\ UNCHANGED <<mq, msg, arg>>
      BY <2>3 DEF RecvCopy
    <3>2. msg[t] \in Slot /\ mq \in QueueRecord
      <4>1. msg[t] # Null
        BY <3>1 DEF SlotInv, Holds
      <4> QED BY <4>1, HandFacts
    <3>3. got' \in [Thread -> MessageOrNull] /\ pc' \in [Thread -> PC]
      BY <3>1, <3>2 DEF QueueRecord, PC
    <3> QED BY <3>1, <3>3, QuietSlots
  <2>4. CASE RecvGiveBack(t)
    BY <2>4, GiveBackSlots
  <2> QED BY <2>1, <2>2, <2>3, <2>4
<1>3. k.stat[t] = "ready" /\ t \notin waiters /\ ~TriesAgain(t)
  BY <1>1, RunningThread DEF TriesAgain
<1>4. Running'
  BY <1>1, <1>3 DEF IInv, Running
<1>5. \A u \in Thread \ {t} : pc'[u] = pc[u] /\ k'.err[u] = k.err[u]
  BY <1>1
<1> QED BY <1>1, <1>2, <1>3, <1>4, <1>5, QuietStep

\* rt_mq_recv on an empty queue: the running thread blocks.
LEMMA BlockStep ==
  ASSUME IInv, NEW t \in Thread, NEW limit \in {"some", "forever"},
         RecvBlock(t, limit)
  PROVE  IInv'
<1> USE IInvFacts
<1> DEFINE k0 == [k EXCEPT !.err[t] = "eok"]
           k1 == rt_ipc_list_suspend(k0, MQ, t, MQFlag)
           k2 == rt_timer_start(k1, t)
<1>1. /\ k.cur = t /\ pc[t] \in {"run", "retry"} /\ t # Idle /\ mq.entry = 0
      /\ k' = IF limit = "some" THEN k2 ELSE k1
      /\ time' = [time EXCEPT ![t] = limit] /\ pc' = [pc EXCEPT ![t] = "wait"]
      /\ UNCHANGED <<mq, msg, arg, got>>
  BY Parameters DEF RecvBlock, InLoop
<1>2. k.stat[t] = "ready" /\ t \notin waiters
  BY <1>1, RunningThread
<1>3. k0 \in KernelState /\ KInv(k0) /\ k0.stat = k.stat /\ k0.wait = k.wait
      /\ k0.cur = t /\ k0.nest = 0 /\ k0.err = [k.err EXCEPT ![t] = "eok"]
  <2>1. k \in KernelState /\ KInv(k) /\ "eok" \in Err
    BY DEF Err
  <2>2. /\ k0 \in KernelState /\ KInv(k0) /\ k0.stat = k.stat
        /\ k0.wait = k.wait /\ k0.cur = k.cur /\ k0.nest = k.nest
        /\ k0.err = [k.err EXCEPT ![t] = "eok"]
    BY ONLY <2>1, SetError, t \in Thread
  <2> HIDE DEF k0
  <2> QED BY <1>1, <2>2
<1>4. k0.stat[k0.cur] = "ready"
  BY <1>2, <1>3
<1> HIDE DEF k0
<1>5. Blocked(k0, MQ, k1)
  BY <1>3, <1>4, IpcSuspendKeeps
<1> HIDE DEF k1
<1>6. /\ k1 \in KernelState /\ KInv(k1)
      /\ k1.stat = [k.stat EXCEPT ![t] = "suspend"]
      /\ k1.err = [k.err EXCEPT ![t] = "eok"]
      /\ ToSet(k1.wait[MQ]) = ToSet(k.wait[MQ]) \cup {t}
      /\ k1.cur = t /\ k1.nest = 0
  BY <1>3, <1>5 DEF Blocked
<1>7. k1.stat[t] = "suspend"
  BY <1>6
<1>8. /\ k2 \in KernelState /\ KInv(k2)
      /\ k2.stat = k1.stat /\ k2.err = k1.err /\ k2.wait = k1.wait
      /\ k2.cur = k1.cur /\ k2.nest = k1.nest
  BY <1>6, <1>7, StartTimer
<1> HIDE DEF k2
<1>9. /\ k' \in KernelState /\ KInv(k')
      /\ k'.stat = [k.stat EXCEPT ![t] = "suspend"]
      /\ k'.err = [k.err EXCEPT ![t] = "eok"]
      /\ waiters' = waiters \cup {t}
      /\ k'.cur = t /\ k'.nest = 0
  <2>1. k' = k1 \/ k' = k2
    BY <1>1
  <2> QED BY <1>6, <1>8, <2>1 DEF waiters
<1>10. /\ pc' \in [Thread -> PC] /\ pc'[t] = "wait" /\ time' \in [Thread -> Time]
       /\ \A u \in Thread \ {t} : pc'[u] = pc[u] /\ k'.err[u] = k.err[u]
  BY <1>1, <1>9 DEF PC, Time
<1>11. SlotInv'
  BY <1>1, <1>10, QuietSlots
<1>12. Running'
  BY <1>1, <1>9, <1>10 DEF Running
<1>13. Waiting'
  <2>1. \A u \in Thread : k'.stat[u] = "suspend" => u \in waiters'
    BY <1>9
  <2>2. k'.err[t] = "eok"
    BY <1>9
  <2> QED BY <1>9, <1>10, <2>1, <2>2 DEF IInv, Waiting
<1>14. \A u \in Thread \ {t} : TriesAgain(u)' <=> TriesAgain(u)
  BY <1>9, <1>10 DEF TriesAgain
<1>15. NoLostWakeup'
  BY <1>1, <1>11, <1>14, WakeupKept
<1> QED BY <1>9, <1>10, <1>11, <1>12, <1>13, <1>15 DEF IInv

\* The kernel after the first waiter, if there is one, is resumed.
resumed == IF waiters # {} THEN rt_ipc_list_resume(k, MQ) ELSE k

LEMMA WakeFacts ==
  ASSUME IInv
  PROVE  /\ resumed \in KernelState /\ KInv(resumed)
         /\ resumed.stat[Idle] = "ready"
         /\ resumed.nest = 0 /\ resumed.cur = k.cur /\ resumed.err = k.err
         /\ waiters = {} => resumed = k
         /\ waiters # {} =>
              \E w \in Thread :
                /\ w \in waiters
                /\ resumed.stat = [k.stat EXCEPT ![w] = "ready"]
                /\ ToSet(resumed.wait[MQ]) = waiters \ {w}
<1> USE IInvFacts
<1>1. k.wait[MQ] \in Seq(Thread)
  OBVIOUS
<1>2. CASE waiters = {}
  BY <1>2 DEF resumed
<1>3. CASE waiters # {}
  <2>1. PICK w : w = Head(k.wait[MQ])
    OBVIOUS
  <2>2. w \in waiters /\ w \in Thread
    BY <1>1, <1>3, <2>1, HeadInList DEF waiters
  <2>3. k.stat[w] = "suspend"
    BY <2>2
  <2>4. resumed = rt_thread_resume(k, w)
    BY <1>3, <2>1 DEF resumed, rt_ipc_list_resume
  <2>5. WokenUp(k, w, resumed)
    <3>1. k \in KernelState /\ KInv(k)
      OBVIOUS
    <3>2. WokenUp(k, w, rt_thread_resume(k, w))
      BY ONLY <2>2, <2>3, <3>1, ResumeKeeps
    <3> QED BY <2>4, <3>2
  <2>6. /\ resumed \in KernelState /\ KInv(resumed)
        /\ resumed.nest = 0 /\ resumed.cur = k.cur
        /\ resumed.err = k.err /\ resumed.stat = [k.stat EXCEPT ![w] = "ready"]
        /\ ToSet(resumed.wait[MQ]) = waiters \ {w}
    BY <2>5 DEF WokenUp, waiters
  <2>7. resumed.stat[Idle] = "ready"
    BY <2>6
  <2> QED BY <1>3, <2>2, <2>6, <2>7
<1> QED BY <1>2, <1>3

\* A message is linked and the first waiter, if there is one, is resumed: by a
\* thread t that is about to return, or by an interrupt handler.
LEMMA LinkAndWake ==
  ASSUME IInv, SlotInv', NEW t \in Thread, mq'.entry = mq.entry + 1,
         k' \in KernelState, KInv(k'), Running', time' = time,
         k'.stat = resumed.stat, k'.err = resumed.err, k'.wait = resumed.wait,
         \A u \in Thread \ {t} : pc'[u] = pc[u],
         \/ pc'[t] = pc[t]
         \/ pc[t] = "link" /\ pc'[t] \in {"run", "sched"} /\ t \notin waiters
  PROVE  IInv'
<1> USE IInvFacts
<1>1. CASE waiters = {}
  <2>1. k'.stat = k.stat /\ k'.err = k.err /\ k'.wait = k.wait
    BY <1>1, WakeFacts
  <2>2. waiters' = {}
    BY <1>1, <2>1 DEF waiters
  <2>3. Waiting'
    BY <1>1, <2>1, <2>2 DEF IInv, Waiting
  <2>4. NoLostWakeup'
    BY <2>2 DEF NoLostWakeup
  <2> QED BY <2>3, <2>4 DEF IInv
<1>2. CASE waiters # {}
  <2>1. PICK w \in Thread :
          /\ w \in waiters
          /\ k'.stat = [k.stat EXCEPT ![w] = "ready"]
          /\ k'.err = k.err /\ waiters' = waiters \ {w}
    BY <1>2, WakeFacts DEF waiters
  <2>2. pc[w] \in {"wait", "woken"} /\ k.err[w] = "eok" /\ pc'[w] = pc[w]
    BY <2>1 DEF IInv, Waiting
  <2>3. Waiting'
    <3>1. \A u \in Thread : k'.stat[u] = "suspend" => u # w /\ k.stat[u] = "suspend"
      BY <2>1
    <3>2. \A u \in waiters : pc'[u] = pc[u] /\ k'.err[u] = k.err[u]
      BY <2>1
    <3> QED BY <2>1, <3>1, <3>2 DEF IInv, Waiting
  <2>4. ~TriesAgain(w) /\ TriesAgain(w)'
    BY <2>1, <2>2 DEF TriesAgain
  <2>5. \A u \in Thread \ {w} : TriesAgain(u)' <=> TriesAgain(u)
    BY <2>1 DEF TriesAgain
  <2>6. NoLostWakeup'
    BY <1>2, <2>4, <2>5, WakeupKept
  <2> QED BY <2>3, <2>6 DEF IInv
<1> QED BY <1>1, <1>2

\* rt_mq_send and rt_mq_urgent when the message is in its slot.
LEMMA LinkSteps ==
  ASSUME IInv, NEW t \in Thread, SendLink(t) \/ \E a \in IsrSends : IsrSend(a)
  PROVE  IInv'
<1> USE IInvFacts
<1>1. /\ resumed \in KernelState /\ KInv(resumed)
      /\ resumed.stat[Idle] = "ready" /\ resumed.nest = 0 /\ resumed.cur = k.cur
      /\ resumed.stat[k.cur] = k.stat[k.cur] \/ resumed.stat[k.cur] = "ready"
      /\ waiters = {} => resumed = k
  BY WakeFacts
<1>2. CASE SendLink(t)
  <2>1. /\ k.cur = t /\ pc[t] = "link" /\ k' = resumed /\ time' = time
        /\ \E p \in {"run", "sched"} : pc' = [pc EXCEPT ![t] = p]
    BY <1>2 DEF SendLink, resumed
  <2>2. k.stat[t] = "ready" /\ t \notin waiters
    BY <2>1, RunningThread
  <2>3. SlotInv' /\ mq'.entry = mq.entry + 1
    BY <1>2, LinkSlots
  <2>4. Running'
    BY <1>1, <2>1, <2>2 DEF Running
  <2> QED BY <1>1, <2>1, <2>2, <2>3, <2>4, LinkAndWake
<1>3. ASSUME NEW a \in IsrSends, IsrSend(a)
      PROVE  IInv'
  <2>1. /\ UNCHANGED <<pc, time>>
        /\ \/ k' = rt_schedule(resumed)
           \/ k' = k /\ resumed = k
    <3>1. CASE waiters # {}
      <4>1. resumed = rt_ipc_list_resume(k, MQ)
        BY <3>1 DEF resumed
      <4>2. k' = rt_schedule(rt_ipc_list_resume(k, MQ)) /\ UNCHANGED <<pc, time>>
        BY <1>3, <3>1 DEF IsrSend
      <4> QED BY <4>1, <4>2
    <3>2. CASE waiters = {}
      BY <1>1, <1>3, <3>2 DEF IsrSend
    <3> QED BY <3>1, <3>2
  <2>2. SlotInv' /\ mq'.entry = mq.entry + 1
    BY <1>3, IsrSlots, Parameters
  <2>3. /\ k' \in KernelState /\ KInv(k') /\ Running' /\ k'.stat = resumed.stat
        /\ k'.err = resumed.err /\ k'.wait = resumed.wait
    <3>1. CASE k' = rt_schedule(resumed)
      BY <1>1, <3>1, Scheduled DEF SameThreads
    <3>2. CASE k' = k /\ resumed = k
      BY <2>1, <3>2 DEF IInv, Running
    <3> QED BY <2>1, <3>1, <3>2
  <2> QED BY <2>1, <2>2, <2>3, LinkAndWake
<1> QED BY <1>2, <1>3

\* rt_mq_recv with a message in the queue.
LEMMA TakeStep ==
  ASSUME IInv, NEW t \in Thread, RecvTake(t)
  PROVE  IInv'
<1> USE IInvFacts
<1>1. /\ k.cur = t /\ pc[t] \in {"run", "retry"} /\ k' = k
      /\ time' = [time EXCEPT ![t] = "zero"] /\ pc' = [pc EXCEPT ![t] = "copy_out"]
  BY DEF RecvTake, InLoop
<1>2. k.stat[t] = "ready" /\ t \notin waiters
  BY <1>1, RunningThread
<1>3. SlotInv' /\ mq'.entry = mq.entry - 1
  BY TakeSlots
<1>4. waiters' = waiters
  BY <1>1 DEF waiters
<1>5. Running'
  BY <1>1, <1>2 DEF IInv, Running
<1>6. Waiting'
  BY <1>1, <1>2, <1>4 DEF IInv, Waiting
<1>7. \A u \in Thread \ {t} : TriesAgain(u)' <=> TriesAgain(u)
  BY <1>1, <1>4 DEF TriesAgain
<1>8. NoLostWakeup'
  BY <1>3, <1>4, <1>7, WakeupKept
<1>9. time' \in [Thread -> Time]
  BY <1>1 DEF Time
<1> QED BY <1>1, <1>3, <1>5, <1>6, <1>8, <1>9 DEF IInv

\* A reset leaves the wait list empty.
LEMMA ResetStep ==
  ASSUME IInv, NEW t \in Thread, Reset(t)
  PROVE  IInv'
<1> USE IInvFacts
<1> DEFINE r == rt_ipc_list_resume_all(k, MQ)
<1>1. /\ k.cur = t /\ pc[t] = "run" /\ t # Idle /\ k' = r /\ time' = time
  BY DEF Reset
<1>2. k.stat[t] = "ready" /\ t \notin waiters
  BY <1>1, RunningThread
<1>3. /\ r \in KernelState /\ KInv(r) /\ ToSet(r.wait[MQ]) = {}
      /\ r.stat = [u \in Thread |-> IF u \in waiters THEN "ready" ELSE k.stat[u]]
      /\ r.cur = k.cur /\ r.nest = k.nest
  <2>1. k \in KernelState /\ KInv(k) /\ MQ \in Queue
    OBVIOUS
  <2>2. /\ r \in KernelState /\ KInv(r) /\ ToSet(r.wait[MQ]) = {}
        /\ r.stat = [u \in Thread |-> IF u \in ToSet(k.wait[MQ]) THEN "ready"
                                      ELSE k.stat[u]]
        /\ r.cur = k.cur /\ r.nest = k.nest
    BY ONLY <2>1, ResumeAllKeeps
  <2> QED BY <2>1, <2>2 DEF waiters
<1> HIDE DEF r
<1>4. waiters' = {}
  BY <1>1, <1>3 DEF waiters
<1>5. Running'
  BY <1>1, <1>2, <1>3 DEF Running
<1>6. Waiting'
  <2>1. \A u \in Thread : k'.stat[u] # "suspend"
    BY <1>1, <1>3
  <2> QED BY <1>4, <2>1 DEF Waiting
<1>7. NoLostWakeup'
  BY <1>4 DEF NoLostWakeup
<1>8. SlotInv'
  BY ResetSlots
<1> QED BY <1>1, <1>3, <1>5, <1>6, <1>7, <1>8 DEF IInv

\* A thread timer expires in the tick.
LEMMA TimerStep ==
  ASSUME IInv, NEW t \in Thread, TimerExpire(t)
  PROVE  IInv'
<1> USE IInvFacts
<1> DEFINE k1 == [k EXCEPT !.err[t] = "etimeout"]
           m  == timed_out(k, t)
<1>1. t \in k.timer /\ k' = rt_thread_timeout(k, t)
      /\ UNCHANGED <<mq, pc, time, msg, arg, got>>
  BY DEF TimerExpire
<1>2. k.stat[t] = "suspend" /\ k' = rt_schedule(m) /\ WokenUp(k1, t, m)
  BY <1>1, TimeoutKeeps
<1>3. /\ k1.stat = k.stat /\ k1.wait = k.wait /\ k1.cur = k.cur
      /\ k1.nest = k.nest /\ k1.err = [k.err EXCEPT ![t] = "etimeout"]
  <2>1. k \in KernelState /\ KInv(k) /\ "etimeout" \in Err
    BY DEF Err
  <2> QED BY ONLY <2>1, SetError, t \in Thread
<1> HIDE DEF k1, m
<1>4. /\ m \in KernelState /\ KInv(m) /\ m.cur = k.cur /\ m.nest = 0
      /\ m.stat = [k.stat EXCEPT ![t] = "ready"]
      /\ m.err = [k.err EXCEPT ![t] = "etimeout"]
      /\ ToSet(m.wait[MQ]) = waiters \ {t}
  BY <1>2, <1>3 DEF WokenUp, waiters
<1>5. m.stat[Idle] = "ready"
  BY <1>4
<1>6. k' \in KernelState /\ KInv(k') /\ SameThreads(m, k') /\ Running'
  BY <1>2, <1>4, <1>5, Scheduled
<1>7. /\ waiters' = waiters \ {t}
      /\ k'.err = [k.err EXCEPT ![t] = "etimeout"]
      /\ k'.stat = [k.stat EXCEPT ![t] = "ready"]
  BY <1>4, <1>6 DEF SameThreads, waiters
<1>8. SlotInv'
  BY <1>1, QuietSlots
<1>9. Waiting'
  <2>1. \A u \in Thread : k'.stat[u] = "suspend" => u # t /\ k.stat[u] = "suspend"
    BY <1>7
  <2> QED BY <1>1, <1>7, <2>1 DEF IInv, Waiting
<1>10. \A u \in Thread \ {t} : TriesAgain(u)' <=> TriesAgain(u)
  BY <1>1, <1>7 DEF TriesAgain
<1>11. t \in waiters
  BY <1>2
<1>12. ~TriesAgain(t)
  BY <1>11 DEF IInv, Waiting, TriesAgain
<1>13. NoLostWakeup'
  BY <1>1, <1>8, <1>10, <1>11, <1>12, WakeupKept
<1> QED BY <1>1, <1>6, <1>8, <1>9, <1>13 DEF IInv

\* Every step keeps the invariant.
LEMMA NextIInv == IInv /\ [Next]_vars => IInv'
<1> SUFFICES ASSUME IInv, [Next]_vars PROVE IInv'
  OBVIOUS
<1>1. ASSUME NEW t \in Thread, ThreadStep(t) \/ TimerExpire(t)
      PROVE  IInv'
  <2>1. CASE \/ \E new \in Thread : Startup(t, new)
             \/ RecvSchedule(t) \/ Schedule(t)
    BY <2>1, ScheduleSteps
  <2>2. CASE RecvFail(t) \/ \E left \in {"zero", "some", "forever"} : RecvWoken(t, left)
    BY <2>2, LocalSteps DEF Time
  <2>3. CASE \E limit \in {"some", "forever"} : RecvBlock(t, limit)
    BY <2>3, BlockStep
  <2>4. CASE \/ \E a \in Message : SendReserve(t, a)
             \/ SendCopy(t) \/ RecvCopy(t) \/ RecvGiveBack(t)
    BY <2>4, SlotSteps
  <2>5. CASE SendLink(t)
    BY <2>5, LinkSteps
  <2>6. CASE RecvTake(t)
    BY <2>6, TakeStep
  <2>7. CASE Reset(t)
    BY <2>7, ResetStep
  <2>8. CASE TimerExpire(t)
    BY <2>8, TimerStep
  <2> QED BY <1>1, <2>1, <2>2, <2>3, <2>4, <2>5, <2>6, <2>7, <2>8 DEF ThreadStep
<1>2. Idle \in Thread
  BY KernelAssumption
<1>3. CASE TickYield \/ UNCHANGED vars
  BY <1>2, <1>3, ScheduleSteps
<1>4. CASE \E a \in IsrSends : IsrSend(a)
  BY <1>2, <1>4, LinkSteps
<1> QED BY <1>1, <1>3, <1>4 DEF Next

\* The invariant holds in every reachable state.
THEOREM MessageQueueInvariant == Spec => []IInv
  BY InitIInv, NextIInv, PTL DEF Spec

\* No wake-up is lost: while threads wait in rt_mq_recv, at least as many others
\* are on their way to the queue as it holds messages, whatever is sent, urgent
\* or not, by threads and handlers, and whoever times out or is reset.
THEOREM MessageQueueNoLostWakeup == Spec => []NoLostWakeup
<1>1. IInv => NoLostWakeup
  BY DEF IInv
<1> QED BY <1>1, MessageQueueInvariant, PTL

-----------------------------------------------------------------------------
(* Every slot in one place.                                                *)

\* The invariant gives every variable its type; the counter is bounded because
\* no slot is queued twice.
LEMMA Typed == IInv => TypeOK
<1> SUFFICES ASSUME IInv PROVE TypeOK
  OBVIOUS
<1>1. Lists(mq, queue, free) /\ mq \in QueueRecord
  BY DEF IInv, SlotInv, SlotsKept
<1>2. /\ queue \in Seq(Slot) /\ IsInjective(queue) /\ mq.entry \in Nat
      /\ mq.entry = Len(queue)
  BY <1>1, ListFacts DEF Lists
<1>3. mq.entry \in 0 .. Cardinality(Slot)
  BY <1>2, SlotLists
<1>4. mq \in [next : [Slot -> Link], data : [Slot -> MessageOrNull],
              msg_queue_head : Link, msg_queue_tail : Link,
              msg_queue_free : Link, entry : 0 .. Cardinality(Slot)]
  BY <1>1, <1>3 DEF QueueRecord
<1> QED BY <1>4 DEF TypeOK, IInv, SlotInv, Time

\* A slot has one position in a list that holds it.
LEMMA OnePosition ==
  ASSUME NEW c \in Seq(Slot), IsInjective(c), NEW s
  PROVE  Cardinality({i \in DOMAIN c : c[i] = s}) = IF s \in ToSet(c) THEN 1 ELSE 0
<1> DEFINE P == {i \in DOMAIN c : c[i] = s}
<1>1. CASE s \in ToSet(c)
  <2>1. PICK i \in DOMAIN c : c[i] = s
    BY <1>1 DEF ToSet
  <2>2. P = {i}
    BY <2>1 DEF IsInjective
  <2> HIDE DEF P
  <2>3. Cardinality(P) = 1
    BY <2>2, FS_Singleton
  <2> QED BY <1>1, <2>3 DEF P
<1>2. CASE s \notin ToSet(c)
  <2>1. P = {}
    BY <1>2 DEF ToSet
  <2> HIDE DEF P
  <2>2. Cardinality(P) = 0
    BY <2>1, FS_EmptySet
  <2> QED BY <1>2, <2>2 DEF P
<1> QED BY <1>1, <1>2

\* No slot is lost, in two places or in two hands, and the counter and the tail
\* agree with the links, through every interleaving of the copies that
\* rt_mq_send, rt_mq_urgent and rt_mq_recv make with interrupts enabled, with
\* interrupt handlers that send and with resets.
THEOREM MessageQueueSlotConservation == Spec => []SlotConservation
<1>1. ASSUME IInv PROVE SlotConservation
  <2> DEFINE places(s) ==
               Cardinality({i \in DOMAIN queue : queue[i] = s})
               + Cardinality({i \in DOMAIN free : free[i] = s})
               + Cardinality({t \in Thread : msg[t] = s})
  <2>1. /\ Lists(mq, queue, free) /\ Shared(queue, free, msg)
        /\ mq \in QueueRecord /\ KInv(k) /\ TypeOK
    BY <1>1, Typed DEF IInv, SlotInv, SlotsKept
  <2>2. /\ queue \in Seq(Slot) /\ IsInjective(queue)
        /\ free \in Seq(Slot) /\ IsInjective(free)
    BY <2>1, ListFacts
  <2>3. ASSUME NEW s \in Slot
        PROVE  places(s) = 1
    <3> DEFINE H == {t \in Thread : msg[t] = s}
    <3>1. /\ Cardinality({i \in DOMAIN queue : queue[i] = s})
               = IF s \in ToSet(queue) THEN 1 ELSE 0
          /\ Cardinality({i \in DOMAIN free : free[i] = s})
               = IF s \in ToSet(free) THEN 1 ELSE 0
      BY <2>2, OnePosition
    <3>2. s # Null
      BY Parameters
    <3>3. ~(s \in ToSet(queue) /\ s \in ToSet(free))
      BY <2>1 DEF Lists
    <3>4. CASE H = {}
      <4>1. s \in ToSet(queue) \/ s \in ToSet(free)
        BY <2>1, <3>4 DEF Shared
      <4> HIDE DEF H
      <4>2. Cardinality(H) = 0
        BY <3>4, FS_EmptySet
      <4> QED BY <3>1, <3>3, <4>1, <4>2 DEF H
    <3>5. CASE H # {}
      <4>1. PICK t \in Thread : msg[t] = s
        BY <3>5
      <4>2. H = {t}
        BY <2>1, <3>2, <4>1 DEF Shared
      <4>3. s \notin ToSet(queue) /\ s \notin ToSet(free)
        BY <2>1, <3>2, <4>1 DEF Shared
      <4> HIDE DEF H
      <4>4. Cardinality(H) = 1
        BY <4>2, FS_Singleton
      <4> QED BY <3>1, <4>3, <4>4 DEF H
    <3> QED BY <3>4, <3>5
  <2> HIDE DEF places
  <2>4. /\ mq.entry = Len(queue)
        /\ mq.msg_queue_tail = IF queue = << >> THEN Null ELSE Last(queue)
    BY <2>1 DEF Lists, Last
  <2> QED BY <2>1, <2>3, <2>4 DEF SlotConservation, places, queue, free
<1> QED BY <1>1, MessageQueueInvariant, PTL

-----------------------------------------------------------------------------
(* The bounded line of messages.                                           *)

\* What is written in the slots of c.
Texts(data, c) == [i \in DOMAIN c |-> data[c[i]]]

Line == Texts(mq.data, queue)

LEMMA TextsType ==
  ASSUME NEW d \in [Slot -> MessageOrNull], NEW c \in Seq(Slot)
  PROVE  /\ Texts(d, c) \in Seq(MessageOrNull) /\ Len(Texts(d, c)) = Len(c)
         /\ \A i \in 1 .. Len(c) : Texts(d, c)[i] = d[c[i]]
<1>1. DOMAIN c = 1 .. Len(c) /\ Len(c) \in Nat /\ \A i \in 1 .. Len(c) : c[i] \in Slot
  BY LenProperties, ElementOfSeq
<1>2. Texts(d, c) \in [1 .. Len(c) -> MessageOrNull]
  BY <1>1 DEF Texts
<1>3. Texts(d, c) \in Seq(MessageOrNull) /\ Len(Texts(d, c)) = Len(c)
  BY ONLY <1>1, <1>2
<1> QED BY <1>1, <1>3 DEF Texts

\* Writing elsewhere does not change them.
LEMMA TextsKept ==
  ASSUME NEW d, NEW c \in Seq(Slot), NEW s, s \notin ToSet(c), NEW a,
         NEW e, e = [d EXCEPT ![s] = a]
  PROVE  Texts(e, c) = Texts(d, c)
BY DEF Texts, ToSet

\* A slot that is linked puts its message into the line.
LEMMA TextsLinked ==
  ASSUME NEW d \in [Slot -> MessageOrNull], NEW c \in Seq(Slot),
         NEW s \in Slot, NEW a \in Message, d[s] = a,
         NEW r, r = Linked(c, s, a)
  PROVE  Texts(d, r) =
           IF a \in Urgent THEN <<a>> \o Texts(d, c) ELSE Append(Texts(d, c), a)
<1> DEFINE x == Texts(d, c)
           y == IF a \in Urgent THEN <<a>> \o x ELSE Append(x, a)
<1>1. x \in Seq(MessageOrNull) /\ Len(x) = Len(c) /\ Len(c) \in Nat
      /\ a \in MessageOrNull /\ \A i \in 1 .. Len(c) : x[i] = d[c[i]]
  BY TextsType, LenProperties DEF MessageOrNull
<1> HIDE DEF x
<1>2. CASE a \in Urgent
  <2>1. r = <<s>> \o c /\ y = <<a>> \o x
    BY <1>2 DEF Linked
  <2>2. /\ r \in Seq(Slot) /\ Len(r) = Len(c) + 1 /\ r[1] = s
        /\ \A i \in 2 .. (Len(c) + 1) : r[i] = c[i - 1]
    BY <2>1
  <2>3. /\ y \in Seq(MessageOrNull) /\ Len(y) = Len(c) + 1 /\ y[1] = a
        /\ \A i \in 2 .. (Len(c) + 1) : y[i] = x[i - 1]
    BY <1>1, <2>1
  <2> HIDE DEF y
  <2>4. /\ Texts(d, r) \in Seq(MessageOrNull) /\ Len(Texts(d, r)) = Len(c) + 1
        /\ \A i \in 1 .. (Len(c) + 1) : Texts(d, r)[i] = d[r[i]]
    BY <2>2, TextsType
  <2>5. ASSUME NEW i \in 1 .. (Len(c) + 1)
        PROVE  Texts(d, r)[i] = y[i]
    <3>1. CASE i = 1
      BY <2>2, <2>3, <2>4, <3>1
    <3>2. CASE i # 1
      <4>1. i \in 2 .. (Len(c) + 1) /\ i - 1 \in 1 .. Len(c)
        BY <1>1, <3>2
      <4> QED BY <1>1, <2>2, <2>3, <2>4, <4>1
    <3> QED BY <3>1, <3>2
  <2>6. Texts(d, r) = y
    BY <2>3, <2>4, <2>5, SeqEqual
  <2> QED BY <2>6 DEF y, x
<1>3. CASE a \notin Urgent
  <2>1. r = Append(c, s) /\ y = Append(x, a)
    BY <1>3 DEF Linked
  <2>2. /\ r \in Seq(Slot) /\ Len(r) = Len(c) + 1 /\ r[Len(c) + 1] = s
        /\ \A i \in 1 .. Len(c) : r[i] = c[i]
    BY <2>1, AppendProperties
  <2>3. /\ y \in Seq(MessageOrNull) /\ Len(y) = Len(c) + 1 /\ y[Len(c) + 1] = a
        /\ \A i \in 1 .. Len(c) : y[i] = x[i]
    <3> HIDE DEF y
    <3>1. /\ Append(x, a) \in Seq(MessageOrNull)
          /\ Len(Append(x, a)) = Len(x) + 1 /\ Append(x, a)[Len(x) + 1] = a
          /\ \A i \in 1 .. Len(x) : Append(x, a)[i] = x[i]
      BY <1>1, AppendProperties
    <3> QED BY <1>1, <2>1, <3>1
  <2> HIDE DEF y
  <2>4. /\ Texts(d, r) \in Seq(MessageOrNull) /\ Len(Texts(d, r)) = Len(c) + 1
        /\ \A i \in 1 .. (Len(c) + 1) : Texts(d, r)[i] = d[r[i]]
    BY <2>2, TextsType
  <2>5. ASSUME NEW i \in 1 .. (Len(c) + 1)
        PROVE  Texts(d, r)[i] = y[i]
    <3>1. CASE i = Len(c) + 1
      BY <2>2, <2>3, <2>4, <3>1
    <3>2. CASE i # Len(c) + 1
      <4>1. i \in 1 .. Len(c)
        BY <1>1, <3>2
      <4> QED BY <1>1, <2>2, <2>3, <2>4, <4>1
    <3> QED BY <3>1, <3>2
  <2>6. Texts(d, r) = y
    BY <2>3, <2>4, <2>5, SeqEqual
  <2> QED BY <2>6 DEF y, x
<1> QED BY <1>2, <1>3

\* The first slot of the list holds the first message of the line.
LEMMA TextsTail ==
  ASSUME NEW d \in [Slot -> MessageOrNull], NEW c \in Seq(Slot), c # << >>,
         NEW e, e = Tail(c)
  PROVE  /\ Texts(d, c) # << >> /\ Texts(d, e) = Tail(Texts(d, c))
         /\ Head(Texts(d, c)) = d[Head(c)]
<1> DEFINE x == Texts(d, c)
           T == Tail(c)
<1>1. x \in Seq(MessageOrNull) /\ Len(x) = Len(c)
      /\ \A i \in 1 .. Len(c) : x[i] = d[c[i]]
  BY TextsType
<1>2. Len(c) \in Nat /\ Len(c) >= 1 /\ 1 \in 1 .. Len(c) /\ Len(c) - 1 \in Nat
  BY LenProperties, EmptySeq
<1>3. /\ T \in Seq(Slot) /\ Len(T) = Len(c) - 1 /\ Head(c) = c[1]
      /\ \A i \in 1 .. (Len(c) - 1) : T[i] = c[i + 1]
  BY HeadTailProperties
<1> HIDE DEF x, T
<1>4. x # << >>
  BY <1>1, <1>2, EmptySeq
<1>5. /\ Tail(x) \in Seq(MessageOrNull) /\ Len(Tail(x)) = Len(c) - 1
      /\ Head(x) = x[1] /\ \A i \in 1 .. (Len(c) - 1) : Tail(x)[i] = x[i + 1]
  BY <1>1, <1>4, HeadTailProperties
<1>6. /\ Texts(d, T) \in Seq(MessageOrNull) /\ Len(Texts(d, T)) = Len(c) - 1
      /\ \A i \in 1 .. (Len(c) - 1) : Texts(d, T)[i] = d[T[i]]
  BY <1>3, TextsType
<1>7. ASSUME NEW i \in 1 .. (Len(c) - 1)
      PROVE  Texts(d, T)[i] = Tail(x)[i]
  <2>1. i + 1 \in 1 .. Len(c)
    BY <1>2
  <2> QED BY <1>1, <1>3, <1>5, <1>6, <2>1
<1>8. Texts(d, T) = Tail(x)
  BY <1>5, <1>6, <1>7, SeqEqual
<1>9. Head(x) = d[Head(c)]
  BY <1>1, <1>2, <1>3, <1>5
<1> QED BY <1>4, <1>8, <1>9 DEF x, T

\* A copy out of a slot that nobody else holds reads the message that was
\* unlinked: what a thread has received does not change.
LEMMA ReceivedKept ==
  ASSUME \A t \in Thread :
           /\ pc'[t] = "copy_out" <=> pc[t] = "copy_out"
           /\ pc[t] = "copy_out" => mq'.data[msg'[t]] = mq.data[msg[t]]
           /\ pc[t] # "copy_out" => got'[t] = got[t]
  PROVE  Received' = Received
BY DEF Received

\* The steps of the abstract channel, for this line of messages.
LEMMA ChannelActions ==
  /\ Line' = Line /\ arg' = arg /\ Received' = Received
      => UNCHANGED Channel!absVars
  /\ \A t \in Thread, a \in Message :
       /\ arg[t] = Null /\ arg' = [arg EXCEPT ![t] = a]
       /\ Line' = Line /\ Received' = Received
      => Channel!AbsNext
  /\ \A t \in Thread, a \in Message :
       /\ arg[t] = a /\ arg' = [arg EXCEPT ![t] = Null]
       /\ Len(Line) < Cardinality(Slot)
       /\ Line' = IF a \in Urgent THEN <<a>> \o Line ELSE Append(Line, a)
       /\ Received' = Received
      => Channel!AbsNext
  /\ \A a \in Message :
       /\ Len(Line) < Cardinality(Slot)
       /\ Line' = IF a \in Urgent THEN <<a>> \o Line ELSE Append(Line, a)
       /\ arg' = arg /\ Received' = Received
      => Channel!AbsNext
  /\ \A t \in Thread :
       /\ Line # << >> /\ Line' = Tail(Line)
       /\ Received' = [Received EXCEPT ![t] = Head(Line)] /\ arg' = arg
      => Channel!AbsNext
  /\ Line' = << >> /\ arg' = arg /\ Received' = Received => Channel!AbsNext
<1> USE DEF Line, Texts, queue
<1>1. Line' = Line /\ arg' = arg /\ Received' = Received
        => UNCHANGED Channel!absVars
  BY DEF Channel!absVars
<1>2. \A t \in Thread, a \in Message :
         /\ arg[t] = Null /\ arg' = [arg EXCEPT ![t] = a]
         /\ Line' = Line /\ Received' = Received
        => Channel!AbsNext
  <2> SUFFICES ASSUME NEW t \in Thread, NEW a \in Message, arg[t] = Null,
                  arg' = [arg EXCEPT ![t] = a], Line' = Line, Received' = Received
               PROVE  Channel!AbsNext
    OBVIOUS
  <2>1. Channel!Offer(t, a)
    BY DEF Channel!Offer
  <2> QED BY <2>1 DEF Channel!AbsNext
<1>3. \A t \in Thread, a \in Message :
         /\ arg[t] = a /\ arg' = [arg EXCEPT ![t] = Null]
         /\ Len(Line) < Cardinality(Slot)
         /\ Line' = IF a \in Urgent THEN <<a>> \o Line ELSE Append(Line, a)
         /\ Received' = Received
        => Channel!AbsNext
  <2> SUFFICES ASSUME NEW t \in Thread, NEW a \in Message, arg[t] = a,
                  arg' = [arg EXCEPT ![t] = Null], Len(Line) < Cardinality(Slot),
                  Line' = IF a \in Urgent THEN <<a>> \o Line ELSE Append(Line, a),
                  Received' = Received
               PROVE  Channel!AbsNext
    OBVIOUS
  <2>1. Channel!Put(t, a)
    BY DEF Channel!Put, Channel!Extended
  <2> QED BY <2>1 DEF Channel!AbsNext
<1>4. \A a \in Message :
         /\ Len(Line) < Cardinality(Slot)
         /\ Line' = IF a \in Urgent THEN <<a>> \o Line ELSE Append(Line, a)
         /\ arg' = arg /\ Received' = Received
        => Channel!AbsNext
  <2> SUFFICES ASSUME NEW a \in Message, Len(Line) < Cardinality(Slot),
                  Line' = IF a \in Urgent THEN <<a>> \o Line ELSE Append(Line, a),
                  arg' = arg, Received' = Received
               PROVE  Channel!AbsNext
    OBVIOUS
  <2>1. Channel!PutFromOutside(a)
    BY DEF Channel!PutFromOutside, Channel!Extended
  <2> QED BY <2>1 DEF Channel!AbsNext
<1>5. \A t \in Thread :
         /\ Line # << >> /\ Line' = Tail(Line)
         /\ Received' = [Received EXCEPT ![t] = Head(Line)] /\ arg' = arg
        => Channel!AbsNext
  <2> SUFFICES ASSUME NEW t \in Thread, Line # << >>, Line' = Tail(Line),
                  Received' = [Received EXCEPT ![t] = Head(Line)], arg' = arg
               PROVE  Channel!AbsNext
    OBVIOUS
  <2>1. Channel!Get(t)
    BY DEF Channel!Get
  <2> QED BY <2>1 DEF Channel!AbsNext
<1>6. Line' = << >> /\ arg' = arg /\ Received' = Received => Channel!AbsNext
  <2> SUFFICES ASSUME Line' = << >>, arg' = arg, Received' = Received
               PROVE  Channel!AbsNext
    OBVIOUS
  <2>1. Channel!Forget
    BY DEF Channel!Forget
  <2> QED BY <2>1 DEF Channel!AbsNext
<1> QED BY <1>1, <1>2, <1>3, <1>4, <1>5, <1>6

\* While a slot is not queued there is room in the line for its message.
LEMMA Room ==
  ASSUME SlotInv, NEW s \in Slot, s \notin ToSet(queue)
  PROVE  Len(Line) < Cardinality(Slot)
<1>1. Lists(mq, queue, free) /\ mq \in QueueRecord
  BY DEF SlotInv, SlotsKept
<1>2. queue \in Seq(Slot) /\ IsInjective(queue) /\ mq.data \in [Slot -> MessageOrNull]
  BY <1>1, ListFacts DEF QueueRecord
<1>3. Len(Line) = Len(queue)
  BY <1>2, TextsType DEF Line
<1> HIDE DEF queue
<1>4. /\ Append(queue, s) \in Seq(Slot) /\ IsInjective(Append(queue, s))
      /\ Len(Append(queue, s)) = Len(queue) + 1
  BY <1>2, AppendDistinct, AppendProperties
<1>5. Len(queue) + 1 <= Cardinality(Slot) /\ Len(queue) \in Nat
      /\ Cardinality(Slot) \in Nat
  BY <1>2, <1>4, SlotLists, LenProperties
<1> QED BY <1>3, <1>5

\* Every step is a step of the channel or one it does not see.
LEMMA ChannelStep ==
  ASSUME IInv, [Next]_vars
  PROVE  Channel!AbsNext \/ UNCHANGED Channel!absVars
<1> USE IInvFacts
<1>1. /\ mq.data \in [Slot -> MessageOrNull] /\ queue \in Seq(Slot)
      /\ msg \in [Thread -> Link] /\ arg \in [Thread -> MessageOrNull]
      /\ Shared(queue, free, msg)
  BY ListFacts DEF SlotInv, SlotsKept, QueueRecord
<1> HIDE DEF queue
<1>2. ASSUME NEW t \in Thread, NEW c \in PC \ {"copy_out"}, pc[t] # "copy_out",
             pc' = [pc EXCEPT ![t] = c],
             UNCHANGED <<mq, msg, arg, got>>
      PROVE  UNCHANGED Channel!absVars
  <2>1. Line' = Line
    BY <1>2 DEF Line, queue
  <2>2. Received' = Received
    BY <1>2, ReceivedKept
  <2> QED BY <1>2, <2>1, <2>2, ChannelActions
<1>3. ASSUME NEW t \in Thread,
             \/ \E new \in Thread : Startup(t, new)
             \/ RecvFail(t) \/ RecvSchedule(t) \/ Schedule(t)
             \/ \E limit \in {"some", "forever"} : RecvBlock(t, limit)
             \/ \E left \in {"zero", "some", "forever"} : RecvWoken(t, left)
      PROVE  UNCHANGED Channel!absVars
  <2>1. /\ pc[t] # "copy_out" /\ UNCHANGED <<mq, msg, arg, got>>
        /\ \E c \in PC \ {"copy_out"} : pc' = [pc EXCEPT ![t] = c]
    BY <1>3 DEF Startup, RecvFail, RecvSchedule, Schedule, RecvBlock, RecvWoken,
                InLoop, PC
  <2> QED BY <1>2, <2>1
<1>4. ASSUME NEW t \in Thread, NEW a \in Message, SendReserve(t, a)
      PROVE  Channel!AbsNext
  <2>1. /\ pc[t] = "run" /\ pc' = [pc EXCEPT ![t] = "copy_in"] /\ got' = got
        /\ arg' = [arg EXCEPT ![t] = a] /\ arg[t] = Null
        /\ \E s : msg' = [msg EXCEPT ![t] = s]
        /\ queue' = queue /\ mq'.data = mq.data
    BY <1>4, ReserveSlots DEF SendReserve
  <2>2. Line' = Line
    BY <2>1 DEF Line
  <2>3. Received' = Received
    BY <1>1, <2>1, ReceivedKept
  <2> QED BY <2>1, <2>2, <2>3, ChannelActions
<1>5. ASSUME NEW t \in Thread, SendCopy(t)
      PROVE  UNCHANGED Channel!absVars
  <2>1. /\ pc[t] = "copy_in" /\ pc' = [pc EXCEPT ![t] = "link"]
        /\ UNCHANGED <<msg, arg, got>> /\ queue' = queue
        /\ mq'.data = [mq.data EXCEPT ![msg[t]] = arg[t]]
        /\ msg[t] # Null /\ msg[t] \notin ToSet(queue)
    BY <1>5, CopySlots DEF SendCopy
  <2>2. Line' = Line
    <3>1. /\ queue \in Seq(Slot) /\ msg[t] \notin ToSet(queue)
          /\ mq'.data = [mq.data EXCEPT ![msg[t]] = arg[t]]
      BY <1>1, <2>1
    <3>2. Texts(mq'.data, queue) = Texts(mq.data, queue)
      BY ONLY <3>1 DEF Texts, ToSet
    <3> QED BY ONLY <2>1, <3>2 DEF Line
  <2>3. ASSUME NEW u \in Thread, pc[u] = "copy_out"
        PROVE  mq'.data[msg[u]] = mq.data[msg[u]]
    <3>1. u # t /\ msg[u] # Null
      BY <2>1, <2>3 DEF SlotInv, Holds
    <3>2. msg[u] # msg[t] /\ msg[u] \in Slot
      BY <1>1, <3>1 DEF Shared, Link
    <3> QED BY <1>1, <2>1, <3>2
  <2>4. Received' = Received
    BY <2>1, <2>3, ReceivedKept
  <2> QED BY <2>1, <2>2, <2>4, ChannelActions
<1>6. ASSUME NEW t \in Thread, SendLink(t)
      PROVE  Channel!AbsNext
  <2> DEFINE s == msg[t]
             a == arg[t]
  <2>1. /\ pc[t] = "link" /\ \E c \in {"sched", "run"} : pc' = [pc EXCEPT ![t] = c]
        /\ msg' = [msg EXCEPT ![t] = Null] /\ arg' = [arg EXCEPT ![t] = Null]
        /\ got' = got
        /\ queue' = Linked(queue, s, a) /\ mq'.data = mq.data
        /\ mq.data[s] = a /\ a \in Message /\ s \in Slot /\ s \notin ToSet(queue)
    BY <1>6, LinkSlots DEF SendLink
  <2>2. Line' = IF a \in Urgent THEN <<a>> \o Line ELSE Append(Line, a)
    <3> DEFINE d == mq.data
               c == queue
               r == queue'
    <3>1. /\ c \in Seq(Slot) /\ d \in [Slot -> MessageOrNull]
          /\ s \in Slot /\ a \in Message /\ d[s] = a
          /\ r = Linked(c, s, a) /\ mq'.data = d
      BY <1>1, <2>1
    <3> HIDE DEF s, a, d, c, r
    <3>2. Texts(d, r) = IF a \in Urgent THEN <<a>> \o Texts(d, c)
                        ELSE Append(Texts(d, c), a)
      BY ONLY <3>1, TextsLinked
    <3> QED BY ONLY <3>1, <3>2 DEF Line, d, c, r
  <2>3. Received' = Received
    BY <1>1, <2>1, ReceivedKept
  <2>4. Len(Line) < Cardinality(Slot)
    BY <2>1, Room
  <2> QED BY <2>1, <2>2, <2>3, <2>4, ChannelActions
<1>7. ASSUME NEW a \in IsrSends, IsrSend(a)
      PROVE  Channel!AbsNext
  <2> DEFINE s == mq.msg_queue_free
  <2>1. /\ UNCHANGED <<pc, msg, arg, got>> /\ a \in Message
        /\ queue' = Linked(queue, s, a)
        /\ mq'.data = [mq.data EXCEPT ![s] = a]
        /\ s \in Slot /\ s \notin ToSet(queue)
        /\ \A u \in Thread : msg[u] # s
    BY <1>7, IsrSlots, Parameters DEF IsrSend
  <2> HIDE DEF s
  <2>2. /\ mq'.data \in [Slot -> MessageOrNull] /\ mq'.data[s] = a
        /\ Texts(mq'.data, queue) = Texts(mq.data, queue)
    <3>1. /\ queue \in Seq(Slot) /\ mq.data \in [Slot -> MessageOrNull]
          /\ s \in Slot /\ a \in MessageOrNull /\ s \notin ToSet(queue)
          /\ mq'.data = [mq.data EXCEPT ![s] = a]
      BY <1>1, <2>1 DEF MessageOrNull
    <3>2. Texts(mq'.data, queue) = Texts(mq.data, queue)
      BY ONLY <3>1, TextsKept
    <3>3. mq'.data \in [Slot -> MessageOrNull] /\ mq'.data[s] = a
      BY ONLY <3>1
    <3> QED BY <3>2, <3>3
  <2>3. Line' = IF a \in Urgent THEN <<a>> \o Line ELSE Append(Line, a)
    <3> DEFINE d == mq'.data
               c == queue
               r == queue'
    <3>1. /\ c \in Seq(Slot) /\ d \in [Slot -> MessageOrNull]
          /\ s \in Slot /\ a \in Message /\ d[s] = a
          /\ r = Linked(c, s, a) /\ Texts(d, c) = Line
      BY <1>1, <2>1, <2>2 DEF Line
    <3> HIDE DEF d, c, r
    <3>2. Texts(d, r) = IF a \in Urgent THEN <<a>> \o Texts(d, c)
                        ELSE Append(Texts(d, c), a)
      BY ONLY <3>1, TextsLinked
    <3> QED BY ONLY <3>1, <3>2 DEF Line, d, r
  <2>4. \A u \in Thread : pc[u] = "copy_out" => mq'.data[msg[u]] = mq.data[msg[u]]
    BY <2>1
  <2>5. Received' = Received
    BY <2>1, <2>4, ReceivedKept
  <2>6. Len(Line) < Cardinality(Slot)
    BY <2>1, Room
  <2> QED BY <2>1, <2>3, <2>5, <2>6, ChannelActions
<1>8. ASSUME NEW t \in Thread, RecvTake(t)
      PROVE  Channel!AbsNext
  <2>1. /\ pc[t] # "copy_out" /\ pc' = [pc EXCEPT ![t] = "copy_out"]
        /\ \E s : msg' = [msg EXCEPT ![t] = s]
        /\ UNCHANGED <<arg, got>>
        /\ queue # << >> /\ queue' = Tail(queue) /\ msg'[t] = Head(queue)
        /\ mq'.data = mq.data
    BY <1>8, TakeSlots DEF RecvTake, InLoop
  <2>2. /\ Line # << >> /\ Line' = Tail(Line)
        /\ Head(Line) = mq.data[Head(queue)]
    <3>1. /\ queue \in Seq(Slot) /\ queue # << >> /\ queue' = Tail(queue)
          /\ mq.data \in [Slot -> MessageOrNull] /\ mq'.data = mq.data
      BY <1>1, <2>1
    <3>2. /\ Texts(mq.data, queue) # << >>
          /\ Texts(mq.data, queue') = Tail(Texts(mq.data, queue))
          /\ Head(Texts(mq.data, queue)) = mq.data[Head(queue)]
      BY ONLY <3>1, TextsTail
    <3> QED BY ONLY <3>1, <3>2 DEF Line
  <2>3. \A u \in Thread \ {t} : pc'[u] = pc[u] /\ msg'[u] = msg[u]
    BY <1>1, <2>1
  <2>4. Received' = [Received EXCEPT ![t] = Head(Line)]
    <3>1. Received'[t] = Head(Line) /\ Received'[t] = Received'[t]
      BY <1>1, <2>1, <2>2 DEF Received
    <3>2. \A u \in Thread \ {t} : Received'[u] = Received[u]
      BY <2>1, <2>3 DEF Received
    <3>3. /\ Received = [u \in Thread |-> Received[u]]
          /\ Received' = [u \in Thread |-> Received'[u]]
      BY DEF Received
    <3> HIDE DEF Received
    <3> QED BY <3>1, <3>2, <3>3
  <2> QED BY <2>1, <2>2, <2>4, ChannelActions
<1>9. ASSUME NEW t \in Thread, RecvCopy(t)
      PROVE  UNCHANGED Channel!absVars
  <2>1. /\ pc[t] = "copy_out" /\ pc' = [pc EXCEPT ![t] = "give_back"]
        /\ got' = [got EXCEPT ![t] = mq.data[msg[t]]] /\ UNCHANGED <<mq, msg, arg>>
    BY <1>9 DEF RecvCopy
  <2>2. Line' = Line
    BY <2>1 DEF Line, queue
  <2>3. Received' = Received
    BY <2>1 DEF Received
  <2> QED BY <2>1, <2>2, <2>3, ChannelActions
<1>10. ASSUME NEW t \in Thread, RecvGiveBack(t)
       PROVE  UNCHANGED Channel!absVars
  <2>1. /\ pc[t] = "give_back" /\ pc' = [pc EXCEPT ![t] = "run"]
        /\ msg' = [msg EXCEPT ![t] = Null] /\ UNCHANGED <<arg, got>>
        /\ queue' = queue /\ mq'.data = mq.data
    BY <1>10, GiveBackSlots DEF RecvGiveBack
  <2>2. Line' = Line
    BY <2>1 DEF Line
  <2>3. Received' = Received
    BY <1>1, <2>1, ReceivedKept
  <2> QED BY <2>1, <2>2, <2>3, ChannelActions
<1>11. ASSUME NEW t \in Thread, Reset(t)
       PROVE  Channel!AbsNext
  <2>1. /\ pc[t] = "run" /\ pc' = [pc EXCEPT ![t] = "sched"]
        /\ UNCHANGED <<msg, arg, got>> /\ queue' = << >> /\ mq'.data = mq.data
    BY <1>11, ResetSlots DEF Reset
  <2>2. Line' = << >>
    <3>1. << >> \in Seq(Slot)
      OBVIOUS
    <3>2. /\ Texts(mq.data, << >>) \in Seq(MessageOrNull)
          /\ Len(Texts(mq.data, << >>)) = Len(<< >>)
      BY <1>1, <3>1, TextsType
    <3>3. Len(<< >>) = 0
      OBVIOUS
    <3>4. Texts(mq.data, << >>) = << >>
      BY <3>2, <3>3, EmptySeq
    <3> QED BY <2>1, <3>4 DEF Line
  <2>3. Received' = Received
    BY <2>1, ReceivedKept
  <2> QED BY <2>1, <2>2, <2>3, ChannelActions
<1>12. CASE (\E t \in Thread : TimerExpire(t)) \/ TickYield \/ UNCHANGED vars
  <2>1. UNCHANGED <<mq, pc, msg, arg, got>>
    BY <1>12 DEF TimerExpire, TickYield, vars
  <2>2. Line' = Line
    BY <2>1 DEF Line, queue
  <2>3. Received' = Received
    BY <2>1, ReceivedKept
  <2> QED BY <2>1, <2>2, <2>3, ChannelActions
<1> HIDE IInvFacts
<1> QED BY <1>3, <1>4, <1>5, <1>6, <1>7, <1>8, <1>9, <1>10, <1>11, <1>12
           DEF Next, ThreadStep

\* The message queue of ipc.c implements a bounded line of messages: rt_mq_send
\* puts a message last and rt_mq_urgent first, rt_mq_recv gives the first one to
\* one receiver, although both copy it with interrupts enabled, and a reset
\* forgets the line.
THEOREM MessageQueueRefinement == Spec => ImplementsChannel
<1>1. Init => Channel!AbsInit
  <2> SUFFICES ASSUME Init PROVE Channel!AbsInit
    OBVIOUS
  <2>1. queue = << >> /\ mq.data \in [Slot -> MessageOrNull]
    BY InitSlots DEF SlotInv, QueueRecord
  <2>2. Line = << >>
    <3>1. << >> \in Seq(Slot)
      OBVIOUS
    <3>2. /\ Texts(mq.data, << >>) \in Seq(MessageOrNull)
          /\ Len(Texts(mq.data, << >>)) = Len(<< >>)
      BY <2>1, <3>1, TextsType
    <3>3. Len(<< >>) = 0
      OBVIOUS
    <3>4. Texts(mq.data, << >>) = << >>
      BY <3>2, <3>3, EmptySeq
    <3> QED BY <2>1, <3>4 DEF Line
  <2>3. Received \in [Thread -> MessageOrNull]
    BY Parameters DEF Init, Received, MessageOrNull
  <2>4. arg = [t \in Thread |-> Null]
    BY DEF Init
  <2> QED BY <2>2, <2>3, <2>4 DEF Channel!AbsInit, Line, Texts, queue, MessageOrNull
<1>2. IInv /\ [Next]_vars => IInv' /\ [Channel!AbsNext]_(Channel!absVars)
  BY NextIInv, ChannelStep
<1> QED BY <1>1, <1>2, InitIInv, PTL DEF Spec, ImplementsChannel, Channel!AbsSpec

=============================================================================
