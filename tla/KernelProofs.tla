---------------------------- MODULE KernelProofs ----------------------------
(***************************************************************************)
(* What the operators of Kernel return and preserve: lemmas about lists    *)
(* and numbers, and one per kernel function, cited by the proofs about the *)
(* IPC objects and the services.                                           *)
(***************************************************************************)
EXTENDS Kernel, TLAPS, SequenceTheorems, FiniteSetTheorems,
        FunctionTheorems, WellFoundedInduction

-----------------------------------------------------------------------------
(* Lists.                                                                  *)

\* The list without its element at position i: the elements behind it move up.
LEMMA RemoveAtElements ==
  ASSUME NEW T, NEW s \in Seq(T), NEW i \in 1 .. Len(s)
  PROVE  /\ RemoveAt(s, i) \in Seq(T)
         /\ Len(RemoveAt(s, i)) = Len(s) - 1
         /\ DOMAIN RemoveAt(s, i) = 1 .. (Len(s) - 1)
         /\ \A j \in 1 .. (Len(s) - 1) :
              RemoveAt(s, i)[j] = IF j < i THEN s[j] ELSE s[j + 1]
<1> DEFINE n == Len(s)
           a == SubSeq(s, 1, i - 1)
           b == SubSeq(s, i + 1, n)
           r == RemoveAt(s, i)
<1>1. n \in Nat /\ DOMAIN s = 1 .. n /\ i \in 1 .. n
  BY LenProperties
<1>2. a \in Seq(T) /\ Len(a) = i - 1 /\ \A j \in 1 .. (i - 1) : a[j] = s[j]
  <2>1. 1 \in 1 .. (n + 1) /\ (i - 1) \in 0 .. n
    BY <1>1
  <2> QED BY <1>1, <2>1, SubSeqProperties, Z3T(30)
<1>3. b \in Seq(T) /\ Len(b) = n - i
      /\ \A j \in 1 .. (n - i) : b[j] = s[i + j]
  <2>1. i + 1 \in Int /\ n \in Int /\ \A j \in (i + 1) .. n : s[j] \in T
    BY <1>1, ElementOfSeq
  <2>2. /\ b \in Seq(T)
        /\ Len(b) = IF i + 1 <= n THEN n - (i + 1) + 1 ELSE 0
        /\ \A j \in 1 .. n - (i + 1) + 1 : b[j] = s[(i + 1) + j - 1]
    <3> HIDE DEF n
    <3> QED BY <2>1, SubSeqProperties
  <2> HIDE DEF n, b
  <2>3. n - (i + 1) + 1 = n - i /\ \A j \in 1 .. (n - i) : (i + 1) + j - 1 = i + j
    BY <1>1
  <2>4. Len(b) = n - i
    BY <1>1, <2>2
  <2> QED BY <2>2, <2>3, <2>4
<1>4. r = a \o b
  BY DEF RemoveAt
<1> HIDE DEF n, a, b, r
<1>5. r \in Seq(T) /\ Len(r) = n - 1
      /\ \A j \in 1 .. (n - 1) : r[j] = IF j < i THEN s[j] ELSE s[j + 1]
  <2>1. r \in Seq(T) /\ Len(r) = Len(a) + Len(b)
    BY <1>2, <1>3, <1>4, ConcatProperties
  <2>2. ASSUME NEW j \in 1 .. (n - 1), j < i
        PROVE  r[j] = s[j]
    BY <1>1, <1>2, <1>3, <1>4, <2>2
  <2>3. ASSUME NEW j \in 1 .. (n - 1), ~(j < i)
        PROVE  r[j] = s[j + 1]
    <3>1. r[j] = b[j - (i - 1)]
      BY <1>1, <1>2, <1>3, <1>4, <2>3
    <3>2. j - (i - 1) \in 1 .. (n - i) /\ i + (j - (i - 1)) = j + 1
      BY <1>1, <2>3
    <3> QED BY <1>3, <3>1, <3>2
  <2> QED BY <1>1, <1>2, <1>3, <2>1, <2>2, <2>3
<1>6. DOMAIN r = 1 .. (n - 1)
  BY <1>5, LenProperties
<1> QED BY <1>5, <1>6 DEF r, n

\* Taking the element at position i out of a list without duplicates removes
\* exactly that element.
LEMMA RemoveAtProperties ==
  ASSUME NEW T, NEW s \in Seq(T), IsInjective(s), NEW i \in DOMAIN s
  PROVE  /\ RemoveAt(s, i) \in Seq(T)
         /\ IsInjective(RemoveAt(s, i))
         /\ ToSet(RemoveAt(s, i)) = ToSet(s) \ {s[i]}
<1> DEFINE n == Len(s)
           r == RemoveAt(s, i)
<1>1. n \in Nat /\ DOMAIN s = 1 .. n /\ i \in 1 .. n
  BY LenProperties
<1>5. /\ r \in Seq(T) /\ Len(r) = n - 1
      /\ DOMAIN r = 1 .. (n - 1)
      /\ \A j \in 1 .. (n - 1) : r[j] = IF j < i THEN s[j] ELSE s[j + 1]
  BY <1>1, RemoveAtElements
<1> HIDE DEF n, r
<1>6. DOMAIN r = 1 .. (n - 1)
  BY <1>5
<1>inj. \A x, y \in 1 .. n : s[x] = s[y] => x = y
  BY <1>1 DEF IsInjective
<1>7. IsInjective(r)
  <2> SUFFICES ASSUME NEW x \in 1 .. (n - 1), NEW y \in 1 .. (n - 1),
                      r[x] = r[y]
               PROVE  x = y
    BY <1>6 DEF IsInjective
  <2>1. x \in 1 .. n /\ x + 1 \in 1 .. n /\ y \in 1 .. n /\ y + 1 \in 1 .. n
    BY <1>1
  <2> QED BY <1>1, <1>5, <1>inj, <2>1
<1>8. ASSUME NEW x \in ToSet(r)
      PROVE  x \in ToSet(s) \ {s[i]}
  <2>1. PICK j \in 1 .. (n - 1) : r[j] = x
    BY <1>6, <1>8 DEF ToSet
  <2>2. \E m \in 1 .. n : m # i /\ x = s[m]
    <3>1. CASE j < i
      BY <1>1, <1>5, <2>1, <3>1
    <3>2. CASE ~(j < i)
      <4>1. j + 1 \in 1 .. n /\ j + 1 # i /\ x = s[j + 1]
        BY <1>1, <1>5, <2>1, <3>2
      <4> QED BY <4>1
    <3> QED BY <3>1, <3>2
  <2> QED BY <1>1, <1>inj, <2>2 DEF ToSet
<1>9. ASSUME NEW x \in ToSet(s) \ {s[i]}
      PROVE  x \in ToSet(r)
  <2>1. PICK j \in 1 .. n : s[j] = x /\ j # i
    BY <1>1 DEF ToSet
  <2>2. CASE j < i
    <3>1. j \in 1 .. (n - 1) /\ r[j] = x
      BY <1>1, <1>5, <2>1, <2>2
    <3> QED BY <1>6, <3>1 DEF ToSet
  <2>3. CASE j > i
    <3>1. j - 1 \in 1 .. (n - 1) /\ r[j - 1] = x
      BY <1>1, <1>5, <2>1, <2>3
    <3> QED BY <1>6, <3>1 DEF ToSet
  <2> QED BY <1>1, <2>1, <2>2, <2>3
<1> QED BY <1>5, <1>7, <1>8, <1>9 DEF r

\* Unlinking a thread leaves the other elements of the list, once each.
LEMMA UnlinkProperties ==
  ASSUME NEW T, NEW s \in Seq(T), IsInjective(s), NEW t
  PROVE  /\ Unlink(s, t) \in Seq(T)
         /\ IsInjective(Unlink(s, t))
         /\ ToSet(Unlink(s, t)) = ToSet(s) \ {t}
<1>1. CASE t \in ToSet(s)
  <2> DEFINE i == CHOOSE j \in DOMAIN s : s[j] = t
  <2>1. i \in DOMAIN s /\ s[i] = t
    BY <1>1 DEF ToSet
  <2>2. Unlink(s, t) = RemoveAt(s, i)
    BY <1>1 DEF Unlink
  <2> HIDE DEF i
  <2> QED BY <2>1, <2>2, RemoveAtProperties
<1>2. CASE t \notin ToSet(s)
  BY <1>2 DEF Unlink
<1> QED BY <1>1, <1>2

\* The list with t inserted in front of position i.
LEMMA InsertAtElements ==
  ASSUME NEW T, NEW s \in Seq(T), NEW i \in 1 .. (Len(s) + 1), NEW t \in T
  PROVE  /\ InsertAt(s, i, t) \in Seq(T)
         /\ Len(InsertAt(s, i, t)) = Len(s) + 1
         /\ DOMAIN InsertAt(s, i, t) = 1 .. (Len(s) + 1)
         /\ \A j \in 1 .. (Len(s) + 1) : InsertAt(s, i, t)[j] =
              IF j < i THEN s[j] ELSE IF j = i THEN t ELSE s[j - 1]
<1> DEFINE n == Len(s)
           a == SubSeq(s, 1, i - 1)
           c == a \o <<t>>
           b == SubSeq(s, i, n)
           r == InsertAt(s, i, t)
<1>1. n \in Nat /\ DOMAIN s = 1 .. n /\ i \in 1 .. (n + 1)
  BY LenProperties
<1>2. a \in Seq(T) /\ Len(a) = i - 1 /\ \A j \in 1 .. (i - 1) : a[j] = s[j]
  <2>1. 1 \in 1 .. (n + 1) /\ (i - 1) \in 0 .. n
    BY <1>1
  <2> QED BY <1>1, <2>1, SubSeqProperties, Z3
<1>3. b \in Seq(T) /\ Len(b) = n - i + 1
      /\ \A j \in 1 .. (n - i + 1) : b[j] = s[i - 1 + j]
  <2>1. i \in 1 .. (n + 1) /\ n \in 0 .. n
    BY <1>1
  <2> QED BY <1>1, <2>1, SubSeqProperties, Z3
<1>4. c \in Seq(T) /\ Len(c) = i /\ c[i] = t
      /\ \A j \in 1 .. (i - 1) : c[j] = s[j]
  <2>1. <<t>> \in Seq(T) /\ Len(<<t>>) = 1 /\ <<t>>[1] = t
    OBVIOUS
  <2> QED BY <1>1, <1>2, <2>1, ConcatProperties
<1>5. r = c \o b
  BY DEF InsertAt
<1> HIDE DEF n, a, b, c, r
<1>concat. \A j \in 1 .. Len(c) + Len(b) :
             r[j] = IF j <= Len(c) THEN c[j] ELSE b[j - Len(c)]
  BY <1>3, <1>4, <1>5, ConcatProperties, ZenonT(30)
<1>6. r \in Seq(T) /\ Len(r) = n + 1
      /\ \A j \in 1 .. (n + 1) :
            r[j] = IF j < i THEN s[j] ELSE IF j = i THEN t ELSE s[j - 1]
  <2>1. r \in Seq(T) /\ Len(r) = Len(c) + Len(b)
    BY <1>3, <1>4, <1>5, ConcatProperties
  <2>2. ASSUME NEW j \in 1 .. (n + 1), j <= i
        PROVE  r[j] = IF j < i THEN s[j] ELSE t
    BY <1>1, <1>3, <1>4, <1>concat, <2>2
  <2>3. ASSUME NEW j \in 1 .. (n + 1), ~(j <= i)
        PROVE  r[j] = s[j - 1]
    <3>1. r[j] = b[j - i]
      BY <1>1, <1>3, <1>4, <1>concat, <2>3
    <3>2. j - i \in 1 .. (n - i + 1) /\ i - 1 + (j - i) = j - 1
      BY <1>1, <2>3
    <3> QED BY <1>3, <3>1, <3>2
  <2> QED BY <1>1, <1>3, <1>4, <2>1, <2>2, <2>3
<1>7. DOMAIN r = 1 .. (n + 1)
  BY <1>6, LenProperties
<1> QED BY <1>6, <1>7 DEF r, n

\* Inserting a new element keeps a list free of duplicates.
LEMMA InsertAtProperties ==
  ASSUME NEW T, NEW s \in Seq(T), IsInjective(s),
         NEW i \in 1 .. (Len(s) + 1), NEW t \in T, t \notin ToSet(s)
  PROVE  /\ InsertAt(s, i, t) \in Seq(T)
         /\ IsInjective(InsertAt(s, i, t))
         /\ ToSet(InsertAt(s, i, t)) = ToSet(s) \cup {t}
<1> DEFINE n == Len(s)
           r == InsertAt(s, i, t)
<1>1. n \in Nat /\ DOMAIN s = 1 .. n /\ i \in 1 .. (n + 1)
  BY LenProperties
<1>6. /\ r \in Seq(T) /\ Len(r) = n + 1
      /\ DOMAIN r = 1 .. (n + 1)
      /\ \A j \in 1 .. (n + 1) :
            r[j] = IF j < i THEN s[j] ELSE IF j = i THEN t ELSE s[j - 1]
  BY <1>1, InsertAtElements
<1> HIDE DEF n, r
<1>7. DOMAIN r = 1 .. (n + 1)
  BY <1>6
<1>8. \A j \in 1 .. n : s[j] # t
  BY <1>1 DEF ToSet
<1>9. IsInjective(r)
  <2> SUFFICES ASSUME NEW x \in 1 .. (n + 1), NEW y \in 1 .. (n + 1),
                      r[x] = r[y]
               PROVE  x = y
    BY <1>7 DEF IsInjective
  <2>1. \A u, v \in 1 .. n : s[u] = s[v] => u = v
    BY <1>1 DEF IsInjective
  <2> QED BY <1>1, <1>6, <1>8, <2>1
<1>10. ASSUME NEW x \in ToSet(r)
       PROVE  x \in ToSet(s) \cup {t}
  <2>1. PICK j \in 1 .. (n + 1) : r[j] = x
    BY <1>7, <1>10 DEF ToSet
  <2>2. x = t \/ \E m \in 1 .. n : x = s[m]
    <3>1. CASE j < i
      BY <1>1, <1>6, <2>1, <3>1
    <3>2. CASE j = i
      BY <1>1, <1>6, <2>1, <3>2
    <3>3. CASE j > i
      <4>1. j - 1 \in 1 .. n /\ x = s[j - 1]
        BY <1>1, <1>6, <2>1, <3>3
      <4> QED BY <4>1
    <3> QED BY <1>1, <3>1, <3>2, <3>3
  <2> QED BY <1>1, <2>2 DEF ToSet
<1>11. ASSUME NEW x \in ToSet(s)
       PROVE  x \in ToSet(r)
  <2>1. PICK j \in 1 .. n : s[j] = x
    BY <1>1, <1>11 DEF ToSet
  <2>2. CASE j < i
    <3>1. j \in 1 .. (n + 1) /\ r[j] = x
      BY <1>1, <1>6, <2>1, <2>2
    <3> QED BY <1>7, <3>1 DEF ToSet
  <2>3. CASE ~(j < i)
    <3>1. j + 1 \in 1 .. (n + 1) /\ r[j + 1] = x
      BY <1>1, <1>6, <2>1, <2>3
    <3> QED BY <1>7, <3>1 DEF ToSet
  <2> QED BY <2>2, <2>3
<1>12. t \in ToSet(r)
  BY <1>1, <1>6, <1>7 DEF ToSet
<1> QED BY <1>6, <1>9, <1>10, <1>11, <1>12 DEF r

\* A list is empty iff it has no elements.
LEMMA EmptyList ==
  ASSUME NEW T, NEW s \in Seq(T)
  PROVE  s = << >> <=> ToSet(s) = {}
<1>1. CASE s = << >>
  BY <1>1 DEF ToSet
<1>2. CASE s # << >>
  <2>1. 1 \in DOMAIN s
    BY <1>2, LenProperties, EmptySeq
  <2> QED BY <1>2, <2>1 DEF ToSet
<1> QED BY <1>1, <1>2

\* The elements of a list of threads are threads.
LEMMA ListElements ==
  ASSUME NEW T, NEW s \in Seq(T)
  PROVE  ToSet(s) \subseteq T
<1>1. DOMAIN s = 1 .. Len(s) /\ \A i \in 1 .. Len(s) : s[i] \in T
  BY LenProperties, ElementOfSeq
<1> QED BY <1>1 DEF ToSet

\* The head of a list that is not empty is one of its elements.
LEMMA HeadInList ==
  ASSUME NEW T, NEW s \in Seq(T), ToSet(s) # {}
  PROVE  Head(s) \in ToSet(s) /\ Head(s) \in T
<1>1. s # << >>
  BY EmptyList
<1>2. 1 \in DOMAIN s /\ Head(s) = s[1]
  BY <1>1, LenProperties, EmptySeq
<1> QED BY <1>1, <1>2, HeadTailProperties DEF ToSet

\* Appending is inserting at the end.
LEMMA AppendDistinct ==
  ASSUME NEW T, NEW s \in Seq(T), IsInjective(s), NEW t \in T, t \notin ToSet(s)
  PROVE  /\ Append(s, t) \in Seq(T)
         /\ IsInjective(Append(s, t))
         /\ ToSet(Append(s, t)) = ToSet(s) \cup {t}
<1> DEFINE n == Len(s)
           r == Append(s, t)
<1>1. n \in Nat /\ DOMAIN s = 1 .. n
  BY LenProperties
<1>2. r \in Seq(T) /\ Len(r) = n + 1 /\ r[n + 1] = t
      /\ \A j \in 1 .. n : r[j] = s[j]
  BY AppendProperties
<1>3. DOMAIN r = 1 .. (n + 1)
  BY <1>2, LenProperties
<1> HIDE DEF n, r
<1>4. \A j \in 1 .. n : s[j] # t
  BY <1>1 DEF ToSet
<1>5. \A x, y \in 1 .. n : s[x] = s[y] => x = y
  BY <1>1 DEF IsInjective
<1>6. IsInjective(r)
  BY <1>1, <1>2, <1>3, <1>4, <1>5 DEF IsInjective
<1>7. ASSUME NEW x \in ToSet(r)
      PROVE  x \in ToSet(s) \cup {t}
  <2>1. PICK j \in 1 .. (n + 1) : r[j] = x
    BY <1>3, <1>7 DEF ToSet
  <2>2. CASE j = n + 1
    BY <1>2, <2>1, <2>2
  <2>3. CASE j \in 1 .. n
    BY <1>1, <1>2, <2>1, <2>3 DEF ToSet
  <2> QED BY <1>1, <2>2, <2>3
<1>8. ASSUME NEW x \in ToSet(s)
      PROVE  x \in ToSet(r)
  <2>1. PICK j \in 1 .. n : s[j] = x
    BY <1>1, <1>8 DEF ToSet
  <2>2. j \in 1 .. (n + 1) /\ r[j] = x
    BY <1>1, <1>2, <2>1
  <2> QED BY <1>3, <2>2 DEF ToSet
<1>9. t \in ToSet(r)
  <2>1. n + 1 \in 1 .. (n + 1)
    BY <1>1
  <2> QED BY <1>2, <1>3, <2>1 DEF ToSet
<1> QED BY <1>2, <1>6, <1>7, <1>8, <1>9 DEF r

\* Putting an element in front of a list makes it one longer and leaves the
\* other elements, once each.
LEMMA PrependDistinct ==
  ASSUME NEW T, NEW s \in Seq(T), IsInjective(s), NEW t \in T, t \notin ToSet(s)
  PROVE  /\ <<t>> \o s \in Seq(T)
         /\ Len(<<t>> \o s) = Len(s) + 1
         /\ IsInjective(<<t>> \o s)
         /\ ToSet(<<t>> \o s) = ToSet(s) \cup {t}
<1> DEFINE n == Len(s)
           r == <<t>> \o s
<1>1. n \in Nat /\ DOMAIN s = 1 .. n
  BY LenProperties
<1>2. <<t>> \in Seq(T) /\ Len(<<t>>) = 1 /\ <<t>>[1] = t
  OBVIOUS
<1>3. r \in Seq(T) /\ Len(r) = n + 1 /\ r[1] = t
      /\ \A j \in 2 .. (n + 1) : r[j] = s[j - 1]
  BY <1>1, <1>2, ConcatProperties
<1>4. DOMAIN r = 1 .. (n + 1)
  BY <1>3, LenProperties
<1> HIDE DEF n, r
<1>5. \A j \in 1 .. n : s[j] # t /\ r[j + 1] = s[j] /\ j + 1 \in 1 .. (n + 1)
  <2>1. \A j \in 1 .. n : s[j] # t
    BY <1>1 DEF ToSet
  <2>2. \A j \in 1 .. n : j + 1 \in 2 .. (n + 1) /\ (j + 1) - 1 = j
    BY <1>1
  <2> QED BY <1>1, <1>3, <2>1, <2>2
<1>6. \A x, y \in 1 .. n : s[x] = s[y] => x = y
  BY <1>1 DEF IsInjective
<1>7. IsInjective(r)
  <2> SUFFICES ASSUME NEW x \in 1 .. (n + 1), NEW y \in 1 .. (n + 1),
                      r[x] = r[y]
               PROVE  x = y
    BY <1>4 DEF IsInjective
  <2>1. \A z \in 1 .. (n + 1) : z = 1 \/ (z - 1 \in 1 .. n /\ (z - 1) + 1 = z)
    BY <1>1
  <2>2. CASE x = 1 \/ y = 1
    BY <1>3, <1>5, <2>1, <2>2
  <2>3. CASE x # 1 /\ y # 1
    <3>1. x - 1 \in 1 .. n /\ y - 1 \in 1 .. n
      BY <2>1, <2>3
    <3>2. s[x - 1] = s[y - 1]
      BY <1>3, <2>1, <2>3, <1>5
    <3>3. x - 1 = y - 1
      BY <1>6, <3>1, <3>2
    <3> QED BY <2>1, <2>3, <3>3
  <2> QED BY <2>2, <2>3
<1>8. ASSUME NEW x \in ToSet(r)
      PROVE  x \in ToSet(s) \cup {t}
  <2>1. PICK j \in 1 .. (n + 1) : r[j] = x
    BY <1>4, <1>8 DEF ToSet
  <2>2. CASE j = 1
    BY <1>3, <2>1, <2>2
  <2>3. CASE j # 1
    <3>1. j - 1 \in 1 .. n /\ r[j] = s[j - 1]
      BY <1>1, <1>3, <2>3
    <3> QED BY <1>1, <2>1, <3>1 DEF ToSet
  <2> QED BY <2>2, <2>3
<1>9. ASSUME NEW x \in ToSet(s)
      PROVE  x \in ToSet(r)
  <2>1. PICK j \in 1 .. n : s[j] = x
    BY <1>1, <1>9 DEF ToSet
  <2> QED BY <1>4, <1>5, <2>1 DEF ToSet
<1>10. t \in ToSet(r)
  <2>1. 1 \in 1 .. (n + 1)
    BY <1>1
  <2> QED BY <1>3, <1>4, <2>1 DEF ToSet
<1> QED BY <1>3, <1>7, <1>8, <1>9, <1>10 DEF r, n

\* Taking the head off a list that is not empty leaves the others, once each.
LEMMA TailDistinct ==
  ASSUME NEW T, NEW s \in Seq(T), IsInjective(s), s # << >>
  PROVE  /\ Tail(s) \in Seq(T)
         /\ Len(Tail(s)) = Len(s) - 1
         /\ IsInjective(Tail(s))
         /\ ToSet(Tail(s)) = ToSet(s) \ {Head(s)}
<1> DEFINE n == Len(s)
           r == Tail(s)
<1>1. n \in Nat /\ DOMAIN s = 1 .. n /\ n >= 1 /\ Head(s) = s[1]
  BY LenProperties, EmptySeq, HeadTailProperties
<1>2. r \in Seq(T) /\ Len(r) = n - 1 /\ \A j \in 1 .. (n - 1) : r[j] = s[j + 1]
  BY <1>1, HeadTailProperties
<1>3. DOMAIN r = 1 .. (n - 1)
  BY <1>2, LenProperties
<1> HIDE DEF n, r
<1>4. \A x, y \in 1 .. n : s[x] = s[y] => x = y
  BY <1>1 DEF IsInjective
<1>5. \A j \in 1 .. (n - 1) : j + 1 \in 1 .. n /\ j + 1 # 1
  BY <1>1
<1>6. IsInjective(r)
  <2> SUFFICES ASSUME NEW x \in 1 .. (n - 1), NEW y \in 1 .. (n - 1),
                      r[x] = r[y]
               PROVE  x = y
    BY <1>3 DEF IsInjective
  <2>1. x + 1 = y + 1
    BY <1>2, <1>4, <1>5
  <2> QED BY <1>1, <2>1
<1>7. ASSUME NEW x \in ToSet(r)
      PROVE  x \in ToSet(s) \ {Head(s)}
  <2>1. PICK j \in 1 .. (n - 1) : r[j] = x
    BY <1>3, <1>7 DEF ToSet
  <2>2. x = s[j + 1] /\ j + 1 \in 1 .. n /\ j + 1 # 1 /\ 1 \in 1 .. n
    BY <1>1, <1>2, <1>5, <2>1
  <2>3. x # s[1]
    BY <1>4, <2>2
  <2> QED BY <1>1, <2>2, <2>3 DEF ToSet
<1>8. ASSUME NEW x \in ToSet(s) \ {Head(s)}
      PROVE  x \in ToSet(r)
  <2>1. PICK j \in 1 .. n : s[j] = x
    BY <1>1, <1>8 DEF ToSet
  <2>2. j # 1
    BY <1>1, <1>8, <2>1
  <2>3. j - 1 \in 1 .. (n - 1) /\ (j - 1) + 1 = j
    BY <1>1, <2>2
  <2>4. r[j - 1] = x
    BY <1>2, <2>1, <2>3
  <2> QED BY <1>3, <2>3, <2>4 DEF ToSet
<1> QED BY <1>2, <1>6, <1>7, <1>8 DEF r, n

\* A list without duplicates is as long as the set of its elements is large.
LEMMA CardinalityOfList ==
  ASSUME NEW T, NEW s \in Seq(T), IsInjective(s)
  PROVE  IsFiniteSet(ToSet(s)) /\ Cardinality(ToSet(s)) = Len(s)
<1> DEFINE n == Len(s)
<1>1. n \in Nat /\ DOMAIN s = 1 .. n /\ s \in [1 .. n -> T]
  BY LenProperties
<1>2. s \in [1 .. n -> ToSet(s)]
  BY <1>1 DEF ToSet
<1>3. s \in Bijection(1 .. n, ToSet(s))
  BY <1>1, <1>2 DEF Bijection, Injection, Surjection, ToSet, IsInjective
<1>4. IsFiniteSet(1 .. n) /\ Cardinality(1 .. n) = n
  BY <1>1, FS_Interval
<1> HIDE DEF n
<1>5. ExistsBijection(1 .. n, ToSet(s))
  BY <1>3 DEF ExistsBijection
<1> QED BY <1>4, <1>5, FS_Bijection DEF n

\* SetToSeq lists the elements of a finite set, once each.
LEMMA SetToSeqProperties ==
  ASSUME NEW S, IsFiniteSet(S)
  PROVE  /\ SetToSeq(S) \in Seq(S)
         /\ IsInjective(SetToSeq(S))
         /\ ToSet(SetToSeq(S)) = S
         /\ Len(SetToSeq(S)) = Cardinality(S)
<1> DEFINE n == Cardinality(S)
           s == SetToSeq(S)
<1>1. n \in Nat /\ ExistsBijection(1 .. n, S)
  BY FS_CardinalityType
<1>2. \E f \in [1 .. n -> S] : IsInjective(f)
  BY <1>1 DEF ExistsBijection, Bijection, Injection, IsInjective
<1>3. s \in [1 .. n -> S] /\ IsInjective(s)
  BY <1>2 DEF SetToSeq
<1> HIDE DEF n, s
<1>4. s \in Seq(S) /\ Len(s) = n
  BY <1>1, <1>3
<1>5. IsFiniteSet(ToSet(s)) /\ Cardinality(ToSet(s)) = n
  BY <1>3, <1>4, CardinalityOfList
<1>6. ToSet(s) \subseteq S
  BY <1>4, ListElements
<1>7. ToSet(s) = S
  BY <1>5, <1>6, FS_Subset DEF n
<1> QED BY <1>3, <1>4, <1>7 DEF n, s

\* Unlinking an element shortens the list by one.
LEMMA UnlinkLength ==
  ASSUME NEW T, NEW s \in Seq(T), NEW t
  PROVE  Len(Unlink(s, t)) = IF t \in ToSet(s) THEN Len(s) - 1 ELSE Len(s)
<1>1. CASE t \in ToSet(s)
  <2> DEFINE i == CHOOSE j \in DOMAIN s : s[j] = t
  <2>1. i \in DOMAIN s /\ DOMAIN s = 1 .. Len(s)
    BY <1>1, LenProperties DEF ToSet
  <2>2. Unlink(s, t) = RemoveAt(s, i)
    BY <1>1 DEF Unlink
  <2> HIDE DEF i
  <2>3. Len(RemoveAt(s, i)) = Len(s) - 1
    BY <2>1, RemoveAtElements
  <2> QED BY <1>1, <2>2, <2>3
<1>2. CASE t \notin ToSet(s)
  BY <1>2 DEF Unlink
<1> QED BY <1>1, <1>2

\* How often x is in the list s.
Occurrences(s, x) == Cardinality({i \in DOMAIN s : s[i] = x})

\* The positions of x are finitely many.
LEMMA OccurrencesNat ==
  ASSUME NEW T, NEW s \in Seq(T), NEW x
  PROVE  /\ IsFiniteSet({i \in DOMAIN s : s[i] = x})
         /\ Occurrences(s, x) \in Nat
         /\ Occurrences(s, x) <= Len(s)
         /\ Occurrences(s, x) = 0 <=> x \notin ToSet(s)
<1> DEFINE P == {i \in DOMAIN s : s[i] = x}
<1>1. Len(s) \in Nat /\ DOMAIN s = 1 .. Len(s)
  BY LenProperties
<1>2. IsFiniteSet(1 .. Len(s)) /\ Cardinality(1 .. Len(s)) = Len(s)
  BY <1>1, FS_Interval
<1>3. P \subseteq 1 .. Len(s)
  BY <1>1
<1>4. x \notin ToSet(s) <=> P = {}
  BY DEF ToSet
<1> HIDE DEF P
<1>5. IsFiniteSet(P) /\ Cardinality(P) <= Len(s)
  BY <1>2, <1>3, FS_Subset
<1>6. Cardinality(P) \in Nat /\ (Cardinality(P) = 0 <=> P = {})
  BY <1>5, FS_CardinalityType, FS_EmptySet
<1> QED BY <1>4, <1>5, <1>6 DEF Occurrences, P

\* Appending adds one occurrence of what is appended.
LEMMA OccurrencesAppend ==
  ASSUME NEW T, NEW s \in Seq(T), NEW e \in T, NEW x
  PROVE  Occurrences(Append(s, e), x)
           = Occurrences(s, x) + IF x = e THEN 1 ELSE 0
<1> DEFINE P == {i \in DOMAIN s : s[i] = x}
           r == Append(s, e)
           Q == {i \in DOMAIN r : r[i] = x}
<1>1. Len(s) \in Nat /\ DOMAIN s = 1 .. Len(s)
  BY LenProperties
<1>2. r \in Seq(T) /\ Len(r) = Len(s) + 1 /\ r[Len(s) + 1] = e
      /\ \A i \in 1 .. Len(s) : r[i] = s[i]
  BY AppendProperties
<1>3. DOMAIN r = 1 .. (Len(s) + 1)
  BY <1>2, LenProperties
<1> HIDE DEF r
<1>4. IsFiniteSet(P) /\ Occurrences(s, x) \in Nat
  BY OccurrencesNat
<1>5. Len(s) + 1 \notin P
  BY <1>1
<1>6. CASE x = e
  <2>1. Q = P \cup {Len(s) + 1}
    BY <1>1, <1>2, <1>3, <1>6
  <2> HIDE DEF P, Q
  <2>2. Cardinality(Q) = Cardinality(P) + 1
    BY <1>4, <1>5, <2>1, FS_AddElement
  <2> QED BY <1>6, <2>2 DEF Occurrences, P, Q, r
<1>7. CASE x # e
  <2>1. Q = P
    BY <1>1, <1>2, <1>3, <1>7
  <2>2. Occurrences(r, x) = Occurrences(s, x)
    BY <2>1 DEF Occurrences
  <2> QED BY <1>4, <1>7, <2>2 DEF r
<1> QED BY <1>6, <1>7

\* Taking the element at position i out removes one occurrence of it.
LEMMA OccurrencesRemove ==
  ASSUME NEW T, NEW s \in Seq(T), NEW i \in 1 .. Len(s), NEW x
  PROVE  Occurrences(RemoveAt(s, i), x)
           = Occurrences(s, x) - IF x = s[i] THEN 1 ELSE 0
<1> DEFINE P == {j \in DOMAIN s : s[j] = x}
           r == RemoveAt(s, i)
           Q == {j \in DOMAIN r : r[j] = x}
           R == P \ {i}
           f == [j \in Q |-> IF j < i THEN j ELSE j + 1]
<1>1. Len(s) \in Nat /\ DOMAIN s = 1 .. Len(s)
  BY LenProperties
<1>2. /\ r \in Seq(T) /\ DOMAIN r = 1 .. (Len(s) - 1)
      /\ \A j \in 1 .. (Len(s) - 1) : r[j] = IF j < i THEN s[j] ELSE s[j + 1]
  BY RemoveAtElements
<1> HIDE DEF r
<1>3. IsFiniteSet(P) /\ IsFiniteSet(Q) /\ Occurrences(s, x) \in Nat
  BY <1>2, OccurrencesNat
<1>q. \A j : j \in Q <=> /\ j \in 1 .. (Len(s) - 1)
                         /\ IF j < i THEN s[j] = x ELSE s[j + 1] = x
  BY <1>1, <1>2
<1>r. \A j : j \in R <=> j \in 1 .. Len(s) /\ s[j] = x /\ j # i
  BY <1>1
<1>4. f \in [Q -> R]
  <2> HIDE DEF Q, R
  <2> SUFFICES ASSUME NEW j \in Q
               PROVE  (IF j < i THEN j ELSE j + 1) \in R
    OBVIOUS
  <2>1. j \in 1 .. (Len(s) - 1) /\ IF j < i THEN s[j] = x ELSE s[j + 1] = x
    BY <1>q
  <2>2. CASE j < i
    <3>1. j \in 1 .. Len(s) /\ s[j] = x /\ j # i
      BY <1>1, <2>1, <2>2
    <3> QED BY <1>r, <2>2, <3>1
  <2>3. CASE ~(j < i)
    <3>1. j + 1 \in 1 .. Len(s) /\ s[j + 1] = x /\ j + 1 # i
      BY <1>1, <2>1, <2>3
    <3> QED BY <1>r, <2>3, <3>1
  <2> QED BY <2>2, <2>3
<1>5. \A a, b \in Q : f[a] = f[b] => a = b
  <2>1. \A a \in Q : a \in Int /\ f[a] = IF a < i THEN a ELSE a + 1
    BY <1>q
  <2> HIDE DEF Q, f
  <2> QED BY <2>1
<1>6. \A b \in R : \E a \in Q : f[a] = b
  <2> SUFFICES ASSUME NEW b \in R
               PROVE  \E a \in Q : f[a] = b
    OBVIOUS
  <2>1. b \in 1 .. Len(s) /\ s[b] = x /\ b # i
    BY <1>r
  <2>f. \A a \in Q : f[a] = IF a < i THEN a ELSE a + 1
    OBVIOUS
  <2> HIDE DEF Q, R, f
  <2>2. CASE b < i
    <3>1. b \in Q
      BY <1>1, <1>q, <2>1, <2>2
    <3> QED BY <2>2, <2>f, <3>1
  <2>3. CASE b > i
    <3>1. b - 1 \in Q /\ ~(b - 1 < i) /\ (b - 1) + 1 = b
      <4>1. b - 1 \in 1 .. (Len(s) - 1) /\ ~(b - 1 < i) /\ (b - 1) + 1 = b
        BY <1>1, <2>1, <2>3
      <4> QED BY <1>q, <2>1, <4>1
    <3> QED BY <2>f, <3>1
  <2> QED BY <1>1, <2>1, <2>2, <2>3
<1> HIDE DEF P, Q, R, f
<1>7. ExistsBijection(Q, R)
  <2>1. f \in Bijection(Q, R)
    BY <1>4, <1>5, <1>6, Fun_IsBij
  <2> QED BY <2>1 DEF ExistsBijection
<1>8. Cardinality(R) = Cardinality(Q)
  BY <1>3, <1>7, FS_Bijection
<1>9. Cardinality(R) = IF i \in P THEN Cardinality(P) - 1 ELSE Cardinality(P)
  BY <1>3, FS_RemoveElement DEF R
<1>10. i \in P <=> x = s[i]
  BY <1>1 DEF P
<1> QED BY <1>3, <1>8, <1>9, <1>10 DEF Occurrences, P, Q, r

-----------------------------------------------------------------------------
(* Lists in the order of a rank, as the wait lists of RT_IPC_FLAG_PRIO are. *)

Ordered(f, s) == \A i, j \in DOMAIN s : i < j => f[s[i]] <= f[s[j]]

\* Unlinking keeps the order.
LEMMA OrderedUnlink ==
  ASSUME NEW T, NEW s \in Seq(T), NEW f, Ordered(f, s), NEW t
  PROVE  Ordered(f, Unlink(s, t))
<1>1. CASE t \in ToSet(s)
  <2> DEFINE i == CHOOSE j \in DOMAIN s : s[j] = t
             r == RemoveAt(s, i)
  <2>1. Len(s) \in Nat /\ DOMAIN s = 1 .. Len(s)
    BY LenProperties
  <2>2. i \in 1 .. Len(s)
    BY <1>1, <2>1 DEF ToSet
  <2>3. Unlink(s, t) = r
    BY <1>1 DEF Unlink
  <2> HIDE DEF i
  <2>4. /\ DOMAIN r = 1 .. (Len(s) - 1)
        /\ \A j \in 1 .. (Len(s) - 1) : r[j] = IF j < i THEN s[j] ELSE s[j + 1]
    BY <2>2, RemoveAtElements
  <2> HIDE DEF r
  <2> SUFFICES ASSUME NEW x \in 1 .. (Len(s) - 1), NEW y \in 1 .. (Len(s) - 1),
                      x < y
               PROVE  f[r[x]] <= f[r[y]]
    BY <2>3, <2>4 DEF Ordered
  <2> DEFINE up(j) == IF j < i THEN j ELSE j + 1
  <2>5. up(x) \in 1 .. Len(s) /\ up(y) \in 1 .. Len(s) /\ up(x) < up(y)
    BY <2>1, <2>2
  <2>6. r[x] = s[up(x)] /\ r[y] = s[up(y)]
    BY <2>4
  <2> HIDE DEF up
  <2> QED BY <2>1, <2>5, <2>6 DEF Ordered
<1>2. CASE t \notin ToSet(s)
  BY <1>2 DEF Unlink
<1> QED BY <1>1, <1>2

\* The head of an ordered list has the lowest rank.
LEMMA OrderedHead ==
  ASSUME NEW T, NEW s \in Seq(T), NEW f \in [T -> Nat], Ordered(f, s),
         NEW x \in ToSet(s)
  PROVE  f[Head(s)] <= f[x]
<1>1. Len(s) \in Nat /\ DOMAIN s = 1 .. Len(s)
  BY LenProperties
<1>2. PICK i \in 1 .. Len(s) : s[i] = x
  BY <1>1 DEF ToSet
<1>3. s # << >> /\ 1 \in 1 .. Len(s)
  BY <1>1, <1>2
<1>4. Head(s) = s[1] /\ s[1] \in T /\ f[s[1]] \in Nat
  BY <1>3, ElementOfSeq
<1>5. CASE i = 1
  BY <1>2, <1>4, <1>5
<1>6. CASE 1 < i
  BY <1>1, <1>2, <1>3, <1>4, <1>6 DEF Ordered
<1> QED BY <1>2, <1>5, <1>6

-----------------------------------------------------------------------------
(* The primitives of the scheduler, on states in which the thread concerned *)
(* may be anywhere.  Each lemma says what the result r has to do with k.    *)

\* r is k with t unlinked; the bitmap may differ.
Unlinked(k, t, r) ==
  /\ r \in KernelState
  /\ NoDuplicates(r)
  /\ \A p \in Prio  : ToSet(r.ready[p]) = ToSet(k.ready[p]) \ {t}
  /\ \A q \in Queue : ToSet(r.wait[q]) = ToSet(k.wait[q]) \ {t}
  /\ \A q \in Queue : t \notin ToSet(k.wait[q]) => r.wait[q] = k.wait[q]
  /\ r.stat = k.stat /\ r.prio = k.prio /\ r.err = k.err
  /\ r.timer = k.timer /\ r.cur = k.cur /\ r.nest = k.nest

\* r is k with t ready and, unless it runs, linked at its priority.
Inserted(k, t, r) ==
  /\ r \in KernelState
  /\ NoDuplicates(r)
  /\ \A p \in Prio : ToSet(r.ready[p]) =
        IF t # k.cur /\ p = k.prio[t] THEN ToSet(k.ready[p]) \cup {t}
                                      ELSE ToSet(k.ready[p])
  /\ r.stat = [k.stat EXCEPT ![t] = "ready"]
  /\ r.group = IF t # k.cur THEN k.group \cup {k.prio[t]} ELSE k.group
  /\ r.wait = k.wait /\ r.prio = k.prio /\ r.err = k.err
  /\ r.timer = k.timer /\ r.cur = k.cur /\ r.nest = k.nest

\* The bitmap of r is that of k, less the priority of t if its list in r is
\* empty.
BitCleared(k, t, r) ==
  r.group = IF ToSet(k.ready[k.prio[t]]) \ {t} = {}
            THEN k.group \ {k.prio[t]} ELSE k.group

\* rt_list_remove takes the thread out of every list and does nothing else.
LEMMA ListRemove ==
  ASSUME NEW k \in KernelState, NoDuplicates(k), NEW t \in Thread
  PROVE  /\ Unlinked(k, t, rt_list_remove(k, t))
         /\ rt_list_remove(k, t).group = k.group
<1> DEFINE r == rt_list_remove(k, t)
<1>1. r = [k EXCEPT !.ready = [p \in Prio  |-> Unlink(k.ready[p], t)],
                    !.wait  = [q \in Queue |-> Unlink(k.wait[q], t)]]
  BY DEF rt_list_remove
<1> HIDE DEF r
<1>2. /\ r.ready = [p \in Prio |-> Unlink(k.ready[p], t)]
      /\ r.wait = [q \in Queue |-> Unlink(k.wait[q], t)]
      /\ r.stat = k.stat /\ r.prio = k.prio /\ r.err = k.err
      /\ r.group = k.group /\ r.timer = k.timer
      /\ r.cur = k.cur /\ r.nest = k.nest
  BY <1>1 DEF KernelState
<1>3. \A p \in Prio : /\ k.ready[p] \in Seq(Thread)
                      /\ Unlink(k.ready[p], t) \in Seq(Thread)
                      /\ IsInjective(Unlink(k.ready[p], t))
                      /\ ToSet(Unlink(k.ready[p], t)) = ToSet(k.ready[p]) \ {t}
  BY UnlinkProperties DEF KernelState, NoDuplicates
<1>4. \A q \in Queue : /\ k.wait[q] \in Seq(Thread)
                       /\ Unlink(k.wait[q], t) \in Seq(Thread)
                       /\ IsInjective(Unlink(k.wait[q], t))
                       /\ ToSet(Unlink(k.wait[q], t)) = ToSet(k.wait[q]) \ {t}
  BY UnlinkProperties DEF KernelState, NoDuplicates
<1>5. r \in KernelState
  <2>1. [p \in Prio |-> Unlink(k.ready[p], t)] \in [Prio -> Seq(Thread)]
    BY <1>3
  <2>2. [q \in Queue |-> Unlink(k.wait[q], t)] \in [Queue -> Seq(Thread)]
    BY <1>4
  <2> QED BY <1>1, <2>1, <2>2 DEF KernelState
<1>6. NoDuplicates(r)
  BY <1>2, <1>3, <1>4 DEF NoDuplicates
<1>7. \A q \in Queue : t \notin ToSet(k.wait[q]) => r.wait[q] = k.wait[q]
  BY <1>2 DEF Unlink
<1>8. /\ \A p \in Prio  : ToSet(r.ready[p]) = ToSet(k.ready[p]) \ {t}
      /\ \A q \in Queue : ToSet(r.wait[q]) = ToSet(k.wait[q]) \ {t}
  BY <1>2, <1>3, <1>4
<1> QED BY <1>2, <1>5, <1>6, <1>7, <1>8 DEF Unlinked, r

\* rt_schedule_insert_thread links a thread that no ready list holds.
LEMMA InsertThread ==
  ASSUME NEW k \in KernelState, NoDuplicates(k), NEW t \in Thread,
         \A p \in Prio : t \notin ToSet(k.ready[p])
  PROVE  Inserted(k, t, rt_schedule_insert_thread(k, t))
<1> DEFINE r == rt_schedule_insert_thread(k, t)
           a == Append(k.ready[k.prio[t]], t)
<1>0. k.prio[t] \in Prio /\ \A p \in Prio : k.ready[p] \in Seq(Thread)
  BY DEF KernelState
<1>1. a \in Seq(Thread) /\ IsInjective(a)
      /\ ToSet(a) = ToSet(k.ready[k.prio[t]]) \cup {t}
  BY <1>0, AppendDistinct DEF NoDuplicates
<1>2. CASE t = k.cur
  <2>1. r = [k EXCEPT !.stat[t] = "ready"]
    BY <1>2 DEF rt_schedule_insert_thread
  <2> HIDE DEF r
  <2>2. /\ r \in KernelState
        /\ r.stat = [k.stat EXCEPT ![t] = "ready"]
        /\ r.ready = k.ready /\ r.group = k.group
        /\ r.wait = k.wait /\ r.prio = k.prio /\ r.err = k.err
        /\ r.timer = k.timer /\ r.cur = k.cur /\ r.nest = k.nest
    BY <2>1 DEF KernelState, Stat
  <2>3. NoDuplicates(r)
    BY <2>2 DEF NoDuplicates
  <2> QED BY <1>2, <2>2, <2>3 DEF r, Inserted
<1>3. CASE t # k.cur
  <2>1. r = [k EXCEPT !.stat = [k.stat EXCEPT ![t] = "ready"],
                      !.ready = [k.ready EXCEPT ![k.prio[t]] = a],
                      !.group = k.group \cup {k.prio[t]}]
    BY <1>3 DEF rt_schedule_insert_thread, KernelState
  <2> HIDE DEF a, r
  <2>2. /\ r.ready = [k.ready EXCEPT ![k.prio[t]] = a]
        /\ r.stat = [k.stat EXCEPT ![t] = "ready"]
        /\ r.group = k.group \cup {k.prio[t]}
        /\ r.wait = k.wait /\ r.prio = k.prio /\ r.err = k.err
        /\ r.timer = k.timer /\ r.cur = k.cur /\ r.nest = k.nest
    BY <2>1 DEF KernelState
  <2>3. r \in KernelState
    BY <1>0, <1>1, <2>1 DEF KernelState, Stat
  <2>4. \A p \in Prio : r.ready[p] = IF p = k.prio[t] THEN a ELSE k.ready[p]
    BY <2>2 DEF KernelState
  <2>5. NoDuplicates(r)
    BY <1>1, <2>2, <2>4 DEF NoDuplicates
  <2> QED BY <1>1, <1>3, <2>2, <2>3, <2>4, <2>5 DEF r, Inserted
<1> QED BY <1>2, <1>3

\* rt_schedule_remove_thread unlinks and clears the bit of an emptied list.
LEMMA RemoveThread ==
  ASSUME NEW k \in KernelState, NoDuplicates(k), NEW t \in Thread
  PROVE  /\ Unlinked(k, t, rt_schedule_remove_thread(k, t))
         /\ BitCleared(k, t, rt_schedule_remove_thread(k, t))
<1> DEFINE k1 == rt_list_remove(k, t)
           r  == rt_schedule_remove_thread(k, t)
<1>1. Unlinked(k, t, k1) /\ k1.group = k.group
  BY ListRemove
<1>2. r = IF k1.ready[k.prio[t]] = << >>
          THEN [k1 EXCEPT !.group = @ \ {k.prio[t]}] ELSE k1
  BY DEF rt_schedule_remove_thread
<1> HIDE DEF k1, r
<1>3. k.prio[t] \in Prio /\ k1.ready[k.prio[t]] \in Seq(Thread)
  BY <1>1 DEF KernelState, Unlinked
<1>4. k1.ready[k.prio[t]] = << >> <=> ToSet(k.ready[k.prio[t]]) \ {t} = {}
  BY <1>1, <1>3, EmptyList DEF Unlinked
<1>5. /\ r \in KernelState
      /\ r.ready = k1.ready /\ r.wait = k1.wait
      /\ r.group = IF k1.ready[k.prio[t]] = << >>
                   THEN k1.group \ {k.prio[t]} ELSE k1.group
      /\ r.stat = k1.stat /\ r.prio = k1.prio /\ r.err = k1.err
      /\ r.timer = k1.timer /\ r.cur = k1.cur /\ r.nest = k1.nest
  BY <1>1, <1>2 DEF KernelState, Unlinked
<1>6. NoDuplicates(r)
  BY <1>1, <1>5 DEF NoDuplicates, Unlinked
<1>7. BitCleared(k, t, r)
  BY <1>1, <1>4, <1>5 DEF BitCleared
<1>8. Unlinked(k, t, r)
  BY <1>1, <1>5, <1>6 DEF Unlinked
<1> QED BY <1>7, <1>8 DEF r

\* Priorities are natural numbers.
LEMMA PrioNat == \A p \in Prio : p \in Nat
  BY KernelAssumption DEF Prio

\* A set of natural numbers that is not empty has a least element.
LEMMA LeastNat ==
  ASSUME NEW S, \A x \in S : x \in Nat, S # {}
  PROVE  \E x \in S : \A y \in S : x <= y
<1> DEFINE R == OpToRel(<, Nat)
<1>1. IsWellFoundedOn(R, Nat)
  BY NatLessThanWellFounded
<1>2. \A x, y \in Nat : x < y => <<x, y>> \in R
  BY DEF OpToRel
<1> HIDE DEF R
<1>3. PICK x \in S : \A y \in S : ~(<<y, x>> \in R)
  BY <1>1, WFMin
<1>4. \A y \in S : ~(y < x)
  BY <1>2, <1>3
<1> QED BY <1>4

-----------------------------------------------------------------------------
(* Counting.                                                               *)

\* A set that gains or loses at most the element t.
LEMMA OneElement ==
  ASSUME NEW S, NEW R, NEW t, IsFiniteSet(S), R \ {t} = S \ {t}
  PROVE  /\ IsFiniteSet(R)
         /\ Cardinality(S) \in Nat /\ Cardinality(R) \in Nat
         /\ Cardinality(R) + 1 >= Cardinality(S)
         /\ (t \in S => t \in R) => Cardinality(R) >= Cardinality(S)
         /\ t \notin S /\ t \in R => Cardinality(R) = Cardinality(S) + 1
<1> DEFINE C == S \ {t}
<1>1. Cardinality(S) \in Nat
  BY FS_CardinalityType
<1>2. IsFiniteSet(C)
      /\ Cardinality(C) = IF t \in S THEN Cardinality(S) - 1 ELSE Cardinality(S)
  BY FS_RemoveElement
<1>3. CASE t \in R
  <2>1. R = C \cup {t} /\ t \notin C
    BY <1>3
  <2> HIDE DEF C
  <2>2. IsFiniteSet(R) /\ Cardinality(R) = Cardinality(C) + 1
    BY <1>2, <2>1, FS_AddElement
  <2> QED BY <1>1, <1>2, <1>3, <2>2
<1>4. CASE t \notin R
  <2>1. R = C
    BY <1>4
  <2> HIDE DEF C
  <2>2. Cardinality(C) \in Nat
    BY <1>2, FS_CardinalityType
  <2> QED BY <1>1, <1>2, <1>4, <2>1, <2>2
<1> QED BY <1>3, <1>4

\* The bookkeeping of wake-ups: a things are there for the threads of S, that
\* are on their way to take one each, and a step changes a to b and S to R, at
\* most at the thread t.
LEMMA CountKept ==
  ASSUME NEW S, NEW R, NEW t, IsFiniteSet(S), R \ {t} = S \ {t},
         NEW a \in Nat, NEW b \in Nat, a <= Cardinality(S),
         \/ b = a - 1
         \/ b = a /\ (t \in S => t \in R)
         \/ b = a + 1 /\ t \notin S /\ t \in R
  PROVE  b <= Cardinality(R)
<1>1. /\ Cardinality(S) \in Nat /\ Cardinality(R) \in Nat
      /\ Cardinality(R) + 1 >= Cardinality(S)
      /\ (t \in S => t \in R) => Cardinality(R) >= Cardinality(S)
      /\ t \notin S /\ t \in R => Cardinality(R) = Cardinality(S) + 1
  BY OneElement
<1> QED BY <1>1

-----------------------------------------------------------------------------
(* Folds.                                                                  *)

\* The function a fold over the finite set S computes: it takes the element
\* c[s] out of s and combines it with the result for the others.
FoldOf(h, S, base, c, g) ==
  \A s \in SUBSET S :
     h[s] = IF s = {} THEN base ELSE g[<<c[s], h[s \ {c[s]}]>>]

\* There is such a function.
LEMMA FoldExists ==
  ASSUME NEW S, IsFiniteSet(S), NEW V, NEW base \in V,
         NEW c, \A s \in SUBSET S : s # {} => c[s] \in s,
         NEW g \in [S \X V -> V]
  PROVE  \E h \in [SUBSET S -> V] : FoldOf(h, S, base, c, g)
<1> DEFINE Eq(h, s) == h[s] = IF s = {} THEN base ELSE g[<<c[s], h[s \ {c[s]}]>>]
           Bad == {n \in Nat : ~ \E h \in [SUBSET S -> V] :
                      \A s \in SUBSET S : Cardinality(s) <= n => Eq(h, s)}
<1>1. \A s \in SUBSET S : IsFiniteSet(s) /\ Cardinality(s) \in Nat
                          /\ Cardinality(s) <= Cardinality(S)
  BY FS_Subset, FS_CardinalityType
<1>2. Bad = {}
  <2> SUFFICES ASSUME Bad # {} PROVE FALSE
    OBVIOUS
  <2>1. \A n \in Bad : n \in Nat
    OBVIOUS
  <2> HIDE DEF Bad
  <2>2. PICK n \in Bad : \A m \in Bad : n <= m
    BY <2>1, LeastNat
  <2>3. CASE n = 0
    <3> DEFINE h == [s \in SUBSET S |-> base]
    <3>1. h \in [SUBSET S -> V]
      OBVIOUS
    <3>2. \A s \in SUBSET S : Cardinality(s) <= 0 => s = {}
      BY <1>1, FS_EmptySet
    <3>3. \A s \in SUBSET S : Cardinality(s) <= 0 => Eq(h, s)
      BY <3>2
    <3> QED BY <2>2, <2>3, <3>1, <3>3 DEF Bad
  <2>4. CASE n # 0
    <3>1. n - 1 \in Nat /\ n \in Nat /\ n - 1 \notin Bad
      BY <2>1, <2>2, <2>4
    <3>2. PICK f \in [SUBSET S -> V] :
            \A s \in SUBSET S : Cardinality(s) <= n - 1 => Eq(f, s)
      BY <3>1 DEF Bad
    <3> DEFINE h == [s \in SUBSET S |->
                       IF Cardinality(s) <= n - 1 THEN f[s]
                       ELSE g[<<c[s], f[s \ {c[s]}]>>]]
    <3>3. ASSUME NEW s \in SUBSET S, s # {}
          PROVE  /\ c[s] \in S /\ s \ {c[s]} \in SUBSET S
                 /\ Cardinality(s \ {c[s]}) = Cardinality(s) - 1
                 /\ f[s \ {c[s]}] \in V
                 /\ g[<<c[s], f[s \ {c[s]}]>>] \in V
      <4>1. c[s] \in s
        BY <3>3
      <4>2. c[s] \in S /\ s \ {c[s]} \in SUBSET S
        BY <4>1
      <4>3. Cardinality(s \ {c[s]}) = Cardinality(s) - 1
        BY <1>1, <4>1, FS_RemoveElement
      <4>4. f[s \ {c[s]}] \in V
        BY <3>2, <4>2
      <4>5. <<c[s], f[s \ {c[s]}]>> \in S \X V
        BY <4>2, <4>4
      <4> QED BY <4>2, <4>3, <4>4, <4>5
    <3>4. \A s \in SUBSET S : ~(Cardinality(s) <= n - 1) => s # {}
      <4>1. Cardinality({}) <= n - 1
        <5>1. Cardinality({}) = 0
          BY FS_EmptySet
        <5>2. n # 0 /\ n \in Nat
          BY <2>4, <3>1
        <5> QED BY ONLY <5>1, <5>2
      <4> QED BY <4>1
    <3>5. h \in [SUBSET S -> V]
      BY <3>2, <3>3, <3>4
    <3>6. ASSUME NEW s \in SUBSET S, Cardinality(s) <= n
          PROVE  Eq(h, s)
      <4>1. CASE s = {}
        <5>1. Cardinality(s) <= n - 1
          BY <3>1, <4>1, FS_EmptySet
        <5> QED BY <3>2, <4>1, <5>1
      <4>2. CASE s # {}
        <5>1. Cardinality(s \ {c[s]}) <= n - 1 /\ s \ {c[s]} \in SUBSET S
          <6>1. /\ s \ {c[s]} \in SUBSET S
                /\ Cardinality(s \ {c[s]}) = Cardinality(s) - 1
            BY <3>3, <4>2
          <6>2. Cardinality(s) \in Nat /\ n \in Nat
            BY <1>1, <3>1
          <6> QED BY ONLY <6>1, <6>2, <3>6
        <5>2. h[s \ {c[s]}] = f[s \ {c[s]}]
          BY <5>1
        <5>3. CASE Cardinality(s) <= n - 1
          BY <3>2, <4>2, <5>2, <5>3
        <5>4. CASE ~(Cardinality(s) <= n - 1)
          BY <4>2, <5>2, <5>4
        <5> QED BY <5>3, <5>4
      <4> QED BY <4>1, <4>2
    <3> QED BY <2>2, <3>5, <3>6 DEF Bad
  <2> QED BY <2>3, <2>4
<1>3. Cardinality(S) \in Nat /\ Cardinality(S) \notin Bad
  BY <1>2, FS_CardinalityType
<1>4. PICK h \in [SUBSET S -> V] :
        \A s \in SUBSET S : Cardinality(s) <= Cardinality(S) => Eq(h, s)
  BY <1>3
<1>5. FoldOf(h, S, base, c, g)
  BY <1>1, <1>4 DEF FoldOf
<1> QED BY <1>4, <1>5

\* A subset of a finite set is smaller once an element is taken out, so an
\* argument over all subsets can go by their size: a property of the subsets of
\* S that has a counterexample has a smallest one.
LEMMA SmallestSubset ==
  ASSUME NEW S, IsFiniteSet(S), NEW B \in SUBSET (SUBSET S), B # {}
  PROVE  \E s \in B : \A x \in s : s \ {x} \notin B
<1> DEFINE Sizes == {Cardinality(s) : s \in B}
<1>1. \A s \in SUBSET S : IsFiniteSet(s) /\ Cardinality(s) \in Nat
  BY FS_Subset, FS_CardinalityType
<1>2. \A n \in Sizes : n \in Nat
  BY <1>1
<1>3. Sizes # {}
  OBVIOUS
<1>4. \A s \in B : Cardinality(s) \in Sizes
  OBVIOUS
<1>5. \A n \in Sizes : \E s \in B : n = Cardinality(s)
  OBVIOUS
<1> HIDE DEF Sizes
<1>6. PICK n \in Sizes : \A m \in Sizes : n <= m
  BY <1>2, <1>3, LeastNat
<1>7. PICK s \in B : n = Cardinality(s)
  BY <1>5
<1>8. ASSUME NEW x \in s, s \ {x} \in B
      PROVE  FALSE
  <2>1. Cardinality(s \ {x}) = n - 1
    BY <1>1, <1>7, FS_RemoveElement
  <2>2. n <= n - 1 /\ n \in Nat
    BY <1>2, <1>4, <1>6, <1>8, <2>1
  <2> QED BY ONLY <2>2
<1> QED BY <1>8

-----------------------------------------------------------------------------
(* Sums over a finite set.                                                 *)

Total(f, S) == MapThenSumSet(LAMBDA t : f[t], S)

\* h[s] is the sum of f over the subset s of S.
SumTable(h, f, S) ==
  /\ h \in [SUBSET S -> Nat]
  /\ \A s \in SUBSET S :
       h[s] = IF s = {} THEN 0
              ELSE f[CHOOSE y \in s : TRUE] + h[s \ {CHOOSE y \in s : TRUE}]

LEMMA TotalTable ==
  ASSUME NEW S, IsFiniteSet(S), NEW f, \A x \in S : f[x] \in Nat
  PROVE  \E h : SumTable(h, f, S) /\ h[S] = Total(f, S)
<1> DEFINE c == [s \in SUBSET S |-> CHOOSE y \in s : TRUE]
           g == [p \in S \X Nat |-> f[p[1]] + p[2]]
           Iter(h) == [s \in SUBSET S |->
                         IF s = {} THEN 0
                         ELSE f[CHOOSE y \in s : TRUE]
                              + h[s \ {CHOOSE y \in s : TRUE}]]
<1>1. \A s \in SUBSET S : s # {} => c[s] \in s
  OBVIOUS
<1>2. g \in [S \X Nat -> Nat]
  OBVIOUS
<1>3. PICK h \in [SUBSET S -> Nat] : FoldOf(h, S, 0, c, g)
  <2> HIDE DEF c, g
  <2> QED BY <1>1, <1>2, FoldExists
<1>4. ASSUME NEW s \in SUBSET S
      PROVE  h[s] = IF s = {} THEN 0
                    ELSE f[CHOOSE y \in s : TRUE]
                         + h[s \ {CHOOSE y \in s : TRUE}]
  <2>1. h[s] = IF s = {} THEN 0 ELSE g[<<c[s], h[s \ {c[s]}]>>]
    BY <1>3 DEF FoldOf
  <2>2. CASE s # {}
    <3>1. c[s] \in S /\ s \ {c[s]} \in SUBSET S
      BY <1>1, <2>2
    <3>2. h[s \ {c[s]}] \in Nat
      BY <1>3, <3>1
    <3>3. g[<<c[s], h[s \ {c[s]}]>>] = f[c[s]] + h[s \ {c[s]}]
      <4> HIDE DEF c
      <4>1. <<c[s], h[s \ {c[s]}]>> \in S \X Nat
        BY <3>1, <3>2
      <4> QED BY <4>1
    <3>4. c[s] = CHOOSE y \in s : TRUE
      OBVIOUS
    <3> QED BY <2>1, <2>2, <3>3, <3>4
  <2> QED BY <2>1, <2>2
<1>5. SumTable(h, f, S)
  BY <1>3, <1>4 DEF SumTable
<1>6. h = Iter(h)
  BY <1>3, <1>4
<1> DEFINE i == CHOOSE i : i = Iter(i)
<1>7. i = Iter(i)
  BY <1>6
<1>8. Total(f, S) = i[S]
  BY DEF Total, MapThenSumSet, MapThenFoldSet
<1>9. i[S] = h[S]
  <2> DEFINE B == {s \in SUBSET S : i[s] # h[s]}
  <2> SUFFICES ASSUME B # {} PROVE FALSE
    OBVIOUS
  <2>1. PICK s \in B : \A x \in s : s \ {x} \notin B
    <3>1. B \in SUBSET (SUBSET S)
      OBVIOUS
    <3> HIDE DEF B
    <3> QED BY <3>1, SmallestSubset
  <2>2. s \in SUBSET S /\ i[s] # h[s]
    BY <2>1
  <2> HIDE DEF i
  <2>3. i[s] = IF s = {} THEN 0
               ELSE f[CHOOSE y \in s : TRUE] + i[s \ {CHOOSE y \in s : TRUE}]
    BY <1>7, <2>2
  <2>4. s # {}
    BY <1>4, <2>2, <2>3
  <2> DEFINE x == CHOOSE y \in s : TRUE
  <2>5. x \in s
    BY <2>4
  <2>6. i[s \ {x}] = h[s \ {x}]
    BY <2>1, <2>2, <2>5
  <2> QED BY <1>4, <2>2, <2>3, <2>4, <2>6
<1> QED BY <1>5, <1>8, <1>9

\* A sum of natural numbers is one, and no summand is larger.
LEMMA TotalBounds ==
  ASSUME NEW S, IsFiniteSet(S), NEW f \in [S -> Nat]
  PROVE  Total(f, S) \in Nat /\ \A x \in S : f[x] <= Total(f, S)
<1>1. PICK h : SumTable(h, f, S) /\ h[S] = Total(f, S)
  BY TotalTable
<1> DEFINE B == {s \in SUBSET S : \E x \in s : ~(f[x] <= h[s])}
<1>2. B = {}
  <2> SUFFICES ASSUME B # {} PROVE FALSE
    OBVIOUS
  <2>1. PICK s \in B : \A x \in s : s \ {x} \notin B
    <3>1. B \in SUBSET (SUBSET S)
      OBVIOUS
    <3> HIDE DEF B
    <3> QED BY <3>1, SmallestSubset
  <2>2. PICK x \in s : ~(f[x] <= h[s])
    BY <2>1
  <2> DEFINE y == CHOOSE y \in s : TRUE
  <2>3. /\ y \in s /\ s \in SUBSET S /\ s \ {y} \in SUBSET S
        /\ h[s] = f[y] + h[s \ {y}]
    BY <1>1, <2>1, <2>2 DEF SumTable
  <2> HIDE DEF y
  <2>4. f[y] \in Nat /\ h[s \ {y}] \in Nat /\ f[x] \in Nat
    BY <1>1, <2>2, <2>3 DEF SumTable
  <2>5. x # y => f[x] <= h[s \ {y}]
    BY <2>1, <2>2, <2>3
  <2>6. x = y => f[x] = f[y]
    OBVIOUS
  <2> QED BY ONLY <2>2, <2>3, <2>4, <2>5, <2>6
<1>3. h[S] \in Nat /\ \A x \in S : f[x] <= h[S]
  BY <1>1, <1>2 DEF SumTable
<1> QED BY <1>1, <1>3

\* A sum of zeros.
LEMMA TotalZero ==
  ASSUME NEW S, IsFiniteSet(S), NEW f \in [S -> Nat], \A x \in S : f[x] = 0
  PROVE  Total(f, S) = 0
<1>1. PICK h : SumTable(h, f, S) /\ h[S] = Total(f, S)
  BY TotalTable
<1> DEFINE B == {s \in SUBSET S : h[s] # 0}
<1>2. B = {}
  <2> SUFFICES ASSUME B # {} PROVE FALSE
    OBVIOUS
  <2>1. PICK s \in B : \A x \in s : s \ {x} \notin B
    <3>1. B \in SUBSET (SUBSET S)
      OBVIOUS
    <3> HIDE DEF B
    <3> QED BY <3>1, SmallestSubset
  <2>2. s \in SUBSET S /\ h[s] # 0 /\ s # {}
    BY <1>1, <2>1 DEF SumTable
  <2> DEFINE y == CHOOSE y \in s : TRUE
  <2>3. y \in s /\ s \ {y} \in SUBSET S /\ h[s] = f[y] + h[s \ {y}]
    BY <1>1, <2>2 DEF SumTable
  <2> HIDE DEF y
  <2>4. f[y] = 0 /\ h[s \ {y}] = 0
    BY <2>1, <2>2, <2>3
  <2> QED BY <2>2, <2>3, <2>4
<1> QED BY <1>1, <1>2

\* The sum over a subset is in the table of the whole set, and the table gives it
\* by any element, not only by the one that is chosen.
LEMMA TotalParts ==
  ASSUME NEW S, IsFiniteSet(S), NEW f, \A x \in S : f[x] \in Nat,
         NEW h, SumTable(h, f, S)
  PROVE  /\ \A s \in SUBSET S : h[s] \in Nat /\ h[s] = Total(f, s)
         /\ \A s \in SUBSET S : \A y \in s : h[s] = f[y] + h[s \ {y}]
<1>1. ASSUME NEW A \in SUBSET S
      PROVE  h[A] \in Nat /\ h[A] = Total(f, A)
  <2>1. IsFiniteSet(A) /\ \A x \in A : f[x] \in Nat
    BY FS_Subset
  <2>2. PICK g : SumTable(g, f, A) /\ g[A] = Total(f, A)
    BY <2>1, TotalTable
  <2> DEFINE B == {s \in SUBSET A : g[s] # h[s]}
  <2>3. B = {}
    <3> SUFFICES ASSUME B # {} PROVE FALSE
      OBVIOUS
    <3>1. PICK s \in B : \A x \in s : s \ {x} \notin B
      <4>1. B \in SUBSET (SUBSET A)
        OBVIOUS
      <4> HIDE DEF B
      <4> QED BY <2>1, <4>1, SmallestSubset
    <3>2. s \in SUBSET A /\ s \in SUBSET S /\ g[s] # h[s]
      BY <3>1
    <3>3. s # {}
      BY <2>2, <3>2 DEF SumTable
    <3> DEFINE x == CHOOSE y \in s : TRUE
    <3>4. x \in s
      BY <3>3
    <3>5. g[s \ {x}] = h[s \ {x}]
      BY <3>1, <3>2, <3>4
    <3>6. g[s] = f[x] + g[s \ {x}] /\ h[s] = f[x] + h[s \ {x}]
      BY <2>2, <3>2, <3>3 DEF SumTable
    <3> QED BY <3>2, <3>5, <3>6
  <2>4. g[A] = h[A]
    BY <2>3
  <2> QED BY <2>2, <2>4 DEF SumTable
<1>2. ASSUME NEW A \in SUBSET S, NEW z \in A
      PROVE  h[A] = f[z] + h[A \ {z}]
  <2> DEFINE B == {s \in SUBSET S : \E y \in s : h[s] # f[y] + h[s \ {y}]}
  <2>1. B = {}
    <3> SUFFICES ASSUME B # {} PROVE FALSE
      OBVIOUS
    <3>1. PICK s \in B : \A x \in s : s \ {x} \notin B
      <4>1. B \in SUBSET (SUBSET S)
        OBVIOUS
      <4> HIDE DEF B
      <4> QED BY <4>1, SmallestSubset
    <3>2. s \in SUBSET S
      BY <3>1
    <3>3. PICK y \in s : h[s] # f[y] + h[s \ {y}]
      BY <3>1
    <3> DEFINE x == CHOOSE x \in s : TRUE
    <3>4. x \in s /\ h[s] = f[x] + h[s \ {x}]
      BY <3>2, <3>3 DEF SumTable
    <3> HIDE DEF x
    <3>5. x # y
      BY <3>3, <3>4
    <3>6. s \ {x} \in SUBSET S /\ s \ {y} \in SUBSET S
      BY <3>2
    <3>7. h[s \ {x}] = f[y] + h[(s \ {x}) \ {y}]
      BY <3>1, <3>4, <3>5, <3>6
    <3>8. h[s \ {y}] = f[x] + h[(s \ {y}) \ {x}]
      BY <3>1, <3>4, <3>5, <3>6
    <3>9. (s \ {y}) \ {x} = (s \ {x}) \ {y}
      OBVIOUS
    <3>10. h[(s \ {x}) \ {y}] \in Nat /\ f[x] \in Nat /\ f[y] \in Nat
      BY <1>1, <3>2, <3>4
    <3> DEFINE a == f[x]
               b == f[y]
               c == h[(s \ {x}) \ {y}]
               d == h[s \ {x}]
               e == h[s \ {y}]
               u == h[s]
    <3>11. /\ a \in Nat /\ b \in Nat /\ c \in Nat
           /\ u = a + d /\ d = b + c /\ e = a + c /\ u # b + e
      BY <3>3, <3>4, <3>7, <3>8, <3>9, <3>10
    <3> HIDE DEF a, b, c, d, e, u
    <3> QED BY ONLY <3>11
  <2> QED BY <2>1
<1> QED BY <1>1, <1>2

\* A sum is one of its summands and the sum of the others.
LEMMA TotalWithout ==
  ASSUME NEW S, IsFiniteSet(S), NEW f, \A x \in S : f[x] \in Nat, NEW y \in S
  PROVE  /\ Total(f, S) \in Nat /\ Total(f, S \ {y}) \in Nat
         /\ Total(f, S) = f[y] + Total(f, S \ {y})
<1>1. PICK h : SumTable(h, f, S) /\ h[S] = Total(f, S)
  BY TotalTable
<1>2. /\ \A s \in SUBSET S : h[s] \in Nat /\ h[s] = Total(f, s)
      /\ \A s \in SUBSET S : \A z \in s : h[s] = f[z] + h[s \ {z}]
  <2>1. SumTable(h, f, S)
    BY <1>1
  <2> QED BY ONLY IsFiniteSet(S), \A x \in S : f[x] \in Nat, <2>1, TotalParts
<1>3. S \in SUBSET S /\ S \ {y} \in SUBSET S
  OBVIOUS
<1> QED BY <1>2, <1>3

\* A sum depends on its summands only.
LEMMA TotalSame ==
  ASSUME NEW S, IsFiniteSet(S), NEW f, NEW g,
         \A x \in S : f[x] \in Nat /\ g[x] = f[x]
  PROVE  Total(f, S) \in Nat /\ Total(g, S) = Total(f, S)
<1>1. PICK h : SumTable(h, f, S) /\ h[S] = Total(f, S)
  BY TotalTable
<1>2. ASSUME NEW s \in SUBSET S, s # {}
      PROVE  f[CHOOSE y \in s : TRUE] = g[CHOOSE y \in s : TRUE]
  BY <1>2
<1>3. SumTable(h, g, S)
  BY <1>1, <1>2 DEF SumTable
<1>4. \A x \in S : g[x] \in Nat
  OBVIOUS
<1>5. S \in SUBSET S
  OBVIOUS
<1> QED BY <1>1, <1>3, <1>4, <1>5, TotalParts

\* Changing one summand changes the sum by as much.
LEMMA TotalChange ==
  ASSUME NEW S, IsFiniteSet(S), NEW x \in S,
         NEW f1 \in [S -> Nat], NEW f2 \in [S -> Nat],
         \A y \in S : y # x => f2[y] = f1[y]
  PROVE  Total(f2, S) = Total(f1, S) - f1[x] + f2[x]
<1>1. PICK h1 : SumTable(h1, f1, S) /\ h1[S] = Total(f1, S)
  BY TotalTable
<1>2. PICK h2 : SumTable(h2, f2, S) /\ h2[S] = Total(f2, S)
  BY TotalTable
<1> DEFINE Same(s) == h2[s] = IF x \in s THEN h1[s] - f1[x] + f2[x] ELSE h1[s]
           B == {s \in SUBSET S : ~Same(s)}
<1>3. B = {}
  <2> SUFFICES ASSUME B # {} PROVE FALSE
    OBVIOUS
  <2>1. PICK s \in B : \A z \in s : s \ {z} \notin B
    <3>1. B \in SUBSET (SUBSET S)
      OBVIOUS
    <3> HIDE DEF B
    <3> QED BY <3>1, SmallestSubset
  <2>2. s \in SUBSET S /\ ~Same(s)
    BY <2>1
  <2>3. s # {}
    BY <1>1, <1>2, <2>2 DEF SumTable
  <2> DEFINE y == CHOOSE y \in s : TRUE
  <2>4. y \in s /\ s \ {y} \in SUBSET S
        /\ h1[s] = f1[y] + h1[s \ {y}] /\ h2[s] = f2[y] + h2[s \ {y}]
    BY <1>1, <1>2, <2>2, <2>3 DEF SumTable
  <2> HIDE DEF y
  <2>5. /\ f1[y] \in Nat /\ f2[y] \in Nat /\ f1[x] \in Nat /\ f2[x] \in Nat
        /\ h1[s \ {y}] \in Nat /\ h2[s \ {y}] \in Nat
    BY <1>1, <1>2, <2>2, <2>4 DEF SumTable
  <2>6. Same(s \ {y})
    BY <2>1, <2>4
  <2>7. CASE y = x
    <3>1. h2[s \ {y}] = h1[s \ {y}]
      BY <2>6, <2>7
    <3>2. h2[s] = h1[s] - f1[x] + f2[x]
      <4>1. f1[x] = f1[y] /\ f2[x] = f2[y]
        BY <2>7
      <4> QED BY ONLY <2>4, <2>5, <3>1, <4>1
    <3> QED BY <2>2, <2>4, <2>7, <3>2
  <2>8. CASE y # x /\ x \in s
    <3>1. h2[s \ {y}] = h1[s \ {y}] - f1[x] + f2[x]
      BY <2>6, <2>8
    <3>2. f2[y] = f1[y]
      BY <2>2, <2>4, <2>8
    <3>3. h2[s] = h1[s] - f1[x] + f2[x]
      BY ONLY <2>4, <2>5, <3>1, <3>2
    <3> QED BY <2>2, <2>8, <3>3
  <2>9. CASE x \notin s
    <3>1. h2[s \ {y}] = h1[s \ {y}] /\ y # x
      BY <2>4, <2>6, <2>9
    <3>2. f2[y] = f1[y]
      BY <2>2, <2>4, <3>1
    <3> QED BY <2>2, <2>4, <2>9, <3>1, <3>2
  <2> QED BY <2>4, <2>7, <2>8, <2>9
<1>4. Same(S)
  BY <1>3
<1> QED BY <1>1, <1>2, <1>4

\* The most urgent priority of a bitmap that is not empty.
LEMMA HighestReady ==
  ASSUME NEW k \in KernelState, k.group # {}
  PROVE  /\ highest_ready_priority(k) \in k.group
         /\ \A r \in k.group : highest_ready_priority(k) <= r
<1>1. \A x \in k.group : x \in Nat
  BY PrioNat DEF KernelState
<1>2. \E x \in k.group : \A y \in k.group : x <= y
  BY <1>1, LeastNat
<1> QED BY <1>2 DEF highest_ready_priority

\* With the bitmap and the ready table exact, in terms of elements.
LEMMA BitmapSets ==
  ASSUME NEW k \in KernelState
  PROVE  Bitmap(k) <=> \A p \in Prio : p \in k.group <=> ToSet(k.ready[p]) # {}
<1>1. \A p \in Prio : k.ready[p] \in Seq(Thread)
  BY DEF KernelState
<1>2. \A p \in Prio : k.ready[p] = << >> <=> ToSet(k.ready[p]) = {}
  BY <1>1, EmptyList
<1> QED BY <1>2 DEF Bitmap

-----------------------------------------------------------------------------
(* The functions the IPC objects call keep the kernel invariant.           *)

\* r differs from k at most in who runs and in the ready table.
SameThreads(k, r) ==
  /\ r.stat = k.stat /\ r.prio = k.prio /\ r.err = k.err
  /\ r.wait = k.wait /\ r.timer = k.timer /\ r.nest = k.nest

\* rt_schedule, when it keeps the running thread.
LEMMA ScheduleStay ==
  ASSUME NEW k \in KernelState, KInv(k), k.group # {},
         k.stat[k.cur] = "ready", k.prio[k.cur] < highest_ready_priority(k)
  PROVE  LET r == rt_schedule_remove_thread(k, k.cur) IN
         r \in KernelState /\ KInv(r) /\ SameThreads(k, r) /\ r.cur = k.cur
<1> DEFINE r == rt_schedule_remove_thread(k, k.cur)
           high == highest_ready_priority(k)
<1>1. k.cur \in Thread /\ k.prio[k.cur] \in Prio /\ k.prio[k.cur] \in Nat
      /\ (\A p \in k.group : p \in Nat) /\ k.wait \in [Queue -> Seq(Thread)]
  BY PrioNat DEF KernelState
<1>2. Unlinked(k, k.cur, r) /\ BitCleared(k, k.cur, r)
  BY <1>1, RemoveThread DEF KInv
<1>3. k.prio[k.cur] \notin k.group
  BY <1>1, HighestReady
<1> HIDE DEF r
<1>4. r \in KernelState /\ NoDuplicates(r)
  BY <1>2 DEF Unlinked
<1>5. r.group = k.group
  BY <1>2, <1>3 DEF BitCleared
<1>6. \A p \in Prio : ToSet(r.ready[p]) = ToSet(k.ready[p])
  <2>1. \A p \in Prio : k.cur \notin ToSet(k.ready[p])
    BY <1>1 DEF KInv, ReadyTable
  <2>2. \A p \in Prio : ToSet(r.ready[p]) = ToSet(k.ready[p]) \ {k.cur}
    BY <1>2 DEF Unlinked
  <2> QED BY <2>1, <2>2
<1>7. \A q \in Queue : k.cur \notin ToSet(k.wait[q])
  BY <1>1 DEF KInv, WaitLists
<1>8. r.wait = k.wait
  <2>1. \A q \in Queue : r.wait[q] = k.wait[q]
    BY <1>2, <1>7 DEF Unlinked
  <2> QED BY <1>1, <1>4, <2>1 DEF KernelState
<1>9. SameThreads(k, r) /\ r.cur = k.cur
  BY <1>2, <1>8 DEF SameThreads, Unlinked
<1>10. KInv(r)
  <2>1. Bitmap(r)
    BY <1>4, <1>5, <1>6, BitmapSets DEF KInv
  <2>2. ReadyTable(r)
    BY <1>6, <1>9 DEF KInv, ReadyTable, SameThreads
  <2>3. WaitLists(r) /\ TimersOfSuspended(r)
    BY <1>9 DEF KInv, WaitLists, TimersOfSuspended, SameThreads
  <2> QED BY <1>4, <2>1, <2>2, <2>3 DEF KInv
<1> QED BY <1>4, <1>9, <1>10 DEF r

\* rt_schedule, when it switches to the thread to, the head of a ready list.
LEMMA ScheduleSwitch ==
  ASSUME NEW k \in KernelState, KInv(k), NEW to \in Thread,
         k.stat[to] = "ready", to # k.cur
  PROVE  LET k1 == [k EXCEPT !.cur = to]
             k2 == IF k.stat[k.cur] = "ready"
                   THEN rt_schedule_insert_thread(k1, k.cur) ELSE k1
             r  == rt_schedule_remove_thread(k2, to)
         IN r \in KernelState /\ KInv(r) /\ SameThreads(k, r) /\ r.cur = to
<1> DEFINE from == k.cur
           k1 == [k EXCEPT !.cur = to]
           k2 == IF k.stat[from] = "ready"
                 THEN rt_schedule_insert_thread(k1, from) ELSE k1
           r  == rt_schedule_remove_thread(k2, to)
           high == k.prio[to]
<1>1. from \in Thread /\ high \in Prio /\ k.prio[from] \in Prio
      /\ k.wait \in [Queue -> Seq(Thread)]
  BY DEF KernelState
<1>2. k1 \in KernelState /\ k1.cur = to /\ k1.ready = k.ready
      /\ k1.group = k.group /\ SameThreads(k, k1)
  BY DEF KernelState, SameThreads
<1>3. NoDuplicates(k1)
  BY <1>2 DEF NoDuplicates, KInv, SameThreads
<1>4. \A p \in Prio : from \notin ToSet(k.ready[p])
  BY <1>1 DEF KInv, ReadyTable
<1>i. Inserted(k1, from, rt_schedule_insert_thread(k1, from))
  BY <1>1, <1>2, <1>3, <1>4, InsertThread
<1> HIDE DEF k1, from
<1>5. /\ k2 \in KernelState /\ NoDuplicates(k2) /\ SameThreads(k, k2)
      /\ k2.cur = to
      /\ k2.group = IF k.stat[from] = "ready"
                    THEN k.group \cup {k.prio[from]} ELSE k.group
      /\ \A p \in Prio : ToSet(k2.ready[p]) =
            IF k.stat[from] = "ready" /\ p = k.prio[from]
            THEN ToSet(k.ready[p]) \cup {from} ELSE ToSet(k.ready[p])
  <2>1. CASE k.stat[from] = "ready"
    <3>1. Inserted(k1, from, k2)
      BY <2>1, <1>i
    <3>2. [k.stat EXCEPT ![from] = "ready"] = k.stat
      BY <2>1, <1>1 DEF KernelState
    <3>3. from # to
      BY DEF from
    <3> HIDE DEF k2
    <3>4. k2 \in KernelState /\ NoDuplicates(k2) /\ SameThreads(k, k2)
          /\ k2.cur = to
      BY <1>2, <3>1, <3>2 DEF Inserted, SameThreads
    <3> QED BY <1>2, <2>1, <3>1, <3>3, <3>4 DEF Inserted, SameThreads
  <2>2. CASE k.stat[from] # "ready"
    BY <2>2, <1>2, <1>3
  <2> QED BY <2>1, <2>2
<1> HIDE DEF k2
<1>6. Unlinked(k2, to, r) /\ BitCleared(k2, to, r)
  BY <1>5, RemoveThread
<1> HIDE DEF r
<1>7. r \in KernelState /\ NoDuplicates(r) /\ r.cur = to
  BY <1>5, <1>6 DEF Unlinked
<1>8. \A q \in Queue : to \notin ToSet(k.wait[q])
  BY DEF KInv, WaitLists
<1>9. r.wait = k.wait
  <2>1. \A q \in Queue : r.wait[q] = k.wait[q]
    BY <1>5, <1>6, <1>8 DEF Unlinked, SameThreads
  <2> QED BY <1>1, <1>7, <2>1 DEF KernelState
<1>10. SameThreads(k, r)
  BY <1>5, <1>6, <1>9 DEF SameThreads, Unlinked
<1>11. \A p \in Prio : ToSet(r.ready[p]) = ToSet(k2.ready[p]) \ {to}
  BY <1>6 DEF Unlinked
<1>12. \A p \in Prio, t \in Thread : t \in ToSet(k.ready[p]) <=>
          k.stat[t] = "ready" /\ k.prio[t] = p /\ t # from
  BY DEF KInv, ReadyTable, from
<1>13. ReadyTable(r)
  <2> SUFFICES ASSUME NEW t \in Thread, NEW p \in Prio
               PROVE  t \in ToSet(r.ready[p]) <=>
                        k.stat[t] = "ready" /\ k.prio[t] = p /\ t # to
    BY <1>7, <1>10 DEF ReadyTable, SameThreads
  <2>1. t \in ToSet(r.ready[p]) <=> t \in ToSet(k2.ready[p]) /\ t # to
    BY <1>11
  <2>2. t \in ToSet(k2.ready[p]) <=>
          t \in ToSet(k.ready[p])
            \/ (t = from /\ k.stat[from] = "ready" /\ p = k.prio[from])
    BY <1>5
  <2> QED BY <2>1, <2>2, <1>12
<1>14. Bitmap(r)
  <2>1. \A p \in Prio : p \in k.group <=> ToSet(k.ready[p]) # {}
    BY BitmapSets DEF KInv
  <2>2. \A p \in Prio : p \in k2.group <=> ToSet(k2.ready[p]) # {}
    BY <1>1, <1>5, <2>1
  <2>3. k2.prio[to] = high
    BY <1>5 DEF SameThreads
  <2>4. r.group = IF ToSet(r.ready[high]) = {}
                  THEN k2.group \ {high} ELSE k2.group
    BY <1>1, <1>6, <1>11, <2>3 DEF BitCleared
  <2>0. to # from
    BY DEF from
  <2>5. \A p \in Prio : p # high => to \notin ToSet(k2.ready[p])
    <3>1. \A p \in Prio : p # high => to \notin ToSet(k.ready[p])
      BY <1>12
    <3> QED BY <1>5, <2>0, <3>1
  <2>6. \A p \in Prio : p # high => ToSet(r.ready[p]) = ToSet(k2.ready[p])
    BY <2>5, <1>11
  <2>7. to \in ToSet(k2.ready[high])
    <3>1. to \in ToSet(k.ready[high])
      BY <1>1, <1>12, <2>0
    <3> QED BY <1>1, <1>5, <3>1
  <2>8. high \in k2.group
    BY <1>1, <2>2, <2>7
  <2>9. \A p \in Prio : p \in r.group <=> ToSet(r.ready[p]) # {}
    BY <2>2, <2>4, <2>6, <2>8
  <2> QED BY <1>7, <2>9, BitmapSets
<1>15. WaitLists(r) /\ TimersOfSuspended(r)
  BY <1>10 DEF KInv, WaitLists, TimersOfSuspended, SameThreads
<1>16. KInv(r)
  BY <1>7, <1>13, <1>14, <1>15 DEF KInv
<1> QED BY <1>7, <1>10, <1>16 DEF r, k2, k1, from

\* rt_schedule moves threads between the processor and the ready table only,
\* and with the scheduler unlocked it leaves a most urgent thread running.
LEMMA ScheduleKeeps ==
  ASSUME NEW k \in KernelState, KInv(k)
  PROVE  LET r == rt_schedule(k) IN
         /\ r \in KernelState /\ KInv(r) /\ SameThreads(k, r)
         /\ k.nest # 0 => r = k
         /\ k.nest = 0 /\ (\E t \in Thread : k.stat[t] = "ready") => Settled(r)
<1> DEFINE r    == rt_schedule(k)
           high == highest_ready_priority(k)
           to   == Head(k.ready[high])
<1>ty. /\ k.cur \in Thread /\ k.nest \in Nat /\ k.prio \in [Thread -> Prio]
       /\ k.group \subseteq Prio /\ \A p \in Prio : k.ready[p] \in Seq(Thread)
  BY DEF KernelState
<1>1. CASE k.nest # 0
  <2>1. r = k
    BY <1>1 DEF rt_schedule
  <2> QED BY <1>1, <2>1 DEF SameThreads
<1>2. CASE k.nest = 0 /\ k.group = {}
  <2>1. r = k
    BY <1>2 DEF rt_schedule
  <2>2. \A p \in Prio : ToSet(k.ready[p]) = {}
    BY <1>2, BitmapSets DEF KInv
  <2>3. \A t \in Thread : k.stat[t] = "ready" => t = k.cur
    BY <2>2, <1>ty DEF KInv, ReadyTable
  <2>4. k.prio[k.cur] <= k.prio[k.cur]
    BY <1>ty, PrioNat
  <2>5. (\E t \in Thread : k.stat[t] = "ready") => Settled(k)
    BY <2>3, <2>4, <1>ty DEF Settled
  <2> HIDE DEF r
  <2>6. SameThreads(k, r)
    BY <2>1 DEF SameThreads
  <2> QED BY <2>1, <2>5, <2>6, <1>2 DEF r
<1>3. CASE k.nest = 0 /\ k.group # {}
  <2>1. high \in k.group /\ high \in Prio /\ \A p \in k.group : high <= p
    BY <1>3, <1>ty, HighestReady
  <2>2. to \in ToSet(k.ready[high]) /\ to \in Thread
    <3>1. ToSet(k.ready[high]) # {}
      BY <2>1, BitmapSets DEF KInv
    <3> QED BY <2>1, <3>1, <1>ty, HeadInList
  <2>3. k.stat[to] = "ready" /\ k.prio[to] = high /\ to # k.cur
    BY <2>1, <2>2 DEF KInv, ReadyTable
  <2>4. \A t \in Thread : k.stat[t] = "ready" /\ t # k.cur => high <= k.prio[t]
    <3> SUFFICES ASSUME NEW t \in Thread, k.stat[t] = "ready", t # k.cur
                 PROVE  high <= k.prio[t]
      OBVIOUS
    <3>1. t \in ToSet(k.ready[k.prio[t]]) /\ k.prio[t] \in Prio
      BY <1>ty DEF KInv, ReadyTable
    <3> QED BY <2>1, <3>1, BitmapSets DEF KInv
  <2>5. CASE k.stat[k.cur] = "ready" /\ k.prio[k.cur] < high
    <3>1. r = rt_schedule_remove_thread(k, k.cur)
      BY <1>3, <2>5 DEF rt_schedule
    <3> HIDE DEF r
    <3>2. r \in KernelState /\ KInv(r) /\ SameThreads(k, r) /\ r.cur = k.cur
      BY <1>3, <2>5, <3>1, ScheduleStay
    <3>3. \A t \in Thread : k.stat[t] = "ready" => k.prio[k.cur] <= k.prio[t]
      BY <2>1, <2>4, <2>5, <1>ty, PrioNat
    <3>4. Settled(r)
      BY <3>2, <3>3, <2>5 DEF Settled, SameThreads
    <3> QED BY <1>3, <3>2, <3>4 DEF r
  <2>6. CASE ~(k.stat[k.cur] = "ready" /\ k.prio[k.cur] < high)
    <3>1. r = LET k1 == [k EXCEPT !.cur = to]
                  k2 == IF k.stat[k.cur] = "ready"
                        THEN rt_schedule_insert_thread(k1, k.cur) ELSE k1
              IN rt_schedule_remove_thread(k2, to)
      BY <1>3, <2>6 DEF rt_schedule
    <3> HIDE DEF r, to
    <3>2. r \in KernelState /\ KInv(r) /\ SameThreads(k, r) /\ r.cur = to
      BY <2>2, <2>3, <3>1, ScheduleSwitch
    <3>3. \A t \in Thread : k.stat[t] = "ready" => k.prio[to] <= k.prio[t]
      BY <2>1, <2>3, <2>4, <2>6, <1>ty, PrioNat
    <3>4. Settled(r)
      BY <3>2, <3>3, <2>3 DEF Settled, SameThreads
    <3> QED BY <1>3, <3>2, <3>4 DEF r
  <2> QED BY <2>5, <2>6
<1> QED BY <1>1, <1>2, <1>3, <1>ty

\* rt_thread_suspend of the running thread: it stays current, suspended, in no
\* list and without a timer.
LEMMA SuspendKeeps ==
  ASSUME NEW k \in KernelState, KInv(k), k.stat[k.cur] = "ready"
  PROVE  LET r == rt_thread_suspend(k, k.cur) IN
         /\ r \in KernelState /\ KInv(r)
         /\ r.stat = [k.stat EXCEPT ![k.cur] = "suspend"]
         /\ r.timer = k.timer \ {k.cur}
         /\ r.wait = k.wait /\ r.prio = k.prio /\ r.err = k.err
         /\ r.cur = k.cur /\ r.nest = k.nest
<1> DEFINE t  == k.cur
           k1 == [k EXCEPT !.stat[t] = "suspend"]
           k2 == rt_schedule_remove_thread(k1, t)
           r  == rt_thread_suspend(k, k.cur)
<1>1. t \in Thread /\ k.prio[t] \in Prio /\ k.wait \in [Queue -> Seq(Thread)]
      /\ k.stat \in [Thread -> Stat] /\ k.timer \subseteq Thread
  BY DEF KernelState
<1>2. r = [k2 EXCEPT !.timer = @ \ {t}]
  BY DEF rt_thread_suspend, rt_timer_stop
<1>3. k1 \in KernelState /\ k1.stat = [k.stat EXCEPT ![t] = "suspend"]
      /\ k1.ready = k.ready /\ k1.group = k.group /\ k1.wait = k.wait
      /\ k1.prio = k.prio /\ k1.err = k.err /\ k1.timer = k.timer
      /\ k1.cur = t /\ k1.nest = k.nest
  BY <1>1 DEF KernelState, Stat
<1>4. NoDuplicates(k1)
  BY <1>3 DEF NoDuplicates, KInv
<1> HIDE DEF k1
<1>5. Unlinked(k1, t, k2) /\ BitCleared(k1, t, k2)
  BY <1>1, <1>3, <1>4, RemoveThread
<1> HIDE DEF k2
<1>6. k2 \in KernelState /\ k2.timer = k.timer
  BY <1>3, <1>5 DEF Unlinked
<1> HIDE DEF r
<1>7. r \in KernelState /\ r.timer = k.timer \ {t} /\ r.ready = k2.ready
      /\ r.group = k2.group /\ r.wait = k2.wait /\ r.stat = k2.stat
      /\ r.prio = k2.prio /\ r.err = k2.err /\ r.cur = k2.cur
      /\ r.nest = k2.nest
  BY <1>2, <1>6 DEF KernelState
<1>8. \A p \in Prio : t \notin ToSet(k.ready[p])
  BY <1>1 DEF KInv, ReadyTable
<1>9. \A p \in Prio : ToSet(r.ready[p]) = ToSet(k.ready[p])
  <2>1. \A p \in Prio : ToSet(r.ready[p]) = ToSet(k.ready[p]) \ {t}
    BY <1>3, <1>5, <1>7 DEF Unlinked
  <2> QED BY <1>8, <2>1
<1>10. \A q \in Queue : t \notin ToSet(k.wait[q])
  BY <1>1 DEF KInv, WaitLists
<1>11. r.wait = k.wait
  <2>1. \A q \in Queue : r.wait[q] = k.wait[q]
    BY <1>3, <1>5, <1>7, <1>10 DEF Unlinked
  <2> QED BY <1>1, <1>7, <2>1 DEF KernelState
<1>12. r.stat = [k.stat EXCEPT ![t] = "suspend"] /\ r.prio = k.prio
       /\ r.err = k.err /\ r.cur = t /\ r.nest = k.nest
  BY <1>3, <1>5, <1>7 DEF Unlinked
<1>13. NoDuplicates(r)
  BY <1>5, <1>7 DEF NoDuplicates, Unlinked
<1>14. Bitmap(r)
  <2>1. \A p \in Prio : p \in k.group <=> ToSet(k.ready[p]) # {}
    BY BitmapSets DEF KInv
  <2>2. r.group = IF ToSet(k.ready[k.prio[t]]) \ {t} = {}
                  THEN k.group \ {k.prio[t]} ELSE k.group
    BY <1>3, <1>5, <1>7 DEF BitCleared
  <2> DEFINE mine == ToSet(k.ready[k.prio[t]])
  <2>3. mine \ {t} = mine
    BY <1>1, <1>8
  <2>4. mine = {} => k.group \ {k.prio[t]} = k.group
    BY <1>1, <2>1
  <2>5. r.group = k.group
    <3> HIDE DEF mine
    <3>1. r.group = IF mine \ {t} = {} THEN k.group \ {k.prio[t]} ELSE k.group
      BY <2>2 DEF mine
    <3> QED BY <2>3, <2>4, <3>1
  <2> QED BY <1>7, <1>9, <2>1, <2>5, BitmapSets
<1>15. ReadyTable(r)
  BY <1>1, <1>9, <1>12 DEF KInv, ReadyTable
<1>16. WaitLists(r)
  BY <1>1, <1>10, <1>11, <1>12 DEF KInv, WaitLists
<1>17. TimersOfSuspended(r)
  BY <1>1, <1>7, <1>12 DEF KInv, TimersOfSuspended
<1> QED BY <1>7, <1>11, <1>12, <1>13, <1>14, <1>15, <1>16, <1>17 DEF KInv, r

\* Making a suspended thread ready, the common part of rt_thread_resume and
\* rt_thread_timeout: out of its wait list, its timer stopped, and linked in
\* the ready table unless it still runs.
WokenUp(k, t, r) ==
  /\ r \in KernelState /\ KInv(r)
  /\ r.stat = [k.stat EXCEPT ![t] = "ready"]
  /\ r.timer = k.timer \ {t}
  /\ \A q \in Queue : ToSet(r.wait[q]) = ToSet(k.wait[q]) \ {t}
  /\ \A q \in Queue : r.wait[q] = Unlink(k.wait[q], t)
  /\ r.prio = k.prio /\ r.err = k.err /\ r.cur = k.cur /\ r.nest = k.nest

\* Unlinking, stopping the timer and inserting wakes a suspended thread.
LEMMA WakeKeeps ==
  ASSUME NEW k \in KernelState, KInv(k), NEW t \in Thread,
         k.stat[t] = "suspend"
  PROVE  WokenUp(k, t, rt_schedule_insert_thread(
                       rt_timer_stop(rt_list_remove(k, t), t), t))
<1> DEFINE k1 == rt_list_remove(k, t)
           k2 == rt_timer_stop(k1, t)
           r  == rt_schedule_insert_thread(k2, t)
<1>1. k.prio[t] \in Prio /\ k.stat \in [Thread -> Stat]
      /\ k.timer \subseteq Thread
  BY DEF KernelState
<1>2. Unlinked(k, t, k1) /\ k1.group = k.group
  BY ListRemove DEF KInv
<1>w. k1.wait = [q \in Queue |-> Unlink(k.wait[q], t)]
  BY DEF rt_list_remove, KernelState
<1> HIDE DEF k1
<1>3. k1 \in KernelState
  BY <1>2 DEF Unlinked
<1>4. k2 \in KernelState /\ k2.timer = k1.timer \ {t} /\ k2.ready = k1.ready
      /\ k2.group = k1.group /\ k2.wait = k1.wait /\ k2.stat = k1.stat
      /\ k2.prio = k1.prio /\ k2.err = k1.err /\ k2.cur = k1.cur
      /\ k2.nest = k1.nest
  BY <1>3 DEF KernelState, rt_timer_stop
<1> HIDE DEF k2
<1>5. NoDuplicates(k2)
  BY <1>2, <1>4 DEF NoDuplicates, Unlinked
<1>6. \A p \in Prio : t \notin ToSet(k.ready[p])
  BY DEF KInv, ReadyTable
<1>7. \A p \in Prio : ToSet(k2.ready[p]) = ToSet(k.ready[p])
  <2>1. \A p \in Prio : ToSet(k2.ready[p]) = ToSet(k.ready[p]) \ {t}
    BY <1>2, <1>4 DEF Unlinked
  <2> QED BY <1>6, <2>1
<1>8. Inserted(k2, t, r)
  BY <1>4, <1>5, <1>6, <1>7, InsertThread
<1> HIDE DEF r
<1>9. /\ r \in KernelState /\ NoDuplicates(r)
      /\ r.stat = [k.stat EXCEPT ![t] = "ready"]
      /\ r.timer = k.timer \ {t}
      /\ \A q \in Queue : ToSet(r.wait[q]) = ToSet(k.wait[q]) \ {t}
      /\ \A q \in Queue : r.wait[q] = Unlink(k.wait[q], t)
      /\ r.prio = k.prio /\ r.err = k.err /\ r.cur = k.cur /\ r.nest = k.nest
  BY <1>2, <1>4, <1>8, <1>w DEF Inserted, Unlinked
<1>10. \A p \in Prio : ToSet(r.ready[p]) =
          IF t # k.cur /\ p = k.prio[t] THEN ToSet(k.ready[p]) \cup {t}
                                        ELSE ToSet(k.ready[p])
  BY <1>2, <1>4, <1>7, <1>8 DEF Inserted, Unlinked
<1>11. r.group = IF t # k.cur THEN k.group \cup {k.prio[t]} ELSE k.group
  BY <1>2, <1>4, <1>8 DEF Inserted, Unlinked
<1>12. Bitmap(r)
  <2>1. \A p \in Prio : p \in k.group <=> ToSet(k.ready[p]) # {}
    BY BitmapSets DEF KInv
  <2>2. \A p \in Prio : p \in r.group <=> ToSet(r.ready[p]) # {}
    BY <1>1, <1>10, <1>11, <2>1
  <2> QED BY <1>9, <2>2, BitmapSets
<1>13. ReadyTable(r)
  <2> SUFFICES ASSUME NEW u \in Thread, NEW p \in Prio
               PROVE  u \in ToSet(r.ready[p]) <=>
                        r.stat[u] = "ready" /\ r.prio[u] = p /\ u # r.cur
    BY DEF ReadyTable
  <2>1. u \in ToSet(k.ready[p]) <=>
          k.stat[u] = "ready" /\ k.prio[u] = p /\ u # k.cur
    BY DEF KInv, ReadyTable
  <2>2. r.stat[u] = IF u = t THEN "ready" ELSE k.stat[u]
    BY <1>1, <1>9
  <2>3. u \in ToSet(r.ready[p]) <=>
          u \in ToSet(k.ready[p]) \/ (u = t /\ t # k.cur /\ p = k.prio[t])
    BY <1>10
  <2> QED BY <1>9, <2>1, <2>2, <2>3
<1>14. WaitLists(r)
  <2> SUFFICES ASSUME NEW u \in Thread, NEW q \in Queue,
                      u \in ToSet(r.wait[q])
               PROVE  /\ r.stat[u] = "suspend"
                      /\ \A x \in Queue \ {q} : u \notin ToSet(r.wait[x])
    BY DEF WaitLists
  <2>1. u # t /\ u \in ToSet(k.wait[q])
    BY <1>9
  <2>2. k.stat[u] = "suspend" /\ \A x \in Queue \ {q} : u \notin ToSet(k.wait[x])
    BY <2>1 DEF KInv, WaitLists
  <2> QED BY <1>1, <1>9, <2>1, <2>2
<1>15. TimersOfSuspended(r)
  BY <1>1, <1>9 DEF KInv, TimersOfSuspended
<1> QED BY <1>9, <1>12, <1>13, <1>14, <1>15 DEF WokenUp, KInv, r, k2, k1

\* rt_thread_resume of a suspended thread.
LEMMA ResumeKeeps ==
  ASSUME NEW k \in KernelState, KInv(k), NEW t \in Thread,
         k.stat[t] = "suspend"
  PROVE  WokenUp(k, t, rt_thread_resume(k, t))
BY WakeKeeps DEF rt_thread_resume

\* Setting thread->error disturbs nothing else.
LEMMA SetError ==
  ASSUME NEW k \in KernelState, KInv(k), NEW t \in Thread, NEW e \in Err
  PROVE  LET r == [k EXCEPT !.err[t] = e] IN
         /\ r \in KernelState /\ KInv(r)
         /\ r.err = [k.err EXCEPT ![t] = e]
         /\ r.stat = k.stat /\ r.prio = k.prio /\ r.ready = k.ready
         /\ r.group = k.group /\ r.wait = k.wait /\ r.timer = k.timer
         /\ r.cur = k.cur /\ r.nest = k.nest
<1> DEFINE r == [k EXCEPT !.err[t] = e]
<1>1. /\ r \in KernelState
      /\ r.err = [k.err EXCEPT ![t] = e]
      /\ r.stat = k.stat /\ r.prio = k.prio /\ r.ready = k.ready
      /\ r.group = k.group /\ r.wait = k.wait /\ r.timer = k.timer
      /\ r.cur = k.cur /\ r.nest = k.nest
  BY DEF KernelState
<1> HIDE DEF r
<1>2. KInv(r)
  BY <1>1 DEF KInv, NoDuplicates, ReadyTable, WaitLists, Bitmap,
              TimersOfSuspended
<1> QED BY <1>1, <1>2 DEF r

\* The part of rt_thread_timeout before its rt_schedule().
timed_out(k, t) ==
  rt_schedule_insert_thread(
    rt_list_remove([rt_timer_stop(k, t) EXCEPT !.err[t] = "etimeout"], t), t)

\* rt_thread_timeout wakes the thread with -RT_ETIMEOUT and schedules.
LEMMA TimeoutKeeps ==
  ASSUME NEW k \in KernelState, KInv(k), NEW t \in k.timer
  PROVE  /\ t \in Thread /\ k.stat[t] = "suspend"
         /\ rt_thread_timeout(k, t) = rt_schedule(timed_out(k, t))
         /\ WokenUp([k EXCEPT !.err[t] = "etimeout"], t, timed_out(k, t))
<1> DEFINE k1 == [k EXCEPT !.err[t] = "etimeout"]
<1>1. t \in Thread /\ k.stat[t] = "suspend"
  BY DEF KernelState, KInv, TimersOfSuspended
<1>2. k1 \in KernelState /\ KInv(k1) /\ k1.stat = k.stat
  BY <1>1, SetError DEF Err
<1>3. WokenUp(k1, t, rt_schedule_insert_thread(
                     rt_timer_stop(rt_list_remove(k1, t), t), t))
  BY <1>1, <1>2, WakeKeeps
<1>4. rt_list_remove([rt_timer_stop(k, t) EXCEPT !.err[t] = "etimeout"], t)
        = rt_timer_stop(rt_list_remove(k1, t), t)
  BY DEF rt_list_remove, rt_timer_stop, KernelState
<1>5. rt_thread_timeout(k, t) = rt_schedule(timed_out(k, t))
  BY DEF rt_thread_timeout, timed_out
<1> QED BY <1>1, <1>3, <1>4, <1>5 DEF timed_out

\* A position that is the first in L, or one past the end if there is none.
LEMMA FirstPosition ==
  ASSUME NEW n \in Nat, NEW L \in SUBSET (1 .. n), NEW p,
         L = {} => p = n + 1,
         L # {} => p \in L /\ \A j \in L : p <= j
  PROVE  /\ p \in 1 .. (n + 1)
         /\ p \in 1 .. n => p \in L
         /\ \A i \in 1 .. n : i < p => i \notin L
<1>1. CASE L = {}
  BY <1>1
<1>2. CASE L # {}
  <2>1. p \in L /\ \A j \in L : p <= j
    BY <1>2
  <2>2. p \in 1 .. n
    BY <2>1
  <2>3. \A i \in 1 .. n : i < p => i \notin L
    BY ONLY <2>1, <2>2
  <2> QED BY <2>1, <2>2, <2>3
<1> QED BY <1>1, <1>2

\* An element inserted behind everything of lower or equal rank and in front of
\* something of higher or equal rank.
LEMMA OrderedAt ==
  ASSUME NEW T, NEW s \in Seq(T), NEW t \in T, NEW f,
         \A x \in T : f[x] \in Int, Ordered(f, s), NEW n \in 1 .. (Len(s) + 1),
         \A i \in 1 .. Len(s) : i < n => f[s[i]] <= f[t],
         n \in 1 .. Len(s) => f[t] <= f[s[n]]
  PROVE  Ordered(f, InsertAt(s, n, t))
<1> DEFINE r == InsertAt(s, n, t)
<1>1. Len(s) \in Nat /\ DOMAIN s = 1 .. Len(s)
  BY LenProperties
<1>2. \A i \in 1 .. Len(s) : s[i] \in T /\ f[s[i]] \in Int
  BY ElementOfSeq
<1>3. /\ DOMAIN r = 1 .. (Len(s) + 1)
      /\ \A j \in 1 .. (Len(s) + 1) :
            r[j] = IF j < n THEN s[j] ELSE IF j = n THEN t ELSE s[j - 1]
  BY InsertAtElements
<1> HIDE DEF r
<1>4. \A i, j \in 1 .. Len(s) : i < j => f[s[i]] <= f[s[j]]
  BY <1>1 DEF Ordered
<1> SUFFICES ASSUME NEW x \in 1 .. (Len(s) + 1), NEW y \in 1 .. (Len(s) + 1),
                    x < y
             PROVE  f[r[x]] <= f[r[y]]
  BY <1>3 DEF Ordered, r
<1>5. CASE y < n
  <2>1. x \in 1 .. Len(s) /\ y \in 1 .. Len(s) /\ r[x] = s[x] /\ r[y] = s[y]
    BY <1>1, <1>3, <1>5
  <2> QED BY <1>4, <2>1
<1>6. CASE y = n
  <2>1. x \in 1 .. Len(s) /\ r[x] = s[x] /\ r[y] = t
    BY <1>1, <1>3, <1>6
  <2> QED BY <1>6, <2>1
<1>7. CASE n < y
  <2>1. y - 1 \in 1 .. Len(s) /\ r[y] = s[y - 1] /\ n \in 1 .. Len(s)
        /\ n <= y - 1
    BY <1>1, <1>3, <1>7
  <2>2. f[s[n]] \in Int /\ f[s[y - 1]] \in Int /\ f[t] \in Int
        /\ f[s[n]] <= f[s[y - 1]] /\ f[t] <= f[s[n]]
    BY <1>2, <1>4, <2>1
  <2>3. CASE x < n
    <3>1. x \in 1 .. Len(s) /\ r[x] = s[x]
      BY <1>1, <1>3, <2>3
    <3>2. f[s[x]] <= f[t] /\ f[s[x]] \in Int
      BY <1>2, <2>3, <3>1
    <3> QED BY <2>1, <2>2, <3>1, <3>2
  <2>4. CASE x = n
    <3>1. r[x] = t
      BY <1>3, <2>4
    <3> QED BY <2>1, <2>2, <3>1
  <2>5. CASE n < x
    <3>1. x - 1 \in 1 .. Len(s) /\ r[x] = s[x - 1] /\ x - 1 < y - 1
      BY <1>1, <1>3, <2>5
    <3> QED BY <1>4, <2>1, <3>1
  <2> QED BY <2>3, <2>4, <2>5
<1> QED BY <1>5, <1>6, <1>7

\* The place rt_ipc_list_suspend finds is inside the list or at its end.
LEMMA WaitPosition ==
  ASSUME NEW k, NEW s \in Seq(Thread), NEW t, NEW flag
  PROVE  wait_position(k, s, t, flag) \in 1 .. (Len(s) + 1)
<1> DEFINE lower == {i \in DOMAIN s : k.prio[t] < k.prio[s[i]]}
<1>1. Len(s) \in Nat /\ DOMAIN s = 1 .. Len(s)
  BY LenProperties
<1>2. CASE flag = "prio" /\ lower # {}
  <2>1. \A i \in lower : i \in Nat /\ i \in 1 .. Len(s)
    BY <1>1
  <2> HIDE DEF lower
  <2>2. \E i \in lower : \A j \in lower : i <= j
    BY <1>2, <2>1, LeastNat
  <2>3. (CHOOSE i \in lower : \A j \in lower : i <= j) \in lower
    BY <2>2
  <2>4. wait_position(k, s, t, flag) =
          CHOOSE i \in lower : \A j \in lower : i <= j
    BY <1>2 DEF wait_position, lower
  <2> QED BY <1>1, <2>1, <2>3, <2>4
<1>3. CASE ~(flag = "prio" /\ lower # {})
  BY <1>1, <1>3 DEF wait_position
<1> QED BY <1>2, <1>3

\* rt_ipc_list_suspend keeps a wait list of RT_IPC_FLAG_PRIO in the order of
\* the priorities.
LEMMA OrderedInsert ==
  ASSUME NEW k \in KernelState, NEW s \in Seq(Thread), NEW t \in Thread,
         Ordered(k.prio, s)
  PROVE  Ordered(k.prio, InsertAt(s, wait_position(k, s, t, "prio"), t))
<1> DEFINE n == wait_position(k, s, t, "prio")
           lower == {i \in DOMAIN s : k.prio[t] < k.prio[s[i]]}
<1>1. Len(s) \in Nat /\ DOMAIN s = 1 .. Len(s)
  BY LenProperties
<1>2. \A u \in Thread : k.prio[u] \in Int
  BY PrioNat DEF KernelState
<1>3. \A i \in 1 .. Len(s) : s[i] \in Thread
  BY ElementOfSeq
<1>4. n = IF lower = {} THEN Len(s) + 1 ELSE CHOOSE i \in lower : \A j \in lower : i <= j
  BY DEF wait_position
<1>5. \A i \in 1 .. Len(s) : i \in lower <=> k.prio[t] < k.prio[s[i]]
  BY <1>1
<1>6. lower \in SUBSET (1 .. Len(s))
  BY <1>1
<1> HIDE DEF n, lower
<1>7. /\ n \in 1 .. (Len(s) + 1)
      /\ n \in 1 .. Len(s) => n \in lower
      /\ \A i \in 1 .. Len(s) : i < n => i \notin lower
  <2>1. lower = {} => n = Len(s) + 1
    BY <1>4
  <2>2. lower # {} => n \in lower /\ \A j \in lower : n <= j
    <3> SUFFICES ASSUME lower # {} PROVE n \in lower /\ \A j \in lower : n <= j
      OBVIOUS
    <3>1. \A i \in lower : i \in Nat
      BY <1>1, <1>6
    <3>2. \E i \in lower : \A j \in lower : i <= j
      BY <3>1, LeastNat
    <3> QED BY <1>4, <3>2
  <2> QED BY ONLY <1>1, <1>6, <2>1, <2>2, FirstPosition
<1>8. \A i \in 1 .. Len(s) : i < n => k.prio[s[i]] <= k.prio[t]
  BY <1>1, <1>2, <1>3, <1>5, <1>7
<1>9. n \in 1 .. Len(s) => k.prio[t] <= k.prio[s[n]]
  BY <1>1, <1>2, <1>3, <1>5, <1>7
<1>10. Ordered(k.prio, InsertAt(s, n, t))
  <2>1. PICK f, p : f = k.prio /\ p = n
    OBVIOUS
  <2>2. /\ \A x \in Thread : f[x] \in Int
        /\ Ordered(f, s) /\ p \in 1 .. (Len(s) + 1)
        /\ \A i \in 1 .. Len(s) : i < p => f[s[i]] <= f[t]
        /\ p \in 1 .. Len(s) => f[t] <= f[s[p]]
    BY <1>2, <1>7, <1>8, <1>9, <2>1
  <2>3. s \in Seq(Thread) /\ t \in Thread
    OBVIOUS
  <2>4. Ordered(f, InsertAt(s, p, t))
    BY ONLY <2>2, <2>3, OrderedAt
  <2> QED BY <2>1, <2>4
<1> QED BY <1>10 DEF n

\* Linking a suspended thread that is in no list into a wait list, at any place.
LEMMA LinkKeeps ==
  ASSUME NEW k \in KernelState, KInv(k), NEW t \in Thread,
         k.stat[t] = "suspend", \A x \in Queue : t \notin ToSet(k.wait[x]),
         NEW q \in Queue, NEW s \in Seq(Thread), IsInjective(s),
         ToSet(s) = ToSet(k.wait[q]) \cup {t}
  PROVE  LET r == [k EXCEPT !.wait[q] = s] IN
         /\ r \in KernelState /\ KInv(r)
         /\ r.wait = [k.wait EXCEPT ![q] = s]
         /\ r.stat = k.stat /\ r.timer = k.timer /\ r.prio = k.prio
         /\ r.err = k.err /\ r.cur = k.cur /\ r.nest = k.nest
<1> DEFINE r == [k EXCEPT !.wait[q] = s]
<1>1. k.wait \in [Queue -> Seq(Thread)]
  BY DEF KernelState
<1>2. r = [k EXCEPT !.wait = [k.wait EXCEPT ![q] = s]]
  BY DEF KernelState
<1> HIDE DEF r
<1>3. /\ r \in KernelState
      /\ r.wait = [k.wait EXCEPT ![q] = s]
      /\ r.ready = k.ready /\ r.group = k.group
      /\ r.stat = k.stat /\ r.timer = k.timer
      /\ r.prio = k.prio /\ r.err = k.err /\ r.cur = k.cur /\ r.nest = k.nest
  BY <1>1, <1>2 DEF KernelState
<1>4. \A x \in Queue : r.wait[x] = IF x = q THEN s ELSE k.wait[x]
  BY <1>1, <1>3
<1>5. NoDuplicates(r)
  BY <1>3, <1>4 DEF KInv, NoDuplicates
<1>6. ReadyTable(r) /\ Bitmap(r) /\ TimersOfSuspended(r)
  BY <1>3 DEF KInv, ReadyTable, Bitmap, TimersOfSuspended
<1>7. WaitLists(r)
  <2> SUFFICES ASSUME NEW u \in Thread, NEW x \in Queue,
                      u \in ToSet(r.wait[x])
               PROVE  /\ r.stat[u] = "suspend"
                      /\ \A y \in Queue \ {x} : u \notin ToSet(r.wait[y])
    BY DEF WaitLists
  <2>1. CASE u = t
    BY <1>3, <1>4, <2>1
  <2>2. CASE u # t
    <3>1. u \in ToSet(k.wait[x])
      BY <1>4, <2>2
    <3>2. /\ k.stat[u] = "suspend"
          /\ \A y \in Queue \ {x} : u \notin ToSet(k.wait[y])
      BY <3>1 DEF KInv, WaitLists
    <3> QED BY <1>3, <1>4, <2>2, <3>2
  <2> QED BY <2>1, <2>2
<1>8. KInv(r)
  BY <1>5, <1>6, <1>7 DEF KInv
<1> QED BY <1>3, <1>8 DEF r

\* rt_ipc_list_suspend links the running thread in the wait list q, suspended.
Blocked(k, q, r) ==
  /\ r \in KernelState /\ KInv(r)
  /\ r.stat = [k.stat EXCEPT ![k.cur] = "suspend"]
  /\ r.timer = k.timer \ {k.cur}
  /\ ToSet(r.wait[q]) = ToSet(k.wait[q]) \cup {k.cur}
  /\ \A x \in Queue \ {q} : r.wait[x] = k.wait[x]
  /\ r.prio = k.prio /\ r.err = k.err /\ r.cur = k.cur /\ r.nest = k.nest

\* It keeps the kernel invariant, and links the thread at wait_position.
LEMMA IpcSuspendKeeps ==
  ASSUME NEW k \in KernelState, KInv(k), k.stat[k.cur] = "ready",
         NEW q \in Queue, NEW flag
  PROVE  LET r == rt_ipc_list_suspend(k, q, k.cur, flag) IN
         /\ Blocked(k, q, r)
         /\ r.wait[q] = InsertAt(k.wait[q],
                          wait_position(k, k.wait[q], k.cur, flag), k.cur)
<1> DEFINE t  == k.cur
           k1 == rt_thread_suspend(k, t)
           n  == wait_position(k1, k1.wait[q], t, flag)
           s  == InsertAt(k1.wait[q], n, t)
           r  == rt_ipc_list_suspend(k, q, t, flag)
<1>1. t \in Thread /\ k.stat \in [Thread -> Stat]
      /\ k.wait \in [Queue -> Seq(Thread)]
  BY DEF KernelState
<1>2. /\ k1 \in KernelState /\ KInv(k1)
      /\ k1.stat = [k.stat EXCEPT ![t] = "suspend"]
      /\ k1.timer = k.timer \ {t}
      /\ k1.wait = k.wait /\ k1.prio = k.prio /\ k1.err = k.err
      /\ k1.cur = t /\ k1.nest = k.nest
  BY SuspendKeeps
<1>3. r = [k1 EXCEPT !.wait = [k1.wait EXCEPT ![q] = s]]
  BY <1>2 DEF rt_ipc_list_suspend, KernelState
<1>4. \A x \in Queue : t \notin ToSet(k.wait[x])
  BY <1>1 DEF KInv, WaitLists
<1>p. n = wait_position(k, k.wait[q], t, flag)
  <2> HIDE DEF k1
  <2> QED BY <1>2 DEF wait_position
<1> HIDE DEF k1
<1>5. n \in 1 .. (Len(k1.wait[q]) + 1)
  BY <1>1, <1>2, WaitPosition
<1>6. s \in Seq(Thread) /\ IsInjective(s) /\ ToSet(s) = ToSet(k.wait[q]) \cup {t}
  <2>1. k1.wait[q] \in Seq(Thread) /\ IsInjective(k1.wait[q])
    BY <1>1, <1>2 DEF KInv, NoDuplicates
  <2> HIDE DEF n
  <2> QED BY <1>1, <1>2, <1>4, <1>5, <2>1, InsertAtProperties
<1> HIDE DEF s, r
<1>7. /\ r \in KernelState /\ KInv(r)
      /\ r.wait = [k.wait EXCEPT ![q] = s]
      /\ r.stat = k1.stat /\ r.timer = k1.timer
      /\ r.prio = k1.prio /\ r.err = k1.err /\ r.cur = k1.cur
      /\ r.nest = k1.nest
  <2>1. r = [k1 EXCEPT !.wait[q] = s]
    BY <1>2, <1>3 DEF KernelState
  <2>2. k1 \in KernelState /\ KInv(k1) /\ k1.stat[t] = "suspend"
        /\ (\A x \in Queue : t \notin ToSet(k1.wait[x]))
        /\ ToSet(s) = ToSet(k1.wait[q]) \cup {t}
    BY <1>1, <1>2, <1>4, <1>6
  <2>3. t \in Thread /\ s \in Seq(Thread) /\ IsInjective(s)
    BY <1>1, <1>6
  <2> DEFINE n1 == [k1 EXCEPT !.wait[q] = s]
  <2> HIDE DEF t
  <2>4. /\ n1 \in KernelState /\ KInv(n1)
        /\ n1.wait = [k1.wait EXCEPT ![q] = s]
        /\ n1.stat = k1.stat /\ n1.timer = k1.timer /\ n1.prio = k1.prio
        /\ n1.err = k1.err /\ n1.cur = k1.cur /\ n1.nest = k1.nest
    BY ONLY <2>2, <2>3, LinkKeeps, q \in Queue
  <2> HIDE DEF n1
  <2> QED BY <1>2, <2>1, <2>4 DEF n1
<1>8. \A x \in Queue : r.wait[x] = IF x = q THEN s ELSE k.wait[x]
  BY <1>1, <1>7
<1>9. r.wait[q] = InsertAt(k.wait[q], wait_position(k, k.wait[q], t, flag), t)
  BY <1>2, <1>8, <1>p DEF s
<1> QED BY <1>2, <1>6, <1>7, <1>8, <1>9 DEF Blocked, r

\* Starting the timer of a suspended thread disturbs nothing else.
LEMMA StartTimer ==
  ASSUME NEW k \in KernelState, KInv(k), NEW t \in Thread,
         k.stat[t] = "suspend"
  PROVE  LET r == rt_timer_start(k, t) IN
         /\ r \in KernelState /\ KInv(r)
         /\ r.timer = k.timer \cup {t}
         /\ r.stat = k.stat /\ r.prio = k.prio /\ r.err = k.err
         /\ r.ready = k.ready /\ r.group = k.group /\ r.wait = k.wait
         /\ r.cur = k.cur /\ r.nest = k.nest
<1> DEFINE r == rt_timer_start(k, t)
<1>1. /\ r \in KernelState
      /\ r.timer = k.timer \cup {t}
      /\ r.stat = k.stat /\ r.prio = k.prio /\ r.err = k.err
      /\ r.ready = k.ready /\ r.group = k.group /\ r.wait = k.wait
      /\ r.cur = k.cur /\ r.nest = k.nest
  BY DEF KernelState, rt_timer_start
<1> HIDE DEF r
<1>2. KInv(r)
  BY <1>1 DEF KInv, NoDuplicates, ReadyTable, WaitLists, Bitmap,
              TimersOfSuspended
<1> QED BY <1>1, <1>2 DEF r

\* rt_thread_sleep of the running thread, up to its rt_schedule(): suspended in
\* no list, with its timer running.
LEMMA SleepKeeps ==
  ASSUME NEW k \in KernelState, KInv(k), k.stat[k.cur] = "ready"
  PROVE  LET r == rt_thread_sleep(k, k.cur) IN
         /\ r \in KernelState /\ KInv(r)
         /\ r.stat = [k.stat EXCEPT ![k.cur] = "suspend"]
         /\ r.timer = k.timer \cup {k.cur}
         /\ r.wait = k.wait /\ r.prio = k.prio /\ r.err = k.err
         /\ r.cur = k.cur /\ r.nest = k.nest
<1> DEFINE t  == k.cur
           k1 == rt_thread_suspend(k, t)
           r  == rt_timer_start(k1, t)
<1>1. t \in Thread /\ k.stat \in [Thread -> Stat]
  BY DEF KernelState
<1>2. /\ k1 \in KernelState /\ KInv(k1)
      /\ k1.stat = [k.stat EXCEPT ![t] = "suspend"]
      /\ k1.timer = k.timer \ {t}
      /\ k1.wait = k.wait /\ k1.prio = k.prio /\ k1.err = k.err
      /\ k1.cur = t /\ k1.nest = k.nest
  BY SuspendKeeps
<1> HIDE DEF k1
<1>3. k1.stat[t] = "suspend"
  BY <1>1, <1>2
<1>4. /\ r \in KernelState /\ KInv(r)
      /\ r.timer = k1.timer \cup {t}
      /\ r.stat = k1.stat /\ r.prio = k1.prio /\ r.err = k1.err
      /\ r.wait = k1.wait /\ r.cur = k1.cur /\ r.nest = k1.nest
  BY <1>1, <1>2, <1>3, StartTimer
<1> HIDE DEF r
<1>5. rt_thread_sleep(k, k.cur) = r
  BY DEF rt_thread_sleep, r, k1
<1> QED BY <1>2, <1>4, <1>5

\* The kernel part of an invariant after a call of rt_schedule(), for any
\* program counters: a most urgent ready thread runs, unless the scheduler is
\* locked, and then nothing has happened.
LEMMA AfterSchedule ==
  ASSUME NEW m \in KernelState, KInv(m), m.stat[Idle] = "ready"
  PROVE  /\ rt_schedule(m) \in KernelState
         /\ KInv(rt_schedule(m))
         /\ SameThreads(m, rt_schedule(m))
         /\ m.nest # 0 => rt_schedule(m) = m
         /\ m.nest = 0 => Settled(rt_schedule(m))
<1>1. Idle \in Thread
  BY KernelAssumption
<1> QED BY <1>1, ScheduleKeeps

\* The state in which rt_system_scheduler_start has given tidle the processor.
LEMMA StartedKernel ==
  ASSUME NEW prio \in [Thread -> Prio]
  PROVE  LET r == scheduler_started(prio) IN
         /\ r \in KernelState /\ KInv(r) /\ Settled(r)
         /\ r.stat = [t \in Thread |-> IF t = Idle THEN "ready" ELSE "init"]
         /\ r.prio = prio /\ r.err = [t \in Thread |-> "eok"]
         /\ r.wait = [q \in Queue |-> << >>] /\ r.timer = {}
         /\ \A q \in Queue : ToSet(r.wait[q]) = {}
         /\ r.cur = Idle /\ r.nest = 0
<1> USE KernelAssumption
<1> DEFINE r == scheduler_started(prio)
<1>1. /\ r.stat = [t \in Thread |-> IF t = Idle THEN "ready" ELSE "init"]
      /\ r.prio = prio /\ r.err = [t \in Thread |-> "eok"]
      /\ r.ready = [p \in Prio |-> << >>] /\ r.group = {}
      /\ r.wait = [q \in Queue |-> << >>] /\ r.timer = {}
      /\ r.cur = Idle /\ r.nest = 0
  BY DEF scheduler_started
<1>2. r \in KernelState
  <2>1. << >> \in Seq(Thread)
    OBVIOUS
  <2> QED BY <2>1 DEF scheduler_started, KernelState, Stat, Err
<1> HIDE DEF r
<1>3. IsInjective(<< >>) /\ ToSet(<< >>) = {}
  BY DEF IsInjective, ToSet
<1>4. KInv(r)
  BY <1>1, <1>3 DEF KInv, NoDuplicates, ReadyTable, WaitLists, Bitmap,
                    TimersOfSuspended
<1>5. Settled(r)
  <2>1. prio[Idle] <= prio[Idle]
    BY PrioNat
  <2> QED BY <1>1, <2>1 DEF Settled
<1> QED BY <1>1, <1>2, <1>3, <1>4, <1>5 DEF r

\* rt_thread_startup of a thread that was never started makes it ready with
\* its initial priority.
LEMMA StartupKeeps ==
  ASSUME NEW k \in KernelState, KInv(k), NEW t \in Thread, NEW p \in Prio,
         k.stat[t] = "init"
  PROVE  LET r == rt_thread_startup(k, t, p) IN
         /\ r \in KernelState /\ KInv(r)
         /\ r.stat = [k.stat EXCEPT ![t] = "ready"]
         /\ r.prio = [k.prio EXCEPT ![t] = p]
         /\ r.err = k.err /\ r.wait = k.wait /\ r.timer = k.timer
         /\ r.cur = k.cur /\ r.nest = k.nest
<1> DEFINE k1 == [k EXCEPT !.prio[t] = p, !.stat[t] = "suspend"]
           r  == rt_thread_startup(k, t, p)
<1>1. /\ k1 \in KernelState
      /\ k1.stat = [k.stat EXCEPT ![t] = "suspend"]
      /\ k1.prio = [k.prio EXCEPT ![t] = p] /\ k1.err = k.err
      /\ k1.ready = k.ready /\ k1.group = k.group /\ k1.wait = k.wait
      /\ k1.timer = k.timer /\ k1.cur = k.cur /\ k1.nest = k.nest
  BY DEF KernelState, Stat
<1>2. r = rt_thread_resume(k1, t)
  BY DEF rt_thread_startup
<1>3. /\ k.stat \in [Thread -> Stat] /\ k.prio \in [Thread -> Prio]
      /\ k.wait \in [Queue -> Seq(Thread)] /\ k.timer \subseteq Thread
  BY DEF KernelState
<1> HIDE DEF k1, r
<1>4. \A x \in Prio : t \notin ToSet(k.ready[x])
  BY DEF KInv, ReadyTable
<1>5. KInv(k1)
  <2>1. NoDuplicates(k1) /\ Bitmap(k1)
    BY <1>1 DEF KInv, NoDuplicates, Bitmap
  <2>2. ReadyTable(k1)
    <3> SUFFICES ASSUME NEW u \in Thread, NEW x \in Prio
                 PROVE  u \in ToSet(k.ready[x]) <=>
                          k1.stat[u] = "ready" /\ k1.prio[u] = x /\ u # k.cur
      BY <1>1 DEF ReadyTable
    <3>1. CASE u = t
      BY <1>1, <1>3, <1>4, <3>1
    <3>2. CASE u # t
      <4>1. k1.stat[u] = k.stat[u] /\ k1.prio[u] = k.prio[u]
        BY <1>1, <1>3, <3>2
      <4> QED BY <4>1 DEF KInv, ReadyTable
    <3> QED BY <3>1, <3>2
  <2>3. WaitLists(k1)
    BY <1>1 DEF KInv, WaitLists
  <2>4. TimersOfSuspended(k1)
    BY <1>1, <1>3 DEF KInv, TimersOfSuspended
  <2> QED BY <2>1, <2>2, <2>3, <2>4 DEF KInv
<1>6. k1.stat[t] = "suspend"
  BY <1>1, <1>3
<1>7. WokenUp(k1, t, r)
  BY <1>1, <1>2, <1>5, <1>6, ResumeKeeps
<1>8. \A q \in Queue : t \notin ToSet(k.wait[q])
  BY DEF KInv, WaitLists
<1>9. r.wait = k.wait
  <2>1. \A q \in Queue : r.wait[q] = k.wait[q]
    BY <1>1, <1>7, <1>8 DEF WokenUp, Unlink
  <2> QED BY <1>3, <1>7, <2>1 DEF WokenUp, KernelState
<1>10. r.timer = k.timer
  <2>1. t \notin k.timer
    BY DEF KInv, TimersOfSuspended
  <2> QED BY <1>1, <1>7, <2>1 DEF WokenUp
<1>11. r.stat = [k.stat EXCEPT ![t] = "ready"]
  BY <1>1, <1>3, <1>7 DEF WokenUp
<1> QED BY <1>1, <1>7, <1>9, <1>10, <1>11 DEF WokenUp, r

\* The same as one relation, which needs no unfolding where it is carried on.
Started(k, t, p, r) ==
  /\ r \in KernelState /\ KInv(r)
  /\ r.stat = [k.stat EXCEPT ![t] = "ready"]
  /\ r.prio = [k.prio EXCEPT ![t] = p]
  /\ r.err = k.err /\ r.wait = k.wait /\ r.timer = k.timer
  /\ r.cur = k.cur /\ r.nest = k.nest

LEMMA StartupStarts ==
  ASSUME NEW k, k \in KernelState, KInv(k), NEW t, t \in Thread, NEW p, p \in Prio,
         k.stat[t] = "init", NEW r, r = rt_thread_startup(k, t, p)
  PROVE  Started(k, t, p, r)
BY StartupKeeps DEF Started

\* RT_THREAD_CTRL_CHANGE_PRIORITY of any thread moves it in the ready table, if
\* it is linked there, and changes nothing else but its priority.
LEMMA ChangePriorityKeeps ==
  ASSUME NEW k \in KernelState, KInv(k), NEW t \in Thread, NEW p \in Prio
  PROVE  LET r == rt_thread_change_priority(k, t, p) IN
         /\ r \in KernelState /\ KInv(r)
         /\ r.prio = [k.prio EXCEPT ![t] = p]
         /\ r.stat = k.stat /\ r.err = k.err /\ r.wait = k.wait
         /\ r.timer = k.timer /\ r.cur = k.cur /\ r.nest = k.nest
<1> DEFINE r == rt_thread_change_priority(k, t, p)
<1>t. /\ k.stat \in [Thread -> Stat] /\ k.prio \in [Thread -> Prio]
      /\ k.wait \in [Queue -> Seq(Thread)] /\ k.cur \in Thread
      /\ k.prio[t] \in Prio /\ k.group \subseteq Prio
  BY DEF KernelState
<1>1. CASE k.stat[t] = "ready"
  <2> DEFINE k1 == rt_schedule_remove_thread(k, t)
             k2 == [k1 EXCEPT !.prio[t] = p]
             old == k.prio[t]
  <2>1. Unlinked(k, t, k1) /\ BitCleared(k, t, k1)
    BY RemoveThread DEF KInv
  <2>2. r = rt_schedule_insert_thread(k2, t)
    BY <1>1 DEF rt_thread_change_priority
  <2> HIDE DEF k1, r
  <2>3. /\ k2 \in KernelState /\ k2.prio = [k.prio EXCEPT ![t] = p]
        /\ k2.ready = k1.ready /\ k2.group = k1.group /\ k2.wait = k1.wait
        /\ k2.stat = k.stat /\ k2.err = k.err /\ k2.timer = k.timer
        /\ k2.cur = k.cur /\ k2.nest = k.nest
    BY <2>1 DEF Unlinked, KernelState
  <2> HIDE DEF k2
  <2>4. NoDuplicates(k2)
    BY <2>1, <2>3 DEF Unlinked, NoDuplicates
  <2>5. \A x \in Prio : t \notin ToSet(k2.ready[x])
    BY <2>1, <2>3 DEF Unlinked
  <2>6. Inserted(k2, t, r)
    BY <2>2, <2>3, <2>4, <2>5, InsertThread
  <2>7. /\ r \in KernelState /\ NoDuplicates(r)
        /\ r.prio = [k.prio EXCEPT ![t] = p] /\ r.err = k.err
        /\ r.timer = k.timer /\ r.cur = k.cur /\ r.nest = k.nest
        /\ r.wait = k1.wait
    BY <2>3, <2>6 DEF Inserted
  <2>8. r.stat = k.stat
    BY <1>1, <1>t, <2>3, <2>6 DEF Inserted
  <2>9. r.wait = k.wait
    <3>1. \A q \in Queue : t \notin ToSet(k.wait[q])
      BY <1>1 DEF KInv, WaitLists
    <3>2. \A q \in Queue : r.wait[q] = k.wait[q]
      BY <2>1, <2>7, <3>1 DEF Unlinked
    <3> QED BY <1>t, <2>7, <3>2 DEF KernelState
  <2>10. k2.prio[t] = p
    BY <1>t, <2>3
  <2>11. \A x \in Prio : ToSet(r.ready[x]) =
            IF t # k.cur /\ x = p THEN (ToSet(k.ready[x]) \ {t}) \cup {t}
                                  ELSE ToSet(k.ready[x]) \ {t}
    <3>1. \A x \in Prio : ToSet(k2.ready[x]) = ToSet(k.ready[x]) \ {t}
      BY <2>1, <2>3 DEF Unlinked
    <3>2. \A x \in Prio : ToSet(r.ready[x]) =
            IF t # k.cur /\ x = p THEN ToSet(k2.ready[x]) \cup {t}
                                  ELSE ToSet(k2.ready[x])
      BY <2>3, <2>6, <2>10 DEF Inserted
    <3> QED BY <3>1, <3>2
  <2>12. \A u \in Thread, x \in Prio : u \in ToSet(k.ready[x]) <=>
            k.stat[u] = "ready" /\ k.prio[u] = x /\ u # k.cur
    BY DEF KInv, ReadyTable
  <2>13. ReadyTable(r)
    <3> SUFFICES ASSUME NEW u \in Thread, NEW x \in Prio
                 PROVE  u \in ToSet(r.ready[x]) <=>
                          k.stat[u] = "ready" /\ r.prio[u] = x /\ u # k.cur
      BY <2>7, <2>8 DEF ReadyTable
    <3>1. CASE u = t
      <4>1. r.prio[u] = p
        BY <1>t, <2>7, <3>1
      <4>2. u \in ToSet(r.ready[x]) <=> t # k.cur /\ x = p
        BY <2>11, <3>1
      <4> QED BY <1>1, <3>1, <4>1, <4>2
    <3>2. CASE u # t
      <4>1. r.prio[u] = k.prio[u]
        BY <1>t, <2>7, <3>2
      <4>2. u \in ToSet(r.ready[x]) <=> u \in ToSet(k.ready[x])
        BY <2>11, <3>2
      <4> QED BY <2>12, <4>1, <4>2
    <3> QED BY <3>1, <3>2
  <2>14. Bitmap(r)
    <3>1. \A x \in Prio : x \in k.group <=> ToSet(k.ready[x]) # {}
      BY BitmapSets DEF KInv
    <3>2. k1.group = IF ToSet(k.ready[old]) \ {t} = {}
                     THEN k.group \ {old} ELSE k.group
      BY <2>1 DEF BitCleared
    <3>3. r.group = IF t # k.cur THEN k1.group \cup {p} ELSE k1.group
      BY <2>3, <2>6, <2>10 DEF Inserted
    <3>4. \A x \in Prio : x # old => t \notin ToSet(k.ready[x])
      BY <2>12
    <3>5. \A x \in Prio : x \in k1.group <=> ToSet(k.ready[x]) \ {t} # {}
      BY <1>t, <3>1, <3>2, <3>4
    <3>6. \A x \in Prio : x \in r.group <=> ToSet(r.ready[x]) # {}
      BY <2>11, <3>3, <3>5
    <3> QED BY <2>7, <3>6, BitmapSets
  <2>15. WaitLists(r) /\ TimersOfSuspended(r)
    BY <2>7, <2>8, <2>9 DEF KInv, WaitLists, TimersOfSuspended
  <2> QED BY <2>7, <2>8, <2>9, <2>13, <2>14, <2>15 DEF KInv, r
<1>2. CASE k.stat[t] # "ready"
  <2>1. r = [k EXCEPT !.prio[t] = p]
    BY <1>2 DEF rt_thread_change_priority
  <2> HIDE DEF r
  <2>2. /\ r \in KernelState /\ r.prio = [k.prio EXCEPT ![t] = p]
        /\ r.stat = k.stat /\ r.err = k.err /\ r.wait = k.wait
        /\ r.ready = k.ready /\ r.group = k.group
        /\ r.timer = k.timer /\ r.cur = k.cur /\ r.nest = k.nest
    BY <2>1 DEF KernelState
  <2>3. ReadyTable(r)
    <3> SUFFICES ASSUME NEW u \in Thread, NEW x \in Prio
                 PROVE  u \in ToSet(k.ready[x]) <=>
                          k.stat[u] = "ready" /\ r.prio[u] = x /\ u # k.cur
      BY <2>2 DEF ReadyTable
    <3>1. k.stat[u] = "ready" => r.prio[u] = k.prio[u]
      BY <1>2, <1>t, <2>2
    <3> QED BY <3>1 DEF KInv, ReadyTable
  <2>4. KInv(r)
    BY <2>2, <2>3 DEF KInv, NoDuplicates, WaitLists, Bitmap, TimersOfSuspended
  <2> QED BY <2>2, <2>4 DEF r
<1> QED BY <1>1, <1>2
-----------------------------------------------------------------------------
(* rt_ipc_list_resume_all.                                                 *)

\* A finite set of natural numbers that is not empty has a greatest element.
LEMMA MaxElement ==
  ASSUME NEW n \in Nat, NEW s \in SUBSET (1 .. n), s # {}
  PROVE  Max(s) \in s
<1> DEFINE B == {n - x : x \in s}
<1>1. \A b \in B : b \in Nat
  OBVIOUS
<1>2. \A x \in s : n - x \in B
  OBVIOUS
<1>3. \A b \in B : \E x \in s : b = n - x
  OBVIOUS
<1>4. B # {}
  BY <1>2
<1> HIDE DEF B
<1>5. PICK b \in B : \A c \in B : b <= c
  BY <1>1, <1>4, LeastNat
<1>6. PICK x \in s : b = n - x
  BY <1>3
<1>7. ASSUME NEW y \in s PROVE x >= y
  <2>1. n - x <= n - y
    BY <1>2, <1>5, <1>6
  <2>2. x \in Int /\ y \in Int
    OBVIOUS
  <2> QED BY ONLY <2>1, <2>2, n \in Nat
<1> QED BY <1>6, <1>7 DEF Max

\* The kernel r after m of the waiters of q in k were resumed with an error.
ResumedTo(k, q, m, r) ==
  LET left == ToSet(r.wait[q])
      out  == ToSet(k.wait[q]) \ left
  IN /\ r \in KernelState /\ KInv(r)
     /\ Len(r.wait[q]) = Len(k.wait[q]) - m
     /\ left \subseteq ToSet(k.wait[q])
     /\ \A x \in Queue \ {q} : ToSet(r.wait[x]) = ToSet(k.wait[x])
     /\ r.stat = [t \in Thread |-> IF t \in out THEN "ready" ELSE k.stat[t]]
     /\ r.err = [t \in Thread |-> IF t \in out THEN "error" ELSE k.err[t]]
     /\ r.timer = k.timer \ out
     /\ r.prio = k.prio /\ r.cur = k.cur /\ r.nest = k.nest

\* One more turn of the loop.
LEMMA ResumeTurn ==
  ASSUME NEW k \in KernelState, KInv(k), NEW q \in Queue, NEW m \in Nat,
         m < Len(k.wait[q]), NEW r, ResumedTo(k, q, m, r)
  PROVE  ResumedTo(k, q, m + 1, rt_ipc_list_resume_all_turn(r, q))
<1> DEFINE w  == Head(r.wait[q])
           r1 == [r EXCEPT !.err[w] = "error"]
           n  == rt_ipc_list_resume_all_turn(r, q)
<1>1. /\ r \in KernelState /\ KInv(r)
      /\ Len(r.wait[q]) = Len(k.wait[q]) - m
      /\ ToSet(r.wait[q]) \subseteq ToSet(k.wait[q])
      /\ \A x \in Queue \ {q} : ToSet(r.wait[x]) = ToSet(k.wait[x])
      /\ r.prio = k.prio /\ r.cur = k.cur /\ r.nest = k.nest
  BY DEF ResumedTo
<1>2. r.wait[q] \in Seq(Thread) /\ k.wait[q] \in Seq(Thread)
      /\ r.stat \in [Thread -> Stat] /\ r.err \in [Thread -> Err]
  BY <1>1 DEF KernelState
<1>3. Len(r.wait[q]) \in Nat /\ Len(r.wait[q]) # 0 /\ Len(k.wait[q]) \in Nat
  BY <1>1, <1>2
<1>4. w \in ToSet(r.wait[q]) /\ w \in Thread
  <2>1. r.wait[q] # << >>
    BY <1>3
  <2>2. ToSet(r.wait[q]) # {}
    BY <1>2, <2>1, EmptyList
  <2> QED BY <1>2, <2>2, HeadInList
<1>5. n = rt_thread_resume(r1, w)
  BY DEF rt_ipc_list_resume_all_turn
<1> HIDE DEF w, n
<1>6. /\ r1 \in KernelState /\ KInv(r1) /\ r1.stat = r.stat
      /\ r1.wait = r.wait /\ r1.timer = r.timer /\ r1.prio = r.prio
      /\ r1.cur = r.cur /\ r1.nest = r.nest
      /\ r1.err = [r.err EXCEPT ![w] = "error"]
  BY <1>1, <1>4, SetError DEF Err
<1> HIDE DEF r1
<1>7. r.stat[w] = "suspend"
  BY <1>1, <1>4 DEF KInv, WaitLists
<1>8. WokenUp(r1, w, n)
  BY <1>4, <1>5, <1>6, <1>7, ResumeKeeps
<1>9. /\ n \in KernelState /\ KInv(n)
      /\ ToSet(n.wait[q]) = ToSet(r.wait[q]) \ {w}
      /\ \A x \in Queue \ {q} : ToSet(n.wait[x]) = ToSet(r.wait[x]) \ {w}
      /\ n.wait[q] = Unlink(r.wait[q], w)
      /\ n.stat = [r.stat EXCEPT ![w] = "ready"]
      /\ n.err = [r.err EXCEPT ![w] = "error"]
      /\ n.timer = r.timer \ {w}
      /\ n.prio = k.prio /\ n.cur = k.cur /\ n.nest = k.nest
  BY <1>1, <1>6, <1>8 DEF WokenUp
<1>10. Len(n.wait[q]) = Len(k.wait[q]) - (m + 1)
  <2>1. IsInjective(r.wait[q])
    BY <1>1 DEF KInv, NoDuplicates
  <2>2. Len(Unlink(r.wait[q], w)) = Len(r.wait[q]) - 1
    BY <1>2, <1>4, <2>1, UnlinkLength
  <2>3. Len(n.wait[q]) = Len(r.wait[q]) - 1
    BY <1>9, <2>2
  <2>4. Len(r.wait[q]) = Len(k.wait[q]) - m
    BY <1>1
  <2> QED BY ONLY <1>3, <2>3, <2>4, m \in Nat
<1>11. \A x \in Queue \ {q} : ToSet(n.wait[x]) = ToSet(k.wait[x])
  <2> SUFFICES ASSUME NEW x \in Queue \ {q}
               PROVE  ToSet(n.wait[x]) = ToSet(k.wait[x])
    OBVIOUS
  <2>1. w \notin ToSet(r.wait[x])
    BY <1>1, <1>4 DEF KInv, WaitLists
  <2>2. /\ ToSet(n.wait[x]) = ToSet(r.wait[x]) \ {w}
        /\ ToSet(r.wait[x]) = ToSet(k.wait[x])
    BY <1>1, <1>9
  <2> QED BY ONLY <2>1, <2>2
<1>12. n.stat = [t \in Thread |->
                   IF t \in ToSet(k.wait[q]) \ ToSet(n.wait[q])
                   THEN "ready" ELSE k.stat[t]]
  <2>1. r.stat = [t \in Thread |->
                    IF t \in ToSet(k.wait[q]) \ ToSet(r.wait[q])
                    THEN "ready" ELSE k.stat[t]]
    BY DEF ResumedTo
  <2> QED BY ONLY <1>1, <1>4, <1>9, <2>1
<1>13. n.err = [t \in Thread |->
                  IF t \in ToSet(k.wait[q]) \ ToSet(n.wait[q])
                  THEN "error" ELSE k.err[t]]
  <2>1. r.err = [t \in Thread |->
                   IF t \in ToSet(k.wait[q]) \ ToSet(r.wait[q])
                   THEN "error" ELSE k.err[t]]
    BY DEF ResumedTo
  <2> QED BY ONLY <1>1, <1>4, <1>9, <2>1
<1>14. n.timer = k.timer \ (ToSet(k.wait[q]) \ ToSet(n.wait[q]))
  <2>1. r.timer = k.timer \ (ToSet(k.wait[q]) \ ToSet(r.wait[q]))
    BY DEF ResumedTo
  <2> QED BY ONLY <1>1, <1>4, <1>9, <2>1
<1>15. ToSet(n.wait[q]) \subseteq ToSet(k.wait[q])
  BY <1>1, <1>9
<1>16. ResumedTo(k, q, m + 1, n)
  BY <1>9, <1>10, <1>11, <1>12, <1>13, <1>14, <1>15 DEF ResumedTo
<1> QED BY <1>16 DEF n
\* What the loop amounts to: everybody in the list is ready with an error, and
\* the list is empty.
LEMMA ResumeAllKeeps ==
  ASSUME NEW k \in KernelState, KInv(k), NEW q \in Queue
  PROVE  LET r == rt_ipc_list_resume_all(k, q)
             W == ToSet(k.wait[q])
         IN /\ r \in KernelState /\ KInv(r)
            /\ ToSet(r.wait[q]) = {}
            /\ \A x \in Queue \ {q} : ToSet(r.wait[x]) = ToSet(k.wait[x])
            /\ r.stat = [t \in Thread |->
                           IF t \in W THEN "ready" ELSE k.stat[t]]
            /\ r.err = [t \in Thread |-> IF t \in W THEN "error" ELSE k.err[t]]
            /\ r.timer = k.timer \ W
            /\ r.prio = k.prio /\ r.cur = k.cur /\ r.nest = k.nest
<1> DEFINE n == Len(k.wait[q])
           D == 1 .. n
           turn(r) == rt_ipc_list_resume_all_turn(r, q)
           Iter(h) == [s \in SUBSET D |->
                         IF s = {} THEN k
                         ELSE LET x == Max(s) IN turn(h[s \ {x}])]
           c == [s \in SUBSET D |-> Max(s)]
           g == [p \in D \X KernelState |->
                   IF turn(p[2]) \in KernelState THEN turn(p[2]) ELSE k]
<1>1. k.wait[q] \in Seq(Thread) /\ n \in Nat /\ DOMAIN k.wait[q] = D
  BY DEF KernelState
<1>2. IsFiniteSet(D) /\ Cardinality(D) = n
  BY <1>1, FS_Interval
<1>3. ASSUME NEW s \in SUBSET D
      PROVE  /\ IsFiniteSet(s) /\ Cardinality(s) \in Nat /\ Cardinality(s) <= n
             /\ s # {} => /\ Max(s) \in s /\ s \ {Max(s)} \in SUBSET D
                          /\ Cardinality(s \ {Max(s)}) = Cardinality(s) - 1
  <2>1. IsFiniteSet(s) /\ Cardinality(s) \in Nat /\ Cardinality(s) <= n
    BY <1>2, FS_Subset, FS_CardinalityType
  <2>2. s # {} => Max(s) \in s
    BY <1>1, MaxElement
  <2>3. \A x \in s : Cardinality(s \ {x}) = Cardinality(s) - 1
    BY <2>1, FS_RemoveElement
  <2> QED BY <2>1, <2>2, <2>3
<1>4. ResumedTo(k, q, 0, k)
  <2> DEFINE out == ToSet(k.wait[q]) \ ToSet(k.wait[q])
  <2>1. out = {}
    OBVIOUS
  <2>2. k.stat \in [Thread -> Stat] /\ k.err \in [Thread -> Err]
    BY DEF KernelState
  <2> QED BY <1>1, <2>1, <2>2 DEF ResumedTo
<1> HIDE DEF n
<1>5. ASSUME NEW s \in SUBSET D, s # {}, NEW r,
             ResumedTo(k, q, Cardinality(s \ {Max(s)}), r)
      PROVE  ResumedTo(k, q, Cardinality(s), turn(r))
  <2>1. /\ Cardinality(s) \in Nat /\ Cardinality(s) <= n /\ n \in Nat
        /\ Cardinality(s \ {Max(s)}) = Cardinality(s) - 1
        /\ Cardinality(s \ {Max(s)}) \in Nat
    BY <1>1, <1>3, <1>5
  <2> DEFINE m == Cardinality(s \ {Max(s)})
  <2> HIDE DEF m
  <2>2. m \in Nat /\ m < n /\ m + 1 = Cardinality(s)
    BY <2>1 DEF m
  <2>3. ResumedTo(k, q, m, r)
    BY <1>5 DEF m
  <2>4. ResumedTo(k, q, m + 1, turn(r))
    BY <2>2, <2>3, ResumeTurn DEF n
  <2> QED BY <2>2, <2>4
<1>6. PICK h \in [SUBSET D -> KernelState] : FoldOf(h, D, k, c, g)
  <2>1. \A s \in SUBSET D : s # {} => c[s] \in s
    BY <1>3
  <2>2. g \in [D \X KernelState -> KernelState]
    OBVIOUS
  <2> HIDE DEF c, g, D
  <2> QED BY <1>2, <2>1, <2>2, FoldExists
<1>7. ASSUME NEW s \in SUBSET D
      PROVE  /\ s = {} => h[s] = k
             /\ s # {} /\ turn(h[s \ {Max(s)}]) \in KernelState =>
                  h[s] = turn(h[s \ {Max(s)}])
  <2>1. h[s] = IF s = {} THEN k ELSE g[<<c[s], h[s \ {c[s]}]>>]
    BY <1>6 DEF FoldOf
  <2>2. CASE s # {}
    <3>1. c[s] = Max(s) /\ c[s] \in D /\ h[s \ {c[s]}] \in KernelState
      BY <1>3, <1>6, <2>2
    <3> HIDE DEF c
    <3> DEFINE p == <<c[s], h[s \ {c[s]}]>>
    <3>2. p \in D \X KernelState /\ p[2] = h[s \ {c[s]}]
      BY <3>1
    <3> HIDE DEF p
    <3>3. g[p] = IF turn(p[2]) \in KernelState THEN turn(p[2]) ELSE k
      BY <3>2
    <3>4. g[<<c[s], h[s \ {c[s]}]>>] = g[p]
      BY DEF p
    <3> QED BY <2>1, <2>2, <3>1, <3>2, <3>3, <3>4
  <2> QED BY <2>1, <2>2
<1> HIDE DEF c, g
<1>8. \A s \in SUBSET D : ResumedTo(k, q, Cardinality(s), h[s])
  <2> DEFINE B == {s \in SUBSET D : ~ResumedTo(k, q, Cardinality(s), h[s])}
  <2> SUFFICES ASSUME B # {} PROVE FALSE
    OBVIOUS
  <2>1. PICK s \in B : \A x \in s : s \ {x} \notin B
    <3>1. B \in SUBSET (SUBSET D)
      OBVIOUS
    <3> HIDE DEF B, D
    <3> QED BY <1>2, <3>1, SmallestSubset
  <2>2. CASE s = {}
    <3>1. Cardinality(s) = 0
      BY <2>2, FS_EmptySet
    <3> QED BY <1>4, <1>7, <2>1, <2>2, <3>1
  <2>3. CASE s # {}
    <3>1. ResumedTo(k, q, Cardinality(s \ {Max(s)}), h[s \ {Max(s)}])
      BY <1>3, <2>1, <2>3
    <3>2. ResumedTo(k, q, Cardinality(s), turn(h[s \ {Max(s)}]))
      BY <1>5, <2>1, <2>3, <3>1
    <3>3. turn(h[s \ {Max(s)}]) \in KernelState
      BY <3>2 DEF ResumedTo
    <3> QED BY <1>7, <2>1, <2>3, <3>2, <3>3
  <2> QED BY <2>2, <2>3
<1>9. h = Iter(h)
  <2>1. ASSUME NEW s \in SUBSET D, s # {}
        PROVE  turn(h[s \ {Max(s)}]) \in KernelState
    <3>1. ResumedTo(k, q, Cardinality(s \ {Max(s)}), h[s \ {Max(s)}])
      BY <1>3, <1>8, <2>1
    <3>2. ResumedTo(k, q, Cardinality(s), turn(h[s \ {Max(s)}]))
      BY <1>5, <2>1, <3>1
    <3> QED BY <3>2 DEF ResumedTo
  <2> QED BY <1>6, <1>7, <2>1
<1> DEFINE i == CHOOSE i : i = Iter(i)
<1>10. i = Iter(i)
  BY <1>9
<1>11. rt_ipc_list_resume_all(k, q) = i[D]
  <2>1. rt_ipc_list_resume_all(k, q) =
          LET iter[s \in SUBSET DOMAIN k.wait[q]] ==
                IF s = {} THEN k
                ELSE LET x == Max(s)
                     IN rt_ipc_list_resume_all_turn(iter[s \ {x}], q)
          IN iter[DOMAIN k.wait[q]]
    BY DEF rt_ipc_list_resume_all, FoldLeft, MapThenFoldSet
  <2> QED BY <1>1, <2>1
<1>12. \A s \in SUBSET D : i[s] = h[s]
  <2> DEFINE B == {s \in SUBSET D : i[s] # h[s]}
  <2> SUFFICES ASSUME B # {} PROVE FALSE
    OBVIOUS
  <2>1. PICK s \in B : \A x \in s : s \ {x} \notin B
    <3>1. B \in SUBSET (SUBSET D)
      OBVIOUS
    <3> HIDE DEF B, D
    <3> QED BY <1>2, <3>1, SmallestSubset
  <2> HIDE DEF i
  <2>2. /\ i[s] = IF s = {} THEN k ELSE turn(i[s \ {Max(s)}])
        /\ h[s] = IF s = {} THEN k ELSE turn(h[s \ {Max(s)}])
    BY <1>9, <1>10, <2>1
  <2>3. s # {} => i[s \ {Max(s)}] = h[s \ {Max(s)}]
    BY <1>3, <2>1
  <2> QED BY <2>1, <2>2, <2>3
<1> DEFINE r == rt_ipc_list_resume_all(k, q)
           W == ToSet(k.wait[q])
<1>13. ResumedTo(k, q, n, r)
  BY <1>2, <1>8, <1>11, <1>12
<1> HIDE DEF r
<1>14. ToSet(r.wait[q]) = {}
  <2>1. r.wait[q] \in Seq(Thread) /\ Len(r.wait[q]) = n - n
    BY <1>13 DEF ResumedTo, KernelState, n
  <2>2. Len(r.wait[q]) = 0
    BY <1>1, <2>1
  <2>3. r.wait[q] = << >>
    BY <2>1, <2>2
  <2> QED BY <2>1, <2>3, EmptyList
<1>15. ToSet(k.wait[q]) \ ToSet(r.wait[q]) = W
  BY <1>14
<1> QED BY <1>13, <1>14, <1>15 DEF ResumedTo, r

-----------------------------------------------------------------------------
(* Loops over a list, as FoldLeft computes them.                           *)

\* The function h gives the result of the loop for every subset of the positions
\* 1 .. n; the loop takes the last position last.
LoopOf(h, n, V, base, g) ==
  \A s \in SUBSET (1 .. n) :
    /\ s = {} => h[s] = base
    /\ s # {} => /\ Max(s) \in s /\ s \ {Max(s)} \in SUBSET (1 .. n)
                 /\ h[s \ {Max(s)}] \in V
                 /\ h[s] = g[<<Max(s), h[s \ {Max(s)}]>>]

\* There is such a function.
LEMMA LoopExists ==
  ASSUME NEW n \in Nat, NEW V, NEW base \in V, NEW g \in [(1 .. n) \X V -> V]
  PROVE  \E h \in [SUBSET (1 .. n) -> V] : LoopOf(h, n, V, base, g)
<1> DEFINE D == 1 .. n
           c == [s \in SUBSET D |-> Max(s)]
<1>1. IsFiniteSet(D)
  BY FS_Interval
<1>2. \A s \in SUBSET D : s # {} => Max(s) \in s
  BY MaxElement
<1>3. \A s \in SUBSET D : c[s] = Max(s)
  OBVIOUS
<1>4. \A s \in SUBSET D : s # {} => c[s] \in s
  BY <1>2, <1>3
<1>5. g \in [D \X V -> V] /\ base \in V
  OBVIOUS
<1> HIDE DEF c, D
<1>6. PICK h \in [SUBSET D -> V] : FoldOf(h, D, base, c, g)
  BY ONLY <1>1, <1>4, <1>5, FoldExists
<1>7. ASSUME NEW s \in SUBSET D
      PROVE  /\ s = {} => h[s] = base
             /\ s # {} => /\ Max(s) \in s /\ s \ {Max(s)} \in SUBSET D
                          /\ h[s \ {Max(s)}] \in V
                          /\ h[s] = g[<<Max(s), h[s \ {Max(s)}]>>]
  <2>1. h[s] = IF s = {} THEN base ELSE g[<<c[s], h[s \ {c[s]}]>>]
    BY <1>6 DEF FoldOf
  <2> QED BY <1>2, <1>3, <2>1
<1>8. LoopOf(h, n, V, base, g)
  BY <1>7 DEF LoopOf, D
<1> QED BY <1>8 DEF D

\* The function i goes on where it agrees with h.
Follows(i, h, n, base) ==
  /\ i[{}] = base
  /\ \A s \in SUBSET (1 .. n) :
       s # {} /\ i[s \ {Max(s)}] = h[s \ {Max(s)}] => i[s] = h[s]

\* A function i that combines in the same way what h agrees with is that function.
LEMMA LoopUnique ==
  ASSUME NEW n \in Nat, NEW V, NEW base, NEW g, NEW h, LoopOf(h, n, V, base, g),
         NEW i, Follows(i, h, n, base)
  PROVE  i[1 .. n] = h[1 .. n]
<1> DEFINE D == 1 .. n
           B == {s \in SUBSET D : i[s] # h[s]}
<1> SUFFICES ASSUME B # {} PROVE FALSE
  OBVIOUS
<1>1. PICK s \in B : \A x \in s : s \ {x} \notin B
  <2>1. B \in SUBSET (SUBSET D) /\ IsFiniteSet(D)
    BY FS_Interval
  <2> HIDE DEF B, D
  <2> QED BY <2>1, SmallestSubset
<1>2. s # {}
  BY <1>1 DEF LoopOf, Follows
<1>3. Max(s) \in s /\ s \ {Max(s)} \in SUBSET D
  BY <1>1, <1>2 DEF LoopOf
<1>4. i[s \ {Max(s)}] = h[s \ {Max(s)}]
  BY <1>1, <1>3
<1> QED BY <1>1, <1>2, <1>4 DEF Follows

\* The relation R between the turns done and the state holds before the loop, and
\* every turn keeps it.
LoopInvariant(R, n, V, base, g) ==
  /\ <<{}, base>> \in R
  /\ \A p \in SUBSET (1 .. n), r \in V :
       p # {} /\ <<p \ {Max(p)}, r>> \in R => <<p, g[<<Max(p), r>>]>> \in R

\* i[p] is the state after the turns of p.
Turns(i, n, V, base, g) ==
  /\ i[{}] = base
  /\ \A p \in SUBSET (1 .. n) :
       p # {} /\ i[p \ {Max(p)}] \in V =>
         i[p] = g[<<Max(p), i[p \ {Max(p)}]>>]

\* It holds after the loop.
LEMMA LoopKeeps ==
  ASSUME NEW n \in Nat, NEW V, NEW base, NEW g,
         NEW R \in SUBSET ((SUBSET (1 .. n)) \X V),
         LoopInvariant(R, n, V, base, g), NEW i, Turns(i, n, V, base, g)
  PROVE  <<1 .. n, i[1 .. n]>> \in R
<1> DEFINE D == 1 .. n
           B == {p \in SUBSET D : <<p, i[p]>> \notin R}
<1> SUFFICES ASSUME B # {} PROVE FALSE
  OBVIOUS
<1>1. PICK p \in B : \A x \in p : p \ {x} \notin B
  <2>1. B \in SUBSET (SUBSET D) /\ IsFiniteSet(D)
    BY FS_Interval
  <2> HIDE DEF B, D
  <2> QED BY <2>1, SmallestSubset
<1>2. p # {}
  BY <1>1 DEF LoopInvariant, Turns
<1>3. Max(p) \in p /\ p \ {Max(p)} \in SUBSET D
  BY <1>1, <1>2, MaxElement
<1>4. <<p \ {Max(p)}, i[p \ {Max(p)}]>> \in R
  BY <1>1, <1>3
<1>5. i[p \ {Max(p)}] \in V
  BY <1>4
<1>6. i[p] = g[<<Max(p), i[p \ {Max(p)}]>>]
  BY <1>1, <1>2, <1>5 DEF Turns
<1>7. <<p, i[p]>> \in R
  BY <1>1, <1>2, <1>4, <1>5, <1>6 DEF LoopInvariant
<1> QED BY <1>1, <1>7

-----------------------------------------------------------------------------
(* Threads that are being deleted: unlinked, with no timer, and not closed *)
(* yet.  The threads that live have a sound kernel, Live, in which those   *)
(* are closed and the dead threads are in no list.                         *)

\* m is k without the threads of D, which are being deleted, and without the
\* lists the dead threads are in.
Seen(k, D, m) ==
  /\ k \in KernelState /\ NoDuplicates(k)
  /\ m \in KernelState /\ NoDuplicates(m)
  /\ m.stat = [t \in Thread |-> IF t \in D THEN "close" ELSE k.stat[t]]
  /\ m.wait = [q \in Queue |-> << >>]
  /\ m.ready = k.ready /\ m.group = k.group /\ m.prio = k.prio
  /\ m.err = k.err /\ m.timer = k.timer /\ m.cur = k.cur /\ m.nest = k.nest

\* Every field of the state after rt_schedule_insert_thread.
InsertedFields(k, t, r) ==
  /\ r.stat = [k.stat EXCEPT ![t] = "ready"]
  /\ r.ready = IF t = k.cur THEN k.ready
               ELSE [k.ready EXCEPT ![k.prio[t]] = Append(@, t)]
  /\ r.group = IF t = k.cur THEN k.group ELSE k.group \cup {k.prio[t]}
  /\ r.wait = k.wait /\ r.prio = k.prio /\ r.err = k.err
  /\ r.timer = k.timer /\ r.cur = k.cur /\ r.nest = k.nest

LEMMA InsertFields ==
  ASSUME NEW k \in KernelState, NEW t \in Thread,
         NEW r, r = rt_schedule_insert_thread(k, t)
  PROVE  InsertedFields(k, t, r)
<1>1. CASE t = k.cur
  BY <1>1 DEF rt_schedule_insert_thread, KernelState, InsertedFields
<1>2. CASE t # k.cur
  BY <1>2 DEF rt_schedule_insert_thread, KernelState, InsertedFields
<1> QED BY <1>1, <1>2

\* Every field of the state after rt_list_remove, and after
\* rt_schedule_remove_thread.
RemovedFields(k, t, r) ==
  /\ r.ready = [p \in Prio |-> Unlink(k.ready[p], t)]
  /\ r.wait = [q \in Queue |-> Unlink(k.wait[q], t)]
  /\ r.stat = k.stat /\ r.prio = k.prio /\ r.err = k.err
  /\ r.timer = k.timer /\ r.cur = k.cur /\ r.nest = k.nest

RemovedBit(k, t, r) ==
  r.group = IF r.ready[k.prio[t]] = << >> THEN k.group \ {k.prio[t]}
            ELSE k.group

LEMMA ListRemoveFields ==
  ASSUME NEW k \in KernelState, NEW t \in Thread,
         NEW r, r = rt_list_remove(k, t)
  PROVE  RemovedFields(k, t, r) /\ r.group = k.group
BY DEF rt_list_remove, KernelState, RemovedFields

LEMMA RemoveFields ==
  ASSUME NEW k \in KernelState, NEW t \in Thread, NoDuplicates(k),
         NEW r, r = rt_schedule_remove_thread(k, t)
  PROVE  RemovedFields(k, t, r) /\ RemovedBit(k, t, r)
<1>1. PICK k1 : k1 = rt_list_remove(k, t)
  OBVIOUS
<1>2. RemovedFields(k, t, k1) /\ k1.group = k.group
  BY ONLY <1>1, ListRemoveFields, k \in KernelState, t \in Thread
<1>3. k1 \in KernelState
  BY <1>1, ListRemove DEF Unlinked
<1>4. r = IF k1.ready[k.prio[t]] = << >>
          THEN [k1 EXCEPT !.group = @ \ {k.prio[t]}] ELSE k1
  BY <1>1 DEF rt_schedule_remove_thread
<1>5. /\ r.ready = k1.ready /\ r.wait = k1.wait
      /\ r.group = IF k1.ready[k.prio[t]] = << >>
                   THEN k1.group \ {k.prio[t]} ELSE k1.group
      /\ r.stat = k1.stat /\ r.prio = k1.prio /\ r.err = k1.err
      /\ r.timer = k1.timer /\ r.cur = k1.cur /\ r.nest = k1.nest
  BY <1>3, <1>4 DEF KernelState
<1> QED BY ONLY <1>2, <1>5 DEF RemovedFields, RemovedBit

\* A list that the thread is not in does not change.
LEMMA UnlinkOther ==
  ASSUME NEW s, NEW t, t \notin ToSet(s)
  PROVE  Unlink(s, t) = s
BY DEF Unlink

\* t is in no wait list of k.
Lone(k, t) == \A q \in Queue : t \notin ToSet(k.wait[q])

LEMMA RemovedWait ==
  ASSUME NEW k \in KernelState, NEW t \in Thread, Lone(k, t),
         NEW r, RemovedFields(k, t, r)
  PROVE  r.wait = k.wait
<1>1. k.wait \in [Queue -> Seq(Thread)]
  BY DEF KernelState
<1>2. \A q \in Queue : Unlink(k.wait[q], t) = k.wait[q]
  BY UnlinkOther DEF Lone
<1>3. r.wait = [q \in Queue |-> k.wait[q]]
  BY <1>2 DEF RemovedFields
<1> QED BY <1>1, <1>3

LEMMA EmptyFree ==
  ASSUME NEW m, m.wait = [q \in Queue |-> << >>], NEW t
  PROVE  Lone(m, t)
BY DEF Lone, ToSet

\* The functions do the same to k and to m.
LEMMA SeenInsert ==
  ASSUME NEW k, NEW D, NEW m, Seen(k, D, m), NEW t \in Thread, t \notin D,
         \A p \in Prio : t \notin ToSet(k.ready[p]),
         NEW r, r = rt_schedule_insert_thread(k, t),
         NEW n, n = rt_schedule_insert_thread(m, t)
  PROVE  /\ Seen(r, D, n) /\ r.wait = k.wait /\ r.cur = k.cur
         /\ r.stat = [k.stat EXCEPT ![t] = "ready"]
<1>1. /\ k \in KernelState /\ NoDuplicates(k)
      /\ m \in KernelState /\ NoDuplicates(m) /\ m.ready = k.ready
  BY DEF Seen
<1>2. InsertedFields(k, t, r) /\ InsertedFields(m, t, n)
  BY <1>1, InsertFields
<1>3. Inserted(k, t, r)
  BY <1>1, InsertThread
<1>4. Inserted(m, t, n)
  BY <1>1, InsertThread
<1>5. /\ r \in KernelState /\ NoDuplicates(r)
      /\ n \in KernelState /\ NoDuplicates(n)
  BY ONLY <1>3, <1>4 DEF Inserted
<1>6. r.stat = [k.stat EXCEPT ![t] = "ready"]
      /\ n.stat = [m.stat EXCEPT ![t] = "ready"]
  BY ONLY <1>2 DEF InsertedFields
<1>7. n.stat = [u \in Thread |-> IF u \in D THEN "close" ELSE r.stat[u]]
  <2>1. k.stat \in [Thread -> Stat]
    BY <1>1 DEF KernelState
  <2>2. m.stat = [u \in Thread |-> IF u \in D THEN "close" ELSE k.stat[u]]
    BY DEF Seen
  <2> QED BY ONLY <2>1, <2>2, <1>6, t \in Thread, t \notin D
<1>8. /\ n.wait = [q \in Queue |-> << >>]
      /\ n.ready = r.ready /\ n.group = r.group /\ n.prio = r.prio
      /\ n.err = r.err /\ n.timer = r.timer /\ n.cur = r.cur /\ n.nest = r.nest
  BY ONLY <1>2, Seen(k, D, m) DEF InsertedFields, Seen
<1>9. r.wait = k.wait /\ r.cur = k.cur
  BY ONLY <1>2 DEF InsertedFields
<1>10. Seen(r, D, n)
  BY ONLY <1>5, <1>7, <1>8 DEF Seen
<1> QED BY ONLY <1>6, <1>9, <1>10

LEMMA SeenListRemove ==
  ASSUME NEW k, NEW D, NEW m, Seen(k, D, m), NEW t \in Thread, Lone(k, t),
         NEW r, r = rt_list_remove(k, t),
         NEW n, n = rt_list_remove(m, t)
  PROVE  /\ Seen(r, D, n) /\ r.wait = k.wait /\ r.cur = k.cur
         /\ r.stat = k.stat
         /\ \A p \in Prio : t \notin ToSet(r.ready[p])
<1>1. /\ k \in KernelState /\ NoDuplicates(k)
      /\ m \in KernelState /\ NoDuplicates(m)
      /\ m.wait = [q \in Queue |-> << >>]
  BY DEF Seen
<1>2. /\ RemovedFields(k, t, r) /\ r.group = k.group
      /\ RemovedFields(m, t, n) /\ n.group = m.group
  BY <1>1, ListRemoveFields
<1>3. Unlinked(k, t, r) /\ Unlinked(m, t, n)
  BY <1>1, ListRemove
<1>4. /\ r \in KernelState /\ NoDuplicates(r)
      /\ n \in KernelState /\ NoDuplicates(n)
  BY ONLY <1>3 DEF Unlinked
<1>5. r.wait = k.wait
  BY <1>1, <1>2, RemovedWait
<1>6. n.wait = m.wait
  BY <1>1, <1>2, EmptyFree, RemovedWait
<1>7. Seen(r, D, n)
  BY ONLY <1>1, <1>2, <1>4, <1>6, Seen(k, D, m) DEF RemovedFields, Seen
<1>8. r.stat = k.stat /\ r.cur = k.cur
  BY ONLY <1>2 DEF RemovedFields
<1>9. \A p \in Prio : t \notin ToSet(r.ready[p])
  BY ONLY <1>3 DEF Unlinked
<1> QED BY ONLY <1>5, <1>7, <1>8, <1>9

LEMMA SeenRemove ==
  ASSUME NEW k, NEW D, NEW m, Seen(k, D, m), NEW t \in Thread, Lone(k, t),
         NEW r, r = rt_schedule_remove_thread(k, t),
         NEW n, n = rt_schedule_remove_thread(m, t)
  PROVE  /\ Seen(r, D, n) /\ r.wait = k.wait /\ r.cur = k.cur
         /\ r.stat = k.stat
<1>1. /\ k \in KernelState /\ NoDuplicates(k)
      /\ m \in KernelState /\ NoDuplicates(m)
      /\ m.wait = [q \in Queue |-> << >>]
  BY DEF Seen
<1>2. /\ RemovedFields(k, t, r) /\ RemovedBit(k, t, r)
      /\ RemovedFields(m, t, n) /\ RemovedBit(m, t, n)
  BY <1>1, RemoveFields
<1>3. Unlinked(k, t, r) /\ Unlinked(m, t, n)
  BY <1>1, RemoveThread
<1>4. /\ r \in KernelState /\ NoDuplicates(r)
      /\ n \in KernelState /\ NoDuplicates(n)
  BY ONLY <1>3 DEF Unlinked
<1>5. r.wait = k.wait
  BY <1>1, <1>2, RemovedWait
<1>6. n.wait = m.wait
  BY <1>1, <1>2, EmptyFree, RemovedWait
<1>7. n.ready = r.ready /\ n.group = r.group
  BY ONLY <1>2, Seen(k, D, m) DEF RemovedFields, RemovedBit, Seen
<1>8. Seen(r, D, n)
  BY ONLY <1>1, <1>2, <1>4, <1>6, <1>7, Seen(k, D, m) DEF RemovedFields, Seen
<1>9. r.stat = k.stat /\ r.cur = k.cur
  BY ONLY <1>2 DEF RemovedFields
<1> QED BY ONLY <1>5, <1>8, <1>9

-----------------------------------------------------------------------------
\* The kernel as the living threads know it is sound.
Live(k, D) == \E m : Seen(k, D, m) /\ KInv(m)

\* The threads in the lists are dead.
Parked(k) == \A q \in Queue : \A t \in ToSet(k.wait[q]) : k.stat[t] = "close"

LEMMA LiveFacts ==
  ASSUME NEW k, NEW D, Live(k, D)
  PROVE  /\ k \in KernelState /\ NoDuplicates(k) /\ Bitmap(k)
         /\ \A t \in Thread, p \in Prio :
              t \in ToSet(k.ready[p]) <=>
                k.stat[t] = "ready" /\ t \notin D /\ k.prio[t] = p /\ t # k.cur
         /\ \A t \in k.timer : k.stat[t] = "suspend" /\ t \notin D
<1>1. PICK m : Seen(k, D, m) /\ KInv(m)
  BY DEF Live
<1>2. /\ k \in KernelState /\ NoDuplicates(k) /\ Bitmap(k)
  BY <1>1 DEF Seen, KInv, Bitmap
<1>3. \A t \in Thread : m.stat[t] = IF t \in D THEN "close" ELSE k.stat[t]
  BY <1>1 DEF Seen
<1>4. \A t \in Thread, p \in Prio :
         t \in ToSet(k.ready[p]) <=>
           m.stat[t] = "ready" /\ k.prio[t] = p /\ t # k.cur
  BY <1>1 DEF Seen, KInv, ReadyTable
<1>5. \A t \in k.timer : m.stat[t] = "suspend" /\ t \in Thread
  BY <1>1 DEF Seen, KInv, TimersOfSuspended, KernelState
<1> QED BY ONLY <1>2, <1>3, <1>4, <1>5

LEMMA SeenSwitch ==
  ASSUME NEW k, NEW D, NEW m, Seen(k, D, m), NEW t \in Thread,
         NEW r, r = [k EXCEPT !.cur = t],
         NEW n, n = [m EXCEPT !.cur = t]
  PROVE  /\ Seen(r, D, n) /\ r.stat = k.stat /\ r.wait = k.wait
         /\ r.ready = k.ready /\ r.cur = t
<1>1. /\ k \in KernelState /\ NoDuplicates(k)
      /\ m \in KernelState /\ NoDuplicates(m)
  BY DEF Seen
<1>2. /\ r \in KernelState /\ r.stat = k.stat /\ r.wait = k.wait
      /\ r.ready = k.ready /\ r.cur = t /\ r.group = k.group
      /\ r.prio = k.prio /\ r.err = k.err /\ r.timer = k.timer
      /\ r.nest = k.nest
  BY <1>1 DEF KernelState
<1>3. /\ n \in KernelState /\ n.stat = m.stat /\ n.wait = m.wait
      /\ n.ready = m.ready /\ n.cur = t /\ n.group = m.group
      /\ n.prio = m.prio /\ n.err = m.err /\ n.timer = m.timer
      /\ n.nest = m.nest
  BY <1>1 DEF KernelState
<1>4. NoDuplicates(r) /\ NoDuplicates(n)
  BY ONLY <1>1, <1>2, <1>3 DEF NoDuplicates
<1>5. Seen(r, D, n)
  BY ONLY <1>2, <1>3, <1>4, Seen(k, D, m) DEF Seen
<1> QED BY ONLY <1>2, <1>5

LEMMA SeenSchedule ==
  ASSUME NEW k, NEW D, NEW m, Seen(k, D, m), KInv(m), k.cur \notin D,
         Parked(k),
         NEW r, r = rt_schedule(k),
         NEW n, n = rt_schedule(m)
  PROVE  Seen(r, D, n) /\ r.wait = k.wait /\ r.stat = k.stat
<1>1. /\ k \in KernelState /\ NoDuplicates(k) /\ m \in KernelState
      /\ m.group = k.group /\ m.ready = k.ready /\ m.prio = k.prio
      /\ m.nest = k.nest /\ m.cur = k.cur
      /\ m.stat = [t \in Thread |-> IF t \in D THEN "close" ELSE k.stat[t]]
  BY DEF Seen
<1>2. /\ k.cur \in Thread /\ k.stat \in [Thread -> Stat]
      /\ k.prio \in [Thread -> Prio]
      /\ k.group \subseteq Prio /\ \A p \in Prio : k.ready[p] \in Seq(Thread)
  BY <1>1 DEF KernelState
<1>3. m.stat[k.cur] = k.stat[k.cur]
  BY <1>1, <1>2
<1>4. \A t \in Thread : m.stat[t] = "ready" => k.stat[t] = "ready" /\ t \notin D
  BY <1>1
<1>5. \A t \in Thread, p \in Prio :
        t \in ToSet(k.ready[p]) <=>
          m.stat[t] = "ready" /\ k.prio[t] = p /\ t # k.cur
  BY <1>1 DEF KInv, ReadyTable
<1>6. \A t \in Thread : k.stat[t] = "ready" => Lone(k, t)
  BY DEF Parked, Lone
<1>7. PICK high : high = highest_ready_priority(k)
  OBVIOUS
<1>8. high = highest_ready_priority(m)
  BY <1>1, <1>7 DEF highest_ready_priority
<1>9. CASE k.nest # 0 \/ k.group = {}
  <2>1. r = k /\ n = m
    BY <1>1, <1>9 DEF rt_schedule
  <2> QED BY <2>1
<1>10. CASE k.nest = 0 /\ k.group # {} /\ k.stat[k.cur] = "ready"
            /\ k.prio[k.cur] < high
  <2>1. r = rt_schedule_remove_thread(k, k.cur)
    BY <1>7, <1>10 DEF rt_schedule
  <2>2. n = rt_schedule_remove_thread(m, k.cur)
    BY <1>1, <1>3, <1>8, <1>10 DEF rt_schedule
  <2>3. Lone(k, k.cur) /\ Seen(k, D, m) /\ k.cur \in Thread
    BY <1>2, <1>6, <1>10
  <2> QED BY ONLY <2>1, <2>2, <2>3, SeenRemove
<1>11. CASE k.nest = 0 /\ k.group # {}
            /\ ~(k.stat[k.cur] = "ready" /\ k.prio[k.cur] < high)
  <2>1. PICK to : to = Head(k.ready[high])
    OBVIOUS
  <2>2. to \in ToSet(k.ready[high]) /\ to \in Thread /\ high \in Prio
    <3>1. high \in k.group
      BY <1>1, <1>7, <1>11, HighestReady
    <3>2. ToSet(k.ready[high]) # {}
      BY <1>1, <1>2, <3>1, BitmapSets DEF KInv
    <3>3. high \in Prio /\ k.ready[high] \in Seq(Thread)
      BY <1>2, <3>1
    <3> QED BY ONLY <2>1, <3>2, <3>3, HeadInList
  <2>3. m.stat[to] = "ready" /\ to # k.cur /\ k.stat[to] = "ready"
    BY <2>2, <1>4, <1>5
  <2>4. PICK k1 : k1 = [k EXCEPT !.cur = to]
    OBVIOUS
  <2>5. PICK m1 : m1 = [m EXCEPT !.cur = to]
    OBVIOUS
  <2>6. /\ Seen(k1, D, m1) /\ k1.stat = k.stat /\ k1.wait = k.wait
        /\ k1.ready = k.ready /\ k1.cur = to
    <3>1. Seen(k, D, m) /\ to \in Thread
      BY <2>2
    <3> QED BY ONLY <3>1, <2>4, <2>5, SeenSwitch
  <2>7. PICK k2 : k2 = IF k.stat[k.cur] = "ready"
                       THEN rt_schedule_insert_thread(k1, k.cur) ELSE k1
    OBVIOUS
  <2>8. PICK m2 : m2 = IF k.stat[k.cur] = "ready"
                       THEN rt_schedule_insert_thread(m1, k.cur) ELSE m1
    OBVIOUS
  <2>9. r = rt_schedule_remove_thread(k2, to)
    BY <1>7, <1>11, <2>1, <2>4, <2>7 DEF rt_schedule
  <2>10. n = rt_schedule_remove_thread(m2, to)
    <3>1. to = Head(m.ready[high])
      BY <1>1, <2>1
    <3>2. ~(m.nest # 0 \/ m.group = {}) /\ m.cur = k.cur
          /\ ~(m.stat[m.cur] = "ready" /\ m.prio[m.cur] < high)
          /\ m.stat[m.cur] = k.stat[k.cur]
      BY <1>1, <1>3, <1>11
    <3> QED BY <1>8, <3>1, <3>2, <2>5, <2>8 DEF rt_schedule
  <2>11. Seen(k2, D, m2) /\ k2.stat = k.stat /\ k2.wait = k.wait
    <3>1. CASE k.stat[k.cur] = "ready"
      <4>1. k2 = rt_schedule_insert_thread(k1, k.cur)
            /\ m2 = rt_schedule_insert_thread(m1, k.cur)
        BY <3>1, <2>7, <2>8
      <4>2. \A p \in Prio : k.cur \notin ToSet(k1.ready[p])
        BY <1>2, <1>5, <2>6
      <4>3. k.cur \in Thread /\ k.cur \notin D
        BY <1>2
      <4>4. Seen(k2, D, m2) /\ k2.wait = k1.wait
            /\ k2.stat = [k1.stat EXCEPT ![k.cur] = "ready"]
        BY ONLY <4>1, <4>2, <4>3, <2>6, SeenInsert
      <4>5. [k.stat EXCEPT ![k.cur] = "ready"] = k.stat
        BY ONLY <3>1, <1>2
      <4> QED BY ONLY <4>4, <4>5, <2>6
    <3>2. CASE k.stat[k.cur] # "ready"
      BY <3>2, <2>6, <2>7, <2>8
    <3> QED BY <3>1, <3>2
  <2>12. Lone(k2, to)
    <3>1. Lone(k, to)
      BY <1>6, <2>2, <2>3
    <3> QED BY ONLY <3>1, <2>11 DEF Lone
  <2>13. Seen(r, D, n) /\ r.wait = k2.wait /\ r.stat = k2.stat
    <3>1. to \in Thread
      BY <2>2
    <3> QED BY ONLY <2>9, <2>10, <2>11, <2>12, <3>1, SeenRemove
  <2> QED BY ONLY <2>11, <2>13
<1> QED BY <1>9, <1>10, <1>11

\* rt_schedule, with the scheduler unlocked: a living ready thread runs.
LEMMA LiveSchedule ==
  ASSUME NEW k, NEW D, Live(k, D), k.nest = 0, k.cur \notin D, Parked(k),
         k.stat[Idle] = "ready", Idle \notin D,
         NEW r, r = rt_schedule(k)
  PROVE  /\ Live(r, D) /\ SameThreads(k, r)
         /\ r.cur \in Thread /\ r.cur \notin D /\ r.stat[r.cur] = "ready"
<1>1. PICK m : Seen(k, D, m) /\ KInv(m)
  BY DEF Live
<1>2. PICK n : n = rt_schedule(m)
  OBVIOUS
<1>3. Seen(r, D, n) /\ r.wait = k.wait /\ r.stat = k.stat
  <2>1. /\ Seen(k, D, m) /\ KInv(m) /\ k.cur \notin D /\ Parked(k)
        /\ r = rt_schedule(k)
    BY <1>1
  <2> QED BY ONLY <1>2, <2>1, SeenSchedule
<1>4. m \in KernelState /\ m.stat[Idle] = "ready" /\ m.nest = 0
  BY <1>1, KernelAssumption DEF Seen
<1>5. KInv(n) /\ SameThreads(m, n) /\ Settled(n)
  BY ONLY <1>1, <1>2, <1>4, AfterSchedule
<1>6. SameThreads(k, r)
  BY ONLY <1>1, <1>3, <1>5 DEF SameThreads, Seen
<1>7. r.cur \in Thread /\ n.cur = r.cur /\ n.stat[n.cur] = "ready"
      /\ n.stat = [t \in Thread |-> IF t \in D THEN "close" ELSE r.stat[t]]
  BY ONLY <1>3, <1>5 DEF Seen, Settled, KernelState
<1>8. r.cur \notin D /\ r.stat[r.cur] = "ready"
  BY ONLY <1>7
<1>9. Live(r, D)
  BY <1>3, <1>5 DEF Live
<1> QED BY ONLY <1>6, <1>7, <1>8, <1>9

-----------------------------------------------------------------------------
\* r is k with the state s for the thread t.
StateSet(k, t, s, r) == r = [k EXCEPT !.stat[t] = s]

LEMMA SeenState ==
  ASSUME NEW k, NEW D, NEW m, Seen(k, D, m), NEW t \in Thread, t \notin D,
         NEW s \in Stat, NEW r, StateSet(k, t, s, r),
         NEW n, StateSet(m, t, s, n)
  PROVE  /\ Seen(r, D, n)
         /\ r.wait = k.wait /\ r.ready = k.ready /\ r.cur = k.cur
<1>1. /\ k \in KernelState /\ NoDuplicates(k)
      /\ m \in KernelState /\ NoDuplicates(m)
  BY DEF Seen
<1>2. /\ r \in KernelState /\ r.stat = [k.stat EXCEPT ![t] = s]
      /\ r.wait = k.wait /\ r.ready = k.ready /\ r.cur = k.cur
      /\ r.group = k.group /\ r.prio = k.prio /\ r.err = k.err
      /\ r.timer = k.timer /\ r.nest = k.nest
  BY <1>1 DEF KernelState, StateSet
<1>3. /\ n \in KernelState /\ n.stat = [m.stat EXCEPT ![t] = s]
      /\ n.wait = m.wait /\ n.ready = m.ready /\ n.cur = m.cur
      /\ n.group = m.group /\ n.prio = m.prio /\ n.err = m.err
      /\ n.timer = m.timer /\ n.nest = m.nest
  BY <1>1 DEF KernelState, StateSet
<1>4. NoDuplicates(r) /\ NoDuplicates(n)
  BY ONLY <1>1, <1>2, <1>3 DEF NoDuplicates
<1>5. n.stat = [u \in Thread |-> IF u \in D THEN "close" ELSE r.stat[u]]
  <2>1. k.stat \in [Thread -> Stat]
    BY <1>1 DEF KernelState
  <2>2. m.stat = [u \in Thread |-> IF u \in D THEN "close" ELSE k.stat[u]]
    BY DEF Seen
  <2>3. t \in Thread /\ t \notin D
    OBVIOUS
  <2> QED BY ONLY <2>1, <2>2, <2>3, <1>2, <1>3
<1>6. Seen(r, D, n)
  BY ONLY <1>2, <1>3, <1>4, <1>5, Seen(k, D, m) DEF Seen
<1> QED BY ONLY <1>2, <1>6

LEMMA StateSetFields ==
  ASSUME NEW k \in KernelState, NEW t \in Thread, NEW s \in Stat,
         NEW r, StateSet(k, t, s, r)
  PROVE  r.stat = [k.stat EXCEPT ![t] = s] /\ r.timer = k.timer /\ r.nest = k.nest
BY DEF StateSet, KernelState

LEMMA SeenTimer ==
  ASSUME NEW k, NEW D, NEW m, Seen(k, D, m), NEW T \in SUBSET Thread,
         NEW r, r = [k EXCEPT !.timer = T],
         NEW n, n = [m EXCEPT !.timer = T]
  PROVE  /\ Seen(r, D, n) /\ r.stat = k.stat /\ r.wait = k.wait
         /\ r.ready = k.ready /\ r.cur = k.cur
<1>1. /\ k \in KernelState /\ NoDuplicates(k)
      /\ m \in KernelState /\ NoDuplicates(m)
  BY DEF Seen
<1>2. /\ r \in KernelState /\ r.stat = k.stat
      /\ r.wait = k.wait /\ r.ready = k.ready /\ r.cur = k.cur
      /\ r.group = k.group /\ r.prio = k.prio /\ r.err = k.err
      /\ r.timer = T /\ r.nest = k.nest
  BY <1>1 DEF KernelState
<1>3. /\ n \in KernelState /\ n.stat = m.stat
      /\ n.wait = m.wait /\ n.ready = m.ready /\ n.cur = m.cur
      /\ n.group = m.group /\ n.prio = m.prio /\ n.err = m.err
      /\ n.timer = T /\ n.nest = m.nest
  BY <1>1 DEF KernelState
<1>4. NoDuplicates(r) /\ NoDuplicates(n)
  BY ONLY <1>1, <1>2, <1>3 DEF NoDuplicates
<1>5. Seen(r, D, n)
  BY ONLY <1>2, <1>3, <1>4, Seen(k, D, m) DEF Seen
<1> QED BY ONLY <1>2, <1>5

LEMMA SeenStop ==
  ASSUME NEW k, NEW D, NEW m, Seen(k, D, m), NEW t,
         NEW r, r = rt_timer_stop(k, t),
         NEW n, n = rt_timer_stop(m, t)
  PROVE  /\ Seen(r, D, n) /\ r.stat = k.stat /\ r.wait = k.wait
         /\ r.ready = k.ready /\ r.cur = k.cur
<1>1. PICK T : T = k.timer \ {t}
  OBVIOUS
<1>2. k.timer \subseteq Thread /\ m.timer = k.timer
  BY DEF Seen, KernelState
<1>3. T \in SUBSET Thread /\ m.timer \ {t} = T
  BY <1>1, <1>2
<1>4. r = [k EXCEPT !.timer = T] /\ n = [m EXCEPT !.timer = T]
  BY <1>1, <1>3 DEF rt_timer_stop
<1> QED BY ONLY <1>3, <1>4, SeenTimer, Seen(k, D, m)

LEMMA SeenError ==
  ASSUME NEW k, NEW D, NEW m, Seen(k, D, m), NEW t \in Thread, NEW e \in Err,
         NEW r, r = [k EXCEPT !.err[t] = e],
         NEW n, n = [m EXCEPT !.err[t] = e]
  PROVE  /\ Seen(r, D, n) /\ r.stat = k.stat /\ r.wait = k.wait
         /\ r.ready = k.ready /\ r.cur = k.cur /\ r.timer = k.timer
<1>1. /\ k \in KernelState /\ NoDuplicates(k)
      /\ m \in KernelState /\ NoDuplicates(m)
  BY DEF Seen
<1>2. /\ r \in KernelState /\ r.stat = k.stat
      /\ r.wait = k.wait /\ r.ready = k.ready /\ r.cur = k.cur
      /\ r.group = k.group /\ r.prio = k.prio
      /\ r.err = [k.err EXCEPT ![t] = e]
      /\ r.timer = k.timer /\ r.nest = k.nest
  BY <1>1 DEF KernelState
<1>3. /\ n \in KernelState /\ n.stat = m.stat
      /\ n.wait = m.wait /\ n.ready = m.ready /\ n.cur = m.cur
      /\ n.group = m.group /\ n.prio = m.prio
      /\ n.err = [m.err EXCEPT ![t] = e]
      /\ n.timer = m.timer /\ n.nest = m.nest
  BY <1>1 DEF KernelState
<1>4. NoDuplicates(r) /\ NoDuplicates(n)
  BY ONLY <1>1, <1>2, <1>3 DEF NoDuplicates
<1>5. Seen(r, D, n)
  BY ONLY <1>2, <1>3, <1>4, Seen(k, D, m) DEF Seen
<1> QED BY ONLY <1>2, <1>5

LEMMA SeenPriority ==
  ASSUME NEW k, NEW D, NEW m, Seen(k, D, m), NEW t \in Thread, NEW p \in Prio,
         NEW r, r = [k EXCEPT !.prio[t] = p],
         NEW n, n = [m EXCEPT !.prio[t] = p]
  PROVE  /\ Seen(r, D, n) /\ r.stat = k.stat /\ r.wait = k.wait
         /\ r.ready = k.ready /\ r.cur = k.cur
<1>1. /\ k \in KernelState /\ NoDuplicates(k)
      /\ m \in KernelState /\ NoDuplicates(m)
  BY DEF Seen
<1>2. /\ r \in KernelState /\ r.stat = k.stat
      /\ r.wait = k.wait /\ r.ready = k.ready /\ r.cur = k.cur
      /\ r.group = k.group /\ r.err = k.err
      /\ r.prio = [k.prio EXCEPT ![t] = p]
      /\ r.timer = k.timer /\ r.nest = k.nest
  BY <1>1 DEF KernelState
<1>3. /\ n \in KernelState /\ n.stat = m.stat
      /\ n.wait = m.wait /\ n.ready = m.ready /\ n.cur = m.cur
      /\ n.group = m.group /\ n.err = m.err
      /\ n.prio = [m.prio EXCEPT ![t] = p]
      /\ n.timer = m.timer /\ n.nest = m.nest
  BY <1>1 DEF KernelState
<1>4. NoDuplicates(r) /\ NoDuplicates(n)
  BY ONLY <1>1, <1>2, <1>3 DEF NoDuplicates
<1>5. Seen(r, D, n)
  BY ONLY <1>2, <1>3, <1>4, Seen(k, D, m) DEF Seen
<1> QED BY ONLY <1>2, <1>5

\* A living thread t in no list becomes ready.
LEMMA SeenWake ==
  ASSUME NEW k, NEW D, NEW m, Seen(k, D, m), NEW t \in Thread, t \notin D,
         Lone(k, t),
         NEW r, r = rt_schedule_insert_thread(
                      rt_timer_stop(rt_list_remove(k, t), t), t),
         NEW n, n = rt_schedule_insert_thread(
                      rt_timer_stop(rt_list_remove(m, t), t), t)
  PROVE  /\ Seen(r, D, n) /\ r.wait = k.wait /\ r.cur = k.cur
         /\ r.stat = [k.stat EXCEPT ![t] = "ready"]
<1>t. t \in Thread /\ t \notin D
  OBVIOUS
<1>1. PICK k1 : k1 = rt_list_remove(k, t)
  OBVIOUS
<1>2. PICK m1 : m1 = rt_list_remove(m, t)
  OBVIOUS
<1>3. /\ Seen(k1, D, m1) /\ k1.wait = k.wait /\ k1.cur = k.cur
      /\ k1.stat = k.stat /\ \A p \in Prio : t \notin ToSet(k1.ready[p])
  <2>1. Seen(k, D, m) /\ Lone(k, t)
    OBVIOUS
  <2> QED BY ONLY <1>t, <1>1, <1>2, <2>1, SeenListRemove
<1>4. PICK k2 : k2 = rt_timer_stop(k1, t)
  OBVIOUS
<1>5. PICK m2 : m2 = rt_timer_stop(m1, t)
  OBVIOUS
<1>6. /\ Seen(k2, D, m2) /\ k2.stat = k1.stat /\ k2.wait = k1.wait
      /\ k2.ready = k1.ready /\ k2.cur = k1.cur
  BY ONLY <1>3, <1>4, <1>5, SeenStop
<1>7. r = rt_schedule_insert_thread(k2, t)
      /\ n = rt_schedule_insert_thread(m2, t)
  BY <1>1, <1>2, <1>4, <1>5
<1>8. \A p \in Prio : t \notin ToSet(k2.ready[p])
  BY ONLY <1>3, <1>6
<1>9. /\ Seen(r, D, n) /\ r.wait = k2.wait /\ r.cur = k2.cur
      /\ r.stat = [k2.stat EXCEPT ![t] = "ready"]
  BY ONLY <1>t, <1>6, <1>7, <1>8, SeenInsert
<1> QED BY ONLY <1>3, <1>6, <1>9

\* What is the same after a call that does not schedule.
SameWait(k, r) == r.wait = k.wait /\ r.cur = k.cur /\ r.nest = k.nest

\* rt_thread_resume of a living suspended thread.
LEMMA LiveResume ==
  ASSUME NEW k, NEW D, Live(k, D), NEW t \in Thread, t \notin D, Lone(k, t),
         k.stat[t] = "suspend",
         NEW r, r = rt_thread_resume(k, t)
  PROVE  /\ Live(r, D) /\ SameWait(k, r)
         /\ r.stat = [k.stat EXCEPT ![t] = "ready"] /\ r.timer = k.timer \ {t}
<1>t. t \in Thread /\ t \notin D /\ Lone(k, t)
  OBVIOUS
<1>1. PICK m : Seen(k, D, m) /\ KInv(m)
  BY DEF Live
<1>2. PICK n : n = rt_thread_resume(m, t)
  OBVIOUS
<1>3. m \in KernelState /\ m.stat[t] = "suspend"
  BY <1>1 DEF Seen
<1>4. WokenUp(m, t, n)
  BY <1>1, <1>2, <1>3, ResumeKeeps
<1>5. /\ r = rt_schedule_insert_thread(
               rt_timer_stop(rt_list_remove(k, t), t), t)
      /\ n = rt_schedule_insert_thread(
               rt_timer_stop(rt_list_remove(m, t), t), t)
  BY <1>2, <1>3 DEF rt_thread_resume
<1>6. /\ Seen(r, D, n) /\ r.wait = k.wait /\ r.cur = k.cur
      /\ r.stat = [k.stat EXCEPT ![t] = "ready"]
  BY ONLY <1>t, <1>1, <1>5, SeenWake
<1>7. Live(r, D)
  BY <1>4, <1>6 DEF Live, WokenUp
<1>8. r.timer = k.timer \ {t} /\ r.nest = k.nest
  BY ONLY <1>1, <1>4, <1>6 DEF Seen, WokenUp
<1> QED BY ONLY <1>6, <1>7, <1>8 DEF SameWait

\* rt_thread_resume in two steps.  The first one takes the suspended thread t out
\* of its wait list and stops its timer.
MadeLoose(k, t, r) ==
  /\ r \in KernelState /\ KInv(r)
  /\ r.stat = k.stat /\ r.timer = k.timer \ {t}
  /\ \A q \in Queue : ToSet(r.wait[q]) = ToSet(k.wait[q]) \ {t}
  /\ r.prio = k.prio /\ r.err = k.err /\ r.cur = k.cur /\ r.nest = k.nest

LEMMA LoosenKeeps ==
  ASSUME NEW k \in KernelState, KInv(k), NEW t \in Thread,
         k.stat[t] = "suspend",
         NEW r, r = rt_timer_stop(rt_list_remove(k, t), t)
  PROVE  MadeLoose(k, t, r)
<1>1. PICK j : j = rt_list_remove(k, t)
  OBVIOUS
<1>2. Unlinked(k, t, j) /\ j.group = k.group
  BY <1>1, ListRemove DEF KInv
<1>3. j \in KernelState
  BY <1>2 DEF Unlinked
<1>4. /\ r \in KernelState /\ r.timer = j.timer \ {t} /\ r.ready = j.ready
      /\ r.group = j.group /\ r.wait = j.wait /\ r.stat = j.stat
      /\ r.prio = j.prio /\ r.err = j.err /\ r.cur = j.cur /\ r.nest = j.nest
  BY <1>1, <1>3 DEF KernelState, rt_timer_stop
<1>5. /\ r.stat = k.stat /\ r.timer = k.timer \ {t}
      /\ \A q \in Queue : ToSet(r.wait[q]) = ToSet(k.wait[q]) \ {t}
      /\ r.prio = k.prio /\ r.err = k.err /\ r.cur = k.cur /\ r.nest = k.nest
      /\ r.group = k.group
  BY <1>2, <1>4 DEF Unlinked
<1>6. \A p \in Prio : ToSet(r.ready[p]) = ToSet(k.ready[p])
  <2>1. \A p \in Prio : t \notin ToSet(k.ready[p])
    BY DEF KInv, ReadyTable
  <2>2. \A p \in Prio : ToSet(r.ready[p]) = ToSet(k.ready[p]) \ {t}
    BY <1>2, <1>4 DEF Unlinked
  <2> QED BY <2>1, <2>2
<1>7. NoDuplicates(r)
  BY <1>2, <1>4 DEF NoDuplicates, Unlinked
<1>8. ReadyTable(r)
  BY <1>5, <1>6 DEF KInv, ReadyTable
<1>9. WaitLists(r)
  BY <1>5 DEF KInv, WaitLists
<1>10. Bitmap(r)
  <2>1. \A p \in Prio : p \in k.group <=> ToSet(k.ready[p]) # {}
    BY BitmapSets DEF KInv
  <2>2. \A p \in Prio : p \in r.group <=> ToSet(r.ready[p]) # {}
    BY <1>5, <1>6, <2>1
  <2> QED BY <1>4, <2>2, BitmapSets
<1>11. TimersOfSuspended(r)
  BY <1>5 DEF KInv, TimersOfSuspended
<1> QED BY <1>4, <1>5, <1>7, <1>8, <1>9, <1>10, <1>11 DEF MadeLoose, KInv

\* The first step changes nothing once it is done.
LEMMA Loose ==
  ASSUME NEW k \in KernelState, NEW t \in Thread, Lone(k, t),
         t \notin k.timer, \A p \in Prio : t \notin ToSet(k.ready[p])
  PROVE  rt_timer_stop(rt_list_remove(k, t), t) = k
<1>1. /\ k.ready \in [Prio -> Seq(Thread)] /\ k.wait \in [Queue -> Seq(Thread)]
      /\ k.timer \subseteq Thread
  BY DEF KernelState
<1>2. [p \in Prio |-> Unlink(k.ready[p], t)] = k.ready
  <2>1. \A p \in Prio : Unlink(k.ready[p], t) = k.ready[p]
    BY UnlinkOther
  <2> QED BY ONLY <1>1, <2>1
<1>3. [q \in Queue |-> Unlink(k.wait[q], t)] = k.wait
  <2>1. \A q \in Queue : Unlink(k.wait[q], t) = k.wait[q]
    BY UnlinkOther DEF Lone
  <2> QED BY ONLY <1>1, <2>1
<1>4. rt_list_remove(k, t) = k
  BY <1>2, <1>3 DEF rt_list_remove, KernelState
<1>5. k.timer \ {t} = k.timer
  OBVIOUS
<1> QED BY <1>4, <1>5 DEF rt_timer_stop, KernelState

\* The second one makes it ready.
LEMMA InsertKeeps ==
  ASSUME NEW k \in KernelState, KInv(k), NEW t \in Thread,
         k.stat[t] = "suspend", Lone(k, t), t \notin k.timer,
         NEW r, r = rt_schedule_insert_thread(k, t)
  PROVE  WokenUp(k, t, r)
<1>1. \A p \in Prio : t \notin ToSet(k.ready[p])
  BY DEF KInv, ReadyTable
<1>2. rt_timer_stop(rt_list_remove(k, t), t) = k
  BY <1>1, Loose
<1> QED BY <1>2, WakeKeeps

LEMMA LiveLoosen ==
  ASSUME NEW k, NEW D, Live(k, D), NEW t \in Thread, t \notin D, Lone(k, t),
         k.stat[t] = "suspend",
         NEW r, r = rt_timer_stop(rt_list_remove(k, t), t)
  PROVE  /\ Live(r, D) /\ SameWait(k, r)
         /\ r.stat = k.stat /\ r.timer = k.timer \ {t}
<1>t. t \in Thread /\ Lone(k, t)
  OBVIOUS
<1>1. PICK m : Seen(k, D, m) /\ KInv(m)
  BY DEF Live
<1>2. m \in KernelState /\ m.stat[t] = "suspend"
  BY <1>1 DEF Seen
<1>3. PICK n : n = rt_timer_stop(rt_list_remove(m, t), t)
  OBVIOUS
<1>4. MadeLoose(m, t, n)
  BY <1>1, <1>2, <1>3, LoosenKeeps
<1>5. PICK k1 : k1 = rt_list_remove(k, t)
  OBVIOUS
<1>6. PICK m1 : m1 = rt_list_remove(m, t)
  OBVIOUS
<1>7. /\ Seen(k1, D, m1) /\ k1.wait = k.wait /\ k1.cur = k.cur
      /\ k1.stat = k.stat
  BY ONLY <1>t, <1>1, <1>5, <1>6, SeenListRemove
<1>8. r = rt_timer_stop(k1, t) /\ n = rt_timer_stop(m1, t)
  BY <1>3, <1>5, <1>6
<1>9. Seen(r, D, n) /\ r.stat = k1.stat /\ r.wait = k1.wait /\ r.cur = k1.cur
  BY ONLY <1>7, <1>8, SeenStop
<1>10. Live(r, D)
  BY <1>4, <1>9 DEF Live, MadeLoose
<1>11. r.timer = k.timer \ {t} /\ r.nest = k.nest
  BY ONLY <1>1, <1>4, <1>9 DEF Seen, MadeLoose
<1> QED BY ONLY <1>7, <1>9, <1>10, <1>11 DEF SameWait

LEMMA LiveInsert ==
  ASSUME NEW k, NEW D, Live(k, D), NEW t \in Thread, t \notin D, Lone(k, t),
         k.stat[t] = "suspend", t \notin k.timer,
         NEW r, r = rt_schedule_insert_thread(k, t)
  PROVE  /\ Live(r, D) /\ SameWait(k, r)
         /\ r.stat = [k.stat EXCEPT ![t] = "ready"] /\ r.timer = k.timer
<1>1. k \in KernelState /\ \A p \in Prio : t \notin ToSet(k.ready[p])
  BY LiveFacts
<1>2. rt_timer_stop(rt_list_remove(k, t), t) = k
  BY <1>1, Loose
<1>3. r = rt_thread_resume(k, t)
  BY <1>2 DEF rt_thread_resume
<1>4. k.timer \ {t} = k.timer
  OBVIOUS
<1>5. /\ Live(k, D) /\ t \in Thread /\ t \notin D /\ Lone(k, t)
      /\ k.stat[t] = "suspend"
  OBVIOUS
<1>6. /\ Live(r, D) /\ SameWait(k, r)
      /\ r.stat = [k.stat EXCEPT ![t] = "ready"] /\ r.timer = k.timer \ {t}
  BY ONLY <1>3, <1>5, LiveResume
<1> QED BY ONLY <1>4, <1>6

\* rt_thread_startup of a thread that was never started.
LEMMA LiveStartup ==
  ASSUME NEW k, NEW D, Live(k, D), NEW t \in Thread, t \notin D, Lone(k, t),
         k.stat[t] = "init", NEW p \in Prio,
         NEW r, r = rt_thread_startup(k, t, p)
  PROVE  /\ Live(r, D) /\ SameWait(k, r)
         /\ r.stat = [k.stat EXCEPT ![t] = "ready"] /\ r.timer = k.timer
<1>t. t \in Thread /\ t \notin D /\ Lone(k, t) /\ p \in Prio
      /\ "suspend" \in Stat
  BY DEF Stat
<1>1. PICK m : Seen(k, D, m) /\ KInv(m)
  BY DEF Live
<1>2. PICK n : n = rt_thread_startup(m, t, p)
  OBVIOUS
<1>3. m \in KernelState /\ m.stat[t] = "init" /\ k \in KernelState
  BY <1>1 DEF Seen
<1>4. /\ KInv(n) /\ n.timer = m.timer /\ n.nest = m.nest
  <2>1. Started(m, t, p, n)
    BY ONLY <1>t, <1>1, <1>2, <1>3, StartupStarts
  <2> QED BY ONLY <2>1 DEF Started
<1>5. PICK k1 : k1 = [k EXCEPT !.prio[t] = p]
  OBVIOUS
<1>6. PICK m1 : m1 = [m EXCEPT !.prio[t] = p]
  OBVIOUS
<1>7. /\ Seen(k1, D, m1) /\ k1.stat = k.stat /\ k1.wait = k.wait
      /\ k1.cur = k.cur
  BY ONLY <1>t, <1>1, <1>5, <1>6, SeenPriority
<1>8. PICK k2 : k2 = [k1 EXCEPT !.stat[t] = "suspend"]
  OBVIOUS
<1>9. PICK m2 : m2 = [m1 EXCEPT !.stat[t] = "suspend"]
  OBVIOUS
<1>10. /\ Seen(k2, D, m2) /\ k2.stat = [k1.stat EXCEPT ![t] = "suspend"]
       /\ k2.wait = k1.wait /\ k2.cur = k1.cur
  <2>1. PICK s : s = "suspend"
    OBVIOUS
  <2>2. StateSet(k1, t, s, k2) /\ StateSet(m1, t, s, m2) /\ s \in Stat
    BY <1>t, <1>8, <1>9, <2>1 DEF StateSet
  <2>3. Seen(k2, D, m2) /\ k2.wait = k1.wait /\ k2.cur = k1.cur
    BY ONLY <1>t, <1>7, <2>2, SeenState
  <2>4. k2.stat = [k1.stat EXCEPT ![t] = s]
    BY <1>7, <2>2, StateSetFields DEF Seen
  <2> QED BY <2>1, <2>3, <2>4
<1>11. r = rt_thread_resume(k2, t) /\ n = rt_thread_resume(m2, t)
  BY <1>2, <1>5, <1>6, <1>8, <1>9 DEF rt_thread_startup
<1>12. k2.stat[t] = "suspend" /\ m2.stat[t] = "suspend"
  BY <1>10 DEF Seen, KernelState
<1>13. /\ r = rt_schedule_insert_thread(
               rt_timer_stop(rt_list_remove(k2, t), t), t)
       /\ n = rt_schedule_insert_thread(
               rt_timer_stop(rt_list_remove(m2, t), t), t)
  BY ONLY <1>11, <1>12 DEF rt_thread_resume
<1>14. Lone(k2, t)
  BY ONLY <1>t, <1>7, <1>10 DEF Lone
<1>15. /\ Seen(r, D, n) /\ r.wait = k2.wait /\ r.cur = k2.cur
       /\ r.stat = [k2.stat EXCEPT ![t] = "ready"]
  BY ONLY <1>t, <1>10, <1>13, <1>14, SeenWake
<1>16. Live(r, D)
  BY <1>4, <1>15 DEF Live
<1>17. r.timer = k.timer /\ r.nest = k.nest
  BY ONLY <1>1, <1>4, <1>15 DEF Seen
<1>18. r.stat = [k.stat EXCEPT ![t] = "ready"]
  <2>1. k.stat \in [Thread -> Stat]
    BY <1>3 DEF KernelState
  <2> QED BY ONLY <2>1, <1>7, <1>10, <1>15
<1> QED BY ONLY <1>7, <1>10, <1>15, <1>16, <1>17, <1>18 DEF SameWait

\* rt_thread_suspend of the running thread.
LEMMA SeenSuspend ==
  ASSUME NEW k, NEW D, NEW m, Seen(k, D, m), NEW t \in Thread, t \notin D,
         Lone(k, t), k.stat[t] = "ready",
         NEW r, r = rt_thread_suspend(k, t),
         NEW n, n = rt_thread_suspend(m, t)
  PROVE  /\ Seen(r, D, n) /\ r.wait = k.wait /\ r.cur = k.cur
         /\ r.stat = [k.stat EXCEPT ![t] = "suspend"]
<1>t. t \in Thread /\ t \notin D /\ "suspend" \in Stat /\ Seen(k, D, m)
  BY DEF Stat
<1>1. PICK k1 : k1 = [k EXCEPT !.stat[t] = "suspend"]
  OBVIOUS
<1>2. PICK m1 : m1 = [m EXCEPT !.stat[t] = "suspend"]
  OBVIOUS
<1>3. /\ Seen(k1, D, m1) /\ k1.stat = [k.stat EXCEPT ![t] = "suspend"]
      /\ k1.wait = k.wait /\ k1.cur = k.cur
  <2>1. PICK s : s = "suspend"
    OBVIOUS
  <2>2. StateSet(k, t, s, k1) /\ StateSet(m, t, s, m1) /\ s \in Stat
    BY <1>t, <1>1, <1>2, <2>1 DEF StateSet
  <2>3. Seen(k1, D, m1) /\ k1.wait = k.wait /\ k1.cur = k.cur
    BY ONLY <1>t, <2>2, SeenState
  <2>4. k1.stat = [k.stat EXCEPT ![t] = s]
    BY <2>2, StateSetFields DEF Seen
  <2> QED BY <2>1, <2>3, <2>4
<1>4. PICK k2 : k2 = rt_schedule_remove_thread(k1, t)
  OBVIOUS
<1>5. PICK m2 : m2 = rt_schedule_remove_thread(m1, t)
  OBVIOUS
<1>6. Lone(k1, t)
  BY <1>3 DEF Lone
<1>7. /\ Seen(k2, D, m2) /\ k2.wait = k1.wait /\ k2.cur = k1.cur
      /\ k2.stat = k1.stat
  BY ONLY <1>t, <1>3, <1>4, <1>5, <1>6, SeenRemove
<1>8. m.stat[t] = "ready"
  BY DEF Seen
<1>9. r = rt_timer_stop(k2, t) /\ n = rt_timer_stop(m2, t)
  BY <1>1, <1>2, <1>4, <1>5, <1>8 DEF rt_thread_suspend
<1>10. /\ Seen(r, D, n) /\ r.stat = k2.stat /\ r.wait = k2.wait
       /\ r.cur = k2.cur
  BY ONLY <1>7, <1>9, SeenStop
<1> QED BY ONLY <1>3, <1>7, <1>10

LEMMA LiveSuspend ==
  ASSUME NEW k, NEW D, Live(k, D), k.cur \notin D, Lone(k, k.cur),
         k.stat[k.cur] = "ready",
         NEW r, r = rt_thread_suspend(k, k.cur)
  PROVE  /\ Live(r, D) /\ SameWait(k, r)
         /\ r.stat = [k.stat EXCEPT ![k.cur] = "suspend"]
         /\ r.timer = k.timer \ {k.cur}
<1>1. PICK m : Seen(k, D, m) /\ KInv(m)
  BY DEF Live
<1>2. PICK n : n = rt_thread_suspend(m, k.cur)
  OBVIOUS
<1>3. m \in KernelState /\ m.cur = k.cur /\ k.cur \in Thread
      /\ m.stat[k.cur] = "ready"
  BY <1>1 DEF Seen, KernelState
<1>4. /\ KInv(n) /\ n.timer = m.timer \ {k.cur} /\ n.nest = m.nest
  <2>1. m.stat[m.cur] = "ready" /\ n = rt_thread_suspend(m, m.cur)
    BY <1>2, <1>3
  <2> QED BY ONLY <1>1, <1>3, <2>1, SuspendKeeps
<1>5. /\ Seen(r, D, n) /\ r.wait = k.wait /\ r.cur = k.cur
      /\ r.stat = [k.stat EXCEPT ![k.cur] = "suspend"]
  <2>1. k.cur \notin D /\ Lone(k, k.cur) /\ k.stat[k.cur] = "ready"
        /\ r = rt_thread_suspend(k, k.cur)
    OBVIOUS
  <2> QED BY ONLY <1>1, <1>2, <1>3, <2>1, SeenSuspend
<1>6. Live(r, D)
  BY <1>4, <1>5 DEF Live
<1>7. r.timer = k.timer \ {k.cur} /\ r.nest = k.nest
  BY ONLY <1>1, <1>4, <1>5 DEF Seen
<1> QED BY ONLY <1>5, <1>6, <1>7 DEF SameWait

\* rt_thread_sleep of the running thread.
LEMMA LiveSleep ==
  ASSUME NEW k, NEW D, Live(k, D), k.cur \notin D, Lone(k, k.cur),
         k.stat[k.cur] = "ready",
         NEW r, r = rt_thread_sleep(k, k.cur)
  PROVE  /\ Live(r, D) /\ SameWait(k, r)
         /\ r.stat = [k.stat EXCEPT ![k.cur] = "suspend"]
         /\ r.timer = k.timer \cup {k.cur}
<1>1. PICK m : Seen(k, D, m) /\ KInv(m)
  BY DEF Live
<1>2. PICK n : n = rt_thread_sleep(m, k.cur)
  OBVIOUS
<1>3. m \in KernelState /\ m.cur = k.cur /\ k.cur \in Thread
      /\ m.stat[k.cur] = "ready"
  BY <1>1 DEF Seen, KernelState
<1>4. /\ KInv(n) /\ n.timer = m.timer \cup {k.cur} /\ n.nest = m.nest
  <2>1. m.stat[m.cur] = "ready" /\ n = rt_thread_sleep(m, m.cur)
    BY <1>2, <1>3
  <2> QED BY ONLY <1>1, <1>3, <2>1, SleepKeeps
<1>5. PICK k1 : k1 = rt_thread_suspend(k, k.cur)
  OBVIOUS
<1>6. PICK m1 : m1 = rt_thread_suspend(m, k.cur)
  OBVIOUS
<1>7. /\ Seen(k1, D, m1) /\ k1.wait = k.wait /\ k1.cur = k.cur
      /\ k1.stat = [k.stat EXCEPT ![k.cur] = "suspend"]
  <2>1. k.cur \notin D /\ Lone(k, k.cur) /\ k.stat[k.cur] = "ready"
    OBVIOUS
  <2> QED BY ONLY <1>1, <1>3, <1>5, <1>6, <2>1, SeenSuspend
<1>8. PICK T : T = k1.timer \cup {k.cur}
  OBVIOUS
<1>9. T \in SUBSET Thread /\ m1.timer = k1.timer
  BY <1>3, <1>7, <1>8 DEF Seen, KernelState
<1>10. r = [k1 EXCEPT !.timer = T] /\ n = [m1 EXCEPT !.timer = T]
  BY <1>2, <1>5, <1>6, <1>8, <1>9 DEF rt_thread_sleep, rt_timer_start
<1>11. /\ Seen(r, D, n) /\ r.stat = k1.stat /\ r.wait = k1.wait
       /\ r.cur = k1.cur
  <2>1. Seen(k1, D, m1) /\ T \in SUBSET Thread
    BY <1>7, <1>9
  <2> QED BY ONLY <2>1, <1>10, SeenTimer
<1>12. Live(r, D)
  BY <1>4, <1>11 DEF Live
<1>13. r.timer = k.timer \cup {k.cur} /\ r.nest = k.nest
  BY ONLY <1>1, <1>4, <1>11 DEF Seen
<1> QED BY ONLY <1>7, <1>11, <1>12, <1>13 DEF SameWait

\* Setting thread->error.
LEMMA LiveError ==
  ASSUME NEW k, NEW D, Live(k, D), NEW t \in Thread, NEW e \in Err,
         NEW r, r = [k EXCEPT !.err[t] = e]
  PROVE  /\ Live(r, D) /\ SameWait(k, r) /\ r.stat = k.stat
         /\ r.timer = k.timer
<1>t. t \in Thread /\ e \in Err /\ r = [k EXCEPT !.err[t] = e]
  OBVIOUS
<1>1. PICK m : Seen(k, D, m) /\ KInv(m)
  BY DEF Live
<1>2. PICK n : n = [m EXCEPT !.err[t] = e]
  OBVIOUS
<1>3. /\ Seen(r, D, n) /\ r.stat = k.stat /\ r.wait = k.wait
      /\ r.cur = k.cur /\ r.timer = k.timer
  BY ONLY <1>t, <1>1, <1>2, SeenError
<1>4. KInv(n) /\ n.nest = m.nest
  BY <1>1, <1>2, SetError DEF Seen
<1>5. Live(r, D) /\ r.nest = k.nest
  BY <1>1, <1>3, <1>4 DEF Live, Seen
<1> QED BY ONLY <1>3, <1>5 DEF SameWait

\* rt_thread_timeout.
LEMMA LiveTimeout ==
  ASSUME NEW k, NEW D, Live(k, D), NEW t \in k.timer, k.nest = 0,
         k.cur \notin D, Parked(k), k.stat[Idle] = "ready", Idle \notin D,
         NEW r, r = rt_thread_timeout(k, t)
  PROVE  /\ Live(r, D) /\ r.wait = k.wait /\ r.nest = 0
         /\ r.stat = [k.stat EXCEPT ![t] = "ready"]
         /\ r.timer = k.timer \ {t}
         /\ r.cur \in Thread /\ r.cur \notin D /\ r.stat[r.cur] = "ready"
<1>1. PICK m : Seen(k, D, m) /\ KInv(m)
  BY DEF Live
<1>2. t \in Thread /\ t \notin D /\ k.stat[t] = "suspend" /\ "etimeout" \in Err
      /\ k.stat \in [Thread -> Stat]
  BY LiveFacts DEF KernelState, Err
<1>3. Lone(k, t)
  BY <1>2 DEF Parked, Lone
<1>4. PICK n : n = timed_out(m, t)
  OBVIOUS
<1>5. WokenUp([m EXCEPT !.err[t] = "etimeout"], t, n)
  BY <1>1, <1>4, TimeoutKeeps DEF Seen
<1>6. KInv(n) /\ n.timer = m.timer \ {t} /\ n.nest = m.nest
  BY <1>1, <1>5 DEF WokenUp, Seen, KernelState
<1>7. PICK k1 : k1 = rt_timer_stop(k, t)
  OBVIOUS
<1>8. PICK m1 : m1 = rt_timer_stop(m, t)
  OBVIOUS
<1>9. /\ Seen(k1, D, m1) /\ k1.stat = k.stat /\ k1.wait = k.wait
      /\ k1.cur = k.cur
  BY ONLY <1>1, <1>7, <1>8, SeenStop
<1>10. PICK k2 : k2 = [k1 EXCEPT !.err[t] = "etimeout"]
  OBVIOUS
<1>11. PICK m2 : m2 = [m1 EXCEPT !.err[t] = "etimeout"]
  OBVIOUS
<1>12. /\ Seen(k2, D, m2) /\ k2.stat = k1.stat /\ k2.wait = k1.wait
       /\ k2.cur = k1.cur
  BY ONLY <1>2, <1>9, <1>10, <1>11, SeenError
<1>13. PICK k3 : k3 = rt_list_remove(k2, t)
  OBVIOUS
<1>14. PICK m3 : m3 = rt_list_remove(m2, t)
  OBVIOUS
<1>15. Lone(k2, t)
  BY ONLY <1>3, <1>9, <1>12 DEF Lone
<1>16. /\ Seen(k3, D, m3) /\ k3.wait = k2.wait /\ k3.cur = k2.cur
       /\ k3.stat = k2.stat
       /\ \A p \in Prio : t \notin ToSet(k3.ready[p])
  BY ONLY <1>2, <1>12, <1>13, <1>14, <1>15, SeenListRemove
<1>17. PICK j : j = timed_out(k, t)
  OBVIOUS
<1>18. j = rt_schedule_insert_thread(k3, t)
       /\ n = rt_schedule_insert_thread(m3, t)
  BY <1>4, <1>7, <1>8, <1>10, <1>11, <1>13, <1>14, <1>17 DEF timed_out
<1>19. /\ Seen(j, D, n) /\ j.wait = k3.wait /\ j.cur = k3.cur
       /\ j.stat = [k3.stat EXCEPT ![t] = "ready"]
  BY ONLY <1>2, <1>16, <1>18, SeenInsert
<1>20. /\ j.wait = k.wait /\ j.cur = k.cur
       /\ j.stat = [k.stat EXCEPT ![t] = "ready"]
  BY ONLY <1>9, <1>12, <1>16, <1>19
<1>21. j.nest = 0 /\ j.timer = k.timer \ {t}
  BY <1>1, <1>6, <1>19 DEF Seen
<1>22. Live(j, D)
  BY <1>6, <1>19 DEF Live
<1>23. Parked(j)
  <2>1. \A q \in Queue : \A u \in ToSet(k.wait[q]) :
           k.stat[u] = "close" /\ u # t
    BY <1>2 DEF Parked
  <2>2. \A u : u # t /\ k.stat[u] = "close" /\ u \in Thread => j.stat[u] = "close"
    BY <1>2, <1>20
  <2>3. \A q \in Queue : ToSet(k.wait[q]) \subseteq Thread
    BY <1>1, ListElements DEF Seen, KernelState
  <2> QED BY ONLY <1>20, <2>1, <2>2, <2>3 DEF Parked
<1>24. j.stat[Idle] = "ready"
  BY <1>2, <1>20, KernelAssumption
<1>25. r = rt_schedule(j)
  BY <1>17 DEF timed_out, rt_thread_timeout
<1>26. /\ Live(r, D) /\ SameThreads(j, r)
       /\ r.cur \in Thread /\ r.cur \notin D /\ r.stat[r.cur] = "ready"
  <2>1. j.cur \notin D /\ Idle \notin D
    BY <1>20
  <2> QED BY ONLY <1>21, <1>22, <1>23, <1>24, <1>25, <2>1, LiveSchedule
<1> QED BY ONLY <1>20, <1>21, <1>26 DEF SameThreads

-----------------------------------------------------------------------------
\* A thread that is unlinked and closed, and has no timer.
LEMMA CloseKeeps ==
  ASSUME NEW m \in KernelState, KInv(m), NEW t \in Thread, t \notin m.timer,
         NEW m1, m1 = rt_schedule_remove_thread(m, t),
         NEW n, StateSet(m1, t, "close", n)
  PROVE  n \in KernelState /\ KInv(n)
<1>1. Unlinked(m, t, m1) /\ BitCleared(m, t, m1)
  BY RemoveThread DEF KInv
<1>2. m1 \in KernelState /\ NoDuplicates(m1)
  BY <1>1 DEF Unlinked
<1>3. /\ n \in KernelState /\ n.stat = [m1.stat EXCEPT ![t] = "close"]
      /\ n.wait = m1.wait /\ n.ready = m1.ready /\ n.cur = m1.cur
      /\ n.group = m1.group /\ n.prio = m1.prio /\ n.err = m1.err
      /\ n.timer = m1.timer /\ n.nest = m1.nest
  BY <1>2 DEF KernelState, StateSet, Stat
<1>4. NoDuplicates(n)
  BY ONLY <1>2, <1>3 DEF NoDuplicates
<1>5. /\ \A p \in Prio  : ToSet(n.ready[p]) = ToSet(m.ready[p]) \ {t}
      /\ \A q \in Queue : ToSet(n.wait[q]) = ToSet(m.wait[q]) \ {t}
      /\ n.stat = [m.stat EXCEPT ![t] = "close"] /\ n.prio = m.prio
      /\ n.timer = m.timer /\ n.cur = m.cur
      /\ n.group = IF ToSet(m.ready[m.prio[t]]) \ {t} = {}
                   THEN m.group \ {m.prio[t]} ELSE m.group
  BY ONLY <1>1, <1>3 DEF Unlinked, BitCleared
<1>6. /\ m.stat \in [Thread -> Stat] /\ m.prio[t] \in Prio
      /\ m.timer \subseteq Thread
  BY DEF KernelState
<1>7. \A u \in Thread : n.stat[u] = IF u = t THEN "close" ELSE m.stat[u]
  BY ONLY <1>5, <1>6
<1>8. ReadyTable(n)
  BY ONLY <1>5, <1>7, KInv(m) DEF KInv, ReadyTable
<1>9. WaitLists(n)
  BY ONLY <1>5, <1>7, KInv(m) DEF KInv, WaitLists
<1>10. TimersOfSuspended(n)
  BY <1>5, <1>6, <1>7 DEF KInv, TimersOfSuspended
<1>11. Bitmap(n)
  <2>1. \A p \in Prio : p \in m.group <=> ToSet(m.ready[p]) # {}
    BY BitmapSets DEF KInv
  <2>2. \A p \in Prio : p # m.prio[t] => ToSet(n.ready[p]) = ToSet(m.ready[p])
    <3>1. \A p \in Prio : p # m.prio[t] => t \notin ToSet(m.ready[p])
      BY DEF KInv, ReadyTable
    <3>2. \A p \in Prio : ToSet(n.ready[p]) = ToSet(m.ready[p]) \ {t}
      BY <1>5
    <3> QED BY ONLY <3>1, <3>2
  <2>3. ToSet(n.ready[m.prio[t]]) = ToSet(m.ready[m.prio[t]]) \ {t}
    BY <1>5, <1>6
  <2>4. \A p \in Prio : p \in n.group <=> ToSet(n.ready[p]) # {}
    BY <1>5, <1>6, <2>1, <2>2, <2>3
  <2> QED BY <1>3, <2>4, BitmapSets
<1> QED BY <1>3, <1>4, <1>8, <1>9, <1>10, <1>11 DEF KInv

\* A thread that was never started, closed.
LEMMA CloseUnstarted ==
  ASSUME NEW m \in KernelState, KInv(m), NEW t \in Thread, m.stat[t] = "init",
         NEW n, StateSet(m, t, "close", n)
  PROVE  n \in KernelState /\ KInv(n)
<1>1. /\ n \in KernelState /\ n.stat = [m.stat EXCEPT ![t] = "close"]
      /\ n.wait = m.wait /\ n.ready = m.ready /\ n.cur = m.cur
      /\ n.group = m.group /\ n.prio = m.prio
      /\ n.timer = m.timer
  BY DEF KernelState, StateSet, Stat
<1>2. m.stat \in [Thread -> Stat] /\ m.timer \subseteq Thread
  BY DEF KernelState
<1>3. \A u \in Thread : n.stat[u] = IF u = t THEN "close" ELSE m.stat[u]
  BY ONLY <1>1, <1>2
<1>4. NoDuplicates(n) /\ Bitmap(n)
  BY <1>1 DEF KInv, NoDuplicates, Bitmap
<1>5. ReadyTable(n)
  BY <1>1, <1>3 DEF KInv, ReadyTable
<1>6. WaitLists(n)
  BY <1>1, <1>3 DEF KInv, WaitLists
<1>7. TimersOfSuspended(n)
  BY <1>1, <1>2, <1>3 DEF KInv, TimersOfSuspended
<1> QED BY <1>1, <1>4, <1>5, <1>6, <1>7 DEF KInv

\* D2 is D and the thread t.
WithThread(D, t, D2) == D2 = D \cup {t}

LEMMA SeenDoomed ==
  ASSUME NEW k, NEW D, NEW m, Seen(k, D, m), NEW t \in Thread,
         NEW D2, WithThread(D, t, D2), NEW n, StateSet(m, t, "close", n)
  PROVE  Seen(k, D2, n)
<1>1. /\ k \in KernelState /\ m \in KernelState /\ NoDuplicates(m)
      /\ m.stat = [u \in Thread |-> IF u \in D THEN "close" ELSE k.stat[u]]
  BY DEF Seen
<1>2. /\ n \in KernelState /\ n.stat = [m.stat EXCEPT ![t] = "close"]
      /\ n.wait = m.wait /\ n.ready = m.ready /\ n.cur = m.cur
      /\ n.group = m.group /\ n.prio = m.prio /\ n.err = m.err
      /\ n.timer = m.timer /\ n.nest = m.nest
  BY <1>1 DEF KernelState, StateSet, Stat
<1>3. NoDuplicates(n)
  BY ONLY <1>1, <1>2 DEF NoDuplicates
<1>4. \A u : u \in D2 <=> u \in D \/ u = t
  BY DEF WithThread
<1>5. n.stat = [u \in Thread |-> IF u \in D2 THEN "close" ELSE k.stat[u]]
  BY ONLY <1>1, <1>2, <1>4, t \in Thread
<1> QED BY ONLY <1>2, <1>3, <1>5, Seen(k, D, m) DEF Seen

\* The critical section of rt_thread_exit, but for the list of dead threads.
LEMMA LiveExit ==
  ASSUME NEW k, NEW D, Live(k, D), NEW t \in Thread, t = k.cur, t \notin D,
         Lone(k, t), k.stat[t] = "ready",
         NEW k1, k1 = rt_schedule_remove_thread(k, t),
         NEW k2, StateSet(k1, t, "close", k2),
         NEW r, r = rt_timer_stop(k2, t)
  PROVE  /\ Live(r, D) /\ SameWait(k, r) /\ r.timer = k.timer
         /\ r.stat = [k.stat EXCEPT ![t] = "close"]
<1>t. /\ t \in Thread /\ t \notin D /\ Lone(k, t) /\ t \notin k.timer
      /\ k1 = rt_schedule_remove_thread(k, t)
  BY LiveFacts
<1>1. PICK m : Seen(k, D, m) /\ KInv(m)
  BY DEF Live
<1>2. PICK m1 : m1 = rt_schedule_remove_thread(m, t)
  OBVIOUS
<1>3. Seen(k1, D, m1) /\ k1.wait = k.wait /\ k1.cur = k.cur /\ k1.stat = k.stat
  BY ONLY <1>t, <1>1, <1>2, SeenRemove
<1>f. k1.timer = k.timer /\ k1.nest = k.nest
  <2>1. k \in KernelState /\ NoDuplicates(k)
    BY <1>1 DEF Seen
  <2>2. RemovedFields(k, t, k1)
    BY ONLY <1>t, <2>1, RemoveFields
  <2> QED BY <2>2 DEF RemovedFields
<1>4. PICK s : s = "close"
  OBVIOUS
<1>5. PICK n : n = [m1 EXCEPT !.stat[t] = s]
  OBVIOUS
<1>6. StateSet(k1, t, s, k2) /\ StateSet(m1, t, s, n) /\ s \in Stat
  BY <1>4, <1>5 DEF StateSet, Stat
<1>7. Seen(k2, D, n) /\ k2.wait = k1.wait /\ k2.cur = k1.cur
  BY ONLY <1>t, <1>3, <1>6, SeenState
<1>8. k2.stat = [k1.stat EXCEPT ![t] = s] /\ k2.timer = k1.timer
      /\ k2.nest = k1.nest
  BY <1>3, <1>6, StateSetFields DEF Seen
<1>9. KInv(n)
  <2>1. m \in KernelState /\ t \notin m.timer
    BY <1>t, <1>1 DEF Seen
  <2>2. StateSet(m1, t, "close", n)
    BY <1>4, <1>6
  <2> QED BY ONLY <1>t, <1>1, <1>2, <2>1, <2>2, CloseKeeps
<1>10. r = k2
  <2>1. k2 \in KernelState /\ t \notin k2.timer
    BY <1>t, <1>7, <1>8, <1>f DEF Seen
  <2>2. k2.timer \ {t} = k2.timer
    BY <2>1
  <2> QED BY <2>1, <2>2 DEF rt_timer_stop, KernelState
<1>11. Live(r, D)
  BY <1>7, <1>9, <1>10 DEF Live
<1>12. r.timer = k.timer /\ r.nest = k.nest
  BY <1>8, <1>10, <1>f
<1> QED BY <1>3, <1>4, <1>7, <1>8, <1>10, <1>11, <1>12 DEF SameWait

\* The first critical section of rt_thread_delete and rt_thread_detach.
LEMMA LiveDelete ==
  ASSUME NEW k, NEW D, Live(k, D), NEW t \in Thread, t \notin k.timer,
         t \notin D, Lone(k, t), NEW D2, WithThread(D, t, D2),
         NEW r, r = IF k.stat[t] # "init" THEN rt_schedule_remove_thread(k, t)
                    ELSE k
  PROVE  /\ Live(r, D2) /\ SameWait(k, r) /\ r.timer = k.timer
         /\ r.stat = k.stat
<1>t. t \in Thread /\ t \notin k.timer /\ Lone(k, t) /\ WithThread(D, t, D2)
  OBVIOUS
<1>1. PICK m : Seen(k, D, m) /\ KInv(m)
  BY DEF Live
<1>2. k \in KernelState /\ NoDuplicates(k)
      /\ m \in KernelState /\ t \notin m.timer /\ m.stat[t] = k.stat[t]
  BY <1>1 DEF Seen
<1>3. CASE k.stat[t] # "init"
  <2>1. r = rt_schedule_remove_thread(k, t)
    BY <1>3
  <2>2. PICK m1 : m1 = rt_schedule_remove_thread(m, t)
    OBVIOUS
  <2>3. Seen(r, D, m1) /\ r.wait = k.wait /\ r.cur = k.cur /\ r.stat = k.stat
    BY ONLY <1>t, <1>1, <2>1, <2>2, SeenRemove
  <2>4. PICK n : StateSet(m1, t, "close", n)
    BY DEF StateSet
  <2>5. KInv(n)
    BY ONLY <1>t, <1>1, <1>2, <2>2, <2>4, CloseKeeps
  <2>6. Seen(r, D2, n)
    BY ONLY <1>t, <2>3, <2>4, SeenDoomed
  <2>7. r.timer = k.timer /\ r.nest = k.nest
    <3>1. RemovedFields(k, t, r)
      BY ONLY <1>t, <1>2, <2>1, RemoveFields
    <3> QED BY ONLY <3>1 DEF RemovedFields
  <2> QED BY <2>3, <2>5, <2>6, <2>7 DEF Live, SameWait
<1>4. CASE k.stat[t] = "init"
  <2>1. r = k
    BY <1>4
  <2>2. PICK n : StateSet(m, t, "close", n)
    BY DEF StateSet
  <2>3. m.stat[t] = "init"
    BY <1>2, <1>4
  <2>4. KInv(n)
    BY ONLY <1>t, <1>1, <1>2, <2>2, <2>3, CloseUnstarted
  <2>5. Seen(k, D2, n)
    BY ONLY <1>t, <1>1, <2>2, SeenDoomed
  <2> QED BY <2>1, <2>4, <2>5 DEF Live, SameWait
<1> QED BY <1>3, <1>4

\* Its third: the state of a thread that is being deleted.
LEMMA LiveClosed ==
  ASSUME NEW k, NEW D, Live(k, D), NEW t \in Thread, t \in D,
         NEW r, StateSet(k, t, "close", r)
  PROVE  /\ Live(r, D) /\ SameWait(k, r) /\ r.timer = k.timer
         /\ r.stat = [k.stat EXCEPT ![t] = "close"]
<1>1. PICK m : Seen(k, D, m) /\ KInv(m)
  BY DEF Live
<1>2. k \in KernelState /\ NoDuplicates(k)
  BY <1>1 DEF Seen
<1>3. /\ r \in KernelState /\ r.stat = [k.stat EXCEPT ![t] = "close"]
      /\ r.wait = k.wait /\ r.ready = k.ready /\ r.cur = k.cur
      /\ r.group = k.group /\ r.prio = k.prio /\ r.err = k.err
      /\ r.timer = k.timer /\ r.nest = k.nest
  BY <1>2 DEF KernelState, StateSet, Stat
<1>4. NoDuplicates(r)
  BY ONLY <1>2, <1>3 DEF NoDuplicates
<1>5. m.stat = [u \in Thread |-> IF u \in D THEN "close" ELSE r.stat[u]]
  <2>1. k.stat \in [Thread -> Stat] /\ t \in D
    BY <1>2 DEF KernelState
  <2>2. m.stat = [u \in Thread |-> IF u \in D THEN "close" ELSE k.stat[u]]
    BY <1>1 DEF Seen
  <2> QED BY ONLY <2>1, <2>2, <1>3
<1>6. Seen(r, D, m)
  BY ONLY <1>1, <1>3, <1>4, <1>5 DEF Seen
<1> QED BY <1>1, <1>3, <1>6 DEF Live, SameWait

\* A closed thread is no longer told apart.
LEMMA LiveGone ==
  ASSUME NEW k, NEW D2, Live(k, D2), NEW t \in Thread, k.stat[t] = "close",
         NEW D, WithThread(D, t, D2)
  PROVE  Live(k, D)
<1>1. PICK m : Seen(k, D2, m) /\ KInv(m)
  BY DEF Live
<1>2. \A u : u \in D2 <=> u \in D \/ u = t
  BY DEF WithThread
<1>3. m.stat = [u \in Thread |-> IF u \in D2 THEN "close" ELSE k.stat[u]]
  BY <1>1 DEF Seen
<1>4. m.stat = [u \in Thread |-> IF u \in D THEN "close" ELSE k.stat[u]]
  BY <1>2, <1>3
<1>5. Seen(k, D, m)
  BY ONLY <1>1, <1>4 DEF Seen
<1> QED BY <1>1, <1>5 DEF Live

\* r is k with the thread t in front of the list q.
LinkedFirst(k, t, q, r) == r = [k EXCEPT !.wait[q] = <<t>> \o @]

\* A thread is put in front of a wait list that it is not in.
LEMMA LiveLink ==
  ASSUME NEW k, NEW D, Live(k, D), NEW t \in Thread, NEW q \in Queue,
         t \notin ToSet(k.wait[q]),
         NEW r, LinkedFirst(k, t, q, r)
  PROVE  /\ Live(r, D) /\ r.stat = k.stat /\ r.timer = k.timer
         /\ r.cur = k.cur /\ r.nest = k.nest
         /\ ToSet(r.wait[q]) = ToSet(k.wait[q]) \cup {t}
         /\ \A x \in Queue \ {q} : r.wait[x] = k.wait[x]
<1>1. PICK m : Seen(k, D, m) /\ KInv(m)
  BY DEF Live
<1>2. /\ k \in KernelState /\ NoDuplicates(k) /\ k.wait[q] \in Seq(Thread)
      /\ IsInjective(k.wait[q])
  BY <1>1 DEF Seen, KernelState, NoDuplicates
<1>3. PICK s : s = <<t>> \o k.wait[q]
  OBVIOUS
<1>4. s \in Seq(Thread) /\ IsInjective(s) /\ ToSet(s) = ToSet(k.wait[q]) \cup {t}
  BY <1>2, <1>3, PrependDistinct
<1>5. r = [k EXCEPT !.wait[q] = s]
  BY <1>3 DEF LinkedFirst
<1>6. /\ r \in KernelState /\ r.wait = [k.wait EXCEPT ![q] = s]
      /\ r.stat = k.stat /\ r.ready = k.ready /\ r.cur = k.cur
      /\ r.group = k.group /\ r.prio = k.prio /\ r.err = k.err
      /\ r.timer = k.timer /\ r.nest = k.nest
  BY ONLY <1>2, <1>4, <1>5, q \in Queue DEF KernelState
<1>7. \A x \in Queue : r.wait[x] = IF x = q THEN s ELSE k.wait[x]
  BY <1>2, <1>6 DEF KernelState
<1>8. NoDuplicates(r)
  BY ONLY <1>2, <1>4, <1>6, <1>7 DEF NoDuplicates
<1>9. Seen(r, D, m)
  BY ONLY <1>1, <1>6, <1>8 DEF Seen
<1> QED BY <1>1, <1>4, <1>6, <1>7, <1>9 DEF Live

\* r is k without the thread t in the lists.
TakenOut(k, t, r) ==
  /\ r.stat = k.stat /\ r.timer = k.timer
  /\ r.cur = k.cur /\ r.nest = k.nest
  /\ \A x \in Queue : ToSet(r.wait[x]) = ToSet(k.wait[x]) \ {t}
  /\ \A x \in Queue : t \notin ToSet(k.wait[x]) => r.wait[x] = k.wait[x]

\* A closed thread is taken out of its list.
LEMMA LiveUnlink ==
  ASSUME NEW k, NEW D, Live(k, D), NEW t \in Thread, k.stat[t] = "close",
         NEW r, r = rt_list_remove(k, t)
  PROVE  Live(r, D) /\ TakenOut(k, t, r)
<1>1. PICK m : Seen(k, D, m) /\ KInv(m)
  BY DEF Live
<1>2. k \in KernelState /\ NoDuplicates(k)
  BY <1>1 DEF Seen
<1>3. RemovedFields(k, t, r) /\ r.group = k.group
  BY <1>2, ListRemoveFields
<1>4. Unlinked(k, t, r)
  BY <1>2, ListRemove
<1>5. r.ready = k.ready
  <2>1. \A p \in Prio : t \notin ToSet(k.ready[p])
    BY LiveFacts
  <2>2. \A p \in Prio : Unlink(k.ready[p], t) = k.ready[p]
    BY <2>1, UnlinkOther
  <2>3. r.ready = [p \in Prio |-> k.ready[p]]
    BY <1>3, <2>2 DEF RemovedFields
  <2> QED BY <1>2, <2>3 DEF KernelState
<1>6. Seen(r, D, m)
  BY ONLY <1>1, <1>3, <1>4, <1>5 DEF Seen, RemovedFields, Unlinked
<1>7. Live(r, D)
  BY <1>1, <1>6 DEF Live
<1> QED BY ONLY <1>4, <1>7 DEF Unlinked, TakenOut

\* The scheduler once started.
LEMMA LiveStarted ==
  ASSUME NEW prio \in [Thread -> Prio], NEW r, r = scheduler_started(prio)
  PROVE  Live(r, {})
<1>1. /\ r \in KernelState /\ KInv(r) /\ r.wait = [q \in Queue |-> << >>]
  BY StartedKernel
<1>2. r.stat = [t \in Thread |-> IF t \in {} THEN "close" ELSE r.stat[t]]
  BY <1>1 DEF KernelState
<1>3. Seen(r, {}, r)
  BY <1>1, <1>2 DEF Seen, KInv
<1> QED BY <1>1, <1>3 DEF Live

-----------------------------------------------------------------------------
(* Numbers and lists.                                                      *)

\* Sums and differences that wrap around at most once.
LEMMA Around ==
  ASSUME NEW m \in Nat \ {0}, NEW x \in 0 .. (m - 1), NEW y \in 0 .. m
  PROVE  /\ (x + y) % m = IF x + y < m THEN x + y ELSE x + y - m
         /\ (x - y) % m = IF x >= y THEN x - y ELSE x - y + m
         /\ (x + y) % m \in 0 .. (m - 1) /\ (x - y) % m \in 0 .. (m - 1)
<1>1. (x + y) % m = IF x + y < m THEN x + y ELSE x + y - m
  <2>1. CASE x + y \in 0 .. (m - 1)
    BY ONLY <2>1, m \in Nat \ {0}
  <2>2. CASE x + y \in m .. (2 * m - 1)
    BY ONLY <2>2, m \in Nat \ {0}
  <2> QED BY <2>1, <2>2
<1>2. (x - y) % m = IF x >= y THEN x - y ELSE x - y + m
  <2>1. CASE x - y \in 0 .. (m - 1)
    BY <2>1
  <2>2. CASE x - y \in -m .. -1
    BY <2>2
  <2> QED BY <2>1, <2>2
<1> QED BY <1>1, <1>2

\* Two moves around the end are one.
LEMMA AroundTwice ==
  ASSUME NEW m \in Nat \ {0}, NEW x \in 0 .. (m - 1), NEW y \in 0 .. m, NEW z \in 0 .. m
  PROVE  /\ (((x + y) % m) + z) % m = (x + (IF y + z < m THEN y + z ELSE y + z - m)) % m
         /\ y + z <= m => (((x + y) % m) + z) % m = (x + (y + z)) % m
<1>1. PICK p \in 0 .. (m - 1) : p = (x + y) % m
  BY ONLY m \in Nat \ {0}, x \in 0 .. (m - 1), y \in 0 .. m, Around
<1>2. p = IF x + y < m THEN x + y ELSE x + y - m
  BY ONLY m \in Nat \ {0}, x \in 0 .. (m - 1), y \in 0 .. m, <1>1, Around
<1>3. (p + z) % m = IF p + z < m THEN p + z ELSE p + z - m
  BY ONLY m \in Nat \ {0}, p \in 0 .. (m - 1), z \in 0 .. m, Around
<1>4. \A t \in 0 .. m : (x + t) % m = IF x + t < m THEN x + t ELSE x + t - m
  BY ONLY m \in Nat \ {0}, x \in 0 .. (m - 1), Around
<1>5. (p + z) % m = (x + (IF y + z < m THEN y + z ELSE y + z - m)) % m
  <2>1. PICK t \in 0 .. m : t = IF y + z < m THEN y + z ELSE y + z - m
    <3>1. (IF y + z < m THEN y + z ELSE y + z - m) \in 0 .. m
      BY ONLY m \in Nat \ {0}, y \in 0 .. m, z \in 0 .. m
    <3> QED BY ONLY <3>1
  <2>2. (p + z) % m = (x + t) % m
    BY ONLY m \in Nat \ {0}, x \in 0 .. (m - 1), y \in 0 .. m, z \in 0 .. m,
            t \in 0 .. m, p \in 0 .. (m - 1), <1>2, <1>3, <1>4, <2>1
  <2> QED BY <2>1, <2>2
<1>6. ASSUME y + z <= m PROVE (p + z) % m = (x + (y + z)) % m
  <2>1. PICK t \in 0 .. m : t = y + z
    BY <1>6
  <2>2. (p + z) % m = (x + t) % m
    BY ONLY m \in Nat \ {0}, x \in 0 .. (m - 1), y \in 0 .. m, z \in 0 .. m,
            t \in 0 .. m, p \in 0 .. (m - 1), <1>2, <1>3, <1>4, <2>1
  <2> QED BY <2>1, <2>2
<1> QED BY <1>1, <1>5, <1>6

\* The smaller of two numbers.
LEMMA MinOfTwo ==
  ASSUME NEW x \in Nat, NEW y \in Nat
  PROVE  Min({x, y}) = IF x <= y THEN x ELSE y
BY DEF Min

\* A list without its first d elements.
LEMMA ListRest ==
  ASSUME NEW S, NEW l \in Seq(S), NEW d \in 0 .. Len(l)
  PROVE  /\ SubSeq(l, d + 1, Len(l)) \in Seq(S)
         /\ Len(SubSeq(l, d + 1, Len(l))) = Len(l) - d
         /\ \A i \in 1 .. (Len(l) - d) : SubSeq(l, d + 1, Len(l))[i] = l[d + i]
OBVIOUS

\* The first n elements of a list.
LEMMA ListFirst ==
  ASSUME NEW S, NEW l \in Seq(S), NEW n \in 0 .. Len(l)
  PROVE  SubSeq(l, 1, n) \in Seq(S) /\ Len(SubSeq(l, 1, n)) = n
OBVIOUS

\* One list behind the other.
LEMMA ListJoin ==
  ASSUME NEW S, NEW l \in Seq(S), NEW m \in Seq(S)
  PROVE  /\ l \o m \in Seq(S) /\ Len(l \o m) = Len(l) + Len(m)
         /\ \A i \in 1 .. (Len(l) + Len(m)) :
              (l \o m)[i] = IF i <= Len(l) THEN l[i] ELSE m[i - Len(l)]
OBVIOUS
=============================================================================
