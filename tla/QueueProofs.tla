----------------------------- MODULE QueueProofs -----------------------------
(***************************************************************************)
(* Proofs about QueueList: the list stays intact, and every step is one of *)
(* Queue.                                                                  *)
(*                                                                         *)
(* The proofs speak of `lists': the cells of the queue, and those each     *)
(* queue_remove_all has taken off it, as sequences. That a sequence is     *)
(* what Chain finds in the heap is one lemma (AlongIs); what a call does   *)
(* to the heap is then an insertion in a sequence or a removal from one.   *)
(***************************************************************************)
EXTENDS QueueList, TLAPS, SequenceTheorems, FiniteSetTheorems,
        WellFoundedInduction

-----------------------------------------------------------------------------
(* Numbers and sequences *)

\* A set of numbers that is not empty has a least one.
LEMMA Least ==
    ASSUME NEW T, T \subseteq Nat, T # {}
    PROVE  \E x \in T : \A y \in T : x <= y
<1>1. PICK x \in T : \A y \in T : ~(<<y, x>> \in OpToRel(<, Nat))
  BY NatLessThanWellFounded, WFMin
<1>2. \A y \in T : ~(y < x)
  BY <1>1 DEF OpToRel
<1> QED
  BY <1>2

\* Induction over numbers, with a set of numbers for the property.
LEMMA Counting ==
    ASSUME NEW n \in Nat, NEW T, 0 \in T,
           \A k \in 0 .. n - 1 : k \in T => k + 1 \in T
    PROVE  0 .. n \subseteq T
<1> SUFFICES ASSUME (0 .. n) \ T # {} PROVE FALSE
  OBVIOUS
<1>1. PICK x \in (0 .. n) \ T : \A y \in (0 .. n) \ T : x <= y
  <2>1. (0 .. n) \ T \subseteq Nat
    OBVIOUS
  <2> QED
    BY <2>1, Least
<1>2. x - 1 \in 0 .. n - 1 /\ (x - 1) + 1 = x /\ x - 1 \in 0 .. n
  BY <1>1
<1> QED
  BY <1>1, <1>2

-----------------------------------------------------------------------------
(* Linked cells *)

Next1(s, i) == IF i = Len(s) THEN Null ELSE s[i + 1]

\* In the heap h the cells from c on are those of s, all different
Linked(h, c, s) ==
    /\ s \in Seq(DOMAIN h)
    /\ c = IF s = << >> THEN Null ELSE s[1]
    /\ \A i \in 1 .. Len(s) : h[s[i]].next = Next1(s, i)
    /\ \A i, j \in 1 .. Len(s) : s[i] = s[j] => i = j

IsHeap(h) ==
    /\ DOMAIN h \subseteq Cells
    /\ h \in [DOMAIN h -> [data : Data, next : Cells \cup {Null}]]

\* What Along computes
Follows(f, h, c) ==
    f = [k \in 0 .. MaxCells |->
            IF k = 0 THEN (IF c = Null THEN << >> ELSE << c >>)
            ELSE LET s == f[k - 1]
                     next == IF s = << >> THEN Null ELSE h[s[Len(s)]].next
                 IN  IF next = Null THEN s ELSE Append(s, next)]

\* The first k + 1 elements
Upto(s, k) == IF k < Len(s) THEN SubSeq(s, 1, k + 1) ELSE s

\* Linked cells are all different, so no list is longer than MaxCells.
LEMMA LinkedFits ==
    ASSUME NEW h, IsHeap(h), NEW c, NEW s, Linked(h, c, s)
    PROVE  Len(s) <= MaxCells
<1>1. s \in Seq(DOMAIN h) /\ Len(s) \in Nat /\ DOMAIN s = 1 .. Len(s)
  BY LenProperties DEF Linked
<1>2. \A i \in 1 .. Len(s) : s[i] \in Cells
  BY <1>1, ElementOfSeq DEF IsHeap
<1>3. MaxCells \in Nat /\ IsFiniteSet(Cells) /\ Cardinality(Cells) = MaxCells
  BY QueueConstants, FS_Interval, SMT DEF Cells
<1>4. /\ IsFiniteSet(1 .. Len(s)) /\ Cardinality(1 .. Len(s)) = Len(s)
  <2>1. \A n \in Nat : IsFiniteSet(1 .. n) /\ Cardinality(1 .. n) = n
    BY FS_Interval, SMT
  <2> QED
    BY <1>1, <2>1
<1> SUFFICES ASSUME MaxCells < Len(s) PROVE FALSE
  BY <1>1, <1>3
<1> DEFINE f == [i \in 1 .. Len(s) |-> s[i]]
<1>5. f \in [1 .. Len(s) -> Cells]
  BY <1>2
<1>6. \E i, j \in 1 .. Len(s) : i # j /\ f[i] = f[j]
  <2> HIDE DEF f
  <2> QED
    BY <1>3, <1>4, <1>5, FS_PigeonHole
<1> QED
  BY <1>6 DEF Linked

\* One step of the walk through the heap lengthens what was seen by one cell.
LEMMA FollowStep ==
    ASSUME NEW h, IsHeap(h), NEW c, NEW s, Linked(h, c, s),
           NEW k \in Nat
    PROVE  LET p == Upto(s, k)
               next == IF p = << >> THEN Null ELSE h[p[Len(p)]].next
           IN  Upto(s, k + 1) = IF next = Null THEN p ELSE Append(p, next)
<1> DEFINE p == Upto(s, k)
           next == IF p = << >> THEN Null ELSE h[p[Len(p)]].next
<1>1. s \in Seq(DOMAIN h) /\ Len(s) \in Nat /\ DOMAIN s = 1 .. Len(s)
  BY LenProperties DEF Linked
<1>2. \A i \in 1 .. Len(s) : s[i] \in Nat /\ s[i] # Null
  BY <1>1, ElementOfSeq, QueueConstants DEF IsHeap, Cells, Null
<1>3. CASE k >= Len(s)
  <2>1. p = s /\ Upto(s, k + 1) = s
    <3>1. ~(k < Len(s)) /\ ~(k + 1 < Len(s))
      BY <1>1, <1>3
    <3> QED
      BY <3>1, Zenon DEF Upto
  <2>2. next = Null
    <3>1. CASE s = << >>
      BY <2>1, <3>1
    <3>2. CASE s # << >>
      <4>1. Len(s) \in 1 .. Len(s)
        BY <1>1, <3>2, EmptySeq
      <4>2. h[s[Len(s)]].next = Next1(s, Len(s))
        BY <4>1 DEF Linked
      <4> QED
        BY <2>1, <4>2 DEF Next1
    <3> QED
      BY <3>1, <3>2
  <2> QED
    BY <2>1, <2>2
<1>4. CASE k < Len(s)
  <2>0. /\ k + 1 \in Nat /\ (k + 1) + 1 = k + 2 /\ ~(k + 1 < k + 1)
        /\ k + 1 = Len(s) \/ k + 1 < Len(s)
        /\ k + 1 < Len(s) => k + 2 \in 1 .. Len(s) /\ k + 1 # Len(s)
    <3> DEFINE n == Len(s)
    <3>1. n \in Nat /\ k < n
      BY <1>1, <1>4
    <3> HIDE DEF n, p, next
    <3>2. /\ k + 1 = n \/ k + 1 < n
          /\ k + 1 < n => k + 2 \in 1 .. n /\ k + 1 # n
      BY <3>1
    <3> QED
      BY <3>2 DEF n
  <2>1. /\ p = SubSeq(s, 1, k + 1) /\ Len(p) = k + 1 /\ p \in Seq(DOMAIN h)
        /\ \A i \in 1 .. k + 1 : p[i] = s[i]
    BY <1>1, <1>4, SubSeqProperties DEF Upto
  <2>2. p # << >> /\ p[Len(p)] = s[k + 1] /\ k + 1 \in 1 .. Len(s)
    BY <1>1, <1>4, <2>1
  <2>3. next = Next1(s, k + 1)
    BY <2>2 DEF Linked
  <2>4. CASE k + 1 = Len(s)
    <3>1. k + 1 \in Nat /\ ~(k + 1 < Len(s)) /\ p = s
      BY <1>1, <2>0, <2>1, <2>4, SubSeqFull, Zenon
    <3>2. next = Null /\ Upto(s, k + 1) = s
      BY <2>3, <2>4, <3>1, Zenon DEF Next1, Upto
    <3> QED
      BY <3>1, <3>2
  <2>5. CASE k + 1 < Len(s)
    <3>1. next = s[k + 2] /\ next # Null /\ next \in DOMAIN h
      <4>1. k + 2 \in 1 .. Len(s) /\ (k + 1) + 1 = k + 2 /\ k + 1 # Len(s)
        BY <2>0, <2>5, Zenon
      <4>2. s[k + 2] \in DOMAIN h
        BY <1>1, <4>1, ElementOfSeq
      <4> QED
        BY <1>2, <2>3, <4>1, <4>2 DEF Next1
    <3>2. /\ Upto(s, k + 1) = SubSeq(s, 1, k + 2)
      BY <1>1, <2>5 DEF Upto
    <3>3. SubSeq(s, 1, k + 2) = Append(p, s[k + 2])
      BY <1>1, <2>1, <2>5
    <3> QED
      BY <3>1, <3>2, <3>3, SMTT(40)
  <2> QED
    BY <2>0, <2>4, <2>5
<1>5. k >= Len(s) \/ k < Len(s)
  BY <1>1
<1> QED
  BY <1>3, <1>4, <1>5

\* The walk starts with the first cell, or with nothing.
LEMMA UptoFirst ==
    ASSUME NEW h, IsHeap(h), NEW c, NEW s, Linked(h, c, s)
    PROVE  Upto(s, 0) = IF c = Null THEN << >> ELSE << c >>
<1>1. s \in Seq(DOMAIN h) /\ Len(s) \in Nat /\ DOMAIN s = 1 .. Len(s)
  BY LenProperties DEF Linked
<1>2. CASE s = << >>
  BY <1>2 DEF Upto, Linked
<1>3. CASE s # << >>
  <2>1. 0 < Len(s) /\ 1 \in 1 .. Len(s)
    BY <1>1, <1>3, EmptySeq
  <2>2. c = s[1] /\ c # Null
    <3>1. s[1] \in DOMAIN h
      BY <1>1, <2>1, ElementOfSeq
    <3> QED
      BY <1>3, <3>1, QueueConstants DEF Linked, IsHeap, Cells, Null
  <2>3. SubSeq(s, 1, 1) = << s[1] >>
    <3> DEFINE p == SubSeq(s, 1, 1)
               r == << s[1] >>
    <3>1. \A i \in 1 .. 1 : s[i] \in DOMAIN h
      BY <1>1, <2>1, ElementOfSeq
    <3>2. p \in Seq(DOMAIN h) /\ Len(p) = 1 /\ p[1] = s[1]
      BY <3>1, SubSeqProperties
    <3>3. r \in Seq(DOMAIN h) /\ Len(r) = 1 /\ r[1] = s[1]
      BY <3>1
    <3> HIDE DEF p, r
    <3>4. p = r
      BY <3>2, <3>3, SeqEqual
    <3> QED
      BY <3>4 DEF p, r
  <2> QED
    BY <2>1, <2>2, <2>3 DEF Upto
<1> QED
  BY <1>2, <1>3

\* The sequence of the cells from c on, which is unique, is what Along gives
LEMMA AlongIs ==
    ASSUME NEW h, IsHeap(h), NEW c, NEW s, Linked(h, c, s)
    PROVE  Along(h, c) = s
<1> DEFINE g == [k \in 0 .. MaxCells |-> Upto(s, k)]
           f == CHOOSE e : Follows(e, h, c)
           step(e, k) ==
               IF k = 0 THEN (IF c = Null THEN << >> ELSE << c >>)
               ELSE LET t == e[k - 1]
                        next == IF t = << >> THEN Null ELSE h[t[Len(t)]].next
                    IN  IF next = Null THEN t ELSE Append(t, next)
<1>1. MaxCells \in Nat /\ 0 \in 0 .. MaxCells /\ MaxCells \in 0 .. MaxCells
  BY QueueConstants
<1>2. \A k \in 0 .. MaxCells : \A e : (k # 0 => e[k - 1] = Upto(s, k - 1)) =>
                                      step(e, k) = Upto(s, k)
  <2> SUFFICES ASSUME NEW k \in 0 .. MaxCells, NEW e,
                      k # 0 => e[k - 1] = Upto(s, k - 1)
               PROVE  step(e, k) = Upto(s, k)
    OBVIOUS
  <2>1. CASE k = 0
    BY <2>1, UptoFirst
  <2>2. CASE k # 0
    <3>1. k - 1 \in Nat /\ (k - 1) + 1 = k
      BY <2>2
    <3>2. LET p == Upto(s, k - 1)
              next == IF p = << >> THEN Null ELSE h[p[Len(p)]].next
          IN  Upto(s, (k - 1) + 1) = IF next = Null THEN p ELSE Append(p, next)
      BY <3>1, FollowStep, SMTT(40)
    <3> QED
      BY <2>2, <3>1, <3>2
  <2> QED
    BY <2>1, <2>2
<1>3. Follows(g, h, c)
  <2>1. \A k \in 0 .. MaxCells : step(g, k) = Upto(s, k)
    <3>1. \A k \in 0 .. MaxCells : k # 0 => g[k - 1] = Upto(s, k - 1)
      <4>1. \A k \in 0 .. MaxCells : k # 0 => k - 1 \in 0 .. MaxCells
        BY <1>1
      <4> QED
        BY <4>1
    <3> HIDE DEF step, g
    <3> QED
      BY <1>2, <3>1
  <2>2. g = [k \in 0 .. MaxCells |-> step(g, k)]
    <3> HIDE DEF step
    <3>1. g = [k \in 0 .. MaxCells |-> Upto(s, k)]
      OBVIOUS
    <3> HIDE DEF g
    <3> QED
      BY <2>1, <3>1
  <2> HIDE DEF g
  <2> QED
    BY <2>2, ZenonT(40) DEF Follows
<1>4. Follows(f, h, c)
  BY <1>3
<1>5. Along(h, c) = f[MaxCells]
  BY SMTT(40) DEF Along, Follows
<1> DEFINE T == {k \in 0 .. MaxCells : f[k] = Upto(s, k)}
<1>6. \A k \in 0 .. MaxCells : f[k] = step(f, k)
  <2> HIDE DEF f
  <2> QED
    BY <1>4, ZenonT(40) DEF Follows
<1> HIDE DEF f, step
<1>7. 0 \in T
  BY <1>1, <1>2, <1>6
<1>8. ASSUME NEW k \in 0 .. MaxCells - 1, k \in T PROVE k + 1 \in T
  <2>1. k + 1 \in 0 .. MaxCells /\ k + 1 # 0 /\ (k + 1) - 1 = k
    BY <1>1
  <2> QED
    BY <1>2, <1>6, <1>8, <2>1
<1> HIDE DEF T
<1>9. MaxCells \in T
  BY <1>1, <1>7, <1>8, Counting
<1>10. Upto(s, MaxCells) = s
  <2>1. Len(s) <= MaxCells /\ Len(s) \in Nat
    BY LinkedFits, LenProperties DEF Linked
  <2>2. ~(MaxCells < Len(s))
    BY <1>1, <2>1
  <2> QED
    BY <2>2 DEF Upto
<1> QED
  BY <1>5, <1>9, <1>10 DEF T

\* What is next to an entry in the middle of a list: the list without its i-th
\* cell, and with f behind its i-th
Removed(s, i) ==
    [k \in 1 .. Len(s) - 1 |-> IF k < i THEN s[k] ELSE s[k + 1]]

Inserted(s, i, f) ==
    [k \in 1 .. Len(s) + 1 |->
        IF k <= i THEN s[k] ELSE IF k = i + 1 THEN f ELSE s[k - 1]]

InList(c, s) == \E k \in 1 .. Len(s) : s[k] = c

\* A function on 1 .. n is a sequence of length n.
LEMMA LenOfFunction ==
    ASSUME NEW S, NEW n \in Nat, NEW s \in [1 .. n -> S]
    PROVE  s \in Seq(S) /\ Len(s) = n
BY SeqDef

\* The elements of a sequence without its i-th.
LEMMA RemovedElements ==
    ASSUME NEW S, NEW s \in Seq(S), NEW i \in 1 .. Len(s)
    PROVE  /\ Removed(s, i) \in Seq(S)
           /\ Len(Removed(s, i)) = Len(s) - 1
           /\ \A k \in 1 .. Len(s) - 1 :
                  Removed(s, i)[k] = IF k < i THEN s[k] ELSE s[k + 1]
<1> DEFINE n == Len(s)
<1>1. n \in Nat /\ \A k \in 1 .. n : s[k] \in S
  BY LenProperties, ElementOfSeq
<1>2. n - 1 \in Nat /\ \A k \in 1 .. n - 1 : k \in 1 .. n /\ k + 1 \in 1 .. n
  BY <1>1
<1> HIDE DEF n
<1>3. [k \in 1 .. n - 1 |-> IF k < i THEN s[k] ELSE s[k + 1]]
          \in [1 .. n - 1 -> S]
  BY <1>1, <1>2
<1>4. Removed(s, i) \in [1 .. n - 1 -> S]
  BY <1>3 DEF Removed, n
<1>5. Removed(s, i) \in Seq(S) /\ Len(Removed(s, i)) = n - 1
  BY <1>2, <1>4, LenOfFunction
<1> QED
  BY <1>5 DEF Removed, n

\* The elements of a sequence with f behind its i-th.
LEMMA InsertedElements ==
    ASSUME NEW S, NEW s \in Seq(S), NEW i \in 0 .. Len(s), NEW f \in S
    PROVE  /\ Inserted(s, i, f) \in Seq(S)
           /\ Len(Inserted(s, i, f)) = Len(s) + 1
           /\ \A k \in 1 .. Len(s) + 1 :
                  Inserted(s, i, f)[k] =
                      IF k <= i THEN s[k]
                      ELSE IF k = i + 1 THEN f ELSE s[k - 1]
<1> DEFINE n == Len(s)
<1>1. n \in Nat /\ \A k \in 1 .. n : s[k] \in S
  BY LenProperties, ElementOfSeq
<1>2. /\ n + 1 \in Nat
      /\ \A k \in 1 .. n + 1 : /\ k <= i => k \in 1 .. n
                               /\ k > i /\ k # i + 1 => k - 1 \in 1 .. n
  BY <1>1
<1> HIDE DEF n
<1>3. \A k \in 1 .. n + 1 :
          (IF k <= i THEN s[k] ELSE IF k = i + 1 THEN f ELSE s[k - 1]) \in S
  <2> SUFFICES ASSUME NEW k \in 1 .. n + 1
               PROVE  (IF k <= i THEN s[k]
                       ELSE IF k = i + 1 THEN f ELSE s[k - 1]) \in S
    OBVIOUS
  <2>1. k <= i \/ k > i
    BY DEF n
  <2> QED
    BY <1>1, <1>2, <2>1
<1>4. Inserted(s, i, f) \in [1 .. n + 1 -> S]
  BY <1>3 DEF Inserted, n
<1>5. Inserted(s, i, f) \in Seq(S) /\ Len(Inserted(s, i, f)) = n + 1
  BY <1>2, <1>4, LenOfFunction
<1> QED
  BY <1>5 DEF Inserted, n

Different(s) == \A i, j \in 1 .. Len(s) : s[i] = s[j] => i = j

\* A list that a change of the heap does not touch
LEMMA LinkedFrame ==
    ASSUME NEW h, NEW h2, NEW c, NEW s, Linked(h, c, s),
           \A e \in DOMAIN h : InList(e, s) =>
               e \in DOMAIN h2 /\ h2[e].next = h[e].next
    PROVE  Linked(h2, c, s)
<1>1. s \in Seq(DOMAIN h) /\ Len(s) \in Nat
  BY LenProperties DEF Linked
<1>2. \A i \in 1 .. Len(s) : /\ s[i] \in DOMAIN h2
                             /\ h2[s[i]].next = h[s[i]].next
  BY <1>1, ElementOfSeq DEF InList
<1>3. s \in Seq(DOMAIN h2)
  <2>1. s \in [1 .. Len(s) -> DOMAIN h2]
    BY <1>1, <1>2, LenProperties
  <2> QED
    BY <1>1, <2>1, LenOfFunction
<1> QED
  BY <1>2, <1>3 DEF Linked

\* Without its i-th, a list without repetition still has none, and lacks that cell.
LEMMA RemovedCells ==
    ASSUME NEW S, NEW s \in Seq(S), Different(s), NEW i \in 1 .. Len(s)
    PROVE  /\ Different(Removed(s, i))
           /\ \A c : InList(c, Removed(s, i)) <=> InList(c, s) /\ c # s[i]
<1> DEFINE n == Len(s)
           r == Removed(s, i)
           from(k) == IF k < i THEN k ELSE k + 1
<1>1. n \in Nat /\ i \in 1 .. n
  BY LenProperties
<1>2. /\ Len(r) = n - 1
      /\ \A k \in 1 .. n - 1 : r[k] = IF k < i THEN s[k] ELSE s[k + 1]
  BY RemovedElements
<1> HIDE DEF n, r
<1>3. \A k \in 1 .. n - 1 : /\ from(k) \in 1 .. n /\ from(k) # i
                            /\ r[k] = s[from(k)]
  BY <1>1, <1>2
<1>4. \A j, k \in 1 .. n - 1 : from(j) = from(k) => j = k
  BY <1>1
<1>5. \A k \in 1 .. n : k # i => \E j \in 1 .. n - 1 : from(j) = k
  <2> SUFFICES ASSUME NEW k \in 1 .. n, k # i
               PROVE  \E j \in 1 .. n - 1 : from(j) = k
    OBVIOUS
  <2>1. CASE k < i
    BY <1>1, <2>1
  <2>2. CASE k > i
    <3>1. k - 1 \in 1 .. n - 1 /\ from(k - 1) = k
      BY <1>1, <2>2
    <3> QED
      BY <3>1
  <2> QED
    BY <1>1, <2>1, <2>2
<1> HIDE DEF from
<1>6. \A j, k \in 1 .. n : s[j] = s[k] => j = k
  BY DEF Different, n
<1>7. Different(r)
  BY <1>2, <1>3, <1>4, <1>6 DEF Different
<1>8. ASSUME NEW c
      PROVE  InList(c, r) <=> InList(c, s) /\ c # s[i]
  <2>1. InList(c, r) => InList(c, s) /\ c # s[i]
    BY <1>1, <1>2, <1>3, <1>6 DEF InList, n
  <2>2. ASSUME InList(c, s), c # s[i] PROVE InList(c, r)
    <3>1. PICK k \in 1 .. n : s[k] = c
      BY <2>2 DEF InList, n
    <3>2. PICK j \in 1 .. n - 1 : from(j) = k
      BY <1>5, <2>2, <3>1
    <3> QED
      BY <1>2, <1>3, <3>1, <3>2 DEF InList
  <2> QED
    BY <2>1, <2>2
<1> QED
  BY <1>7, <1>8 DEF r

\* With a new cell, a list without repetition still has none.
LEMMA InsertedCells ==
    ASSUME NEW S, NEW s \in Seq(S), Different(s), NEW i \in 0 .. Len(s),
           NEW f \in S, ~InList(f, s)
    PROVE  /\ Different(Inserted(s, i, f))
           /\ \A c : InList(c, Inserted(s, i, f)) <=> InList(c, s) \/ c = f
<1> DEFINE n == Len(s)
           r == Inserted(s, i, f)
           from(k) == IF k <= i THEN k ELSE k - 1
<1>1. n \in Nat /\ i \in 0 .. n
  BY LenProperties
<1>2. /\ Len(r) = n + 1
      /\ \A k \in 1 .. n + 1 : r[k] = IF k <= i THEN s[k]
                                      ELSE IF k = i + 1 THEN f ELSE s[k - 1]
  BY InsertedElements
<1> HIDE DEF n, r
<1>3. /\ i + 1 \in 1 .. n + 1 /\ r[i + 1] = f
      /\ \A k \in 1 .. n + 1 : k # i + 1 =>
             from(k) \in 1 .. n /\ r[k] = s[from(k)]
  BY <1>1, <1>2
<1>4. \A j, k \in 1 .. n + 1 :
          j # i + 1 /\ k # i + 1 /\ from(j) = from(k) => j = k
  BY <1>1
<1>5. \A k \in 1 .. n : \E j \in 1 .. n + 1 : j # i + 1 /\ from(j) = k
  <2> SUFFICES ASSUME NEW k \in 1 .. n
               PROVE  \E j \in 1 .. n + 1 : j # i + 1 /\ from(j) = k
    OBVIOUS
  <2>1. CASE k <= i
    <3>1. k \in 1 .. n + 1 /\ k # i + 1 /\ from(k) = k
      BY <1>1, <2>1
    <3> QED
      BY <3>1
  <2>2. CASE k > i
    <3>1. k + 1 \in 1 .. n + 1 /\ k + 1 # i + 1 /\ from(k + 1) = k
      BY <1>1, <2>2
    <3> QED
      BY <3>1
  <2> QED
    BY <1>1, <2>1, <2>2
<1> HIDE DEF from
<1>6. /\ \A j, k \in 1 .. n : s[j] = s[k] => j = k
      /\ \A k \in 1 .. n : s[k] # f
  BY DEF Different, InList, n
<1>7. Different(r)
  <2> SUFFICES ASSUME NEW j \in 1 .. n + 1, NEW k \in 1 .. n + 1, r[j] = r[k]
               PROVE  j = k
    BY <1>2 DEF Different
  <2>1. CASE j # i + 1 /\ k # i + 1
    BY <1>3, <1>4, <1>6, <2>1
  <2>2. CASE j = i + 1 \/ k = i + 1
    BY <1>3, <1>6, <2>2
  <2> QED
    BY <2>1, <2>2
<1>8. ASSUME NEW c
      PROVE  InList(c, r) <=> InList(c, s) \/ c = f
  <2>1. InList(c, r) => InList(c, s) \/ c = f
    BY <1>1, <1>2, <1>3, <1>6 DEF InList, n
  <2>2. ASSUME InList(c, s) PROVE InList(c, r)
    <3>1. PICK k \in 1 .. n : s[k] = c
      BY <2>2 DEF InList, n
    <3>2. PICK j \in 1 .. n + 1 : j # i + 1 /\ from(j) = k
      BY <1>5, <3>1
    <3> QED
      BY <1>2, <1>3, <3>1, <3>2 DEF InList
  <2>3. InList(f, r)
    BY <1>2, <1>3 DEF InList
  <2> QED
    BY <2>1, <2>2, <2>3
<1> QED
  BY <1>7, <1>8 DEF r

\* What a new cell f behind the i-th of the list s, and what freeing the i-th,
\* does to a heap
Spliced(h, h2, s, i, d, f) ==
    /\ DOMAIN h2 = DOMAIN h \cup {f}
    /\ h2[f] = [data |-> d, next |-> Next1(s, i)]
    /\ \A c \in DOMAIN h :
          h2[c] = [data |-> h[c].data,
                   next |-> IF i > 0 /\ c = s[i] THEN f ELSE h[c].next]

Cut(h, h2, s, i) ==
    /\ DOMAIN h2 = DOMAIN h \ {s[i]}
    /\ \A c \in DOMAIN h2 :
          h2[c] = [data |-> h[c].data,
                   next |-> IF i > 1 /\ c = s[i - 1] THEN h[s[i]].next
                                                     ELSE h[c].next]

\* Linking a new cell behind the i-th links the longer list.
LEMMA LinkedSpliced ==
    ASSUME NEW h, NEW h2, NEW c, NEW s, Linked(h, c, s),
           NEW i \in 0 .. Len(s), NEW d, NEW f, f \notin DOMAIN h,
           Spliced(h, h2, s, i, d, f)
    PROVE  Linked(h2, IF i = 0 THEN f ELSE c, Inserted(s, i, f))
<1> DEFINE n == Len(s)
           r == Inserted(s, i, f)
<1>1. /\ n \in Nat /\ i \in 0 .. n /\ s \in Seq(DOMAIN h)
      /\ s \in Seq(DOMAIN h2) /\ f \in DOMAIN h2
      /\ \A k \in 1 .. n : s[k] \in DOMAIN h
  <2>1. s \in Seq(DOMAIN h) /\ n \in Nat
    BY LenProperties DEF Linked
  <2>2. DOMAIN h \subseteq DOMAIN h2 /\ f \in DOMAIN h2
    BY DEF Spliced
  <2>3. s \in Seq(DOMAIN h2)
    BY <2>1, <2>2, SeqMonotonic
  <2> QED
    BY <2>1, <2>2, <2>3, ElementOfSeq
<1>2. Different(s) /\ ~InList(f, s)
  BY <1>1 DEF Linked, Different, InList
<1>3. /\ r \in Seq(DOMAIN h2) /\ Len(r) = n + 1
      /\ \A k \in 1 .. n + 1 : r[k] = IF k <= i THEN s[k]
                                      ELSE IF k = i + 1 THEN f ELSE s[k - 1]
  BY <1>1, InsertedElements
<1>4. Different(r)
  BY <1>1, <1>2, InsertedCells
<1>5. /\ \A k \in 1 .. n : h[s[k]].next = IF k = n THEN Null ELSE s[k + 1]
      /\ c = IF s = << >> THEN Null ELSE s[1]
      /\ s = << >> <=> n = 0
      /\ \A j, k \in 1 .. n : s[j] = s[k] => j = k
  <2>1. s = << >> <=> n = 0
    BY <1>1, EmptySeq
  <2> QED
    BY <2>1 DEF Linked, Next1
<1>6. /\ h2[f].next = IF i = n THEN Null ELSE s[i + 1]
      /\ \A k \in 1 .. n : h2[s[k]].next = IF i > 0 /\ k = i THEN f
                                           ELSE h[s[k]].next
  <2>1. h2[f].next = IF i = n THEN Null ELSE s[i + 1]
    BY DEF Spliced, Next1
  <2>2. ASSUME NEW k \in 1 .. n
        PROVE  h2[s[k]].next = IF i > 0 /\ k = i THEN f ELSE h[s[k]].next
    <3>1. h2[s[k]].next = IF i > 0 /\ s[k] = s[i] THEN f ELSE h[s[k]].next
      BY <1>1 DEF Spliced
    <3>2. i > 0 => (s[k] = s[i] <=> k = i)
      BY <1>1, <1>5
    <3> QED
      BY <3>1, <3>2
  <2> QED
    BY <2>1, <2>2
<1> HIDE DEF n, r
<1>7. ASSUME NEW k \in 1 .. n + 1
      PROVE  h2[r[k]].next = IF k = n + 1 THEN Null ELSE r[k + 1]
  <2>1. CASE k < i
    <3>1. /\ k \in 1 .. n /\ k + 1 \in 1 .. n + 1 /\ k # n /\ k # n + 1 /\ k # i
          /\ k + 1 <= i
      BY <1>1, <2>1
    <3>2. r[k] = s[k] /\ r[k + 1] = s[k + 1]
      BY <1>3, <2>1, <3>1
    <3>3. h2[s[k]].next = s[k + 1]
      BY <1>5, <1>6, <3>1
    <3> QED
      BY <3>1, <3>2, <3>3
  <2>2. CASE k = i
    <3>1. /\ k \in 1 .. n /\ k + 1 \in 1 .. n + 1 /\ i > 0 /\ k # n + 1
          /\ ~(k + 1 <= i)
      BY <1>1, <2>2
    <3> QED
      BY <1>3, <1>6, <2>2, <3>1
  <2>3. CASE k = i + 1
    <3>1. r[k] = f
      BY <1>1, <1>3, <2>3
    <3>2. k = n + 1 <=> i = n
      BY <1>1, <2>3
    <3>3. i # n => r[k + 1] = s[i + 1]
      BY <1>1, <1>3, <2>3
    <3> QED
      BY <1>6, <3>1, <3>2, <3>3
  <2>4. CASE k > i + 1
    <3>1. /\ k - 1 \in 1 .. n /\ k - 1 # i /\ r[k] = s[k - 1]
          /\ (k - 1) + 1 = k /\ (k - 1 = n <=> k = n + 1)
      BY <1>1, <1>3, <2>4
    <3>2. k # n + 1 => r[k + 1] = s[k]
      BY <1>1, <1>3, <2>4
    <3> QED
      BY <1>5, <1>6, <3>1, <3>2
  <2> QED
    BY <1>1, <2>1, <2>2, <2>3, <2>4
<1>8. (IF i = 0 THEN f ELSE c) = IF r = << >> THEN Null ELSE r[1]
  <2>1. r # << >>
    BY <1>1, <1>3, EmptySeq
  <2>2. r[1] = IF i = 0 THEN f ELSE s[1]
    BY <1>1, <1>3
  <2>3. i # 0 => c = s[1]
    BY <1>1, <1>5
  <2> QED
    BY <2>1, <2>2, <2>3
<1>9. \A k \in 1 .. Len(r) : h2[r[k]].next = Next1(r, k)
  BY <1>3, <1>7 DEF Next1
<1> QED
  BY <1>3, <1>4, <1>8, <1>9 DEF Linked, Different, r

\* Linking around the i-th cell links the shorter list.
LEMMA LinkedCut ==
    ASSUME NEW h, NEW h2, NEW c, NEW s, Linked(h, c, s),
           NEW i \in 1 .. Len(s), Cut(h, h2, s, i)
    PROVE  Linked(h2, IF i = 1 THEN h[s[1]].next ELSE c, Removed(s, i))
<1> DEFINE n == Len(s)
           r == Removed(s, i)
<1>1. /\ n \in Nat /\ i \in 1 .. n /\ s \in Seq(DOMAIN h)
      /\ \A k \in 1 .. n : s[k] \in DOMAIN h
  BY LenProperties, ElementOfSeq DEF Linked
<1>2. Different(s)
  BY DEF Linked, Different
<1>3. /\ r \in Seq(DOMAIN h) /\ Len(r) = n - 1
      /\ \A k \in 1 .. n - 1 : r[k] = IF k < i THEN s[k] ELSE s[k + 1]
  BY <1>1, RemovedElements
<1>4. Different(r)
  BY <1>1, <1>2, RemovedCells
<1>5. /\ \A k \in 1 .. n : h[s[k]].next = IF k = n THEN Null ELSE s[k + 1]
      /\ c = IF s = << >> THEN Null ELSE s[1]
      /\ \A j, k \in 1 .. n : s[j] = s[k] => j = k
  BY DEF Linked, Next1
<1>6. \A k \in 1 .. n : k # i =>
          /\ s[k] \in DOMAIN h2
          /\ h2[s[k]].next = IF k = i - 1 THEN h[s[i]].next ELSE h[s[k]].next
  <2> SUFFICES ASSUME NEW k \in 1 .. n, k # i
               PROVE  /\ s[k] \in DOMAIN h2
                      /\ h2[s[k]].next = IF k = i - 1 THEN h[s[i]].next
                                                      ELSE h[s[k]].next
    OBVIOUS
  <2>1. s[k] \in DOMAIN h2
    BY <1>1, <1>5 DEF Cut
  <2>2. h2[s[k]].next = IF i > 1 /\ s[k] = s[i - 1] THEN h[s[i]].next
                                                     ELSE h[s[k]].next
    <3>1. h2[s[k]] = [data |-> h[s[k]].data,
                      next |-> IF i > 1 /\ s[k] = s[i - 1] THEN h[s[i]].next
                                                           ELSE h[s[k]].next]
      BY <2>1 DEF Cut
    <3> QED
      BY <3>1
  <2>3. i > 1 => (s[k] = s[i - 1] <=> k = i - 1)
    <3>1. i > 1 => i - 1 \in 1 .. n
      BY <1>1
    <3> QED
      BY <1>5, <3>1
  <2>4. k = i - 1 => i > 1
    BY <1>1
  <2> QED
    BY <2>1, <2>2, <2>3, <2>4
<1> HIDE DEF n, r
<1>7. ASSUME NEW k \in 1 .. n - 1
      PROVE  /\ r[k] \in DOMAIN h2
             /\ h2[r[k]].next = IF k = n - 1 THEN Null ELSE r[k + 1]
  <2>1. CASE k < i - 1
    <3>1. /\ k \in 1 .. n /\ k # n /\ k # i /\ k # i - 1 /\ k < i
          /\ k + 1 < i /\ k + 1 \in 1 .. n - 1 /\ k # n - 1
      BY <1>1, <2>1
    <3> QED
      BY <1>3, <1>5, <1>6, <3>1
  <2>2. CASE k = i - 1
    <3>1. /\ k \in 1 .. n /\ k # i /\ k < i /\ (k = n - 1 <=> i = n)
          /\ k + 1 = i /\ ~(k + 1 < i)
      BY <1>1, <2>2
    <3>2. r[k] \in DOMAIN h2 /\ h2[r[k]].next = h[s[i]].next
      BY <1>3, <1>6, <2>2, <3>1
    <3>3. i # n => r[k + 1] = s[i + 1]
      BY <1>1, <1>3, <3>1
    <3> QED
      BY <1>1, <1>5, <3>1, <3>2, <3>3
  <2>3. CASE k >= i
    <3>1. /\ k + 1 \in 1 .. n /\ k + 1 # i /\ ~(k < i) /\ k + 1 # i - 1
          /\ (k + 1 = n <=> k = n - 1) /\ ~(k + 1 < i)
      BY <1>1, <2>3
    <3>2. r[k] = s[k + 1]
      BY <1>3, <3>1
    <3>3. /\ r[k] \in DOMAIN h2
          /\ h2[r[k]].next = IF k + 1 = n THEN Null ELSE s[(k + 1) + 1]
      BY <1>5, <1>6, <3>1, <3>2
    <3>4. k # n - 1 => r[k + 1] = s[(k + 1) + 1]
      <4>1. k # n - 1 => k + 1 \in 1 .. n - 1
        BY <1>1
      <4> QED
        BY <1>3, <3>1, <4>1
    <3> QED
      BY <3>1, <3>3, <3>4
  <2> QED
    BY <1>1, <2>1, <2>2, <2>3
<1>8. (IF i = 1 THEN h[s[1]].next ELSE c) = IF r = << >> THEN Null ELSE r[1]
  <2>1. r = << >> <=> n = 1
    BY <1>1, <1>3, EmptySeq
  <2>2. n # 1 => r[1] = IF i = 1 THEN s[2] ELSE s[1]
    BY <1>1, <1>3
  <2>3. s # << >> /\ (n = 1 => i = 1) /\ 1 \in 1 .. n
    BY <1>1, EmptySeq DEF n
  <2>4. h[s[1]].next = IF n = 1 THEN Null ELSE s[2]
    BY <1>5, <2>3
  <2> QED
    BY <1>5, <2>1, <2>2, <2>3, <2>4
<1>9. r \in Seq(DOMAIN h2)
  <2>1. r \in [1 .. n - 1 -> DOMAIN h2] /\ n - 1 \in Nat
    BY <1>1, <1>3, <1>7, LenProperties
  <2> QED
    BY <2>1, LenOfFunction
<1>10. \A k \in 1 .. Len(r) : h2[r[k]].next = Next1(r, k)
  BY <1>3, <1>7 DEF Next1
<1> QED
  BY <1>4, <1>8, <1>9, <1>10 DEF Linked, Different, r

-----------------------------------------------------------------------------
(* The lists: that of the queue is the 0-th, the i-th is what the i-th walk *)
(* has in its hand                                                         *)

Pointer == Cells \cup {Null}

WalkType ==
    [kind : {"foreach", "drain", "filter"}, at : Data, entry : Pointer,
     wild : BOOLEAN, tmp : Pointer, match : SUBSET Data, destroys : BOOLEAN]

QueueType == [head : Pointer, tail : Pointer, entries : Int, ref_count : Int]

Begin(qu, st, i) ==
    IF i = 0 THEN qu.head ELSE IF st[i].kind = "drain" THEN st[i].tmp ELSE Null

\* The entry of a queue_foreach that was not freed is in the list, or was
\* taken off it by a walk inside
Reached(st, i, L) ==
    st[i].kind = "foreach" /\ ~st[i].wild /\ st[i].entry # Null =>
        \E j \in 0 .. Len(st) : (j = 0 \/ j > i) /\ InList(st[i].entry, L[j])

Types(h, qu, st) == IsHeap(h) /\ qu \in QueueType /\ st \in Seq(WalkType)

Lists(h, qu, st, L) ==
    /\ DOMAIN L = 0 .. Len(st)
    /\ \A i \in 0 .. Len(st) : Linked(h, Begin(qu, st, i), L[i])
    /\ \A i, j \in 0 .. Len(st), c \in Cells :
          InList(c, L[i]) /\ InList(c, L[j]) => i = j
    /\ \A c \in DOMAIN h : \E i \in 0 .. Len(st) : InList(c, L[i])

Hands(h, st, L) ==
    \A i \in 1 .. Len(st) :
        /\ st[i].kind = "drain" => /\ st[i].tmp # Null
                                   /\ st[i].entry = h[st[i].tmp].next
        /\ Reached(st, i, L)

Ends(qu, s) ==
    /\ qu.entries = Len(s)
    /\ qu.tail = IF s = << >> THEN Null ELSE s[Len(s)]

Memory(h, qu, st, L) ==
    Types(h, qu, st) /\ Lists(h, qu, st, L) /\ Hands(h, st, L) /\ Ends(qu, L[0])

\* The types of the fields of a walk.
LEMMA WalkFields ==
    ASSUME NEW w \in WalkType
    PROVE  /\ w.kind \in {"foreach", "drain", "filter"} /\ w.at \in Data
           /\ w.entry \in Pointer /\ w.wild \in BOOLEAN /\ w.tmp \in Pointer
           /\ w.match \in SUBSET Data /\ w.destroys \in BOOLEAN
BY DEF WalkType

\* What free(c) does to the walks
LEMMA FreedWalks ==
    ASSUME NEW st \in Seq(WalkType), NEW c
    PROVE  /\ Freed(st, c) \in Seq(WalkType) /\ Len(Freed(st, c)) = Len(st)
           /\ \A i \in 1 .. Len(st) :
                 Freed(st, c)[i] = [st[i] EXCEPT !.wild = @ \/ st[i].entry = c]
<1> DEFINE n == Len(st)
           r == Freed(st, c)
           w(i) == [st[i] EXCEPT !.wild = @ \/ st[i].entry = c]
<1>1. n \in Nat /\ DOMAIN st = 1 .. n /\ \A i \in 1 .. n : st[i] \in WalkType
  BY LenProperties, ElementOfSeq
<1>2. \A i \in 1 .. n : w(i) \in WalkType
  <2> SUFFICES ASSUME NEW i \in 1 .. n PROVE w(i) \in WalkType
    OBVIOUS
  <2>1. (st[i].wild \/ st[i].entry = c) \in BOOLEAN
    OBVIOUS
  <2>2. st[i] \in WalkType
    BY <1>1
  <2> QED
    BY <2>1, <2>2, Zenon DEF WalkType
<1>3. r = [i \in 1 .. n |-> w(i)]
  BY <1>1 DEF Freed
<1> HIDE DEF r, w, n
<1>4. r \in [1 .. n -> WalkType]
  BY <1>2, <1>3
<1>5. r \in Seq(WalkType) /\ Len(r) = n
  BY <1>1, <1>4, LenOfFunction
<1> QED
  BY <1>3, <1>5, Zenon DEF r, n, w

\* Freeing a cell touches nothing of a walk but `wild'.
LEMMA FreedView ==
    ASSUME NEW st \in Seq(WalkType), NEW c, NEW i \in 1 .. Len(st)
    PROVE  /\ Freed(st, c)[i].wild <=> st[i].wild \/ st[i].entry = c
           /\ Freed(st, c)[i].kind = st[i].kind
           /\ Freed(st, c)[i].at = st[i].at
           /\ Freed(st, c)[i].entry = st[i].entry
           /\ Freed(st, c)[i].tmp = st[i].tmp
           /\ Freed(st, c)[i].match = st[i].match
           /\ Freed(st, c)[i].destroys = st[i].destroys
<1>1. st[i] \in WalkType
  BY ElementOfSeq
<1>2. Freed(st, c)[i] = [st[i] EXCEPT !.wild = @ \/ st[i].entry = c]
  <2>1. DOMAIN st = 1 .. Len(st)
    BY LenProperties
  <2> QED
    BY <2>1, Zenon DEF Freed
<1>3. Freed(st, c)[i].wild <=> st[i].wild \/ st[i].entry = c
  BY <1>1, <1>2, Zenon DEF WalkType
<1> QED
  BY <1>1, <1>2, <1>3 DEF WalkType

\* A cell of the heap has data and a pointer.
LEMMA HeapCells ==
    ASSUME NEW h, IsHeap(h), NEW c \in DOMAIN h
    PROVE  c \in Cells /\ h[c] \in [data : Data, next : Pointer]
           /\ h[c].data \in Data /\ h[c].next \in Pointer
BY DEF IsHeap, Pointer

\* A heap with a new cell in a list is a heap.
LEMMA SplicedHeap ==
    ASSUME NEW h, IsHeap(h), NEW c, NEW s, Linked(h, c, s),
           NEW i \in 0 .. Len(s), NEW d \in Data, NEW f \in Cells \ DOMAIN h,
           NEW h2, h2 = [e \in DOMAIN h2 |-> h2[e]],
           Spliced(h, h2, s, i, d, f)
    PROVE  IsHeap(h2)
<1>1. Next1(s, i) \in Pointer
  <2>1. s \in Seq(DOMAIN h) /\ Len(s) \in Nat
    BY LenProperties DEF Linked
  <2>2. i # Len(s) => i + 1 \in 1 .. Len(s)
    BY <2>1
  <2>3. i # Len(s) => s[i + 1] \in DOMAIN h
    BY <2>1, <2>2, ElementOfSeq
  <2> QED
    BY <2>3 DEF Next1, Pointer, IsHeap
<1>2. ASSUME NEW e \in DOMAIN h2
      PROVE  h2[e] \in [data : Data, next : Pointer]
  <2>1. CASE e = f
    BY <1>1, <2>1 DEF Spliced
  <2>2. CASE e \in DOMAIN h
    <3>1. h[e].data \in Data /\ h[e].next \in Pointer /\ f \in Pointer
      BY <2>2, HeapCells DEF Pointer
    <3>2. (IF i > 0 /\ e = s[i] THEN f ELSE h[e].next) \in Pointer
      BY <3>1
    <3>3. h2[e] = [data |-> h[e].data,
                   next |-> IF i > 0 /\ e = s[i] THEN f ELSE h[e].next]
      BY <2>2 DEF Spliced
    <3> HIDE DEF Pointer
    <3> QED
      BY <3>1, <3>2, <3>3
  <2> QED
    BY <2>1, <2>2 DEF Spliced
<1>3. DOMAIN h2 \subseteq Cells
  BY DEF Spliced, IsHeap
<1> QED
  BY <1>2, <1>3 DEF IsHeap, Pointer

\* A heap without a cell of a list is a heap.
LEMMA CutHeap ==
    ASSUME NEW h, IsHeap(h), NEW s \in Seq(DOMAIN h), NEW i \in 1 .. Len(s),
           NEW h2, h2 = [e \in DOMAIN h2 |-> h2[e]], Cut(h, h2, s, i)
    PROVE  IsHeap(h2)
<1>1. ASSUME NEW e \in DOMAIN h2
      PROVE  h2[e] \in [data : Data, next : Pointer]
  <2>1. /\ h[e].data \in Data /\ h[e].next \in Pointer
        /\ h[s[i]].next \in Pointer
    BY HeapCells, ElementOfSeq DEF Cut
  <2>2. (IF i > 1 /\ e = s[i - 1] THEN h[s[i]].next ELSE h[e].next) \in Pointer
    BY <2>1
  <2>3. h2[e] = [data |-> h[e].data,
                 next |-> IF i > 1 /\ e = s[i - 1] THEN h[s[i]].next
                                                   ELSE h[e].next]
    BY DEF Cut
  <2> QED
    BY <2>1, <2>2, <2>3
<1>2. DOMAIN h2 \subseteq Cells
  BY DEF Cut, IsHeap
<1> QED
  BY <1>1, <1>2 DEF IsHeap, Pointer

\* What Memory says of one list.
LEMMA MemoryLinks ==
    ASSUME NEW h, NEW qu, NEW st, NEW L, Memory(h, qu, st, L),
           NEW i \in 0 .. Len(st)
    PROVE  /\ Linked(h, Begin(qu, st, i), L[i])
           /\ L[i] \in Seq(DOMAIN h) /\ Len(L[i]) \in Nat
           /\ \A k \in 1 .. Len(L[i]) : L[i][k] \in DOMAIN h
           /\ Different(L[i])
           /\ \A c : InList(c, L[i]) => c \in DOMAIN h /\ c \in Cells
<1>1. Linked(h, Begin(qu, st, i), L[i]) /\ IsHeap(h)
  BY DEF Memory, Lists, Types
<1>2. /\ L[i] \in Seq(DOMAIN h) /\ Len(L[i]) \in Nat
      /\ \A k \in 1 .. Len(L[i]) : L[i][k] \in DOMAIN h
  BY <1>1, LenProperties, ElementOfSeq DEF Linked
<1> QED
  BY <1>1, <1>2 DEF Linked, Different, InList, IsHeap

\* The domain of the stack, and the place of the queue's own list.
LEMMA NoWalks ==
    ASSUME NEW st \in Seq(WalkType)
    PROVE  Len(st) \in Nat /\ DOMAIN st = 1 .. Len(st) /\ 0 \in 0 .. Len(st)
BY LenProperties

\* A push keeps the memory in order: the new cell is in the queue's list.
LEMMA MemoryInserted ==
    ASSUME NEW h, NEW qu, NEW st, NEW L, Memory(h, qu, st, L),
           NEW i \in 0 .. Len(L[0]), NEW d \in Data, NEW f \in Cells \ DOMAIN h,
           NEW h2, h2 = [e \in DOMAIN h2 |-> h2[e]],
           Spliced(h, h2, L[0], i, d, f),
           NEW qu2,
           qu2 = [qu EXCEPT !.head = IF i = 0 THEN f ELSE @,
                            !.tail = IF i = Len(L[0]) THEN f ELSE @,
                            !.entries = @ + 1]
    PROVE  Memory(h2, qu2, st, [L EXCEPT ![0] = Inserted(L[0], i, f)])
<1> DEFINE n == Len(st)
           s == L[0]
           r == Inserted(s, i, f)
           M == [L EXCEPT ![0] = r]
<1>1. /\ n \in Nat /\ 0 \in 0 .. n /\ st \in Seq(WalkType) /\ IsHeap(h)
      /\ DOMAIN st = 1 .. n /\ qu \in QueueType
  BY LenProperties DEF Memory, Types
<1>2. /\ Linked(h, qu.head, s) /\ s \in Seq(DOMAIN h) /\ Different(s)
      /\ Len(s) \in Nat
  BY <1>1, MemoryLinks DEF Begin
<1>3. /\ DOMAIN h \subseteq DOMAIN h2 /\ f \in DOMAIN h2
      /\ DOMAIN h2 = DOMAIN h \cup {f}
  BY DEF Spliced
<1>4. s \in Seq(DOMAIN h2) /\ ~InList(f, s)
  BY <1>1, <1>2, <1>3, SeqMonotonic, MemoryLinks
<1>5. /\ Linked(h2, IF i = 0 THEN f ELSE qu.head, r)
      /\ Different(r) /\ Len(r) = Len(s) + 1 /\ r \in Seq(DOMAIN h2)
      /\ \A c : InList(c, r) <=> InList(c, s) \/ c = f
      /\ \A k \in 1 .. Len(s) + 1 : r[k] = IF k <= i THEN s[k]
                                           ELSE IF k = i + 1 THEN f ELSE s[k - 1]
  <2>1. Linked(h2, IF i = 0 THEN f ELSE qu.head, r)
    BY <1>2, LinkedSpliced
  <2>2. Different(r) /\ \A c : InList(c, r) <=> InList(c, s) \/ c = f
    BY <1>2, <1>3, <1>4, InsertedCells
  <2>3. /\ Len(r) = Len(s) + 1 /\ r \in Seq(DOMAIN h2)
        /\ \A k \in 1 .. Len(s) + 1 :
               r[k] = IF k <= i THEN s[k]
                      ELSE IF k = i + 1 THEN f ELSE s[k - 1]
    <3> DEFINE S == DOMAIN h2
    <3>1. s \in Seq(S) /\ f \in S /\ i \in 0 .. Len(s)
      BY <1>3, <1>4
    <3> HIDE DEF S, s
    <3>2. /\ Inserted(s, i, f) \in Seq(S)
          /\ Len(Inserted(s, i, f)) = Len(s) + 1
          /\ \A k \in 1 .. Len(s) + 1 :
                 Inserted(s, i, f)[k] =
                      IF k <= i THEN s[k]
                      ELSE IF k = i + 1 THEN f ELSE s[k - 1]
      BY <3>1, InsertedElements
    <3> QED
      BY <3>2 DEF S
  <2> HIDE DEF r
  <2> QED
    BY <2>1, <2>2, <2>3
<1>6. /\ M[0] = r /\ DOMAIN M = 0 .. n
      /\ \A j \in 0 .. n : j # 0 => M[j] = L[j]
  BY <1>1 DEF Memory, Lists
<1>7. /\ qu2 \in QueueType
      /\ qu2.head = (IF i = 0 THEN f ELSE qu.head)
      /\ qu2.tail = (IF i = Len(s) THEN f ELSE qu.tail)
      /\ qu2.entries = qu.entries + 1
  <2>1. /\ qu.head \in Pointer /\ qu.tail \in Pointer /\ f \in Pointer
        /\ qu.entries + 1 \in Int
    BY <1>1 DEF QueueType, Pointer
  <2> DEFINE hd == IF i = 0 THEN f ELSE qu.head
             tl == IF i = Len(s) THEN f ELSE qu.tail
             en == qu.entries + 1
  <2>2. qu2 = [qu EXCEPT !.head = hd, !.tail = tl, !.entries = en]
    OBVIOUS
  <2>3. hd \in Pointer /\ tl \in Pointer /\ en \in Int
    BY <2>1
  <2> HIDE DEF hd, tl, en
  <2>4. qu2 \in QueueType
    BY <1>1, <2>2, <2>3, Zenon DEF QueueType
  <2>5. qu2.head = hd /\ qu2.tail = tl /\ qu2.entries = en
    BY <1>1, <2>2 DEF QueueType
  <2> QED
    BY <2>4, <2>5 DEF hd, tl, en
<1> HIDE DEF M, r, s, n
<1>8. ASSUME NEW j \in 0 .. n, j # 0
      PROVE  Linked(h2, Begin(qu2, st, j), L[j])
  <2>1. Linked(h, Begin(qu, st, j), L[j]) /\ Begin(qu, st, j) = Begin(qu2, st, j)
    BY <1>8, MemoryLinks DEF Begin, n
  <2>2. ASSUME NEW e \in DOMAIN h, InList(e, L[j])
        PROVE  e \in DOMAIN h2 /\ h2[e].next = h[e].next
    <3>1. ~InList(e, s)
      BY <1>1, <1>8, <2>2, MemoryLinks DEF Memory, Lists, s, n
    <3>2. i > 0 => e # s[i]
      BY <1>2, <3>1 DEF InList, s
    <3>3. h2[e] = [data |-> h[e].data, next |-> h[e].next]
      BY <3>2 DEF Spliced, s
    <3> QED
      BY <1>3, <3>3
  <2> QED
    BY <2>1, <2>2, LinkedFrame
<1>9. Lists(h2, qu2, st, M)
  <2>1. \A j \in 0 .. n : Linked(h2, Begin(qu2, st, j), M[j])
    BY <1>5, <1>6, <1>7, <1>8 DEF Begin
  <2>2. \A j \in 0 .. n : \A c : InList(c, M[j]) <=> InList(c, L[j]) \/ (j = 0 /\ c = f)
    BY <1>5, <1>6 DEF s
  <2>3. \A j \in 0 .. n : ~InList(f, L[j])
    BY MemoryLinks DEF n
  <2>4. ASSUME NEW j \in 0 .. n, NEW k \in 0 .. n, NEW c \in Cells,
               InList(c, M[j]), InList(c, M[k])
        PROVE  j = k
    <3>1. CASE c = f
      BY <2>2, <2>3, <2>4, <3>1
    <3>2. CASE c # f
      BY <2>2, <2>4, <3>2 DEF Memory, Lists, n
    <3> QED
      BY <3>1, <3>2
  <2>5. \A c \in DOMAIN h2 : \E j \in 0 .. n : InList(c, M[j])
    <3>1. \A c \in DOMAIN h : \E j \in 0 .. n : InList(c, L[j])
      BY DEF Memory, Lists, n
    <3> QED
      BY <1>1, <1>3, <2>2, <3>1
  <2> QED
    BY <1>6, <2>1, <2>4, <2>5 DEF Lists, n
<1>10. Hands(h2, st, M)
  <2> SUFFICES ASSUME NEW j \in 1 .. n
               PROVE  /\ st[j].kind = "drain" =>
                             /\ st[j].tmp # Null
                             /\ st[j].entry = h2[st[j].tmp].next
                      /\ Reached(st, j, M)
    BY DEF Hands, n
  <2>1. /\ st[j].kind = "drain" =>
               st[j].tmp # Null /\ st[j].entry = h[st[j].tmp].next
        /\ Reached(st, j, L)
    BY DEF Memory, Hands, n
  <2>2. st[j].kind = "drain" => h2[st[j].tmp].next = h[st[j].tmp].next
    <3> SUFFICES ASSUME st[j].kind = "drain"
                 PROVE  h2[st[j].tmp].next = h[st[j].tmp].next
      OBVIOUS
    <3>1. j \in 0 .. n /\ j # 0
      BY <1>1
    <3>2. Linked(h, st[j].tmp, L[j]) /\ L[j] # << >>
      BY <2>1, <3>1, MemoryLinks DEF Begin, n, Linked
    <3>3. 1 \in 1 .. Len(L[j]) /\ st[j].tmp = L[j][1]
      BY <3>1, <3>2, MemoryLinks, EmptySeq DEF Linked, n
    <3>4. Linked(h2, st[j].tmp, L[j])
      BY <1>8, <3>1, <2>1 DEF Begin
    <3> QED
      BY <3>2, <3>3, <3>4 DEF Linked
  <2>3. Reached(st, j, M)
    <3>1. \A k \in 0 .. n : \A c : InList(c, L[k]) => InList(c, M[k])
      BY <1>5, <1>6 DEF s
    <3> QED
      BY <2>1, <3>1 DEF Reached, n
  <2> QED
    BY <2>1, <2>2, <2>3
<1>11. Ends(qu2, r)
  <2>1. qu.entries = Len(s) /\ qu.tail = IF s = << >> THEN Null ELSE s[Len(s)]
    BY DEF Memory, Ends, s
  <2>2. r # << >> /\ r[Len(r)] = IF i = Len(s) THEN f ELSE s[Len(s)]
    <3>1. i \in 0 .. Len(s) /\ Len(s) \in Nat
      BY <1>2 DEF s
    <3>2. /\ Len(s) + 1 \in 1 .. Len(s) + 1 /\ ~(Len(s) + 1 <= i)
          /\ (Len(s) + 1 = i + 1 <=> i = Len(s)) /\ (Len(s) + 1) - 1 = Len(s)
      BY <3>1
    <3> QED
      BY <1>5, <3>1, <3>2, EmptySeq
  <2>3. i # Len(s) => s # << >>
    BY <1>2, EmptySeq DEF s
  <2> QED
    BY <1>5, <1>7, <2>1, <2>2, <2>3 DEF Ends
<1>12. IsHeap(h2)
  BY <1>1, <1>2, SplicedHeap DEF s
<1> QED
  BY <1>1, <1>6, <1>7, <1>9, <1>10, <1>11, <1>12 DEF Memory, Types, M, r, s

\* A removal does: the cell is in no list, and walks that held it are wild.
LEMMA MemoryRemoved ==
    ASSUME NEW h, NEW qu, NEW st, NEW L, Memory(h, qu, st, L),
           NEW i \in 1 .. Len(L[0]),
           NEW h2, h2 = [e \in DOMAIN h2 |-> h2[e]], Cut(h, h2, L[0], i),
           NEW qu2,
           qu2 = [qu EXCEPT !.head = IF i = 1 THEN h[L[0][1]].next ELSE @,
                            !.tail = IF i = Len(L[0])
                                     THEN (IF i = 1 THEN Null ELSE L[0][i - 1])
                                     ELSE @,
                            !.entries = @ - 1]
    PROVE  Memory(h2, qu2, Freed(st, L[0][i]),
                  [L EXCEPT ![0] = Removed(L[0], i)])
<1> DEFINE n == Len(st)
           s == L[0]
           x == s[i]
           r == Removed(s, i)
           M == [L EXCEPT ![0] = r]
           fr == Freed(st, x)
<1>1. /\ n \in Nat /\ 0 \in 0 .. n /\ st \in Seq(WalkType) /\ IsHeap(h)
      /\ DOMAIN st = 1 .. n /\ qu \in QueueType
  BY LenProperties DEF Memory, Types
<1>2. /\ Linked(h, qu.head, s) /\ s \in Seq(DOMAIN h) /\ Different(s)
      /\ Len(s) \in Nat /\ x \in DOMAIN h
      /\ \A k \in 1 .. Len(s) : s[k] \in DOMAIN h
  BY <1>1, MemoryLinks DEF Begin
<1>3. DOMAIN h2 = DOMAIN h \ {x}
  BY DEF Cut
<1>4. /\ Linked(h2, IF i = 1 THEN h[s[1]].next ELSE qu.head, r)
      /\ Len(r) = Len(s) - 1
      /\ \A c : InList(c, r) <=> InList(c, s) /\ c # x
      /\ \A k \in 1 .. Len(s) - 1 : r[k] = IF k < i THEN s[k] ELSE s[k + 1]
  <2>1. Linked(h2, IF i = 1 THEN h[s[1]].next ELSE qu.head, r)
    BY <1>2, LinkedCut
  <2>2. \A c : InList(c, r) <=> InList(c, s) /\ c # x
    BY <1>2, RemovedCells
  <2>3. /\ Len(r) = Len(s) - 1
        /\ \A k \in 1 .. Len(s) - 1 : r[k] = IF k < i THEN s[k] ELSE s[k + 1]
    BY <1>2, RemovedElements
  <2> HIDE DEF r
  <2> QED
    BY <2>1, <2>2, <2>3
<1>5. /\ fr \in Seq(WalkType) /\ Len(fr) = n
      /\ \A j \in 1 .. n : /\ fr[j].kind = st[j].kind /\ fr[j].tmp = st[j].tmp
                           /\ fr[j].entry = st[j].entry
                           /\ fr[j].wild <=> st[j].wild \/ st[j].entry = x
  <2> HIDE DEF x
  <2>1. /\ fr \in Seq(WalkType) /\ Len(fr) = n
    BY <1>1, FreedWalks, Zenon
  <2>2. ASSUME NEW j \in 1 .. n
        PROVE  /\ fr[j].kind = st[j].kind /\ fr[j].tmp = st[j].tmp
               /\ fr[j].entry = st[j].entry
               /\ fr[j].wild <=> st[j].wild \/ st[j].entry = x
    BY <1>1, FreedView
  <2> QED
    BY <2>1, <2>2
<1>6. /\ M[0] = r /\ DOMAIN M = 0 .. n
      /\ \A j \in 0 .. n : j # 0 => M[j] = L[j]
  BY <1>1 DEF Memory, Lists
<1>7. /\ qu2 \in QueueType
      /\ qu2.head = (IF i = 1 THEN h[s[1]].next ELSE qu.head)
      /\ qu2.tail = (IF i = Len(s) THEN (IF i = 1 THEN Null ELSE s[i - 1])
                                   ELSE qu.tail)
      /\ qu2.entries = qu.entries - 1
  <2> DEFINE hd == IF i = 1 THEN h[s[1]].next ELSE qu.head
             tl == IF i = Len(s) THEN (IF i = 1 THEN Null ELSE s[i - 1])
                                 ELSE qu.tail
             en == qu.entries - 1
  <2>1. qu2 = [qu EXCEPT !.head = hd, !.tail = tl, !.entries = en]
    OBVIOUS
  <2>2. hd \in Pointer
    <3>1. 1 \in 1 .. Len(s)
      BY <1>2
    <3>2. h[s[1]].next \in Pointer
      BY <1>1, <1>2, <3>1, HeapCells
    <3> QED
      BY <1>1, <3>2 DEF QueueType
  <2>3. tl \in Pointer
    <3>1. i # 1 => i - 1 \in 1 .. Len(s)
      BY <1>2
    <3>2. i # 1 => s[i - 1] \in Pointer
      BY <1>1, <1>2, <3>1, HeapCells DEF Pointer
    <3> QED
      BY <1>1, <3>2 DEF QueueType, Pointer
  <2>4. en \in Int
    BY <1>1 DEF QueueType
  <2> HIDE DEF hd, tl, en
  <2>5. qu2 \in QueueType
    BY <1>1, <2>1, <2>2, <2>3, <2>4, Zenon DEF QueueType
  <2>6. qu2.head = hd /\ qu2.tail = tl /\ qu2.entries = en
    BY <1>1, <2>1 DEF QueueType
  <2> QED
    BY <2>5, <2>6 DEF hd, tl, en
<1> HIDE DEF M, r, s, n, fr, x
<1>8. ASSUME NEW j \in 0 .. n, j # 0
      PROVE  /\ Linked(h2, Begin(qu2, fr, j), L[j])
             /\ Begin(qu2, fr, j) = Begin(qu, st, j)
             /\ \A e \in DOMAIN h : InList(e, L[j]) =>
                    e \in DOMAIN h2 /\ h2[e].next = h[e].next
  <2>1. Linked(h, Begin(qu, st, j), L[j]) /\ Begin(qu, st, j) = Begin(qu2, fr, j)
    <3>1. j \in 1 .. n
      BY <1>1, <1>8
    <3> QED
      BY <1>5, <1>8, <3>1, MemoryLinks DEF Begin, n
  <2>2. ASSUME NEW e \in DOMAIN h, InList(e, L[j])
        PROVE  e \in DOMAIN h2 /\ h2[e].next = h[e].next
    <3>1. ~InList(e, s)
      BY <1>1, <1>8, <2>2, MemoryLinks DEF Memory, Lists, s, n
    <3>2. \A k \in 1 .. Len(s) : e # s[k]
      BY <3>1 DEF InList
    <3>3. e # x /\ (i > 1 => e # s[i - 1])
      <4>1. i \in 1 .. Len(s) /\ (i > 1 => i - 1 \in 1 .. Len(s))
        BY <1>2 DEF s
      <4> QED
        BY <3>2, <4>1 DEF x
    <3>4. e \in DOMAIN h2
      BY <1>3, <3>3
    <3>5. h2[e] = [data |-> h[e].data, next |-> h[e].next]
      BY <3>3, <3>4 DEF Cut, s
    <3> QED
      BY <3>4, <3>5
  <2> QED
    BY <2>1, <2>2, LinkedFrame
<1>9. Lists(h2, qu2, fr, M)
  <2>1. \A j \in 0 .. n : Linked(h2, Begin(qu2, fr, j), M[j])
    BY <1>4, <1>6, <1>7, <1>8 DEF Begin
  <2>2. \A j \in 0 .. n : \A c : InList(c, M[j]) => InList(c, L[j])
    BY <1>4, <1>6 DEF s
  <2>3. ASSUME NEW j \in 0 .. n, NEW k \in 0 .. n, NEW c \in Cells,
               InList(c, M[j]), InList(c, M[k])
        PROVE  j = k
    BY <2>2, <2>3 DEF Memory, Lists, n
  <2>4. \A c \in DOMAIN h2 : \E j \in 0 .. n : InList(c, M[j])
    <3>1. \A c \in DOMAIN h : \E j \in 0 .. n : InList(c, L[j])
      BY DEF Memory, Lists, n
    <3>2. \A c, j : j \in 0 .. n /\ InList(c, L[j]) /\ c # x => InList(c, M[j])
      BY <1>4, <1>6 DEF s
    <3> QED
      BY <1>1, <1>3, <3>1, <3>2
  <2> QED
    BY <1>5, <1>6, <2>1, <2>3, <2>4 DEF Lists
<1>10. Hands(h2, fr, M)
  <2> SUFFICES ASSUME NEW j \in 1 .. n
               PROVE  /\ fr[j].kind = "drain" =>
                             /\ fr[j].tmp # Null
                             /\ fr[j].entry = h2[fr[j].tmp].next
                      /\ Reached(fr, j, M)
    BY <1>5 DEF Hands
  <2>1. /\ st[j].kind = "drain" =>
               st[j].tmp # Null /\ st[j].entry = h[st[j].tmp].next
        /\ Reached(st, j, L)
    BY DEF Memory, Hands, n
  <2>2. st[j].kind = "drain" => h2[st[j].tmp].next = h[st[j].tmp].next
    <3> SUFFICES ASSUME st[j].kind = "drain"
                 PROVE  h2[st[j].tmp].next = h[st[j].tmp].next
      OBVIOUS
    <3>1. j \in 0 .. n /\ j # 0
      BY <1>1
    <3>2. Linked(h, st[j].tmp, L[j]) /\ L[j] # << >>
      BY <2>1, <3>1, MemoryLinks DEF Begin, n, Linked
    <3>3. 1 \in 1 .. Len(L[j]) /\ st[j].tmp = L[j][1]
      BY <3>1, <3>2, MemoryLinks, EmptySeq DEF Linked, n
    <3>4. InList(st[j].tmp, L[j]) /\ st[j].tmp \in DOMAIN h
      BY <3>1, <3>3, MemoryLinks DEF InList, n
    <3> QED
      BY <1>8, <3>1, <3>4
  <2>3. Reached(fr, j, M)
    <3>1. \A k \in 0 .. n : \A c : InList(c, L[k]) /\ c # x => InList(c, M[k])
      BY <1>4, <1>6 DEF s
    <3> QED
      BY <1>5, <2>1, <3>1 DEF Reached, n
  <2> QED
    BY <1>5, <2>1, <2>2, <2>3
<1>11. Ends(qu2, r)
  <2>1. qu.entries = Len(s) /\ qu.tail = IF s = << >> THEN Null ELSE s[Len(s)]
    BY DEF Memory, Ends, s
  <2>2. /\ i \in 1 .. Len(s) /\ Len(s) \in Nat /\ s # << >>
        /\ r = << >> <=> Len(s) = 1
    <3>1. i \in 1 .. Len(s) /\ Len(s) \in Nat
      BY <1>2 DEF s
    <3>2. s # << >>
      BY <1>2, <3>1, EmptySeq
    <3>3. r \in Seq(DOMAIN h2)
      BY <1>4 DEF Linked
    <3>4. r = << >> <=> Len(r) = 0
      BY <3>3, EmptySeq
    <3> QED
      BY <1>4, <3>1, <3>2, <3>4
  <2>3. Len(s) # 1 => r[Len(r)] = IF i = Len(s) THEN s[i - 1] ELSE s[Len(s)]
    <3> SUFFICES ASSUME Len(s) # 1
                 PROVE  r[Len(r)] = IF i = Len(s) THEN s[i - 1] ELSE s[Len(s)]
      OBVIOUS
    <3>1. /\ Len(s) - 1 \in 1 .. Len(s) - 1 /\ (Len(s) - 1) + 1 = Len(s)
          /\ (Len(s) - 1 < i <=> i = Len(s))
      <4>1. \A l \in Nat : \A m \in 1 .. l : l # 1 =>
                /\ l - 1 \in 1 .. l - 1 /\ (l - 1) + 1 = l
                /\ (l - 1 < m <=> m = l)
        OBVIOUS
      <4> QED
        BY <2>2, <4>1
    <3> QED
      BY <1>4, <3>1
  <2>4. Len(s) = 1 => i = 1 /\ i = Len(s)
    BY <2>2
  <2>5. Len(s) # 1 /\ i = Len(s) => i # 1
    BY <2>2
  <2> QED
    BY <1>4, <1>7, <2>1, <2>2, <2>3, <2>4, <2>5 DEF Ends
<1>12. IsHeap(h2)
  BY <1>1, <1>2, CutHeap DEF s
<1> QED
  BY <1>5, <1>6, <1>7, <1>9, <1>10, <1>11, <1>12, <1>1 DEF Memory, Types, M, r, s, fr, x

\* The lists do not depend on the reference count.
LEMMA MemoryCounted ==
    ASSUME NEW h, NEW qu, NEW st, NEW L, Memory(h, qu, st, L), NEW k \in Int
    PROVE  Memory(h, [qu EXCEPT !.ref_count = k], st, L)
<1> DEFINE u == [qu EXCEPT !.ref_count = k]
<1>1. qu \in QueueType
  BY DEF Memory, Types
<1>2. u \in QueueType
  BY <1>1, Zenon DEF QueueType
<1>3. u.head = qu.head /\ u.tail = qu.tail /\ u.entries = qu.entries
  BY <1>1 DEF QueueType
<1> HIDE DEF u
<1>4. \A i \in 0 .. Len(st) : Begin(u, st, i) = Begin(qu, st, i)
  BY <1>3 DEF Begin
<1> QED
  BY <1>2, <1>3, <1>4 DEF Memory, Types, Lists, Ends, u

\* A walk begins: with the whole list in its hand, or with nothing of it
StackedOn(L, n, first, last) ==
    [i \in 0 .. n + 1 |->
        IF i = 0 THEN first ELSE IF i = n + 1 THEN last ELSE L[i]]

\* A walk that begins divides the queue's list between the queue and itself.
LEMMA MemoryPushed ==
    ASSUME NEW h, NEW qu, NEW st, NEW L, Memory(h, qu, st, L),
           NEW w \in WalkType, NEW u \in QueueType, NEW first, NEW last,
           Linked(h, u.head, first), Ends(u, first),
           Linked(h, IF w.kind = "drain" THEN w.tmp ELSE Null, last),
           \A c : InList(c, L[0]) <=> InList(c, first) \/ InList(c, last),
           \A c : ~(InList(c, first) /\ InList(c, last)),
           w.kind = "drain" => w.tmp # Null /\ w.entry = h[w.tmp].next,
           w.kind = "foreach" /\ ~w.wild /\ w.entry # Null =>
               InList(w.entry, first)
    PROVE  Memory(h, u, Append(st, w), StackedOn(L, Len(st), first, last))
<1> DEFINE n == Len(st)
           t == Append(st, w)
           M == StackedOn(L, n, first, last)
<1>1. /\ n \in Nat /\ st \in Seq(WalkType) /\ IsHeap(h) /\ DOMAIN st = 1 .. n
  BY LenProperties DEF Memory, Types
<1>2. /\ t \in Seq(WalkType) /\ Len(t) = n + 1
      /\ t[n + 1] = w /\ \A i \in 1 .. n : t[i] = st[i]
  BY <1>1, AppendProperties
<1>3. /\ DOMAIN M = 0 .. n + 1 /\ M[0] = first /\ M[n + 1] = last
      /\ \A i \in 1 .. n : M[i] = L[i]
  BY <1>1 DEF StackedOn
<1>4. \A i \in 0 .. n + 1 : i = 0 \/ i \in 1 .. n \/ i = n + 1
  BY <1>1
<1>5. /\ n + 1 \in 0 .. n + 1 /\ 0 \in 0 .. n + 1 /\ n + 1 # 0 /\ 0 \in 0 .. n
      /\ \A i \in 1 .. n : /\ i \in 0 .. n + 1 /\ i \in 0 .. n /\ i # 0
                           /\ i # n + 1 /\ n + 1 > i
  BY <1>1
<1> HIDE DEF M, t, n
\* the list of t that has what the i-th of st has
<1>6. \A c, i : i \in 0 .. n /\ InList(c, L[i]) =>
          \/ i # 0 /\ InList(c, M[i])
          \/ i = 0 /\ (InList(c, M[0]) \/ InList(c, M[n + 1]))
  <2>1. \A i \in 0 .. n : i = 0 \/ i \in 1 .. n
    BY <1>1
  <2> QED
    BY <1>3, <1>5, <2>1
<1>7. \A c, i : i \in 0 .. n + 1 /\ InList(c, M[i]) =>
          IF i = 0 \/ i = n + 1 THEN InList(c, L[0])
          ELSE i \in 0 .. n /\ InList(c, L[i])
  BY <1>3, <1>4, <1>5
<1>8. ASSUME NEW i \in 0 .. n + 1
      PROVE  Linked(h, Begin(u, t, i), M[i])
  <2>1. CASE i = 0
    BY <1>3, <2>1 DEF Begin
  <2>2. CASE i = n + 1
    BY <1>2, <1>3, <1>5, <2>2 DEF Begin
  <2>3. CASE i \in 1 .. n
    <3>1. Linked(h, Begin(qu, st, i), L[i])
      BY <1>5, <2>3 DEF Memory, Lists, n
    <3>2. Begin(qu, st, i) = Begin(u, t, i)
      BY <1>2, <1>5, <2>3 DEF Begin
    <3> QED
      BY <1>3, <2>3, <3>1, <3>2
  <2> QED
    BY <1>4, <2>1, <2>2, <2>3
<1>9. ASSUME NEW i \in 0 .. n + 1, NEW j \in 0 .. n + 1, NEW c \in Cells,
             InList(c, M[i]), InList(c, M[j])
      PROVE  i = j
  <2>1. \A k, l \in 0 .. n : InList(c, L[k]) /\ InList(c, L[l]) => k = l
    BY DEF Memory, Lists, n
  <2>2. ~(InList(c, M[0]) /\ InList(c, M[n + 1]))
    BY <1>3
  <2>3. /\ IF i = 0 \/ i = n + 1 THEN InList(c, L[0])
           ELSE i \in 0 .. n /\ InList(c, L[i])
        /\ IF j = 0 \/ j = n + 1 THEN InList(c, L[0])
           ELSE j \in 0 .. n /\ InList(c, L[j])
    BY <1>7, <1>9
  <2> QED
    BY <1>5, <1>9, <2>1, <2>2, <2>3
<1>10. \A c \in DOMAIN h : \E i \in 0 .. n + 1 : InList(c, M[i])
  <2>1. \A c \in DOMAIN h : \E i \in 0 .. n : InList(c, L[i])
    BY DEF Memory, Lists, n
  <2>2. \A i \in 0 .. n : i \in 0 .. n + 1
    BY <1>1
  <2> QED
    BY <1>5, <1>6, <2>1, <2>2
<1>11. Lists(h, u, t, M)
  BY <1>2, <1>3, <1>8, <1>9, <1>10 DEF Lists
<1>12. ASSUME NEW i \in 1 .. n + 1
       PROVE  /\ t[i].kind = "drain" => /\ t[i].tmp # Null
                                        /\ t[i].entry = h[t[i].tmp].next
              /\ Reached(t, i, M)
  <2>1. CASE i = n + 1
    <3>1. t[i] = w
      BY <1>2, <2>1
    <3> QED
      BY <1>2, <1>3, <1>5, <3>1 DEF Reached
  <2>2. CASE i \in 1 .. n
    <3>1. /\ st[i].kind = "drain" => /\ st[i].tmp # Null
                                     /\ st[i].entry = h[st[i].tmp].next
          /\ Reached(st, i, L) /\ t[i] = st[i]
      BY <1>2, <2>2 DEF Memory, Hands, n
    <3>2. Reached(t, i, M)
      <4> SUFFICES ASSUME st[i].kind = "foreach", ~st[i].wild, st[i].entry # Null
                   PROVE  \E j \in 0 .. n + 1 :
                              (j = 0 \/ j > i) /\ InList(st[i].entry, M[j])
        BY <1>2, <3>1 DEF Reached
      <4>1. PICK j \in 0 .. n : (j = 0 \/ j > i) /\ InList(st[i].entry, L[j])
        BY <3>1 DEF Reached, n
      <4>2. j \in 0 .. n + 1
        BY <1>1
      <4> QED
        BY <1>5, <1>6, <2>2, <4>1, <4>2
    <3> QED
      BY <3>1, <3>2
  <2>3. i = n + 1 \/ i \in 1 .. n
    BY <1>1
  <2> QED
    BY <2>1, <2>2, <2>3
<1>13. Hands(h, t, M)
  BY <1>2, <1>12 DEF Hands
<1> QED
  BY <1>1, <1>2, <1>3, <1>11, <1>13 DEF Memory, Types, M, t, n

\* The innermost walk ends, with nothing in its hand
LEMMA MemoryPopped ==
    ASSUME NEW h, NEW qu, NEW st, NEW L, Memory(h, qu, st, L),
           st # << >>, st[Len(st)].kind # "drain"
    PROVE  Memory(h, qu, SubSeq(st, 1, Len(st) - 1),
                  [i \in 0 .. Len(st) - 1 |-> L[i]])
<1> DEFINE n == Len(st)
           t == SubSeq(st, 1, n - 1)
           M == [i \in 0 .. n - 1 |-> L[i]]
<1>1. /\ n \in Nat /\ st \in Seq(WalkType) /\ IsHeap(h) /\ DOMAIN st = 1 .. n
      /\ n # 0
  BY LenProperties, EmptySeq DEF Memory, Types
<1>2. /\ t \in Seq(WalkType) /\ Len(t) = n - 1
      /\ \A i \in 1 .. n - 1 : t[i] = st[i]
  <2>1. \A i \in 1 .. n - 1 : st[i] \in WalkType
    BY <1>1, ElementOfSeq
  <2> QED
    BY <1>1, <2>1, SubSeqProperties
<1>3. DOMAIN M = 0 .. n - 1 /\ \A i \in 0 .. n - 1 : M[i] = L[i]
  OBVIOUS
<1>4. L[n] = << >>
  <2>1. Linked(h, Null, L[n])
    BY <1>1 DEF Memory, Lists, Begin
  <2>2. L[n] # << >> => 1 \in 1 .. Len(L[n]) /\ L[n] \in Seq(DOMAIN h)
    BY <2>1, EmptySeq DEF Linked
  <2>3. L[n] # << >> => L[n][1] \in Cells
    BY <1>1, <2>2, ElementOfSeq DEF IsHeap
  <2> QED
    BY <2>1, <2>3, QueueConstants DEF Linked, Cells, Null
<1>6. \A c : ~InList(c, L[n])
  BY <1>4 DEF InList
<1> HIDE DEF M, t, n
<1>5. /\ 0 \in 0 .. n - 1
      /\ \A i \in 0 .. n - 1 : i \in 0 .. n /\ (i # 0 => i \in 1 .. n - 1)
      /\ \A i \in 0 .. n : i = n \/ i \in 0 .. n - 1
      /\ \A i \in 1 .. n - 1 : i \in 1 .. n
  BY <1>1
<1>7. Lists(h, qu, t, M)
  <2>1. \A i \in 0 .. n - 1 : Begin(qu, t, i) = Begin(qu, st, i)
    BY <1>2, <1>5 DEF Begin
  <2>2. \A i \in 0 .. n - 1 : Linked(h, Begin(qu, t, i), M[i])
    BY <1>3, <1>5, <2>1 DEF Memory, Lists, n
  <2>3. \A c \in DOMAIN h : \E i \in 0 .. n - 1 : InList(c, M[i])
    <3>1. \A c \in DOMAIN h : \E i \in 0 .. n : InList(c, L[i])
      BY DEF Memory, Lists, n
    <3> QED
      BY <1>3, <1>5, <1>6, <3>1
  <2>4. \A i, j \in 0 .. n - 1, c \in Cells :
            InList(c, M[i]) /\ InList(c, M[j]) => i = j
    BY <1>3, <1>5 DEF Memory, Lists, n
  <2> QED
    BY <1>2, <1>3, <2>2, <2>3, <2>4 DEF Lists
<1>8. Hands(h, t, M)
  <2> SUFFICES ASSUME NEW i \in 1 .. n - 1
               PROVE  /\ t[i].kind = "drain" => /\ t[i].tmp # Null
                                                /\ t[i].entry = h[t[i].tmp].next
                      /\ Reached(t, i, M)
    BY <1>2 DEF Hands
  <2>1. /\ st[i].kind = "drain" => /\ st[i].tmp # Null
                                   /\ st[i].entry = h[st[i].tmp].next
        /\ Reached(st, i, L) /\ t[i] = st[i]
    BY <1>2, <1>5 DEF Memory, Hands, n
  <2>2. Reached(t, i, M)
    BY <1>2, <1>3, <1>5, <1>6, <2>1 DEF Reached, n
  <2> QED
    BY <2>1, <2>2
<1> QED
  BY <1>1, <1>2, <1>3, <1>5, <1>7, <1>8 DEF Memory, Types, M, t, n

\* The innermost walk goes on, with nothing in its hand
LEMMA MemoryTop ==
    ASSUME NEW h, NEW qu, NEW st, NEW L, Memory(h, qu, st, L), st # << >>,
           NEW t \in Seq(WalkType), Len(t) = Len(st),
           \A i \in 1 .. Len(st) : i # Len(st) => t[i] = st[i],
           st[Len(st)].kind # "drain", t[Len(st)].kind = st[Len(st)].kind,
           LET w == t[Len(st)]
           IN  w.kind = "foreach" /\ ~w.wild /\ w.entry # Null =>
                   InList(w.entry, L[0])
    PROVE  Memory(h, qu, t, L)
<1> DEFINE n == Len(st)
<1>1. /\ n \in Nat /\ st \in Seq(WalkType) /\ IsHeap(h) /\ DOMAIN st = 1 .. n
      /\ n # 0 /\ 0 \in 0 .. n
  BY LenProperties, EmptySeq DEF Memory, Types
<1>2. \A i \in 0 .. n : Begin(qu, t, i) = Begin(qu, st, i)
  <2>1. \A i \in 0 .. n : i = 0 \/ i = n \/ (i \in 1 .. n /\ i # n)
    BY <1>1
  <2> QED
    BY <1>1, <2>1 DEF Begin
<1>3. Lists(h, qu, t, L)
  BY <1>2 DEF Memory, Lists
<1>4. Hands(h, t, L)
  <2> SUFFICES ASSUME NEW i \in 1 .. n
               PROVE  /\ t[i].kind = "drain" => /\ t[i].tmp # Null
                                                /\ t[i].entry = h[t[i].tmp].next
                      /\ Reached(t, i, L)
    BY DEF Hands
  <2>1. CASE i = n
    BY <1>1, <2>1 DEF Reached
  <2>2. CASE i # n
    BY <2>2 DEF Memory, Hands, Reached
  <2> QED
    BY <2>1, <2>2
<1> QED
  BY <1>3, <1>4 DEF Memory, Types

\* The heap without a cell that nothing in it points to
Frees(h, h2, x) ==
    /\ h2 = [e \in DOMAIN h2 |-> h2[e]]
    /\ DOMAIN h2 = DOMAIN h \ {x}
    /\ \A c \in DOMAIN h2 : h2[c] = h[c]

\* What free(x) leaves of the walks but the last
Behind(t, st, x) ==
    \A i \in 1 .. Len(st) - 1 :
        /\ t[i].kind = st[i].kind /\ t[i].at = st[i].at
        /\ t[i].entry = st[i].entry /\ t[i].tmp = st[i].tmp
        /\ t[i].match = st[i].match /\ t[i].destroys = st[i].destroys
        /\ t[i].wild <=> st[i].wild \/ st[i].entry = x

\* The last walk, a queue_remove_all, has the next cell at hand, or ends
HandsNext(h, st, t) ==
    IF st[Len(st)].entry = Null THEN Len(t) = Len(st) - 1
    ELSE /\ Len(t) = Len(st) /\ t[Len(st)].kind = "drain"
         /\ t[Len(st)].tmp = st[Len(st)].entry
         /\ t[Len(st)].entry = h[st[Len(st)].entry].next

DrainedOn(L, n, m) ==
    [i \in 0 .. m |-> IF i = n THEN Removed(L[i], 1) ELSE L[i]]

\* queue_remove_all frees the first cell of its own list.
LEMMA MemoryDrained ==
    ASSUME NEW h, NEW qu, NEW st, NEW L, Memory(h, qu, st, L), st # << >>,
           st[Len(st)].kind = "drain",
           NEW h2, Frees(h, h2, st[Len(st)].tmp),
           NEW t \in Seq(WalkType), Behind(t, st, st[Len(st)].tmp),
           HandsNext(h, st, t)
    PROVE  Memory(h2, qu, t, DrainedOn(L, Len(st), Len(t)))
<1> DEFINE n == Len(st)
           s == L[n]
           x == st[n].tmp
           r == Removed(s, 1)
           M == [i \in 0 .. Len(t) |->
                    IF i = n THEN Removed(L[i], 1) ELSE L[i]]
<1>1. /\ n \in Nat /\ st \in Seq(WalkType) /\ IsHeap(h) /\ DOMAIN st = 1 .. n
      /\ n # 0 /\ n \in 0 .. n /\ n \in 1 .. n
  BY LenProperties, EmptySeq DEF Memory, Types
<1>2. /\ Linked(h, x, s) /\ s \in Seq(DOMAIN h) /\ Len(s) \in Nat /\ Different(s)
      /\ x # Null /\ st[n].entry = h[x].next
      /\ \A k \in 1 .. Len(s) : s[k] \in DOMAIN h
  <2>1. Begin(qu, st, n) = x
    BY <1>1 DEF Begin
  <2>2. /\ Linked(h, Begin(qu, st, n), s) /\ s \in Seq(DOMAIN h)
        /\ Len(s) \in Nat /\ Different(s)
        /\ \A k \in 1 .. Len(s) : s[k] \in DOMAIN h
    BY <1>1, MemoryLinks
  <2>3. x # Null /\ st[n].entry = h[x].next
    BY <1>1 DEF Memory, Hands
  <2> HIDE DEF s, x, n
  <2> QED
    BY <2>1, <2>2, <2>3
<1>3. x = s[1] /\ 1 \in 1 .. Len(s) /\ x \in DOMAIN h
  <2>1. s # << >>
    BY <1>2 DEF Linked
  <2> QED
    BY <1>2, <2>1, EmptySeq DEF Linked
<1>4. Cut(h, h2, s, 1)
  <2>1. ASSUME NEW c \in DOMAIN h2
        PROVE  h2[c] = [data |-> h[c].data, next |-> h[c].next]
    <3>1. h2[c] = h[c] /\ c \in DOMAIN h
      BY DEF Frees
    <3>2. h[c] \in [data : Data, next : Pointer]
      BY <1>1, <3>1, HeapCells
    <3> QED
      BY <3>1, <3>2
  <2> QED
    BY <1>3, <2>1 DEF Cut, Frees
<1>5. /\ Linked(h2, h[x].next, r) /\ Len(r) = Len(s) - 1
      /\ \A c : InList(c, r) <=> InList(c, s) /\ c # x
  <2>1. Linked(h2, h[x].next, r)
    BY <1>2, <1>3, <1>4, LinkedCut
  <2>2. \A c : InList(c, r) <=> InList(c, s) /\ c # x
    BY <1>2, <1>3, RemovedCells
  <2>3. Len(r) = Len(s) - 1
    BY <1>2, <1>3, RemovedElements
  <2> QED
    BY <2>1, <2>2, <2>3
<1>6. IsHeap(h2)
  <2>1. h2 = [e \in DOMAIN h2 |-> h2[e]]
    BY DEF Frees
  <2> QED
    BY <1>1, <1>2, <1>3, <1>4, <2>1, CutHeap
<1>7. st[n].entry = Null <=> Len(s) = 1
  <2>1. h[x].next = IF r = << >> THEN Null ELSE r[1]
    BY <1>5 DEF Linked
  <2>2. r \in Seq(DOMAIN h2) /\ (r = << >> <=> Len(r) = 0)
    BY <1>5, EmptySeq DEF Linked
  <2>3. r # << >> => r[1] # Null
    <3>1. r # << >> => 1 \in 1 .. Len(r)
      BY <2>2, EmptySeq
    <3>2. r # << >> => r[1] \in Cells
      BY <1>6, <2>2, <3>1, ElementOfSeq DEF IsHeap
    <3> QED
      BY <3>2, QueueConstants DEF Cells, Null
  <2>4. Len(r) = 0 <=> Len(s) = 1
    <3>1. \A l \in Nat : l - 1 = 0 <=> l = 1
      OBVIOUS
    <3> HIDE DEF r, s
    <3> QED
      BY <1>2, <1>5, <3>1
  <2>5. st[n].entry = h[x].next
    BY <1>2
  <2> HIDE DEF r, s, x, n
  <2> QED
    BY <2>1, <2>2, <2>3, <2>4, <2>5
<1>8. /\ Len(t) \in {n - 1, n} /\ (Len(t) = n - 1 <=> st[n].entry = Null)
      /\ Len(t) = n => st[n].entry # Null
  <2>1. IF st[n].entry = Null THEN Len(t) = n - 1 ELSE Len(t) = n
    BY DEF HandsNext
  <2>0. n \in Nat
    BY <1>1
  <2>2. n - 1 # n
    <3> HIDE DEF n
    <3> QED
      BY <2>0
  <2> HIDE DEF n
  <2> QED
    BY <2>1, <2>2
<1>9. /\ DOMAIN M = 0 .. Len(t)
      /\ \A i \in 0 .. Len(t) : M[i] = IF i = n THEN r ELSE L[i]
  OBVIOUS
<1> HIDE DEF M, r, s, x, n
<1>10. /\ \A i \in 0 .. Len(t) : i \in 0 .. n /\ (i # n /\ i # 0 => i \in 1 .. n - 1)
       /\ \A i \in 0 .. n : i = n \/ i \in 0 .. Len(t)
       /\ \A i \in 1 .. Len(t) : i \in 1 .. n /\ (i # n => i \in 1 .. n - 1)
       /\ 0 # n /\ 0 \in 0 .. Len(t)
       /\ n \in 0 .. Len(t) => Len(t) = n
  BY <1>1, <1>8
<1>11. \A i \in 1 .. n - 1 :
           /\ t[i].kind = st[i].kind /\ t[i].tmp = st[i].tmp
           /\ t[i].entry = st[i].entry
           /\ t[i].wild <=> st[i].wild \/ st[i].entry = x
  BY DEF n, x, Behind
<1>12. ASSUME NEW c, NEW i \in 0 .. n, InList(c, L[i]), c # x
       PROVE  i \in 0 .. Len(t) /\ InList(c, M[i])
  <2>1. CASE i # n
    BY <1>9, <1>10, <1>12, <2>1
  <2>2. CASE i = n
    <3>1. InList(c, r)
      BY <1>5, <1>12, <2>2 DEF s
    <3>2. Len(s) # 1
      <4> SUFFICES ASSUME Len(s) = 1 PROVE FALSE
        OBVIOUS
      <4>1. PICK k \in 1 .. Len(s) : s[k] = c
        BY <1>12, <2>2 DEF InList, s
      <4> QED
        BY <1>3, <1>12, <4>1
    <3>3. Len(t) = n
      BY <1>7, <1>8, <3>2
    <3> QED
      BY <1>1, <1>9, <2>2, <3>1, <3>3
  <2> QED
    BY <2>1, <2>2
<1>13. ASSUME NEW i \in 0 .. Len(t)
       PROVE  /\ Linked(h2, Begin(qu, t, i), M[i])
              /\ \A c : InList(c, M[i]) => InList(c, L[i])
  <2>1. CASE i = n
    <3>1. Begin(qu, t, i) = h[x].next
      <4>1. Len(t) = n
        BY <1>10, <2>1
      <4>2. st[n].entry # Null
        BY <1>8, <4>1
      <4>3. t[n].kind = "drain" /\ t[n].tmp = st[n].entry
        BY <4>2 DEF n, HandsNext
      <4> QED
        BY <1>1, <1>2, <2>1, <4>3 DEF Begin
    <3> QED
      BY <1>5, <1>9, <2>1, <3>1 DEF s
  <2>2. CASE i # n
    <3>1. Begin(qu, t, i) = Begin(qu, st, i) /\ i \in 0 .. n /\ M[i] = L[i]
      BY <1>9, <1>10, <1>11, <2>2 DEF Begin
    <3>2. Linked(h, Begin(qu, st, i), L[i])
      BY <3>1, MemoryLinks DEF n
    <3>3. ASSUME NEW e \in DOMAIN h, InList(e, L[i])
          PROVE  e \in DOMAIN h2 /\ h2[e].next = h[e].next
      <4>1. InList(x, s)
        BY <1>3 DEF InList
      <4>2. e # x
        <5> SUFFICES ASSUME e = x PROVE FALSE
          OBVIOUS
        <5>1. x \in Cells
          BY <1>1, <1>3, HeapCells
        <5>2. \A j \in 0 .. n : InList(x, L[i]) /\ InList(x, L[j]) => i = j
          BY <3>1, <5>1 DEF Memory, Lists, n
        <5>3. InList(x, L[i]) /\ InList(x, L[n]) /\ n \in 0 .. n
          BY <1>1, <3>3, <4>1 DEF s
        <5> QED
          BY <2>2, <5>2, <5>3
      <4>3. e \in DOMAIN h2 /\ h2[e] = h[e]
        BY <4>2 DEF x, n, Frees
      <4> QED
        BY <4>3
    <3> QED
      BY <3>1, <3>2, <3>3, LinkedFrame
  <2> QED
    BY <2>1, <2>2
<1>14. Lists(h2, qu, t, M)
  <2>1. ASSUME NEW i \in 0 .. Len(t), NEW j \in 0 .. Len(t), NEW c \in Cells,
               InList(c, M[i]), InList(c, M[j])
        PROVE  i = j
    BY <1>10, <1>13, <2>1 DEF Memory, Lists, n
  <2>2. \A c \in DOMAIN h2 : \E i \in 0 .. Len(t) : InList(c, M[i])
    <3>1. \A c \in DOMAIN h : \E i \in 0 .. n : InList(c, L[i])
      BY DEF Memory, Lists, n
    <3>2. \A c \in DOMAIN h2 : c \in DOMAIN h /\ c # x
      BY DEF x, n, Frees
    <3> QED
      BY <1>12, <3>1, <3>2
  <2> QED
    BY <1>9, <1>13, <2>1, <2>2 DEF Lists
<1>15. Hands(h2, t, M)
  <2> SUFFICES ASSUME NEW i \in 1 .. Len(t)
               PROVE  /\ t[i].kind = "drain" => /\ t[i].tmp # Null
                                                /\ t[i].entry = h2[t[i].tmp].next
                      /\ Reached(t, i, M)
    BY DEF Hands
  <2>0. i \in 0 .. Len(t) /\ i # 0
    OBVIOUS
  <2>1. t[i].kind = "drain" /\ M[i] # << >> =>
            h2[t[i].tmp].next = Next1(M[i], 1) /\ t[i].tmp = M[i][1]
    <3> SUFFICES ASSUME t[i].kind = "drain", M[i] # << >>
                 PROVE  h2[t[i].tmp].next = Next1(M[i], 1) /\ t[i].tmp = M[i][1]
      OBVIOUS
    <3>1. Linked(h2, t[i].tmp, M[i])
      BY <1>13, <2>0 DEF Begin
    <3>2. 1 \in 1 .. Len(M[i])
      BY <3>1, EmptySeq DEF Linked
    <3> QED
      BY <3>1, <3>2 DEF Linked
  <2>2. CASE i = n
    <3>1. Len(t) = n /\ st[n].entry # Null
      BY <1>8, <1>10, <2>0, <2>2
    <3>2. /\ t[n].kind = "drain" /\ t[n].tmp = st[n].entry
          /\ t[n].entry = h[st[n].entry].next
      BY <3>1 DEF n, HandsNext
    <3>3. M[i] # << >>
      BY <1>13, <2>0, <2>2, <3>1, <3>2 DEF Begin, Linked
    <3>4. h2[t[n].tmp] = h[t[n].tmp]
      <4>1. t[n].tmp = r[1] /\ 1 \in 1 .. Len(r) /\ r \in Seq(DOMAIN h2)
        BY <1>5, <1>9, <2>0, <2>1, <2>2, <3>2, <3>3, EmptySeq DEF Linked
      <4>2. t[n].tmp \in DOMAIN h2
        BY <4>1, ElementOfSeq
      <4> QED
        BY <4>2 DEF Frees
    <3> QED
      BY <2>2, <3>1, <3>2, <3>4 DEF Reached
  <2>3. CASE i # n
    <3>1. /\ st[i].kind = "drain" => /\ st[i].tmp # Null
                                     /\ st[i].entry = h[st[i].tmp].next
          /\ Reached(st, i, L) /\ i \in 1 .. n - 1
      BY <1>10, <2>3 DEF Memory, Hands, n
    <3>2. t[i].kind = "drain" => t[i].entry = h2[t[i].tmp].next
      <4> SUFFICES ASSUME t[i].kind = "drain"
                   PROVE  t[i].entry = h2[t[i].tmp].next
        OBVIOUS
      <4>1. /\ t[i].tmp = st[i].tmp /\ t[i].entry = h[st[i].tmp].next
            /\ t[i].tmp # Null
        BY <1>11, <3>1
      <4>2. Linked(h2, t[i].tmp, M[i])
        BY <1>13, <2>0 DEF Begin
      <4>3. 1 \in 1 .. Len(M[i]) /\ t[i].tmp = M[i][1] /\ M[i] \in Seq(DOMAIN h2)
        BY <4>1, <4>2, EmptySeq DEF Linked
      <4>4. t[i].tmp \in DOMAIN h2
        BY <4>3, ElementOfSeq
      <4> QED
        BY <4>1, <4>4 DEF Frees
    <3>3. Reached(t, i, M)
      <4> SUFFICES ASSUME t[i].kind = "foreach", ~t[i].wild, t[i].entry # Null
                   PROVE  \E j \in 0 .. Len(t) :
                              (j = 0 \/ j > i) /\ InList(t[i].entry, M[j])
        BY DEF Reached
      <4>1. /\ st[i].kind = "foreach" /\ ~st[i].wild /\ st[i].entry # Null
            /\ st[i].entry # x /\ t[i].entry = st[i].entry
        BY <1>11, <3>1
      <4>2. PICK j \in 0 .. n : (j = 0 \/ j > i) /\ InList(st[i].entry, L[j])
        BY <3>1, <4>1 DEF Reached, n
      <4>3. j \in 0 .. Len(t) /\ InList(st[i].entry, M[j])
        BY <1>12, <4>1, <4>2
      <4> QED
        BY <4>1, <4>2, <4>3
    <3> QED
      BY <1>11, <3>1, <3>2, <3>3
  <2> QED
    BY <2>2, <2>3
<1>16. Ends(qu, M[0])
  BY <1>9, <1>10 DEF Memory, Ends
<1> QED
  BY <1>6, <1>14, <1>15, <1>16 DEF Memory, Types, DrainedOn, M, n
-----------------------------------------------------------------------------
(* The invariant: the lists, of which there is one choice, and the calls *)

ListsOf(h, qu, st) == [i \in 0 .. Len(st) |-> Along(h, Begin(qu, st, i))]

\* The lists of Memory are those that are found in the heap.
LEMMA ListsAre ==
    ASSUME NEW h, NEW qu, NEW st, NEW L, Memory(h, qu, st, L)
    PROVE  /\ \A i \in 0 .. Len(st) : ListsOf(h, qu, st)[i] = L[i]
           /\ Memory(h, qu, st, ListsOf(h, qu, st))
<1> DEFINE N == ListsOf(h, qu, st)
<1>1. \A i \in 0 .. Len(st) : N[i] = L[i]
  <2> SUFFICES ASSUME NEW i \in 0 .. Len(st) PROVE N[i] = L[i]
    OBVIOUS
  <2>1. Linked(h, Begin(qu, st, i), L[i]) /\ IsHeap(h)
    BY DEF Memory, Lists, Types
  <2> QED
    BY <2>1, AlongIs DEF ListsOf
<1>2. DOMAIN N = 0 .. Len(st)
  BY DEF ListsOf
<1> HIDE DEF N
<1>3. Lists(h, qu, st, N)
  BY <1>1, <1>2 DEF Memory, Lists
<1>4. Hands(h, st, N)
  <2>1. \A i \in 1 .. Len(st) : Reached(st, i, L) => Reached(st, i, N)
    BY <1>1 DEF Reached
  <2> QED
    BY <2>1 DEF Memory, Hands
<1>5. Ends(qu, N[0])
  <2>1. 0 \in 0 .. Len(st)
    BY NoWalks DEF Memory, Types
  <2> QED
    BY <1>1, <2>1 DEF Memory
<1> QED
  BY <1>1, <1>3, <1>4, <1>5 DEF Memory, N

Count(st) == Cardinality({i \in DOMAIN st : st[i].kind = "foreach"})

\* One reference is the owner's, the others are those of queue_foreach; a
\* queue_destroy that runs holds the owner's
Calls(qu, st) ==
    /\ Len(st) <= MaxWalks
    /\ qu.ref_count \in {Count(st), Count(st) + 1}
    /\ \A i \in DOMAIN st : st[i].destroys => /\ st[i].kind = "drain"
                                              /\ qu.ref_count > Count(st)
    /\ \A i, j \in DOMAIN st : st[i].destroys /\ st[j].destroys => i = j

Intact ==
    /\ Memory(heap, queue, stack, ListsOf(heap, queue, stack))
    /\ Calls(queue, stack)
    /\ crashed \in BOOLEAN

\* The number of queue_foreach under way is at most that of walks.
LEMMA CountFits ==
    ASSUME NEW st \in Seq(WalkType)
    PROVE  /\ Count(st) \in Nat /\ Count(st) <= Len(st)
           /\ IsFiniteSet({i \in DOMAIN st : st[i].kind = "foreach"})
           /\ Count(st) = 0 <=> {i \in DOMAIN st : st[i].kind = "foreach"} = {}
<1> DEFINE F == {i \in DOMAIN st : st[i].kind = "foreach"}
           n == Len(st)
<1>1. n \in Nat /\ DOMAIN st = 1 .. n
  BY LenProperties
<1>2. F \subseteq 1 .. n
  BY <1>1
<1> HIDE DEF F, n
<1>3. IsFiniteSet(1 .. n) /\ Cardinality(1 .. n) = n
  BY <1>1, FS_Interval, SMT
<1>4. IsFiniteSet(F) /\ Cardinality(F) <= n
  BY <1>2, <1>3, FS_Subset
<1>5. Cardinality(F) \in Nat /\ (Cardinality(F) = 0 <=> F = {})
  BY <1>4, FS_CardinalityType, FS_EmptySet
<1> QED
  BY <1>4, <1>5 DEF Count, F, n

\* One walk more, or one less
LEMMA CountMore ==
    ASSUME NEW st \in Seq(WalkType), NEW t \in Seq(WalkType),
           Len(t) = Len(st) + 1,
           \A i \in 1 .. Len(st) : t[i].kind = st[i].kind
    PROVE  Count(t) = IF t[Len(t)].kind = "foreach" THEN Count(st) + 1
                                                    ELSE Count(st)
<1> DEFINE F == {i \in DOMAIN st : st[i].kind = "foreach"}
           G == {i \in DOMAIN t : t[i].kind = "foreach"}
           n == Len(st)
<1>1. n \in Nat /\ DOMAIN st = 1 .. n /\ DOMAIN t = 1 .. n + 1 /\ Len(t) = n + 1
  BY LenProperties
<1>2. IsFiniteSet(F) /\ Count(st) = Cardinality(F) /\ Count(t) = Cardinality(G)
  BY CountFits DEF Count
<1>3. /\ n + 1 \in 1 .. n + 1 /\ n + 1 \notin 1 .. n
      /\ \A i \in 1 .. n + 1 : i \in 1 .. n \/ i = n + 1
      /\ \A i \in 1 .. n : i \in 1 .. n + 1
  BY <1>1
<1>4. CASE t[n + 1].kind = "foreach"
  <2>1. G = F \cup {n + 1} /\ n + 1 \notin F
    BY <1>1, <1>3, <1>4
  <2> HIDE DEF F, G
  <2>2. Cardinality(G) = Cardinality(F) + 1
    BY <1>2, <2>1, FS_AddElement
  <2> QED
    BY <1>1, <1>2, <1>4, <2>2
<1>5. CASE t[n + 1].kind # "foreach"
  <2>1. G = F
    BY <1>1, <1>3, <1>5
  <2> QED
    BY <1>1, <1>2, <1>5, <2>1
<1> QED
  BY <1>4, <1>5

\* The same calls
Alike(st, t) ==
    /\ Len(t) = Len(st)
    /\ \A i \in 1 .. Len(st) : /\ t[i].kind = st[i].kind
                               /\ t[i].destroys = st[i].destroys

\* Walks of the same kinds count the same.
LEMMA CountAlike ==
    ASSUME NEW st \in Seq(WalkType), NEW t \in Seq(WalkType), Alike(st, t)
    PROVE  /\ DOMAIN t = DOMAIN st
           /\ \A i \in DOMAIN st : t[i].destroys = st[i].destroys
           /\ \A i \in DOMAIN st : t[i].kind = st[i].kind
           /\ Count(t) = Count(st)
<1>1. DOMAIN t = 1 .. Len(st) /\ DOMAIN st = 1 .. Len(st)
  BY LenProperties DEF Alike
<1>2. {i \in DOMAIN t : t[i].kind = "foreach"}
          = {i \in DOMAIN st : st[i].kind = "foreach"}
  BY <1>1 DEF Alike
<1> QED
  BY <1>1, <1>2 DEF Alike, Count

\* Calls does not depend on where the walks are.
LEMMA CallsAlike ==
    ASSUME NEW st \in Seq(WalkType), NEW t \in Seq(WalkType), Alike(st, t),
           NEW qu, NEW u, u.ref_count = qu.ref_count, Calls(qu, st)
    PROVE  Calls(u, t)
<1>1. /\ DOMAIN t = DOMAIN st /\ Count(t) = Count(st)
      /\ \A i \in DOMAIN st : t[i].destroys = st[i].destroys
      /\ \A i \in DOMAIN st : t[i].kind = st[i].kind
  BY CountAlike
<1> QED
  BY <1>1 DEF Calls, Alike

\* A walk that begins keeps Calls.
LEMMA CallsPushed ==
    ASSUME NEW st \in Seq(WalkType), NEW t \in Seq(WalkType), NEW w \in WalkType,
           Alike(st, t), Len(st) < MaxWalks,
           NEW qu, NEW u, qu.ref_count \in Int, Calls(qu, st),
           u.ref_count = IF w.kind = "foreach" THEN qu.ref_count + 1
                                               ELSE qu.ref_count,
           w.destroys => /\ w.kind = "drain" /\ qu.ref_count > Count(st)
                         /\ \A i \in DOMAIN st : ~st[i].destroys
    PROVE  Calls(u, Append(t, w))
<1> DEFINE v == Append(t, w)
           n == Len(st)
<1>1. /\ n \in Nat /\ MaxWalks \in Nat /\ DOMAIN st = 1 .. n /\ Len(t) = n
      /\ v \in Seq(WalkType) /\ Len(v) = n + 1 /\ v[n + 1] = w
      /\ DOMAIN v = 1 .. n + 1
      /\ \A i \in 1 .. n : v[i] = t[i]
  BY LenProperties, AppendProperties, QueueConstants DEF Alike
<1> HIDE DEF v, n
<1>2. /\ Count(v) = IF w.kind = "foreach" THEN Count(st) + 1 ELSE Count(st)
      /\ Count(st) \in Nat
  <2>1. Len(v) = Len(st) + 1 /\ Len(v) = n + 1
    BY <1>1 DEF n
  <2>2. \A i \in 1 .. Len(st) : v[i].kind = st[i].kind
    BY <1>1 DEF Alike, n
  <2>3. Count(v) = IF v[Len(v)].kind = "foreach" THEN Count(st) + 1 ELSE Count(st)
    BY <1>1, <2>1, <2>2, CountMore
  <2> QED
    BY <1>1, <2>1, <2>3, CountFits
<1>3. \A i \in 1 .. n : /\ v[i].kind = st[i].kind
                        /\ v[i].destroys = st[i].destroys
  BY <1>1 DEF Alike, n
<1>4. Len(v) <= MaxWalks
  BY <1>1 DEF n
<1>5. /\ u.ref_count \in {Count(v), Count(v) + 1}
      /\ (u.ref_count > Count(v) <=> qu.ref_count > Count(st))
  BY <1>2 DEF Calls
<1>6. \A i \in 1 .. n + 1 : i \in 1 .. n \/ i = n + 1
  BY <1>1
<1>7. \A i \in DOMAIN v : v[i].destroys => /\ v[i].kind = "drain"
                                           /\ u.ref_count > Count(v)
  BY <1>1, <1>3, <1>5, <1>6 DEF Calls
<1>8. \A i, j \in DOMAIN v : v[i].destroys /\ v[j].destroys => i = j
  BY <1>1, <1>3, <1>6 DEF Calls
<1> QED
  BY <1>4, <1>5, <1>7, <1>8 DEF Calls, v

\* A walk that ends keeps Calls.
LEMMA CallsPopped ==
    ASSUME NEW st \in Seq(WalkType), NEW t \in Seq(WalkType), st # << >>,
           Len(t) = Len(st) - 1,
           \A i \in 1 .. Len(st) - 1 : /\ t[i].kind = st[i].kind
                                       /\ t[i].destroys = st[i].destroys,
           NEW qu, NEW u, qu.ref_count \in Int, Calls(qu, st),
           u.ref_count = IF st[Len(st)].kind = "foreach" \/ st[Len(st)].destroys
                         THEN qu.ref_count - 1 ELSE qu.ref_count
    PROVE  Calls(u, t)
<1> DEFINE n == Len(st)
           w == st[n]
<1>1. /\ n \in Nat /\ n # 0 /\ MaxWalks \in Nat /\ DOMAIN st = 1 .. n
      /\ Len(t) = n - 1 /\ DOMAIN t = 1 .. n - 1 /\ Len(st) = Len(t) + 1
      /\ n \in DOMAIN st /\ n \notin DOMAIN t
      /\ \A i \in 1 .. n - 1 : i \in 1 .. n
  BY LenProperties, EmptySeq, QueueConstants
<1>2. /\ Count(st) = IF w.kind = "foreach" THEN Count(t) + 1 ELSE Count(t)
      /\ Count(t) \in Nat
  BY <1>1, CountMore, CountFits
<1> HIDE DEF n, w
<1>3. w.destroys => w.kind = "drain" /\ qu.ref_count > Count(st)
  BY <1>1 DEF Calls, w, n
<1>4. /\ u.ref_count \in {Count(t), Count(t) + 1}
      /\ ~w.destroys => (u.ref_count > Count(t) <=> qu.ref_count > Count(st))
  BY <1>2, <1>3 DEF Calls, w, n
<1>5. ASSUME NEW i \in DOMAIN t, t[i].destroys
      PROVE  t[i].kind = "drain" /\ u.ref_count > Count(t)
  <2>1. st[i].destroys /\ st[i].kind = t[i].kind /\ i \in DOMAIN st /\ i # n
    BY <1>1, <1>5 DEF n
  <2>2. ~w.destroys
    BY <1>1, <2>1 DEF Calls, w
  <2> QED
    BY <1>4, <2>1, <2>2 DEF Calls
<1>6. \A i, j \in DOMAIN t : t[i].destroys /\ t[j].destroys => i = j
  BY <1>1 DEF Calls, n
<1>7. Len(t) <= MaxWalks
  BY <1>1 DEF Calls, n
<1> QED
  BY <1>4, <1>5, <1>6, <1>7 DEF Calls

-----------------------------------------------------------------------------
(* What the calls do to the lists *)

Hand == ListsOf(heap, queue, stack)

\* What Intact says of the queue's own list.
LEMMA IntactHand ==
    ASSUME Intact
    PROVE  /\ Memory(heap, queue, stack, Hand)
           /\ IsHeap(heap) /\ queue \in QueueType /\ stack \in Seq(WalkType)
           /\ Linked(heap, queue.head, Hand[0]) /\ List = Hand[0]
           /\ Hand[0] \in Seq(DOMAIN heap) /\ Len(Hand[0]) \in Nat
           /\ DOMAIN List = 1 .. Len(Hand[0])
           /\ \A k \in 1 .. Len(Hand[0]) : Hand[0][k] \in DOMAIN heap
           /\ Ends(queue, Hand[0])
<1>1. Memory(heap, queue, stack, Hand)
  BY DEF Intact, Hand
<1>2. IsHeap(heap) /\ queue \in QueueType /\ stack \in Seq(WalkType)
  BY <1>1 DEF Memory, Types
<1>3. 0 \in 0 .. Len(stack)
  BY <1>2, NoWalks
<1>4. /\ Linked(heap, queue.head, Hand[0])
      /\ Hand[0] \in Seq(DOMAIN heap) /\ Len(Hand[0]) \in Nat
      /\ \A k \in 1 .. Len(Hand[0]) : Hand[0][k] \in DOMAIN heap
  BY <1>1, <1>3, MemoryLinks DEF Begin
<1>5. List = Hand[0]
  BY <1>2, <1>4, AlongIs DEF List, Chain
<1>6. DOMAIN List = 1 .. Len(Hand[0])
  BY <1>4, <1>5, LenProperties
<1> QED
  BY <1>1, <1>2, <1>4, <1>5, <1>6 DEF Memory

\* A call that may allocate gets a cell that is not in the heap.
LEMMA FreshCell ==
    ASSUME Intact, MayAllocate
    PROVE  Fresh \in Cells \ DOMAIN heap
<1> DEFINE T == Cells \ DOMAIN heap
<1>1. T \subseteq Nat /\ T # {}
  <2>1. DOMAIN heap \subseteq Cells /\ DOMAIN heap # Cells
    BY IntactHand DEF MayAllocate, IsHeap
  <2>2. Cells \subseteq Nat
    BY QueueConstants DEF Cells
  <2> QED
    BY <2>1, <2>2
<1>2. \E c \in T : \A e \in T : c <= e
  BY <1>1, Least
<1> QED
  BY <1>2 DEF Fresh

\* The heap with a new entry behind the cell p, or behind none
Pointed(h, p, f) == IF p = Null THEN h ELSE [h EXCEPT ![p].next = f]

\* Setting the next of one cell, or of none.
LEMMA PointedIs ==
    ASSUME NEW h, IsHeap(h), NEW p, p # Null => p \in DOMAIN h, NEW f
    PROVE  /\ DOMAIN Pointed(h, p, f) = DOMAIN h
           /\ \A c \in DOMAIN h :
                 Pointed(h, p, f)[c]
                     = [data |-> h[c].data,
                        next |-> IF p # Null /\ c = p THEN f ELSE h[c].next]
<1> DEFINE g == Pointed(h, p, f)
<1>1. DOMAIN g = DOMAIN h
  BY DEF Pointed
<1>2. ASSUME NEW c \in DOMAIN h
      PROVE  g[c] = [data |-> h[c].data,
                     next |-> IF p # Null /\ c = p THEN f ELSE h[c].next]
  <2>1. h[c] \in [data : Data, next : Pointer]
    BY HeapCells
  <2>2. CASE p # Null /\ c = p
    <3>1. g[c] = [h[c] EXCEPT !.next = f]
      BY <2>2 DEF Pointed
    <3> HIDE DEF g
    <3>2. g[c] = [data |-> h[c].data, next |-> f]
      BY <2>1, <3>1
    <3> QED
      BY <2>2, <3>2
  <2>3. CASE ~(p # Null /\ c = p)
    <3>1. g[c] = h[c]
      BY <2>3 DEF Pointed
    <3> HIDE DEF g
    <3>2. h[c] = [data |-> h[c].data, next |-> h[c].next]
      BY <2>1
    <3> QED
      BY <2>3, <3>1, <3>2
  <2> QED
    BY <2>2, <2>3
<1> QED
  BY <1>1, <1>2

\* The heap after a new cell was made and linked.
LEMMA WithIs ==
    ASSUME NEW h, IsHeap(h), NEW p, p # Null => p \in DOMAIN h, NEW d, NEW next,
           Fresh \notin DOMAIN h, NEW h2, h2 = With(Pointed(h, p, Fresh), d, next)
    PROVE  /\ h2 = [e \in DOMAIN h2 |-> h2[e]]
           /\ DOMAIN h2 = DOMAIN h \cup {Fresh}
           /\ h2[Fresh] = [data |-> d, next |-> next]
           /\ \A c \in DOMAIN h :
                 h2[c] = [data |-> h[c].data,
                          next |-> IF p # Null /\ c = p THEN Fresh ELSE h[c].next]
<1> DEFINE f == Fresh
           g == Pointed(h, p, f)
<1>1. DOMAIN g = DOMAIN h
  BY PointedIs
<1>2. \A c \in DOMAIN h :
          g[c] = [data |-> h[c].data,
                  next |-> IF p # Null /\ c = p THEN f ELSE h[c].next]
  <2> DEFINE e == f
  <2> HIDE DEF f
  <2> HIDE DEF e
  <2>1. \A c \in DOMAIN h :
            Pointed(h, p, e)[c]
                = [data |-> h[c].data,
                   next |-> IF p # Null /\ c = p THEN e ELSE h[c].next]
    BY PointedIs
  <2> QED
    BY <2>1 DEF e
<1> HIDE DEF f, g
<1>3. h2 = [x \in {f} \cup DOMAIN h |->
               IF x \in {f} THEN [data |-> d, next |-> next] ELSE g[x]]
  BY <1>1 DEF With, f, g
<1>4. \A c \in DOMAIN h : c # f
  BY DEF f
<1> QED
  BY <1>2, <1>3, <1>4 DEF f

\* The heap without the entry x, that p points past
Dropped(h, h2, p, x, next) ==
    /\ h2 = [e \in DOMAIN h2 |-> h2[e]]
    /\ DOMAIN h2 = DOMAIN h \ {x}
    /\ \A c \in DOMAIN h2 :
          h2[c] = [data |-> h[c].data,
                   next |-> IF p # Null /\ c = p THEN next ELSE h[c].next]

\* The heap after a cell was unlinked and freed.
LEMMA WithoutIs ==
    ASSUME NEW h, IsHeap(h), NEW p, p # Null => p \in DOMAIN h, NEW x, NEW next,
           NEW h2, h2 = Without(Pointed(h, p, next), x)
    PROVE  Dropped(h, h2, p, x, next)
<1> DEFINE g == Pointed(h, p, next)
<1>1. DOMAIN g = DOMAIN h
  BY PointedIs
<1>2. \A c \in DOMAIN h :
          g[c] = [data |-> h[c].data,
                  next |-> IF p # Null /\ c = p THEN next ELSE h[c].next]
  BY PointedIs
<1>3. h2 = [e \in DOMAIN g \ {x} |-> g[e]]
  BY DEF Without
<1> HIDE DEF g
<1> QED
  BY <1>1, <1>2, <1>3 DEF Dropped

\* Two queues with the same four fields are the same.
LEMMA QueueEqual ==
    ASSUME NEW u \in QueueType, NEW v \in QueueType,
           u.head = v.head, u.tail = v.tail, u.entries = v.entries,
           u.ref_count = v.ref_count
    PROVE  u = v
<1>1. \A w \in QueueType :
          w = [head |-> w.head, tail |-> w.tail, entries |-> w.entries,
               ref_count |-> w.ref_count]
  BY DEF QueueType
<1> QED
  BY <1>1, Zenon

\* A datum got into the list, behind its i-th
Pushed(d, i) ==
    /\ i \in 0 .. Len(Hand[0]) /\ Fresh \in Cells \ DOMAIN heap
    /\ Spliced(heap, heap', Hand[0], i, d, Fresh)
    /\ Memory(heap', queue', stack', [Hand EXCEPT ![0] = Inserted(Hand[0], i, Fresh)])
    /\ queue'.ref_count = queue.ref_count
    /\ UNCHANGED <<stack, crashed>>

\* A step that splices the list and sets head, tail and entries is a push.
LEMMA PushedBy ==
    ASSUME Intact, NEW d \in Data, NEW i \in 0 .. Len(Hand[0]),
           Fresh \in Cells \ DOMAIN heap,
           heap' = [e \in DOMAIN heap' |-> heap'[e]],
           Spliced(heap, heap', Hand[0], i, d, Fresh),
           queue' \in QueueType,
           queue'.head = (IF i = 0 THEN Fresh ELSE queue.head),
           queue'.tail = (IF i = Len(Hand[0]) THEN Fresh ELSE queue.tail),
           queue'.entries = queue.entries + 1,
           queue'.ref_count = queue.ref_count,
           UNCHANGED <<stack, crashed>>
    PROVE  Pushed(d, i)
<1> DEFINE hd == IF i = 0 THEN Fresh ELSE queue.head
           tl == IF i = Len(Hand[0]) THEN Fresh ELSE queue.tail
           en == queue.entries + 1
           v == [queue EXCEPT !.head = hd, !.tail = tl, !.entries = en]
<1>1. /\ Memory(heap, queue, stack, Hand) /\ queue \in QueueType
      /\ hd \in Pointer /\ tl \in Pointer /\ en \in Int
  <2>1. Memory(heap, queue, stack, Hand) /\ queue \in QueueType
    BY IntactHand
  <2>2. /\ queue.head \in Pointer /\ queue.tail \in Pointer /\ Fresh \in Pointer
        /\ queue.entries \in Int
    BY <2>1 DEF QueueType, Pointer
  <2> QED
    BY <2>1, <2>2
<1>2. queue' = v
  <2> HIDE DEF hd, tl, en
  <2>0. v = [queue EXCEPT !.head = hd, !.tail = tl, !.entries = en]
    OBVIOUS
  <2> HIDE DEF v
  <2>1. v \in QueueType
    BY <1>1, <2>0, Zenon DEF QueueType
  <2>3. /\ v.head = hd /\ v.tail = tl
        /\ v.entries = en /\ v.ref_count = queue.ref_count
    BY <1>1, <2>0 DEF QueueType
  <2>2. queue'.head = hd /\ queue'.tail = tl /\ queue'.entries = en
    BY DEF hd, tl, en
  <2> QED
    BY <2>1, <2>2, <2>3, QueueEqual
<1>3. Memory(heap', queue', stack, [Hand EXCEPT ![0] = Inserted(Hand[0], i, Fresh)])
  <2> DEFINE u == queue'
             h2 == heap'
  <2>1. u = [queue EXCEPT !.head = IF i = 0 THEN Fresh ELSE @,
                          !.tail = IF i = Len(Hand[0]) THEN Fresh ELSE @,
                          !.entries = @ + 1]
    BY <1>2
  <2>2. h2 = [e \in DOMAIN h2 |-> h2[e]] /\ Spliced(heap, h2, Hand[0], i, d, Fresh)
    OBVIOUS
  <2> HIDE DEF u, h2
  <2>3. Memory(h2, u, stack, [Hand EXCEPT ![0] = Inserted(Hand[0], i, Fresh)])
    BY <1>1, <2>1, <2>2, MemoryInserted
  <2> QED
    BY <2>3 DEF u, h2
<1> QED
  BY <1>3 DEF Pushed

\* A list begins with its head and is empty if there is none.
LEMMA Heads ==
    ASSUME NEW h, IsHeap(h), NEW c, NEW s, Linked(h, c, s)
    PROVE  /\ c = Null <=> Len(s) = 0
           /\ s = << >> <=> Len(s) = 0
           /\ Len(s) # 0 => 1 \in 1 .. Len(s) /\ Len(s) \in 1 .. Len(s) /\ c = s[1]
           /\ \A k \in 1 .. Len(s) : s[k] \in DOMAIN h /\ s[k] # Null
           /\ \A i \in 0 .. Len(s) : Next1(s, i) \in Pointer
<1>1. s \in Seq(DOMAIN h) /\ Len(s) \in Nat /\ (s = << >> <=> Len(s) = 0)
  BY LenProperties, EmptySeq DEF Linked
<1>2. \A k \in 1 .. Len(s) : s[k] \in DOMAIN h
  BY <1>1, ElementOfSeq
<1>3. \A k \in 1 .. Len(s) : s[k] \in DOMAIN h /\ s[k] # Null /\ s[k] \in Pointer
  BY <1>2, QueueConstants DEF IsHeap, Cells, Null, Pointer
<1>4. Len(s) # 0 => 1 \in 1 .. Len(s) /\ Len(s) \in 1 .. Len(s) /\ c = s[1]
  BY <1>1 DEF Linked
<1>5. c = Null <=> Len(s) = 0
  BY <1>1, <1>3, <1>4 DEF Linked
<1>6. \A i \in 0 .. Len(s) : Next1(s, i) \in Pointer
  <2>1. \A i \in 0 .. Len(s) : i # Len(s) => i + 1 \in 1 .. Len(s)
    BY <1>1
  <2> QED
    BY <1>3, <2>1 DEF Next1, Pointer
<1> QED
  BY <1>1, <1>3, <1>4, <1>5, <1>6

\* queue_push_tail inserts at the end.
LEMMA PushTailDoes ==
    ASSUME Intact, NEW d \in Data, PushTail(d)
    PROVE  Pushed(d, Len(Hand[0]))
<1> DEFINE s == Hand[0]
           n == Len(s)
           en == queue.entries + 1
           hd == IF queue.head = Null THEN Fresh ELSE queue.head
           f == Fresh
<1>1. f \in Cells \ DOMAIN heap
  BY FreshCell DEF PushTail
<1>2. /\ IsHeap(heap) /\ queue \in QueueType /\ n \in Nat
      /\ queue.head = Null <=> n = 0
      /\ queue.tail = IF n = 0 THEN Null ELSE s[n]
      /\ n # 0 => s[n] \in DOMAIN heap /\ s[n] # Null
  BY IntactHand, Heads DEF Ends
<1>3. heap' = With(IF queue.tail = Null THEN heap
                   ELSE [heap EXCEPT ![queue.tail].next = Fresh], d, Null)
      /\ queue' = [queue EXCEPT !.tail = f, !.entries = en, !.head = hd]
      /\ UNCHANGED <<stack, crashed>>
  BY DEF PushTail
<1>4. /\ hd \in Pointer /\ f \in Pointer /\ en \in Int
  BY <1>1, <1>2 DEF QueueType, Pointer
<1> HIDE DEF s, n, en, hd, f
<1>5. /\ queue' \in QueueType /\ queue'.head = hd /\ queue'.tail = f
      /\ queue'.entries = en /\ queue'.ref_count = queue.ref_count
  <2>1. queue' \in QueueType
    BY <1>2, <1>3, <1>4, Zenon DEF QueueType
  <2>2. /\ queue'.head = hd /\ queue'.tail = f
        /\ queue'.entries = en /\ queue'.ref_count = queue.ref_count
    BY <1>2, <1>3 DEF QueueType
  <2> QED
    BY <2>1, <2>2
<1>6. /\ heap' = [e \in DOMAIN heap' |-> heap'[e]]
      /\ Spliced(heap, heap', s, n, d, f)
  <2> DEFINE h2 == heap'
             p == queue.tail
             next == Null
  <2>1. p # Null => p \in DOMAIN heap
    BY <1>2
  <2>2. h2 = With(Pointed(heap, p, Fresh), d, next)
    BY <1>3 DEF Pointed
  <2>3. Fresh \notin DOMAIN heap
    BY <1>1 DEF f
  <2>0. IsHeap(heap)
    BY <1>2
  <2> HIDE DEF h2, p, next
  <2>4. /\ h2 = [e \in DOMAIN h2 |-> h2[e]]
        /\ DOMAIN h2 = DOMAIN heap \cup {f}
        /\ h2[f] = [data |-> d, next |-> next]
        /\ \A c \in DOMAIN heap :
              h2[c] = [data |-> heap[c].data,
                       next |-> IF p # Null /\ c = p THEN f ELSE heap[c].next]
    BY <2>0, <2>1, <2>2, <2>3, WithIs DEF f
  <2>5. \A c : (p # Null /\ c = p) <=> (n > 0 /\ c = s[n])
    BY <1>2 DEF p
  <2>6. Next1(s, n) = next
    BY DEF Next1, n, next
  <2>7. Spliced(heap, h2, s, n, d, f)
    BY <2>4, <2>5, <2>6 DEF Spliced
  <2> QED
    BY <2>4, <2>7 DEF h2
<1>7. n \in 0 .. n /\ hd = (IF n = 0 THEN f ELSE queue.head)
  BY <1>2 DEF hd, f
<1> QED
  BY <1>1, <1>3, <1>5, <1>6, <1>7, PushedBy DEF n, s, f, en

\* queue_push_head inserts at the front.
LEMMA PushHeadDoes ==
    ASSUME Intact, NEW d \in Data, PushHead(d)
    PROVE  Pushed(d, 0)
<1> DEFINE s == Hand[0]
           n == Len(s)
           en == queue.entries + 1
           tl == IF queue.tail = Null THEN Fresh ELSE queue.tail
           f == Fresh
<1>1. f \in Cells \ DOMAIN heap
  BY FreshCell DEF PushHead
<1>2. /\ IsHeap(heap) /\ queue \in QueueType /\ n \in Nat
      /\ queue.head = Null <=> n = 0
      /\ n # 0 => queue.head = s[1]
      /\ queue.tail = IF n = 0 THEN Null ELSE s[n]
      /\ n # 0 => s[n] \in DOMAIN heap /\ s[n] # Null
  BY IntactHand, Heads DEF Ends
<1>3. /\ heap' = With(heap, d, queue.head)
      /\ queue' = [queue EXCEPT !.head = f, !.entries = en, !.tail = tl]
      /\ UNCHANGED <<stack, crashed>>
  BY DEF PushHead
<1>4. /\ tl \in Pointer /\ f \in Pointer /\ en \in Int
  BY <1>1, <1>2 DEF QueueType, Pointer
<1> HIDE DEF s, n, en, tl, f
<1>5. /\ queue' \in QueueType /\ queue'.head = f /\ queue'.tail = tl
      /\ queue'.entries = en /\ queue'.ref_count = queue.ref_count
  <2>1. queue' \in QueueType
    BY <1>2, <1>3, <1>4, Zenon DEF QueueType
  <2>2. /\ queue'.head = f /\ queue'.tail = tl
        /\ queue'.entries = en /\ queue'.ref_count = queue.ref_count
    BY <1>2, <1>3 DEF QueueType
  <2> QED
    BY <2>1, <2>2
<1>6. /\ heap' = [e \in DOMAIN heap' |-> heap'[e]]
      /\ Spliced(heap, heap', s, 0, d, f)
  <2> DEFINE h2 == heap'
             p == Null
             next == queue.head
  <2>2. h2 = With(Pointed(heap, p, Fresh), d, next) /\ p = Null
    BY <1>3 DEF Pointed
  <2>3. Fresh \notin DOMAIN heap
    BY <1>1 DEF f
  <2>0. IsHeap(heap)
    BY <1>2
  <2> HIDE DEF h2, p, next
  <2>4. /\ h2 = [e \in DOMAIN h2 |-> h2[e]]
        /\ DOMAIN h2 = DOMAIN heap \cup {f}
        /\ h2[f] = [data |-> d, next |-> next]
        /\ \A c \in DOMAIN heap :
              h2[c] = [data |-> heap[c].data,
                       next |-> IF p # Null /\ c = p THEN f ELSE heap[c].next]
    BY <2>0, <2>2, <2>3, WithIs DEF f
  <2>5. \A c : (IF 0 > 0 /\ c = s[0] THEN f ELSE heap[c].next) = heap[c].next
    OBVIOUS
  <2>6. Next1(s, 0) = next
    BY <1>2 DEF Next1, n, next
  <2>7. Spliced(heap, h2, s, 0, d, f)
    BY <2>2, <2>4, <2>5, <2>6 DEF Spliced
  <2> QED
    BY <2>4, <2>7 DEF h2
<1>7. 0 \in 0 .. n /\ tl = (IF 0 = n THEN f ELSE queue.tail)
  BY <1>2 DEF tl, f
<1> QED
  BY <1>1, <1>3, <1>5, <1>6, <1>7, PushedBy DEF n, s, f, en

\* queue_push_after inserts behind the first cell with that data.
LEMMA PushAfterDoes ==
    ASSUME Intact, NEW e \in Data, NEW d \in Data, PushAfter(e, d)
    PROVE  \E i \in 1 .. Len(Hand[0]) : Found({e}, i) /\ Pushed(d, i)
<1> DEFINE s == Hand[0]
           n == Len(s)
           en == queue.entries + 1
           f == Fresh
<1>1. f \in Cells \ DOMAIN heap
  BY FreshCell DEF PushAfter
<1>2. /\ IsHeap(heap) /\ queue \in QueueType /\ n \in Nat /\ List = s
      /\ DOMAIN List = 1 .. n /\ Linked(heap, queue.head, s)
      /\ \A k \in 1 .. n : s[k] \in DOMAIN heap /\ s[k] # Null
      /\ \A i \in 1 .. n : heap[s[i]].next = Next1(s, i)
      /\ \A i \in 0 .. n : Next1(s, i) \in Pointer
  BY IntactHand, Heads DEF Linked
<1>3. PICK i \in 1 .. n :
          /\ Found({e}, i)
          /\ heap' = With([heap EXCEPT ![s[i]].next = Fresh], d, heap[s[i]].next)
          /\ queue' = [queue EXCEPT !.entries = en,
                          !.tail = IF heap[s[i]].next = Null THEN f ELSE @]
          /\ UNCHANGED <<stack, crashed>>
  BY <1>2 DEF PushAfter
<1> DEFINE tl == IF heap[s[i]].next = Null THEN f ELSE queue.tail
<1>4. /\ tl \in Pointer /\ f \in Pointer /\ en \in Int /\ queue.head \in Pointer
  BY <1>1, <1>2 DEF QueueType, Pointer
<1>5. queue' = [queue EXCEPT !.entries = en, !.tail = tl]
  BY <1>3
<1> HIDE DEF s, n, en, tl, f
<1>6. /\ queue' \in QueueType /\ queue'.head = queue.head /\ queue'.tail = tl
      /\ queue'.entries = en /\ queue'.ref_count = queue.ref_count
  <2>1. queue' \in QueueType
    BY <1>2, <1>4, <1>5, Zenon DEF QueueType
  <2>2. /\ queue'.head = queue.head /\ queue'.tail = tl
        /\ queue'.entries = en /\ queue'.ref_count = queue.ref_count
    BY <1>2, <1>5 DEF QueueType
  <2> QED
    BY <2>1, <2>2
<1>7. /\ heap' = [x \in DOMAIN heap' |-> heap'[x]]
      /\ Spliced(heap, heap', s, i, d, f)
  <2> DEFINE h2 == heap'
             p == s[i]
             next == Next1(s, i)
  <2>1. p # Null /\ p \in DOMAIN heap
    BY <1>2
  <2>2. h2 = With(Pointed(heap, p, Fresh), d, next)
    BY <1>2, <1>3, <2>1 DEF Pointed
  <2>3. Fresh \notin DOMAIN heap
    BY <1>1 DEF f
  <2>0. IsHeap(heap)
    BY <1>2
  <2> HIDE DEF h2, p, next
  <2>4. /\ h2 = [x \in DOMAIN h2 |-> h2[x]]
        /\ DOMAIN h2 = DOMAIN heap \cup {f}
        /\ h2[f] = [data |-> d, next |-> next]
        /\ \A c \in DOMAIN heap :
              h2[c] = [data |-> heap[c].data,
                       next |-> IF p # Null /\ c = p THEN f ELSE heap[c].next]
    BY <2>0, <2>1, <2>2, <2>3, WithIs DEF f
  <2>5. \A c : (p # Null /\ c = p) <=> (i > 0 /\ c = s[i])
    BY <2>1 DEF p
  <2>6. Spliced(heap, h2, s, i, d, f)
    BY <2>4, <2>5, SMTT(40) DEF Spliced, next
  <2> QED
    BY <2>4, <2>6 DEF h2
<1>8. /\ i \in 0 .. n /\ i # 0
      /\ tl = (IF i = n THEN f ELSE queue.tail)
  <2>1. i # n => i + 1 \in 1 .. n
    BY <1>2
  <2>2. Next1(s, i) = Null <=> i = n
    BY <1>2, <2>1, ZenonT(40) DEF Next1, n
  <2> QED
    BY <1>2, <2>2 DEF tl, f
<1>9. Pushed(d, i)
  BY <1>1, <1>3, <1>6, <1>7, <1>8, PushedBy DEF n, s, f, en
<1> QED
  BY <1>3, <1>9 DEF n, s

\* The i-th entry left the list and is freed
Taken(i) ==
    /\ i \in 1 .. Len(Hand[0])
    /\ Cut(heap, heap', Hand[0], i)
    /\ Memory(heap', queue', Freed(stack, Hand[0][i]),
              [Hand EXCEPT ![0] = Removed(Hand[0], i)])
    /\ queue'.ref_count = queue.ref_count

\* A step that cuts the list and sets head, tail and entries is a removal.
LEMMA TakenBy ==
    ASSUME Intact, NEW i \in 1 .. Len(Hand[0]),
           heap' = [e \in DOMAIN heap' |-> heap'[e]],
           Cut(heap, heap', Hand[0], i),
           queue' \in QueueType,
           queue'.head = (IF i = 1 THEN heap[Hand[0][1]].next ELSE queue.head),
           queue'.tail = (IF i = Len(Hand[0])
                          THEN (IF i = 1 THEN Null ELSE Hand[0][i - 1])
                          ELSE queue.tail),
           queue'.entries = queue.entries - 1,
           queue'.ref_count = queue.ref_count
    PROVE  Taken(i)
<1> DEFINE s == Hand[0]
           hd == IF i = 1 THEN heap[Hand[0][1]].next ELSE queue.head
           tl == IF i = Len(Hand[0])
                 THEN (IF i = 1 THEN Null ELSE Hand[0][i - 1]) ELSE queue.tail
           en == queue.entries - 1
           v == [queue EXCEPT !.head = hd, !.tail = tl, !.entries = en]
<1>1. /\ Memory(heap, queue, stack, Hand) /\ queue \in QueueType
      /\ hd \in Pointer /\ tl \in Pointer /\ en \in Int
  <2>1. /\ Memory(heap, queue, stack, Hand) /\ queue \in QueueType
        /\ IsHeap(heap) /\ Len(s) \in Nat
        /\ \A k \in 1 .. Len(s) : s[k] \in DOMAIN heap
    BY IntactHand
  <2>2. /\ queue.head \in Pointer /\ queue.tail \in Pointer
        /\ queue.entries \in Int
    BY <2>1 DEF QueueType
  <2>3. 1 \in 1 .. Len(s) /\ (i # 1 => i - 1 \in 1 .. Len(s))
    BY <2>1
  <2>4. heap[s[1]].next \in Pointer
    BY <2>1, <2>3, HeapCells
  <2>5. i # 1 => s[i - 1] \in Pointer
    BY <2>1, <2>3, HeapCells DEF Pointer
  <2>6. Null \in Pointer
    BY DEF Pointer
  <2> QED
    BY <2>1, <2>2, <2>4, <2>5, <2>6
<1>2. queue' = v
  <2> HIDE DEF hd, tl, en
  <2>0. v = [queue EXCEPT !.head = hd, !.tail = tl, !.entries = en]
    OBVIOUS
  <2> HIDE DEF v
  <2>1. v \in QueueType
    BY <1>1, <2>0, Zenon DEF QueueType
  <2>3. /\ v.head = hd /\ v.tail = tl
        /\ v.entries = en /\ v.ref_count = queue.ref_count
    BY <1>1, <2>0 DEF QueueType
  <2>2. queue'.head = hd /\ queue'.tail = tl /\ queue'.entries = en
    BY DEF hd, tl, en
  <2> QED
    BY <2>1, <2>2, <2>3, QueueEqual
<1>3. Memory(heap', queue', Freed(stack, s[i]), [Hand EXCEPT ![0] = Removed(s, i)])
  <2> DEFINE u == queue'
             h2 == heap'
  <2>1. u = [queue EXCEPT !.head = IF i = 1 THEN heap[Hand[0][1]].next ELSE @,
                          !.tail = IF i = Len(Hand[0])
                                   THEN (IF i = 1 THEN Null ELSE Hand[0][i - 1])
                                   ELSE @,
                          !.entries = @ - 1]
    BY <1>2
  <2>2. h2 = [e \in DOMAIN h2 |-> h2[e]] /\ Cut(heap, h2, Hand[0], i)
    OBVIOUS
  <2> HIDE DEF u, h2
  <2>3. Memory(h2, u, Freed(stack, Hand[0][i]),
               [Hand EXCEPT ![0] = Removed(Hand[0], i)])
    BY <1>1, <2>1, <2>2, MemoryRemoved
  <2> QED
    BY <2>3 DEF u, h2
<1> QED
  BY <1>3 DEF Taken

\* Unlinking as queue_remove_if does takes the i-th cell.
LEMMA UnlinkedTakes ==
    ASSUME Intact, NEW i \in 1 .. Len(Hand[0]), Unlinked(i)
    PROVE  Taken(i)
<1> DEFINE s == Hand[0]
           n == Len(s)
           x == s[i]
           prev == IF i = 1 THEN Null ELSE s[i - 1]
           next == heap[x].next
           hd == IF prev = Null THEN next ELSE queue.head
           tl == IF next = Null THEN prev ELSE queue.tail
           en == queue.entries - 1
<1>1. /\ IsHeap(heap) /\ queue \in QueueType /\ n \in Nat /\ List = s
      /\ \A k \in 1 .. n : s[k] \in DOMAIN heap /\ s[k] # Null
      /\ \A k \in 1 .. n : heap[s[k]].next = Next1(s, k)
      /\ \A k \in 0 .. n : Next1(s, k) \in Pointer
  BY IntactHand, Heads DEF Linked
<1>2. /\ heap' = Without(Pointed(heap, prev, next), x)
      /\ queue' = [queue EXCEPT !.head = hd, !.tail = tl, !.entries = en]
  BY <1>1 DEF Unlinked, Pointed
<1>3. /\ prev = Null <=> i = 1
      /\ next = Null <=> i = n
      /\ prev # Null => prev \in DOMAIN heap
      /\ next \in Pointer /\ prev \in Pointer
  <2>1. /\ i # 1 => i - 1 \in 1 .. n
        /\ i # n => i + 1 \in 1 .. n
        /\ i \in 0 .. n
    BY <1>1
  <2>2. prev = Null <=> i = 1
    BY <1>1, <2>1
  <2>3. next = Null <=> i = n
    BY <1>1, <2>1 DEF Next1
  <2>4. prev # Null => prev \in DOMAIN heap
    BY <1>1, <2>1
  <2>5. next \in Pointer
    BY <1>1, <2>1
  <2>6. prev \in Pointer
    BY <1>1, <2>4 DEF Pointer, IsHeap
  <2> QED
    BY <2>2, <2>3, <2>4, <2>5, <2>6
<1>4. hd \in Pointer /\ tl \in Pointer /\ en \in Int
  BY <1>1, <1>3 DEF QueueType
<1>5. /\ hd = (IF i = 1 THEN heap[s[1]].next ELSE queue.head)
      /\ tl = (IF i = n THEN prev ELSE queue.tail)
  BY <1>3
<1>6. \A c : (prev # Null /\ c = prev) <=> (i > 1 /\ c = s[i - 1])
  BY <1>1, <1>3
<1> HIDE DEF s, n, x, next, hd, tl, en
<1>7. /\ queue' \in QueueType /\ queue'.head = hd /\ queue'.tail = tl
      /\ queue'.entries = en /\ queue'.ref_count = queue.ref_count
  <2>1. queue' \in QueueType
    BY <1>1, <1>2, <1>4, Zenon DEF QueueType
  <2>2. /\ queue'.head = hd /\ queue'.tail = tl
        /\ queue'.entries = en /\ queue'.ref_count = queue.ref_count
    BY <1>1, <1>2 DEF QueueType
  <2> QED
    BY <2>1, <2>2
<1>8. heap' = [e \in DOMAIN heap' |-> heap'[e]] /\ Cut(heap, heap', s, i)
  <2> DEFINE h2 == heap'
  <2> HIDE DEF prev, h2
  <2>1. h2 = Without(Pointed(heap, prev, next), x)
    BY <1>2 DEF h2
  <2>2. IsHeap(heap) /\ (prev # Null => prev \in DOMAIN heap)
    BY <1>1, <1>3
  <2>3. /\ h2 = [e \in DOMAIN h2 |-> h2[e]]
        /\ DOMAIN h2 = DOMAIN heap \ {x}
        /\ \A c \in DOMAIN h2 :
              h2[c] = [data |-> heap[c].data,
                       next |-> IF prev # Null /\ c = prev THEN next
                                                           ELSE heap[c].next]
    <3>1. Dropped(heap, h2, prev, x, next)
      BY <2>1, <2>2, WithoutIs
    <3> QED
      BY <3>1 DEF Dropped
  <2>4. Cut(heap, h2, s, i)
    BY <1>6, <2>3 DEF Cut, x, next
  <2> QED
    BY <2>3, <2>4 DEF h2
<1> QED
  BY <1>5, <1>7, <1>8, TakenBy DEF s, n, en

\* queue_pop_head takes the first cell.
LEMMA PopTakes ==
    ASSUME Intact, PopHead
    PROVE  Taken(1) /\ stack' = Freed(stack, Hand[0][1])
<1> DEFINE s == Hand[0]
           n == Len(s)
           x == queue.head
           next == heap[x].next
           tl == IF next = Null THEN Null ELSE queue.tail
           en == queue.entries - 1
<1>1. /\ IsHeap(heap) /\ queue \in QueueType /\ n \in Nat
      /\ \A k \in 1 .. n : s[k] \in DOMAIN heap /\ s[k] # Null
      /\ \A k \in 1 .. n : heap[s[k]].next = Next1(s, k)
      /\ \A k \in 0 .. n : Next1(s, k) \in Pointer
      /\ x # Null => 1 \in 1 .. n /\ x = s[1]
  BY IntactHand, Heads DEF Linked
<1>2. /\ heap' = Without(Pointed(heap, Null, next), x)
      /\ queue' = [queue EXCEPT !.head = next, !.entries = en, !.tail = tl]
      /\ stack' = Freed(stack, x)
      /\ 1 \in 1 .. n /\ x = s[1]
  BY <1>1 DEF PopHead, Pointed
<1>3. (next = Null <=> 1 = n) /\ next \in Pointer
  <2>0. n \in Nat /\ 1 \in 1 .. n
    BY <1>1, <1>2
  <2>1. (1 # n => 1 + 1 \in 1 .. n) /\ 1 \in 0 .. n
    <3> HIDE DEF n
    <3> QED
      BY <2>0
  <2>3. next = Next1(s, 1)
    BY <1>1, <1>2
  <2> QED
    BY <1>1, <2>1, <2>3 DEF Next1
<1>4. tl \in Pointer /\ en \in Int /\ tl = (IF 1 = n THEN Null ELSE queue.tail)
  BY <1>1, <1>3 DEF QueueType, Pointer
<1> HIDE DEF s, n, next, tl, en
<1>7. /\ queue' \in QueueType /\ queue'.head = next /\ queue'.tail = tl
      /\ queue'.entries = en /\ queue'.ref_count = queue.ref_count
  <2>1. queue' \in QueueType
    BY <1>1, <1>2, <1>3, <1>4, Zenon DEF QueueType
  <2>2. /\ queue'.head = next /\ queue'.tail = tl
        /\ queue'.entries = en /\ queue'.ref_count = queue.ref_count
    BY <1>1, <1>2 DEF QueueType
  <2> QED
    BY <2>1, <2>2
<1>8. heap' = [e \in DOMAIN heap' |-> heap'[e]] /\ Cut(heap, heap', s, 1)
  <2> DEFINE h2 == heap'
             prev == Null
  <2>1. h2 = Without(Pointed(heap, prev, next), x)
    BY <1>2 DEF h2
  <2>2. IsHeap(heap) /\ (prev # Null => prev \in DOMAIN heap)
    BY <1>1
  <2>5. prev = Null
    OBVIOUS
  <2> HIDE DEF prev, h2
  <2>3. /\ h2 = [e \in DOMAIN h2 |-> h2[e]]
        /\ DOMAIN h2 = DOMAIN heap \ {x}
        /\ \A c \in DOMAIN h2 :
              h2[c] = [data |-> heap[c].data,
                       next |-> IF prev # Null /\ c = prev THEN next
                                                           ELSE heap[c].next]
    <3>1. Dropped(heap, h2, prev, x, next)
      BY <2>1, <2>2, WithoutIs
    <3> QED
      BY <3>1 DEF Dropped
  <2>4. Cut(heap, h2, s, 1)
    BY <1>2, <2>3, <2>5 DEF Cut
  <2> QED
    BY <2>3, <2>4 DEF h2
<1> QED
  BY <1>2, <1>4, <1>7, <1>8, TakenBy DEF s, n, en, next

\* A walk with the lists `first' and `last' for the queue and in its hand
Stacked(first, last) == StackedOn(Hand, Len(stack), first, last)

NewWalk(v, kind, at, entry, tmp, match, destroys) ==
    /\ v \in WalkType /\ v.kind = kind /\ v.at = at
    /\ v.entry = entry /\ v.wild = FALSE /\ v.tmp = tmp
    /\ v.match = match /\ v.destroys = destroys

\* The fields of a walk that begins.
LEMMA WalkIs ==
    ASSUME NEW kind \in {"foreach", "drain", "filter"}, NEW at \in Data,
           NEW entry \in Pointer, NEW match \in SUBSET Data,
           NEW destroys \in BOOLEAN
    PROVE  NewWalk(Walk(kind, at, entry, match, destroys),
                   kind, at, entry, Null, match, destroys)
<1>1. Null \in Pointer
  BY DEF Pointer
<1>2. Walk(kind, at, entry, match, destroys) \in WalkType
  BY <1>1 DEF Walk, WalkType
<1> QED
  BY <1>2 DEF Walk, NewWalk

\* The same for one that keeps the cell in `tmp'.
LEMMA WalkWithTmp ==
    ASSUME NEW v, NEW kind, NEW at, NEW entry, NEW tmp, NEW match, NEW destroys,
           NewWalk(v, kind, at, entry, Null, match, destroys), tmp \in Pointer
    PROVE  NewWalk([v EXCEPT !.tmp = tmp], kind, at, entry, tmp, match, destroys)
<1> DEFINE w == [v EXCEPT !.tmp = tmp]
<1>0. v \in WalkType
  BY DEF NewWalk
<1>1. w \in WalkType
  BY <1>0, Zenon DEF WalkType
<1>2. /\ w.kind = v.kind /\ w.at = v.at /\ w.entry = v.entry
      /\ w.tmp = tmp /\ w.match = v.match
  BY <1>0 DEF WalkType
<1>3. w.wild = v.wild /\ w.destroys = v.destroys
  BY <1>0, Zenon DEF WalkType
<1> HIDE DEF w
<1>4. NewWalk(w, kind, at, entry, tmp, match, destroys)
  BY <1>1, <1>2, <1>3, Zenon DEF NewWalk
<1> QED
  BY <1>4 DEF w

\* Nothing is linked from Null.
LEMMA NoLinks ==
    ASSUME NEW h
    PROVE  Linked(h, Null, << >>) /\ \A c : ~InList(c, << >>)
BY DEF Linked, InList

\* queue_foreach leaves the list as it is and stands at its first cell.
LEMMA ForeachDoes ==
    ASSUME Intact, Foreach
    PROVE  \E w : /\ 1 \in 1 .. Len(Hand[0])
                  /\ NewWalk(w, "foreach", heap[Hand[0][1]].data, Next1(Hand[0], 1),
                             Null, {}, FALSE)
                  /\ stack' = Append(stack, w)
                  /\ Memory(heap', queue', stack', Stacked(Hand[0], << >>))
<1> DEFINE s == Hand[0]
           n == Len(s)
           x == queue.head
           w == Walk("foreach", heap[s[1]].data, Next1(s, 1), {}, FALSE)
           u == [queue EXCEPT !.ref_count = @ + 1]
<1>1. /\ Memory(heap, queue, stack, Hand) /\ Linked(heap, x, s)
      /\ IsHeap(heap) /\ queue \in QueueType /\ n \in Nat /\ Ends(queue, s)
      /\ \A k \in 1 .. n : s[k] \in DOMAIN heap /\ s[k] # Null
      /\ \A k \in 1 .. n : heap[s[k]].next = Next1(s, k)
      /\ \A k \in 0 .. n : Next1(s, k) \in Pointer
      /\ x # Null => 1 \in 1 .. n /\ x = s[1]
  BY IntactHand, Heads DEF Linked
<1>2. 1 \in 1 .. n /\ x = s[1] /\ heap[x].next = Next1(s, 1) /\ 1 \in 0 .. n
  BY <1>1 DEF Foreach
<1>3. stack' = Append(stack, w) /\ queue' = u /\ heap' = heap
  BY <1>2 DEF Foreach
<1>4. heap[s[1]].data \in Data /\ Next1(s, 1) \in Pointer
  BY <1>1, <1>2, HeapCells
<1>5. /\ NewWalk(w, "foreach", heap[s[1]].data, Next1(s, 1), Null, {}, FALSE)
      /\ w \in WalkType /\ w.kind = "foreach" /\ w.entry = Next1(s, 1)
      /\ w.tmp = Null
  <2> DEFINE at == heap[s[1]].data
             entry == Next1(s, 1)
             none == {}
             no == FALSE
             v == Walk("foreach", at, entry, none, no)
  <2>1. /\ at \in Data /\ entry \in Pointer /\ none \in SUBSET Data
        /\ no \in BOOLEAN
    BY <1>4
  <2> HIDE DEF at, entry, none, no
  <2>2. NewWalk(v, "foreach", at, entry, Null, none, no)
    BY <2>1, WalkIs
  <2>3. v \in WalkType /\ v.kind = "foreach" /\ v.entry = entry /\ v.tmp = Null
    BY <2>2 DEF NewWalk
  <2> QED
    BY <2>2, <2>3 DEF at, entry, none, no
<1>6. Memory(heap, u, stack, Hand) /\ u \in QueueType
  <2>1. queue.ref_count + 1 \in Int
    BY <1>1 DEF QueueType
  <2>2. Memory(heap, u, stack, Hand)
    BY <1>1, <2>1, MemoryCounted
  <2> QED
    BY <2>2 DEF Memory, Types
<1>7. u.head = x /\ u.tail = queue.tail /\ u.entries = queue.entries
  BY <1>1 DEF QueueType
<1>8. w.entry # Null => InList(w.entry, s)
  <2> SUFFICES ASSUME w.entry # Null PROVE InList(w.entry, s)
    OBVIOUS
  <2>1. n # 1 /\ Next1(s, 1) = s[1 + 1]
    BY <1>5 DEF Next1
  <2>2. 1 + 1 \in 1 .. n
    <3>1. \A m \in Nat : 1 \in 1 .. m /\ m # 1 => 1 + 1 \in 1 .. m
      OBVIOUS
    <3> HIDE DEF n
    <3> QED
      BY <1>1, <1>2, <2>1, <3>1
  <2> QED
    BY <1>5, <2>1, <2>2 DEF InList
<1> HIDE DEF n, w, u, x
<1> HIDE DEF s
<1>9. Linked(heap, u.head, s) /\ Ends(u, s)
  BY <1>1, <1>7 DEF Ends
<1>10. Linked(heap, IF w.kind = "drain" THEN w.tmp ELSE Null, << >>)
  BY <1>5, NoLinks
<1>11. Memory(heap, u, Append(stack, w), Stacked(s, << >>))
  <2> DEFINE last == << >>
  <2>1. Linked(heap, IF w.kind = "drain" THEN w.tmp ELSE Null, last)
    BY <1>10
  <2>2. \A c : ~InList(c, last)
    BY NoLinks
  <2> HIDE DEF last
  <2>3. /\ \A c : InList(c, Hand[0]) <=> InList(c, s) \/ InList(c, last)
        /\ \A c : ~(InList(c, s) /\ InList(c, last))
    BY <2>2 DEF s
  <2>4. /\ w.kind = "drain" => w.tmp # Null /\ w.entry = heap[w.tmp].next
        /\ w.kind = "foreach" /\ ~w.wild /\ w.entry # Null =>
               InList(w.entry, s)
    BY <1>5, <1>8
  <2>5. Memory(heap, u, Append(stack, w), Stacked(s, last))
    BY <1>5, <1>6, <1>9, <2>1, <2>3, <2>4, MemoryPushed DEF Stacked
  <2> QED
    BY <2>5 DEF last
<1> QED
  BY <1>2, <1>3, <1>5, <1>11 DEF s, n, w

\* queue_remove_all without a match takes the list off the queue.
LEMMA DrainDoes ==
    ASSUME Intact, NEW destroys \in BOOLEAN, Drain(destroys), queue.head # Null
    PROVE  \E w : /\ 1 \in 1 .. Len(Hand[0])
                  /\ NewWalk(w, "drain", heap[Hand[0][1]].data, Next1(Hand[0], 1),
                             Hand[0][1], {}, destroys)
                  /\ stack' = Append(stack, w)
                  /\ Memory(heap', queue', stack', Stacked(<< >>, Hand[0]))
<1> DEFINE s == Hand[0]
           n == Len(s)
           x == queue.head
           w == [Walk("drain", heap[s[1]].data, Next1(s, 1), {}, destroys)
                     EXCEPT !.tmp = s[1]]
           u == [queue EXCEPT !.head = Null, !.tail = Null, !.entries = 0]
<1>1. /\ Memory(heap, queue, stack, Hand) /\ Linked(heap, x, s)
      /\ IsHeap(heap) /\ queue \in QueueType /\ n \in Nat
      /\ \A k \in 1 .. n : s[k] \in DOMAIN heap /\ s[k] # Null
      /\ \A k \in 1 .. n : heap[s[k]].next = Next1(s, k)
      /\ \A k \in 0 .. n : Next1(s, k) \in Pointer
      /\ x # Null => 1 \in 1 .. n /\ x = s[1]
  BY IntactHand, Heads DEF Linked
<1>2. /\ 1 \in 1 .. n /\ x = s[1] /\ heap[x].next = Next1(s, 1) /\ 1 \in 0 .. n
      /\ x # Null
  BY <1>1
<1>3. stack' = Append(stack, w) /\ queue' = u /\ heap' = heap
  BY <1>2 DEF Drain
<1>4. /\ heap[s[1]].data \in Data /\ Next1(s, 1) \in Pointer
      /\ s[1] \in Pointer
  BY <1>1, <1>2, HeapCells DEF Pointer
<1>5. /\ NewWalk(w, "drain", heap[s[1]].data, Next1(s, 1), s[1], {}, destroys)
      /\ w \in WalkType /\ w.kind = "drain" /\ w.entry = Next1(s, 1)
      /\ w.tmp = s[1]
  <2> DEFINE at == heap[s[1]].data
             entry == Next1(s, 1)
             tmp == s[1]
             none == {}
             y == Walk("drain", at, entry, none, destroys)
             v == [y EXCEPT !.tmp = tmp]
  <2>1. /\ at \in Data /\ entry \in Pointer /\ none \in SUBSET Data
        /\ tmp \in Pointer
    BY <1>4
  <2> HIDE DEF at, entry, none, tmp
  <2>2. NewWalk(y, "drain", at, entry, Null, none, destroys)
    BY <2>1, WalkIs
  <2> HIDE DEF y
  <2>4. NewWalk(v, "drain", at, entry, tmp, none, destroys)
    BY <2>1, <2>2, WalkWithTmp
  <2>3. v \in WalkType /\ v.kind = "drain" /\ v.entry = entry /\ v.tmp = tmp
    BY <2>4 DEF NewWalk
  <2> QED
    BY <2>3, <2>4 DEF at, entry, none, tmp, y
<1>6. u \in QueueType /\ u.head = Null /\ u.tail = Null /\ u.entries = 0
  <2>1. Null \in Pointer /\ 0 \in Int
    BY DEF Pointer
  <2>2. u \in QueueType
    BY <1>1, <2>1, Zenon DEF QueueType
  <2>3. u.head = Null /\ u.tail = Null /\ u.entries = 0
    BY <1>1 DEF QueueType
  <2> QED
    BY <2>2, <2>3
<1> HIDE DEF s, n, w, u
<1>7. Memory(heap, u, Append(stack, w), Stacked(<< >>, s))
  <2> DEFINE first == << >>
  <2>1. Linked(heap, u.head, first) /\ Ends(u, first)
    BY <1>6, NoLinks DEF Ends
  <2>2. \A c : ~InList(c, first)
    BY NoLinks
  <2> HIDE DEF first
  <2>3. /\ \A c : InList(c, Hand[0]) <=> InList(c, first) \/ InList(c, s)
        /\ \A c : ~(InList(c, first) /\ InList(c, s))
    BY <2>2 DEF s
  <2>4. /\ w.kind = "drain" => w.tmp # Null /\ w.entry = heap[w.tmp].next
        /\ w.kind = "foreach" /\ ~w.wild /\ w.entry # Null =>
               InList(w.entry, first)
    BY <1>2, <1>5
  <2>5. Linked(heap, IF w.kind = "drain" THEN w.tmp ELSE Null, s)
    BY <1>1, <1>2, <1>5
  <2>6. Memory(heap, u, Append(stack, w), Stacked(first, s))
    BY <1>1, <1>5, <1>6, <2>1, <2>3, <2>4, <2>5, MemoryPushed DEF Stacked
  <2> QED
    BY <2>6 DEF first
<1> QED
  BY <1>2, <1>3, <1>5, <1>7 DEF s, n, w

\* queue_remove_all with a match takes the first cell that matches.
LEMMA FilterDoes ==
    ASSUME Intact, NEW S \in SUBSET Data, Filter(S)
    PROVE  \E i \in 1 .. Len(Hand[0]) : \E w :
              /\ Found(S, i) /\ Taken(i)
              /\ NewWalk(w, "filter", heap[Hand[0][i]].data, Null, Null, S, FALSE)
              /\ stack' = Append(Freed(stack, Hand[0][i]), w)
              /\ Memory(heap', queue', stack', Stacked(Removed(Hand[0], i), << >>))
<1> DEFINE s == Hand[0]
           n == Len(stack)
<1>1. /\ Memory(heap, queue, stack, Hand) /\ List = s
      /\ IsHeap(heap) /\ stack \in Seq(WalkType) /\ DOMAIN List = 1 .. Len(s)
      /\ \A k \in 1 .. Len(s) : s[k] \in DOMAIN heap
  BY IntactHand
<1>2. PICK i \in 1 .. Len(s) :
          /\ Found(S, i) /\ Unlinked(i)
          /\ stack' = Append(Freed(stack, s[i]),
                             Walk("filter", heap[s[i]].data, Null, S, FALSE))
  BY <1>1 DEF Filter
<1> DEFINE w == Walk("filter", heap[s[i]].data, Null, S, FALSE)
           r == Removed(s, i)
           M == [Hand EXCEPT ![0] = r]
           t == Freed(stack, s[i])
<1>3. Taken(i)
  BY <1>1, <1>2, UnlinkedTakes
<1>4. NewWalk(w, "filter", heap[s[i]].data, Null, Null, S, FALSE)
  <2> DEFINE at == heap[s[i]].data
             no == FALSE
             v == Walk("filter", at, Null, S, no)
  <2>1. at \in Data /\ Null \in Pointer /\ S \in SUBSET Data /\ no \in BOOLEAN
    BY <1>1, HeapCells DEF Pointer
  <2> HIDE DEF at, no
  <2>2. NewWalk(v, "filter", at, Null, Null, S, no)
    BY <2>1, WalkIs
  <2> QED
    BY <2>2 DEF at, no
<1>5. w \in WalkType /\ w.kind = "filter"
  <2> HIDE DEF w
  <2> QED
    BY <1>4 DEF NewWalk
<1>6. Memory(heap', queue', t, M)
  BY <1>3 DEF Taken
<1>7. /\ t \in Seq(WalkType) /\ Len(t) = n /\ n \in Nat /\ 0 \in 0 .. n
      /\ DOMAIN Hand = 0 .. n
  <2>1. t \in Seq(WalkType) /\ Len(t) = n
    BY <1>1, FreedWalks
  <2> HIDE DEF t
  <2> QED
    BY <1>1, <2>1, LenProperties DEF Memory, Lists
<1>8. M[0] = r /\ \A j \in 1 .. n : M[j] = Hand[j]
  BY <1>7
<1> HIDE DEF w, r, M, t, n
<1>9. /\ Linked(heap', queue'.head, r) /\ Ends(queue', r)
      /\ queue' \in QueueType
  BY <1>6, <1>7, <1>8, MemoryLinks DEF Begin, Memory, Types
<1>10. Memory(heap', queue', Append(t, w), StackedOn(M, n, r, << >>))
  <2> DEFINE last == << >>
             h2 == heap'
             u == queue'
  <2>1. Linked(h2, IF w.kind = "drain" THEN w.tmp ELSE Null, last)
    BY <1>5, NoLinks
  <2>2. \A c : ~InList(c, last)
    BY NoLinks
  <2> HIDE DEF last
  <2>3. /\ \A c : InList(c, M[0]) <=> InList(c, r) \/ InList(c, last)
        /\ \A c : ~(InList(c, r) /\ InList(c, last))
    BY <1>8, <2>2
  <2>4. /\ w.kind = "drain" => w.tmp # Null /\ w.entry = h2[w.tmp].next
        /\ w.kind = "foreach" /\ ~w.wild /\ w.entry # Null =>
               InList(w.entry, r)
    BY <1>5
  <2>5. /\ Memory(h2, u, t, M) /\ Linked(h2, u.head, r) /\ Ends(u, r)
        /\ u \in QueueType
    BY <1>6, <1>9
  <2> HIDE DEF h2, u
  <2>6. Memory(h2, u, Append(t, w), StackedOn(M, Len(t), r, last))
    BY <1>5, <2>1, <2>3, <2>4, <2>5, MemoryPushed
  <2> QED
    BY <1>7, <2>6 DEF last, h2, u
<1>11. StackedOn(M, n, r, << >>) = StackedOn(Hand, n, r, << >>)
  <2>1. \A j \in 0 .. n + 1 : j # 0 /\ j # n + 1 => j \in 1 .. n
    BY <1>7
  <2> QED
    BY <1>8, <2>1 DEF StackedOn
<1> QED
  BY <1>2, <1>3, <1>4, <1>10, <1>11 DEF Stacked, r, t, w, n

\* A walk of which something is changed
Changed(v, w, at, entry, tmp) ==
    /\ v \in WalkType /\ v.at = at /\ v.entry = entry /\ v.tmp = tmp
    /\ v.kind = w.kind /\ v.match = w.match /\ v.wild = w.wild
    /\ v.destroys = w.destroys

\* A walk with some fields set keeps the others.
LEMMA ChangedIs ==
    ASSUME NEW w \in WalkType, NEW at \in Data, NEW entry \in Pointer,
           NEW tmp \in Pointer
    PROVE  /\ Changed([w EXCEPT !.at = at], w, at, w.entry, w.tmp)
           /\ Changed([w EXCEPT !.at = at, !.entry = entry], w, at, entry, w.tmp)
           /\ Changed([w EXCEPT !.at = at, !.tmp = tmp, !.entry = entry],
                      w, at, entry, tmp)
<1> DEFINE u == [w EXCEPT !.at = at]
           v == [w EXCEPT !.at = at, !.entry = entry]
           t == [w EXCEPT !.at = at, !.tmp = tmp, !.entry = entry]
<1>1. u \in WalkType /\ v \in WalkType /\ t \in WalkType
  BY Zenon DEF WalkType
<1>2. /\ u.at = at /\ u.entry = w.entry /\ u.tmp = w.tmp /\ u.kind = w.kind
      /\ u.match = w.match
  BY DEF WalkType
<1>3. /\ v.at = at /\ v.entry = entry /\ v.tmp = w.tmp /\ v.kind = w.kind
      /\ v.match = w.match
  BY DEF WalkType
<1>4. /\ t.at = at /\ t.entry = entry /\ t.tmp = tmp /\ t.kind = w.kind
      /\ t.match = w.match
  BY DEF WalkType
<1>5. /\ u.wild = w.wild /\ u.destroys = w.destroys
      /\ v.wild = w.wild /\ v.destroys = w.destroys
      /\ t.wild = w.wild /\ t.destroys = w.destroys
  BY Zenon DEF WalkType
<1> HIDE DEF u, v, t
<1>6. /\ Changed(u, w, at, w.entry, w.tmp) /\ Changed(v, w, at, entry, w.tmp)
      /\ Changed(t, w, at, entry, tmp)
  BY <1>1, <1>2, <1>3, <1>4, <1>5, ZenonT(60) DEF Changed
<1> QED
  BY <1>6 DEF u, v, t

\* Only the last walk is changed
LastChanged(t, st, at, entry, tmp) ==
    /\ t \in Seq(WalkType) /\ Len(t) = Len(st)
    /\ \A i \in 1 .. Len(st) : i # Len(st) => t[i] = st[i]
    /\ Changed(t[Len(st)], st[Len(st)], at, entry, tmp)

\* Changing the top of the stack leaves the walks below as they are.
LEMMA LastChangedIs ==
    ASSUME NEW st \in Seq(WalkType), st # << >>, NEW w \in WalkType,
           NEW at, NEW entry, NEW tmp,
           Changed(w, st[Len(st)], at, entry, tmp)
    PROVE  LastChanged([st EXCEPT ![Len(st)] = w], st, at, entry, tmp)
<1> DEFINE n == Len(st)
           t == [st EXCEPT ![n] = w]
<1>1. n \in Nat /\ n # 0 /\ DOMAIN st = 1 .. n /\ n \in 1 .. n
  BY LenProperties, EmptySeq
<1>2. /\ t \in Seq(WalkType) /\ Len(t) = n
      /\ \A i \in 1 .. n : t[i] = IF i = n THEN w ELSE st[i]
  BY <1>1, ExceptSeq
<1> HIDE DEF t
<1> QED
  BY <1>1, <1>2 DEF LastChanged, t

\* The top of a stack that is not empty.
LEMMA TopIs ==
    ASSUME Intact, stack # << >>
    PROVE  /\ Len(stack) \in 1 .. Len(stack) /\ Top \in WalkType
           /\ Top = stack[Len(stack)] /\ Len(stack) # 0 /\ Len(stack) \in Nat
           /\ DOMAIN stack = 1 .. Len(stack)
<1>1. stack \in Seq(WalkType)
  BY IntactHand
<1>2. Len(stack) \in Nat /\ Len(stack) # 0 /\ DOMAIN stack = 1 .. Len(stack)
  BY <1>1, LenProperties, EmptySeq
<1>3. Len(stack) \in 1 .. Len(stack)
  BY <1>2
<1>4. stack[Len(stack)] \in WalkType
  BY <1>1, <1>3, ElementOfSeq
<1> QED
  BY <1>2, <1>3, <1>4 DEF Top

\* queue_foreach goes on with the entry it has kept, which is in the list
LEMMA VisitGoesOn ==
    ASSUME Intact, VisitNext, GoesOn, ~Top.wild
    PROVE  \E k \in 1 .. Len(Hand[0]) :
              /\ Top.entry = Hand[0][k]
              /\ LastChanged(stack', stack, heap[Hand[0][k]].data,
                             Next1(Hand[0], k), Top.tmp)
              /\ Memory(heap', queue', stack', Hand)
              /\ UNCHANGED <<heap, queue, crashed>>
<1> DEFINE s == Hand[0]
           n == Len(stack)
<1>1. /\ Memory(heap, queue, stack, Hand)
      /\ IsHeap(heap) /\ stack \in Seq(WalkType) /\ Len(s) \in Nat
      /\ \A k \in 1 .. Len(s) : s[k] \in DOMAIN heap
      /\ \A k \in 1 .. Len(s) : heap[s[k]].next = Next1(s, k)
      /\ \A k \in 0 .. Len(s) : Next1(s, k) \in Pointer
  BY IntactHand, Heads DEF Linked
<1>2. /\ stack # << >> /\ Top.kind = "foreach" /\ Top.entry # Null
      /\ UNCHANGED <<heap, queue, crashed>>
      /\ stack' = [stack EXCEPT ![n].at = heap[Top.entry].data,
                                ![n].entry = heap[Top.entry].next]
  BY DEF VisitNext, GoesOn
<1>3. /\ n \in 1 .. n /\ Top \in WalkType /\ Top = stack[n] /\ n # 0 /\ n \in Nat
      /\ DOMAIN stack = 1 .. n
  BY <1>2, TopIs
<1>4. PICK k \in 1 .. Len(s) : s[k] = Top.entry
  <2>1. PICK j \in 0 .. n : (j = 0 \/ j > n) /\ InList(Top.entry, Hand[j])
    BY <1>1, <1>2, <1>3 DEF Memory, Hands, Reached
  <2>2. j = 0
    BY <1>3, <2>1
  <2> QED
    BY <2>1, <2>2 DEF InList
<1> DEFINE at == heap[s[k]].data
           next == Next1(s, k)
           w == [stack[n] EXCEPT !.at = at, !.entry = next]
<1>5. at \in Data /\ next \in Pointer
  BY <1>1, HeapCells
<1>6. stack' = [stack EXCEPT ![n] = w]
  BY <1>1, <1>2, <1>3, <1>4
<1>7. Changed(w, stack[n], at, next, Top.tmp)
  <2> HIDE DEF at, next
  <2>1. Top.tmp \in Pointer
    BY <1>3, WalkFields
  <2> QED
    BY <1>3, <1>5, <2>1, ChangedIs
<1> HIDE DEF w, at, next, n
<1>8. LastChanged(stack', stack, at, next, Top.tmp)
  <2>1. w \in WalkType
    BY <1>7 DEF Changed
  <2> DEFINE tmp == Top.tmp
  <2>2. Changed(w, stack[Len(stack)], at, next, tmp)
    BY <1>7 DEF n
  <2> HIDE DEF tmp
  <2>3. LastChanged([stack EXCEPT ![Len(stack)] = w], stack, at, next, tmp)
    BY <1>1, <1>2, <2>1, <2>2, LastChangedIs
  <2> QED
    BY <1>6, <2>3 DEF n, tmp
<1>9. next # Null => InList(next, s)
  <2> SUFFICES ASSUME next # Null PROVE InList(next, s)
    OBVIOUS
  <2>1. k # Len(s) /\ next = s[k + 1]
    BY DEF next, Next1
  <2>2. k + 1 \in 1 .. Len(s)
    <3>1. \A m \in Nat : \A i \in 1 .. m : i # m => i + 1 \in 1 .. m
      OBVIOUS
    <3> HIDE DEF s
    <3> QED
      BY <1>1, <2>1, <3>1
  <2> QED
    BY <2>1, <2>2 DEF InList
<1>10. Memory(heap, queue, stack', Hand)
  <2> DEFINE t == stack'
  <2>1. /\ t \in Seq(WalkType) /\ Len(t) = Len(stack)
        /\ \A i \in 1 .. Len(stack) : i # Len(stack) => t[i] = stack[i]
        /\ t[Len(stack)].kind = "foreach" /\ stack[Len(stack)].kind = "foreach"
        /\ t[Len(stack)].entry = next
    BY <1>2, <1>3, <1>8 DEF LastChanged, Changed, n
  <2> HIDE DEF t
  <2>2. Memory(heap, queue, t, Hand)
    BY <1>1, <1>2, <1>9, <2>1, MemoryTop DEF s
  <2> QED
    BY <2>2 DEF t
<1>11. Memory(heap', queue', stack', Hand)
  BY <1>2, <1>10
<1> QED
  BY <1>2, <1>4, <1>8, <1>11 DEF at, next

\* A walk that has nothing in its hand ends
Ended(L) == [i \in 0 .. Len(stack) - 1 |-> L[i]]

\* The walks below the top.
LEMMA OthersAre ==
    ASSUME Intact, stack # << >>
    PROVE  /\ Others \in Seq(WalkType) /\ Len(Others) = Len(stack) - 1
           /\ \A i \in 1 .. Len(stack) - 1 : Others[i] = stack[i]
<1>1. Len(stack) \in Nat /\ Len(stack) # 0 /\ stack \in Seq(WalkType)
  BY TopIs, IntactHand
<1>2. \A i \in 1 .. Len(stack) - 1 : i \in 1 .. Len(stack)
  BY <1>1
<1>3. \A i \in 1 .. Len(stack) - 1 : stack[i] \in WalkType
  BY <1>1, <1>2, ElementOfSeq
<1> DEFINE n == Len(stack)
<1>4. n - 1 \in Nat /\ 1 \in Int
  BY <1>1
<1> HIDE DEF n
<1>5. /\ SubSeq(stack, 1, n - 1) \in Seq(WalkType)
      /\ Len(SubSeq(stack, 1, n - 1)) = n - 1
      /\ \A i \in 1 .. n - 1 : SubSeq(stack, 1, n - 1)[i] = stack[i]
  <2> DEFINE m == n - 1
  <2>1. m \in Nat /\ \A i \in 1 .. m : stack[i] \in WalkType
    BY <1>3, <1>4 DEF n
  <2> HIDE DEF m
  <2>2. m - 1 + 1 = m /\ (1 <= m + 1) /\ \A i \in Int : 1 + i - 1 = i
    BY <2>1
  <2>3. /\ SubSeq(stack, 1, m) \in Seq(WalkType) /\ Len(SubSeq(stack, 1, m)) = m
        /\ \A i \in 1 .. m : SubSeq(stack, 1, m)[i] = stack[i]
    BY <2>1, <2>2, SubSeqProperties
  <2> QED
    BY <2>3 DEF m
<1> QED
  BY <1>5 DEF Others, n

\* A queue_foreach that ends drops its reference and nothing else.
LEMMA VisitEnds ==
    ASSUME Intact, VisitNext, ~GoesOn
    PROVE  /\ stack # << >> /\ Top.kind = "foreach"
           /\ stack' = Others /\ queue'.ref_count = queue.ref_count - 1
           /\ Memory(heap', queue', stack', Ended(Hand))
           /\ UNCHANGED <<heap, crashed>>
           /\ queue'.head = queue.head
<1>1. /\ Memory(heap, queue, stack, Hand) /\ queue \in QueueType
  BY IntactHand
<1>2. /\ stack # << >> /\ Top.kind = "foreach"
      /\ UNCHANGED <<heap, crashed>>
      /\ stack' = Others
      /\ queue' = [queue EXCEPT !.ref_count = @ - 1]
  BY DEF VisitNext, Unref
<1>3. /\ queue'.ref_count = queue.ref_count - 1 /\ queue'.head = queue.head
      /\ queue.ref_count - 1 \in Int
  BY <1>1, <1>2 DEF QueueType
<1>4. Memory(heap, queue, Others, Ended(Hand))
  BY <1>1, <1>2, MemoryPopped DEF Others, Ended, Top
<1>5. Memory(heap, queue', Others, Ended(Hand))
  BY <1>2, <1>3, <1>4, MemoryCounted
<1> QED
  BY <1>2, <1>3, <1>5

\* A queue_remove_all with a match that ends changes no memory.
LEMMA FilterEnds ==
    ASSUME Intact, stack # << >>, Top.kind = "filter", stack' = Others,
           UNCHANGED <<heap, queue>>
    PROVE  Memory(heap', queue', stack', Ended(Hand))
<1>1. Memory(heap, queue, stack, Hand)
  BY IntactHand
<1>2. Memory(heap, queue, Others, Ended(Hand))
  BY <1>1, MemoryPopped DEF Others, Ended, Top
<1> QED
  BY <1>2

\* What a queue_remove_all has in its hand
LEMMA DrainHand ==
    ASSUME NEW h, NEW qu, NEW st, NEW L, Memory(h, qu, st, L),
           NEW i \in 1 .. Len(st), st[i].kind = "drain"
    PROVE  /\ Linked(h, st[i].tmp, L[i]) /\ L[i] \in Seq(DOMAIN h)
           /\ 1 \in 1 .. Len(L[i]) /\ Len(L[i]) \in Nat
           /\ st[i].tmp = L[i][1] /\ st[i].tmp \in DOMAIN h
           /\ st[i].entry = Next1(L[i], 1)
           /\ st[i].entry = Null <=> Len(L[i]) = 1
           /\ st[i].entry # Null => st[i].entry \in DOMAIN h
<1> DEFINE s == L[i]
           x == st[i].tmp
           n == Len(s)
<1>1. i \in 0 .. Len(st) /\ i # 0 /\ IsHeap(h)
  <2>1. Len(st) \in Nat
    BY NoWalks DEF Memory, Types
  <2> QED
    BY <2>1 DEF Memory, Types
<1>2. Linked(h, x, s) /\ s \in Seq(DOMAIN h) /\ n \in Nat
  <2>1. Begin(qu, st, i) = x
    BY <1>1 DEF Begin
  <2>2. /\ Linked(h, Begin(qu, st, i), s) /\ s \in Seq(DOMAIN h) /\ n \in Nat
    BY <1>1, MemoryLinks
  <2> QED
    BY <2>1, <2>2
<1>3. x # Null /\ st[i].entry = h[x].next
  BY DEF Memory, Hands
<1> HIDE DEF s, x, n
<1>4. /\ x = Null <=> n = 0
      /\ n # 0 => 1 \in 1 .. n /\ x = s[1]
      /\ \A k \in 1 .. n : s[k] \in DOMAIN h /\ s[k] # Null
  BY <1>1, <1>2, Heads DEF n
<1>5. 1 \in 1 .. n /\ x = s[1] /\ x \in DOMAIN h
  BY <1>3, <1>4
<1>6. h[x].next = Next1(s, 1)
  BY <1>2, <1>5 DEF Linked, n
<1>7. n # 1 => 1 + 1 \in 1 .. n
  BY <1>2, <1>5
<1>8. Next1(s, 1) = Null <=> n = 1
  BY <1>4, <1>7 DEF Next1, n
<1>9. Next1(s, 1) # Null => Next1(s, 1) \in DOMAIN h
  BY <1>4, <1>7, <1>8 DEF Next1, n
<1> QED
  BY <1>2, <1>3, <1>5, <1>6, <1>8, <1>9 DEF s, x, n

Drained(m) == DrainedOn(Hand, Len(stack), m)

\* What DrainNext frees is the first cell of its list.
LEMMA FreesIs ==
    ASSUME Intact, stack # << >>, Top.kind = "drain",
           heap' = Without(heap, Top.tmp)
    PROVE  /\ Frees(heap, heap', stack[Len(stack)].tmp)
           /\ Memory(heap, queue, stack, Hand)
           /\ stack[Len(stack)].kind = "drain"
           /\ Top = stack[Len(stack)]
<1>1. Top = stack[Len(stack)] /\ Memory(heap, queue, stack, Hand)
  BY TopIs, IntactHand
<1> DEFINE h2 == heap'
           x == Top.tmp
<1>2. h2 = [e \in DOMAIN heap \ {x} |-> heap[e]]
  BY DEF Without
<1> HIDE DEF h2, x
<1>3. Frees(heap, h2, x)
  BY <1>2 DEF Frees
<1> QED
  BY <1>1, <1>3 DEF h2, x

\* The lists when the cell at hand is freed
LEMMA DrainedLists ==
    ASSUME Intact, stack # << >>, Top.kind = "drain",
           heap' = Without(heap, Top.tmp),
           NEW t \in Seq(WalkType), Behind(t, stack, Top.tmp),
           HandsNext(heap, stack, t)
    PROVE  Memory(heap', queue, t, Drained(Len(t)))
<1> DEFINE h2 == heap'
<1>1. /\ Frees(heap, h2, stack[Len(stack)].tmp)
      /\ Memory(heap, queue, stack, Hand)
      /\ stack[Len(stack)].kind = "drain"
      /\ Top = stack[Len(stack)]
  BY FreesIs
<1>2. Behind(t, stack, stack[Len(stack)].tmp)
  BY <1>1
<1> HIDE DEF h2
<1>3. Memory(h2, queue, t, DrainedOn(Hand, Len(stack), Len(t)))
  BY <1>1, <1>2, MemoryDrained
<1> QED
  BY <1>3 DEF h2, Drained

\* Freeing it makes no other difference to the walks below.
LEMMA FreedBehind ==
    ASSUME NEW st, NEW v \in Seq(WalkType), NEW x, Len(st) \in Nat,
           Len(v) \in {Len(st) - 1, Len(st)},
           \A i \in 1 .. Len(st) - 1 : v[i] = st[i]
    PROVE  Behind(Freed(v, x), st, x)
<1> SUFFICES ASSUME NEW i \in 1 .. Len(st) - 1
             PROVE  /\ Freed(v, x)[i].kind = st[i].kind
                    /\ Freed(v, x)[i].at = st[i].at
                    /\ Freed(v, x)[i].entry = st[i].entry
                    /\ Freed(v, x)[i].tmp = st[i].tmp
                    /\ Freed(v, x)[i].match = st[i].match
                    /\ Freed(v, x)[i].destroys = st[i].destroys
                    /\ Freed(v, x)[i].wild <=> st[i].wild \/ st[i].entry = x
  BY DEF Behind
<1>1. v[i] = st[i] /\ i \in 1 .. Len(v)
  OBVIOUS
<1>2. /\ Freed(v, x)[i].wild <=> v[i].wild \/ v[i].entry = x
      /\ Freed(v, x)[i].kind = v[i].kind
      /\ Freed(v, x)[i].at = v[i].at
      /\ Freed(v, x)[i].entry = v[i].entry
      /\ Freed(v, x)[i].tmp = v[i].tmp
      /\ Freed(v, x)[i].match = v[i].match
      /\ Freed(v, x)[i].destroys = v[i].destroys
  BY <1>1, FreedView
<1> QED
  BY <1>1, <1>2

\* The last turn of a queue_remove_all without a match.
LEMMA DrainEnds ==
    ASSUME Intact, DrainNext, Top.entry = Null
    PROVE  /\ stack # << >> /\ Top.kind = "drain"
           /\ stack' \in Seq(WalkType) /\ Len(stack') = Len(stack) - 1
           /\ Behind(stack', stack, Top.tmp)
           /\ queue' = (IF Top.destroys THEN Unref(queue) ELSE queue)
           /\ Memory(heap', queue', stack', Drained(Len(stack) - 1))
<1> DEFINE t == Freed(Others, Top.tmp)
           n == Len(stack)
<1>1. /\ stack # << >> /\ Top.kind = "drain" /\ stack' = t
      /\ heap' = Without(heap, Top.tmp) /\ UNCHANGED crashed
      /\ queue' = (IF Top.destroys THEN Unref(queue) ELSE queue)
  BY DEF DrainNext
<1>2. n \in Nat /\ Top = stack[n]
  BY <1>1, TopIs
<1>3. /\ Others \in Seq(WalkType) /\ Len(Others) = n - 1
      /\ \A i \in 1 .. n - 1 : Others[i] = stack[i]
  BY <1>1, OthersAre
<1>4. t \in Seq(WalkType) /\ Len(t) = n - 1
  BY <1>3, FreedWalks
<1>5. Behind(t, stack, Top.tmp)
  BY <1>2, <1>3, FreedBehind
<1>6. HandsNext(heap, stack, t)
  BY <1>2, <1>4 DEF HandsNext
<1> HIDE DEF t, n
<1>7. Memory(heap', queue, t, Drained(Len(t)))
  BY <1>1, <1>4, <1>5, <1>6, DrainedLists
<1>8. Memory(heap', queue, t, Drained(n - 1))
  BY <1>4, <1>7
<1>9. Memory(heap', queue', t, Drained(n - 1))
  <2>1. CASE ~Top.destroys
    BY <1>1, <1>8, <2>1
  <2>2. CASE Top.destroys
    <3> DEFINE h2 == heap'
    <3>1. queue' = [queue EXCEPT !.ref_count = queue.ref_count - 1]
      BY <1>1, <2>2 DEF Unref
    <3>2. queue.ref_count - 1 \in Int
      BY IntactHand DEF QueueType
    <3>3. Memory(h2, queue, t, Drained(n - 1))
      BY <1>8
    <3> HIDE DEF h2
    <3>4. Memory(h2, [queue EXCEPT !.ref_count = queue.ref_count - 1], t,
                 Drained(n - 1))
      BY <3>2, <3>3, MemoryCounted
    <3> QED
      BY <3>1, <3>4 DEF h2
  <2> QED
    BY <2>1, <2>2
<1> QED
  BY <1>1, <1>4, <1>5, <1>9 DEF n

\* A turn of it before the last.
LEMMA DrainGoesOn ==
    ASSUME Intact, DrainNext, Top.entry # Null
    PROVE  /\ stack # << >> /\ Top.kind = "drain" /\ Top.entry \in DOMAIN heap
           /\ stack' \in Seq(WalkType) /\ Len(stack') = Len(stack)
           /\ Behind(stack', stack, Top.tmp)
           /\ LET w == stack'[Len(stack)]
              IN  /\ w.kind = "drain" /\ w.at = heap[Top.entry].data
                  /\ w.tmp = Top.entry /\ w.entry = heap[Top.entry].next
                  /\ w.match = Top.match /\ w.destroys = Top.destroys
           /\ queue' = queue
           /\ Memory(heap', queue', stack', Drained(Len(stack)))
<1> DEFINE n == Len(stack)
           x == Top.tmp
           e == Top.entry
           at == heap[e].data
           next == heap[e].next
           w == [stack[n] EXCEPT !.at = at, !.tmp = e, !.entry = next]
           v == [stack EXCEPT ![n] = w]
           t == Freed(v, x)
<1>1. /\ stack # << >> /\ Top.kind = "drain" /\ heap' = Without(heap, x)
      /\ UNCHANGED <<queue, crashed>>
  BY DEF DrainNext
<1>2. /\ Memory(heap, queue, stack, Hand) /\ stack[n].kind = "drain"
      /\ e = stack[n].entry
  BY <1>1, FreesIs
<1>3. /\ n \in 1 .. n /\ Top \in WalkType /\ Top = stack[n] /\ n # 0 /\ n \in Nat
      /\ DOMAIN stack = 1 .. n /\ stack \in Seq(WalkType) /\ IsHeap(heap)
  BY <1>1, TopIs, IntactHand
<1>4. stack' = t
  BY <1>3 DEF DrainNext
<1>5. e \in DOMAIN heap
  BY <1>2, <1>3, DrainHand
<1>6. at \in Data /\ next \in Pointer /\ e \in Pointer
  BY <1>3, <1>5, HeapCells DEF Pointer
<1>7. Changed(w, stack[n], at, next, e)
  <2> HIDE DEF at, next, e
  <2> QED
    BY <1>3, <1>6, ChangedIs
<1> HIDE DEF at, next, e, w, x
<1>8. LastChanged(v, stack, at, next, e)
  BY <1>1, <1>3, <1>7, LastChangedIs DEF Changed
<1> HIDE DEF v
<1>9. v \in Seq(WalkType) /\ Len(v) = n
  BY <1>8 DEF LastChanged
<1>10. t \in Seq(WalkType) /\ Len(t) = n
  BY <1>9, FreedWalks
<1>11. Behind(t, stack, x)
  <2>1. \A i \in 1 .. n - 1 : i \in 1 .. n /\ i # n
    <3> n \in Nat
      BY <1>3
    <3> HIDE DEF n
    <3> QED
      OBVIOUS
  <2>2. \A i \in 1 .. n - 1 : v[i] = stack[i]
    BY <1>8, <2>1 DEF LastChanged
  <2> QED
    BY <1>3, <1>9, <2>2, FreedBehind
<1>12. /\ t[n].kind = "drain" /\ t[n].at = at /\ t[n].tmp = e
       /\ t[n].entry = next /\ t[n].match = Top.match
       /\ t[n].destroys = Top.destroys
  <2>1. /\ t[n].kind = v[n].kind /\ t[n].at = v[n].at
        /\ t[n].entry = v[n].entry /\ t[n].tmp = v[n].tmp
        /\ t[n].match = v[n].match /\ t[n].destroys = v[n].destroys
    BY <1>3, <1>9, FreedView
  <2> HIDE DEF t
  <2> QED
    BY <1>2, <1>3, <1>8, <2>1 DEF LastChanged, Changed
<1> HIDE DEF t
<1>13. HandsNext(heap, stack, t)
  BY <1>2, <1>3, <1>10, <1>12 DEF HandsNext, e, next
<1>14. Memory(heap', queue, t, Drained(Len(t)))
  BY <1>1, <1>10, <1>11, <1>13, DrainedLists DEF x
<1> QED
  BY <1>1, <1>4, <1>5, <1>10, <1>11, <1>12, <1>14 DEF x, e, at, next

\* queue_remove_all with a function takes the next entry off the list
LEMMA FilterGoesOn ==
    ASSUME Intact, FilterNext, NEW i \in DOMAIN List, Found(Top.match, i),
           Unlinked(i),
           stack' = [Freed(stack, List[i]) EXCEPT
                        ![Len(stack)].at = heap[List[i]].data]
    PROVE  /\ stack # << >> /\ Top.kind = "filter" /\ i \in 1 .. Len(Hand[0])
           /\ Taken(i)
           /\ LastChanged(stack', Freed(stack, Hand[0][i]),
                          heap[Hand[0][i]].data, Top.entry, Top.tmp)
           /\ Memory(heap', queue', stack',
                     [Hand EXCEPT ![0] = Removed(Hand[0], i)])
<1> DEFINE n == Len(stack)
           x == Hand[0][i]
           f == Freed(stack, x)
           at == heap[x].data
           w == [f[n] EXCEPT !.at = at]
           M == [Hand EXCEPT ![0] = Removed(Hand[0], i)]
<1>1. stack # << >> /\ Top.kind = "filter"
  BY DEF FilterNext
<1>2. /\ n \in 1 .. n /\ Top = stack[n] /\ n # 0 /\ n \in Nat
      /\ stack \in Seq(WalkType) /\ IsHeap(heap) /\ List = Hand[0]
      /\ i \in 1 .. Len(Hand[0]) /\ x \in DOMAIN heap
  BY <1>1, TopIs, IntactHand
<1>3. Taken(i)
  BY <1>2, UnlinkedTakes
<1>4. f \in Seq(WalkType) /\ Len(f) = n /\ f # << >>
  BY <1>2, FreedWalks, EmptySeq
<1>5. f[n] \in WalkType /\ DOMAIN f = 1 .. n
  BY <1>2, <1>4, ElementOfSeq, LenProperties
<1>6. f[n].kind = "filter" /\ f[n].entry = Top.entry /\ f[n].tmp = Top.tmp
  BY <1>1, <1>2, FreedView
<1>7. at \in Data
  BY <1>2, HeapCells
<1>8. stack' = [f EXCEPT ![n] = w]
  BY <1>2, <1>5
<1>9. Memory(heap', queue', f, M)
  BY <1>3 DEF Taken
<1> HIDE DEF at, x, f, n, M
<1>10. Changed(w, f[n], at, f[n].entry, f[n].tmp)
  <2>1. f[n].entry \in Pointer /\ f[n].tmp \in Pointer
    BY <1>5, WalkFields
  <2> QED
    BY <1>5, <1>7, <2>1, ChangedIs
<1> HIDE DEF w
<1>11. LastChanged(stack', f, at, Top.entry, Top.tmp)
  <2>1. w \in WalkType
    BY <1>10 DEF Changed
  <2>2. LastChanged([f EXCEPT ![Len(f)] = w], f, at, f[n].entry, f[n].tmp)
    BY <1>4, <1>10, <2>1, LastChangedIs
  <2> QED
    BY <1>4, <1>6, <1>8, <2>2
<1>12. Memory(heap', queue', stack', M)
  <2> DEFINE h2 == heap'
             u == queue'
             t == stack'
  <2>1. /\ t \in Seq(WalkType) /\ Len(t) = Len(f)
        /\ \A j \in 1 .. Len(f) : j # Len(f) => t[j] = f[j]
        /\ t[Len(f)].kind = "filter"
    BY <1>4, <1>6, <1>11 DEF LastChanged, Changed
  <2>2. Memory(h2, u, f, M) /\ f[Len(f)].kind = "filter"
    BY <1>4, <1>6, <1>9
  <2> HIDE DEF h2, u, t
  <2>3. Memory(h2, u, t, M)
    BY <1>4, <2>1, <2>2, MemoryTop
  <2> QED
    BY <2>3 DEF h2, u, t
<1> QED
  BY <1>1, <1>2, <1>3, <1>11, <1>12 DEF x, f, at, M

\* A new queue is intact.
LEMMA IntactInit ==
    ASSUME Init
    PROVE  Intact
<1> DEFINE L == [i \in 0 .. 0 |-> << >>]
<1>1. /\ heap = << >> /\ stack = << >> /\ crashed = FALSE
      /\ queue = [head |-> Null, tail |-> Null, entries |-> 0, ref_count |-> 1]
  BY DEF Init
<1>2. DOMAIN heap = {} /\ Len(stack) = 0 /\ stack \in Seq(WalkType)
  BY <1>1, EmptySeq
<1>3. IsHeap(heap)
  BY <1>1, <1>2 DEF IsHeap
<1>4. queue \in QueueType
  BY <1>1 DEF QueueType, Pointer
<1>5. 0 .. 0 = {0} /\ 1 .. 0 = {} /\ \A i \in 0 .. 0 : L[i] = << >> /\ i = 0
  OBVIOUS
<1>6. Memory(heap, queue, stack, L)
  <2> HIDE DEF L
  <2>1. Linked(heap, queue.head, << >>) /\ \A c : ~InList(c, << >>)
    BY <1>1, NoLinks
  <2>2. Lists(heap, queue, stack, L)
    <3>1. DOMAIN L = 0 .. 0
      BY DEF L
    <3> QED
      BY <1>2, <1>5, <2>1, <3>1 DEF Lists, Begin
  <2>3. Hands(heap, stack, L)
    BY <1>2, <1>5 DEF Hands
  <2>4. Ends(queue, L[0])
    BY <1>1, <1>5, EmptySeq DEF Ends
  <2> QED
    BY <1>2, <1>3, <1>4, <2>2, <2>3, <2>4 DEF Memory, Types
<1> HIDE DEF L
<1>7. Memory(heap, queue, stack, ListsOf(heap, queue, stack))
  BY <1>6, ListsAre
<1>8. Calls(queue, stack)
  <2>1. Count(stack) = 0 /\ DOMAIN stack = {}
    BY <1>1, <1>2, CountFits DEF Count
  <2> QED
    BY <1>1, <1>2, <2>1, QueueConstants DEF Calls
<1> QED
  BY <1>1, <1>7, <1>8 DEF Intact

\* What a step has to establish
LEMMA IntactNext ==
    ASSUME NEW L, Memory(heap', queue', stack', L), Calls(queue', stack'),
           crashed' \in BOOLEAN
    PROVE  Intact'
<1> DEFINE h2 == heap'
           u == queue'
           t == stack'
<1>1. Memory(h2, u, t, L)
  OBVIOUS
<1> HIDE DEF h2, u, t
<1>2. Memory(h2, u, t, ListsOf(h2, u, t))
  BY <1>1, ListsAre
<1> QED
  BY <1>2 DEF Intact, h2, u, t

-----------------------------------------------------------------------------
(* Every step keeps the lists intact *)

\* Freeing a cell leaves the kinds of the walks.
LEMMA AlikeSelf ==
    ASSUME NEW st \in Seq(WalkType)
    PROVE  Alike(st, st) /\ \A x : Alike(st, Freed(st, x))
<1>1. ASSUME NEW x PROVE Alike(st, Freed(st, x))
  BY FreedWalks, FreedView DEF Alike
<1> QED
  BY <1>1 DEF Alike

\* A push keeps Intact.
LEMMA PushedIntact ==
    ASSUME Intact, NEW d, NEW i, Pushed(d, i)
    PROVE  Intact'
<1>1. Memory(heap', queue', stack', [Hand EXCEPT ![0] = Inserted(Hand[0], i, Fresh)])
  BY DEF Pushed
<1>2. Calls(queue', stack') /\ crashed' \in BOOLEAN
  <2> DEFINE u == queue'
             t == stack'
  <2>1. /\ t = stack /\ u.ref_count = queue.ref_count /\ crashed' = crashed
        /\ stack \in Seq(WalkType) /\ Calls(queue, stack) /\ crashed \in BOOLEAN
    BY IntactHand DEF Pushed, Intact
  <2> HIDE DEF u, t
  <2>2. Calls(u, t)
    BY <2>1, AlikeSelf, CallsAlike
  <2> QED
    BY <2>1, <2>2 DEF u, t
<1> QED
  BY <1>1, <1>2, IntactNext

\* So does a removal.
LEMMA TakenIntact ==
    ASSUME Intact, NEW i, Taken(i), stack' = Freed(stack, Hand[0][i]),
           crashed' = crashed
    PROVE  Intact'
<1>1. Memory(heap', queue', stack', [Hand EXCEPT ![0] = Removed(Hand[0], i)])
  BY DEF Taken
<1>2. Calls(queue', stack') /\ crashed' \in BOOLEAN
  <2> DEFINE u == queue'
             t == stack'
  <2>1. /\ t = Freed(stack, Hand[0][i]) /\ u.ref_count = queue.ref_count
        /\ crashed' = crashed
        /\ stack \in Seq(WalkType) /\ Calls(queue, stack) /\ crashed \in BOOLEAN
    BY IntactHand DEF Taken, Intact
  <2>2. t \in Seq(WalkType) /\ Alike(stack, t)
    BY <2>1, AlikeSelf, FreedWalks
  <2> HIDE DEF u, t
  <2>3. Calls(u, t)
    BY <2>1, <2>2, CallsAlike
  <2> QED
    BY <2>1, <2>3 DEF u, t
<1> QED
  BY <1>1, <1>2, IntactNext

\* queue_remove and queue_remove_if take the first cell that matches.
LEMMA RemoveDoes ==
    ASSUME Intact, NEW S \in SUBSET Data, Remove(S)
    PROVE  \E i \in 1 .. Len(Hand[0]) :
              /\ Found(S, i) /\ Taken(i) /\ stack' = Freed(stack, Hand[0][i])
<1>1. PICK i \in DOMAIN List :
          Found(S, i) /\ Unlinked(i) /\ stack' = Freed(stack, List[i])
  BY DEF Remove
<1>2. List = Hand[0] /\ i \in 1 .. Len(Hand[0])
  BY IntactHand
<1>3. Taken(i)
  BY <1>1, <1>2, UnlinkedTakes
<1> QED
  BY <1>1, <1>2, <1>3

\* A call that begins a walk, and the end of a walk
LEMMA BegunIntact ==
    ASSUME Intact, NEW L, Memory(heap', queue', stack', L), crashed' = crashed,
           NEW t \in Seq(WalkType), Alike(stack, t), NEW w \in WalkType,
           stack' = Append(t, w), Len(stack) < MaxWalks,
           queue'.ref_count = IF w.kind = "foreach" THEN queue.ref_count + 1
                                                    ELSE queue.ref_count,
           w.destroys => /\ w.kind = "drain" /\ queue.ref_count > Count(stack)
                         /\ \A i \in DOMAIN stack : ~stack[i].destroys
    PROVE  Intact'
<1>1. Calls(queue', stack') /\ crashed' \in BOOLEAN
  <2> DEFINE u == queue'
  <2>1. /\ stack \in Seq(WalkType) /\ Calls(queue, stack) /\ crashed \in BOOLEAN
        /\ queue.ref_count \in Int
    BY IntactHand DEF Intact, QueueType
  <2>2. u.ref_count = IF w.kind = "foreach" THEN queue.ref_count + 1
                                            ELSE queue.ref_count
    OBVIOUS
  <2> HIDE DEF u
  <2>3. Calls(u, Append(t, w))
    BY <2>1, <2>2, CallsPushed
  <2> QED
    BY <2>1, <2>3 DEF u
<1> QED
  BY <1>1, IntactNext

\* The end of a walk keeps Intact.
LEMMA EndedIntact ==
    ASSUME Intact, NEW L, Memory(heap', queue', stack', L), crashed' = crashed,
           stack # << >>, Len(stack') = Len(stack) - 1,
           \A i \in 1 .. Len(stack) - 1 :
               stack'[i].kind = stack[i].kind /\ stack'[i].destroys = stack[i].destroys,
           queue'.ref_count =
               IF stack[Len(stack)].kind = "foreach" \/ stack[Len(stack)].destroys
               THEN queue.ref_count - 1 ELSE queue.ref_count
    PROVE  Intact'
<1>1. Calls(queue', stack') /\ crashed' \in BOOLEAN
  <2> DEFINE u == queue'
             t == stack'
  <2>1. /\ stack \in Seq(WalkType) /\ Calls(queue, stack) /\ crashed \in BOOLEAN
        /\ queue.ref_count \in Int /\ t \in Seq(WalkType)
    BY IntactHand DEF Intact, QueueType, Memory, Types
  <2>2. u.ref_count =
            IF stack[Len(stack)].kind = "foreach" \/ stack[Len(stack)].destroys
            THEN queue.ref_count - 1 ELSE queue.ref_count
    OBVIOUS
  <2>3. /\ Len(t) = Len(stack) - 1
        /\ \A i \in 1 .. Len(stack) - 1 : /\ t[i].kind = stack[i].kind
                                          /\ t[i].destroys = stack[i].destroys
    OBVIOUS
  <2> HIDE DEF u, t
  <2>4. Calls(u, t)
    BY <2>1, <2>2, <2>3, CallsPopped
  <2> QED
    BY <2>1, <2>4 DEF u, t
<1> QED
  BY <1>1, IntactNext

\* The begin of a queue_foreach keeps Intact.
LEMMA ForeachIntact ==
    ASSUME Intact, Foreach
    PROVE  Intact'
<1>1. PICK w : /\ NewWalk(w, "foreach", heap[Hand[0][1]].data, Next1(Hand[0], 1),
                          Null, {}, FALSE)
               /\ stack' = Append(stack, w)
               /\ Memory(heap', queue', stack', Stacked(Hand[0], << >>))
  BY ForeachDoes
<1>2. /\ crashed' = crashed /\ Len(stack) < MaxWalks
      /\ queue' = [queue EXCEPT !.ref_count = @ + 1]
  BY DEF Foreach, MayNest
<1>3. queue \in QueueType /\ stack \in Seq(WalkType) /\ Alike(stack, stack)
  BY IntactHand, AlikeSelf
<1>4. queue'.ref_count = queue.ref_count + 1
  BY <1>2, <1>3 DEF QueueType
<1>5. w \in WalkType /\ w.kind = "foreach" /\ ~w.destroys
  BY <1>1 DEF NewWalk
<1> QED
  BY <1>1, <1>2, <1>3, <1>4, <1>5, BegunIntact

\* The owner's reference
LEMMA OwnedCount ==
    Owned <=> queue.ref_count > Count(stack)
BY DEF Owned, Count, Foreachs

\* So does that of a queue_remove_all or queue_destroy.
LEMMA DrainIntact ==
    ASSUME Intact, NEW destroys \in BOOLEAN, Drain(destroys)
    PROVE  Intact'
<1>0. /\ queue \in QueueType /\ stack \in Seq(WalkType) /\ Alike(stack, stack)
      /\ Memory(heap, queue, stack, Hand) /\ queue.ref_count \in Int
  BY IntactHand, AlikeSelf DEF QueueType
<1>1. CASE queue.head # Null
  <2>1. PICK w : /\ NewWalk(w, "drain", heap[Hand[0][1]].data, Next1(Hand[0], 1),
                            Hand[0][1], {}, destroys)
                 /\ stack' = Append(stack, w)
                 /\ Memory(heap', queue', stack', Stacked(<< >>, Hand[0]))
    BY <1>1, DrainDoes
  <2>2. /\ crashed' = crashed /\ Len(stack) < MaxWalks
        /\ queue' = [queue EXCEPT !.head = Null, !.tail = Null, !.entries = 0]
        /\ destroys => \A i \in DOMAIN stack : ~stack[i].destroys
        /\ queue.ref_count > Count(stack)
    BY <1>1, OwnedCount DEF Drain, MayNest, Callable
  <2>3. queue'.ref_count = queue.ref_count
    BY <1>0, <2>2 DEF QueueType
  <2>4. w \in WalkType /\ w.kind = "drain" /\ w.destroys = destroys
    BY <2>1 DEF NewWalk
  <2> QED
    BY <1>0, <2>1, <2>2, <2>3, <2>4, BegunIntact
<1>2. CASE queue.head = Null
  <2>1. /\ queue' = [queue EXCEPT !.ref_count = queue.ref_count - 1]
        /\ UNCHANGED <<heap, stack, crashed>> /\ destroys
        /\ \A i \in DOMAIN stack : ~stack[i].destroys
        /\ queue.ref_count > Count(stack)
    BY <1>2, OwnedCount DEF Drain, Unref, Callable
  <2>2. Memory(heap', queue', stack', Hand)
    <3>1. queue.ref_count - 1 \in Int
      BY <1>0
    <3>2. Memory(heap, [queue EXCEPT !.ref_count = queue.ref_count - 1], stack, Hand)
      BY <1>0, <3>1, MemoryCounted
    <3> QED
      BY <2>1, <3>2
  <2>3. queue'.ref_count = queue.ref_count - 1
    BY <1>0, <2>1 DEF QueueType
  <2>4. Calls(queue, stack) /\ crashed \in BOOLEAN /\ Count(stack) \in Nat
    BY <1>0, CountFits DEF Intact
  <2>5. Calls(queue', stack')
    <3>1. queue'.ref_count \in {Count(stack), Count(stack) + 1}
      <4>1. queue.ref_count = Count(stack) + 1
        BY <1>0, <2>1, <2>4 DEF Calls
      <4> QED
        BY <2>3, <2>4, <4>1
    <3> QED
      BY <2>1, <2>4, <3>1 DEF Calls
  <2> QED
    BY <2>1, <2>2, <2>4, <2>5, IntactNext
<1> QED
  BY <1>1, <1>2

\* And that of a queue_remove_all with a match.
LEMMA FilterIntact ==
    ASSUME Intact, NEW S \in SUBSET Data, Filter(S)
    PROVE  Intact'
<1>0. PICK i \in 1 .. Len(Hand[0]) : \E w :
          /\ Taken(i)
          /\ NewWalk(w, "filter", heap[Hand[0][i]].data, Null, Null, S, FALSE)
          /\ stack' = Append(Freed(stack, Hand[0][i]), w)
          /\ Memory(heap', queue', stack', Stacked(Removed(Hand[0], i), << >>))
  BY FilterDoes
<1>1. PICK w :
          /\ Taken(i)
          /\ NewWalk(w, "filter", heap[Hand[0][i]].data, Null, Null, S, FALSE)
          /\ stack' = Append(Freed(stack, Hand[0][i]), w)
          /\ Memory(heap', queue', stack', Stacked(Removed(Hand[0], i), << >>))
  BY <1>0
<1> DEFINE t == Freed(stack, Hand[0][i])
<1>2. crashed' = crashed /\ Len(stack) < MaxWalks
  BY DEF Filter, MayNest
<1>3. /\ queue'.ref_count = queue.ref_count /\ stack \in Seq(WalkType)
      /\ t \in Seq(WalkType) /\ Alike(stack, t)
  BY <1>1, IntactHand, AlikeSelf, FreedWalks DEF Taken
<1>4. w \in WalkType /\ w.kind = "filter" /\ ~w.destroys
  BY <1>1 DEF NewWalk
<1> HIDE DEF t
<1>5. stack' = Append(t, w)
  BY <1>1 DEF t
<1> QED
  BY <1>1, <1>2, <1>3, <1>4, <1>5, BegunIntact

\* The return of a callback to queue_foreach keeps Intact.
LEMMA VisitIntact ==
    ASSUME Intact, VisitNext
    PROVE  Intact'
<1>0. /\ Memory(heap, queue, stack, Hand) /\ Calls(queue, stack)
      /\ crashed \in BOOLEAN /\ stack \in Seq(WalkType)
      /\ stack # << >> /\ Top.kind = "foreach"
  BY IntactHand DEF Intact, VisitNext
<1>1. CASE GoesOn /\ ~Top.wild
  <2>1. PICK k \in 1 .. Len(Hand[0]) :
            /\ LastChanged(stack', stack, heap[Hand[0][k]].data,
                           Next1(Hand[0], k), Top.tmp)
            /\ Memory(heap', queue', stack', Hand)
            /\ UNCHANGED <<heap, queue, crashed>>
    BY <1>1, VisitGoesOn
  <2>2. Calls(queue', stack')
    <3> DEFINE t == stack'
    <3>1. t \in Seq(WalkType) /\ Alike(stack, t)
      BY <2>1 DEF LastChanged, Changed, Alike
    <3> HIDE DEF t
    <3>2. Calls(queue, t)
      BY <1>0, <3>1, CallsAlike
    <3> QED
      BY <2>1, <3>2 DEF t
  <2> QED
    BY <1>0, <2>1, <2>2, IntactNext
<1>2. CASE ~GoesOn
  <2>1. /\ stack' = Others /\ queue'.ref_count = queue.ref_count - 1
        /\ Memory(heap', queue', stack', Ended(Hand))
        /\ crashed' = crashed
    BY <1>2, VisitEnds
  <2>2. /\ Len(stack') = Len(stack) - 1
        /\ \A i \in 1 .. Len(stack) - 1 : stack'[i] = stack[i]
        /\ stack[Len(stack)].kind = "foreach"
    BY <1>0, <2>1, OthersAre, TopIs
  <2>3. queue'.ref_count =
            IF stack[Len(stack)].kind = "foreach" \/ stack[Len(stack)].destroys
            THEN queue.ref_count - 1 ELSE queue.ref_count
    BY <2>1, <2>2
  <2> QED
    BY <1>0, <2>1, <2>2, <2>3, EndedIntact
<1>3. CASE GoesOn /\ Top.wild
  <2>1. UNCHANGED <<heap, queue, stack>> /\ crashed' \in BOOLEAN
    BY <1>3 DEF VisitNext
  <2>2. Memory(heap', queue', stack', Hand) /\ Calls(queue', stack')
    BY <1>0, <2>1
  <2> QED
    BY <2>1, <2>2, IntactNext
<1> QED
  BY <1>1, <1>2, <1>3

\* So does the return to a queue_remove_all without a match.
LEMMA DrainNextIntact ==
    ASSUME Intact, DrainNext
    PROVE  Intact'
<1>0. /\ Calls(queue, stack) /\ crashed \in BOOLEAN /\ stack \in Seq(WalkType)
      /\ stack # << >> /\ Top.kind = "drain" /\ crashed' = crashed
      /\ Top = stack[Len(stack)] /\ queue \in QueueType /\ Len(stack) \in Nat
      /\ Len(stack) \in 1 .. Len(stack)
  BY IntactHand, TopIs DEF Intact, DrainNext
<1>1. CASE Top.entry = Null
  <2>1. /\ Len(stack') = Len(stack) - 1
        /\ Behind(stack', stack, Top.tmp)
        /\ queue' = (IF Top.destroys THEN Unref(queue) ELSE queue)
        /\ Memory(heap', queue', stack', Drained(Len(stack) - 1))
    BY <1>1, DrainEnds
  <2>2. queue'.ref_count =
            IF stack[Len(stack)].kind = "foreach" \/ stack[Len(stack)].destroys
            THEN queue.ref_count - 1 ELSE queue.ref_count
    <3>1. Unref(queue).ref_count = queue.ref_count - 1
      BY <1>0 DEF QueueType, Unref
    <3> QED
      BY <1>0, <2>1, <3>1
  <2>3. \A i \in 1 .. Len(stack) - 1 :
            stack'[i].kind = stack[i].kind /\ stack'[i].destroys = stack[i].destroys
    BY <2>1 DEF Behind
  <2> QED
    BY <1>0, <2>1, <2>2, <2>3, EndedIntact
<1>2. CASE Top.entry # Null
  <2>1. /\ stack' \in Seq(WalkType) /\ Len(stack') = Len(stack)
        /\ Behind(stack', stack, Top.tmp)
        /\ stack'[Len(stack)].kind = "drain"
        /\ stack'[Len(stack)].destroys = Top.destroys
        /\ queue' = queue
        /\ Memory(heap', queue', stack', Drained(Len(stack)))
    BY <1>2, DrainGoesOn
  <2>2. Calls(queue', stack')
    <3> DEFINE t == stack'
    <3>1. Alike(stack, t)
      <4>1. \A i \in 1 .. Len(stack) : i = Len(stack) \/ i \in 1 .. Len(stack) - 1
        BY <1>0
      <4> QED
        BY <1>0, <2>1, <4>1 DEF Behind, Alike
    <3>2. t \in Seq(WalkType)
      BY <2>1
    <3> HIDE DEF t
    <3>3. Calls(queue, t)
      BY <1>0, <3>1, <3>2, CallsAlike
    <3> QED
      BY <2>1, <3>3 DEF t
  <2> QED
    BY <1>0, <2>1, <2>2, IntactNext
<1> QED
  BY <1>1, <1>2

\* And to one with a match.
LEMMA FilterNextIntact ==
    ASSUME Intact, FilterNext
    PROVE  Intact'
<1>0. /\ Calls(queue, stack) /\ crashed \in BOOLEAN /\ stack \in Seq(WalkType)
      /\ stack # << >> /\ Top.kind = "filter" /\ Memory(heap, queue, stack, Hand)
      /\ Top = stack[Len(stack)] /\ queue \in QueueType /\ Len(stack) \in Nat
      /\ Len(stack) \in 1 .. Len(stack)
  BY IntactHand, TopIs DEF Intact, FilterNext
<1>1. CASE \E i \in DOMAIN List :
              /\ Found(Top.match, i) /\ Unlinked(i)
              /\ stack' = [Freed(stack, List[i]) EXCEPT
                             ![Len(stack)].at = heap[List[i]].data]
              /\ crashed' = crashed
  <2>1. PICK i \in DOMAIN List :
            /\ Found(Top.match, i) /\ Unlinked(i)
            /\ stack' = [Freed(stack, List[i]) EXCEPT
                           ![Len(stack)].at = heap[List[i]].data]
            /\ crashed' = crashed
    BY <1>1
  <2>2. /\ Taken(i)
        /\ LastChanged(stack', Freed(stack, Hand[0][i]),
                       heap[Hand[0][i]].data, Top.entry, Top.tmp)
        /\ Memory(heap', queue', stack', [Hand EXCEPT ![0] = Removed(Hand[0], i)])
    BY <2>1, FilterGoesOn
  <2>3. Calls(queue', stack')
    <3> DEFINE t == stack'
               u == queue'
               f == Freed(stack, Hand[0][i])
    <3>1. Alike(stack, f)
      BY <1>0, AlikeSelf
    <3>2. t \in Seq(WalkType) /\ u.ref_count = queue.ref_count
      BY <2>2 DEF LastChanged, Taken
    <3> HIDE DEF f
    <3>3. Alike(stack, t)
      BY <2>2, <3>1 DEF LastChanged, Changed, Alike, f
    <3> HIDE DEF t, u
    <3>4. Calls(u, t)
      BY <1>0, <3>2, <3>3, CallsAlike
    <3> QED
      BY <3>4 DEF t, u
  <2> QED
    BY <1>0, <2>1, <2>2, <2>3, IntactNext
<1>2. CASE stack' = Others /\ UNCHANGED <<heap, queue, crashed>>
  <2>1. Memory(heap', queue', stack', Ended(Hand))
    BY <1>0, <1>2, FilterEnds
  <2>2. /\ Len(stack') = Len(stack) - 1
        /\ \A i \in 1 .. Len(stack) - 1 : stack'[i] = stack[i]
    BY <1>0, <1>2, OthersAre
  <2>3. ~stack[Len(stack)].destroys
    <3>1. Len(stack) \in DOMAIN stack
      BY <1>0, LenProperties
    <3> QED
      BY <1>0, <3>1 DEF Calls
  <2>4. queue'.ref_count =
            IF stack[Len(stack)].kind = "foreach" \/ stack[Len(stack)].destroys
            THEN queue.ref_count - 1 ELSE queue.ref_count
    BY <1>0, <1>2, <2>3
  <2> QED
    BY <1>0, <1>2, <2>1, <2>2, <2>4, EndedIntact
<1>3. CASE crashed' = TRUE /\ UNCHANGED <<heap, queue, stack>>
  <2>1. Memory(heap', queue', stack', Hand) /\ Calls(queue', stack')
    BY <1>0, <1>3
  <2> QED
    BY <1>3, <2>1, IntactNext
<1> QED
  BY <1>1, <1>2, <1>3 DEF FilterNext

\* Every step keeps Intact.
LEMMA IntactStep ==
    ASSUME Intact, [Next]_vars
    PROVE  Intact'
<1>1. ASSUME NEW d \in Data, PushTail(d) PROVE Intact'
  BY <1>1, PushTailDoes, PushedIntact
<1>2. ASSUME NEW d \in Data, PushHead(d) PROVE Intact'
  BY <1>2, PushHeadDoes, PushedIntact
<1>3. ASSUME NEW e \in Data, NEW d \in Data, PushAfter(e, d) PROVE Intact'
  BY <1>3, PushAfterDoes, PushedIntact
<1>4. ASSUME PopHead PROVE Intact'
  BY <1>4, PopTakes, TakenIntact DEF PopHead
<1>5. ASSUME NEW S \in SUBSET Data, Remove(S) PROVE Intact'
  <2>1. PICK i \in 1 .. Len(Hand[0]) :
            Taken(i) /\ stack' = Freed(stack, Hand[0][i])
    BY <1>5, RemoveDoes
  <2>2. crashed' = crashed
    BY <1>5 DEF Remove
  <2> QED
    BY <2>1, <2>2, TakenIntact
<1>6. ASSUME NEW S \in SUBSET Data, Filter(S) PROVE Intact'
  BY <1>6, FilterIntact
<1>7. ASSUME Foreach PROVE Intact'
  BY <1>7, ForeachIntact
<1>8. ASSUME NEW destroys \in BOOLEAN, Drain(destroys) PROVE Intact'
  BY <1>8, DrainIntact
<1>9. ASSUME VisitNext \/ DrainNext \/ FilterNext PROVE Intact'
  BY <1>9, VisitIntact, DrainNextIntact, FilterNextIntact
<1>10. ASSUME UNCHANGED vars PROVE Intact'
  <2>1. /\ Memory(heap', queue', stack', Hand) /\ Calls(queue', stack')
        /\ crashed' \in BOOLEAN
    BY <1>10, IntactHand DEF Intact, vars
  <2> QED
    BY <2>1, IntactNext
<1> QED
  BY <1>1, <1>2, <1>3, <1>4, <1>5, <1>6, <1>7, <1>8, <1>9, <1>10 DEF Next

-----------------------------------------------------------------------------
(* What the lists say of the state *)

\* What is behind the i-th element
After(s, i) == SubSeq(s, i + 1, Len(s))

\* The cells behind the i-th of a list are a list.
LEMMA LinkedSuffix ==
    ASSUME NEW h, NEW c, NEW s, Linked(h, c, s), NEW i \in 0 .. Len(s)
    PROVE  /\ Linked(h, Next1(s, i), After(s, i))
           /\ Len(After(s, i)) = Len(s) - i
           /\ \A k \in 1 .. Len(s) - i : After(s, i)[k] = s[i + k]
<1> DEFINE n == Len(s)
           r == SubSeq(s, i + 1, n)
<1>1. s \in Seq(DOMAIN h) /\ n \in Nat /\ i \in 0 .. n
  BY LenProperties DEF Linked
<1>2. \A k \in 1 .. n - i : i + k \in 1 .. n
  BY <1>1
<1>3. /\ r \in Seq(DOMAIN h) /\ Len(r) = n - i
      /\ \A k \in 1 .. n - i : r[k] = s[i + k]
  <2>1. /\ i + 1 \in Int /\ n \in Int /\ (i + 1 <= n => n - (i + 1) + 1 = n - i)
        /\ \A k \in i + 1 .. n : k \in 1 .. n
        /\ \A k \in 1 .. n - i : (i + 1) + k - 1 = i + k
        /\ (~(i + 1 <= n) => n - i = 0)
    BY <1>1
  <2>2. \A k \in i + 1 .. n : s[k] \in DOMAIN h
    BY <1>1, <2>1, ElementOfSeq
  <2>3. /\ r \in Seq(DOMAIN h)
        /\ Len(r) = IF i + 1 <= n THEN n - (i + 1) + 1 ELSE 0
        /\ \A k \in 1 .. n - (i + 1) + 1 : r[k] = s[(i + 1) + k - 1]
    BY <2>1, <2>2, SubSeqProperties
  <2>4. n - (i + 1) + 1 = n - i
    BY <1>1
  <2> HIDE DEF r, n
  <2>5. Len(r) = n - i
    BY <1>1, <2>1, <2>3, <2>4
  <2>6. \A k \in 1 .. n - i : r[k] = s[i + k]
    BY <2>1, <2>3, <2>4
  <2> QED
    BY <2>3, <2>5, <2>6
<1>4. /\ \A k \in 1 .. n : h[s[k]].next = Next1(s, k)
      /\ \A j, k \in 1 .. n : s[j] = s[k] => j = k
  BY DEF Linked
<1> HIDE DEF r
<1>5. ASSUME NEW k \in 1 .. n - i
      PROVE  h[r[k]].next = Next1(r, k)
  <2>1. h[r[k]].next = Next1(s, i + k)
    BY <1>2, <1>3, <1>4
  <2>2. /\ k = n - i <=> i + k = n
        /\ k # n - i => k + 1 \in 1 .. n - i
        /\ i + (k + 1) = (i + k) + 1
    BY <1>1
  <2> QED
    BY <1>3, <2>1, <2>2 DEF Next1
<1>6. \A j, k \in 1 .. n - i : r[j] = r[k] => j = k
  <2>1. \A j, k \in 1 .. n - i : i + j = i + k => j = k
    BY <1>1
  <2> QED
    BY <1>2, <1>3, <1>4, <2>1
<1>7. Next1(s, i) = IF r = << >> THEN Null ELSE r[1]
  <2>1. r = << >> <=> n - i = 0
    BY <1>3, EmptySeq
  <2>2. (n - i = 0 <=> i = n) /\ (i # n => 1 \in 1 .. n - i)
    BY <1>1
  <2> QED
    BY <1>3, <2>1, <2>2 DEF Next1
<1> QED
  BY <1>3, <1>5, <1>6, <1>7 DEF Linked, After, r

\* They are what is found in the heap from there.
LEMMA AlongSuffix ==
    ASSUME NEW h, IsHeap(h), NEW c, NEW s, Linked(h, c, s), NEW i \in 0 .. Len(s)
    PROVE  Along(h, Next1(s, i)) = After(s, i)
BY LinkedSuffix, AlongIs

\* What Held says of a walk is what its list is
LEMMA HeldIs ==
    ASSUME Intact, NEW i \in 1 .. Len(stack)
    PROVE  Held(stack[i]) = Hand[i]
<1>1. /\ Memory(heap, queue, stack, Hand) /\ IsHeap(heap) /\ i \in 0 .. Len(stack)
      /\ i # 0
  BY IntactHand, NoWalks
<1>2. CASE stack[i].kind # "drain"
  <2>1. Linked(heap, Null, Hand[i])
    BY <1>1, <1>2, MemoryLinks DEF Begin
  <2>2. Hand[i] = << >>
    BY <1>1, <2>1, Heads
  <2> QED
    BY <1>2, <2>2 DEF Held
<1>3. CASE stack[i].kind = "drain"
  <2> DEFINE s == Hand[i]
             n == Len(s)
             x == stack[i].tmp
             t == After(s, 1)
  <2>1. /\ Linked(heap, x, s) /\ s \in Seq(DOMAIN heap) /\ 1 \in 1 .. n
        /\ n \in Nat /\ x = s[1] /\ stack[i].entry = Next1(s, 1)
        /\ x \in DOMAIN heap
    BY <1>1, <1>3, DrainHand
  <2>2. 1 \in 0 .. n
    BY <2>1
  <2>3. /\ Chain(stack[i].entry) = t
        /\ Linked(heap, Next1(s, 1), t) /\ Len(t) = n - 1
        /\ \A k \in 1 .. n - 1 : t[k] = s[1 + k]
    <3>0. 1 \in 0 .. Len(s)
      BY <2>2
    <3> HIDE DEF s, n
    <3>1. /\ Linked(heap, Next1(s, 1), After(s, 1))
          /\ Len(After(s, 1)) = Len(s) - 1
          /\ \A k \in 1 .. Len(s) - 1 : After(s, 1)[k] = s[1 + k]
      BY <2>1, <3>0, LinkedSuffix
    <3>2. Along(heap, Next1(s, 1)) = After(s, 1)
      BY <1>1, <2>1, <3>0, AlongSuffix
    <3> QED
      BY <2>1, <3>1, <3>2 DEF Chain, n
  <2>4. t \in Seq(DOMAIN heap)
    BY <2>3 DEF Linked
  <2> DEFINE r == <<x>> \o t
  <2>5. /\ r \in Seq(DOMAIN heap) /\ Len(r) = 1 + (n - 1) /\ r[1] = x
        /\ \A k \in 1 .. n : k # 1 => r[k] = t[k - 1]
    <3> HIDE DEF t, x, n, s
    <3>1. /\ <<x>> \in Seq(DOMAIN heap) /\ Len(<<x>>) = 1 /\ <<x>>[1] = x
      BY <2>1
    <3>2. /\ r \in Seq(DOMAIN heap) /\ Len(r) = Len(<<x>>) + Len(t)
          /\ \A k \in 1 .. Len(<<x>>) + Len(t) :
                 r[k] = IF k <= Len(<<x>>) THEN <<x>>[k] ELSE t[k - Len(<<x>>)]
      BY <2>4, <3>1, ConcatProperties
    <3>3. /\ 1 \in 1 .. 1 + (n - 1)
          /\ \A k \in 1 .. n : k \in 1 .. 1 + (n - 1) /\ (k # 1 => ~(k <= 1))
      BY <2>1
    <3> HIDE DEF r
    <3> QED
      BY <2>3, <3>1, <3>2, <3>3
  <2> HIDE DEF t, r, x, s, n
  <2>6. \A k \in 1 .. n : r[k] = s[k]
    <3>1. \A k \in 1 .. n : k # 1 => k - 1 \in 1 .. n - 1 /\ 1 + (k - 1) = k
      BY <2>1
    <3> QED
      BY <2>1, <2>3, <2>5, <3>1
  <2>7. Len(r) = n
    BY <2>1, <2>5
  <2>8. r = s
    BY <2>1, <2>5, <2>6, <2>7, SeqEqual DEF n
  <2> QED
    BY <1>3, <2>3, <2>8 DEF Held, r, s, x
<1> QED
  BY <1>2, <1>3

\* Intact implies the types.
LEMMA IntactTypes ==
    ASSUME Intact
    PROVE  TypeOK
<1>1. /\ Memory(heap, queue, stack, Hand) /\ IsHeap(heap) /\ queue \in QueueType
      /\ stack \in Seq(WalkType) /\ Linked(heap, queue.head, Hand[0])
      /\ Ends(queue, Hand[0]) /\ Len(Hand[0]) \in Nat
      /\ Calls(queue, stack) /\ crashed \in BOOLEAN
  BY IntactHand DEF Intact
<1>2. queue \in Queues
  <2>1. queue.entries \in 0 .. MaxCells
    <3>1. Len(Hand[0]) <= MaxCells /\ queue.entries = Len(Hand[0])
      BY <1>1, LinkedFits DEF Ends
    <3> QED
      BY <1>1, <3>1, QueueConstants
  <2>2. queue.ref_count \in 0 .. MaxWalks + 1
    <3>1. /\ Count(stack) \in Nat /\ Count(stack) <= Len(stack)
          /\ Len(stack) <= MaxWalks /\ Len(stack) \in Nat
          /\ queue.ref_count \in {Count(stack), Count(stack) + 1}
      BY <1>1, CountFits, NoWalks DEF Calls
    <3> QED
      BY <3>1, QueueConstants
  <2> HIDE DEF Hand
  <2> QED
    BY <1>1, <2>1, <2>2 DEF QueueType, Queues, Pointer
<1>3. ASSUME NEW i \in DOMAIN stack
      PROVE  /\ stack[i].kind \in {"foreach", "drain", "filter"}
             /\ stack[i].at \in Data
             /\ {stack[i].entry, stack[i].tmp} \subseteq Cells \cup {Null}
             /\ stack[i].match \subseteq Data
             /\ {stack[i].wild, stack[i].destroys} \subseteq BOOLEAN
  <2>1. stack[i] \in WalkType
    BY <1>1, ElementOfSeq, LenProperties
  <2>2. /\ stack[i].kind \in {"foreach", "drain", "filter"} /\ stack[i].at \in Data
        /\ stack[i].entry \in Pointer /\ stack[i].wild \in BOOLEAN
        /\ stack[i].tmp \in Pointer
        /\ stack[i].match \in SUBSET Data /\ stack[i].destroys \in BOOLEAN
    BY <2>1, WalkFields
  <2>3. {stack[i].wild, stack[i].destroys} \subseteq BOOLEAN
    BY <2>2, Zenon
  <2> QED
    BY <2>2, <2>3 DEF Pointer
<1>4. /\ DOMAIN heap \subseteq Cells
      /\ \A c \in DOMAIN heap : heap[c] \in [data : Data, next : Cells \cup {Null}]
  BY <1>1, HeapCells DEF IsHeap, Pointer
<1>5. Len(stack) <= MaxWalks
  BY <1>1 DEF Calls
<1> QED
  BY <1>1, <1>2, <1>3, <1>4, <1>5 DEF TypeOK

\* It implies that entries is the length of the list.
LEMMA IntactCounted ==
    ASSUME Intact
    PROVE  Counted
<1>1. List = Hand[0] /\ Ends(queue, Hand[0])
  BY IntactHand
<1> QED
  BY <1>1 DEF Counted, Ends

\* It implies that every cell is in the list of the queue or of a walk.
LEMMA IntactHeld ==
    ASSUME Intact
    PROVE  NothingLeaks
<1> DEFINE n == Len(stack)
           held == [i \in 0 .. n |-> IF i = 0 THEN List ELSE Held(stack[i])]
<1>1. /\ Memory(heap, queue, stack, Hand) /\ stack \in Seq(WalkType)
      /\ List = Hand[0] /\ n \in Nat
  BY IntactHand, NoWalks
<1>2. DOMAIN held = 0 .. n /\ \A i \in 0 .. n : held[i] = Hand[i]
  <2>1. \A i \in 0 .. n : i # 0 => i \in 1 .. n
    BY <1>1
  <2>2. \A i \in 0 .. n : i # 0 => Held(stack[i]) = Hand[i]
    BY <2>1, HeldIs
  <2> QED
    BY <1>1, <2>2
<1>3. \A i \in 0 .. n : /\ DOMAIN held[i] = 1 .. Len(Hand[i])
                        /\ \A k \in 1 .. Len(Hand[i]) :
                               Hand[i][k] \in DOMAIN heap /\ Hand[i][k] \in Cells
                        /\ Different(Hand[i])
  <2> SUFFICES ASSUME NEW i \in 0 .. n
               PROVE  /\ DOMAIN held[i] = 1 .. Len(Hand[i])
                      /\ \A k \in 1 .. Len(Hand[i]) :
                             Hand[i][k] \in DOMAIN heap /\ Hand[i][k] \in Cells
                      /\ Different(Hand[i])
    OBVIOUS
  <2>1. /\ Hand[i] \in Seq(DOMAIN heap) /\ Different(Hand[i])
        /\ \A k \in 1 .. Len(Hand[i]) : Hand[i][k] \in DOMAIN heap
    BY <1>1, MemoryLinks
  <2>2. DOMAIN heap \subseteq Cells
    BY IntactHand DEF IsHeap
  <2> HIDE DEF held
  <2> QED
    BY <1>2, <2>1, <2>2, LenProperties
<1> HIDE DEF held
<1>4. /\ \A i, j \in 0 .. n, c \in Cells :
            InList(c, Hand[i]) /\ InList(c, Hand[j]) => i = j
      /\ \A c \in DOMAIN heap : \E i \in 0 .. n : InList(c, Hand[i])
  BY <1>1 DEF Memory, Lists
<1> HIDE DEF n
<1>5. DOMAIN heap = UNION {{held[i][j] : j \in DOMAIN held[i]} : i \in DOMAIN held}
  <2>1. ASSUME NEW c \in DOMAIN heap
        PROVE  \E i \in DOMAIN held : \E j \in DOMAIN held[i] : c = held[i][j]
    <3>1. PICK i \in 0 .. n : InList(c, Hand[i])
      BY <1>4
    <3>2. PICK k \in 1 .. Len(Hand[i]) : Hand[i][k] = c
      BY <3>1 DEF InList
    <3> QED
      BY <1>2, <1>3, <3>2
  <2>2. ASSUME NEW i \in DOMAIN held, NEW j \in DOMAIN held[i]
        PROVE  held[i][j] \in DOMAIN heap
    BY <1>2, <1>3
  <2> QED
    BY <2>1, <2>2
<1>6. ASSUME NEW i \in DOMAIN held, NEW j \in DOMAIN held,
             NEW k \in DOMAIN held[i], NEW m \in DOMAIN held[j],
             held[i][k] = held[j][m]
      PROVE  i = j /\ k = m
  <2>1. /\ i \in 0 .. n /\ j \in 0 .. n /\ held[i] = Hand[i] /\ held[j] = Hand[j]
        /\ k \in 1 .. Len(Hand[i]) /\ m \in 1 .. Len(Hand[j])
        /\ Hand[i][k] = Hand[j][m] /\ Hand[i][k] \in Cells
        /\ Different(Hand[i])
    BY <1>2, <1>3, <1>6
  <2>2. InList(Hand[i][k], Hand[i]) /\ InList(Hand[i][k], Hand[j])
    BY <2>1 DEF InList
  <2>3. i = j
    BY <1>4, <2>1, <2>2
  <2> QED
    BY <2>1, <2>3 DEF Different
<1> QED
  BY <1>5, <1>6 DEF NothingLeaks, held, n

-----------------------------------------------------------------------------
\* The list, the cells that are handed out and the two counts stay intact
\* through every call from a callback, for any number of cells and walks
\* (queue.c: each function resets head, tail and entries before the callback).
THEOREM ListStaysIntact == Spec => []ListIntact
<1>1. Init => Intact
  BY IntactInit
<1>2. Intact /\ [Next]_vars => Intact'
  BY IntactStep
<1>3. Intact => ListIntact
  BY IntactTypes, IntactCounted, IntactHeld DEF ListIntact
<1> QED
  BY <1>1, <1>2, <1>3, PTL DEF Spec

-----------------------------------------------------------------------------
(* What a caller sees: the data of the lists, and how much of the queue each *)
(* queue_foreach has left                                                  *)

DataOf(h, s) == [k \in 1 .. Len(s) |-> h[s[k]].data]

Place(c, s) == CHOOSE k \in 1 .. Len(s) : s[k] = c

LeftBy(s, w) ==
    IF w.kind # "foreach" \/ w.entry = Null THEN 0
    ELSE IF w.wild \/ ~InList(w.entry, s) THEN -1
    ELSE Len(s) - Place(w.entry, s) + 1

Seen(h, s, r, w) ==
    [kind |-> w.kind, at |-> w.at, left |-> LeftBy(s, w),
     rest |-> IF w.kind = "drain" THEN DataOf(h, After(r, 1)) ELSE << >>,
     match |-> w.match, destroys |-> w.destroys]

View(h, L, st) == [i \in 1 .. Len(st) |-> Seen(h, L[0], L[i], st[i])]

\* In a list without repetition the place of a cell is known.
LEMMA PlaceIs ==
    ASSUME NEW s, Different(s), NEW k \in 1 .. Len(s)
    PROVE  InList(s[k], s) /\ Place(s[k], s) = k
BY DEF InList, Place, Different

\* The data of a list, in its order.
LEMMA DataIs ==
    ASSUME NEW h, IsHeap(h), NEW c, NEW s, Linked(h, c, s)
    PROVE  /\ DataOf(h, s) \in Seq(Data) /\ Len(DataOf(h, s)) = Len(s)
           /\ DOMAIN DataOf(h, s) = 1 .. Len(s)
           /\ \A k \in 1 .. Len(s) : DataOf(h, s)[k] = h[s[k]].data
           /\ DataOf(h, s) = << >> <=> Len(s) = 0
<1> DEFINE n == Len(s)
           q == DataOf(h, s)
<1>1. s \in Seq(DOMAIN h) /\ n \in Nat
  BY LenProperties DEF Linked
<1>2. \A k \in 1 .. n : h[s[k]].data \in Data
  <2>1. \A k \in 1 .. n : s[k] \in DOMAIN h
    BY <1>1, ElementOfSeq
  <2> QED
    BY <2>1, HeapCells
<1>3. q \in [1 .. n -> Data]
  BY <1>2 DEF DataOf
<1> HIDE DEF q, n
<1>4. q \in Seq(Data) /\ Len(q) = n
  BY <1>1, <1>3, LenOfFunction
<1>5. DOMAIN q = 1 .. n /\ \A k \in 1 .. n : q[k] = h[s[k]].data
  BY DEF q, n, DataOf
<1>6. q = << >> <=> n = 0
  BY <1>4, EmptySeq
<1> QED
  BY <1>4, <1>5, <1>6 DEF q, n

\* Contents, and LeftOf, of any state
DataAlong(h, s) == [i \in DOMAIN s |-> h[s[i]].data]

LeftAlong(h, qu, w) ==
    IF w.kind # "foreach" \/ w.entry = Null THEN 0
    ELSE IF w.wild \/ ~(\E i \in DOMAIN Along(h, qu.head) :
                            Along(h, qu.head)[i] = w.entry) THEN -1
    ELSE Len(Along(h, w.entry))

SeenAlong(h, qu, w) ==
    [kind |-> w.kind, at |-> w.at, left |-> LeftAlong(h, qu, w),
     rest |-> IF w.kind = "drain" THEN DataAlong(h, Along(h, w.entry))
                                  ELSE << >>,
     match |-> w.match, destroys |-> w.destroys]

\* What a walk has left, counted in the heap and in the list.
LEMMA LeftAlongIs ==
    ASSUME NEW h, IsHeap(h), NEW qu, NEW s, Linked(h, qu.head, s), NEW w
    PROVE  LeftAlong(h, qu, w) = LeftBy(s, w)
<1>1. /\ Along(h, qu.head) = s /\ DOMAIN s = 1 .. Len(s) /\ Len(s) \in Nat
      /\ Different(s)
  BY AlongIs, LenProperties DEF Linked, Different
<1>2. (\E i \in DOMAIN Along(h, qu.head) : Along(h, qu.head)[i] = w.entry)
          <=> InList(w.entry, s)
  BY <1>1 DEF InList
<1>3. ASSUME InList(w.entry, s)
      PROVE  Len(Along(h, w.entry)) = Len(s) - Place(w.entry, s) + 1
  <2>1. PICK k \in 1 .. Len(s) : s[k] = w.entry
    BY <1>3 DEF InList
  <2>2. /\ k - 1 \in 0 .. Len(s) /\ (k - 1) + 1 = k /\ k - 1 # Len(s)
        /\ Len(s) - (k - 1) = Len(s) - k + 1
    BY <1>1
  <2>3. Next1(s, k - 1) = w.entry
    BY <2>1, <2>2 DEF Next1
  <2>4. Along(h, w.entry) = After(s, k - 1) /\ Len(After(s, k - 1)) = Len(s) - (k - 1)
    <3> DEFINE j == k - 1
               c == qu.head
    <3>1. j \in 0 .. Len(s) /\ Next1(s, j) = w.entry /\ Linked(h, c, s)
      BY <2>2, <2>3
    <3> HIDE DEF j, c
    <3>2. Along(h, Next1(s, j)) = After(s, j)
      BY <3>1, AlongSuffix
    <3>3. Len(After(s, j)) = Len(s) - j
      BY <3>1, LinkedSuffix
    <3> QED
      BY <3>1, <3>2, <3>3 DEF j
  <2>5. Place(w.entry, s) = k
    BY <1>1, <2>1, PlaceIs
  <2> QED
    BY <2>2, <2>4, <2>5
<1> QED
  BY <1>2, <1>3 DEF LeftAlong, LeftBy

\* The walks as the heap shows them are the walks as the lists show them.
LEMMA ViewIs ==
    ASSUME NEW h, NEW qu, NEW st, NEW L, Memory(h, qu, st, L)
    PROVE  /\ DataAlong(h, Along(h, qu.head)) = DataOf(h, L[0])
           /\ [i \in DOMAIN st |-> SeenAlong(h, qu, st[i])] = View(h, L, st)
<1>1. /\ IsHeap(h) /\ Linked(h, qu.head, L[0]) /\ Len(st) \in Nat
      /\ DOMAIN st = 1 .. Len(st)
  <2>1. 0 \in 0 .. Len(st) /\ Len(st) \in Nat /\ DOMAIN st = 1 .. Len(st)
    BY NoWalks DEF Memory, Types
  <2>2. Linked(h, Begin(qu, st, 0), L[0])
    BY <2>1, MemoryLinks
  <2> QED
    BY <2>1, <2>2 DEF Begin, Memory, Types
<1>2. DataAlong(h, Along(h, qu.head)) = DataOf(h, L[0])
  <2>1. Along(h, qu.head) = L[0] /\ DOMAIN L[0] = 1 .. Len(L[0])
    BY <1>1, AlongIs, LenProperties DEF Linked
  <2> QED
    BY <2>1 DEF DataAlong, DataOf
<1>3. ASSUME NEW i \in 1 .. Len(st)
      PROVE  SeenAlong(h, qu, st[i]) = Seen(h, L[0], L[i], st[i])
  <2>1. LeftAlong(h, qu, st[i]) = LeftBy(L[0], st[i])
    BY <1>1, LeftAlongIs
  <2>2. ASSUME st[i].kind = "drain"
        PROVE  DataAlong(h, Along(h, st[i].entry)) = DataOf(h, After(L[i], 1))
    <3> DEFINE s == L[i]
               x == st[i].tmp
    <3>1. /\ Linked(h, x, s) /\ 1 \in 1 .. Len(s)
          /\ Len(s) \in Nat /\ st[i].entry = Next1(s, 1)
      BY <2>2, DrainHand
    <3>2. 1 \in 0 .. Len(s)
      BY <3>1
    <3> HIDE DEF s, x
    <3>3. Along(h, Next1(s, 1)) = After(s, 1)
      BY <1>1, <3>1, <3>2, AlongSuffix
    <3>4. Linked(h, Next1(s, 1), After(s, 1))
      BY <3>1, <3>2, LinkedSuffix
    <3>5. DOMAIN After(s, 1) = 1 .. Len(After(s, 1))
      BY <3>4, LenProperties DEF Linked
    <3> QED
      BY <3>1, <3>3, <3>5 DEF DataAlong, DataOf, s
  <2> QED
    BY <2>1, <2>2 DEF SeenAlong, Seen
<1> QED
  BY <1>1, <1>2, <1>3 DEF View

\* The refinement mapping, by the lists.
LEMMA SeenNow ==
    ASSUME Intact
    PROVE  Contents = DataOf(heap, Hand[0]) /\ Walks = View(heap, Hand, stack)
<1>1. /\ Contents = DataAlong(heap, Along(heap, queue.head))
      /\ Walks = [i \in DOMAIN stack |-> SeenAlong(heap, queue, stack[i])]
  <2>1. Contents = DataAlong(heap, Along(heap, queue.head))
    BY DEF Contents, Datas, List, Chain, DataAlong
  <2>2. \A w : LeftOf(w) = LeftAlong(heap, queue, w)
    BY DEF LeftOf, Listed, List, Chain, LeftAlong
  <2> QED
    BY <2>1, <2>2 DEF Walks, Datas, Chain, DataAlong, SeenAlong
<1> QED
  BY <1>1, IntactHand, ViewIs

\* The same after a step.
LEMMA SeenNext ==
    ASSUME NEW L, Memory(heap', queue', stack', L)
    PROVE  Contents' = DataOf(heap', L[0]) /\ Walks' = View(heap', L, stack')
<1> DEFINE h2 == heap'
           u == queue'
           t == stack'
<1>1. /\ Contents' = DataAlong(h2, Along(h2, u.head))
      /\ Walks' = [i \in DOMAIN t |-> SeenAlong(h2, u, t[i])]
  <2>1. Contents' = DataAlong(h2, Along(h2, u.head))
    BY DEF Contents, Datas, List, Chain, DataAlong
  <2>3. Walks' = [i \in DOMAIN t |-> SeenAlong(h2, u, t[i])]
    BY DEF Walks, Datas, Chain, DataAlong, SeenAlong, LeftOf, Listed, List,
           LeftAlong
  <2> QED
    BY <2>1, <2>3
<1>2. Memory(h2, u, t, L)
  OBVIOUS
<1> HIDE DEF h2, u, t
<1>3. /\ DataAlong(h2, Along(h2, u.head)) = DataOf(h2, L[0])
      /\ [i \in DOMAIN t |-> SeenAlong(h2, u, t[i])] = View(h2, L, t)
  BY <1>2, ViewIs
<1> QED
  BY <1>1, <1>3 DEF h2, t

-----------------------------------------------------------------------------
(* An insertion and a removal, as the sequences that Queue speaks of *)

Joined(a, b) == a \o b

Joins(c, S, a, b, i, j) ==
    /\ c \in Seq(S) /\ Len(c) = i + j
    /\ \A k \in 1 .. i + j : c[k] = IF k <= i THEN a[k] ELSE b[k - i]

\* The elements of two sequences one after the other.
LEMMA JoinedIs ==
    ASSUME NEW S, NEW a \in Seq(S), NEW b \in Seq(S),
           NEW i, Len(a) = i, NEW j, Len(b) = j
    PROVE  Joins(Joined(a, b), S, a, b, i, j)
BY ConcatProperties DEF Joined, Joins

\* The elements of a sequence behind its i-th.
LEMMA AfterIs ==
    ASSUME NEW S, NEW s \in Seq(S), NEW i \in 0 .. Len(s)
    PROVE  /\ After(s, i) \in Seq(S) /\ Len(After(s, i)) = Len(s) - i
           /\ \A k \in 1 .. Len(s) - i : After(s, i)[k] = s[i + k]
<1> DEFINE n == Len(s)
           r == SubSeq(s, i + 1, n)
<1>1. n \in Nat /\ i \in 0 .. n
  BY LenProperties
<1>2. /\ i + 1 \in Int /\ n \in Int /\ (i + 1 <= n => n - (i + 1) + 1 = n - i)
      /\ \A k \in i + 1 .. n : k \in 1 .. n
      /\ \A k \in 1 .. n - i : (i + 1) + k - 1 = i + k
      /\ (~(i + 1 <= n) => n - i = 0)
  BY <1>1
<1>3. \A k \in i + 1 .. n : s[k] \in S
  BY <1>1, <1>2, ElementOfSeq
<1>4. /\ r \in Seq(S)
      /\ Len(r) = IF i + 1 <= n THEN n - (i + 1) + 1 ELSE 0
      /\ \A k \in 1 .. n - (i + 1) + 1 : r[k] = s[(i + 1) + k - 1]
  BY <1>2, <1>3, SubSeqProperties
<1>5. n - (i + 1) + 1 = n - i
  BY <1>1
<1> HIDE DEF r, n
<1>6. Len(r) = n - i
  BY <1>1, <1>2, <1>4, <1>5
<1>7. \A k \in 1 .. n - i : r[k] = s[i + k]
  BY <1>2, <1>4, <1>5
<1> QED
  BY <1>4, <1>6, <1>7 DEF After, r, n

\* An insertion in the form Queue has it.
LEMMA InsertedSeq ==
    ASSUME NEW S, NEW s \in Seq(S), NEW i \in 0 .. Len(s), NEW d \in S
    PROVE  /\ Inserted(s, i, d)
                  = SubSeq(s, 1, i) \o <<d>> \o SubSeq(s, i + 1, Len(s))
           /\ i = 0 => Inserted(s, i, d) = <<d>> \o s
           /\ i = Len(s) => Inserted(s, i, d) = Append(s, d)
<1> DEFINE n == Len(s)
           r == Inserted(s, i, d)
           a == SubSeq(s, 1, i)
           b == After(s, i)
           m == <<d>>
<1>1. n \in Nat /\ i \in 0 .. n /\ \A k \in 1 .. n : s[k] \in S
  BY LenProperties, ElementOfSeq
<1>2. /\ r \in Seq(S) /\ Len(r) = n + 1
      /\ \A k \in 1 .. n + 1 : r[k] = IF k <= i THEN s[k]
                                      ELSE IF k = i + 1 THEN d ELSE s[k - 1]
  <2>1. r \in Seq(S) /\ Len(r) = n + 1
    BY InsertedElements
  <2>2. \A k \in 1 .. n + 1 : r[k] = IF k <= i THEN s[k]
                                     ELSE IF k = i + 1 THEN d ELSE s[k - 1]
    BY InsertedElements
  <2> QED
    BY <2>1, <2>2
<1>3. a \in Seq(S) /\ Len(a) = i /\ \A k \in 1 .. i : a[k] = s[k]
  <2>1. \A k \in 1 .. i : s[k] \in S
    BY <1>1
  <2> QED
    BY <1>1, <2>1, SubSeqProperties
<1>4. b \in Seq(S) /\ Len(b) = n - i /\ \A k \in 1 .. n - i : b[k] = s[i + k]
  BY <1>1, AfterIs
<1>5. m \in Seq(S) /\ Len(m) = 1 /\ m[1] = d
  OBVIOUS
<1> HIDE DEF n, r, a, b, m
<1>6. /\ Joined(a, m) \in Seq(S) /\ Len(Joined(a, m)) = i + 1
      /\ \A k \in 1 .. i + 1 : Joined(a, m)[k] = IF k <= i THEN s[k] ELSE d
  <2>1. /\ Joined(a, m) \in Seq(S) /\ Len(Joined(a, m)) = i + 1
        /\ \A k \in 1 .. i + 1 :
               Joined(a, m)[k] = IF k <= i THEN a[k] ELSE m[k - i]
    <3>1. Joins(Joined(a, m), S, a, m, i, 1)
      BY <1>3, <1>5, JoinedIs
    <3> QED
      BY <3>1 DEF Joins
  <2>2. \A k \in 1 .. i + 1 : /\ k <= i => k \in 1 .. i
                              /\ ~(k <= i) => k - i = 1
    BY <1>1
  <2> QED
    BY <1>3, <1>5, <2>1, <2>2
<1>7. /\ Joined(Joined(a, m), b) \in Seq(S) /\ Len(Joined(Joined(a, m), b)) = n + 1
      /\ \A k \in 1 .. n + 1 : Joined(Joined(a, m), b)[k] =
             IF k <= i + 1 THEN Joined(a, m)[k] ELSE b[k - (i + 1)]
  <2> DEFINE c == Joined(a, m)
  <2>1. c \in Seq(S) /\ Len(c) = i + 1
    BY <1>6
  <2> HIDE DEF c
  <2>2. Joins(Joined(c, b), S, c, b, i + 1, n - i)
    BY <1>4, <2>1, JoinedIs
  <2>3. (i + 1) + (n - i) = n + 1
    BY <1>1
  <2> QED
    BY <2>2, <2>3 DEF c, Joins
<1>8. r = Joined(Joined(a, m), b)
  <2> DEFINE c == Joined(Joined(a, m), b)
  <2>1. \A k \in 1 .. n + 1 : r[k] = c[k]
    <3>1. \A k \in 1 .. n + 1 :
              /\ k <= i => k <= i + 1 /\ k \in 1 .. i + 1
              /\ k = i + 1 => ~(k <= i) /\ k <= i + 1
              /\ ~(k <= i + 1) => /\ ~(k <= i) /\ k # i + 1
                                  /\ k - (i + 1) \in 1 .. n - i
                                  /\ i + (k - (i + 1)) = k - 1
              /\ k <= i \/ k = i + 1 \/ ~(k <= i + 1)
      BY <1>1
    <3>2. \A k \in 1 .. n + 1 : c[k] = IF k <= i + 1 THEN Joined(a, m)[k]
                                                     ELSE b[k - (i + 1)]
      BY <1>7
    <3> HIDE DEF c
    <3> QED
      BY <1>2, <1>4, <1>6, <3>1, <3>2, SMTT(40)
  <2>2. c \in Seq(S) /\ Len(c) = n + 1
    BY <1>7
  <2> HIDE DEF c
  <2>3. r = c
    BY <1>2, <2>1, <2>2, SeqEqual
  <2> QED
    BY <2>3 DEF c
<1>9. i = 0 => r = Joined(m, s)
  <2> SUFFICES ASSUME i = 0 PROVE r = Joined(m, s)
    OBVIOUS
  <2>1. /\ Joined(m, s) \in Seq(S) /\ Len(Joined(m, s)) = 1 + n
        /\ \A k \in 1 .. 1 + n :
               Joined(m, s)[k] = IF k <= 1 THEN m[k] ELSE s[k - 1]
    <3>1. Joins(Joined(m, s), S, m, s, 1, n)
      BY <1>5, JoinedIs DEF n
    <3> QED
      BY <3>1 DEF Joins
  <2>2. \A k \in 1 .. n + 1 : /\ ~(k <= i) /\ (k = i + 1 <=> k = 1)
                              /\ (k <= 1 <=> k = 1)
    BY <1>1
  <2>3. 1 + n = n + 1
    BY <1>1
  <2> DEFINE c == Joined(m, s)
  <2>4. c \in Seq(S) /\ Len(c) = n + 1 /\ \A k \in 1 .. n + 1 : r[k] = c[k]
    BY <1>2, <1>5, <2>1, <2>2, <2>3
  <2> HIDE DEF c
  <2>5. r = c
    BY <1>2, <2>4, SeqEqual
  <2> QED
    BY <2>5 DEF c
<1>10. i = n => r = Append(s, d)
  <2> SUFFICES ASSUME i = n PROVE r = Append(s, d)
    OBVIOUS
  <2> DEFINE c == Append(s, d)
  <2>1. /\ c \in Seq(S) /\ Len(c) = n + 1 /\ c[n + 1] = d
        /\ \A k \in 1 .. n : c[k] = s[k]
    BY AppendProperties DEF n
  <2>2. \A k \in 1 .. n + 1 : (k <= i /\ k \in 1 .. n) \/ (k = n + 1 /\ ~(k <= i))
    BY <1>1
  <2> HIDE DEF c
  <2>3. \A k \in 1 .. n + 1 : r[k] = c[k]
    BY <1>2, <2>1, <2>2
  <2>4. r = c
    BY <1>2, <2>1, <2>3, SeqEqual
  <2> QED
    BY <2>4 DEF c
<1> QED
  BY <1>8, <1>9, <1>10 DEF r, a, m, b, n, After, Joined

\* A removal in the form Queue has it.
LEMMA RemovedSeq ==
    ASSUME NEW S, NEW s \in Seq(S), NEW i \in 1 .. Len(s)
    PROVE  /\ Removed(s, i) = SubSeq(s, 1, i - 1) \o SubSeq(s, i + 1, Len(s))
           /\ i = 1 => Removed(s, i) = After(s, 1)
<1> DEFINE n == Len(s)
           r == Removed(s, i)
           a == SubSeq(s, 1, i - 1)
           b == After(s, i)
<1>1. n \in Nat /\ i \in 1 .. n /\ i \in 0 .. n /\ \A k \in 1 .. n : s[k] \in S
  BY LenProperties, ElementOfSeq
<1>2. /\ r \in Seq(S) /\ Len(r) = n - 1
      /\ \A k \in 1 .. n - 1 : r[k] = IF k < i THEN s[k] ELSE s[k + 1]
  BY RemovedElements
<1>3. a \in Seq(S) /\ Len(a) = i - 1 /\ \A k \in 1 .. i - 1 : a[k] = s[k]
  <2>1. \A k \in 1 .. i - 1 : s[k] \in S
    BY <1>1
  <2>2. i - 1 \in Nat
    BY <1>1
  <2> QED
    BY <2>1, <2>2, SubSeqProperties
<1>4. b \in Seq(S) /\ Len(b) = n - i /\ \A k \in 1 .. n - i : b[k] = s[i + k]
  BY <1>1, AfterIs
<1> HIDE DEF n, r, a, b
<1>5. /\ Joined(a, b) \in Seq(S) /\ Len(Joined(a, b)) = (i - 1) + (n - i)
      /\ \A k \in 1 .. (i - 1) + (n - i) :
             Joined(a, b)[k] = IF k <= i - 1 THEN a[k] ELSE b[k - (i - 1)]
  <2>1. Joins(Joined(a, b), S, a, b, i - 1, n - i)
    BY <1>3, <1>4, JoinedIs
  <2> QED
    BY <2>1 DEF Joins
<1>6. /\ (i - 1) + (n - i) = n - 1
      /\ \A k \in 1 .. n - 1 :
            /\ k < i <=> k <= i - 1
            /\ k < i => k \in 1 .. i - 1
            /\ ~(k < i) => k - (i - 1) \in 1 .. n - i /\ i + (k - (i - 1)) = k + 1
  BY <1>1
<1>7. r = Joined(a, b)
  <2> DEFINE c == Joined(a, b)
  <2>1. \A k \in 1 .. n - 1 : r[k] = c[k]
    <3>1. \A k \in 1 .. n - 1 :
              c[k] = IF k <= i - 1 THEN a[k] ELSE b[k - (i - 1)]
      BY <1>5, <1>6
    <3> HIDE DEF c
    <3>2. ASSUME NEW k \in 1 .. n - 1, k < i PROVE r[k] = c[k]
      BY <1>2, <1>3, <1>6, <3>1, <3>2
    <3>3. ASSUME NEW k \in 1 .. n - 1, ~(k < i) PROVE r[k] = c[k]
      BY <1>2, <1>4, <1>6, <3>1, <3>3, SMTT(40)
    <3> QED
      BY <3>2, <3>3
  <2>2. c \in Seq(S) /\ Len(c) = n - 1
    BY <1>5, <1>6
  <2> HIDE DEF c
  <2>3. r = c
    BY <1>2, <2>1, <2>2, SeqEqual
  <2> QED
    BY <2>3 DEF c
<1>8. i = 1 => r = b
  <2>1. i = 1 => \A k \in 1 .. n - 1 : ~(k < i) /\ i + k = k + 1
    BY <1>1
  <2>2. i = 1 => Len(b) = n - 1 /\ \A k \in 1 .. n - 1 : b[k] = r[k]
    BY <1>2, <1>4, <2>1
  <2> QED
    BY <1>2, <1>4, <2>2, SeqEqual
<1> QED
  BY <1>7, <1>8 DEF r, a, b, n, After, Joined

\* The data after an insertion in the list.
LEMMA DataInserted ==
    ASSUME NEW h, IsHeap(h), NEW h2, NEW c, NEW s, Linked(h, c, s),
           NEW i \in 0 .. Len(s), NEW d, NEW f, f \notin DOMAIN h,
           Spliced(h, h2, s, i, d, f)
    PROVE  DataOf(h2, Inserted(s, i, f)) = Inserted(DataOf(h, s), i, d)
<1> DEFINE n == Len(s)
           r == Inserted(s, i, f)
           q == DataOf(h, s)
<1>1. /\ n \in Nat /\ i \in 0 .. n /\ s \in Seq(DOMAIN h)
      /\ \A k \in 1 .. n : s[k] \in DOMAIN h
  BY LenProperties, ElementOfSeq DEF Linked
<1>2. Len(q) = n /\ \A k \in 1 .. n : q[k] = h[s[k]].data
  BY DataIs
<1>3. /\ DOMAIN r = 1 .. n + 1 /\ Len(r) = n + 1
      /\ \A k \in 1 .. n + 1 : r[k] = IF k <= i THEN s[k]
                                      ELSE IF k = i + 1 THEN f ELSE s[k - 1]
  <2> DEFINE S == DOMAIN h \cup {f}
  <2>1. s \in Seq(S) /\ f \in S
    BY <1>1, SeqMonotonic
  <2> HIDE DEF S
  <2>2. r \in Seq(S) /\ Len(r) = n + 1
    BY <2>1, InsertedElements
  <2>3. \A k \in 1 .. n + 1 : r[k] = IF k <= i THEN s[k]
                                     ELSE IF k = i + 1 THEN f ELSE s[k - 1]
    BY <2>1, InsertedElements
  <2> QED
    BY <2>2, <2>3, LenProperties
<1> HIDE DEF n, r, q
<1>4. ASSUME NEW k \in 1 .. n + 1
      PROVE  h2[r[k]].data = IF k <= i THEN q[k]
                             ELSE IF k = i + 1 THEN d ELSE q[k - 1]
  <2>0. /\ k <= i => k \in 1 .. n
        /\ ~(k <= i) /\ k # i + 1 => k - 1 \in 1 .. n
    BY <1>1
  <2>1. \A x \in DOMAIN h : h2[x].data = h[x].data
    BY DEF Spliced
  <2>2. h2[f].data = d
    BY DEF Spliced
  <2> QED
    BY <1>1, <1>2, <1>3, <2>0, <2>1, <2>2
<1>5. DataOf(h2, r) = [k \in 1 .. n + 1 |-> h2[r[k]].data]
  BY <1>3 DEF DataOf
<1>6. Inserted(q, i, d) = [k \in 1 .. n + 1 |-> IF k <= i THEN q[k]
                               ELSE IF k = i + 1 THEN d ELSE q[k - 1]]
  BY <1>2 DEF Inserted
<1> QED
  BY <1>4, <1>5, <1>6 DEF r, q

\* The data after a removal from it.
LEMMA DataRemoved ==
    ASSUME NEW h, IsHeap(h), NEW h2, NEW c, NEW s, Linked(h, c, s),
           NEW i \in 1 .. Len(s), Cut(h, h2, s, i)
    PROVE  DataOf(h2, Removed(s, i)) = Removed(DataOf(h, s), i)
<1> DEFINE n == Len(s)
           r == Removed(s, i)
           q == DataOf(h, s)
<1>1. /\ n \in Nat /\ i \in 1 .. n /\ s \in Seq(DOMAIN h) /\ Different(s)
      /\ \A k \in 1 .. n : s[k] \in DOMAIN h
  BY LenProperties, ElementOfSeq DEF Linked, Different
<1>2. Len(q) = n /\ \A k \in 1 .. n : q[k] = h[s[k]].data
  BY DataIs
<1>3. /\ Len(r) = n - 1
      /\ \A k \in 1 .. n - 1 : r[k] = IF k < i THEN s[k] ELSE s[k + 1]
  BY <1>1, RemovedElements
<1> HIDE DEF r, q
<1>4. ASSUME NEW k \in 1 .. n - 1
      PROVE  h2[r[k]].data = IF k < i THEN q[k] ELSE q[k + 1]
  <2>0. /\ k \in 1 .. n /\ k + 1 \in 1 .. n
        /\ k < i => k # i
        /\ ~(k < i) => k + 1 # i
    BY <1>1
  <2>1. ASSUME NEW x \in DOMAIN h, x # s[i] PROVE h2[x].data = h[x].data
    <3>1. x \in DOMAIN h2
      BY <2>1 DEF Cut
    <3>2. h2[x] = [data |-> h[x].data,
                   next |-> IF i > 1 /\ x = s[i - 1] THEN h[s[i]].next
                                                     ELSE h[x].next]
      BY <3>1 DEF Cut
    <3> QED
      BY <3>2
  <2>2. \A m \in 1 .. n : m # i => s[m] # s[i]
    BY <1>1 DEF Different
  <2> HIDE DEF n
  <2> QED
    BY <1>1, <1>2, <1>3, <2>0, <2>1, <2>2
<1>5. DataOf(h2, r) = [k \in 1 .. n - 1 |-> h2[r[k]].data]
  BY <1>3 DEF DataOf
<1>6. Removed(q, i) = [k \in 1 .. n - 1 |-> IF k < i THEN q[k] ELSE q[k + 1]]
  BY <1>2 DEF Removed
<1> HIDE DEF n
<1> QED
  BY <1>4, <1>5, <1>6 DEF r, q

SameData(h, h2, s) == \A k \in 1 .. Len(s) : h2[s[k]].data = h[s[k]].data

\* The rest of a list whose data did not change.
LEMMA DataKept ==
    ASSUME NEW h, NEW h2, NEW S, NEW s \in Seq(S), NEW i \in 0 .. Len(s),
           SameData(h, h2, s)
    PROVE  DataOf(h2, After(s, i)) = DataOf(h, After(s, i))
<1> DEFINE n == Len(s)
           t == After(s, i)
<1>1. n \in Nat /\ i \in 0 .. n
  BY LenProperties
<1>2. Len(t) = n - i /\ \A k \in 1 .. n - i : t[k] = s[i + k]
  BY AfterIs
<1> HIDE DEF t, n
<1>3. \A k \in 1 .. n - i : i + k \in 1 .. n
  BY <1>1
<1>4. \A k \in 1 .. Len(t) : h2[t[k]].data = h[t[k]].data
  BY <1>2, <1>3 DEF n, SameData
<1> QED
  BY <1>4 DEF DataOf, t

\* What a queue_foreach has left when a datum is put behind the i-th, when the
\* i-th is removed, and when all are
LEMMA LeftInserted ==
    ASSUME NEW S, NEW s \in Seq(S), Different(s), NEW i \in 0 .. Len(s),
           NEW f \in S, ~InList(f, s), NEW w,
           w.kind = "foreach" => w.wild \/ w.entry # f
    PROVE  LET left == LeftBy(s, w)
           IN  LeftBy(Inserted(s, i, f), w)
                   = IF left > Len(s) - i THEN left + 1 ELSE left
<1> DEFINE n == Len(s)
           r == Inserted(s, i, f)
           left == LeftBy(s, w)
<1>1. n \in Nat /\ i \in 0 .. n
  BY LenProperties
<1>2. /\ Different(r) /\ \A c : InList(c, r) <=> InList(c, s) \/ c = f
  BY InsertedCells
<1>3. r \in Seq(S) /\ Len(r) = n + 1
  BY InsertedElements
<1>4. \A k \in 1 .. n + 1 : r[k] = IF k <= i THEN s[k]
                                   ELSE IF k = i + 1 THEN f ELSE s[k - 1]
  BY InsertedElements
<1> HIDE DEF r
<1>5. CASE w.kind # "foreach" \/ w.entry = Null
  <2>1. left = 0 /\ LeftBy(r, w) = 0
    BY <1>5 DEF LeftBy
  <2> HIDE DEF left
  <2>2. ~(0 > n - i)
    BY <1>1
  <2> QED
    BY <2>1, <2>2 DEF r, left
<1>6. CASE /\ w.kind = "foreach" /\ w.entry # Null
           /\ w.wild \/ ~InList(w.entry, s)
  <2>1. left = -1 /\ LeftBy(r, w) = -1
    BY <1>2, <1>6 DEF LeftBy
  <2> HIDE DEF left
  <2>2. ~(-1 > n - i)
    BY <1>1
  <2> QED
    BY <2>1, <2>2 DEF r, left
<1>7. CASE w.kind = "foreach" /\ w.entry # Null /\ ~w.wild /\ InList(w.entry, s)
  <2>1. PICK k \in 1 .. n : s[k] = w.entry
    BY <1>7 DEF InList
  <2>2. left = n - k + 1
    BY <1>7, <2>1, PlaceIs DEF LeftBy
  <2> DEFINE m == IF k <= i THEN k ELSE k + 1
  <2>3. m \in 1 .. n + 1 /\ r[m] = w.entry
    BY <1>1, <1>4, <2>1, SMTT(40)
  <2>4. LeftBy(r, w) = (n + 1) - m + 1
    <3> HIDE DEF m
    <3>1. InList(w.entry, r) /\ Place(w.entry, r) = m
      BY <1>2, <1>3, <2>3, PlaceIs
    <3> QED
      BY <1>3, <1>7, <3>1 DEF LeftBy
  <2>5. n \in Nat /\ i \in 0 .. n /\ k \in 1 .. n
    BY <1>1
  <2> HIDE DEF left, n
  <2>6. (n + 1) - m + 1 = IF left > n - i THEN left + 1 ELSE left
    BY <2>2, <2>5
  <2> QED
    BY <2>4, <2>6 DEF r, left, n
<1> QED
  BY <1>5, <1>6, <1>7

\* What a removal does to the number of places a walk has left.
LEMMA LeftRemoved ==
    ASSUME NEW S, NEW s \in Seq(S), Different(s), NEW i \in 1 .. Len(s),
           NEW w, NEW v, v.kind = w.kind, v.entry = w.entry,
           v.wild <=> w.wild \/ w.entry = s[i]
    PROVE  LET left == LeftBy(s, w)
           IN  LeftBy(Removed(s, i), v)
                   = IF left <= Len(s) - i THEN left
                     ELSE IF left = Len(s) - i + 1 THEN -1 ELSE left - 1
<1> DEFINE n == Len(s)
           r == Removed(s, i)
           left == LeftBy(s, w)
<1>1. n \in Nat /\ i \in 1 .. n
  BY LenProperties
<1>2. /\ Different(r) /\ \A c : InList(c, r) <=> InList(c, s) /\ c # s[i]
  BY RemovedCells
<1>3. /\ Len(r) = n - 1
      /\ \A k \in 1 .. n - 1 : r[k] = IF k < i THEN s[k] ELSE s[k + 1]
  BY RemovedElements
<1> HIDE DEF r
<1>5. CASE w.kind # "foreach" \/ w.entry = Null
  <2>1. left = 0 /\ LeftBy(r, v) = 0
    BY <1>5 DEF LeftBy
  <2> HIDE DEF left
  <2>2. 0 <= n - i
    BY <1>1
  <2> QED
    BY <2>1, <2>2 DEF r, left
<1>6. CASE /\ w.kind = "foreach" /\ w.entry # Null
           /\ w.wild \/ ~InList(w.entry, s)
  <2>1. left = -1 /\ LeftBy(r, v) = -1
    BY <1>2, <1>6 DEF LeftBy
  <2> HIDE DEF left
  <2>2. -1 <= n - i
    BY <1>1
  <2> QED
    BY <2>1, <2>2 DEF r, left
<1>7. CASE w.kind = "foreach" /\ w.entry # Null /\ ~w.wild /\ InList(w.entry, s)
  <2>1. PICK k \in 1 .. n : s[k] = w.entry
    BY <1>7 DEF InList
  <2>2. left = n - k + 1
    BY <1>7, <2>1, PlaceIs DEF LeftBy
  <2>3. CASE k = i
    <3>1. LeftBy(r, v) = -1
      BY <1>7, <2>1, <2>3 DEF LeftBy
    <3> HIDE DEF left, n
    <3>2. ~(left <= n - i) /\ left = n - i + 1
      BY <1>1, <2>2, <2>3
    <3> QED
      BY <3>1, <3>2 DEF r, left, n
  <2>4. CASE k # i
    <3> DEFINE m == IF k < i THEN k ELSE k - 1
    <3>1. m \in 1 .. n - 1 /\ r[m] = w.entry
      BY <1>1, <1>3, <2>1, <2>4
    <3>2. LeftBy(r, v) = (n - 1) - m + 1
      <4> HIDE DEF m
      <4>1. InList(w.entry, r) /\ Place(w.entry, r) = m
        BY <1>2, <1>3, <3>1, PlaceIs
      <4>2. ~v.wild
        BY <1>2, <1>7, <4>1
      <4> QED
        BY <1>3, <1>7, <4>1, <4>2 DEF LeftBy
    <3>3. n \in Nat /\ i \in 1 .. n /\ k \in 1 .. n
      BY <1>1
    <3> HIDE DEF left, n
    <3>4. (n - 1) - m + 1 = IF left <= n - i THEN left
                            ELSE IF left = n - i + 1 THEN -1 ELSE left - 1
      BY <2>2, <2>4, <3>3
    <3> QED
      BY <3>2, <3>4 DEF r, left, n
  <2> QED
    BY <2>3, <2>4
<1> QED
  BY <1>5, <1>6, <1>7

\* What it does to take the whole list off the queue.
LEMMA LeftEmptied ==
    ASSUME NEW S, NEW s \in Seq(S), Different(s), NEW w
    PROVE  LET left == LeftBy(s, w)
           IN  LeftBy(<< >>, w) = IF left > 0 THEN -1 ELSE left
<1> DEFINE left == LeftBy(s, w)
<1>1. ~InList(w.entry, << >>)
  BY NoLinks
<1>2. CASE w.kind # "foreach" \/ w.entry = Null
  BY <1>2 DEF LeftBy
<1>3. CASE w.kind = "foreach" /\ w.entry # Null
  <2>1. LeftBy(<< >>, w) = -1
    BY <1>1, <1>3 DEF LeftBy
  <2>2. CASE w.wild \/ ~InList(w.entry, s)
    BY <1>3, <2>1, <2>2 DEF LeftBy
  <2>3. CASE ~w.wild /\ InList(w.entry, s)
    <3>1. PICK k \in 1 .. Len(s) : s[k] = w.entry
      BY <2>3 DEF InList
    <3>2. left = Len(s) - k + 1
      BY <1>3, <2>3, <3>1, PlaceIs DEF LeftBy
    <3>3. left > 0
      <4>1. Len(s) \in Nat
        BY LenProperties
      <4> HIDE DEF left
      <4> QED
        BY <3>2, <4>1
    <3> QED
      BY <2>1, <3>3
  <2> QED
    BY <2>2, <2>3
<1> QED
  BY <1>2, <1>3

\* A walk whose cells kept their data differs in `left' alone.
LEMMA SeenChanged ==
    ASSUME NEW h, NEW s, NEW r, NEW w, NEW h2, NEW s2, NEW r2, NEW v,
           v.kind = w.kind, v.at = w.at, v.match = w.match,
           v.destroys = w.destroys,
           w.kind = "drain" => DataOf(h2, After(r2, 1)) = DataOf(h, After(r, 1)),
           NEW left, LeftBy(s2, v) = left
    PROVE  Seen(h2, s2, r2, v) = [Seen(h, s, r, w) EXCEPT !.left = left]
BY DEF Seen

\* The lists of the walks lie apart from the queue's.
LEMMA HandLists ==
    ASSUME Intact, NEW k \in 1 .. Len(stack)
    PROVE  /\ Hand[k] \in Seq(DOMAIN heap) /\ k \in 0 .. Len(stack) /\ k # 0
           /\ \A j \in 1 .. Len(Hand[k]) : /\ Hand[k][j] \in DOMAIN heap
                                           /\ \A i \in 1 .. Len(Hand[0]) :
                                                  Hand[k][j] # Hand[0][i]
           /\ stack[k].kind = "drain" => 1 \in 0 .. Len(Hand[k])
           /\ stack[k] \in WalkType
           /\ stack[k].kind = "foreach" => \/ stack[k].wild
                                           \/ stack[k].entry = Null
                                           \/ stack[k].entry \in DOMAIN heap
<1>1. /\ Memory(heap, queue, stack, Hand) /\ k \in 0 .. Len(stack) /\ k # 0
      /\ 0 \in 0 .. Len(stack) /\ stack \in Seq(WalkType)
  BY IntactHand, NoWalks
<1>2. /\ Hand[k] \in Seq(DOMAIN heap)
      /\ \A j \in 1 .. Len(Hand[k]) : Hand[k][j] \in DOMAIN heap
      /\ \A c : InList(c, Hand[k]) => c \in DOMAIN heap /\ c \in Cells
  BY <1>1, MemoryLinks
<1>3. \A j \in 1 .. Len(Hand[k]), i \in 1 .. Len(Hand[0]) :
          Hand[k][j] # Hand[0][i]
  <2>1. \A c \in Cells : ~(InList(c, Hand[k]) /\ InList(c, Hand[0]))
    BY <1>1 DEF Memory, Lists
  <2> QED
    BY <1>2, <2>1 DEF InList
<1>4. stack[k].kind = "drain" => 1 \in 0 .. Len(Hand[k])
  <2> SUFFICES ASSUME stack[k].kind = "drain" PROVE 1 \in 0 .. Len(Hand[k])
    OBVIOUS
  <2>1. 1 \in 1 .. Len(Hand[k]) /\ Len(Hand[k]) \in Nat
    BY <1>1, DrainHand
  <2> QED
    BY <2>1
<1>5. stack[k].kind = "foreach" => \/ stack[k].wild
                                   \/ stack[k].entry = Null
                                   \/ stack[k].entry \in DOMAIN heap
  <2>1. Reached(stack, k, Hand)
    BY <1>1 DEF Memory, Hands
  <2>2. \A j \in 0 .. Len(stack) : \A c : InList(c, Hand[j]) => c \in DOMAIN heap
    BY <1>1, MemoryLinks
  <2> QED
    BY <2>1, <2>2 DEF Reached
<1>6. stack[k] \in WalkType
  BY <1>1, ElementOfSeq
<1> QED
  BY <1>1, <1>2, <1>3, <1>4, <1>5, <1>6

\* Contents and Walks, by the lists.
LEMMA SeenFacts ==
    ASSUME Intact
    PROVE  /\ Contents = DataOf(heap, Hand[0]) /\ Contents \in Seq(Data)
           /\ Len(Contents) = Len(Hand[0]) /\ DOMAIN Contents = 1 .. Len(Hand[0])
           /\ \A k \in 1 .. Len(Hand[0]) : Contents[k] = heap[Hand[0][k]].data
           /\ Contents = << >> <=> queue.head = Null
           /\ Walks = View(heap, Hand, stack) /\ DOMAIN Walks = 1 .. Len(stack)
           /\ \A k \in 1 .. Len(stack) :
                 Walks[k] = Seen(heap, Hand[0], Hand[k], stack[k])
<1>1. /\ Contents = DataOf(heap, Hand[0]) /\ Walks = View(heap, Hand, stack)
      /\ IsHeap(heap) /\ Linked(heap, queue.head, Hand[0])
  BY SeenNow, IntactHand
<1> DEFINE s == Hand[0]
           q == DataOf(heap, s)
<1>2. IsHeap(heap) /\ Linked(heap, queue.head, s)
  BY <1>1
<1> HIDE DEF s
<1>3. /\ q \in Seq(Data) /\ Len(q) = Len(s)
      /\ DOMAIN q = 1 .. Len(s)
      /\ \A k \in 1 .. Len(s) : q[k] = heap[s[k]].data
      /\ q = << >> <=> Len(s) = 0
  BY <1>2, DataIs
<1>4. queue.head = Null <=> Len(s) = 0
  BY <1>2, Heads
<1>5. /\ DOMAIN Walks = 1 .. Len(stack)
      /\ \A k \in 1 .. Len(stack) :
            Walks[k] = Seen(heap, Hand[0], Hand[k], stack[k])
  BY <1>1 DEF View
<1> HIDE DEF q
<1> QED
  BY <1>1, <1>3, <1>4, <1>5 DEF s, q

\* Ownership does not depend on where the walks are.
LEMMA OwnedAlike ==
    ASSUME Intact, Alike(stack, stack'), stack' \in Seq(WalkType),
           queue'.ref_count = queue.ref_count
    PROVE  Owned' = Owned
<1>1. Owned <=> queue.ref_count > Count(stack)
  BY DEF Owned, Count, Foreachs
<1>2. Owned' <=> queue'.ref_count > Count(stack')
  BY DEF Owned, Count, Foreachs
<1>3. Count(stack') = Count(stack)
  <2> DEFINE t == stack'
  <2>1. t \in Seq(WalkType) /\ Alike(stack, t) /\ stack \in Seq(WalkType)
    BY IntactHand
  <2> HIDE DEF t
  <2>2. Count(t) = Count(stack)
    BY <2>1, CountAlike
  <2> QED
    BY <2>2 DEF t
<1>4. Owned \in BOOLEAN /\ Owned' \in BOOLEAN
  BY DEF Owned
<1> QED
  BY <1>1, <1>2, <1>3, <1>4

\* A push as a caller sees it.
LEMMA PushedSeen ==
    ASSUME Intact, NEW d \in Data, NEW i, Pushed(d, i)
    PROVE  /\ i \in 0 .. Len(Contents) /\ Contents \in Seq(Data)
           /\ Contents' = Inserted(Contents, i, d)
           /\ Walks' = [k \in DOMAIN Walks |->
                 [Walks[k] EXCEPT !.left = IF @ > Len(Contents) - i THEN @ + 1
                                                                    ELSE @]]
           /\ Owned' = Owned /\ crashed' = crashed
<1> DEFINE s == Hand[0]
           r == Inserted(s, i, Fresh)
           M == [Hand EXCEPT ![0] = r]
           h2 == heap'
           f == Fresh
<1>1. /\ i \in 0 .. Len(s) /\ f \in Cells \ DOMAIN heap
      /\ Spliced(heap, h2, s, i, d, f)
      /\ Memory(h2, queue', stack', M)
      /\ queue'.ref_count = queue.ref_count
      /\ stack' = stack /\ crashed' = crashed
  BY DEF Pushed
<1>2. /\ Contents = DataOf(heap, s) /\ Contents \in Seq(Data)
      /\ Len(Contents) = Len(s) /\ DOMAIN Walks = 1 .. Len(stack)
      /\ \A k \in 1 .. Len(stack) : Walks[k] = Seen(heap, s, Hand[k], stack[k])
  BY SeenFacts
<1>3. /\ IsHeap(heap) /\ Linked(heap, queue.head, s) /\ stack \in Seq(WalkType)
      /\ s \in Seq(DOMAIN heap) /\ Different(s)
  BY IntactHand DEF Linked, Different
<1>4. M[0] = r /\ \A k \in 1 .. Len(stack) : M[k] = Hand[k]
  <2>1. DOMAIN Hand = 0 .. Len(stack) /\ 0 \in 0 .. Len(stack)
    BY <1>3, NoWalks DEF Hand, ListsOf
  <2>2. \A k \in 1 .. Len(stack) : k \in 0 .. Len(stack) /\ k # 0
    BY HandLists
  <2> QED
    BY <2>1, <2>2
<1> HIDE DEF M, h2, f
<1>5. Contents' = DataOf(h2, r) /\ Walks' = View(h2, M, stack)
  BY <1>1, <1>4, SeenNext DEF h2
<1>6. DataOf(h2, r) = Inserted(Contents, i, d)
  BY <1>1, <1>2, <1>3, DataInserted DEF f
<1>7. ASSUME NEW k \in 1 .. Len(stack)
      PROVE  Seen(h2, r, Hand[k], stack[k]) =
                 [Walks[k] EXCEPT !.left = IF @ > Len(Contents) - i THEN @ + 1
                                                                    ELSE @]
  <2> DEFINE w == stack[k]
             t == Hand[k]
             left == LeftBy(s, w)
             left2 == IF left > Len(s) - i THEN left + 1 ELSE left
  <2>1. /\ t \in Seq(DOMAIN heap)
        /\ \A j \in 1 .. Len(t) : t[j] \in DOMAIN heap
        /\ w.kind = "drain" => 1 \in 0 .. Len(t)
        /\ w.kind = "foreach" => w.wild \/ w.entry = Null \/ w.entry \in DOMAIN heap
    BY HandLists
  <2>2. w.kind = "foreach" => w.wild \/ w.entry # f
    BY <1>1, <2>1, QueueConstants DEF Cells, Null
  <2> HIDE DEF w, t
  <2>3. LeftBy(r, w) = left2
    <3> DEFINE S == DOMAIN heap \cup {f}
    <3>1. s \in Seq(S) /\ f \in S /\ ~InList(f, s)
      <4>1. \A j \in 1 .. Len(s) : s[j] \in DOMAIN heap
        BY <1>3, ElementOfSeq
      <4> QED
        BY <1>1, <1>3, <4>1, SeqMonotonic DEF InList
    <3> HIDE DEF S, s
    <3> QED
      BY <1>1, <1>3, <2>2, <3>1, LeftInserted DEF f
  <2>4. w.kind = "drain" => DataOf(h2, After(t, 1)) = DataOf(heap, After(t, 1))
    <3> SUFFICES ASSUME w.kind = "drain"
                 PROVE  DataOf(h2, After(t, 1)) = DataOf(heap, After(t, 1))
      OBVIOUS
    <3>1. \A c \in DOMAIN heap : h2[c].data = heap[c].data
      BY <1>1 DEF Spliced
    <3>2. /\ t \in Seq(DOMAIN heap) /\ 1 \in 0 .. Len(t)
          /\ SameData(heap, h2, t)
      BY <2>1, <3>1 DEF SameData
    <3> QED
      BY <3>2, DataKept
  <2> HIDE DEF left2, s, r
  <2>5. Seen(h2, r, t, w) = [Seen(heap, s, t, w) EXCEPT !.left = left2]
    BY <2>3, <2>4, SeenChanged
  <2>6. Walks[k] = Seen(heap, s, t, w) /\ Seen(heap, s, t, w).left = left
    BY <1>2 DEF t, w, Seen
  <2> HIDE DEF left
  <2>7. left2 = IF Walks[k].left > Len(Contents) - i THEN Walks[k].left + 1
                                                     ELSE Walks[k].left
    BY <1>2, <2>6 DEF left2
  <2> QED
    BY <2>5, <2>6, <2>7 DEF t, w
<1>8. Walks' = [k \in DOMAIN Walks |->
          [Walks[k] EXCEPT !.left = IF @ > Len(Contents) - i THEN @ + 1 ELSE @]]
  <2>1. Walks' = [k \in 1 .. Len(stack) |-> Seen(h2, r, Hand[k], stack[k])]
    BY <1>4, <1>5 DEF View
  <2> QED
    BY <1>2, <1>7, <2>1
<1>9. Owned' = Owned
  BY <1>1, <1>3, AlikeSelf, OwnedAlike
<1> QED
  BY <1>1, <1>2, <1>5, <1>6, <1>8, <1>9

\* A removal as a caller sees it.
LEMMA TakenSeen ==
    ASSUME Intact, NEW i, Taken(i)
    PROVE  /\ i \in DOMAIN Contents /\ i \in 1 .. Len(Contents)
           /\ Contents \in Seq(Data)
           /\ DataOf(heap', Removed(Hand[0], i)) = Removed(Contents, i)
           /\ View(heap', [Hand EXCEPT ![0] = Removed(Hand[0], i)],
                   Freed(stack, Hand[0][i]))
                = [k \in DOMAIN Walks |->
                     [Walks[k] EXCEPT !.left =
                        IF @ <= Len(Contents) - i THEN @
                        ELSE IF @ = Len(Contents) - i + 1 THEN -1 ELSE @ - 1]]
<1> DEFINE s == Hand[0]
           r == Removed(s, i)
           M == [Hand EXCEPT ![0] = r]
           h2 == heap'
           x == s[i]
           fr == Freed(stack, x)
           n == Len(stack)
<1>1. i \in 1 .. Len(s) /\ Cut(heap, h2, s, i)
  BY DEF Taken
<1>2. /\ Contents = DataOf(heap, s) /\ Contents \in Seq(Data)
      /\ Len(Contents) = Len(s) /\ DOMAIN Walks = 1 .. n
      /\ DOMAIN Contents = 1 .. Len(s)
      /\ \A k \in 1 .. n : Walks[k] = Seen(heap, s, Hand[k], stack[k])
  BY SeenFacts
<1>3. /\ IsHeap(heap) /\ Linked(heap, queue.head, s) /\ stack \in Seq(WalkType)
      /\ s \in Seq(DOMAIN heap) /\ Different(s)
  BY IntactHand DEF Linked, Different
<1>4. M[0] = r /\ \A k \in 1 .. n : M[k] = Hand[k]
  <2>1. DOMAIN Hand = 0 .. n /\ 0 \in 0 .. n
    BY <1>3, NoWalks DEF Hand, ListsOf
  <2>2. \A k \in 1 .. n : k \in 0 .. n /\ k # 0
    BY HandLists
  <2> QED
    BY <2>1, <2>2
<1>5. Len(fr) = n
  BY <1>3, FreedWalks
<1> HIDE DEF M, h2
<1>6. DataOf(h2, r) = Removed(Contents, i)
  BY <1>1, <1>2, <1>3, DataRemoved
<1>7. ASSUME NEW k \in 1 .. n
      PROVE  Seen(h2, r, Hand[k], fr[k]) =
                 [Walks[k] EXCEPT !.left =
                    IF @ <= Len(Contents) - i THEN @
                    ELSE IF @ = Len(Contents) - i + 1 THEN -1 ELSE @ - 1]
  <2> DEFINE w == stack[k]
             v == fr[k]
             t == Hand[k]
             left == LeftBy(s, w)
             left2 == IF left <= Len(s) - i THEN left
                      ELSE IF left = Len(s) - i + 1 THEN -1 ELSE left - 1
  <2>1. /\ t \in Seq(DOMAIN heap)
        /\ \A j \in 1 .. Len(t) : t[j] \in DOMAIN heap /\ t[j] # x
        /\ w.kind = "drain" => 1 \in 0 .. Len(t)
    BY <1>1, HandLists
  <2>2. /\ v.wild <=> w.wild \/ w.entry = x
        /\ v.kind = w.kind /\ v.at = w.at /\ v.entry = w.entry
        /\ v.match = w.match /\ v.destroys = w.destroys
    BY <1>3, FreedView
  <2> HIDE DEF w, v, t, fr
  <2>3. LeftBy(r, v) = left2
    <3> DEFINE S == DOMAIN heap
    <3>1. s \in Seq(S)
      BY <1>3
    <3> HIDE DEF S, s
    <3> QED
      BY <1>1, <1>3, <2>2, <3>1, LeftRemoved
  <2>4. w.kind = "drain" => DataOf(h2, After(t, 1)) = DataOf(heap, After(t, 1))
    <3> SUFFICES ASSUME w.kind = "drain"
                 PROVE  DataOf(h2, After(t, 1)) = DataOf(heap, After(t, 1))
      OBVIOUS
    <3>1. ASSUME NEW c \in DOMAIN heap, c # x PROVE h2[c].data = heap[c].data
      <4>1. c \in DOMAIN h2
        BY <1>1, <3>1 DEF Cut
      <4>2. h2[c] = [data |-> heap[c].data,
                     next |-> IF i > 1 /\ c = s[i - 1] THEN heap[s[i]].next
                                                       ELSE heap[c].next]
        BY <1>1, <4>1 DEF Cut
      <4> QED
        BY <4>2
    <3>2. /\ t \in Seq(DOMAIN heap) /\ 1 \in 0 .. Len(t)
          /\ SameData(heap, h2, t)
      BY <2>1, <3>1 DEF SameData
    <3> QED
      BY <3>2, DataKept
  <2> HIDE DEF left2, s, r
  <2>5. Seen(h2, r, t, v) = [Seen(heap, s, t, w) EXCEPT !.left = left2]
    BY <2>2, <2>3, <2>4, SeenChanged
  <2>6. Walks[k] = Seen(heap, s, t, w) /\ Seen(heap, s, t, w).left = left
    BY <1>2 DEF t, w, Seen
  <2> HIDE DEF left
  <2>7. left2 = IF Walks[k].left <= Len(Contents) - i THEN Walks[k].left
                ELSE IF Walks[k].left = Len(Contents) - i + 1 THEN -1
                ELSE Walks[k].left - 1
    BY <1>2, <2>6 DEF left2
  <2> QED
    BY <2>5, <2>6, <2>7 DEF t, w, v
<1>8. View(h2, M, fr) = [k \in DOMAIN Walks |->
          [Walks[k] EXCEPT !.left =
             IF @ <= Len(Contents) - i THEN @
             ELSE IF @ = Len(Contents) - i + 1 THEN -1 ELSE @ - 1]]
  <2>1. View(h2, M, fr) = [k \in 1 .. n |-> Seen(h2, r, Hand[k], fr[k])]
    BY <1>4, <1>5 DEF View
  <2> QED
    BY <1>2, <1>7, <2>1
<1> QED
  BY <1>1, <1>2, <1>6, <1>8 DEF M, h2

-----------------------------------------------------------------------------
(* Every call does what it does to a sequence *)

\* What a queue_foreach has left is at most the queue; -1 if it is lost.
LEMMA LeftBound ==
    ASSUME NEW S, NEW s \in Seq(S), Different(s), NEW w
    PROVE  /\ LeftBy(s, w) \in Int /\ LeftBy(s, w) <= Len(s)
           /\ w.kind # "foreach" => LeftBy(s, w) = 0
           /\ w.kind = "foreach" => (LeftBy(s, w) = 0 <=> w.entry = Null)
           /\ w.kind = "foreach" /\ w.entry # Null =>
                  (LeftBy(s, w) = -1 <=> w.wild \/ ~InList(w.entry, s))
<1>1. Len(s) \in Nat
  BY LenProperties
<1>2. CASE w.kind # "foreach" \/ w.entry = Null \/ w.wild \/ ~InList(w.entry, s)
  <2>1. \/ LeftBy(s, w) = 0 /\ (w.kind # "foreach" \/ w.entry = Null)
        \/ /\ LeftBy(s, w) = -1 /\ w.kind = "foreach" /\ w.entry # Null
           /\ w.wild \/ ~InList(w.entry, s)
    BY <1>2 DEF LeftBy
  <2> QED
    BY <1>1, <2>1
<1>3. CASE w.kind = "foreach" /\ w.entry # Null /\ ~w.wild /\ InList(w.entry, s)
  <2>1. PICK k \in 1 .. Len(s) : s[k] = w.entry
    BY <1>3 DEF InList
  <2>2. LeftBy(s, w) = Len(s) - k + 1
    BY <1>3, <2>1, PlaceIs DEF LeftBy
  <2> QED
    BY <1>1, <1>3, <2>2
<1> QED
  BY <1>2, <1>3

\* Where queue.c can be called, Queue can.
LEMMA AbstractCallable ==
    ASSUME Callable
    PROVE  Abstract!Callable
BY DEF Callable, Abstract!Callable

\* queue_push_tail is PushTail of Queue.
LEMMA PushTailImplements ==
    ASSUME Intact, NEW d \in Data, PushTail(d)
    PROVE  Abstract!PushTail(d)
<1> DEFINE i == Len(Hand[0])
<1>1. Pushed(d, i)
  BY PushTailDoes
<1>2. i = Len(Contents)
  BY SeenFacts
<1> HIDE DEF i
<1>3. /\ i \in 0 .. Len(Contents) /\ Contents \in Seq(Data)
      /\ Contents' = Inserted(Contents, i, d)
      /\ Walks' = [k \in DOMAIN Walks |->
            [Walks[k] EXCEPT !.left = IF @ > Len(Contents) - i THEN @ + 1 ELSE @]]
      /\ Owned' = Owned /\ crashed' = crashed
  BY <1>1, PushedSeen
<1>4. Contents' = Append(Contents, d)
  BY <1>2, <1>3, InsertedSeq
<1>5. Len(Contents) - i = 0
  BY <1>2, <1>3
<1>6. Abstract!Callable
  BY AbstractCallable DEF PushTail
<1>7. Walks' = [k \in DOMAIN Walks |->
            [Walks[k] EXCEPT !.left = IF @ > 0 THEN @ + 1 ELSE @]]
  BY <1>3, <1>5
<1> HIDE DEF Contents, Walks, Owned
<1> QED
  BY <1>3, <1>4, <1>6, <1>7 DEF Abstract!PushTail, Abstract!EachLeft

\* queue_push_head is PushHead of Queue.
LEMMA PushHeadImplements ==
    ASSUME Intact, NEW d \in Data, PushHead(d)
    PROVE  Abstract!PushHead(d)
<1> DEFINE i == 0
<1>1. Pushed(d, i)
  BY PushHeadDoes
<1>2. i = 0
  OBVIOUS
<1> HIDE DEF i
<1>3. /\ i \in 0 .. Len(Contents) /\ Contents \in Seq(Data)
      /\ Contents' = Inserted(Contents, i, d)
      /\ Walks' = [k \in DOMAIN Walks |->
            [Walks[k] EXCEPT !.left = IF @ > Len(Contents) - i THEN @ + 1 ELSE @]]
      /\ Owned' = Owned /\ crashed' = crashed
  BY <1>1, PushedSeen
<1>4. Contents' = <<d>> \o Contents
  BY <1>2, <1>3, InsertedSeq
<1>5. Walks' = Walks
  <2>1. /\ DOMAIN Walks = 1 .. Len(stack) /\ Walks = View(heap, Hand, stack)
        /\ Len(Contents) = Len(Hand[0]) /\ Len(Hand[0]) \in Nat
    BY SeenFacts, IntactHand
  <2>2. ASSUME NEW k \in 1 .. Len(stack)
        PROVE  [Walks[k] EXCEPT !.left = IF @ > Len(Contents) - i THEN @ + 1 ELSE @]
                   = Walks[k]
    <3>1. Walks[k] = Seen(heap, Hand[0], Hand[k], stack[k])
      BY SeenFacts
    <3>2. Walks[k].left \in Int /\ Walks[k].left <= Len(Hand[0])
      <4>1. Hand[0] \in Seq(DOMAIN heap) /\ Different(Hand[0])
        BY IntactHand DEF Linked, Different
      <4>2. Walks[k].left = LeftBy(Hand[0], stack[k])
        BY <3>1 DEF Seen
      <4> QED
        BY <4>1, <4>2, LeftBound
    <3>3. ~(Walks[k].left > Len(Contents) - i)
      BY <1>2, <2>1, <3>2
    <3> DEFINE w == Walks[k]
    <3>4. [w EXCEPT !.left = w.left] = w
      BY <3>1 DEF Seen
    <3> QED
      BY <3>3, <3>4
  <2>3. Walks = [k \in 1 .. Len(stack) |-> Walks[k]]
    BY <2>1 DEF View
  <2> QED
    BY <1>3, <2>1, <2>2, <2>3
<1>6. Abstract!Callable
  BY AbstractCallable DEF PushHead
<1> HIDE DEF Contents, Walks, Owned
<1> QED
  BY <1>3, <1>4, <1>5, <1>6 DEF Abstract!PushHead

\* The first entry with its data in S is the first datum in S
LEMMA FoundSeen ==
    ASSUME Intact, NEW S, NEW i \in 1 .. Len(Hand[0]), Found(S, i)
    PROVE  /\ i \in DOMAIN Contents /\ Contents[i] \in S
           /\ \A j \in 1 .. i - 1 : Contents[j] \notin S
           /\ Contents[i] = heap[Hand[0][i]].data
<1>1. /\ heap[List[i]].data \in S
      /\ \A j \in 1 .. i - 1 : heap[List[j]].data \notin S
      /\ List = Hand[0] /\ Len(Hand[0]) \in Nat
  BY IntactHand DEF Found
<1>2. /\ DOMAIN Contents = 1 .. Len(Hand[0])
      /\ \A k \in 1 .. Len(Hand[0]) : Contents[k] = heap[Hand[0][k]].data
  BY SeenFacts
<1>3. \A j \in 1 .. i - 1 : j \in 1 .. Len(Hand[0])
  <2> DEFINE n == Len(Hand[0])
  <2>1. n \in Nat /\ i \in 1 .. n
    BY <1>1
  <2> HIDE DEF n
  <2>2. \A j \in 1 .. i - 1 : j \in 1 .. n
    BY <2>1
  <2> QED
    BY <2>2 DEF n
<1> QED
  BY <1>1, <1>2, <1>3

\* queue_push_after is PushAfter of Queue.
LEMMA PushAfterImplements ==
    ASSUME Intact, NEW e \in Data, NEW d \in Data, PushAfter(e, d)
    PROVE  Abstract!PushAfter(e, d)
<1>1. PICK i \in 1 .. Len(Hand[0]) : Found({e}, i) /\ Pushed(d, i)
  BY PushAfterDoes
<1>2. /\ i \in 0 .. Len(Contents) /\ Contents \in Seq(Data)
      /\ Contents' = Inserted(Contents, i, d)
      /\ Walks' = [k \in DOMAIN Walks |->
            [Walks[k] EXCEPT !.left = IF @ > Len(Contents) - i THEN @ + 1 ELSE @]]
      /\ Owned' = Owned /\ crashed' = crashed
  BY <1>1, PushedSeen
<1>3. Contents' = SubSeq(Contents, 1, i) \o <<d>>
                      \o SubSeq(Contents, i + 1, Len(Contents))
  BY <1>2, InsertedSeq
<1>4. /\ i \in DOMAIN Contents /\ Contents[i] = e
      /\ \A j \in 1 .. i - 1 : Contents[j] # e
  BY <1>1, FoundSeen
<1>5. Abstract!Callable
  BY AbstractCallable DEF PushAfter
<1> HIDE DEF Contents, Walks, Owned
<1> QED
  BY <1>2, <1>3, <1>4, <1>5 DEF Abstract!PushAfter, Abstract!EachLeft

\* Taking a cell is Remove of Queue.
LEMMA TakenImplements ==
    ASSUME Intact, Callable, NEW S, NEW i \in 1 .. Len(Hand[0]), Found(S, i),
           Taken(i), stack' = Freed(stack, Hand[0][i]), crashed' = crashed
    PROVE  Abstract!Remove
<1>1. /\ i \in DOMAIN Contents /\ i \in 1 .. Len(Contents)
      /\ Contents \in Seq(Data)
      /\ DataOf(heap', Removed(Hand[0], i)) = Removed(Contents, i)
      /\ View(heap', [Hand EXCEPT ![0] = Removed(Hand[0], i)],
              Freed(stack, Hand[0][i]))
           = [k \in DOMAIN Walks |->
                [Walks[k] EXCEPT !.left =
                   IF @ <= Len(Contents) - i THEN @
                   ELSE IF @ = Len(Contents) - i + 1 THEN -1 ELSE @ - 1]]
  BY TakenSeen
<1> DEFINE M == [Hand EXCEPT ![0] = Removed(Hand[0], i)]
<1>2. Memory(heap', queue', stack', M)
  BY DEF Taken
<1>3. M[0] = Removed(Hand[0], i)
  <2>1. DOMAIN Hand = 0 .. Len(stack) /\ 0 \in 0 .. Len(stack)
    BY IntactHand, NoWalks DEF Hand, ListsOf
  <2> QED
    BY <2>1
<1> HIDE DEF M
<1>4. Contents' = DataOf(heap', M[0]) /\ Walks' = View(heap', M, stack')
  BY <1>2, SeenNext
<1>5. Contents' = SubSeq(Contents, 1, i - 1)
                      \o SubSeq(Contents, i + 1, Len(Contents))
  BY <1>1, <1>3, <1>4, RemovedSeq
<1>6. Walks' = [k \in DOMAIN Walks |->
                [Walks[k] EXCEPT !.left =
                   IF @ <= Len(Contents) - i THEN @
                   ELSE IF @ = Len(Contents) - i + 1 THEN -1 ELSE @ - 1]]
  BY <1>1, <1>4 DEF M
<1>7. Owned' = Owned
  <2>1. /\ Alike(stack, stack') /\ stack' \in Seq(WalkType)
        /\ queue'.ref_count = queue.ref_count
    BY IntactHand, AlikeSelf, FreedWalks DEF Taken
  <2> QED
    BY <2>1, OwnedAlike
<1>8. Contents[i] \in S /\ \A j \in 1 .. i - 1 : Contents[j] \notin S
  BY FoundSeen
<1>9. \A j \in 1 .. i - 1 : Contents[j] \notin {Contents[i]}
  BY <1>8
<1>10. Abstract!Callable
  BY AbstractCallable
<1> HIDE DEF Contents, Walks, Owned
<1> QED
  BY <1>1, <1>5, <1>6, <1>7, <1>9, <1>10
     DEF Abstract!Remove, Abstract!Without, Abstract!First, Abstract!LeftWithout,
         Abstract!EachLeft, Abstract!Lost

\* queue_remove and queue_remove_if are Remove of Queue.
LEMMA RemoveImplements ==
    ASSUME Intact, NEW S \in SUBSET Data, Remove(S)
    PROVE  Abstract!Remove
<1>1. PICK i \in 1 .. Len(Hand[0]) :
          Found(S, i) /\ Taken(i) /\ stack' = Freed(stack, Hand[0][i])
  BY RemoveDoes
<1>2. Callable /\ crashed' = crashed
  BY DEF Remove
<1> QED
  BY <1>1, <1>2, TakenImplements

\* queue_pop_head is Remove of Queue.
LEMMA PopHeadImplements ==
    ASSUME Intact, PopHead
    PROVE  Abstract!Remove
<1>1. /\ Taken(1) /\ stack' = Freed(stack, Hand[0][1])
      /\ Callable /\ crashed' = crashed
  BY PopTakes DEF PopHead
<1>2. 1 \in 1 .. Len(Hand[0]) /\ List = Hand[0] /\ DOMAIN List = 1 .. Len(Hand[0])
  BY <1>1, IntactHand DEF Taken
<1>3. Found({heap[List[1]].data}, 1)
  <2>1. 1 .. 1 - 1 = {}
    OBVIOUS
  <2> QED
    BY <1>2, <2>1 DEF Found
<1> QED
  BY <1>1, <1>2, <1>3, TakenImplements

\* The walks with one more, and with one less
LEMMA ViewAppended ==
    ASSUME NEW t \in Seq(WalkType), NEW w \in WalkType, NEW h, NEW L,
           DOMAIN L = 0 .. Len(t), NEW first, NEW last
    PROVE  View(h, StackedOn(L, Len(t), first, last), Append(t, w))
               = Append(View(h, [L EXCEPT ![0] = first], t), Seen(h, first, last, w))
<1> DEFINE n == Len(t)
           M == StackedOn(L, n, first, last)
           K == [L EXCEPT ![0] = first]
           u == Append(t, w)
           v == View(h, K, t)
           x == Seen(h, first, last, w)
           r == View(h, M, u)
           T == {v[i] : i \in 1 .. n} \cup {x}
<1>1. n \in Nat
  BY LenProperties
<1>2. Len(u) = n + 1 /\ u[n + 1] = w /\ \A i \in 1 .. n : u[i] = t[i]
  BY AppendProperties
<1>3. M[0] = first /\ M[n + 1] = last /\ \A i \in 1 .. n : M[i] = L[i]
  BY <1>1 DEF StackedOn
<1>4. K[0] = first /\ \A i \in 1 .. n : K[i] = L[i]
  <2>1. 0 \in 0 .. n /\ \A i \in 1 .. n : i \in 0 .. n /\ i # 0
    BY <1>1
  <2> QED
    BY <2>1
<1> HIDE DEF M, K, u
<1>5. DOMAIN v = 1 .. n /\ \A i \in 1 .. n : v[i] = Seen(h, first, L[i], t[i])
  BY <1>4 DEF View
<1>6. v = [i \in 1 .. n |-> v[i]]
  BY DEF View
<1>7. r = [i \in 1 .. n + 1 |-> Seen(h, M[0], M[i], u[i])]
  BY <1>2 DEF View
<1> HIDE DEF n, v, r, x
<1>8. v \in Seq(T) /\ Len(v) = n
  <2>1. v \in [1 .. n -> T]
    BY <1>6
  <2> HIDE DEF T
  <2> QED
    BY <1>1, <2>1, LenOfFunction
<1>9. x \in T
  OBVIOUS
<1> HIDE DEF T
<1>10. /\ Append(v, x) \in Seq(T) /\ Len(Append(v, x)) = n + 1
       /\ Append(v, x)[n + 1] = x /\ \A i \in 1 .. n : Append(v, x)[i] = v[i]
  BY <1>8, <1>9, AppendProperties
<1>11. \A i \in 1 .. n + 1 : i = n + 1 \/ i \in 1 .. n
  BY <1>1
<1>12. n + 1 \in 1 .. n + 1 /\ \A i \in 1 .. n : i \in 1 .. n + 1
  BY <1>1
<1>13. \A i \in 1 .. n + 1 : r[i] = Append(v, x)[i]
  <2>1. r[n + 1] = x
    BY <1>2, <1>3, <1>7, <1>12 DEF x
  <2>2. \A i \in 1 .. n : r[i] = v[i]
    BY <1>2, <1>3, <1>5, <1>7, <1>12
  <2> QED
    BY <1>10, <1>11, <2>1, <2>2
<1>14. r \in Seq(T) /\ Len(r) = n + 1
  <2>1. \A i \in 1 .. n + 1 : r[i] \in T
    BY <1>9, <1>10, <1>11, <1>13, <1>8, ElementOfSeq
  <2>2. r \in [1 .. n + 1 -> T]
    BY <1>7, <2>1
  <2> QED
    BY <1>1, <2>2, LenOfFunction
<1>15. r = Append(v, x)
  <2> DEFINE a == Append(v, x)
  <2>1. a \in Seq(T) /\ Len(a) = n + 1 /\ \A i \in 1 .. n + 1 : r[i] = a[i]
    BY <1>10, <1>13
  <2> HIDE DEF a
  <2>2. r = a
    BY <1>14, <2>1, SeqEqual
  <2> QED
    BY <2>2 DEF a
<1> QED
  BY <1>15 DEF M, K, u, v, x, r, n

Front(v, m) == SubSeq(v, 1, m)

Begins(b, v, m, T) ==
    b \in Seq(T) /\ Len(b) = m /\ \A i \in 1 .. m : b[i] = v[i]

\* The front of a sequence.
LEMMA FrontElements ==
    ASSUME NEW T, NEW v, NEW m \in Nat, \A i \in 1 .. m : v[i] \in T
    PROVE  Begins(Front(v, m), v, m, T)
BY SubSeqProperties DEF Front, Begins

\* r is v without its last element
Shorter(r, v, n) == v = [i \in 1 .. n |-> v[i]] /\ r = [i \in 1 .. n - 1 |-> v[i]]

\* A sequence without its last is Front.
LEMMA FrontIs ==
    ASSUME NEW n \in Nat, n # 0, NEW v, NEW r, Shorter(r, v, n)
    PROVE  Len(v) = n /\ r = SubSeq(v, 1, Len(v) - 1)
<1> DEFINE T == {v[i] : i \in 1 .. n}
<1>1. v \in Seq(T) /\ Len(v) = n
  <2>1. v \in [1 .. n -> T]
    BY DEF Shorter
  <2> HIDE DEF T
  <2> QED
    BY <2>1, LenOfFunction
<1>2. \A i \in 1 .. n : v[i] \in T
  OBVIOUS
<1> HIDE DEF T
<1> DEFINE m == n - 1
           b == Front(v, m)
<1>3. m \in Nat /\ \A i \in 1 .. m : i \in 1 .. n
  OBVIOUS
<1>4. /\ r = [i \in 1 .. m |-> r[i]]
      /\ \A i \in 1 .. m : r[i] = v[i]
  BY DEF Shorter
<1>5. \A i \in 1 .. m : v[i] \in T
  BY <1>2, <1>3
<1> HIDE DEF m
<1>6. b \in Seq(T) /\ Len(b) = m /\ \A i \in 1 .. m : b[i] = v[i]
  <2>1. m \in Nat
    BY <1>3
  <2>2. Begins(b, v, m, T)
    BY <1>5, <2>1, FrontElements
  <2> HIDE DEF b
  <2> QED
    BY <2>2 DEF Begins
<1>7. r \in Seq(T) /\ Len(r) = m
  <2>1. r \in [1 .. m -> T]
    BY <1>4, <1>5
  <2> QED
    BY <1>3, <2>1, LenOfFunction
<1> HIDE DEF b
<1>8. r = b
  <2>1. \A i \in 1 .. m : r[i] = b[i]
    BY <1>4, <1>6
  <2> QED
    BY <1>6, <1>7, <2>1, SeqEqual
<1> QED
  BY <1>1, <1>8 DEF b, m, Front

\* The walks a caller sees after the top one ended.
LEMMA ViewEnded ==
    ASSUME NEW st \in Seq(WalkType), st # << >>, NEW h, NEW L, NEW M,
           M[0] = L[0], \A i \in 1 .. Len(st) - 1 : M[i] = L[i],
           NEW t, Len(t) = Len(st) - 1, \A i \in 1 .. Len(st) - 1 : t[i] = st[i]
    PROVE  View(h, M, t)
               = SubSeq(View(h, L, st), 1, Len(View(h, L, st)) - 1)
<1> DEFINE n == Len(st)
           v == View(h, L, st)
           r == View(h, M, t)
<1>1. n \in Nat /\ n # 0
  BY LenProperties, EmptySeq
<1>2. v = [i \in 1 .. n |-> Seen(h, L[0], L[i], st[i])]
  BY DEF View
<1>3. r = [i \in 1 .. n - 1 |-> Seen(h, M[0], M[i], t[i])]
  BY DEF View
<1> HIDE DEF n, v, r
<1>4. \A i \in 1 .. n - 1 : i \in 1 .. n
  BY <1>1
<1>5. \A i \in 1 .. n - 1 : Seen(h, M[0], M[i], t[i]) = v[i]
  BY <1>2, <1>4 DEF n
<1>6. v = [i \in 1 .. n |-> v[i]] /\ r = [i \in 1 .. n - 1 |-> v[i]]
  BY <1>2, <1>3, <1>5
<1>7. Shorter(r, v, n)
  BY <1>6 DEF Shorter
<1>8. Len(v) = n /\ r = SubSeq(v, 1, Len(v) - 1)
  BY <1>1, <1>7, FrontIs
<1> QED
  BY <1>8 DEF v, r

-----------------------------------------------------------------------------
(* A walk begins *)

\* A walk that is about to go to the cell behind the k-th.
LEMMA LeftAfter ==
    ASSUME NEW h, IsHeap(h), NEW c, NEW s, Linked(h, c, s), NEW k \in 1 .. Len(s),
           NEW w, w.kind = "foreach", ~w.wild, w.entry = Next1(s, k)
    PROVE  LeftBy(s, w) = Len(s) - k
<1>1. Len(s) \in Nat /\ Different(s) /\ s \in Seq(DOMAIN h)
  BY LenProperties DEF Linked, Different
<1>2. CASE k = Len(s)
  <2>1. LeftBy(s, w) = 0
    BY <1>2 DEF LeftBy, Next1
  <2> QED
    BY <1>1, <1>2, <2>1
<1>3. CASE k # Len(s)
  <2>1. k + 1 \in 1 .. Len(s)
    BY <1>1, <1>3
  <2>2. w.entry = s[k + 1] /\ w.entry # Null
    BY <1>3, <2>1, Heads DEF Next1
  <2>3. InList(w.entry, s) /\ Place(w.entry, s) = k + 1
    BY <1>1, <2>1, <2>2, PlaceIs
  <2>4. LeftBy(s, w) = Len(s) - Place(w.entry, s) + 1
    BY <2>2, <2>3 DEF LeftBy
  <2> QED
    BY <1>1, <2>3, <2>4
<1> QED
  BY <1>2, <1>3

\* There is a list for the queue and one for each walk.
LEMMA HandDomain ==
    ASSUME Intact
    PROVE  /\ DOMAIN Hand = 0 .. Len(stack) /\ [Hand EXCEPT ![0] = Hand[0]] = Hand
           /\ \A x : [Hand EXCEPT ![0] = x][0] = x
           /\ \A x : \A i \in 1 .. Len(stack) : [Hand EXCEPT ![0] = x][i] = Hand[i]
<1>1. DOMAIN Hand = 0 .. Len(stack) /\ 0 \in 0 .. Len(stack)
  BY IntactHand, NoWalks DEF Hand, ListsOf
<1>2. Hand = [i \in 0 .. Len(stack) |-> Hand[i]]
  BY DEF Hand, ListsOf
<1>3. \A k \in 1 .. Len(stack) : k \in 0 .. Len(stack) /\ k # 0
  BY HandLists
<1> QED
  BY <1>1, <1>2, <1>3

\* There are as many walks in Queue as frames on the stack.
LEMMA WalksLength ==
    ASSUME Intact
    PROVE  Len(Walks) = Len(stack) /\ Len(stack) \in Nat
<1> DEFINE n == Len(stack)
           v == Walks
           T == {v[i] : i \in 1 .. n}
<1>1. n \in Nat
  BY IntactHand, NoWalks
<1>2. v = [i \in 1 .. n |-> v[i]]
  <2>1. v = View(heap, Hand, stack)
    BY SeenFacts
  <2> HIDE DEF v
  <2> QED
    BY <2>1 DEF View
<1> HIDE DEF n, v
<1>3. v \in [1 .. n -> T]
  BY <1>2
<1> HIDE DEF T
<1> QED
  BY <1>1, <1>3, LenOfFunction DEF n, v

\* Where a walk may begin here, it may in Queue.
LEMMA AbstractMayNest ==
    ASSUME Intact, MayNest
    PROVE  Abstract!MayNest
<1>1. Len(Walks) = Len(stack) /\ Len(stack) < MaxWalks
  BY WalksLength DEF MayNest
<1> HIDE DEF Walks
<1> QED
  BY <1>1 DEF Abstract!MayNest

\* What a caller sees of a walk that begins
LEMMA BegunSeen ==
    ASSUME Intact, NEW t \in Seq(WalkType), Len(t) = Len(stack),
           NEW w \in WalkType, stack' = Append(t, w),
           NEW first, NEW last, Memory(heap', queue', stack', Stacked(first, last))
    PROVE  /\ Contents' = DataOf(heap', first)
           /\ Walks' = Append(View(heap', [Hand EXCEPT ![0] = first], t),
                              Seen(heap', first, last, w))
<1> DEFINE M == StackedOn(Hand, Len(stack), first, last)
           h == heap'
<1>1. Memory(h, queue', stack', M)
  BY DEF Stacked
<1>2. Contents' = DataOf(h, M[0]) /\ Walks' = View(h, M, stack')
  BY <1>1, SeenNext DEF h
<1>3. M[0] = first
  <2>1. Len(stack) \in Nat
    BY WalksLength
  <2> DEFINE n == Len(stack)
  <2>2. 0 \in 0 .. n + 1
    BY <2>1
  <2> HIDE DEF n
  <2> QED
    BY <2>2 DEF StackedOn, n
<1>4. DOMAIN Hand = 0 .. Len(t)
  BY HandDomain
<1>5. M = StackedOn(Hand, Len(t), first, last)
  OBVIOUS
<1> HIDE DEF M, h
<1>6. View(h, M, stack') = Append(View(h, [Hand EXCEPT ![0] = first], t),
                                  Seen(h, first, last, w))
  <2>1. View(h, StackedOn(Hand, Len(t), first, last), Append(t, w))
            = Append(View(h, [Hand EXCEPT ![0] = first], t), Seen(h, first, last, w))
    <3> DEFINE L == Hand
    <3>1. DOMAIN L = 0 .. Len(t)
      BY <1>4
    <3> HIDE DEF L
    <3>2. View(h, StackedOn(L, Len(t), first, last), Append(t, w))
              = Append(View(h, [L EXCEPT ![0] = first], t), Seen(h, first, last, w))
      BY <3>1, ViewAppended, SMTT(40)
    <3> QED
      BY <3>2 DEF L
  <2> QED
    BY <1>5, <2>1
<1> QED
  BY <1>2, <1>3, <1>6 DEF h

\* The begin of a queue_foreach is Foreach of Queue.
LEMMA ForeachImplements ==
    ASSUME Intact, Foreach
    PROVE  Abstract!Foreach
<1> DEFINE s == Hand[0]
           none == {}
           empty == << >>
           no == FALSE
<1>1. PICK w : /\ 1 \in 1 .. Len(s)
               /\ NewWalk(w, "foreach", heap[s[1]].data, Next1(s, 1), Null, none, no)
               /\ stack' = Append(stack, w)
               /\ Memory(heap', queue', stack', Stacked(s, empty))
  BY ForeachDoes
<1>2. /\ IsHeap(heap) /\ Linked(heap, queue.head, s) /\ stack \in Seq(WalkType)
      /\ queue \in QueueType
  BY IntactHand
<1>3. /\ Contents = DataOf(heap, s) /\ Contents \in Seq(Data)
      /\ Len(Contents) = Len(s) /\ Contents[1] = heap[s[1]].data
      /\ Walks = View(heap, Hand, stack)
  BY <1>1, SeenFacts
<1>4. /\ heap' = heap /\ crashed' = crashed /\ queue'.ref_count = queue.ref_count + 1
      /\ Callable /\ MayNest
  <2>1. queue' = [queue EXCEPT !.ref_count = @ + 1]
    BY DEF Foreach
  <2> QED
    BY <1>2, <2>1 DEF Foreach, QueueType
<1>5. /\ w \in WalkType /\ w.kind = "foreach" /\ w.at = Contents[1] /\ ~w.wild
      /\ w.entry = Next1(s, 1) /\ w.match = none /\ w.destroys = no
  BY <1>1, <1>3 DEF NewWalk
<1> HIDE DEF s, empty, none, no
<1>6. /\ Contents' = DataOf(heap', s)
      /\ Walks' = Append(View(heap', [Hand EXCEPT ![0] = s], stack),
                         Seen(heap', s, empty, w))
  BY <1>1, <1>2, <1>5, BegunSeen
<1>7. [Hand EXCEPT ![0] = s] = Hand
  BY HandDomain DEF s
<1>8. LeftBy(s, w) = Len(Contents) - 1
  BY <1>1, <1>2, <1>3, <1>5, LeftAfter
<1>9. Seen(heap, s, empty, w)
          = Abstract!Walk("foreach", Contents[1], Len(Contents) - 1, << >>, {}, FALSE)
  BY <1>5, <1>8 DEF Seen, Abstract!Walk, none, no
<1>10. Contents' = Contents /\ Contents # << >>
  <2>1. Contents # << >>
    BY <1>1, <1>3
  <2> QED
    BY <1>3, <1>4, <1>6, <2>1
<1>11. Walks' = Append(Walks, Abstract!Walk("foreach", Contents[1],
                                  Len(Contents) - 1, << >>, {}, FALSE))
  BY <1>3, <1>4, <1>6, <1>7, <1>9
<1>12. Owned' = Owned
  <2> DEFINE t == stack'
             r == queue'.ref_count
  <2>1. /\ t \in Seq(WalkType) /\ Len(t) = Len(stack) + 1
        /\ t[Len(t)].kind = "foreach" /\ \A i \in 1 .. Len(stack) : t[i].kind = stack[i].kind
    BY <1>1, <1>2, <1>5, AppendProperties
  <2>2. Count(t) = Count(stack) + 1
    <3> HIDE DEF t
    <3> QED
      BY <1>2, <2>1, CountMore
  <2>3. Owned <=> queue.ref_count > Count(stack)
    BY DEF Owned, Count, Foreachs
  <2>4. Owned' <=> r > Count(t)
    BY DEF Owned, Count, Foreachs
  <2>5. Count(stack) \in Nat /\ queue.ref_count \in Int /\ r = queue.ref_count + 1
    BY <1>2, <1>4, CountFits DEF QueueType
  <2>6. Owned \in BOOLEAN /\ Owned' \in BOOLEAN
    BY DEF Owned
  <2> HIDE DEF t, r
  <2>7. r > Count(t) <=> queue.ref_count > Count(stack)
    BY <2>2, <2>5
  <2> QED
    BY <2>3, <2>4, <2>6, <2>7
<1>13. Abstract!Callable /\ Abstract!MayNest
  BY <1>4, AbstractCallable, AbstractMayNest
<1> HIDE DEF Contents, Walks, Owned
<1> QED
  BY <1>4, <1>10, <1>11, <1>12, <1>13 DEF Abstract!Foreach

\* A walk without a reference does not change who owns the queue.
LEMMA OwnedBegun ==
    ASSUME Intact, stack' \in Seq(WalkType), Len(stack') = Len(stack) + 1,
           \A i \in 1 .. Len(stack) : stack'[i].kind = stack[i].kind,
           stack'[Len(stack')].kind # "foreach",
           queue'.ref_count = queue.ref_count
    PROVE  Owned' = Owned
<1> DEFINE t == stack'
<1>1. /\ t \in Seq(WalkType) /\ Len(t) = Len(stack) + 1
      /\ \A i \in 1 .. Len(stack) : t[i].kind = stack[i].kind
      /\ t[Len(t)].kind # "foreach" /\ stack \in Seq(WalkType)
  BY IntactHand
<1>2. Count(t) = Count(stack)
  <2> HIDE DEF t
  <2> QED
    BY <1>1, CountMore
<1>3. Owned <=> queue.ref_count > Count(stack)
  BY DEF Owned, Count, Foreachs
<1>4. Owned' <=> queue'.ref_count > Count(t)
  BY DEF Owned, Count, Foreachs
<1>5. Owned \in BOOLEAN /\ Owned' \in BOOLEAN
  BY DEF Owned
<1> QED
  BY <1>2, <1>3, <1>4, <1>5

\* The data of the rest of a list is the rest of its data.
LEMMA DataAfter ==
    ASSUME NEW h, IsHeap(h), NEW c, NEW s, Linked(h, c, s), NEW i \in 0 .. Len(s)
    PROVE  DataOf(h, After(s, i)) = After(DataOf(h, s), i)
<1> DEFINE n == Len(s)
           d == DataOf(h, s)
           a == DataOf(h, After(s, i))
           b == After(d, i)
<1>1. n \in Nat /\ i \in 0 .. n /\ s \in Seq(DOMAIN h)
  BY LenProperties DEF Linked
<1>2. d \in Seq(Data) /\ Len(d) = n /\ \A k \in 1 .. n : d[k] = h[s[k]].data
  BY DataIs
<1>3. /\ Len(After(s, i)) = n - i
      /\ \A k \in 1 .. n - i : After(s, i)[k] = s[i + k]
  BY <1>1, AfterIs
<1>4. \A k \in 1 .. n - i : i + k \in 1 .. n
  BY <1>1
<1> HIDE DEF n, d
<1>5. b \in Seq(Data) /\ Len(b) = n - i /\ \A k \in 1 .. n - i : b[k] = d[i + k]
  BY <1>1, <1>2, AfterIs, ZenonT(30)
<1>6. a = [k \in 1 .. n - i |-> h[After(s, i)[k]].data]
  BY <1>3 DEF DataOf
<1> HIDE DEF a, b
<1>7. \A k \in 1 .. n - i : a[k] = b[k]
  <2>1. ASSUME NEW k \in 1 .. n - i PROVE a[k] = b[k]
    <3>1. a[k] = h[s[i + k]].data
      BY <1>3, <1>6
    <3>2. b[k] = d[i + k] /\ d[i + k] = h[s[i + k]].data
      BY <1>2, <1>4, <1>5
    <3> QED
      BY <3>1, <3>2
  <2> QED
    BY <2>1
<1> DEFINE m == n - i
<1>8. /\ m \in Nat /\ a = [k \in 1 .. m |-> a[k]] /\ b \in Seq(Data) /\ Len(b) = m
      /\ \A k \in 1 .. m : a[k] = b[k]
  BY <1>1, <1>5, <1>6, <1>7
<1> HIDE DEF m
<1>9. a \in Seq(Data) /\ Len(a) = m
  <2>1. a \in [1 .. m -> Data]
    BY <1>8, ElementOfSeq
  <2> QED
    BY <1>8, <2>1, LenOfFunction
<1>10. a = b
  BY <1>8, <1>9, SeqEqual
<1> QED
  BY <1>10 DEF a, b, d

\* queue_remove_all takes the whole list off the queue
LEMMA EmptiedSeen ==
    ASSUME Intact
    PROVE  View(heap, [Hand EXCEPT ![0] = << >>], stack) =
               [k \in DOMAIN Walks |->
                   [Walks[k] EXCEPT !.left = IF @ > 0 THEN -1 ELSE @]]
<1> DEFINE s == Hand[0]
           n == Len(stack)
           empty == << >>
           M == [Hand EXCEPT ![0] = empty]
<1>1. /\ DOMAIN Walks = 1 .. n
      /\ \A k \in 1 .. n : Walks[k] = Seen(heap, s, Hand[k], stack[k])
  BY SeenFacts
<1>2. M[0] = empty /\ \A k \in 1 .. n : M[k] = Hand[k]
  BY HandDomain
<1>3. s \in Seq(DOMAIN heap) /\ Different(s)
  BY IntactHand DEF Linked, Different
<1> HIDE DEF M
<1>4. ASSUME NEW k \in 1 .. n
      PROVE  Seen(heap, empty, Hand[k], stack[k]) =
                 [Walks[k] EXCEPT !.left = IF @ > 0 THEN -1 ELSE @]
  <2> DEFINE w == stack[k]
             t == Hand[k]
             left == LeftBy(s, w)
             left2 == IF left > 0 THEN -1 ELSE left
  <2> HIDE DEF w, t
  <2>1. LeftBy(empty, w) = left2
    <3> DEFINE S == DOMAIN heap
    <3>1. s \in Seq(S)
      BY <1>3
    <3> HIDE DEF S, s
    <3> QED
      BY <1>3, <3>1, LeftEmptied
  <2> HIDE DEF left2, s, empty
  <2>2. Seen(heap, empty, t, w) = [Seen(heap, s, t, w) EXCEPT !.left = left2]
    BY <2>1, SeenChanged
  <2>3. Walks[k] = Seen(heap, s, t, w) /\ Seen(heap, s, t, w).left = left
    BY <1>1 DEF t, w, Seen
  <2> HIDE DEF left
  <2>4. left2 = IF Walks[k].left > 0 THEN -1 ELSE Walks[k].left
    BY <2>3 DEF left2
  <2> QED
    BY <2>2, <2>3, <2>4 DEF t, w
<1>5. View(heap, M, stack) = [k \in 1 .. n |-> Seen(heap, empty, Hand[k], stack[k])]
  BY <1>2 DEF View
<1> QED
  BY <1>1, <1>4, <1>5 DEF M

\* The guards of Drain in Queue hold where queue_remove_all is called.
LEMMA DrainGuards ==
    ASSUME Intact, NEW destroys \in BOOLEAN, Drain(destroys)
    PROVE  /\ Abstract!Callable /\ Abstract!MayNest
           /\ destroys => \A i \in DOMAIN Walks : ~Walks[i].destroys
<1>1. Callable /\ MayNest /\ (destroys => \A i \in DOMAIN stack : ~stack[i].destroys)
  BY DEF Drain
<1>2. DOMAIN stack = 1 .. Len(stack) /\ DOMAIN Walks = 1 .. Len(stack)
  BY IntactHand, NoWalks, SeenFacts
<1>3. \A i \in 1 .. Len(stack) : Walks[i].destroys = stack[i].destroys
  BY SeenFacts DEF Seen
<1>4. destroys => \A i \in DOMAIN Walks : ~Walks[i].destroys
  <2> HIDE DEF Walks
  <2> QED
    BY <1>1, <1>2, <1>3
<1> QED
  BY <1>1, <1>4, AbstractCallable, AbstractMayNest

\* queue_remove_all and queue_destroy of an empty queue are Drain of Queue.
LEMMA DestroyImplements ==
    ASSUME Intact, NEW destroys \in BOOLEAN, Drain(destroys), queue.head = Null
    PROVE  Abstract!Drain(destroys)
<1>1. /\ destroys /\ heap' = heap /\ crashed' = crashed /\ stack' = stack
      /\ queue' = Unref(queue)
  BY DEF Drain
<1>2. Contents = << >> /\ Contents = DataOf(heap, Hand[0]) /\ Walks = View(heap, Hand, stack)
  BY SeenFacts
<1>3. /\ queue \in QueueType /\ Memory(heap, queue, stack, Hand)
      /\ queue.ref_count \in Int
  BY IntactHand DEF QueueType
<1>4. Memory(heap', queue', stack', Hand)
  <2> DEFINE k == queue.ref_count - 1
  <2>1. k \in Int /\ queue' = [queue EXCEPT !.ref_count = k]
    BY <1>1, <1>3 DEF Unref
  <2> HIDE DEF k
  <2> QED
    BY <1>1, <1>3, <2>1, MemoryCounted
<1>5. Contents' = Contents /\ Walks' = Walks
  BY <1>1, <1>2, <1>4, SeenNext
<1>6. ~Owned'
  <2>1. Owned' <=> queue'.ref_count > Count(stack')
    BY DEF Owned, Count, Foreachs
  <2>2. queue.ref_count \in {Count(stack), Count(stack) + 1} /\ Count(stack) \in Nat
    BY <1>3, IntactHand, CountFits DEF Intact, Calls
  <2>3. queue'.ref_count = queue.ref_count - 1
    BY <1>1, <1>3 DEF Unref, QueueType
  <2> QED
    BY <1>1, <1>3, <2>1, <2>2, <2>3
<1>7. /\ Abstract!Callable /\ Abstract!MayNest
      /\ destroys => \A i \in DOMAIN Walks : ~Walks[i].destroys
  BY DrainGuards
<1> HIDE DEF Contents, Walks, Owned
<1> QED
  BY <1>1, <1>2, <1>5, <1>6, <1>7 DEF Abstract!Drain

\* So are those of a queue with cells.
LEMMA DrainImplements ==
    ASSUME Intact, NEW destroys \in BOOLEAN, Drain(destroys), queue.head # Null
    PROVE  Abstract!Drain(destroys)
<1> DEFINE s == Hand[0]
           none == {}
           empty == << >>
<1>1. PICK w : /\ 1 \in 1 .. Len(s)
               /\ NewWalk(w, "drain", heap[s[1]].data, Next1(s, 1), s[1], none, destroys)
               /\ stack' = Append(stack, w)
               /\ Memory(heap', queue', stack', Stacked(empty, s))
  BY DrainDoes
<1>2. /\ IsHeap(heap) /\ Linked(heap, queue.head, s) /\ stack \in Seq(WalkType)
      /\ queue \in QueueType
  BY IntactHand
<1>3. /\ Contents = DataOf(heap, s) /\ Contents \in Seq(Data)
      /\ Len(Contents) = Len(s) /\ Contents[1] = heap[s[1]].data
  BY <1>1, SeenFacts
<1>4. heap' = heap /\ crashed' = crashed /\ queue'.ref_count = queue.ref_count
  <2>1. queue' = [queue EXCEPT !.head = Null, !.tail = Null, !.entries = 0]
    BY DEF Drain
  <2> QED
    BY <1>2, <2>1 DEF Drain, QueueType
<1>5. /\ w \in WalkType /\ w.kind = "drain" /\ w.at = Contents[1]
      /\ w.match = none /\ w.destroys = destroys
  BY <1>1, <1>3 DEF NewWalk
<1> HIDE DEF s, empty, none
<1>6. /\ Contents' = DataOf(heap', empty)
      /\ Walks' = Append(View(heap', [Hand EXCEPT ![0] = empty], stack),
                         Seen(heap', empty, s, w))
  BY <1>1, <1>2, <1>5, BegunSeen
<1>7. View(heap, [Hand EXCEPT ![0] = empty], stack) =
          [k \in DOMAIN Walks |-> [Walks[k] EXCEPT !.left = IF @ > 0 THEN -1 ELSE @]]
  BY EmptiedSeen DEF empty
<1>8. DataOf(heap, After(s, 1)) = Tail(Contents)
  <2>1. 1 \in 0 .. Len(s)
    BY <1>1
  <2>2. DataOf(heap, After(s, 1)) = After(Contents, 1)
    BY <1>2, <1>3, <2>1, DataAfter
  <2>3. After(Contents, 1) = Tail(Contents)
    <3> DEFINE c == Contents
    <3>1. c \in Seq(Data)
      BY <1>3
    <3> HIDE DEF c
    <3>2. After(c, 1) = Tail(c)
      BY <3>1 DEF After
    <3> QED
      BY <3>2 DEF c
  <2> QED
    BY <2>2, <2>3
<1>9. LeftBy(empty, w) = 0
  BY <1>5 DEF LeftBy
<1>10. Seen(heap, empty, s, w)
           = Abstract!Walk("drain", Contents[1], 0, Tail(Contents), {}, destroys)
  BY <1>5, <1>8, <1>9 DEF Seen, Abstract!Walk, none
<1>11. Contents' = << >> /\ Contents # << >>
  <2>1. Contents # << >>
    BY <1>1, <1>3
  <2>2. DataOf(heap', << >>) = << >>
    BY DEF DataOf
  <2> QED
    BY <1>6, <2>1, <2>2 DEF empty
<1>12. Walks' = Append([k \in DOMAIN Walks |->
                           [Walks[k] EXCEPT !.left = IF @ > 0 THEN -1 ELSE @]],
                       Abstract!Walk("drain", Contents[1], 0, Tail(Contents), {}, destroys))
  BY <1>4, <1>6, <1>7, <1>10
<1>13. Owned' = Owned
  <2> DEFINE t == stack'
  <2>1. /\ t \in Seq(WalkType) /\ Len(t) = Len(stack) + 1
        /\ \A i \in 1 .. Len(stack) : t[i].kind = stack[i].kind
        /\ t[Len(t)].kind # "foreach"
    BY <1>1, <1>2, <1>5, AppendProperties
  <2> QED
    BY <1>4, <2>1, OwnedBegun
<1>14. /\ Abstract!Callable /\ Abstract!MayNest
       /\ destroys => \A i \in DOMAIN Walks : ~Walks[i].destroys
  BY DrainGuards
<1> HIDE DEF Contents, Walks, Owned
<1> QED
  BY <1>4, <1>11, <1>12, <1>13, <1>14
     DEF Abstract!Drain, Abstract!Emptied, Abstract!EachLeft, Abstract!Lost

\* The begin of a queue_remove_all with a match is Filter of Queue.
LEMMA FilterImplements ==
    ASSUME Intact, NEW S \in SUBSET Data, Filter(S)
    PROVE  Abstract!Filter(S)
<1> DEFINE empty == << >>
           no == FALSE
<1>0. PICK i \in 1 .. Len(Hand[0]) : \E w :
          /\ Found(S, i) /\ Taken(i)
          /\ NewWalk(w, "filter", heap[Hand[0][i]].data, Null, Null, S, no)
          /\ stack' = Append(Freed(stack, Hand[0][i]), w)
          /\ Memory(heap', queue', stack', Stacked(Removed(Hand[0], i), empty))
  BY FilterDoes
<1>1. PICK w :
          /\ Found(S, i) /\ Taken(i)
          /\ NewWalk(w, "filter", heap[Hand[0][i]].data, Null, Null, S, no)
          /\ stack' = Append(Freed(stack, Hand[0][i]), w)
          /\ Memory(heap', queue', stack', Stacked(Removed(Hand[0], i), empty))
  BY <1>0
<1> DEFINE r == Removed(Hand[0], i)
           t == Freed(stack, Hand[0][i])
<1>2. /\ i \in DOMAIN Contents /\ i \in 1 .. Len(Contents)
      /\ Contents \in Seq(Data)
      /\ DataOf(heap', r) = Removed(Contents, i)
      /\ View(heap', [Hand EXCEPT ![0] = r], t)
           = [k \in DOMAIN Walks |->
                [Walks[k] EXCEPT !.left =
                   IF @ <= Len(Contents) - i THEN @
                   ELSE IF @ = Len(Contents) - i + 1 THEN -1 ELSE @ - 1]]
  BY <1>1, TakenSeen
<1>3. /\ i \in DOMAIN Contents /\ Contents[i] \in S
      /\ \A j \in 1 .. i - 1 : Contents[j] \notin S
      /\ Contents[i] = heap[Hand[0][i]].data
  BY <1>1, FoundSeen
<1>4. /\ t \in Seq(WalkType) /\ Len(t) = Len(stack) /\ Alike(stack, t)
      /\ stack \in Seq(WalkType)
  BY IntactHand, FreedWalks, AlikeSelf
<1>5. /\ w \in WalkType /\ w.kind = "filter" /\ w.at = Contents[i]
      /\ w.match = S /\ w.destroys = no
  BY <1>1, <1>3 DEF NewWalk
<1>6. /\ stack' = Append(t, w) /\ Memory(heap', queue', stack', Stacked(r, empty))
      /\ queue'.ref_count = queue.ref_count
  BY <1>1 DEF Taken
<1> HIDE DEF r, t, empty, no
<1>7. /\ Contents' = DataOf(heap', r)
      /\ Walks' = Append(View(heap', [Hand EXCEPT ![0] = r], t),
                         Seen(heap', r, empty, w))
  BY <1>4, <1>5, <1>6, BegunSeen
<1>8. LeftBy(r, w) = 0
  BY <1>5 DEF LeftBy
<1>9. Seen(heap', r, empty, w)
          = Abstract!Walk("filter", Contents[i], 0, << >>, S, FALSE)
  BY <1>5, <1>8 DEF Seen, Abstract!Walk, no
<1>10. Contents' = SubSeq(Contents, 1, i - 1)
                       \o SubSeq(Contents, i + 1, Len(Contents))
  BY <1>2, <1>7, RemovedSeq
<1>11. Walks' = Append([k \in DOMAIN Walks |->
                [Walks[k] EXCEPT !.left =
                   IF @ <= Len(Contents) - i THEN @
                   ELSE IF @ = Len(Contents) - i + 1 THEN -1 ELSE @ - 1]],
                Abstract!Walk("filter", Contents[i], 0, << >>, S, FALSE))
  BY <1>2, <1>7, <1>9
<1>12. Owned' = Owned
  <2> DEFINE u == stack'
  <2>1. /\ u \in Seq(WalkType) /\ Len(u) = Len(stack) + 1
        /\ u[Len(u)].kind # "foreach"
        /\ \A k \in 1 .. Len(stack) : u[k].kind = stack[k].kind
    <3>1. /\ u \in Seq(WalkType) /\ Len(u) = Len(t) + 1 /\ u[Len(u)] = w
          /\ \A k \in 1 .. Len(t) : u[k] = t[k]
      BY <1>4, <1>5, <1>6, AppendProperties
    <3>2. \A k \in 1 .. Len(stack) : t[k].kind = stack[k].kind
      BY <1>4 DEF Alike
    <3> HIDE DEF u
    <3> QED
      BY <1>4, <1>5, <3>1, <3>2
  <2> QED
    BY <1>6, <2>1, OwnedBegun
<1>13. Callable /\ MayNest /\ crashed' = crashed
  BY DEF Filter
<1>14. Abstract!Callable /\ Abstract!MayNest
  BY <1>13, AbstractCallable, AbstractMayNest
<1> HIDE DEF Contents, Walks, Owned
<1> QED
  BY <1>2, <1>3, <1>10, <1>11, <1>12, <1>13, <1>14
     DEF Abstract!Filter, Abstract!Without, Abstract!First, Abstract!LeftWithout,
         Abstract!EachLeft, Abstract!Lost

-----------------------------------------------------------------------------
(* The innermost callback returns *)

\* The top of the stack, as a caller sees it.
LEMMA TopSeen ==
    ASSUME Intact, stack # << >>
    PROVE  /\ Walks # << >> /\ Len(Walks) = Len(stack) /\ DOMAIN Walks = 1 .. Len(stack)
           /\ Abstract!Top = Seen(heap, Hand[0], Hand[Len(stack)], Top)
           /\ Abstract!Top = Walks[Len(stack)]
           /\ Len(stack) \in 1 .. Len(stack) /\ Top \in WalkType
<1> DEFINE n == Len(stack)
<1>1. n \in 1 .. n /\ Top = stack[n] /\ Top \in WalkType
  BY TopIs
<1>2. Len(Walks) = n /\ DOMAIN Walks = 1 .. n
  BY WalksLength, SeenFacts
<1>3. Walks[n] = Seen(heap, Hand[0], Hand[n], stack[n])
  BY <1>1, SeenFacts
<1> HIDE DEF Walks, n
<1>4. Walks # << >>
  <2>1. DOMAIN << >> = {}
    OBVIOUS
  <2> QED
    BY <1>1, <1>2, <2>1
<1> QED
  BY <1>1, <1>2, <1>3, <1>4 DEF Abstract!Top, n

\* An entry that a queue_foreach has kept and that was not freed is in the list
LEMMA TopListed ==
    ASSUME Intact, stack # << >>, Top.kind = "foreach", Top.entry # Null, ~Top.wild
    PROVE  InList(Top.entry, Hand[0])
<1> DEFINE n == Len(stack)
<1>1. Memory(heap, queue, stack, Hand)
  BY IntactHand
<1>2. n \in 1 .. n /\ Top = stack[n] /\ n \in Nat
  BY TopIs
<1>3. PICK j \in 0 .. n : (j = 0 \/ j > n) /\ InList(Top.entry, Hand[j])
  BY <1>1, <1>2 DEF Memory, Hands, Reached
<1>4. j = 0
  BY <1>2, <1>3
<1> QED
  BY <1>3, <1>4

\* The queue_foreach under way without the top.
LEMMA CountOthers ==
    ASSUME Intact, stack # << >>
    PROVE  /\ Count(Others) \in Nat /\ Count(stack) \in Nat
           /\ Count(stack) = IF Top.kind = "foreach" THEN Count(Others) + 1
                                                     ELSE Count(Others)
           /\ Count(Others) = 0 <=> Abstract!Foreachs(Len(stack) - 1) = {}
           /\ Count(stack) = 0 <=> Abstract!Foreachs(Len(stack)) = {}
<1> DEFINE n == Len(stack)
           t == Others
<1>1. n \in Nat /\ Top = stack[n] /\ DOMAIN stack = 1 .. n /\ stack \in Seq(WalkType)
  BY TopIs, IntactHand
<1>2. t \in Seq(WalkType) /\ Len(t) = n - 1 /\ \A i \in 1 .. n - 1 : t[i] = stack[i]
  BY OthersAre
<1>3. DOMAIN t = 1 .. n - 1 /\ n = Len(t) + 1
  BY <1>1, <1>2, LenProperties
<1>4. \A i \in 1 .. n : Walks[i].kind = stack[i].kind
  BY SeenFacts DEF Seen
<1>5. \A i \in 1 .. n - 1 : i \in 1 .. n
  BY <1>1
<1> HIDE DEF t
<1>6. {i \in DOMAIN t : t[i].kind = "foreach"} = Abstract!Foreachs(n - 1)
  <2> HIDE DEF Walks, n
  <2> QED
    BY <1>2, <1>3, <1>4, <1>5 DEF Abstract!Foreachs
<1>7. {i \in DOMAIN stack : stack[i].kind = "foreach"} = Abstract!Foreachs(n)
  <2> HIDE DEF Walks, n
  <2> QED
    BY <1>1, <1>4 DEF Abstract!Foreachs
<1>8. Count(t) \in Nat /\ (Count(t) = 0 <=> Abstract!Foreachs(n - 1) = {})
  BY <1>2, <1>6, CountFits
<1>9. Count(stack) \in Nat /\ (Count(stack) = 0 <=> Abstract!Foreachs(n) = {})
  BY <1>1, <1>7, CountFits
<1>10. Count(stack) = IF stack[n].kind = "foreach" THEN Count(t) + 1 ELSE Count(t)
  <2>1. \A i \in 1 .. Len(t) : stack[i].kind = t[i].kind
    BY <1>2
  <2>2. Count(stack) = IF stack[Len(stack)].kind = "foreach" THEN Count(t) + 1
                                                             ELSE Count(t)
    BY <1>1, <1>2, <1>3, <2>1, CountMore
  <2> QED
    BY <2>2
<1> QED
  BY <1>1, <1>8, <1>9, <1>10 DEF t

\* The references are those of the walks and the owner's.
LEMMA RefCount ==
    ASSUME Intact
    PROVE  /\ queue.ref_count \in {Count(stack), Count(stack) + 1}
           /\ Owned <=> queue.ref_count = Count(stack) + 1
           /\ Owned \in BOOLEAN /\ Count(stack) \in Nat
<1>1. Owned <=> queue.ref_count > Count(stack)
  BY DEF Owned, Count, Foreachs
<1>2. queue.ref_count \in {Count(stack), Count(stack) + 1} /\ Count(stack) \in Nat
  BY IntactHand, CountFits DEF Intact, Calls
<1>3. Owned \in BOOLEAN
  BY DEF Owned
<1> QED
  BY <1>1, <1>2, <1>3

\* The condition of the loop in queue_foreach
LEMMA GoesOnSeen ==
    ASSUME Intact, stack # << >>, Top.kind = "foreach"
    PROVE  /\ GoesOn <=> Abstract!GoesOn
           /\ GoesOn => (Top.wild <=> Abstract!Top.left = -1)
<1> DEFINE left == Abstract!Top.left
           s == Hand[0]
<1>1. left = LeftBy(s, Top) /\ Len(Walks) = Len(stack) /\ Top \in WalkType
  BY TopSeen DEF Seen
<1>2. s \in Seq(DOMAIN heap) /\ Different(s)
  BY IntactHand DEF Linked, Different
<1>3. /\ left = 0 <=> Top.entry = Null
      /\ Top.entry # Null => (left = -1 <=> Top.wild \/ ~InList(Top.entry, s))
  <2> DEFINE S == DOMAIN heap
             w == Top
  <2>1. s \in Seq(S) /\ w.kind = "foreach"
    BY <1>2
  <2> HIDE DEF S, s, w
  <2>2. /\ LeftBy(s, w) = 0 <=> w.entry = Null
        /\ w.entry # Null => (LeftBy(s, w) = -1 <=> w.wild \/ ~InList(w.entry, s))
    BY <1>2, <2>1, LeftBound
  <2> QED
    BY <1>1, <2>2 DEF w
<1>4. Contents = << >> <=> queue.head = Null
  BY SeenFacts
<1>5. queue.ref_count > 1 <=> (~Owned => Abstract!Foreachs(Len(Walks) - 1) # {})
  <2>1. /\ Count(Others) \in Nat /\ Count(stack) = Count(Others) + 1
        /\ Count(Others) = 0 <=> Abstract!Foreachs(Len(stack) - 1) = {}
    BY CountOthers
  <2>2. /\ queue.ref_count \in {Count(stack), Count(stack) + 1}
        /\ Owned <=> queue.ref_count = Count(stack) + 1
    BY RefCount
  <2> DEFINE a == Abstract!Foreachs(Len(stack) - 1) = {}
             c == Count(Others)
  <2>3. a <=> c = 0
    BY <2>1
  <2> HIDE DEF a, c
  <2>4. /\ c \in Nat /\ queue.ref_count \in {c + 1, c + 2}
        /\ (Owned <=> queue.ref_count = c + 2)
    BY <2>1, <2>2 DEF c
  <2>5. queue.ref_count > 1 <=> (~Owned => ~a)
    BY <2>3, <2>4
  <2> QED
    BY <1>1, <2>5 DEF a
<1>6. Abstract!GoesOn <=> /\ left # 0 /\ Contents # << >>
                          /\ ~Owned => Abstract!Foreachs(Len(Walks) - 1) # {}
  BY DEF Abstract!GoesOn
<1>7. Top.entry # Null /\ ~Top.wild => InList(Top.entry, s)
  BY TopListed
<1> HIDE DEF left, s, Contents, Walks, Owned
<1>8. GoesOn <=> Abstract!GoesOn
  BY <1>3, <1>4, <1>5, <1>6 DEF GoesOn
<1>9. GoesOn => (Top.wild <=> left = -1)
  BY <1>3, <1>7 DEF GoesOn
<1> QED
  BY <1>8, <1>9 DEF left

\* A queue_foreach that ends does not change who owns the queue.
LEMMA OwnedEnded ==
    ASSUME Intact, stack # << >>, Top.kind = "foreach", stack' = Others,
           queue'.ref_count = queue.ref_count - 1
    PROVE  Owned' = Owned
<1>1. /\ queue.ref_count \in {Count(stack), Count(stack) + 1}
      /\ Owned <=> queue.ref_count = Count(stack) + 1
      /\ Owned \in BOOLEAN
  BY RefCount
<1>2. Count(Others) \in Nat /\ Count(stack) = Count(Others) + 1
  BY CountOthers
<1>3. Owned' <=> queue'.ref_count > Count(stack')
  BY DEF Owned, Count, Foreachs
<1>4. Owned' \in BOOLEAN
  BY DEF Owned
<1>5. stack' = Others
  OBVIOUS
<1> DEFINE c == Count(Others)
           r == queue.ref_count
<1>6. /\ c \in Nat /\ r \in {c + 1, c + 2} /\ (Owned <=> r = c + 2)
      /\ (Owned' <=> r - 1 > c)
  BY <1>1, <1>2, <1>3, <1>5
<1> HIDE DEF c, r, Owned
<1>7. r - 1 > c <=> r = c + 2
  BY <1>6
<1> QED
  BY <1>1, <1>4, <1>6, <1>7

\* The innermost walk ends with nothing in its hand
LEMMA EndedSeen ==
    ASSUME Intact, stack # << >>, stack' = Others, heap' = heap,
           Memory(heap', queue', stack', Ended(Hand))
    PROVE  /\ Contents' = Contents
           /\ Walks' = SubSeq(Walks, 1, Len(Walks) - 1)
<1> DEFINE M == Ended(Hand)
           n == Len(stack)
           t == Others
<1>1. Contents' = DataOf(heap', M[0]) /\ Walks' = View(heap', M, stack')
  BY SeenNext
<1>2. Contents = DataOf(heap, Hand[0]) /\ Walks = View(heap, Hand, stack)
  BY SeenFacts
<1>3. n \in Nat /\ n # 0
  BY TopIs
<1>4. M[0] = Hand[0] /\ \A i \in 1 .. n - 1 : M[i] = Hand[i]
  <2>1. 0 \in 0 .. n - 1 /\ \A i \in 1 .. n - 1 : i \in 0 .. n - 1
    BY <1>3
  <2> QED
    BY <2>1 DEF Ended
<1>5. /\ Len(t) = n - 1 /\ \A i \in 1 .. n - 1 : t[i] = stack[i]
      /\ stack \in Seq(WalkType)
  BY OthersAre, IntactHand
<1> HIDE DEF M, t
<1>6. View(heap, M, t)
          = SubSeq(View(heap, Hand, stack), 1, Len(View(heap, Hand, stack)) - 1)
  BY <1>4, <1>5, ViewEnded
<1>7. Walks' = View(heap, M, t)
  BY <1>1 DEF t
<1>8. Contents' = Contents
  BY <1>1, <1>2, <1>4
<1> HIDE DEF Walks, Contents
<1> QED
  BY <1>2, <1>6, <1>7, <1>8

\* The last walk is given the next datum
Moved(g, at, left) == [g EXCEPT !.at = at, !.left = left]

\* What a caller sees of a walk that moves on.
LEMMA SeenMoved ==
    ASSUME NEW h, NEW s, NEW r, NEW w, NEW v, NEW left, NEW at,
           v.kind = w.kind, w.kind # "drain", v.match = w.match,
           v.destroys = w.destroys, LeftBy(s, v) = left, v.at = at
    PROVE  Seen(h, s, r, v) = Moved(Seen(h, s, r, w), at, left)
<1> DEFINE g == Seen(h, s, r, w)
           g1 == [g EXCEPT !.at = at]
           l == LeftBy(s, w)
<1>1. g1 = [kind |-> w.kind, at |-> at, left |-> l, rest |-> << >>,
            match |-> w.match, destroys |-> w.destroys]
  BY DEF Seen
<1>2. [g EXCEPT !.at = at, !.left = left] = [g1 EXCEPT !.left = left]
  <2> HIDE DEF g
  <2> QED
    OBVIOUS
<1> HIDE DEF g1
<1>3. [g1 EXCEPT !.left = left] = Seen(h, s, r, v)
  BY <1>1 DEF Seen
<1> HIDE DEF g
<1> QED
  BY <1>2, <1>3 DEF Moved, g

\* The next callback of queue_foreach is VisitNext of Queue.
LEMMA VisitGoesOnImplements ==
    ASSUME Intact, VisitNext, GoesOn, ~Top.wild
    PROVE  Abstract!VisitNext
<1> DEFINE s == Hand[0]
           n == Len(stack)
           old == Abstract!Top
<1>1. PICK k \in 1 .. Len(s) :
          /\ Top.entry = s[k]
          /\ LastChanged(stack', stack, heap[s[k]].data, Next1(s, k), Top.tmp)
          /\ Memory(heap', queue', stack', Hand)
          /\ UNCHANGED <<heap, queue, crashed>>
  BY VisitGoesOn
<1>2. /\ stack # << >> /\ Top.kind = "foreach" /\ ~crashed
      /\ Top.entry # Null
  BY DEF VisitNext, GoesOn
<1>3. /\ Walks # << >> /\ Len(Walks) = n /\ DOMAIN Walks = 1 .. n
      /\ old = Seen(heap, s, Hand[n], Top) /\ old = Walks[n]
      /\ n \in 1 .. n /\ Top = stack[n] /\ Top \in WalkType
  BY <1>2, TopSeen, TopIs
<1>4. /\ Contents = DataOf(heap, s) /\ Len(Contents) = Len(s)
      /\ Contents[k] = heap[s[k]].data
      /\ \A i \in 1 .. n : Walks[i] = Seen(heap, s, Hand[i], stack[i])
  BY SeenFacts
<1>5. /\ IsHeap(heap) /\ Linked(heap, queue.head, s) /\ Different(s)
      /\ s \in Seq(DOMAIN heap) /\ Len(s) \in Nat /\ stack \in Seq(WalkType)
  BY IntactHand DEF Linked, Different
<1> DEFINE t == stack'
           v == t[n]
<1>6. /\ t \in Seq(WalkType) /\ Len(t) = n
      /\ \A i \in 1 .. n : i # n => t[i] = stack[i]
      /\ v.at = Contents[k] /\ v.entry = Next1(s, k)
      /\ v.kind = Top.kind /\ v.match = Top.match /\ v.wild = Top.wild
      /\ v.destroys = Top.destroys
  BY <1>1, <1>3, <1>4 DEF LastChanged, Changed
<1> HIDE DEF s, v, t, n, old
<1>7. old.kind = "foreach" /\ old.left = Len(s) - k + 1
  <2>1. InList(Top.entry, s) /\ Place(Top.entry, s) = k
    BY <1>1, <1>5, PlaceIs
  <2>2. LeftBy(s, Top) = Len(s) - k + 1
    BY <1>2, <2>1 DEF LeftBy
  <2> QED
    BY <1>2, <1>3, <2>2 DEF Seen
<1>8. LeftBy(s, v) = Len(s) - k
  <2>1. v.kind = "foreach" /\ ~v.wild
    BY <1>2, <1>6
  <2> QED
    BY <1>5, <1>6, <2>1, LeftAfter
<1>9. Seen(heap, s, Hand[n], v)
          = [old EXCEPT !.at = Contents[Len(Contents) - old.left + 1],
                        !.left = old.left - 1]
  <2>1. Len(Contents) - old.left + 1 = k /\ old.left - 1 = Len(s) - k
    BY <1>4, <1>5, <1>7
  <2> DEFINE left == Len(s) - k
             at == Contents[k]
             r == Hand[n]
  <2>2. LeftBy(s, v) = left /\ v.at = at
    BY <1>6, <1>8
  <2> HIDE DEF left, at, r
  <2>3. Seen(heap, s, r, v) = [Seen(heap, s, r, Top) EXCEPT !.at = at, !.left = left]
    <3>1. v.kind = Top.kind /\ Top.kind # "drain"
      BY <1>2, <1>6
    <3> DEFINE w == Top
    <3>2. v.kind = w.kind /\ w.kind # "drain" /\ v.match = w.match /\ v.destroys = w.destroys
      BY <1>6, <3>1
    <3> HIDE DEF w
    <3>3. Seen(heap, s, r, v) = Moved(Seen(heap, s, r, w), at, left)
      BY <2>2, <3>2, SeenMoved
    <3> QED
      BY <3>3 DEF w, Moved
  <2> HIDE DEF Contents
  <2> QED
    BY <1>3, <2>1, <2>3 DEF left, at, r
<1>10. Walks' = View(heap, Hand, t) /\ Contents' = Contents
  <2>1. Contents' = DataOf(heap', Hand[0]) /\ Walks' = View(heap', Hand, stack')
    BY <1>1, SeenNext
  <2> QED
    BY <1>1, <1>4, <2>1 DEF s, t
<1>11. Walks' = [Walks EXCEPT ![n] =
           [old EXCEPT !.at = Contents[Len(Contents) - old.left + 1],
                       !.left = old.left - 1]]
  <2> DEFINE x == [old EXCEPT !.at = Contents[Len(Contents) - old.left + 1],
                              !.left = old.left - 1]
  <2>1. Walks' = [i \in 1 .. n |-> Seen(heap, s, Hand[i], t[i])]
    BY <1>6, <1>10 DEF View, s
  <2>2. Seen(heap, s, Hand[n], t[n]) = x
    BY <1>9 DEF v
  <2>3. \A i \in 1 .. n : i # n => Seen(heap, s, Hand[i], t[i]) = Walks[i]
    BY <1>4, <1>6
  <2> HIDE DEF x
  <2>4. Walks = [i \in 1 .. n |-> Walks[i]]
    <3>1. Walks = View(heap, Hand, stack)
      BY SeenFacts
    <3> QED
      BY <3>1 DEF View, n
  <2>5. [Walks EXCEPT ![n] = x] = [i \in 1 .. n |-> IF i = n THEN x ELSE Walks[i]]
    <3> HIDE DEF Walks
    <3> QED
      BY <2>4
  <2>6. Walks' = [i \in 1 .. n |-> IF i = n THEN x ELSE Walks[i]]
    BY <2>1, <2>2, <2>3
  <2> QED
    BY <2>5, <2>6 DEF x
<1>12. Abstract!GoesOn /\ old.left # -1
  BY <1>2, GoesOnSeen DEF old
<1>13. Owned' = Owned
  <2>1. Alike(stack, stack')
    <3>1. \A i \in 1 .. n : i = n \/ t[i] = stack[i]
      BY <1>6
    <3> QED
      BY <1>3, <1>6, <3>1 DEF Alike, n, t, v
  <2>2. stack' \in Seq(WalkType) /\ queue'.ref_count = queue.ref_count
    BY <1>1, <1>6 DEF t
  <2> QED
    BY <2>1, <2>2, OwnedAlike
<1>14. crashed' = crashed
  BY <1>1
<1> HIDE DEF Contents, Walks, Owned
<1>15. \/ Abstract!GoesOn /\ old.left # -1
       \/ FALSE
  BY <1>12
<1> QED
  BY <1>2, <1>3, <1>7, <1>10, <1>11, <1>12, <1>13, <1>14
     DEF Abstract!VisitNext, Abstract!WithTop, Abstract!Lost, old

\* So is its end, and the case of a cell that was freed.
LEMMA VisitImplements ==
    ASSUME Intact, VisitNext
    PROVE  Abstract!VisitNext
<1>1. stack # << >> /\ Top.kind = "foreach" /\ ~crashed /\ heap' = heap
  BY DEF VisitNext
<1>2. /\ Walks # << >> /\ Len(Walks) = Len(stack) /\ Abstract!Top.kind = "foreach"
      /\ Top \in WalkType
  BY <1>1, TopSeen DEF Seen
<1>3. /\ GoesOn <=> Abstract!GoesOn
      /\ GoesOn => (Top.wild <=> Abstract!Top.left = -1)
  BY <1>1, GoesOnSeen
<1>4. CASE GoesOn /\ ~Top.wild
  BY <1>4, VisitGoesOnImplements
<1>5. CASE ~GoesOn
  <2>1. /\ stack' = Others /\ queue'.ref_count = queue.ref_count - 1
        /\ Memory(heap', queue', stack', Ended(Hand)) /\ crashed' = crashed
    BY <1>5, VisitEnds
  <2>2. Contents' = Contents /\ Walks' = SubSeq(Walks, 1, Len(Walks) - 1)
    BY <1>1, <2>1, EndedSeen
  <2>3. Owned' = Owned
    BY <1>1, <2>1, OwnedEnded
  <2> HIDE DEF Contents, Walks, Owned
  <2> QED
    BY <1>1, <1>2, <1>3, <1>5, <2>1, <2>2, <2>3
       DEF Abstract!VisitNext, Abstract!Others
<1>6. CASE GoesOn /\ Top.wild
  <2>1. crashed' = TRUE /\ stack' = stack /\ queue' = queue
    BY <1>6 DEF VisitNext
  <2>2. Contents' = Contents /\ Walks' = Walks /\ Owned' = Owned
    BY <1>1, <2>1 DEF Contents, Walks, Owned, Datas, List, Chain, LeftOf, Listed,
                      Foreachs
  <2> HIDE DEF Contents, Walks, Owned
  <2> QED
    BY <1>1, <1>2, <1>3, <1>6, <2>1, <2>2 DEF Abstract!VisitNext, Abstract!Lost
<1> QED
  BY <1>4, <1>5, <1>6

\* A queue_remove_all frees the entry it has handed out
LEMMA DrainedSeen ==
    ASSUME Intact, stack # << >>, Top.kind = "drain", heap' = Without(heap, Top.tmp),
           stack' \in Seq(WalkType), Behind(stack', stack, Top.tmp),
           NEW m \in {Len(stack) - 1, Len(stack)}, Len(stack') = m,
           Memory(heap', queue', stack', Drained(m))
    PROVE  /\ Contents' = Contents /\ Walks' = View(heap', Drained(m), stack')
           /\ Drained(m)[0] = Hand[0]
           /\ \A i \in 1 .. Len(stack) - 1 :
                 Seen(heap', Hand[0], Drained(m)[i], stack'[i]) = Walks[i]
           /\ m = Len(stack) => Drained(m)[Len(stack)] = Removed(Hand[Len(stack)], 1)
<1> DEFINE n == Len(stack)
           s == Hand[0]
           x == Top.tmp
           M == Drained(m)
           h2 == heap'
           t == stack'
<1>1. /\ n \in 1 .. n /\ n \in Nat /\ Top = stack[n] /\ n # 0
      /\ stack \in Seq(WalkType)
  BY TopIs, IntactHand, Zenon
<1>2. /\ \A c \in DOMAIN h2 : h2[c] = heap[c]
      /\ DOMAIN h2 = DOMAIN heap \ {x}
      /\ Memory(heap, queue, stack, Hand)
  BY <1>1, FreesIs DEF Frees
<1>3. x = Hand[n][1] /\ 1 \in 1 .. Len(Hand[n])
  BY <1>1, <1>2, DrainHand
<1>4. \A i \in 0 .. n : \A k \in 1 .. Len(Hand[i]) :
          Hand[i][k] \in DOMAIN heap /\ Hand[i][k] \in Cells
  BY <1>2, MemoryLinks DEF InList
<1>5. ASSUME NEW i \in 0 .. n, i # n, NEW k \in 1 .. Len(Hand[i])
      PROVE  Hand[i][k] # x
  <2>1. \A a, b \in 0 .. n, c \in Cells :
            InList(c, Hand[a]) /\ InList(c, Hand[b]) => a = b
    BY <1>2 DEF Memory, Lists
  <2>2. n \in 0 .. n /\ Hand[i][k] \in Cells
    BY <1>1, <1>4
  <2>3. InList(Hand[i][k], Hand[i]) /\ InList(x, Hand[n])
    BY <1>3 DEF InList
  <2> QED
    BY <1>5, <2>1, <2>2, <2>3
<1>6. ASSUME NEW i \in 0 .. n, i # n, NEW k \in 1 .. Len(Hand[i])
      PROVE  h2[Hand[i][k]] = heap[Hand[i][k]]
  BY <1>2, <1>4, <1>5, <1>6
<1>7. /\ M[0] = s /\ \A i \in 1 .. n - 1 : M[i] = Hand[i]
      /\ m = n => M[n] = Removed(Hand[n], 1)
  <2>1. 0 \in 0 .. m /\ \A i \in 1 .. n - 1 : i \in 0 .. m /\ i # n
    BY <1>1
  <2>2. m = n => n \in 0 .. m
    BY <1>1
  <2> QED
    BY <1>1, <2>1, <2>2 DEF Drained, DrainedOn
<1>8. Contents' = DataOf(h2, M[0]) /\ Walks' = View(h2, M, t)
  BY SeenNext
<1>9. DataOf(h2, s) = DataOf(heap, s)
  <2>1. 0 \in 0 .. n /\ 0 # n
    BY <1>1
  <2>2. \A k \in 1 .. Len(s) : h2[s[k]] = heap[s[k]]
    BY <1>6, <2>1
  <2> HIDE DEF s, h2
  <2> QED
    BY <2>2 DEF DataOf
<1>10. Contents' = Contents
  <2>1. Contents = DataOf(heap, s)
    BY SeenFacts
  <2> QED
    BY <1>7, <1>8, <1>9, <2>1
<1>11. ASSUME NEW i \in 1 .. n - 1
       PROVE  Seen(h2, s, Hand[i], t[i]) = Walks[i]
  <2> DEFINE w == stack[i]
             v == t[i]
             r == Hand[i]
  <2>1. i \in 1 .. n /\ i \in 0 .. n /\ i # n
    BY <1>1
  <2>2. Walks[i] = Seen(heap, s, r, w)
    BY <2>1, SeenFacts
  <2>3. /\ v.kind = w.kind /\ v.at = w.at /\ v.entry = w.entry
        /\ v.match = w.match /\ v.destroys = w.destroys
        /\ v.wild <=> w.wild \/ w.entry = x
    BY DEF Behind
  <2>4. ~InList(x, s)
    <3>1. 0 \in 0 .. n /\ 0 # n
      BY <1>1
    <3> QED
      BY <1>5, <3>1 DEF InList
  <2>5. /\ r \in Seq(DOMAIN heap) /\ (w.kind = "drain" => 1 \in 0 .. Len(r))
        /\ \A k \in 1 .. Len(r) : h2[r[k]].data = heap[r[k]].data
    BY <1>6, <2>1, HandLists
  <2> HIDE DEF w, v, r, s, x, h2
  <2>6. LeftBy(s, v) = LeftBy(s, w)
    BY <2>3, <2>4 DEF LeftBy
  <2>7. w.kind = "drain" => DataOf(h2, After(r, 1)) = DataOf(heap, After(r, 1))
    <3> SUFFICES ASSUME w.kind = "drain"
                 PROVE  DataOf(h2, After(r, 1)) = DataOf(heap, After(r, 1))
      OBVIOUS
    <3> DEFINE S == DOMAIN heap
               i1 == 1
    <3>1. /\ r \in Seq(S) /\ i1 \in 0 .. Len(r)
          /\ SameData(heap, h2, r)
      BY <2>5 DEF SameData
    <3> HIDE DEF S, i1
    <3>2. DataOf(h2, After(r, i1)) = DataOf(heap, After(r, i1))
      BY <3>1, DataKept
    <3> QED
      BY <3>2 DEF i1
  <2> QED
    BY <2>2, <2>3, <2>6, <2>7 DEF Seen, v, r
<1> QED
  BY <1>7, <1>8, <1>10, <1>11

\* The end of a queue_remove_all without a match is DrainNext of Queue.
LEMMA DrainEndsImplements ==
    ASSUME Intact, DrainNext, Top.entry = Null
    PROVE  Abstract!DrainNext
<1> DEFINE n == Len(stack)
           m == n - 1
           old == Abstract!Top
<1>1. /\ stack # << >> /\ Top.kind = "drain"
      /\ stack' \in Seq(WalkType) /\ Len(stack') = m
      /\ Behind(stack', stack, Top.tmp)
      /\ queue' = (IF Top.destroys THEN Unref(queue) ELSE queue)
      /\ Memory(heap', queue', stack', Drained(m))
  BY DrainEnds
<1>2. heap' = Without(heap, Top.tmp) /\ crashed' = crashed /\ ~crashed
  BY DEF DrainNext
<1>3. /\ Walks # << >> /\ Len(Walks) = n
      /\ old = Seen(heap, Hand[0], Hand[n], Top)
      /\ n \in 1 .. n /\ n \in Nat /\ n # 0 /\ Top = stack[n] /\ Top \in WalkType
  BY <1>1, TopSeen, TopIs
<1>4. m \in {Len(stack) - 1, Len(stack)}
  OBVIOUS
<1> HIDE DEF m
<1>5. /\ Contents' = Contents /\ Walks' = View(heap', Drained(m), stack')
      /\ Drained(m)[0] = Hand[0]
      /\ \A i \in 1 .. n - 1 :
            Seen(heap', Hand[0], Drained(m)[i], stack'[i]) = Walks[i]
  BY <1>1, <1>2, <1>4, DrainedSeen
<1>6. Walks' = SubSeq(Walks, 1, Len(Walks) - 1)
  <2> DEFINE v == Walks
             r == Walks'
             h2 == heap'
             t == stack'
  <2>1. r = [i \in 1 .. n - 1 |-> v[i]]
    <3>1. r = [i \in 1 .. m |-> Seen(h2, Drained(m)[0], Drained(m)[i], t[i])]
      BY <1>1, <1>5 DEF View
    <3> QED
      BY <1>5, <3>1 DEF m
  <2>2. v = [i \in 1 .. n |-> v[i]]
    <3>1. v = View(heap, Hand, stack)
      BY SeenFacts
    <3> HIDE DEF v
    <3> QED
      BY <3>1 DEF View
  <2> HIDE DEF v, r, n
  <2>3. Shorter(r, v, n)
    BY <2>1, <2>2 DEF Shorter
  <2>4. r = SubSeq(v, 1, Len(v) - 1)
    BY <1>3, <2>3, FrontIs
  <2> QED
    BY <2>4 DEF v, r
<1>7. old.kind = "drain" /\ old.rest = << >> /\ old.destroys = Top.destroys
  <2>1. Memory(heap, queue, stack, Hand)
    BY IntactHand
  <2>2. Len(Hand[n]) = 1 /\ Hand[n] \in Seq(DOMAIN heap)
    BY <1>1, <1>3, <2>1, DrainHand
  <2>3. Len(After(Hand[n], 1)) = 0
    <3> DEFINE r == Hand[n]
    <3>1. r \in Seq(DOMAIN heap) /\ 1 \in 0 .. Len(r) /\ Len(r) - 1 = 0
      BY <2>2
    <3> HIDE DEF r
    <3> QED
      BY <3>1, AfterIs DEF r
  <2>4. DataOf(heap, After(Hand[n], 1)) = << >>
    <3> DEFINE r == After(Hand[n], 1)
    <3>1. 1 .. Len(r) = {}
      BY <2>3
    <3> HIDE DEF r
    <3> QED
      BY <3>1 DEF DataOf, r
  <2> QED
    BY <1>1, <1>3, <2>4 DEF Seen
<1>8. ~Owned' <=> ~Owned \/ Top.destroys
  <2> DEFINE t == stack'
             r == queue.ref_count
  <2>1. /\ t \in Seq(WalkType) /\ stack \in Seq(WalkType) /\ n = Len(t) + 1
        /\ \A i \in 1 .. Len(t) : stack[i].kind = t[i].kind
        /\ stack[n].kind # "foreach"
    <3>1. \A i \in 1 .. n - 1 : stack[i].kind = t[i].kind
      BY <1>1 DEF Behind
    <3> QED
      BY <1>1, <1>3, <3>1, IntactHand DEF m
  <2> HIDE DEF t
  <2>2. Count(stack) = Count(t)
    BY <2>1, CountMore
  <2>3. /\ r \in {Count(stack), Count(stack) + 1} /\ Count(stack) \in Nat
        /\ Owned <=> r = Count(stack) + 1
    BY RefCount
  <2>4. Owned' <=> queue'.ref_count > Count(t)
    BY DEF Owned, Count, Foreachs, t
  <2>5. queue'.ref_count = IF Top.destroys THEN r - 1 ELSE r
    BY <1>1, IntactHand DEF Unref, QueueType
  <2>6. Top.destroys \in BOOLEAN
    BY <1>3, WalkFields
  <2> DEFINE c == Count(stack)
             d == Top.destroys
  <2> HIDE DEF c, d, r, Owned
  <2>7. (IF d THEN r - 1 ELSE r) > c <=> r = c + 1 /\ ~d
    BY <2>3 DEF c
  <2>8. (Owned' <=> (IF d THEN r - 1 ELSE r) > c) /\ (Owned <=> r = c + 1)
    BY <2>2, <2>3, <2>4, <2>5 DEF c, d
  <2> QED
    BY <2>7, <2>8 DEF d
<1>9. (~Owned)' = (~Owned \/ old.destroys)
  <2>1. (~Owned)' <=> ~Owned'
    OBVIOUS
  <2> HIDE DEF Owned, old
  <2>2. (~Owned)' <=> (~Owned \/ old.destroys)
    BY <1>7, <1>8, <2>1
  <2> QED
    BY <2>2
<1> HIDE DEF Contents, Walks, Owned
<1>10. Walks # << >> /\ Abstract!Top.kind = "drain" /\ Abstract!Top.rest = << >>
  BY <1>3, <1>7 DEF old
<1>11. Walks' = Abstract!Others
  BY <1>6 DEF Abstract!Others
<1>12. (~Owned)' = (~Owned \/ Abstract!Top.destroys)
  BY <1>9 DEF old
<1> QED
  BY <1>2, <1>5, <1>10, <1>11, <1>12, Zenon DEF Abstract!DrainNext

\* The walk hands out the first of the rest
Handed(g) == [g EXCEPT !.at = Head(g.rest), !.rest = Tail(g.rest)]

\* Handing out the first of what is left.
LEMMA HandedIs ==
    ASSUME NEW kind, NEW at, NEW left, NEW rest, NEW match, NEW destroys
    PROVE  Handed(Abstract!Walk(kind, at, left, rest, match, destroys))
               = Abstract!Walk(kind, Head(rest), left, Tail(rest), match, destroys)
<1> DEFINE hd == Head(rest)
           tl == Tail(rest)
           g == Abstract!Walk(kind, at, left, rest, match, destroys)
           g1 == [g EXCEPT !.at = hd]
<1>1. g.rest = rest
  BY DEF Abstract!Walk
<1> HIDE DEF hd, tl
<1>2. g1 = [kind |-> kind, at |-> hd, left |-> left, rest |-> rest,
            match |-> match, destroys |-> destroys]
  BY DEF Abstract!Walk
<1>3. Handed(g) = [g1 EXCEPT !.rest = tl]
  <2> HIDE DEF g
  <2> QED
    BY <1>1 DEF Handed, hd, tl
<1> HIDE DEF g1
<1>4. [g1 EXCEPT !.rest = tl] = [kind |-> kind, at |-> hd, left |-> left, rest |-> tl,
                                 match |-> match, destroys |-> destroys]
  BY <1>2
<1> HIDE DEF g
<1> QED
  BY <1>3, <1>4 DEF hd, tl, Abstract!Walk, g

\* So is the next callback.
LEMMA DrainGoesOnImplements ==
    ASSUME Intact, DrainNext, Top.entry # Null
    PROVE  Abstract!DrainNext
<1> DEFINE n == Len(stack)
           m == n
           old == Abstract!Top
           r == Hand[n]
           s == Hand[0]
           h2 == heap'
           t == stack'
           v == t[n]
<1>1. /\ stack # << >> /\ Top.kind = "drain" /\ Top.entry \in DOMAIN heap
      /\ t \in Seq(WalkType) /\ Len(t) = m
      /\ Behind(t, stack, Top.tmp)
      /\ v.kind = "drain" /\ v.at = heap[Top.entry].data
      /\ v.match = Top.match /\ v.destroys = Top.destroys
      /\ queue' = queue
      /\ Memory(h2, queue', t, Drained(m))
  BY DrainGoesOn
<1>2. h2 = Without(heap, Top.tmp) /\ crashed' = crashed /\ ~crashed
  BY DEF DrainNext
<1>3. /\ Walks # << >> /\ Len(Walks) = n /\ DOMAIN Walks = 1 .. n
      /\ old = Seen(heap, s, r, Top) /\ old = Walks[n]
      /\ n \in 1 .. n /\ n \in Nat /\ n # 0 /\ Top = stack[n] /\ Top \in WalkType
  BY <1>1, TopSeen, TopIs
<1>4. m \in {Len(stack) - 1, Len(stack)} /\ m = n
  OBVIOUS
<1>5. /\ IsHeap(heap) /\ Memory(heap, queue, stack, Hand)
      /\ Frees(heap, h2, Top.tmp) /\ IsHeap(h2) /\ stack \in Seq(WalkType)
  BY <1>1, <1>2, <1>3, IntactHand, FreesIs DEF Memory, Types
<1> HIDE DEF m
<1>6. /\ Contents' = Contents /\ Walks' = View(h2, Drained(m), t)
      /\ Drained(m)[0] = s
      /\ \A i \in 1 .. n - 1 : Seen(h2, s, Drained(m)[i], t[i]) = Walks[i]
      /\ Drained(m)[n] = Removed(r, 1)
  BY <1>1, <1>2, <1>4, DrainedSeen
<1>7. /\ Linked(heap, Top.tmp, r) /\ r \in Seq(DOMAIN heap) /\ 1 \in 1 .. Len(r)
      /\ Len(r) \in Nat /\ Top.tmp = r[1] /\ Top.entry = Next1(r, 1)
      /\ Len(r) # 1 /\ Different(r)
  BY <1>1, <1>3, <1>5, DrainHand DEF Linked, Different
<1> DEFINE a == After(r, 1)
           rest == DataOf(heap, a)
<1>8. /\ a \in Seq(DOMAIN heap) /\ Len(a) = Len(r) - 1
      /\ \A k \in 1 .. Len(r) - 1 : a[k] = r[1 + k]
      /\ Removed(r, 1) = a
  <2> DEFINE S == DOMAIN heap
  <2>1. r \in Seq(S) /\ 1 \in 0 .. Len(r) /\ 1 \in 1 .. Len(r)
    BY <1>7
  <2> HIDE DEF S, r
  <2>2. /\ a \in Seq(S) /\ Len(a) = Len(r) - 1
        /\ \A k \in 1 .. Len(r) - 1 : a[k] = r[1 + k]
    BY <2>1, AfterIs
  <2>3. Removed(r, 1) = a
    BY <2>1, RemovedSeq
  <2> QED
    BY <2>2, <2>3 DEF S
<1> HIDE DEF r, s, h2, t, v, n, old, a, rest
<1>9. DataOf(h2, a) = rest
  <2>1. \A k \in 1 .. Len(a) : h2[a[k]] = heap[a[k]]
    <3> TAKE k \in 1 .. Len(a)
    <3>1. /\ k \in 1 .. Len(r) - 1 /\ 1 + k \in 1 .. Len(r) /\ 1 + k # 1
      BY <1>7, <1>8
    <3>2. a[k] = r[1 + k] /\ r[1 + k] \in DOMAIN heap /\ r[1 + k] # r[1]
      BY <1>7, <1>8, <3>1, ElementOfSeq DEF Different
    <3> QED
      BY <1>5, <1>7, <3>2 DEF Frees
  <2> QED
    BY <2>1 DEF DataOf, rest
<1>10. /\ rest \in Seq(Data) /\ Len(rest) = Len(r) - 1 /\ rest # << >>
       /\ rest[1] = heap[Top.entry].data
  <2>1. Linked(heap, Next1(r, 1), a)
    <3>1. 1 \in 0 .. Len(r)
      BY <1>7
    <3> QED
      BY <1>7, <3>1, LinkedSuffix DEF a
  <2>2. /\ rest \in Seq(Data) /\ Len(rest) = Len(a)
        /\ \A k \in 1 .. Len(a) : rest[k] = heap[a[k]].data
        /\ rest = << >> <=> Len(a) = 0
    BY <1>5, <2>1, DataIs DEF rest
  <2>3. Len(a) # 0 /\ 1 \in 1 .. Len(a) /\ 1 \in 1 .. Len(r) - 1
    BY <1>7, <1>8
  <2>4. a[1] = Top.entry
    <3>1. a[1] = r[2]
      BY <1>8, <2>3
    <3> QED
      BY <1>7, <3>1 DEF Next1
  <2> QED
    BY <1>8, <2>2, <2>3, <2>4
<1>11. DataOf(h2, After(Removed(r, 1), 1)) = Tail(rest)
  <2>1. Linked(h2, Begin(queue', t, n), a)
    <3>1. n \in 0 .. Len(t)
      BY <1>1, <1>3, <1>4
    <3> QED
      BY <1>1, <1>6, <1>8, <3>1, MemoryLinks
  <2>2. 1 \in 0 .. Len(a)
    BY <1>7, <1>8
  <2>3. DataOf(h2, After(a, 1)) = After(rest, 1)
    <3> DEFINE c == Begin(queue', t, n)
    <3>1. Linked(h2, c, a)
      BY <2>1
    <3> HIDE DEF c
    <3>2. DataOf(h2, After(a, 1)) = After(DataOf(h2, a), 1)
      BY <1>5, <2>2, <3>1, DataAfter
    <3> QED
      BY <1>9, <3>2
  <2>4. After(rest, 1) = Tail(rest)
    BY <1>10 DEF After
  <2> QED
    BY <1>8, <2>3, <2>4
<1>12. old = Abstract!Walk("drain", Top.at, 0, rest, Top.match, Top.destroys)
  BY <1>1, <1>3 DEF Seen, LeftBy, rest, a, Abstract!Walk
<1>13. Seen(h2, s, Removed(r, 1), v)
           = Abstract!Walk("drain", Head(rest), 0, Tail(rest), Top.match, Top.destroys)
  <2>1. v.at = Head(rest)
    BY <1>1, <1>10
  <2> DEFINE hd == Head(rest)
             tl == Tail(rest)
  <2> HIDE DEF hd, tl
  <2>2. v.at = hd /\ DataOf(h2, After(Removed(r, 1), 1)) = tl
    BY <1>11, <2>1 DEF hd, tl
  <2>3. Seen(h2, s, Removed(r, 1), v)
           = Abstract!Walk("drain", hd, 0, tl, Top.match, Top.destroys)
    BY <1>1, <2>2 DEF Seen, LeftBy, Abstract!Walk
  <2> QED
    BY <2>3 DEF hd, tl
<1>14. Seen(h2, s, Removed(r, 1), v) = Handed(old)
  BY <1>12, <1>13, HandedIs
<1>15. Walks' = [Walks EXCEPT ![n] = Handed(old)]
  <2> DEFINE x == Handed(old)
  <2>1. Walks' = [i \in 1 .. n |-> Seen(h2, s, Drained(m)[i], t[i])]
    BY <1>1, <1>4, <1>6 DEF View
  <2>2. Seen(h2, s, Drained(m)[n], t[n]) = x
    BY <1>6, <1>14 DEF v
  <2>3. \A i \in 1 .. n : i # n => Seen(h2, s, Drained(m)[i], t[i]) = Walks[i]
    <3>1. \A i \in 1 .. n : i # n => i \in 1 .. n - 1
      BY <1>3
    <3> QED
      BY <1>6, <3>1
  <2> HIDE DEF x
  <2>4. Walks = [i \in 1 .. n |-> Walks[i]]
    <3>1. Walks = View(heap, Hand, stack)
      BY SeenFacts
    <3> QED
      BY <3>1 DEF View, n
  <2>5. [Walks EXCEPT ![n] = x] = [i \in 1 .. n |-> IF i = n THEN x ELSE Walks[i]]
    <3> HIDE DEF Walks
    <3> QED
      BY <2>4
  <2>6. Walks' = [i \in 1 .. n |-> IF i = n THEN x ELSE Walks[i]]
    BY <2>1, <2>2, <2>3
  <2> QED
    BY <2>5, <2>6 DEF x
<1>16. Owned' = Owned
  <2>1. Alike(stack, stack')
    <3>1. \A i \in 1 .. n : i = n \/ i \in 1 .. n - 1
      BY <1>3
    <3>2. \A i \in 1 .. n - 1 : t[i].kind = stack[i].kind /\ t[i].destroys = stack[i].destroys
      BY <1>1 DEF Behind, n
    <3> QED
      BY <1>1, <1>3, <1>4, <3>1, <3>2 DEF Alike, n, t, v
  <2>2. stack' \in Seq(WalkType) /\ queue'.ref_count = queue.ref_count
    BY <1>1 DEF t
  <2> QED
    BY <2>1, <2>2, OwnedAlike
<1>17. (~Owned)' = ~Owned
  BY <1>16
<1> HIDE DEF Contents, Walks, Owned
<1>18. /\ Walks # << >> /\ Abstract!Top.kind = "drain" /\ Abstract!Top.rest # << >>
  BY <1>3, <1>10, <1>12 DEF old, Abstract!Walk
<1>19. Walks' = Abstract!WithTop([Abstract!Top EXCEPT !.at = Head(Abstract!Top.rest),
                                                     !.rest = Tail(Abstract!Top.rest)])
  BY <1>3, <1>15 DEF Abstract!WithTop, Handed, old
<1> QED
  BY <1>2, <1>6, <1>17, <1>18, <1>19, Zenon DEF Abstract!DrainNext

\* Both together.
LEMMA DrainNextImplements ==
    ASSUME Intact, DrainNext
    PROVE  Abstract!DrainNext
BY DrainEndsImplements, DrainGoesOnImplements

\* A walk without a reference that ends does not change who owns the queue.
LEMMA OwnedEndedAlone ==
    ASSUME Intact, stack # << >>, Top.kind # "foreach", stack' = Others,
           queue'.ref_count = queue.ref_count
    PROVE  Owned' = Owned
<1>1. Owned <=> queue.ref_count > Count(stack)
  BY DEF Owned, Count, Foreachs
<1>2. Count(stack) = Count(Others)
  BY CountOthers
<1>3. Owned' <=> queue'.ref_count > Count(stack')
  BY DEF Owned, Count, Foreachs
<1>4. Owned \in BOOLEAN /\ Owned' \in BOOLEAN
  BY DEF Owned
<1>5. Count(stack') = Count(stack)
  BY <1>2
<1> HIDE DEF Owned
<1> QED
  BY <1>1, <1>3, <1>4, <1>5

\* The queue is freed when neither its owner nor a queue_foreach holds it
LEMMA FreedSeen ==
    ASSUME Intact, stack # << >>
    PROVE  queue.ref_count = 0 <=> Abstract!Freed
<1>1. /\ queue.ref_count \in {Count(stack), Count(stack) + 1}
      /\ Owned <=> queue.ref_count = Count(stack) + 1
      /\ Count(stack) \in Nat
  BY RefCount
<1>2. Count(stack) = 0 <=> Abstract!Foreachs(Len(stack)) = {}
  BY CountOthers
<1>3. Len(Walks) = Len(stack)
  BY WalksLength
<1>4. Abstract!Freed <=> ~Owned /\ Abstract!Foreachs(Len(stack)) = {}
  BY <1>3 DEF Abstract!Freed
<1> DEFINE none == Abstract!Foreachs(Len(stack)) = {}
           c == Count(stack)
<1>5. (c = 0 <=> none) /\ (Abstract!Freed <=> ~Owned /\ none)
  BY <1>2, <1>4
<1>6. queue.ref_count \in {c, c + 1} /\ (Owned <=> queue.ref_count = c + 1) /\ c \in Nat
  BY <1>1
<1> HIDE DEF none, c, Owned
<1> QED
  BY <1>5, <1>6

\* Only the datum of the last walk is another
Relabelled(w, at) == [w EXCEPT !.at = at]

\* What a caller sees of a queue_remove_all with a match that goes on.
LEMMA SeenRelabelled ==
    ASSUME NEW h, NEW s, NEW r, NEW w, NEW v, NEW at, v.at = at,
           v.kind = w.kind, v.kind # "drain", v.kind # "foreach",
           v.match = w.match, v.destroys = w.destroys
    PROVE  Seen(h, s, r, v) = Relabelled(Seen(h, s, r, w), at)
BY DEF Seen, LeftBy, Relabelled

\* The next callback of such a walk is FilterNext of Queue.
LEMMA FilterGoesOnImplements ==
    ASSUME Intact, FilterNext, NEW i \in DOMAIN List, Found(Top.match, i),
           Unlinked(i), crashed' = crashed, queue.ref_count > 0,
           stack' = [Freed(stack, List[i]) EXCEPT
                        ![Len(stack)].at = heap[List[i]].data]
    PROVE  Abstract!FilterNext
<1> DEFINE n == Len(stack)
           old == Abstract!Top
           r == Removed(Hand[0], i)
           fr == Freed(stack, Hand[0][i])
           h2 == heap'
           t == stack'
           K == [Hand EXCEPT ![0] = r]
           at == Contents[i]
           E == [k \in DOMAIN Walks |->
                  [Walks[k] EXCEPT !.left =
                     IF @ <= Len(Contents) - i THEN @
                     ELSE IF @ = Len(Contents) - i + 1 THEN -1 ELSE @ - 1]]
<1>1. /\ stack # << >> /\ Top.kind = "filter" /\ i \in 1 .. Len(Hand[0])
      /\ Taken(i)
      /\ LastChanged(t, fr, heap[Hand[0][i]].data, Top.entry, Top.tmp)
      /\ Memory(h2, queue', t, K)
  BY FilterGoesOn
<1>2. /\ Contents \in Seq(Data) /\ i \in 1 .. Len(Contents)
      /\ DataOf(h2, r) = Removed(Contents, i) /\ View(h2, K, fr) = E
  BY <1>1, TakenSeen
<1>3. /\ i \in DOMAIN Contents /\ Contents[i] \in Top.match
      /\ \A j \in 1 .. i - 1 : Contents[j] \notin Top.match
      /\ Contents[i] = heap[Hand[0][i]].data
  BY <1>1, FoundSeen
<1>4. /\ Walks # << >> /\ Len(Walks) = n /\ DOMAIN Walks = 1 .. n
      /\ old = Seen(heap, Hand[0], Hand[n], Top)
      /\ n \in 1 .. n /\ Top = stack[n]
  BY <1>1, TopSeen, TopIs
<1>5. old.kind = "filter" /\ old.match = Top.match
  BY <1>1, <1>4 DEF Seen
<1>6. /\ fr \in Seq(WalkType) /\ Len(fr) = n /\ stack \in Seq(WalkType)
      /\ fr[n].kind = Top.kind /\ Alike(stack, fr)
  BY <1>4, IntactHand, FreedWalks, FreedView, AlikeSelf
<1>7. K[0] = r /\ \A k \in 1 .. n : K[k] = Hand[k]
  BY HandDomain
<1> DEFINE v == t[n]
           w == fr[n]
<1>8. /\ t \in Seq(WalkType) /\ Len(t) = n
      /\ \A k \in 1 .. n : k # n => t[k] = fr[k]
      /\ v.at = at /\ v.kind = w.kind /\ v.match = w.match /\ v.destroys = w.destroys
  BY <1>1, <1>3, <1>6 DEF LastChanged, Changed
<1>9. Contents' = DataOf(h2, r) /\ Walks' = View(h2, K, t)
  BY <1>1, <1>7, SeenNext
<1> HIDE DEF n, old, r, fr, h2, t, K, at, E, v, w
<1>10. Seen(h2, r, Hand[n], v) = Relabelled(Seen(h2, r, Hand[n], w), at)
  <2>1. v.kind # "drain" /\ v.kind # "foreach"
    BY <1>1, <1>6, <1>8 DEF w
  <2> QED
    BY <1>8, <2>1, SeenRelabelled
<1>11. Walks' = [E EXCEPT ![n].at = Contents[i]]
  <2> DEFINE x == Relabelled(E[n], at)
  <2>1. Walks' = [k \in 1 .. n |-> Seen(h2, r, Hand[k], t[k])]
    BY <1>7, <1>8, <1>9 DEF View
  <2>2. E = [k \in 1 .. n |-> Seen(h2, r, Hand[k], fr[k])]
    BY <1>2, <1>6, <1>7 DEF View
  <2>3. Seen(h2, r, Hand[n], t[n]) = x
    BY <1>4, <1>10, <2>2 DEF v, w
  <2>4. \A k \in 1 .. n : k # n => Seen(h2, r, Hand[k], t[k]) = E[k]
    BY <1>8, <2>2
  <2> HIDE DEF x
  <2>5. E = [k \in 1 .. n |-> E[k]]
    BY <2>2
  <2>6. [E EXCEPT ![n] = x] = [k \in 1 .. n |-> IF k = n THEN x ELSE E[k]]
    BY <2>5
  <2>7. Walks' = [k \in 1 .. n |-> IF k = n THEN x ELSE E[k]]
    BY <2>1, <2>3, <2>4
  <2>8. [E EXCEPT ![n].at = Contents[i]] = [E EXCEPT ![n] = x]
    BY DEF x, Relabelled, at
  <2> QED
    BY <2>6, <2>7, <2>8
<1>12. Contents' = SubSeq(Contents, 1, i - 1)
                       \o SubSeq(Contents, i + 1, Len(Contents))
  BY <1>2, <1>9, RemovedSeq
<1>13. Owned' = Owned
  <2>1. Alike(stack, stack')
    <3>1. \A k \in 1 .. n : k = n \/ t[k] = fr[k]
      BY <1>8
    <3>2. Alike(fr, t)
      BY <1>6, <1>8, <3>1 DEF Alike, v, w
    <3> QED
      BY <1>6, <3>2 DEF Alike, n, t
  <2>2. stack' \in Seq(WalkType) /\ queue'.ref_count = queue.ref_count
    BY <1>1, <1>8 DEF t, Taken
  <2> QED
    BY <2>1, <2>2, OwnedAlike
<1>14. ~Abstract!Freed
  <2>1. ~(queue.ref_count = 0)
    OBVIOUS
  <2> QED
    BY <1>1, <2>1, FreedSeen
<1>15. ~crashed
  BY DEF FilterNext
<1>16. Abstract!First(old.match, i)
  BY <1>3, <1>5 DEF Abstract!First
<1>17. Contents' = Abstract!Without(i)
  BY <1>12 DEF Abstract!Without
<1>18. E = [k \in DOMAIN Walks |->
             [Walks[k] EXCEPT !.left = Abstract!LeftWithout(i, @)]]
  BY DEF E, Abstract!LeftWithout, Abstract!Lost
<1> HIDE DEF Contents, Walks, Owned
<1>19. Walks' = [[k \in DOMAIN Walks |->
             [Walks[k] EXCEPT !.left = Abstract!LeftWithout(i, @)]]
                 EXCEPT ![Len(Walks)].at = Contents[i]]
  BY <1>4, <1>11, <1>18
<1> QED
  BY <1>3, <1>4, <1>5, <1>13, <1>14, <1>15, <1>16, <1>17, <1>19
     DEF Abstract!FilterNext, Abstract!EachLeft, old

\* So is its end.
LEMMA FilterNextImplements ==
    ASSUME Intact, FilterNext
    PROVE  Abstract!FilterNext
<1>1. stack # << >> /\ Top.kind = "filter" /\ ~crashed
  BY DEF FilterNext
<1>2. /\ Walks # << >> /\ Len(Walks) = Len(stack)
      /\ Abstract!Top.kind = "filter" /\ Abstract!Top.match = Top.match
  BY <1>1, TopSeen DEF Seen
<1>3. queue.ref_count = 0 <=> Abstract!Freed
  BY <1>1, FreedSeen
<1>4. CASE /\ queue.ref_count > 0
           /\ \E i \in DOMAIN List :
                 /\ Found(Top.match, i) /\ Unlinked(i)
                 /\ stack' = [Freed(stack, List[i]) EXCEPT
                                ![Len(stack)].at = heap[List[i]].data]
           /\ crashed' = crashed
  BY <1>4, FilterGoesOnImplements
<1>5. CASE /\ queue.ref_count > 0
           /\ \A i \in DOMAIN List : heap[List[i]].data \notin Top.match
           /\ stack' = Others /\ UNCHANGED <<heap, queue, crashed>>
  <2>1. Memory(heap', queue', stack', Ended(Hand))
    BY <1>1, <1>5, FilterEnds
  <2>2. Contents' = Contents /\ Walks' = SubSeq(Walks, 1, Len(Walks) - 1)
    BY <1>1, <1>5, <2>1, EndedSeen
  <2>3. Owned' = Owned
    BY <1>1, <1>5, OwnedEndedAlone
  <2>4. \A i \in DOMAIN Contents : Contents[i] \notin Top.match
    <3>1. /\ DOMAIN Contents = 1 .. Len(Hand[0])
          /\ \A k \in 1 .. Len(Hand[0]) : Contents[k] = heap[Hand[0][k]].data
          /\ DOMAIN List = 1 .. Len(Hand[0]) /\ List = Hand[0]
      BY SeenFacts, IntactHand
    <3> HIDE DEF Contents
    <3> QED
      BY <1>5, <3>1
  <2>5. ~Abstract!Freed
    BY <1>3, <1>5
  <2> HIDE DEF Contents, Walks, Owned
  <2> QED
    BY <1>1, <1>2, <1>5, <2>2, <2>3, <2>4, <2>5
       DEF Abstract!FilterNext, Abstract!Others
<1>6. CASE queue.ref_count = 0 /\ crashed' = TRUE /\ UNCHANGED <<heap, queue, stack>>
  <2>1. Contents' = Contents /\ Walks' = Walks /\ Owned' = Owned
    BY <1>6 DEF Contents, Walks, Owned, Datas, List, Chain, LeftOf, Listed, Foreachs
  <2> HIDE DEF Contents, Walks, Owned
  <2> QED
    BY <1>1, <1>2, <1>3, <1>6, <2>1 DEF Abstract!FilterNext
<1> QED
  BY <1>4, <1>5, <1>6 DEF FilterNext

-----------------------------------------------------------------------------
(* The list is a queue *)

\* A new queue is an empty one of Queue.
LEMMA InitImplements ==
    ASSUME Init
    PROVE  Abstract!Init
<1>1. /\ Intact /\ queue.head = Null /\ stack = << >> /\ crashed = FALSE
      /\ queue.ref_count = 1
  BY IntactInit DEF Init
<1>2. Contents = << >>
  BY <1>1, SeenFacts
<1>3. Walks = << >>
  <2>1. Walks = View(heap, Hand, stack)
    BY <1>1, SeenFacts
  <2>2. Len(stack) = 0 /\ 1 .. 0 = {}
    BY <1>1
  <2> HIDE DEF Walks
  <2> QED
    BY <2>1, <2>2 DEF View
<1>4. Owned
  <2>1. {i \in DOMAIN stack : stack[i].kind = "foreach"} = {}
    BY <1>1
  <2>2. Count(stack) = 0
    BY <2>1, FS_EmptySet DEF Count
  <2> QED
    BY <1>1, <2>2, RefCount
<1> HIDE DEF Contents, Walks, Owned
<1> QED
  BY <1>1, <1>2, <1>3, <1>4 DEF Abstract!Init

\* Every step is one of Queue.
LEMMA StepImplements ==
    ASSUME Intact, Next
    PROVE  Abstract!Next
<1>1. ASSUME NEW d \in Data, PushTail(d) PROVE Abstract!Next
  BY <1>1, PushTailImplements DEF Abstract!Next
<1>2. ASSUME NEW d \in Data, PushHead(d) PROVE Abstract!Next
  BY <1>2, PushHeadImplements DEF Abstract!Next
<1>3. ASSUME NEW e \in Data, NEW d \in Data, PushAfter(e, d) PROVE Abstract!Next
  BY <1>3, PushAfterImplements DEF Abstract!Next
<1>4. ASSUME PopHead PROVE Abstract!Next
  BY <1>4, PopHeadImplements DEF Abstract!Next
<1>5. ASSUME NEW S \in SUBSET Data, Remove(S) PROVE Abstract!Next
  BY <1>5, RemoveImplements DEF Abstract!Next
<1>6. ASSUME NEW S \in SUBSET Data, Filter(S) PROVE Abstract!Next
  BY <1>6, FilterImplements DEF Abstract!Next
<1>7. ASSUME Foreach PROVE Abstract!Next
  BY <1>7, ForeachImplements DEF Abstract!Next
<1>8. ASSUME NEW destroys \in BOOLEAN, Drain(destroys) PROVE Abstract!Next
  <2>1. Abstract!Drain(destroys)
    BY <1>8, DestroyImplements, DrainImplements
  <2> QED
    BY <2>1 DEF Abstract!Next
<1>9. ASSUME VisitNext PROVE Abstract!Next
  BY <1>9, VisitImplements DEF Abstract!Next
<1>10. ASSUME DrainNext PROVE Abstract!Next
  BY <1>10, DrainNextImplements DEF Abstract!Next
<1>11. ASSUME FilterNext PROVE Abstract!Next
  BY <1>11, FilterNextImplements DEF Abstract!Next
<1> QED
  BY <1>1, <1>2, <1>3, <1>4, <1>5, <1>6, <1>7, <1>8, <1>9, <1>10, <1>11 DEF Next

\* Queue stutters when QueueList does.
LEMMA StutterImplements ==
    ASSUME UNCHANGED vars
    PROVE  UNCHANGED Abstract!vars
<1>1. heap' = heap /\ queue' = queue /\ stack' = stack /\ crashed' = crashed
  BY DEF vars
<1>2. Contents' = Contents /\ Walks' = Walks /\ Owned' = Owned
  BY <1>1 DEF Contents, Walks, Owned, Datas, List, Chain, LeftOf, Listed, Foreachs
<1> HIDE DEF Contents, Walks, Owned
<1> QED
  BY <1>1, <1>2 DEF Abstract!vars

\* Every call on the linked list, and every return of a callback, is the one of
\* a sequence and its walks, for any number of cells, data and nested walks:
\* queue.c keeps the order of the data, hands each to a callback once, and
\* touches freed memory only where the callback broke its contract.
THEOREM ListIsAQueue == Spec => IsAQueue
<1>1. Init => Intact /\ Abstract!Init
  BY IntactInit, InitImplements
<1>2. Intact /\ [Next]_vars => Intact'
  BY IntactStep
<1>3. Intact /\ [Next]_vars => [Abstract!Next]_(Abstract!vars)
  BY StepImplements, StutterImplements
<1> QED
  BY <1>1, <1>2, <1>3, PTL DEF Spec, IsAQueue, Abstract!Spec

=============================================================================
